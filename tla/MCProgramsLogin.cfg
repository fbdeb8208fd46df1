SPECIFICATION AllSpec
CONSTANTS
 Pins = {p1, p2}
 StrongPins = {p1}
 NoPin = NoPin
 Requests = {r1, r2}
 SessionTtl = 1
 BaseLock = 1
 FreeFailures = 1
 MaxClock = 2
 MaxToken = 4
 Devices = {d1}
 Asked = {"manifest"}
 Conns = {k1, k2}
 CodeTtl = 1
 Panics = TRUE
 MaxSyncClock = 1
 MaxCode = 2
 MaxCert = 2
 Users = {"administrativo", "director"}
 NoUser = NoUser
 Apps = {a1, a2}
 Consoles = {c1}
 MaxDoorClock = 1
 MaxKey = 3
 MaxDay = 47600
 MaxLength = 6
 Deeds <- MCDeeds
 Details <- MCDetails
 Texts <- MCTexts
 MaxEntries = 3
INVARIANTS
 ExistingVaultCanBeEntered
CHECK_DEADLOCK FALSE
