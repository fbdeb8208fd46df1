------------------------------- MODULE Programs -------------------------------
(***************************************************************************)
(* The programs around the vault that share no state in these models: the  *)
(* administration (the module this one extends), the synchronization       *)
(* channel, the desktop application, the keys of the door, the audit chain *)
(* and the two computations.  As no step of one reads what another writes, *)
(* each is followed by itself: Init chooses which.                         *)
(***************************************************************************)
EXTENDS AdminAccess

CONSTANTS Devices, Asked, Conns, CodeTtl, Panics, MaxSyncClock, MaxCode, MaxCert,
          Users, NoUser,
          Apps, Consoles, MaxDoorClock, MaxKey,
          MaxDay, MaxLength,
          Deeds, Details, Texts, MaxEntries

VARIABLES part,
          sClock, running, mutex, pairings, codes, authorized, registry, saved, certs,
          conn, thread, client, ident, born, expiry, opened,
          file, store, lock, door, let, on, ita, handle, copy, who, screen, modal,
          dClock, priv, pub, state, session, config, appKey, appPub, reports, keys,
          app, console, gone, raced,
          day, date, typed,
          audit, change

\* The standard users of the first configuration.
RoleOf == [u \in Users |-> CASE u = "director" -> "Director"
                             [] u = "coordinacion" -> "Coordinacion"
                             [] u = "docente" -> "Docente"
                             [] OTHER -> "Administrativo"]

Sync == INSTANCE SyncChannel WITH clock <- sClock, MaxClock <- MaxSyncClock
Desk == INSTANCE Desktop WITH disk <- store
Keys == INSTANCE Door WITH clock <- dClock, MaxClock <- MaxDoorClock
Date == INSTANCE CivilDate
Box  == INSTANCE Query
Chain == INSTANCE AuditChain WITH Pieces <- Texts, MaxLen <- MaxEntries

\* What the proofs about these programs assume of their constants.
ASSUME SyncLimits == Sync!Limits
ASSUME DoorLimits == Keys!Limits
ASSUME DateLimits == Date!Limits
ASSUME BoxLimits == Box!Limits
ASSUME ChainLimits == Chain!Limits

syncVars == <<sClock, running, mutex, pairings, codes, authorized, registry, saved, certs,
              conn, thread, client, ident, born, expiry, opened>>
deskVars == <<file, store, lock, door, let, on, ita, handle, copy, who, screen, modal>>
keysVars == <<dClock, priv, pub, state, session, config, appKey, appPub, reports, keys,
              app, console, gone, raced>>
dateVars == <<day, date>>
chainVars == <<audit, change>>
allVars == <<part, vars, syncVars, deskVars, keysVars, dateVars, typed, chainVars>>

AllInit ==
    /\ part \in {"admin", "sync", "desk", "keys", "date", "box", "chain"}
    /\ Init /\ (part # "admin" => disk.admin = NoPin)
    /\ Sync!Init /\ Desk!Init /\ Keys!Init /\ Date!Init /\ Box!Init
    /\ Chain!Init

\* The keys are followed until two creators have overlapped.
AllNext ==
    \/ part = "admin" /\ Next
                      /\ UNCHANGED <<part, syncVars, deskVars, keysVars, dateVars, typed, chainVars>>
    \/ part = "sync" /\ Sync!Next
                     /\ UNCHANGED <<part, vars, deskVars, keysVars, dateVars, typed, chainVars>>
    \/ part = "desk" /\ Desk!Next
                     /\ UNCHANGED <<part, vars, syncVars, keysVars, dateVars, typed, chainVars>>
    \/ part = "keys" /\ ~raced /\ Keys!Next
                     /\ UNCHANGED <<part, vars, syncVars, deskVars, dateVars, typed, chainVars>>
    \/ part = "date" /\ Date!Next
                     /\ UNCHANGED <<part, vars, syncVars, deskVars, keysVars, typed, chainVars>>
    \/ part = "box" /\ Box!Next
                    /\ UNCHANGED <<part, vars, syncVars, deskVars, keysVars, dateVars, chainVars>>
    \/ part = "chain" /\ Chain!Next
                      /\ UNCHANGED <<part, vars, syncVars, deskVars, keysVars, dateVars, typed>>

AllSpec == AllInit /\ [][AllNext]_allVars

-----------------------------------------------------------------------------
\* Every variable of every program has its type.
ProgramTypes ==
    CASE part = "admin" -> TypeOK
      [] part = "sync" -> Sync!TypeOK
      [] part = "desk" -> Desk!TypeOK
      [] part = "keys" -> Keys!TypeOK
      [] part = "date" -> Date!TypeOK
      [] part = "box" -> Box!TypeOK
      [] part = "chain" -> Chain!TypeOK

\* SyncChannel: a pairing code opens the channel once and in time.
CodeOpensOnceInTime == Sync!CodeOpensOnceInTime

\* SyncChannel: complete identity files get in until the service starts again.
IdentityLastsUntilRestart == part = "sync" => Sync!IdentityLastsUntilRestart

\* SyncChannel: devices that get in are in the registry the panel shows.
AuthorizedIsRecorded == part = "sync" => Sync!AuthorizedIsRecorded

\* SyncChannel: the requests in progress do not all wait for one another.
SomebodyGoesOn == part = "sync" => Sync!SomebodyGoesOn

\* Desktop, README-LINUX.md:136: the dialogs the user is offered can be answered.
DialogsCanBeAnswered == part = "desk" => Desk!DialogsCanBeAnswered

\* Desktop, lib.rs:376 of vault-gui: an existing vault goes straight to its login.
ExistingVaultCanBeEntered == part = "desk" => Desk!ExistingVaultCanBeEntered

\* Door: the halves of a key pair on disk belong together.
KeyPairsMatch == part = "keys" => Keys!KeyPairsMatch

\* Door: a report stays on disk and can be read.
ReportsStayReadable == part = "keys" => Keys!ReportsStayReadable

\* Door: keys made by the application keep the console out, against
\* ITConstructedDoor.md:37.
AppKeysShutTheConsoleOut == Keys!AppKeysShutTheConsoleOut

\* CivilDate: computed dates are those of the calendar.
DatesAreGregorian == part = "date" => Date!DatesAreGregorian

\* Query: a query is taken apart at its connectors outside quotation marks.
PartsAreThePieces == part = "box" => Box!PartsAreThePieces

\* AuditChain: what the program writes verifies.
WrittenChainVerifies == part = "chain" => Chain!WrittenChainVerifies

\* AuditChain: the rewriting of an entry with a successor is seen for ever.
InnerChangeIsSeen == part = "chain" => Chain!InnerChangeIsSeen

\* AuditChain: verification and the head hash together see every rewriting.
ChainAndHeadSeeAll == part = "chain" => Chain!ChainAndHeadSeeAll

\* AuditChain, README-LINUX.md:168: verification alone sees every rewriting.
AnyChangeBreaksChain == part = "chain" => Chain!AnyChangeBreaksChain
=============================================================================
