---------------------------- MODULE MCVaultStore ----------------------------
(***************************************************************************)
(* The instance of VaultStore that TLC explores: the service, which        *)
(* demands the lock, and two programs that degrade to consultation.        *)
(***************************************************************************)
EXTENDS VaultStore, TLC

CONSTANTS vaultd, gui, it

MCHandles == {vaultd, gui, it}
MCStrict  == {vaultd}

=============================================================================
