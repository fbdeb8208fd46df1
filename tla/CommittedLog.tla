---------------------------- MODULE CommittedLog ----------------------------
(***************************************************************************)
(* What the database of the vault promises to the programs that share it   *)
(* (vaultd, the desktop application, the vault-it console).                *)
(*                                                                         *)
(* There is one committed content, which only the current owner may        *)
(* replace, and only by a content that extends it: nobody's committed      *)
(* change is ever lost to somebody else's save.  The state of the database *)
(* is abstracted to the sequence of changes it has absorbed.               *)
(***************************************************************************)
EXTENDS Naturals, Sequences

CONSTANTS
  Handles,      \* the open VaultDb values, one per process
  NoHandle,     \* nobody owns the database
  Changes       \* the changes a database can absorb

VARIABLES
  owner,        \* the handle allowed to commit, or NoHandle
  committed     \* the sequence of changes that survives every process

vars == <<owner, committed>>

\* t starts with s.
Extends(t, s) ==
  /\ Len(s) <= Len(t)
  /\ \A i \in 1..Len(s) : t[i] = s[i]

Init ==
  /\ owner = NoHandle
  /\ committed = <<>>

Acquire(h) ==
  /\ owner = NoHandle
  /\ owner' = h
  /\ UNCHANGED committed

Release(h) ==
  /\ owner = h
  /\ owner' = NoHandle
  /\ UNCHANGED committed

Commit(h) ==
  /\ owner = h
  /\ committed' \in Seq(Changes)
  /\ Extends(committed', committed)
  /\ UNCHANGED owner

Next == \E h \in Handles : Acquire(h) \/ Release(h) \/ Commit(h)

Spec == Init /\ [][Next]_vars

=============================================================================
