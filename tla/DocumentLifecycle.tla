------------------------- MODULE DocumentLifecycle -------------------------
(***************************************************************************)
(* What the vault promises about the records of its documents: a document  *)
(* enters with a fingerprint that is never replaced, goes to the trash and *)
(* back, is destroyed only from the active index and purged only from the  *)
(* trash, and never returns from either.                                   *)
(*                                                                         *)
(* One save may commit several of these moves at once, because what failed *)
(* to be saved earlier is still in memory; Leads is the set of net moves a *)
(* single process can make.                                                *)
(***************************************************************************)
CONSTANTS
  Docs,         \* vault_ids
  Contents,     \* fingerprints
  NoData        \* the fingerprint of a document that is not recorded

VARIABLE ledger \* what the saved database says of each document

Stages == {"free", "active", "trashed", "destroyed", "purged"}

Leads(from, to) ==
  \/ from = to
  \/ from = "free"    /\ to \in {"active", "trashed", "destroyed"}
  \/ from = "active"  /\ to \in {"trashed", "destroyed"}
  \/ from = "trashed" /\ to \in {"active", "purged"}

Kept(stage) == stage \in {"active", "trashed"}

Entry == [stage : Stages, sha : Contents \cup {NoData}]

Init == ledger = [d \in Docs |-> [stage |-> "free", sha |-> NoData]]

\* One save of the database.
Save ==
  /\ ledger' \in [Docs -> Entry]
  /\ \A d \in Docs :
       /\ Leads(ledger[d].stage, ledger'[d].stage)
       /\ Kept(ledger[d].stage) /\ Kept(ledger'[d].stage)
            => ledger'[d].sha = ledger[d].sha

Next == Save

Spec == Init /\ [][Next]_ledger

=============================================================================
