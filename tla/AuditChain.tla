----------------------------- MODULE AuditChain -----------------------------
(***************************************************************************)
(* The audit chain of crates/vault-store/src/lib.rs: every entry records   *)
(* the SHA-256 of the canonical text of the entry before it.               *)
(*                                                                         *)
(* The canonical text joins the fields with "|".  A text is abstracted to  *)
(* the sequence of the pieces between its bars, so that joining fields is  *)
(* concatenating sequences; SHA-256 is taken to be free of collisions.     *)
(* Timestamp, actor, action and subject, which hold no bar, are one piece; *)
(* the detail is free text and may hold bars.                              *)
(***************************************************************************)
EXTENDS Naturals, Sequences

CONSTANTS
  Deeds,        \* timestamp, actor, action and subject of an entry
  Details,      \* its detail
  Pieces,       \* pieces of text without a bar
  MaxLen        \* bound on the length of the chain

\* What the proofs assume: only the detail holds bars, and no detail is no piece.
Limits ==
  Deeds \subseteq Pieces /\ Details \subseteq Seq(Pieces) \ {<<>>}

VARIABLES
  audit,        \* DbState::audit
  change        \* the one later change of a stored entry, if it has happened

vars == <<audit, change>>

Genesis == [sha256 |-> <<>>]

\* format!("{}|{}|...").  Mutant: the sequence number is left out of it.
CanonicalWithoutSeq(e) == <<e.deed>> \o e.detail \o <<e.prev_hash>>
Canonical(e) == <<e.seq, e.deed>> \o e.detail \o <<e.prev_hash>>

ContentHash(e) == [sha256 |-> Canonical(e)]

\* audit_head.  Mutant: the hash the last entry was linked with, not its own.
LinkOfLast(chain) ==
  IF chain = <<>> THEN Genesis ELSE chain[Len(chain)].prev_hash

AuditHead(chain) ==
  IF chain = <<>> THEN Genesis ELSE ContentHash(chain[Len(chain)])

Linked(chain, i) == chain[i].prev_hash = AuditHead(SubSeq(chain, 1, i - 1))

\* verify_audit_chain
ChainOk(chain) == \A i \in 1..Len(chain) : Linked(chain, i)

NoChange == [at |-> 0]

-----------------------------------------------------------------------------
Init ==
  /\ audit = <<>>
  /\ change = NoChange

\* Mutant: the new entry links where the last one does.
AppendAuditBeside(deed, detail) ==
  /\ Len(audit) < MaxLen
  /\ audit' = Append(audit, [seq |-> Len(audit), deed |-> deed, detail |-> detail,
                             prev_hash |-> LinkOfLast(audit)])
  /\ UNCHANGED change

AppendAudit(deed, detail) ==
  /\ Len(audit) < MaxLen
  /\ audit' = Append(audit, [seq |-> Len(audit), deed |-> deed, detail |-> detail,
                             prev_hash |-> AuditHead(audit)])
  /\ UNCHANGED change

\* One stored entry is rewritten outside the program, in any of its fields.
Rewritten(e) ==
  {[e EXCEPT !.deed = x] : x \in Deeds}
    \cup {[e EXCEPT !.detail = x] : x \in Details}
    \cup {[e EXCEPT !.seq = n] : n \in 0..MaxLen}
    \cup {[e EXCEPT !.prev_hash = AuditHead(SubSeq(audit, 1, n))] : n \in 0..Len(audit)}

Rewrite(i) ==
  /\ change = NoChange
  /\ \E e \in Rewritten(audit[i]) \ {audit[i]} : audit' = [audit EXCEPT ![i] = e]
  /\ change' = [at |-> i, len |-> Len(audit), head |-> AuditHead(audit)]

Next ==
  \/ \E deed \in Deeds, detail \in Details : AppendAudit(deed, detail)
  \/ \E i \in 1..Len(audit) : Rewrite(i)

Spec == Init /\ [][Next]_vars

-----------------------------------------------------------------------------
\* Entries keep their fields, and the change is one of an entry of the chain.
TypeOK ==
  /\ \A i \in 1..Len(audit) :
       audit[i].seq \in Nat /\ audit[i].deed \in Deeds /\ audit[i].detail \in Details
  /\ change # NoChange => change.len \in 1..Len(audit) /\ change.at \in 1..change.len

\* What the program writes always verifies.
WrittenChainVerifies == change = NoChange => ChainOk(audit)

\* The rewriting of an entry that had a successor is seen by verification, and
\* no later entry hides it again.
InnerChangeIsSeen ==
  change # NoChange /\ change.at < change.len => ~ChainOk(audit)

\* Verification and the head hash together see the rewriting of any entry
\* (test audit_head_catches_rewriting_of_the_last_entry).
ChainAndHeadSeeAll ==
  change # NoChange /\ Len(audit) = change.len
    => ~ChainOk(audit) \/ AuditHead(audit) # change.head

\* "alterar cualquier entrada rompe toda la cadena" (README-LINUX.md:168): the
\* verification the panel shows fails after any rewriting.
AnyChangeBreaksChain == change # NoChange => ~ChainOk(audit)

=============================================================================
