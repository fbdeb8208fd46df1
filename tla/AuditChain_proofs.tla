-------------------------- MODULE AuditChain_proofs --------------------------
(***************************************************************************)
(* What the audit chain detects, for chains of any length, any deeds and   *)
(* any details, bars included.                                             *)
(***************************************************************************)
EXTENDS AuditChain, SequenceTheorems, TLAPS

\* A stored entry, whatever hash it is linked with.
IsEntry(e) ==
  \E n, deed, detail, hash :
    /\ n \in Nat /\ deed \in Deeds /\ detail \in Details
    /\ e = [seq |-> n, deed |-> deed, detail |-> detail, prev_hash |-> hash]

\* The length and the pieces of a canonical text.
LEMMA TextPieces ==
  ASSUME Limits, NEW s, NEW deed \in Deeds, NEW detail \in Details, NEW hash,
         NEW text, text = <<s, deed>> \o detail \o <<hash>>
  PROVE  /\ Len(detail) \in Nat
         /\ Len(text) = Len(detail) + 3
         /\ text[1] = s /\ text[2] = deed
         /\ \A i \in 1..Len(detail) : text[i + 2] = detail[i]
         /\ text[Len(detail) + 3] = hash
<1> DEFINE S == {s, hash} \cup Pieces
<1>1. detail \in Seq(S) /\ <<s, deed>> \in Seq(S) /\ <<hash>> \in Seq(S)
  <2>1. detail \in Seq(Pieces) /\ deed \in Pieces
    BY DEF Limits
  <2> QED BY <2>1
<1> HIDE DEF S
<1> DEFINE front == <<s, deed>> \o detail
<1>2. /\ front \in Seq(S) /\ Len(front) = Len(detail) + 2 /\ Len(detail) \in Nat
      /\ front[1] = s /\ front[2] = deed
      /\ \A i \in 1..Len(detail) : front[i + 2] = detail[i]
  BY <1>1
<1>3. text = front \o <<hash>>
  OBVIOUS
<1> HIDE DEF front
<1> QED BY <1>1, <1>2, <1>3

\* Entries of equal canonical texts are equal: a detail that holds bars cannot
\* be taken for other fields, because it is the only field that holds them.
LEMMA TextIdentifiesEntry ==
  ASSUME Limits, NEW e, NEW f, IsEntry(e), IsEntry(f), ContentHash(e) = ContentHash(f)
  PROVE  e = f
<1>1. PICK n, deed, detail, hash :
        /\ n \in Nat /\ deed \in Deeds /\ detail \in Details
        /\ e = [seq |-> n, deed |-> deed, detail |-> detail, prev_hash |-> hash]
  BY DEF IsEntry
<1>2. PICK m, deed2, detail2, hash2 :
        /\ m \in Nat /\ deed2 \in Deeds /\ detail2 \in Details
        /\ f = [seq |-> m, deed |-> deed2, detail |-> detail2, prev_hash |-> hash2]
  BY DEF IsEntry
<1> DEFINE text == <<n, deed>> \o detail \o <<hash>>
           text2 == <<m, deed2>> \o detail2 \o <<hash2>>
<1>3. text = text2
  <2>1. Canonical(e) = text /\ Canonical(f) = text2
    BY <1>1, <1>2 DEF Canonical
  <2>2. ContentHash(e).sha256 = text /\ ContentHash(f).sha256 = text2
    BY <2>1 DEF ContentHash
  <2> QED BY <2>2
<1>4. /\ Len(detail) \in Nat /\ Len(text) = Len(detail) + 3
      /\ text[1] = n /\ text[2] = deed /\ text[Len(detail) + 3] = hash
      /\ \A i \in 1..Len(detail) : text[i + 2] = detail[i]
  BY <1>1, TextPieces
<1>5. /\ Len(detail2) \in Nat /\ Len(text2) = Len(detail2) + 3
      /\ text2[1] = m /\ text2[2] = deed2 /\ text2[Len(detail2) + 3] = hash2
      /\ \A i \in 1..Len(detail2) : text2[i + 2] = detail2[i]
  BY <1>2, TextPieces
<1> HIDE DEF text, text2
<1>6. n = m /\ deed = deed2 /\ Len(detail) = Len(detail2)
  BY <1>3, <1>4, <1>5
<1>7. hash = hash2 /\ \A i \in 1..Len(detail) : detail[i] = detail2[i]
  BY <1>3, <1>4, <1>5, <1>6
<1>8. detail = detail2
  <2>1. detail \in Seq(Pieces) /\ detail2 \in Seq(Pieces)
    BY <1>1, <1>2 DEF Limits
  <2> QED BY <1>6, <1>7, <2>1, SeqEqual
<1> QED BY <1>1, <1>2, <1>6, <1>7, <1>8

-----------------------------------------------------------------------------
\* The audit is a sequence of entries; without a change it is linked, and after
\* one the successor of the changed entry, or the head that was taken then,
\* has the hash of an entry that is no longer there.
SeqInv ==
  /\ \E S : audit \in Seq(S)
  /\ \A i \in 1..Len(audit) : IsEntry(audit[i])

LinkInv ==
  \A i \in 1..Len(audit) :
    audit[i].prev_hash = IF i = 1 THEN Genesis ELSE ContentHash(audit[i - 1])

ChangeInv ==
  /\ change.len \in Nat /\ change.at \in 1..change.len /\ change.len <= Len(audit)
  /\ IF change.at < change.len
     THEN audit[change.at + 1].prev_hash # ContentHash(audit[change.at])
     ELSE change.head # ContentHash(audit[change.at])

ChainInv ==
  /\ SeqInv
  /\ change = NoChange => LinkInv
  /\ change # NoChange => ChangeInv

\* The head of the chain before an entry.
LEMMA HeadBefore ==
  ASSUME NEW chain, NEW S, chain \in Seq(S), NEW i \in 1..Len(chain)
  PROVE  AuditHead(SubSeq(chain, 1, i - 1)) =
           IF i = 1 THEN Genesis ELSE ContentHash(chain[i - 1])
<1> DEFINE part == SubSeq(chain, 1, i - 1)
<1>1. Len(chain) \in Nat /\ i \in Nat /\ i >= 1
  OBVIOUS
<1>2. CASE i = 1
  <2>1. part = << >>
    BY <1>2, <1>1, SubSeqEmpty
  <2> QED BY <1>2, <2>1 DEF AuditHead
<1>3. CASE i # 1
  <2>1. 1 \in 1..Len(chain) /\ i - 1 \in 1..Len(chain)
    BY <1>1, <1>3
  <2>2. Len(part) = i - 1 /\ part[i - 1] = chain[i - 1]
    BY <1>1, <1>3, <2>1
  <2>3. part # << >>
    BY <1>1, <1>3, <2>2
  <2> HIDE DEF part
  <2>4. AuditHead(part) = ContentHash(chain[i - 1])
    BY <2>2, <2>3 DEF AuditHead
  <2> QED BY <1>3, <2>4 DEF part
<1> QED BY <1>2, <1>3

\* Every append and the one change keep ChainInv.
LEMMA ChainStep == ASSUME Limits PROVE ChainInv /\ [Next]_vars => ChainInv'
<1> SUFFICES ASSUME ChainInv, [Next]_vars PROVE ChainInv'
  OBVIOUS
<1>s. PICK S : audit \in Seq(S)
  BY DEF ChainInv, SeqInv
<1>1. ASSUME NEW deed \in Deeds, NEW detail \in Details, AppendAudit(deed, detail)
      PROVE  ChainInv'
  <2> DEFINE e == [seq |-> Len(audit), deed |-> deed, detail |-> detail,
                   prev_hash |-> AuditHead(audit)]
  <2>1. Len(audit) \in Nat /\ audit' = Append(audit, e) /\ change' = change
    BY <1>1, <1>s DEF AppendAudit
  <2>2. IsEntry(e)
    BY <2>1 DEF IsEntry
  <2>3. e.prev_hash = AuditHead(audit)
    OBVIOUS
  <2> HIDE DEF e
  <2>4. /\ audit' \in Seq(S \cup {e}) /\ Len(audit') = Len(audit) + 1
        /\ audit'[Len(audit) + 1] = e
        /\ \A i \in 1..Len(audit) : audit'[i] = audit[i]
    BY <1>s, <2>1
  <2>5. SeqInv'
    BY <2>1, <2>2, <2>4 DEF ChainInv, SeqInv
  <2>6. ASSUME change = NoChange PROVE LinkInv'
    <3>1. AuditHead(audit) = IF Len(audit) = 0 THEN Genesis ELSE ContentHash(audit[Len(audit)])
      BY <1>s DEF AuditHead
    <3> QED BY <2>1, <2>3, <2>4, <2>6, <3>1 DEF ChainInv, LinkInv
  <2>7. ASSUME change # NoChange PROVE ChangeInv'
    BY <2>1, <2>4, <2>7 DEF ChainInv, ChangeInv
  <2> QED BY <2>1, <2>5, <2>6, <2>7 DEF ChainInv
<1>2. ASSUME NEW i \in 1..Len(audit), Rewrite(i) PROVE ChainInv'
  <2>1. Len(audit) \in Nat /\ change = NoChange /\ LinkInv /\ i \in Nat
    BY <1>2, <1>s DEF Rewrite, ChainInv
  <2>2. change' = [at |-> i, len |-> Len(audit), head |-> AuditHead(audit)]
    BY <1>2 DEF Rewrite
  <2>3. PICK e \in Rewritten(audit[i]) \ {audit[i]} : audit' = [audit EXCEPT ![i] = e]
    BY <1>2 DEF Rewrite
  <2>4. IsEntry(audit[i])
    BY DEF ChainInv, SeqInv
  <2>5. IsEntry(e)
    BY <2>3, <2>4 DEF IsEntry, Rewritten
  <2>6. ContentHash(e) # ContentHash(audit[i])
    BY <2>3, <2>4, <2>5, TextIdentifiesEntry
  <2>7. /\ audit' \in Seq(S \cup {e}) /\ Len(audit') = Len(audit) /\ audit'[i] = e
        /\ \A j \in 1..Len(audit) : j # i => audit'[j] = audit[j]
    BY <1>s, <2>3
  <2>8. SeqInv'
    BY <2>5, <2>7 DEF ChainInv, SeqInv
  <2>9. change' # NoChange /\ change'.at = i /\ change'.len = Len(audit)
          /\ change'.head = AuditHead(audit)
    BY <2>1, <2>2 DEF NoChange
  <2>10. CASE i < Len(audit)
    <3>1. audit'[i + 1].prev_hash = ContentHash(audit[i])
      BY <2>1, <2>7, <2>10 DEF LinkInv
    <3>2. ChangeInv'
      BY <2>1, <2>6, <2>7, <2>9, <2>10, <3>1 DEF ChangeInv
    <3> QED BY <2>8, <2>9, <3>2 DEF ChainInv
  <2>11. CASE i = Len(audit)
    <3>1. AuditHead(audit) = ContentHash(audit[i])
      BY <1>s, <2>1, <2>11 DEF AuditHead
    <3>2. ChangeInv'
      BY <2>1, <2>6, <2>7, <2>9, <2>11, <3>1 DEF ChangeInv
    <3> QED BY <2>8, <2>9, <3>2 DEF ChainInv
  <2> QED BY <2>1, <2>10, <2>11
<1>3. CASE UNCHANGED vars
  BY <1>3 DEF vars, ChainInv, SeqInv, LinkInv, ChangeInv
<1> QED BY <1>1, <1>2, <1>3 DEF Next

\* ChainInv holds of every chain the program writes and of its one change.
LEMMA ChainAlways == ASSUME Limits PROVE Spec => []ChainInv
<1>1. Init => ChainInv
  <2> SUFFICES ASSUME Init PROVE ChainInv
    OBVIOUS
  <2>1. audit = << >> /\ audit \in Seq({}) /\ Len(audit) = 0
    BY DEF Init
  <2> QED BY <2>1 DEF Init, ChainInv, SeqInv, LinkInv
<1> QED BY <1>1, ChainStep, PTL DEF Spec

-----------------------------------------------------------------------------
\* Entries keep their fields whatever is appended and rewritten.
THEOREM ChainTypes == ASSUME Limits PROVE Spec => []TypeOK
<1>1. ASSUME ChainInv PROVE TypeOK
  <2>1. \A i \in 1..Len(audit) :
          audit[i].seq \in Nat /\ audit[i].deed \in Deeds /\ audit[i].detail \in Details
    <3>1. ASSUME NEW e, IsEntry(e)
          PROVE  e.seq \in Nat /\ e.deed \in Deeds /\ e.detail \in Details
      BY <3>1 DEF IsEntry
    <3> QED BY <1>1, <3>1 DEF ChainInv, SeqInv
  <2>2. ASSUME change # NoChange
        PROVE  change.len \in 1..Len(audit) /\ change.at \in 1..change.len
    <3> PICK S : audit \in Seq(S)
      BY <1>1 DEF ChainInv, SeqInv
    <3>1. Len(audit) \in Nat
      OBVIOUS
    <3> QED BY <1>1, <2>2, <3>1 DEF ChainInv, ChangeInv
  <2> QED BY <2>1, <2>2 DEF TypeOK
<1> QED BY <1>1, ChainAlways, PTL

\* verify_audit_chain accepts every chain that append_audit alone has written,
\* however long and whatever its details hold.
THEOREM HonestChainVerifies == ASSUME Limits PROVE Spec => []WrittenChainVerifies
<1>1. ChainInv => WrittenChainVerifies
  BY HeadBefore DEF ChainInv, SeqInv, LinkInv, WrittenChainVerifies, ChainOk, Linked
<1> QED BY <1>1, ChainAlways, PTL

\* A rewritten entry that had a successor fails verification for ever.
THEOREM SuccessorsProtect == ASSUME Limits PROVE Spec => []InnerChangeIsSeen
<1>1. ASSUME ChainInv, change # NoChange, change.at < change.len
      PROVE  ~ChainOk(audit)
  <2>1. PICK S : audit \in Seq(S)
    BY <1>1 DEF ChainInv, SeqInv
  <2> DEFINE i == change.at + 1
  <2>2. /\ Len(audit) \in Nat /\ i \in 1..Len(audit) /\ i # 1 /\ i - 1 = change.at
        /\ audit[i].prev_hash # ContentHash(audit[i - 1])
    BY <1>1, <2>1 DEF ChainInv, ChangeInv
  <2> HIDE DEF i
  <2>3. ~Linked(audit, i)
    BY <2>1, <2>2, HeadBefore DEF Linked
  <2> QED BY <2>2, <2>3 DEF ChainOk
<1>2. ChainInv => InnerChangeIsSeen
  BY <1>1 DEF InnerChangeIsSeen
<1> QED BY <1>2, ChainAlways, PTL

\* Verification together with a head hash kept elsewhere sees the rewriting of
\* any entry, the last one included.
THEOREM HeadProtectsTheLast == ASSUME Limits PROVE Spec => []ChainAndHeadSeeAll
<1>1. ASSUME ChainInv, change # NoChange, Len(audit) = change.len
      PROVE  ~ChainOk(audit) \/ AuditHead(audit) # change.head
  <2>1. PICK S : audit \in Seq(S)
    BY <1>1 DEF ChainInv, SeqInv
  <2>2. CASE change.at < change.len
    <3> DEFINE i == change.at + 1
    <3>1. /\ Len(audit) \in Nat /\ i \in 1..Len(audit) /\ i # 1 /\ i - 1 = change.at
          /\ audit[i].prev_hash # ContentHash(audit[i - 1])
      BY <1>1, <2>1, <2>2 DEF ChainInv, ChangeInv
    <3> HIDE DEF i
    <3>2. ~Linked(audit, i)
      BY <2>1, <3>1, HeadBefore DEF Linked
    <3> QED BY <3>1, <3>2 DEF ChainOk
  <2>3. CASE ~(change.at < change.len)
    <3>1. change.at = Len(audit) /\ audit # << >> /\ change.head # ContentHash(audit[change.at])
      BY <1>1, <2>1, <2>3 DEF ChainInv, ChangeInv
    <3> QED BY <3>1 DEF AuditHead
  <2> QED BY <2>2, <2>3
<1>2. ChainInv => ChainAndHeadSeeAll
  BY <1>1 DEF ChainAndHeadSeeAll
<1> QED BY <1>2, ChainAlways, PTL

=============================================================================
