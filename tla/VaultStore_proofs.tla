-------------------------- MODULE VaultStore_proofs --------------------------
(***************************************************************************)
(* The safety of VaultStore for any number of processes and any number of  *)
(* changes: the conjunction IInv of the invariants checked by TLC is       *)
(* inductive, and every step is a step of CommittedLog or a stutter.       *)
(***************************************************************************)
EXTENDS VaultStore, TLAPS

\* The inductive invariant.  WriterIsUpToDate needs LockMatchesModes (no
\* other writer can publish) and FlushPublishesOwnCopy (what is published is
\* the copy of the writer); ReadersSeeACommit needs both.
IInv ==
  /\ TypeOK
  /\ LockMatchesModes
  /\ WriterIsUpToDate
  /\ FlushPublishesOwnCopy
  /\ PrivateChangesStayPrivate
  /\ ReadersSeeACommit

\* Appending to an extension extends.
LEMMA ExtendsAppend ==
  ASSUME NEW S, NEW s \in Seq(S), NEW t \in Seq(S), NEW e \in S, Extends(t, s)
  PROVE  Extends(Append(t, e), s)
BY DEF Extends

\* A sequence extends itself.
LEMMA ExtendsRefl ==
  ASSUME NEW S, NEW s \in Seq(S)
  PROVE  Extends(s, s)
BY DEF Extends

\* Type correctness of every step.
LEMMA TypeStep == TypeOK /\ [Next]_vars => TypeOK'
<1> SUFFICES ASSUME TypeOK, [Next]_vars PROVE TypeOK'
  OBVIOUS
<1> USE HandlesAssumption DEF TypeOK
<1>1. ASSUME NEW p \in Handles, OpenExclusive(p) PROVE TypeOK'
  BY <1>1 DEF OpenExclusive, Modes
<1>2. ASSUME NEW p \in Handles, OpenShared(p) PROVE TypeOK'
  BY <1>2 DEF OpenShared, Modes
<1>3. ASSUME NEW p \in Handles, Load(p) PROVE TypeOK'
  BY <1>3 DEF Load, Modes
<1>4. ASSUME NEW p \in Handles, Mutate(p) PROVE TypeOK'
  <2>1. [by |-> p, as |-> mode[p]] \in Change
    BY <1>4 DEF Mutate, Change
  <2>2. Append(mem[p], [by |-> p, as |-> mode[p]]) \in Seq(Change)
    BY <2>1
  <2> QED BY <1>4, <2>2 DEF Mutate
<1>5. ASSUME NEW p \in Handles, WriteTmp(p) PROVE TypeOK'
  BY <1>5 DEF WriteTmp, Modes, TmpFile
<1>6. ASSUME NEW p \in Handles, WriteTmpFails(p) PROVE TypeOK'
  BY <1>6 DEF WriteTmpFails, TmpFile, PartialTmp
<1>7. ASSUME NEW p \in Handles, Publish(p) PROVE TypeOK'
  BY <1>7 DEF Publish, Modes, TmpFile, NoTmp
<1>8. ASSUME NEW p \in Handles, PublishFails(p) PROVE TypeOK'
  BY <1>8 DEF PublishFails, Modes
<1>9. ASSUME NEW p \in Handles, Drop(p) PROVE TypeOK'
  BY <1>9 DEF Drop, Modes
<1>10. CASE UNCHANGED vars
  BY <1>10 DEF vars
<1> QED BY <1>1, <1>2, <1>3, <1>4, <1>5, <1>6, <1>7, <1>8, <1>9, <1>10 DEF Next

\* db/vault.db.enc, the temporary file, the lock and every handle's copy keep
\* their types in every reachable state.
THEOREM TypeCorrect == Spec => []TypeOK
<1>1. Init => TypeOK
  BY DEF Init, TypeOK, Modes, TmpFile, NoTmp
<1> QED BY <1>1, TypeStep, PTL DEF Spec

\* One step keeps the whole invariant.
LEMMA InvStep == IInv /\ [Next]_vars => IInv'
<1> SUFFICES ASSUME IInv, [Next]_vars PROVE IInv'
  OBVIOUS
<1>t. TypeOK'
  BY TypeStep DEF IInv
<1> USE HandlesAssumption DEF IInv, TypeOK
<1>1. ASSUME NEW p \in Handles, OpenExclusive(p) PROVE IInv'
  BY <1>t, <1>1 DEF OpenExclusive, HoldsLock, LockMatchesModes, WriterIsUpToDate,
     FlushPublishesOwnCopy, PrivateChangesStayPrivate, ReadersSeeACommit
<1>2. ASSUME NEW p \in Handles, OpenShared(p) PROVE IInv'
  BY <1>t, <1>2 DEF OpenShared, HoldsLock, LockMatchesModes, WriterIsUpToDate,
     FlushPublishesOwnCopy, PrivateChangesStayPrivate, ReadersSeeACommit
<1>3. ASSUME NEW p \in Handles, Load(p) PROVE IInv'
  <2>1. Extends(disk, disk)
    BY ExtendsRefl
  <2>2. LockMatchesModes'
    BY <1>3 DEF Load, LockMatchesModes, HoldsLock
  <2>3. WriterIsUpToDate'
    BY <1>3, <2>1 DEF Load, WriterIsUpToDate, PrivateChangesStayPrivate
  <2>4. FlushPublishesOwnCopy' /\ PrivateChangesStayPrivate'
    BY <1>3 DEF Load, FlushPublishesOwnCopy, PrivateChangesStayPrivate
  <2>5. ReadersSeeACommit'
    BY <1>3 DEF Load, ReadersSeeACommit
  <2> QED BY <1>t, <2>2, <2>3, <2>4, <2>5
<1>4. ASSUME NEW p \in Handles, Mutate(p) PROVE IInv'
  <2> DEFINE c == [by |-> p, as |-> mode[p]]
  <2>1. c \in Change
    BY <1>4 DEF Mutate, Change
  <2>2. /\ mem' = [mem EXCEPT ![p] = Append(mem[p], c)]
        /\ UNCHANGED <<lock, disk, tmp, mode>>
        /\ mode[p] \in {"writer", "reader"}
    BY <1>4 DEF Mutate
  <2>3. LockMatchesModes' /\ PrivateChangesStayPrivate'
    BY <2>2 DEF LockMatchesModes, HoldsLock, PrivateChangesStayPrivate
  <2>4. WriterIsUpToDate'
    <3> SUFFICES ASSUME NEW q \in Handles, mode'[q] \in {"writer", "flushing"}
                 PROVE  /\ Extends(mem'[q], disk')
                        /\ \A i \in 1..Len(mem'[q]) : mem'[q][i].as = "writer"
      BY DEF WriterIsUpToDate
    <3>1. CASE q = p
      <4>1. mode[p] = "writer" /\ c.as = "writer"
        BY <2>2, <3>1
      <4>2. Extends(Append(mem[p], c), disk)
        BY <2>1, <4>1, ExtendsAppend DEF WriterIsUpToDate
      <4>3. \A i \in 1..Len(Append(mem[p], c)) : Append(mem[p], c)[i].as = "writer"
        BY <2>1, <4>1 DEF WriterIsUpToDate
      <4> QED BY <2>2, <3>1, <4>2, <4>3
    <3>2. CASE q # p
      BY <2>2, <3>2 DEF WriterIsUpToDate
    <3> QED BY <3>1, <3>2
  <2>5. FlushPublishesOwnCopy'
    BY <2>2 DEF FlushPublishesOwnCopy
  <2>6. ReadersSeeACommit'
    <3> SUFFICES ASSUME NEW q \in Handles, mode[q] = "reader",
                        NEW i \in 1..Len(mem'[q])
                 PROVE  \/ mem'[q][i] = [by |-> q, as |-> "reader"]
                        \/ /\ i <= Len(disk)
                           /\ \A j \in 1..i : mem'[q][j] = disk[j]
      BY <2>2 DEF ReadersSeeACommit
    <3>1. CASE q = p /\ i <= Len(mem[p])
      <4>1. i \in 1..Len(mem[q]) /\ \A j \in 1..i : mem'[q][j] = mem[q][j]
        BY <2>1, <2>2, <3>1
      <4>2. \/ mem[q][i] = [by |-> q, as |-> "reader"]
            \/ i <= Len(disk) /\ \A j \in 1..i : mem[q][j] = disk[j]
        BY <4>1 DEF ReadersSeeACommit
      <4>3. i \in 1..i
        BY <4>1
      <4> QED BY <4>1, <4>2, <4>3
    <3>2. CASE q = p /\ i = Len(mem[p]) + 1
      BY <2>1, <2>2, <3>2
    <3>3. CASE q # p
      BY <2>2, <3>3 DEF ReadersSeeACommit
    <3>4. q = p => i <= Len(mem[p]) \/ i = Len(mem[p]) + 1
      BY <2>1, <2>2
    <3> QED BY <3>1, <3>2, <3>3, <3>4
  <2> QED BY <1>t, <2>3, <2>4, <2>5, <2>6
<1>5. ASSUME NEW p \in Handles, WriteTmp(p) PROVE IInv'
  <2>1. LockMatchesModes'
    BY <1>5 DEF WriteTmp, LockMatchesModes, HoldsLock
  <2>2. WriterIsUpToDate' /\ PrivateChangesStayPrivate' /\ ReadersSeeACommit'
    BY <1>5 DEF WriteTmp, WriterIsUpToDate, PrivateChangesStayPrivate, ReadersSeeACommit
  <2>3. FlushPublishesOwnCopy'
    BY <1>5 DEF WriteTmp, FlushPublishesOwnCopy, LockMatchesModes, HoldsLock
  <2> QED BY <1>t, <2>1, <2>2, <2>3
<1>6. ASSUME NEW p \in Handles, WriteTmpFails(p) PROVE IInv'
  <2>1. FlushPublishesOwnCopy'
    BY <1>6 DEF WriteTmpFails, FlushPublishesOwnCopy, LockMatchesModes, HoldsLock
  <2> QED BY <1>t, <1>6, <2>1 DEF WriteTmpFails, LockMatchesModes, HoldsLock,
          WriterIsUpToDate, PrivateChangesStayPrivate, ReadersSeeACommit
<1>7. ASSUME NEW p \in Handles, Publish(p) PROVE IInv'
  <2>1. /\ disk' = mem[p]
        /\ mode' = [mode EXCEPT ![p] = "writer"]
        /\ UNCHANGED <<lock, mem>>
        /\ mode[p] = "flushing"
    BY <1>7 DEF Publish, FlushPublishesOwnCopy
  <2>2. Extends(disk', disk) /\ Extends(mem[p], mem[p])
    BY <2>1, ExtendsRefl DEF WriterIsUpToDate
  <2>3. LockMatchesModes'
    BY <2>1 DEF LockMatchesModes, HoldsLock
  <2>4. \A q \in Handles : mode'[q] \in {"writer", "flushing"} => q = p
    BY <2>1 DEF LockMatchesModes, HoldsLock
  <2>5. WriterIsUpToDate'
    BY <2>1, <2>2, <2>4 DEF WriterIsUpToDate
  <2>6. FlushPublishesOwnCopy'
    BY <2>1, <2>4 DEF FlushPublishesOwnCopy
  <2>7. PrivateChangesStayPrivate'
    BY <2>1 DEF PrivateChangesStayPrivate, WriterIsUpToDate
  <2>8. ReadersSeeACommit'
    BY <2>1, <2>2 DEF ReadersSeeACommit, Extends
  <2> QED BY <1>t, <2>3, <2>5, <2>6, <2>7, <2>8
<1>8. ASSUME NEW p \in Handles, PublishFails(p) PROVE IInv'
  <2>1. LockMatchesModes'
    BY <1>8 DEF PublishFails, LockMatchesModes, HoldsLock
  <2>2. WriterIsUpToDate' /\ FlushPublishesOwnCopy'
    BY <1>8 DEF PublishFails, WriterIsUpToDate, FlushPublishesOwnCopy
  <2>3. PrivateChangesStayPrivate' /\ ReadersSeeACommit'
    BY <1>8 DEF PublishFails, PrivateChangesStayPrivate, ReadersSeeACommit
  <2> QED BY <1>t, <2>1, <2>2, <2>3
<1>9. ASSUME NEW p \in Handles, Drop(p) PROVE IInv'
  <2>1. LockMatchesModes'
    BY <1>9 DEF Drop, LockMatchesModes, HoldsLock
  <2> QED BY <1>t, <1>9, <2>1 DEF Drop, WriterIsUpToDate, FlushPublishesOwnCopy,
          PrivateChangesStayPrivate, ReadersSeeACommit
<1>10. CASE UNCHANGED vars
  BY <1>t, <1>10 DEF vars, HoldsLock, LockMatchesModes, WriterIsUpToDate,
     FlushPublishesOwnCopy, PrivateChangesStayPrivate, ReadersSeeACommit
<1> QED BY <1>1, <1>2, <1>3, <1>4, <1>5, <1>6, <1>7, <1>8, <1>9, <1>10 DEF Next

\* The vault starts in a state of the invariant.
LEMMA InvInit == Init => IInv
BY HandlesAssumption DEF Init, IInv, TypeOK, Modes, TmpFile, NoTmp, HoldsLock,
   LockMatchesModes, WriterIsUpToDate, FlushPublishesOwnCopy,
   PrivateChangesStayPrivate, ReadersSeeACommit

\* The invariant holds in every reachable state.
LEMMA InvAlways == Spec => []IInv
BY InvInit, InvStep, PTL DEF Spec

\* The lock file always tells who may write: at most one handle can flush.
THEOREM SingleWriter == Spec => []LockMatchesModes
<1>1. IInv => LockMatchesModes
  BY DEF IInv
<1> QED BY <1>1, InvAlways, PTL

\* The handle that may flush has not missed any committed change.
THEOREM WriterNeverStale == Spec => []WriterIsUpToDate
<1>1. IInv => WriterIsUpToDate
  BY DEF IInv
<1> QED BY <1>1, InvAlways, PTL

\* What a save renames into place is what its own handle has in memory: no
\* temporary file of another process, or of a save that failed, is published.
THEOREM SavesOwnCopy == Spec => []FlushPublishesOwnCopy
<1>1. IInv => FlushPublishesOwnCopy
  BY DEF IInv
<1> QED BY <1>1, InvAlways, PTL

\* A consulting handle shows a content that was committed, whatever is saved
\* while it is open.
THEOREM ReadersConsistent == Spec => []ReadersSeeACommit
<1>1. IInv => ReadersSeeACommit
  BY DEF IInv
<1> QED BY <1>1, InvAlways, PTL

\* Nothing changed in consultation mode is ever saved.
THEOREM ConsultationSavesNothing == Spec => []PrivateChangesStayPrivate
<1>1. IInv => PrivateChangesStayPrivate
  BY DEF IInv
<1> QED BY <1>1, InvAlways, PTL

\* Every step of the store is a step of the committed log or leaves it alone,
\* so no save ever loses a change committed before it.
THEOREM Refinement == Spec => ImplementsCommittedLog
<1>1. Init => Log!Init
  BY DEF Init, Log!Init
<1>2. IInv /\ [Next]_vars => [Log!Next]_(Log!vars)
  <2> SUFFICES ASSUME IInv, [Next]_vars PROVE [Log!Next]_(Log!vars)
    OBVIOUS
  <2> USE HandlesAssumption DEF IInv, TypeOK, Log!vars
  <2>1. ASSUME NEW p \in Handles, OpenExclusive(p) PROVE Log!Next
    BY <2>1 DEF OpenExclusive, Log!Next, Log!Acquire
  <2>2. ASSUME NEW p \in Handles, Publish(p) PROVE Log!Next
    <3>1. lock = p
      BY <2>2 DEF Publish, LockMatchesModes, HoldsLock
    <3>2. disk' = mem[p] /\ UNCHANGED lock
      BY <2>2 DEF Publish, FlushPublishesOwnCopy
    <3>3. Log!Extends(mem[p], disk)
      BY <2>2 DEF Publish, WriterIsUpToDate, Extends, Log!Extends
    <3>4. Log!Commit(p)
      BY <3>1, <3>2, <3>3 DEF Log!Commit
    <3> QED BY <3>4 DEF Log!Next
  <2>3. ASSUME NEW p \in Handles, Drop(p) PROVE [Log!Next]_(Log!vars)
    <3>1. CASE lock = p
      BY <2>3, <3>1 DEF Drop, Log!Next, Log!Release
    <3>2. CASE lock # p
      BY <2>3, <3>2 DEF Drop
    <3> QED BY <3>1, <3>2
  <2>4. ASSUME NEW p \in Handles,
               \/ OpenShared(p) \/ Load(p) \/ Mutate(p) \/ WriteTmp(p)
               \/ WriteTmpFails(p) \/ PublishFails(p)
        PROVE  UNCHANGED <<lock, disk>>
    BY <2>4 DEF OpenShared, Load, Mutate, WriteTmp, WriteTmpFails, PublishFails
  <2>5. CASE UNCHANGED vars
    BY <2>5 DEF vars
  <2> QED BY <2>1, <2>2, <2>3, <2>4, <2>5 DEF Next
<1> QED BY <1>1, <1>2, InvAlways, PTL DEF ImplementsCommittedLog, Log!Spec, Spec

=============================================================================
