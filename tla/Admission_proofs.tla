--------------------------- MODULE Admission_proofs ---------------------------
(***************************************************************************)
(* What Admission guarantees for any number of connections, contents,      *)
(* places and submissions, whatever is uploaded, emptied, refused or dies  *)
(* meanwhile.                                                              *)
(***************************************************************************)
EXTENDS Admission, TLAPS

\* What a connection and the holder of the mutex are doing, by step.
Targets  == {"staging", "nowhere"} \cup Paths
Writing  == [step : {"writing"}, sha : Contents, into : Targets, last : BOOLEAN]
Received == [step : {"written", "checked"}, sha : Contents]
Waiting  == [step : {"queued", "acked"}, sub : Subs]
Checked  == [step : {"checked"}, sub : Subs]
Sealing  == [step : {"hashed", "moved"}, sub : Subs, as : {"torn", "whole"}]

\* A submission that is being admitted is still in the queue.
TypeInv ==
  /\ TypeOK
  /\ op \in Checked \cup Sealing => IsPending(op.sub)

-----------------------------------------------------------------------------
\* A connection is of the kind its step names, and the kinds exclude one another.
LEMMA KindsOfUpload ==
  \A x \in Uploads :
    /\ x.step = "writing" <=> x \in Writing
    /\ x.step \in {"written", "checked"} <=> x \in Received
    /\ x.step \in {"queued", "acked"} <=> x \in Waiting
    /\ x.step = "free" <=> x = Free
    /\ x = Free \/ x \in Writing \cup Received \cup Waiting
BY DEF Uploads, Free, Writing, Received, Waiting, Targets

\* The same of what the holder of the mutex is doing.
LEMMA KindsOfOp ==
  \A x \in Ops :
    /\ x.step = "checked" <=> x \in Checked
    /\ x.step \in {"hashed", "moved"} <=> x \in Sealing
    /\ x.step = "free" <=> x = Free
    /\ x.step \in {"free", "flush", "checked", "hashed", "moved"}
BY DEF Ops, Free, Checked, Sealing

\* A submission in the queue has a content and a place.
LEMMA PendingSub ==
  ASSUME mem \in Db, NEW s \in Subs, IsPending(s)
  PROVE  mem.sub[s] \in Submission /\ Sha(s) \in Contents /\ Place(s) \in Paths
BY DEF Db, IsPending, Sha, Place, Submission, Decided

\* A decision changes the state of one submission and nothing else.
LEMMA DecideKeeps ==
  ASSUME mem \in Db, NEW s \in Subs, IsPending(s), NEW state \in Decided
  PROVE  /\ Decide(s, state) \in Db
         /\ Decide(s, state).document = mem.document
         /\ Decide(s, state).sub[s].state = state
         /\ Decide(s, state).sub[s].sha = mem.sub[s].sha
         /\ Decide(s, state).sub[s].place = mem.sub[s].place
         /\ \A t \in Subs \ {s} : Decide(s, state).sub[t] = mem.sub[t]
<1> DEFINE r == [mem.sub[s] EXCEPT !.state = state]
<1>1. mem.sub[s] \in Submission
  BY PendingSub
<1>2. /\ r \in Submission /\ r.state = state
      /\ r.sha = mem.sub[s].sha /\ r.place = mem.sub[s].place
  BY <1>1 DEF Submission
<1>3. Decide(s, state) = [mem EXCEPT !.sub = [mem.sub EXCEPT ![s] = r]]
  BY DEF Decide
<1> HIDE DEF r
<1> QED BY <1>2, <1>3 DEF Db

\* Moving or removing a staged file changes where its writers write, no more.
LEMMA RedirectKeeps ==
  ASSUME conn \in [Conns -> Uploads], NEW c \in Contents,
         NEW where \in Targets
  PROVE  /\ Redirected(c, where) \in [Conns -> Uploads]
         /\ \A k \in Conns :
              /\ Redirected(c, where)[k].step = conn[k].step
              /\ conn[k].step # "writing" => Redirected(c, where)[k] = conn[k]
              /\ conn[k].step = "writing" =>
                   /\ Redirected(c, where)[k].sha = conn[k].sha
                   /\ \/ Redirected(c, where)[k].into = conn[k].into
                      \/ Redirected(c, where)[k].into = where /\ conn[k].sha = c
<1> SUFFICES ASSUME NEW k \in Conns
             PROVE  LET r == Redirected(c, where)[k] IN
                    /\ r \in Uploads
                    /\ r.step = conn[k].step
                    /\ conn[k].step # "writing" => r = conn[k]
                    /\ conn[k].step = "writing" =>
                         /\ r.sha = conn[k].sha
                         /\ r.into = conn[k].into \/ (r.into = where /\ conn[k].sha = c)
  BY DEF Redirected
<1>1. CASE WritesTo(k, c)
  <2> DEFINE r == [conn[k] EXCEPT !.into = where]
  <2>1. conn[k] \in Writing /\ conn[k].sha = c
    BY <1>1, KindsOfUpload DEF WritesTo
  <2>2. r \in Writing /\ r.step = "writing" /\ r.sha = c /\ r.into = where
    BY <2>1 DEF Writing
  <2>3. r \in Uploads /\ conn[k].step = "writing"
    BY <2>1, <2>2, KindsOfUpload DEF Uploads, Writing, Targets
  <2>4. Redirected(c, where)[k] = r
    BY <1>1 DEF Redirected
  <2> HIDE DEF r
  <2> QED BY <2>1, <2>2, <2>3, <2>4
<1>2. CASE ~WritesTo(k, c)
  BY <1>2 DEF Redirected
<1> QED BY <1>1, <1>2

\* An answer ends the waiting of the ingestion that was saved.
LEMMA AnsweredKeeps ==
  ASSUME conn \in [Conns -> Uploads], NEW ok \in BOOLEAN, Answered(ok)
  PROVE  /\ conn' \in [Conns -> Uploads]
         /\ \A k \in Conns :
              \/ conn'[k] = conn[k] /\ conn[k].step # "queued"
              \/ conn'[k] = Free
              \/ /\ ok /\ conn[k].step = "queued" /\ conn'[k].step = "acked"
                 /\ conn'[k].sub = conn[k].sub
<1> SUFFICES ASSUME NEW k \in Conns
             PROVE  /\ conn'[k] \in Uploads
                    /\ \/ conn'[k] = conn[k] /\ conn[k].step # "queued"
                       \/ conn'[k] = Free
                       \/ /\ ok /\ conn[k].step = "queued" /\ conn'[k].step = "acked"
                          /\ conn'[k].sub = conn[k].sub
  BY DEF Answered
<1>1. CASE conn[k].step = "queued" /\ ok
  <2> DEFINE r == [conn[k] EXCEPT !.step = "acked"]
  <2>1. conn[k] \in Waiting
    BY <1>1, KindsOfUpload
  <2>2. r \in Waiting /\ r.step = "acked" /\ r.sub = conn[k].sub
    BY <2>1 DEF Waiting
  <2>3. conn'[k] = r /\ r \in Uploads
    BY <1>1, <2>2 DEF Answered, Uploads, Waiting
  <2> HIDE DEF r
  <2> QED BY <1>1, <2>2, <2>3
<1>2. CASE ~(conn[k].step = "queued" /\ ok)
  BY <1>2 DEF Answered, Uploads, Free
<1> QED BY <1>1, <1>2

\* A write ends in the one file it was redirected to, if any.
LEMMA FilledWhere ==
  ASSUME NEW k \in Conns, conn[k] \in Writing, FinishWrite(k)
  PROVE  LET c == conn[k].sha
             place == conn[k].into
         IN
         \/ /\ place = "staging" /\ vault' = vault
            /\ \E f \in Filled(k, staging[c]) : staging' = [staging EXCEPT ![c] = f]
         \/ /\ place \in Paths /\ staging' = staging
            /\ \E f \in Filled(k, vault[place]) : vault' = [vault EXCEPT ![place] = f]
         \/ place = "nowhere" /\ UNCHANGED <<staging, vault>>
<1>1. CASE conn[k].into = "staging"
  BY <1>1, PathsAssumption DEF FinishWrite
<1>2. CASE conn[k].into \in Paths
  BY <1>2, PathsAssumption DEF FinishWrite
<1>3. CASE conn[k].into = "nowhere"
  BY <1>3, PathsAssumption DEF FinishWrite
<1> QED BY <1>1, <1>2, <1>3 DEF Writing, Targets

-----------------------------------------------------------------------------
\* The types of the step of the mutex alone, for the steps that change nothing
\* of the database.
LEMMA OpKept ==
  ASSUME TypeInv, conn' \in [Conns -> Uploads], staging' \in [Contents -> Files],
         vault' \in [Paths -> Files], UNCHANGED <<mem, disk>>,
         op' \in Ops,
         op' \in Checked \cup Sealing => IsPending(op'.sub)
  PROVE  TypeInv'
BY DEF TypeInv, TypeOK, IsPending

\* The same for the steps that leave the mutex free or go on to the flush.
LEMMA FlushKept ==
  ASSUME conn' \in [Conns -> Uploads], staging' \in [Contents -> Files],
         vault' \in [Paths -> Files], mem' \in Db, disk' \in Db,
         op' = Free \/ op' = [step |-> "flush"]
  PROVE  TypeInv'
<1>1. op' \in Ops /\ op' \notin Checked \cup Sealing
  BY DEF Ops, Free, Checked, Sealing
<1> QED BY <1>1 DEF TypeInv, TypeOK

\* Every step keeps the types, and a submission that is being admitted pending.
LEMMA TypeStep == TypeInv /\ [Next]_vars => TypeInv'
<1> SUFFICES ASSUME TypeInv, [Next]_vars PROVE TypeInv'
  OBVIOUS
<1> USE DEF TypeInv, TypeOK
<1>f. {"none", "torn", "whole"} = Files
  BY DEF Files
<1>1. ASSUME NEW k \in Conns, NEW c \in Contents, Receive(k, c) PROVE TypeInv'
  <2>1. \A j \in Conns : WritesTo(j, c) => [conn[j] EXCEPT !.last = FALSE] \in Uploads
    <3> SUFFICES ASSUME NEW j \in Conns, WritesTo(j, c)
                 PROVE  [conn[j] EXCEPT !.last = FALSE] \in Writing
      BY DEF Uploads, Writing, Targets
    <3>1. conn[j] \in Writing
      BY KindsOfUpload DEF WritesTo
    <3> QED BY <3>1 DEF Writing
  <2>2. [step |-> "writing", sha |-> c, into |-> "staging", last |-> TRUE] \in Uploads
    BY DEF Uploads
  <2>3. conn' \in [Conns -> Uploads]
    BY <1>1, <2>1, <2>2 DEF Receive
  <2>4. UNCHANGED <<vault, mem, disk, op>> /\ staging' \in [Contents -> Files]
    BY <1>1, <1>f DEF Receive
  <2> QED BY <2>3, <2>4, OpKept
<1>2. ASSUME NEW k \in Conns, FinishWrite(k) PROVE TypeInv'
  <2>1. conn[k] \in Writing
    BY <1>2, KindsOfUpload DEF FinishWrite
  <2>2. conn[k].sha \in Contents /\ conn[k].into \in Targets
    BY <2>1 DEF Writing
  <2>3. \A f \in Files : Filled(k, f) \subseteq Files
    BY <1>f DEF Filled
  <2>4. staging' \in [Contents -> Files] /\ vault' \in [Paths -> Files]
    BY <1>2, <2>1, <2>2, <2>3, FilledWhere
  <2>5. [step |-> "written", sha |-> conn[k].sha] \in Uploads
    BY <2>2 DEF Uploads
  <2>6. conn' \in [Conns -> Uploads] /\ UNCHANGED <<mem, disk, op>>
    BY <1>2, <2>5 DEF FinishWrite
  <2> QED BY <2>4, <2>6, OpKept
<1>3. ASSUME NEW k \in Conns, WriteFails(k) \/ RefuseEnvelope(k) PROVE TypeInv'
  <2>1. Free \in Uploads
    BY DEF Uploads
  <2>2. conn' \in [Conns -> Uploads] /\ UNCHANGED <<staging, vault, mem, disk, op>>
    BY <1>3, <2>1 DEF WriteFails, RefuseEnvelope
  <2> QED BY <2>2, OpKept
<1>4. ASSUME NEW k \in Conns, NEW declared \in BOOLEAN, CheckStaged(k, declared) PROVE TypeInv'
  <2>1. conn[k] \in Received
    BY <1>4, KindsOfUpload DEF CheckStaged
  <2>2. conn[k].sha \in Contents /\ [conn[k] EXCEPT !.step = "checked"] \in Uploads
    BY <2>1 DEF Received, Uploads
  <2>3. Free \in Uploads /\ Redirected(conn[k].sha, "nowhere") \in [Conns -> Uploads]
    BY <2>2, RedirectKeeps DEF Uploads, Targets
  <2>4. UNCHANGED <<vault, mem, disk, op>> /\ staging' \in [Contents -> Files]
    BY <1>4, <1>f, <2>2 DEF CheckStaged, RemoveStaged
  <2>5. conn' \in [Conns -> Uploads]
    <3>1. \/ conn' = [conn EXCEPT ![k] = [conn[k] EXCEPT !.step = "checked"]]
          \/ conn' = [Redirected(conn[k].sha, "nowhere") EXCEPT ![k] = Free]
      BY <1>4 DEF CheckStaged
    <3> QED BY <2>2, <2>3, <3>1
  <2> QED BY <2>4, <2>5, OpKept
<1>5. ASSUME NEW k \in Conns, NEW s \in Subs, NEW p \in Paths, Enqueue(k, s, p) PROVE TypeInv'
  <2>1. conn[k].sha \in Contents
    BY <1>5, KindsOfUpload DEF Enqueue, Received
  <2>2. [step |-> "queued", sub |-> s] \in Uploads
    BY DEF Uploads
  <2>3. [state |-> "pending", sha |-> conn[k].sha, place |-> p] \in Submission
    BY <2>1 DEF Submission
  <2>4. mem' \in Db /\ conn' \in [Conns -> Uploads]
    BY <1>5, <2>2, <2>3 DEF Enqueue, Db
  <2> QED BY <1>5, <2>4, FlushKept DEF Enqueue
<1>6. ASSUME FlushOk \/ FlushFails PROVE TypeInv'
  <2>1. conn' \in [Conns -> Uploads]
    BY <1>6, AnsweredKeeps DEF FlushOk, FlushFails
  <2> QED BY <1>6, <2>1, FlushKept DEF FlushOk, FlushFails
<1>7. ASSUME NEW s \in Subs, Admit(s) PROVE TypeInv'
  <2>1. CASE op' = [step |-> "checked", sub |-> s]
    <3>1. op' \in Ops /\ op'.sub = s
      BY <2>1 DEF Ops
    <3> QED BY <1>7, <3>1, OpKept DEF Admit
  <2>2. CASE op' = [step |-> "flush"]
    BY <1>7, <2>2, FlushKept DEF Admit
  <2> QED BY <1>7, <2>1, <2>2 DEF Admit
<1>8. ASSUME SealDuplicate PROVE TypeInv'
  <2>1. op.sub \in Subs /\ IsPending(op.sub) /\ "rejected" \in Decided
    BY <1>8, KindsOfOp DEF SealDuplicate, Checked, Decided
  <2>2. Sha(op.sub) \in Contents /\ mem' \in Db
    BY <1>8, <2>1, PendingSub, DecideKeeps DEF SealDuplicate
  <2>3. conn' \in [Conns -> Uploads] /\ staging' \in [Contents -> Files]
    BY <1>8, <1>f, <2>1, <2>2, PendingSub, RedirectKeeps DEF SealDuplicate, RemoveStaged, Targets
  <2> QED BY <1>8, <2>2, <2>3, FlushKept DEF SealDuplicate
<1>9. ASSUME SealHash PROVE TypeInv'
  <2>1. op.sub \in Subs /\ IsPending(op.sub)
    BY <1>9, KindsOfOp DEF SealHash, Checked
  <2>2. staging[Sha(op.sub)] \in {"torn", "whole"}
    BY <1>9, <1>f, <2>1, PendingSub DEF SealHash
  <2>3. op' \in Sealing /\ op'.sub = op.sub
    BY <1>9, <2>1, <2>2 DEF SealHash, Sealing
  <2>4. op' \in Ops
    BY <2>3 DEF Ops, Sealing
  <2> QED BY <1>9, <2>1, <2>3, <2>4, OpKept DEF SealHash
<1>10. ASSUME SealMove PROVE TypeInv'
  <2>1. op \in Sealing /\ op.sub \in Subs /\ IsPending(op.sub)
    BY <1>10, KindsOfOp DEF SealMove, Sealing
  <2>2. Sha(op.sub) \in Contents /\ Place(op.sub) \in Paths
    BY <2>1, PendingSub
  <2>3. op' \in Sealing /\ op'.sub = op.sub
    BY <1>10, <2>1 DEF SealMove, Sealing
  <2>4. op' \in Ops
    BY <2>3 DEF Ops, Sealing
  <2>5. /\ conn' \in [Conns -> Uploads] /\ staging' \in [Contents -> Files]
        /\ vault' \in [Paths -> Files]
    BY <1>10, <1>f, <2>2, RedirectKeeps DEF SealMove, RemoveStaged, Targets
  <2> QED BY <1>10, <2>1, <2>3, <2>4, <2>5, OpKept DEF SealMove
<1>11. ASSUME SealRegister PROVE TypeInv'
  <2>1. op \in Sealing /\ op.sub \in Subs /\ op.as \in {"torn", "whole"} /\ IsPending(op.sub)
    BY <1>11, KindsOfOp DEF SealRegister, Sealing
  <2>2. [sha |-> Sha(op.sub), as |-> op.as] \in Document /\ Decide(op.sub, "admitted") \in Db
    BY <2>1, PendingSub, DecideKeeps DEF Decided, Document
  <2>3. mem' \in Db
    BY <1>11, <2>1, <2>2 DEF SealRegister, Db
  <2> QED BY <1>11, <2>3, FlushKept DEF SealRegister
<1>12. ASSUME SealFails PROVE TypeInv'
  BY <1>12, FlushKept DEF SealFails
<1>13. ASSUME NEW s \in Subs, Reject(s) PROVE TypeInv'
  <2>1. Sha(s) \in Contents /\ mem' \in Db
    BY <1>13, PendingSub, DecideKeeps DEF Reject, Decided
  <2>2. conn' \in [Conns -> Uploads] /\ staging' \in [Contents -> Files]
    BY <1>13, <1>f, <2>1, RedirectKeeps DEF Reject, RemoveStaged, Targets
  <2> QED BY <1>13, <2>1, <2>2, FlushKept DEF Reject
<1>14. ASSUME NEW c \in Contents, CleanStaging(c) PROVE TypeInv'
  <2>1. conn' \in [Conns -> Uploads] /\ staging' \in [Contents -> Files]
    BY <1>14, <1>f, RedirectKeeps DEF CleanStaging, RemoveStaged, Targets
  <2> QED BY <1>14, <2>1, OpKept DEF CleanStaging
<1>15. ASSUME Restart PROVE TypeInv'
  <2>1. conn' \in [Conns -> Uploads]
    BY <1>15 DEF Restart, Uploads
  <2> QED BY <1>15, <2>1, FlushKept DEF Restart
<1>16. CASE UNCHANGED vars
  BY <1>16, OpKept DEF vars
<1> QED
  BY <1>1, <1>2, <1>3, <1>4, <1>5, <1>6, <1>7, <1>8, <1>9, <1>10, <1>11, <1>12, <1>13, <1>14,
     <1>15, <1>16
  DEF Next

\* A service that has received nothing is of the right types.
LEMMA TypeInit == Init => TypeInv
<1>1. EmptyDb \in Db
  BY DEF EmptyDb, Db, Files
<1>2. Free \in Uploads /\ Free \in Ops /\ Free \notin Checked \cup Sealing /\ "none" \in Files
  BY DEF Uploads, Ops, Free, Checked, Sealing, Files
<1> QED BY <1>1, <1>2 DEF Init, TypeInv, TypeOK

\* Uploads, files and databases keep their types for any number of devices.
THEOREM TypeCorrect == Spec => []TypeOK
<1>1. TypeInv => TypeOK
  BY DEF TypeInv
<1> QED BY <1>1, TypeInit, TypeStep, PTL DEF Spec

\* The invariants below are proved on top of this one.
LEMMA TypeAlways == Spec => []TypeInv
BY TypeInit, TypeStep, PTL DEF Spec

-----------------------------------------------------------------------------
\* What a later content of the database keeps of an earlier one.
Grows(before, after) ==
  \A s \in Subs :
    /\ before.sub[s].state # "none" => /\ after.sub[s].state # "none"
                                       /\ after.sub[s].sha = before.sub[s].sha
                                       /\ after.sub[s].place = before.sub[s].place
    /\ before.sub[s].state \in Decided => after.sub[s] = before.sub[s]

\* A decision about a submission of the queue only adds to the database.
LEMMA DecideGrows ==
  ASSUME mem \in Db, NEW s \in Subs, IsPending(s), NEW state \in Decided,
         mem'.sub = Decide(s, state).sub
  PROVE  Grows(mem, mem')
<1>1. /\ mem'.sub[s].state = state /\ mem'.sub[s].sha = mem.sub[s].sha
      /\ mem'.sub[s].place = mem.sub[s].place /\ mem.sub[s].state = "pending"
      /\ \A t \in Subs \ {s} : mem'.sub[t] = mem.sub[t]
  BY DecideKeeps DEF IsPending
<1>2. "none" \notin Decided /\ "pending" \notin Decided
  BY DEF Decided
<1> QED BY <1>1, <1>2 DEF Grows

\* Every step adds to the database in memory, except a restart, which takes the
\* saved one; and it saves it or leaves the saved one alone.
LEMMA DbStep ==
  ASSUME TypeInv, [Next]_vars
  PROVE  /\ Grows(mem, mem') \/ Restart
         /\ disk' = disk \/ (disk' = mem /\ mem' = mem)
<1> USE DEF TypeInv, TypeOK
<1>1. CASE UNCHANGED mem
  <2>1. Grows(mem, mem')
    BY <1>1 DEF Grows
  <2>2. disk' = disk \/ disk' = mem
    BY DEF Next, vars, Receive, FinishWrite, WriteFails, RefuseEnvelope, CheckStaged, Enqueue,
       FlushOk, FlushFails, Admit, Reject, SealDuplicate, SealHash, SealMove, SealRegister,
       SealFails, CleanStaging, Restart
  <2> QED BY <1>1, <2>1, <2>2
<1>2. ASSUME NEW k \in Conns, NEW s \in Subs, NEW p \in Paths, Enqueue(k, s, p)
      PROVE  Grows(mem, mem') /\ disk' = disk
  <2>1. \A t \in Subs : t # s => mem'.sub[t] = mem.sub[t]
    BY <1>2 DEF Enqueue, Db
  <2>2. mem.sub[s].state = "none" /\ disk' = disk
    BY <1>2 DEF Enqueue
  <2> QED BY <2>1, <2>2 DEF Grows, Decided
<1>3. ASSUME SealDuplicate PROVE Grows(mem, mem') /\ disk' = disk
  <2>1. op.sub \in Subs /\ IsPending(op.sub) /\ "rejected" \in Decided
    BY <1>3, KindsOfOp DEF SealDuplicate, Checked, Decided
  <2> QED BY <1>3, <2>1, DecideGrows DEF SealDuplicate
<1>4. ASSUME SealRegister PROVE Grows(mem, mem') /\ disk' = disk
  <2>1. op.sub \in Subs /\ IsPending(op.sub) /\ "admitted" \in Decided
    BY <1>4, KindsOfOp DEF SealRegister, Sealing, Decided
  <2>2. mem'.sub = Decide(op.sub, "admitted").sub
    BY <1>4, <2>1, DecideKeeps DEF SealRegister, Db
  <2> QED BY <1>4, <2>1, <2>2, DecideGrows DEF SealRegister
<1>5. ASSUME NEW s \in Subs, Reject(s) PROVE Grows(mem, mem') /\ disk' = disk
  <2>1. IsPending(s) /\ "rejected" \in Decided
    BY <1>5 DEF Reject, Decided
  <2> QED BY <1>5, <2>1, DecideGrows DEF Reject
<1>6. CASE Restart
  BY <1>6 DEF Restart
<1>7. \/ UNCHANGED mem
      \/ \E k \in Conns, s \in Subs, p \in Paths : Enqueue(k, s, p)
      \/ SealDuplicate \/ SealRegister \/ Restart
      \/ \E s \in Subs : Reject(s)
  BY DEF Next, vars, Receive, FinishWrite, WriteFails, RefuseEnvelope, CheckStaged, FlushOk,
     FlushFails, Admit, SealHash, SealMove, SealFails, CleanStaging
<1> QED BY <1>1, <1>2, <1>3, <1>4, <1>5, <1>6, <1>7

\* AckedIsSaved and DecidedIsFinal, strengthened: memory only adds to what is
\* saved, and an ingestion that waits for the flush has its submission in memory.
AckInv ==
  /\ Grows(disk, mem)
  /\ \A k \in Conns : conn[k].step = "queued" => mem.sub[conn[k].sub].state # "none"
  /\ AckedIsSaved

\* What a connection that waits, or was told, may become in a step.
LEMMA WaitStep ==
  ASSUME TypeInv, [Next]_vars, NEW k \in Conns,
         conn'[k].step \in {"queued", "acked"}
  PROVE  /\ conn'[k].sub \in Subs
         /\ \/ conn'[k] = conn[k] /\ ~(FlushOk /\ conn[k].step = "queued")
            \/ \E s \in Subs, p \in Paths : /\ Enqueue(k, s, p) /\ conn'[k].sub = s
                                            /\ conn'[k].step = "queued"
            \/ /\ FlushOk /\ conn[k].step = "queued" /\ conn'[k].sub = conn[k].sub
               /\ conn'[k].step = "acked"
<1> USE DEF TypeInv, TypeOK
<1>0. conn'[k].sub \in Subs
  BY TypeStep, KindsOfUpload DEF Waiting
<1>f. Free.step = "free"
  BY DEF Free
<1>1. ASSUME NEW j \in Conns, NEW c \in Contents, Receive(j, c) PROVE conn'[k] = conn[k]
  <2>1. WritesTo(k, c) => [conn[k] EXCEPT !.last = FALSE].step = "writing"
    BY KindsOfUpload DEF WritesTo, Writing
  <2> QED BY <1>1, <2>1 DEF Receive
<1>2. ASSUME NEW j \in Conns, FinishWrite(j) \/ WriteFails(j) \/ RefuseEnvelope(j)
      PROVE  conn'[k] = conn[k]
  <2>1. \E x : conn' = [conn EXCEPT ![j] = x] /\ x.step \notin {"queued", "acked"}
    <3>1. [step |-> "written", sha |-> conn[j].sha].step = "written"
      OBVIOUS
    <3>2. \/ conn' = [conn EXCEPT ![j] = [step |-> "written", sha |-> conn[j].sha]]
          \/ conn' = [conn EXCEPT ![j] = Free]
      BY <1>2 DEF FinishWrite, WriteFails, RefuseEnvelope
    <3> QED BY <1>f, <3>1, <3>2
  <2> QED BY <2>1
<1>3. ASSUME NEW j \in Conns, NEW declared \in BOOLEAN, CheckStaged(j, declared)
      PROVE  conn'[k] = conn[k]
  <2>1. conn[j] \in Received
    BY <1>3, KindsOfUpload DEF CheckStaged
  <2>2. [conn[j] EXCEPT !.step = "checked"].step = "checked" /\ conn[j].sha \in Contents
    BY <2>1 DEF Received
  <2>3. CASE conn' = [conn EXCEPT ![j] = [conn[j] EXCEPT !.step = "checked"]]
    BY <2>2, <2>3
  <2>4. CASE conn' = [Redirected(conn[j].sha, "nowhere") EXCEPT ![j] = Free]
    <3> DEFINE r == Redirected(conn[j].sha, "nowhere")
    <3>1. r \in [Conns -> Uploads] /\ r[k].step = conn[k].step
          /\ (conn[k].step # "writing" => r[k] = conn[k])
      BY <2>2, RedirectKeeps DEF Targets
    <3>2. conn' = [r EXCEPT ![j] = Free]
      BY <2>4
    <3> HIDE DEF r
    <3>3. j # k
      BY <1>f, <3>1, <3>2
    <3> QED BY <3>1, <3>2, <3>3
  <2> QED BY <1>3, <2>3, <2>4 DEF CheckStaged
<1>4. ASSUME NEW j \in Conns, NEW s \in Subs, NEW p \in Paths, Enqueue(j, s, p)
      PROVE  conn'[k] = conn[k] \/ (j = k /\ conn'[k].sub = s /\ conn'[k].step = "queued")
  BY <1>4 DEF Enqueue
<1>5. ASSUME FlushOk
      PROVE  \/ conn'[k] = conn[k] /\ conn[k].step # "queued"
             \/ /\ conn[k].step = "queued" /\ conn'[k].sub = conn[k].sub
                /\ conn'[k].step = "acked"
  BY <1>5, <1>f, AnsweredKeeps DEF FlushOk
<1>6. ASSUME FlushFails PROVE conn'[k] = conn[k]
  BY <1>6, <1>f, AnsweredKeeps DEF FlushFails
<1>7. ASSUME NEW c \in Contents, NEW where \in Targets,
             conn' = Redirected(c, where)
      PROVE  conn'[k] = conn[k]
  BY <1>7, RedirectKeeps
<1>8. ASSUME SealDuplicate \/ SealMove PROVE conn'[k] = conn[k]
  <2>1. Sha(op.sub) \in Contents /\ Place(op.sub) \in Paths
    BY <1>8, KindsOfOp, PendingSub DEF SealDuplicate, SealMove, Checked, Sealing
  <2> QED BY <1>7, <1>8, <2>1 DEF SealDuplicate, SealMove, Targets
<1>9. ASSUME NEW s \in Subs, Reject(s) PROVE conn'[k] = conn[k]
  BY <1>7, <1>9, PendingSub DEF Reject, Targets
<1>10. ASSUME NEW c \in Contents, CleanStaging(c) PROVE conn'[k] = conn[k]
  BY <1>7, <1>10 DEF CleanStaging, Targets
<1>11. ASSUME Restart PROVE FALSE
  BY <1>11, <1>f DEF Restart
<1>12. ASSUME SealHash \/ SealRegister \/ SealFails \/ (\E s \in Subs : Admit(s)) \/ UNCHANGED vars
       PROVE  conn'[k] = conn[k]
  BY <1>12 DEF SealHash, SealRegister, SealFails, Admit, vars
<1>13. \/ conn'[k] = conn[k] /\ conn'[k].step # "queued"
       \/ conn'[k] = conn[k] /\ ~FlushOk
       \/ \E s \in Subs, p \in Paths :
            Enqueue(k, s, p) /\ conn'[k].sub = s /\ conn'[k].step = "queued"
       \/ FlushOk /\ conn[k].step = "queued" /\ conn'[k].sub = conn[k].sub /\ conn'[k].step = "acked"
  <2>1. CASE FlushOk
    BY <1>5, <2>1
  <2>2. CASE ~FlushOk
    BY <1>1, <1>2, <1>3, <1>4, <1>6, <1>8, <1>9, <1>10, <1>11, <1>12, <2>2 DEF Next
  <2> QED BY <2>1, <2>2
<1> QED BY <1>0, <1>13

\* Every step keeps AckInv.
LEMMA AckStep == TypeInv /\ AckInv /\ [Next]_vars => AckInv'
<1> SUFFICES ASSUME TypeInv, AckInv, [Next]_vars PROVE AckInv'
  OBVIOUS
<1>1. Grows(mem, mem') \/ (Restart /\ mem' = disk)
  BY DbStep DEF Restart
<1>2. disk' = disk \/ (disk' = mem /\ mem' = mem)
  BY DbStep
<1>3. Grows(disk, disk) /\ Grows(mem, mem)
  BY DEF Grows
<1>4. Grows(disk, mem')
  BY <1>1, <1>3 DEF AckInv, Grows
<1>5. Grows(disk, mem)' /\ Grows(disk, disk')
  <2>1. CASE disk' = disk
    BY <1>3, <1>4, <2>1 DEF Grows
  <2>2. CASE disk' = mem /\ mem' = mem
    BY <1>3, <2>2 DEF AckInv, Grows
  <2> QED BY <1>2, <2>1, <2>2
<1>6. ASSUME NEW k \in Conns, conn'[k].step = "queued" PROVE mem'.sub[conn'[k].sub].state # "none"
  <2>1. CASE \E s \in Subs, p \in Paths : Enqueue(k, s, p) /\ conn'[k].sub = s
    <3>1. PICK s \in Subs, p \in Paths : Enqueue(k, s, p) /\ conn'[k].sub = s
      BY <2>1
    <3>2. mem'.sub[s] = [state |-> "pending", sha |-> conn[k].sha, place |-> p]
      BY <3>1 DEF Enqueue, TypeInv, TypeOK, Db
    <3> QED BY <3>1, <3>2
  <2>2. CASE conn'[k] = conn[k]
    <3>1. ~Restart
      BY <1>6 DEF Restart, Free
    <3>2. conn[k].sub \in Subs
      BY <1>6, <2>2, WaitStep
    <3> QED BY <1>1, <1>6, <2>2, <3>1, <3>2 DEF AckInv, Grows
  <2> QED BY <1>6, <2>1, <2>2, WaitStep
<1>7. ASSUME NEW k \in Conns, conn'[k].step = "acked" PROVE disk'.sub[conn'[k].sub].state # "none"
  <2>1. CASE conn'[k] = conn[k]
    <3>1. conn[k].sub \in Subs
      BY <1>7, <2>1, WaitStep
    <3> QED BY <1>5, <1>7, <2>1, <3>1 DEF AckInv, AckedIsSaved, StateOf, Grows
  <2>2. CASE FlushOk /\ conn[k].step = "queued" /\ conn'[k].sub = conn[k].sub
    BY <2>2 DEF FlushOk, AckInv
  <2> QED BY <1>7, <2>1, <2>2, WaitStep
<1> QED BY <1>5, <1>6, <1>7 DEF AckInv, AckedIsSaved, StateOf

\* AckInv holds in every state.
LEMMA AckAlways == Spec => []AckInv
<1>1. Init => AckInv
  BY DEF Init, AckInv, Grows, AckedIsSaved, Free, EmptyDb, Decided
<1> QED BY <1>1, TypeAlways, AckStep, PTL DEF Spec

\* A device that was told "pending_admission" finds its delivery in the saved
\* queue, or decided, whatever fails or dies afterwards.
THEOREM AcknowledgedIsDurable == Spec => []AckedIsSaved
<1>1. AckInv => AckedIsSaved
  BY DEF AckInv
<1> QED BY <1>1, AckAlways, PTL

-----------------------------------------------------------------------------
\* The submission was admitted, at a place, with a content.
AdmittedAs(db, s, p, c) ==
  db.sub[s].state = "admitted" /\ db.sub[s].place = p /\ db.sub[s].sha = c

\* What a content of the database and a vault tree have in common.
DocsOK(db, tree) ==
  \A p \in Paths :
    /\ db.document[p] # NoDocument <=> \E s \in Subs, c \in Contents : AdmittedAs(db, s, p, c)
    /\ db.document[p] # NoDocument => tree[p] # "none"
    /\ \A s \in Subs, c \in Contents : AdmittedAs(db, s, p, c) => db.document[p].sha = c
    /\ \A s, t \in Subs, c, d \in Contents :
         AdmittedAs(db, s, p, c) /\ AdmittedAs(db, t, p, d) => s = t

\* No two documents have the hash of one content.
WholeOnce(db) ==
  \A p, q \in Paths : db.document[p] = db.document[q] /\ db.document[p].as = "whole" => p = q

\* AdmittedIsCustodied, OwnDocument and ContentRegisteredOnce, strengthened: also of
\* memory; a document is moved to a place that was free and registered where it was
\* moved; and between the hash and the record nothing with that hash is registered.
DataInv ==
  /\ DocsOK(mem, vault) /\ DocsOK(disk, vault)
  /\ WholeOnce(mem) /\ WholeOnce(disk)
  /\ \A k \in Conns :
       conn[k].step = "writing" /\ conn[k].into \in Paths => vault[conn[k].into] # "none"
  /\ op \in Sealing /\ op.step = "hashed" => vault[Place(op.sub)] = "none"
  /\ op \in Sealing /\ op.step = "moved" => /\ vault[Place(op.sub)] # "none"
                                            /\ mem.document[Place(op.sub)] = NoDocument
  /\ op \in Sealing /\ op.as = "whole" =>
       \A p \in Paths : mem.document[p] # [sha |-> Sha(op.sub), as |-> "whole"]

\* What has not been admitted anew, and is still in the vault, is still in order.
LEMMA DocsKept ==
  ASSUME NEW db, NEW db2, NEW tree, NEW tree2, DocsOK(db, tree), WholeOnce(db),
         db2.document = db.document,
         \A s \in Subs, p \in Paths, c \in Contents :
           AdmittedAs(db2, s, p, c) <=> AdmittedAs(db, s, p, c),
         \A p \in Paths : tree[p] # "none" => tree2[p] # "none"
  PROVE  DocsOK(db2, tree2) /\ WholeOnce(db2)
BY DEF DocsOK, WholeOnce

\* A file of the vault is never removed; one appears only where a staged file
\* is moved to.
LEMMA VaultStep ==
  ASSUME TypeInv, DataInv, [Next]_vars, NEW p \in Paths
  PROVE  /\ vault[p] # "none" => vault'[p] # "none"
         /\ vault[p] = "none" => vault'[p] = "none" \/ (SealMove /\ p = Place(op.sub))
<1> USE DEF TypeInv, TypeOK
<1>1. ASSUME NEW k \in Conns, FinishWrite(k)
      PROVE  vault[p] # "none" <=> vault'[p] # "none"
  <2>1. conn[k] \in Writing /\ conn[k].step = "writing"
    BY <1>1, KindsOfUpload DEF FinishWrite
  <2>2. CASE conn[k].into \in Paths
    <3>1. PICK f \in Filled(k, vault[conn[k].into]) : vault' = [vault EXCEPT ![conn[k].into] = f]
      BY <1>1, <2>1, <2>2, FilledWhere, PathsAssumption
    <3>2. vault[conn[k].into] # "none" /\ f # "none"
      BY <2>1, <2>2, <3>1 DEF DataInv, Filled
    <3> QED BY <2>2, <3>1, <3>2
  <2>3. CASE conn[k].into \notin Paths
    BY <1>1, <2>1, <2>3, FilledWhere
  <2> QED BY <2>2, <2>3
<1>2. ASSUME SealMove
      PROVE  vault'[p] = vault[p] \/ (p = Place(op.sub) /\ vault'[p] # "none")
  BY <1>2 DEF SealMove
<1>3. vault' = vault \/ SealMove \/ \E k \in Conns : FinishWrite(k)
  BY DEF Next, vars, Receive, WriteFails, RefuseEnvelope, CheckStaged, Enqueue, FlushOk,
     FlushFails, Admit, Reject, SealDuplicate, SealHash, SealRegister, SealFails,
     CleanStaging, Restart
<1> QED BY <1>1, <1>2, <1>3

\* A connection writes into the vault only where a staged file was moved to.
LEMMA WriterStep ==
  ASSUME TypeInv, DataInv, [Next]_vars, NEW k \in Conns,
         conn'[k].step = "writing", conn'[k].into \in Paths
  PROVE  vault'[conn'[k].into] # "none"
<1> USE DEF TypeInv, TypeOK
<1>f. Free.step = "free" /\ "nowhere" \in Targets /\ {"staging", "nowhere"} \cap Paths = {}
  BY PathsAssumption DEF Free, Targets
<1> DEFINE Same == conn[k].step = "writing" /\ conn[k].into = conn'[k].into
<1>1. ASSUME NEW j \in Conns, NEW c \in Contents, Receive(j, c) PROVE Same
  <2>1. conn'[k] # [step |-> "writing", sha |-> c, into |-> "staging", last |-> TRUE]
    BY <1>f
  <2>2. ~WritesTo(k, c)
    <3> SUFFICES ASSUME WritesTo(k, c) PROVE FALSE
      OBVIOUS
    <3>1. conn[k] \in Writing /\ conn[k].into = "staging"
      BY KindsOfUpload DEF WritesTo
    <3>2. [conn[k] EXCEPT !.last = FALSE].into = "staging"
      BY <3>1 DEF Writing
    <3>3. conn'[k] = [conn[k] EXCEPT !.last = FALSE]
      BY <1>1, <2>1 DEF Receive
    <3> QED BY <1>f, <3>2, <3>3
  <2> QED BY <1>1, <2>1, <2>2 DEF Receive
<1>2. ASSUME NEW j \in Conns, FinishWrite(j) \/ WriteFails(j) \/ RefuseEnvelope(j) PROVE Same
  <2>1. \E x : conn' = [conn EXCEPT ![j] = x] /\ x.step # "writing"
    <3>1. [step |-> "written", sha |-> conn[j].sha].step = "written"
      OBVIOUS
    <3>2. \/ conn' = [conn EXCEPT ![j] = [step |-> "written", sha |-> conn[j].sha]]
          \/ conn' = [conn EXCEPT ![j] = Free]
      BY <1>2 DEF FinishWrite, WriteFails, RefuseEnvelope
    <3> QED BY <1>f, <3>1, <3>2
  <2> QED BY <2>1
<1>3. ASSUME NEW c \in Contents, conn' = Redirected(c, "nowhere") PROVE Same
  <2> DEFINE r == Redirected(c, "nowhere")
  <2>1. r[k].step = "writing" /\ r[k].into = conn'[k].into
    BY <1>3
  <2> QED BY <1>f, <2>1, RedirectKeeps
<1>4. ASSUME NEW j \in Conns, NEW declared \in BOOLEAN, CheckStaged(j, declared) PROVE Same
  <2>1. conn[j] \in Received
    BY <1>4, KindsOfUpload DEF CheckStaged
  <2>2. [conn[j] EXCEPT !.step = "checked"].step = "checked" /\ conn[j].sha \in Contents
    BY <2>1 DEF Received
  <2>3. CASE conn' = [conn EXCEPT ![j] = [conn[j] EXCEPT !.step = "checked"]]
    BY <2>2, <2>3
  <2>4. CASE conn' = [Redirected(conn[j].sha, "nowhere") EXCEPT ![j] = Free]
    <3> DEFINE r == Redirected(conn[j].sha, "nowhere")
    <3>1. conn' = [r EXCEPT ![j] = Free] /\ r \in [Conns -> Uploads]
      BY <1>f, <2>2, <2>4, RedirectKeeps
    <3> HIDE DEF r
    <3>2. conn'[k] = r[k]
      BY <1>f, <3>1
    <3>3. r[k].step = "writing" /\ r[k].into = conn'[k].into
      BY <3>2
    <3> QED BY <1>f, <2>2, <3>3, RedirectKeeps DEF r
  <2> QED BY <1>4, <2>3, <2>4 DEF CheckStaged
<1>5. ASSUME NEW j \in Conns, NEW s \in Subs, NEW p \in Paths, Enqueue(j, s, p) PROVE Same
  BY <1>5 DEF Enqueue
<1>6. ASSUME FlushOk \/ FlushFails PROVE Same
  <2>1. conn'[k] = conn[k]
    BY <1>6, <1>f, AnsweredKeeps DEF FlushOk, FlushFails
  <2> QED BY <2>1
<1>7. ASSUME SealDuplicate PROVE Same
  <2>1. Sha(op.sub) \in Contents
    BY <1>7, KindsOfOp, PendingSub DEF SealDuplicate, Checked
  <2> QED BY <1>3, <1>7, <2>1 DEF SealDuplicate
<1>8. ASSUME NEW s \in Subs, Reject(s) PROVE Same
  BY <1>3, <1>8, PendingSub DEF Reject
<1>9. ASSUME NEW c \in Contents, CleanStaging(c) PROVE Same
  BY <1>3, <1>9 DEF CleanStaging
<1>10. ASSUME Restart PROVE FALSE
  BY <1>10, <1>f DEF Restart
<1>11. ASSUME SealHash \/ SealRegister \/ SealFails \/ (\E s \in Subs : Admit(s)) \/ UNCHANGED vars
       PROVE  Same
  BY <1>11 DEF SealHash, SealRegister, SealFails, Admit, vars
<1>12. ASSUME SealMove
       PROVE  Same \/ (conn'[k].into = Place(op.sub) /\ vault'[Place(op.sub)] # "none")
  <2>1. op.sub \in Subs /\ Sha(op.sub) \in Contents /\ Place(op.sub) \in Paths
    BY <1>12, KindsOfOp, PendingSub DEF SealMove, Sealing
  <2>2. conn' = Redirected(Sha(op.sub), Place(op.sub)) /\ vault'[Place(op.sub)] # "none"
    BY <1>12, <2>1 DEF SealMove
  <2>3. Place(op.sub) \in Targets
    BY <2>1 DEF Targets
  <2> QED BY <2>1, <2>2, <2>3, RedirectKeeps
<1>13. ASSUME Same PROVE vault'[conn'[k].into] # "none"
  <2>1. vault[conn'[k].into] # "none"
    BY <1>13 DEF DataInv
  <2> QED BY <2>1, VaultStep
<1> HIDE DEF Same
<1> QED
  BY <1>1, <1>2, <1>4, <1>5, <1>6, <1>7, <1>8, <1>9, <1>10, <1>11, <1>12, <1>13 DEF Next

\* What a step that registers nothing does to the documents in memory.
LEMMA MemKept ==
  ASSUME TypeInv, DataInv, [Next]_vars, mem'.document = mem.document,
         \A s \in Subs, p \in Paths, c \in Contents :
           AdmittedAs(mem', s, p, c) <=> AdmittedAs(mem, s, p, c)
  PROVE  DocsOK(mem', vault') /\ WholeOnce(mem')
BY VaultStep, DocsKept DEF DataInv

\* Every step keeps DataInv.
LEMMA DataStep == TypeInv /\ DataInv /\ [Next]_vars => DataInv'
<1> SUFFICES ASSUME TypeInv, DataInv, [Next]_vars PROVE DataInv'
  OBVIOUS
<1> USE DEF TypeInv, TypeOK
<1>a. \A k \in Conns : conn'[k].step = "writing" /\ conn'[k].into \in Paths
                         => vault'[conn'[k].into] # "none"
  BY WriterStep
<1>b. DocsOK(disk, vault') /\ WholeOnce(disk)
  BY VaultStep, DocsKept DEF DataInv
<1>c. mem' = mem => DocsOK(mem', vault') /\ WholeOnce(mem')
  BY MemKept
<1>1. CASE UNCHANGED <<mem, disk, op>>
  <2>1. ASSUME op \in Sealing
        PROVE  op.sub \in Subs /\ IsPending(op.sub) /\ Place(op.sub) \in Paths
    BY <2>1, PendingSub DEF Sealing
  <2>2. ~SealMove \/ op.step = "moved"
    BY <1>1, KindsOfOp DEF SealMove, Sealing
  <2>3. op \in Sealing /\ op.step = "hashed" => vault'[Place(op.sub)] = "none"
    BY <2>1, <2>2, VaultStep DEF DataInv
  <2>4. op \in Sealing /\ op.step = "moved" => vault'[Place(op.sub)] # "none"
    BY <2>1, VaultStep DEF DataInv
  <2>5. Place(op.sub)' = Place(op.sub) /\ Sha(op.sub)' = Sha(op.sub)
    BY <1>1 DEF Place, Sha
  <2> QED BY <1>a, <1>b, <1>c, <1>1, <2>3, <2>4, <2>5 DEF DataInv, WholeOnce
<1>2. ASSUME DocsOK(mem', vault'), WholeOnce(mem'),
             disk' = disk \/ (disk' = mem /\ mem' = mem),
             op' = Free \/ op' = [step |-> "flush"] \/ op' \in Checked
      PROVE  DataInv'
  <2>1. op' \notin Sealing
    BY <1>2 DEF Free, Checked, Sealing
  <2>2. DocsOK(disk', vault') /\ WholeOnce(disk')
    BY <1>b, <1>2
  <2> QED BY <1>a, <1>2, <2>1, <2>2 DEF DataInv, WholeOnce
<1>3. ASSUME NEW s \in Subs, Admit(s) PROVE DataInv'
  <2>1. mem' = mem /\ disk' = disk
    BY <1>3 DEF Admit
  <2>2. op' = [step |-> "flush"] \/ op' \in Checked
    BY <1>3 DEF Admit, Checked
  <2> QED BY <1>c, <1>2, <2>1, <2>2
<1>4. ASSUME NEW k \in Conns, NEW s \in Subs, NEW p \in Paths, Enqueue(k, s, p) PROVE DataInv'
  <2>1. /\ mem.sub[s].state = "none" /\ mem'.sub[s].state = "pending"
        /\ \A t \in Subs \ {s} : mem'.sub[t] = mem.sub[t]
        /\ mem'.document = mem.document
    <3> DEFINE new == [state |-> "pending", sha |-> conn[k].sha, place |-> p]
    <3>1. mem' = [mem EXCEPT !.sub = [mem.sub EXCEPT ![s] = new]]
      BY <1>4 DEF Enqueue
    <3>2. new.state = "pending"
      OBVIOUS
    <3> HIDE DEF new
    <3> QED BY <1>4, <3>1, <3>2 DEF Enqueue, Db
  <2>2. DocsOK(mem', vault') /\ WholeOnce(mem')
    BY <2>1, MemKept DEF AdmittedAs
  <2> QED BY <1>2, <1>4, <2>2 DEF Enqueue
<1>5. ASSUME NEW s \in Subs, IsPending(s), mem' = Decide(s, "rejected")
      PROVE  DocsOK(mem', vault') /\ WholeOnce(mem')
  <2>1. "rejected" \in Decided
    BY DEF Decided
  <2>2. /\ mem.sub[s].state = "pending" /\ mem'.sub[s].state = "rejected"
        /\ \A t \in Subs \ {s} : mem'.sub[t] = mem.sub[t]
        /\ mem'.document = mem.document
    BY <1>5, <2>1, DecideKeeps DEF IsPending
  <2> QED BY <2>2, MemKept DEF AdmittedAs
<1>6. ASSUME SealDuplicate PROVE DataInv'
  <2>1. op.sub \in Subs /\ IsPending(op.sub)
    BY <1>6, KindsOfOp DEF SealDuplicate, Checked
  <2> QED BY <1>2, <1>5, <1>6, <2>1 DEF SealDuplicate
<1>7. ASSUME NEW s \in Subs, Reject(s) PROVE DataInv'
  BY <1>2, <1>5, <1>7 DEF Reject
<1>8. ASSUME SealHash PROVE DataInv'
  <2>1. /\ op' = [step |-> "hashed", sub |-> op.sub, as |-> staging[Sha(op.sub)]]
        /\ UNCHANGED <<mem, disk, vault>>
        /\ vault[Place(op.sub)] = "none" /\ ~Finds(Sha(op.sub))
    BY <1>8 DEF SealHash, Taken
  <2>2. Place(op.sub)' = Place(op.sub) /\ Sha(op.sub)' = Sha(op.sub)
    BY <2>1 DEF Place, Sha
  <2>3. op'.as = "whole" =>
          \A p \in Paths : mem.document[p] # [sha |-> Sha(op.sub), as |-> "whole"]
    BY <2>1 DEF Finds
  <2>4. op'.step = "hashed"
    BY <2>1
  <2> QED BY <1>a, <1>b, <1>c, <2>1, <2>2, <2>3, <2>4 DEF DataInv, WholeOnce
<1>9. ASSUME SealMove PROVE DataInv'
  <2>1. op \in Sealing /\ op.step = "hashed" /\ op.sub \in Subs /\ IsPending(op.sub)
    BY <1>9, KindsOfOp DEF SealMove, Sealing
  <2>2. Place(op.sub) \in Paths /\ vault[Place(op.sub)] = "none" /\ staging[Sha(op.sub)] # "none"
    BY <1>9, <2>1, PendingSub DEF DataInv, SealMove
  <2>3. mem.document[Place(op.sub)] = NoDocument
    BY <2>2 DEF DataInv, DocsOK
  <2>4. vault'[Place(op.sub)] # "none"
    BY <1>9, <2>2 DEF SealMove
  <2>5. op'.step = "moved" /\ op'.sub = op.sub /\ op'.as = op.as
    BY <1>9, <2>1 DEF SealMove, Sealing
  <2>6. UNCHANGED <<mem, disk>> /\ Place(op.sub)' = Place(op.sub) /\ Sha(op.sub)' = Sha(op.sub)
    BY <1>9, <2>5 DEF SealMove, Place, Sha
  <2> QED BY <1>a, <1>b, <1>c, <2>1, <2>3, <2>4, <2>5, <2>6 DEF DataInv, WholeOnce
<1>10. ASSUME SealRegister PROVE DataInv'
  <2> DEFINE p == Place(op.sub)
             c == Sha(op.sub)
             d == [sha |-> c, as |-> op.as]
  <2>1. /\ op \in Sealing /\ op.step = "moved" /\ op.sub \in Subs /\ IsPending(op.sub)
        /\ "admitted" \in Decided
    BY <1>10, KindsOfOp DEF SealRegister, Sealing, Decided
  <2>2. p \in Paths /\ c \in Contents /\ vault[p] # "none" /\ mem.document[p] = NoDocument
    BY <2>1, PendingSub DEF DataInv
  <2>3. Decide(op.sub, "admitted") \in Db /\ mem' = [Decide(op.sub, "admitted") EXCEPT !.document[p] = d]
    BY <1>10, <2>1, DecideKeeps DEF SealRegister
  <2>d. d # NoDocument /\ d.sha = c /\ d.as = op.as /\ op.as \in {"torn", "whole"}
    BY <2>1 DEF NoDocument, Sealing
  <2>w. op.as = "whole" => \A q \in Paths : mem.document[q] # d
    BY <2>1 DEF DataInv
  <2> HIDE DEF d
  <2>4. /\ mem'.sub = Decide(op.sub, "admitted").sub
        /\ mem'.document[p] = d
        /\ \A q \in Paths \ {p} : mem'.document[q] = mem.document[q]
    BY <2>1, <2>2, <2>3, DecideKeeps DEF Db
  <2>5. /\ mem.sub[op.sub].state = "pending"
        /\ mem'.sub[op.sub].state = "admitted" /\ mem'.sub[op.sub].sha = c
        /\ mem'.sub[op.sub].place = p
        /\ \A t \in Subs \ {op.sub} : mem'.sub[t] = mem.sub[t]
    BY <2>1, <2>4, DecideKeeps DEF IsPending, Sha, Place
  <2>6. vault' = vault
    BY <1>10 DEF SealRegister
  <2> HIDE DEF p, c
  <2>7. \A t \in Subs, q \in Paths, e \in Contents :
          AdmittedAs(mem', t, q, e) <=>
            AdmittedAs(mem, t, q, e) \/ (t = op.sub /\ q = p /\ e = c)
    BY <2>5 DEF AdmittedAs
  <2>8. \A t \in Subs, e \in Contents : ~AdmittedAs(mem, t, p, e)
    BY <2>2 DEF DataInv, DocsOK
  <2>9. DocsOK(mem', vault')
    <3> SUFFICES ASSUME NEW q \in Paths
                 PROVE  /\ mem'.document[q] # NoDocument
                             <=> \E t \in Subs, e \in Contents : AdmittedAs(mem', t, q, e)
                        /\ mem'.document[q] # NoDocument => vault'[q] # "none"
                        /\ \A t \in Subs, e \in Contents :
                             AdmittedAs(mem', t, q, e) => mem'.document[q].sha = e
                        /\ \A t, u \in Subs, e, g \in Contents :
                             AdmittedAs(mem', t, q, e) /\ AdmittedAs(mem', u, q, g) => t = u
      BY DEF DocsOK
    <3>1. CASE q = p
      BY <2>1, <2>2, <2>d, <2>4, <2>6, <2>7, <2>8, <3>1
    <3>2. CASE q # p
      BY <2>4, <2>6, <2>7, <3>2 DEF DataInv, DocsOK
    <3> QED BY <3>1, <3>2
  <2>10. WholeOnce(mem')
    BY <2>2, <2>d, <2>w, <2>4 DEF DataInv, WholeOnce
  <2> QED BY <1>2, <1>10, <2>9, <2>10 DEF SealRegister
<1>11. ASSUME Restart PROVE DataInv'
  <2>1. DocsOK(mem', vault') /\ WholeOnce(mem')
    BY <1>b, <1>11 DEF Restart
  <2> QED BY <1>2, <1>11, <2>1 DEF Restart
<1>12. ASSUME NEW k \in Conns,
              \/ \E c \in Contents : Receive(k, c)
              \/ FinishWrite(k) \/ WriteFails(k) \/ RefuseEnvelope(k)
              \/ \E declared \in BOOLEAN : CheckStaged(k, declared)
       PROVE  UNCHANGED <<mem, disk, op>>
  BY <1>12 DEF Receive, FinishWrite, WriteFails, RefuseEnvelope, CheckStaged
<1>13. ASSUME (\E c \in Contents : CleanStaging(c)) \/ UNCHANGED vars
       PROVE  UNCHANGED <<mem, disk, op>>
  BY <1>13 DEF CleanStaging, vars
<1>14. ASSUME SealFails \/ FlushOk \/ FlushFails PROVE DataInv'
  <2>1. mem' = mem /\ (disk' = disk \/ disk' = mem)
    BY <1>14 DEF SealFails, FlushOk, FlushFails
  <2>2. op' = Free
    BY <1>14 DEF SealFails, FlushOk, FlushFails
  <2> QED BY <1>c, <1>2, <2>1, <2>2
<1> QED
  BY <1>1, <1>3, <1>4, <1>6, <1>7, <1>8, <1>9, <1>10, <1>11, <1>12, <1>13, <1>14 DEF Next

\* DataInv holds in every state.
LEMMA DataAlways == Spec => []DataInv
<1>1. Init => DataInv
  BY DEF Init, DataInv, DocsOK, WholeOnce, AdmittedAs, EmptyDb, NoDocument, Free, Sealing
<1> QED BY <1>1, TypeAlways, DataStep, PTL DEF Spec

\* However uploads, cleanings, failures and restarts interleave, the saved database
\* holds a document exactly where a delivery was admitted, under its content, and the
\* files of the documents are in the vault.
THEOREM AdmissionIsCustody == Spec => []AdmittedIsCustodied
<1>1. TypeInv /\ DataInv => AdmittedIsCustodied
  <2> SUFFICES ASSUME TypeInv, DataInv PROVE AdmittedIsCustodied
    OBVIOUS
  <2>1. \A s \in Subs : Admitted(s) =>
          /\ disk.sub[s].place \in Paths /\ disk.sub[s].sha \in Contents
          /\ AdmittedAs(disk, s, disk.sub[s].place, disk.sub[s].sha)
    BY DEF TypeInv, TypeOK, Db, Submission, Admitted, StateOf, AdmittedAs
  <2>2. ASSUME NEW s \in Subs, Admitted(s)
        PROVE  /\ disk.sub[s].place \in Registered(disk)
               /\ disk.document[disk.sub[s].place].sha = disk.sub[s].sha
               /\ vault[disk.sub[s].place] # "none"
    BY <2>1, <2>2 DEF DataInv, DocsOK, Registered
  <2>3. ASSUME NEW p \in Registered(disk)
        PROVE  \E s \in Subs : Admitted(s) /\ disk.sub[s].place = p
    BY <2>3 DEF DataInv, DocsOK, Registered, AdmittedAs, Admitted, StateOf
  <2> QED BY <2>2, <2>3 DEF AdmittedIsCustodied
<1> QED BY <1>1, TypeAlways, DataAlways, PTL

\* No admission takes the place of another one's document.
THEOREM DocumentsAreTheirOwn == Spec => []OwnDocument
<1>1. TypeInv /\ DataInv => OwnDocument
  <2> SUFFICES ASSUME TypeInv, DataInv, NEW s \in Subs, NEW t \in Subs,
                      Admitted(s), Admitted(t), disk.sub[s].place = disk.sub[t].place
               PROVE  s = t
    BY DEF OwnDocument
  <2>1. disk.sub[s].place \in Paths /\ disk.sub[s].sha \in Contents /\ disk.sub[t].sha \in Contents
    BY DEF TypeInv, TypeOK, Db, Submission, Admitted, StateOf
  <2> QED BY <2>1 DEF DataInv, DocsOK, AdmittedAs, Admitted, StateOf
<1> QED BY <1>1, TypeAlways, DataAlways, PTL

\* Two documents never have the hash of one content, wherever they were delivered
\* to.  It does not follow that a content is admitted once: what is hashed for the
\* record may be a part of it (the run admission_twice).
THEOREM RegisteredOnce == Spec => []ContentRegisteredOnce
<1>1. DataInv => ContentRegisteredOnce
  BY DEF DataInv, WholeOnce, ContentRegisteredOnce, Registered
<1> QED BY <1>1, DataAlways, PTL

-----------------------------------------------------------------------------
\* The deliveries that the saved database knows, seen through the mapping.
QueueKnown ==
  /\ DOMAIN Queue = {s \in Subs : StateOf(s) # "none"}
  /\ \A s \in DOMAIN Queue : Queue[s] = disk.sub[s] /\ disk.sub[s] \in Submission
  /\ Queue \in [DOMAIN Queue -> Promise!Delivery]

LEMMA QueueIs == TypeInv => QueueKnown
<1> SUFFICES ASSUME TypeInv PROVE QueueKnown
  OBVIOUS
<1>1. Submission = Promise!Delivery
  BY DEF Submission, Promise!Delivery, Decided
<1>2. \A s \in Subs : StateOf(s) # "none" => disk.sub[s] \in Submission
  BY DEF TypeInv, TypeOK, Db, StateOf
<1>3. DOMAIN Queue = {s \in Subs : StateOf(s) # "none"}
  BY DEF Queue
<1>4. \A s \in DOMAIN Queue : Queue[s] = disk.sub[s] /\ disk.sub[s] \in Submission
  BY <1>2, <1>3 DEF Queue
<1>5. Queue \in [DOMAIN Queue -> Promise!Delivery]
  BY <1>1, <1>2, <1>3 DEF Queue
<1> QED BY <1>3, <1>4, <1>5 DEF QueueKnown

\* The documents are the deliveries admitted, each in a place of its own.
DocumentsKnown ==
  /\ Documents = {[place |-> Queue[s].place, sha |-> Queue[s].sha] : s \in Promise!Admitted(Queue)}
  /\ \A s, t \in Promise!Admitted(Queue) : Queue[s].place = Queue[t].place => s = t

LEMMA DocumentsAre == TypeInv /\ DataInv => DocumentsKnown
<1> SUFFICES ASSUME TypeInv, DataInv PROVE DocumentsKnown
  OBVIOUS
<1> DEFINE Doc(s) == [place |-> Queue[s].place, sha |-> Queue[s].sha]
<1>1. \A s : s \in Promise!Admitted(Queue) <=> s \in Subs /\ disk.sub[s].state = "admitted"
  BY QueueIs DEF QueueKnown, Promise!Admitted, StateOf
<1>2. ASSUME NEW s \in Promise!Admitted(Queue)
      PROVE  /\ Queue[s] = disk.sub[s] /\ disk.sub[s].sha \in Contents
             /\ disk.sub[s].place \in Paths
             /\ AdmittedAs(disk, s, disk.sub[s].place, disk.sub[s].sha)
  BY <1>1, QueueIs DEF QueueKnown, Promise!Admitted, Submission, AdmittedAs
<1>3. ASSUME NEW s \in Promise!Admitted(Queue) PROVE Doc(s) \in Documents
  <2>1. /\ disk.sub[s].place \in Registered(disk)
        /\ disk.document[disk.sub[s].place].sha = disk.sub[s].sha
    BY <1>1, <1>2 DEF DataInv, DocsOK, Registered
  <2> QED BY <1>2, <2>1 DEF Documents
<1>4. ASSUME NEW p \in Registered(disk)
      PROVE  \E s \in Promise!Admitted(Queue) : Doc(s) = [place |-> p, sha |-> disk.document[p].sha]
  <2>1. PICK s \in Subs, c \in Contents : AdmittedAs(disk, s, p, c)
    BY <1>4 DEF DataInv, DocsOK, Registered
  <2>2. disk.document[p].sha = c /\ s \in Promise!Admitted(Queue)
    BY <1>1, <1>4, <2>1 DEF DataInv, DocsOK, Registered, AdmittedAs
  <2>3. Queue[s].place = p /\ Queue[s].sha = c
    BY <1>2, <2>1, <2>2 DEF AdmittedAs
  <2> QED BY <2>2, <2>3
<1>5. Documents = {Doc(s) : s \in Promise!Admitted(Queue)}
  <2>1. ASSUME NEW x \in Documents PROVE x \in {Doc(s) : s \in Promise!Admitted(Queue)}
    <3>1. PICK p \in Registered(disk) : x = [place |-> p, sha |-> disk.document[p].sha]
      BY <2>1 DEF Documents
    <3>2. PICK s \in Promise!Admitted(Queue) : Doc(s) = x
      BY <1>4, <3>1
    <3> QED BY <3>2
  <2>2. ASSUME NEW x \in {Doc(s) : s \in Promise!Admitted(Queue)} PROVE x \in Documents
    BY <1>3, <2>2
  <2> QED BY <2>1, <2>2
<1>6. \A s, t \in Promise!Admitted(Queue) : Queue[s].place = Queue[t].place => s = t
  BY <1>1, <1>2 DEF DataInv, DocsOK, AdmittedAs
<1> QED BY <1>5, <1>6 DEF DocumentsKnown

\* Only a flush changes what is saved.
LEMMA OnlyFlushSaves == ASSUME [Next]_vars, ~FlushOk PROVE disk' = disk
BY DEF Next, Receive, FinishWrite, WriteFails, RefuseEnvelope, CheckStaged, Enqueue, FlushFails,
       Admit, Reject, SealDuplicate, SealHash, SealMove, SealRegister, SealFails, CleanStaging,
       Restart, vars

\* The connections, the staging area, the administrator and the restarts together do
\* what Deliveries promises: each save takes the queue on and registers the documents
\* with their admissions, and a device hears only of what is saved.
THEOREM Refinement == Spec => ImplementsDeliveries
<1>1. Init => Promise!Init
  <2> SUFFICES ASSUME Init PROVE Promise!Init
    OBVIOUS
  <2>1. TypeInv /\ \A s \in Subs : StateOf(s) = "none"
    BY TypeInit DEF Init, EmptyDb, StateOf
  <2>2. DOMAIN Queue = {}
    BY <2>1, QueueIs DEF QueueKnown
  <2>3. Documents = {} /\ Told = {}
    BY DEF Init, EmptyDb, Documents, Registered, Told, Free
  <2> QED BY <2>1, <2>2, <2>3, QueueIs DEF QueueKnown, Promise!Init
<1>2. ASSUME QueueKnown, QueueKnown', AckInv, AckInv', DocumentsKnown', TypeInv, [Next]_vars
      PROVE  [Promise!Next]_(Promise!vars)
  <2>1. CASE FlushOk
    <3>1. disk' = mem
      BY <2>1 DEF FlushOk
    <3>2. /\ DOMAIN Queue = {s \in Subs : StateOf(s) # "none"}
          /\ DOMAIN Queue' = {s \in Subs : disk'.sub[s].state # "none"}
          /\ \A s \in DOMAIN Queue : Queue[s] = disk.sub[s] /\ disk.sub[s] \in Submission
          /\ \A s \in DOMAIN Queue' : Queue'[s] = disk'.sub[s]
          /\ Queue' \in [DOMAIN Queue' -> Promise!Delivery]
      BY <1>2 DEF QueueKnown, StateOf
    <3>3. Promise!Follows(Queue, Queue')
      BY <1>2, <3>1, <3>2 DEF AckInv, Grows, Promise!Follows, Submission, Decided, StateOf
    <3>4. /\ Documents' = {[place |-> Queue'[s].place, sha |-> Queue'[s].sha] : s \in Promise!Admitted(Queue')}
          /\ \A s, t \in Promise!Admitted(Queue') : Queue'[s].place = Queue'[t].place => s = t
      BY <1>2 DEF DocumentsKnown
    <3>5. Told' \subseteq DOMAIN Queue'
      BY <1>2, <3>2 DEF Told, AckInv, AckedIsSaved, StateOf
    <3> QED BY <3>2, <3>3, <3>4, <3>5 DEF Promise!Next, Promise!Save
  <2>2. CASE ~FlushOk
    <3>1. disk' = disk
      BY <1>2, <2>2, OnlyFlushSaves
    <3>2. Queue' = Queue /\ Documents' = Documents
      BY <3>1 DEF Queue, Documents, StateOf
    <3>3. ASSUME NEW k \in Conns, conn'[k].step = "acked" PROVE conn'[k] = conn[k]
      BY <1>2, <2>2, <3>3, WaitStep
    <3>4. Told' \subseteq Told
      BY <3>3 DEF Told
    <3> QED BY <3>2, <3>4 DEF Promise!Next, Promise!GoOn
  <2> QED BY <2>1, <2>2
<1>3. Spec => [](TypeInv /\ AckInv /\ QueueKnown /\ DocumentsKnown)
  BY TypeAlways, AckAlways, DataAlways, QueueIs, DocumentsAre, PTL
<1> QED BY <1>1, <1>2, <1>3, PTL DEF Spec, ImplementsDeliveries, Promise!Spec


-----------------------------------------------------------------------------
\* What takes the file of a pending submission away is a second delivery.

\* No content is delivered again while it is waiting for its decision.
OneEach ==
  \A s \in Subs : IsPending(s) =>
    /\ \A t \in Subs : IsPending(t) /\ Sha(t) = Sha(s) => t = s
    /\ \A k \in Conns :
         conn[k].step \in {"writing", "written", "checked"} => conn[k].sha # Sha(s)

\* A delivery that has been checked and one in the queue have their files, but for the
\* one that has just been moved into the vault.
StagedInv ==
  /\ \A k \in Conns : conn[k].step = "checked" => staging[conn[k].sha] # "none"
  /\ \A s \in Subs :
       IsPending(s) => staging[Sha(s)] # "none" \/ (op.step = "moved" /\ op.sub = s)

\* The file of a decision is nobody else's.
LEMMA OwnFile ==
  ASSUME TypeInv, StagedInv, OneEach, NEW r \in Subs, IsPending(r),
         RemoveStaged(Sha(r))
  PROVE  /\ \A k \in Conns : conn[k].step = "checked" => staging'[conn[k].sha] # "none"
         /\ \A s \in Subs \ {r} :
              IsPending(s) => staging'[Sha(s)] # "none" \/ (op.step = "moved" /\ op.sub = s)
<1>1. Sha(r) \in Contents
  BY PendingSub DEF TypeInv, TypeOK
<1>2. \A c \in Contents \ {Sha(r)} : staging'[c] = staging[c]
  BY <1>1 DEF TypeInv, TypeOK, RemoveStaged
<1>3. ASSUME NEW k \in Conns, conn[k].step = "checked" PROVE staging'[conn[k].sha] # "none"
  <2>1. conn[k].sha \in Contents /\ conn[k].sha # Sha(r)
    BY <1>3, KindsOfUpload DEF TypeInv, TypeOK, Received, OneEach
  <2> QED BY <1>2, <1>3, <2>1 DEF StagedInv
<1>4. ASSUME NEW s \in Subs \ {r}, IsPending(s)
      PROVE  staging'[Sha(s)] # "none" \/ (op.step = "moved" /\ op.sub = s)
  <2>1. Sha(s) \in Contents /\ Sha(s) # Sha(r)
    BY <1>4, PendingSub DEF TypeInv, TypeOK, OneEach
  <2> QED BY <1>2, <1>4, <2>1 DEF StagedInv
<1> QED BY <1>3, <1>4

\* Where no file disappears and nothing new is checked or queued, nothing is lost.
LEMMA FilesStay ==
  ASSUME TypeInv, StagedInv,
         \A c \in Contents : staging[c] # "none" => staging'[c] # "none",
         \A k \in Conns : conn'[k].step = "checked" => conn'[k] = conn[k],
         \A s \in Subs : IsPending(s)' => IsPending(s) /\ Sha(s)' = Sha(s),
         \A s \in Subs : op.step = "moved" /\ op.sub = s /\ IsPending(s)'
                           => op'.step = "moved" /\ op'.sub = s
  PROVE  StagedInv'
<1>1. ASSUME NEW k \in Conns, conn'[k].step = "checked" PROVE staging'[conn'[k].sha] # "none"
  <2>1. conn[k].step = "checked" /\ conn'[k].sha = conn[k].sha
    BY <1>1
  <2>2. conn[k].sha \in Contents
    BY <2>1, KindsOfUpload DEF TypeInv, TypeOK, Received
  <2> QED BY <2>1, <2>2 DEF StagedInv
<1>2. ASSUME NEW s \in Subs, IsPending(s)'
      PROVE  staging'[Sha(s)'] # "none" \/ (op'.step = "moved" /\ op'.sub = s)
  <2>1. IsPending(s) /\ Sha(s)' = Sha(s) /\ Sha(s) \in Contents
    BY <1>2, PendingSub DEF TypeInv, TypeOK
  <2> QED BY <1>2, <2>1 DEF StagedInv
<1> QED BY <1>1, <1>2 DEF StagedInv

\* A decision takes its own file, and leaves the others theirs.
LEMMA DecisionTakesOwn ==
  ASSUME TypeInv, StagedInv, OneEach, NEW r \in Subs, IsPending(r), op.step # "moved",
         RemoveStaged(Sha(r)), NEW where \in Targets,
         conn' = Redirected(Sha(r), where),
         \/ mem' = Decide(r, "rejected")
         \/ mem' = mem /\ op'.step = "moved" /\ op'.sub = r
  PROVE  StagedInv'
<1>1. Sha(r) \in Contents /\ "rejected" \in Decided
  BY PendingSub DEF TypeInv, TypeOK, Decided
<1>2. ASSUME NEW k \in Conns, conn'[k].step = "checked" PROVE conn'[k] = conn[k] /\ conn[k].step = "checked"
  BY <1>1, <1>2, RedirectKeeps DEF TypeInv, TypeOK
<1>3. ASSUME NEW s \in Subs, IsPending(s)'
      PROVE  staging'[Sha(s)'] # "none" \/ (op'.step = "moved" /\ op'.sub = s)
  <2>1. CASE mem' = Decide(r, "rejected")
    <3>1. s # r /\ mem'.sub[s] = mem.sub[s]
      BY <1>1, <1>3, <2>1, DecideKeeps DEF TypeInv, TypeOK, IsPending
    <3>2. IsPending(s) /\ Sha(s)' = Sha(s)
      BY <1>3, <3>1 DEF IsPending, Sha
    <3> QED BY <3>1, <3>2, OwnFile
  <2>2. CASE mem' = mem /\ op'.step = "moved" /\ op'.sub = r
    <3>1. IsPending(s) /\ Sha(s)' = Sha(s)
      BY <1>3, <2>2 DEF IsPending, Sha
    <3> QED BY <2>2, <3>1, OwnFile
  <2> QED BY <2>1, <2>2
<1>4. \A k \in Conns : conn'[k].step = "checked" => staging'[conn'[k].sha] # "none"
  BY <1>2, OwnFile
<1> QED BY <1>3, <1>4 DEF StagedInv

LEMMA StagedStep ==
  ASSUME ~Faults, ~Cleaning
  PROVE  TypeInv /\ OneEach /\ StagedInv /\ [Next]_vars => StagedInv'
<1> SUFFICES ASSUME TypeInv, OneEach, StagedInv, [Next]_vars PROVE StagedInv'
  OBVIOUS
<1> USE DEF TypeInv, TypeOK
<1>0. mem' = mem => \A s \in Subs : (IsPending(s)' <=> IsPending(s)) /\ Sha(s)' = Sha(s)
  BY DEF IsPending, Sha
<1>1. ASSUME NEW k \in Conns, NEW c \in Contents, Receive(k, c) PROVE StagedInv'
  <2>1. \A e \in Contents : staging[e] # "none" => staging'[e] # "none"
    BY <1>1 DEF Receive
  <2>2. ASSUME NEW j \in Conns, conn'[j].step = "checked" PROVE conn'[j] = conn[j]
    <3>1. CASE j = k
      BY <1>1, <2>2, <3>1 DEF Receive
    <3>2. CASE j # k /\ WritesTo(j, c)
      <4>1. conn'[j] = [conn[j] EXCEPT !.last = FALSE] /\ conn[j] \in Writing
        BY <1>1, <3>2, KindsOfUpload DEF Receive, WritesTo
      <4> QED BY <2>2, <4>1 DEF Writing
    <3>3. CASE j # k /\ ~WritesTo(j, c)
      BY <1>1, <3>3 DEF Receive
    <3> QED BY <3>1, <3>2, <3>3
  <2> QED BY <1>0, <1>1, <2>1, <2>2, FilesStay DEF Receive
<1>2. ASSUME NEW k \in Conns, FinishWrite(k) PROVE StagedInv'
  <2>1. conn[k] \in Writing /\ conn[k].sha \in Contents
    BY <1>2, KindsOfUpload DEF FinishWrite, Writing
  <2>2. \A e \in Contents : staging[e] # "none" => staging'[e] # "none"
    BY <1>2, <2>1, FilledWhere DEF Filled
  <2>3. \A j \in Conns : conn'[j].step = "checked" => conn'[j] = conn[j]
    BY <1>2 DEF FinishWrite
  <2> QED BY <1>0, <1>2, <2>2, <2>3, FilesStay DEF FinishWrite
<1>3. ASSUME NEW k \in Conns, WriteFails(k) \/ RefuseEnvelope(k) PROVE StagedInv'
  <2>1. \A j \in Conns : conn'[j].step = "checked" => conn'[j] = conn[j]
    BY <1>3 DEF WriteFails, RefuseEnvelope, Free
  <2>2. UNCHANGED <<staging, mem, op>>
    BY <1>3 DEF WriteFails, RefuseEnvelope
  <2> QED BY <1>0, <2>1, <2>2, FilesStay
<1>4. ASSUME NEW k \in Conns, NEW declared \in BOOLEAN, CheckStaged(k, declared) PROVE StagedInv'
  <2> DEFINE c == conn[k].sha
  <2>1. conn[k] \in Received /\ c \in Contents /\ conn[k].step = "written" /\ UNCHANGED <<mem, op>>
    BY <1>4, KindsOfUpload DEF CheckStaged, Received
  <2>2. \A s \in Subs : IsPending(s)' => IsPending(s) /\ Sha(s)' = Sha(s) /\ Sha(s) # c /\ Sha(s) \in Contents
    BY <1>0, <2>1, PendingSub DEF OneEach
  <2>3. \A j \in Conns : conn[j].step # "checked"
    BY <1>4 DEF CheckStaged, Ingesting
  <2>4. CASE declared /\ staging[c] = "whole"
    <3>1. conn' = [conn EXCEPT ![k].step = "checked"] /\ staging' = staging
      BY <1>4, <2>4 DEF CheckStaged
    <3>2. ASSUME NEW j \in Conns, conn'[j].step = "checked" PROVE staging'[conn'[j].sha] # "none"
      <4>1. j = k
        BY <2>3, <3>1, <3>2
      <4>2. conn'[k].sha = c
        BY <2>1, <3>1 DEF Received
      <4> QED BY <2>4, <3>1, <4>1, <4>2
    <3> QED BY <2>1, <2>2, <3>1, <3>2 DEF StagedInv
  <2>5. CASE ~(declared /\ staging[c] = "whole")
    <3>1. conn' = [Redirected(c, "nowhere") EXCEPT ![k] = Free] /\ staging' = [staging EXCEPT ![c] = "none"]
      BY <1>4, <2>5 DEF CheckStaged, RemoveStaged
    <3>2. ASSUME NEW j \in Conns PROVE conn'[j].step # "checked"
      <4>1. Redirected(c, "nowhere")[j].step = conn[j].step /\ Redirected(c, "nowhere") \in [Conns -> Uploads]
        <5>1. "nowhere" \in Targets
          BY DEF Targets
        <5> HIDE DEF c
        <5> QED BY <2>1, <5>1, RedirectKeeps
      <4> QED BY <2>3, <3>1, <4>1 DEF Free
    <3>3. \A s \in Subs : IsPending(s)' => staging'[Sha(s)'] = staging[Sha(s)]
      BY <2>2, <3>1
    <3> QED BY <2>1, <2>2, <3>2, <3>3 DEF StagedInv
  <2> QED BY <2>4, <2>5
<1>5. ASSUME NEW k \in Conns, NEW s \in Subs, NEW p \in Paths, Enqueue(k, s, p) PROVE StagedInv'
  <2>1. conn[k].step = "checked" /\ conn[k].sha \in Contents /\ staging' = staging /\ op = Free
    BY <1>5, KindsOfUpload DEF Enqueue, Received
  <2>2. mem'.sub[s].sha = conn[k].sha /\ \A t \in Subs \ {s} : mem'.sub[t] = mem.sub[t]
    <3>1. mem' = [mem EXCEPT !.sub = [mem.sub EXCEPT ![s] =
                    [state |-> "pending", sha |-> conn[k].sha, place |-> p]]]
      BY <1>5 DEF Enqueue
    <3> QED BY <3>1 DEF Db
  <2>3. \A j \in Conns : conn'[j].step = "checked" => conn'[j] = conn[j]
    BY <1>5 DEF Enqueue
  <2>4. \A t \in Subs : IsPending(t)' => staging'[Sha(t)'] # "none"
    BY <2>1, <2>2 DEF StagedInv, IsPending, Sha, Free
  <2>5. \A j \in Conns : conn'[j].step = "checked" => staging'[conn'[j].sha] # "none"
    BY <2>1, <2>3 DEF StagedInv
  <2> QED BY <2>4, <2>5 DEF StagedInv
<1>6. ASSUME FlushOk PROVE StagedInv'
  <2>1. UNCHANGED <<staging, mem>> /\ op.step # "moved" /\ Answered(TRUE)
    BY <1>6 DEF FlushOk
  <2>2. ASSUME NEW j \in Conns, conn'[j].step = "checked" PROVE conn'[j] = conn[j]
    <3>1. \/ conn'[j] = conn[j]
          \/ conn'[j] = Free
          \/ conn'[j].step = "acked"
      BY <2>1, AnsweredKeeps
    <3>2. Free.step = "free"
      BY DEF Free
    <3> QED BY <2>2, <3>1, <3>2
  <2> QED BY <1>0, <2>1, <2>2, FilesStay
<1>7. ASSUME NEW s \in Subs, Admit(s) PROVE StagedInv'
  <2>1. UNCHANGED <<staging, mem, conn>> /\ op.step # "moved"
    BY <1>7 DEF Admit, Free
  <2> QED BY <1>0, <2>1, FilesStay
<1>8. ASSUME NEW s \in Subs, Reject(s) PROVE StagedInv'
  <2>1. op.step # "moved"
    BY <1>8 DEF Reject, Free
  <2> QED BY <1>8, <2>1, DecisionTakesOwn DEF Reject, Targets
<1>9. ASSUME SealDuplicate PROVE StagedInv'
  <2>1. op.sub \in Subs /\ IsPending(op.sub) /\ op.step # "moved"
    BY <1>9, KindsOfOp DEF SealDuplicate, Checked
  <2> QED BY <1>9, <2>1, DecisionTakesOwn DEF SealDuplicate, Targets
<1>10. ASSUME SealHash PROVE StagedInv'
  <2>1. UNCHANGED <<staging, mem, conn>> /\ op.step # "moved"
    BY <1>10 DEF SealHash
  <2> QED BY <1>0, <2>1, FilesStay
<1>11. ASSUME SealMove PROVE StagedInv'
  <2>1. op \in Sealing /\ op.sub \in Subs /\ IsPending(op.sub) /\ op.step = "hashed"
    BY <1>11, KindsOfOp DEF SealMove, Sealing
  <2>2. op'.step = "moved" /\ op'.sub = op.sub
    BY <1>11, <2>1 DEF SealMove, Sealing
  <2>3. Place(op.sub) \in Targets
    BY <2>1, PendingSub DEF Targets
  <2> QED BY <1>11, <2>1, <2>2, <2>3, DecisionTakesOwn DEF SealMove
<1>12. ASSUME SealRegister PROVE StagedInv'
  <2>1. op \in Sealing /\ op.sub \in Subs /\ IsPending(op.sub) /\ "admitted" \in Decided
    BY <1>12, KindsOfOp DEF SealRegister, Sealing, Decided
  <2>2. mem'.sub = Decide(op.sub, "admitted").sub
    BY <1>12, <2>1, DecideKeeps DEF SealRegister, Db
  <2>3. \A t \in Subs : IsPending(t)' => t # op.sub /\ IsPending(t) /\ Sha(t)' = Sha(t)
    BY <2>1, <2>2, DecideKeeps DEF IsPending, Sha, Decided
  <2>4. UNCHANGED <<conn, staging>>
    BY <1>12 DEF SealRegister
  <2> QED BY <2>3, <2>4, FilesStay
<1>13. ASSUME SealFails PROVE StagedInv'
  <2>1. UNCHANGED <<conn, staging, mem>> /\ op.step # "moved"
    BY <1>13 DEF SealFails
  <2> QED BY <1>0, <2>1, FilesStay
<1>14. CASE UNCHANGED vars
  BY <1>0, <1>14, FilesStay DEF vars
<1> QED
  BY <1>1, <1>2, <1>3, <1>4, <1>5, <1>6, <1>7, <1>8, <1>9, <1>10, <1>11, <1>12, <1>13, <1>14
  DEF Next, FlushFails, CleanStaging, Restart

\* PendingKeepsItsFile, which the run admission_shared refutes, takes a second delivery
\* of a waiting content, an emptied staging area or a failing step to break: without
\* them a delivery in the queue has its file until it is decided.
THEOREM PendingIsStaged ==
  ASSUME ~Faults, ~Cleaning
  PROVE  Spec /\ []OneEach => []PendingKeepsItsFile
<1>1. Init => StagedInv
  BY DEF Init, StagedInv, IsPending, EmptyDb, Free
<1>2. StagedInv => PendingKeepsItsFile
  BY DEF StagedInv, PendingKeepsItsFile, Free
<1> QED BY <1>1, <1>2, TypeAlways, StagedStep, PTL DEF Spec
=============================================================================
