---------------------------- MODULE Custody_proofs ----------------------------
(***************************************************************************)
(* What Custody guarantees for any set of documents, contents, categories  *)
(* and names, with or without crashes, failing steps and rot.              *)
(***************************************************************************)
EXTENDS Custody, TLAPS

\* The operations in progress, by the step they have reached.
InstallOp == [step : {"installing"}, doc : Docs, row : Row]
MoveOp    == [step : {"unsealed", "moved"}, doc : Docs, to : Paths]
CopyOp    == [step : {"copied"}, doc : Docs, key : CopyKeys]
WipeOp    == [step : {"wiping"}, doc : Docs, at : Paths, why : {"destroy", "purge"}]
BuryOp    == [step : {"erased", "buried"}, doc : Docs]

\* Which program runs an operation, and what its document is in memory.
OpInv ==
  /\ host = "none" => op = Idle
  /\ op \in InstallOp => /\ host \in {"service", "app"}
                         /\ mem.row[op.doc].stage = "free"
                         /\ disk.row[op.doc].stage = "free"
  /\ op \in MoveOp \cup CopyOp => host = "app" /\ IsActive(mem, op.doc)
  /\ op \in BuryOp => host = "service" /\ IsActive(mem, op.doc)
  /\ op \in WipeOp => \/ /\ op.why = "destroy"
                         /\ host = "service" /\ IsActive(mem, op.doc)
                      \/ op.why = "purge" /\ host = "it"

IndType == TypeOK /\ OpInv

-----------------------------------------------------------------------------
\* An operation in progress is of the kind its step names.
LEMMA OpKinds ==
  ASSUME op \in OpState
  PROVE  /\ op.step = "installing" => op \in InstallOp
         /\ op.step \in {"unsealed", "moved"} => op \in MoveOp
         /\ op.step = "copied" => op \in CopyOp
         /\ op.step = "wiping" => op \in WipeOp
         /\ op.step \in {"erased", "buried"} => op \in BuryOp
         /\ op \in {Idle, Flush} \/ op \in InstallOp \cup MoveOp \cup CopyOp \cup WipeOp \cup BuryOp
BY DEF OpState, Idle, Flush, InstallOp, MoveOp, CopyOp, WipeOp, BuryOp

\* The kinds exclude one another.
LEMMA KindsOfOp ==
  /\ \A x \in InstallOp : x.step = "installing"
  /\ \A x \in MoveOp : x.step \in {"unsealed", "moved"}
  /\ \A x \in CopyOp : x.step = "copied"
  /\ \A x \in WipeOp : x.step = "wiping"
  /\ \A x \in BuryOp : x.step \in {"erased", "buried"}
  /\ Idle.step = "idle" /\ Flush.step = "flush"
BY DEF Idle, Flush, InstallOp, MoveOp, CopyOp, WipeOp, BuryOp

\* Replacing the record of one document keeps the type of the database.
LEMMA SetRowType ==
  ASSUME NEW db \in Db, NEW d \in Docs, NEW r \in Row \cup NoRow
  PROVE  /\ [db EXCEPT !.row[d] = r] \in Db
         /\ [db EXCEPT !.row[d] = r].row[d] = r
         /\ \A e \in Docs \ {d} : [db EXCEPT !.row[d] = r].row[e] = db.row[e]
BY DEF Db

\* A document in the index or in the trash has a whole record.
LEMMA KeptRow ==
  ASSUME NEW db \in Db, NEW d \in Docs, IsKept(db, d)
  PROVE  db.row[d] \in Row
BY DEF Db, IsKept, NoRow, Row

\* Sealing or unsealing a file touches no content.
LEMMA SealType ==
  ASSUME NEW S, NEW f \in [S -> File], NEW x \in S, NEW b \in BOOLEAN
  PROVE  /\ [f EXCEPT ![x].sealed = b] \in [S -> File]
         /\ \A y \in S : [f EXCEPT ![x].sealed = b][y].data = f[y].data
         /\ [f EXCEPT ![x].sealed = b][x].sealed = b
         /\ \A y \in S \ {x} : [f EXCEPT ![x].sealed = b][y] = f[y]
<1> DEFINE g == [f[x] EXCEPT !.sealed = b]
<1>1. f[x] \in File
  OBVIOUS
<1>2. g \in File /\ g.data = f[x].data /\ g.sealed = b
  BY <1>1 DEF File
<1>3. [f EXCEPT ![x].sealed = b] = [f EXCEPT ![x] = g]
  OBVIOUS
<1> HIDE DEF g
<1> QED BY <1>2, <1>3

\* A sweep changes verdicts only.
LEMMA JudgeKeeps ==
  ASSUME mem \in Db, NEW S \in SUBSET Docs, Judge(S)
  PROVE  /\ mem' \in Db
         /\ mem'.versions = mem.versions
         /\ \A d \in Docs : /\ mem'.row[d].stage = mem.row[d].stage
                            /\ IsKept(mem, d) => mem'.row[d].sha = mem.row[d].sha
<1> DEFINE r(d) == IF d \in S /\ IsActive(mem, d) THEN Verdict(mem.row[d]) ELSE mem.row[d]
<1>1. \A d \in Docs : /\ r(d) \in Row \cup NoRow
                      /\ r(d).stage = mem.row[d].stage
                      /\ IsKept(mem, d) => r(d).sha = mem.row[d].sha
  <2> TAKE d \in Docs
  <2>1. CASE d \in S /\ IsActive(mem, d)
    <3>1. mem.row[d] \in Row
      BY <2>1, KeptRow DEF IsActive, IsKept
    <3> QED BY <2>1, <3>1 DEF Verdict, Row
  <2>2. CASE ~(d \in S /\ IsActive(mem, d))
    BY <2>2 DEF Db
  <2> QED BY <2>1, <2>2
<1>2. mem' = [mem EXCEPT !.row = [d \in Docs |-> r(d)]]
  BY DEF Judge
<1>3. [d \in Docs |-> r(d)] \in [Docs -> Row \cup NoRow]
  BY <1>1
<1> HIDE DEF r
<1> QED BY <1>1, <1>2, <1>3 DEF Db

-----------------------------------------------------------------------------
\* Every step keeps the types and what is known of the operation in progress.
LEMMA TypeStep == IndType /\ [Next]_vars => IndType'
<1> SUFFICES ASSUME IndType, [Next]_vars PROVE IndType'
  OBVIOUS
<1> USE KindsOfOp, OpKinds, SettingAssumption, NameAssumption
<1> USE DEF IndType, TypeOK
<1>1. ASSUME NEW h \in Hosts, Start(h) PROVE IndType'
  BY <1>1 DEF Start, OpInv, IsActive
<1>2. ASSUME Stop PROVE IndType'
  <2>1. EmptyDb \in Db
    BY DEF EmptyDb, Db, NoRow
  <2>2. Idle \in OpState
    BY DEF OpState
  <2> QED BY <1>2, <2>1, <2>2 DEF Stop, OpInv
<1>3. ASSUME FlushOk PROVE IndType'
  BY <1>3 DEF FlushOk, OpInv, OpState
<1>4. ASSUME FlushFails \/ StepFails PROVE IndType'
  BY <1>4 DEF FlushFails, StepFails, OpInv, OpState
<1>5. ASSUME Touch PROVE IndType'
  BY <1>5 DEF Touch, Ready, OpInv, OpState
<1>6. ASSUME NEW d \in Docs, NEW c \in Contents, NEW cat \in Cats, NEW name \in Names,
             InstallFile(d, c, cat, name)
      PROVE  IndType'
  <2> DEFINE p == <<cat, Sanitize(name)>>
  <2>1. p \in Paths
    BY DEF Paths
  <2>2. NewRow(c, p) \in Row
    BY <2>1 DEF NewRow, Row
  <2>3. op' \in InstallOp /\ op'.doc = d
    BY <1>6, <2>2 DEF InstallFile, InstallOp
  <2>4. op' \in OpState
    BY <2>3 DEF InstallOp, OpState
  <2>5. file' \in [Paths -> File]
    BY <1>6, <2>1 DEF InstallFile, Open, File
  <2> QED BY <1>6, <2>3, <2>4, <2>5 DEF InstallFile, Ready, OpInv
<1>7. ASSUME InstallTorn PROVE IndType'
  <2>1. op \in InstallOp
    BY <1>7 DEF InstallTorn
  <2>2. file' \in [Paths -> File]
    BY <1>7, <2>1 DEF InstallTorn, InstallOp, Row, Open, File
  <2>3. Idle \in OpState
    BY DEF OpState
  <2> QED BY <1>7, <2>2, <2>3 DEF InstallTorn, OpInv
<1>8. ASSUME SealAndRegister PROVE IndType'
  <2>1. op \in InstallOp
    BY <1>8 DEF SealAndRegister
  <2>2. file' \in [Paths -> File]
    <3>1. op.row.path \in Paths
      BY <2>1 DEF InstallOp, Row
    <3> QED BY <1>8, <3>1, SealType DEF SealAndRegister
  <2>3. mem' \in Db
    BY <1>8, <2>1, SetRowType DEF SealAndRegister, SetRow, InstallOp
  <2>4. op' = Flush /\ Flush \in OpState
    BY <1>8 DEF SealAndRegister, OpState
  <2> QED BY <1>8, <2>1, <2>2, <2>3, <2>4 DEF SealAndRegister, OpInv
<1>9. ASSUME NEW d \in Docs, NEW to \in Paths, Unseal(d, to) PROVE IndType'
  <2>1. mem.row[d] \in Row
    BY <1>9, KeptRow DEF Unseal, IsActive, IsKept
  <2>2. op' \in MoveOp /\ op'.doc = d
    BY <1>9 DEF Unseal, MoveOp
  <2>3. op' \in OpState
    BY <2>2 DEF MoveOp, OpState
  <2>4. file' \in [Paths -> File]
    <3>1. mem.row[d].path \in Paths
      BY <2>1 DEF Row
    <3> QED BY <1>9, <3>1, SealType DEF Unseal
  <2> QED BY <1>9, <2>2, <2>3, <2>4 DEF Unseal, Ready, OpInv, IsActive
<1>10. ASSUME NEW d \in Docs, NEW name \in Names, Rename(d, name) PROVE IndType'
  <2>1. IsActive(mem, d)
    BY <1>10 DEF Rename, Unseal
  <2>2. mem.row[d] \in Row
    BY <2>1, KeptRow DEF IsActive, IsKept
  <2>3. <<mem.row[d].path[1], name>> \in Paths
    BY <2>2 DEF Row, Paths
  <2> QED BY <1>10, <2>3, <1>9 DEF Rename
<1>11. ASSUME NEW d \in Docs, NEW cat \in Cats, MoveToCategory(d, cat) PROVE IndType'
  <2>1. IsActive(mem, d)
    BY <1>11 DEF MoveToCategory
  <2>2. mem.row[d] \in Row
    BY <2>1, KeptRow DEF IsActive, IsKept
  <2>3. <<cat, Sanitize(mem.row[d].path[2])>> \in Paths
    BY <2>2 DEF Row, Paths
  <2> QED BY <1>11, <2>3, <1>9 DEF MoveToCategory
<1>12. ASSUME MoveFile PROVE IndType'
  <2>1. op \in MoveOp /\ IsActive(mem, op.doc)
    BY <1>12 DEF MoveFile, OpInv
  <2>2. mem.row[op.doc] \in Row
    BY <2>1, KeptRow DEF IsActive, IsKept, MoveOp
  <2>3. file' \in [Paths -> File]
    BY <1>12, <2>1, <2>2 DEF MoveFile, MoveOp, Row, File, NoFile
  <2>4. op' \in MoveOp /\ op'.doc = op.doc
    BY <1>12, <2>1 DEF MoveFile, MoveOp
  <2>5. op' \in OpState
    BY <2>4 DEF MoveOp, OpState
  <2> QED BY <1>12, <2>1, <2>3, <2>4, <2>5 DEF MoveFile, OpInv, IsActive
<1>13. ASSUME SealAndRelocate PROVE IndType'
  <2>1. op \in MoveOp /\ IsActive(mem, op.doc)
    BY <1>13 DEF SealAndRelocate, OpInv
  <2>2. mem.row[op.doc] \in Row
    BY <2>1, KeptRow DEF IsActive, IsKept, MoveOp
  <2>3. file' \in [Paths -> File]
    <3>1. op.to \in Paths
      BY <2>1 DEF MoveOp
    <3> QED BY <1>13, <3>1, SealType DEF SealAndRelocate
  <2>4. mem' \in Db
    BY <1>13, <2>1, <2>2 DEF SealAndRelocate, MoveOp, Row, Db
  <2>5. op' = Flush /\ Flush \in OpState
    BY <1>13 DEF SealAndRelocate, OpState
  <2> QED BY <1>13, <2>1, <2>3, <2>4, <2>5 DEF SealAndRelocate, OpInv
<1>14. ASSUME NEW d \in Docs, SoftDelete(d) \/ Restore(d) PROVE IndType'
  <2>1. mem.row[d] \in Row
    BY <1>14, KeptRow DEF SoftDelete, Restore, IsActive, IsKept
  <2>2. mem' \in Db
    BY <1>14, <2>1 DEF SoftDelete, Restore, Row, Db
  <2>3. op' = Flush /\ Flush \in OpState /\ host = "app"
    BY <1>14 DEF SoftDelete, Restore, Ready, OpState
  <2> QED BY <1>14, <2>2, <2>3 DEF SoftDelete, Restore, OpInv
<1>15. ASSUME NEW d \in Docs, CopyVersion(d) PROVE IndType'
  <2>1. mem.row[d] \in Row
    BY <1>15, KeptRow DEF CopyVersion, IsActive, IsKept
  <2>2. <<mem.row[d].path[1], d, NextVersion(d)>> \in CopyKeys
    BY <1>15, <2>1 DEF CopyVersion, CopyKeys, Row, Paths
  <2>3. op' \in CopyOp /\ op'.doc = d
    BY <1>15, <2>2 DEF CopyVersion, CopyOp
  <2>4. op' \in OpState
    BY <2>3 DEF CopyOp, OpState
  <2>5. copies' \in [CopyKeys -> File]
    BY <1>15, <2>1, <2>2 DEF CopyVersion, Open, File, Row
  <2> QED BY <1>15, <2>3, <2>4, <2>5 DEF CopyVersion, Ready, OpInv, IsActive
<1>16. ASSUME SealVersion PROVE IndType'
  <2>1. op \in CopyOp /\ host = "app"
    BY <1>16 DEF SealVersion, OpInv
  <2>2. copies' \in [CopyKeys -> File]
    <3>1. op.key \in CopyKeys
      BY <2>1 DEF CopyOp
    <3> QED BY <1>16, <3>1, SealType DEF SealVersion
  <2>3. mem' \in Db
    BY <1>16, <2>1 DEF SealVersion, CopyOp, Db
  <2>4. op' = Flush /\ Flush \in OpState
    BY <1>16 DEF SealVersion, OpState
  <2> QED BY <1>16, <2>1, <2>2, <2>3, <2>4 DEF SealVersion, OpInv
<1>17. ASSUME NEW d \in Docs, NEW p \in Paths, Wipe(d, p, "destroy", [step |-> "erased", doc |-> d])
       PROVE  /\ file' \in [Paths -> File]
              /\ op' \in OpState
              /\ op' \in WipeOp \cup BuryOp
              /\ op'.doc = d
              /\ op' \in WipeOp => op'.why = "destroy"
  <2>1. CASE file[p] = NoFile
    BY <1>17, <2>1 DEF Wipe, WipeOp, BuryOp, OpState
  <2>2. CASE file[p] # NoFile
    <3>1. Open(Garbage) \in File
      BY DEF Open, File
    <3>2. op' \in WipeOp /\ op'.doc = d /\ op'.why = "destroy"
      BY <1>17, <2>2 DEF Wipe, WipeOp
    <3>3. op' \in OpState
      BY <3>2 DEF WipeOp, OpState
    <3> QED BY <1>17, <2>2, <3>1, <3>2, <3>3 DEF Wipe
  <2> QED BY <2>1, <2>2
<1>18. ASSUME NEW d \in Docs, Destroy(d) \/ ProcessDue(d) PROVE IndType'
  <2>1. IsActive(mem, d) /\ host = "service" /\ BeginDestruction(d)
        /\ UNCHANGED <<host, mem, disk, copies, tomb>> /\ pending' \subseteq Docs
    BY <1>18 DEF Destroy, ProcessDue, Ready
  <2>2. mem.row[d].path \in Paths
    BY <2>1, KeptRow DEF IsActive, IsKept, Row
  <2>3. /\ file' \in [Paths -> File]
        /\ op' \in OpState
        /\ op' \in WipeOp \cup BuryOp
        /\ op'.doc = d
        /\ op' \in WipeOp => op'.why = "destroy"
    BY <2>1, <2>2, <1>17 DEF BeginDestruction
  <2>4. OpInv'
    BY <2>1, <2>3 DEF OpInv, IsActive
  <2> QED BY <2>1, <2>3, <2>4
<1>19. ASSUME NEW d \in Docs, ScheduleDestruction(d) PROVE IndType'
  BY <1>19 DEF ScheduleDestruction, Ready, OpInv, OpState
<1>20. ASSUME NEW d \in Docs, Purge(d) PROVE IndType'
  <2>1. mem.row[d] \in Row
    BY <1>20, KeptRow DEF Purge, IsKept
  <2>2. mem' \in Db
    BY <1>20, SetRowType DEF Purge, SetRow, NoRow
  <2>3. /\ file' \in [Paths -> File]
        /\ op' \in OpState
        /\ op' \in WipeOp => op'.why = "purge"
        /\ op' = Flush \/ op' \in WipeOp
    <3>1. mem.row[d].path \in Paths /\ Open(Garbage) \in File
      BY <2>1 DEF Row, Open, File
    <3>2. CASE file[mem.row[d].path] = NoFile
      BY <1>20, <3>2 DEF Purge, Wipe, OpState
    <3>3. CASE file[mem.row[d].path] # NoFile
      <4>1. op' \in WipeOp /\ op'.why = "purge"
        BY <1>20, <3>1, <3>3 DEF Purge, Wipe, WipeOp
      <4>2. op' \in OpState
        BY <4>1 DEF WipeOp, OpState
      <4> QED BY <1>20, <3>1, <3>3, <4>1, <4>2 DEF Purge, Wipe
    <3> QED BY <3>2, <3>3
  <2> QED BY <1>20, <2>2, <2>3 DEF Purge, Ready, OpInv
<1>21. ASSUME RemoveWiped PROVE IndType'
  <2>1. op \in WipeOp
    BY <1>21 DEF RemoveWiped
  <2>2. file' \in [Paths -> File]
    BY <1>21, <2>1 DEF RemoveWiped, WipeOp, NoFile, File
  <2>3. \/ op' = Flush
        \/ /\ op' \in BuryOp
           /\ op'.doc = op.doc /\ op.why = "destroy"
    BY <1>21, <2>1 DEF RemoveWiped, WipeOp, BuryOp
  <2>4. op' \in OpState
    BY <2>3 DEF BuryOp, OpState
  <2>5. OpInv'
    BY <1>21, <2>1, <2>3 DEF RemoveWiped, OpInv, IsActive
  <2> QED BY <1>21, <2>2, <2>4, <2>5 DEF RemoveWiped
<1>22. ASSUME WriteTombstone PROVE IndType'
  <2>1. op \in BuryOp
    BY <1>22 DEF WriteTombstone
  <2>2. \/ op' = Idle
        \/ op' \in BuryOp /\ op'.doc = op.doc
    BY <1>22, <2>1 DEF WriteTombstone, BuryOp
  <2>3. op' \in OpState
    BY <2>2 DEF BuryOp, OpState
  <2>4. tomb' \in [Docs -> {"none", "open", "sealed"}]
    BY <1>22, <2>1 DEF WriteTombstone, BuryOp
  <2>5. OpInv'
    BY <1>22, <2>1, <2>2 DEF WriteTombstone, OpInv, IsActive
  <2> QED BY <1>22, <2>3, <2>4, <2>5 DEF WriteTombstone
<1>23. ASSUME SealTombstone PROVE IndType'
  <2>1. op \in BuryOp
    BY <1>23 DEF SealTombstone
  <2>2. tomb' \in [Docs -> {"none", "open", "sealed"}]
    BY <1>23, <2>1 DEF SealTombstone, BuryOp
  <2>3. mem' \in Db
    BY <1>23, <2>1, SetRowType DEF SealTombstone, SetRow, BuryOp, NoRow
  <2>4. op' = Flush /\ Flush \in OpState
    BY <1>23 DEF SealTombstone, OpState
  <2> QED BY <1>23, <2>1, <2>2, <2>3, <2>4 DEF SealTombstone, OpInv
<1>24. ASSUME NEW S \in SUBSET Docs, Judge(S) PROVE mem' \in Db
  BY <1>24, JudgeKeeps
<1>25. ASSUME Sweep PROVE IndType'
  BY <1>25, <1>24 DEF Sweep, Ready, OpInv, OpState
<1>26. ASSUME SweepAborts PROVE IndType'
  BY <1>26, <1>24 DEF SweepAborts, Ready, OpInv
<1>27. ASSUME NEW p \in Paths, BitRot(p) PROVE IndType'
  BY <1>27 DEF BitRot, File, OpInv, IsActive
<1>100. CASE UNCHANGED vars
  BY <1>100 DEF vars, OpInv, IsActive
<1> QED BY <1>1, <1>2, <1>3, <1>4, <1>5, <1>6, <1>7, <1>8, <1>10, <1>11, <1>12, <1>13,
           <1>14, <1>15, <1>16, <1>18, <1>19, <1>20, <1>21, <1>22, <1>23, <1>25, <1>26,
           <1>27, <1>100 DEF Next

\* An empty vault with no program running is of the right types.
LEMMA TypeInit == Init => IndType
<1> SUFFICES ASSUME Init PROVE IndType
  OBVIOUS
<1>1. EmptyDb \in Db
  BY DEF EmptyDb, Db, NoRow
<1>2. NoFile \in File /\ Idle \in OpState
  BY DEF NoFile, File, OpState
<1> QED BY <1>1, <1>2, KindsOfOp DEF Init, IndType, TypeOK, OpInv

\* Records, files, copies, tombstones and the operation in progress keep their
\* types whatever dies or fails.
THEOREM TypeCorrect == Spec => []TypeOK
<1>1. IndType => TypeOK
  BY DEF IndType
<1> QED BY <1>1, TypeInit, TypeStep, PTL DEF Spec

\* The invariants below are proved on top of this one.
LEMMA TypeAlways == Spec => []IndType
BY TypeInit, TypeStep, PTL DEF Spec

-----------------------------------------------------------------------------
\* TombstoneFirst, strengthened: also what is in memory and not yet saved.
TombInv ==
  \A d \in Docs :
    mem.row[d].stage = "destroyed" \/ disk.row[d].stage = "destroyed"
      => tomb[d] = "sealed"

\* Every step keeps TombInv.
LEMMA TombStep == IndType /\ TombInv /\ [Next]_vars => TombInv'
<1> SUFFICES ASSUME IndType, TombInv, [Next]_vars PROVE TombInv'
  OBVIOUS
<1> USE KindsOfOp, OpKinds
<1> USE DEF IndType, TypeOK, TombInv
<1>1. ASSUME NEW h \in Hosts, Start(h) PROVE TombInv'
  BY <1>1 DEF Start
<1>2. ASSUME Stop PROVE TombInv'
  BY <1>2 DEF Stop, EmptyDb
<1>3. ASSUME FlushOk PROVE TombInv'
  BY <1>3 DEF FlushOk
<1>4. ASSUME SealAndRegister PROVE TombInv'
  <2>1. op.doc \in Docs /\ op.row \in Row
    BY <1>4 DEF SealAndRegister, InstallOp
  <2>2. op.row.stage # "destroyed"
    BY <2>1 DEF Row
  <2> QED BY <1>4, <2>1, <2>2, SetRowType DEF SealAndRegister, SetRow
<1>5. ASSUME SealAndRelocate PROVE TombInv'
  BY <1>5 DEF SealAndRelocate, Db, MoveOp
<1>6. ASSUME NEW d \in Docs, SoftDelete(d) \/ Restore(d) PROVE TombInv'
  <2>1. mem.row[d] \in Row
    BY <1>6, KeptRow DEF SoftDelete, Restore, IsActive, IsKept
  <2>2. /\ mem'.row[d].stage \in {"active", "trashed"}
        /\ \A e \in Docs \ {d} : mem'.row[e] = mem.row[e]
    BY <1>6, <2>1 DEF SoftDelete, Restore, Row, Db
  <2> QED BY <1>6, <2>2 DEF SoftDelete, Restore
<1>7. ASSUME SealVersion PROVE TombInv'
  BY <1>7 DEF SealVersion, Db
<1>8. ASSUME NEW d \in Docs, Purge(d) PROVE TombInv'
  BY <1>8, SetRowType DEF Purge, SetRow, NoRow
<1>9. ASSUME WriteTombstone PROVE TombInv'
  BY <1>9 DEF WriteTombstone, BuryOp
<1>10. ASSUME SealTombstone PROVE TombInv'
  <2>1. op.doc \in Docs /\ [stage |-> "destroyed"] \in NoRow
    BY <1>10 DEF SealTombstone, BuryOp, NoRow
  <2>2. \A e \in Docs \ {op.doc} : mem'.row[e] = mem.row[e] /\ tomb'[e] = tomb[e]
    BY <1>10, <2>1, SetRowType DEF SealTombstone, SetRow
  <2>3. tomb'[op.doc] = "sealed"
    BY <1>10, <2>1 DEF SealTombstone
  <2> QED BY <1>10, <2>2, <2>3 DEF SealTombstone
<1>11. ASSUME NEW S \in SUBSET Docs, Judge(S)
       PROVE  \A d \in Docs : mem'.row[d].stage = mem.row[d].stage
  BY <1>11, JudgeKeeps
<1>12. ASSUME Sweep \/ SweepAborts PROVE TombInv'
  BY <1>11, <1>12 DEF Sweep, SweepAborts
<1>13. ASSUME UNCHANGED <<mem, disk, tomb>> PROVE TombInv'
  BY <1>13
<1> QED
  BY <1>1, <1>2, <1>3, <1>4, <1>5, <1>6, <1>7, <1>8, <1>9, <1>10, <1>12, <1>13
  DEF Next, FlushFails, StepFails, Touch, InstallFile, InstallTorn, Rename, MoveToCategory,
      Unseal, MoveFile, CopyVersion, Destroy, ScheduleDestruction, ProcessDue, RemoveWiped,
      BitRot, vars

\* Whatever dies or fails, a document is saved as destroyed only when its
\* tombstone is written and sealed.
THEOREM TombstoneBeforeRecord == Spec => []TombstoneFirst
<1>1. Init => TombInv
  BY DEF Init, EmptyDb, TombInv
<1>2. TombInv => TombstoneFirst
  BY DEF TombInv, TombstoneFirst
<1> QED BY <1>1, <1>2, TypeAlways, TombStep, PTL DEF Spec

-----------------------------------------------------------------------------
\* ScheduledStillActive, strengthened: only the service with a grace period
\* keeps a queue, and what is being destroyed has left it.
QueueInv ==
  /\ pending # {} => host = "service" /\ Grace
  /\ ScheduledStillActive
  /\ op \in WipeOp \cup BuryOp => op.doc \notin pending

\* Every step keeps QueueInv.
LEMMA QueueStep == IndType /\ QueueInv /\ [Next]_vars => QueueInv'
<1> SUFFICES ASSUME IndType, QueueInv, [Next]_vars PROVE QueueInv'
  OBVIOUS
<1> USE KindsOfOp, OpKinds
<1> USE DEF IndType, TypeOK, QueueInv, ScheduledStillActive, IsActive
<1>1. ASSUME NEW h \in Hosts, Start(h) PROVE QueueInv'
  BY <1>1 DEF Start
<1>2. ASSUME Stop PROVE QueueInv'
  BY <1>2 DEF Stop
<1>3. ASSUME FlushOk \/ FlushFails \/ StepFails \/ Touch \/ InstallTorn PROVE QueueInv'
  BY <1>3 DEF FlushOk, FlushFails, StepFails, Touch, InstallTorn
<1>4. ASSUME NEW d \in Docs, NEW c \in Contents, NEW cat \in Cats, NEW name \in Names,
             InstallFile(d, c, cat, name)
      PROVE  QueueInv'
  BY <1>4 DEF InstallFile
<1>5. ASSUME SealAndRegister PROVE QueueInv'
  <2>1. op.doc \in Docs /\ op.row \in Row /\ mem.row[op.doc].stage = "free"
    BY <1>5 DEF SealAndRegister, InstallOp, OpInv
  <2> QED BY <1>5, <2>1, SetRowType DEF SealAndRegister, SetRow
<1>6. ASSUME host = "app", UNCHANGED <<host, pending>>,
             op' \in {Idle, Flush} \cup MoveOp \cup CopyOp
      PROVE  QueueInv'
  BY <1>6
<1>7. ASSUME NEW d \in Docs, NEW to \in Paths, Unseal(d, to) PROVE QueueInv'
  BY <1>7, <1>6 DEF Unseal, Ready, MoveOp
<1>8. ASSUME NEW d \in Docs, NEW name \in Names, Rename(d, name) PROVE QueueInv'
  <2>1. mem.row[d] \in Row
    BY <1>8, KeptRow DEF Rename, Unseal, IsKept
  <2> QED BY <1>8, <2>1, <1>7 DEF Rename, Row, Paths
<1>9. ASSUME NEW d \in Docs, NEW cat \in Cats, MoveToCategory(d, cat) PROVE QueueInv'
  <2>1. mem.row[d] \in Row
    BY <1>9, KeptRow DEF MoveToCategory, IsKept
  <2> QED BY <1>9, <2>1, <1>7, NameAssumption DEF MoveToCategory, Row, Paths
<1>10. ASSUME MoveFile \/ SealAndRelocate \/ SealVersion PROVE QueueInv'
  <2>1. op \in MoveOp \cup CopyOp /\ host = "app"
    BY <1>10 DEF MoveFile, SealAndRelocate, SealVersion, OpInv
  <2> QED BY <1>10, <2>1, <1>6 DEF MoveFile, SealAndRelocate, SealVersion, MoveOp
<1>11. ASSUME NEW d \in Docs, SoftDelete(d) \/ Restore(d) \/ CopyVersion(d) PROVE QueueInv'
  BY <1>11, <1>6 DEF SoftDelete, Restore, CopyVersion, Ready
<1>12. ASSUME NEW d \in Docs, Destroy(d) \/ ProcessDue(d) PROVE QueueInv'
  <2>1. d \notin pending' /\ pending' \subseteq pending
    BY <1>12 DEF Destroy, ProcessDue
  <2>2. op' \in WipeOp \cup BuryOp => op'.doc = d
    BY <1>12 DEF Destroy, ProcessDue, BeginDestruction, Wipe
  <2> QED BY <1>12, <2>1, <2>2 DEF Destroy, ProcessDue
<1>13. ASSUME NEW d \in Docs, ScheduleDestruction(d) PROVE QueueInv'
  BY <1>13 DEF ScheduleDestruction, Ready
<1>14. ASSUME NEW d \in Docs, Purge(d) PROVE QueueInv'
  BY <1>14 DEF Purge, Ready
<1>15. ASSUME RemoveWiped \/ WriteTombstone PROVE QueueInv'
  <2>1. op' \in WipeOp \cup BuryOp => op \in WipeOp \cup BuryOp /\ op'.doc = op.doc
    BY <1>15 DEF RemoveWiped, WriteTombstone, BuryOp
  <2> QED BY <1>15, <2>1 DEF RemoveWiped, WriteTombstone
<1>16. ASSUME SealTombstone PROVE QueueInv'
  <2>1. op.doc \in Docs /\ op.doc \notin pending /\ [stage |-> "destroyed"] \in NoRow
    BY <1>16 DEF SealTombstone, BuryOp, NoRow
  <2> QED BY <1>16, <2>1, SetRowType DEF SealTombstone, SetRow
<1>17. ASSUME NEW S \in SUBSET Docs, Judge(S)
       PROVE  \A d \in Docs : mem'.row[d].stage = mem.row[d].stage
  BY <1>17, JudgeKeeps
<1>18. ASSUME Sweep \/ SweepAborts PROVE QueueInv'
  BY <1>17, <1>18 DEF Sweep, SweepAborts
<1>19. ASSUME NEW p \in Paths, BitRot(p) PROVE QueueInv'
  BY <1>19 DEF BitRot
<1>20. CASE UNCHANGED vars
  BY <1>20 DEF vars
<1> QED
  BY <1>1, <1>2, <1>3, <1>4, <1>5, <1>8, <1>9, <1>10, <1>11, <1>12, <1>13, <1>14, <1>15,
     <1>16, <1>18, <1>19, <1>20
  DEF Next

\* Whatever dies or fails, a document that waits for its destruction is in the
\* index: no other operation of the service can take it out.
THEOREM QueueNamesActive == Spec => []ScheduledStillActive
<1>1. Init => QueueInv
  BY KindsOfOp DEF Init, QueueInv, ScheduledStillActive
<1>2. QueueInv => ScheduledStillActive
  BY DEF QueueInv
<1> QED BY <1>1, <1>2, TypeAlways, QueueStep, PTL DEF Spec

-----------------------------------------------------------------------------
\* A version that is recorded, saved or not, has its sealed copy.
RecordedAreSealed ==
  \A k \in mem.versions \cup disk.versions :
    copies[k].sealed /\ copies[k].data # NoData

\* VersionsHaveCopies, strengthened: also of memory, which any operation may save; a
\* file without data is no file, and an operation that has found its file still has it.
CopyInv ==
  /\ \A p \in Paths : file[p].data = NoData => file[p] = NoFile
  /\ op \in InstallOp => file[op.row.path].data # NoData
  /\ op \in MoveOp => /\ op.step = "unsealed" =>
                           /\ op.to # mem.row[op.doc].path
                           /\ file[mem.row[op.doc].path].data # NoData
                      /\ op.step = "moved" => file[op.to].data # NoData
  /\ op \in CopyOp => copies[op.key].data # NoData
  /\ RecordedAreSealed

\* What the operation in progress has found is left alone by the steps that
\* change neither the tree, the records nor the copies.
LEMMA CopyIdle ==
  ASSUME IndType, CopyInv, UNCHANGED <<mem, file, copies>>,
         disk' = disk \/ disk' = mem, op' \in {op, Idle, Flush}
  PROVE  CopyInv'
BY KindsOfOp DEF CopyInv, RecordedAreSealed

\* Every step keeps CopyInv.
LEMMA CopyStep == IndType /\ CopyInv /\ [Next]_vars => CopyInv'
<1> SUFFICES ASSUME IndType, CopyInv, [Next]_vars PROVE CopyInv'
  OBVIOUS
<1>t. IndType'
  BY TypeStep
<1> USE KindsOfOp, OpKinds, DataAssumption
<1> USE DEF IndType, TypeOK, CopyInv, RecordedAreSealed
<1>1. ASSUME NEW h \in Hosts, Start(h) PROVE CopyInv'
  BY <1>1 DEF Start, OpInv
<1>2. ASSUME Stop PROVE CopyInv'
  BY <1>2 DEF Stop, EmptyDb
<1>3. ASSUME FlushOk \/ FlushFails \/ StepFails \/ Touch PROVE CopyInv'
  BY <1>3, CopyIdle DEF FlushOk, FlushFails, StepFails, Touch
<1>4. ASSUME NEW d \in Docs, NEW c \in Contents, NEW cat \in Cats, NEW name \in Names,
             InstallFile(d, c, cat, name)
      PROVE  CopyInv'
  <2>1. <<cat, Sanitize(name)>> \in Paths
    BY NameAssumption DEF Paths
  <2>2. /\ file' = [file EXCEPT ![<<cat, Sanitize(name)>>] = Open(c)]
        /\ op'.row.path = <<cat, Sanitize(name)>>
        /\ op'.step = "installing"
    BY <1>4 DEF InstallFile, NewRow
  <2>3. Open(c).data # NoData
    BY DEF Open
  <2> QED BY <1>4, <2>1, <2>2, <2>3 DEF InstallFile
<1>5. ASSUME InstallTorn PROVE CopyInv'
  <2>1. op.row.path \in Paths
    BY <1>5 DEF InstallTorn, InstallOp, Row
  <2> QED BY <1>5, <2>1 DEF InstallTorn, Open
<1>6. ASSUME SealAndRegister PROVE CopyInv'
  <2>1. op.row.path \in Paths /\ op.doc \in Docs /\ op.row \in Row
    BY <1>6 DEF SealAndRegister, InstallOp, Row
  <2>2. \A p \in Paths : /\ file'[p].data = file[p].data
                         /\ file'[p] = file[p] \/ file'[p].data # NoData
    BY <1>6, <2>1, SealType DEF SealAndRegister
  <2>3. mem'.versions = mem.versions
    BY <1>6 DEF SealAndRegister, SetRow, Db
  <2> QED BY <1>6, <2>2, <2>3 DEF SealAndRegister
<1>7. ASSUME NEW d \in Docs, NEW to \in Paths, Unseal(d, to) PROVE CopyInv'
  <2>1. mem.row[d].path \in Paths
    BY <1>7, KeptRow DEF Unseal, IsActive, IsKept, Row
  <2>2. \A p \in Paths : /\ file'[p].data = file[p].data
                         /\ file'[p] = file[p] \/ file'[p].data # NoData
    BY <1>7, <2>1, SealType DEF Unseal
  <2> QED BY <1>7, <2>1, <2>2 DEF Unseal
<1>8. ASSUME NEW d \in Docs, NEW name \in Names, Rename(d, name) PROVE CopyInv'
  <2>1. mem.row[d] \in Row
    BY <1>8, KeptRow DEF Rename, Unseal, IsActive, IsKept
  <2> QED BY <1>8, <2>1, <1>7 DEF Rename, Row, Paths
<1>9. ASSUME NEW d \in Docs, NEW cat \in Cats, MoveToCategory(d, cat) PROVE CopyInv'
  <2>1. mem.row[d] \in Row
    BY <1>9, KeptRow DEF MoveToCategory, IsActive, IsKept
  <2> QED BY <1>9, <2>1, <1>7, NameAssumption DEF MoveToCategory, Row, Paths
<1>10. ASSUME MoveFile PROVE CopyInv'
  <2>1. op \in MoveOp /\ op.to \in Paths /\ IsActive(mem, op.doc) /\ op.doc \in Docs
    BY <1>10 DEF MoveFile, OpInv, MoveOp
  <2>2. mem.row[op.doc].path \in Paths
    BY <2>1, KeptRow DEF IsActive, IsKept, Row
  <2>3. op'.step = "moved" /\ op'.to = op.to /\ op' \in MoveOp
    BY <1>10, <2>1 DEF MoveFile, MoveOp
  <2>4. /\ file'[op.to] = file[mem.row[op.doc].path]
        /\ \A p \in Paths : file'[p] = NoFile \/ file'[p] = file[p] \/ p = op.to
    BY <1>10, <2>1, <2>2 DEF MoveFile
  <2> QED BY <1>10, <2>1, <2>2, <2>3, <2>4 DEF MoveFile
<1>11. ASSUME SealAndRelocate PROVE CopyInv'
  <2>1. op \in MoveOp /\ op.to \in Paths
    BY <1>11 DEF SealAndRelocate, MoveOp
  <2>2. \A p \in Paths : /\ file'[p].data = file[p].data
                         /\ file'[p] = file[p] \/ file'[p].data # NoData
    BY <1>11, <2>1, SealType DEF SealAndRelocate
  <2>3. mem'.versions = mem.versions
    BY <1>11 DEF SealAndRelocate, Db
  <2> QED BY <1>11, <2>2, <2>3 DEF SealAndRelocate
<1>12. ASSUME NEW d \in Docs, SoftDelete(d) \/ Restore(d) PROVE CopyInv'
  <2>1. mem'.versions = mem.versions
    BY <1>12 DEF SoftDelete, Restore, Db
  <2> QED BY <1>12, <2>1 DEF SoftDelete, Restore
<1>13. ASSUME NEW d \in Docs, CopyVersion(d) PROVE CopyInv'
  <2> DEFINE k == <<mem.row[d].path[1], d, NextVersion(d)>>
  <2>1. mem.row[d] \in Row
    BY <1>13, KeptRow DEF CopyVersion, IsActive, IsKept
  <2>2. k \in CopyKeys /\ mem.row[d].path \in Paths
    BY <1>13, <2>1 DEF CopyVersion, CopyKeys, Row, Paths
  <2>3. /\ copies[k] = NoFile
        /\ copies' = [copies EXCEPT ![k] = Open(file[mem.row[d].path].data)]
        /\ op'.step = "copied" /\ op'.key = k
        /\ file[mem.row[d].path].data # NoData
    BY <1>13, <2>2 DEF CopyVersion
  <2>4. Open(file[mem.row[d].path].data).data # NoData /\ ~NoFile.sealed
    BY <2>3 DEF Open, NoFile
  <2>5. k \notin mem.versions \cup disk.versions
    BY <2>3, <2>4
  <2>6. mem.versions \cup disk.versions \subseteq CopyKeys
    BY DEF Db
  <2> HIDE DEF k
  <2>7. UNCHANGED <<mem, disk, file>> /\ op' \notin InstallOp \cup MoveOp
    BY <1>13, <2>3 DEF CopyVersion
  <2>8. copies'[k].data # NoData /\ \A j \in CopyKeys \ {k} : copies'[j] = copies[j]
    BY <2>2, <2>3, <2>4
  <2>9. RecordedAreSealed'
    BY <2>5, <2>6, <2>7, <2>8
  <2>10. op' \in CopyOp => copies'[op'.key].data # NoData
    BY <2>3, <2>8
  <2> QED BY <2>7, <2>9, <2>10
<1>14. ASSUME SealVersion PROVE CopyInv'
  <2>1. op \in CopyOp /\ op.key \in CopyKeys
    BY <1>14 DEF SealVersion, CopyOp
  <2>2. /\ copies'[op.key].sealed /\ copies'[op.key].data # NoData
        /\ \A k \in CopyKeys \ {op.key} : copies'[k] = copies[k]
    BY <1>14, <2>1, SealType DEF SealVersion
  <2>3. mem'.versions = mem.versions \cup {op.key}
    BY <1>14 DEF SealVersion, Db
  <2>4. mem.versions \cup disk.versions \subseteq CopyKeys
    BY DEF Db
  <2> QED BY <1>14, <2>2, <2>3, <2>4 DEF SealVersion
<1>15. ASSUME NEW d \in Docs, NEW p \in Paths, file' \in {file, [file EXCEPT ![p] = Open(Garbage)]},
              op'.step \in {"wiping", "erased", "flush"},
              mem'.versions = mem.versions, UNCHANGED <<disk, copies>>
       PROVE  CopyInv'
  <2>1. Open(Garbage).data # NoData
    BY DEF Open
  <2> QED BY <1>15, <2>1
<1>16. ASSUME NEW d \in Docs, Destroy(d) \/ ProcessDue(d) PROVE CopyInv'
  <2>1. mem.row[d].path \in Paths
    BY <1>16, KeptRow DEF Destroy, ProcessDue, IsActive, IsKept, Row
  <2> QED BY <1>16, <2>1, <1>15 DEF Destroy, ProcessDue, BeginDestruction, Wipe
<1>17. ASSUME NEW d \in Docs, ScheduleDestruction(d) PROVE CopyInv'
  BY <1>17, CopyIdle DEF ScheduleDestruction
<1>18. ASSUME NEW d \in Docs, Purge(d) PROVE CopyInv'
  <2>1. mem.row[d].path \in Paths
    BY <1>18, KeptRow DEF Purge, IsKept, Row
  <2>2. mem'.versions = mem.versions
    BY <1>18 DEF Purge, SetRow, Db
  <2> QED BY <1>18, <2>1, <2>2, <1>15 DEF Purge, Wipe
<1>19. ASSUME RemoveWiped PROVE CopyInv'
  <2>1. op.at \in Paths
    BY <1>19 DEF RemoveWiped, WipeOp
  <2>2. op'.step \in {"erased", "flush"}
    BY <1>19 DEF RemoveWiped
  <2> QED BY <1>19, <2>1, <2>2 DEF RemoveWiped
<1>20. ASSUME WriteTombstone PROVE CopyInv'
  <2>1. op'.step \in {"idle", "buried"}
    BY <1>20, <1>t DEF WriteTombstone, BuryOp
  <2> QED BY <1>20, <2>1 DEF WriteTombstone
<1>21. ASSUME SealTombstone PROVE CopyInv'
  <2>1. mem'.versions = mem.versions
    BY <1>21 DEF SealTombstone, SetRow, Db
  <2> QED BY <1>21, <2>1 DEF SealTombstone
<1>22. ASSUME NEW S \in SUBSET Docs, Judge(S) PROVE mem'.versions = mem.versions
  BY <1>22, JudgeKeeps
<1>23. ASSUME Sweep \/ SweepAborts PROVE CopyInv'
  BY <1>22, <1>23 DEF Sweep, SweepAborts, Ready
<1>24. ASSUME NEW p \in Paths, BitRot(p) PROVE CopyInv'
  <2>1. file' = [file EXCEPT ![p] = [file[p] EXCEPT !.data = Garbage]] /\ file[p] \in File
    BY <1>24 DEF BitRot
  <2>2. [file[p] EXCEPT !.data = Garbage].data = Garbage
    BY <2>1 DEF File
  <2>3. \A q \in Paths : IF q = p THEN file'[q].data = Garbage ELSE file'[q] = file[q]
    BY <2>1, <2>2
  <2>4. op \in InstallOp => op.row.path \in Paths
    BY DEF InstallOp, Row
  <2>5. op \in MoveOp => op.to \in Paths /\ mem.row[op.doc].path \in Paths
    BY KeptRow DEF MoveOp, OpInv, IsActive, IsKept, Row
  <2>6. Garbage # NoData
    BY DataAssumption
  <2>7. \A q \in Paths : file[q].data # NoData => file'[q].data # NoData
    BY <2>3, <2>6
  <2>8. file[p].data # NoData
    BY <1>24, DataAssumption DEF BitRot
  <2> QED BY <1>24, <2>3, <2>4, <2>5, <2>6, <2>7, <2>8 DEF BitRot
<1>25. CASE UNCHANGED vars
  BY <1>25, CopyIdle DEF vars
<1> QED
  BY <1>1, <1>2, <1>3, <1>4, <1>5, <1>6, <1>8, <1>9, <1>10, <1>11, <1>12, <1>13, <1>14,
     <1>16, <1>17, <1>18, <1>19, <1>20, <1>21, <1>23, <1>24, <1>25
  DEF Next

\* Whatever dies, fails or rots, a version that is saved has its own sealed copy: no
\* failed edit is saved without it, and no later edit, move or destruction writes over it.
THEOREM VersionsAreImmutable == Spec => []VersionsHaveCopies
<1>1. Init => CopyInv
  BY KindsOfOp DEF Init, CopyInv, RecordedAreSealed, EmptyDb
<1>2. CopyInv => VersionsHaveCopies
  BY DEF CopyInv, RecordedAreSealed, VersionsHaveCopies
<1> QED BY <1>1, <1>2, TypeAlways, CopyStep, PTL DEF Spec

-----------------------------------------------------------------------------
\* How far memory may be ahead of the saved database, by the program that runs:
\* what it has done is lost with it, so moves of two programs never add up.
Ahead(h, from, to) ==
  \/ from = to
  \/ h = "service" /\ from = "free" /\ to \in {"active", "destroyed"}
  \/ h = "service" /\ from = "active" /\ to = "destroyed"
  \/ h = "app" /\ from = "free" /\ to \in {"active", "trashed"}
  \/ h = "app" /\ from \in {"active", "trashed"} /\ to \in {"active", "trashed"}
  \/ h = "it" /\ from = "trashed" /\ to = "purged"

KeptStages == {"active", "trashed"}

Follows(h, before, after) ==
  /\ Ahead(h, before.stage, after.stage)
  /\ before.stage \in KeptStages /\ after.stage \in KeptStages => after.sha = before.sha

LifeInv ==
  /\ op \in InstallOp => op.row.stage = "active"
  /\ host # "none" => \A d \in Docs : Follows(host, disk.row[d], mem.row[d])

\* A step that changes no stage and no fingerprint keeps LifeInv.
LEMMA LifeKept ==
  ASSUME LifeInv, UNCHANGED <<host, disk>>,
         op' \in InstallOp => op'.row.stage = "active",
         \A d \in Docs : /\ mem'.row[d].stage = mem.row[d].stage
                         /\ IsKept(mem, d) => mem'.row[d].sha = mem.row[d].sha
  PROVE  LifeInv'
<1>1. ASSUME NEW d \in Docs, Follows(host, disk.row[d], mem.row[d])
      PROVE  Follows(host, disk.row[d], mem'.row[d])
  BY <1>1 DEF Follows, Ahead, KeptStages, IsKept
<1> QED BY <1>1 DEF LifeInv

\* Every step keeps LifeInv.
LEMMA LifeStep == IndType /\ LifeInv /\ [Next]_vars => LifeInv'
<1> SUFFICES ASSUME IndType, LifeInv, [Next]_vars PROVE LifeInv'
  OBVIOUS
<1> USE KindsOfOp, OpKinds, SettingAssumption
<1> USE DEF IndType, TypeOK
<1>1. ASSUME NEW h \in Hosts, Start(h) PROVE LifeInv'
  BY <1>1 DEF Start, OpInv, LifeInv, Follows, Ahead
<1>2. ASSUME Stop PROVE LifeInv'
  BY <1>2 DEF Stop, LifeInv
<1>3. ASSUME FlushOk PROVE LifeInv'
  BY <1>3 DEF FlushOk, LifeInv, Follows, Ahead
<1>4. ASSUME NEW d \in Docs, NEW c \in Contents, NEW cat \in Cats, NEW name \in Names,
             InstallFile(d, c, cat, name)
      PROVE  LifeInv'
  BY <1>4, LifeKept DEF InstallFile, NewRow
<1>5. ASSUME SealAndRegister PROVE LifeInv'
  <2>1. /\ op.doc \in Docs /\ op.row \in Row /\ op.row.stage = "active"
        /\ host \in {"service", "app"} /\ disk.row[op.doc].stage = "free"
    BY <1>5 DEF SealAndRegister, InstallOp, OpInv, LifeInv
  <2>2. /\ mem'.row[op.doc] = op.row
        /\ \A e \in Docs \ {op.doc} : mem'.row[e] = mem.row[e]
    <3>1. mem' = [mem EXCEPT !.row[op.doc] = op.row]
      BY <1>5 DEF SealAndRegister, SetRow
    <3>2. mem \in Db /\ op.doc \in Docs /\ op.row \in Row \cup NoRow
      BY <2>1
    <3> QED BY <3>1, <3>2, SetRowType
  <2>3. Follows(host, disk.row[op.doc], mem'.row[op.doc])
    BY <2>1, <2>2 DEF Follows, Ahead, KeptStages
  <2>4. UNCHANGED <<host, disk>> /\ op' \notin InstallOp
    BY <1>5 DEF SealAndRegister
  <2> QED BY <2>2, <2>3, <2>4 DEF LifeInv
<1>6. ASSUME SealAndRelocate PROVE LifeInv'
  <2>1. op.doc \in Docs /\ mem.row[op.doc] \in Row
    BY <1>6, KeptRow DEF SealAndRelocate, OpInv, MoveOp, IsActive, IsKept
  <2>2. mem' = [mem EXCEPT !.row = [mem.row EXCEPT ![op.doc] = [mem.row[op.doc] EXCEPT !.path = op.to]]]
    BY <1>6 DEF SealAndRelocate
  <2>3. /\ [mem.row[op.doc] EXCEPT !.path = op.to].stage = mem.row[op.doc].stage
        /\ [mem.row[op.doc] EXCEPT !.path = op.to].sha = mem.row[op.doc].sha
    BY <2>1 DEF Row
  <2>4. \A d \in Docs : mem'.row[d].stage = mem.row[d].stage /\ mem'.row[d].sha = mem.row[d].sha
    BY <2>1, <2>2, <2>3 DEF Db
  <2> QED BY <1>6, <2>4, LifeKept DEF SealAndRelocate
<1>7. ASSUME NEW d \in Docs, NEW s \in {"active", "trashed"}, Ready({"app"}),
             IsKept(mem, d), mem' = [mem EXCEPT !.row[d].stage = s],
             op' = Flush, UNCHANGED <<host, disk>>
      PROVE  LifeInv'
  <2>1. mem.row[d] \in Row
    BY <1>7, KeptRow
  <2>2. mem' = [mem EXCEPT !.row = [mem.row EXCEPT ![d] = [mem.row[d] EXCEPT !.stage = s]]]
    BY <1>7
  <2>3. /\ [mem.row[d] EXCEPT !.stage = s].stage = s
        /\ [mem.row[d] EXCEPT !.stage = s].sha = mem.row[d].sha
    BY <2>1 DEF Row
  <2>4. /\ mem'.row[d].stage = s /\ mem'.row[d].sha = mem.row[d].sha
        /\ \A e \in Docs \ {d} : mem'.row[e] = mem.row[e]
    BY <2>2, <2>3 DEF Db
  <2>5. host = "app" /\ mem.row[d].stage \in {"active", "trashed"}
    BY <1>7 DEF Ready, IsKept
  <2>6. Follows(host, disk.row[d], mem.row[d])
    BY <2>5 DEF LifeInv
  <2>7. Follows(host, disk.row[d], mem'.row[d])
    BY <2>4, <2>5, <2>6 DEF Follows, Ahead, KeptStages
  <2>8. op' \notin InstallOp
    BY <1>7
  <2> QED BY <1>7, <2>4, <2>7, <2>8 DEF LifeInv
<1>8. ASSUME NEW d \in Docs, SoftDelete(d) \/ Restore(d) PROVE LifeInv'
  BY <1>7, <1>8 DEF SoftDelete, Restore, IsActive, IsKept
<1>9. ASSUME SealVersion PROVE LifeInv'
  <2>1. mem'.row = mem.row
    BY <1>9 DEF SealVersion, Db
  <2> QED BY <1>9, <2>1, LifeKept DEF SealVersion
<1>10. ASSUME NEW d \in Docs, Purge(d) PROVE LifeInv'
  <2>1. /\ mem'.row[d].stage = "purged"
        /\ \A e \in Docs \ {d} : mem'.row[e] = mem.row[e]
    <3>1. mem' = [mem EXCEPT !.row[d] = [stage |-> "purged"]] /\ mem \in Db
      BY <1>10 DEF Purge, SetRow
    <3>2. [stage |-> "purged"] \in Row \cup NoRow
      BY DEF NoRow
    <3> QED BY <3>1, <3>2, SetRowType
  <2>2. op' \notin InstallOp
    BY <1>10 DEF Purge, Wipe
  <2>3. host = "it" /\ host' = host /\ disk' = disk
    BY <1>10 DEF Purge, Ready
  <2>4. mem.row[d].stage = "trashed" /\ mem = disk
    BY <1>10 DEF Purge
  <2>5. Follows(host, disk.row[d], mem'.row[d])
    BY <2>1, <2>3, <2>4 DEF Follows, Ahead, KeptStages
  <2> QED BY <2>1, <2>2, <2>3, <2>5 DEF LifeInv
<1>11. ASSUME SealTombstone PROVE LifeInv'
  <2>1. /\ op.doc \in Docs /\ mem.row[op.doc].stage = "active" /\ host = "service"
        /\ [stage |-> "destroyed"] \in NoRow
    BY <1>11 DEF SealTombstone, OpInv, BuryOp, IsActive, NoRow
  <2>2. /\ mem'.row[op.doc].stage = "destroyed"
        /\ \A e \in Docs \ {op.doc} : mem'.row[e] = mem.row[e]
    <3> DEFINE gone == [stage |-> "destroyed"]
    <3>1. mem' = [mem EXCEPT !.row[op.doc] = gone] /\ mem \in Db /\ op.doc \in Docs
      BY <1>11, <2>1 DEF SealTombstone, SetRow
    <3>2. gone \in Row \cup NoRow /\ gone.stage = "destroyed"
      BY <2>1
    <3> HIDE DEF gone
    <3>3. mem'.row[op.doc] = gone /\ \A e \in Docs \ {op.doc} : mem'.row[e] = mem.row[e]
      BY <3>1, <3>2, SetRowType
    <3> QED BY <3>2, <3>3
  <2>3. Follows(host, disk.row[op.doc], mem.row[op.doc])
    BY <2>1 DEF LifeInv
  <2>4. Follows(host, disk.row[op.doc], mem'.row[op.doc])
    BY <2>1, <2>2, <2>3 DEF Follows, Ahead, KeptStages
  <2>5. UNCHANGED <<host, disk>> /\ op' \notin InstallOp
    BY <1>11 DEF SealTombstone
  <2> QED BY <2>2, <2>4, <2>5 DEF LifeInv
<1>12. ASSUME Sweep \/ SweepAborts PROVE LifeInv'
  <2>1. PICK S \in SUBSET Docs : Judge(S)
    BY <1>12 DEF Sweep, SweepAborts
  <2>2. UNCHANGED <<host, disk>> /\ op' \in {Flush, op}
    BY <1>12 DEF Sweep, SweepAborts
  <2>3. op' \in InstallOp => op'.row.stage = "active"
    BY <2>2 DEF LifeInv
  <2>4. \A d \in Docs : /\ mem'.row[d].stage = mem.row[d].stage
                        /\ IsKept(mem, d) => mem'.row[d].sha = mem.row[d].sha
    BY <2>1, JudgeKeeps
  <2> QED BY <2>2, <2>3, <2>4, LifeKept
<1>13. ASSUME UNCHANGED <<host, mem, disk>>, op' \in InstallOp => op' = op PROVE LifeInv'
  BY <1>13, LifeKept DEF LifeInv
<1>14. ASSUME FlushFails \/ StepFails \/ Touch \/ InstallTorn \/ MoveFile \/ RemoveWiped
                \/ WriteTombstone
       PROVE  LifeInv'
  <2>1. op' \notin InstallOp
    BY <1>14 DEF FlushFails, StepFails, Touch, InstallTorn, MoveFile, RemoveWiped,
       WriteTombstone, MoveOp, BuryOp
  <2> QED BY <1>13, <1>14, <2>1 DEF FlushFails, StepFails, Touch, InstallTorn, MoveFile,
          RemoveWiped, WriteTombstone
<1>15. ASSUME NEW d \in Docs,
              CopyVersion(d) \/ Destroy(d) \/ ScheduleDestruction(d) \/ ProcessDue(d)
       PROVE  LifeInv'
  <2>1. op' \notin InstallOp
    BY <1>15 DEF CopyVersion, Destroy, ScheduleDestruction, ProcessDue, BeginDestruction, Wipe
  <2> QED BY <1>13, <1>15, <2>1 DEF CopyVersion, Destroy, ScheduleDestruction, ProcessDue
<1>16. ASSUME NEW d \in Docs, NEW to, Unseal(d, to) PROVE LifeInv'
  <2>1. op' \notin InstallOp
    BY <1>16 DEF Unseal
  <2> QED BY <1>13, <1>16, <2>1 DEF Unseal
<1>17. ASSUME NEW p \in Paths, BitRot(p) PROVE LifeInv'
  BY <1>13, <1>17 DEF BitRot
<1>18. CASE UNCHANGED vars
  BY <1>13, <1>18 DEF vars
<1> QED
  BY <1>1, <1>2, <1>3, <1>4, <1>5, <1>6, <1>8, <1>9, <1>10, <1>11, <1>12, <1>14, <1>15,
     <1>16, <1>17, <1>18
  DEF Next, Rename, MoveToCategory

\* Every save moves the records along their life cycle, several moves at once
\* when earlier saves failed: fingerprints are never replaced, nothing returns
\* from destruction or purge.
THEOREM Refinement == Spec => ImplementsLifecycle
<1>1. Init => LifeInv
  BY KindsOfOp DEF Init, LifeInv
<1>2. Init => Lifecycle!Init
  BY DEF Init, Lifecycle!Init, Ledger, IsKept, EmptyDb
<1>3. IndType /\ LifeInv /\ [Next]_vars => [Lifecycle!Next]_Ledger
  <2> SUFFICES ASSUME IndType, LifeInv, [Next]_vars PROVE [Lifecycle!Next]_Ledger
    OBVIOUS
  <2>1. CASE disk' = disk
    BY <2>1 DEF Ledger, IsKept
  <2>2. CASE FlushOk
    <3>1. host # "none" /\ disk' = mem
      BY <2>2, KindsOfOp DEF FlushOk, IndType, OpInv
    <3>2. mem \in Db /\ disk \in Db
      BY DEF IndType, TypeOK
    <3>3. \A d \in Docs : /\ Ledger[d].stage = disk.row[d].stage
                          /\ Ledger'[d].stage = mem.row[d].stage
                          /\ IsKept(disk, d) => Ledger[d].sha = disk.row[d].sha
                          /\ IsKept(mem, d) => Ledger'[d].sha = mem.row[d].sha
      BY <3>1 DEF Ledger, IsKept
    <3>4. ASSUME NEW d \in Docs
          PROVE  /\ Lifecycle!Leads(Ledger[d].stage, Ledger'[d].stage)
                 /\ (Lifecycle!Kept(Ledger[d].stage) /\ Lifecycle!Kept(Ledger'[d].stage))
                      => Ledger'[d].sha = Ledger[d].sha
      <4>1. Follows(host, disk.row[d], mem.row[d])
        BY <3>1 DEF LifeInv
      <4>2. Lifecycle!Leads(disk.row[d].stage, mem.row[d].stage)
        BY <4>1 DEF Follows, Ahead, Lifecycle!Leads
      <4> QED BY <3>3, <4>1, <4>2 DEF Follows, KeptStages, IsKept, Lifecycle!Kept
    <3>5. Ledger' \in [Docs -> Lifecycle!Entry]
      <4> SUFFICES ASSUME NEW d \in Docs
                   PROVE  [stage |-> mem.row[d].stage,
                           sha   |-> IF IsKept(mem, d) THEN mem.row[d].sha ELSE NoData]
                            \in Lifecycle!Entry
        BY <3>1 DEF Ledger, IsKept
      <4>1. CASE IsKept(mem, d)
        BY <3>2, <4>1, KeptRow DEF Row, Lifecycle!Entry, Lifecycle!Stages
      <4>2. CASE ~IsKept(mem, d)
        BY <3>2, <4>2 DEF Db, IsKept, Row, NoRow, Lifecycle!Entry, Lifecycle!Stages
      <4> QED BY <4>1, <4>2
    <3> QED BY <3>4, <3>5 DEF Lifecycle!Next, Lifecycle!Save
  <2>3. disk' = disk \/ FlushOk
    BY DEF Next, Start, Stop, FlushFails, StepFails, Touch, InstallFile, InstallTorn,
       SealAndRegister, Rename, MoveToCategory, Unseal, MoveFile, SealAndRelocate, SoftDelete,
       Restore, CopyVersion, SealVersion, Destroy, ScheduleDestruction, ProcessDue, Purge,
       RemoveWiped, WriteTombstone, SealTombstone, Sweep, SweepAborts, BitRot, vars
  <2> QED BY <2>1, <2>2, <2>3
<1> QED
  BY <1>1, <1>2, <1>3, TypeAlways, LifeStep, PTL
  DEF ImplementsLifecycle, Lifecycle!Spec, Spec

-----------------------------------------------------------------------------
\* The file a move will write does not exist, and of a file that has been
\* overwritten nothing is left.
TreeInv ==
  /\ op \in MoveOp /\ op.step = "unsealed" => file[op.to] = NoFile
  /\ op \in WipeOp => file[op.at].data = Garbage

LostFairly(c) == Held(c) /\ ~Held(c)' => op'.step = "wiping" \/ op.step = "installing"

\* A content survives a step after which every file that held it, or another
\* one, holds it.
LEMMA HeldElsewhere ==
  ASSUME NEW c \in Contents,
         \A p \in Paths : file[p].data = c => \E q \in Paths : file'[q].data = c
  PROVE  LostFairly(c)
BY DEF Held, LostFairly

\* Every step keeps TreeInv and, without rot, loses contents only by wiping
\* them or in the installation that wrote them.
LEMMA TreeStep ==
  ASSUME ~Rot, IndType, CopyInv, TreeInv, [Next]_vars
  PROVE  TreeInv' /\ \A c \in Contents : LostFairly(c)
<1> DEFINE Goal == TreeInv' /\ \A c \in Contents : LostFairly(c)
<1> USE KindsOfOp, OpKinds
<1> USE DEF IndType, TypeOK
<1>a. /\ NoFile.data = NoData /\ NoData \notin Contents /\ Garbage \notin Contents
      /\ \A x : Open(x).data = x
  BY DataAssumption DEF NoFile, Open
\* The steps that leave the tree alone and begin no move and no wiping.
<1>b. ASSUME UNCHANGED file, op' \in MoveOp \cup WipeOp => op' = op
      PROVE  Goal
  <2>1. \A c \in Contents : LostFairly(c)
    BY <1>b, HeldElsewhere
  <2>2. TreeInv'
    BY <1>b DEF TreeInv
  <2> QED BY <2>1, <2>2
\* The steps that only seal or unseal a file.
<1>c. ASSUME NEW p \in Paths, NEW b \in BOOLEAN, file' = [file EXCEPT ![p].sealed = b],
             op' \notin WipeOp,
             op' \in MoveOp /\ op'.step = "unsealed" =>
               op'.to \in Paths /\ op'.to # p /\ file[op'.to] = NoFile
      PROVE  Goal
  <2>1. \A q \in Paths : /\ file'[q].data = file[q].data
                         /\ q # p => file'[q] = file[q]
    BY <1>c, SealType
  <2>2. \A c \in Contents : LostFairly(c)
    BY <2>1, HeldElsewhere
  <2>3. TreeInv'
    BY <1>c, <2>1 DEF TreeInv
  <2> QED BY <2>2, <2>3
\* The steps that overwrite a file that is there.
<1>d. ASSUME NEW d \in Docs, NEW p \in Paths, NEW why, NEW otherwise,
             Wipe(d, p, why, otherwise), otherwise \notin MoveOp \cup WipeOp
      PROVE  Goal
  <2>1. CASE file[p] = NoFile
    BY <1>b, <1>d, <2>1 DEF Wipe
  <2>2. CASE file[p] # NoFile
    <3>1. op' = [step |-> "wiping", doc |-> d, at |-> p, why |-> why] /\ file'[p].data = Garbage
      BY <1>a, <1>d, <2>2 DEF Wipe
    <3>2. op'.step = "wiping" /\ op'.at = p
      BY <3>1
    <3>3. TreeInv'
      BY <3>1, <3>2 DEF TreeInv
    <3>4. \A c \in Contents : LostFairly(c)
      BY <3>2 DEF LostFairly
    <3> QED BY <3>3, <3>4
  <2> QED BY <2>1, <2>2
<1>1. ASSUME (\E h \in Hosts : Start(h)) \/ Stop \/ FlushOk \/ FlushFails \/ StepFails \/ Touch
      PROVE  Goal
  BY <1>1, <1>b DEF Start, Stop, FlushOk, FlushFails, StepFails, Touch
<1>2. ASSUME NEW d \in Docs, NEW c \in Contents, NEW cat \in Cats, NEW name \in Names,
             InstallFile(d, c, cat, name)
      PROVE  Goal
  <2> DEFINE p == <<cat, Sanitize(name)>>
  <2>1. p \in Paths /\ file[p] = NoFile /\ file' = [file EXCEPT ![p] = Open(c)]
    BY <1>2, NameAssumption DEF InstallFile, Vacant, Paths
  <2>2. op' \notin MoveOp \cup WipeOp
    BY <1>2 DEF InstallFile
  <2> HIDE DEF p
  <2>3. \A q \in Paths : file[q].data \in Contents => file'[q] = file[q]
    BY <1>a, <2>1
  <2>4. \A e \in Contents : LostFairly(e)
    BY <2>3, HeldElsewhere
  <2>5. TreeInv'
    BY <2>2 DEF TreeInv
  <2> QED BY <2>4, <2>5
<1>3. ASSUME InstallTorn PROVE Goal
  <2>1. op.step = "installing" /\ op' \notin MoveOp \cup WipeOp
    BY <1>3 DEF InstallTorn
  <2> QED BY <2>1 DEF LostFairly, TreeInv
<1>4. ASSUME SealAndRegister PROVE Goal
  <2>1. op.row.path \in Paths /\ op' \notin MoveOp \cup WipeOp
    BY <1>4 DEF SealAndRegister, InstallOp, Row
  <2> QED BY <1>4, <1>c, <2>1 DEF SealAndRegister
<1>5. ASSUME NEW d \in Docs, NEW to \in Paths, Unseal(d, to) PROVE Goal
  <2>1. mem.row[d].path \in Paths
    BY <1>5, KeptRow DEF Unseal, IsActive, IsKept, Row
  <2>2. /\ op'.to = to /\ op'.step = "unsealed"
        /\ to # mem.row[d].path /\ file[to] = NoFile
        /\ file' = [file EXCEPT ![mem.row[d].path].sealed = FALSE]
    BY <1>5 DEF Unseal, Vacant
  <2> QED BY <1>c, <2>1, <2>2
<1>6. ASSUME NEW d \in Docs, NEW name \in Names, Rename(d, name) PROVE Goal
  <2>1. mem.row[d] \in Row
    BY <1>6, KeptRow DEF Rename, Unseal, IsActive, IsKept
  <2> QED BY <1>5, <1>6, <2>1 DEF Rename, Row, Paths
<1>7. ASSUME NEW d \in Docs, NEW cat \in Cats, MoveToCategory(d, cat) PROVE Goal
  <2>1. mem.row[d] \in Row
    BY <1>7, KeptRow DEF MoveToCategory, IsActive, IsKept
  <2> QED BY <1>5, <1>7, <2>1, NameAssumption DEF MoveToCategory, Row, Paths
<1>8. ASSUME MoveFile PROVE Goal
  <2> DEFINE from == mem.row[op.doc].path
  <2>1. op \in MoveOp /\ op.to \in Paths /\ from \in Paths
    BY <1>8, KeptRow DEF MoveFile, MoveOp, OpInv, IsActive, IsKept, Row
  <2>2. op.step = "unsealed" /\ op' = [op EXCEPT !.step = "moved"]
        /\ file' = [file EXCEPT ![op.to] = file[from], ![from] = NoFile]
    BY <1>8 DEF MoveFile
  <2>3. from # op.to /\ file[op.to] = NoFile
    BY <2>1, <2>2 DEF CopyInv, TreeInv
  <2>4. op'.step = "moved"
    BY <2>1, <2>2 DEF MoveOp
  <2> HIDE DEF from
  <2>5. \A q \in Paths \ {from, op.to} : file'[q] = file[q]
    BY <2>1, <2>2
  <2>6. file'[op.to] = file[from]
    BY <2>1, <2>2, <2>3
  <2>7. \A c \in Contents : LostFairly(c)
    BY <1>a, <2>1, <2>3, <2>5, <2>6, HeldElsewhere
  <2>8. TreeInv'
    BY <2>4 DEF TreeInv
  <2> QED BY <2>7, <2>8
<1>9. ASSUME SealAndRelocate PROVE Goal
  <2>1. op.to \in Paths /\ op' \notin MoveOp \cup WipeOp
    BY <1>9 DEF SealAndRelocate, MoveOp
  <2> QED BY <1>9, <1>c, <2>1 DEF SealAndRelocate
<1>10. ASSUME NEW d \in Docs, SoftDelete(d) \/ Restore(d) \/ CopyVersion(d) PROVE Goal
  <2>1. UNCHANGED file /\ op' \notin MoveOp \cup WipeOp
    BY <1>10 DEF SoftDelete, Restore, CopyVersion
  <2> QED BY <1>b, <2>1
<1>11. ASSUME NEW d \in Docs, Destroy(d) \/ ProcessDue(d) PROVE Goal
  <2>1. mem.row[d].path \in Paths
    BY <1>11, KeptRow DEF Destroy, ProcessDue, IsActive, IsKept, Row
  <2>2. [step |-> "erased", doc |-> d].step = "erased"
    OBVIOUS
  <2>3. Wipe(d, mem.row[d].path, "destroy", [step |-> "erased", doc |-> d])
    BY <1>11 DEF Destroy, ProcessDue, BeginDestruction
  <2> QED BY <1>d, <2>1, <2>2, <2>3
<1>12. ASSUME NEW d \in Docs, Purge(d) PROVE Goal
  <2>1. mem.row[d].path \in Paths
    BY <1>12, KeptRow DEF Purge, IsKept, Row
  <2> QED BY <1>d, <1>12, <2>1 DEF Purge
<1>13. ASSUME RemoveWiped PROVE Goal
  <2>1. op \in WipeOp /\ op.at \in Paths
    BY <1>13 DEF RemoveWiped, WipeOp
  <2>2. op'.step \in {"flush", "erased"}
    BY <1>13 DEF RemoveWiped
  <2>3. \A q \in Paths : file[q].data \in Contents => file'[q] = file[q]
    BY <1>13, <1>a, <2>1 DEF RemoveWiped, TreeInv
  <2>4. \A c \in Contents : LostFairly(c)
    BY <2>3, HeldElsewhere
  <2> QED BY <2>2, <2>4 DEF TreeInv
<1>14. ASSUME SealVersion \/ (\E d \in Docs : ScheduleDestruction(d)) \/ WriteTombstone
                \/ SealTombstone \/ Sweep \/ SweepAborts
       PROVE  Goal
  <2>1. UNCHANGED file
    BY <1>14 DEF SealVersion, ScheduleDestruction, WriteTombstone, SealTombstone, Sweep, SweepAborts
  <2>2. op' = op \/ op' \notin MoveOp \cup WipeOp
    BY <1>14 DEF SealVersion, ScheduleDestruction, WriteTombstone, SealTombstone, Sweep,
       SweepAborts, BuryOp
  <2> QED BY <1>b, <2>1, <2>2
<1>15. ASSUME NEW p \in Paths, BitRot(p) PROVE Goal
  BY <1>15 DEF BitRot
<1>16. CASE UNCHANGED vars
  BY <1>16, <1>b DEF vars
<1> QED
  BY <1>1, <1>2, <1>3, <1>4, <1>6, <1>7, <1>8, <1>9, <1>10, <1>11, <1>12, <1>13, <1>14,
     <1>15, <1>16
  DEF Next

\* If the medium does not rot, whatever dies or fails, a content that the vault
\* holds disappears only by a destruction or a purge, or is an import's own.
THEOREM ContentOutlivesCrashes ==
  ASSUME ~Rot
  PROVE  Spec => OnlyWipesLoseContent
<1>1. Init => CopyInv
  BY KindsOfOp DEF Init, CopyInv, RecordedAreSealed, EmptyDb
<1>2. Init => TreeInv
  BY KindsOfOp DEF Init, TreeInv
<1>3. IndType /\ CopyInv /\ TreeInv /\ [Next]_vars => TreeInv'
  BY TreeStep
<1>4. IndType /\ CopyInv /\ TreeInv /\ [Next]_vars
        => [\A c \in Contents : Held(c) /\ ~Held(c)' => op'.step = "wiping" \/ op.step = "installing"]_file
  BY TreeStep DEF LostFairly
<1> QED
  BY <1>1, <1>2, <1>3, <1>4, TypeAlways, CopyStep, PTL DEF Spec, OnlyWipesLoseContent

-----------------------------------------------------------------------------
\* Without failures and rot: the database that counts, in memory or on disk.
Now == IF host = "none" THEN disk ELSE mem

\* The files f are the sealed files of the records, but for the paths P.
Owns(db, d, p) == IsKept(db, d) /\ db.row[d].path = p
Tree(db, f, P) ==
  \A p \in Paths \ P :
    /\ \A d \in Docs : Owns(db, d, p) => f[p] = Sealed(db.row[d].sha)
    /\ f[p] # NoFile => \E d \in Docs : Owns(db, d, p)
Unowned(db, p) == \A d \in Docs : ~Owns(db, d, p)
Unique(db) == \A d, e \in Docs, p \in Paths : Owns(db, d, p) /\ Owns(db, e, p) => d = e

\* What each operation has made of the tree when it is at a step.
StepInv ==
  /\ op \in {Idle, Flush} \cup CopyOp => Tree(Now, file, {})
  /\ op \in InstallOp =>
       /\ Tree(mem, file, {op.row.path})
       /\ op.row.stage = "active" /\ file[op.row.path] = Open(op.row.sha)
       /\ Unowned(mem, op.row.path)
  /\ op \in MoveOp =>
       LET r == mem.row[op.doc] IN
       /\ op.to # r.path /\ Unowned(mem, op.to)
       /\ op.step = "unsealed" => /\ Tree(mem, file, {r.path})
                                  /\ file[r.path] = Open(r.sha) /\ file[op.to] = NoFile
       /\ op.step = "moved" => /\ Tree(mem, file, {r.path, op.to})
                               /\ file[r.path] = NoFile /\ file[op.to] = Open(r.sha)
  /\ op \in WipeOp =>
       /\ Tree(mem, file, {op.at})
       /\ op.why = "destroy" => op.at = mem.row[op.doc].path
       /\ op.why = "purge" => Unowned(mem, op.at)
  /\ op \in BuryOp => /\ Tree(mem, file, {mem.row[op.doc].path})
                      /\ file[mem.row[op.doc].path] = NoFile

\* The versions recorded, and the copies on disk but for one.
Copied(db, cs, K) ==
  \A k \in CopyKeys \ K :
    /\ cs[k] # NoFile <=> k \in db.versions
    /\ k \in db.versions => /\ cs[k].sealed
                            /\ db.row[k[2]].stage # "free"
                            /\ IsKept(db, k[2]) => cs[k].data = db.row[k[2]].sha

CleanInv ==
  /\ host = "none" => mem = EmptyDb
  /\ host # "none" /\ op # Flush /\ ~(op \in WipeOp /\ op.why = "purge") => mem = disk
  /\ Unique(Now)
  /\ StepInv
  /\ op \notin CopyOp => Copied(Now, copies, {})
  /\ op \in CopyOp => /\ Copied(mem, copies, {op.key}) /\ op.key[2] = op.doc
                      /\ op.key \notin mem.versions
                      /\ copies[op.key] = Open(mem.row[op.doc].sha)
  /\ \A d \in Docs : tomb[d] = "sealed" => Now.row[d].stage = "destroyed"

-----------------------------------------------------------------------------
\* Databases with the same documents at the same paths and the same versions.
Same(a, b) ==
  /\ b.versions = a.versions
  /\ \A d \in Docs :
       /\ IsKept(a, d) <=> IsKept(b, d)
       /\ IsKept(a, d) => b.row[d].path = a.row[d].path /\ b.row[d].sha = a.row[d].sha
       /\ ~IsKept(a, d) => b.row[d].stage = a.row[d].stage

LEMMA SameKeeps ==
  ASSUME NEW a, NEW b, Same(a, b)
  PROVE  /\ \A d \in Docs, p \in Paths : Owns(b, d, p) <=> Owns(a, d, p)
         /\ \A f, P : Tree(a, f, P) => Tree(b, f, P)
         /\ Unique(a) => Unique(b)
         /\ \A cs : Copied(a, cs, {}) => Copied(b, cs, {})
         /\ \A d \in Docs : a.row[d].stage = "destroyed" => b.row[d].stage = "destroyed"
         /\ \A d \in Docs : a.row[d].stage = "free" <=> b.row[d].stage = "free"
<1>1. \A d \in Docs, p \in Paths : Owns(b, d, p) <=> Owns(a, d, p)
  BY DEF Same, Owns
<1>2. ASSUME NEW f, NEW P, Tree(a, f, P) PROVE Tree(b, f, P)
  <2> SUFFICES ASSUME NEW p \in Paths \ P
               PROVE  /\ \A d \in Docs : Owns(b, d, p) => f[p] = Sealed(b.row[d].sha)
                      /\ f[p] # NoFile => \E d \in Docs : Owns(b, d, p)
    BY DEF Tree
  <2>1. \A d \in Docs : Owns(a, d, p) => f[p] = Sealed(a.row[d].sha)
    BY <1>2 DEF Tree
  <2>2. f[p] # NoFile => \E d \in Docs : Owns(a, d, p)
    BY <1>2 DEF Tree
  <2>3. \A d \in Docs : Owns(a, d, p) => b.row[d].sha = a.row[d].sha
    BY DEF Same, Owns
  <2> QED BY <1>1, <2>1, <2>2, <2>3
<1>3. Unique(a) => Unique(b)
  BY <1>1 DEF Unique
<1>4. \A d \in Docs : /\ a.row[d].stage = "destroyed" => b.row[d].stage = "destroyed"
                      /\ a.row[d].stage = "free" <=> b.row[d].stage = "free"
  BY DEF Same, IsKept
<1>5. ASSUME NEW cs, Copied(a, cs, {}) PROVE Copied(b, cs, {})
  <2> SUFFICES ASSUME NEW k \in CopyKeys
               PROVE  /\ cs[k] # NoFile <=> k \in b.versions
                      /\ k \in b.versions =>
                           /\ cs[k].sealed
                           /\ b.row[k[2]].stage # "free"
                           /\ IsKept(b, k[2]) => cs[k].data = b.row[k[2]].sha
    BY DEF Copied
  <2>1. k[2] \in Docs
    BY DEF CopyKeys
  <2> QED BY <1>4, <1>5, <2>1 DEF Copied, Same
<1> QED BY <1>1, <1>2, <1>3, <1>4, <1>5

\* Files that differ on the paths Q only.
LEMMA TreeWiden ==
  ASSUME NEW db, NEW f, NEW g, NEW P, NEW Q, Tree(db, f, P),
         \A p \in Paths \ Q : p \notin P /\ g[p] = f[p]
  PROVE  Tree(db, g, Q)
BY DEF Tree

\* One record differs: the other documents own what they did.
LEMMA OneRowTree ==
  ASSUME NEW a, NEW b, NEW d \in Docs, NEW f, NEW P, Tree(a, f, P),
         \A e \in Docs \ {d} : b.row[e] = a.row[e]
  PROVE  /\ \A p \in Paths, e \in Docs \ {d} : Owns(b, e, p) <=> Owns(a, e, p)
         /\ \A Q : P \subseteq Q /\ (\A p \in Paths : Owns(a, d, p) \/ Owns(b, d, p) => p \in Q)
                      => Tree(b, f, Q)
<1>1. \A p \in Paths, e \in Docs \ {d} : Owns(b, e, p) <=> Owns(a, e, p)
  BY DEF Owns, IsKept
<1>2. ASSUME NEW Q, P \subseteq Q,
             \A p \in Paths : Owns(a, d, p) \/ Owns(b, d, p) => p \in Q
      PROVE  Tree(b, f, Q)
  <2> SUFFICES ASSUME NEW p \in Paths \ Q
               PROVE  /\ \A e \in Docs : Owns(b, e, p) => f[p] = Sealed(b.row[e].sha)
                      /\ f[p] # NoFile => \E e \in Docs : Owns(b, e, p)
    BY DEF Tree
  <2>1. \A e \in Docs : Owns(b, e, p) => e # d
    BY <1>2
  <2>2. \A e \in Docs : Owns(a, e, p) => e # d
    BY <1>2
  <2>3. p \in Paths \ P
    BY <1>2
  <2>4. /\ \A e \in Docs : Owns(a, e, p) => f[p] = Sealed(a.row[e].sha)
        /\ f[p] # NoFile => \E e \in Docs : Owns(a, e, p)
    BY <2>3 DEF Tree
  <2> QED BY <1>1, <2>1, <2>2, <2>4
<1> QED BY <1>1, <1>2

\* A path out of question whose file is as it should be comes into it again.
LEMMA TreeNarrow ==
  ASSUME NEW db, NEW f, NEW x, NEW P, Tree(db, f, P \cup {x}),
         x \in Paths =>
           /\ \A d \in Docs : Owns(db, d, x) => f[x] = Sealed(db.row[d].sha)
           /\ f[x] # NoFile => \E d \in Docs : Owns(db, d, x)
  PROVE  Tree(db, f, P)
<1> SUFFICES ASSUME NEW p \in Paths \ P
             PROVE  /\ \A d \in Docs : Owns(db, d, p) => f[p] = Sealed(db.row[d].sha)
                    /\ f[p] # NoFile => \E d \in Docs : Owns(db, d, p)
  BY DEF Tree
<1>1. CASE p = x
  BY <1>1
<1>2. CASE p # x
  BY <1>2 DEF Tree
<1> QED BY <1>1, <1>2

LEMMA RealFiles ==
  ASSUME NEW c \in Contents
  PROVE  /\ Sealed(c) # NoFile /\ Open(c) # NoFile
         /\ Sealed(c).sealed /\ Sealed(c).data = c /\ Open(c).data = c
BY DataAssumption DEF Sealed, Open, NoFile

LEMMA JudgeSame ==
  ASSUME mem \in Db, NEW S \in SUBSET Docs, Judge(S)
  PROVE  Same(mem, mem')
<1> DEFINE r(d) == IF d \in S /\ IsActive(mem, d) THEN Verdict(mem.row[d]) ELSE mem.row[d]
<1>1. \A d \in Docs : /\ r(d).stage = mem.row[d].stage
                      /\ IsKept(mem, d) => r(d).sha = mem.row[d].sha /\ r(d).path = mem.row[d].path
  <2> TAKE d \in Docs
  <2>1. CASE d \in S /\ IsActive(mem, d)
    <3>1. mem.row[d] \in Row
      BY <2>1, KeptRow DEF IsActive, IsKept
    <3> QED BY <2>1, <3>1 DEF Verdict, Row
  <2>2. CASE ~(d \in S /\ IsActive(mem, d))
    BY <2>2
  <2> QED BY <2>1, <2>2
<1>2. mem' = [mem EXCEPT !.row = [d \in Docs |-> r(d)]]
  BY DEF Judge
<1> HIDE DEF r
<1>3. mem'.versions = mem.versions /\ \A d \in Docs : mem'.row[d] = r(d)
  BY <1>2 DEF Db
<1> QED BY <1>1, <1>3 DEF Same, IsKept

-----------------------------------------------------------------------------
\* A document's file is there, unless its path is in question.
LEMMA OwnedFile ==
  ASSUME NEW db \in Db, NEW f, NEW P, Tree(db, f, P), NEW d \in Docs, NEW p \in Paths \ P,
         Owns(db, d, p)
  PROVE  f[p] = Sealed(db.row[d].sha) /\ f[p] # NoFile /\ db.row[d].sha \in Contents
<1>1. db.row[d] \in Row
  BY KeptRow DEF Owns
<1>2. db.row[d].sha \in Contents
  BY <1>1 DEF Row
<1>3. f[p] = Sealed(db.row[d].sha)
  BY DEF Tree
<1> QED BY <1>2, <1>3, RealFiles

LEMMA OneRowUnique ==
  ASSUME NEW a, NEW b, NEW d \in Docs, Unique(a), \A e \in Docs \ {d} : b.row[e] = a.row[e],
         \A p \in Paths, e \in Docs \ {d} : Owns(b, d, p) => ~Owns(a, e, p)
  PROVE  Unique(b)
<1>1. \A p \in Paths, e \in Docs \ {d} : Owns(b, e, p) <=> Owns(a, e, p)
  BY DEF Owns, IsKept
<1> SUFFICES ASSUME NEW x \in Docs, NEW y \in Docs, NEW p \in Paths, Owns(b, x, p), Owns(b, y, p)
             PROVE  x = y
  BY DEF Unique
<1>2. CASE x # d /\ y # d
  BY <1>1, <1>2 DEF Unique
<1>3. CASE x = d \/ y = d
  BY <1>1, <1>3
<1> QED BY <1>2, <1>3

LEMMA OneRowCopies ==
  ASSUME NEW a, NEW b, NEW cs, NEW d \in Docs, Copied(a, cs, {}), b.versions = a.versions,
         \A e \in Docs \ {d} : b.row[e] = a.row[e],
         \/ \A k \in CopyKeys : k \in a.versions => k[2] # d
         \/ b.row[d].stage # "free" /\ (IsKept(b, d) => IsKept(a, d) /\ b.row[d].sha = a.row[d].sha)
  PROVE  Copied(b, cs, {})
<1> SUFFICES ASSUME NEW k \in CopyKeys
             PROVE  /\ cs[k] # NoFile <=> k \in b.versions
                    /\ k \in b.versions =>
                         /\ cs[k].sealed
                         /\ b.row[k[2]].stage # "free"
                         /\ IsKept(b, k[2]) => cs[k].data = b.row[k[2]].sha
  BY DEF Copied
<1>1. k[2] \in Docs
  BY DEF CopyKeys
<1>2. /\ cs[k] # NoFile <=> k \in a.versions
      /\ k \in a.versions =>
           /\ cs[k].sealed
           /\ a.row[k[2]].stage # "free"
           /\ IsKept(a, k[2]) => cs[k].data = a.row[k[2]].sha
  BY DEF Copied
<1>3. CASE k[2] # d
  BY <1>1, <1>2, <1>3 DEF IsKept
<1>4. CASE k[2] = d
  BY <1>2, <1>4
<1> QED BY <1>3, <1>4

\* The same records: the same tree.
LEMMA SameRows ==
  ASSUME NEW a, NEW b, b.row = a.row
  PROVE  /\ \A f, P : Tree(a, f, P) => Tree(b, f, P)
         /\ Unique(a) => Unique(b)
<1>1. \A d \in Docs, p \in Paths : Owns(b, d, p) <=> Owns(a, d, p)
  BY DEF Owns, IsKept
<1> QED BY <1>1 DEF Tree, Unique

LEMMA SealedRecord ==
  ASSUME NEW r \in File, NEW b \in BOOLEAN
  PROVE  [r EXCEPT !.sealed = b] = [data |-> r.data, sealed |-> b]
BY DEF File

\* A file whose content is known is sealed or unsealed.
LEMMA Resealed ==
  ASSUME NEW f \in [Paths -> File], NEW x \in Paths, NEW c, f[x].data = c, NEW b \in BOOLEAN
  PROVE  /\ [f EXCEPT ![x].sealed = b][x] = [data |-> c, sealed |-> b]
         /\ \A p \in Paths \ {x} : [f EXCEPT ![x].sealed = b][p] = f[p]
<1> DEFINE g == [f[x] EXCEPT !.sealed = b]
<1>1. f[x] \in File
  OBVIOUS
<1>2. g = [data |-> c, sealed |-> b]
  BY <1>1 DEF File
<1>3. [f EXCEPT ![x].sealed = b] = [f EXCEPT ![x] = g]
  OBVIOUS
<1> HIDE DEF g
<1> QED BY <1>2, <1>3

\* No operation is under way, and the program that may begin one knows what is saved.
Quiet ==
  /\ Now = mem /\ mem = disk /\ Unique(mem)
  /\ Tree(mem, file, {}) /\ Copied(mem, copies, {})
  /\ \A d \in Docs : tomb[d] = "sealed" => mem.row[d].stage = "destroyed"

LEMMA QuietState == ASSUME CleanInv, host # "none", op = Idle PROVE Quiet
<1>1. op # Flush /\ op \notin CopyOp /\ op \notin WipeOp
  BY KindsOfOp
<1>2. Now = mem /\ mem = disk /\ Unique(mem) /\ Copied(mem, copies, {}) /\ Tree(Now, file, {})
  BY <1>1 DEF CleanInv, Now, StepInv
<1> QED BY <1>2 DEF CleanInv, Quiet

\* What an operation must have done when it comes to save, and on its way there.
LEMMA Finished ==
  ASSUME host' # "none", op' = Flush, Unique(mem'), Tree(mem', file', {}),
         Copied(mem', copies', {}),
         \A d \in Docs : tomb'[d] = "sealed" => mem'.row[d].stage = "destroyed"
  PROVE  CleanInv'
<1>1. Now' = mem'
  BY DEF Now
<1>2. /\ op' \notin CopyOp /\ op' \notin InstallOp /\ op' \notin MoveOp /\ op' \notin WipeOp
      /\ op' \notin BuryOp
  BY KindsOfOp
<1>3. StepInv'
  BY <1>1, <1>2 DEF StepInv
<1> QED BY <1>1, <1>2, <1>3 DEF CleanInv

LEMMA UnderWay ==
  ASSUME host' # "none", op' \in InstallOp \cup MoveOp \cup WipeOp \cup BuryOp,
         Unique(mem'), Copied(mem', copies', {}),
         \A d \in Docs : tomb'[d] = "sealed" => mem'.row[d].stage = "destroyed",
         (op' \in WipeOp /\ op'.why = "purge") \/ mem' = disk',
         StepInv'
  PROVE  CleanInv'
<1>1. Now' = mem'
  BY DEF Now
<1>2. op' \notin CopyOp
  BY KindsOfOp
<1> QED BY <1>1, <1>2 DEF CleanInv

-----------------------------------------------------------------------------
\* The steps of an import.
LEMMA CleanInstall ==
  ASSUME IndType, CleanInv, NEW d \in Docs, NEW c \in Contents, NEW cat \in Cats,
         NEW name \in Names, InstallFile(d, c, cat, name)
  PROVE  CleanInv'
<1> DEFINE p == <<cat, Sanitize(name)>>
<1>1. p \in Paths /\ NewRow(c, p) \in Row
  BY NameAssumption DEF Paths, NewRow, Row
<1> DEFINE r == NewRow(c, p)
<1>2. r.stage = "active" /\ r.sha = c /\ r.path = p
  BY DEF NewRow
<1>3. /\ host # "none" /\ op = Idle /\ Vacant(p)
      /\ file' = [file EXCEPT ![p] = Open(c)]
      /\ op' = [step |-> "installing", doc |-> d, row |-> r]
      /\ UNCHANGED <<host, mem, disk, copies, tomb>>
  BY DEF InstallFile, Ready
<1> HIDE DEF p, r
<1>4. Quiet /\ mem \in Db /\ file \in [Paths -> File]
  BY <1>3, QuietState DEF IndType, TypeOK
<1>5. op' \in InstallOp /\ op'.row = r
  BY <1>1, <1>3 DEF InstallOp, r
<1>6. Unowned(mem, p)
  BY <1>1, <1>3, <1>4, OwnedFile DEF Unowned, Vacant, Quiet
<1>7. Tree(mem, file', {p})
  BY <1>3, <1>4, TreeWiden DEF Quiet
<1>8. file'[p] = Open(c)
  BY <1>1, <1>3, <1>4
<1>9. StepInv'
  BY <1>2, <1>3, <1>5, <1>6, <1>7, <1>8, KindsOfOp DEF StepInv, Unowned, Owns, IsKept
<1> QED BY <1>3, <1>4, <1>5, <1>9, UnderWay DEF Quiet

LEMMA CleanRegister ==
  ASSUME IndType, CleanInv, SealAndRegister
  PROVE  CleanInv'
<1>0. op \in InstallOp /\ mem \in Db /\ file \in [Paths -> File]
  BY OpKinds DEF SealAndRegister, IndType, TypeOK
<1> DEFINE d == op.doc
<1> DEFINE r == op.row
<1> DEFINE x == r.path
<1>1. d \in Docs /\ r \in Row /\ x \in Paths /\ r.sha \in Contents
  BY <1>0 DEF InstallOp, Row
<1>2. /\ file' = [file EXCEPT ![x].sealed = TRUE] /\ mem' = [mem EXCEPT !.row[d] = r]
      /\ op' = Flush /\ UNCHANGED <<host, disk, copies, tomb>>
  BY DEF SealAndRegister, SetRow
<1>3. host # "none" /\ mem.row[d].stage = "free" /\ Now = mem
  BY <1>0 DEF IndType, OpInv, Now
<1>4. /\ Tree(mem, file, {x}) /\ r.stage = "active" /\ file[x] = Open(r.sha) /\ Unowned(mem, x)
  BY <1>0 DEF CleanInv, StepInv
<1>5. /\ Unique(mem) /\ Copied(mem, copies, {})
      /\ \A e \in Docs : tomb[e] = "sealed" => mem.row[e].stage = "destroyed"
  BY <1>0, <1>3, KindsOfOp DEF CleanInv
<1> HIDE DEF x, r, d
<1>6. mem'.row[d] = r /\ (\A e \in Docs \ {d} : mem'.row[e] = mem.row[e]) /\ mem'.versions = mem.versions
  BY <1>0, <1>1, <1>2, SetRowType DEF Db
<1>7. /\ \A p \in Paths : ~Owns(mem, d, p)
      /\ \A p \in Paths : Owns(mem', d, p) => p = x
  BY <1>3, <1>6 DEF Owns, IsKept, x
<1>8. Tree(mem', file, {x})
  BY <1>1, <1>4, <1>6, <1>7, OneRowTree
<1>9. file'[x] = Sealed(r.sha) /\ \A p \in Paths \ {x} : file'[p] = file[p]
  <2>1. file[x].data = r.sha
    BY <1>1, <1>4, RealFiles
  <2> QED BY <1>0, <1>1, <1>2, <2>1, Resealed DEF Sealed
<1>10. Owns(mem', d, x)
  BY <1>4, <1>6 DEF Owns, IsKept, x
<1>11. \A e \in Docs : Owns(mem', e, x) => e = d
  BY <1>1, <1>4, <1>6 DEF Unowned, Owns, IsKept
<1>12. Tree(mem', file', {x})
  BY <1>8, <1>9, TreeWiden
<1>13. Tree(mem', file', {})
  <2>1. Tree(mem', file', {} \cup {x})
    BY <1>12
  <2>2. \A e \in Docs : Owns(mem', e, x) => file'[x] = Sealed(mem'.row[e].sha)
    BY <1>6, <1>9, <1>11
  <2> QED BY <1>1, <1>10, <2>1, <2>2, TreeNarrow
<1>14. Unique(mem')
  BY <1>1, <1>4, <1>5, <1>6, <1>7, OneRowUnique DEF Unowned
<1>15. Copied(mem', copies', {})
  <2>1. \A k \in CopyKeys : k \in mem.versions => k[2] # d
    BY <1>3, <1>5 DEF Copied, d
  <2>2. Copied(mem', copies, {})
    BY <1>1, <1>5, <1>6, <2>1, OneRowCopies
  <2> QED BY <1>2, <2>2
<1>16. \A e \in Docs : tomb'[e] = "sealed" => mem'.row[e].stage = "destroyed"
  BY <1>2, <1>3, <1>5, <1>6 DEF d
<1> QED BY <1>2, <1>3, <1>13, <1>14, <1>15, <1>16, Finished

-----------------------------------------------------------------------------
\* The steps of a renaming or a move.
LEMMA CleanUnseal ==
  ASSUME IndType, CleanInv, NEW d \in Docs, NEW to \in Paths, Unseal(d, to)
  PROVE  CleanInv'
<1> DEFINE r == mem.row[d]
<1> DEFINE x == r.path
<1>0. host # "none" /\ op = Idle /\ IsActive(mem, d) /\ mem \in Db /\ file \in [Paths -> File]
  BY DEF Unseal, Ready, IndType, TypeOK
<1>1. Quiet
  BY <1>0, QuietState
<1>2. r \in Row /\ x \in Paths /\ r.sha \in Contents /\ Owns(mem, d, x)
  BY <1>0, KeptRow DEF IsActive, IsKept, Row, Owns
<1>3. /\ to # x /\ Vacant(to) /\ file' = [file EXCEPT ![x].sealed = FALSE]
      /\ op' = [step |-> "unsealed", doc |-> d, to |-> to]
      /\ UNCHANGED <<host, mem, disk, copies, tomb>>
  BY DEF Unseal
<1> HIDE DEF x, r
<1>4. op' \in MoveOp /\ op'.doc = d /\ op'.to = to /\ op'.step = "unsealed"
  BY <1>3 DEF MoveOp
<1>5. file[x] = Sealed(r.sha)
  BY <1>0, <1>1, <1>2, OwnedFile DEF Quiet, r
<1>6. file'[x] = Open(r.sha) /\ \A p \in Paths \ {x} : file'[p] = file[p]
  <2>1. file[x].data = r.sha
    BY <1>2, <1>5, RealFiles
  <2> QED BY <1>0, <1>2, <1>3, <2>1, Resealed DEF Open
<1>7. Tree(mem, file', {x})
  BY <1>1, <1>6, TreeWiden DEF Quiet
<1>8. Unowned(mem, to)
  BY <1>0, <1>1, <1>3, OwnedFile DEF Unowned, Vacant, Quiet
<1>9. file'[to] = NoFile
  BY <1>3, <1>6 DEF Vacant
<1>10. StepInv'
  <2>1. mem'.row[op'.doc] = r /\ Unowned(mem', to)
    BY <1>3, <1>4, <1>8 DEF r
  <2> QED BY <1>3, <1>4, <1>6, <1>7, <1>9, <2>1, KindsOfOp DEF StepInv, x
<1> QED BY <1>0, <1>1, <1>3, <1>4, <1>10, UnderWay DEF Quiet

LEMMA CleanMove ==
  ASSUME IndType, CleanInv, MoveFile
  PROVE  CleanInv'
<1> DEFINE r == mem.row[op.doc]
<1> DEFINE x == r.path
<1> DEFINE to == op.to
<1>0. /\ op \in MoveOp /\ op.step = "unsealed" /\ IsActive(mem, op.doc) /\ host = "app"
      /\ mem \in Db /\ file \in [Paths -> File] /\ to \in Paths /\ op.doc \in Docs
  BY OpKinds DEF MoveFile, IndType, TypeOK, OpInv, MoveOp
<1>1. r \in Row /\ x \in Paths
  BY <1>0, KeptRow DEF IsActive, IsKept, Row
<1>2. /\ to # x /\ Unowned(mem, to) /\ Tree(mem, file, {x})
      /\ file[x] = Open(r.sha) /\ file[to] = NoFile
  BY <1>0 DEF CleanInv, StepInv
<1>3. /\ file' = [file EXCEPT ![to] = file[x], ![x] = NoFile]
      /\ op' = [op EXCEPT !.step = "moved"] /\ UNCHANGED <<host, mem, disk, copies, tomb>>
  BY DEF MoveFile
<1>4. op' \in MoveOp /\ op'.doc = op.doc /\ op'.to = to /\ op'.step = "moved"
  BY <1>0, <1>3 DEF MoveOp
<1>5. /\ Now = mem /\ Unique(mem) /\ Copied(mem, copies, {}) /\ mem = disk
      /\ \A e \in Docs : tomb[e] = "sealed" => mem.row[e].stage = "destroyed"
  BY <1>0, KindsOfOp DEF CleanInv, Now
<1>6. mem'.row[op'.doc] = r /\ Unowned(mem', to)
  BY <1>2, <1>3, <1>4
<1> HIDE DEF x, r, to
<1>7. /\ file'[x] = NoFile /\ file'[to] = Open(r.sha)
      /\ \A p \in Paths \ {x, to} : file'[p] = file[p]
  BY <1>0, <1>1, <1>2, <1>3
<1>8. Tree(mem, file', {x, to})
  BY <1>2, <1>7, TreeWiden
<1>9. StepInv'
  BY <1>2, <1>3, <1>4, <1>6, <1>7, <1>8, KindsOfOp DEF StepInv, x
<1> QED BY <1>0, <1>3, <1>4, <1>5, <1>9, UnderWay

LEMMA CleanRelocate ==
  ASSUME IndType, CleanInv, SealAndRelocate
  PROVE  CleanInv'
<1> DEFINE d == op.doc
<1> DEFINE r == mem.row[d]
<1> DEFINE x == r.path
<1> DEFINE to == op.to
<1>0. /\ op \in MoveOp /\ op.step = "moved" /\ IsActive(mem, d) /\ host = "app"
      /\ mem \in Db /\ file \in [Paths -> File] /\ to \in Paths /\ d \in Docs
  BY OpKinds DEF SealAndRelocate, IndType, TypeOK, OpInv, MoveOp
<1>1. r \in Row /\ x \in Paths /\ r.sha \in Contents
  BY <1>0, KeptRow DEF IsActive, IsKept, Row
<1>2. /\ to # x /\ Unowned(mem, to) /\ Tree(mem, file, {x, to})
      /\ file[x] = NoFile /\ file[to] = Open(r.sha)
  BY <1>0 DEF CleanInv, StepInv
<1>3. /\ file' = [file EXCEPT ![to].sealed = TRUE]
      /\ mem' = [mem EXCEPT !.row[d].path = to]
      /\ op' = Flush /\ UNCHANGED <<host, disk, copies, tomb>>
  BY DEF SealAndRelocate
<1>5. /\ Now = mem /\ Unique(mem) /\ Copied(mem, copies, {})
      /\ \A e \in Docs : tomb[e] = "sealed" => mem.row[e].stage = "destroyed"
  BY <1>0, KindsOfOp DEF CleanInv, Now
<1>6. /\ mem'.row[d].path = to /\ mem'.row[d].sha = r.sha /\ mem'.row[d].stage = r.stage
      /\ \A e \in Docs \ {d} : mem'.row[e] = mem.row[e]
      /\ mem'.versions = mem.versions
  <2> DEFINE q == [r EXCEPT !.path = to]
  <2>1. mem' = [mem EXCEPT !.row[d] = q]
    BY <1>3
  <2>2. q \in Row /\ q.path = to /\ q.sha = r.sha /\ q.stage = r.stage
    BY <1>0, <1>1 DEF Row
  <2> HIDE DEF q
  <2>3. mem'.row[d] = q
    BY <1>0, <2>1, <2>2, SetRowType
  <2>4. (\A e \in Docs \ {d} : mem'.row[e] = mem.row[e]) /\ mem'.versions = mem.versions
    BY <1>0, <2>1, <2>2, SetRowType DEF Db
  <2> QED BY <2>2, <2>3, <2>4
<1>a. r.stage = "active"
  BY <1>0 DEF IsActive
<1> HIDE DEF x, r, to, d
<1>7. /\ \A p \in Paths : Owns(mem, d, p) => p = x
      /\ \A p \in Paths : Owns(mem', d, p) <=> p = to
      /\ Owns(mem, d, x)
  BY <1>0, <1>6, <1>a DEF Owns, IsKept, x, r
<1>8. Tree(mem', file, {x, to})
  BY <1>0, <1>2, <1>6, <1>7, OneRowTree
<1>9. file'[to] = Sealed(r.sha) /\ \A p \in Paths \ {to} : file'[p] = file[p]
  <2>1. file[to].data = r.sha
    BY <1>1, <1>2, RealFiles
  <2> QED BY <1>0, <1>3, <2>1, Resealed DEF Sealed
<1>10. Tree(mem', file', {x, to})
  BY <1>8, <1>9, TreeWiden
<1>11. \A p \in Paths, e \in Docs \ {d} : Owns(mem', e, p) <=> Owns(mem, e, p)
  BY <1>6 DEF Owns, IsKept
<1>12. Tree(mem', file', {x})
  <2>1. Tree(mem', file', {x} \cup {to})
    <3>1. {x} \cup {to} = {x, to}
      OBVIOUS
    <3> QED BY <1>10, <3>1
  <2>2. \A e \in Docs : Owns(mem', e, to) => e = d
    BY <1>0, <1>2, <1>11 DEF Unowned
  <2>3. \A e \in Docs : Owns(mem', e, to) => file'[to] = Sealed(mem'.row[e].sha)
    BY <1>6, <1>9, <2>2
  <2> QED BY <1>0, <1>7, <2>1, <2>3, TreeNarrow
<1>13. Tree(mem', file', {})
  <2>1. Tree(mem', file', {} \cup {x})
    BY <1>12
  <2>2. \A e \in Docs : ~Owns(mem', e, x)
    BY <1>0, <1>1, <1>2, <1>5, <1>7, <1>11 DEF Unique
  <2>3. file'[x] = NoFile
    BY <1>1, <1>2, <1>9
  <2> QED BY <2>1, <2>2, <2>3, TreeNarrow
<1>14. Unique(mem')
  BY <1>0, <1>2, <1>5, <1>6, <1>7, OneRowUnique DEF Unowned
<1>15. Copied(mem', copies', {})
  <2>1. IsKept(mem, d) /\ mem'.row[d].stage # "free"
    BY <1>6, <1>7, <1>a DEF Owns
  <2>2. mem'.row[d].sha = mem.row[d].sha
    BY <1>6 DEF r
  <2>3. Copied(mem', copies, {})
    BY <1>0, <1>5, <1>6, <2>1, <2>2, OneRowCopies
  <2> QED BY <1>3, <2>3
<1>16. \A e \in Docs : tomb'[e] = "sealed" => mem'.row[e].stage = "destroyed"
  BY <1>0, <1>3, <1>5, <1>6, <1>a DEF r
<1> QED BY <1>0, <1>3, <1>13, <1>14, <1>15, <1>16, Finished

\* Records that change nothing the tree depends on.
LEMMA CleanSame ==
  ASSUME CleanInv, Quiet, host' # "none", op' = Flush, Same(mem, mem'),
         UNCHANGED <<file, copies, tomb>>
  PROVE  CleanInv'
<1>1. Unique(mem') /\ Tree(mem', file', {}) /\ Copied(mem', copies', {})
  BY SameKeeps DEF Quiet
<1>2. \A e \in Docs : tomb'[e] = "sealed" => mem'.row[e].stage = "destroyed"
  BY SameKeeps DEF Quiet
<1> QED BY <1>1, <1>2, Finished

LEMMA CleanTrash ==
  ASSUME IndType, CleanInv, NEW d \in Docs, SoftDelete(d) \/ Restore(d)
  PROVE  CleanInv'
<1>0. /\ host # "none" /\ op = Idle /\ mem \in Db /\ IsKept(mem, d)
      /\ op' = Flush /\ UNCHANGED <<host, file, copies, tomb>>
  BY DEF SoftDelete, Restore, Ready, IndType, TypeOK, IsKept, IsActive
<1>1. mem.row[d] \in Row
  BY <1>0, KeptRow
<1>2. /\ mem'.versions = mem.versions
      /\ \A e \in Docs \ {d} : mem'.row[e] = mem.row[e]
      /\ mem'.row[d].stage \in {"active", "trashed"}
      /\ mem'.row[d].path = mem.row[d].path /\ mem'.row[d].sha = mem.row[d].sha
  BY <1>0, <1>1 DEF SoftDelete, Restore, Row, Db
<1>3. Same(mem, mem')
  BY <1>0, <1>2 DEF Same, IsKept
<1> QED BY <1>0, <1>3, QuietState, CleanSame

LEMMA CleanSweep ==
  ASSUME IndType, CleanInv, Sweep
  PROVE  CleanInv'
<1>1. /\ host # "none" /\ op = Idle /\ mem \in Db /\ Judge(Docs)
      /\ op' = Flush /\ UNCHANGED <<host, file, copies, tomb>>
  BY DEF Sweep, Ready, IndType, TypeOK
<1>2. Same(mem, mem')
  BY <1>1, JudgeSame
<1> QED BY <1>1, <1>2, QuietState, CleanSame

LEMMA CleanNothing ==
  ASSUME IndType, CleanInv, Touch \/ \E d \in Docs : ScheduleDestruction(d)
  PROVE  CleanInv'
<1>1. /\ host # "none" /\ op = Idle
      /\ op' = Flush /\ UNCHANGED <<host, mem, file, copies, tomb>>
  BY DEF Touch, ScheduleDestruction, Ready
<1>2. Same(mem, mem')
  BY <1>1 DEF Same
<1> QED BY <1>1, <1>2, QuietState, CleanSame

-----------------------------------------------------------------------------
\* The steps of an edition that keeps a version.
LEMMA CleanCopy ==
  ASSUME IndType, CleanInv, NEW d \in Docs, CopyVersion(d)
  PROVE  CleanInv'
<1> DEFINE r == mem.row[d]
<1> DEFINE k == <<r.path[1], d, NextVersion(d)>>
<1>0. /\ host # "none" /\ op = Idle /\ IsActive(mem, d) /\ mem \in Db /\ file \in [Paths -> File]
      /\ copies \in [CopyKeys -> File] /\ NextVersion(d) \in Versions
  BY DEF CopyVersion, Ready, IndType, TypeOK
<1>1. Quiet
  BY <1>0, QuietState
<1>2. r \in Row /\ r.path \in Paths /\ r.sha \in Contents /\ Owns(mem, d, r.path)
  BY <1>0, KeptRow DEF IsActive, IsKept, Row, Owns
<1>3. k \in CopyKeys /\ k[2] = d
  BY <1>0, <1>2 DEF CopyKeys, Paths
<1>4. /\ copies[k] = NoFile
      /\ copies' = [copies EXCEPT ![k] = Open(file[r.path].data)]
      /\ op' = [step |-> "copied", doc |-> d, key |-> k]
      /\ UNCHANGED <<host, mem, disk, file, tomb>>
  BY DEF CopyVersion
<1>5. file[r.path].data = r.sha
  <2>1. file[r.path] = Sealed(r.sha)
    BY <1>0, <1>1, <1>2, OwnedFile DEF Quiet
  <2> QED BY <1>2, <2>1, RealFiles
<1> HIDE DEF k
<1>6. op' \in CopyOp /\ op'.doc = d /\ op'.key = k
  BY <1>3, <1>4 DEF CopyOp
<1>7. copies'[k] = Open(r.sha) /\ \A j \in CopyKeys \ {k} : copies'[j] = copies[j]
  BY <1>0, <1>3, <1>4, <1>5
<1>8. k \notin mem.versions
  BY <1>1, <1>3, <1>4 DEF Quiet, Copied
<1>9. Copied(mem, copies', {k})
  BY <1>1, <1>7 DEF Quiet, Copied
<1>10. Now' = mem' /\ StepInv'
  <2>1. Now' = mem'
    BY <1>0, <1>4 DEF Now
  <2> QED BY <1>1, <1>4, <1>6, <2>1, KindsOfOp DEF StepInv, Quiet
<1>11. mem' = disk' /\ Unique(Now') /\ \A e \in Docs : tomb'[e] = "sealed" => Now'.row[e].stage = "destroyed"
  BY <1>1, <1>4, <1>10 DEF Quiet
<1>12. copies'[op'.key] = Open(mem'.row[op'.doc].sha) /\ op'.key \notin mem'.versions
       /\ Copied(mem', copies', {op'.key}) /\ op'.key[2] = op'.doc
  BY <1>3, <1>4, <1>6, <1>7, <1>8, <1>9
<1> QED BY <1>0, <1>4, <1>6, <1>10, <1>11, <1>12 DEF CleanInv

LEMMA CleanVersion ==
  ASSUME IndType, CleanInv, SealVersion
  PROVE  CleanInv'
<1> DEFINE d == op.doc
<1> DEFINE k == op.key
<1> DEFINE c == mem.row[d].sha
<1>0. /\ op \in CopyOp /\ IsActive(mem, d) /\ host = "app" /\ mem \in Db
      /\ copies \in [CopyKeys -> File] /\ d \in Docs /\ k \in CopyKeys
  BY OpKinds DEF SealVersion, IndType, TypeOK, OpInv, CopyOp
<1>1. c \in Contents
  BY <1>0, KeptRow DEF IsActive, IsKept, Row
<1>2. /\ Now = mem /\ Unique(mem) /\ Tree(mem, file, {})
      /\ Copied(mem, copies, {k}) /\ k[2] = d /\ copies[k] = Open(c)
      /\ \A e \in Docs : tomb[e] = "sealed" => mem.row[e].stage = "destroyed"
  BY <1>0 DEF CleanInv, StepInv, Now
<1>3. /\ copies' = [copies EXCEPT ![k].sealed = TRUE]
      /\ mem' = [mem EXCEPT !.versions = @ \cup {k}]
      /\ op' = Flush /\ UNCHANGED <<host, disk, file, tomb>>
  BY DEF SealVersion
<1>a. mem.row[d].stage = "active"
  BY <1>0 DEF IsActive
<1> HIDE DEF d, k, c
<1>4. mem'.row = mem.row /\ mem'.versions = mem.versions \cup {k}
  BY <1>0, <1>3 DEF Db
<1>5. copies'[k] = Sealed(c) /\ \A j \in CopyKeys \ {k} : copies'[j] = copies[j]
  <2>1. copies[k].data = c
    BY <1>1, <1>2, RealFiles
  <2> DEFINE g == [copies[k] EXCEPT !.sealed = TRUE]
  <2>2. g = Sealed(c)
    <3>1. copies[k] \in File
      BY <1>0
    <3>2. [copies[k] EXCEPT !.sealed = TRUE] = [data |-> copies[k].data, sealed |-> TRUE]
      <4> DEFINE r == copies[k]
      <4>1. r \in File /\ TRUE \in BOOLEAN
        BY <3>1
      <4> HIDE DEF r
      <4>2. \A b \in BOOLEAN : [r EXCEPT !.sealed = b] = [data |-> r.data, sealed |-> b]
        BY <4>1, SealedRecord
      <4> QED BY <4>1, <4>2 DEF r
    <3> QED BY <2>1, <3>2 DEF Sealed
  <2>3. copies' = [copies EXCEPT ![k] = g]
    BY <1>3
  <2> HIDE DEF g
  <2> QED BY <1>0, <2>2, <2>3
<1>6. Copied(mem', copies', {})
  <2> SUFFICES ASSUME NEW j \in CopyKeys
               PROVE  /\ copies'[j] # NoFile <=> j \in mem'.versions
                      /\ j \in mem'.versions =>
                           /\ copies'[j].sealed
                           /\ mem'.row[j[2]].stage # "free"
                           /\ IsKept(mem', j[2]) => copies'[j].data = mem'.row[j[2]].sha
    BY DEF Copied
  <2>1. CASE j = k
    <3>1. copies'[j] # NoFile /\ copies'[j].sealed /\ copies'[j].data = c
      BY <1>1, <1>5, <2>1, RealFiles
    <3>2. j \in mem'.versions /\ mem'.row[j[2]].stage = "active" /\ mem'.row[j[2]].sha = c
      BY <1>2, <1>4, <1>a, <2>1 DEF c
    <3> QED BY <3>1, <3>2
  <2>2. CASE j # k
    BY <1>2, <1>4, <1>5, <2>2 DEF Copied, IsKept
  <2> QED BY <2>1, <2>2
<1>7. Unique(mem') /\ Tree(mem', file', {})
  BY <1>2, <1>3, <1>4, SameRows
<1> QED BY <1>0, <1>2, <1>3, <1>4, <1>6, <1>7, Finished

-----------------------------------------------------------------------------
\* The steps of a destruction and of a purge.
LEMMA CleanWipe ==
  ASSUME IndType, CleanInv, NEW d \in Docs, Destroy(d) \/ ProcessDue(d)
  PROVE  CleanInv'
<1> DEFINE x == mem.row[d].path
<1>0. /\ host # "none" /\ op = Idle /\ IsActive(mem, d) /\ mem \in Db /\ file \in [Paths -> File]
      /\ BeginDestruction(d) /\ UNCHANGED <<host, mem, disk, copies, tomb>>
  BY DEF Destroy, ProcessDue, Ready, IndType, TypeOK
<1>1. Quiet
  BY <1>0, QuietState
<1>2. x \in Paths /\ Owns(mem, d, x)
  BY <1>0, KeptRow DEF IsActive, IsKept, Row, Owns
<1>3. file[x] # NoFile
  BY <1>0, <1>1, <1>2, OwnedFile DEF Quiet
<1>4. /\ file' = [file EXCEPT ![x] = Open(Garbage)]
      /\ op' = [step |-> "wiping", doc |-> d, at |-> x, why |-> "destroy"]
  BY <1>0, <1>3 DEF BeginDestruction, Wipe
<1>5. mem'.row[d].path = x
  BY <1>0
<1> HIDE DEF x
<1>6. op' \in WipeOp /\ op'.at = x /\ op'.why = "destroy" /\ op'.doc = d
  BY <1>2, <1>4 DEF WipeOp
<1>7. Tree(mem', file', {x})
  BY <1>0, <1>1, <1>4, TreeWiden DEF Quiet
<1>8. StepInv'
  BY <1>5, <1>6, <1>7, KindsOfOp DEF StepInv
<1> QED BY <1>0, <1>1, <1>6, <1>8, UnderWay DEF Quiet

LEMMA CleanPurge ==
  ASSUME IndType, CleanInv, NEW d \in Docs, Purge(d)
  PROVE  CleanInv'
<1> DEFINE x == mem.row[d].path
<1> DEFINE r == [stage |-> "purged"]
<1>0. /\ host # "none" /\ op = Idle /\ mem.row[d].stage = "trashed" /\ mem \in Db
      /\ file \in [Paths -> File] /\ mem' = [mem EXCEPT !.row[d] = r]
      /\ Wipe(d, x, "purge", Flush) /\ UNCHANGED <<host, disk, copies, tomb>>
  BY DEF Purge, Ready, SetRow, IndType, TypeOK
<1>1. Quiet
  BY <1>0, QuietState
<1>2. x \in Paths /\ Owns(mem, d, x)
  BY <1>0, KeptRow DEF IsKept, Row, Owns
<1>3. file[x] # NoFile
  BY <1>0, <1>1, <1>2, OwnedFile DEF Quiet
<1>4. /\ file' = [file EXCEPT ![x] = Open(Garbage)]
      /\ op' = [step |-> "wiping", doc |-> d, at |-> x, why |-> "purge"]
  BY <1>0, <1>3 DEF Wipe
<1>5. r \in NoRow /\ r.stage = "purged"
  BY DEF NoRow
<1>a. \A p \in Paths : Owns(mem, d, p) => p = x
  BY DEF Owns
<1> HIDE DEF x, r
<1>6. mem'.row[d] = r /\ (\A e \in Docs \ {d} : mem'.row[e] = mem.row[e]) /\ mem'.versions = mem.versions
  BY <1>0, <1>5, SetRowType DEF Db
<1>7. \A p \in Paths : ~Owns(mem', d, p)
  BY <1>5, <1>6 DEF Owns, IsKept
<1>8. Tree(mem', file, {x})
  <2>1. Tree(mem, file, {})
    BY <1>1 DEF Quiet
  <2>2. {} \subseteq {x} /\ \A p \in Paths : Owns(mem, d, p) \/ Owns(mem', d, p) => p \in {x}
    BY <1>7, <1>a
  <2>3. \A e \in Docs \ {d} : mem'.row[e] = mem.row[e]
    BY <1>6
  <2> DEFINE m == mem'
  <2>4. \A e \in Docs \ {d} : m.row[e] = mem.row[e]
    BY <2>3
  <2>5. \A p \in Paths : Owns(mem, d, p) \/ Owns(m, d, p) => p \in {x}
    BY <2>2
  <2> HIDE DEF m
  <2> DEFINE none == {}
  <2>6. Tree(mem, file, none) /\ none \subseteq {x}
    BY <2>1
  <2> HIDE DEF none
  <2>7. \A Q : none \subseteq Q /\ (\A p \in Paths : Owns(mem, d, p) \/ Owns(m, d, p) => p \in Q)
                  => Tree(m, file, Q)
    BY <2>4, <2>6, OneRowTree
  <2>8. Tree(m, file, {x})
    BY <2>5, <2>6, <2>7
  <2> QED BY <2>8 DEF m
<1>9. Tree(mem', file', {x})
  BY <1>0, <1>4, <1>8, TreeWiden
<1>10. Unowned(mem', x)
  <2>1. \A e \in Docs \ {d} : Owns(mem', e, x) => Owns(mem, e, x)
    BY <1>6 DEF Owns, IsKept
  <2> QED BY <1>1, <1>2, <1>7, <2>1 DEF Unowned, Quiet, Unique
<1>11. op' \in WipeOp /\ op'.at = x /\ op'.why = "purge"
  BY <1>2, <1>4 DEF WipeOp
<1>12. StepInv'
  BY <1>9, <1>10, <1>11, KindsOfOp DEF StepInv, Unowned, Owns, IsKept
<1>13. Unique(mem')
  BY <1>1, <1>6, <1>7, OneRowUnique DEF Quiet
<1>14. Copied(mem', copies', {})
  <2>1. Copied(mem', copies, {})
    BY <1>1, <1>5, <1>6, OneRowCopies DEF Quiet, IsKept
  <2> QED BY <1>0, <2>1
<1>15. \A e \in Docs : tomb'[e] = "sealed" => mem'.row[e].stage = "destroyed"
  BY <1>0, <1>1, <1>6 DEF Quiet
<1> QED BY <1>0, <1>11, <1>12, <1>13, <1>14, <1>15, UnderWay

LEMMA CleanRemove ==
  ASSUME IndType, CleanInv, RemoveWiped
  PROVE  CleanInv'
<1> DEFINE x == op.at
<1>0. /\ op \in WipeOp /\ host # "none" /\ mem \in Db /\ file \in [Paths -> File]
      /\ x \in Paths /\ op.doc \in Docs /\ op.why \in {"destroy", "purge"}
  BY OpKinds, KindsOfOp DEF RemoveWiped, IndType, TypeOK, OpInv, WipeOp
<1>1. /\ Now = mem /\ Unique(mem) /\ Copied(mem, copies, {}) /\ Tree(mem, file, {x})
      /\ op.why = "destroy" => x = mem.row[op.doc].path /\ mem = disk
      /\ op.why = "purge" => Unowned(mem, x)
      /\ \A e \in Docs : tomb[e] = "sealed" => mem.row[e].stage = "destroyed"
  BY <1>0, KindsOfOp DEF CleanInv, StepInv, Now
<1>2. /\ file' = [file EXCEPT ![x] = NoFile]
      /\ op' = IF op.why = "purge" THEN Flush ELSE [step |-> "erased", doc |-> op.doc]
      /\ UNCHANGED <<host, mem, disk, copies, tomb>>
  BY DEF RemoveWiped
<1> HIDE DEF x
<1>3. file'[x] = NoFile /\ Tree(mem, file', {x})
  <2>1. \A p \in Paths \ {x} : file'[p] = file[p]
    BY <1>0, <1>2
  <2> QED BY <1>0, <1>1, <1>2, <2>1, TreeWiden
<1>4. CASE op.why = "destroy"
  <2>1. op' \in BuryOp /\ op'.doc = op.doc
    BY <1>0, <1>2, <1>4 DEF BuryOp
  <2>2. mem'.row[op'.doc].path = x
    BY <1>1, <1>2, <1>4, <2>1
  <2>3. StepInv'
    BY <1>2, <1>3, <2>1, <2>2, KindsOfOp DEF StepInv
  <2> QED BY <1>0, <1>1, <1>2, <1>4, <2>1, <2>3, UnderWay
<1>5. CASE op.why = "purge"
  <2>1. Tree(mem, file', {} \cup {x})
    BY <1>3
  <2>2. Tree(mem, file', {})
    BY <1>0, <1>1, <1>3, <1>5, <2>1, TreeNarrow DEF Unowned
  <2> QED BY <1>0, <1>1, <1>2, <1>5, <2>2, Finished
<1> QED BY <1>0, <1>4, <1>5

LEMMA CleanTombstone ==
  ASSUME IndType, CleanInv, WriteTombstone
  PROVE  CleanInv'
<1> DEFINE d == op.doc
<1>0. /\ op \in BuryOp /\ host # "none" /\ IsActive(mem, d) /\ d \in Docs
      /\ tomb \in [Docs -> {"none", "open", "sealed"}]
  BY OpKinds DEF WriteTombstone, IndType, TypeOK, OpInv, BuryOp
<1>1. /\ Now = mem /\ Unique(mem) /\ Copied(mem, copies, {}) /\ mem = disk
      /\ Tree(mem, file, {mem.row[d].path}) /\ file[mem.row[d].path] = NoFile
      /\ \A e \in Docs : tomb[e] = "sealed" => mem.row[e].stage = "destroyed"
  BY <1>0, KindsOfOp DEF CleanInv, StepInv, Now
<1>2. tomb[d] # "sealed"
  BY <1>0, <1>1 DEF IsActive
<1>3. /\ tomb' = [tomb EXCEPT ![d] = "open"] /\ op' = [op EXCEPT !.step = "buried"]
      /\ UNCHANGED <<host, mem, disk, file, copies>>
  BY <1>2 DEF WriteTombstone
<1>4. op' \in BuryOp /\ op'.doc = d
  BY <1>0, <1>3 DEF BuryOp
<1>5. \A e \in Docs : tomb'[e] = "sealed" => mem'.row[e].stage = "destroyed"
  BY <1>0, <1>1, <1>3
<1>6. StepInv'
  BY <1>1, <1>3, <1>4, KindsOfOp DEF StepInv
<1> QED BY <1>0, <1>1, <1>3, <1>4, <1>5, <1>6, UnderWay

LEMMA CleanBurial ==
  ASSUME IndType, CleanInv, SealTombstone
  PROVE  CleanInv'
<1> DEFINE d == op.doc
<1> DEFINE r == [stage |-> "destroyed"]
<1> DEFINE x == mem.row[d].path
<1>0. /\ op \in BuryOp /\ host # "none" /\ IsActive(mem, d) /\ d \in Docs /\ mem \in Db
      /\ tomb \in [Docs -> {"none", "open", "sealed"}]
  BY OpKinds DEF SealTombstone, IndType, TypeOK, OpInv, BuryOp
<1>1. /\ Now = mem /\ Unique(mem) /\ Copied(mem, copies, {})
      /\ Tree(mem, file, {x}) /\ file[x] = NoFile
      /\ \A e \in Docs : tomb[e] = "sealed" => mem.row[e].stage = "destroyed"
  BY <1>0, KindsOfOp DEF CleanInv, StepInv, Now
<1>2. /\ tomb' = [tomb EXCEPT ![d] = "sealed"] /\ mem' = [mem EXCEPT !.row[d] = r]
      /\ op' = Flush /\ UNCHANGED <<host, disk, file, copies>>
  BY DEF SealTombstone, SetRow
<1>3. x \in Paths /\ Owns(mem, d, x) /\ r \in NoRow /\ r.stage = "destroyed"
  BY <1>0, KeptRow DEF IsActive, IsKept, Row, Owns, NoRow
<1>a. \A p \in Paths : Owns(mem, d, p) => p = x
  BY DEF Owns
<1> HIDE DEF d, r, x
<1>4. mem'.row[d] = r /\ (\A e \in Docs \ {d} : mem'.row[e] = mem.row[e]) /\ mem'.versions = mem.versions
  BY <1>0, <1>2, <1>3, SetRowType DEF Db
<1>5. \A p \in Paths : ~Owns(mem', d, p)
  BY <1>3, <1>4 DEF Owns, IsKept
<1>6. Tree(mem', file, {x})
  BY <1>0, <1>1, <1>4, <1>5, <1>a, OneRowTree
<1>7. \A e \in Docs : ~Owns(mem', e, x)
  <2>1. \A e \in Docs \ {d} : Owns(mem', e, x) => Owns(mem, e, x)
    BY <1>4 DEF Owns, IsKept
  <2> QED BY <1>0, <1>1, <1>3, <1>5, <2>1 DEF Unique
<1>8. Tree(mem', file', {})
  <2>1. Tree(mem', file, {} \cup {x})
    BY <1>6
  <2>2. Tree(mem', file, {})
    BY <1>1, <1>7, <2>1, TreeNarrow
  <2> QED BY <1>2, <2>2
<1>9. Unique(mem')
  BY <1>0, <1>1, <1>4, <1>5, OneRowUnique
<1>10. Copied(mem', copies', {})
  <2>1. Copied(mem', copies, {})
    BY <1>0, <1>1, <1>3, <1>4, OneRowCopies DEF IsKept
  <2> QED BY <1>2, <2>1
<1>11. \A e \in Docs : tomb'[e] = "sealed" => mem'.row[e].stage = "destroyed"
  BY <1>0, <1>1, <1>2, <1>3, <1>4
<1> QED BY <1>0, <1>2, <1>8, <1>9, <1>10, <1>11, Finished

-----------------------------------------------------------------------------
\* A program starts, stops between operations, or has saved.
LEMMA CleanSwitch ==
  ASSUME ~Faults, IndType, CleanInv, (\E h \in Hosts : Start(h)) \/ Stop \/ FlushOk \/ UNCHANGED vars
  PROVE  CleanInv'
<1>1. ASSUME NEW h \in Hosts, Start(h) PROVE CleanInv'
  <2>1. host = "none" /\ host' = h /\ h # "none" /\ mem' = disk /\ op = Idle
        /\ UNCHANGED <<disk, file, copies, tomb, op>>
    BY <1>1, SettingAssumption DEF Start, IndType, OpInv
  <2>2. Now = disk /\ Now' = disk
    BY <2>1 DEF Now
  <2>3. op' \notin CopyOp /\ op' \notin WipeOp
    BY <2>1, KindsOfOp
  <2>4. StepInv'
    BY <2>1, <2>2, KindsOfOp DEF CleanInv, StepInv
  <2> QED BY <2>1, <2>2, <2>3, <2>4 DEF CleanInv
<1>2. ASSUME Stop PROVE CleanInv'
  <2>1. /\ host # "none" /\ op = Idle /\ host' = "none" /\ mem' = EmptyDb /\ op' = Idle
        /\ UNCHANGED <<disk, file, copies, tomb>>
    BY <1>2 DEF Stop
  <2>2. Quiet
    BY <2>1, QuietState
  <2>3. Now' = disk /\ disk = mem
    BY <2>1, <2>2 DEF Now, Quiet
  <2>4. StepInv'
    BY <2>1, <2>2, <2>3, KindsOfOp DEF Quiet, StepInv
  <2>5. op' \notin CopyOp
    BY <2>1, KindsOfOp
  <2> QED BY <2>1, <2>2, <2>3, <2>4, <2>5 DEF CleanInv, Quiet
<1>3. ASSUME FlushOk PROVE CleanInv'
  <2>1. /\ host # "none" /\ op = Flush /\ disk' = mem /\ op' = Idle
        /\ UNCHANGED <<host, mem, file, copies, tomb>>
    BY <1>3, KindsOfOp DEF FlushOk, IndType, OpInv
  <2>2. Now' = mem /\ Now = mem
    BY <2>1 DEF Now
  <2>3. op \notin CopyOp /\ op' \notin CopyOp
    BY <2>1, KindsOfOp
  <2>4. StepInv'
    BY <2>1, <2>2, KindsOfOp DEF CleanInv, StepInv
  <2> QED BY <2>1, <2>2, <2>3, <2>4 DEF CleanInv
<1>4. ASSUME UNCHANGED vars PROVE CleanInv'
  <2>1. Now' = Now
    BY <1>4 DEF Now, vars
  <2>2. StepInv'
    BY <1>4, <2>1 DEF vars, CleanInv, StepInv, Unowned, Owns, IsKept
  <2> QED BY <1>4, <2>1, <2>2 DEF vars, CleanInv
<1> QED BY <1>1, <1>2, <1>3, <1>4

LEMMA CleanStep == ~Faults /\ ~Rot /\ IndType /\ CleanInv /\ [Next]_vars => CleanInv'
<1> SUFFICES ASSUME ~Faults, ~Rot, IndType, CleanInv, [Next]_vars PROVE CleanInv'
  OBVIOUS
<1>1. ASSUME NEW d \in Docs, (\E name \in Names : Rename(d, name)) \/ \E cat \in Cats : MoveToCategory(d, cat)
      PROVE  CleanInv'
  <2>1. IsActive(mem, d)
    BY <1>1 DEF Rename, MoveToCategory, Unseal
  <2>2. mem.row[d].path \in Paths
    BY <2>1, KeptRow DEF IndType, TypeOK, IsActive, IsKept, Row
  <2>3. \A name \in Names : <<mem.row[d].path[1], name>> \in Paths
    BY <2>2 DEF Paths
  <2>4. \A cat \in Cats : <<cat, Sanitize(mem.row[d].path[2])>> \in Paths
    BY <2>2, NameAssumption DEF Paths
  <2> QED BY <1>1, <2>3, <2>4, CleanUnseal DEF Rename, MoveToCategory
<1>2. ~(FlushFails \/ StepFails \/ InstallTorn \/ SweepAborts \/ \E p \in Paths : BitRot(p))
  BY DEF FlushFails, StepFails, InstallTorn, SweepAborts, BitRot
<1>3. CASE UNCHANGED vars
  BY <1>3, CleanSwitch
<1>4. CASE (\E h \in Hosts : Start(h)) \/ Stop \/ FlushOk
  BY <1>4, CleanSwitch
<1>5. CASE \E d \in Docs, c \in Contents, cat \in Cats, name \in Names : InstallFile(d, c, cat, name)
  BY <1>5, CleanInstall
<1>6. CASE \E d \in Docs : SoftDelete(d) \/ Restore(d) \/ CopyVersion(d)
  BY <1>6, CleanTrash, CleanCopy
<1>7. CASE \E d \in Docs : Destroy(d) \/ ScheduleDestruction(d) \/ ProcessDue(d) \/ Purge(d)
  BY <1>7, CleanWipe, CleanNothing, CleanPurge
<1> QED BY <1>1, <1>2, <1>3, <1>4, <1>5, <1>6, <1>7, CleanNothing, CleanRegister, CleanMove,
           CleanRelocate, CleanVersion, CleanRemove, CleanTombstone, CleanBurial, CleanSweep
        DEF Next

LEMMA CleanInit == Init => CleanInv
<1> SUFFICES ASSUME Init PROVE CleanInv
  OBVIOUS
<1>1. /\ host = "none" /\ mem = EmptyDb /\ disk = EmptyDb /\ op = Idle
      /\ file = [p \in Paths |-> NoFile] /\ copies = [k \in CopyKeys |-> NoFile]
      /\ tomb = [d \in Docs |-> "none"]
  BY DEF Init
<1>2. Now = EmptyDb /\ EmptyDb.versions = {} /\ \A d \in Docs : ~IsKept(EmptyDb, d)
  BY <1>1 DEF Now, EmptyDb, IsKept
<1>3. op \notin CopyOp /\ op \notin InstallOp /\ op \notin MoveOp /\ op \notin WipeOp /\ op \notin BuryOp
  BY <1>1, KindsOfOp
<1>4. Tree(EmptyDb, file, {}) /\ Unique(EmptyDb)
  BY <1>1, <1>2 DEF Tree, Unique, Owns
<1>5. Copied(EmptyDb, copies, {})
  BY <1>1, <1>2 DEF Copied
<1> QED BY <1>1, <1>2, <1>3, <1>4, <1>5 DEF CleanInv, StepInv

LEMMA CleanInductive ==
  ASSUME ~Faults, ~Rot
  PROVE  Spec => [](IndType /\ CleanInv)
<1>1. Init => IndType /\ CleanInv
  BY TypeInit, CleanInit
<1>2. (IndType /\ CleanInv) /\ [Next]_vars => (IndType /\ CleanInv)'
  BY TypeStep, CleanStep
<1> QED BY <1>1, <1>2, PTL DEF Spec

LEMMA CleanMeans ==
  ASSUME IndType, CleanInv
  PROVE  PathsUnique /\ FilesMatchRecords /\ VersionsMatchCopies
<1>1. PathsUnique
  <2> SUFFICES ASSUME NEW d \in Docs, NEW e \in Docs, IsKept(mem, d), IsKept(mem, e),
                      mem.row[d].path = mem.row[e].path
               PROVE  d = e
    BY DEF PathsUnique
  <2>1. host # "none"
    BY DEF CleanInv, EmptyDb, IsKept
  <2>2. mem.row[d].path \in Paths
    BY KeptRow DEF IndType, TypeOK, Row
  <2> QED BY <2>1, <2>2 DEF CleanInv, Now, Unique, Owns
<1>2. ASSUME op = Idle
      PROVE  Now = disk /\ Tree(disk, file, {}) /\ Copied(disk, copies, {}) /\ disk \in Db
  <2>1. op # Flush /\ op \notin CopyOp /\ op \notin WipeOp
    BY <1>2, KindsOfOp
  <2>2. Now = disk
    BY <2>1 DEF CleanInv, Now
  <2> QED BY <1>2, <2>1, <2>2 DEF CleanInv, StepInv, IndType, TypeOK
<1>3. FilesMatchRecords
  <2> SUFFICES ASSUME op = Idle
               PROVE  /\ \A d \in Docs : IsKept(disk, d) =>
                           file[disk.row[d].path] = Sealed(disk.row[d].sha)
                      /\ \A p \in Paths : file[p] # NoFile =>
                           \E d \in Docs : IsKept(disk, d) /\ disk.row[d].path = p
    BY DEF FilesMatchRecords
  <2>1. \A d \in Docs : IsKept(disk, d) => disk.row[d].path \in Paths
    BY <1>2, KeptRow DEF Row
  <2> QED BY <1>2, <2>1 DEF Tree, Owns
<1>4. VersionsMatchCopies
  <2>1. disk.versions \subseteq CopyKeys
    BY DEF IndType, TypeOK, Db
  <2> QED BY <1>2, <2>1 DEF VersionsMatchCopies, Copied
<1> QED BY <1>1, <1>3, <1>4

\* Without failures and rot, no two records ever name one file: import, edit,
\* recategorization, trash and restore always find a free name, over the whole tree.
THEOREM PathsStayUnique == ASSUME ~Faults, ~Rot PROVE Spec => []PathsUnique
BY CleanInductive, CleanMeans, PTL

\* Without failures and rot, between operations the vault tree is exactly the files
\* of the records, each sealed and with the content its record hashes.
THEOREM TreeMatchesRecords == ASSUME ~Faults, ~Rot PROVE Spec => []FilesMatchRecords
BY CleanInductive, CleanMeans, PTL

\* Without failures and rot, between operations the copies kept are exactly the
\* versions recorded.
THEOREM CopiesMatchVersions == ASSUME ~Faults, ~Rot PROVE Spec => []VersionsMatchCopies
BY CleanInductive, CleanMeans, PTL
-----------------------------------------------------------------------------
\* Without failures and rot a step of the service writes over the content of one
\* document at most, and that one is in the index, where no trashed one shares its path.
LEMMA TrashStep ==
  ASSUME ~Faults, ~Rot, IndType, CleanInv, [Next]_vars, host = "service",
         NEW d \in Docs, disk.row[d].stage = "trashed",
         file[disk.row[d].path].data = disk.row[d].sha
  PROVE  file'[disk.row[d].path].data = disk.row[d].sha
<1> DEFINE p == disk.row[d].path
<1> USE KindsOfOp, OpKinds, DataAssumption
<1>0. /\ disk \in Db /\ mem \in Db /\ file \in [Paths -> File] /\ op \in OpState
      /\ disk.row[d] \in Row /\ p \in Paths /\ disk.row[d].sha \in Contents
      /\ NoFile.data = NoData /\ file[p] # NoFile
  BY KeptRow DEF IndType, TypeOK, IsKept, Row, NoFile
\* Whoever else is in the index has a path of its own.
<1>1. ASSUME mem = disk, NEW e \in Docs, IsActive(mem, e)
      PROVE  mem.row[e].path \in Paths \ {p}
  <2>1. mem.row[e] \in Row /\ IsKept(mem, e) /\ IsKept(mem, d) /\ e # d
    BY <1>0, <1>1, KeptRow DEF IsActive, IsKept
  <2> QED BY <1>0, <1>1, <2>1 DEF CleanInv, Now, Unique, Owns, Row
<1>2. op = Idle => mem = disk
  BY DEF CleanInv
<1>3. ASSUME UNCHANGED file PROVE file'[p].data = disk.row[d].sha
  BY <1>3
<1>4. ASSUME NEW e \in Docs, NEW c \in Contents, NEW cat \in Cats, NEW name \in Names,
             InstallFile(e, c, cat, name)
      PROVE  file'[p].data = disk.row[d].sha
  BY <1>0, <1>4 DEF InstallFile, Vacant
<1>5. ASSUME SealAndRegister PROVE file'[p].data = disk.row[d].sha
  <2>1. op.row.path \in Paths
    BY <1>0, <1>5 DEF SealAndRegister, InstallOp, Row
  <2> QED BY <1>0, <1>5, <2>1, SealType DEF SealAndRegister
<1>6. ASSUME NEW e \in Docs, IsActive(mem, e), BeginDestruction(e), op = Idle
      PROVE  file'[p].data = disk.row[d].sha
  BY <1>0, <1>1, <1>2, <1>6 DEF BeginDestruction, Wipe
<1>7. ASSUME RemoveWiped PROVE file'[p].data = disk.row[d].sha
  <2>1. op \in WipeOp /\ op.why = "destroy" /\ IsActive(mem, op.doc) /\ op.doc \in Docs
    BY <1>0, <1>7 DEF RemoveWiped, IndType, OpInv, WipeOp
  <2>2. mem = disk /\ op.at = mem.row[op.doc].path
    BY <2>1 DEF CleanInv, StepInv
  <2> QED BY <1>0, <1>1, <1>7, <2>1, <2>2 DEF RemoveWiped
<1>8. \A e \in Docs : Destroy(e) \/ ProcessDue(e) => file'[p].data = disk.row[d].sha
  BY <1>6 DEF Destroy, ProcessDue, Ready
<1>9. MoveFile \/ SealAndRelocate => FALSE
  BY <1>0 DEF MoveFile, SealAndRelocate, IndType, OpInv
<1>10. ASSUME NEW e \in Docs
       PROVE  /\ \A to \in Paths : ~Unseal(e, to)
              /\ ~Purge(e)
  BY DEF Unseal, Purge, Ready
<1>11. /\ \A e \in Docs, name \in Names : ~Rename(e, name)
       /\ \A e \in Docs, cat \in Cats : ~MoveToCategory(e, cat)
  BY DEF Rename, MoveToCategory, Unseal, Ready
<1> QED
  BY <1>3, <1>4, <1>5, <1>7, <1>8, <1>9, <1>10, <1>11
  DEF Next, Start, Stop, FlushOk, FlushFails, StepFails, Touch, InstallTorn, SoftDelete, Restore,
      CopyVersion, SealVersion, ScheduleDestruction, WriteTombstone, SealTombstone, Sweep,
      SweepAborts, BitRot, vars

\* What a comment promises of the trash ("El archivo físico NO se destruye",
\* vault-roles/src/lib.rs:359) holds as
\* long as no save fails, no process dies and no medium rots: the service, whatever it
\* destroys, never touches the content of a document in the trash.
THEOREM TrashIsKept == ASSUME ~Faults, ~Rot PROVE Spec => TrashKeepsFile
<1>1. IndType /\ CleanInv /\ [Next]_vars
        => [\A d \in Docs : /\ host = "service"
                            /\ disk.row[d].stage = "trashed"
                            /\ file[disk.row[d].path].data = disk.row[d].sha
                            => file'[disk.row[d].path].data = disk.row[d].sha]_file
  BY TrashStep
<1> QED BY <1>1, CleanInductive, PTL DEF Spec, TrashKeepsFile

-----------------------------------------------------------------------------
\* What brings a content into the index twice is a restoration.

\* No document is restored while another one with its content is in the index.
RestoresApart ==
  \A d \in Docs :
    Restore(d) => \A e \in Docs : IsActive(mem, e) => mem.row[e].sha # mem.row[d].sha

Once(db) ==
  \A d, e \in Docs : IsActive(db, d) /\ IsActive(db, e) /\ db.row[d].sha = db.row[e].sha => d = e

\* Memory, too, has each content once, and the one being installed not yet.
OnceInv ==
  /\ Once(mem) /\ Once(disk)
  /\ op.step = "installing"
       => \A e \in Docs : IsActive(mem, e) => mem.row[e].sha # op.row.sha

\* Where no document enters the index, none enters it twice.
LEMMA NoneEnters ==
  ASSUME OnceInv, disk' \in {disk, mem}, op'.step # "installing",
         \A d \in Docs : IsActive(mem, d)' => IsActive(mem, d) /\ mem'.row[d].sha = mem.row[d].sha
  PROVE  OnceInv'
BY DEF OnceInv, Once, IsActive

\* One document enters the index, and nobody there has its content.
LEMMA OneEnters ==
  ASSUME OnceInv, disk' = disk, op'.step # "installing", NEW d \in Docs,
         \A e \in Docs : IsActive(mem, e) => mem.row[e].sha # mem'.row[d].sha,
         \A e \in Docs \ {d} : mem'.row[e] = mem.row[e]
  PROVE  OnceInv'
BY DEF OnceInv, Once, IsActive

\* Every step but a restoration beside a twin keeps OnceInv.
LEMMA OnceStep == IndType /\ OnceInv /\ [Next]_vars /\ [RestoresApart]_vars => OnceInv'
<1> SUFFICES ASSUME IndType, OnceInv, [Next]_vars, [RestoresApart]_vars PROVE OnceInv'
  OBVIOUS
<1> USE KindsOfOp, OpKinds
<1> USE DEF IndType, TypeOK
<1>1. ASSUME NEW h \in Hosts, Start(h) PROVE OnceInv'
  BY <1>1 DEF Start, OpInv, OnceInv, Once, IsActive
<1>2. ASSUME Stop PROVE OnceInv'
  BY <1>2 DEF Stop, EmptyDb, OnceInv, Once, IsActive
<1>3. ASSUME UNCHANGED mem, disk' \in {disk, mem}, op'.step # "installing" PROVE OnceInv'
  BY <1>3, NoneEnters DEF IsActive
<1>4. ASSUME FlushOk \/ FlushFails \/ StepFails \/ Touch \/ InstallTorn \/ MoveFile
             \/ RemoveWiped \/ WriteTombstone
      PROVE  OnceInv'
  <2>1. mem' = mem /\ disk' \in {disk, mem}
    BY <1>4 DEF FlushOk, FlushFails, StepFails, Touch, InstallTorn, MoveFile, RemoveWiped, WriteTombstone
  <2>2. op'.step # "installing"
    BY <1>4 DEF FlushOk, FlushFails, StepFails, Touch, InstallTorn, MoveFile, MoveOp, RemoveWiped,
                WriteTombstone, BuryOp
  <2> QED BY <1>3, <2>1, <2>2
<1>5. ASSUME NEW d \in Docs, NEW c \in Contents, NEW cat \in Cats, NEW name \in Names,
             InstallFile(d, c, cat, name)
      PROVE  OnceInv'
  <2>1. UNCHANGED <<mem, disk>> /\ op'.row.sha = c
        /\ \A e \in Docs : IsActive(mem, e) => mem.row[e].sha # c
    BY <1>5 DEF InstallFile, NewRow
  <2> QED BY <2>1 DEF OnceInv, Once, IsActive
<1>6. ASSUME SealAndRegister PROVE OnceInv'
  <2>1. op.doc \in Docs /\ op.row \in Row /\ op.step = "installing"
    BY <1>6 DEF SealAndRegister, InstallOp
  <2>2. mem'.row[op.doc] = op.row /\ \A e \in Docs \ {op.doc} : mem'.row[e] = mem.row[e]
    BY <1>6, <2>1, SetRowType DEF SealAndRegister, SetRow
  <2>3. disk' = disk /\ op' = Flush
    BY <1>6 DEF SealAndRegister
  <2> QED BY <2>1, <2>2, <2>3, OneEnters DEF OnceInv
<1>7. ASSUME NEW d \in Docs, Restore(d) PROVE OnceInv'
  <2>1. mem.row[d] \in Row
    BY <1>7, KeptRow DEF Restore, IsKept
  <2>2. mem'.row[d].sha = mem.row[d].sha /\ \A e \in Docs \ {d} : mem'.row[e] = mem.row[e]
    BY <1>7, <2>1 DEF Restore, Row, Db
  <2>3. disk' = disk /\ op' = Flush /\ op = Idle
    BY <1>7 DEF Restore, Ready
  <2>4. \A e \in Docs : IsActive(mem, e) => mem.row[e].sha # mem.row[d].sha
    BY <1>7, <2>3 DEF RestoresApart, vars
  <2> QED BY <2>2, <2>3, <2>4, OneEnters
<1>8. ASSUME NEW d \in Docs, SoftDelete(d) PROVE OnceInv'
  <2>1. mem.row[d] \in Row
    BY <1>8, KeptRow DEF SoftDelete, IsActive, IsKept
  <2>2. ~IsActive(mem, d)' /\ \A e \in Docs \ {d} : mem'.row[e] = mem.row[e]
    BY <1>8, <2>1 DEF SoftDelete, Row, Db, IsActive
  <2>3. disk' = disk /\ op' = Flush
    BY <1>8 DEF SoftDelete
  <2> QED BY <2>2, <2>3, NoneEnters DEF IsActive
<1>9. ASSUME NEW d \in Docs, NEW r \in NoRow, SetRow(d, r), disk' = disk, op'.step # "installing"
      PROVE  OnceInv'
  <2>1. mem'.row[d] = r /\ \A e \in Docs \ {d} : mem'.row[e] = mem.row[e]
    BY <1>9, SetRowType DEF SetRow
  <2>2. ~IsActive(mem, d)'
    BY <2>1 DEF NoRow, IsActive
  <2> QED BY <1>9, <2>1, <2>2, NoneEnters DEF IsActive
<1>10. ASSUME NEW d \in Docs, Purge(d) PROVE OnceInv'
  <2>1. [stage |-> "purged"] \in NoRow
    BY DEF NoRow
  <2>2. op'.step # "installing"
    BY <1>10 DEF Purge, Wipe
  <2> QED BY <1>9, <1>10, <2>1, <2>2 DEF Purge
<1>11. ASSUME SealTombstone PROVE OnceInv'
  <2>1. op.doc \in Docs /\ [stage |-> "destroyed"] \in NoRow
    BY <1>11 DEF SealTombstone, BuryOp, NoRow
  <2> QED BY <1>9, <1>11, <2>1 DEF SealTombstone
<1>12. ASSUME SealAndRelocate PROVE OnceInv'
  <2>1. /\ mem'.row[op.doc] = [mem.row[op.doc] EXCEPT !.path = op.to]
        /\ \A e \in Docs \ {op.doc} : mem'.row[e] = mem.row[e]
        /\ mem.row[op.doc] \in Row
    <3>1. op.doc \in Docs /\ mem.row[op.doc] \in Row
      BY <1>12, KeptRow DEF SealAndRelocate, MoveOp, OpInv, IsActive, IsKept
    <3> QED BY <1>12, <3>1 DEF SealAndRelocate, Db
  <2>2. mem'.row[op.doc].stage = mem.row[op.doc].stage /\ mem'.row[op.doc].sha = mem.row[op.doc].sha
    BY <2>1 DEF Row
  <2>3. disk' = disk /\ op' = Flush
    BY <1>12 DEF SealAndRelocate
  <2> QED BY <2>1, <2>2, <2>3, NoneEnters DEF IsActive
<1>13. ASSUME SealVersion PROVE OnceInv'
  <2>1. mem'.row = mem.row /\ disk' = disk /\ op' = Flush
    BY <1>13 DEF SealVersion, Db
  <2> QED BY <2>1, NoneEnters DEF IsActive
<1>14. ASSUME Sweep \/ SweepAborts PROVE OnceInv'
  <2>1. PICK S \in SUBSET Docs : Judge(S)
    BY <1>14 DEF Sweep, SweepAborts
  <2>2. disk' = disk /\ op'.step # "installing"
    BY <1>14 DEF Sweep, SweepAborts, Ready
  <2> QED BY <2>1, <2>2, JudgeKeeps, NoneEnters DEF IsActive, IsKept
<1>15. ASSUME NEW d \in Docs,
              CopyVersion(d) \/ Destroy(d) \/ ScheduleDestruction(d) \/ ProcessDue(d)
       PROVE  OnceInv'
  <2>1. UNCHANGED <<mem, disk>>
    BY <1>15 DEF CopyVersion, Destroy, ScheduleDestruction, ProcessDue
  <2>2. op'.step # "installing"
    BY <1>15 DEF CopyVersion, Destroy, ScheduleDestruction, ProcessDue, BeginDestruction, Wipe
  <2> QED BY <1>3, <2>1, <2>2
<1>16. ASSUME UNCHANGED <<mem, disk, op>> PROVE OnceInv'
  BY <1>16 DEF OnceInv, Once, IsActive
<1>17. ASSUME NEW d \in Docs PROVE /\ \A name \in Names : Rename(d, name) => OnceInv'
                                  /\ \A cat \in Cats : MoveToCategory(d, cat) => OnceInv'
  <2>1. \A to : Unseal(d, to) => UNCHANGED <<mem, disk>> /\ op'.step # "installing"
    BY DEF Unseal
  <2> QED BY <1>3, <2>1 DEF Rename, MoveToCategory
<1> QED
  BY <1>1, <1>2, <1>4, <1>5, <1>6, <1>7, <1>8, <1>10, <1>11, <1>12, <1>13, <1>14, <1>15, <1>16, <1>17
  DEF Next, BitRot, vars

\* "el mismo archivo nunca entra dos veces" (vault-admin/src/lib.rs:115), which the run
\* custody_dedup refutes, is true of every way into the index but one: whatever dies,
\* fails or is not saved, a content is there twice only after a document was restored
\* beside another one with its content.
THEOREM OnlyRestoringRepeats == Spec /\ [][RestoresApart]_vars => []SameContentOnce
<1>1. Init => OnceInv
  BY DEF Init, EmptyDb, OnceInv, Once, IsActive, Idle
<1>2. OnceInv => SameContentOnce
  BY DEF OnceInv, Once, SameContentOnce
<1> QED BY <1>1, <1>2, TypeAlways, OnceStep, PTL DEF Spec
=============================================================================
