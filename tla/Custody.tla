------------------------------- MODULE Custody -------------------------------
(***************************************************************************)
(* The documents of the vault: their records in the database and their     *)
(* files in the vault tree, written one after the other by the operations  *)
(* of vault-roles, vault-admin, vault-audit and the vault-it console.      *)
(*                                                                         *)
(* At most one process can write (VaultStore), so one host runs at a time, *)
(* and inside it the operations exclude each other (&mut self in the       *)
(* application, the AdminService mutex in the service).  An operation      *)
(* takes several physical steps; the host can die, and with Faults a step  *)
(* can fail, between any two of them.                                      *)
(*                                                                         *)
(* A document's file is named by its category and its name.  The author    *)
(* folder, which no operation changes, is left out; so is meta.file_name,  *)
(* which always sanitizes to the same name as the last part of the path.   *)
(***************************************************************************)
EXTENDS Naturals, FiniteSets

CONSTANTS
  Docs,         \* vault_ids
  Contents,     \* contents, identified with their SHA-256
  Cats,         \* Category
  Names,        \* file names
  Sanitize(_),  \* vault_fs::sanitize_component
  NoData,       \* there is no file
  Garbage,      \* content of a torn, overwritten or rotten file
  Hosts,        \* programs that may hold the write lock
  Grace,        \* Settings::destruction_grace_secs > 0
  Faults,       \* processes die and steps fail
  Rot,          \* contents on disk may silently change
  MaxVersions   \* bound on the versions of a document

ASSUME NameAssumption ==
  \A n \in Names : Sanitize(n) \in Names /\ Sanitize(Sanitize(n)) = Sanitize(n)
ASSUME DataAssumption ==
  NoData # Garbage /\ NoData \notin Contents /\ Garbage \notin Contents
ASSUME SettingAssumption ==
  /\ Hosts \subseteq {"service", "app", "it"}
  /\ Grace \in BOOLEAN /\ Faults \in BOOLEAN /\ Rot \in BOOLEAN
  /\ MaxVersions \in Nat

VARIABLES
  host,         \* the program that holds the write lock, or "none"
  mem,          \* its DbState
  disk,         \* the saved DbState
  file,         \* the vault tree
  copies,       \* the immutable copies under .versiones
  tomb,         \* .tombstones/tombstone-<vault_id>.txt
  pending,      \* AdminService::pending_destructions
  op            \* the operation in progress and the step it has reached

vars == <<host, mem, disk, file, copies, tomb, pending, op>>

Paths == Cats \X Names
Versions == 1..MaxVersions
CopyKeys == Cats \X Docs \X Versions

File == [data : Contents \cup {NoData, Garbage}, sealed : BOOLEAN]
NoFile == [data |-> NoData, sealed |-> FALSE]
Sealed(c) == [data |-> c, sealed |-> TRUE]
Open(c)   == [data |-> c, sealed |-> FALSE]

\* A Document in the index or in the trash.  "destroyed" and "purged" have no
\* row: they remember that the vault_id, a UUID, is spent.
Row == [stage : {"active", "trashed"}, sha : Contents, path : Paths,
        integrity : {"ok", "tampered"}]
NoRow == [stage : {"free", "destroyed", "purged"}]

\* DbState::{documents, trashed} and DbState::versions.
Db == [row : [Docs -> Row \cup NoRow], versions : SUBSET CopyKeys]

EmptyDb == [row |-> [d \in Docs |-> [stage |-> "free"]], versions |-> {}]

IsKept(db, d)   == db.row[d].stage \in {"active", "trashed"}
IsActive(db, d) == db.row[d].stage = "active"

\* Collision: the target of an installation or a move is looked up in the
\* file system.  Mutant: it is looked up in the index.
VacantInIndex(p) == \A d \in Docs : IsActive(mem, d) => mem.row[d].path # p
Vacant(p) == file[p] = NoFile

\* The record seal_document builds.  Mutant: its verdict stays pending.
NewRowPending(c, p) ==
  [stage |-> "active", sha |-> c, path |-> p, integrity |-> "pending"]
NewRow(c, p) ==
  [stage |-> "active", sha |-> c, path |-> p, integrity |-> "ok"]

Idle  == [step |-> "idle"]
Flush == [step |-> "flush"]

OpState ==
  {Idle, Flush}
    \cup [step : {"installing"}, doc : Docs, row : Row]
    \cup [step : {"unsealed", "moved"}, doc : Docs, to : Paths]
    \cup [step : {"copied"}, doc : Docs, key : CopyKeys]
    \cup [step : {"wiping"}, doc : Docs, at : Paths, why : {"destroy", "purge"}]
    \cup [step : {"erased", "buried"}, doc : Docs]

-----------------------------------------------------------------------------
Init ==
  /\ host = "none"
  /\ mem = EmptyDb
  /\ disk = EmptyDb
  /\ file = [p \in Paths |-> NoFile]
  /\ copies = [k \in CopyKeys |-> NoFile]
  /\ tomb = [d \in Docs |-> "none"]
  /\ pending = {}
  /\ op = Idle

\* A program opens the vault as its writer.
Start(h) ==
  /\ host = "none"
  /\ host' = h
  /\ mem' = disk
  /\ UNCHANGED <<disk, file, copies, tomb, pending, op>>

\* It ends, or dies in the middle of an operation: its memory is lost.
Stop ==
  /\ host # "none"
  /\ op = Idle \/ Faults
  /\ host' = "none"
  /\ mem' = EmptyDb
  /\ pending' = {}
  /\ op' = Idle
  /\ UNCHANGED <<disk, file, copies, tomb>>

Ready(hs) == host \in hs /\ op = Idle

SetRow(d, r) == mem' = [mem EXCEPT !.row[d] = r]

\* VaultDb::flush, the last step of every operation.
FlushOk ==
  /\ op = Flush
  /\ disk' = mem
  /\ op' = Idle
  /\ UNCHANGED <<host, mem, file, copies, tomb, pending>>

\* flush fails: the operation reports the error, memory stays ahead.
FlushFails ==
  /\ Faults
  /\ op = Flush
  /\ op' = Idle
  /\ UNCHANGED <<host, mem, disk, file, copies, tomb, pending>>

\* A physical step fails: the operation returns with what it has done so far.
StepFails ==
  /\ Faults
  /\ op \notin {Idle, Flush}
  /\ op' = Idle
  /\ UNCHANGED <<host, mem, disk, file, copies, tomb, pending>>

\* An operation that changes no document (view, login, edit_meta without a
\* version, a change of settings): it saves whatever is in memory.
Touch ==
  /\ Ready({"service", "app"})
  /\ op' = Flush
  /\ UNCHANGED <<host, mem, disk, file, copies, tomb, pending>>

-----------------------------------------------------------------------------
\* seal_document: admission of a delivery (service) or import (application).
InstallFile(d, c, cat, name) ==
  LET p == <<cat, Sanitize(name)>> IN
  /\ Ready({"service", "app"})
  /\ mem.row[d].stage = "free" /\ disk.row[d].stage = "free"
  /\ \A e \in Docs : IsActive(mem, e) => mem.row[e].sha # c  \* find_by_sha256
  /\ Vacant(p)
  /\ file' = [file EXCEPT ![p] = Open(c)]
  /\ op' = [step |-> "installing", doc |-> d, row |-> NewRow(c, p)]
  /\ UNCHANGED <<host, mem, disk, copies, tomb, pending>>

\* install_sealed writes in place: a failed or interrupted write is torn.
InstallTorn ==
  /\ Faults
  /\ op.step = "installing" /\ host = "app"
  /\ file' = [file EXCEPT ![op.row.path] = Open(Garbage)]
  /\ op' = Idle
  /\ UNCHANGED <<host, mem, disk, copies, tomb, pending>>

SealAndRegister ==
  /\ op.step = "installing"
  /\ file' = [file EXCEPT ![op.row.path].sealed = TRUE]
  /\ SetRow(op.doc, op.row)
  /\ op' = Flush
  /\ UNCHANGED <<host, disk, copies, tomb, pending>>

-----------------------------------------------------------------------------
\* rename and move_to_category: unseal, move, seal again, record.
Unseal(d, to) ==
  /\ Ready({"app"})
  /\ IsActive(mem, d)
  /\ to # mem.row[d].path
  /\ Vacant(to)
  /\ file[mem.row[d].path] # NoFile  \* else unseal_file fails
  /\ file' = [file EXCEPT ![mem.row[d].path].sealed = FALSE]
  /\ op' = [step |-> "unsealed", doc |-> d, to |-> to]
  /\ UNCHANGED <<host, mem, disk, copies, tomb, pending>>

Rename(d, name) == Unseal(d, <<mem.row[d].path[1], name>>)

MoveToCategory(d, cat) ==
  /\ IsActive(mem, d)
  /\ cat # mem.row[d].path[1]
  /\ Unseal(d, <<cat, Sanitize(mem.row[d].path[2])>>)

MoveFile ==
  /\ op.step = "unsealed"
  /\ LET from == mem.row[op.doc].path IN
       file' = [file EXCEPT ![op.to] = file[from], ![from] = NoFile]
  /\ op' = [op EXCEPT !.step = "moved"]
  /\ UNCHANGED <<host, mem, disk, copies, tomb, pending>>

SealAndRelocate ==
  /\ op.step = "moved"
  /\ file' = [file EXCEPT ![op.to].sealed = TRUE]
  /\ mem' = [mem EXCEPT !.row[op.doc].path = op.to]
  /\ op' = Flush
  /\ UNCHANGED <<host, disk, copies, tomb, pending>>

-----------------------------------------------------------------------------
\* soft_delete and restore touch the record only.
SoftDelete(d) ==
  /\ Ready({"app"})
  /\ IsActive(mem, d)
  /\ mem' = [mem EXCEPT !.row[d].stage = "trashed"]
  /\ op' = Flush
  /\ UNCHANGED <<host, disk, file, copies, tomb, pending>>

Restore(d) ==
  /\ Ready({"app"})
  /\ mem.row[d].stage = "trashed"
  /\ mem' = [mem EXCEPT !.row[d].stage = "active"]
  /\ op' = Flush
  /\ UNCHANGED <<host, disk, file, copies, tomb, pending>>

-----------------------------------------------------------------------------
VersionsOf(db, d) == {k[3] : k \in {v \in db.versions : v[2] = d}}

NextVersion(d) ==
  IF VersionsOf(mem, d) = {} THEN 1
  ELSE 1 + CHOOSE n \in VersionsOf(mem, d) : \A m \in VersionsOf(mem, d) : m <= n

\* edit_meta by Coordinación: first an immutable copy of the current file.
\* A copy that a dead operation left behind cannot be written over.
CopyVersion(d) ==
  /\ Ready({"app"})
  /\ IsActive(mem, d)
  /\ NextVersion(d) \in Versions
  /\ LET k == <<mem.row[d].path[1], d, NextVersion(d)>> IN
       /\ copies[k] = NoFile
       /\ file[mem.row[d].path] # NoFile
       /\ copies' = [copies EXCEPT ![k] = Open(file[mem.row[d].path].data)]
       /\ op' = [step |-> "copied", doc |-> d, key |-> k]
  /\ UNCHANGED <<host, mem, disk, file, tomb, pending>>

\* Mutant: the copy is recorded before it is sealed.
SealVersionLater ==
  /\ op.step = "copied"
  /\ mem' = [mem EXCEPT !.versions = @ \cup {op.key}]
  /\ op' = Flush
  /\ UNCHANGED <<host, disk, file, copies, tomb, pending>>

SealVersion ==
  /\ op.step = "copied"
  /\ copies' = [copies EXCEPT ![op.key].sealed = TRUE]
  /\ mem' = [mem EXCEPT !.versions = @ \cup {op.key}]
  /\ op' = Flush
  /\ UNCHANGED <<host, disk, file, tomb, pending>>

-----------------------------------------------------------------------------
\* unseal_file and the overwriting passes of secure_wipe, if there is a file.
Wipe(d, p, why, otherwise) ==
  IF file[p] = NoFile
  THEN op' = otherwise /\ UNCHANGED file
  ELSE /\ file' = [file EXCEPT ![p] = Open(Garbage)]
       /\ op' = [step |-> "wiping", doc |-> d, at |-> p, why |-> why]

\* execute_destruction, up to the overwriting.
BeginDestruction(d) ==
  Wipe(d, mem.row[d].path, "destroy", [step |-> "erased", doc |-> d])

\* destroy, with both PINs verified.
Destroy(d) ==
  /\ Ready({"service"})
  /\ ~Grace
  /\ IsActive(mem, d)
  /\ BeginDestruction(d)
  /\ UNCHANGED <<host, mem, disk, copies, tomb, pending>>

ScheduleDestruction(d) ==
  /\ Ready({"service"})
  /\ Grace
  /\ IsActive(mem, d)
  /\ pending' = pending \cup {d}
  /\ op' = Flush
  /\ UNCHANGED <<host, mem, disk, file, copies, tomb>>

\* Mutants: the document stays in the queue; it leaves it and nothing else.
ProcessDueKeeps(d) ==
  /\ Ready({"service"})
  /\ d \in pending /\ IsActive(mem, d)
  /\ BeginDestruction(d)
  /\ UNCHANGED <<host, mem, disk, copies, tomb, pending>>

ProcessDueForgets(d) ==
  /\ Ready({"service"})
  /\ d \in pending /\ IsActive(mem, d)
  /\ pending' = pending \ {d}
  /\ UNCHANGED <<host, mem, disk, file, copies, tomb, op>>

\* process_due_destructions, for one document whose grace has expired.  It
\* leaves the queue before it is destroyed.
ProcessDue(d) ==
  /\ Ready({"service"})
  /\ d \in pending
  /\ IsActive(mem, d)
  /\ pending' = pending \ {d}
  /\ BeginDestruction(d)
  /\ UNCHANGED <<host, mem, disk, copies, tomb>>

\* purge of the vault-it console, a process of its own for each command.
Purge(d) ==
  /\ Ready({"it"})
  /\ mem = disk
  /\ mem.row[d].stage = "trashed"
  /\ SetRow(d, [stage |-> "purged"])
  /\ Wipe(d, mem.row[d].path, "purge", Flush)
  /\ UNCHANGED <<host, disk, copies, tomb, pending>>

\* Mutant: secure_wipe only overwrites.
OverwriteOnly ==
  /\ op.step = "wiping"
  /\ op' = IF op.why = "purge" THEN Flush ELSE [step |-> "erased", doc |-> op.doc]
  /\ UNCHANGED <<host, mem, disk, file, copies, tomb, pending>>

\* secure_wipe removes what it has overwritten.
RemoveWiped ==
  /\ op.step = "wiping"
  /\ file' = [file EXCEPT ![op.at] = NoFile]
  /\ op' = IF op.why = "purge" THEN Flush ELSE [step |-> "erased", doc |-> op.doc]
  /\ UNCHANGED <<host, mem, disk, copies, tomb, pending>>

\* The tombstone cannot be written over a sealed one: the operation fails.
WriteTombstone ==
  /\ op.step = "erased"
  /\ IF tomb[op.doc] = "sealed"
     THEN op' = Idle /\ UNCHANGED tomb
     ELSE /\ tomb' = [tomb EXCEPT ![op.doc] = "open"]
          /\ op' = [op EXCEPT !.step = "buried"]
  /\ UNCHANGED <<host, mem, disk, file, copies, pending>>

\* Mutant: the document leaves the index with its tombstone still open.
SealTombstoneLater ==
  /\ op.step = "buried"
  /\ SetRow(op.doc, [stage |-> "destroyed"])
  /\ op' = Flush
  /\ UNCHANGED <<host, disk, file, copies, tomb, pending>>

SealTombstone ==
  /\ op.step = "buried"
  /\ tomb' = [tomb EXCEPT ![op.doc] = "sealed"]
  /\ SetRow(op.doc, [stage |-> "destroyed"])
  /\ op' = Flush
  /\ UNCHANGED <<host, disk, file, copies, pending>>

-----------------------------------------------------------------------------
Rotten(r) == file[r.path].data # r.sha

\* Mutant: only a missing file is noticed.
VerdictIfMissing(r) ==
  [r EXCEPT !.integrity = IF file[r.path] = NoFile THEN "tampered" ELSE @]

\* vault_audit::sweep: every active document gets the verdict of its file.
Verdict(r) == [r EXCEPT !.integrity = IF Rotten(r) THEN "tampered" ELSE "ok"]

Judge(S) ==
  mem' = [mem EXCEPT !.row = [d \in Docs |->
            IF d \in S /\ IsActive(mem, d) THEN Verdict(mem.row[d]) ELSE mem.row[d]]]

Sweep ==
  /\ Ready({"service"})
  /\ Judge(Docs)
  /\ op' = Flush
  /\ UNCHANGED <<host, disk, file, copies, tomb, pending>>

\* A file cannot be read: the sweep returns there, the verdicts it has given
\* stay in memory and nothing is saved.
SweepAborts ==
  /\ Faults
  /\ Ready({"service"})
  /\ \E S \in SUBSET Docs : Judge(S)
  /\ UNCHANGED <<host, disk, file, copies, tomb, pending, op>>

\* The storage medium loses a content.
BitRot(p) ==
  /\ Rot
  /\ file[p].data \in Contents
  /\ file' = [file EXCEPT ![p].data = Garbage]
  /\ UNCHANGED <<host, mem, disk, copies, tomb, pending, op>>

-----------------------------------------------------------------------------
Next ==
  \/ \E h \in Hosts : Start(h)
  \/ Stop
  \/ FlushOk \/ FlushFails \/ StepFails \/ Touch
  \/ \E d \in Docs, c \in Contents, cat \in Cats, name \in Names :
       InstallFile(d, c, cat, name)
  \/ InstallTorn \/ SealAndRegister
  \/ \E d \in Docs, name \in Names : Rename(d, name)
  \/ \E d \in Docs, cat \in Cats : MoveToCategory(d, cat)
  \/ MoveFile \/ SealAndRelocate
  \/ \E d \in Docs : SoftDelete(d) \/ Restore(d) \/ CopyVersion(d)
  \/ SealVersion
  \/ \E d \in Docs :
       Destroy(d) \/ ScheduleDestruction(d) \/ ProcessDue(d) \/ Purge(d)
  \/ RemoveWiped \/ WriteTombstone \/ SealTombstone
  \/ Sweep \/ SweepAborts
  \/ \E p \in Paths : BitRot(p)

Spec == Init /\ [][Next]_vars

\* The service runs whenever it can: its mutex lets a waiting sweep and the
\* due destructions in from time to time (the minute loop of async_run), and
\* an operation that has begun goes on to its end.
Fairness ==
  /\ WF_vars(Start("service"))
  /\ WF_vars(SealAndRegister) /\ WF_vars(RemoveWiped)
  /\ WF_vars(WriteTombstone) /\ WF_vars(SealTombstone)
  /\ WF_vars(FlushOk)
  /\ SF_vars(Sweep)
  /\ \A d \in Docs : SF_vars(ProcessDue(d))

FairSpec == Spec /\ Fairness

-----------------------------------------------------------------------------
TypeOK ==
  /\ host \in Hosts \cup {"none"}
  /\ mem \in Db /\ disk \in Db
  /\ file \in [Paths -> File]
  /\ copies \in [CopyKeys -> File]
  /\ tomb \in [Docs -> {"none", "open", "sealed"}]
  /\ pending \subseteq Docs
  /\ op \in OpState

\* Two records, in the index or in the trash, never name the same file.
PathsUnique ==
  \A d, e \in Docs :
    IsKept(mem, d) /\ IsKept(mem, e) /\ mem.row[d].path = mem.row[e].path => d = e

\* Between operations every record, trashed ones included, has its sealed
\* file with its own content, and the vault tree holds nothing else.
FilesMatchRecords ==
  op = Idle =>
    /\ \A d \in Docs :
         IsKept(disk, d) => file[disk.row[d].path] = Sealed(disk.row[d].sha)
    /\ \A p \in Paths :
         file[p] # NoFile => \E d \in Docs : IsKept(disk, d) /\ disk.row[d].path = p

\* Between operations the recorded versions are exactly the copies on disk,
\* each sealed and with the content of its document, wherever the document
\* has been moved since.
VersionsMatchCopies ==
  op = Idle =>
    /\ \A k \in CopyKeys : copies[k] # NoFile <=> k \in disk.versions
    /\ \A k \in disk.versions :
         /\ copies[k].sealed
         /\ IsKept(disk, k[2]) => copies[k].data = disk.row[k[2]].sha

\* Whatever dies or fails, the saved database forgets a document as destroyed
\* only when its tombstone is written and sealed.
TombstoneFirst ==
  \A d \in Docs : disk.row[d].stage = "destroyed" => tomb[d] = "sealed"

\* No save records a version without its sealed copy: not even one that commits,
\* with the next operation, what an edit left in memory when it failed.
VersionsHaveCopies ==
  \A k \in disk.versions : copies[k].sealed /\ copies[k].data # NoData

\* A document that waits for its destruction is still in the index.
ScheduledStillActive == \A d \in pending : IsActive(mem, d)

\* Whatever dies or fails, a content that the vault holds is lost only by the
\* overwriting of a destruction or a purge; an unfinished import loses its own.
Held(c) == \E p \in Paths : file[p].data = c

OnlyWipesLoseContent ==
  [][\A c \in Contents :
       Held(c) /\ ~Held(c)' => op'.step = "wiping" \/ op.step = "installing"]_file

Ledger ==
  [d \in Docs |->
     [stage |-> disk.row[d].stage,
      sha   |-> IF IsKept(disk, d) THEN disk.row[d].sha ELSE NoData]]

Lifecycle == INSTANCE DocumentLifecycle WITH ledger <- Ledger

\* Every save moves the records along their life cycle.
ImplementsLifecycle == Lifecycle!Spec

\* A document whose content rots does not stay marked as sound.
RotIsReported ==
  \A d \in Docs :
    (IsActive(disk, d) /\ Rotten(disk.row[d]))
      ~> (IsActive(disk, d) => disk.row[d].integrity = "tampered")

\* A scheduled destruction is carried out, unless the service ends first.
ScheduledIsExecuted ==
  \A d \in Docs :
    d \in pending ~> (disk.row[d].stage = "destroyed" \/ host = "none")

\* "el mismo archivo nunca entra dos veces" (vault-admin/src/lib.rs:115).
SameContentOnce ==
  \A d, e \in Docs :
    IsActive(disk, d) /\ IsActive(disk, e) /\ disk.row[d].sha = disk.row[e].sha
      => d = e

\* "El archivo físico NO se destruye" (vault-roles/src/lib.rs:359): whatever
\* the service does, the file of a document in the trash keeps its content.
TrashKeepsFile ==
  [][\A d \in Docs :
       /\ host = "service"
       /\ disk.row[d].stage = "trashed"
       /\ file[disk.row[d].path].data = disk.row[d].sha
       => file'[disk.row[d].path].data = disk.row[d].sha]_file

=============================================================================
