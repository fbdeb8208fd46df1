----------------------------- MODULE VaultStore -----------------------------
(***************************************************************************)
(* crates/vault-store/src/lib.rs: the encrypted database file, the lock    *)
(* file beside it and the VaultDb handles that several processes open on   *)
(* it.  A handle reads the whole file when it is opened and works on its   *)
(* private copy from then on; flush() replaces the whole file.             *)
(*                                                                         *)
(* DbState is abstracted to the sequence of changes it has absorbed; a     *)
(* change records the handle that made it and whether that handle could    *)
(* write at the time.                                                      *)
(***************************************************************************)
EXTENDS Naturals, Sequences

CONSTANTS
  Handles,      \* processes that may hold a VaultDb
  Strict,       \* those that open with open_writer (the service)
  NoHandle,     \* the lock file is not locked
  MaxChanges    \* bound on the changes one copy holds

ASSUME HandlesAssumption == NoHandle \notin Handles /\ Strict \subseteq Handles
ASSUME BoundAssumption   == MaxChanges \in Nat

VARIABLES
  lock,         \* holder of db/.lock
  disk,         \* content of db/vault.db.enc
  tmp,          \* content of db/vault.db.tmp
  mode,         \* per handle: where it is in open / use / flush
  mem           \* per handle: its private copy of DbState

vars == <<lock, disk, tmp, mode, mem>>

Modes == {"closed", "locked", "shared", "writer", "reader", "flushing"}

Change == [by : Handles, as : {"writer", "reader"}]

TmpFile == [state : {"none", "partial", "complete"}, data : Seq(Change)]

NoTmp      == [state |-> "none", data |-> <<>>]
PartialTmp == [state |-> "partial", data |-> <<>>]

\* Handles whose OS-level file lock is held.
HoldsLock(p) == mode[p] \in {"locked", "writer", "flushing"}

-----------------------------------------------------------------------------
Init ==
  /\ lock = NoHandle
  /\ disk = <<>>
  /\ tmp  = NoTmp
  /\ mode = [p \in Handles |-> "closed"]
  /\ mem  = [p \in Handles |-> <<>>]

\* Mutants: the lock is not asked for; a consulting handle takes the lock when
\* it becomes free and does not read the file again.
OpenExclusiveUnlocked(p) ==
  /\ mode[p] = "closed"
  /\ lock' = p
  /\ mode' = [mode EXCEPT ![p] = "locked"]
  /\ UNCHANGED <<disk, tmp, mem>>

OpenExclusivePromotes(p) ==
  /\ mode[p] \in {"closed", "reader"}
  /\ lock = NoHandle
  /\ lock' = p
  /\ mode' = [mode EXCEPT ![p] = IF @ = "closed" THEN "locked" ELSE "writer"]
  /\ UNCHANGED <<disk, tmp, mem>>

\* open_with_lock, try_lock succeeds: the handle will be the writer.
OpenExclusive(p) ==
  /\ mode[p] = "closed"
  /\ lock = NoHandle
  /\ lock' = p
  /\ mode' = [mode EXCEPT ![p] = "locked"]
  /\ UNCHANGED <<disk, tmp, mem>>

\* open_with_lock, try_lock would block: open() degrades to consultation.
\* open_writer() returns Locked instead and leaves no trace.
OpenShared(p) ==
  /\ mode[p] = "closed"
  /\ lock # NoHandle
  /\ p \notin Strict
  /\ mode' = [mode EXCEPT ![p] = "shared"]
  /\ UNCHANGED <<lock, disk, tmp, mem>>

\* The rest of open_with_lock: the file is read once, after the lock attempt.
Load(p) ==
  /\ mode[p] \in {"locked", "shared"}
  /\ mem'  = [mem EXCEPT ![p] = disk]
  /\ mode' = [mode EXCEPT ![p] = IF @ = "locked" THEN "writer" ELSE "reader"]
  /\ UNCHANGED <<lock, disk, tmp>>

\* Mutant: a change is accepted while the copy is being written.
MutateAnytime(p) ==
  /\ mode[p] \in {"writer", "reader", "flushing"}
  /\ Len(mem[p]) < MaxChanges
  /\ mem' = [mem EXCEPT ![p] = Append(@, [by |-> p, as |-> mode[p]])]
  /\ UNCHANGED <<lock, disk, tmp, mode>>

\* Any mutator of VaultDb (add_document, append_audit, ...): it only touches
\* the private copy, of a writer or of a reader.
Mutate(p) ==
  /\ mode[p] \in {"writer", "reader"}
  /\ Len(mem[p]) < MaxChanges
  /\ mem' = [mem EXCEPT ![p] = Append(@, [by |-> p, as |-> mode[p]])]
  /\ UNCHANGED <<lock, disk, tmp, mode>>

\* Mutant: flush does not look at read_only.
WriteTmpUnchecked(p) ==
  /\ mode[p] \in {"writer", "reader"}
  /\ tmp'  = [state |-> "complete", data |-> mem[p]]
  /\ mode' = [mode EXCEPT ![p] = "flushing"]
  /\ UNCHANGED <<lock, disk, mem>>

\* flush, first half: the copy is written to the temporary file.  A reader's
\* flush returns ReadOnly before it writes anything.
WriteTmp(p) ==
  /\ mode[p] = "writer"
  /\ tmp'  = [state |-> "complete", data |-> mem[p]]
  /\ mode' = [mode EXCEPT ![p] = "flushing"]
  /\ UNCHANGED <<lock, disk, mem>>

\* Mutant: flush writes the database file in place.
WriteFailsInPlace(p) ==
  /\ mode[p] = "writer"
  /\ disk' = <<>>
  /\ UNCHANGED <<lock, tmp, mode, mem>>

\* flush, the write of the temporary file fails or the process dies in it.
WriteTmpFails(p) ==
  /\ mode[p] = "writer"
  /\ tmp' = PartialTmp
  /\ UNCHANGED <<lock, disk, mode, mem>>

\* flush, second half: the rename that publishes the new content.
Publish(p) ==
  /\ mode[p] = "flushing"
  /\ tmp.state = "complete"
  /\ disk' = tmp.data
  /\ tmp'  = NoTmp
  /\ mode' = [mode EXCEPT ![p] = "writer"]
  /\ UNCHANGED <<lock, mem>>

\* flush, the rename fails: the copy stays ahead of the file.
PublishFails(p) ==
  /\ mode[p] = "flushing"
  /\ mode' = [mode EXCEPT ![p] = "writer"]
  /\ UNCHANGED <<lock, disk, tmp, mem>>

\* The handle is dropped, the open fails half-way, or the process dies: the
\* private copy is gone and the operating system releases the lock.
Drop(p) ==
  /\ mode[p] # "closed"
  /\ lock' = IF lock = p THEN NoHandle ELSE lock
  /\ mode' = [mode EXCEPT ![p] = "closed"]
  /\ mem'  = [mem EXCEPT ![p] = <<>>]
  /\ UNCHANGED <<disk, tmp>>

Next ==
  \E p \in Handles :
    \/ OpenExclusive(p) \/ OpenShared(p) \/ Load(p)
    \/ Mutate(p)
    \/ WriteTmp(p) \/ WriteTmpFails(p)
    \/ Publish(p) \/ PublishFails(p)
    \/ Drop(p)

Spec == Init /\ [][Next]_vars

-----------------------------------------------------------------------------
TypeOK ==
  /\ lock \in Handles \cup {NoHandle}
  /\ disk \in Seq(Change)
  /\ tmp  \in TmpFile
  /\ mode \in [Handles -> Modes]
  /\ mem  \in [Handles -> Seq(Change)]

\* t starts with s.
Extends(t, s) ==
  /\ Len(s) <= Len(t)
  /\ \A i \in 1..Len(s) : t[i] = s[i]

\* The lock file is locked exactly by the handle that may write, so there are
\* never two handles that can flush (struct VaultDb: "escritor único").
LockMatchesModes == \A p \in Handles : HoldsLock(p) <=> lock = p

\* Whoever may flush holds everything that was committed before, plus only
\* changes made as a writer: its flush cannot take anything back.
WriterIsUpToDate ==
  \A p \in Handles :
    mode[p] \in {"writer", "flushing"} =>
      /\ Extends(mem[p], disk)
      /\ \A i \in 1..Len(mem[p]) : mem[p][i].as = "writer"

\* The file that is about to be renamed over the database is complete and is
\* the copy of the handle that is renaming it (no torn publication).
FlushPublishesOwnCopy ==
  \A p \in Handles :
    mode[p] = "flushing" => tmp = [state |-> "complete", data |-> mem[p]]

\* Nothing that was changed while consulting (mode "reader") ever reaches the
\* file: flush refuses with StoreError::ReadOnly.
PrivateChangesStayPrivate ==
  \A i \in 1..Len(disk) : disk[i].as = "writer"

\* What a consulting handle shows is a content that was really committed,
\* followed by nothing but its own unsaved changes: it never sees a mixture
\* of two saves, however the writer flushes while it is open.
ReadersSeeACommit ==
  \A p \in Handles :
    mode[p] = "reader" =>
      \A i \in 1..Len(mem[p]) :
        \/ mem[p][i] = [by |-> p, as |-> "reader"]
        \/ /\ i <= Len(disk)
           /\ \A j \in 1..i : mem[p][j] = disk[j]

Log == INSTANCE CommittedLog WITH
         owner <- lock, committed <- disk, Changes <- Change

\* "evitando que el último en guardar borre los cambios del otro" (VaultDb):
\* each save extends what was saved before, and only the owner of the lock
\* saves.
ImplementsCommittedLog == Log!Spec

=============================================================================
