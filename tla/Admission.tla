------------------------------ MODULE Admission ------------------------------
(***************************************************************************)
(* How a delivery from a paired device becomes a document: the connections *)
(* of vault-sync write the received bytes to the staging area, ingest      *)
(* (vaultd) puts a submission in the queue, and the administrator admits   *)
(* or rejects it (vault-admin).                                            *)
(*                                                                         *)
(* Connections run concurrently.  The AdminService mutex (op) serializes   *)
(* what touches the database, the on_document mutex serializes the         *)
(* ingestions; the staging files are protected by neither, and the         *)
(* vault-it console may empty the staging area at any time.                *)
(*                                                                         *)
(* A staged file is named by the hash of its content, so it is written as  *)
(* staging[c].  Its place in the vault is made of the author, the category *)
(* and the file name the device delivers it under, so one content may be   *)
(* delivered to several places and several contents to one.  The rules     *)
(* that correct the category are read at start and taken not to change.    *)
(***************************************************************************)
EXTENDS Naturals

CONSTANTS
  Conns,        \* connections of the devices
  Contents,     \* contents delivered
  Paths,        \* places in the vault tree that they are delivered to
  Subs,         \* submission_ids
  Cleaning,     \* the staging area may be emptied
  Faults        \* the service dies, writes fail

ASSUME PathsAssumption == {"staging", "nowhere"} \cap Paths = {}

VARIABLES
  conn,         \* per connection: its upload, and where its open file is
  staging,      \* .staging/<sha256>.incoming
  vault,        \* the vault tree
  mem,          \* DbState of the service: submissions and documents
  disk,         \* the saved DbState
  op            \* what the holder of the AdminService mutex is doing

vars == <<conn, staging, vault, mem, disk, op>>

\* A file is missing, holds a part of its content, or all of it.
Files == {"none", "torn", "whole"}

Decided == {"admitted", "rejected"}
Submission == [state : {"pending"} \cup Decided, sha : Contents, place : Paths]

\* The hash a document is registered with is that of its content ("whole") or of
\* a part of it ("torn").
Document == [sha : Contents, as : {"torn", "whole"}]
NoDocument == [as |-> "none"]

Db == [sub : [Subs -> Submission \cup [state : {"none"}]],
       document : [Paths -> Document \cup {NoDocument}]]

EmptyDb == [sub |-> [s \in Subs |-> [state |-> "none"]],
            document |-> [p \in Paths |-> NoDocument]]

Registered(db) == {p \in Paths : db.document[p] # NoDocument}

Free == [step |-> "free"]

Uploads ==
  {Free}
    \cup [step : {"writing"}, sha : Contents, into : {"staging", "nowhere"} \cup Paths,
           last : BOOLEAN]
    \cup [step : {"written", "checked"}, sha : Contents]
    \cup [step : {"queued", "acked"}, sub : Subs]

Ops ==
  {Free, [step |-> "flush"]}
    \cup [step : {"checked"}, sub : Subs]
    \cup [step : {"hashed", "moved"}, sub : Subs, as : {"torn", "whole"}]

\* Mutant: a decided submission can be decided again.
IsKnown(s) == mem.sub[s].state # "none"

IsPending(s) == mem.sub[s].state = "pending"
Sha(s) == mem.sub[s].sha
Place(s) == mem.sub[s].place

WritesTo(k, c) ==
  conn[k].step = "writing" /\ conn[k].sha = c /\ conn[k].into = "staging"

\* Connections that are writing to the staged file of c go on writing to the
\* same file when it is moved into the vault or removed.
Redirected(c, where) ==
  [k \in Conns |-> IF WritesTo(k, c) THEN [conn[k] EXCEPT !.into = where] ELSE conn[k]]

RemoveStaged(c) == staging' = [staging EXCEPT ![c] = "none"]

Decide(s, state) == [mem EXCEPT !.sub[s].state = state]

-----------------------------------------------------------------------------
Init ==
  /\ conn = [k \in Conns |-> Free]
  /\ staging = [c \in Contents |-> "none"]
  /\ vault = [p \in Paths |-> "none"]
  /\ mem = EmptyDb
  /\ disk = EmptyDb
  /\ op = Free

\* handle_conn, POST /v1/upload: tokio::fs::write truncates the file, under
\* the hands of whoever else is writing the same content, ...
Receive(k, c) ==
  /\ conn[k].step \in {"free", "acked"}
  /\ staging' = [staging EXCEPT ![c] = "torn"]
  /\ conn' = [j \in Conns |->
       IF j = k THEN [step |-> "writing", sha |-> c, into |-> "staging", last |-> TRUE]
       ELSE IF WritesTo(j, c) THEN [conn[j] EXCEPT !.last = FALSE]
       ELSE conn[j]]
  /\ UNCHANGED <<vault, mem, disk, op>>

\* ... and fills it, wherever the file is by then.  What a writer whose bytes
\* were truncated leaves is any of the outcomes of the race.
Filled(k, before) == IF conn[k].last THEN {"whole"} ELSE {before, "whole"}

FinishWrite(k) ==
  /\ conn[k].step = "writing"
  /\ LET c == conn[k].sha
         place == conn[k].into
     IN
       /\ CASE place = "staging" ->
                 /\ \E f \in Filled(k, staging[c]) : staging' = [staging EXCEPT ![c] = f]
                 /\ UNCHANGED vault
            [] place \in Paths ->
                 /\ \E f \in Filled(k, vault[place]) : vault' = [vault EXCEPT ![place] = f]
                 /\ UNCHANGED staging
            [] place = "nowhere" -> UNCHANGED <<staging, vault>>
       /\ conn' = [conn EXCEPT ![k] = [step |-> "written", sha |-> c]]
  /\ UNCHANGED <<mem, disk, op>>

\* The write fails (a sealed file refuses it, the disk is full): error 500.
WriteFails(k) ==
  /\ conn[k].step = "writing"
  /\ Faults \/ conn[k].into \in Paths
  /\ conn' = [conn EXCEPT ![k] = Free]
  /\ UNCHANGED <<staging, vault, mem, disk, op>>

\* ingest_to_staging runs under the on_document mutex.
Ingesting == \E j \in Conns : conn[j].step \in {"checked", "queued"}

\* The file is read again, and removed if it is not what the device declared.
CheckStaged(k, declared) ==
  /\ conn[k].step = "written"
  /\ ~Ingesting
  /\ LET c == conn[k].sha IN
       IF declared /\ staging[c] = "whole"
       THEN conn' = [conn EXCEPT ![k].step = "checked"] /\ UNCHANGED staging
       ELSE conn' = [Redirected(c, "nowhere") EXCEPT ![k] = Free] /\ RemoveStaged(c)
  /\ UNCHANGED <<vault, mem, disk, op>>

\* The envelope is not valid (before the check) or its category is unknown
\* (after it): error 422, and the staged file stays where it is.
RefuseEnvelope(k) ==
  /\ conn[k].step \in {"written", "checked"}
  /\ conn[k].step = "written" => ~Ingesting
  /\ conn' = [conn EXCEPT ![k] = Free]
  /\ UNCHANGED <<staging, vault, mem, disk, op>>

\* The submission enters the queue, under the AdminService mutex, with the place
\* it is delivered to.
Enqueue(k, s, p) ==
  /\ conn[k].step = "checked"
  /\ op = Free
  /\ mem.sub[s].state = "none" /\ disk.sub[s].state = "none"
  /\ mem' = [mem EXCEPT !.sub[s] = [state |-> "pending", sha |-> conn[k].sha, place |-> p]]
  /\ conn' = [conn EXCEPT ![k] = [step |-> "queued", sub |-> s]]
  /\ op' = [step |-> "flush"]
  /\ UNCHANGED <<staging, vault, disk>>

\* Mutant: the device is told so even when the flush failed.
AnsweredAnyway(ok) ==
  conn' = [k \in Conns |->
             IF conn[k].step = "queued" THEN [conn[k] EXCEPT !.step = "acked"] ELSE conn[k]]

\* The connection that waits for the flush, if it is an ingestion, answers.
Answered(ok) ==
  conn' = [k \in Conns |->
             IF conn[k].step # "queued" THEN conn[k]
             ELSE IF ok THEN [conn[k] EXCEPT !.step = "acked"] ELSE Free]

FlushOk ==
  /\ op.step = "flush"
  /\ disk' = mem
  /\ Answered(TRUE)
  /\ op' = Free
  /\ UNCHANGED <<staging, vault, mem>>

FlushFails ==
  /\ Faults
  /\ op.step = "flush"
  /\ Answered(FALSE)
  /\ op' = Free
  /\ UNCHANGED <<staging, vault, mem, disk>>

-----------------------------------------------------------------------------
\* admit: the staged file is hashed and compared with the submission.  A file
\* that differs is noted in the audit chain, a missing one is an error.
Admit(s) ==
  /\ op = Free
  /\ IsPending(s)
  /\ staging[Sha(s)] # "none"
  /\ op' = IF staging[Sha(s)] = "whole" THEN [step |-> "checked", sub |-> s]
                                        ELSE [step |-> "flush"]
  /\ UNCHANGED <<conn, staging, vault, mem, disk>>

\* find_by_sha256, for the hash of what is in the staged file now.  The hash of
\* a part of a content may be that of a part of the same or of anything of another.
MayFind(c) ==
  \E p \in Registered(mem) :
    LET d == mem.document[p] IN
      IF d.sha = c THEN d.as = staging[c] ELSE "torn" \in {d.as, staging[c]}

\* Mutant: a content already in the vault is not looked for.
FindsNever(c) == FALSE

Finds(c) ==
  staging[c] = "whole" /\ \E p \in Paths : mem.document[p] = [sha |-> c, as |-> "whole"]

\* seal_document hashes the file again.  A duplicate is rejected ...
SealDuplicate ==
  /\ op.step = "checked"
  /\ staging[Sha(op.sub)] # "none" /\ MayFind(Sha(op.sub))
  /\ RemoveStaged(Sha(op.sub))
  /\ conn' = Redirected(Sha(op.sub), "nowhere")
  /\ mem' = Decide(op.sub, "rejected")
  /\ op' = [step |-> "flush"]
  /\ UNCHANGED <<vault, disk>>

\* ... and its place in the vault must be free.
\* Mutant: it is not looked at.
TakenNever(p) == FALSE

Taken(p) == vault[p] # "none"

\* Mutant: the staged file is not looked at again.
SealHashBlindly ==
  /\ op.step = "checked"
  /\ ~Taken(Place(op.sub))
  /\ op' = [step |-> "hashed", sub |-> op.sub, as |-> staging[Sha(op.sub)]]
  /\ UNCHANGED <<conn, staging, vault, mem, disk>>

SealHash ==
  /\ op.step = "checked"
  /\ LET c == Sha(op.sub) IN
       /\ staging[c] # "none" /\ ~Finds(c) /\ ~Taken(Place(op.sub))
       /\ op' = [step |-> "hashed", sub |-> op.sub, as |-> staging[c]]
  /\ UNCHANGED <<conn, staging, vault, mem, disk>>

\* install_staged moves the file into the vault.
SealMove ==
  /\ op.step = "hashed"
  /\ LET c == Sha(op.sub) IN
       /\ staging[c] # "none"
       /\ vault' = [vault EXCEPT ![Place(op.sub)] = staging[c]]
       /\ RemoveStaged(c)
       /\ conn' = Redirected(c, Place(op.sub))
  /\ op' = [op EXCEPT !.step = "moved"]
  /\ UNCHANGED <<mem, disk>>

\* Mutant: the submission is admitted, the document not registered.
SealForgets ==
  /\ op.step = "moved"
  /\ mem' = Decide(op.sub, "admitted")
  /\ op' = [step |-> "flush"]
  /\ UNCHANGED <<conn, staging, vault, disk>>

\* The document is registered and the submission admitted, in one save.
SealRegister ==
  /\ op.step = "moved"
  /\ mem' = [Decide(op.sub, "admitted") EXCEPT
               !.document[Place(op.sub)] = [sha |-> Sha(op.sub), as |-> op.as]]
  /\ op' = [step |-> "flush"]
  /\ UNCHANGED <<conn, staging, vault, disk>>

\* The file has gone, its place in the vault is taken, or a step failed: the
\* submission stays in the queue.
SealFails ==
  /\ op.step \in {"checked", "hashed", "moved"}
  /\ LET c == Sha(op.sub) IN
       \/ Faults
       \/ op.step # "moved" /\ staging[c] = "none"
       \/ op.step = "checked" /\ Taken(Place(op.sub)) /\ ~Finds(c)
  /\ op' = Free
  /\ UNCHANGED <<conn, staging, vault, mem, disk>>

Reject(s) ==
  /\ op = Free
  /\ IsPending(s)
  /\ RemoveStaged(Sha(s))
  /\ conn' = Redirected(Sha(s), "nowhere")
  /\ mem' = Decide(s, "rejected")
  /\ op' = [step |-> "flush"]
  /\ UNCHANGED <<vault, disk>>

-----------------------------------------------------------------------------
\* storage clean-staging of the console, or the button of the application.
CleanStaging(c) ==
  /\ Cleaning
  /\ staging[c] # "none"
  /\ RemoveStaged(c)
  /\ conn' = Redirected(c, "nowhere")
  /\ UNCHANGED <<vault, mem, disk, op>>

\* The service dies and starts again from what is on disk.
Restart ==
  /\ Faults
  /\ conn' = [k \in Conns |-> Free]
  /\ mem' = disk
  /\ op' = Free
  /\ UNCHANGED <<staging, vault, disk>>

Next ==
  \/ \E k \in Conns :
       \/ \E c \in Contents : Receive(k, c)
       \/ FinishWrite(k) \/ WriteFails(k) \/ RefuseEnvelope(k)
       \/ \E declared \in BOOLEAN : CheckStaged(k, declared)
       \/ \E s \in Subs, p \in Paths : Enqueue(k, s, p)
  \/ FlushOk \/ FlushFails
  \/ \E s \in Subs : Admit(s) \/ Reject(s)
  \/ SealDuplicate \/ SealHash \/ SealMove \/ SealRegister \/ SealFails
  \/ \E c \in Contents : CleanStaging(c)
  \/ Restart

Spec == Init /\ [][Next]_vars

-----------------------------------------------------------------------------
TypeOK ==
  /\ conn \in [Conns -> Uploads]
  /\ staging \in [Contents -> Files]
  /\ vault \in [Paths -> Files]
  /\ mem \in Db /\ disk \in Db
  /\ op \in Ops

StateOf(s) == disk.sub[s].state

Admitted(s) == StateOf(s) = "admitted"

\* Whatever is uploaded, emptied or dies meanwhile, the saved database holds a
\* document exactly where a delivery was admitted, under the content that was
\* delivered there, and the file of the document is in the vault.
AdmittedIsCustodied ==
  /\ Registered(disk) = {disk.sub[s].place : s \in {t \in Subs : Admitted(t)}}
  /\ \A s \in Subs :
       Admitted(s) => /\ disk.document[disk.sub[s].place].sha = disk.sub[s].sha
                      /\ vault[disk.sub[s].place] # "none"

\* No admission takes the place of another one's document, although the place is
\* looked at before the file is moved there, and an admission that fails or dies
\* in between leaves its file behind.
OwnDocument ==
  \A s, t \in Subs :
    Admitted(s) /\ Admitted(t) /\ disk.sub[s].place = disk.sub[t].place => s = t

\* What "el mismo archivo nunca entra dos veces" (vault-admin lib.rs:115) holds of: two
\* documents are never registered with the hash of one whole content, wherever they
\* were delivered to and whatever was saved between.  A delivery whose file an upload
\* truncated between the two times it is hashed is registered with another hash, and
\* its content may come in again.
ContentRegisteredOnce ==
  \A p, q \in Registered(disk) :
    disk.document[p] = disk.document[q] /\ disk.document[p].as = "whole" => p = q

\* A device that was told "pending_admission" finds its delivery in the queue,
\* or decided, whatever happens to the service afterwards.
AckedIsSaved ==
  \A k \in Conns : conn[k].step = "acked" => StateOf(conn[k].sub) # "none"

\* What the saved database says of the deliveries, and what the devices heard.
Queue == [s \in {t \in Subs : StateOf(t) # "none"} |-> disk.sub[s]]
Documents == {[place |-> p, sha |-> disk.document[p].sha] : p \in Registered(disk)}
Told == {s \in Subs : \E k \in Conns : conn[k].step = "acked" /\ conn[k].sub = s}

Promise == INSTANCE Deliveries WITH queue <- Queue, documents <- Documents, told <- Told

\* Every save takes the deliveries on: whoever is told has its delivery in the queue,
\* a decision is never taken back or taken twice, the content and the place of a
\* submission never change, and documents and admissions are saved together.
ImplementsDeliveries == Promise!Spec

\* "nombre definitivo dentro de staging (hash → trazable y sin colisiones)"
\* (vaultd/src/main.rs:356): a delivery in the queue has its file in staging
\* until it is decided.
PendingKeepsItsFile ==
  \A s \in Subs :
    op = Free /\ IsPending(s) => staging[Sha(s)] # "none"

=============================================================================
