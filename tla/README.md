# Formal model of the UBOD document vault

UBOD ("Bóveda") keeps the documents of an institution in a tree of sealed
(read-only, immutable) files, with an encrypted database of records beside it.
Several programs share one vault: the service `vaultd`, the desktop application
`vault-gui`, the maintenance console `vault-it`; paired devices deliver
documents over mTLS with `vaultctl`. This directory holds TLA+ models of the
parts of the system in which order, concurrency and failure matter, the TLC
configurations that check them, and TLAPS proofs.

## The system

| Part | State | Operations | What makes it correct |
|---|---|---|---|
| `vault-store` file and lock | `db/.lock`, `db/vault.db.enc`, its `.tmp`, one private `DbState` per open handle | `open`, `open_writer`, the mutators, `flush`, drop | one writer; a save never takes back another; a consulting program never saves; no torn content is ever read |
| `vault-store` audit chain | `DbState::audit` | `append_audit`, `audit_head`, `verify_audit_chain` | what is written verifies; a later change is seen |
| `vault-roles` document operations | records, versions, files | `rename`, `move_to_category`, `soft_delete`, `restore`, `edit_meta`, `view`, login, users | records and files agree; versions are immutable copies |
| `vault-admin` sealing and destruction | records, submissions, `pending_destructions`, tombstones | `seal_document`, `admit`, `reject`, `destroy`, `process_due_destructions` | nothing leaves the index without a tombstone; contents are lost only by destruction or purge |
| `vault-admin` access | PIN hashes, failures and lockout, sessions | login, both ways of changing a PIN, `destroy`, refresh, expiry, restart | guessing is slow whoever guesses and in whatever order; a dead token stays dead; nothing is destroyed without the second PIN |
| `vault-fs` | the vault tree | `install_sealed`, `install_staged`, `seal_file`, `unseal_file`, `secure_wipe` | sealed files only, except inside an operation |
| `vault-audit` | integrity verdicts | `sweep` | rot is reported |
| `vault-sync` | table of authorized devices, pairing codes, mutexes of the callbacks, staging files | ping, manifest, upload, pair | a code opens once and in time; a device with its files gets in and is in the registry; requests do not wait in a circle; an acknowledged delivery is in the queue; nothing is registered twice, or over another |
| `vaultd` | configuration, one `AdminService` behind a mutex | start-up, `ingest_to_staging`, minute loop | every due destruction and sweep is carried out |
| `vault-it` | `door/` (key pair, state, session), `config/it.pub` | `door setup`, `open`, `revoke`, `users`, `trash purge`, `storage clean-staging` | halves of a key pair belong together; the door opens to its own private key |
| `vault-webui` | panel sessions, the page's stored token | the `/api` routes | only a live session reaches them; a page with a dead token returns to the login |
| `vault-gui` | handle, session, screen, dialog; `app.key.pem`, `app.pub` | launch, bootstrap, login, screens and dialogs frame by frame, import, administration of users | writes nothing in consultation mode; users can enter and leave |
| `vault-crash` | report files in `crash/` | the panic hook, logic errors, decryption | a report can be read with the key of the door |
| `vault-index` | the classification rules | `classify`, `SearchQuery`, text extraction | a query is taken apart at its connectors |
| `vault-client`, `vaultctl` | the identity files of a device | pair, send, status | complete identity files get in until the service starts again |
| `vault-core` | types | dates, ids, categories | dates are those of the calendar |
| `vault-crypto` | keys | hashing, ciphers, PKI, time stamps | assumed (see "What is not modelled") |

How they interact. The programs share the database file through its lock
(`VaultDb::open*`): the service demands it, the others degrade to consultation.
Inside the service the connections of `vault-sync` (tokio tasks), the threads of
the panel and the minute loop share one `AdminService` behind a
`std::sync::Mutex`; the callbacks `on_document`, `on_paired` and `manifest` each
have a mutex of their own, taken before it. Files are protected by none of
these: the staging area is written by connections and emptied by the console or
the application at any time, and an operation on a document is a sequence of
file-system calls between which the process can die.

## Modules

| Module | What it is |
|---|---|
| `CommittedLog` | abstract: one committed content that only its owner extends |
| `VaultStore` | the lock file, the database file, its temporary file and the handles; implements `CommittedLog` |
| `AdminAccess` | PINs, lockout, sessions of the service and of the panel, the page's token |
| `SyncChannel` | pairing codes, authorized devices, callbacks and their mutexes, identity files of the clients |
| `Desktop` | the desktop application frame by frame, with the others at the same database |
| `Door` | the key files of the maintenance door and of the application, and the crash reports |
| `CivilDate`, `Query` | the calendar arithmetic, and the taking apart of a search query |
| `AuditChain` | the hash-linked audit entries and their rewriting |
| `Programs` | composes the seven modules above: administration, channel, application, door, calendar, query, audit chain |
| `<module>_proofs` | theorems about the module each is named for; `Programs_proofs` holds those about `AdminAccess`, `CivilDate` and `Desktop` too |
| `DocumentLifecycle` | abstract: the stages a document's record may go through |
| `Custody` | records, vault tree, version copies, tombstones and scheduled destructions under every document operation; implements `DocumentLifecycle` |
| `Deliveries` | abstract: the queue of deliveries, decided once and for all, the documents, and what the devices hear |
| `Admission` | deliveries: connections, staging, queue, admission and rejection; implements `Deliveries` |
| `MCVaultStore`, `MCCustody`, `MCAdmission`, `MCPrograms` | the instances TLC explores |

### VaultStore

`mode[p]` is the program counter of a handle: `closed`, `locked` / `shared`
(after `try_lock`, before the file is read), `writer` / `reader`, `flushing`
(between the write of the temporary file and the rename). `mem[p]` is its
private `DbState`, `disk` and `tmp` are the files. A database content is the
sequence of the changes it has absorbed, each recording who made it and whether
that handle could write, so that lost and smuggled changes are visible. Reading
the file is one step (`fs::read` of one inode, replaced only by rename), as is
`rename`; writing the temporary file is a step that may fail or be cut.

### Custody

Only the holder of the lock writes (that is what `VaultStore` shows), so one
`host` runs at a time; inside it operations exclude one another by `&mut self`
or by the `AdminService` mutex. Each operation is broken at its physical steps,
and `op` says which is next: install / seal and register / save for an import or
admission; unseal / move / seal and relocate / save for `rename` and
`move_to_category`; copy / seal and record / save for a versioned `edit_meta`;
overwrite / remove / tombstone / seal and unregister / save for a destruction.
`mem` is the host's `DbState`, `disk` the saved one. With `Faults` the host may
stop at any step and any step may fail, which leaves whatever the code leaves.

Abstractions: a content is identified with its hash; a path is a category and a
name (the author folder never changes); a `vault_id` is never used twice (they
are UUIDs), so `destroyed` and `purged` remember spent ids; `move_to_category`
has a branch for an unchanged path which the distinct folder names of the
categories make unreachable. Sealing is taken to stop overwriting, which holds
for a process that is not root, and for root where `chattr +i` works.

### AuditChain

The canonical text of an entry joins its fields with `|`. A text is the sequence
of its pieces between bars, so joining is concatenation and a detail with bars
of its own can imitate two fields. `Rewrite` changes one stored entry in any of
its fields; appends go on afterwards, because nothing in the program checks the
chain before extending it.

### Admission

`conn[k]` is the upload of a connection, `op` what the holder of the
`AdminService` mutex is doing, `staging[c]` what is in the staged file of content
`c`, whose name is its hash, and `vault[p]` what is at the place `p`: author,
category and file name, which the device chooses in the envelope, so that one
content may go to two places and two contents to one. A document is registered
with the hash that `seal_document` computed: of the whole content, or of a part
of it (`as`), when an upload truncated the file after `admit` had checked it; parts
of one file may or may not hash alike (`MayFind`). A `tokio::fs::write` is a truncation and, later, the
bytes: two uploads of one content interleave, and a writer goes on writing to
its open file after `install_staged` has moved it into the vault or somebody has
removed it. What a truncated writer leaves is any outcome of the race.

### AdminAccess

One `AdminService` behind its mutex, the panel (`vault-webui`) with a session
table of its own, and one page in a browser. `mem` and `disk` are the PIN hashes
in memory and saved; `failures`, `lockedUntil` the lockout; `adminSessions`,
`panelSessions` the two tables; `req[r]` a request of the panel, from `Send` over
the check of its token to the operation, which runs later and may find another
world; `page` the token in `sessionStorage`. A token is a number, in the order in
which they are drawn. `Stop` forgets the tables and the lockout, which are in
memory only. `first` and `owed` are history: when the present run of failures
began, and the pauses imposed since.

### SyncChannel

`conn[k].pc` follows `handle_conn`: read, (code consumed, certificate issued,)
granted, holding the callback's mutex, inside `AdminService`, answered. Mutexes
held within one statement are not modelled; those held across steps are, with
poisoning: a panic leaves them poisoned and each later caller panics in turn,
except the minute loop, whose panic ends the process. A certificate stands for
its key and fingerprint and is a number in the order of issue. `client` and
`ident` are `vaultctl` and its two identity files, written one after the other;
its time-out may pass, and it may be killed, at any step.

### Desktop

A step is one frame with at most one click. `handle` is `self.roles`, `copy` its
`DbState`; `lock`, `file` and `disk` are the database, which the service and the
console use as well. `Leaves(m)` is what `draw_modal` puts back of the dialog it
takes. The recorded view is the Director's; the list of versions only reads and is a
frame like any other. The console's `users`
commands are two steps, since they ask for the door
session first and for a PIN afterwards.

### Door

Files hold the number of the key pair they belong to, nothing, or a torn rest.
Applications make the pair of the door when they start and find no public key,
consoles when the door is configured; each file is a step and a process may be
killed at each. An application has two readers of the public key, the panic hook
and the reporter, which read it at different moments. That somebody can type a
private key of several lines at the prompt of `door open` is taken for granted.

### CivilDate and Query

`Civil` is the function of the code, `Tomorrow` a calendar on the wall: the run
turns it over day by day and compares, and the proof does so without an end.
`Query` has a query typed key by key. `Walk` is the first loop of `split_and` with
its flag and buffer, `Join` the second with its accumulator; what they make is
compared with a definition of the pieces by positions: which marks are before a
position, which positions are connectors, what counts between two of them.

### Programs

The seven modules above (with `AuditChain`) share no variable: no action of one reads what an action
of another writes (the door session in `Desktop` and in `Door` is one file seen
by two models, free to change in the first). A state of all of them together is
a tuple of states of each, so a property of one holds of the product if it holds
of that one alone, and `AllInit` chooses which of them is followed. `AdminAccess`
is extended and the others are instances. That nothing is lost by this is a
theorem, `ProgramsFollowModules`: a behaviour of `AllSpec` is a behaviour of each
of the seven. `MCPrograms` adds the symmetry for TLC and the texts of the chain.

## Runs

| Run | Instance | Shows |
|---|---|---|
| `store` | 3 processes (one strict), up to 3 changes in a copy | type invariant, `LockMatchesModes`, `WriterIsUpToDate`, `FlushPublishesOwnCopy`, `PrivateChangesStayPrivate`, `ReadersSeeACommit`, refinement of `CommittedLog` |
| `custody` | 2 documents, 2 contents, 2 categories, 2 names, 2 versions, no faults, no grace | records, files and versions agree between operations |
| `custody_faults` | 2 documents, 2 contents, 2 categories, 1 name, faults, grace | tombstone first, the queue of destructions names active documents, content is lost only by wiping, refinement of `DocumentLifecycle` |
| `custody_live` | the service alone, rot, grace, no faults | rot is reported, scheduled destructions are executed |
| `custody_dedup` | the application alone | violation: one content active twice |
| `custody_trash` | application and service, faults | violation: the file of a trashed document is wiped |
| `admission` | 2 connections, 1 content, 2 places, 2 submissions, faults, staging cleanup | admitted means custodied, nobody's place is taken, one registration per hash, acknowledged means saved, refinement of `Deliveries` |
| `admission_shared` | 1 connection, 2 submissions, no faults | violation: a pending submission loses its file |
| `programs` | `MCPrograms`: 2 PINs, 2 requests, 4 tokens, clock 2 / 1 device, 2 connections, 2 codes, 2 certificates / 2 users (Administración, Director) / 2 applications, 1 console, 3 key pairs / days to 2100 / queries of 6 keys / chains of 3 entries, with 2 deeds and 2 details (one with a bar) | 16 properties, listed below |
| `login` | the same | violation: an application that finds a vault cannot be entered |
| `dialogs` | the same | violation: a dialog is gone before it can be answered |
| `audit_last` | the same | violation: verification misses the last entry |

The properties of `programs`:

- `GuessingIsSlow`: the pauses imposed for consecutive failures pass one after the
  other, though login, destruction and PIN change count into one counter from
  several threads. `DeadTokensStayDead`: a token that a table has dropped, or a
  restart has forgotten, never comes back, whatever renewal is under way.
  `DestructionIsNeverAuthorized`: see finding 9 below.
- `CodeOpensOnceInTime`, `AuthorizedIsRecorded`, `SomebodyGoesOn`: the channel
  under lost answers, killed clients, panics and restarts.
  `IdentityLastsUntilRestart`: a device with complete files gets in as long as the
  service runs that issued them, and no longer (finding 7).
- `KeyPairsMatch`, `ReportsStayReadable`: key files and reports whoever is killed
  where, except after two creators overlapped or one was killed replacing half a
  pair (`raced`). `AppKeysShutTheConsoleOut`: keys the application made keep the
  console out until they are taken away (finding 8).
- `WrittenChainVerifies`, `InnerChangeIsSeen`, `ChainAndHeadSeeAll`: what verification
  of the audit chain sees, and what it sees together with a head hash kept elsewhere.
- `DatesAreGregorian`, `PartsAreThePieces`, and `ProgramTypes` for the types.

Why the bounds are enough. Store: the interesting case is a second process that
opens, loads or saves between the steps of a first, and a third that watches; the
theorems remove the bound. Custody: two documents can compete for one path (two
names of which one sanitizes to the other, two categories), which takes no
third; one content may return while its document is in the trash. Two versions
are needed for a version to be made before and after a move. Versions and failing
steps together are beyond TLC here (more than five million states for one version), so
`custody_faults` has no versions and `VersionsHaveCopies` is proved and not run. Admission: a content is delivered a second
time, to the same place or another, while its first delivery is being written,
ingested, admitted or decided. The hash of a part may be that of a part of the same
content, so that one content is enough for a second delivery to pass for another
document and to want the place of the first. Several contents at once (about two
million states) are left to the theorems, which have no bound. Symmetry is declared only in runs without
liveness properties, over model values nothing distinguishes. The runs check for deadlock, all
but those of `MCPrograms`.

Programs: two requests are enough for one to be between check and use while the
other changes the state; one free failure and a base pause of one unit give two
growing pauses within the clock. A device that is paired twice, and two
connections with one code, need two codes and two certificates. Two applications
and a console are two creators of each pair and one who starts in between, and a
third pair lets one be replaced. The keys are followed until two creators have
overlapped, since nothing is promised after that. The days pass the leap century
2000 and the common one 2100; the formula repeats after 400 years by
construction (`z % 146097`). This run does not check for deadlock: a request
that is answered, a date at its bound and a query at its length have nothing left
to do; `SomebodyGoesOn` is the freedom from deadlock that matters.

Fairness (`custody_live` only). An operation that has begun goes on to its end
(weak fairness of its steps and of the save), the service is started again when
it can be, and the minute loop of `async_run` gets the mutex from time to time
(strong fairness of `Sweep` and of `ProcessDue(d)`): the other users of the mutex
release it between operations and the loop comes back every minute. Without
faults only: a step that fails makes a due destruction disappear from the queue,
and a sweep stop, as the code does.

## What the violations show

1. `custody_dedup`: `find_by_sha256` ignores the trash. Trash a document, import
   its content under another name, restore it: one content, two active records,
   though the comment in `seal_document` says the same file never enters twice.
2. `custody_trash`: a move that fails after `fs::rename` leaves the record on the
   old path, which is free in the file system; another document installed there
   and trashed is wiped when the first one is destroyed.
3. `audit_last`: the rewriting of the last entry passes `verify_audit_chain`,
   which is all the panel shows; README-LINUX says any change turns it red.
   `ChainAndHeadSeeAll` (run `programs`) shows the head hash would see it.
4. `admission_shared`: staged files are named by their hash, so two deliveries of
   one content share a file and deciding one takes it from the other.
5. `login`: the comment over the start of the application says an existing vault
   goes straight to its login, but only the first configuration and the reload of
   an administration screen open the database: `do_login` finds no handle and
   returns.
6. `dialogs`: `draw_modal` puts back the file picker only. Every other dialog that
   the screens open is gone before it can be answered, so a session cannot be closed
   ("Salir", and the `logout` of the tests), nor a document renamed, edited or sent to
   the trash, nor a user added or given a new PIN. The theorem `SessionsLast` says how
   far that goes: the session lasts until the process ends.

Five more disagreements are stated by properties that hold, because what the code does
instead can be said exactly.

7. `IdentityLastsUntilRestart`: the comment over the callback in `vaultd` says pairings
   survive restarts, and README-LINUX that pairing is done once. They are saved, and
   nothing reads them back into the table that `is_authorized` consults.
8. `AppKeysShutTheConsoleOut`: the application makes the key pair of the door without
   `door.state`. `ITConstructedDoor.md` has the console's `door setup` configure the
   door and make its keys again, but setup refuses (keys exist) and so does open (no
   state), until the directory or the private key is taken away.
9. `DestructionIsNeverAuthorized`: the panel hands its own token to
   `set_destruction_pin`, which looks it up among the service's sessions, so the PIN
   that README-LINUX calls configurable in the panel can never be set, and without it
   every destruction is refused.
10. `DeadTokensStayDead`: a page whose token is dead reloads for ever, because
   only `logout` clears the stored token.
11. `ContentRegisteredOnce`: a comment in `seal_document` says the same file never
   enters twice. `admit` and `seal_document` hash the staged file one after the other;
   an upload of the same content that truncates it in between has the first delivery
   registered under the hash of a part, and a delivery under another file name is then
   no duplicate. What holds is that no two documents are registered with the hash of
   one whole content.

### Observed while modelling

These follow from the models or from reading the lines beside them. No run is about
them.

- "Cancelar" does not close the file picker.
- `edit_meta` copies and seals the next version before it records it. An edit that
  dies, or fails, in between leaves a read-only copy under a number the records do not
  have; every later edit by Coordinación computes that number again, and the file
  system refuses to write over the copy. The document can be edited no more by that
  role while it keeps its category.
- "Recargar" opens the vault beside the open handle and turns a writer into a
  reader, by its own lock.
- Once the private key has been taken off the machine, as `ITConstructedDoor.md`
  advises, `DoorDir::exists` no longer sees a door.
- `vault-it` asks for the door session once, then waits for a PIN; revocation in
  between does not stop the write. `door open` reads a key of several lines with
  a function that reads one.
- Reports are saved in `data/crash`, while `vault-it` lists `crash` beside it; two
  reports of one second overwrite one another.
- Expired sessions of `AdminService` are dropped only when somebody presents
  them.

## What is proved

All theorems hold for every value of the constants; TLC checks the same formulas
on the instances above. `tlapm <module>_proofs.tla` checks them.

**`VaultStore_proofs`** assumes only what `VaultStore` assumes of its constants.
The inductive invariant `IInv` is the conjunction of the checked invariants; none
of them needs a further strengthening, but they need each other:
`WriterIsUpToDate` holds because no other writer can publish
(`LockMatchesModes`) and because what is published is the writer's own copy
(`FlushPublishesOwnCopy`); `ReadersSeeACommit` rests on both. From it follow
`SingleWriter`, `WriterNeverStale`, `SavesOwnCopy`, `ReadersConsistent`,
`ConsultationSavesNothing` and the `Refinement` of `CommittedLog`.

**`Custody_proofs`** assumes of `Sanitize` that it is idempotent on names, and
that the two pseudo-contents are not contents. Everything rests on `IndType`: the
types, and for each kind of operation in progress which program runs it and in
what stage its document is (an operation that destroys a document never finds it
moved or trashed meanwhile). On top of it, one invariant per theorem:

- `TombInv` extends `TombstoneFirst` to the records in memory: a save after a
  failed save publishes an old removal, and that one too had its tombstone.
- `QueueInv` adds that only the service, with a grace period, has a queue, and
  that a document being destroyed has left it.
- `CopyInv` gives `VersionsHaveCopies`, whatever fails. It says the same of the
  records in memory, which any later operation may save, and adds what an operation
  in progress has found on disk: a file that exists until it is copied or moved, and
  a copy that exists until it is sealed.
- `TreeInv` adds that the target of a move is still free when the move takes
  place, and that a file being wiped holds nothing any more. It gives
  `ContentOutlivesCrashes`, under `~Rot` and whatever else fails.
- `LifeInv` bounds how far memory can be ahead of disk, by program: several moves
  of one program can be saved at once, moves of two programs cannot. It gives the
  `Refinement` of `DocumentLifecycle`.

- `CleanInv` is what holds without failures and rot (`~Faults`, `~Rot`): which
  files differ from the sealed files of the records at each step of each operation
  (the one being installed, the two ends of a move, the one being wiped), that
  only the operation in progress owns the name it is about to give, and which copy
  is not recorded yet. Memory is then the saved database, but for a save under way
  and for the records a purge removes. It gives `PathsUnique`,
  `FilesMatchRecords` and `VersionsMatchCopies`. With it `TrashIsKept`: without
  failures and rot the service never touches the content of a trashed document, so
  the violation `custody_trash` takes a step that fails.
- `OnceInv` says of memory and of disk that no content is twice in the index, and
  that the one being installed is not there yet. Every step but one keeps it,
  whatever fails: under the hypothesis that no document is restored beside another
  one with its content (`RestoresApart`), `SameContentOnce` always holds
  (`OnlyRestoringRepeats`). The violation `custody_dedup` is that restoration, and
  there is no second way.

**`AuditChain_proofs`** assumes `Limits`, which TLC evaluates in `Programs`: that no deed holds a bar and that a detail is a
non-empty text. `TextIdentifiesEntry` shows that the canonical text identifies
the entry although a detail may hold bars: it is the only field that may, so its
length follows from the length of the text. `ChainInv` says that the chain is
linked until the change and that after it either the successor of the changed
entry, or the head taken at that moment, has the hash of an entry that is gone;
appending disturbs neither.

**`Admission_proofs`** assumes that no place is called like the two other
destinations of a writer (`PathsAssumption`). `TypeInv` adds to the types
that the submission being admitted is pending. `AckInv` adds to `AckedIsSaved` that memory
only ever adds to the saved database (`Grows`) and that an ingestion waiting for
the flush has its submission in memory.
`DataInv` states `AdmittedIsCustodied`, `OwnDocument` and `ContentRegisteredOnce` of
memory as well as of disk, with what the admission in progress knows: its place in
the vault was free before the move and is registered by nobody before the end,
nothing in memory has the hash it computed, and whoever still writes into the vault
writes where a file was moved to. It gives `AdmissionIsCustody`,
`DocumentsAreTheirOwn` and `RegisteredOnce`. Together with the others it gives
the `Refinement` of `Deliveries`: a flush is its `Save` (the queue follows from
`Grows`, the documents from `DataInv`, what is told from `AckInv`), every other step
lets devices go on at most.
`StagedInv` is for `PendingKeepsItsFile`, which `admission_shared` refutes: a checked
delivery and one in the queue have their files, but for the one on its way into
the vault. It is inductive without failures and an emptied staging area
(`~Faults`, `~Cleaning`) as long as no waiting content is delivered again
(`OneEach`), so the second delivery is what the violation takes
(`PendingIsStaged`).

**`SyncChannel_proofs`** assumes `Limits`, which TLC evaluates in `Programs`.
`SpentInv`: a code that has opened is not in the list (`CodesOpenOnce`).
`IdentityInv` follows a certificate from its issue through the answer and the
client into both files: none that was issued since the start is newer than the
table. `TableInv` says that the table holds nothing issued before the start, so that a
device with complete files either has its own entry, and they were issued since, or has
none, and they are from before: `IdentitiesLastUntilRestart`.
`MutexInv` says who holds which mutex; from it, each
step passes on the mutexes of one owner only (`OwnersKept`), so a poisoned mutex
stays poisoned until the restart, and a pairing on its way to the registry
arrives or leaves poison behind (`AuthorizedAreRecorded`). `HeldInv` is the other
direction: whoever has a mutex is at the place in the code where it is held, so a
connection that has not reached a callback holds nothing. It gives
`NoCircularWait`: who waits for the `AdminService` mutex waits for somebody within,
who needs no other; who waits for a callback's mutex waits for another connection
that is within or waits for the `AdminService` mutex at most.

**`Door_proofs`** assumes `Limits`, as above. `DoorInv` says that as long as no two
creators overlap there is at most one, that no whole pair is there until it has
written the private key, and that this key stays the new one until it is taken
away; `AppPairInv` says the same of the application's pair. They give
`PairsMatch`. `ReadInv` follows who encrypts for which pair: files, hooks,
reporters and whoever is about to write `config/it.pub`. All of these are pairs
whose private key is in the door or was taken from it, and a private key without
its public half beside it is used by nobody; that is why writing over it makes no
report unreadable (`ReportsReadable`). `AppKeysShutOut`, about finding 8, needs the types only.

**`Query_proofs`** assumes that the bound is a number. The two loops of `split_and`
and the reference are folds over sequences, and what they compute is shown by
induction over the length. The library's induction theorems take a predicate as a
parameter, which the provers cannot instantiate; its well-foundedness theorem
speaks of sets, and from it follow `Least` (a non-empty set of numbers has a least
element) and `UpTo` (induction up to a bound, on the set of the numbers that have a
property). `FoldSteps` turns a fold into the sequence of its intermediate values
(`WalkSteps`, `JoinSteps`, `PickSteps`). The invariant of the scanner is `Follows`:
after n characters the flag is the parity of the marks, the buffer is what stands
behind the last blank, and the closed segments, joined so far, agree (`Agrees`) with
the reference up to that blank: the parts are the pieces that end before it, and
the accumulator is the text since the last connector, but for a blank in front.
`Closing` takes `Agrees` from one blank to the next: over nothing, over a connector,
which ends a piece, or over a word, which goes on with one. This gives
`SplitPieces` and `QueryParts`, for a query of any length.

**`Programs_proofs`** has four parts. The first, about `AdminAccess`, assumes what
that module does of PINs and times. That the pause after a failure is positive is
where powers of two come in: `2 ^ n` is shown to be a positive number by counting
the subsets of `1..n`. `LockInv` says that a pause that runs covers all that was
imposed since the first failure; a failure is counted only when none runs, so
pauses add up: `GuessingCosts`. `SpentTokensStaySpent` follows from the types
alone: tokens are drawn in order, and a renewal happens only to a token its table
holds. `ApartInv` keeps the tokens of the two tables apart, from which no
destruction PIN is ever set: `NothingIsDestroyed`.

The second part is about `CivilDate`, for every day and every bound. The
calendar on the wall is a state machine and the days are its steps, so the
induction over the days is that of an invariant, and what has to be shown is that
a day later the computed date is `Tomorrow` of the computed one (`CivilTomorrow`): within a month and at its end (`Months`), within a year that
begins in March (`SameYear`), at the end of February of common and leap years, of
a century and of the era of 400 years (`YearEnd`). `YearOfDay` says that the
divisions by 1460, 36524 and 146096 find the year of the era in which a day
falls, and `Century` that each correction is right within its century. From this
`CivilIsGregorian` and `DateTypes`.

The third part is about `Desktop` (`Desk!Spec` of `Programs`) and assumes nothing.
Beside the types, which contain that the application has the lock exactly as long
as it has a writing handle, `DialogInv` says that a frame leaves no dialog but the
picker and that a session never shows the screens before it. `SessionsLast` follows:
it states the extent of finding 6.

The fourth part is about the composition. `ProgramsFollowModules` says that a
behaviour of `AllSpec` is one of each module. The theorems about `SyncChannel`,
`Door`, `Query` and `AuditChain` are taken from their proof modules by `INSTANCE`, with the
substitutions `Programs` makes; `SameChannel`, `SameKeyring`, `SameSearch` and `SameChain` show
that these instances and those of `Programs` are the same formulas. So each
property of the run `programs`, but for `SomebodyGoesOn`, is a theorem about
`AllSpec` for every value of the constants: `AllTypes`, `ProgramsGuessSlowly`,
`ProgramsDestroyNothing`, `ProgramsSpentTokens`, `ProgramsCodes`,
`ProgramsIdentities`, `ProgramsRegistry`, `ProgramsPairs`, `ProgramsReports`,
`ProgramsDoor`, `ProgramsDates`, `ProgramsQueries`, `ProgramsChains`,
`ProgramsInnerChanges`, `ProgramsHeads`. It assumes `SyncLimits`,
`DoorLimits`, `DateLimits`, `BoxLimits` and `ChainLimits`, which TLC evaluates: the bounds are
natural numbers, there are devices and connections, and a connection is no thread.

## What is only model-checked

- Liveness under fairness: `RotIsReported`, `ScheduledIsExecuted`. TLAPS has no
  means for them here (no `ENABLED`).
- `SomebodyGoesOn`, which is about `ENABLED`. What can be said without it is
  proved: `NoCircularWait`.
- The six violations, by their counterexamples.

## What is not modelled, and why

- In `Custody` and `Admission` an operation is tried by somebody who may: who may
  is in `Desktop` (roles) and `AdminAccess` (PINs), and a check of the role
  refuses an operation before it changes anything.
- `vault-crypto`: ciphers, signatures, DER and time stamps are taken to do their
  work: hashes do not collide, a database that decrypts is one that was saved.
- The matching of a term with a document and the classification rules of
  `vault-index`, and the extraction of text from PDF and office files: functions
  on strings, without state.
- Redaction, encryption and layout of a crash report.
- mDNS, TLS, sockets, the parsing of HTTP and of configuration files, HTML,
  layout and messages of the window, the listings, reports and exports of
  `vault-it`: input and output without state that the properties depend on.
- Failing writes while key files are made (a killed writer is modelled, an error
  that the program reports is not), and the expiry of the door session by the
  clock, which is a step that may come at any time.
- Free-text fields, the author folder, time stamps, the audit entries that every
  operation appends: no property here tells them apart (`AuditChain` models the
  chain by itself).

## Plan

First-match classification as a reference definition beside `Query`.
