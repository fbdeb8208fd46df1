--------------------------------- MODULE Door ---------------------------------
(***************************************************************************)
(* The keys of the maintenance door and of the crash reports: the          *)
(* application makes them when it starts and finds none, the console when   *)
(* somebody configures the door, file after file, and both may be killed    *)
(* between two files or within one.                                        *)
(*                                                                         *)
(* A key pair is a number; a file holds the number of the pair it belongs  *)
(* to, nothing, or what a killed writer left of it.                        *)
(***************************************************************************)
EXTENDS Integers

CONSTANTS Apps,       \* processes of the application
          Consoles,   \* processes of vault-it
          MaxClock,   \* bound: end of time
          MaxKey      \* bound: key pairs generated

\* What the proofs assume of the bounds.
Limits == MaxClock \in Nat /\ MaxKey \in Nat

Absent == 0
Torn == -1

\* An application: the pair it is writing, the keys that its panic hook and its
\* reporter encrypt for, and whether it has its window.
Off == [pc |-> "off", made |-> 0, hook |-> 0, reporter |-> 0, window |-> FALSE]

VARIABLES
    clock,   \* seconds
    priv,    \* door/door.key.pem
    pub,     \* door/it.pub
    state,   \* door/door.state
    session, \* door/session is there; when it expires is left out
    config,  \* config/it.pub
    appKey,  \* app.key.pem
    appPub,  \* app.pub
    reports, \* the files of crash/
    keys,    \* number of the last pair generated
    app,     \* what each application is doing, and the keys it has
    console, \* what each console is doing
    gone,    \* history: the private keys that somebody took out of door/
    raced    \* history: two creators of one pair overlapped, or one was killed
             \* between the files of a pair it was replacing

vars == <<clock, priv, pub, state, session, config, appKey, appPub, reports, keys,
          app, console, gone, raced>>
doorFiles == <<priv, pub, state, session>>
appFiles == <<appKey, appPub>>

Content == {Torn, Absent} \cup 1..MaxKey
Report == [at : 0..MaxClock, to : 1..MaxKey]

TypeOK ==
    /\ clock \in 0..MaxClock
    /\ priv \in Content /\ pub \in Content /\ state \in Content
    /\ config \in Content /\ appKey \in Content /\ appPub \in Content
    /\ session \in BOOLEAN
    /\ reports \subseteq Report
    /\ keys \in 0..MaxKey /\ gone \subseteq 1..keys /\ raced \in BOOLEAN
    /\ app \in [Apps -> [pc : {"off", "priv", "pub", "config", "load", "appkey", "apppub",
                               "new", "up"},
                         made : 0..MaxKey, hook : 0..MaxKey, reporter : 0..MaxKey,
                         window : BOOLEAN]]
    /\ console \in [Consoles -> [pc : {"off", "secret", "state", "priv", "pub", "config", "open"},
                                 it : 0..MaxKey]]

Init ==
    /\ clock = 0
    /\ priv = Absent /\ pub = Absent /\ state = Absent /\ session = FALSE
    /\ config = Absent /\ appKey = Absent /\ appPub = Absent
    /\ reports = {} /\ gone = {} /\ raced = FALSE
    /\ keys = 0
    /\ app = [a \in Apps |-> Off]
    /\ console = [c \in Consoles |-> [pc |-> "off", it |-> 0]]

Holds(f) == f > 0
Exists(f) == f # Absent

\* DoorDir::exists
DoorExists == Exists(priv) /\ Exists(pub)

\* Who has decided to make the pair of the door and has not written both files.
MakingDoor ==
    \/ \E a \in Apps : app[a].pc \in {"priv", "pub"}
    \/ \E c \in Consoles : console[c].pc \in {"secret", "state", "priv", "pub"}
MakingAppKey == \E a \in Apps : app[a].pc \in {"appkey", "apppub"}

-----------------------------------------------------------------------------
\* The application.

AppGoes(a, pc) == app' = [app EXCEPT ![a].pc = pc]

\* Mutant: the keys are made at every start.
FindsNothing == Absent

\* The public key that ensure_crash_keys finds: complete, in config/ or in door/.
Finds == IF Holds(config) THEN config ELSE IF Holds(pub) THEN pub ELSE Absent

\* ensure_crash_keys generates a pair if it finds no public key.
EnsureKeys(a, found) ==
    /\ IF Holds(Finds)
       THEN /\ config' = Finds
            /\ app' = [app EXCEPT ![a] = found]
            /\ UNCHANGED <<keys, raced>>
       ELSE /\ keys < MaxKey
            /\ keys' = keys + 1
            /\ app' = [app EXCEPT ![a].pc = "priv", ![a].made = keys']
            /\ raced' = (raced \/ MakingDoor)
            /\ UNCHANGED config
    /\ UNCHANGED <<clock, doorFiles, appFiles, reports, console, gone>>

\* run_gui makes sure of the keys first of all; bootstrap does it again, and
\* leaves the hook and the reporter with the key they have.
Launch(a) == app[a].pc = "off" /\ EnsureKeys(a, [Off EXCEPT !.pc = "load", !.hook = Finds])

Bootstrap(a) == app[a].pc = "up" /\ EnsureKeys(a, app[a])

\* Mutant: a public half that is there already is not written again.
KeptHalf(key) == IF Exists(pub) THEN pub ELSE key

\* door/it.pub, as either creator writes it over whatever is there.
NewHalf(key) == key

\* With the keys made, an application that has its window goes on as before.
Made(a) ==
    LET done == [app[a] EXCEPT !.made = 0]
    IN  app' = [app EXCEPT ![a] =
                  IF done.window THEN [done EXCEPT !.pc = "up"]
                  ELSE IF done.pc = "config"
                  THEN [done EXCEPT !.pc = "load", !.hook = app[a].made]
                  ELSE [done EXCEPT !.pc = "new"]]

AppWrites(a) ==
    /\ CASE app[a].pc = "priv" ->
               /\ priv' = app[a].made /\ AppGoes(a, "pub")
               /\ UNCHANGED <<pub, config, appFiles>>
         [] app[a].pc = "pub" ->
               /\ pub' = NewHalf(app[a].made) /\ AppGoes(a, "config")
               /\ UNCHANGED <<priv, config, appFiles>>
         [] app[a].pc = "config" ->
               /\ config' = app[a].made /\ Made(a)
               /\ UNCHANGED <<priv, pub, appFiles>>
         [] app[a].pc = "appkey" ->
               /\ appKey' = app[a].made /\ AppGoes(a, "apppub")
               /\ UNCHANGED <<priv, pub, config, appPub>>
         [] app[a].pc = "apppub" ->
               /\ appPub' = app[a].made /\ Made(a)
               /\ UNCHANGED <<priv, pub, config, appKey>>
         [] OTHER -> FALSE
    /\ UNCHANGED <<clock, state, session, reports, keys, console, gone, raced>>

\* A missing public half is written again; any other is left as it is.
CompletesPub(key) == appPub' = IF Exists(appPub) THEN appPub ELSE key

\* load_or_create_app_key, called by the application as rec says it is then.
LoadAppKey(a, rec, next) ==
    IF Holds(appKey)
    THEN /\ CompletesPub(appKey)
         /\ app' = [app EXCEPT ![a] = [rec EXCEPT !.pc = next]]
         /\ UNCHANGED <<keys, raced>>
    ELSE /\ keys < MaxKey
         /\ keys' = keys + 1
         /\ app' = [app EXCEPT ![a] = [rec EXCEPT !.pc = "appkey", !.made = keys']]
         /\ raced' = (raced \/ MakingAppKey)
         /\ UNCHANGED appPub

\* run_gui loads the key of the signatures for its hook.
LoadForHook(a) ==
    /\ app[a].pc = "load"
    /\ LoadAppKey(a, app[a], "new")
    /\ UNCHANGED <<clock, doorFiles, config, appKey, reports, console, gone>>

\* BovedaApp::new reads config/it.pub again, and loads the key again if there is
\* anything in it; for a torn one no report can be encrypted.
New(a) ==
    /\ app[a].pc = "new"
    /\ LET rec == [app[a] EXCEPT !.window = TRUE,
                                 !.reporter = IF Holds(config) THEN config ELSE 0]
       IN  IF Exists(config) THEN LoadAppKey(a, rec, "up")
           ELSE /\ app' = [app EXCEPT ![a] = [rec EXCEPT !.pc = "up"]]
                /\ UNCHANGED <<appPub, keys, raced>>
    /\ UNCHANGED <<clock, doorFiles, config, appKey, reports, console, gone>>

\* save_encrypted_report: the file is named by the second, and a file of that name
\* is overwritten.
Stored(r) == {q \in reports : q.at # r.at} \cup {r}

\* A panic or a logic error.
SaveReport(a) ==
    /\ app[a].pc \in {"new", "up"}
    /\ \E key \in {app[a].hook, app[a].reporter} \ {0} :
          reports' = Stored([at |-> clock, to |-> key])
    /\ UNCHANGED <<clock, doorFiles, config, appFiles, keys, app, console, gone, raced>>

\* decrypt_report
Decrypts(key, r) == r.to = key

\* What is left of a file whose writer is killed: all it was before, or a part.
Left(writing, f) == IF writing THEN {f, Torn} ELSE {f}

\* A pair being replaced is left with one file of each.
Halves(replaced, other) == replaced /\ Exists(other)

AppEnds(a) ==
    /\ app[a].pc # "off"
    /\ priv' \in Left(app[a].pc = "priv", priv)
    /\ pub' \in Left(app[a].pc = "pub", pub)
    /\ config' \in Left(app[a].pc = "config", config)
    /\ appKey' \in Left(app[a].pc = "appkey", appKey)
    /\ appPub' \in Left(app[a].pc = "apppub", appPub)
    /\ raced' = (raced \/ Halves(app[a].pc = "pub", pub) \/ Halves(app[a].pc = "apppub", appPub))
    /\ app' = [app EXCEPT ![a] = Off]
    /\ UNCHANGED <<clock, state, session, reports, keys, console, gone>>

-----------------------------------------------------------------------------
\* The console.

ConsoleGoes(c, pc) == console' = [console EXCEPT ![c].pc = pc]

\* Mutant: configuring the door again is refused by nothing.
SetupAllowedAlways == TRUE

SetupAllowed == ~DoorExists

\* door_setup: it looks for the files, then asks for the user and the password.
Setup(c) ==
    /\ console[c].pc = "off" /\ SetupAllowed
    /\ ConsoleGoes(c, "secret")
    /\ raced' = (raced \/ MakingDoor)
    /\ UNCHANGED <<clock, doorFiles, config, appFiles, reports, keys, app, gone>>

Generate(c) ==
    /\ console[c].pc = "secret" /\ keys < MaxKey
    /\ keys' = keys + 1
    /\ console' = [console EXCEPT ![c] = [pc |-> "state", it |-> keys']]
    /\ UNCHANGED <<clock, doorFiles, config, appFiles, reports, app, gone, raced>>

ConsoleWrites(c) ==
    /\ CASE console[c].pc = "state" ->
               /\ state' = console[c].it /\ ConsoleGoes(c, "priv")
               /\ UNCHANGED <<priv, pub, config>>
         [] console[c].pc = "priv" ->
               /\ priv' = console[c].it /\ ConsoleGoes(c, "pub")
               /\ UNCHANGED <<state, pub, config>>
         [] console[c].pc = "pub" ->
               /\ pub' = NewHalf(console[c].it) /\ ConsoleGoes(c, "config")
               /\ UNCHANGED <<state, priv, config>>
         [] console[c].pc = "config" ->
               /\ config' = console[c].it /\ ConsoleGoes(c, "off")
               /\ UNCHANGED <<state, priv, pub>>
         [] OTHER -> FALSE
    /\ UNCHANGED <<clock, session, appFiles, reports, keys, app, gone, raced>>

\* door_open reads door.state, asks for the password, and then for the private key.
AskToOpen(c) ==
    /\ console[c].pc = "off" /\ DoorExists /\ Holds(state)
    /\ ConsoleGoes(c, "open")
    /\ UNCHANGED <<clock, doorFiles, config, appFiles, reports, keys, app, gone, raced>>

Open(c, key) ==
    /\ console[c].pc = "open"
    /\ session' = (session \/ key = pub)
    /\ ConsoleGoes(c, "off")
    /\ UNCHANGED <<clock, priv, pub, state, config, appFiles, reports, keys, app, gone, raced>>

Revoke ==
    /\ DoorExists /\ session
    /\ session' = FALSE
    /\ UNCHANGED <<clock, priv, pub, state, config, appFiles, reports, keys, app, console,
                   gone, raced>>

ConsoleEnds(c) ==
    /\ console[c].pc # "off"
    /\ state' \in Left(console[c].pc = "state", state)
    /\ priv' \in Left(console[c].pc = "priv", priv)
    /\ pub' \in Left(console[c].pc = "pub", pub)
    /\ config' \in Left(console[c].pc = "config", config)
    /\ raced' = (raced \/ Halves(console[c].pc = "pub", pub))
    /\ console' = [console EXCEPT ![c] = [pc |-> "off", it |-> 0]]
    /\ UNCHANGED <<clock, session, appFiles, reports, keys, app, gone>>

-----------------------------------------------------------------------------
\* The administrator: the directory is removed to make new keys, or the private
\* key is taken off the machine.

DeleteDoor ==
    /\ priv' = Absent /\ pub' = Absent /\ state' = Absent /\ session' = FALSE
    /\ gone' = gone \cup ({priv} \cap 1..keys)
    /\ UNCHANGED <<clock, config, appFiles, reports, keys, app, console, raced>>

TakeKey ==
    /\ Exists(priv)
    /\ priv' = Absent /\ gone' = gone \cup ({priv} \cap 1..keys)
    /\ UNCHANGED <<clock, pub, state, session, config, appFiles, reports, keys, app,
                   console, raced>>

Tick ==
    /\ clock < MaxClock
    /\ clock' = clock + 1
    /\ UNCHANGED <<doorFiles, config, appFiles, reports, keys, app, console, gone, raced>>

Next ==
    \/ \E a \in Apps :
          \/ Launch(a) \/ AppWrites(a) \/ LoadForHook(a) \/ New(a) \/ Bootstrap(a)
          \/ SaveReport(a) \/ AppEnds(a)
    \/ \E c \in Consoles :
          \/ Setup(c) \/ Generate(c) \/ ConsoleWrites(c) \/ AskToOpen(c) \/ ConsoleEnds(c)
          \/ \E key \in 1..keys : Open(c, key)
    \/ Revoke
    \/ DeleteDoor
    \/ TakeKey
    \/ Tick

Spec == Init /\ [][Next]_vars

-----------------------------------------------------------------------------
\* The two files of a pair belong together, of the door and of the application,
\* whatever was removed or whoever was killed on the way, unless two processes
\* made the pair at the same time or one died replacing half of it.
KeyPairsMatch ==
    raced \/ /\ ~MakingDoor /\ Holds(priv) /\ Holds(pub) => priv = pub
             /\ ~MakingAppKey /\ Holds(appKey) /\ Holds(appPub) => appKey = appPub

\* The private key that reads a report is in the door, unless somebody took it from
\* there: no start of the application and no configuration of the door replaces a
\* key that a report on disk needs.
ReportsStayReadable ==
    raced \/ \A r \in reports : \E key \in {priv} \cup gone : Decrypts(key, r)

\* Against ITConstructedDoor.md:37 ("`vault-it door setup` (una sola vez)"), the keys
\* that an application made keep the console out: it refuses to configure a door that
\* has keys and to open one that has no state, whatever consoles and applications do
\* and wherever they are killed, until the directory or the private key is taken away.
AppMadeKeys == DoorExists /\ ~Exists(state) /\ \A c \in Consoles : console[c].pc = "off"
AppKeysShutTheConsoleOut ==
    [][AppMadeKeys => priv' = Absent \/ (AppMadeKeys' /\ (session' => session))]_vars
=============================================================================
