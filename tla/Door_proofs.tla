------------------------------ MODULE Door_proofs ------------------------------
(***************************************************************************)
(* Proofs about the key files and the crash reports, for any number of     *)
(* applications, consoles and key pairs.                                   *)
(***************************************************************************)
EXTENDS Door, TLAPS

\* The contents of files and records by the numbers given out so far.
File == {Torn, Absent} \cup 1..keys
AppPcs == {"off", "priv", "pub", "config", "load", "appkey", "apppub", "new", "up"}
Writing == {"priv", "pub", "config", "appkey", "apppub"}
AppRec == [pc : AppPcs, made : 0..keys, hook : 0..keys, reporter : 0..keys, window : BOOLEAN]
ConsoleRec == [pc : {"off", "secret", "state", "priv", "pub", "config", "open"}, it : 0..keys]

FilesType ==
    /\ priv \in File /\ pub \in File /\ state \in File
    /\ config \in File /\ appKey \in File /\ appPub \in File
AppsType ==
    /\ app \in [Apps -> AppRec]
    /\ \A a \in Apps : app[a].pc \in Writing => app[a].made > 0
ConsolesType ==
    /\ console \in [Consoles -> ConsoleRec]
    /\ \A c \in Consoles : console[c].pc \in {"state", "priv", "pub", "config"} => console[c].it > 0
RestType ==
    /\ Limits
    /\ clock \in 0..MaxClock /\ keys \in 0..MaxKey
    /\ session \in BOOLEAN /\ raced \in BOOLEAN
    /\ reports \subseteq [at : 0..MaxClock, to : 1..keys]
    /\ gone \subseteq 1..keys

IndType == FilesType /\ AppsType /\ ConsolesType /\ RestType

LEMMA IndTypeIsStronger == IndType => TypeOK
<1> SUFFICES ASSUME IndType PROVE TypeOK
  OBVIOUS
<1>1. keys \in 0..MaxKey /\ 0..keys \subseteq 0..MaxKey /\ 1..keys \subseteq 1..MaxKey
  BY DEF IndType, RestType, Limits
<1>2. app \in [Apps -> [pc : AppPcs, made : 0..MaxKey, hook : 0..MaxKey, reporter : 0..MaxKey,
                        window : BOOLEAN]]
  BY <1>1 DEF IndType, AppsType, AppRec
<1>3. console \in [Consoles -> [pc : {"off", "secret", "state", "priv", "pub", "config", "open"},
                                it : 0..MaxKey]]
  BY <1>1 DEF IndType, ConsolesType, ConsoleRec
<1>4. reports \subseteq [at : 0..MaxClock, to : 1..MaxKey]
  BY <1>1 DEF IndType, RestType
<1> QED BY <1>1, <1>2, <1>3, <1>4
        DEF IndType, FilesType, RestType, File, TypeOK, Content, Report, AppPcs

\* Numbers once given out stay so.
LEMMA NumbersGrow ==
  ASSUME IndType, keys' \in {keys, keys + 1}
  PROVE  /\ File \subseteq File' /\ AppRec \subseteq AppRec' /\ ConsoleRec \subseteq ConsoleRec'
         /\ 0..keys \subseteq 0..keys' /\ 1..keys \subseteq 1..keys' /\ keys \in Nat /\ keys' \in Nat
<1>1. keys \in Nat /\ keys' \in Nat /\ 0..keys \subseteq 0..keys' /\ 1..keys \subseteq 1..keys'
  BY DEF IndType, RestType, Limits
<1> QED BY <1>1 DEF File, AppRec, ConsoleRec

-----------------------------------------------------------------------------
\* What the steps make of the record of an application: fields that change, and the
\* others as they were.
Like(rec, old) == rec.hook = old.hook /\ rec.reporter = old.reporter /\ rec.window = old.window

LEMMA FindsType == ASSUME IndType PROVE Finds \in 0..keys
BY DEF IndType, FilesType, File, Finds, Holds, Absent, Torn, RestType, Limits

\* EnsureKeys that finds a key, and the one that makes a pair.
LEMMA EnsureEffect ==
  ASSUME IndType, NEW a \in Apps, NEW found \in AppRec, EnsureKeys(a, found)
  PROVE  \/ /\ Holds(Finds) /\ config' = Finds /\ keys' = keys /\ raced' = raced
            /\ app' = [app EXCEPT ![a] = found]
         \/ /\ ~Holds(Finds) /\ config' = config /\ keys' = keys + 1 /\ keys' \in 0..MaxKey
            /\ raced' = (raced \/ MakingDoor)
            /\ \E rec \in AppRec' : /\ app' = [app EXCEPT ![a] = rec]
                                    /\ rec.pc = "priv" /\ rec.made = keys + 1
                                    /\ Like(rec, app[a])
<1>1. CASE Holds(Finds)
  BY <1>1 DEF EnsureKeys
<1>2. CASE ~Holds(Finds)
  <2> DEFINE r1 == [app[a] EXCEPT !.pc = "priv"]
  <2> DEFINE r2 == [r1 EXCEPT !.made = keys + 1]
  <2>0. app \in [Apps -> AppRec] /\ app[a] \in AppRec
    BY DEF IndType, AppsType
  <2>1. /\ keys < MaxKey /\ keys' = keys + 1
        /\ app' = [app EXCEPT ![a].pc = "priv", ![a].made = keys'] /\ config' = config
        /\ raced' = (raced \/ MakingDoor)
    BY <1>2 DEF EnsureKeys
  <2>2. keys' \in 0..MaxKey /\ AppRec \subseteq AppRec' /\ keys + 1 \in 0..keys'
    BY <2>1, NumbersGrow DEF IndType, RestType, Limits
  <2>3. r1 \in AppRec' /\ Like(r1, app[a])
    BY <2>0, <2>2 DEF AppRec, AppPcs, Like
  <2>4. app' = [app EXCEPT ![a] = r2]
    BY <2>0, <2>1 DEF AppRec
  <2> HIDE DEF r1
  <2>5. r2 \in AppRec' /\ r2.pc = r1.pc /\ r2.made = keys + 1 /\ Like(r2, r1)
    BY <2>2, <2>3 DEF AppRec, Like
  <2>6. r1.pc = "priv"
    BY <2>0 DEF r1, AppRec
  <2> HIDE DEF r2
  <2>7. Like(r2, app[a])
    BY <2>3, <2>5 DEF Like
  <2> QED BY <1>2, <2>1, <2>2, <2>4, <2>5, <2>6, <2>7
<1> QED BY <1>1, <1>2

LEMMA PcEffect ==
  ASSUME IndType, NEW a \in Apps, NEW pc \in AppPcs, AppGoes(a, pc)
  PROVE  \E rec \in AppRec : /\ app' = [app EXCEPT ![a] = rec]
                             /\ rec.pc = pc /\ rec.made = app[a].made /\ Like(rec, app[a])
<1> DEFINE r == [app[a] EXCEPT !.pc = pc]
<1>1. app \in [Apps -> AppRec] /\ app[a] \in AppRec
  BY DEF IndType, AppsType
<1>2. app' = [app EXCEPT ![a] = r]
  BY <1>1 DEF AppGoes
<1>3. r \in AppRec /\ r.pc = pc /\ r.made = app[a].made /\ Like(r, app[a])
  BY <1>1 DEF AppRec, Like
<1> QED BY <1>2, <1>3

\* An application done with a pair goes on, and its hook may encrypt for the new one.
LEMMA MadeEffect ==
  ASSUME IndType, NEW a \in Apps, Made(a)
  PROVE  \E rec \in AppRec :
            /\ app' = [app EXCEPT ![a] = rec]
            /\ rec.pc \in {"up", "load", "new"} /\ rec.made = 0
            /\ rec.reporter = app[a].reporter
            /\ rec.hook = app[a].hook \/ (app[a].pc = "config" /\ rec.hook = app[a].made)
<1> DEFINE d == [app[a] EXCEPT !.made = 0]
<1>1. app \in [Apps -> AppRec] /\ app[a] \in AppRec /\ 0 \in 0..keys
  BY DEF IndType, AppsType, RestType, Limits
<1>2. /\ d \in AppRec /\ d.made = 0 /\ d.pc = app[a].pc /\ d.hook = app[a].hook
      /\ d.reporter = app[a].reporter
  BY <1>1 DEF AppRec
<1> DEFINE up == [d EXCEPT !.pc = "up"]
           load == [d EXCEPT !.pc = "load", !.hook = app[a].made]
           new == [d EXCEPT !.pc = "new"]
<1>3. /\ \/ app' = [app EXCEPT ![a] = up]
         \/ d.pc = "config" /\ app' = [app EXCEPT ![a] = load]
         \/ app' = [app EXCEPT ![a] = new]
  BY DEF Made
<1> HIDE DEF d
<1>4. up \in AppRec /\ up.pc = "up" /\ up.made = 0 /\ up.reporter = d.reporter /\ up.hook = d.hook
  BY <1>2 DEF AppRec, AppPcs
<1>5. new \in AppRec /\ new.pc = "new" /\ new.made = 0 /\ new.reporter = d.reporter
        /\ new.hook = d.hook
  BY <1>2 DEF AppRec, AppPcs
<1>6. app[a].made \in 0..keys
  BY <1>1 DEF AppRec
<1>7. load \in AppRec /\ load.pc = "load" /\ load.made = 0 /\ load.reporter = d.reporter
        /\ load.hook = app[a].made
  BY <1>2, <1>6 DEF AppRec, AppPcs
<1> HIDE DEF up, load, new
<1> QED BY <1>2, <1>3, <1>4, <1>5, <1>7

\* load_or_create_app_key: the key is there, or a pair is begun.
LEMMA LoadEffect ==
  ASSUME IndType, NEW a \in Apps, NEW old \in AppRec, NEW next \in {"new", "up"},
         LoadAppKey(a, old, next)
  PROVE  \/ /\ Holds(appKey) /\ appPub' = (IF Exists(appPub) THEN appPub ELSE appKey)
            /\ keys' = keys /\ raced' = raced
            /\ \E rec \in AppRec : /\ app' = [app EXCEPT ![a] = rec]
                                   /\ rec.pc = next /\ rec.made = old.made /\ Like(rec, old)
         \/ /\ ~Holds(appKey) /\ appPub' = appPub /\ keys' = keys + 1 /\ keys' \in 0..MaxKey
            /\ raced' = (raced \/ MakingAppKey)
            /\ \E rec \in AppRec' : /\ app' = [app EXCEPT ![a] = rec]
                                    /\ rec.pc = "appkey" /\ rec.made = keys + 1
                                    /\ Like(rec, old)
<1>1. CASE Holds(appKey)
  <2> DEFINE r == [old EXCEPT !.pc = next]
  <2>1. app' = [app EXCEPT ![a] = r]
    BY <1>1 DEF LoadAppKey
  <2>2. r \in AppRec /\ r.pc = next /\ r.made = old.made /\ Like(r, old)
    BY DEF AppRec, AppPcs, Like
  <2> QED BY <1>1, <2>1, <2>2 DEF LoadAppKey, CompletesPub
<1>2. CASE ~Holds(appKey)
  <2> DEFINE r1 == [old EXCEPT !.pc = "appkey"]
  <2> DEFINE r2 == [r1 EXCEPT !.made = keys + 1]
  <2>1. /\ keys < MaxKey /\ keys' = keys + 1 /\ appPub' = appPub
        /\ app' = [app EXCEPT ![a] = [old EXCEPT !.pc = "appkey", !.made = keys']]
        /\ raced' = (raced \/ MakingAppKey)
    BY <1>2 DEF LoadAppKey
  <2>2. keys' \in 0..MaxKey /\ AppRec \subseteq AppRec' /\ keys + 1 \in 0..keys'
    BY <2>1, NumbersGrow DEF IndType, RestType, Limits
  <2>3. r1 \in AppRec' /\ Like(r1, old)
    BY <2>2 DEF AppRec, AppPcs, Like
  <2>4. app' = [app EXCEPT ![a] = r2]
    BY <2>1 DEF AppRec
  <2>6. r1.pc = "appkey"
    BY DEF AppRec
  <2> HIDE DEF r1
  <2>5. r2 \in AppRec' /\ r2.pc = r1.pc /\ r2.made = keys + 1 /\ Like(r2, r1)
    BY <2>2, <2>3 DEF AppRec, Like
  <2> HIDE DEF r2
  <2>7. Like(r2, old)
    BY <2>3, <2>5 DEF Like
  <2> QED BY <1>2, <2>1, <2>2, <2>4, <2>5, <2>6, <2>7
<1> QED BY <1>1, <1>2

\* BovedaApp::new reads the public key again.
LEMMA NewEffect ==
  ASSUME IndType, NEW a \in Apps, New(a)
  PROVE  \E old \in AppRec :
            /\ old.hook = app[a].hook /\ old.made = app[a].made
            /\ old.reporter = (IF Holds(config) THEN config ELSE 0)
            /\ \/ LoadAppKey(a, old, "up")
               \/ /\ UNCHANGED <<appPub, keys, raced>>
                  /\ \E rec \in AppRec : /\ app' = [app EXCEPT ![a] = rec]
                                         /\ rec.pc = "up" /\ rec.made = old.made
                                         /\ Like(rec, old)
<1> DEFINE rep == IF Holds(config) THEN config ELSE 0
<1> DEFINE r == [app[a] EXCEPT !.window = TRUE, !.reporter = rep]
<1> DEFINE u == [r EXCEPT !.pc = "up"]
<1>1. app \in [Apps -> AppRec] /\ app[a] \in AppRec
  BY DEF IndType, AppsType
<1>2. rep \in 0..keys
  BY DEF IndType, FilesType, File, Holds, Absent, Torn, RestType, Limits
<1>3. \/ LoadAppKey(a, r, "up")
      \/ app' = [app EXCEPT ![a] = u] /\ UNCHANGED <<appPub, keys, raced>>
  BY DEF New
<1> HIDE DEF rep
<1>4. r \in AppRec /\ r.hook = app[a].hook /\ r.made = app[a].made /\ r.reporter = rep
  BY <1>1, <1>2 DEF AppRec
<1> HIDE DEF r
<1>5. u \in AppRec /\ u.pc = "up" /\ u.made = r.made /\ Like(u, r)
  BY <1>4 DEF AppRec, AppPcs, Like
<1> HIDE DEF u
<1> QED BY <1>3, <1>4, <1>5 DEF rep

-----------------------------------------------------------------------------
\* One application, or one console, has a new record; the others are as they were.
LEMMA AppsKeep ==
  ASSUME IndType, keys' \in {keys, keys + 1}, NEW a \in Apps, NEW rec \in AppRec',
         app' = [app EXCEPT ![a] = rec], rec.pc \in Writing => rec.made > 0
  PROVE  AppsType'
<1>1. app \in [Apps -> AppRec] /\ AppRec \subseteq AppRec'
  BY NumbersGrow DEF IndType, AppsType
<1>2. app' \in [Apps -> AppRec']
  BY <1>1
<1>3. ASSUME NEW b \in Apps, app'[b].pc \in Writing
      PROVE  app'[b].made > 0
  <2>1. CASE b = a
    BY <1>1, <1>3, <2>1
  <2>2. CASE b # a
    BY <1>1, <1>3, <2>2 DEF IndType, AppsType
  <2> QED BY <2>1, <2>2
<1> QED BY <1>2, <1>3 DEF AppsType

LEMMA ConsolesKeep ==
  ASSUME IndType, keys' \in {keys, keys + 1}, NEW c \in Consoles, NEW rec \in ConsoleRec',
         console' = [console EXCEPT ![c] = rec],
         rec.pc \in {"state", "priv", "pub", "config"} => rec.it > 0
  PROVE  ConsolesType'
<1>1. console \in [Consoles -> ConsoleRec] /\ ConsoleRec \subseteq ConsoleRec'
  BY NumbersGrow DEF IndType, ConsolesType
<1>2. console' \in [Consoles -> ConsoleRec']
  BY <1>1
<1>3. ASSUME NEW d \in Consoles, console'[d].pc \in {"state", "priv", "pub", "config"}
      PROVE  console'[d].it > 0
  <2>1. CASE d = c
    BY <1>1, <1>3, <2>1
  <2>2. CASE d # c
    BY <1>1, <1>3, <2>2 DEF IndType, ConsolesType
  <2> QED BY <2>1, <2>2
<1> QED BY <1>2, <1>3 DEF ConsolesType

LEMMA AppsStay ==
  ASSUME IndType, keys' \in {keys, keys + 1}, UNCHANGED app
  PROVE  AppsType'
BY NumbersGrow DEF IndType, AppsType

LEMMA ConsolesStay ==
  ASSUME IndType, keys' \in {keys, keys + 1}, UNCHANGED console
  PROVE  ConsolesType'
BY NumbersGrow DEF IndType, ConsolesType

\* The number of a reader or writer may go to a file.
LEMMA FilesStay ==
  ASSUME IndType, keys' \in {keys, keys + 1},
         priv' \in File', pub' \in File', state' \in File', config' \in File',
         appKey' \in File', appPub' \in File'
  PROVE  FilesType'
BY DEF FilesType

LEMMA FilesIn ==
  ASSUME IndType, keys' \in {keys, keys + 1}
  PROVE  /\ priv \in File' /\ pub \in File' /\ state \in File' /\ config \in File'
         /\ appKey \in File' /\ appPub \in File' /\ Torn \in File' /\ Absent \in File'
         /\ 0..keys \subseteq File'
<1>1. File \subseteq File' /\ keys \in Nat
  BY NumbersGrow
<1>2. 0..keys \subseteq File
  BY <1>1 DEF File, Absent
<1> QED BY <1>1, <1>2 DEF IndType, FilesType, File

LEMMA RestStay ==
  ASSUME IndType, keys' \in {keys, keys + 1}, keys' \in 0..MaxKey,
         clock' \in 0..MaxClock, session' \in BOOLEAN, raced' \in BOOLEAN,
         reports' \subseteq [at : 0..MaxClock, to : 1..keys], gone' \subseteq 1..keys
  PROVE  RestType'
<1>1. 1..keys \subseteq 1..keys'
  BY NumbersGrow
<1>2. [at : 0..MaxClock, to : 1..keys] \subseteq [at : 0..MaxClock, to : 1..keys']
  BY <1>1
<1>3. Limits'
  BY DEF IndType, RestType, Limits
<1>4. reports' \subseteq [at : 0..MaxClock, to : 1..keys'] /\ gone' \subseteq 1..keys'
  BY <1>1, <1>2
<1> QED BY <1>3, <1>4 DEF RestType

LEMMA ConsoleEffect ==
  ASSUME IndType, NEW c \in Consoles, NEW pc \in {"off", "secret", "state", "priv", "pub", "config", "open"},
         ConsoleGoes(c, pc)
  PROVE  \E rec \in ConsoleRec : /\ console' = [console EXCEPT ![c] = rec]
                                 /\ rec.pc = pc /\ rec.it = console[c].it
<1> DEFINE r == [console[c] EXCEPT !.pc = pc]
<1>1. console \in [Consoles -> ConsoleRec] /\ console[c] \in ConsoleRec
  BY DEF IndType, ConsolesType
<1>2. console' = [console EXCEPT ![c] = r]
  BY <1>1 DEF ConsoleGoes
<1>3. r \in ConsoleRec /\ r.pc = pc /\ r.it = console[c].it
  BY <1>1 DEF ConsoleRec
<1> QED BY <1>2, <1>3

-----------------------------------------------------------------------------
\* What an application writes next is a number it made, and it goes on.
LEMMA WritesEffect ==
  ASSUME IndType, NEW a \in Apps, AppWrites(a)
  PROVE  /\ app[a].pc \in Writing /\ app[a].made \in 1..keys
         /\ UNCHANGED <<clock, state, session, reports, keys, console, gone, raced>>
         /\ \E rec \in AppRec :
              /\ app' = [app EXCEPT ![a] = rec]
              /\ rec.reporter = app[a].reporter
              /\ rec.hook = app[a].hook \/ (app[a].pc = "config" /\ rec.hook = app[a].made)
              /\ \/ /\ app[a].pc = "priv" /\ priv' = app[a].made /\ rec.pc = "pub"
                    /\ rec.made = app[a].made /\ UNCHANGED <<pub, config, appFiles>>
                 \/ /\ app[a].pc = "pub" /\ pub' = app[a].made /\ rec.pc = "config"
                    /\ rec.made = app[a].made /\ UNCHANGED <<priv, config, appFiles>>
                 \/ /\ app[a].pc = "config" /\ config' = app[a].made
                    /\ rec.pc \in {"up", "load", "new"} /\ UNCHANGED <<priv, pub, appFiles>>
                 \/ /\ app[a].pc = "appkey" /\ appKey' = app[a].made /\ rec.pc = "apppub"
                    /\ rec.made = app[a].made /\ UNCHANGED <<priv, pub, config, appPub>>
                 \/ /\ app[a].pc = "apppub" /\ appPub' = app[a].made
                    /\ rec.pc \in {"up", "load", "new"}
                    /\ UNCHANGED <<priv, pub, config, appKey>>
<1>1. app[a] \in AppRec /\ app[a].pc \in Writing
  BY DEF AppWrites, Writing, IndType, AppsType
<1>2. app[a].made \in 1..keys
  BY <1>1 DEF IndType, AppsType, AppRec, RestType, Limits
<1>3. UNCHANGED <<clock, state, session, reports, keys, console, gone, raced>>
  BY DEF AppWrites
<1>4. CASE app[a].pc = "priv"
  <2>1. priv' = app[a].made /\ AppGoes(a, "pub") /\ UNCHANGED <<pub, config, appFiles>>
    BY <1>4 DEF AppWrites
  <2>2. PICK rec \in AppRec : /\ app' = [app EXCEPT ![a] = rec] /\ rec.pc = "pub"
                              /\ rec.made = app[a].made /\ Like(rec, app[a])
    BY <2>1, PcEffect DEF AppPcs
  <2> QED BY <1>1, <1>2, <1>3, <1>4, <2>1, <2>2 DEF Like
<1>5. CASE app[a].pc = "pub"
  <2>1. pub' = app[a].made /\ AppGoes(a, "config") /\ UNCHANGED <<priv, config, appFiles>>
    BY <1>5 DEF AppWrites, NewHalf
  <2>2. PICK rec \in AppRec : /\ app' = [app EXCEPT ![a] = rec] /\ rec.pc = "config"
                              /\ rec.made = app[a].made /\ Like(rec, app[a])
    BY <2>1, PcEffect DEF AppPcs
  <2> QED BY <1>1, <1>2, <1>3, <1>5, <2>1, <2>2 DEF Like
<1>6. CASE app[a].pc = "config"
  <2>1. config' = app[a].made /\ Made(a) /\ UNCHANGED <<priv, pub, appFiles>>
    BY <1>6 DEF AppWrites
  <2> QED BY <1>1, <1>2, <1>3, <1>6, <2>1, MadeEffect
<1>7. CASE app[a].pc = "appkey"
  <2>1. appKey' = app[a].made /\ AppGoes(a, "apppub") /\ UNCHANGED <<priv, pub, config, appPub>>
    BY <1>7 DEF AppWrites
  <2>2. PICK rec \in AppRec : /\ app' = [app EXCEPT ![a] = rec] /\ rec.pc = "apppub"
                              /\ rec.made = app[a].made /\ Like(rec, app[a])
    BY <2>1, PcEffect DEF AppPcs
  <2> QED BY <1>1, <1>2, <1>3, <1>7, <2>1, <2>2 DEF Like
<1>8. CASE app[a].pc = "apppub"
  <2>1. appPub' = app[a].made /\ Made(a) /\ UNCHANGED <<priv, pub, config, appKey>>
    BY <1>8 DEF AppWrites
  <2> QED BY <1>1, <1>2, <1>3, <1>8, <2>1, MadeEffect
<1> QED BY <1>1, <1>4, <1>5, <1>6, <1>7, <1>8 DEF Writing

\* What the console writes next.
LEMMA ConsoleWritesEffect ==
  ASSUME IndType, NEW c \in Consoles, ConsoleWrites(c)
  PROVE  /\ console[c].it \in 1..keys
         /\ UNCHANGED <<clock, session, appFiles, reports, keys, app, gone, raced>>
         /\ \E rec \in ConsoleRec :
              /\ console' = [console EXCEPT ![c] = rec] /\ rec.it = console[c].it
              /\ \/ /\ console[c].pc = "state" /\ state' = console[c].it /\ rec.pc = "priv"
                    /\ UNCHANGED <<priv, pub, config>>
                 \/ /\ console[c].pc = "priv" /\ priv' = console[c].it /\ rec.pc = "pub"
                    /\ UNCHANGED <<state, pub, config>>
                 \/ /\ console[c].pc = "pub" /\ pub' = console[c].it /\ rec.pc = "config"
                    /\ UNCHANGED <<state, priv, config>>
                 \/ /\ console[c].pc = "config" /\ config' = console[c].it /\ rec.pc = "off"
                    /\ UNCHANGED <<state, priv, pub>>
<1>1. console[c] \in ConsoleRec /\ console[c].pc \in {"state", "priv", "pub", "config"}
  BY DEF ConsoleWrites, IndType, ConsolesType
<1>2. console[c].it \in 1..keys
  BY <1>1 DEF IndType, ConsolesType, ConsoleRec, RestType, Limits
<1>3. UNCHANGED <<clock, session, appFiles, reports, keys, app, gone, raced>>
  BY DEF ConsoleWrites
<1>4. CASE console[c].pc = "state"
  BY <1>1, <1>2, <1>3, <1>4, ConsoleEffect DEF ConsoleWrites
<1>5. CASE console[c].pc = "priv"
  BY <1>1, <1>2, <1>3, <1>5, ConsoleEffect DEF ConsoleWrites
<1>6. CASE console[c].pc = "pub"
  BY <1>1, <1>2, <1>3, <1>6, ConsoleEffect DEF ConsoleWrites, NewHalf
<1>7. CASE console[c].pc = "config"
  BY <1>1, <1>2, <1>3, <1>7, ConsoleEffect DEF ConsoleWrites
<1> QED BY <1>1, <1>4, <1>5, <1>6, <1>7

-----------------------------------------------------------------------------
\* What an application or a console that ends leaves.
LEMMA LeftType ==
  ASSUME NEW w \in BOOLEAN, NEW f, NEW g, g \in Left(w, f)
  PROVE  (g = f \/ (w /\ g = Torn)) /\ (Holds(g) => g = f)
<1>1. g = f \/ (w /\ g = Torn)
  BY DEF Left
<1> QED BY <1>1 DEF Holds, Torn

LEMMA InitType == Limits /\ Init => IndType
<1> SUFFICES ASSUME Limits, Init PROVE IndType
  OBVIOUS
<1>1. FilesType
  BY DEF Init, FilesType, File
<1>2. AppsType
  <2>1. app = [a \in Apps |-> Off]
    BY DEF Init
  <2>2. 0 \in 0..keys
    BY DEF Init
  <2>3. Off \in AppRec /\ Off.pc \notin Writing
    BY <2>2 DEF Off, AppRec, AppPcs, Writing
  <2> QED BY <2>1, <2>3 DEF AppsType
<1>3. ConsolesType
  <2>1. console = [c \in Consoles |-> [pc |-> "off", it |-> 0]]
    BY DEF Init
  <2>2. 0 \in 0..keys
    BY DEF Init
  <2> QED BY <2>1, <2>2 DEF ConsolesType, ConsoleRec
<1>4. RestType
  <2>1. clock \in 0..MaxClock /\ keys \in 0..MaxKey
    BY DEF Init, Limits
  <2>2. session \in BOOLEAN /\ raced \in BOOLEAN /\ reports = {} /\ gone = {}
    BY DEF Init
  <2> QED BY <2>1, <2>2 DEF RestType
<1> QED BY <1>1, <1>2, <1>3, <1>4 DEF IndType

LEMMA TypeEnsure ==
  ASSUME IndType, NEW a \in Apps, NEW found \in AppRec, EnsureKeys(a, found),
         found.pc \notin Writing
  PROVE  IndType'
<1>1. UNCHANGED <<clock, doorFiles, appFiles, reports, console, gone>>
  BY DEF EnsureKeys
<1>2. keys' \in {keys, keys + 1} /\ keys' \in 0..MaxKey /\ raced' \in BOOLEAN
  BY EnsureEffect DEF IndType, RestType
<1>3. config' \in File'
  BY <1>2, EnsureEffect, FindsType, FilesIn
<1>4. FilesType'
  BY <1>1, <1>2, <1>3, FilesIn, FilesStay DEF doorFiles, appFiles
<1>5. AppsType'
  <2>1. CASE keys' = keys /\ app' = [app EXCEPT ![a] = found]
    BY <1>2, <2>1, NumbersGrow, AppsKeep
  <2>2. ASSUME NEW rec \in AppRec', app' = [app EXCEPT ![a] = rec], rec.made = keys + 1
        PROVE  AppsType'
    <3>1. rec.made > 0
      BY <2>2, <1>2, NumbersGrow
    <3> QED BY <1>2, <2>2, <3>1, AppsKeep
  <2> QED BY <2>1, <2>2, EnsureEffect
<1>6. ConsolesType'
  BY <1>1, <1>2, ConsolesStay
<1>7. RestType'
  BY <1>1, <1>2, RestStay DEF IndType, RestType, doorFiles
<1> QED BY <1>4, <1>5, <1>6, <1>7 DEF IndType

LEMMA TypeLoad ==
  ASSUME IndType, NEW a \in Apps, NEW old \in AppRec, NEW next \in {"new", "up"},
         LoadAppKey(a, old, next),
         UNCHANGED <<clock, doorFiles, config, appKey, reports, console, gone>>
  PROVE  IndType'
<1>2. keys' \in {keys, keys + 1} /\ keys' \in 0..MaxKey /\ raced' \in BOOLEAN
  BY LoadEffect DEF IndType, RestType
<1>3. appPub' \in File'
  BY <1>2, LoadEffect, FilesIn
<1>4. FilesType'
  BY <1>2, <1>3, FilesIn, FilesStay DEF doorFiles
<1>5. AppsType'
  <2>1. ASSUME NEW rec \in AppRec, keys' = keys, app' = [app EXCEPT ![a] = rec], rec.pc = next
        PROVE  AppsType'
    BY <1>2, <2>1, NumbersGrow, AppsKeep DEF Writing
  <2>2. ASSUME NEW rec \in AppRec', app' = [app EXCEPT ![a] = rec], rec.made = keys + 1
        PROVE  AppsType'
    <3>1. rec.made > 0
      BY <2>2, <1>2, NumbersGrow
    <3> QED BY <1>2, <2>2, <3>1, AppsKeep
  <2> QED BY <2>1, <2>2, LoadEffect
<1>6. ConsolesType'
  BY <1>2, ConsolesStay
<1>7. RestType'
  BY <1>2, RestStay DEF IndType, RestType, doorFiles
<1> QED BY <1>4, <1>5, <1>6, <1>7 DEF IndType

\* A launch with the key found.
LEMMA LaunchFound == ASSUME IndType
                     PROVE  LET found == [Off EXCEPT !.pc = "load", !.hook = Finds]
                            IN  /\ found \in AppRec /\ found.pc = "load" /\ found.hook = Finds
                                /\ found.reporter = 0 /\ found.made = 0
<1>1. Finds \in 0..keys /\ 0 \in 0..keys
  BY FindsType DEF IndType, RestType, Limits
<1> QED BY <1>1 DEF Off, AppRec, AppPcs

LEMMA TypeApp ==
  ASSUME IndType, NEW a \in Apps,
         \/ Launch(a) \/ AppWrites(a) \/ LoadForHook(a) \/ New(a) \/ Bootstrap(a)
         \/ SaveReport(a) \/ AppEnds(a)
  PROVE  IndType'
<1>0. app[a] \in AppRec /\ keys \in {keys, keys + 1} /\ keys \in 0..MaxKey
  BY DEF IndType, AppsType, RestType
<1>1. CASE Launch(a)
  BY <1>1, LaunchFound, TypeEnsure DEF Launch, Writing
<1>2. CASE AppWrites(a)
  <2>1. /\ app[a].made \in 1..keys /\ 1..keys \subseteq 0..keys
        /\ UNCHANGED <<clock, state, session, reports, keys, console, gone, raced>>
    BY <1>2, WritesEffect
  <2>2. /\ priv' \in {priv, app[a].made} /\ pub' \in {pub, app[a].made}
        /\ config' \in {config, app[a].made}
        /\ appKey' \in {appKey, app[a].made} /\ appPub' \in {appPub, app[a].made}
    BY <1>2, WritesEffect DEF appFiles
  <2>3. FilesType'
    BY <1>0, <2>1, <2>2, FilesIn, FilesStay
  <2>4. AppsType'
    <3>1. PICK rec \in AppRec : /\ app' = [app EXCEPT ![a] = rec]
                                /\ rec.pc \in Writing => rec.made = app[a].made
      BY <1>2, WritesEffect DEF Writing
    <3>2. rec \in AppRec' /\ (rec.pc \in Writing => rec.made > 0)
      BY <1>0, <2>1, <3>1, NumbersGrow
    <3> QED BY <1>0, <2>1, <3>1, <3>2, AppsKeep
  <2>5. ConsolesType'
    BY <1>0, <2>1, ConsolesStay
  <2>6. RestType'
    BY <1>0, <2>1, RestStay DEF IndType, RestType
  <2> QED BY <2>3, <2>4, <2>5, <2>6 DEF IndType
<1>3. CASE LoadForHook(a)
  BY <1>0, <1>3, TypeLoad DEF LoadForHook
<1>4. CASE New(a)
  <2>0. UNCHANGED <<clock, doorFiles, config, appKey, reports, console, gone>>
    BY <1>4 DEF New
  <2>1. ASSUME NEW old \in AppRec, LoadAppKey(a, old, "up") PROVE IndType'
    BY <2>0, <2>1, TypeLoad
  <2>2. ASSUME UNCHANGED <<appPub, keys, raced>>, NEW rec \in AppRec,
               app' = [app EXCEPT ![a] = rec], rec.pc = "up"
        PROVE  IndType'
    <3>1. FilesType'
      BY <1>0, <2>0, <2>2, FilesIn, FilesStay DEF doorFiles
    <3>2. AppsType'
      BY <1>0, <2>2, NumbersGrow, AppsKeep DEF Writing
    <3>3. ConsolesType'
      BY <1>0, <2>0, <2>2, ConsolesStay
    <3>4. RestType'
      BY <1>0, <2>0, <2>2, RestStay DEF IndType, RestType, doorFiles
    <3> QED BY <3>1, <3>2, <3>3, <3>4 DEF IndType
  <2> QED BY <1>4, <2>1, <2>2, NewEffect
<1>5. CASE Bootstrap(a)
  BY <1>0, <1>5, TypeEnsure DEF Bootstrap, Writing
<1>6. CASE SaveReport(a)
  <2>1. UNCHANGED <<clock, doorFiles, config, appFiles, keys, app, console, gone, raced>>
    BY <1>6 DEF SaveReport
  <2>2. PICK key \in {app[a].hook, app[a].reporter} \ {0} :
           reports' = Stored([at |-> clock, to |-> key])
    BY <1>6 DEF SaveReport
  <2>3. key \in 1..keys
    BY <1>0, <2>2 DEF AppRec, RestType, Limits, IndType
  <2>4. reports' \subseteq [at : 0..MaxClock, to : 1..keys]
    BY <2>2, <2>3 DEF Stored, IndType, RestType
  <2>5. FilesType'
    BY <1>0, <2>1, FilesIn, FilesStay DEF doorFiles, appFiles
  <2>6. AppsType' /\ ConsolesType'
    BY <1>0, <2>1, AppsStay, ConsolesStay
  <2>7. RestType'
    BY <1>0, <2>1, <2>4, RestStay DEF IndType, RestType, doorFiles
  <2> QED BY <2>5, <2>6, <2>7 DEF IndType
<1>7. CASE AppEnds(a)
  <2>1. UNCHANGED <<clock, state, session, reports, keys, console, gone>>
    BY <1>7 DEF AppEnds
  <2>2. /\ priv' \in {priv, Torn} /\ pub' \in {pub, Torn} /\ config' \in {config, Torn}
        /\ appKey' \in {appKey, Torn} /\ appPub' \in {appPub, Torn}
    BY <1>7 DEF AppEnds, Left
  <2>3. app' = [app EXCEPT ![a] = Off] /\ raced' \in BOOLEAN
    BY <1>7 DEF AppEnds
  <2>4. Off \in AppRec' /\ Off.pc \notin Writing
    <3>1. 0 \in 0..keys /\ AppRec \subseteq AppRec'
      BY <1>0, <2>1, NumbersGrow
    <3>2. Off \in AppRec
      BY <3>1 DEF Off, AppRec, AppPcs
    <3> QED BY <3>1, <3>2 DEF Off, Writing
  <2>5. FilesType'
    BY <1>0, <2>1, <2>2, FilesIn, FilesStay
  <2>6. AppsType'
    BY <1>0, <2>1, <2>3, <2>4, AppsKeep
  <2>7. ConsolesType'
    BY <1>0, <2>1, ConsolesStay
  <2>8. RestType'
    BY <1>0, <2>1, <2>3, RestStay DEF IndType, RestType
  <2> QED BY <2>5, <2>6, <2>7, <2>8 DEF IndType
<1> QED BY <1>1, <1>2, <1>3, <1>4, <1>5, <1>6, <1>7

LEMMA TypeConsole ==
  ASSUME IndType, NEW c \in Consoles,
         \/ Setup(c) \/ Generate(c) \/ ConsoleWrites(c) \/ AskToOpen(c) \/ ConsoleEnds(c)
         \/ \E key \in 1..keys : Open(c, key)
  PROVE  IndType'
<1> DEFINE Pcs == {"off", "secret", "state", "priv", "pub", "config", "open"}
<1>0. keys \in {keys, keys + 1} /\ keys \in 0..MaxKey /\ ConsoleRec = ConsoleRec
  BY DEF IndType, RestType
\* A console goes to a place where no number is needed, files as they are.
<1>g. ASSUME NEW pc \in {"off", "secret", "open"}, ConsoleGoes(c, pc), raced' \in BOOLEAN,
             session' \in BOOLEAN, UNCHANGED <<clock, priv, pub, state, config, appFiles,
                                              reports, keys, app, gone>>
      PROVE  IndType'
  <2>1. PICK rec \in ConsoleRec : console' = [console EXCEPT ![c] = rec] /\ rec.pc = pc
    BY <1>g, ConsoleEffect
  <2>2. FilesType'
    BY <1>0, <1>g, FilesIn, FilesStay DEF appFiles
  <2>3. AppsType'
    BY <1>0, <1>g, AppsStay
  <2>4. ConsolesType'
    BY <1>0, <1>g, <2>1, NumbersGrow, ConsolesKeep
  <2>5. RestType'
    BY <1>0, <1>g, RestStay DEF IndType, RestType
  <2> QED BY <2>2, <2>3, <2>4, <2>5 DEF IndType
<1>1. CASE Setup(c)
  BY <1>1, <1>g DEF Setup, doorFiles, IndType, RestType
<1>2. CASE Generate(c)
  <2>1. /\ keys < MaxKey /\ keys' = keys + 1
        /\ console' = [console EXCEPT ![c] = [pc |-> "state", it |-> keys + 1]]
        /\ UNCHANGED <<clock, doorFiles, config, appFiles, reports, app, gone, raced>>
    BY <1>2 DEF Generate
  <2>2. keys' \in {keys, keys + 1} /\ keys' \in 0..MaxKey /\ keys + 1 \in 0..keys' /\ keys + 1 > 0
    BY <1>0, <2>1 DEF IndType, RestType, Limits
  <2>3. FilesType'
    BY <2>1, <2>2, FilesIn, FilesStay DEF doorFiles, appFiles
  <2>4. AppsType'
    BY <2>1, <2>2, AppsStay
  <2>5. ConsolesType'
    <3>1. [pc |-> "state", it |-> keys + 1] \in ConsoleRec'
      BY <2>2 DEF ConsoleRec
    <3> QED BY <2>1, <2>2, <3>1, ConsolesKeep
  <2>6. RestType'
    BY <2>1, <2>2, RestStay DEF IndType, RestType, doorFiles
  <2> QED BY <2>3, <2>4, <2>5, <2>6 DEF IndType
<1>3. CASE ConsoleWrites(c)
  <2>1. /\ console[c].it \in 1..keys /\ 1..keys \subseteq 0..keys
        /\ UNCHANGED <<clock, session, appFiles, reports, keys, app, gone, raced>>
    BY <1>3, ConsoleWritesEffect
  <2>2. /\ priv' \in {priv, console[c].it} /\ pub' \in {pub, console[c].it}
        /\ config' \in {config, console[c].it} /\ state' \in {state, console[c].it}
    BY <1>3, ConsoleWritesEffect
  <2>3. FilesType'
    BY <1>0, <2>1, <2>2, FilesIn, FilesStay DEF appFiles
  <2>4. AppsType'
    BY <1>0, <2>1, AppsStay
  <2>5. ConsolesType'
    <3>1. PICK rec \in ConsoleRec :
             console' = [console EXCEPT ![c] = rec] /\ rec.it = console[c].it
      BY <1>3, ConsoleWritesEffect
    <3>2. rec \in ConsoleRec' /\ rec.it > 0
      BY <1>0, <2>1, <3>1, NumbersGrow
    <3> QED BY <1>0, <2>1, <3>1, <3>2, ConsolesKeep
  <2>6. RestType'
    BY <1>0, <2>1, RestStay DEF IndType, RestType
  <2> QED BY <2>3, <2>4, <2>5, <2>6 DEF IndType
<1>4. CASE AskToOpen(c)
  BY <1>4, <1>g DEF AskToOpen, doorFiles, IndType, RestType
<1>5. CASE ConsoleEnds(c)
  <2>1. UNCHANGED <<clock, session, appFiles, reports, keys, app, gone>>
    BY <1>5 DEF ConsoleEnds
  <2>2. /\ priv' \in {priv, Torn} /\ pub' \in {pub, Torn} /\ config' \in {config, Torn}
        /\ state' \in {state, Torn}
    BY <1>5 DEF ConsoleEnds, Left
  <2>3. console' = [console EXCEPT ![c] = [pc |-> "off", it |-> 0]] /\ raced' \in BOOLEAN
    BY <1>5 DEF ConsoleEnds
  <2>4. FilesType'
    BY <1>0, <2>1, <2>2, FilesIn, FilesStay DEF appFiles
  <2>5. AppsType'
    BY <1>0, <2>1, AppsStay
  <2>6. ConsolesType'
    <3>1. 0 \in 0..keys'
      BY <1>0, <2>1
    <3>2. [pc |-> "off", it |-> 0] \in ConsoleRec'
      BY <3>1 DEF ConsoleRec
    <3> QED BY <1>0, <2>1, <2>3, <3>2, ConsolesKeep
  <2>7. RestType'
    BY <1>0, <2>1, <2>3, RestStay DEF IndType, RestType
  <2> QED BY <2>4, <2>5, <2>6, <2>7 DEF IndType
<1>6. ASSUME NEW key \in 1..keys, Open(c, key)
      PROVE  IndType'
  BY <1>6, <1>g DEF Open, IndType, RestType
<1> QED BY <1>1, <1>2, <1>3, <1>4, <1>5, <1>6

LEMMA TypeRest ==
  ASSUME IndType, Revoke \/ DeleteDoor \/ TakeKey \/ Tick \/ UNCHANGED vars
  PROVE  IndType'
<1>0. keys \in {keys, keys + 1} /\ keys \in 0..MaxKey
  BY DEF IndType, RestType
<1>1. /\ UNCHANGED <<config, appFiles, reports, keys, app, console, raced>>
      /\ priv' \in {priv, Absent} /\ pub' \in {pub, Absent} /\ state' \in {state, Absent}
      /\ gone' \in {gone, gone \cup ({priv} \cap 1..keys)} /\ clock' \in 0..MaxClock
  BY DEF Revoke, DeleteDoor, TakeKey, Tick, vars, doorFiles, appFiles, IndType, RestType, Limits
<1>2. session' \in BOOLEAN
  BY DEF Revoke, DeleteDoor, TakeKey, Tick, vars, doorFiles, IndType, RestType
<1>3. FilesType'
  BY <1>0, <1>1, FilesIn, FilesStay DEF appFiles
<1>4. AppsType' /\ ConsolesType'
  BY <1>0, <1>1, AppsStay, ConsolesStay
<1>5. RestType'
  BY <1>0, <1>1, <1>2, RestStay DEF IndType, RestType
<1> QED BY <1>3, <1>4, <1>5 DEF IndType

LEMMA TypeNext == ASSUME IndType, [Next]_vars PROVE IndType'
<1>1. CASE Next
  BY <1>1, TypeApp, TypeConsole, TypeRest DEF Next
<1>2. CASE UNCHANGED vars
  BY <1>2, TypeRest
<1> QED BY <1>1, <1>2

\* The files hold numbers of pairs that were made, nothing, or torn content, and the
\* processes only what they have read or made.
THEOREM DoorTypeOK == ASSUME Limits PROVE Spec => []TypeOK
<1>1. Init => IndType
  BY InitType
<1>2. IndType /\ [Next]_vars => IndType'
  BY TypeNext
<1>3. IndType => TypeOK
  BY IndTypeIsStronger
<1> QED BY <1>1, <1>2, <1>3, PTL DEF Spec

-----------------------------------------------------------------------------
\* Keys of the application keep the console out.
LEMMA ShutOutStep ==
  ASSUME IndType, [Next]_vars, AppMadeKeys
  PROVE  priv' = Absent \/ (AppMadeKeys' /\ (session' => session))
<1>0. /\ Exists(priv) /\ Exists(pub) /\ ~Exists(state) /\ ~Holds(state)
      /\ \A c \in Consoles : console[c].pc = "off"
  BY DEF AppMadeKeys, DoorExists, Exists, Holds, Absent
<1>g. ASSUME Exists(priv'), Exists(pub'), UNCHANGED <<state, console>>, session' => session
      PROVE  AppMadeKeys' /\ (session' => session)
  BY <1>0, <1>g DEF AppMadeKeys, DoorExists, Exists, Absent
<1>1. ASSUME NEW a \in Apps, Launch(a) \/ LoadForHook(a) \/ New(a) \/ Bootstrap(a) \/ SaveReport(a)
      PROVE  AppMadeKeys' /\ (session' => session)
  <2>1. UNCHANGED <<doorFiles, console>>
    BY <1>1 DEF Launch, LoadForHook, New, Bootstrap, SaveReport, EnsureKeys
  <2> QED BY <2>1, <1>0, <1>g DEF doorFiles
<1>2. ASSUME NEW a \in Apps, AppWrites(a)
      PROVE  AppMadeKeys' /\ (session' => session)
  <2>1. UNCHANGED <<state, session, console>> /\ app[a].made \in 1..keys
        /\ priv' \in {priv, app[a].made} /\ pub' \in {pub, app[a].made}
    BY <1>2, WritesEffect DEF appFiles
  <2>2. Exists(priv') /\ Exists(pub')
    BY <2>1, <1>0 DEF Exists, Absent, IndType, RestType, Limits
  <2> QED BY <2>1, <2>2, <1>g
<1>3. ASSUME NEW a \in Apps, AppEnds(a)
      PROVE  AppMadeKeys' /\ (session' => session)
  BY <1>0, <1>3, <1>g DEF AppEnds, Left, Exists, Absent, Torn
<1>4. ASSUME NEW c \in Consoles,
             \/ Setup(c) \/ Generate(c) \/ ConsoleWrites(c) \/ AskToOpen(c) \/ ConsoleEnds(c)
             \/ \E key \in 1..keys : Open(c, key)
      PROVE  FALSE
  BY <1>0, <1>4 DEF Setup, SetupAllowed, DoorExists, Generate, ConsoleWrites, AskToOpen,
                    ConsoleEnds, Open
<1>5. CASE Revoke
  BY <1>0, <1>5, <1>g DEF Revoke
<1>6. CASE DeleteDoor \/ TakeKey
  BY <1>6 DEF DeleteDoor, TakeKey
<1>7. CASE Tick \/ UNCHANGED vars
  BY <1>0, <1>7, <1>g DEF Tick, vars, doorFiles
<1> QED BY <1>1, <1>2, <1>3, <1>4, <1>5, <1>6, <1>7 DEF Next

\* As long as the keys are the application's own and they stay, nobody configures the
\* door from the console and no session begins.
THEOREM AppKeysShutOut == ASSUME Limits PROVE Spec => AppKeysShutTheConsoleOut
<1>1. Init => IndType
  BY InitType
<1>2. IndType /\ [Next]_vars => IndType'
  BY TypeNext
<1>3. IndType /\ [Next]_vars =>
         [AppMadeKeys => priv' = Absent \/ (AppMadeKeys' /\ (session' => session))]_vars
  BY ShutOutStep
<1> QED BY <1>1, <1>2, <1>3, PTL DEF Spec, AppKeysShutTheConsoleOut

-----------------------------------------------------------------------------
\* Who makes the pair of the door: before the private key is written, and after.
EarlyApp(a) == app[a].pc = "priv"
LateApp(a) == app[a].pc = "pub"
EarlyConsole(c) == console[c].pc \in {"secret", "state", "priv"}
LateConsole(c) == console[c].pc = "pub"
AppMakes(a) == EarlyApp(a) \/ LateApp(a)
ConsoleMakes(c) == EarlyConsole(c) \/ LateConsole(c)

LEMMA Makers == MakingDoor <=> (\/ \E a \in Apps : AppMakes(a)
                                \/ \E c \in Consoles : ConsoleMakes(c))
BY DEF MakingDoor, AppMakes, ConsoleMakes, EarlyApp, LateApp, EarlyConsole, LateConsole

OneMaker ==
    /\ \A a \in Apps, b \in Apps : AppMakes(a) /\ AppMakes(b) => a = b
    /\ \A c \in Consoles, d \in Consoles : ConsoleMakes(c) /\ ConsoleMakes(d) => c = d
    /\ \A a \in Apps, c \in Consoles : ~(AppMakes(a) /\ ConsoleMakes(c))

Unpaired == ~(Holds(priv) /\ Holds(pub))

\* The pair is whole when nobody makes one; before its private key is written there is
\* no whole pair, and then the private key is the new one, unless it was taken away.
DoorPair ==
    /\ ~MakingDoor /\ Holds(priv) /\ Holds(pub) => priv = pub
    /\ \A a \in Apps : EarlyApp(a) => Unpaired
    /\ \A a \in Apps : LateApp(a) => priv \in {app[a].made, Absent}
    /\ \A c \in Consoles : EarlyConsole(c) => Unpaired
    /\ \A c \in Consoles : LateConsole(c) => priv \in {console[c].it, Absent}

DoorInv == raced \/ (OneMaker /\ DoorPair)

\* The makers go on as they were.
SameMakers ==
    /\ \A a \in Apps : (EarlyApp(a)' <=> EarlyApp(a)) /\ (LateApp(a)' <=> LateApp(a))
    /\ \A a \in Apps : LateApp(a) => app'[a].made = app[a].made
    /\ \A c \in Consoles : /\ EarlyConsole(c)' <=> EarlyConsole(c)
                           /\ LateConsole(c)' <=> LateConsole(c)
    /\ \A c \in Consoles : LateConsole(c) => console'[c].it = console[c].it

LEMMA DoorRests ==
  ASSUME OneMaker, DoorPair, SameMakers, priv' \in {priv, Absent}, pub' \in {pub, Absent}
  PROVE  OneMaker' /\ DoorPair'
<1>1. \A a \in Apps : AppMakes(a)' <=> AppMakes(a)
  BY DEF SameMakers, AppMakes
<1>2. \A c \in Consoles : ConsoleMakes(c)' <=> ConsoleMakes(c)
  BY DEF SameMakers, ConsoleMakes
<1>3. OneMaker'
  BY <1>1, <1>2 DEF OneMaker
<1>4. MakingDoor' <=> MakingDoor
  BY DEF MakingDoor, SameMakers, EarlyApp, LateApp, EarlyConsole, LateConsole
<1>5. Holds(priv') => priv' = priv
  BY DEF Holds, Absent
<1>6. Holds(pub') => pub' = pub
  BY DEF Holds, Absent
<1>7. Unpaired => Unpaired'
  BY <1>5, <1>6 DEF Unpaired
<1> QED BY <1>3, <1>4, <1>5, <1>6, <1>7 DEF DoorPair, SameMakers

\* An application begins to make the pair when nobody else does.
LEMMA AppBegins ==
  ASSUME IndType, NEW a \in Apps, NEW rec, app' = [app EXCEPT ![a] = rec], rec.pc = "priv",
         UNCHANGED <<console, priv, pub>>, ~MakingDoor, ~Holds(pub)
  PROVE  OneMaker' /\ DoorPair'
<1>1. \A b \in Apps : b # a => app'[b] = app[b] /\ ~AppMakes(b)
  BY Makers DEF IndType, AppsType
<1>2. app'[a] = rec
  BY DEF IndType, AppsType
<1>3. \A c \in Consoles : ~ConsoleMakes(c)'
  BY Makers DEF ConsoleMakes, EarlyConsole, LateConsole
<1>4. \A b \in Apps : (AppMakes(b))' => b = a
  BY <1>1 DEF AppMakes, EarlyApp, LateApp
<1>5. OneMaker'
  BY <1>3, <1>4 DEF OneMaker
<1>6. Unpaired'
  BY DEF Unpaired
<1>7. ~LateApp(a)' /\ EarlyApp(a)'
  BY <1>2 DEF LateApp, EarlyApp
<1>8. MakingDoor'
  BY <1>7 DEF MakingDoor, EarlyApp
<1> QED BY <1>3, <1>4, <1>5, <1>6, <1>7, <1>8 DEF DoorPair, AppMakes, ConsoleMakes

\* A console begins to.
LEMMA ConsoleBegins ==
  ASSUME IndType, NEW c \in Consoles, NEW rec, console' = [console EXCEPT ![c] = rec],
         rec.pc = "secret", UNCHANGED <<app, priv, pub>>, ~MakingDoor, Unpaired
  PROVE  OneMaker' /\ DoorPair'
<1>1. \A d \in Consoles : d # c => console'[d] = console[d] /\ ~ConsoleMakes(d)
  BY Makers DEF IndType, ConsolesType
<1>2. console'[c] = rec
  BY DEF IndType, ConsolesType
<1>3. \A a \in Apps : ~AppMakes(a)'
  BY Makers DEF AppMakes, EarlyApp, LateApp
<1>4. \A d \in Consoles : (ConsoleMakes(d))' => d = c
  BY <1>1 DEF ConsoleMakes, EarlyConsole, LateConsole
<1>5. OneMaker'
  BY <1>3, <1>4 DEF OneMaker
<1>6. Unpaired'
  BY DEF Unpaired
<1>7. ~LateConsole(c)' /\ EarlyConsole(c)'
  BY <1>2 DEF LateConsole, EarlyConsole
<1>8. MakingDoor'
  BY <1>2 DEF MakingDoor
<1> QED BY <1>3, <1>4, <1>5, <1>6, <1>7, <1>8 DEF DoorPair, AppMakes, ConsoleMakes

\* The only maker changes its place: nobody else is one.
LEMMA OnlyApp ==
  ASSUME IndType, OneMaker, NEW a \in Apps, AppMakes(a), NEW rec,
         app' = [app EXCEPT ![a] = rec], UNCHANGED console
  PROVE  /\ OneMaker' /\ app'[a] = rec
         /\ \A b \in Apps : (AppMakes(b))' => b = a
         /\ \A c \in Consoles : ~(ConsoleMakes(c))'
<1>1. \A b \in Apps : b # a => app'[b] = app[b] /\ ~AppMakes(b)
  BY DEF IndType, AppsType, OneMaker
<1>2. app'[a] = rec
  BY DEF IndType, AppsType
<1>3. \A b \in Apps : (AppMakes(b))' => b = a
  BY <1>1 DEF AppMakes, EarlyApp, LateApp
<1>4. \A c \in Consoles : ~(ConsoleMakes(c))'
  BY DEF OneMaker, ConsoleMakes, EarlyConsole, LateConsole
<1> QED BY <1>2, <1>3, <1>4 DEF OneMaker

LEMMA OnlyConsole ==
  ASSUME IndType, OneMaker, NEW c \in Consoles, ConsoleMakes(c), NEW rec,
         console' = [console EXCEPT ![c] = rec], UNCHANGED app
  PROVE  /\ OneMaker' /\ console'[c] = rec
         /\ \A d \in Consoles : (ConsoleMakes(d))' => d = c
         /\ \A a \in Apps : ~(AppMakes(a))'
<1>1. \A d \in Consoles : d # c => console'[d] = console[d] /\ ~ConsoleMakes(d)
  BY DEF IndType, ConsolesType, OneMaker
<1>2. console'[c] = rec
  BY DEF IndType, ConsolesType
<1>3. \A d \in Consoles : (ConsoleMakes(d))' => d = c
  BY <1>1 DEF ConsoleMakes, EarlyConsole, LateConsole
<1>4. \A a \in Apps : ~(AppMakes(a))'
  BY DEF OneMaker, AppMakes, EarlyApp, LateApp
<1> QED BY <1>2, <1>3, <1>4 DEF OneMaker

\* The only maker is done, or has gone from early to late.
LEMMA NobodyMakes ==
  ASSUME \A b \in Apps : ~AppMakes(b)', \A d \in Consoles : ~ConsoleMakes(d)',
         Holds(priv') /\ Holds(pub') => priv' = pub'
  PROVE  DoorPair'
BY DEF DoorPair, AppMakes, ConsoleMakes

LEMMA AppMakerStep ==
  ASSUME IndType, OneMaker, DoorPair, NEW a \in Apps, AppMakes(a), NEW rec,
         app' = [app EXCEPT ![a] = rec], UNCHANGED console,
         \/ /\ EarlyApp(a) /\ rec.pc = "pub" /\ priv' = rec.made
         \/ /\ LateApp(a) /\ rec.pc = "config" /\ pub' = app[a].made /\ priv' = priv
         \/ /\ EarlyApp(a) /\ rec.pc = "off" /\ priv' \in {priv, Torn} /\ pub' = pub
         \/ /\ LateApp(a) /\ rec.pc = "off" /\ priv' = priv
            /\ pub' \in {Absent, Torn}
  PROVE  OneMaker' /\ DoorPair'
<1>1. /\ OneMaker' /\ app'[a] = rec
      /\ \A b \in Apps : (AppMakes(b))' => b = a
      /\ \A c \in Consoles : ~(ConsoleMakes(c))'
  BY OnlyApp
<1>2. CASE EarlyApp(a) /\ rec.pc = "pub" /\ priv' = rec.made
  <2>1. LateApp(a)' /\ ~EarlyApp(a)'
    BY <1>1, <1>2 DEF LateApp, EarlyApp
  <2>2. MakingDoor'
    BY <2>1 DEF MakingDoor, LateApp
  <2> QED BY <1>1, <1>2, <2>1, <2>2 DEF DoorPair, AppMakes, ConsoleMakes
<1>3. CASE rec.pc \in {"config", "off"}
  <2>1. ~AppMakes(a)'
    BY <1>1, <1>3 DEF AppMakes, LateApp, EarlyApp
  <2>2. Holds(priv') /\ Holds(pub') => priv' = pub'
    BY <1>3 DEF DoorPair, LateApp, EarlyApp, Unpaired, Holds, Torn, Absent
  <2> QED BY <1>1, <2>1, <2>2, NobodyMakes
<1> QED BY <1>2, <1>3

LEMMA ConsoleMakerStep ==
  ASSUME IndType, OneMaker, DoorPair, NEW c \in Consoles, ConsoleMakes(c), NEW rec,
         console' = [console EXCEPT ![c] = rec], UNCHANGED app,
         \/ /\ EarlyConsole(c) /\ rec.pc \in {"state", "priv"} /\ UNCHANGED <<priv, pub>>
         \/ /\ EarlyConsole(c) /\ rec.pc = "pub" /\ priv' = rec.it
         \/ /\ LateConsole(c) /\ rec.pc = "config" /\ pub' = console[c].it /\ priv' = priv
         \/ /\ EarlyConsole(c) /\ rec.pc = "off" /\ priv' \in {priv, Torn} /\ pub' = pub
         \/ /\ LateConsole(c) /\ rec.pc = "off" /\ priv' = priv
            /\ pub' \in {Absent, Torn}
  PROVE  OneMaker' /\ DoorPair'
<1>1. /\ OneMaker' /\ console'[c] = rec
      /\ \A d \in Consoles : (ConsoleMakes(d))' => d = c
      /\ \A a \in Apps : ~(AppMakes(a))'
  BY OnlyConsole
<1>2. CASE EarlyConsole(c) /\ rec.pc = "pub" /\ priv' = rec.it
  <2>1. LateConsole(c)' /\ ~EarlyConsole(c)'
    BY <1>1, <1>2 DEF LateConsole, EarlyConsole
  <2>2. MakingDoor'
    BY <2>1 DEF MakingDoor, LateConsole
  <2> QED BY <1>1, <1>2, <2>1, <2>2 DEF DoorPair, AppMakes, ConsoleMakes
<1>4. CASE EarlyConsole(c) /\ rec.pc \in {"state", "priv"} /\ UNCHANGED <<priv, pub>>
  <2>1. ~LateConsole(c)' /\ EarlyConsole(c)'
    BY <1>1, <1>4 DEF LateConsole, EarlyConsole
  <2>2. MakingDoor' /\ Unpaired'
    BY <2>1, <1>4 DEF MakingDoor, EarlyConsole, DoorPair, Unpaired
  <2> QED BY <1>1, <2>1, <2>2 DEF DoorPair, AppMakes, ConsoleMakes
<1>3. CASE rec.pc \in {"config", "off"}
  <2>1. ~ConsoleMakes(c)'
    BY <1>1, <1>3 DEF ConsoleMakes, LateConsole, EarlyConsole
  <2>2. Holds(priv') /\ Holds(pub') => priv' = pub'
    BY <1>3 DEF DoorPair, LateConsole, EarlyConsole, Unpaired, Holds, Torn, Absent
  <2> QED BY <1>1, <2>1, <2>2, NobodyMakes
<1> QED BY <1>2, <1>3, <1>4

-----------------------------------------------------------------------------
\* The steps of an application that write no file by themselves: they find the key, begin
\* to make the pair of the door, or begin to make that of the application.
Idle == {"off", "load", "new", "up"}
FindsOrBegins(a) ==
    /\ UNCHANGED <<clock, doorFiles, appKey, reports, console, gone>>
    /\ app[a].pc \in Idle
    /\ keys' \in {keys, keys + 1}
    /\ config' = config \/ (Holds(Finds) /\ config' = Finds)
    /\ \E rec \in AppRec' :
         /\ app' = [app EXCEPT ![a] = rec]
         /\ rec.hook \in {0, app[a].hook} \/ (Holds(Finds) /\ rec.hook = Finds)
         /\ rec.reporter \in {0, app[a].reporter} \/ (Holds(config) /\ rec.reporter = config)
         /\ \/ /\ rec.pc = "priv" /\ rec.made = keys + 1 /\ ~Holds(Finds) /\ appPub' = appPub
               /\ raced' = (raced \/ MakingDoor)
            \/ /\ rec.pc = "appkey" /\ ~Holds(appKey) /\ appPub' = appPub
               /\ raced' = (raced \/ MakingAppKey)
            \/ /\ rec.pc \in Idle /\ raced' = raced
               /\ appPub' = appPub \/ (~Exists(appPub) /\ Holds(appKey) /\ appPub' = appKey)

LEMMA EnsureIs ==
  ASSUME IndType, NEW a \in Apps, NEW found \in AppRec, EnsureKeys(a, found),
         app[a].pc \in Idle, found.pc \in Idle,
         found.hook \in {0, app[a].hook} \/ found.hook = Finds,
         found.reporter \in {0, app[a].reporter}
  PROVE  FindsOrBegins(a)
<1>1. UNCHANGED <<clock, doorFiles, appFiles, reports, console, gone>>
  BY DEF EnsureKeys
<1>2. CASE Holds(Finds) /\ config' = Finds /\ keys' = keys /\ raced' = raced
           /\ app' = [app EXCEPT ![a] = found]
  <2>1. found \in AppRec'
    BY <1>2, NumbersGrow
  <2> QED BY <1>1, <1>2, <2>1 DEF FindsOrBegins, appFiles
<1>3. CASE /\ ~Holds(Finds) /\ config' = config /\ keys' = keys + 1
           /\ raced' = (raced \/ MakingDoor)
           /\ \E rec \in AppRec' : /\ app' = [app EXCEPT ![a] = rec]
                                   /\ rec.pc = "priv" /\ rec.made = keys + 1
                                   /\ Like(rec, app[a])
  BY <1>1, <1>3 DEF FindsOrBegins, appFiles, Like
<1> QED BY <1>2, <1>3, EnsureEffect

LEMMA LoadIs ==
  ASSUME IndType, NEW a \in Apps, NEW old \in AppRec, NEW next \in {"new", "up"},
         LoadAppKey(a, old, next), app[a].pc \in Idle, old.hook = app[a].hook,
         old.reporter \in {0, app[a].reporter} \/ (Holds(config) /\ old.reporter = config),
         UNCHANGED <<clock, doorFiles, config, appKey, reports, console, gone>>
  PROVE  FindsOrBegins(a)
<1>1. CASE /\ Holds(appKey) /\ appPub' = (IF Exists(appPub) THEN appPub ELSE appKey)
           /\ keys' = keys /\ raced' = raced
           /\ \E rec \in AppRec : /\ app' = [app EXCEPT ![a] = rec]
                                  /\ rec.pc = next /\ rec.made = old.made /\ Like(rec, old)
  <2>1. PICK rec \in AppRec : app' = [app EXCEPT ![a] = rec] /\ rec.pc = next /\ Like(rec, old)
    BY <1>1
  <2>2. rec \in AppRec' /\ rec.pc \in Idle
    BY <1>1, <2>1, NumbersGrow DEF Idle
  <2> QED BY <1>1, <2>1, <2>2 DEF FindsOrBegins, Like
<1>2. CASE /\ ~Holds(appKey) /\ appPub' = appPub /\ keys' = keys + 1
           /\ raced' = (raced \/ MakingAppKey)
           /\ \E rec \in AppRec' : /\ app' = [app EXCEPT ![a] = rec]
                                   /\ rec.pc = "appkey" /\ rec.made = keys + 1
                                   /\ Like(rec, old)
  BY <1>2 DEF FindsOrBegins, Like
<1> QED BY <1>1, <1>2, LoadEffect

LEMMA QuietEffect ==
  ASSUME IndType, NEW a \in Apps, Launch(a) \/ LoadForHook(a) \/ New(a) \/ Bootstrap(a)
  PROVE  FindsOrBegins(a)
<1>0. app[a] \in AppRec
  BY DEF IndType, AppsType
<1>1. CASE Launch(a)
  BY <1>0, <1>1, LaunchFound, EnsureIs DEF Launch, Idle
<1>2. CASE Bootstrap(a)
  BY <1>0, <1>2, EnsureIs DEF Bootstrap, Idle
<1>3. CASE LoadForHook(a)
  BY <1>0, <1>3, LoadIs DEF LoadForHook, Idle
<1>4. CASE New(a)
  <2>1. /\ app[a].pc \in Idle
        /\ UNCHANGED <<clock, doorFiles, config, appKey, reports, console, gone>>
    BY <1>4 DEF New, Idle
  <2>2. PICK old \in AppRec :
            /\ old.hook = app[a].hook
            /\ old.reporter = (IF Holds(config) THEN config ELSE 0)
            /\ \/ LoadAppKey(a, old, "up")
               \/ /\ UNCHANGED <<appPub, keys, raced>>
                  /\ \E rec \in AppRec : /\ app' = [app EXCEPT ![a] = rec]
                                         /\ rec.pc = "up" /\ rec.made = old.made
                                         /\ Like(rec, old)
    BY <1>4, NewEffect
  <2>3. CASE LoadAppKey(a, old, "up")
    BY <2>1, <2>2, <2>3, LoadIs
  <2>4. CASE /\ UNCHANGED <<appPub, keys, raced>>
             /\ \E rec \in AppRec : /\ app' = [app EXCEPT ![a] = rec]
                                    /\ rec.pc = "up" /\ rec.made = old.made
                                    /\ Like(rec, old)
    <3>1. PICK rec \in AppRec : app' = [app EXCEPT ![a] = rec] /\ rec.pc = "up" /\ Like(rec, old)
      BY <2>4
    <3>2. rec \in AppRec' /\ rec.pc \in Idle
      BY <2>4, <3>1, NumbersGrow DEF Idle
    <3> QED BY <2>1, <2>2, <2>4, <3>1, <3>2 DEF FindsOrBegins, Like
  <2> QED BY <2>2, <2>3, <2>4
<1> QED BY <1>1, <1>2, <1>3, <1>4

-----------------------------------------------------------------------------
\* Steps of those that do not make the pair of the door.
LEMMA SameByApp ==
  ASSUME IndType, NEW a \in Apps, ~AppMakes(a), NEW rec, rec.pc \notin {"priv", "pub"},
         app' = [app EXCEPT ![a] = rec], UNCHANGED console
  PROVE  SameMakers
<1>1. \A b \in Apps : b # a => app'[b] = app[b]
  BY DEF IndType, AppsType
<1>2. app'[a] = rec
  BY DEF IndType, AppsType
<1> QED BY <1>1, <1>2 DEF SameMakers, AppMakes, EarlyApp, LateApp, EarlyConsole, LateConsole

LEMMA SameByConsole ==
  ASSUME IndType, NEW c \in Consoles, ~ConsoleMakes(c), NEW rec,
         rec.pc \notin {"secret", "state", "priv", "pub"},
         console' = [console EXCEPT ![c] = rec], UNCHANGED app
  PROVE  SameMakers
<1>1. \A d \in Consoles : d # c => console'[d] = console[d]
  BY DEF IndType, ConsolesType
<1>2. console'[c] = rec
  BY DEF IndType, ConsolesType
<1> QED BY <1>1, <1>2 DEF SameMakers, ConsoleMakes, EarlyApp, LateApp, EarlyConsole, LateConsole

LEMMA SameByNobody == ASSUME UNCHANGED <<app, console>> PROVE SameMakers
BY DEF SameMakers, EarlyApp, LateApp, EarlyConsole, LateConsole

LEMMA DoorInit == Init => DoorInv
<1> SUFFICES ASSUME Init PROVE OneMaker /\ DoorPair
  BY DEF DoorInv
<1>1. (\A a \in Apps : ~AppMakes(a)) /\ (\A c \in Consoles : ~ConsoleMakes(c))
  BY DEF Init, Off, AppMakes, ConsoleMakes, EarlyApp, LateApp, EarlyConsole, LateConsole
<1>2. ~Holds(priv)
  BY DEF Init, Holds, Absent
<1> QED BY <1>1, <1>2 DEF OneMaker, DoorPair, AppMakes, ConsoleMakes

LEMMA DoorApps ==
  ASSUME IndType, DoorInv, NEW a \in Apps,
         \/ Launch(a) \/ AppWrites(a) \/ LoadForHook(a) \/ New(a) \/ Bootstrap(a)
         \/ SaveReport(a) \/ AppEnds(a)
  PROVE  DoorInv'
<1> SUFFICES ASSUME ~raced' PROVE OneMaker' /\ DoorPair'
  BY DEF DoorInv
<1>1. CASE Launch(a) \/ LoadForHook(a) \/ New(a) \/ Bootstrap(a)
  <2>1. FindsOrBegins(a)
    BY <1>1, QuietEffect
  <2>2. UNCHANGED <<priv, pub, console>> /\ app[a].pc \in Idle
    BY <2>1 DEF FindsOrBegins, doorFiles
  <2>3. PICK rec \in AppRec' :
         /\ app' = [app EXCEPT ![a] = rec]
         /\ \/ /\ rec.pc = "priv" /\ ~Holds(Finds) /\ raced' = (raced \/ MakingDoor)
            \/ /\ rec.pc = "appkey" /\ raced' = (raced \/ MakingAppKey)
            \/ /\ rec.pc \in Idle /\ raced' = raced
    BY <2>1 DEF FindsOrBegins
  <2>4. OneMaker /\ DoorPair
    BY <2>3 DEF DoorInv
  <2>5. CASE rec.pc = "priv" /\ ~Holds(Finds) /\ raced' = (raced \/ MakingDoor)
    <3>1. ~Holds(pub)
      BY <2>5 DEF Finds, Holds, Absent
    <3> QED BY <2>2, <2>3, <2>5, <3>1, AppBegins
  <2>6. CASE rec.pc \in Idle \cup {"appkey"}
    <3>1. SameMakers
      BY <2>2, <2>3, <2>6, SameByApp DEF Idle, AppMakes, EarlyApp, LateApp
    <3> QED BY <2>2, <2>4, <3>1, DoorRests
  <2> QED BY <2>3, <2>5, <2>6
<1>2. CASE AppWrites(a)
  <2>1. UNCHANGED <<console, raced>>
    BY <1>2, WritesEffect
  <2>2. PICK rec \in AppRec :
              /\ app' = [app EXCEPT ![a] = rec]
              /\ \/ /\ app[a].pc = "priv" /\ priv' = app[a].made /\ rec.pc = "pub"
                    /\ rec.made = app[a].made
                 \/ /\ app[a].pc = "pub" /\ pub' = app[a].made /\ rec.pc = "config"
                    /\ UNCHANGED priv
                 \/ /\ app[a].pc \in {"config", "appkey", "apppub"}
                    /\ rec.pc \in {"up", "load", "new", "apppub"} /\ UNCHANGED <<priv, pub>>
    BY <1>2, WritesEffect
  <2>3. OneMaker /\ DoorPair
    BY <2>1 DEF DoorInv
  <2>4. CASE app[a].pc \in {"priv", "pub"}
    BY <2>1, <2>2, <2>3, <2>4, AppMakerStep DEF AppMakes, EarlyApp, LateApp
  <2>5. CASE /\ app[a].pc \in {"config", "appkey", "apppub"}
             /\ rec.pc \in {"up", "load", "new", "apppub"} /\ UNCHANGED <<priv, pub>>
    <3>1. SameMakers
      BY <2>1, <2>2, <2>5, SameByApp DEF AppMakes, EarlyApp, LateApp
    <3> QED BY <2>3, <2>5, <3>1, DoorRests
  <2> QED BY <2>2, <2>4, <2>5
<1>3. CASE SaveReport(a)
  <2>1. UNCHANGED <<priv, pub, app, console, raced>>
    BY <1>3 DEF SaveReport, doorFiles
  <2> QED BY <2>1, SameByNobody, DoorRests DEF DoorInv
<1>4. CASE AppEnds(a)
  <2>1. /\ app' = [app EXCEPT ![a] = Off] /\ UNCHANGED console
        /\ raced' = (raced \/ Halves(app[a].pc = "pub", pub) \/ Halves(app[a].pc = "apppub", appPub))
        /\ priv' \in Left(app[a].pc = "priv", priv) /\ pub' \in Left(app[a].pc = "pub", pub)
    BY <1>4 DEF AppEnds
  <2>2. OneMaker /\ DoorPair /\ ~Halves(app[a].pc = "pub", pub)
    BY <2>1 DEF DoorInv
  <2>3. Off.pc = "off"
    BY DEF Off
  <2>4. CASE app[a].pc = "priv"
    <3>1. priv' \in {priv, Torn} /\ pub' = pub
      BY <2>1, <2>4 DEF Left
    <3> QED BY <2>1, <2>2, <2>3, <2>4, <3>1, AppMakerStep DEF AppMakes, EarlyApp, LateApp
  <2>5. CASE app[a].pc = "pub"
    <3>1. priv' = priv /\ pub' \in {Absent, Torn}
      BY <2>1, <2>2, <2>5 DEF Left, Halves, Exists
    <3> QED BY <2>1, <2>2, <2>3, <2>5, <3>1, AppMakerStep DEF AppMakes, EarlyApp, LateApp
  <2>6. CASE app[a].pc \notin {"priv", "pub"}
    <3>1. priv' = priv /\ pub' = pub
      BY <2>1, <2>6 DEF Left
    <3>2. SameMakers
      BY <2>1, <2>3, <2>6, SameByApp DEF AppMakes, EarlyApp, LateApp
    <3> QED BY <2>2, <3>1, <3>2, DoorRests
  <2> QED BY <2>4, <2>5, <2>6
<1> QED BY <1>1, <1>2, <1>3, <1>4

LEMMA DoorConsoles ==
  ASSUME IndType, DoorInv, NEW c \in Consoles,
         \/ Setup(c) \/ Generate(c) \/ ConsoleWrites(c) \/ AskToOpen(c) \/ ConsoleEnds(c)
         \/ \E key \in 1..keys : Open(c, key)
  PROVE  DoorInv'
<1> SUFFICES ASSUME ~raced' PROVE OneMaker' /\ DoorPair'
  BY DEF DoorInv
<1>1. CASE Setup(c)
  <2>1. /\ ConsoleGoes(c, "secret") /\ ~DoorExists /\ UNCHANGED <<priv, pub, app>>
        /\ raced' = (raced \/ MakingDoor)
    BY <1>1 DEF Setup, SetupAllowed, doorFiles
  <2>2. PICK rec \in ConsoleRec : console' = [console EXCEPT ![c] = rec] /\ rec.pc = "secret"
    BY <2>1, ConsoleEffect
  <2>3. Unpaired
    BY <2>1 DEF DoorExists, Exists, Absent, Unpaired, Holds
  <2> QED BY <2>1, <2>2, <2>3, ConsoleBegins
<1>2. CASE Generate(c)
  <2>1. /\ console[c].pc = "secret" /\ UNCHANGED <<priv, pub, app, raced>>
        /\ console' = [console EXCEPT ![c] = [pc |-> "state", it |-> keys']]
    BY <1>2 DEF Generate, doorFiles
  <2>2. [pc |-> "state", it |-> keys'].pc = "state"
    OBVIOUS
  <2> QED BY <2>1, <2>2, ConsoleMakerStep DEF DoorInv, ConsoleMakes, EarlyConsole
<1>3. CASE ConsoleWrites(c)
  <2>1. UNCHANGED <<app, raced>>
    BY <1>3, ConsoleWritesEffect
  <2>2. PICK rec \in ConsoleRec :
              /\ console' = [console EXCEPT ![c] = rec] /\ rec.it = console[c].it
              /\ \/ /\ console[c].pc = "state" /\ rec.pc = "priv" /\ UNCHANGED <<priv, pub>>
                 \/ /\ console[c].pc = "priv" /\ priv' = console[c].it /\ rec.pc = "pub"
                    /\ UNCHANGED pub
                 \/ /\ console[c].pc = "pub" /\ pub' = console[c].it /\ rec.pc = "config"
                    /\ UNCHANGED priv
                 \/ /\ console[c].pc = "config" /\ rec.pc = "off" /\ UNCHANGED <<priv, pub>>
    BY <1>3, ConsoleWritesEffect
  <2>3. OneMaker /\ DoorPair
    BY <2>1 DEF DoorInv
  <2>4. CASE console[c].pc \in {"state", "priv", "pub"}
    BY <2>1, <2>2, <2>3, <2>4, ConsoleMakerStep DEF ConsoleMakes, EarlyConsole, LateConsole
  <2>5. CASE console[c].pc = "config" /\ rec.pc = "off" /\ UNCHANGED <<priv, pub>>
    <3>1. SameMakers
      BY <2>1, <2>2, <2>5, SameByConsole DEF ConsoleMakes, EarlyConsole, LateConsole
    <3> QED BY <2>3, <2>5, <3>1, DoorRests
  <2> QED BY <2>2, <2>4, <2>5
<1>4. ASSUME console[c].pc \in {"off", "open"}, NEW pc \in {"off", "open"}, ConsoleGoes(c, pc),
             UNCHANGED <<priv, pub, app, raced>>
      PROVE  OneMaker' /\ DoorPair'
  <2>1. PICK rec \in ConsoleRec : console' = [console EXCEPT ![c] = rec] /\ rec.pc = pc
    BY <1>4, ConsoleEffect
  <2>2. SameMakers
    BY <1>4, <2>1, SameByConsole DEF ConsoleMakes, EarlyConsole, LateConsole
  <2> QED BY <1>4, <2>2, DoorRests DEF DoorInv
<1>5. CASE AskToOpen(c)
  BY <1>4, <1>5 DEF AskToOpen, doorFiles
<1>6. ASSUME NEW key \in 1..keys, Open(c, key)
      PROVE  OneMaker' /\ DoorPair'
  BY <1>4, <1>6 DEF Open
<1>7. CASE ConsoleEnds(c)
  <2> DEFINE off == [pc |-> "off", it |-> 0]
  <2>1. /\ console' = [console EXCEPT ![c] = off] /\ UNCHANGED app
        /\ raced' = (raced \/ Halves(console[c].pc = "pub", pub))
        /\ priv' \in Left(console[c].pc = "priv", priv)
        /\ pub' \in Left(console[c].pc = "pub", pub)
    BY <1>7 DEF ConsoleEnds
  <2>2. OneMaker /\ DoorPair /\ ~Halves(console[c].pc = "pub", pub)
    BY <2>1 DEF DoorInv
  <2>3. off.pc = "off"
    OBVIOUS
  <2> HIDE DEF off
  <2>4. CASE console[c].pc \in {"secret", "state", "priv"}
    <3>1. priv' \in {priv, Torn} /\ pub' = pub
      BY <2>1, <2>4 DEF Left
    <3> QED BY <2>1, <2>2, <2>3, <2>4, <3>1, ConsoleMakerStep
            DEF ConsoleMakes, EarlyConsole, LateConsole
  <2>5. CASE console[c].pc = "pub"
    <3>1. priv' = priv /\ pub' \in {Absent, Torn}
      BY <2>1, <2>2, <2>5 DEF Left, Halves, Exists
    <3> QED BY <2>1, <2>2, <2>3, <2>5, <3>1, ConsoleMakerStep
            DEF ConsoleMakes, EarlyConsole, LateConsole
  <2>6. CASE console[c].pc \notin {"secret", "state", "priv", "pub"}
    <3>1. priv' = priv /\ pub' = pub
      BY <2>1, <2>6 DEF Left
    <3>2. SameMakers
      BY <2>1, <2>3, <2>6, SameByConsole DEF ConsoleMakes, EarlyConsole, LateConsole
    <3> QED BY <2>2, <3>1, <3>2, DoorRests
  <2> QED BY <2>4, <2>5, <2>6
<1> QED BY <1>1, <1>2, <1>3, <1>5, <1>6, <1>7

LEMMA DoorNext == ASSUME IndType, DoorInv, [Next]_vars PROVE DoorInv'
<1>1. CASE Revoke \/ DeleteDoor \/ TakeKey \/ Tick \/ UNCHANGED vars
  <2>1. UNCHANGED <<app, console, raced>> /\ priv' \in {priv, Absent} /\ pub' \in {pub, Absent}
    BY <1>1 DEF Revoke, DeleteDoor, TakeKey, Tick, vars, doorFiles
  <2> QED BY <2>1, SameByNobody, DoorRests DEF DoorInv
<1> QED BY <1>1, DoorApps, DoorConsoles DEF Next

-----------------------------------------------------------------------------
\* The pair of the application, made by one process and written private key first.
KeyApp(a) == app[a].pc \in {"appkey", "apppub"}
AppPair ==
    /\ \A a \in Apps, b \in Apps : KeyApp(a) /\ KeyApp(b) => a = b
    /\ ~MakingAppKey /\ Holds(appKey) /\ Holds(appPub) => appKey = appPub
    /\ \A a \in Apps : app[a].pc = "appkey" => ~Holds(appKey)
    /\ \A a \in Apps : app[a].pc = "apppub" => appKey = app[a].made

AppPairInv == raced \/ AppPair

\* The makers of the pair of the application stay what they are.
LEMMA AppPairRests ==
  ASSUME IndType, AppPair, NEW a \in Apps, NEW rec, app' = [app EXCEPT ![a] = rec],
         ~KeyApp(a), rec.pc \notin {"appkey", "apppub"}, appKey' = appKey,
         appPub' = appPub \/ (Holds(appKey) /\ appPub' = appKey)
  PROVE  AppPair'
<1>1. /\ \A b \in Apps : b # a => app'[b] = app[b]
      /\ app'[a] = rec
  BY DEF IndType, AppsType
<1>2. \A b \in Apps : /\ KeyApp(b)' <=> KeyApp(b)
                      /\ KeyApp(b) => app'[b] = app[b]
  BY <1>1 DEF KeyApp
<1>3. MakingAppKey' <=> MakingAppKey
  BY <1>2 DEF MakingAppKey, KeyApp
<1> QED BY <1>2, <1>3 DEF AppPair, KeyApp

LEMMA AppPairStays ==
  ASSUME AppPair, UNCHANGED <<app, appKey, appPub>>
  PROVE  AppPair'
BY DEF AppPair, KeyApp, MakingAppKey

\* One begins to make it, and writes one file and the other, or ends in between.
LEMMA AppPairSteps ==
  ASSUME IndType, AppPair, NEW a \in Apps, NEW rec, app' = [app EXCEPT ![a] = rec],
         \/ /\ ~MakingAppKey /\ ~Holds(appKey) /\ rec.pc = "appkey"
            /\ UNCHANGED <<appKey, appPub>>
         \/ /\ app[a].pc = "appkey" /\ rec.pc = "apppub" /\ rec.made = app[a].made
            /\ appKey' = app[a].made
         \/ /\ app[a].pc = "apppub" /\ rec.pc \in Idle
            /\ appPub' = app[a].made /\ appKey' = appKey
         \/ /\ app[a].pc = "appkey" /\ rec.pc = "off" /\ appKey' \in {appKey, Torn}
            /\ appPub' = appPub
         \/ /\ app[a].pc = "apppub" /\ rec.pc = "off" /\ appPub' \in {Absent, Torn}
            /\ appKey' = appKey
  PROVE  AppPair'
<1>1. /\ \A b \in Apps : b # a => app'[b] = app[b] /\ ~KeyApp(b)
      /\ app'[a] = rec
  BY DEF IndType, AppsType, AppPair, KeyApp, MakingAppKey
<1>2. \A b \in Apps : (KeyApp(b))' => b = a
  BY <1>1 DEF KeyApp
<1>3. MakingAppKey' <=> rec.pc \in {"appkey", "apppub"}
  BY <1>1, <1>2 DEF MakingAppKey, KeyApp
<1>4. rec.pc = "appkey" => ~Holds(appKey')
  BY DEF Idle
<1>5. rec.pc = "apppub" => appKey' = rec.made
  BY DEF Idle
<1>6. rec.pc \notin {"appkey", "apppub"} /\ Holds(appKey') /\ Holds(appPub') => appKey' = appPub'
  BY DEF AppPair, Holds, Absent, Torn
<1>7. \A b \in Apps : app'[b].pc \in {"appkey", "apppub"} => app'[b] = rec
  BY <1>1, <1>2 DEF KeyApp
<1> QED BY <1>2, <1>3, <1>4, <1>5, <1>6, <1>7 DEF AppPair

LEMMA AppPairInit == Init => AppPairInv
<1> SUFFICES ASSUME Init PROVE AppPair
  BY DEF AppPairInv
<1>1. \A a \in Apps : app[a].pc = "off"
  BY DEF Init, Off
<1>2. ~Holds(appKey)
  BY DEF Init, Holds, Absent
<1> QED BY <1>1, <1>2 DEF AppPair, KeyApp

LEMMA AppPairNext == ASSUME IndType, AppPairInv, [Next]_vars PROVE AppPairInv'
<1> SUFFICES ASSUME ~raced' PROVE AppPair'
  BY DEF AppPairInv
<1>1. ASSUME NEW a \in Apps, Launch(a) \/ LoadForHook(a) \/ New(a) \/ Bootstrap(a)
      PROVE  AppPair'
  <2>1. FindsOrBegins(a)
    BY <1>1, QuietEffect
  <2>2. appKey' = appKey /\ ~KeyApp(a)
    BY <2>1 DEF FindsOrBegins, KeyApp, Idle
  <2>3. PICK rec \in AppRec' :
         /\ app' = [app EXCEPT ![a] = rec]
         /\ \/ /\ rec.pc = "priv" /\ appPub' = appPub /\ raced' = (raced \/ MakingDoor)
            \/ /\ rec.pc = "appkey" /\ ~Holds(appKey) /\ appPub' = appPub
               /\ raced' = (raced \/ MakingAppKey)
            \/ /\ rec.pc \in Idle /\ raced' = raced
               /\ appPub' = appPub \/ (~Exists(appPub) /\ Holds(appKey) /\ appPub' = appKey)
    BY <2>1 DEF FindsOrBegins
  <2>4. AppPair
    BY <2>3 DEF AppPairInv
  <2>5. CASE rec.pc = "appkey" /\ ~Holds(appKey) /\ appPub' = appPub
             /\ raced' = (raced \/ MakingAppKey)
    BY <2>2, <2>3, <2>4, <2>5, AppPairSteps
  <2>6. CASE /\ rec.pc \in Idle \cup {"priv"}
             /\ appPub' = appPub \/ (Holds(appKey) /\ appPub' = appKey)
    BY <2>2, <2>3, <2>4, <2>6, AppPairRests DEF Idle
  <2> QED BY <2>3, <2>5, <2>6
<1>2. ASSUME NEW a \in Apps, AppWrites(a)
      PROVE  AppPair'
  <2>1. PICK rec \in AppRec :
              /\ app' = [app EXCEPT ![a] = rec]
              /\ \/ /\ app[a].pc \in {"priv", "pub", "config"}
                    /\ rec.pc \in {"pub", "config", "up", "load", "new"} /\ UNCHANGED appFiles
                 \/ /\ app[a].pc = "appkey" /\ appKey' = app[a].made /\ rec.pc = "apppub"
                    /\ rec.made = app[a].made
                 \/ /\ app[a].pc = "apppub" /\ appPub' = app[a].made
                    /\ rec.pc \in {"up", "load", "new"} /\ UNCHANGED appKey
    BY <1>2, WritesEffect
  <2>2. AppPair
    BY <1>2, WritesEffect DEF AppPairInv
  <2>3. CASE app[a].pc \in {"appkey", "apppub"}
    BY <2>1, <2>2, <2>3, AppPairSteps DEF Idle
  <2>4. CASE /\ app[a].pc \in {"priv", "pub", "config"}
             /\ rec.pc \in {"pub", "config", "up", "load", "new"} /\ UNCHANGED appFiles
    BY <2>1, <2>2, <2>4, AppPairRests DEF KeyApp, appFiles
  <2> QED BY <2>1, <2>3, <2>4
<1>3. ASSUME NEW a \in Apps, AppEnds(a)
      PROVE  AppPair'
  <2>1. /\ app' = [app EXCEPT ![a] = Off] /\ Off.pc = "off"
        /\ raced' = (raced \/ Halves(app[a].pc = "pub", pub) \/ Halves(app[a].pc = "apppub", appPub))
        /\ appKey' \in Left(app[a].pc = "appkey", appKey)
        /\ appPub' \in Left(app[a].pc = "apppub", appPub)
    BY <1>3 DEF AppEnds, Off
  <2>2. AppPair /\ ~Halves(app[a].pc = "apppub", appPub)
    BY <2>1 DEF AppPairInv
  <2>3. CASE app[a].pc = "appkey"
    <3>1. appKey' \in {appKey, Torn} /\ appPub' = appPub
      BY <2>1, <2>3 DEF Left
    <3> QED BY <2>1, <2>2, <2>3, <3>1, AppPairSteps
  <2>4. CASE app[a].pc = "apppub"
    <3>1. appPub' \in {Absent, Torn} /\ appKey' = appKey
      BY <2>1, <2>2, <2>4 DEF Left, Halves, Exists
    <3> QED BY <2>1, <2>2, <2>4, <3>1, AppPairSteps
  <2>5. CASE ~KeyApp(a)
    <3>1. appPub' = appPub /\ appKey' = appKey
      BY <2>1, <2>5 DEF Left, KeyApp
    <3> QED BY <2>1, <2>2, <2>5, <3>1, AppPairRests
  <2> QED BY <2>3, <2>4, <2>5 DEF KeyApp
<1>4. ASSUME NEW a \in Apps, SaveReport(a)
      PROVE  AppPair'
  <2>1. UNCHANGED <<app, appKey, appPub, raced>>
    BY <1>4 DEF SaveReport, appFiles
  <2> QED BY <2>1, AppPairStays DEF AppPairInv
<1>5. ASSUME NEW c \in Consoles,
             \/ Setup(c) \/ Generate(c) \/ ConsoleWrites(c) \/ AskToOpen(c) \/ ConsoleEnds(c)
             \/ \E key \in 1..keys : Open(c, key)
      PROVE  AppPair'
  <2>1. UNCHANGED <<app, appKey, appPub>>
    BY <1>5 DEF Setup, Generate, ConsoleWrites, AskToOpen, ConsoleEnds, Open, appFiles
  <2>2. raced => raced'
    BY <1>5 DEF Setup, Generate, ConsoleWrites, AskToOpen, ConsoleEnds, Open
  <2> QED BY <2>1, <2>2, AppPairStays DEF AppPairInv
<1>6. CASE Revoke \/ DeleteDoor \/ TakeKey \/ Tick \/ UNCHANGED vars
  <2>1. UNCHANGED <<app, appKey, appPub, raced>>
    BY <1>6 DEF Revoke, DeleteDoor, TakeKey, Tick, vars, appFiles
  <2> QED BY <2>1, AppPairStays DEF AppPairInv
<1> QED BY <1>1, <1>2, <1>3, <1>4, <1>5, <1>6 DEF Next

\* The two files of a pair belong together unless two processes made it at once or one
\* ended halfway through the replacement of another.
THEOREM PairsMatch == ASSUME Limits PROVE Spec => []KeyPairsMatch
<1>1. Init => IndType /\ DoorInv /\ AppPairInv
  BY InitType, DoorInit, AppPairInit
<1>2. IndType /\ DoorInv /\ AppPairInv /\ [Next]_vars => (IndType /\ DoorInv /\ AppPairInv)'
  BY TypeNext, DoorNext, AppPairNext
<1>3. DoorInv /\ AppPairInv => KeyPairsMatch
  BY DEF DoorInv, DoorPair, AppPairInv, AppPair, KeyPairsMatch
<1> QED BY <1>1, <1>2, <1>3, PTL DEF Spec

-----------------------------------------------------------------------------
\* The pairs that reports are encrypted for, now or after steps without a new public key:
\* those of a file, of a hook or of a reporter, or one that goes to config/ next.
FileUses(k) == k = config \/ k = pub \/ \E r \in reports : r.to = k
AppUses(a, k) == k \in {app[a].hook, app[a].reporter} \/ (app[a].pc = "config" /\ app[a].made = k)
ConsoleUses(c, k) == console[c].pc = "config" /\ console[c].it = k
Uses(k) == /\ Holds(k)
           /\ \/ FileUses(k)
              \/ \E a \in Apps : AppUses(a, k)
              \/ \E c \in Consoles : ConsoleUses(c, k)

\* The pairs being made.
AppMakesPair(a, k) == AppMakes(a) /\ app[a].made = k
ConsoleMakesPair(c, k) == console[c].pc \in {"state", "priv", "pub"} /\ console[c].it = k
Makes(k) == \/ \E a \in Apps : AppMakesPair(a, k)
            \/ \E c \in Consoles : ConsoleMakesPair(c, k)

LateHeld ==
    /\ \A a \in Apps : LateApp(a) => app[a].made = priv \/ app[a].made \in gone
    /\ \A c \in Consoles : LateConsole(c) => console[c].it = priv \/ console[c].it \in gone

\* A pair is used only with its private key in the door or taken from it; a private key
\* whose public half is not beside it, or not yet written, is not used, so that it can be
\* written over.
Readable ==
    /\ \A k \in Nat : Uses(k) => k = priv \/ k \in gone
    /\ Holds(priv) /\ pub # priv => ~Uses(priv)
    /\ \A k \in Nat : Makes(k) => ~Uses(k)
    /\ LateHeld

ReadInv == raced \/ Readable

LEMMA UsesTyped == ASSUME IndType, NEW k \in Nat, Uses(k) PROVE k \in 1..keys
<1>0. keys \in Nat
  BY DEF IndType, RestType, Limits
<1>1. ASSUME FileUses(k) PROVE k \in File \/ k \in 1..keys
  BY <1>1 DEF FileUses, IndType, FilesType, RestType
<1>2. ASSUME NEW a \in Apps, AppUses(a, k) PROVE k \in 0..keys
  BY <1>2 DEF AppUses, IndType, AppsType, AppRec
<1>3. ASSUME NEW c \in Consoles, ConsoleUses(c, k) PROVE k \in 0..keys
  BY <1>3 DEF ConsoleUses, IndType, ConsolesType, ConsoleRec
<1> QED BY <1>0, <1>1, <1>2, <1>3 DEF Uses, Holds, File, Torn, Absent

\* Steps that take no new pair into use.
LEMMA ReadRests ==
  ASSUME IndType, Readable,
         \A k \in Nat : Uses(k)' => Uses(k),
         \A k \in Nat : Makes(k)' => Makes(k) \/ k = keys + 1,
         gone \subseteq gone', priv' \in File',
         Holds(priv) /\ priv' # priv => priv \in gone' \/ ~Uses(priv),
         priv' = priv \/ ~Holds(priv') \/ ~Uses(priv'),
         priv' = priv => pub' = pub \/ ~Holds(pub) \/ ~Holds(priv),
         LateHeld', keys' \in Nat
  PROVE  Readable'
<1>0. keys \in Nat /\ priv \in File
  BY DEF IndType, RestType, Limits, FilesType
<1>1. ASSUME NEW k \in Nat, Uses(k)' PROVE k = priv' \/ k \in gone'
  <2>1. Uses(k) /\ Holds(k)
    BY <1>1 DEF Uses
  <2> QED BY <2>1 DEF Readable
<1>2. ASSUME Holds(priv'), pub' # priv' PROVE ~Uses(priv)'
  <2>1. priv' \in Nat
    BY <1>2 DEF File, Holds, Torn, Absent
  <2>2. \A k \in Nat : k = priv' => (Uses(priv)' <=> Uses(k)')
    BY DEF Uses, FileUses, AppUses, ConsoleUses
  <2>3. ~Uses(priv') => ~Uses(priv)'
    BY <2>1, <2>2
  <2>4. CASE priv' = priv
    <3>1. pub # priv
      BY <1>2, <2>4 DEF Holds
    <3> QED BY <1>2, <2>3, <2>4, <3>1 DEF Readable
  <2> QED BY <1>2, <2>3, <2>4
<1>3. ASSUME NEW k \in Nat, Makes(k)' PROVE ~Uses(k)'
  <2>1. ~Uses(keys + 1)
    BY <1>0, UsesTyped
  <2> QED BY <1>3, <2>1 DEF Readable
<1> QED BY <1>1, <1>2, <1>3 DEF Readable

\* The public half is written: its pair comes into use.
LEMMA ReadWritesPub ==
  ASSUME IndType, Readable, NEW m \in Nat, m = priv \/ m \in gone, priv \in {m, Absent},
         pub' = m, priv' = priv, gone' = gone,
         \A k \in Nat : Uses(k)' => Uses(k) \/ k = m,
         \A b \in Apps : ~AppMakes(b)', \A d \in Consoles : ~ConsoleMakes(d)'
  PROVE  Readable'
<1>1. \A k \in Nat : Uses(k)' => k = priv' \/ k \in gone'
  BY DEF Readable
<1>2. Holds(priv') => pub' = priv'
  BY DEF Holds, Absent
<1>3. LateHeld'
  BY DEF LateHeld, AppMakes, ConsoleMakes
<1>4. \A k \in Nat : ~Makes(k)'
  BY DEF Makes, AppMakesPair, ConsoleMakesPair, ConsoleMakes, EarlyConsole, LateConsole
<1> QED BY <1>1, <1>2, <1>3, <1>4 DEF Readable

\* What one process does to the pairs in use.
LEMMA UsesByApp ==
  ASSUME IndType, NEW a \in Apps, NEW rec, app' = [app EXCEPT ![a] = rec], UNCHANGED console,
         NEW k \in Nat, Uses(k)',
         k = config' => Uses(k) \/ k = config, k = pub' => Uses(k) \/ k = pub,
         \A r \in reports' : r.to = k => r \in reports \/ Uses(k),
         k \in {rec.hook, rec.reporter} =>
             Uses(k) \/ k \in {0, config, app[a].hook, app[a].reporter},
         rec.pc = "config" /\ rec.made = k => Uses(k)
  PROVE  Uses(k)
<1>1. Holds(k)
  BY DEF Uses
<1>2. /\ \A b \in Apps : b # a => app'[b] = app[b]
      /\ app'[a] = rec
  BY DEF IndType, AppsType
<1>3. FileUses(k)' => Uses(k)
  BY <1>1 DEF FileUses, Uses
<1>4. \A b \in Apps : AppUses(b, k)' => Uses(k)
  <2> TAKE b \in Apps
  <2>1. CASE b # a
    BY <1>1, <1>2, <2>1 DEF AppUses, Uses
  <2>2. CASE b = a
    <3>1. k \in {0, config, app[a].hook, app[a].reporter} => Uses(k)
      BY <1>1 DEF Uses, FileUses, AppUses, Holds
    <3> QED BY <1>2, <2>2, <3>1 DEF AppUses
  <2> QED BY <2>1, <2>2
<1>5. \A c \in Consoles : ConsoleUses(c, k)' => Uses(k)
  BY <1>1 DEF ConsoleUses, Uses
<1> QED BY <1>3, <1>4, <1>5 DEF Uses

LEMMA UsesByConsole ==
  ASSUME IndType, NEW c \in Consoles, NEW rec, console' = [console EXCEPT ![c] = rec],
         UNCHANGED <<app, reports>>,
         NEW k \in Nat, Uses(k)',
         k = config' => Uses(k) \/ k = config, k = pub' => Uses(k) \/ k = pub,
         rec.pc = "config" /\ rec.it = k => Uses(k)
  PROVE  Uses(k)
<1>1. Holds(k)
  BY DEF Uses
<1>2. /\ \A d \in Consoles : d # c => console'[d] = console[d]
      /\ console'[c] = rec
  BY DEF IndType, ConsolesType
<1>3. FileUses(k)' => Uses(k)
  BY <1>1 DEF FileUses, Uses
<1>4. \A d \in Consoles : ConsoleUses(d, k)' => Uses(k)
  <2> TAKE d \in Consoles
  <2>1. CASE d # c
    BY <1>1, <1>2, <2>1 DEF ConsoleUses, Uses
  <2>2. CASE d = c
    BY <1>2, <2>2 DEF ConsoleUses
  <2> QED BY <2>1, <2>2
<1>5. \A a \in Apps : AppUses(a, k)' => Uses(k)
  BY <1>1 DEF AppUses, Uses
<1> QED BY <1>3, <1>4, <1>5 DEF Uses

LEMMA MakesByApp ==
  ASSUME IndType, NEW a \in Apps, NEW rec, app' = [app EXCEPT ![a] = rec], UNCHANGED console,
         rec.pc \in {"priv", "pub"} => \/ AppMakes(a) /\ rec.made = app[a].made
                                       \/ rec.made = keys + 1,
         NEW k \in Nat, Makes(k)'
  PROVE  Makes(k) \/ k = keys + 1
<1>2. /\ \A b \in Apps : b # a => app'[b] = app[b]
      /\ app'[a] = rec
  BY DEF IndType, AppsType
<1>3. \A b \in Apps : AppMakesPair(b, k)' => Makes(k) \/ k = keys + 1
  <2> TAKE b \in Apps
  <2>1. CASE b # a
    BY <1>2, <2>1 DEF AppMakesPair, AppMakes, EarlyApp, LateApp, Makes
  <2>2. CASE b = a
    BY <1>2, <2>2 DEF AppMakesPair, AppMakes, EarlyApp, LateApp, Makes
  <2> QED BY <2>1, <2>2
<1>4. \A c \in Consoles : ConsoleMakesPair(c, k)' => Makes(k)
  BY DEF ConsoleMakesPair, Makes
<1> QED BY <1>3, <1>4 DEF Makes

LEMMA MakesByConsole ==
  ASSUME IndType, NEW c \in Consoles, NEW rec, console' = [console EXCEPT ![c] = rec],
         UNCHANGED app,
         rec.pc \in {"state", "priv", "pub"} =>
             \/ console[c].pc \in {"state", "priv", "pub"} /\ rec.it = console[c].it
             \/ rec.it = keys + 1,
         NEW k \in Nat, Makes(k)'
  PROVE  Makes(k) \/ k = keys + 1
<1>2. /\ \A d \in Consoles : d # c => console'[d] = console[d]
      /\ console'[c] = rec
  BY DEF IndType, ConsolesType
<1>3. \A d \in Consoles : ConsoleMakesPair(d, k)' => Makes(k) \/ k = keys + 1
  <2> TAKE d \in Consoles
  <2>1. CASE d # c
    BY <1>2, <2>1 DEF ConsoleMakesPair, Makes
  <2>2. CASE d = c
    BY <1>2, <2>2 DEF ConsoleMakesPair, Makes
  <2> QED BY <2>1, <2>2
<1>4. \A a \in Apps : AppMakesPair(a, k)' => Makes(k)
  BY DEF AppMakesPair, AppMakes, EarlyApp, LateApp, Makes
<1> QED BY <1>3, <1>4 DEF Makes

\* A pair half written stays in the door or is taken from it.
LEMMA LateRests ==
  ASSUME IndType, LateHeld, SameMakers, gone \subseteq gone',
         priv' = priv \/ (Holds(priv) => priv \in gone')
  PROVE  LateHeld'
<1>1. /\ \A a \in Apps : LateApp(a) => app[a].made > 0
      /\ \A c \in Consoles : LateConsole(c) => console[c].it > 0
  BY DEF IndType, AppsType, ConsolesType, LateApp, LateConsole, Writing
<1>2. \A a \in Apps : (LateApp(a))' => LateApp(a) /\ app'[a].made = app[a].made
  BY DEF SameMakers
<1>3. \A c \in Consoles : (LateConsole(c))' => LateConsole(c) /\ console'[c].it = console[c].it
  BY DEF SameMakers
<1>4. \A a \in Apps : (LateApp(a))' => app'[a].made = priv' \/ app'[a].made \in gone'
  BY <1>1, <1>2 DEF LateHeld, Holds
<1>5. \A c \in Consoles : (LateConsole(c))' => console'[c].it = priv' \/ console'[c].it \in gone'
  BY <1>1, <1>3 DEF LateHeld, Holds
<1> QED BY <1>4, <1>5 DEF LateHeld

LEMMA NobodyLate ==
  ASSUME \A b \in Apps : ~AppMakes(b)', \A d \in Consoles : ~ConsoleMakes(d)'
  PROVE  LateHeld'
BY DEF LateHeld, AppMakes, ConsoleMakes

LEMMA ReadQuiet ==
  ASSUME IndType, IndType', Readable, NEW a \in Apps, FindsOrBegins(a)
  PROVE  Readable'
<1>1. /\ UNCHANGED <<priv, pub, reports, console, gone>> /\ app[a].pc \in Idle
      /\ config' = config \/ (Holds(Finds) /\ config' = Finds)
      /\ keys' \in Nat
  BY DEF FindsOrBegins, doorFiles, IndType, RestType, Limits
<1>2. PICK rec \in AppRec' :
         /\ app' = [app EXCEPT ![a] = rec]
         /\ rec.hook \in {0, app[a].hook} \/ (Holds(Finds) /\ rec.hook = Finds)
         /\ rec.reporter \in {0, app[a].reporter} \/ (Holds(config) /\ rec.reporter = config)
         /\ rec.pc \in Idle \cup {"priv", "appkey"}
         /\ rec.pc = "priv" => rec.made = keys + 1
  BY DEF FindsOrBegins, Idle
<1>3. ASSUME NEW k \in Nat, Uses(k)' PROVE Uses(k)
  <2>1. Holds(k)
    BY <1>3 DEF Uses
  <2>2. k = Finds => Uses(k)
    BY <2>1 DEF Finds, Uses, FileUses, Holds, Absent
  <2>3. k = pub' => Uses(k) \/ k = pub
    BY <1>1
  <2>4. k = config' => Uses(k) \/ k = config
    BY <1>1, <2>2
  <2>5. k \in {rec.hook, rec.reporter} =>
             Uses(k) \/ k \in {0, config, app[a].hook, app[a].reporter}
    BY <1>2, <2>2
  <2>6. ~(rec.pc = "config" /\ rec.made = k)
    BY <1>2 DEF Idle
  <2>7. \A r \in reports' : r.to = k => r \in reports \/ Uses(k)
    BY <1>1
  <2> QED BY <1>1, <1>2, <1>3, <2>3, <2>4, <2>5, <2>6, <2>7, UsesByApp
<1>4. ASSUME NEW k \in Nat, Makes(k)' PROVE Makes(k) \/ k = keys + 1
  <2>1. rec.pc \in {"priv", "pub"} => (AppMakes(a) /\ rec.made = app[a].made) \/ rec.made = keys + 1
    BY <1>2 DEF Idle
  <2> QED BY <1>1, <1>2, <1>4, <2>1, MakesByApp
<1>5. LateHeld'
  <2>1. /\ \A b \in Apps : b # a => app'[b] = app[b]
        /\ app'[a] = rec
    BY <1>2 DEF IndType, AppsType
  <2>2. \A b \in Apps : (LateApp(b))' => b # a
    BY <2>1, <1>2 DEF LateApp, Idle
  <2>3. \A b \in Apps : (LateApp(b))' => app'[b].made = priv' \/ app'[b].made \in gone'
    BY <1>1, <2>1, <2>2 DEF LateApp, LateHeld, Readable
  <2>4. \A c \in Consoles : (LateConsole(c))' => console'[c].it = priv' \/ console'[c].it \in gone'
    BY <1>1 DEF LateConsole, LateHeld, Readable
  <2> QED BY <2>3, <2>4 DEF LateHeld
<1>6. priv' \in File'
  BY DEF IndType, FilesType
<1> QED BY <1>1, <1>3, <1>4, <1>5, <1>6, ReadRests

LEMMA ReadAppWrites ==
  ASSUME IndType, IndType', OneMaker, DoorPair, Readable, NEW a \in Apps, AppWrites(a)
  PROVE  Readable'
<1>1. /\ app[a].made \in 1..keys /\ keys' = keys /\ keys \in Nat
      /\ UNCHANGED <<reports, console, gone>> /\ priv' \in File'
  BY WritesEffect DEF IndType, RestType, Limits, FilesType
<1>2. PICK rec \in AppRec :
              /\ app' = [app EXCEPT ![a] = rec]
              /\ rec.reporter = app[a].reporter
              /\ rec.hook = app[a].hook \/ (app[a].pc = "config" /\ rec.hook = app[a].made)
              /\ \/ /\ app[a].pc = "priv" /\ priv' = app[a].made /\ rec.pc = "pub"
                    /\ rec.made = app[a].made /\ UNCHANGED <<pub, config, appFiles>>
                 \/ /\ app[a].pc = "pub" /\ pub' = app[a].made /\ rec.pc = "config"
                    /\ rec.made = app[a].made /\ UNCHANGED <<priv, config, appFiles>>
                 \/ /\ app[a].pc = "config" /\ config' = app[a].made
                    /\ rec.pc \in {"up", "load", "new"} /\ UNCHANGED <<priv, pub, appFiles>>
                 \/ /\ app[a].pc = "appkey" /\ appKey' = app[a].made /\ rec.pc = "apppub"
                    /\ rec.made = app[a].made /\ UNCHANGED <<priv, pub, config, appPub>>
                 \/ /\ app[a].pc = "apppub" /\ appPub' = app[a].made
                    /\ rec.pc \in {"up", "load", "new"}
                    /\ UNCHANGED <<priv, pub, config, appKey>>
  BY WritesEffect
<1> DEFINE m == app[a].made
<1>3. m \in Nat /\ Holds(m)
  BY <1>1 DEF Holds
<1>4. CASE app[a].pc = "priv"
  <2>1. priv' = m /\ rec.pc = "pub" /\ rec.made = m /\ UNCHANGED <<pub, config>>
        /\ rec.hook = app[a].hook
    BY <1>2, <1>4
  <2>2. ASSUME NEW k \in Nat, Uses(k)' PROVE Uses(k)
    BY <1>1, <1>2, <2>1, <2>2, UsesByApp
  <2>3. ASSUME NEW k \in Nat, Makes(k)' PROVE Makes(k) \/ k = keys + 1
    BY <1>1, <1>2, <1>4, <2>1, <2>3, MakesByApp DEF AppMakes, EarlyApp
  <2>4. ~Uses(m)
    <3>1. Makes(m)
      BY <1>4 DEF Makes, AppMakesPair, AppMakes, EarlyApp
    <3> QED BY <1>3, <3>1 DEF Readable
  <2>5. Holds(priv) => ~Holds(pub) /\ pub # priv /\ ~Uses(priv)
    BY <1>4 DEF DoorPair, EarlyApp, Unpaired, Readable
  <2>6. LateHeld'
    <3>1. /\ app'[a] = rec /\ \A b \in Apps : (AppMakes(b))' => b = a
          /\ \A c \in Consoles : ~(ConsoleMakes(c))'
      BY <1>1, <1>2, <1>4, OnlyApp DEF AppMakes, EarlyApp
    <3> QED BY <2>1, <3>1 DEF LateHeld, AppMakes, ConsoleMakes
  <2>7. priv' = priv \/ ~Holds(priv') \/ ~Uses(priv')
    BY <2>1, <2>4
  <2> QED BY <1>1, <2>1, <2>2, <2>3, <2>5, <2>6, <2>7, ReadRests
<1>5. CASE app[a].pc = "pub"
  <2>1. pub' = m /\ rec.pc = "config" /\ rec.made = m /\ UNCHANGED <<priv, config>>
        /\ rec.hook = app[a].hook
    BY <1>2, <1>5
  <2>2. ASSUME NEW k \in Nat, Uses(k)' PROVE Uses(k) \/ k = m
    BY <1>1, <1>2, <2>1, <2>2, UsesByApp
  <2>3. m = priv \/ m \in gone
    BY <1>5 DEF Readable, LateHeld, LateApp
  <2>4. priv \in {m, Absent}
    BY <1>5 DEF DoorPair, LateApp
  <2>5. (\A b \in Apps : ~AppMakes(b)') /\ (\A d \in Consoles : ~ConsoleMakes(d)')
    <3>1. /\ app'[a] = rec /\ \A b \in Apps : (AppMakes(b))' => b = a
          /\ \A c \in Consoles : ~(ConsoleMakes(c))'
      BY <1>1, <1>2, <1>5, OnlyApp DEF AppMakes, LateApp
    <3>2. ~AppMakes(a)'
      BY <2>1, <3>1 DEF AppMakes, EarlyApp, LateApp
    <3> QED BY <3>1, <3>2
  <2> QED BY <1>1, <1>3, <2>1, <2>2, <2>3, <2>4, <2>5, ReadWritesPub
<1>6. CASE app[a].pc \in {"config", "appkey", "apppub"}
  <2>1. /\ rec.pc \in {"up", "load", "new", "apppub"} /\ UNCHANGED <<priv, pub>>
        /\ config' = config \/ (app[a].pc = "config" /\ config' = m)
    BY <1>2, <1>6
  <2>2. app[a].pc = "config" => Uses(m)
    BY <1>3 DEF Uses, AppUses
  <2>3. ASSUME NEW k \in Nat, Uses(k)' PROVE Uses(k)
    <3>1. k = config' => Uses(k) \/ k = config
      BY <2>1, <2>2
    <3>2. k \in {rec.hook, rec.reporter} =>
             Uses(k) \/ k \in {0, config, app[a].hook, app[a].reporter}
      BY <1>2, <2>2
    <3> QED BY <1>1, <1>2, <2>1, <2>3, <3>1, <3>2, UsesByApp
  <2>4. ASSUME NEW k \in Nat, Makes(k)' PROVE Makes(k) \/ k = keys + 1
    BY <1>1, <1>2, <2>1, <2>4, MakesByApp
  <2>5. LateHeld'
    <3>1. SameMakers
      BY <1>1, <1>2, <1>6, <2>1, SameByApp DEF AppMakes, EarlyApp, LateApp
    <3> QED BY <1>1, <2>1, <3>1, LateRests DEF Readable
  <2> QED BY <1>1, <2>1, <2>3, <2>4, <2>5, ReadRests
<1> QED BY <1>2, <1>4, <1>5, <1>6

LEMMA ReadAppEnds ==
  ASSUME IndType, IndType', OneMaker, DoorPair, Readable, NEW a \in Apps, AppEnds(a), ~raced'
  PROVE  Readable'
<1>1. /\ app' = [app EXCEPT ![a] = Off] /\ UNCHANGED <<reports, keys, console, gone>>
      /\ raced' = (raced \/ Halves(app[a].pc = "pub", pub) \/ Halves(app[a].pc = "apppub", appPub))
      /\ priv' \in Left(app[a].pc = "priv", priv) /\ pub' \in Left(app[a].pc = "pub", pub)
      /\ config' \in Left(app[a].pc = "config", config)
  BY DEF AppEnds
<1>2. Off.pc = "off" /\ Off.hook = 0 /\ Off.reporter = 0
  BY DEF Off
<1>3. keys' \in Nat /\ priv' \in File'
  BY DEF IndType, RestType, Limits, FilesType
<1>4. ASSUME NEW k \in Nat, Uses(k)' PROVE Uses(k)
  <2>1. Holds(k)
    BY <1>4 DEF Uses
  <2>2. (k = config' => k = config) /\ (k = pub' => k = pub)
    BY <1>1, <2>1 DEF Left, Holds, Torn
  <2> QED BY <1>1, <1>2, <1>4, <2>2, UsesByApp
<1>5. ASSUME NEW k \in Nat, Makes(k)' PROVE Makes(k) \/ k = keys + 1
  BY <1>1, <1>2, <1>5, MakesByApp
<1>6. pub' = pub \/ (~Holds(pub) /\ app[a].pc = "pub")
  <2>1. ~Halves(app[a].pc = "pub", pub)
    BY <1>1
  <2>2. CASE app[a].pc = "pub"
    BY <2>1, <2>2 DEF Halves, Exists, Holds, Absent
  <2>3. CASE app[a].pc # "pub"
    BY <1>1, <2>3 DEF Left
  <2> QED BY <2>2, <2>3
<1>7. priv' = priv \/ (app[a].pc = "priv" /\ priv' = Torn)
  BY <1>1 DEF Left
<1>8. ~Holds(Torn)
  BY DEF Holds, Torn
<1>9. Holds(priv) /\ priv' # priv => ~Uses(priv)
  BY <1>7 DEF DoorPair, EarlyApp, Unpaired, Readable
<1>10. LateHeld'
  <2>1. CASE AppMakes(a)
    <3>1. /\ app'[a] = Off /\ \A b \in Apps : (AppMakes(b))' => b = a
          /\ \A c \in Consoles : ~(ConsoleMakes(c))'
      BY <1>1, <2>1, OnlyApp
    <3>2. ~AppMakes(a)'
      BY <1>2, <3>1 DEF AppMakes, EarlyApp, LateApp
    <3> QED BY <3>1, <3>2, NobodyLate
  <2>2. CASE ~AppMakes(a)
    <3>1. SameMakers
      BY <1>1, <1>2, <2>2, SameByApp
    <3>2. priv' = priv
      BY <1>7, <2>2 DEF AppMakes, EarlyApp
    <3> QED BY <1>1, <3>1, <3>2, LateRests DEF Readable
  <2> QED BY <2>1, <2>2
<1> QED BY <1>1, <1>3, <1>4, <1>5, <1>6, <1>7, <1>8, <1>9, <1>10, ReadRests

LEMMA ReadSaveReport ==
  ASSUME IndType, IndType', Readable, NEW a \in Apps, SaveReport(a)
  PROVE  Readable'
<1>1. UNCHANGED <<priv, pub, config, keys, app, console, gone>>
  BY DEF SaveReport, doorFiles
<1>2. PICK key \in {app[a].hook, app[a].reporter} \ {0} :
           reports' = Stored([at |-> clock, to |-> key])
  BY DEF SaveReport
<1>3. app[a] \in AppRec /\ keys' \in Nat /\ priv' \in File' /\ keys \in Nat
  BY DEF IndType, AppsType, RestType, Limits, FilesType
<1>4. Uses(key)
  <2>1. Holds(key)
    BY <1>2, <1>3 DEF AppRec, Holds
  <2> QED BY <1>2, <2>1 DEF Uses, AppUses
<1>5. \A r \in reports' : r \in reports \/ r.to = key
  BY <1>2 DEF Stored
<1>6. ASSUME NEW k \in Nat, Uses(k)' PROVE Uses(k)
  <2>1. Holds(k)
    BY <1>6 DEF Uses
  <2>2. FileUses(k)' => Uses(k)
    BY <1>1, <1>4, <1>5, <2>1 DEF FileUses, Uses
  <2>3. \A b \in Apps : AppUses(b, k)' => Uses(k)
    BY <1>1, <2>1 DEF AppUses, Uses
  <2>4. \A c \in Consoles : ConsoleUses(c, k)' => Uses(k)
    BY <1>1, <2>1 DEF ConsoleUses, Uses
  <2> QED BY <1>6, <2>2, <2>3, <2>4 DEF Uses
<1>7. ASSUME NEW k \in Nat, Makes(k)' PROVE Makes(k)
  BY <1>1, <1>7 DEF Makes, AppMakesPair, ConsoleMakesPair, AppMakes, EarlyApp, LateApp
<1>8. LateHeld'
  BY <1>1, SameByNobody, LateRests DEF Readable
<1> QED BY <1>1, <1>3, <1>6, <1>7, <1>8, ReadRests

\* A console that neither writes a file nor ends.
LEMMA ReadConsoleMoves ==
  ASSUME IndType, IndType', Readable, NEW c \in Consoles, NEW rec,
         console' = [console EXCEPT ![c] = rec],
         UNCHANGED <<priv, pub, config, app, reports, gone>>,
         \/ rec.pc \in {"off", "secret", "open"} /\ ~LateConsole(c)
         \/ rec.pc = "state" /\ rec.it = keys + 1 /\ ~LateConsole(c)
         \/ rec.pc = "priv" /\ rec.it = console[c].it /\ console[c].pc = "state"
  PROVE  Readable'
<1>1. keys' \in Nat /\ priv' \in File'
  BY DEF IndType, RestType, Limits, FilesType
<1>2. ASSUME NEW k \in Nat, Uses(k)' PROVE Uses(k)
  BY <1>2, UsesByConsole
<1>3. ASSUME NEW k \in Nat, Makes(k)' PROVE Makes(k) \/ k = keys + 1
  BY <1>3, MakesByConsole
<1>4. LateHeld'
  <2>1. /\ \A d \in Consoles : d # c => console'[d] = console[d]
        /\ console'[c] = rec
    BY DEF IndType, ConsolesType
  <2>2. \A d \in Consoles : (LateConsole(d))' => d # c
    BY <2>1 DEF LateConsole
  <2>3. \A a \in Apps : (LateApp(a))' => app'[a].made = priv' \/ app'[a].made \in gone'
    BY DEF LateApp, LateHeld, Readable
  <2>4. \A d \in Consoles : (LateConsole(d))' => console'[d].it = priv' \/ console'[d].it \in gone'
    BY <2>1, <2>2 DEF LateConsole, LateHeld, Readable
  <2> QED BY <2>3, <2>4 DEF LateHeld
<1> QED BY <1>1, <1>2, <1>3, <1>4, ReadRests

LEMMA ReadConsoleWrites ==
  ASSUME IndType, IndType', OneMaker, DoorPair, Readable, NEW c \in Consoles, ConsoleWrites(c)
  PROVE  Readable'
<1>1. /\ console[c].it \in 1..keys /\ keys' = keys /\ keys \in Nat
      /\ UNCHANGED <<reports, app, gone>> /\ priv' \in File'
  BY ConsoleWritesEffect DEF IndType, RestType, Limits, FilesType
<1>2. PICK rec \in ConsoleRec :
              /\ console' = [console EXCEPT ![c] = rec] /\ rec.it = console[c].it
              /\ \/ /\ console[c].pc = "state" /\ state' = console[c].it /\ rec.pc = "priv"
                    /\ UNCHANGED <<priv, pub, config>>
                 \/ /\ console[c].pc = "priv" /\ priv' = console[c].it /\ rec.pc = "pub"
                    /\ UNCHANGED <<state, pub, config>>
                 \/ /\ console[c].pc = "pub" /\ pub' = console[c].it /\ rec.pc = "config"
                    /\ UNCHANGED <<state, priv, config>>
                 \/ /\ console[c].pc = "config" /\ config' = console[c].it /\ rec.pc = "off"
                    /\ UNCHANGED <<state, priv, pub>>
  BY ConsoleWritesEffect
<1> DEFINE m == console[c].it
<1>3. m \in Nat /\ Holds(m)
  BY <1>1 DEF Holds
<1>4. CASE console[c].pc = "state"
  BY <1>1, <1>2, <1>4, ReadConsoleMoves
<1>5. CASE console[c].pc = "priv"
  <2>1. priv' = m /\ rec.pc = "pub" /\ rec.it = m /\ UNCHANGED <<pub, config>>
    BY <1>2, <1>5
  <2>2. ASSUME NEW k \in Nat, Uses(k)' PROVE Uses(k)
    BY <1>1, <1>2, <2>1, <2>2, UsesByConsole
  <2>3. ASSUME NEW k \in Nat, Makes(k)' PROVE Makes(k) \/ k = keys + 1
    BY <1>1, <1>2, <1>5, <2>1, <2>3, MakesByConsole
  <2>4. ~Uses(m)
    <3>1. Makes(m)
      BY <1>5 DEF Makes, ConsoleMakesPair
    <3> QED BY <1>3, <3>1 DEF Readable
  <2>5. Holds(priv) => ~Holds(pub) /\ pub # priv /\ ~Uses(priv)
    BY <1>5 DEF DoorPair, EarlyConsole, Unpaired, Readable
  <2>6. LateHeld'
    <3>1. /\ console'[c] = rec /\ \A d \in Consoles : (ConsoleMakes(d))' => d = c
          /\ \A a \in Apps : ~(AppMakes(a))'
      BY <1>1, <1>2, <1>5, OnlyConsole DEF ConsoleMakes, EarlyConsole
    <3> QED BY <2>1, <3>1 DEF LateHeld, AppMakes, ConsoleMakes
  <2>7. priv' = priv \/ ~Holds(priv') \/ ~Uses(priv')
    BY <2>1, <2>4
  <2> QED BY <1>1, <2>1, <2>2, <2>3, <2>5, <2>6, <2>7, ReadRests
<1>6. CASE console[c].pc = "pub"
  <2>1. pub' = m /\ rec.pc = "config" /\ rec.it = m /\ UNCHANGED <<priv, config>>
    BY <1>2, <1>6
  <2>2. ASSUME NEW k \in Nat, Uses(k)' PROVE Uses(k) \/ k = m
    BY <1>1, <1>2, <2>1, <2>2, UsesByConsole
  <2>3. m = priv \/ m \in gone
    BY <1>6 DEF Readable, LateHeld, LateConsole
  <2>4. priv \in {m, Absent}
    BY <1>6 DEF DoorPair, LateConsole
  <2>5. (\A b \in Apps : ~AppMakes(b)') /\ (\A d \in Consoles : ~ConsoleMakes(d)')
    <3>1. /\ console'[c] = rec /\ \A d \in Consoles : (ConsoleMakes(d))' => d = c
          /\ \A a \in Apps : ~(AppMakes(a))'
      BY <1>1, <1>2, <1>6, OnlyConsole DEF ConsoleMakes, LateConsole
    <3>2. ~ConsoleMakes(c)'
      BY <2>1, <3>1 DEF ConsoleMakes, EarlyConsole, LateConsole
    <3> QED BY <3>1, <3>2
  <2> QED BY <1>1, <1>3, <2>1, <2>2, <2>3, <2>4, <2>5, ReadWritesPub
<1>7. CASE console[c].pc = "config"
  <2>1. config' = m /\ rec.pc = "off" /\ UNCHANGED <<priv, pub>>
    BY <1>2, <1>7
  <2>2. Uses(m)
    BY <1>3, <1>7 DEF Uses, ConsoleUses
  <2>3. ASSUME NEW k \in Nat, Uses(k)' PROVE Uses(k)
    BY <1>1, <1>2, <2>1, <2>2, <2>3, UsesByConsole
  <2>4. ASSUME NEW k \in Nat, Makes(k)' PROVE Makes(k) \/ k = keys + 1
    BY <1>1, <1>2, <2>1, <2>4, MakesByConsole
  <2>5. LateHeld'
    <3>1. SameMakers
      BY <1>1, <1>2, <1>7, <2>1, SameByConsole DEF ConsoleMakes, EarlyConsole, LateConsole
    <3> QED BY <1>1, <2>1, <3>1, LateRests DEF Readable
  <2> QED BY <1>1, <2>1, <2>3, <2>4, <2>5, ReadRests
<1> QED BY <1>2, <1>4, <1>5, <1>6, <1>7

LEMMA ReadConsoleEnds ==
  ASSUME IndType, IndType', OneMaker, DoorPair, Readable, NEW c \in Consoles, ConsoleEnds(c),
         ~raced'
  PROVE  Readable'
<1> DEFINE off == [pc |-> "off", it |-> 0]
<1>1. /\ console' = [console EXCEPT ![c] = off] /\ UNCHANGED <<reports, keys, app, gone>>
      /\ raced' = (raced \/ Halves(console[c].pc = "pub", pub))
      /\ priv' \in Left(console[c].pc = "priv", priv)
      /\ pub' \in Left(console[c].pc = "pub", pub)
      /\ config' \in Left(console[c].pc = "config", config)
  BY DEF ConsoleEnds
<1>2. off.pc = "off"
  OBVIOUS
<1> HIDE DEF off
<1>3. keys' \in Nat /\ priv' \in File'
  BY DEF IndType, RestType, Limits, FilesType
<1>4. ASSUME NEW k \in Nat, Uses(k)' PROVE Uses(k)
  <2>1. Holds(k)
    BY <1>4 DEF Uses
  <2>2. (k = config' => k = config) /\ (k = pub' => k = pub)
    BY <1>1, <2>1 DEF Left, Holds, Torn
  <2> QED BY <1>1, <1>2, <1>4, <2>2, UsesByConsole
<1>5. ASSUME NEW k \in Nat, Makes(k)' PROVE Makes(k) \/ k = keys + 1
  BY <1>1, <1>2, <1>5, MakesByConsole
<1>6. pub' = pub \/ (~Holds(pub) /\ console[c].pc = "pub")
  <2>1. ~Halves(console[c].pc = "pub", pub)
    BY <1>1
  <2>2. CASE console[c].pc = "pub"
    BY <2>1, <2>2 DEF Halves, Exists, Holds, Absent
  <2>3. CASE console[c].pc # "pub"
    BY <1>1, <2>3 DEF Left
  <2> QED BY <2>2, <2>3
<1>7. priv' = priv \/ (console[c].pc = "priv" /\ priv' = Torn)
  BY <1>1 DEF Left
<1>8. ~Holds(Torn)
  BY DEF Holds, Torn
<1>9. Holds(priv) /\ priv' # priv => ~Uses(priv)
  BY <1>7 DEF DoorPair, EarlyConsole, Unpaired, Readable
<1>10. LateHeld'
  <2>1. CASE ConsoleMakes(c)
    <3>1. /\ console'[c] = off /\ \A d \in Consoles : (ConsoleMakes(d))' => d = c
          /\ \A a \in Apps : ~(AppMakes(a))'
      BY <1>1, <2>1, OnlyConsole
    <3>2. ~ConsoleMakes(c)'
      BY <1>2, <3>1 DEF ConsoleMakes, EarlyConsole, LateConsole
    <3> QED BY <3>1, <3>2, NobodyLate
  <2>2. CASE ~ConsoleMakes(c)
    <3>1. SameMakers
      BY <1>1, <1>2, <2>2, SameByConsole
    <3>2. priv' = priv
      BY <1>7, <2>2 DEF ConsoleMakes, EarlyConsole
    <3> QED BY <1>1, <3>1, <3>2, LateRests DEF Readable
  <2> QED BY <2>1, <2>2
<1> QED BY <1>1, <1>3, <1>4, <1>5, <1>6, <1>7, <1>8, <1>9, <1>10, ReadRests

\* The private key goes, to whoever took it, or nothing of all this changes.
LEMMA ReadKeyGoes ==
  ASSUME IndType, IndType', Readable, Revoke \/ DeleteDoor \/ TakeKey \/ Tick \/ UNCHANGED vars
  PROVE  Readable'
<1>1. /\ UNCHANGED <<config, reports, keys, app, console>> /\ gone \subseteq gone'
      /\ pub' \in {pub, Absent}
      /\ \/ UNCHANGED <<priv, pub>>
         \/ priv' = Absent /\ gone' = gone \cup ({priv} \cap 1..keys)
  BY DEF Revoke, DeleteDoor, TakeKey, Tick, vars, doorFiles
<1>2. Holds(priv) => priv \in 1..keys
  BY DEF Holds, IndType, FilesType, File, Torn, Absent
<1>3. priv' = priv \/ (Holds(priv) => priv \in gone')
  BY <1>1, <1>2
<1>4. keys' \in Nat /\ priv' \in File'
  BY DEF IndType, RestType, Limits, FilesType
<1>5. ~Holds(Absent)
  BY DEF Holds, Absent
<1>6. ASSUME NEW k \in Nat, Uses(k)' PROVE Uses(k)
  BY <1>1, <1>5, <1>6 DEF Uses, FileUses, AppUses, ConsoleUses
<1>7. ASSUME NEW k \in Nat, Makes(k)' PROVE Makes(k)
  BY <1>1, <1>7 DEF Makes, AppMakesPair, ConsoleMakesPair, AppMakes, EarlyApp, LateApp
<1>8. LateHeld'
  BY <1>1, <1>3, SameByNobody, LateRests DEF Readable
<1>9. priv' = priv => pub' = pub \/ ~Holds(pub) \/ ~Holds(priv)
  BY <1>1, <1>5
<1> QED BY <1>1, <1>3, <1>4, <1>5, <1>6, <1>7, <1>8, <1>9, ReadRests

LEMMA ReadInit == Limits /\ Init => ReadInv
<1> SUFFICES ASSUME Limits, Init PROVE Readable
  BY DEF ReadInv
<1>1. /\ config = 0 /\ pub = 0 /\ priv = 0 /\ reports = {}
      /\ \A a \in Apps : app[a].pc = "off" /\ app[a].hook = 0 /\ app[a].reporter = 0
      /\ \A c \in Consoles : console[c].pc = "off"
  BY DEF Init, Off, Absent
<1>2. \A k \in Nat : ~Uses(k)
  BY <1>1 DEF Uses, FileUses, AppUses, ConsoleUses, Holds
<1>3. ~Holds(priv)
  BY <1>1 DEF Holds
<1>4. LateHeld
  BY <1>1 DEF LateHeld, LateApp, LateConsole
<1> QED BY <1>2, <1>3, <1>4 DEF Readable

LEMMA ReadNext ==
  ASSUME IndType, IndType', DoorInv, ReadInv, [Next]_vars
  PROVE  ReadInv'
<1> SUFFICES ASSUME ~raced' PROVE Readable'
  BY DEF ReadInv
<1>0. OneMaker /\ DoorPair /\ Readable
  <2>1. ~raced
    BY DEF Next, vars, Launch, LoadForHook, New, Bootstrap, EnsureKeys, LoadAppKey, AppWrites,
           SaveReport, AppEnds, Setup, Generate, ConsoleWrites, AskToOpen, ConsoleEnds, Open,
           Revoke, DeleteDoor, TakeKey, Tick
  <2> QED BY <2>1 DEF DoorInv, ReadInv
<1>1. ASSUME NEW a \in Apps,
             \/ Launch(a) \/ AppWrites(a) \/ LoadForHook(a) \/ New(a) \/ Bootstrap(a)
             \/ SaveReport(a) \/ AppEnds(a)
      PROVE  Readable'
  BY <1>0, <1>1, QuietEffect, ReadQuiet, ReadAppWrites, ReadSaveReport, ReadAppEnds
<1>2. ASSUME NEW c \in Consoles, Setup(c) PROVE Readable'
  <2>1. /\ ConsoleGoes(c, "secret") /\ console[c].pc = "off"
        /\ UNCHANGED <<priv, pub, config, app, reports, gone>>
    BY <1>2 DEF Setup, doorFiles
  <2>2. PICK rec \in ConsoleRec : console' = [console EXCEPT ![c] = rec] /\ rec.pc = "secret"
    BY <2>1, ConsoleEffect
  <2> QED BY <1>0, <2>1, <2>2, ReadConsoleMoves DEF LateConsole
<1>3. ASSUME NEW c \in Consoles, Generate(c) PROVE Readable'
  <2> DEFINE rec == [pc |-> "state", it |-> keys + 1]
  <2>1. /\ console[c].pc = "secret" /\ console' = [console EXCEPT ![c] = rec]
        /\ UNCHANGED <<priv, pub, config, app, reports, gone>>
    BY <1>3 DEF Generate, doorFiles
  <2>2. rec.pc = "state" /\ rec.it = keys + 1
    OBVIOUS
  <2> HIDE DEF rec
  <2> QED BY <1>0, <2>1, <2>2, ReadConsoleMoves DEF LateConsole
<1>4. ASSUME NEW c \in Consoles, console[c].pc \in {"off", "open"}, NEW pc \in {"off", "open"},
             ConsoleGoes(c, pc), UNCHANGED <<priv, pub, config, app, reports, gone>>
      PROVE  Readable'
  <2>1. PICK rec \in ConsoleRec : console' = [console EXCEPT ![c] = rec] /\ rec.pc = pc
    BY <1>4, ConsoleEffect
  <2> QED BY <1>0, <1>4, <2>1, ReadConsoleMoves DEF LateConsole
<1>5. ASSUME NEW c \in Consoles, AskToOpen(c) PROVE Readable'
  BY <1>4, <1>5 DEF AskToOpen, doorFiles
<1>6. ASSUME NEW c \in Consoles, NEW key \in 1..keys, Open(c, key) PROVE Readable'
  BY <1>4, <1>6 DEF Open
<1>7. ASSUME NEW c \in Consoles, ConsoleWrites(c) \/ ConsoleEnds(c) PROVE Readable'
  BY <1>0, <1>7, ReadConsoleWrites, ReadConsoleEnds
<1>8. CASE Revoke \/ DeleteDoor \/ TakeKey \/ Tick \/ UNCHANGED vars
  BY <1>0, <1>8, ReadKeyGoes
<1> QED BY <1>1, <1>2, <1>3, <1>5, <1>6, <1>7, <1>8 DEF Next

\* Unless a pair was made by two at once or left half replaced, the private key of every
\* report is in the door or was taken from it.
THEOREM ReportsReadable == ASSUME Limits PROVE Spec => []ReportsStayReadable
<1>1. Init => IndType /\ DoorInv /\ ReadInv
  BY InitType, DoorInit, ReadInit
<1>2. IndType /\ DoorInv /\ ReadInv /\ [Next]_vars => (IndType /\ DoorInv /\ ReadInv)'
  BY TypeNext, DoorNext, ReadNext
<1>3. IndType /\ ReadInv => ReportsStayReadable
  <2> SUFFICES ASSUME IndType, Readable, NEW r \in reports
               PROVE  r.to \in {priv} \cup gone
    BY DEF ReadInv, ReportsStayReadable, Decrypts
  <2>1. r.to \in Nat /\ r.to > 0
    BY DEF IndType, RestType, Limits
  <2>2. Uses(r.to)
    BY <2>1 DEF Uses, FileUses, Holds
  <2> QED BY <2>1, <2>2 DEF Readable
<1> QED BY <1>1, <1>2, <1>3, PTL DEF Spec
=============================================================================
