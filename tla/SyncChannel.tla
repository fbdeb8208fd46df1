----------------------------- MODULE SyncChannel -----------------------------
(***************************************************************************)
(* The synchronization channel: pairing codes, the table of authorized     *)
(* devices, the callbacks of the service and the mutexes around them, and  *)
(* on the other side vaultctl with its identity files.                     *)
(*                                                                         *)
(* A certificate stands for itself, its key and its fingerprint: a number, *)
(* in the order of their issue.  A code is a number as well.  A mutex that *)
(* is held only within one statement (pairings, devices) is no mutex here; *)
(* the others are held across steps and are poisoned by a panic.           *)
(***************************************************************************)
EXTENDS Integers, Sequences

CONSTANTS Devices,   \* device identifiers, one identity directory each
          Asked,     \* the kinds of request sent with an identity
          Conns,     \* connections the server is serving
          CodeTtl,   \* 600 seconds
          Panics,    \* whether code that holds the mutexes may panic
          MaxClock,  \* bound: end of time
          MaxCode,   \* bound: pairing codes issued
          MaxCert    \* bound: certificates issued

Mutexes == {"admin", "manifest", "on_document", "on_paired"}
Kinds == {"ping", "manifest", "upload", "pair"}
Threads == {"panel", "loop"}

\* What the proofs assume of the constants.
Limits ==
    /\ Devices # {} /\ Conns # {}
    /\ Conns \cap (Threads \cup {"free", "poisoned"}) = {}
    /\ Asked \subseteq Kinds \ {"pair"}
    /\ CodeTtl \in Nat /\ MaxClock \in Nat /\ MaxCode \in Nat /\ MaxCert \in Nat

VARIABLES
    clock,      \* seconds
    running,    \* vaultd is running
    mutex,      \* who holds each mutex, "free" or "poisoned"
    pairings,   \* the codes that can be used: code -> expires_at
    codes,      \* number of the last code issued
    authorized, \* SyncState::devices: device -> certificate, 0 for none
    registry,   \* the devices of the database in memory
    saved,      \* the devices of the database on disk
    certs,      \* number of the last certificate issued
    conn,       \* what each connection is doing
    thread,     \* a thread of the panel and the minute loop: idle or in AdminService
    client,     \* vaultctl of each device: the connection it waits for, if any
    ident,      \* the identity files of each device
    born,       \* history: the last certificate issued before the last start
    expiry,     \* history: code -> when it expires
    opened      \* history: the codes that opened the channel

vars == <<clock, running, mutex, pairings, codes, authorized, registry, saved,
          certs, conn, thread, client, ident, born, expiry, opened>>

Cert == 0..MaxCert
Quiet == [pc |-> "idle", kind |-> "ping", dev |-> CHOOSE d \in Devices : TRUE,
          code |-> 0, cert |-> 0, ok |-> FALSE]
AtRest == [pc |-> "idle", on |-> CHOOSE k \in Conns : TRUE, cert |-> 0]
Nobody == [d \in Devices |-> 0]

TypeOK ==
    /\ clock \in 0..MaxClock /\ running \in BOOLEAN
    /\ mutex \in [Mutexes -> Conns \cup Threads \cup {"free", "poisoned"}]
    /\ codes \in 0..MaxCode /\ certs \in Cert /\ born \in 0..certs
    /\ DOMAIN pairings \subseteq 1..codes /\ expiry \in Seq(Nat) /\ Len(expiry) = codes
    /\ \A c \in DOMAIN pairings : pairings[c] = expiry[c]
    /\ authorized \in [Devices -> Cert]
    /\ registry \in [Devices -> Cert] /\ saved \in [Devices -> Cert]
    /\ conn \in [Conns -> [pc : {"idle", "read", "coded", "granted", "calls", "inside",
                                 "answered"},
                           kind : Kinds, dev : Devices, code : 0..MaxCode,
                           cert : Cert, ok : BOOLEAN]]
    /\ thread \in [Threads -> {"idle", "inside"}]
    /\ client \in [Devices -> [pc : {"idle", "waits", "cert", "key"}, on : Conns,
                               cert : Cert]]
    /\ ident \in [Devices -> [cert : Cert, key : Cert]]
    /\ opened \subseteq 1..codes

Init ==
    /\ clock = 0 /\ running = TRUE
    /\ mutex = [m \in Mutexes |-> "free"]
    /\ pairings = <<>> /\ codes = 0 /\ expiry = <<>> /\ opened = {}
    /\ authorized = Nobody /\ registry = Nobody /\ saved = Nobody
    /\ certs = 0 /\ born = 0
    /\ conn = [k \in Conns |-> Quiet]
    /\ thread = [t \in Threads |-> "idle"]
    /\ client = [d \in Devices |-> AtRest]
    /\ ident = [d \in Devices |-> [cert |-> 0, key |-> 0]]

codeVars == <<pairings, codes, expiry, opened>>
deviceVars == <<authorized, registry, saved, certs>>
clientVars == <<client, ident>>
stable == <<clock, running, born>>

-----------------------------------------------------------------------------
\* Mutexes.  `lock().unwrap()` waits for a free mutex and panics on a poisoned one.

Free(m) == mutex[m] = "free"
Poisoned(m) == mutex[m] = "poisoned"
Give(ms, to) == mutex' = [m \in Mutexes |-> IF m \in ms THEN to ELSE mutex[m]]

Callback(k) == CASE conn[k].kind = "manifest" -> "manifest"
                 [] conn[k].kind = "upload" -> "on_document"
                 [] OTHER -> "on_paired"

-----------------------------------------------------------------------------
\* vaultctl.

\* load_identity: a certificate and its own key, without which there is no handshake.
Whole(d) == ident[d].cert = ident[d].key /\ ident[d].cert # 0

\* A request with the identity of the directory.
Ask(d, k, kind) ==
    /\ running /\ client[d].pc = "idle" /\ conn[k].pc = "idle"
    /\ Whole(d)
    /\ conn' = [conn EXCEPT ![k] = [Quiet EXCEPT !.pc = "read", !.kind = kind, !.dev = d,
                                                 !.cert = ident[d].cert]]
    /\ client' = [client EXCEPT ![d] = [pc |-> "waits", on |-> k, cert |-> 0]]
    /\ UNCHANGED <<stable, mutex, codeVars, deviceVars, thread, ident>>

\* cmd_pair: no certificate, a code that somebody read on the panel or mistook.
AskToPair(d, k, c) ==
    /\ running /\ client[d].pc = "idle" /\ conn[k].pc = "idle"
    /\ conn' = [conn EXCEPT ![k] = [Quiet EXCEPT !.pc = "read", !.kind = "pair", !.dev = d,
                                                 !.code = c]]
    /\ client' = [client EXCEPT ![d] = [pc |-> "waits", on |-> k, cert |-> 0]]
    /\ UNCHANGED <<stable, mutex, codeVars, deviceVars, thread, ident>>

\* The answer is written, and read if the client still waits for it: save_identity
\* writes the files one after the other.
Answer(k) ==
    /\ conn[k].pc = "answered"
    /\ conn' = [conn EXCEPT ![k] = Quiet]
    /\ LET d == conn[k].dev
           reads == client[d].pc = "waits" /\ client[d].on = k
       IN client' = IF ~reads THEN client
                    ELSE IF conn[k].kind = "pair" /\ conn[k].ok
                    THEN [client EXCEPT ![d] = [AtRest EXCEPT !.pc = "cert", !.cert = conn[k].cert]]
                    ELSE [client EXCEPT ![d] = AtRest]
    /\ UNCHANGED <<stable, mutex, codeVars, deviceVars, thread, ident>>

SaveCert(d) ==
    /\ client[d].pc = "cert"
    /\ ident' = [ident EXCEPT ![d] = [cert |-> client[d].cert, key |-> ident[d].key]]
    /\ client' = [client EXCEPT ![d] = [AtRest EXCEPT !.pc = "key", !.cert = client[d].cert]]
    /\ UNCHANGED <<stable, mutex, codeVars, deviceVars, conn, thread>>

SaveKey(d) ==
    /\ client[d].pc = "key"
    /\ ident' = [ident EXCEPT ![d] = [cert |-> ident[d].cert, key |-> client[d].cert]]
    /\ client' = [client EXCEPT ![d] = AtRest]
    /\ UNCHANGED <<stable, mutex, codeVars, deviceVars, conn, thread>>

\* NET_TIMEOUT passes, a file cannot be written, or the process is killed; the
\* server does not notice.
GiveUp(d) ==
    /\ client[d].pc # "idle"
    /\ client' = [client EXCEPT ![d] = AtRest]
    /\ UNCHANGED <<stable, mutex, codeVars, deviceVars, conn, thread, ident>>

-----------------------------------------------------------------------------
\* A connection of the server: handle_conn.

Reply(k, ok) == conn' = [conn EXCEPT ![k].pc = "answered", ![k].ok = ok]

\* require_auth: the table knows this device with this certificate.  A ping is
\* answered, the others go on to their callback (an upload after writing its file).
Authorize(k) ==
    /\ conn[k].pc = "read" /\ conn[k].kind # "pair"
    /\ IF authorized[conn[k].dev] # conn[k].cert THEN Reply(k, FALSE)
       ELSE IF conn[k].kind = "ping" THEN Reply(k, TRUE)
       ELSE conn' = [conn EXCEPT ![k].pc = "granted"]
    /\ UNCHANGED <<stable, mutex, codeVars, deviceVars, thread, clientVars>>

Unexpired == {c \in DOMAIN pairings : pairings[c] > clock}

\* Mutant: a code is looked up before the expired ones are dropped.
AcceptsExpired(c) == c \in DOMAIN pairings

\* consume_pairing_code: expired codes are dropped, then the one presented.
Accepts(c) == c \in Unexpired

Pair(k) ==
    /\ conn[k].pc = "read" /\ conn[k].kind = "pair"
    /\ pairings' = [b \in Unexpired \ {conn[k].code} |-> pairings[b]]
    /\ IF Accepts(conn[k].code)
       THEN /\ opened' = opened \cup {conn[k].code}
            /\ conn' = [conn EXCEPT ![k].pc = "coded", ![k].code = 0]
       ELSE Reply(k, FALSE) /\ UNCHANGED opened
    /\ UNCHANGED <<stable, mutex, codes, expiry, deviceVars, thread, clientVars>>

\* Mutant: the first certificate of a device stays.
EnrolFirst(d, cert) ==
    authorized' = IF authorized[d] = 0 THEN [authorized EXCEPT ![d] = cert] ELSE authorized

\* register_device
Enrol(d, cert) == authorized' = [authorized EXCEPT ![d] = cert]

\* issue_client_certificate, which may fail, and register_device.
Register(k) ==
    /\ conn[k].pc = "coded"
    /\ \/ /\ certs < MaxCert
          /\ certs' = certs + 1
          /\ Enrol(conn[k].dev, certs')
          /\ conn' = [conn EXCEPT ![k].pc = "granted", ![k].cert = certs']
       \/ Reply(k, FALSE) /\ UNCHANGED <<certs, authorized>>
    /\ UNCHANGED <<stable, mutex, codeVars, registry, saved, thread, clientVars>>

\* The task panics: its connection is gone and its client sees it closed.
Dies(k) ==
    /\ conn' = [conn EXCEPT ![k] = Quiet]
    /\ client' = [d \in Devices |-> IF client[d].pc = "waits" /\ client[d].on = k
                                    THEN AtRest ELSE client[d]]

\* `state.on_paired.lock().unwrap()(...)`: the mutex is held during the call.
LockCallback(k) ==
    /\ conn[k].pc = "granted"
    /\ \/ /\ Free(Callback(k))
          /\ Give({Callback(k)}, k)
          /\ conn' = [conn EXCEPT ![k].pc = "calls"]
          /\ UNCHANGED client
       \/ Poisoned(Callback(k)) /\ Dies(k) /\ UNCHANGED mutex
    /\ UNCHANGED <<stable, codeVars, deviceVars, thread, ident>>

\* The callback takes the AdminService mutex.
LockAdmin(k) ==
    /\ conn[k].pc = "calls"
    /\ \/ /\ Free("admin")
          /\ Give({"admin"}, k)
          /\ conn' = [conn EXCEPT ![k].pc = "inside"]
          /\ UNCHANGED client
       \/ Poisoned("admin") /\ Dies(k) /\ Give({Callback(k)}, "poisoned")
    /\ UNCHANGED <<stable, codeVars, deviceVars, thread, ident>>

\* Mutant: the callback still is the one of SyncState::new, which records nothing.
RecordsNothing(k) == UNCHANGED <<registry, saved>>

\* pair_device: the device is recorded; a failing flush is ignored by on_paired.
Records(k) ==
    IF conn[k].kind # "pair" THEN UNCHANGED <<registry, saved>>
    ELSE /\ registry' = [registry EXCEPT ![conn[k].dev] = conn[k].cert]
         /\ saved' \in {registry', saved}

\* Mutant: the callback's mutex is not released.
LeavesCallback(k) == Give({"admin"}, "free")

Leaves(k) == Give({"admin", Callback(k)}, "free")

Finish(k) ==
    /\ conn[k].pc = "inside"
    /\ Records(k)
    /\ Leaves(k)
    /\ Reply(k, TRUE)
    /\ UNCHANGED <<stable, codeVars, authorized, certs, thread, clientVars>>

-----------------------------------------------------------------------------
\* The panel and the minute loop, which take the AdminService mutex alone.

Enter(t) ==
    /\ running /\ thread[t] = "idle" /\ Free("admin")
    /\ Give({"admin"}, t)
    /\ thread' = [thread EXCEPT ![t] = "inside"]
    /\ UNCHANGED <<stable, codeVars, deviceVars, conn, clientVars>>

\* SyncState::new_pairing_code, called by AdminService under its mutex.
NewCode ==
    /\ codes < MaxCode
    /\ codes' = codes + 1
    /\ expiry' = Append(expiry, clock + CodeTtl)
    /\ pairings' = [c \in DOMAIN pairings \cup {codes'} |->
                      IF c = codes' THEN clock + CodeTtl ELSE pairings[c]]
    /\ UNCHANGED opened

\* The panel issues a code, or does anything else; the loop sweeps and destroys.
Leave(t) ==
    /\ thread[t] = "inside"
    /\ \/ t = "panel" /\ NewCode
       \/ UNCHANGED codeVars
    /\ Give({"admin"}, "free")
    /\ thread' = [thread EXCEPT ![t] = "idle"]
    /\ UNCHANGED <<stable, deviceVars, conn, clientVars>>

\* The process ends.  All tables were in memory; only the database is left.
Ends ==
    /\ running' = FALSE
    /\ mutex' = [m \in Mutexes |-> "free"]
    /\ pairings' = <<>>
    /\ authorized' = Nobody /\ registry' = saved
    /\ conn' = [k \in Conns |-> Quiet]
    /\ thread' = [t \in Threads |-> "idle"]
    /\ client' = [d \in Devices |-> IF client[d].pc = "waits" THEN AtRest ELSE client[d]]
    /\ UNCHANGED <<clock, codes, expiry, opened, saved, certs, ident, born>>

\* A panic under the mutex: a connection or a thread of the panel dies alone, and
\* leaves the mutexes poisoned; the loop runs in main and ends the process.  (So
\* does the thread of the panel that finds the poison, which changes nothing.)
Panic ==
    /\ Panics
    /\ \/ \E k \in Conns :
             /\ conn[k].pc = "inside"
             /\ Dies(k)
             /\ Give({"admin", Callback(k)}, "poisoned")
             /\ UNCHANGED thread
       \/ /\ thread["panel"] = "inside"
          /\ thread' = [thread EXCEPT !["panel"] = "idle"]
          /\ Give({"admin"}, "poisoned")
          /\ UNCHANGED <<conn, client>>
    /\ UNCHANGED <<stable, codeVars, deviceVars, ident>>

LoopFindsPoison == running /\ Poisoned("admin") /\ Ends

Stop == running /\ Ends

\* Vault::open and start_sync: the table of devices starts empty.
Start ==
    /\ ~running
    /\ running' = TRUE
    /\ born' = certs
    /\ UNCHANGED <<clock, mutex, codeVars, deviceVars, conn, thread, clientVars>>

Tick ==
    /\ clock < MaxClock
    /\ clock' = clock + 1
    /\ UNCHANGED <<running, born, mutex, codeVars, deviceVars, conn, thread, clientVars>>

-----------------------------------------------------------------------------
ClientStep(d) ==
    \/ \E k \in Conns, kind \in Asked : Ask(d, k, kind)
    \/ \E k \in Conns, c \in 1..codes : AskToPair(d, k, c)
    \/ SaveCert(d)
    \/ SaveKey(d)
    \/ GiveUp(d)

Runs(k) == Authorize(k) \/ Pair(k) \/ Register(k) \/ Finish(k) \/ Answer(k)
ConnStep(k) == Runs(k) \/ LockCallback(k) \/ LockAdmin(k)
ThreadStep(t) == Enter(t) \/ Leave(t)

Next ==
    \/ \E d \in Devices : ClientStep(d)
    \/ \E k \in Conns : ConnStep(k)
    \/ \E t \in Threads : ThreadStep(t)
    \/ Panic
    \/ LoopFindsPoison
    \/ Stop
    \/ Start
    \/ Tick

Spec == Init /\ [][Next]_vars

-----------------------------------------------------------------------------
\* A pairing code opens once, before it expires, although two connections may
\* present it and expired codes stay in the list until some code is consumed.
CodeOpensOnceInTime ==
    [][\A k \in Conns : conn[k].pc = "read" /\ conn'[k].pc = "coded"
         => LET c == conn[k].code IN c \notin opened /\ clock < expiry[c]]_vars

\* Complete identity files whose place no newer pairing took get in exactly as long as
\* the service runs that issued them: an answer that was lost, a client killed while it
\* saved or a panic never shuts them out, and a restart always does, though pairings
\* are saved (vaultd main.rs:245, "sobrevive reinicios").
IdentityLastsUntilRestart ==
    \A d \in Devices :
        running /\ Whole(d) /\ authorized[d] <= ident[d].cert
            => (authorized[d] = ident[d].cert <=> ident[d].cert > born)

\* Whoever the channel lets in is in the registry that the panel shows, unless
\* its pairing is still being recorded or a panic poisoned the callback.
AuthorizedIsRecorded ==
    \A d \in Devices : authorized[d] # 0 =>
        \/ registry[d] # 0
        \/ Poisoned("admin") \/ Poisoned("on_paired")
        \/ \E k \in Conns : conn[k].kind = "pair" /\ conn[k].dev = d
                            /\ conn[k].pc \in {"granted", "calls", "inside"}

\* Requests in progress never wait for one another in a circle: the callbacks'
\* mutexes and the one of AdminService are always taken in the same order, and a
\* poisoned one is given up, so somebody can go on.
SomebodyGoesOn ==
    (\E k \in Conns : conn[k].pc # "idle")
        => \/ \E k \in Conns : ENABLED ConnStep(k)
           \/ \E t \in Threads : thread[t] = "inside"
=============================================================================
