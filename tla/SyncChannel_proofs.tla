-------------------------- MODULE SyncChannel_proofs --------------------------
(***************************************************************************)
(* Proofs about the synchronization channel, for any number of devices and *)
(* connections, any length of the codes' life and any bounds.              *)
(***************************************************************************)
EXTENDS SyncChannel, SequenceTheorems, TLAPS

Conn == [pc : {"idle", "read", "coded", "granted", "calls", "inside", "answered"},
         kind : Kinds, dev : Devices, code : 0..MaxCode, cert : Cert, ok : BOOLEAN]
Client == [pc : {"idle", "waits", "cert", "key"}, on : Conns, cert : Cert]
Holders == Conns \cup Threads \cup {"free", "poisoned"}

-----------------------------------------------------------------------------
\* What a record keeps when one of its fields changes.

LEMMA QuietType == ASSUME Limits PROVE Quiet \in Conn
<1>1. (CHOOSE d \in Devices : TRUE) \in Devices
  BY DEF Limits
<1>2. 0 \in 0..MaxCode /\ 0 \in Cert
  BY DEF Limits, Cert
<1> QED BY <1>1, <1>2 DEF Quiet, Conn, Kinds

LEMMA ReadType ==
  ASSUME NEW q \in Conn, NEW kind \in Kinds, NEW d \in Devices
  PROVE  /\ \A cert \in Cert :
              [q EXCEPT !.pc = "read", !.kind = kind, !.dev = d, !.cert = cert] \in Conn
         /\ \A code \in 0..MaxCode :
              [q EXCEPT !.pc = "read", !.kind = kind, !.dev = d, !.code = code] \in Conn
BY DEF Conn

LEMMA AtRestType == ASSUME Limits PROVE AtRest \in Client
<1>1. (CHOOSE k \in Conns : TRUE) \in Conns
  BY DEF Limits
<1>2. 0 \in Cert
  BY DEF Limits, Cert
<1> QED BY <1>1, <1>2 DEF AtRest, Client

\* Who dies or ends its client: every record is still one.
LEMMA DiesType ==
  ASSUME Limits, NEW k \in Conns, Dies(k),
         conn \in [Conns -> Conn], client \in [Devices -> Client]
  PROVE  conn' \in [Conns -> Conn] /\ client' \in [Devices -> Client]
<1>1. conn' \in [Conns -> Conn]
  BY QuietType DEF Dies
<1>2. client' \in [Devices -> Client]
  BY AtRestType DEF Dies
<1> QED BY <1>1, <1>2

LEMMA ReplyType ==
  ASSUME NEW k \in Conns, NEW ok \in BOOLEAN, Reply(k, ok), conn \in [Conns -> Conn]
  PROVE  conn' \in [Conns -> Conn]
<1> DEFINE a == [conn[k] EXCEPT !.pc = "answered"]
<1> DEFINE b == [a EXCEPT !.ok = ok]
<1>1. conn[k] \in Conn
  OBVIOUS
<1>2. a \in Conn
  BY <1>1 DEF Conn
<1> HIDE DEF a
<1>3. b \in Conn
  BY <1>2 DEF Conn
<1>4. conn' = [conn EXCEPT ![k] = b]
  BY <1>1 DEF Reply, a, Conn
<1> HIDE DEF b
<1> QED BY <1>3, <1>4

\* A mutex changes hands.
LEMMA GiveType ==
  ASSUME NEW ms, NEW to \in Holders, Give(ms, to), mutex \in [Mutexes -> Holders]
  PROVE  mutex' \in [Mutexes -> Holders]
BY DEF Give

-----------------------------------------------------------------------------
\* The parts of the type invariant.
CodesType ==
    /\ codes \in 0..MaxCode
    /\ DOMAIN pairings \subseteq 1..codes /\ expiry \in Seq(Nat) /\ Len(expiry) = codes
    /\ \A c \in DOMAIN pairings : pairings[c] = expiry[c]
    /\ opened \subseteq 1..codes
DevicesType ==
    /\ certs \in Cert
    /\ authorized \in [Devices -> Cert]
    /\ registry \in [Devices -> Cert] /\ saved \in [Devices -> Cert]
ProcessType == clock \in 0..MaxClock /\ running \in BOOLEAN /\ born \in 0..certs
ServerType ==
    /\ mutex \in [Mutexes -> Holders]
    /\ conn \in [Conns -> Conn]
    /\ thread \in [Threads -> {"idle", "inside"}]
ClientType ==
    /\ client \in [Devices -> Client]
    /\ ident \in [Devices -> [cert : Cert, key : Cert]]

LEMMA TypeParts ==
  TypeOK <=> CodesType /\ DevicesType /\ ProcessType /\ ServerType /\ ClientType
BY DEF TypeOK, CodesType, DevicesType, ProcessType, ServerType, ClientType, Holders, Conn, Client

LEMMA TypeNext ==
  CodesType' /\ DevicesType' /\ ProcessType' /\ ServerType' /\ ClientType' => TypeOK'
BY DEF TypeOK, CodesType, DevicesType, ProcessType, ServerType, ClientType, Holders, Conn, Client

\* A step that leaves these variables alone keeps the parts about them.
LEMMA PartsKept ==
  ASSUME TypeOK
  PROVE  /\ UNCHANGED codeVars => CodesType'
         /\ UNCHANGED deviceVars => DevicesType'
         /\ UNCHANGED <<stable, certs>> => ProcessType'
BY TypeParts DEF CodesType, DevicesType, ProcessType, codeVars, deviceVars, stable, Cert

LEMMA InitType == ASSUME Limits, Init PROVE TypeOK
<1>1. CodesType
  BY EmptySeq DEF Init, CodesType, Limits
<1>2. DevicesType /\ ProcessType
  BY DEF Init, DevicesType, ProcessType, Nobody, Cert, Limits
<1>3. ServerType
  BY QuietType DEF Init, ServerType, Holders, Threads
<1>4. ClientType
  <2>1. 0 \in Cert
    BY DEF Cert, Limits
  <2> QED BY <2>1, AtRestType DEF Init, ClientType
<1> QED BY <1>1, <1>2, <1>3, <1>4, TypeParts

-----------------------------------------------------------------------------
\* The steps of a client.
LEMMA ClientStepType ==
  ASSUME Limits, TypeOK, NEW d \in Devices, ClientStep(d)
  PROVE  TypeOK'
<1>0. /\ conn \in [Conns -> Conn] /\ client \in [Devices -> Client] /\ 0 \in Cert
      /\ ident \in [Devices -> [cert : Cert, key : Cert]] /\ codes \in 0..MaxCode
  BY TypeParts DEF ServerType, ClientType, CodesType, Cert, Limits
<1>1. ASSUME NEW k \in Conns, NEW kind \in Asked, Ask(d, k, kind) PROVE TypeOK'
  <2>1. conn' \in [Conns -> Conn]
    <3> DEFINE q == [Quiet EXCEPT !.pc = "read", !.kind = kind, !.dev = d, !.cert = ident[d].cert]
    <3>1. conn' = [conn EXCEPT ![k] = q]
      BY <1>1 DEF Ask
    <3>2. q \in Conn
      BY <1>0, QuietType, ReadType DEF Kinds, Limits
    <3> HIDE DEF q
    <3> QED BY <1>0, <3>1, <3>2
  <2>2. client' \in [Devices -> Client]
    BY <1>0, <1>1 DEF Ask, Client
  <2>3. UNCHANGED <<stable, mutex, codeVars, deviceVars, thread, ident>>
    BY <1>1 DEF Ask
  <2>4. CodesType' /\ DevicesType' /\ ProcessType'
    BY <2>3, PartsKept DEF deviceVars
  <2>5. ServerType' /\ ClientType'
    BY <1>0, <2>1, <2>2, <2>3, TypeParts DEF ServerType, ClientType
  <2> QED BY <2>4, <2>5, TypeNext
<1>2. ASSUME NEW k \in Conns, NEW c \in 1..codes, AskToPair(d, k, c) PROVE TypeOK'
  <2>1. conn' \in [Conns -> Conn]
    <3> DEFINE q == [Quiet EXCEPT !.pc = "read", !.kind = "pair", !.dev = d, !.code = c]
    <3>1. conn' = [conn EXCEPT ![k] = q]
      BY <1>2 DEF AskToPair
    <3>2. c \in 0..MaxCode
      BY <1>0 DEF Limits
    <3>3. q \in Conn
      BY <3>2, QuietType, ReadType DEF Kinds
    <3> HIDE DEF q
    <3> QED BY <1>0, <3>1, <3>3
  <2>2. client' \in [Devices -> Client]
    BY <1>0, <1>2 DEF AskToPair, Client
  <2>3. UNCHANGED <<stable, mutex, codeVars, deviceVars, thread, ident>>
    BY <1>2 DEF AskToPair
  <2>4. CodesType' /\ DevicesType' /\ ProcessType'
    BY <2>3, PartsKept DEF deviceVars
  <2>5. ServerType' /\ ClientType'
    BY <1>0, <2>1, <2>2, <2>3, TypeParts DEF ServerType, ClientType
  <2> QED BY <2>4, <2>5, TypeNext
<1>3. ASSUME client' \in [Devices -> Client],
             ident' \in [Devices -> [cert : Cert, key : Cert]],
             UNCHANGED <<stable, mutex, codeVars, deviceVars, conn, thread>>
      PROVE  TypeOK'
  <2>1. CodesType' /\ DevicesType' /\ ProcessType'
    BY <1>3, PartsKept DEF deviceVars
  <2>2. ServerType' /\ ClientType'
    BY <1>3, TypeParts DEF ServerType, ClientType
  <2> QED BY <2>1, <2>2, TypeNext
<1>4. [AtRest EXCEPT !.pc = "key", !.cert = client[d].cert] \in Client
  BY <1>0, AtRestType DEF Client
<1>5. CASE SaveCert(d)
  BY <1>0, <1>3, <1>4, <1>5 DEF SaveCert, Client
<1>6. CASE SaveKey(d)
  BY <1>0, <1>3, <1>6, AtRestType DEF SaveKey, Client
<1>7. CASE GiveUp(d)
  BY <1>0, <1>3, <1>7, AtRestType DEF GiveUp
<1> QED BY <1>1, <1>2, <1>5, <1>6, <1>7 DEF ClientStep

-----------------------------------------------------------------------------
\* The steps of a connection.
LEMMA PcType ==
  ASSUME NEW q \in Conn
  PROVE  /\ \A pc \in {"coded", "granted", "calls", "inside"} : [q EXCEPT !.pc = pc] \in Conn
         /\ \A pc \in {"coded", "granted"}, cert \in Cert :
              [q EXCEPT !.pc = pc, !.cert = cert] \in Conn
         /\ 0 \in 0..MaxCode => [q EXCEPT !.pc = "coded", !.code = 0] \in Conn
BY DEF Conn

LEMMA ConnStepType ==
  ASSUME Limits, TypeOK, NEW k \in Conns, ConnStep(k)
  PROVE  TypeOK'
<1>0. /\ conn \in [Conns -> Conn] /\ client \in [Devices -> Client] /\ 0 \in Cert
      /\ mutex \in [Mutexes -> Holders] /\ 0 \in 0..MaxCode /\ k \in Holders
  BY TypeParts DEF ServerType, ClientType, Holders, Cert, Limits
<1>1. conn[k] \in Conn
  BY <1>0
<1>2. ASSUME conn' \in [Conns -> Conn], client' \in [Devices -> Client],
             mutex' \in [Mutexes -> Holders], UNCHANGED <<thread, ident>>
      PROVE  ServerType' /\ ClientType'
  BY <1>2, TypeParts DEF ServerType, ClientType
<1>3. CASE Authorize(k)
  <2>1. conn' \in [Conns -> Conn]
    BY <1>0, <1>1, <1>3, ReplyType, PcType DEF Authorize
  <2>2. UNCHANGED <<stable, mutex, codeVars, deviceVars, thread, client, ident>>
    BY <1>3 DEF Authorize, clientVars
  <2>3. CodesType' /\ DevicesType' /\ ProcessType'
    BY <2>2, PartsKept DEF deviceVars
  <2> QED BY <1>0, <1>2, <2>1, <2>2, <2>3, TypeNext
<1>4. CASE Pair(k)
  <2>1. conn' \in [Conns -> Conn]
    <3>1. CASE Accepts(conn[k].code)
      BY <1>0, <1>1, <1>4, <3>1, PcType DEF Pair
    <3>2. CASE ~Accepts(conn[k].code)
      BY <1>0, <1>4, <3>2, ReplyType DEF Pair
    <3> QED BY <3>1, <3>2
  <2>2. UNCHANGED <<stable, mutex, codes, expiry, deviceVars, thread, client, ident>>
    BY <1>4 DEF Pair, clientVars
  <2>3. DevicesType' /\ ProcessType'
    BY <2>2, PartsKept DEF deviceVars
  <2>4. CodesType'
    <3>1. opened' \subseteq opened \cup DOMAIN pairings
      BY <1>4 DEF Pair, Accepts, Unexpired
    <3>2. /\ DOMAIN pairings' \subseteq DOMAIN pairings
          /\ \A c \in DOMAIN pairings' : pairings'[c] = pairings[c]
      BY <1>4 DEF Pair, Unexpired
    <3> QED BY <2>2, <3>1, <3>2, TypeParts DEF CodesType
  <2> QED BY <1>0, <1>2, <2>1, <2>2, <2>3, <2>4, TypeNext
<1>5. CASE Register(k)
  <2>1. UNCHANGED <<stable, mutex, codeVars, registry, saved, thread, client, ident>>
    BY <1>5 DEF Register, clientVars
  <2>2. CASE Reply(k, FALSE) /\ UNCHANGED <<certs, authorized>>
    <3>1. conn' \in [Conns -> Conn]
      BY <1>0, <2>2, ReplyType
    <3>2. CodesType' /\ DevicesType' /\ ProcessType'
      BY <2>1, <2>2, PartsKept DEF deviceVars
    <3> QED BY <1>0, <1>2, <2>1, <3>1, <3>2, TypeNext
  <2>3. CASE /\ certs < MaxCert
             /\ certs' = certs + 1
             /\ Enrol(conn[k].dev, certs')
             /\ conn' = [conn EXCEPT ![k].pc = "granted", ![k].cert = certs']
    <3>1. certs' \in Cert /\ certs \in 0..certs'
      BY <2>3, TypeParts DEF DevicesType, Cert, Limits
    <3>2. conn' \in [Conns -> Conn]
      <4> DEFINE q == [conn[k] EXCEPT !.pc = "granted", !.cert = certs']
      <4>1. conn' = [conn EXCEPT ![k] = q]
        BY <1>1, <2>3 DEF Conn
      <4>2. q \in Conn
        BY <1>1, <3>1, PcType
      <4> HIDE DEF q
      <4> QED BY <1>0, <4>1, <4>2
    <3>3. DevicesType'
      BY <2>1, <2>3, <3>1, TypeParts DEF DevicesType, Enrol
    <3>4. ProcessType'
      BY <2>1, <3>1, TypeParts DEF ProcessType, stable, DevicesType, Cert
    <3>5. CodesType'
      BY <2>1, PartsKept
    <3> QED BY <1>0, <1>2, <2>1, <3>2, <3>3, <3>4, <3>5, TypeNext
  <2> QED BY <1>5, <2>2, <2>3 DEF Register
<1>6. CASE LockCallback(k)
  <2>1. UNCHANGED <<stable, codeVars, deviceVars, thread, ident>>
    BY <1>6 DEF LockCallback
  <2>2. /\ conn' \in [Conns -> Conn] /\ client' \in [Devices -> Client]
        /\ mutex' \in [Mutexes -> Holders]
    <3>1. CASE Poisoned(Callback(k)) /\ Dies(k) /\ UNCHANGED mutex
      BY <1>0, <3>1, DiesType
    <3>2. CASE /\ Give({Callback(k)}, k) /\ UNCHANGED client
               /\ conn' = [conn EXCEPT ![k].pc = "calls"]
      BY <1>0, <1>1, <3>2, GiveType, PcType
    <3> QED BY <1>6, <3>1, <3>2 DEF LockCallback
  <2>3. CodesType' /\ DevicesType' /\ ProcessType'
    BY <2>1, PartsKept DEF deviceVars
  <2> QED BY <1>2, <2>1, <2>2, <2>3, TypeNext
<1>7. CASE LockAdmin(k)
  <2>1. UNCHANGED <<stable, codeVars, deviceVars, thread, ident>>
    BY <1>7 DEF LockAdmin
  <2>2. /\ conn' \in [Conns -> Conn] /\ client' \in [Devices -> Client]
        /\ mutex' \in [Mutexes -> Holders]
    <3>1. CASE Dies(k) /\ Give({Callback(k)}, "poisoned")
      BY <1>0, <3>1, DiesType, GiveType DEF Holders
    <3>2. CASE /\ Give({"admin"}, k) /\ UNCHANGED client
               /\ conn' = [conn EXCEPT ![k].pc = "inside"]
      BY <1>0, <1>1, <3>2, GiveType, PcType
    <3> QED BY <1>7, <3>1, <3>2 DEF LockAdmin
  <2>3. CodesType' /\ DevicesType' /\ ProcessType'
    BY <2>1, PartsKept DEF deviceVars
  <2> QED BY <1>2, <2>1, <2>2, <2>3, TypeNext
<1>8. CASE Finish(k)
  <2>1. UNCHANGED <<stable, codeVars, authorized, certs, thread, client, ident>>
    BY <1>8 DEF Finish, clientVars
  <2>2. conn' \in [Conns -> Conn] /\ mutex' \in [Mutexes -> Holders]
    BY <1>0, <1>8, ReplyType, GiveType DEF Finish, Leaves, Holders
  <2>3. DevicesType'
    <3>1. conn[k].dev \in Devices /\ conn[k].cert \in Cert
      BY <1>1 DEF Conn
    <3>2. Records(k)
      BY <1>8 DEF Finish
    <3> QED BY <2>1, <3>1, <3>2, TypeParts DEF Records, DevicesType
  <2>4. CodesType' /\ ProcessType'
    BY <2>1, PartsKept
  <2> QED BY <1>0, <1>2, <2>1, <2>2, <2>3, <2>4, TypeNext
<1>9. CASE Answer(k)
  <2>1. UNCHANGED <<stable, mutex, codeVars, deviceVars, thread, ident>>
    BY <1>9 DEF Answer
  <2>2. conn' \in [Conns -> Conn]
    BY <1>0, <1>9, QuietType DEF Answer
  <2>3. client' \in [Devices -> Client]
    <3>1. conn[k].cert \in Cert
      BY <1>1 DEF Conn
    <3>2. [AtRest EXCEPT !.pc = "cert", !.cert = conn[k].cert] \in Client
      BY <3>1, AtRestType DEF Client
    <3>3. client' \in {client, [client EXCEPT ![conn[k].dev] = AtRest],
                       [client EXCEPT ![conn[k].dev] =
                          [AtRest EXCEPT !.pc = "cert", !.cert = conn[k].cert]]}
      BY <1>9 DEF Answer
    <3> QED BY <1>0, <3>2, <3>3, AtRestType
  <2>4. CodesType' /\ DevicesType' /\ ProcessType'
    BY <2>1, PartsKept DEF deviceVars
  <2> QED BY <1>0, <1>2, <2>1, <2>2, <2>3, <2>4, TypeNext
<1> QED BY <1>3, <1>4, <1>5, <1>6, <1>7, <1>8, <1>9 DEF ConnStep, Runs

-----------------------------------------------------------------------------
\* The panel, the minute loop and the process.
LEMMA NewCodeType ==
  ASSUME Limits, TypeOK, NewCode, UNCHANGED clock
  PROVE  CodesType'
<1>1. /\ expiry \in Seq(Nat) /\ Len(expiry) = codes /\ codes \in Nat /\ clock + CodeTtl \in Nat
      /\ MaxCode \in Nat /\ DOMAIN pairings \subseteq 1..codes /\ opened \subseteq 1..codes
      /\ \A c \in DOMAIN pairings : pairings[c] = expiry[c]
  BY TypeParts DEF CodesType, ProcessType, Limits
<1>2. /\ expiry' = Append(expiry, clock + CodeTtl) /\ codes' = codes + 1 /\ codes < MaxCode
      /\ pairings' = [c \in DOMAIN pairings \cup {codes'} |->
                        IF c = codes' THEN clock + CodeTtl ELSE pairings[c]]
      /\ opened' = opened
  BY DEF NewCode
<1>3. /\ expiry' \in Seq(Nat) /\ Len(expiry') = codes'
      /\ \A i \in 1..codes : expiry'[i] = expiry[i]
      /\ expiry'[codes'] = clock + CodeTtl
  BY <1>1, <1>2, AppendProperties
<1>4. DOMAIN pairings' \subseteq 1..codes' /\ opened' \subseteq 1..codes'
  BY <1>1, <1>2
<1>5. \A c \in DOMAIN pairings' : pairings'[c] = expiry'[c]
  BY <1>1, <1>2, <1>3
<1> QED BY <1>1, <1>2, <1>3, <1>4, <1>5 DEF CodesType

LEMMA EndsType ==
  ASSUME Limits, TypeOK, Ends
  PROVE  TypeOK'
<1>1. CodesType'
  BY TypeParts DEF Ends, CodesType
<1>2. DevicesType'
  BY TypeParts DEF Ends, DevicesType, Nobody, Cert, Limits
<1>3. ProcessType'
  BY TypeParts DEF Ends, ProcessType
<1>4. ServerType'
  BY TypeParts, QuietType DEF Ends, ServerType, Holders, Threads
<1>5. ClientType'
  BY TypeParts, AtRestType DEF Ends, ClientType
<1> QED BY <1>1, <1>2, <1>3, <1>4, <1>5, TypeNext

LEMMA NextType == ASSUME Limits, TypeOK, [Next]_vars PROVE TypeOK'
<1>0. /\ conn \in [Conns -> Conn] /\ client \in [Devices -> Client]
      /\ mutex \in [Mutexes -> Holders] /\ thread \in [Threads -> {"idle", "inside"}]
  BY TypeParts DEF ServerType, ClientType
<1>1. CASE UNCHANGED vars
  BY <1>1 DEF vars, TypeOK
<1>2. ASSUME NEW d \in Devices, ClientStep(d) PROVE TypeOK'
  BY <1>2, ClientStepType
<1>3. ASSUME NEW k \in Conns, ConnStep(k) PROVE TypeOK'
  BY <1>3, ConnStepType
<1>4. ASSUME mutex' \in [Mutexes -> Holders], thread' \in [Threads -> {"idle", "inside"}],
             conn' \in [Conns -> Conn], client' \in [Devices -> Client], ident' = ident
      PROVE  ServerType' /\ ClientType'
  BY <1>4, TypeParts DEF ServerType, ClientType
<1>5. ASSUME NEW t \in Threads, Enter(t) PROVE TypeOK'
  <2>1. UNCHANGED <<stable, codeVars, deviceVars, conn, client, ident>>
    BY <1>5 DEF Enter, clientVars
  <2>2. ServerType' /\ ClientType'
    BY <1>0, <1>4, <1>5, <2>1, GiveType DEF Enter, Holders
  <2>3. CodesType' /\ DevicesType' /\ ProcessType'
    BY <2>1, PartsKept DEF deviceVars
  <2> QED BY <2>2, <2>3, TypeNext
<1>6. ASSUME NEW t \in Threads, Leave(t) PROVE TypeOK'
  <2>1. UNCHANGED <<stable, deviceVars, conn, client, ident>>
    BY <1>6 DEF Leave, clientVars
  <2>2. ServerType' /\ ClientType'
    BY <1>0, <1>4, <1>6, <2>1, GiveType DEF Leave, Holders
  <2>3. DevicesType' /\ ProcessType'
    BY <2>1, PartsKept DEF deviceVars
  <2>4. CodesType'
    <3>1. CASE NewCode
      BY <2>1, <3>1, NewCodeType DEF stable
    <3>2. CASE UNCHANGED codeVars
      BY <3>2, PartsKept
    <3> QED BY <1>6, <3>1, <3>2 DEF Leave
  <2> QED BY <2>2, <2>3, <2>4, TypeNext
<1>7. CASE Panic
  <2>1. UNCHANGED <<stable, codeVars, deviceVars, ident>>
    BY <1>7 DEF Panic
  <2>2. ServerType' /\ ClientType'
    <3>1. ASSUME NEW k \in Conns, Dies(k), Give({"admin", Callback(k)}, "poisoned"),
                 UNCHANGED thread
          PROVE  ServerType' /\ ClientType'
      BY <1>0, <1>4, <2>1, <3>1, DiesType, GiveType DEF Holders
    <3>2. CASE /\ thread' = [thread EXCEPT !["panel"] = "idle"]
               /\ Give({"admin"}, "poisoned") /\ UNCHANGED <<conn, client>>
      BY <1>0, <1>4, <2>1, <3>2, GiveType DEF Holders
    <3> QED BY <1>7, <3>1, <3>2 DEF Panic
  <2>3. CodesType' /\ DevicesType' /\ ProcessType'
    BY <2>1, PartsKept DEF deviceVars
  <2> QED BY <2>2, <2>3, TypeNext
<1>8. CASE Ends
  BY <1>8, EndsType
<1>9. CASE Start
  <2>1. CodesType' /\ DevicesType'
    BY <1>9, PartsKept DEF Start
  <2>2. ProcessType'
    BY <1>9, TypeParts DEF Start, ProcessType, DevicesType, deviceVars, Cert
  <2>3. ServerType' /\ ClientType'
    BY <1>0, <1>4, <1>9 DEF Start, clientVars
  <2> QED BY <2>1, <2>2, <2>3, TypeNext
<1>10. CASE Tick
  <2>1. CodesType' /\ DevicesType'
    BY <1>10, PartsKept DEF Tick
  <2>2. ProcessType'
    BY <1>10, TypeParts DEF Tick, ProcessType, deviceVars, Limits
  <2>3. ServerType' /\ ClientType'
    BY <1>0, <1>4, <1>10 DEF Tick, clientVars
  <2> QED BY <2>1, <2>2, <2>3, TypeNext
<1> QED BY <1>1, <1>2, <1>3, <1>5, <1>6, <1>7, <1>8, <1>9, <1>10
        DEF Next, ThreadStep, LoopFindsPoison, Stop

\* Every table, mutex, request and identity file keeps its type, and the codes that
\* can be used keep the moment they were issued with.
THEOREM ChannelTypes == ASSUME Limits PROVE Spec => []TypeOK
<1>1. Init => TypeOK
  BY InitType
<1>2. TypeOK /\ [Next]_vars => TypeOK'
  BY NextType
<1> QED BY <1>1, <1>2, PTL DEF Spec

-----------------------------------------------------------------------------
\* What a step makes of one connection: it waits for a request, goes on with the one
\* it has, or is done with it.
LEMMA ConnChanges ==
  ASSUME Limits, TypeOK, [Next]_vars, NEW k \in Conns
  PROVE  \/ conn'[k] = conn[k]
         \/ conn'[k] = Quiet
         \/ conn[k].pc = "idle" /\ conn'[k].pc = "read"
              /\ conn'[k].cert \in {0, ident[conn'[k].dev].cert} /\ conn'[k].dev \in Devices
         \/ ConnStep(k) /\ conn'[k].dev = conn[k].dev /\ conn'[k].kind = conn[k].kind
              /\ conn'[k].pc # "read"
<1>0. /\ conn \in [Conns -> Conn] /\ conn[k] \in Conn
  BY TypeParts DEF ServerType
<1>1. CASE UNCHANGED conn
  BY <1>1
<1>2. ASSUME NEW d \in Devices, ClientStep(d), ~UNCHANGED conn
      PROVE  \/ conn'[k] = conn[k]
             \/ conn[k].pc = "idle" /\ conn'[k].pc = "read"
                  /\ conn'[k].cert \in {0, ident[conn'[k].dev].cert} /\ conn'[k].dev \in Devices
  <2>1. ASSUME NEW j \in Conns, NEW kind \in Asked, Ask(d, j, kind)
        PROVE  conn'[k] = conn[k] \/ (conn[k].pc = "idle" /\ conn'[k].pc = "read"
                 /\ conn'[k].cert = ident[d].cert /\ conn'[k].dev = d)
    <3> DEFINE q == [Quiet EXCEPT !.pc = "read", !.kind = kind, !.dev = d, !.cert = ident[d].cert]
    <3>1. conn' = [conn EXCEPT ![j] = q] /\ conn[j].pc = "idle"
      BY <2>1 DEF Ask
    <3>2. q.pc = "read" /\ q.cert = ident[d].cert /\ q.dev = d
      BY DEF Quiet
    <3> HIDE DEF q
    <3> QED BY <1>0, <3>1, <3>2
  <2>2. ASSUME NEW j \in Conns, NEW c \in 1..codes, AskToPair(d, j, c)
        PROVE  conn'[k] = conn[k] \/ (conn[k].pc = "idle" /\ conn'[k].pc = "read"
                 /\ conn'[k].cert = 0 /\ conn'[k].dev = d)
    <3> DEFINE q == [Quiet EXCEPT !.pc = "read", !.kind = "pair", !.dev = d, !.code = c]
    <3>1. conn' = [conn EXCEPT ![j] = q] /\ conn[j].pc = "idle"
      BY <2>2 DEF AskToPair
    <3>2. q.pc = "read" /\ q.cert = 0 /\ q.dev = d
      BY DEF Quiet
    <3> HIDE DEF q
    <3> QED BY <1>0, <3>1, <3>2
  <2>3. SaveCert(d) \/ SaveKey(d) \/ GiveUp(d) => UNCHANGED conn
    BY DEF SaveCert, SaveKey, GiveUp
  <2> QED BY <1>2, <2>1, <2>2, <2>3 DEF ClientStep
<1>3. ASSUME NEW j \in Conns, ConnStep(j)
      PROVE  \/ conn'[k] = conn[k]
             \/ conn'[k] = Quiet
             \/ j = k /\ conn'[k].dev = conn[k].dev /\ conn'[k].kind = conn[k].kind
                  /\ conn'[k].pc # "read"
  <2>1. CASE j # k
    BY <1>0, <1>3, <2>1 DEF ConnStep, Runs, Authorize, Pair, Register, Finish, Answer,
                            LockCallback, LockAdmin, Dies, Reply
  <2>2. CASE j = k
    <3>1. CASE Authorize(k)
      BY <1>0, <3>1, <2>2 DEF Authorize, Reply, Conn
    <3>2. CASE Pair(k)
      BY <1>0, <3>2, <2>2 DEF Pair, Reply, Conn
    <3>3. CASE Register(k)
      BY <1>0, <3>3, <2>2 DEF Register, Reply, Conn
    <3>4. CASE Finish(k)
      BY <1>0, <3>4, <2>2 DEF Finish, Reply, Conn
    <3>5. CASE Answer(k)
      BY <1>0, <3>5, <2>2 DEF Answer
    <3>6. CASE LockCallback(k)
      BY <1>0, <3>6, <2>2 DEF LockCallback, Dies, Conn
    <3>7. CASE LockAdmin(k)
      BY <1>0, <3>7, <2>2 DEF LockAdmin, Dies, Conn
    <3> QED BY <1>3, <2>2, <3>1, <3>2, <3>3, <3>4, <3>5, <3>6, <3>7 DEF ConnStep, Runs
  <2> QED BY <2>1, <2>2
<1>4. CASE Ends
  BY <1>4 DEF Ends
<1>5. CASE Panic
  BY <1>0, <1>5 DEF Panic, Dies
<1>6. (\E t \in Threads : ThreadStep(t)) \/ Start \/ Tick \/ UNCHANGED vars => UNCHANGED conn
  BY DEF ThreadStep, Enter, Leave, Start, Tick, vars
<1> QED BY <1>1, <1>2, <1>3, <1>4, <1>5, <1>6 DEF Next, LoopFindsPoison, Stop

-----------------------------------------------------------------------------
\* A code that has opened the channel is gone from the list.
SpentInv == DOMAIN pairings \cap opened = {}

LEMMA OnlyPairOpens ==
  ASSUME Limits, TypeOK, [Next]_vars, NEW k \in Conns,
         conn[k].pc = "read", conn'[k].pc = "coded"
  PROVE  Pair(k) /\ Accepts(conn[k].code)
<1>0. conn \in [Conns -> Conn] /\ conn[k] \in Conn
  BY TypeParts DEF ServerType
<1>1. ConnStep(k)
  <2>1. Quiet.pc = "idle"
    BY DEF Quiet
  <2> QED BY <2>1, ConnChanges
<1>2. ~Authorize(k)
  BY <1>0 DEF Authorize, Reply, Conn
<1>3. Pair(k)
  BY <1>1, <1>2 DEF ConnStep, Runs, Register, Finish, Answer, LockCallback, LockAdmin
<1>4. Accepts(conn[k].code)
  BY <1>0, <1>3 DEF Pair, Reply, Conn
<1> QED BY <1>3, <1>4

LEMMA NextSpent == ASSUME Limits, TypeOK, SpentInv, [Next]_vars PROVE SpentInv'
<1>1. CASE UNCHANGED codeVars
  BY <1>1 DEF SpentInv, codeVars
<1>2. ASSUME NEW k \in Conns, Pair(k) PROVE SpentInv'
  BY <1>2 DEF Pair, SpentInv, Unexpired
<1>3. CASE NewCode
  BY <1>3, TypeParts DEF NewCode, SpentInv, CodesType
<1>4. CASE Ends
  BY <1>4 DEF Ends, SpentInv
<1>5. ASSUME NEW d \in Devices, ClientStep(d) PROVE UNCHANGED codeVars
  BY <1>5 DEF ClientStep, Ask, AskToPair, SaveCert, SaveKey, GiveUp
<1>6. ASSUME NEW k \in Conns, ConnStep(k), ~Pair(k) PROVE UNCHANGED codeVars
  BY <1>6 DEF ConnStep, Runs, Authorize, Register, Finish, Answer, LockCallback, LockAdmin
<1>7. ASSUME NEW t \in Threads, ThreadStep(t) PROVE NewCode \/ UNCHANGED codeVars
  BY <1>7 DEF ThreadStep, Enter, Leave
<1>8. Panic \/ Start \/ Tick => UNCHANGED codeVars
  BY DEF Panic, Start, Tick
<1>9. UNCHANGED vars => UNCHANGED codeVars
  BY DEF vars, codeVars
<1> QED BY <1>1, <1>2, <1>3, <1>4, <1>5, <1>6, <1>7, <1>8, <1>9 DEF Next, LoopFindsPoison, Stop

\* A pairing code opens the channel once and before it expires, whatever number of
\* connections present it.
THEOREM CodesOpenOnce == ASSUME Limits PROVE Spec => CodeOpensOnceInTime
<1> DEFINE Opening == \A k \in Conns : conn[k].pc = "read" /\ conn'[k].pc = "coded"
                        => LET c == conn[k].code IN c \notin opened /\ clock < expiry[c]
<1>1. Init => TypeOK /\ SpentInv
  BY InitType DEF Init, SpentInv
<1>2. TypeOK /\ SpentInv /\ [Next]_vars => (TypeOK /\ SpentInv)'
  BY NextType, NextSpent
<1>3. TypeOK /\ SpentInv /\ [Next]_vars => [Opening]_vars
  <2> SUFFICES ASSUME TypeOK, SpentInv, [Next]_vars, NEW k \in Conns,
                      conn[k].pc = "read", conn'[k].pc = "coded"
               PROVE  conn[k].code \notin opened /\ clock < expiry[conn[k].code]
    OBVIOUS
  <2>1. conn[k].code \in DOMAIN pairings /\ pairings[conn[k].code] > clock
    BY OnlyPairOpens DEF Accepts, Unexpired
  <2>2. /\ expiry \in Seq(Nat) /\ DOMAIN pairings \subseteq 1..Len(expiry) /\ clock \in Nat
        /\ pairings[conn[k].code] = expiry[conn[k].code]
    BY <2>1, TypeParts DEF CodesType, ProcessType
  <2>3. expiry[conn[k].code] \in Nat
    BY <2>1, <2>2, ElementOfSeq
  <2> QED BY <2>1, <2>2, <2>3 DEF SpentInv
<1> QED BY <1>1, <1>2, <1>3, PTL DEF Spec, CodeOpensOnceInTime

-----------------------------------------------------------------------------
\* What the identity files of a device, its client and the connections that speak for
\* it hold: no certificate but of those issued, and none of those issued since the
\* start that is newer than the one in the table.
Known(d, x) == x <= certs /\ (running /\ x > born => authorized[d] >= x)

IdentityInv ==
    /\ \A d \in Devices : /\ Known(d, ident[d].cert)
                         /\ Known(d, ident[d].key)
                         /\ Known(d, client[d].cert)
    /\ \A k \in Conns : Known(conn[k].dev, conn[k].cert)

\* The table and the numbers only grow, but for a new start.
LEMMA KnownKept ==
  ASSUME Limits, TypeOK, [Next]_vars, NEW d \in Devices, NEW x \in Cert, Known(d, x)
  PROVE  Known(d, x)'
<1>0. /\ certs \in Nat /\ born \in Nat /\ born <= certs /\ x \in Nat
      /\ authorized \in [Devices -> Nat] /\ \A e \in Devices : authorized[e] \in Nat
  BY TypeParts DEF DevicesType, ProcessType, Cert, Limits
<1>1. CASE UNCHANGED <<certs, born, authorized, running>>
  BY <1>1 DEF Known
<1>2. ASSUME NEW k \in Conns, Register(k) PROVE Known(d, x)'
  <2>1. born' = born /\ running' = running
    BY <1>2 DEF Register, stable
  <2>2. CASE certs' = certs + 1 /\ Enrol(conn[k].dev, certs')
    BY <1>0, <2>1, <2>2 DEF Known, Enrol
  <2>3. CASE UNCHANGED <<certs, authorized>>
    BY <2>1, <2>3 DEF Known
  <2> QED BY <1>2, <2>2, <2>3 DEF Register
<1>3. CASE Ends
  BY <1>3 DEF Ends, Known
<1>4. CASE Start
  BY <1>0, <1>4 DEF Start, Known, deviceVars
<1>5. ASSUME NEW e \in Devices, ClientStep(e) PROVE UNCHANGED <<certs, born, authorized, running>>
  BY <1>5 DEF ClientStep, Ask, AskToPair, SaveCert, SaveKey, GiveUp, stable, deviceVars
<1>6. ASSUME NEW k \in Conns, ConnStep(k), ~Register(k)
      PROVE  UNCHANGED <<certs, born, authorized, running>>
  BY <1>6 DEF ConnStep, Runs, Authorize, Pair, Finish, Answer, LockCallback, LockAdmin,
              stable, deviceVars
<1>7. ASSUME NEW t \in Threads, ThreadStep(t)
      PROVE  UNCHANGED <<certs, born, authorized, running>>
  BY <1>7 DEF ThreadStep, Enter, Leave, stable, deviceVars
<1>8. Panic \/ Tick => UNCHANGED <<certs, born, authorized, running>>
  BY DEF Panic, Tick, stable, deviceVars
<1>9. UNCHANGED vars => UNCHANGED <<certs, born, authorized, running>>
  BY DEF vars
<1> QED BY <1>1, <1>2, <1>3, <1>4, <1>5, <1>6, <1>7, <1>8, <1>9 DEF Next, LoopFindsPoison, Stop

\* No certificate, and one just issued and entered, are known.
LEMMA NoneKnown == ASSUME Limits, TypeOK', NEW d PROVE Known(d, 0)'
BY DEF TypeOK, Known, Cert, Limits

LEMMA NewKnown ==
  ASSUME Limits, TypeOK, TypeOK', NEW k \in Conns, Register(k), ~Reply(k, FALSE),
         NEW d, NEW x, d = conn[k].dev, x = conn'[k].cert
  PROVE  Known(d, x)'
<1>1. conn[k] \in Conn /\ conn \in [Conns -> Conn]
  BY TypeParts DEF ServerType
<1>2. conn[k].dev \in Devices
  BY <1>1 DEF Conn
<1>3. /\ certs' = certs + 1 /\ Enrol(conn[k].dev, certs')
      /\ conn' = [conn EXCEPT ![k].pc = "granted", ![k].cert = certs']
  BY DEF Register
<1>4. conn'[k].cert = certs'
  BY <1>1, <1>3 DEF Conn
<1>5. authorized'[conn[k].dev] = certs' /\ certs' \in Nat
  BY <1>2, <1>3, TypeParts DEF Enrol, DevicesType, Cert, Limits
<1> QED BY <1>4, <1>5 DEF Known

\* Where the certificates of a client and of its files come from.
LEMMA ClientChanges ==
  ASSUME Limits, TypeOK, [Next]_vars, NEW d \in Devices
  PROVE  /\ ident'[d].cert \in {ident[d].cert, client[d].cert}
         /\ ident'[d].key \in {ident[d].key, client[d].cert}
         /\ \/ client'[d].cert \in {0, client[d].cert}
            \/ \E k \in Conns : conn[k].dev = d /\ client'[d].cert = conn[k].cert
<1>0. /\ client \in [Devices -> Client] /\ ident \in [Devices -> [cert : Cert, key : Cert]]
      /\ conn \in [Conns -> Conn]
  BY TypeParts DEF ClientType, ServerType
<1>1. AtRest.cert = 0 /\ [AtRest EXCEPT !.pc = "key", !.cert = client[d].cert].cert = client[d].cert
  BY DEF AtRest
<1>2. \A e \in Devices : [AtRest EXCEPT !.pc = "key", !.cert = client[e].cert].cert = client[e].cert
  BY DEF AtRest
<1>3. \A k \in Conns : [AtRest EXCEPT !.pc = "cert", !.cert = conn[k].cert].cert = conn[k].cert
  BY DEF AtRest
<1>4. CASE UNCHANGED <<client, ident>>
  BY <1>4
<1>5. ASSUME NEW e \in Devices, ClientStep(e)
      PROVE  /\ ident'[d].cert \in {ident[d].cert, client[d].cert}
             /\ ident'[d].key \in {ident[d].key, client[d].cert}
             /\ client'[d].cert \in {0, client[d].cert}
  <2>1. ASSUME NEW k \in Conns, \/ \E kind \in Asked : Ask(e, k, kind)
                               \/ \E c \in 1..codes : AskToPair(e, k, c)
        PROVE  /\ ident' = ident
               /\ client'[d].cert \in {0, client[d].cert}
    <3>1. ident' = ident /\ client' = [client EXCEPT ![e] = [pc |-> "waits", on |-> k, cert |-> 0]]
      BY <2>1 DEF Ask, AskToPair
    <3> QED BY <1>0, <3>1
  <2>2. CASE SaveCert(e)
    BY <1>0, <1>2, <2>2 DEF SaveCert
  <2>3. CASE SaveKey(e)
    BY <1>0, <1>1, <2>3 DEF SaveKey
  <2>4. CASE GiveUp(e)
    BY <1>0, <1>1, <2>4 DEF GiveUp
  <2> QED BY <1>5, <2>1, <2>2, <2>3, <2>4 DEF ClientStep
<1>6. ASSUME NEW k \in Conns, Dies(k), ident' = ident
      PROVE  ident'[d] = ident[d] /\ client'[d].cert \in {0, client[d].cert}
  BY <1>1, <1>6 DEF Dies
<1>7. ASSUME NEW k \in Conns, Answer(k)
      PROVE  /\ ident' = ident
             /\ \/ client'[d].cert \in {0, client[d].cert}
                \/ conn[k].dev = d /\ client'[d].cert = conn[k].cert
  <2>1. ident' = ident
    BY <1>7 DEF Answer
  <2>2. client' \in {client, [client EXCEPT ![conn[k].dev] = AtRest],
                     [client EXCEPT ![conn[k].dev] =
                        [AtRest EXCEPT !.pc = "cert", !.cert = conn[k].cert]]}
    BY <1>7 DEF Answer
  <2>3. CASE client' = client
    BY <2>1, <2>3
  <2>4. CASE client' = [client EXCEPT ![conn[k].dev] = AtRest]
    BY <1>0, <1>1, <2>1, <2>4
  <2>5. CASE client' = [client EXCEPT ![conn[k].dev] =
                          [AtRest EXCEPT !.pc = "cert", !.cert = conn[k].cert]]
    BY <1>0, <1>3, <2>1, <2>5
  <2> QED BY <2>2, <2>3, <2>4, <2>5
<1>8. ASSUME NEW k \in Conns, ConnStep(k), ~Answer(k)
      PROVE  UNCHANGED <<client, ident>> \/ (Dies(k) /\ ident' = ident)
  BY <1>8 DEF ConnStep, Runs, Authorize, Pair, Register, Finish, LockCallback, LockAdmin,
              clientVars
<1>9. Ends => ident'[d] = ident[d] /\ client'[d].cert \in {0, client[d].cert}
  BY <1>1 DEF Ends
<1>10. Panic => UNCHANGED <<client, ident>> \/ \E k \in Conns : Dies(k) /\ ident' = ident
  BY DEF Panic
<1>11. (\E t \in Threads : ThreadStep(t)) \/ Start \/ Tick \/ UNCHANGED vars
         => UNCHANGED <<client, ident>>
  BY DEF ThreadStep, Enter, Leave, Start, Tick, clientVars, vars
<1> QED BY <1>4, <1>5, <1>6, <1>7, <1>8, <1>9, <1>10, <1>11 DEF Next, LoopFindsPoison, Stop

LEMMA NextIdentity ==
  ASSUME Limits, TypeOK, IdentityInv, [Next]_vars
  PROVE  IdentityInv'
<1>0. /\ TypeOK' /\ 0 \in Cert
      /\ \A d \in Devices : ident[d].cert \in Cert /\ ident[d].key \in Cert /\ client[d].cert \in Cert
      /\ \A k \in Conns : conn[k].dev \in Devices /\ conn[k].cert \in Cert
  BY NextType, TypeParts DEF ClientType, ServerType, Client, Conn, Cert, Limits
<1>1. ASSUME NEW d \in Devices
      PROVE  /\ Known(d, ident[d].cert)'
             /\ Known(d, ident[d].key)'
             /\ Known(d, client[d].cert)'
  <2>1. /\ ident'[d].cert \in {ident[d].cert, client[d].cert}
        /\ ident'[d].key \in {ident[d].key, client[d].cert}
        /\ \/ client'[d].cert \in {0, client[d].cert}
           \/ \E k \in Conns : conn[k].dev = d /\ client'[d].cert = conn[k].cert
    BY ClientChanges
  <2>2. Known(d, ident[d].cert) /\ Known(d, ident[d].key) /\ Known(d, client[d].cert)
    BY DEF IdentityInv
  <2>3. \A x \in Cert : Known(d, x) => x <= certs' /\ (running' /\ x > born' => authorized'[d] >= x)
    BY KnownKept DEF Known
  <2>4. \A k \in Conns : conn[k].dev = d => Known(d, conn[k].cert)
    BY DEF IdentityInv
  <2>5. Known(d, 0)
    BY <1>0, TypeParts DEF Known, DevicesType, ProcessType, Cert, Limits
  <2> QED BY <1>0, <2>1, <2>2, <2>3, <2>4, <2>5 DEF Known
<1>2. ASSUME NEW k \in Conns PROVE Known(conn[k].dev, conn[k].cert)'
  <2>1. conn[k] \in Conn /\ conn[k].dev \in Devices /\ conn[k].cert \in Cert
    BY <1>0, TypeParts DEF ServerType
  <2>2. \A d \in Devices, x \in Cert :
          Known(d, x) => x <= certs' /\ (running' /\ x > born' => authorized'[d] >= x)
    BY KnownKept DEF Known
  <2>3. CASE conn'[k].dev = conn[k].dev /\ conn'[k].cert = conn[k].cert
    BY <2>1, <2>2, <2>3 DEF IdentityInv, Known
  <2>4. CASE conn'[k] = Quiet
    <3>1. conn'[k].cert = 0
      BY <2>4 DEF Quiet
    <3> QED BY <1>0, <3>1 DEF Known, TypeOK, Cert, Limits
  <2>5. CASE conn'[k].cert \in {0, ident[conn'[k].dev].cert} /\ conn'[k].dev \in Devices
    <3>1. CASE conn'[k].cert = 0
      BY <1>0, <3>1 DEF Known, TypeOK, Cert, Limits
    <3>2. CASE conn'[k].cert = ident[conn'[k].dev].cert
      BY <1>0, <2>2, <2>5, <3>2 DEF IdentityInv, Known
    <3> QED BY <2>5, <3>1, <3>2
  <2>6. CASE ConnStep(k) /\ conn'[k].dev = conn[k].dev
    <3>1. CASE Register(k) /\ ~Reply(k, FALSE)
      BY <1>0, <2>6, <3>1, NewKnown DEF Known
    <3>2. ASSUME NEW ok, Reply(k, ok) PROVE conn'[k].cert = conn[k].cert
      BY <2>1, <3>2, TypeParts DEF Reply, ServerType, Conn
    <3>3. CASE conn'[k].cert = conn[k].cert \/ conn'[k] = Quiet
      BY <2>3, <2>4, <2>6, <3>3
    <3>4. ASSUME ~Register(k) PROVE conn'[k].cert = conn[k].cert \/ conn'[k] = Quiet
      <4>1. conn \in [Conns -> Conn]
        BY TypeParts DEF ServerType
      <4>2. Authorize(k) => conn'[k].cert = conn[k].cert
        BY <2>1, <4>1, <3>2 DEF Authorize, Conn
      <4>3. Pair(k) => conn'[k].cert = conn[k].cert
        BY <2>1, <4>1, <3>2 DEF Pair, Conn
      <4>4. LockCallback(k) \/ LockAdmin(k) => conn'[k].cert = conn[k].cert \/ conn'[k] = Quiet
        BY <2>1, <4>1 DEF LockCallback, LockAdmin, Dies, Conn
      <4>5. Finish(k) => conn'[k].cert = conn[k].cert
        BY <3>2 DEF Finish
      <4>6. Answer(k) => conn'[k] = Quiet
        BY <4>1 DEF Answer
      <4> QED BY <2>6, <3>4, <4>2, <4>3, <4>4, <4>5, <4>6 DEF ConnStep, Runs
    <3> QED BY <3>1, <3>2, <3>3, <3>4
  <2> QED BY ConnChanges, <2>3, <2>4, <2>5, <2>6
<1> QED BY <1>1, <1>2 DEF IdentityInv

\* While the service is down nothing is connected and the table is empty; afterwards it
\* holds no certificate from before the start.
Alone == running \/ \A k \in Conns : conn[k].pc = "idle"
Fresh == \A d \in Devices : authorized[d] = 0 \/ (running /\ authorized[d] > born)

TableInv == Alone /\ Fresh

\* Nothing connects to a service that is down.
LEMMA NextDown ==
  ASSUME Limits, TypeOK, TableInv, [Next]_vars
  PROVE  Alone'
<1>1. CASE running /\ running' = running
  BY <1>1 DEF Alone
<1>2. CASE ~running /\ conn' = conn
  BY <1>2 DEF TableInv, Alone
<1>3. CASE Ends
  BY <1>3 DEF Ends, Quiet, Alone
<1>4. CASE Start
  BY <1>4 DEF Start, Alone
<1>5. ASSUME NEW d \in Devices, ClientStep(d)
      PROVE  running' = running /\ (running \/ conn' = conn)
  BY <1>5 DEF ClientStep, Ask, AskToPair, SaveCert, SaveKey, GiveUp, stable
<1>6. ASSUME NEW k \in Conns, ConnStep(k) PROVE running' = running /\ running
  BY <1>6 DEF TableInv, Alone, ConnStep, Runs, Authorize, Pair, Register, Finish, Answer, LockCallback,
              LockAdmin, stable
<1>7. ASSUME NEW t \in Threads, ThreadStep(t)
      PROVE  running' = running /\ (running \/ conn' = conn)
  BY <1>7 DEF ThreadStep, Enter, Leave, stable
<1>8. Panic \/ Tick => running' = running /\ (running \/ conn' = conn)
  BY DEF TableInv, Alone, Panic, Tick, stable
<1>9. UNCHANGED vars => running' = running /\ conn' = conn
  BY DEF vars
<1> QED BY <1>1, <1>2, <1>3, <1>4, <1>5, <1>6, <1>7, <1>8, <1>9, TypeParts
        DEF Next, LoopFindsPoison, Stop, ProcessType

LEMMA NextTable ==
  ASSUME Limits, TypeOK, TableInv, [Next]_vars
  PROVE  TableInv'
<1> SUFFICES Fresh'
  BY NextDown DEF TableInv
<1>0. /\ certs \in Nat /\ born \in Nat /\ born <= certs
      /\ authorized \in [Devices -> Nat]
      /\ \A k \in Conns : conn[k].dev \in Devices
  BY TypeParts DEF DevicesType, ProcessType, ServerType, Conn, Cert, Limits
<1>1. CASE UNCHANGED <<born, authorized, running>>
  BY <1>1 DEF TableInv, Fresh
<1>2. ASSUME NEW k \in Conns, Register(k) PROVE Fresh'
  <2>1. born' = born /\ running' = running
    BY <1>2 DEF Register, stable
  <2>2. CASE certs' = certs + 1 /\ Enrol(conn[k].dev, certs') /\ running
    BY <1>0, <2>1, <2>2 DEF TableInv, Fresh, Enrol
  <2>3. CASE UNCHANGED authorized
    BY <2>1, <2>3 DEF TableInv, Fresh
  <2>4. running
    BY <1>2 DEF Register, TableInv, Alone
  <2> QED BY <1>2, <2>2, <2>3, <2>4 DEF Register
<1>3. CASE Ends
  BY <1>3 DEF Ends, Nobody, Fresh
<1>4. CASE Start
  BY <1>0, <1>4 DEF Start, TableInv, Fresh, deviceVars
<1>5. ASSUME NEW e \in Devices, ClientStep(e) PROVE UNCHANGED <<born, authorized, running>>
  BY <1>5 DEF ClientStep, Ask, AskToPair, SaveCert, SaveKey, GiveUp, stable, deviceVars
<1>6. ASSUME NEW k \in Conns, ConnStep(k), ~Register(k)
      PROVE  UNCHANGED <<born, authorized, running>>
  BY <1>6 DEF ConnStep, Runs, Authorize, Pair, Finish, Answer, LockCallback, LockAdmin,
              stable, deviceVars
<1>7. ASSUME NEW t \in Threads, ThreadStep(t)
      PROVE  UNCHANGED <<born, authorized, running>>
  BY <1>7 DEF ThreadStep, Enter, Leave, stable, deviceVars
<1>8. Panic \/ Tick => UNCHANGED <<born, authorized, running>>
  BY DEF Panic, Tick, stable, deviceVars
<1>9. UNCHANGED vars => UNCHANGED <<born, authorized, running>>
  BY DEF vars
<1> QED BY <1>1, <1>2, <1>3, <1>4, <1>5, <1>6, <1>7, <1>8, <1>9 DEF Next, LoopFindsPoison, Stop

\* Identity files issued since the last start get in and those from before it do not: no
\* lost answer, killed client or panic comes between the files and the table.
THEOREM IdentitiesLastUntilRestart == ASSUME Limits PROVE Spec => []IdentityLastsUntilRestart
<1>1. Init => TypeOK /\ IdentityInv /\ TableInv
  <2> SUFFICES ASSUME Init PROVE TypeOK /\ IdentityInv /\ TableInv
    OBVIOUS
  <2>1. \A d \in Devices : client[d].cert = 0
    BY DEF Init, AtRest
  <2>2. \A k \in Conns : conn[k].cert = 0
    BY DEF Init, Quiet
  <2>3. TableInv
    BY DEF Init, Nobody, TableInv, Alone, Fresh
  <2> QED BY <2>1, <2>2, <2>3, InitType DEF Init, IdentityInv, Known
<1>2. TypeOK /\ IdentityInv /\ TableInv /\ [Next]_vars => (TypeOK /\ IdentityInv /\ TableInv)'
  BY NextType, NextIdentity, NextTable
<1>3. TypeOK /\ IdentityInv /\ TableInv => IdentityLastsUntilRestart
  <2> SUFFICES ASSUME TypeOK, IdentityInv, TableInv, NEW d \in Devices,
                      running, Whole(d), authorized[d] <= ident[d].cert
               PROVE  authorized[d] = ident[d].cert <=> ident[d].cert > born
    BY DEF IdentityLastsUntilRestart
  <2>1. ident[d].cert \in Nat /\ authorized[d] \in Nat /\ born \in Nat
    BY TypeParts DEF ClientType, DevicesType, ProcessType, Cert, Limits
  <2>2. ident[d].cert > born => authorized[d] >= ident[d].cert
    BY <2>1 DEF IdentityInv, Known
  <2>3. authorized[d] = 0 \/ authorized[d] > born
    BY DEF TableInv, Fresh
  <2>4. ident[d].cert # 0
    BY DEF Whole
  <2> QED BY <2>1, <2>2, <2>3, <2>4
<1> QED BY <1>1, <1>2, <1>3, PTL DEF Spec

-----------------------------------------------------------------------------
\* Who holds the mutexes: a connection in its callback holds that callback's mutex,
\* and one inside AdminService the administration's as well.
Owns(k) ==
    /\ conn[k].pc = "inside" => mutex["admin"] = k
    /\ conn[k].pc \in {"calls", "inside"} => mutex[Callback(k)] = k

\* A pairing on its way to the registry has its certificate.
Enrolled(k) ==
    /\ conn[k].pc = "coded" => conn[k].kind = "pair"
    /\ conn[k].kind = "pair" /\ conn[k].pc \in {"granted", "calls", "inside"} => conn[k].cert # 0

MutexInv ==
    /\ \A k \in Conns : Owns(k) /\ Enrolled(k)
    /\ \A t \in Threads : thread[t] = "inside" => mutex["admin"] = t

LEMMA CallbackType ==
  ASSUME NEW k \in Conns
  PROVE  Callback(k) \in Mutexes \ {"admin"}
BY DEF Callback, Mutexes

\* Passing on mutexes of one owner takes none from anybody else.
LEMMA GiveKeeps ==
  ASSUME NEW ms, NEW to, NEW o, Give(ms, to), \A m \in ms : mutex[m] = o
  PROVE  \A m \in Mutexes : mutex[m] = o \/ mutex'[m] = mutex[m]
BY DEF Give

\* Each step passes on mutexes of one owner: nobody, or one who is done with them.
LEMMA OwnersKept ==
  ASSUME Limits, TypeOK, MutexInv, Next, ~Ends
  PROVE  \E o \in Holders \ {"poisoned"} :
            /\ \A m \in Mutexes : mutex[m] = o \/ mutex'[m] = mutex[m]
            /\ \A k \in Conns : o = k => conn'[k] = Quiet \/ conn'[k].pc = "answered"
            /\ \A t \in Threads : o = t => thread'[t] = "idle"
<1>0. /\ conn \in [Conns -> Conn] /\ thread \in [Threads -> {"idle", "inside"}]
      /\ "free" \in Holders \ {"poisoned"} /\ "free" \notin Conns /\ "poisoned" \notin Conns
      /\ "free" \notin Threads /\ Conns \cap Threads = {} /\ Conns \subseteq Holders
      /\ Threads \subseteq Holders
  BY TypeParts DEF ServerType, Holders, Limits, Threads
<1>1. CASE UNCHANGED mutex
  BY <1>0, <1>1
<1>2. ASSUME NEW ms, NEW to, Give(ms, to), \A m \in ms : Free(m)
      PROVE  \A m \in Mutexes : mutex[m] = "free" \/ mutex'[m] = mutex[m]
  BY <1>2, GiveKeeps DEF Free
<1>3. ASSUME NEW k \in Conns, ConnStep(k), ~UNCHANGED mutex
      PROVE  \/ \A m \in Mutexes : mutex[m] = "free" \/ mutex'[m] = mutex[m]
             \/ /\ \A m \in Mutexes : mutex[m] = k \/ mutex'[m] = mutex[m]
                /\ conn'[k] = Quiet \/ conn'[k].pc = "answered"
  <2>1. CASE LockCallback(k)
    BY <1>2, <1>3, <2>1 DEF LockCallback
  <2>2. CASE LockAdmin(k)
    <3>1. CASE Free("admin") /\ Give({"admin"}, k)
      BY <1>2, <3>1
    <3>2. CASE Dies(k) /\ Give({Callback(k)}, "poisoned")
      <4>1. mutex[Callback(k)] = k
        BY <2>2 DEF LockAdmin, MutexInv, Owns
      <4>2. \A m \in Mutexes : mutex[m] = k \/ mutex'[m] = mutex[m]
        BY <3>2, <4>1 DEF Give
      <4> QED BY <1>0, <3>2, <4>2 DEF Dies
    <3> QED BY <2>2, <3>1, <3>2 DEF LockAdmin
  <2>3. CASE Finish(k)
    <3>1. mutex["admin"] = k /\ mutex[Callback(k)] = k
      BY <2>3 DEF Finish, MutexInv, Owns
    <3>2. \A m \in Mutexes : mutex[m] = k \/ mutex'[m] = mutex[m]
      BY <2>3, <3>1 DEF Finish, Leaves, Give
    <3>3. conn'[k].pc = "answered"
      BY <1>0, <2>3 DEF Finish, Reply, Conn
    <3> QED BY <3>2, <3>3
  <2> QED BY <1>3, <2>1, <2>2, <2>3
          DEF ConnStep, Runs, Authorize, Pair, Register, Answer
<1>4. ASSUME NEW t \in Threads, ThreadStep(t)
      PROVE  \/ \A m \in Mutexes : mutex[m] = "free" \/ mutex'[m] = mutex[m]
             \/ /\ \A m \in Mutexes : mutex[m] = t \/ mutex'[m] = mutex[m]
                /\ thread'[t] = "idle"
  <2>1. CASE Enter(t)
    BY <1>2, <2>1 DEF Enter
  <2>2. CASE Leave(t)
    <3>1. mutex["admin"] = t
      BY <2>2 DEF Leave, MutexInv
    <3>2. \A m \in Mutexes : mutex[m] = t \/ mutex'[m] = mutex[m]
      BY <2>2, <3>1 DEF Leave, Give
    <3> QED BY <1>0, <2>2, <3>2 DEF Leave
  <2> QED BY <1>4, <2>1, <2>2 DEF ThreadStep
<1>5. CASE Panic
  <2>1. ASSUME NEW k \in Conns, conn[k].pc = "inside", Dies(k),
               Give({"admin", Callback(k)}, "poisoned")
        PROVE  /\ \A m \in Mutexes : mutex[m] = k \/ mutex'[m] = mutex[m]
               /\ conn'[k] = Quiet
    <3>1. mutex["admin"] = k /\ mutex[Callback(k)] = k
      BY <2>1 DEF MutexInv, Owns
    <3>2. \A m \in Mutexes : mutex[m] = k \/ mutex'[m] = mutex[m]
      BY <2>1, <3>1 DEF Give
    <3> QED BY <1>0, <2>1, <3>2 DEF Dies
  <2>2. ASSUME thread["panel"] = "inside", Give({"admin"}, "poisoned"),
               thread' = [thread EXCEPT !["panel"] = "idle"]
        PROVE  /\ \A m \in Mutexes : mutex[m] = "panel" \/ mutex'[m] = mutex[m]
               /\ thread'["panel"] = "idle"
    <3>1. "panel" \in Threads /\ mutex["admin"] = "panel"
      BY <2>2 DEF MutexInv, Threads
    <3>2. \A m \in Mutexes : mutex[m] = "panel" \/ mutex'[m] = mutex[m]
      BY <2>2, <3>1 DEF Give
    <3> QED BY <1>0, <2>2, <3>1, <3>2
  <2>3. CASE \E k \in Conns : /\ conn[k].pc = "inside" /\ Dies(k)
                              /\ Give({"admin", Callback(k)}, "poisoned")
    BY <1>0, <2>1, <2>3
  <2>4. CASE /\ thread["panel"] = "inside" /\ Give({"admin"}, "poisoned")
             /\ thread' = [thread EXCEPT !["panel"] = "idle"]
    <3>1. "panel" \in Threads /\ "panel" # "poisoned"
      BY DEF Threads
    <3> QED BY <1>0, <2>2, <2>4, <3>1
  <2> QED BY <1>5, <2>3, <2>4 DEF Panic
<1>6. CASE \E k \in Conns : ConnStep(k)
  BY <1>0, <1>1, <1>3, <1>6
<1>7. CASE \E t \in Threads : ThreadStep(t)
  <2>1. "poisoned" \notin Threads
    BY DEF Threads
  <2> QED BY <1>0, <1>4, <1>7, <2>1
<1>8. ASSUME NEW d \in Devices, ClientStep(d) PROVE UNCHANGED mutex
  BY <1>8 DEF ClientStep, Ask, AskToPair, SaveCert, SaveKey, GiveUp
<1>9. Start \/ Tick => UNCHANGED mutex
  BY DEF Start, Tick
<1> QED BY <1>1, <1>5, <1>6, <1>7, <1>8, <1>9 DEF Next, LoopFindsPoison, Stop

LEMMA NextMutex ==
  ASSUME Limits, TypeOK, MutexInv, [Next]_vars
  PROVE  MutexInv'
<1>0. /\ conn \in [Conns -> Conn] /\ thread \in [Threads -> {"idle", "inside"}]
      /\ mutex \in [Mutexes -> Holders] /\ "admin" \in Mutexes /\ certs \in Nat
  BY TypeParts DEF ServerType, DevicesType, Mutexes, Cert, Limits
<1>1. CASE UNCHANGED vars
  BY <1>1 DEF vars, MutexInv, Owns, Enrolled, Callback
<1>2. CASE Ends
  <2>1. Quiet.pc = "idle"
    BY DEF Quiet
  <2>2. (\A k \in Conns : conn'[k] = Quiet) /\ (\A t \in Threads : thread'[t] = "idle")
    BY <1>2 DEF Ends
  <2> QED BY <2>1, <2>2 DEF MutexInv, Owns, Enrolled
<1>3. CASE Next /\ ~Ends
  <2>1. PICK o \in Holders \ {"poisoned"} :
            /\ \A m \in Mutexes : mutex[m] = o \/ mutex'[m] = mutex[m]
            /\ \A k \in Conns : o = k => conn'[k] = Quiet \/ conn'[k].pc = "answered"
            /\ \A t \in Threads : o = t => thread'[t] = "idle"
    BY <1>3, OwnersKept
  <2>2. ASSUME NEW k \in Conns PROVE Owns(k)' /\ Enrolled(k)'
    <3>0. conn[k] \in Conn /\ Callback(k) \in Mutexes \ {"admin"} /\ Owns(k) /\ Enrolled(k)
      BY <1>0, CallbackType DEF MutexInv
    <3>1. CASE conn'[k].pc \notin {"coded", "granted", "calls", "inside"}
      BY <3>1 DEF Owns, Enrolled
    <3>2. CASE conn'[k] = conn[k]
      <4>1. Enrolled(k)'
        BY <3>0, <3>2 DEF Enrolled
      <4>2. Callback(k)' = Callback(k)
        BY <3>2 DEF Callback
      <4>3. CASE conn[k].pc \in {"calls", "inside"}
        <5>1. o # k
          <6>1. Quiet.pc = "idle"
            BY DEF Quiet
          <6> QED BY <2>1, <3>2, <4>3, <6>1
        <5>2. \A m \in Mutexes : mutex[m] = k => mutex'[m] = k
          BY <2>1, <5>1
        <5> QED BY <1>0, <3>0, <3>2, <4>1, <4>2, <5>2 DEF Owns
      <4>4. CASE conn[k].pc \notin {"calls", "inside"}
        BY <3>2, <4>1, <4>4 DEF Owns
      <4> QED BY <4>3, <4>4
    <3>3. CASE ConnStep(k) /\ conn'[k].kind = conn[k].kind /\ conn'[k] # Quiet
      <4>0. Callback(k)' = Callback(k)
        BY <3>3 DEF Callback
      <4>1. CASE Authorize(k)
        <5>1. conn'[k].pc \in {"answered", "granted"} /\ conn'[k].kind # "pair"
          BY <1>0, <3>0, <4>1 DEF Authorize, Reply, Conn
        <5> QED BY <5>1 DEF Owns, Enrolled
      <4>2. CASE Pair(k)
        <5>1. conn'[k].pc \in {"answered", "coded"} /\ conn'[k].kind = "pair"
          BY <1>0, <3>0, <4>2 DEF Pair, Reply, Conn
        <5> QED BY <5>1 DEF Owns, Enrolled
      <4>3. CASE Register(k)
        <5>1. \/ conn'[k].pc = "answered"
              \/ conn'[k].pc = "granted" /\ conn'[k].cert = certs + 1
          BY <1>0, <3>0, <4>3 DEF Register, Reply, Conn
        <5> QED BY <1>0, <5>1 DEF Owns, Enrolled
      <4>4. CASE LockCallback(k)
        <5>1. /\ Give({Callback(k)}, k)
              /\ conn' = [conn EXCEPT ![k].pc = "calls"] /\ conn[k].pc = "granted"
          BY <1>0, <3>3, <4>4 DEF LockCallback, Dies
        <5>2. conn'[k].pc = "calls" /\ conn'[k].cert = conn[k].cert
          BY <1>0, <3>0, <5>1 DEF Conn
        <5>3. mutex'[Callback(k)] = k
          BY <3>0, <5>1 DEF Give
        <5> QED BY <3>0, <3>3, <4>0, <5>1, <5>2, <5>3 DEF Owns, Enrolled
      <4>5. CASE LockAdmin(k)
        <5>1. /\ Give({"admin"}, k)
              /\ conn' = [conn EXCEPT ![k].pc = "inside"] /\ conn[k].pc = "calls"
          BY <1>0, <3>3, <4>5 DEF LockAdmin, Dies
        <5>2. conn'[k].pc = "inside" /\ conn'[k].cert = conn[k].cert
          BY <1>0, <3>0, <5>1 DEF Conn
        <5>3. mutex'["admin"] = k /\ mutex'[Callback(k)] = k
          BY <1>0, <3>0, <5>1 DEF Give, Owns
        <5> QED BY <3>0, <3>3, <4>0, <5>1, <5>2, <5>3 DEF Owns, Enrolled
      <4>6. CASE Finish(k) \/ Answer(k)
        <5>1. conn'[k].pc = "answered"
          BY <1>0, <3>0, <3>3, <4>6 DEF Finish, Answer, Reply, Conn
        <5> QED BY <3>1, <5>1
      <4> QED BY <3>3, <4>1, <4>2, <4>3, <4>4, <4>5, <4>6 DEF ConnStep, Runs
    <3>4. CASE conn'[k] = Quiet
      <4>1. Quiet.pc = "idle"
        BY DEF Quiet
      <4> QED BY <3>1, <3>4, <4>1
    <3> QED BY ConnChanges, <3>1, <3>2, <3>3, <3>4
  <2>3. ASSUME NEW t \in Threads, thread'[t] = "inside" PROVE mutex'["admin"] = t
    <3>1. CASE thread[t] = "inside"
      <4>1. mutex["admin"] = t /\ o # t
        BY <2>1, <2>3, <3>1 DEF MutexInv
      <4> QED BY <1>0, <2>1, <4>1
    <3>2. CASE thread[t] # "inside"
      <4>1. ASSUME NEW u \in Threads, Enter(u) PROVE mutex'["admin"] = t
        BY <1>0, <2>3, <3>2, <4>1 DEF Enter, Give
      <4>2. ASSUME NEW u \in Threads, Leave(u) PROVE FALSE
        BY <1>0, <2>3, <3>2, <4>2 DEF Leave
      <4>3. ASSUME NEW d \in Devices, ClientStep(d) PROVE UNCHANGED thread
        BY <4>3 DEF ClientStep, Ask, AskToPair, SaveCert, SaveKey, GiveUp
      <4>4. ASSUME NEW k \in Conns, ConnStep(k) PROVE UNCHANGED thread
        BY <4>4 DEF ConnStep, Runs, Authorize, Pair, Register, Finish, Answer, LockCallback,
                    LockAdmin
      <4>5. Panic => \A u \in Threads : thread'[u] \in {thread[u], "idle"}
        BY <1>0 DEF Panic
      <4>6. Start \/ Tick => UNCHANGED thread
        BY DEF Start, Tick
      <4> QED BY <1>3, <2>3, <3>2, <4>1, <4>2, <4>3, <4>4, <4>5, <4>6
              DEF Next, ThreadStep, LoopFindsPoison, Stop
    <3> QED BY <3>1, <3>2
  <2> QED BY <2>2, <2>3 DEF MutexInv
<1> QED BY <1>1, <1>2, <1>3

-----------------------------------------------------------------------------
LEMMA NextRecorded ==
  ASSUME Limits, TypeOK, MutexInv, AuthorizedIsRecorded, [Next]_vars
  PROVE  AuthorizedIsRecorded'
<1>0. /\ conn \in [Conns -> Conn] /\ authorized \in [Devices -> Cert]
      /\ registry \in [Devices -> Cert] /\ {"admin", "on_paired"} \subseteq Mutexes
  BY TypeParts DEF ServerType, DevicesType, Mutexes
<1>1. CASE UNCHANGED vars
  BY <1>1 DEF vars, AuthorizedIsRecorded, Poisoned
<1>2. CASE Ends
  BY <1>2 DEF Ends, Nobody, AuthorizedIsRecorded
<1>3. CASE Next /\ ~Ends
  <2> DEFINE OnItsWay(k) == conn[k].kind = "pair" /\ conn[k].pc \in {"granted", "calls", "inside"}
  <2>1. Poisoned("admin") => Poisoned("admin")'
    BY <1>0, <1>3, OwnersKept DEF Poisoned
  <2>2. Poisoned("on_paired") => Poisoned("on_paired")'
    BY <1>0, <1>3, OwnersKept DEF Poisoned
  <2>3. \A d \in Devices : registry[d] # 0 => registry'[d] # 0
    <3>1. ASSUME NEW k \in Conns, Finish(k)
          PROVE  \A d \in Devices : registry[d] # 0 => registry'[d] # 0
      <4>1. CASE conn[k].kind = "pair"
        <5>1. conn[k].cert # 0 /\ registry' = [registry EXCEPT ![conn[k].dev] = conn[k].cert]
          BY <3>1, <4>1 DEF Finish, Records, MutexInv, Enrolled
        <5> QED BY <1>0, <5>1
      <4> QED BY <3>1, <4>1 DEF Finish, Records
    <3>2. ASSUME NEW k \in Conns, ConnStep(k), ~Finish(k) PROVE UNCHANGED registry
      BY <3>2 DEF ConnStep, Runs, Authorize, Pair, Register, Answer, LockCallback, LockAdmin,
                  deviceVars
    <3>3. ASSUME NEW d \in Devices, ClientStep(d) PROVE UNCHANGED registry
      BY <3>3 DEF ClientStep, Ask, AskToPair, SaveCert, SaveKey, GiveUp, deviceVars
    <3>4. ASSUME NEW t \in Threads, ThreadStep(t) PROVE UNCHANGED registry
      BY <3>4 DEF ThreadStep, Enter, Leave, deviceVars
    <3>5. Panic \/ Start \/ Tick => UNCHANGED registry
      BY DEF Panic, Start, Tick, deviceVars
    <3> QED BY <1>3, <3>1, <3>2, <3>3, <3>4, <3>5 DEF Next, LoopFindsPoison, Stop
  <2>4. ASSUME NEW k \in Conns, OnItsWay(k)
        PROVE  \/ OnItsWay(k)' /\ conn'[k].dev = conn[k].dev
               \/ registry'[conn[k].dev] # 0
               \/ Poisoned("admin")' \/ Poisoned("on_paired")'
    <3>0. conn[k] \in Conn /\ Callback(k) = "on_paired" /\ conn[k].cert # 0
      BY <1>0, <2>4 DEF Callback, MutexInv, Enrolled
    <3>1. CASE conn'[k] = conn[k]
      BY <2>4, <3>1
    <3>2. CASE LockCallback(k)
      <4>1. CASE Poisoned(Callback(k))
        BY <2>2, <3>0, <4>1
      <4>2. CASE conn' = [conn EXCEPT ![k].pc = "calls"]
        BY <1>0, <2>4, <3>0, <4>2 DEF Conn
      <4> QED BY <3>2, <4>1, <4>2 DEF LockCallback
    <3>3. CASE LockAdmin(k)
      <4>1. CASE Poisoned("admin")
        BY <2>1, <4>1
      <4>2. CASE conn' = [conn EXCEPT ![k].pc = "inside"]
        BY <1>0, <2>4, <3>0, <4>2 DEF Conn
      <4> QED BY <3>3, <4>1, <4>2 DEF LockAdmin
    <3>4. CASE Finish(k)
      <4>1. registry' = [registry EXCEPT ![conn[k].dev] = conn[k].cert] /\ conn[k].dev \in Devices
        BY <2>4, <3>0, <3>4 DEF Finish, Records, Conn
      <4> QED BY <1>0, <3>0, <4>1
    <3>5. ConnStep(k) => LockCallback(k) \/ LockAdmin(k) \/ Finish(k)
      BY <2>4 DEF ConnStep, Runs, Authorize, Pair, Register, Answer
    <3>6. CASE ~ConnStep(k) /\ conn'[k] = Quiet
      <4>1. ASSUME NEW j \in Conns, ConnStep(j), j # k PROVE conn'[k] = conn[k]
        BY <1>0, <4>1 DEF ConnStep, Runs, Authorize, Pair, Register, Finish, Answer,
                          LockCallback, LockAdmin, Dies, Reply
      <4>2. ASSUME NEW d \in Devices, ClientStep(d) PROVE conn'[k] = conn[k]
        BY <1>0, <2>4, <4>2 DEF ClientStep, Ask, AskToPair, SaveCert, SaveKey, GiveUp
      <4>3. ASSUME NEW t \in Threads, ThreadStep(t) PROVE conn'[k] = conn[k]
        BY <4>3 DEF ThreadStep, Enter, Leave
      <4>4. Start \/ Tick => conn'[k] = conn[k]
        BY DEF Start, Tick
      <4>5. Panic => conn'[k] = conn[k] \/ Poisoned("admin")'
        BY <1>0 DEF Panic, Poisoned, Give
      <4> QED BY <1>3, <3>1, <3>6, <4>1, <4>2, <4>3, <4>4, <4>5 DEF Next, LoopFindsPoison, Stop
    <3> QED BY ConnChanges, <2>4, <3>1, <3>2, <3>3, <3>4, <3>5, <3>6
  <2>5. ASSUME NEW d \in Devices, authorized'[d] # authorized[d]
        PROVE  \E k \in Conns : OnItsWay(k)' /\ conn'[k].dev = d
    <3>1. ASSUME NEW k \in Conns, Register(k) PROVE OnItsWay(k)' /\ conn'[k].dev = d
      <4>1. /\ Enrol(conn[k].dev, certs') /\ conn[k].kind = "pair"
            /\ conn' = [conn EXCEPT ![k].pc = "granted", ![k].cert = certs']
        BY <2>5, <3>1 DEF Register, MutexInv, Enrolled
      <4>2. conn[k] \in Conn
        BY <1>0
      <4>3. conn'[k].pc = "granted" /\ conn'[k].kind = "pair" /\ conn'[k].dev = conn[k].dev
        BY <1>0, <4>1, <4>2 DEF Conn
      <4>4. conn[k].dev = d
        BY <1>0, <2>5, <4>1 DEF Enrol
      <4> QED BY <4>3, <4>4
    <3>2. ASSUME NEW k \in Conns, ConnStep(k), ~Register(k) PROVE UNCHANGED authorized
      BY <3>2 DEF ConnStep, Runs, Authorize, Pair, Finish, Answer, LockCallback, LockAdmin,
                  deviceVars
    <3>3. ASSUME NEW e \in Devices, ClientStep(e) PROVE UNCHANGED authorized
      BY <3>3 DEF ClientStep, Ask, AskToPair, SaveCert, SaveKey, GiveUp, deviceVars
    <3>4. ASSUME NEW t \in Threads, ThreadStep(t) PROVE UNCHANGED authorized
      BY <3>4 DEF ThreadStep, Enter, Leave, deviceVars
    <3>5. Panic \/ Start \/ Tick => UNCHANGED authorized
      BY DEF Panic, Start, Tick, deviceVars
    <3> QED BY <1>3, <2>5, <3>1, <3>2, <3>3, <3>4, <3>5 DEF Next, LoopFindsPoison, Stop
  <2> QED BY <2>1, <2>2, <2>3, <2>4, <2>5 DEF AuthorizedIsRecorded
<1> QED BY <1>1, <1>2, <1>3

\* Whoever the channel lets in is in the registry, is being recorded, or a panic has
\* poisoned the mutexes around the registry.
THEOREM AuthorizedAreRecorded == ASSUME Limits PROVE Spec => []AuthorizedIsRecorded
<1> DEFINE Inv == TypeOK /\ MutexInv /\ AuthorizedIsRecorded
<1>1. Init => Inv
  <2> SUFFICES ASSUME Init PROVE Inv
    OBVIOUS
  <2>1. \A k \in Conns : conn[k].pc = "idle"
    BY DEF Init, Quiet
  <2>2. \A t \in Threads : thread[t] = "idle"
    BY DEF Init
  <2>3. \A d \in Devices : authorized[d] = 0
    BY DEF Init, Nobody
  <2> QED BY <2>1, <2>2, <2>3, InitType DEF MutexInv, Owns, Enrolled, AuthorizedIsRecorded
<1>2. Inv /\ [Next]_vars => Inv'
  BY NextType, NextMutex, NextRecorded
<1>3. Inv => AuthorizedIsRecorded
  OBVIOUS
<1> HIDE DEF Inv
<1> QED BY <1>1, <1>2, <1>3, PTL DEF Spec
-----------------------------------------------------------------------------
\* Who holds a mutex holds it where the code does: a callback's during the call, that
\* of AdminService within it, a thread only the latter.
Held(m) ==
    LET o == mutex[m]
    IN  \/ o \in {"free", "poisoned"}
        \/ o \in Conns /\ conn[o].pc = "calls" /\ m = Callback(o)
        \/ o \in Conns /\ conn[o].pc = "inside" /\ m \in {"admin", Callback(o)}
        \/ o \in Threads /\ thread[o] = "inside" /\ m = "admin"

HeldInv == \A m \in Mutexes : Held(m)

\* A step of one connection is to be looked at for the mutexes it holds afterwards.
LEMMA ConnHolds ==
  ASSUME Limits, HeldInv, NEW k \in Conns, UNCHANGED thread,
         \A j \in Conns \ {k} : conn'[j] = conn[j],
         \A m \in Mutexes : mutex'[m] \in {mutex[m], "free", "poisoned", k},
         \A m \in Mutexes : mutex'[m] = k
            => \/ conn'[k].pc = "calls" /\ m = Callback(k)'
               \/ conn'[k].pc = "inside" /\ m \in {"admin", Callback(k)'}
  PROVE  HeldInv'
<1> SUFFICES ASSUME NEW m \in Mutexes PROVE Held(m)'
  BY DEF HeldInv
<1>1. Held(m)
  BY DEF HeldInv
<1>2. CASE mutex'[m] \in {"free", "poisoned"}
  BY <1>2 DEF Held
<1>3. CASE mutex'[m] = k
  BY <1>3 DEF Held
<1>4. CASE mutex'[m] = mutex[m] /\ mutex[m] \notin {"free", "poisoned", k}
  <2>1. CASE mutex[m] \in Conns
    <3>1. mutex[m] \notin Threads
      BY <2>1 DEF Limits
    <3>2. conn'[mutex[m]] = conn[mutex[m]]
      BY <1>4, <2>1
    <3>3. \A j \in Conns \ {k} : (Callback(j))' = Callback(j)
      BY DEF Callback
    <3> QED BY <1>1, <1>4, <2>1, <3>1, <3>2, <3>3 DEF Held
  <2>2. CASE mutex[m] \in Threads
    <3>1. mutex[m] \notin Conns
      BY <2>2 DEF Limits
    <3> QED BY <1>1, <1>4, <2>2, <3>1 DEF Held
  <2> QED BY <1>1, <1>4, <2>1, <2>2 DEF Held
<1> QED BY <1>2, <1>3, <1>4

\* The same for a step of one thread.
LEMMA ThreadHolds ==
  ASSUME Limits, HeldInv, NEW t \in Threads, UNCHANGED conn,
         \A u \in Threads \ {t} : thread'[u] = thread[u],
         \A m \in Mutexes : mutex'[m] \in {mutex[m], "free", "poisoned", t},
         \A m \in Mutexes : mutex'[m] = t => m = "admin" /\ thread'[t] = "inside"
  PROVE  HeldInv'
<1> SUFFICES ASSUME NEW m \in Mutexes PROVE Held(m)'
  BY DEF HeldInv
<1>1. Held(m)
  BY DEF HeldInv
<1>2. CASE mutex'[m] \in {"free", "poisoned"}
  BY <1>2 DEF Held
<1>3. CASE mutex'[m] = t
  BY <1>3 DEF Held
<1>4. CASE mutex'[m] = mutex[m] /\ mutex[m] \notin {"free", "poisoned", t}
  BY <1>1, <1>4 DEF Held, Callback
<1> QED BY <1>2, <1>3, <1>4

\* No connection holds anything outside the callback.
LEMMA HoldsNothing ==
  ASSUME Limits, HeldInv, NEW k \in Conns, conn[k].pc \notin {"calls", "inside"}
  PROVE  \A m \in Mutexes : mutex[m] # k
<1>1. k \notin Threads \cup {"free", "poisoned"}
  BY DEF Limits
<1> QED BY <1>1 DEF HeldInv, Held

LEMMA NextHeld ==
  ASSUME Limits, TypeOK, HeldInv, [Next]_vars
  PROVE  HeldInv'
<1>0. /\ conn \in [Conns -> Conn] /\ thread \in [Threads -> {"idle", "inside"}]
      /\ mutex \in [Mutexes -> Holders] /\ "admin" \in Mutexes
      /\ "free" \notin Conns /\ "poisoned" \notin Conns /\ "panel" \in Threads
      /\ Quiet.pc = "idle"
  BY TypeParts DEF ServerType, Mutexes, Limits, Threads, Quiet
<1>1. ASSUME UNCHANGED <<mutex, conn, thread>> PROVE HeldInv'
  BY <1>1 DEF HeldInv, Held, Callback
<1>2. CASE Ends
  BY <1>2 DEF Ends, HeldInv, Held
<1>3. ASSUME NEW k \in Conns, conn[k].pc \notin {"calls", "inside"},
             \A j \in Conns \ {k} : conn'[j] = conn[j], UNCHANGED <<mutex, thread>>
      PROVE  HeldInv'
  <2>1. \A m \in Mutexes : mutex[m] # k
    BY <1>3, HoldsNothing
  <2> QED BY <1>3, <2>1, ConnHolds
<1>4. ASSUME NEW k \in Conns, conn[k].pc = "calls" \/ conn[k].pc = "inside",
             \A j \in Conns \ {k} : conn'[j] = conn[j], UNCHANGED thread,
             NEW to \in {"free", "poisoned"},
             Give({"admin", Callback(k)}, to) \/ (conn[k].pc = "calls" /\ Give({Callback(k)}, to))
      PROVE  HeldInv'
  <2>1. \A m \in Mutexes : mutex[m] = k => m = Callback(k) \/ (conn[k].pc = "inside" /\ m = "admin")
    BY <1>0 DEF HeldInv, Held, Limits
  <2>2. \A m \in Mutexes : mutex'[m] \in {mutex[m], to} /\ mutex'[m] # k
    BY <1>0, <1>4, <2>1 DEF Give
  <2> QED BY <1>4, <2>2, ConnHolds
<1>5. ASSUME NEW k \in Conns, Dies(k) PROVE \A j \in Conns \ {k} : conn'[j] = conn[j]
  BY <1>0, <1>5 DEF Dies
<1>6. ASSUME NEW k \in Conns, ConnStep(k) PROVE HeldInv'
  <2>1. CASE Authorize(k) \/ Pair(k) \/ Register(k) \/ Answer(k)
    <3>1. conn[k].pc \in {"read", "coded", "answered"} /\ UNCHANGED <<mutex, thread>>
      BY <2>1 DEF Authorize, Pair, Register, Answer, stable
    <3>2. \A j \in Conns \ {k} : conn'[j] = conn[j]
      BY <1>0, <2>1 DEF Authorize, Pair, Register, Answer, Reply
    <3> QED BY <1>3, <3>1, <3>2
  <2>2. CASE LockCallback(k)
    <3>1. CASE Poisoned(Callback(k)) /\ Dies(k) /\ UNCHANGED mutex
      BY <1>3, <1>5, <2>2, <3>1 DEF LockCallback
    <3>2. CASE /\ Free(Callback(k)) /\ Give({Callback(k)}, k)
               /\ conn' = [conn EXCEPT ![k].pc = "calls"]
      <4>1. \A m \in Mutexes : mutex[m] # k
        BY <2>2, HoldsNothing DEF LockCallback
      <4>2. conn'[k].pc = "calls" /\ conn'[k].kind = conn[k].kind
            /\ \A j \in Conns \ {k} : conn'[j] = conn[j]
        BY <1>0, <3>2 DEF Conn
      <4>3. Callback(k)' = Callback(k)
        BY <4>2 DEF Callback
      <4>4. \A m \in Mutexes : /\ mutex'[m] \in {mutex[m], k}
                               /\ mutex'[m] = k => m = Callback(k)
        BY <3>2, <4>1 DEF Give
      <4>5. UNCHANGED thread
        BY <2>2 DEF LockCallback
      <4> QED BY <4>2, <4>3, <4>4, <4>5, ConnHolds
    <3> QED BY <2>2, <3>1, <3>2 DEF LockCallback
  <2>3. CASE LockAdmin(k)
    <3>1. CASE Dies(k) /\ Give({Callback(k)}, "poisoned")
      BY <1>4, <1>5, <2>3, <3>1 DEF LockAdmin
    <3>2. CASE /\ Free("admin") /\ Give({"admin"}, k)
               /\ conn' = [conn EXCEPT ![k].pc = "inside"]
      <4>1. \A m \in Mutexes : mutex[m] = k => m = Callback(k)
        BY <1>0, <2>3 DEF LockAdmin, HeldInv, Held, Limits
      <4>2. conn'[k].pc = "inside" /\ conn'[k].kind = conn[k].kind
            /\ \A j \in Conns \ {k} : conn'[j] = conn[j]
        BY <1>0, <3>2 DEF Conn
      <4>3. Callback(k)' = Callback(k)
        BY <4>2 DEF Callback
      <4>4. \A m \in Mutexes : /\ mutex'[m] \in {mutex[m], k}
                               /\ mutex'[m] = k => m \in {"admin", Callback(k)}
        BY <3>2, <4>1 DEF Give
      <4>5. UNCHANGED thread
        BY <2>3 DEF LockAdmin
      <4> QED BY <4>2, <4>3, <4>4, <4>5, ConnHolds
    <3> QED BY <2>3, <3>1, <3>2 DEF LockAdmin
  <2>4. CASE Finish(k)
    <3>1. conn[k].pc = "inside" /\ Give({"admin", Callback(k)}, "free") /\ UNCHANGED thread
      BY <2>4 DEF Finish, Leaves
    <3>2. \A j \in Conns \ {k} : conn'[j] = conn[j]
      BY <1>0, <2>4 DEF Finish, Reply
    <3> QED BY <1>4, <3>1, <3>2
  <2> QED BY <1>6, <2>1, <2>2, <2>3, <2>4 DEF ConnStep, Runs
<1>7. ASSUME NEW t \in Threads, thread[t] = "inside", NEW to \in {"free", "poisoned"},
             Give({"admin"}, to), thread' = [thread EXCEPT ![t] = "idle"], UNCHANGED conn
      PROVE  HeldInv'
  <2>1. \A m \in Mutexes : mutex[m] = t => m = "admin"
    BY <1>0 DEF HeldInv, Held, Limits, Threads
  <2>2. t \notin {"free", "poisoned"}
    BY DEF Threads
  <2>3. \A m \in Mutexes : mutex'[m] \in {mutex[m], to} /\ mutex'[m] # t
    BY <1>0, <1>7, <2>1, <2>2 DEF Give
  <2> QED BY <1>0, <1>7, <2>3, ThreadHolds
<1>8. ASSUME NEW t \in Threads, Enter(t) PROVE HeldInv'
  <2>1. \A m \in Mutexes : mutex[m] # t
    <3>1. t \notin Conns \cup {"free", "poisoned"}
      BY DEF Limits, Threads
    <3> QED BY <1>8, <3>1 DEF Enter, HeldInv, Held
  <2>2. \A m \in Mutexes : mutex'[m] \in {mutex[m], t} /\ (mutex'[m] = t => m = "admin")
    BY <1>8, <2>1 DEF Enter, Give
  <2>3. thread'[t] = "inside" /\ UNCHANGED conn /\ \A u \in Threads \ {t} : thread'[u] = thread[u]
    BY <1>0, <1>8 DEF Enter
  <2> QED BY <2>2, <2>3, ThreadHolds
<1>9. CASE Panic
  <2>1. CASE \E k \in Conns : /\ conn[k].pc = "inside" /\ Dies(k)
                              /\ Give({"admin", Callback(k)}, "poisoned") /\ UNCHANGED thread
    BY <1>4, <1>5, <2>1
  <2>2. CASE /\ thread["panel"] = "inside" /\ thread' = [thread EXCEPT !["panel"] = "idle"]
             /\ Give({"admin"}, "poisoned") /\ UNCHANGED conn
    BY <1>0, <1>7, <2>2
  <2> QED BY <1>9, <2>1, <2>2 DEF Panic
<1>10. ASSUME NEW d \in Devices, ClientStep(d) PROVE HeldInv'
  <2>1. CASE \E k \in Conns : conn[k].pc = "idle" /\ UNCHANGED <<mutex, thread>>
                              /\ \A j \in Conns \ {k} : conn'[j] = conn[j]
    BY <1>3, <2>1
  <2>2. CASE UNCHANGED <<mutex, conn, thread>>
    BY <1>1, <2>2
  <2>3. ASSUME NEW k \in Conns, NEW kind, Ask(d, k, kind) \/ AskToPair(d, k, kind)
        PROVE  conn[k].pc = "idle" /\ UNCHANGED <<mutex, thread>>
               /\ \A j \in Conns \ {k} : conn'[j] = conn[j]
    BY <1>0, <2>3 DEF Ask, AskToPair
  <2> QED BY <1>10, <2>1, <2>2, <2>3 DEF ClientStep, SaveCert, SaveKey, GiveUp
<1>11. Start \/ Tick \/ UNCHANGED vars => UNCHANGED <<mutex, conn, thread>>
  BY DEF Start, Tick, vars
<1>12. \A t \in Threads : Leave(t) => HeldInv'
  BY <1>7 DEF Leave
<1> QED BY <1>1, <1>2, <1>6, <1>8, <1>9, <1>10, <1>11, <1>12
        DEF Next, ThreadStep, LoopFindsPoison, Stop

\* The mutex a connection cannot go on without, held by somebody.
Waits(k, m) ==
    /\ \/ conn[k].pc = "granted" /\ m = Callback(k)
       \/ conn[k].pc = "calls" /\ m = "admin"
    /\ ~Free(m) /\ ~Poisoned(m)

\* Who waits for the AdminService waits for somebody within it, who needs no other
\* mutex; who waits for a callback waits for somebody else, who is within the
\* AdminService or waits for it at most.
WaitingEnds ==
    \A k \in Conns, m \in Mutexes : Waits(k, m) =>
        LET o == mutex[m]
        IN  \/ o \in Threads /\ thread[o] = "inside"
            \/ o \in Conns \ {k} /\ conn[o].pc = "inside"
            \/ o \in Conns \ {k} /\ conn[o].pc = "calls" /\ m # "admin"

\* No two requests wait for each other, nor any number of them in a circle: every
\* mutex waited for is held by somebody further on in the order of the mutexes.
THEOREM NoCircularWait == ASSUME Limits PROVE Spec => []WaitingEnds
<1>1. Init => HeldInv
  BY DEF Init, HeldInv, Held
<1>2. HeldInv => WaitingEnds
  <2> SUFFICES ASSUME HeldInv, NEW k \in Conns, NEW m \in Mutexes, Waits(k, m)
               PROVE  LET o == mutex[m]
                      IN  \/ o \in Threads /\ thread[o] = "inside"
                          \/ o \in Conns \ {k} /\ conn[o].pc = "inside"
                          \/ o \in Conns \ {k} /\ conn[o].pc = "calls" /\ m # "admin"
    BY DEF WaitingEnds
  <2>1. Callback(k) # "admin" /\ \A j \in Conns : Callback(j) # "admin"
    BY CallbackType
  <2> QED BY <2>1 DEF HeldInv, Held, Waits, Free, Poisoned, Limits, Threads
<1> QED BY <1>1, <1>2, InitType, NextType, NextHeld, PTL DEF Spec
=============================================================================
