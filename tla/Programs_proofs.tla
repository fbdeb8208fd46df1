---------------------------- MODULE Programs_proofs ----------------------------
(***************************************************************************)
(* Proofs about the programs around the vault: first the administration,   *)
(* for any PINs, requests and lengths of sessions and pauses; then the     *)
(* calendar, for every day, and the desktop application; last the programs *)
(* together, which inherit what is proved of the channel, the door and the *)
(* search box as well.                                                     *)
(***************************************************************************)
EXTENDS Programs, Sequences, FiniteSetTheorems, TLAPS

Request == [pc : {"idle", "sent", "checked", "answered"}, op : Ops,
            token : 0..MaxToken, ok : BOOLEAN, heard : BOOLEAN]
Expiry == 1..(MaxClock + SessionTtl)
Hashes == [admin : Pins \cup {NoPin}, destruction : Pins \cup {NoPin}]

-----------------------------------------------------------------------------
\* Every power of two is a natural number.
LEMMA PowerType == ASSUME NEW n \in Nat PROVE 2 ^ n \in Nat
<1>1. IsFiniteSet(1..n) /\ Cardinality(1..n) = n
  BY FS_Interval
<1>2. IsFiniteSet(SUBSET (1..n)) /\ Cardinality(SUBSET (1..n)) = 2 ^ n
  BY <1>1, FS_SUBSET
<1> QED BY <1>2, FS_CardinalityType

\* And none of them is zero: the empty set is a subset of every set.
LEMMA PowerPositive == ASSUME NEW n \in Nat PROVE 2 ^ n > 0
<1>1. IsFiniteSet(1..n) /\ Cardinality(1..n) = n
  BY FS_Interval
<1>2. IsFiniteSet(SUBSET (1..n)) /\ Cardinality(SUBSET (1..n)) = 2 ^ n
  BY <1>1, FS_SUBSET
<1>3. SUBSET (1..n) # {}
  OBVIOUS
<1>4. Cardinality(SUBSET (1..n)) # 0
  BY <1>2, <1>3, FS_EmptySet
<1> QED BY <1>2, <1>4, PowerType

\* A pause that is imposed is a natural number of seconds.
LEMMA PauseType ==
  ASSUME NEW f \in Nat, f > FreeFailures
  PROVE  NextLockout(f) \in Nat
<1>1. f - FreeFailures \in Nat
  BY TimesAssumption
<1>2. 2 ^ (f - FreeFailures) \in Nat
  BY <1>1, PowerType
<1> QED BY <1>2, TimesAssumption DEF NextLockout

\* A product of positive numbers is positive.
LEMMA ProductPositive == ASSUME NEW a \in Nat, NEW b \in Nat, a > 0, b > 0 PROVE a * b > 0
OBVIOUS

\* A pause is never empty: the failure that imposes it is paid for.
LEMMA PausePositive ==
  ASSUME NEW f \in Nat, f > FreeFailures
  PROVE  NextLockout(f) > 0
<1> DEFINE x == 2 ^ (f - FreeFailures)
<1>1. f - FreeFailures \in Nat
  BY TimesAssumption
<1>2. x \in Nat /\ x > 0
  BY <1>1, PowerType, PowerPositive
<1>3. NextLockout(f) = BaseLock * x
  BY Zenon DEF NextLockout
<1> HIDE DEF x
<1>4. BaseLock * x > 0
  BY <1>2, ProductPositive, TimesAssumption
<1> QED BY <1>3, <1>4

\* The tables of sessions stay tables of sessions.
LEMMA NoneType == None \in Sessions
<1>1. {} \in SUBSET Token
  OBVIOUS
<1>2. None \in [{} -> Expiry]
  BY DEF None
<1> QED BY <1>1, <1>2 DEF Sessions, Expiry

\* A table of sessions gives tokens an expiry each.
LEMMA SessionsAre ==
  ASSUME NEW table
  PROVE  table \in Sessions <=> /\ DOMAIN table \in SUBSET Token
                                /\ table \in [DOMAIN table -> Expiry]
BY DEF Sessions, Expiry

\* A session that begins or is renewed leaves a table of sessions.
LEMMA PutType ==
  ASSUME NEW table \in Sessions, NEW t \in Token, NEW e \in Expiry
  PROVE  Put(table, t, e) \in Sessions
<1>1. DOMAIN table \in SUBSET Token /\ table \in [DOMAIN table -> Expiry]
  BY SessionsAre
<1>2. Put(table, t, e) \in [DOMAIN table \cup {t} -> Expiry]
  BY <1>1 DEF Put
<1>3. DOMAIN table \cup {t} \in SUBSET Token
  BY <1>1
<1> QED BY <1>2, <1>3, SessionsAre

\* So does the removal of expired sessions, or of one.
LEMMA DropType ==
  ASSUME NEW table \in Sessions, NEW t
  PROVE  Drop(table, t) \in Sessions
<1>1. DOMAIN table \in SUBSET Token /\ table \in [DOMAIN table -> Expiry]
  BY SessionsAre
<1>2. Drop(table, t) \in [DOMAIN table \ {t} -> Expiry]
  BY <1>1 DEF Drop
<1>3. DOMAIN table \ {t} \in SUBSET Token
  BY <1>1
<1> QED BY <1>2, <1>3, SessionsAre

\* A session given now, or renewed, expires within the bound.
LEMMA ExpiryType ==
  ASSUME clock \in 0..MaxClock
  PROVE  clock + SessionTtl \in Expiry
BY TimesAssumption DEF Expiry

\* Both tables after a renewal, of a live session only.
LEMMA LiveToken ==
  ASSUME NEW table \in Sessions, NEW t, Live(table, t)
  PROVE  t \in Token
BY SessionsAre DEF Live

\* An answer changes the step and the outcome of one request.
LEMMA AnswerKeeps ==
  ASSUME req \in [Requests -> Request], NEW r \in Requests, NEW ok \in BOOLEAN,
         Answer(r, ok)
  PROVE  /\ req' \in [Requests -> Request]
         /\ req'[r].op = req[r].op /\ req'[r].token = req[r].token /\ req'[r].ok = ok
         /\ \A q \in Requests \ {r} : req'[q] = req[q]
<1> DEFINE s == [req[r] EXCEPT !.pc = "answered"]
           u == [s EXCEPT !.ok = ok]
<1>1. req[r] \in Request
  OBVIOUS
<1>2. s \in Request /\ s.op = req[r].op /\ s.token = req[r].token
  BY <1>1 DEF Request
<1>3. u \in Request /\ u.op = req[r].op /\ u.token = req[r].token /\ u.ok = ok
  BY <1>2 DEF Request
<1>4. req' = [req EXCEPT ![r] = u]
  BY DEF Answer
<1> HIDE DEF s, u
<1> QED BY <1>3, <1>4

\* The answer that carries a token.
LEMMA TokenAnswerKeeps ==
  ASSUME req \in [Requests -> Request], NEW r \in Requests, NEW t \in 0..MaxToken,
         req' = [req EXCEPT ![r].pc = "answered", ![r].ok = TRUE, ![r].token = t]
  PROVE  /\ req' \in [Requests -> Request]
         /\ req'[r].op = req[r].op /\ req'[r].token = t
         /\ \A q \in Requests \ {r} : req'[q] = req[q]
<1> DEFINE s == [req[r] EXCEPT !.pc = "answered"]
           u == [s EXCEPT !.ok = TRUE]
           v == [u EXCEPT !.token = t]
<1>1. req[r] \in Request
  OBVIOUS
<1>2. s \in Request /\ s.op = req[r].op
  BY <1>1 DEF Request
<1>3. u \in Request /\ u.op = req[r].op
  BY <1>2 DEF Request
<1>4. v \in Request /\ v.op = req[r].op /\ v.token = t
  BY <1>3 DEF Request
<1>5. req' = [req EXCEPT ![r] = v]
  OBVIOUS
<1> HIDE DEF s, u, v
<1> QED BY <1>4, <1>5

\* Trying a PIN leaves a count and a pause.
LEMMA TryPinType ==
  ASSUME TypeOK, NEW p, TryPin(p)
  PROVE  failures' \in Nat /\ lockedUntil' \in Nat /\ first' \in 0..MaxClock /\ owed' \in Nat
<1>1. CASE UNCHANGED lockout
  BY <1>1 DEF lockout, TypeOK
<1>2. CASE ResetFailures
  BY <1>2, TimesAssumption DEF ResetFailures, TypeOK
<1>3. CASE RegisterFailure
  <2> DEFINE pause == IF failures + 1 > FreeFailures THEN NextLockout(failures + 1) ELSE 0
  <2>1. failures + 1 \in Nat /\ clock \in Nat /\ owed \in Nat /\ lockedUntil \in Nat
    BY DEF TypeOK
  <2>2. pause \in Nat
    BY <2>1, PauseType
  <2>3. /\ failures' = failures + 1
        /\ lockedUntil' = IF pause > 0 THEN clock + pause ELSE lockedUntil
        /\ first' = IF failures = 0 THEN clock ELSE first
        /\ owed' = IF failures = 0 THEN pause ELSE owed + pause
    BY <1>3 DEF RegisterFailure
  <2> HIDE DEF pause
  <2> QED BY <2>1, <2>2, <2>3 DEF TypeOK
<1> QED BY <1>1, <1>2, <1>3 DEF TryPin

-----------------------------------------------------------------------------
\* No session, no failure, no request: the types hold at the start.
LEMMA InitType == Init => TypeOK
<1> SUFFICES ASSUME Init PROVE TypeOK
  OBVIOUS
<1>1. disk \in Hashes /\ mem \in Hashes
  BY PinsAssumption DEF Init, Hashes
<1>2. Idle \in Request
  BY TimesAssumption DEF Idle, Request, Ops
<1>3. req \in [Requests -> Request]
  BY <1>2 DEF Init
<1>4. /\ clock \in 0..MaxClock /\ up \in BOOLEAN /\ failures \in Nat /\ lockedUntil \in Nat
      /\ drawn \in 0..MaxToken /\ page \in 0..MaxToken /\ first \in 0..MaxClock /\ owed \in Nat
  <2>1. 0 \in Nat /\ 0 \in 0..MaxClock /\ 0 \in 0..MaxToken
    BY TimesAssumption
  <2>2. /\ clock = 0 /\ up = FALSE /\ failures = 0 /\ lockedUntil = 0 /\ drawn = 0
        /\ page = 0 /\ first = 0 /\ owed = 0
    BY DEF Init
  <2> QED BY <2>1, <2>2
<1>5. adminSessions \in Sessions /\ panelSessions \in Sessions
  BY NoneType DEF Init
<1> QED BY <1>1, <1>3, <1>4, <1>5 DEF TypeOK, Hashes, Request

\* No step leaves the types.
LEMMA NextType == TypeOK /\ [Next]_vars => TypeOK'
<1> SUFFICES ASSUME TypeOK, [Next]_vars PROVE TypeOK'
  OBVIOUS
<1> USE DEF Hashes, Request
<1>0. /\ req \in [Requests -> Request] /\ mem \in Hashes /\ disk \in Hashes
      /\ clock \in 0..MaxClock /\ drawn \in 0..MaxToken /\ page \in 0..MaxToken
      /\ adminSessions \in Sessions /\ panelSessions \in Sessions
      /\ clock + SessionTtl \in Expiry
  BY ExpiryType DEF TypeOK
<1>1. CASE Start
  <2>1. mem' \in Hashes /\ disk' \in Hashes /\ up' \in BOOLEAN
    <3>1. CASE mem' = disk /\ disk' = disk /\ up' = TRUE
      BY <1>0, <3>1
    <3>2. ASSUME NEW p \in StrongPins, mem' = [disk EXCEPT !.admin = p], disk' = mem',
                 up' \in BOOLEAN
          PROVE  mem' \in Hashes /\ disk' \in Hashes /\ up' \in BOOLEAN
      BY <1>0, <3>2, PinsAssumption
    <3> QED BY <1>1, <3>1, <3>2 DEF Start, Flush
  <2> QED BY <1>1, <2>1 DEF Start, TypeOK, lockout
<1>2. CASE Stop
  <2>1. Idle \in Request
    BY TimesAssumption DEF Idle, Ops
  <2>2. req' \in [Requests -> Request]
    BY <1>2, <2>1 DEF Stop
  <2>3. page' \in 0..MaxToken
    BY <1>0, <1>2, TimesAssumption DEF Stop
  <2>4. /\ mem' \in Hashes /\ disk' \in Hashes /\ clock' \in 0..MaxClock
        /\ drawn' \in 0..MaxToken /\ first' \in 0..MaxClock
    BY <1>0, <1>2, TimesAssumption DEF Stop
  <2>5. adminSessions' \in Sessions /\ panelSessions' \in Sessions
    BY <1>2, NoneType DEF Stop
  <2> QED BY <1>2, <2>2, <2>3, <2>4, <2>5 DEF Stop, TypeOK
<1>3. CASE Tick
  BY <1>3, TimesAssumption DEF Tick, TypeOK, lockout, database
<1>4. ASSUME NEW current \in Pins, NEW new \in Pins, NEW stored \in BOOLEAN,
             ChangePin(current, new, stored)
      PROVE  TypeOK'
  <2>1. CASE PinAccepted(current)
    <3>1. mem' = [mem EXCEPT !.admin = new] /\ disk' \in {mem', disk} /\ UNCHANGED lockout
      BY <1>4, <2>1 DEF ChangePin, Flush
    <3>2. mem' \in Hashes
      BY <1>0, <3>1
    <3> QED BY <1>4, <3>1, <3>2 DEF ChangePin, TypeOK, lockout
  <2>2. CASE ~PinAccepted(current)
    <3>1. TryPin(current) /\ UNCHANGED database
      BY <1>4, <2>2 DEF ChangePin
    <3> QED BY <1>4, <3>1, TryPinType DEF ChangePin, TypeOK, database
  <2> QED BY <2>1, <2>2
<1>5. ASSUME NEW r \in Requests, Receive(r) PROVE TypeOK'
  <2>1. page' \in 0..MaxToken
    BY <1>0, <1>5, TimesAssumption DEF Receive
  <2>2. req' \in [Requests -> Request]
    <3>1. Idle \in Request
      BY TimesAssumption DEF Idle, Ops
    <3>2. \A q \in Requests : [req[q] EXCEPT !.heard = FALSE] \in Request
      BY <1>0
    <3> QED BY <1>0, <1>5, <3>1, <3>2 DEF Receive
  <2> QED BY <1>5, <2>1, <2>2 DEF Receive, TypeOK, lockout, database
<1>6. ASSUME NEW r \in Requests, NEW op \in Ops, Send(r, op) PROVE TypeOK'
  <2>1. req' \in [Requests -> Request]
    BY <1>0, <1>6 DEF Send
  <2> QED BY <1>6, <2>1 DEF Send, TypeOK, lockout, database
<1>7. ASSUME NEW r \in Requests, NEW p \in Pins, NEW stored \in BOOLEAN, Login(r, p, stored)
      PROVE  TypeOK'
  <2>1. /\ failures' \in Nat /\ lockedUntil' \in Nat /\ first' \in 0..MaxClock /\ owed' \in Nat
        /\ disk' \in {mem, disk}
    BY <1>7, TryPinType DEF Login, Flush
  <2>2. drawn + 1 \in Token /\ drawn + 2 \in Token
    BY <1>0, <1>7, TimesAssumption DEF Login, Token
  <2>3. /\ adminSessions' \in Sessions /\ panelSessions' \in Sessions
        /\ drawn' \in 0..MaxToken /\ req' \in [Requests -> Request]
    <3>1. CASE PinAccepted(p) /\ stored
      <4>1. /\ adminSessions' = Put(adminSessions, drawn + 1, clock + SessionTtl)
            /\ panelSessions' = Put(panelSessions, drawn + 2, clock + SessionTtl)
            /\ drawn' = drawn + 2
            /\ req' = [req EXCEPT ![r].pc = "answered", ![r].ok = TRUE, ![r].token = drawn + 2]
        BY <1>7, <3>1 DEF Login
      <4>2. drawn + 2 \in 0..MaxToken
        BY <2>2 DEF Token
      <4>3. req' \in [Requests -> Request]
        BY <1>0, <4>1, <4>2, TokenAnswerKeeps
      <4> QED BY <1>0, <2>2, <4>1, <4>2, <4>3, PutType
    <3>2. CASE PinAccepted(p) /\ ~stored
      <4>1. /\ adminSessions' = Put(adminSessions, drawn + 1, clock + SessionTtl)
            /\ panelSessions' = panelSessions
            /\ drawn' = drawn + 1
            /\ Answer(r, FALSE)
        BY <1>7, <3>2 DEF Login
      <4>2. drawn + 1 \in 0..MaxToken
        BY <2>2 DEF Token
      <4>3. req' \in [Requests -> Request]
        BY <1>0, <4>1, AnswerKeeps
      <4> QED BY <1>0, <2>2, <4>1, <4>2, <4>3, PutType
    <3>3. CASE ~PinAccepted(p)
      <4>1. Answer(r, FALSE) /\ UNCHANGED <<adminSessions, panelSessions, drawn>>
        BY <1>7, <3>3 DEF Login
      <4>2. req' \in [Requests -> Request]
        BY <1>0, <4>1, AnswerKeeps
      <4> QED BY <1>0, <4>1, <4>2
    <3> QED BY <3>1, <3>2, <3>3
  <2> QED BY <1>0, <1>7, <2>1, <2>3 DEF Login, TypeOK
<1>8. ASSUME NEW r \in Requests, CheckSession(r) PROVE TypeOK'
  <2>1. panelSessions' \in Sessions
    BY <1>0, <1>8, PutType, DropType, LiveToken DEF CheckSession, RenewOrRemove
  <2>2. req' \in [Requests -> Request]
    <3>1. CASE req' = [req EXCEPT ![r].pc = "checked"]
      BY <1>0, <3>1
    <3>2. CASE Answer(r, FALSE)
      BY <1>0, <3>2, AnswerKeeps
    <3> QED BY <1>8, <3>1, <3>2 DEF CheckSession
  <2> QED BY <1>8, <2>1, <2>2 DEF CheckSession, TypeOK, lockout, database
<1>9. ASSUME NEW r \in Requests, Logout(r) PROVE TypeOK'
  <2>1. panelSessions' \in Sessions /\ req' \in [Requests -> Request]
    BY <1>0, <1>9, DropType, AnswerKeeps DEF Logout
  <2> QED BY <1>9, <2>1 DEF Logout, TypeOK, lockout, database
<1>10. ASSUME NEW r \in Requests, Refresh(r) PROVE TypeOK'
  <2>1. req' \in [Requests -> Request]
    BY <1>0, <1>10, AnswerKeeps DEF Refresh
  <2> QED BY <1>10, <2>1 DEF Refresh, TypeOK, lockout, database
<1>11. ASSUME NEW r \in Requests, NEW p \in Pins, NEW d \in Pins, NEW stored \in BOOLEAN,
              Destroy(r, p, d, stored)
       PROVE  TypeOK'
  <2> DEFINE both == PinAccepted(p) /\ mem.destruction # NoPin /\ d = mem.destruction
  <2>1. TryPin(p) /\ Answer(r, both /\ stored) /\ disk' \in {mem, disk}
    BY <1>11 DEF Destroy, Flush
  <2>2. req' \in [Requests -> Request]
    <3>1. (both /\ stored) \in BOOLEAN
      OBVIOUS
    <3> HIDE DEF both
    <3> QED BY <1>0, <2>1, <3>1, AnswerKeeps
  <2>3. /\ failures' \in Nat /\ lockedUntil' \in Nat /\ first' \in 0..MaxClock /\ owed' \in Nat
    BY <2>1, TryPinType
  <2> HIDE DEF both
  <2> QED BY <1>0, <1>11, <2>1, <2>2, <2>3 DEF Destroy, TypeOK
<1>12. ASSUME NEW r \in Requests, NEW new \in Pins, NEW stored \in BOOLEAN,
              SetDestructionPin(r, new, stored)
       PROVE  TypeOK'
  <2> DEFINE t == req[r].token
             valid == ValidateSession(t)
             done == valid /\ new \in StrongPins
  <2>1. /\ adminSessions' = IF valid THEN Put(adminSessions, t, clock + SessionTtl)
                            ELSE adminSessions
        /\ mem' = IF done THEN [mem EXCEPT !.destruction = new] ELSE mem
        /\ disk' \in {mem', disk}
        /\ Answer(r, done /\ stored)
    BY <1>12 DEF SetDestructionPin, Flush
  <2>2. adminSessions' \in Sessions
    BY <1>0, <2>1, PutType, LiveToken DEF ValidateSession
  <2>3. req' \in [Requests -> Request]
    <3>1. (done /\ stored) \in BOOLEAN
      OBVIOUS
    <3> HIDE DEF done
    <3> QED BY <1>0, <2>1, <3>1, AnswerKeeps
  <2>4. mem' \in Hashes
    BY <1>0, <2>1
  <2> HIDE DEF t, valid, done
  <2> QED BY <1>0, <1>12, <2>1, <2>2, <2>3, <2>4 DEF SetDestructionPin, TypeOK, lockout
<1>13. CASE UNCHANGED vars
  BY <1>13 DEF vars, TypeOK
<1> QED BY <1>1, <1>2, <1>3, <1>4, <1>5, <1>6, <1>7, <1>8, <1>9, <1>10, <1>11, <1>12, <1>13
        DEF Next, Serve

\* Types: every variable of the administration, whoever logs in or guesses.
THEOREM TypeCorrect == Spec => []TypeOK
BY InitType, NextType, PTL DEF Spec

-----------------------------------------------------------------------------
\* The count of failures and the pauses: nothing is owed for the free failures,
\* and a pause that runs covers all that was imposed since the first failure.
LockInv ==
    /\ first <= clock
    /\ failures <= FreeFailures => owed = 0
    /\ failures > FreeFailures => lockedUntil >= first + owed

\* Trying a PIN keeps it: a failure is counted only when no pause runs, so the
\* pauses add up from the clock on.
LEMMA TryPinKeepsLock ==
  ASSUME TypeOK, LockInv, NEW p, TryPin(p), clock' = clock
  PROVE  LockInv'
<1>0. /\ failures \in Nat /\ clock \in Nat /\ owed \in Nat /\ lockedUntil \in Nat
      /\ first \in Nat /\ FreeFailures \in Nat
  BY TimesAssumption DEF TypeOK
<1>1. CASE UNCHANGED lockout
  BY <1>1 DEF lockout, LockInv
<1>2. CASE CheckLockout /\ ResetFailures
  BY <1>0, <1>2 DEF ResetFailures, LockInv
<1>3. CASE CheckLockout /\ RegisterFailure
  <2> DEFINE pause == IF failures + 1 > FreeFailures THEN NextLockout(failures + 1) ELSE 0
  <2>1. pause \in Nat /\ (failures + 1 <= FreeFailures => pause = 0)
    BY <1>0, PauseType
  <2>2. /\ failures' = failures + 1
        /\ lockedUntil' = IF pause > 0 THEN clock + pause ELSE lockedUntil
        /\ first' = IF failures = 0 THEN clock ELSE first
        /\ owed' = IF failures = 0 THEN pause ELSE owed + pause
    BY <1>3 DEF RegisterFailure
  <2>3. pause > 0 \/ failures + 1 <= FreeFailures
    <3>1. ASSUME failures + 1 > FreeFailures PROVE NextLockout(failures + 1) > 0
      BY <1>0, <3>1, PausePositive
    <3> QED BY <1>0, <3>1
  <2>4. lockedUntil <= clock
    BY <1>3 DEF CheckLockout
  <2> HIDE DEF pause
  <2>5. first' <= clock'
    BY <1>0, <2>2 DEF LockInv
  <2>6. failures' <= FreeFailures => owed' = 0
    BY <1>0, <2>1, <2>2 DEF LockInv
  <2>7. failures' > FreeFailures => lockedUntil' >= first' + owed'
    BY <1>0, <2>1, <2>2, <2>3, <2>4 DEF LockInv
  <2> QED BY <2>5, <2>6, <2>7 DEF LockInv
<1> QED BY <1>1, <1>2, <1>3 DEF TryPin

\* Every step keeps the account of failures and pauses.
LEMMA NextLock == TypeOK /\ LockInv /\ [Next]_vars => LockInv'
<1> SUFFICES ASSUME TypeOK, LockInv, [Next]_vars PROVE LockInv'
  OBVIOUS
<1>1. CASE \E p : TryPin(p) /\ clock' = clock
  BY <1>1, TryPinKeepsLock
<1>2. CASE UNCHANGED lockout /\ clock' \in {clock, clock + 1}
  BY <1>2 DEF LockInv, lockout, TypeOK
<1>3. CASE failures' = 0 /\ first' = 0 /\ owed' = 0 /\ clock' = clock
  BY <1>3, TimesAssumption DEF LockInv, TypeOK
<1>4. CASE UNCHANGED vars
  BY <1>4, <1>2 DEF vars, lockout
<1>5. CASE Start \/ Tick
  BY <1>5, <1>2 DEF Start, Tick
<1>6. CASE Stop
  BY <1>6, <1>3 DEF Stop
<1>7. ASSUME NEW current \in Pins, NEW new \in Pins, NEW stored \in BOOLEAN,
             ChangePin(current, new, stored)
      PROVE  LockInv'
  BY <1>7, <1>1, <1>2 DEF ChangePin
<1>8. ASSUME NEW r \in Requests, Receive(r) \/ \E op \in Ops : Send(r, op) PROVE LockInv'
  BY <1>8, <1>2 DEF Receive, Send
<1>9. ASSUME NEW r \in Requests, Serve(r) PROVE LockInv'
  <2>1. ASSUME NEW p \in Pins, NEW stored \in BOOLEAN, Login(r, p, stored) PROVE LockInv'
    BY <2>1, <1>1 DEF Login
  <2>2. CASE CheckSession(r) \/ Logout(r) \/ Refresh(r)
    BY <2>2, <1>2 DEF CheckSession, Logout, Refresh
  <2>3. ASSUME NEW p \in Pins, NEW d \in Pins, NEW stored \in BOOLEAN, Destroy(r, p, d, stored)
        PROVE  LockInv'
    BY <2>3, <1>1 DEF Destroy
  <2>4. ASSUME NEW new \in Pins, NEW stored \in BOOLEAN, SetDestructionPin(r, new, stored)
        PROVE  LockInv'
    BY <2>4, <1>2 DEF SetDestructionPin
  <2> QED BY <1>9, <2>1, <2>2, <2>3, <2>4 DEF Serve
<1> QED BY <1>4, <1>5, <1>6, <1>7, <1>8, <1>9 DEF Next

\* The pauses of consecutive wrong PINs add up, for every base, every number of
\* free failures and every number of threads that try PINs.
THEOREM GuessingCosts == Spec => []GuessingIsSlow
<1>1. Init => LockInv
  BY TimesAssumption DEF Init, LockInv
<1>2. LockInv => GuessingIsSlow
  BY DEF LockInv, GuessingIsSlow
<1> QED BY <1>1, <1>2, TypeCorrect, NextLock, PTL DEF Spec

-----------------------------------------------------------------------------
\* What a step does to the tokens of the panel that are spent.
Spent(t) == t <= drawn /\ ~Live(panelSessions, t)

\* One token is still spent after a step.
LEMMA SpentStays ==
  ASSUME TypeOK, [Next]_vars, NEW t \in Token, Spent(t)
  PROVE  ~Live(panelSessions, t)'
<1>0. clock \in Nat /\ drawn \in Nat /\ t \in Nat
  BY TimesAssumption DEF TypeOK, Token
<1>1. DOMAIN panelSessions \subseteq Token /\ \A u \in DOMAIN panelSessions : panelSessions[u] \in Nat
  BY SessionsAre, TimesAssumption DEF TypeOK, Expiry
<1>2. CASE UNCHANGED panelSessions /\ clock' \in {clock, clock + 1}
  BY <1>0, <1>1, <1>2 DEF Spent, Live
<1>3. CASE panelSessions' = None
  BY <1>3 DEF None, Live
<1>4. ASSUME NEW u \in Token, panelSessions' = Drop(panelSessions, u), clock' = clock
      PROVE  ~Live(panelSessions, t)'
  BY <1>4 DEF Drop, Spent, Live
<1>5. ASSUME NEW u, u # t, NEW e, panelSessions' = Put(panelSessions, u, e), clock' = clock
      PROVE  ~Live(panelSessions, t)'
  BY <1>5 DEF Put, Spent, Live
<1>6. CASE UNCHANGED vars
  BY <1>6, <1>2 DEF vars
<1>7. CASE Start \/ Tick
  BY <1>7, <1>2 DEF Start, Tick
<1>8. CASE Stop
  BY <1>8, <1>3 DEF Stop
<1>9. ASSUME NEW current \in Pins, NEW new \in Pins, NEW stored \in BOOLEAN,
             ChangePin(current, new, stored)
      PROVE  ~Live(panelSessions, t)'
  BY <1>9, <1>2 DEF ChangePin
<1>10. ASSUME NEW r \in Requests, Receive(r) \/ \E op \in Ops : Send(r, op)
       PROVE  ~Live(panelSessions, t)'
  BY <1>10, <1>2 DEF Receive, Send
<1>11. ASSUME NEW r \in Requests, Serve(r) PROVE ~Live(panelSessions, t)'
  <2>1. ASSUME NEW p \in Pins, NEW stored \in BOOLEAN, Login(r, p, stored)
        PROVE  ~Live(panelSessions, t)'
    <3>1. CASE PinAccepted(p) /\ stored
      <4>1. panelSessions' = Put(panelSessions, drawn + 2, clock + SessionTtl) /\ clock' = clock
        BY <2>1, <3>1 DEF Login
      <4>2. drawn + 2 # t
        BY <1>0 DEF Spent
      <4> QED BY <4>1, <4>2, <1>5
    <3>2. CASE ~(PinAccepted(p) /\ stored)
      <4>1. UNCHANGED panelSessions /\ clock' = clock
        BY <2>1, <3>2 DEF Login
      <4> QED BY <4>1, <1>2
    <3> QED BY <3>1, <3>2
  <2>2. CASE CheckSession(r)
    <3> DEFINE u == req[r].token
    <3>1. clock' = clock /\ RenewOrRemove(u)
      BY <2>2 DEF CheckSession
    <3>2. CASE Live(panelSessions, u)
      <4>1. panelSessions' = Put(panelSessions, u, clock + SessionTtl) /\ u # t
        BY <3>1, <3>2 DEF RenewOrRemove, Spent
      <4> QED BY <3>1, <4>1, <1>5
    <3>3. CASE ~Live(panelSessions, u)
      <4>1. panelSessions' = Drop(panelSessions, u)
        BY <3>1, <3>3 DEF RenewOrRemove
      <4> QED BY <3>1, <4>1 DEF Drop, Spent, Live
    <3> QED BY <3>2, <3>3
  <2>3. CASE Logout(r)
    <3>1. panelSessions' = Drop(panelSessions, req[r].token) /\ clock' = clock
      BY <2>3 DEF Logout
    <3> QED BY <3>1 DEF Drop, Spent, Live
  <2>4. CASE Refresh(r)
    BY <2>4, <1>2 DEF Refresh
  <2>5. ASSUME NEW p \in Pins, NEW d \in Pins, NEW stored \in BOOLEAN, Destroy(r, p, d, stored)
        PROVE  ~Live(panelSessions, t)'
    BY <2>5, <1>2 DEF Destroy
  <2>6. ASSUME NEW new \in Pins, NEW stored \in BOOLEAN, SetDestructionPin(r, new, stored)
        PROVE  ~Live(panelSessions, t)'
    BY <2>6, <1>2 DEF SetDestructionPin
  <2> QED BY <1>11, <2>1, <2>2, <2>3, <2>4, <2>5, <2>6 DEF Serve
<1> QED BY <1>6, <1>7, <1>8, <1>9, <1>10, <1>11 DEF Next

\* A spent token never opens the panel again, whatever the other requests do.
THEOREM SpentTokensStaySpent == Spec => DeadTokensStayDead
<1>1. TypeOK /\ [Next]_vars =>
        [\A t \in Token : t <= drawn /\ ~Live(panelSessions, t) => ~Live(panelSessions, t)']_vars
  BY SpentStays DEF Spent
<1> QED BY <1>1, TypeCorrect, PTL DEF Spec, DeadTokensStayDead

-----------------------------------------------------------------------------
\* The page and its requests hold tokens of the panel, never one of AdminService,
\* so the PIN of destruction is set nowhere.
TokensApart ==
    /\ \A u \in DOMAIN adminSessions : u > 0 /\ u <= drawn
    /\ page <= drawn /\ page \notin DOMAIN adminSessions
    /\ \A r \in Requests : req[r].token <= drawn /\ req[r].token \notin DOMAIN adminSessions

NoDestructionPin == mem.destruction = NoPin /\ disk.destruction = NoPin

ApartInv == TokensApart /\ NoDestructionPin /\ DestructionIsNeverAuthorized

\* What no request, page or session of AdminService changes stays apart.
LEMMA ApartKept ==
  ASSUME ApartInv, UNCHANGED <<adminSessions, drawn, page>>, NoDestructionPin',
         \A r \in Requests : req'[r].token = req[r].token
                             /\ (req'[r].op = "destroy" => ~req'[r].ok)
  PROVE  ApartInv'
BY DEF ApartInv, TokensApart, DestructionIsNeverAuthorized

\* An answer to a request that is no destruction, or that refuses it, is harmless.
LEMMA ApartAnswer ==
  ASSUME TypeOK, ApartInv, NEW r \in Requests, NEW ok \in BOOLEAN, Answer(r, ok),
         req[r].op = "destroy" => ~ok
  PROVE  \A q \in Requests : req'[q].token = req[q].token
                             /\ (req'[q].op = "destroy" => ~req'[q].ok)
<1>1. req \in [Requests -> Request]
  BY DEF TypeOK, Request
<1> QED BY <1>1, AnswerKeeps DEF ApartInv, DestructionIsNeverAuthorized

\* Every step keeps apart who may destroy from who asks.
LEMMA NextApart == TypeOK /\ ApartInv /\ [Next]_vars => ApartInv'
<1> SUFFICES ASSUME TypeOK, ApartInv, [Next]_vars PROVE ApartInv'
  OBVIOUS
<1>0. /\ req \in [Requests -> Request] /\ mem \in Hashes /\ disk \in Hashes
      /\ drawn \in Nat /\ page \in Nat
      /\ DOMAIN adminSessions \subseteq Token /\ NoDestructionPin
  BY SessionsAre, TimesAssumption DEF TypeOK, Request, Hashes, ApartInv
<1>1. CASE UNCHANGED vars
  <2>1. NoDestructionPin' /\ req' = req
    BY <1>0, <1>1 DEF vars, NoDestructionPin
  <2> QED BY <1>1, <2>1, ApartKept DEF vars, ApartInv, DestructionIsNeverAuthorized
<1>2. CASE Start
  <2>1. NoDestructionPin'
    <3>1. CASE mem' = disk /\ disk' = disk
      BY <1>0, <3>1 DEF NoDestructionPin
    <3>2. ASSUME NEW p \in StrongPins, mem' = [disk EXCEPT !.admin = p], disk' = mem'
          PROVE  NoDestructionPin'
      BY <1>0, <3>2 DEF NoDestructionPin, Hashes
    <3> QED BY <1>2, <3>1, <3>2 DEF Start, Flush
  <2> QED BY <1>2, <2>1, ApartKept DEF Start, ApartInv, DestructionIsNeverAuthorized
<1>3. CASE Stop
  <2>1. NoDestructionPin'
    BY <1>0, <1>3 DEF Stop, NoDestructionPin
  <2>2. page' \in {0, page} /\ drawn' = drawn /\ req' = [r \in Requests |-> Idle]
        /\ DOMAIN adminSessions' = {}
    BY <1>3 DEF Stop, None
  <2>3. TokensApart'
    BY <1>0, <2>2 DEF TokensApart, ApartInv, Idle
  <2>4. DestructionIsNeverAuthorized'
    BY <2>2 DEF DestructionIsNeverAuthorized, Idle
  <2> QED BY <2>1, <2>3, <2>4 DEF ApartInv
<1>4. CASE Tick
  <2>1. NoDestructionPin'
    BY <1>0, <1>4 DEF Tick, NoDestructionPin, database
  <2> QED BY <1>4, <2>1, ApartKept DEF Tick, ApartInv, DestructionIsNeverAuthorized
<1>5. ASSUME NEW current \in Pins, NEW new \in Pins, NEW stored \in BOOLEAN,
             ChangePin(current, new, stored)
      PROVE  ApartInv'
  <2>1. NoDestructionPin'
    <3>1. CASE PinAccepted(current)
      <4>1. mem' = [mem EXCEPT !.admin = new] /\ disk' \in {mem', disk}
        BY <1>5, <3>1 DEF ChangePin, Flush
      <4> QED BY <1>0, <4>1 DEF NoDestructionPin, Hashes
    <3>2. CASE ~PinAccepted(current)
      BY <1>0, <1>5, <3>2 DEF ChangePin, NoDestructionPin, database
    <3> QED BY <3>1, <3>2
  <2> QED BY <1>5, <2>1, ApartKept DEF ChangePin, ApartInv, DestructionIsNeverAuthorized
<1>6. ASSUME NEW r \in Requests, Receive(r) PROVE ApartInv'
  <2>1. NoDestructionPin' /\ drawn' = drawn /\ adminSessions' = adminSessions
    BY <1>0, <1>6 DEF Receive, NoDestructionPin, database
  <2>2. page' \in {page, req[r].token, 0}
    BY <1>6 DEF Receive
  <2>3. \A q \in Requests : \/ req'[q] = Idle
                            \/ req'[q] = req[q]
                            \/ req'[q] = [req[q] EXCEPT !.heard = FALSE]
    BY <1>6 DEF Receive
  <2>4. \A q \in Requests : /\ req'[q].token \in {0, req[q].token}
                            /\ req'[q].op = "destroy" => ~req'[q].ok
    <3>1. SUFFICES ASSUME NEW q \in Requests
                   PROVE  /\ req'[q].token \in {0, req[q].token}
                          /\ req'[q].op = "destroy" => ~req'[q].ok
      OBVIOUS
    <3>2. req[q] \in Request /\ (req[q].op = "destroy" => ~req[q].ok)
      BY <1>0 DEF ApartInv, DestructionIsNeverAuthorized
    <3>3. CASE req'[q] = Idle
      BY <3>3 DEF Idle
    <3>4. CASE req'[q] = req[q]
      BY <3>2, <3>4
    <3>5. CASE req'[q] = [req[q] EXCEPT !.heard = FALSE]
      <4>1. /\ req'[q].token = req[q].token /\ req'[q].op = req[q].op
            /\ req'[q].ok = req[q].ok
        BY <3>2, <3>5 DEF Request
      <4> QED BY <3>2, <4>1
    <3> QED BY <2>3, <3>3, <3>4, <3>5
  <2>5. TokensApart'
    BY <1>0, <2>1, <2>2, <2>4 DEF TokensApart, ApartInv
  <2> QED BY <2>1, <2>4, <2>5 DEF ApartInv, DestructionIsNeverAuthorized
<1>7. ASSUME NEW r \in Requests, NEW op \in Ops, Send(r, op) PROVE ApartInv'
  <2>1. NoDestructionPin' /\ drawn' = drawn /\ adminSessions' = adminSessions /\ page' = page
    BY <1>0, <1>7 DEF Send, NoDestructionPin, database
  <2>2. \A q \in Requests : \/ req'[q] = req[q]
                            \/ req'[q].token = page /\ ~req'[q].ok
    BY <1>0, <1>7 DEF Send
  <2>3. TokensApart'
    BY <1>0, <2>1, <2>2 DEF TokensApart, ApartInv
  <2>4. DestructionIsNeverAuthorized'
    BY <2>2 DEF ApartInv, DestructionIsNeverAuthorized
  <2> QED BY <2>1, <2>3, <2>4 DEF ApartInv
<1>8. ASSUME NEW r \in Requests, NEW p \in Pins, NEW stored \in BOOLEAN, Login(r, p, stored)
      PROVE  ApartInv'
  <2>1. NoDestructionPin' /\ page' = page /\ req[r].op = "login"
    BY <1>0, <1>8 DEF Login, Flush, NoDestructionPin
  <2>2. CASE PinAccepted(p) /\ stored
    <3>1. /\ DOMAIN adminSessions' = DOMAIN adminSessions \cup {drawn + 1}
          /\ drawn' = drawn + 2
          /\ req' = [req EXCEPT ![r].pc = "answered", ![r].ok = TRUE, ![r].token = drawn + 2]
      BY <1>8, <2>2 DEF Login, Put
    <3>2. drawn + 2 \in 0..MaxToken
      BY <1>0, <1>8, TimesAssumption DEF Login
    <3>3. /\ req'[r].op = "login" /\ req'[r].token = drawn + 2
          /\ \A q \in Requests \ {r} : req'[q] = req[q]
      BY <1>0, <2>1, <3>1, <3>2, TokenAnswerKeeps
    <3>4. \A q \in Requests : req[q].token \in Nat
      BY <1>0, TimesAssumption DEF Request
    <3>5. \A u \in DOMAIN adminSessions : u \in Nat
      BY <1>0 DEF Token
    <3>6. TokensApart'
      BY <1>0, <2>1, <3>1, <3>3, <3>4, <3>5 DEF TokensApart, ApartInv
    <3>7. DestructionIsNeverAuthorized'
      BY <3>3 DEF ApartInv, DestructionIsNeverAuthorized
    <3> QED BY <2>1, <3>6, <3>7 DEF ApartInv
  <2>3. CASE PinAccepted(p) /\ ~stored
    <3>1. /\ DOMAIN adminSessions' = DOMAIN adminSessions \cup {drawn + 1}
          /\ drawn' = drawn + 1
          /\ Answer(r, FALSE)
      BY <1>8, <2>3 DEF Login, Put
    <3>2. \A q \in Requests : req'[q].token = req[q].token
                              /\ (req'[q].op = "destroy" => ~req'[q].ok)
      BY <3>1, ApartAnswer
    <3>3. \A q \in Requests : req[q].token \in Nat
      BY <1>0, TimesAssumption DEF Request
    <3>4. \A u \in DOMAIN adminSessions : u \in Nat
      BY <1>0 DEF Token
    <3>5. TokensApart'
      BY <1>0, <2>1, <3>1, <3>2, <3>3, <3>4 DEF TokensApart, ApartInv
    <3> QED BY <2>1, <3>2, <3>5 DEF ApartInv, DestructionIsNeverAuthorized
  <2>4. CASE ~PinAccepted(p)
    <3>1. Answer(r, FALSE) /\ UNCHANGED <<adminSessions, drawn, page>>
      BY <1>8, <2>4 DEF Login
    <3> QED BY <2>1, <3>1, ApartAnswer, ApartKept
  <2> QED BY <2>2, <2>3, <2>4
<1>9. ASSUME NEW r \in Requests, CheckSession(r) PROVE ApartInv'
  <2>1. NoDestructionPin' /\ UNCHANGED <<adminSessions, drawn, page>>
    BY <1>0, <1>9 DEF CheckSession, NoDestructionPin, database
  <2>2. CASE req' = [req EXCEPT ![r].pc = "checked"]
    <3>1. \A q \in Requests : /\ req'[q].token = req[q].token /\ req'[q].op = req[q].op
                              /\ req'[q].ok = req[q].ok
      BY <1>0, <2>2 DEF Request
    <3> QED BY <2>1, <3>1, ApartKept DEF ApartInv, DestructionIsNeverAuthorized
  <2>3. CASE Answer(r, FALSE)
    BY <2>1, <2>3, ApartAnswer, ApartKept
  <2> QED BY <1>9, <2>2, <2>3 DEF CheckSession
<1>10. ASSUME NEW r \in Requests, Logout(r) \/ Refresh(r) PROVE ApartInv'
  <2>1. /\ NoDestructionPin' /\ UNCHANGED <<adminSessions, drawn, page>>
        /\ Answer(r, TRUE) /\ req[r].op # "destroy"
    BY <1>0, <1>10 DEF Logout, Refresh, NoDestructionPin, database
  <2> QED BY <2>1, ApartAnswer, ApartKept
<1>11. ASSUME NEW r \in Requests, NEW p \in Pins, NEW d \in Pins, NEW stored \in BOOLEAN,
              Destroy(r, p, d, stored)
       PROVE  ApartInv'
  <2>1. /\ NoDestructionPin' /\ UNCHANGED <<adminSessions, drawn, page>>
        /\ Answer(r, FALSE)
    BY <1>0, <1>11 DEF Destroy, Flush, NoDestructionPin
  <2> QED BY <2>1, ApartAnswer, ApartKept
<1>12. ASSUME NEW r \in Requests, NEW new \in Pins, NEW stored \in BOOLEAN,
              SetDestructionPin(r, new, stored)
       PROVE  ApartInv'
  <2>1. ~ValidateSession(req[r].token)
    BY DEF ValidateSession, Live, ApartInv, TokensApart
  <2>2. /\ NoDestructionPin' /\ UNCHANGED <<adminSessions, drawn, page>>
        /\ Answer(r, FALSE)
    BY <1>0, <1>12, <2>1 DEF SetDestructionPin, Flush, NoDestructionPin
  <2> QED BY <2>2, ApartAnswer, ApartKept
<1> QED BY <1>1, <1>2, <1>3, <1>4, <1>5, <1>6, <1>7, <1>8, <1>9, <1>10, <1>11, <1>12
        DEF Next, Serve

\* No request to destroy is ever granted, for any PINs and any number of threads.
THEOREM NothingIsDestroyed == Spec => []DestructionIsNeverAuthorized
<1>1. Init => ApartInv
  <2> SUFFICES ASSUME Init PROVE ApartInv
    OBVIOUS
  <2>1. page = 0 /\ drawn = 0 /\ DOMAIN adminSessions = {} /\ req = [r \in Requests |-> Idle]
    BY DEF Init, None
  <2>2. NoDestructionPin
    BY DEF Init, NoDestructionPin
  <2> QED BY <2>1, <2>2 DEF ApartInv, TokensApart, DestructionIsNeverAuthorized, Idle
<1>2. ApartInv => DestructionIsNeverAuthorized
  BY DEF ApartInv
<1> QED BY <1>1, <1>2, TypeCorrect, NextApart, PTL DEF Spec

-----------------------------------------------------------------------------
\* The calendar.

\* The days of the era before a year of the era, which begins in March.
Before(y) == 365 * y + y \div 4 - y \div 100

\* Within a century of the era, the corrections of YearOfEra leave whole years.
LEMMA Century ==
  ASSUME NEW b \in 0..3, NEW doe \in Int, 36524 * b <= doe, doe < 36524 * b + 36524,
         NEW a \in Int, 1460 * a <= doe, doe <= 1460 * a + 1459,
         NEW y \in Int, 365 * y <= doe - a + b, doe - a + b <= 365 * y + 364
  PROVE /\ y \in 100 * b .. 100 * b + 99
        /\ 365 * y + y \div 4 - b <= doe
        /\ y # 100 * b + 99 => doe < 365 * (y + 1) + (y + 1) \div 4 - b
<1>1. CASE b = 0
  BY <1>1
<1>2. CASE b = 1
  BY <1>2
<1>3. CASE b = 2
  BY <1>3
<1>4. CASE b = 3
  BY <1>4
<1> QED BY <1>1, <1>2, <1>3, <1>4

\* The year of the era that the code computes by division is the one in which the
\* day falls: it begins at that day or before and the next one begins after it.
LEMMA YearOfDay ==
  ASSUME NEW doe \in Nat, doe < 146097
  PROVE LET y == Date!YearOfEra(doe)
        IN /\ y \in Nat /\ y <= 399
           /\ Before(y) <= doe
           /\ IF y = 399 THEN doe <= 146096 ELSE doe < Before(y + 1)
<1> DEFINE a == doe \div 1460
<1> DEFINE b == doe \div 36524
<1> DEFINE c == doe \div 146096
<1> DEFINE y == Date!YearOfEra(doe)
<1>1. /\ a \in Int /\ 1460 * a <= doe /\ doe <= 1460 * a + 1459
      /\ b \in 0..4 /\ 36524 * b <= doe /\ doe < 36524 * b + 36524
      /\ c \in 0..1 /\ (c = 1 <=> doe = 146096)
      /\ (b = 4 <=> doe = 146096)
  OBVIOUS
<1>2. y \in Int /\ 365 * y <= doe - a + b - c /\ doe - a + b - c <= 365 * y + 364
  <2>1. y = (doe - a + b - c) \div 365
    BY DEF Date!YearOfEra
  <2> HIDE DEF a, b, c, y
  <2> QED BY <1>1, <2>1
<1>3. CASE doe = 146096
  BY <1>3 DEF Date!YearOfEra, Before
<1>4. CASE doe # 146096
  <2> HIDE DEF a, b, c, y
  <2>1. b \in 0..3 /\ c = 0
    BY <1>1, <1>4
  <2>2. /\ y \in 100 * b .. 100 * b + 99
        /\ 365 * y + y \div 4 - b <= doe
        /\ y # 100 * b + 99 => doe < 365 * (y + 1) + (y + 1) \div 4 - b
    BY <1>1, <1>2, <2>1, Century
  <2>3. y \div 100 = b /\ y \in Nat /\ y <= 399
    BY <2>1, <2>2
  <2>4. y # 100 * b + 99 => (y + 1) \div 100 = b
    BY <2>1, <2>2
  <2>5. y = 100 * b + 99 /\ y # 399 => doe < Before(y + 1)
    <3> SUFFICES ASSUME y = 100 * b + 99 , y # 399 PROVE doe < Before(y + 1)
      OBVIOUS
    <3>1. (y + 1) \div 100 = b + 1 /\ (y + 1) \div 4 = 25 * b + 25
      BY <2>1
    <3> QED BY <1>1, <2>1, <3>1 DEF Before
  <2>6. Before(y) <= doe
    BY <2>1, <2>2, <2>3 DEF Before
  <2>7. y # 399 => doe < Before(y + 1)
    BY <2>1, <2>2, <2>3, <2>4, <2>5 DEF Before
  <2> QED BY <1>4, <2>3, <2>6, <2>7 DEF y
<1> QED BY <1>3, <1>4

\* The month and the day of the month of a day of a year that begins in March.
Month(doy) == (5 * doy + 2) \div 153
Dom(doy) == doy - (153 * Month(doy) + 2) \div 5 + 1
Dated(era, y, doy) ==
  LET m == IF Month(doy) < 10 THEN Month(doy) + 3 ELSE Month(doy) - 9
  IN  [year |-> y + 400 * era + (IF m <= 2 THEN 1 ELSE 0), month |-> m,
       day |-> Dom(doy)]

\* The computed date, from the era, the year of the era and the day of the year.
LEMMA CivilParts ==
  ASSUME NEW d \in Nat, NEW era, NEW doe, era = (d + 719468) \div 146097,
         doe = (d + 719468) % 146097
  PROVE  Date!Civil(d) = Dated(era, Date!YearOfEra(doe), doe - Before(Date!YearOfEra(doe)))
BY DEF Date!Civil, Dated, Month, Dom, Before

\* The months of such a year: the eleventh is February of a leap year.
Length(k) == CASE k = 11 -> 29 [] k \in {1, 3, 6, 8} -> 30 [] OTHER -> 31

\* A day of the year later it is the next day of the month or the first of the next
\* one, by the lengths above.
LEMMA Months ==
  ASSUME NEW doy \in Nat, doy <= 365
  PROVE  /\ Month(doy) \in 0..11 /\ Dom(doy) \in 1..Length(Month(doy))
         /\ doy < 365 =>
              IF Dom(doy) < Length(Month(doy))
              THEN Month(doy + 1) = Month(doy) /\ Dom(doy + 1) = Dom(doy) + 1
              ELSE Month(doy + 1) = Month(doy) + 1 /\ Dom(doy + 1) = 1
         /\ doy >= 337 => Month(doy) = 11 /\ Dom(doy) = doy - 336
         /\ doy < 337 => Month(doy) < 11
<1> DEFINE m == Month(doy)
<1> DEFINE n == Month(doy + 1)
<1>1. m \in 0..11 /\ 153 * m <= 5 * doy + 2 /\ 5 * doy + 2 <= 153 * m + 152
  BY DEF Month
<1>2. n \in Int /\ 153 * n <= 5 * doy + 7 /\ 5 * doy + 7 <= 153 * n + 152
  BY DEF Month
<1>3. /\ Dom(doy) = doy - (153 * m + 2) \div 5 + 1
      /\ Dom(doy + 1) = doy + 2 - (153 * n + 2) \div 5
  BY <1>1, <1>2 DEF Dom
<1> HIDE DEF m, n
<1>4. \/ m = 0 \/ m = 1 \/ m = 2 \/ m = 3 \/ m = 4 \/ m = 5 \/ m = 6 \/ m = 7 \/ m = 8
      \/ m = 9 \/ m = 10 \/ m = 11
  BY <1>1
<1>5. n = m \/ n = m + 1
  BY <1>1, <1>2
<1>6. Dom(doy) \in 1..Length(m)
  BY <1>1, <1>3, <1>4 DEF Length
<1>7. doy < 365 /\ Dom(doy) < Length(m) => n = m /\ Dom(doy + 1) = Dom(doy) + 1
  BY <1>1, <1>2, <1>3, <1>4, <1>5 DEF Length
<1>8. doy < 365 /\ ~(Dom(doy) < Length(m)) => n = m + 1 /\ Dom(doy + 1) = 1
  BY <1>1, <1>2, <1>3, <1>4, <1>5 DEF Length
<1>9. /\ doy >= 337 => m = 11 /\ Dom(doy) = doy - 336
      /\ doy < 337 => m < 11
  BY <1>1, <1>3, <1>4
<1> QED BY <1>1, <1>6, <1>7, <1>8, <1>9 DEF m, n

\* A year of the formula is a common year or one with a leap day at its end.
LEMMA LastDay ==
  ASSUME NEW y \in Nat, y <= 399
  PROVE  /\ Before(y + 1) - Before(y) = IF (y + 1) % 4 = 0 /\ (y + 1) % 100 # 0 THEN 366 ELSE 365
         /\ y = 399 => Before(y) = 145731
BY DEF Before

\* The calendar on the wall turns over as the formula does.
LEMMA SameYear ==
  ASSUME NEW era \in Int, NEW y \in Nat, y <= 399, NEW doy \in Nat,
         doy < (IF y = 399 \/ ((y + 1) % 4 = 0 /\ (y + 1) % 100 # 0) THEN 365 ELSE 364)
  PROVE  Date!Tomorrow(Dated(era, y, doy)) = Dated(era, y, doy + 1)
<1> DEFINE mp == Month(doy)
<1> DEFINE c == Dated(era, y, doy)
<1> DEFINE n == Dated(era, y, doy + 1)
<1> DEFINE m == IF mp < 10 THEN mp + 3 ELSE mp - 9
<1>1. /\ mp \in 0..11 /\ Dom(doy) \in 1..Length(mp)
      /\ IF Dom(doy) < Length(mp)
         THEN Month(doy + 1) = mp /\ Dom(doy + 1) = Dom(doy) + 1
         ELSE Month(doy + 1) = mp + 1 /\ Dom(doy + 1) = 1
      /\ doy >= 337 => mp = 11 /\ Dom(doy) = doy - 336
      /\ doy < 337 => mp < 11
  BY Months
<1>2. /\ c.year = y + 400 * era + (IF m <= 2 THEN 1 ELSE 0)
      /\ c.month = m /\ c.day = Dom(doy)
      /\ c = [year |-> c.year, month |-> c.month, day |-> c.day]
  BY DEF Dated
<1>3. mp = 11 => Date!DaysIn(c.year, c.month)
                   = IF y = 399 \/ ((y + 1) % 4 = 0 /\ (y + 1) % 100 # 0) THEN 29 ELSE 28
  <2> SUFFICES ASSUME mp = 11
               PROVE  Date!DaysIn(c.year, c.month)
                        = IF y = 399 \/ ((y + 1) % 4 = 0 /\ (y + 1) % 100 # 0) THEN 29 ELSE 28
    OBVIOUS
  <2>1. c.month = 2 /\ c.year = y + 1 + 400 * era
    BY <1>1, <1>2
  <2> DEFINE k == y + 1 + 400 * era
  <2>2. Date!Leap(k) <=> y = 399 \/ ((y + 1) % 4 = 0 /\ (y + 1) % 100 # 0)
    BY DEF Date!Leap
  <2> HIDE DEF k
  <2> QED BY <2>1, <2>2 DEF Date!DaysIn, k
<1>4. mp # 11 => Date!DaysIn(c.year, c.month) = Length(mp)
  BY <1>1, <1>2 DEF Date!DaysIn, Length
<1>5. n = [year |-> y + 400 * era + (IF n.month <= 2 THEN 1 ELSE 0),
           month |-> n.month, day |-> Dom(doy + 1)]
      /\ n.month = IF Month(doy + 1) < 10 THEN Month(doy + 1) + 3 ELSE Month(doy + 1) - 9
  BY DEF Dated
<1> HIDE DEF mp, m, c, n
<1>6. mp = 11 => Date!Tomorrow(c) = n
  <2> SUFFICES ASSUME mp = 11 PROVE Date!Tomorrow(c) = n
    OBVIOUS
  <2>1. c.day < Date!DaysIn(c.year, c.month) /\ Dom(doy) < Length(mp)
    BY <1>1, <1>2, <1>3 DEF Length
  <2>2. n.month = c.month
    BY <1>1, <1>2, <1>5, <2>1 DEF m
  <2>3. n = [c EXCEPT !.day = c.day + 1]
    BY <1>1, <1>2, <1>5, <2>1, <2>2
  <2> QED BY <2>1, <2>3 DEF Date!Tomorrow
<1>7. mp # 11 => Date!Tomorrow(c) = n
  <2> SUFFICES ASSUME mp # 11 PROVE Date!Tomorrow(c) = n
    OBVIOUS
  <2>1. CASE Dom(doy) < Length(mp)
    <3>1. n.month = c.month
      BY <1>1, <1>2, <1>5, <2>1 DEF m
    <3>2. n = [c EXCEPT !.day = c.day + 1]
      BY <1>1, <1>2, <1>5, <2>1, <3>1
    <3> QED BY <1>2, <1>4, <2>1, <3>2 DEF Date!Tomorrow
  <2>2. CASE ~(Dom(doy) < Length(mp)) /\ mp # 9
    <3>1. n.month = c.month + 1 /\ c.month < 12 /\ (n.month <= 2 <=> c.month <= 2)
      BY <1>1, <1>2, <1>5, <2>2 DEF m
    <3>2. n = [year |-> c.year, month |-> c.month + 1, day |-> 1]
      BY <1>1, <1>2, <1>5, <2>2, <3>1
    <3>3. ~(c.day < Date!DaysIn(c.year, c.month))
      BY <1>2, <1>4, <2>2
    <3> QED BY <3>1, <3>2, <3>3 DEF Date!Tomorrow
  <2>3. CASE ~(Dom(doy) < Length(mp)) /\ mp = 9
    <3>1. c.month = 12 /\ n.month = 1 /\ n = [year |-> c.year + 1, month |-> 1, day |-> 1]
      BY <1>1, <1>2, <1>5, <2>3 DEF m
    <3>2. ~(c.day < Date!DaysIn(c.year, c.month))
      BY <1>2, <1>4, <2>3
    <3> QED BY <3>1, <3>2 DEF Date!Tomorrow
  <2> QED BY <2>1, <2>2, <2>3
<1> QED BY <1>6, <1>7 DEF c, n

\* On the last day of February the next year of the formula begins.
LEMMA YearEnd ==
  ASSUME NEW era \in Int, NEW y \in Nat, y <= 399,
         NEW doy, doy = IF y = 399 \/ ((y + 1) % 4 = 0 /\ (y + 1) % 100 # 0) THEN 365 ELSE 364
  PROVE  Date!Tomorrow(Dated(era, y, doy))
           = IF y = 399 THEN Dated(era + 1, 0, 0) ELSE Dated(era, y + 1, 0)
<1> DEFINE c == Dated(era, y, doy)
<1>1. doy \in {364, 365} /\ Month(doy) = 11 /\ Dom(doy) = doy - 336
  BY Months
<1>2. Month(0) = 0 /\ Dom(0) = 1
  BY DEF Dom, Month
<1>3. c.month = 2 /\ c.year = y + 1 + 400 * era /\ c.day = doy - 336
  BY <1>1 DEF Dated
<1> DEFINE k == y + 1 + 400 * era
<1>4. Date!Leap(k) <=> y = 399 \/ ((y + 1) % 4 = 0 /\ (y + 1) % 100 # 0)
  BY DEF Date!Leap
<1>5. /\ Dated(era + 1, 0, 0) = [year |-> 400 * (era + 1), month |-> 3, day |-> 1]
      /\ Dated(era, y + 1, 0) = [year |-> y + 1 + 400 * era, month |-> 3, day |-> 1]
  BY <1>2 DEF Dated
<1> HIDE DEF c, k
<1>6. Date!DaysIn(c.year, c.month) = doy - 336
  BY <1>3, <1>4 DEF Date!DaysIn, k
<1>7. Date!Tomorrow(c) = [year |-> y + 1 + 400 * era, month |-> 3, day |-> 1]
  BY <1>1, <1>3, <1>6 DEF Date!Tomorrow
<1> QED BY <1>5, <1>7 DEF c

\* A day later the computed date is the next one on the wall.
LEMMA CivilTomorrow ==
  ASSUME NEW d \in Nat
  PROVE  Date!Civil(d + 1) = Date!Tomorrow(Date!Civil(d))
<1> DEFINE z == d + 719468
<1> DEFINE era == z \div 146097
<1> DEFINE doe == z % 146097
<1> DEFINE y == Date!YearOfEra(doe)
<1> DEFINE doy == doe - Before(y)
<1> DEFINE last == IF y = 399 \/ ((y + 1) % 4 = 0 /\ (y + 1) % 100 # 0) THEN 365 ELSE 364
<1>1. era \in Int /\ doe \in Nat /\ doe < 146097 /\ z = 146097 * era + doe
  OBVIOUS
<1>2. Date!Civil(d) = Dated(era, y, doy)
  BY CivilParts
<1> HIDE DEF doe, era
<1>3. /\ y \in Nat /\ y <= 399 /\ Before(y) <= doe
      /\ IF y = 399 THEN doe <= 146096 ELSE doe < Before(y + 1)
  BY <1>1, YearOfDay
<1> HIDE DEF y
<1>4. /\ Before(y) \in Nat /\ Before(y + 1) \in Nat
      /\ y # 399 => Before(y + 1) = Before(y) + last + 1
      /\ y = 399 => Before(y) = 145731
  BY <1>3, LastDay DEF Before
<1> DEFINE eraN == (d + 1 + 719468) \div 146097
<1> DEFINE doeN == (d + 1 + 719468) % 146097
<1> DEFINE yN == Date!YearOfEra(doeN)
<1>5. Date!Civil(d + 1) = Dated(eraN, yN, doeN - Before(yN))
  BY CivilParts
<1>6. IF doe = 146096 THEN eraN = era + 1 /\ doeN = 0 ELSE eraN = era /\ doeN = doe + 1
  BY <1>1
<1> HIDE DEF eraN, doeN
<1>7. /\ doeN \in Nat /\ doeN < 146097
  BY <1>1, <1>6
<1>8. /\ yN \in Nat /\ yN <= 399 /\ Before(yN) <= doeN
      /\ IF yN = 399 THEN doeN <= 146096 ELSE doeN < Before(yN + 1)
  BY <1>7, YearOfDay
<1> HIDE DEF yN
<1>9. CASE doe = 146096
  <2>1. y = 399 /\ doy = 365
    BY <1>3, <1>4, <1>9, LastDay DEF Before
  <2>2. yN = 0 /\ Before(yN) = 0
    BY <1>6, <1>8, <1>9 DEF Before
  <2> QED BY <1>1, <1>2, <1>3, <1>5, <1>6, <1>9, <2>1, <2>2, YearEnd
<1>10. CASE doe # 146096 /\ doy < last
  <2>1. yN = y
    BY <1>1, <1>3, <1>4, <1>6, <1>8, <1>10 DEF Before
  <2>2. doy \in Nat /\ doeN - Before(yN) = doy + 1
    BY <1>1, <1>3, <1>4, <1>6, <1>10, <2>1
  <2> HIDE DEF doy
  <2> QED BY <1>1, <1>2, <1>3, <1>5, <1>6, <1>10, <2>1, <2>2, SameYear
<1>11. CASE doe # 146096 /\ ~(doy < last)
  <2>1. y # 399 /\ doy = last
    BY <1>1, <1>3, <1>4, <1>11
  <2>2. yN = y + 1 /\ doeN = Before(yN)
    BY <1>1, <1>3, <1>4, <1>6, <1>8, <1>11, <2>1 DEF Before
  <2>3. doeN - Before(yN) = 0
    BY <1>7, <2>2
  <2> HIDE DEF doy
  <2> QED BY <1>1, <1>2, <1>3, <1>5, <1>6, <1>11, <2>1, <2>2, <2>3, YearEnd
<1> QED BY <1>9, <1>10, <1>11

\* The count of days begins on the first of January 1970.
LEMMA CivilEpoch == Date!Civil(0) = [year |-> 1970, month |-> 1, day |-> 1]
<1>1. 719468 \div 146097 = 4 /\ 719468 % 146097 = 135080
  OBVIOUS
<1>2. Date!YearOfEra(135080) = 369 /\ 135080 - Before(369) = 306
  BY DEF Date!YearOfEra, Before
<1>3. Date!Civil(0) = Dated(4, 369, 306)
  BY <1>1, <1>2, CivilParts
<1>4. Month(306) = 10 /\ Dom(306) = 1
  BY DEF Month, Dom
<1> QED BY <1>3, <1>4 DEF Dated

\* The computed date has a month, a day of a month and a year no further away than
\* common years could bring it.
LEMMA CivilType ==
  ASSUME NEW d \in Nat
  PROVE  Date!Civil(d) \in [year : 1970..(1970 + d \div 365), month : 1..12, day : 1..31]
<1> DEFINE z == d + 719468
<1> DEFINE era == z \div 146097
<1> DEFINE doe == z % 146097
<1> DEFINE y == Date!YearOfEra(doe)
<1> DEFINE doy == doe - Before(y)
<1> DEFINE c == Date!Civil(d)
<1>1. era \in Int /\ doe \in Nat /\ doe < 146097 /\ z = 146097 * era + doe
  OBVIOUS
<1>2. c = Dated(era, y, doy)
  BY CivilParts
<1> HIDE DEF doe, era
<1>3. /\ y \in Nat /\ y <= 399 /\ Before(y) <= doe
      /\ IF y = 399 THEN doe <= 146096 ELSE doe < Before(y + 1)
  BY <1>1, YearOfDay
<1> HIDE DEF y
<1>4. doy \in Nat /\ doy <= 365
  BY <1>1, <1>3, LastDay DEF Before
<1>5. doe = 365 * y + y \div 4 - y \div 100 + doy
  BY <1>1, <1>3 DEF Before
<1> HIDE DEF doy
<1>6. Month(doy) \in 0..11 /\ Dom(doy) \in 1..31 /\ (Month(doy) >= 10 <=> doy >= 306)
  <2>1. Month(doy) >= 10 <=> doy >= 306
    BY <1>4 DEF Month
  <2>2. Length(Month(doy)) \in {29, 30, 31}
    BY DEF Length
  <2>3. Month(doy) \in 0..11 /\ Dom(doy) \in 1..Length(Month(doy))
    BY <1>4, Months
  <2>4. Dom(doy) \in 1..31
    BY <2>2, <2>3
  <2> QED BY <2>1, <2>3, <2>4
<1>7. /\ c = [year |-> c.year, month |-> c.month, day |-> c.day]
      /\ c.month \in 1..12 /\ c.day \in 1..31
      /\ c.year = y + 400 * era + (IF doy >= 306 THEN 1 ELSE 0)
  BY <1>1, <1>2, <1>3, <1>6 DEF Dated
<1> HIDE DEF c
<1>8. era >= 4 /\ (era = 4 => doe >= 135080)
  BY <1>1
<1>9. era = 4 => y >= 369 /\ (y = 369 => doy >= 306)
  BY <1>3, <1>4, <1>5, <1>8
<1>10. c.year >= 1970 /\ c.year \in Int
  BY <1>1, <1>3, <1>4, <1>7, <1>8, <1>9
<1>11. 365 * (c.year - 1970) <= d
  BY <1>1, <1>3, <1>4, <1>5, <1>7, <1>8, <1>9
<1>12. c.year - 1970 <= d \div 365
  BY <1>10, <1>11
<1> QED BY <1>7, <1>10, <1>12 DEF c

\* The computed date and the one on the wall never part.
LEMMA DateInvariant ==
  ASSUME Date!Limits
  PROVE  Date!Spec => [](day \in 0..MaxDay /\ Date!DatesAreGregorian)
<1>1. Date!Init => day \in 0..MaxDay /\ Date!DatesAreGregorian
  BY CivilEpoch DEF Date!Init, Date!Limits, Date!DatesAreGregorian
<1>2. (day \in 0..MaxDay /\ Date!DatesAreGregorian) /\ [Date!Next]_Date!vars
        => (day \in 0..MaxDay /\ Date!DatesAreGregorian)'
  <2> SUFFICES ASSUME day \in 0..MaxDay, Date!Civil(day) = date, [Date!Next]_Date!vars
               PROVE  day' \in 0..MaxDay /\ Date!Civil(day') = date'
    BY DEF Date!DatesAreGregorian
  <2>1. CASE Date!Midnight
    BY <2>1, CivilTomorrow DEF Date!Midnight, Date!Limits
  <2>2. CASE UNCHANGED Date!vars
    BY <2>2 DEF Date!vars
  <2> QED BY <2>1, <2>2 DEF Date!Next
<1> QED BY <1>1, <1>2, PTL DEF Date!Spec

\* For every day since 1970 the date computed by hand is the one of the Gregorian
\* calendar.
THEOREM CivilIsGregorian == ASSUME Date!Limits PROVE Date!Spec => []Date!DatesAreGregorian
BY DateInvariant, PTL

\* The calendar keeps its types for every bound on the days.
THEOREM DateTypes == ASSUME Date!Limits PROVE Date!Spec => []Date!TypeOK
<1>1. day \in 0..MaxDay /\ Date!DatesAreGregorian => Date!TypeOK
  <2> SUFFICES ASSUME day \in 0..MaxDay, Date!Civil(day) = date
               PROVE  date \in [year : 1970..(1970 + MaxDay \div 365), month : 1..12, day : 1..31]
    BY DEF Date!DatesAreGregorian, Date!TypeOK
  <2>1. day \in Nat /\ date \in [year : 1970..(1970 + day \div 365), month : 1..12, day : 1..31]
    BY CivilType DEF Date!Limits
  <2>2. day \div 365 <= MaxDay \div 365 /\ day \div 365 \in Nat /\ MaxDay \div 365 \in Nat
    BY DEF Date!Limits
  <2>3. 1970..(1970 + day \div 365) \subseteq 1970..(1970 + MaxDay \div 365)
    BY <2>2
  <2> QED BY <2>1, <2>3
<1> QED BY <1>1, DateInvariant, PTL

-----------------------------------------------------------------------------
\* The desktop application, for any users, roles and PINs.

Account == [pin : Pins, enabled : BOOLEAN]

\* Who writes what: one of the tables, or the lock and the handle together.

LEMMA TableSet ==
  ASSUME NEW t \in Desk!Table, NEW u \in Users, NEW rec \in Account
  PROVE  [t EXCEPT ![u] = rec] \in Desk!Table
BY DEF Desk!Table, Account

LEMMA EditedType ==
  ASSUME Desk!TypeOK, NEW m, NEW u \in Users, NEW p \in Pins
  PROVE  Desk!Edited(m, u, p) \in Desk!Table
<1>0. copy \in Desk!Table
  BY DEF Desk!TypeOK
<1>1. Desk!Added(u, p) \in Desk!Table
  BY <1>0, TableSet DEF Desk!Added, Account
<1>2. Desk!Repinned(u, p) \in Desk!Table
  <2>1. CASE copy[u] = NoUser
    BY <1>0, <2>1 DEF Desk!Repinned
  <2>2. CASE copy[u] # NoUser
    <3> DEFINE rec == [copy[u] EXCEPT !.pin = p]
    <3>1. copy[u] \in Account
      BY <1>0, <2>2 DEF Desk!Table, Account
    <3>2. rec \in Account
      BY <3>1 DEF Account
    <3>3. Desk!Repinned(u, p) = [copy EXCEPT ![u] = rec]
      BY <2>2 DEF Desk!Repinned
    <3> HIDE DEF rec
    <3> QED BY <1>0, <3>2, <3>3, TableSet
  <2> QED BY <2>1, <2>2
<1> QED BY <1>0, <1>1, <1>2 DEF Desk!Edited

LEMMA ToggledType ==
  ASSUME Desk!TypeOK, NEW u \in Users, copy[u] # NoUser
  PROVE  Desk!Toggled(u) \in Desk!Table
<1> DEFINE rec == [copy[u] EXCEPT !.enabled = ~copy[u].enabled]
<1>1. copy \in Desk!Table /\ copy[u] \in Account
  BY DEF Desk!TypeOK, Desk!Table, Account
<1>2. rec \in Account
  BY <1>1 DEF Account
<1>3. Desk!Toggled(u) = [copy EXCEPT ![u] = rec]
  BY DEF Desk!Toggled
<1> HIDE DEF rec
<1> QED BY <1>1, <1>2, <1>3, TableSet

LEMMA FlushType ==
  ASSUME Desk!TypeOK, NEW users \in Desk!Table, NEW mode, NEW kept \in BOOLEAN,
         Desk!Flush(users, mode, kept)
  PROVE  file' \in BOOLEAN /\ store' \in Desk!Table
BY DEF Desk!TypeOK, Desk!Flush

\* Opening beside the handle in use keeps the lock with the writer.
LEMMA OpenVaultType ==
  ASSUME Desk!TypeOK, Desk!OpenVault
  PROVE  /\ handle' \in {"none", "ro", "rw"} /\ lock' \in {"free", "service", "app"}
         /\ (lock' = "app") = (handle' = "rw")
BY DEF Desk!TypeOK, Desk!OpenVault

LEMMA EndsType ==
  ASSUME Desk!TypeOK, Desk!Ends
  PROVE  /\ on' \in BOOLEAN /\ ita' \in BOOLEAN
         /\ handle' \in {"none", "ro", "rw"} /\ lock' \in {"free", "service", "app"}
         /\ (lock' = "app") = (handle' = "rw")
         /\ copy' \in Desk!Table /\ who' \in Users \cup {NoUser}
         /\ screen' \in Desk!Screens /\ modal' \in Desk!Dialogs \cup {"none"}
BY DEF Desk!TypeOK, Desk!Ends, Desk!Empty, Desk!Table, Desk!Screens, Desk!Dialogs

\* What the screen and the dialog can be after a frame.
LEMMA FrameType ==
  ASSUME Desk!TypeOK
  PROVE  /\ Desk!Shown \in Desk!Screens
         /\ \A m \in Desk!Dialogs \cup {"none"} : Desk!Leaves(m) \in {"none", "picker"}
         /\ {"none", "picker"} \subseteq Desk!Dialogs \cup {"none"}
BY DEF Desk!TypeOK, Desk!Shown, Desk!Screens, Desk!Leaves, Desk!Dialogs

-----------------------------------------------------------------------------
LEMMA DeskInitType == Desk!Init => Desk!TypeOK
BY DEF Desk!Init, Desk!TypeOK, Desk!Empty, Desk!Table, Desk!Screens, Desk!Dialogs

LEMMA DeskNextType == Desk!TypeOK /\ [Desk!Next]_Desk!vars => Desk!TypeOK'
<1> SUFFICES ASSUME Desk!TypeOK, [Desk!Next]_Desk!vars PROVE Desk!TypeOK'
  OBVIOUS
<1>0. /\ Desk!Shown \in Desk!Screens /\ Desk!Leaves(modal) \in Desk!Dialogs \cup {"none"}
      /\ "none" \in Desk!Dialogs \cup {"none"}
      /\ {"Login", "Bootstrap", "Documents"} \subseteq Desk!Screens
      /\ copy \in Desk!Table
  BY FrameType DEF Desk!TypeOK, Desk!Screens
<1>1. ASSUME screen' \in Desk!Screens, modal' \in Desk!Dialogs \cup {"none"},
             UNCHANGED <<file, store, lock, door, let, on, ita, handle, copy, who>>
      PROVE  Desk!TypeOK'
  BY <1>1 DEF Desk!TypeOK
<1>2. CASE Desk!ServiceStart
  BY <1>2 DEF Desk!ServiceStart, Desk!TypeOK, Desk!process
<1>3. CASE Desk!ServiceStop
  BY <1>3 DEF Desk!ServiceStop, Desk!TypeOK, Desk!process
<1>4. CASE Desk!ConsoleLetIn \/ Desk!ConsoleFails \/ Desk!Door
  BY <1>4 DEF Desk!ConsoleLetIn, Desk!ConsoleFails, Desk!Door, Desk!TypeOK, Desk!process,
              Desk!vault
<1>5. ASSUME NEW u \in Users, NEW rec \in Account, Desk!ConsoleUser(u, rec) PROVE Desk!TypeOK'
  <2>1. store' \in Desk!Table
    BY <1>5, TableSet DEF Desk!ConsoleUser, Desk!TypeOK
  <2> QED BY <1>5, <2>1 DEF Desk!ConsoleUser, Desk!TypeOK, Desk!process
<1>6. CASE Desk!Launch
  BY <1>0, <1>6 DEF Desk!Launch, Desk!TypeOK, Desk!vault
<1>7. CASE Desk!Close
  BY <1>7, EndsType DEF Desk!Close, Desk!TypeOK
<1>8. CASE Desk!Frame
  BY <1>0, <1>1, <1>8 DEF Desk!Frame, Desk!vault, Desk!process
<1>9. ASSUME NEW p \in Pins, NEW kept \in BOOLEAN, Desk!Bootstrap(p, kept) PROVE Desk!TypeOK'
  <2>1. copy' \in Desk!Table
    BY <1>9 DEF Desk!Bootstrap, Desk!Table
  <2>2. file' \in BOOLEAN /\ store' \in Desk!Table
    BY <1>9, <2>1 DEF Desk!Bootstrap, Desk!Flush, Desk!TypeOK
  <2> QED BY <1>0, <1>9, <2>1, <2>2, OpenVaultType DEF Desk!Bootstrap, Desk!TypeOK
<1>10. ASSUME NEW u \in Users, NEW p \in Pins, NEW kept \in BOOLEAN, Desk!Login(u, p, kept)
       PROVE  Desk!TypeOK'
  BY <1>0, <1>10, FlushType DEF Desk!Login, Desk!TypeOK, Desk!process
<1>11. ASSUME NEW s \in Desk!Screens, Desk!Nav(s) PROVE Desk!TypeOK'
  BY <1>0, <1>1, <1>11 DEF Desk!Nav, Desk!vault, Desk!process
<1>12. ASSUME NEW m \in Desk!Dialogs, Desk!Ask(m) PROVE Desk!TypeOK'
  BY <1>0, <1>1, <1>12, FrameType DEF Desk!Ask, Desk!vault, Desk!process
<1>13. ASSUME NEW u \in Users, NEW p \in Pins, NEW kept \in BOOLEAN, Desk!Answer(u, p, kept)
       PROVE  Desk!TypeOK'
  <2>1. CASE Desk!Ends /\ UNCHANGED <<file, store>>
    BY <1>13, <2>1, EndsType DEF Desk!Answer, Desk!TypeOK
  <2>2. CASE modal # "quit"
    <3>1. copy' \in Desk!Table
      BY <1>13, <2>2, EditedType DEF Desk!Answer
    <3>2. file' \in BOOLEAN /\ store' \in Desk!Table
      BY <1>13, <2>2, <3>1 DEF Desk!Answer, Desk!Flush, Desk!TypeOK
    <3> QED BY <1>0, <1>13, <2>2, <3>1, <3>2 DEF Desk!Answer, Desk!TypeOK
  <2> QED BY <1>13, <2>1, <2>2 DEF Desk!Answer
<1>14. ASSUME NEW kept \in BOOLEAN, Desk!View(kept) \/ Desk!Restore(kept) PROVE Desk!TypeOK'
  BY <1>0, <1>14, FlushType DEF Desk!View, Desk!Restore, Desk!Act, Desk!TypeOK, Desk!process
<1>15. ASSUME NEW u \in Users, NEW kept \in BOOLEAN, Desk!ToggleUser(u, kept) PROVE Desk!TypeOK'
  <2>1. copy' \in Desk!Table
    BY <1>15, ToggledType DEF Desk!ToggleUser
  <2>2. file' \in BOOLEAN /\ store' \in Desk!Table
    BY <1>15, <2>1 DEF Desk!ToggleUser, Desk!Flush, Desk!TypeOK
  <2> QED BY <1>0, <1>15, <2>1, <2>2 DEF Desk!ToggleUser, Desk!TypeOK
<1>16. CASE Desk!Reload
  BY <1>0, <1>16, OpenVaultType DEF Desk!Reload, Desk!TypeOK
<1>17. CASE Desk!CloseDoor
  <2>1. screen' \in Desk!Screens
    BY <1>0, <1>17 DEF Desk!CloseDoor
  <2> QED BY <1>0, <1>17, <2>1 DEF Desk!CloseDoor, Desk!TypeOK, Desk!vault, Desk!process
<1>18. CASE UNCHANGED Desk!vars
  BY <1>18 DEF Desk!vars, Desk!TypeOK
<1> QED BY <1>2, <1>3, <1>4, <1>5, <1>6, <1>7, <1>8, <1>9, <1>10, <1>11, <1>12, <1>13, <1>14,
           <1>15, <1>16, <1>17, <1>18 DEF Desk!Next, Account

\* Tables, screens and dialogs keep their types, and the application has the lock of the
\* database exactly as long as it has a handle that writes, however often it opens.
THEOREM DesktopTypes == Desk!Spec => []Desk!TypeOK
BY DeskInitType, DeskNextType, PTL DEF Desk!Spec

-----------------------------------------------------------------------------
\* No dialog but the file picker outlives the frame that draws it, and a session
\* never shows the screens that come before it.
DialogInv ==
    /\ modal \in {"none", "picker"}
    /\ who # NoUser => on /\ screen \notin {"Login", "Bootstrap"}

\* With that, a step that does not end the process leaves the session alone.
LEMMA SessionKept ==
  ASSUME Desk!TypeOK, DialogInv, [Desk!Next]_Desk!vars, who # NoUser, on'
  PROVE  who' = who
<1>1. ~Desk!Launch
  BY DEF Desk!Launch, DialogInv
<1>2. ~Desk!Close
  BY DEF Desk!Close, Desk!Ends
<1>3. \A p \in Pins, kept \in BOOLEAN : ~Desk!Bootstrap(p, kept)
  BY DEF Desk!Bootstrap, DialogInv
<1>4. \A u \in Users, p \in Pins, kept \in BOOLEAN : ~Desk!Login(u, p, kept)
  BY DEF Desk!Login, DialogInv
<1>5. ASSUME NEW u \in Users, NEW p \in Pins, NEW kept \in BOOLEAN, Desk!Answer(u, p, kept)
      PROVE  who' = who
  BY <1>5 DEF Desk!Answer, DialogInv
<1>6. UNCHANGED Desk!vars => who' = who
  BY DEF Desk!vars
<1>7. Desk!ServiceStart \/ Desk!ServiceStop \/ Desk!ConsoleLetIn \/ Desk!ConsoleFails
        \/ Desk!Door \/ Desk!Frame \/ Desk!Reload \/ Desk!CloseDoor => who' = who
  BY DEF Desk!ServiceStart, Desk!ServiceStop, Desk!ConsoleLetIn, Desk!ConsoleFails, Desk!Door,
         Desk!Frame, Desk!Reload, Desk!CloseDoor
<1>8. \A u \in Users, rec \in Account : Desk!ConsoleUser(u, rec) => who' = who
  BY DEF Desk!ConsoleUser
<1>9. \A s \in Desk!Screens : Desk!Nav(s) => who' = who
  BY DEF Desk!Nav
<1>10. \A m \in Desk!Dialogs : Desk!Ask(m) => who' = who
  BY DEF Desk!Ask
<1>11. \A kept \in BOOLEAN : Desk!View(kept) \/ Desk!Restore(kept) => who' = who
  BY DEF Desk!View, Desk!Restore, Desk!Act
<1>12. \A u \in Users, kept \in BOOLEAN : Desk!ToggleUser(u, kept) => who' = who
  BY DEF Desk!ToggleUser
<1> QED BY <1>1, <1>2, <1>3, <1>4, <1>5, <1>6, <1>7, <1>8, <1>9, <1>10, <1>11, <1>12
        DEF Desk!Next, Account

LEMMA NextDialog ==
  ASSUME Desk!TypeOK, DialogInv, [Desk!Next]_Desk!vars
  PROVE  DialogInv'
<1>0. /\ Desk!Leaves(modal) \in {"none", "picker"}
      /\ \A m \in Desk!Dialogs : Desk!Leaves(m) \in {"none", "picker"}
      /\ screen \notin {"Login", "Bootstrap"} => Desk!Shown \notin {"Login", "Bootstrap"}
  BY FrameType DEF Desk!TypeOK, Desk!Shown
<1>1. ASSUME modal' \in {"none", "picker"}, who' = who, on' = on, screen' \in {screen, Desk!Shown}
      PROVE  DialogInv'
  BY <1>0, <1>1 DEF DialogInv
<1>2. CASE UNCHANGED <<on, who, screen, modal>>
  BY <1>2 DEF DialogInv
<1>3. CASE Desk!Ends
  BY <1>3 DEF Desk!Ends, DialogInv
<1>4. CASE Desk!Launch
  BY <1>4 DEF Desk!Launch, DialogInv
<1>5. CASE Desk!Frame
  BY <1>0, <1>1, <1>5 DEF Desk!Frame, Desk!process
<1>6. ASSUME NEW p \in Pins, NEW kept \in BOOLEAN, Desk!Bootstrap(p, kept) PROVE DialogInv'
  BY <1>0, <1>6 DEF Desk!Bootstrap, DialogInv
<1>7. ASSUME NEW u \in Users, NEW p \in Pins, NEW kept \in BOOLEAN, Desk!Login(u, p, kept)
      PROVE  DialogInv'
  BY <1>0, <1>7 DEF Desk!Login, DialogInv, Desk!process
<1>8. ASSUME NEW s \in Desk!Screens, Desk!Nav(s) PROVE DialogInv'
  <2>1. s \notin {"Login", "Bootstrap"}
    BY <1>8 DEF Desk!Nav, Desk!Reachable
  <2> QED BY <1>0, <1>8, <2>1 DEF Desk!Nav, DialogInv, Desk!process
<1>9. ASSUME NEW m \in Desk!Dialogs, Desk!Ask(m) PROVE DialogInv'
  BY <1>0, <1>1, <1>9 DEF Desk!Ask, Desk!process
<1>10. ASSUME NEW u \in Users, NEW p \in Pins, NEW kept \in BOOLEAN, Desk!Answer(u, p, kept)
       PROVE  DialogInv'
  <2>1. modal \notin {"quit", "logout"}
    BY DEF DialogInv
  <2> QED BY <1>1, <1>10, <2>1 DEF Desk!Answer
<1>11. ASSUME NEW kept \in BOOLEAN, Desk!View(kept) \/ Desk!Restore(kept) PROVE DialogInv'
  BY <1>0, <1>1, <1>11 DEF Desk!View, Desk!Restore, Desk!Act, Desk!process
<1>12. ASSUME NEW u \in Users, NEW kept \in BOOLEAN, Desk!ToggleUser(u, kept) PROVE DialogInv'
  BY <1>0, <1>1, <1>12 DEF Desk!ToggleUser
<1>13. CASE Desk!Reload
  BY <1>0, <1>1, <1>13 DEF Desk!Reload
<1>14. CASE Desk!CloseDoor
  <2>1. screen \notin {"Login", "Bootstrap"} => screen' \notin {"Login", "Bootstrap"}
    BY <1>0, <1>14 DEF Desk!CloseDoor
  <2> QED BY <1>0, <1>14, <2>1 DEF Desk!CloseDoor, DialogInv, Desk!process
<1>15. Desk!ServiceStart \/ Desk!ServiceStop \/ Desk!ConsoleLetIn \/ Desk!ConsoleFails
         \/ Desk!Door
         => UNCHANGED <<on, who, screen, modal>>
  BY DEF Desk!ServiceStart, Desk!ServiceStop, Desk!ConsoleLetIn, Desk!ConsoleFails, Desk!Door,
         Desk!process
<1>16. \A u \in Users, rec \in Account :
         Desk!ConsoleUser(u, rec) => UNCHANGED <<on, who, screen, modal>>
  BY DEF Desk!ConsoleUser, Desk!process
<1>17. Desk!Close => Desk!Ends
  BY DEF Desk!Close
<1>18. UNCHANGED Desk!vars => UNCHANGED <<on, who, screen, modal>>
  BY DEF Desk!vars
<1> QED BY <1>2, <1>3, <1>4, <1>5, <1>6, <1>7, <1>8, <1>9, <1>10, <1>11, <1>12, <1>13, <1>14,
           <1>15, <1>16, <1>17, <1>18 DEF Desk!Next, Account

\* A session lasts until the process ends: no sequence of clicks closes it.
THEOREM SessionsLast == Desk!Spec => Desk!SessionLastsUntilExit
<1> DEFINE Lasts == who # NoUser /\ on' => who' = who
<1>1. Desk!Init => Desk!TypeOK /\ DialogInv
  BY DeskInitType DEF Desk!Init, DialogInv
<1>2. Desk!TypeOK /\ DialogInv /\ [Desk!Next]_Desk!vars => (Desk!TypeOK /\ DialogInv)'
  BY DeskNextType, NextDialog
<1>3. Desk!TypeOK /\ DialogInv /\ [Desk!Next]_Desk!vars => [Lasts]_Desk!vars
  BY SessionKept
<1> QED BY <1>1, <1>2, <1>3, PTL DEF Desk!Spec, Desk!SessionLastsUntilExit

-----------------------------------------------------------------------------
\* The programs together.  Each follows the specification of its module, and the
\* theorems about that module hold of it.

Channel     == INSTANCE SyncChannel_proofs WITH clock <- sClock, MaxClock <- MaxSyncClock
Keyring     == INSTANCE Door_proofs WITH clock <- dClock, MaxClock <- MaxDoorClock
Search      == INSTANCE Query_proofs
Entries     == INSTANCE AuditChain_proofs WITH Pieces <- Texts, MaxLen <- MaxEntries

\* The channel of the proofs is the channel of the programs.
LEMMA SameChannel ==
  /\ Channel!Init <=> Sync!Init
  /\ Channel!Next <=> Sync!Next
  /\ Channel!vars = syncVars
BY DEF syncVars,
       Channel!Mutexes, Channel!Threads, Channel!vars, Channel!Quiet, Channel!AtRest,
       Channel!Nobody, Channel!Init, Channel!codeVars, Channel!deviceVars,
       Channel!clientVars, Channel!stable, Channel!Free, Channel!Poisoned, Channel!Give,
       Channel!Callback, Channel!Whole, Channel!Ask, Channel!AskToPair, Channel!Answer,
       Channel!SaveCert, Channel!SaveKey, Channel!GiveUp, Channel!Reply,
       Channel!Authorize, Channel!Unexpired, Channel!Accepts, Channel!Pair,
       Channel!Enrol, Channel!Register, Channel!Dies, Channel!LockCallback,
       Channel!LockAdmin, Channel!Records, Channel!Leaves, Channel!Finish,
       Channel!Enter, Channel!NewCode, Channel!Leave, Channel!Ends, Channel!Panic,
       Channel!LoopFindsPoison, Channel!Stop, Channel!Start, Channel!Tick,
       Channel!ClientStep, Channel!Runs, Channel!ConnStep, Channel!ThreadStep,
       Channel!Next,
       Sync!Mutexes, Sync!Threads, Sync!vars, Sync!Quiet, Sync!AtRest, Sync!Nobody,
       Sync!Init, Sync!codeVars, Sync!deviceVars, Sync!clientVars, Sync!stable,
       Sync!Free, Sync!Poisoned, Sync!Give, Sync!Callback, Sync!Whole, Sync!Ask,
       Sync!AskToPair, Sync!Answer, Sync!SaveCert, Sync!SaveKey, Sync!GiveUp,
       Sync!Reply, Sync!Authorize, Sync!Unexpired, Sync!Accepts, Sync!Pair, Sync!Enrol,
       Sync!Register, Sync!Dies, Sync!LockCallback, Sync!LockAdmin, Sync!Records,
       Sync!Leaves, Sync!Finish, Sync!Enter, Sync!NewCode, Sync!Leave, Sync!Ends,
       Sync!Panic, Sync!LoopFindsPoison, Sync!Stop, Sync!Start, Sync!Tick,
       Sync!ClientStep, Sync!Runs, Sync!ConnStep, Sync!ThreadStep, Sync!Next

\* So are the keys of the door.
LEMMA SameKeyring ==
  /\ Keyring!Init <=> Keys!Init
  /\ Keyring!Next <=> Keys!Next
  /\ Keyring!vars = keysVars
BY DEF keysVars,
       Keyring!Absent, Keyring!Torn, Keyring!Off, Keyring!vars, Keyring!doorFiles,
       Keyring!appFiles, Keyring!Init, Keyring!Holds, Keyring!Exists,
       Keyring!DoorExists, Keyring!MakingDoor, Keyring!MakingAppKey, Keyring!AppGoes,
       Keyring!Finds, Keyring!EnsureKeys, Keyring!Launch, Keyring!Bootstrap,
       Keyring!NewHalf, Keyring!Made, Keyring!AppWrites, Keyring!CompletesPub,
       Keyring!LoadAppKey, Keyring!LoadForHook, Keyring!New, Keyring!Stored,
       Keyring!SaveReport, Keyring!Left, Keyring!Halves, Keyring!AppEnds,
       Keyring!ConsoleGoes, Keyring!SetupAllowed, Keyring!Setup, Keyring!Generate,
       Keyring!ConsoleWrites, Keyring!AskToOpen, Keyring!Open, Keyring!Revoke,
       Keyring!ConsoleEnds, Keyring!DeleteDoor, Keyring!TakeKey, Keyring!Tick,
       Keyring!Next,
       Keys!Absent, Keys!Torn, Keys!Off, Keys!vars, Keys!doorFiles, Keys!appFiles,
       Keys!Init, Keys!Holds, Keys!Exists, Keys!DoorExists, Keys!MakingDoor,
       Keys!MakingAppKey, Keys!AppGoes, Keys!Finds, Keys!EnsureKeys, Keys!Launch,
       Keys!Bootstrap, Keys!NewHalf, Keys!Made, Keys!AppWrites, Keys!CompletesPub,
       Keys!LoadAppKey, Keys!LoadForHook, Keys!New, Keys!Stored, Keys!SaveReport,
       Keys!Left, Keys!Halves, Keys!AppEnds, Keys!ConsoleGoes, Keys!SetupAllowed,
       Keys!Setup, Keys!Generate, Keys!ConsoleWrites, Keys!AskToOpen, Keys!Open,
       Keys!Revoke, Keys!ConsoleEnds, Keys!DeleteDoor, Keys!TakeKey, Keys!Tick,
       Keys!Next

\* Query_proofs is about the query of the programs.
LEMMA SameSearch ==
    /\ Search!Spec <=> Box!Spec
    /\ Search!TypeOK <=> Box!TypeOK
    /\ Search!PartsAreThePieces <=> Box!PartsAreThePieces
<1>1. Search!Init <=> Box!Init
  BY DEF Search!Init, Box!Init
<1>2. Search!Next <=> Box!Next
  BY DEF Search!Letter, Search!Connector, Search!Space, Search!Mark, Search!Chars,
         Search!Type, Search!Next,
         Box!Letter, Box!Connector, Box!Space, Box!Mark, Box!Chars,
         Box!Type, Box!Next
<1>3. Search!TypeOK <=> Box!TypeOK
  BY DEF Search!Letter, Search!Connector, Search!Space, Search!Mark, Search!Chars,
         Search!TypeOK, Search!BoundedSeq, Search!SeqOf,
         Box!Letter, Box!Connector, Box!Space, Box!Mark, Box!Chars,
         Box!TypeOK, Box!BoundedSeq, Box!SeqOf
<1>4. \A q, i : Search!Quoted(q, i) <=> Box!Quoted(q, i)
  BY DEF Search!Mark, Search!Quoted, Search!Quantify, Search!Cardinality,
         Box!Mark, Box!Quoted, Box!Quantify, Box!Cardinality
<1>5. \A q, i : Search!Blank(q, i) <=> Box!Blank(q, i)
  BY <1>4 DEF Search!Space, Search!Blank, Box!Space, Box!Blank
<1>6. \A q : Search!Joints(q) = Box!Joints(q)
  BY <1>4, <1>5 DEF Search!Connector, Search!Joints, Box!Connector, Box!Joints
<1>7. \A q, lo, hi : Search!Counts(q, lo, hi) = Box!Counts(q, lo, hi)
  BY <1>5 DEF Search!Counts, Box!Counts
<1>8. \A q : Search!Trim(q) = Box!Trim(q)
  BY DEF Search!Space, Search!Trim, Search!Min, Search!Max,
         Box!Space, Box!Trim, Box!Min, Box!Max
<1>9. \A s, S : Search!Picked(s, S) = Box!Picked(s, S)
  BY Zenon DEF Search!Picked, Search!FoldLeftDomain, Search!FoldLeft, Search!MapThenFoldSet, Search!Max,
         Box!Picked, Box!FoldLeftDomain, Box!FoldLeft, Box!MapThenFoldSet, Box!Max
<1>10. \A q, e : Search!Before(q, e) = Box!Before(q, e)
  BY <1>6 DEF Search!Before, Search!Max, Box!Before, Box!Max
<1>11. \A q, e : Search!Piece(q, e) = Box!Piece(q, e)
  BY <1>7, <1>8, <1>9, <1>10 DEF Search!Piece, Box!Piece
<1>12. \A q : Search!Pieces(q) = Box!Pieces(q)
  BY <1>6, <1>9, <1>11 DEF Search!Pieces, Box!Pieces
<1>13. \A s : Search!Closed(s) = Box!Closed(s)
  BY DEF Search!Closed, Box!Closed
<1>14. \A q : Search!Segments(q) = Box!Segments(q)
  BY Zenon DEF Search!Space, Search!Mark, Search!Closed, Search!Separates, Search!Walk,
         Search!Segments, Search!FoldLeft, Search!MapThenFoldSet, Search!Max,
         Box!Space, Box!Mark, Box!Closed, Box!Separates, Box!Walk,
         Box!Segments, Box!FoldLeft, Box!MapThenFoldSet, Box!Max
<1>15. \A p : Search!Ended(p) = Box!Ended(p)
  BY <1>8 DEF Search!Ended, Box!Ended
<1>16. \A segs : Search!FoldLeft(Search!Join, [parts |-> <<>>, acc |-> <<>>], segs)
                  = Box!FoldLeft(Box!Join, [parts |-> <<>>, acc |-> <<>>], segs)
  BY Zenon DEF Search!Space, Search!Connector, Search!Trim, Search!Min, Search!Ended, Search!Join,
         Search!FoldLeft, Search!MapThenFoldSet, Search!Max,
         Box!Space, Box!Connector, Box!Trim, Box!Min, Box!Ended, Box!Join,
         Box!FoldLeft, Box!MapThenFoldSet, Box!Max
<1>17. \A q : Search!Split(q) = Box!Split(q)
  BY <1>14, <1>15, <1>16 DEF Search!Split, Box!Split
<1>18. Search!PartsAreThePieces <=> Box!PartsAreThePieces
  BY <1>12, <1>17 DEF Search!PartsAreThePieces, Box!PartsAreThePieces
<1>19. Search!Spec <=> Box!Spec
  BY <1>1, <1>2, PTL DEF Search!Spec, Box!Spec
<1> QED BY <1>3, <1>19, <1>18

\* And so is the audit chain.
LEMMA SameChain ==
  /\ Entries!Init <=> Chain!Init
  /\ Entries!Next <=> Chain!Next
  /\ Entries!vars = chainVars
BY DEF chainVars,
       Entries!vars, Entries!Genesis, Entries!Canonical, Entries!ContentHash,
       Entries!AuditHead, Entries!NoChange, Entries!Init, Entries!AppendAudit,
       Entries!Rewritten, Entries!Rewrite, Entries!Next,
       Chain!vars, Chain!Genesis, Chain!Canonical, Chain!ContentHash,
       Chain!AuditHead, Chain!NoChange, Chain!Init, Chain!AppendAudit,
       Chain!Rewritten, Chain!Rewrite, Chain!Next

\* A step of the programs is a step of each or leaves its variables alone.
THEOREM ProgramsFollowModules ==
  AllSpec => /\ Spec /\ Channel!Spec /\ Desk!Spec /\ Keyring!Spec
             /\ Date!Spec /\ Box!Spec /\ Entries!Spec
<1>1. AllInit => /\ Init /\ Channel!Init /\ Desk!Init /\ Keyring!Init
                 /\ Date!Init /\ Box!Init /\ Entries!Init
  BY SameChannel, SameKeyring, SameChain DEF AllInit
<1>2. [AllNext]_allVars => [Next]_vars /\ [Date!Next]_Date!vars /\ [Box!Next]_typed
  BY DEF AllNext, allVars, dateVars, Date!vars
<1>3. [AllNext]_allVars => [Channel!Next]_Channel!vars
  <2>1. [AllNext]_allVars => Sync!Next \/ UNCHANGED syncVars
    BY DEF AllNext, allVars
  <2>2. UNCHANGED syncVars => UNCHANGED Channel!vars
    BY DEF syncVars, Channel!vars
  <2> QED BY <2>1, <2>2, SameChannel
<1>4. [AllNext]_allVars => [Desk!Next]_Desk!vars
  BY DEF AllNext, allVars, deskVars, Desk!vars
<1>5. [AllNext]_allVars => [Keyring!Next]_Keyring!vars
  <2>1. [AllNext]_allVars => Keys!Next \/ UNCHANGED keysVars
    BY DEF AllNext, allVars
  <2>2. UNCHANGED keysVars => UNCHANGED Keyring!vars
    BY DEF keysVars, Keyring!vars
  <2> QED BY <2>1, <2>2, SameKeyring
<1>6. [AllNext]_allVars => [Entries!Next]_Entries!vars
  <2>1. [AllNext]_allVars => Chain!Next \/ UNCHANGED chainVars
    BY DEF AllNext, allVars
  <2>2. UNCHANGED chainVars => UNCHANGED Entries!vars
    BY DEF chainVars, Entries!vars
  <2> QED BY <2>1, <2>2, SameChain
<1> QED BY <1>1, <1>2, <1>3, <1>4, <1>5, <1>6, PTL
        DEF AllSpec, Spec, Channel!Spec, Desk!Spec, Keyring!Spec, Date!Spec, Box!Spec, Entries!Spec

\* The programs never change places.
LEMMA PartStays ==
  AllSpec => [](part \in {"admin", "sync", "desk", "keys", "date", "box", "chain"})
<1> DEFINE Inv == part \in {"admin", "sync", "desk", "keys", "date", "box", "chain"}
<1>1. AllInit => Inv
  BY DEF AllInit
<1>2. Inv /\ [AllNext]_allVars => Inv'
  BY DEF AllNext, allVars
<1> QED BY <1>1, <1>2, PTL DEF AllSpec

\* The channel's proofs assume of their constants what is assumed here.
LEMMA ChannelLimits == Channel!Limits
BY SyncLimits DEF Channel!Kinds, Channel!Threads, Channel!Limits,
         Sync!Kinds, Sync!Threads, Sync!Limits

\* So do those of the audit chain.
LEMMA EntryLimits == Entries!Limits
BY ChainLimits DEF Entries!Limits, Chain!Limits

\* Every variable of every program has its type.
THEOREM AllTypes == AllSpec => []ProgramTypes
<1>1. Channel!TypeOK <=> Sync!TypeOK
  BY DEF Channel!Mutexes, Channel!Kinds, Channel!Threads, Channel!Cert, Channel!TypeOK,
         Sync!Mutexes, Sync!Kinds, Sync!Threads, Sync!Cert, Sync!TypeOK
<1>3. Keyring!TypeOK <=> Keys!TypeOK
  BY DEF Keyring!Absent, Keyring!Torn, Keyring!Content, Keyring!Report, Keyring!TypeOK,
         Keys!Absent, Keys!Torn, Keys!Content, Keys!Report, Keys!TypeOK
<1>10. Entries!TypeOK <=> Chain!TypeOK
  BY DEF Entries!NoChange, Entries!TypeOK, Chain!NoChange, Chain!TypeOK
<1>4. /\ part \in {"admin", "sync", "desk", "keys", "date", "box", "chain"}
      /\ TypeOK /\ Channel!TypeOK /\ Desk!TypeOK /\ Keyring!TypeOK
      /\ Date!TypeOK /\ Box!TypeOK /\ Entries!TypeOK
      => ProgramTypes
  BY <1>1, <1>3, <1>10 DEF ProgramTypes
<1>5. Channel!Spec => []Channel!TypeOK
  BY Channel!ChannelTypes, ChannelLimits
<1>6. Desk!Spec => []Desk!TypeOK
  BY DesktopTypes
<1>7. Keyring!Spec => []Keyring!TypeOK
  BY Keyring!DoorTypeOK, DoorLimits DEF Keyring!Limits, Keys!Limits
<1>8. Date!Spec => []Date!TypeOK
  BY DateTypes, DateLimits
<1>9. Box!Spec => []Box!TypeOK
  <2>1. Search!Spec => []Search!TypeOK
    BY Search!QueryType, BoxLimits DEF Search!Limits, Box!Limits
  <2>2. Search!TypeOK <=> Box!TypeOK
    BY SameSearch
  <2>3. Search!Spec <=> Box!Spec
    BY SameSearch
  <2> QED BY <2>1, <2>2, <2>3, PTL
<1>11. Entries!Spec => []Entries!TypeOK
  BY Entries!ChainTypes, EntryLimits
<1> QED BY <1>4, <1>5, <1>6, <1>7, <1>8, <1>9, <1>11, PartStays, ProgramsFollowModules, TypeCorrect, PTL

-----------------------------------------------------------------------------
\* What the programs promise, for every value of their constants.

\* The administration: guessing a PIN costs the pauses that were imposed.
THEOREM ProgramsGuessSlowly == AllSpec => []GuessingIsSlow
BY ProgramsFollowModules, GuessingCosts, PTL

\* The administration: no request to destroy is ever granted.
THEOREM ProgramsDestroyNothing == AllSpec => []DestructionIsNeverAuthorized
BY ProgramsFollowModules, NothingIsDestroyed, PTL

\* The panel: a spent token never opens it again.
THEOREM ProgramsSpentTokens == AllSpec => DeadTokensStayDead
BY ProgramsFollowModules, SpentTokensStaySpent, PTL

\* A pairing code opens the channel once and in time, for every number of devices,
\* connections and codes.
THEOREM ProgramsCodes == AllSpec => CodeOpensOnceInTime
<1>1. Channel!CodeOpensOnceInTime => CodeOpensOnceInTime
  <2> DEFINE Opening == \A k \in Conns : conn[k].pc = "read" /\ conn'[k].pc = "coded"
                          => LET c == conn[k].code IN c \notin opened /\ sClock < expiry[c]
  <2>1. [Opening]_Channel!vars => [Opening]_Sync!vars
    BY DEF Channel!vars, Sync!vars
  <2> QED BY <2>1, PTL DEF CodeOpensOnceInTime, Channel!CodeOpensOnceInTime,
                           Sync!CodeOpensOnceInTime
<1>2. Channel!Spec => Channel!CodeOpensOnceInTime
  BY Channel!CodesOpenOnce, ChannelLimits
<1> QED BY <1>1, <1>2, ProgramsFollowModules

\* Complete identity files get in until the service starts again.
THEOREM ProgramsIdentities == AllSpec => []IdentityLastsUntilRestart
<1>1. Channel!IdentityLastsUntilRestart => IdentityLastsUntilRestart
  BY DEF IdentityLastsUntilRestart, Channel!Whole, Channel!IdentityLastsUntilRestart,
         Sync!Whole, Sync!IdentityLastsUntilRestart
<1>2. Channel!Spec => []Channel!IdentityLastsUntilRestart
  BY Channel!IdentitiesLastUntilRestart, ChannelLimits
<1> QED BY <1>1, <1>2, ProgramsFollowModules, PTL

\* Who gets in is in the registry of the panel, or is being recorded.
THEOREM ProgramsRegistry == AllSpec => []AuthorizedIsRecorded
<1>1. Channel!AuthorizedIsRecorded => AuthorizedIsRecorded
  BY DEF AuthorizedIsRecorded, Channel!Poisoned, Channel!AuthorizedIsRecorded,
         Sync!Poisoned, Sync!AuthorizedIsRecorded
<1>2. Channel!Spec => []Channel!AuthorizedIsRecorded
  BY Channel!AuthorizedAreRecorded, ChannelLimits
<1> QED BY <1>1, <1>2, ProgramsFollowModules, PTL

\* The halves of a key pair on disk belong together.
THEOREM ProgramsPairs == AllSpec => []KeyPairsMatch
<1>1. Keyring!KeyPairsMatch => KeyPairsMatch
  BY DEF KeyPairsMatch, Keyring!Holds, Keyring!MakingDoor, Keyring!MakingAppKey, Keyring!KeyPairsMatch,
         Keys!Holds, Keys!MakingDoor, Keys!MakingAppKey, Keys!KeyPairsMatch
<1>2. Keyring!Spec => []Keyring!KeyPairsMatch
  BY Keyring!PairsMatch, DoorLimits DEF Keyring!Limits, Keys!Limits
<1> QED BY <1>1, <1>2, ProgramsFollowModules, PTL

\* A report stays on disk and can be read.
THEOREM ProgramsReports == AllSpec => []ReportsStayReadable
<1>1. Keyring!ReportsStayReadable => ReportsStayReadable
  BY DEF ReportsStayReadable, Keyring!Decrypts, Keyring!ReportsStayReadable,
         Keys!Decrypts, Keys!ReportsStayReadable
<1>2. Keyring!Spec => []Keyring!ReportsStayReadable
  BY Keyring!ReportsReadable, DoorLimits DEF Keyring!Limits, Keys!Limits
<1> QED BY <1>1, <1>2, ProgramsFollowModules, PTL

\* Keys made by the application keep the console out.
THEOREM ProgramsDoor == AllSpec => AppKeysShutTheConsoleOut
<1>1. Keyring!AppKeysShutTheConsoleOut => AppKeysShutTheConsoleOut
  <2> DEFINE Old == [Keyring!AppMadeKeys => priv' = Keyring!Absent
                       \/ (Keyring!AppMadeKeys' /\ (session' => session))]_Keyring!vars
             New == [Keys!AppMadeKeys => priv' = Keys!Absent
                       \/ (Keys!AppMadeKeys' /\ (session' => session))]_Keys!vars
  <2>1. (Keyring!AppMadeKeys <=> Keys!AppMadeKeys) /\ Keyring!Absent = Keys!Absent
    BY DEF Keyring!Absent, Keyring!Exists, Keyring!DoorExists, Keyring!AppMadeKeys,
         Keys!Absent, Keys!Exists, Keys!DoorExists, Keys!AppMadeKeys
  <2>2. Keyring!AppMadeKeys' <=> Keys!AppMadeKeys'
    BY DEF Keyring!Absent, Keyring!Exists, Keyring!DoorExists, Keyring!AppMadeKeys,
         Keys!Absent, Keys!Exists, Keys!DoorExists, Keys!AppMadeKeys
  <2>3. UNCHANGED Keyring!vars => UNCHANGED Keys!vars
    BY DEF Keyring!vars, Keys!vars
  <2>4. Old => New
    BY <2>1, <2>2, <2>3
  <2> QED BY <2>4, PTL DEF AppKeysShutTheConsoleOut, Keyring!AppKeysShutTheConsoleOut,
                           Keys!AppKeysShutTheConsoleOut
<1>2. Keyring!Spec => Keyring!AppKeysShutTheConsoleOut
  BY Keyring!AppKeysShutOut, DoorLimits DEF Keyring!Limits, Keys!Limits
<1> QED BY <1>1, <1>2, ProgramsFollowModules

\* The dates the vault computes are those of the calendar, for every day since 1970.
THEOREM ProgramsDates == AllSpec => []DatesAreGregorian
<1>1. Date!DatesAreGregorian => DatesAreGregorian
  BY DEF DatesAreGregorian
<1>2. Date!Spec => []Date!DatesAreGregorian
  BY CivilIsGregorian, DateLimits
<1> QED BY <1>1, <1>2, ProgramsFollowModules, PTL

\* A query, whatever is typed and however long, is taken apart into the pieces between
\* its connectors outside the quotation marks.
THEOREM ProgramsQueries == AllSpec => []PartsAreThePieces
<1>1. Search!PartsAreThePieces => PartsAreThePieces
  BY SameSearch DEF PartsAreThePieces
<1>2. Search!Spec => []Search!PartsAreThePieces
  BY Search!QueryParts, BoxLimits DEF Search!Limits, Box!Limits
<1>3. Box!Spec <=> Search!Spec
  BY SameSearch
<1> QED BY <1>1, <1>2, <1>3, ProgramsFollowModules, PTL

\* What the program writes verifies, however long the chain and whatever its details.
THEOREM ProgramsChains == AllSpec => []WrittenChainVerifies
<1>1. Entries!WrittenChainVerifies => WrittenChainVerifies
  BY DEF WrittenChainVerifies, Entries!NoChange, Entries!ChainOk, Entries!Linked, Entries!AuditHead,
         Entries!Genesis, Entries!ContentHash, Entries!Canonical, Entries!WrittenChainVerifies,
         Chain!NoChange, Chain!ChainOk, Chain!Linked, Chain!AuditHead,
         Chain!Genesis, Chain!ContentHash, Chain!Canonical, Chain!WrittenChainVerifies
<1>2. Entries!Spec => []Entries!WrittenChainVerifies
  BY Entries!HonestChainVerifies, EntryLimits
<1> QED BY <1>1, <1>2, ProgramsFollowModules, PTL

\* A rewritten entry that had a successor fails verification for ever.
THEOREM ProgramsInnerChanges == AllSpec => []InnerChangeIsSeen
<1>1. Entries!InnerChangeIsSeen => InnerChangeIsSeen
  BY DEF InnerChangeIsSeen, Entries!NoChange, Entries!ChainOk, Entries!Linked, Entries!AuditHead,
         Entries!Genesis, Entries!ContentHash, Entries!Canonical, Entries!InnerChangeIsSeen,
         Chain!NoChange, Chain!ChainOk, Chain!Linked, Chain!AuditHead,
         Chain!Genesis, Chain!ContentHash, Chain!Canonical, Chain!InnerChangeIsSeen
<1>2. Entries!Spec => []Entries!InnerChangeIsSeen
  BY Entries!SuccessorsProtect, EntryLimits
<1> QED BY <1>1, <1>2, ProgramsFollowModules, PTL

\* Verification and a head hash kept elsewhere see every rewriting.
THEOREM ProgramsHeads == AllSpec => []ChainAndHeadSeeAll
<1>1. Entries!ChainAndHeadSeeAll => ChainAndHeadSeeAll
  BY DEF ChainAndHeadSeeAll, Entries!NoChange, Entries!ChainOk, Entries!Linked, Entries!AuditHead,
         Entries!Genesis, Entries!ContentHash, Entries!Canonical, Entries!ChainAndHeadSeeAll,
         Chain!NoChange, Chain!ChainOk, Chain!Linked, Chain!AuditHead,
         Chain!Genesis, Chain!ContentHash, Chain!Canonical, Chain!ChainAndHeadSeeAll
<1>2. Entries!Spec => []Entries!ChainAndHeadSeeAll
  BY Entries!HeadProtectsTheLast, EntryLimits
<1> QED BY <1>1, <1>2, ProgramsFollowModules, PTL
=============================================================================
