----------------------------- MODULE AdminAccess -----------------------------
(***************************************************************************)
(* Who gets into the administration of the vault: the PINs, the lockout    *)
(* and the session table of AdminService, the session table of the panel   *)
(* in front of it, and the page in the browser that holds a token.         *)
(*                                                                         *)
(* A PIN stands for its hash.  A token is a number, drawn once.  A handler *)
(* of the panel runs in a thread of its own: it checks the session, then   *)
(* waits for the mutex of AdminService, under which all the rest happens.  *)
(***************************************************************************)
EXTENDS Integers, FiniteSets

CONSTANTS Pins,          \* the PINs somebody may type
          StrongPins,    \* those is_strong_enough lets through
          NoPin,         \* no hash stored
          Requests,      \* requests of the page that can be open at a time
          SessionTtl,    \* life of a session after its last use
          BaseLock,      \* BASE_LOCK_SECS
          FreeFailures,  \* MAX_FAILURES_BEFORE_LOCK
          MaxClock,      \* bound: end of time
          MaxToken       \* bound: tokens drawn

ASSUME PinsAssumption == NoPin \notin Pins /\ StrongPins \subseteq Pins
ASSUME TimesAssumption ==
    /\ SessionTtl \in Nat \ {0} /\ BaseLock \in Nat \ {0}
    /\ FreeFailures \in Nat /\ MaxClock \in Nat /\ MaxToken \in Nat

VARIABLES
    clock,         \* seconds; Instant and SystemTime advance together
    up,            \* the service is running
    mem,           \* [admin, destruction]: the hashes in the database in memory
    disk,          \* the same, as saved
    failures,      \* pin_lockout.failures
    lockedUntil,   \* pin_lockout.locked_until, 0 for None
    adminSessions, \* AdminService::sessions: token -> expiry
    panelSessions, \* WebUiState::sessions: token -> expiry
    drawn,         \* number of the last token drawn
    page,          \* the token in the sessionStorage of the page, 0 for none
    req,           \* the requests of the page and their threads
    first,         \* history: when the first failure still counted happened
    owed           \* history: the pauses imposed since then, added up

vars == <<clock, up, mem, disk, failures, lockedUntil, adminSessions,
          panelSessions, drawn, page, req, first, owed>>

lockout == <<failures, lockedUntil, first, owed>>
database == <<mem, disk>>

Token == 1..MaxToken
Ops == {"login", "logout", "refresh", "destroy", "set_pin"}
Idle == [pc |-> "idle", op |-> "login", token |-> 0, ok |-> FALSE, heard |-> FALSE]

None == [t \in {} |-> 0]
Sessions == UNION {[S -> 1..(MaxClock + SessionTtl)] : S \in SUBSET Token}

Put(table, t, exp) == [u \in DOMAIN table \cup {t} |-> IF u = t THEN exp ELSE table[u]]
Drop(table, t) == [u \in DOMAIN table \ {t} |-> table[u]]

\* `Some(&exp) if exp > now`
Live(table, t) == t \in DOMAIN table /\ table[t] > clock

TypeOK ==
    /\ clock \in 0..MaxClock /\ up \in BOOLEAN
    /\ mem \in [admin : Pins \cup {NoPin}, destruction : Pins \cup {NoPin}]
    /\ disk \in [admin : Pins \cup {NoPin}, destruction : Pins \cup {NoPin}]
    /\ failures \in Nat /\ lockedUntil \in Nat
    /\ adminSessions \in Sessions /\ panelSessions \in Sessions
    /\ drawn \in 0..MaxToken /\ page \in 0..MaxToken
    /\ req \in [Requests -> [pc : {"idle", "sent", "checked", "answered"}, op : Ops,
                             token : 0..MaxToken, ok : BOOLEAN, heard : BOOLEAN]]
    /\ first \in 0..MaxClock /\ owed \in Nat

\* A vault that was never started, or one saved earlier with its PIN: the first
\* configuration sets no PIN of destruction.
Init ==
    /\ clock = 0 /\ up = FALSE
    /\ disk \in [admin : StrongPins \cup {NoPin}, destruction : {NoPin}]
    /\ mem = disk
    /\ failures = 0 /\ lockedUntil = 0 /\ first = 0 /\ owed = 0
    /\ adminSessions = None /\ panelSessions = None /\ drawn = 0
    /\ page = 0 /\ req = [r \in Requests |-> Idle]

-----------------------------------------------------------------------------
\* Starting, stopping and the passing of time.

\* flush() publishes everything in memory, or fails and publishes nothing.
Flush(m, saved) == disk' = IF saved THEN m ELSE disk

\* The service starts on the saved PINs; --quickstart sets one if there is none,
\* --init sets one and exits; without any PIN it refuses to start.
Start ==
    /\ ~up
    /\ \/ disk.admin # NoPin /\ mem' = disk /\ disk' = disk /\ up' = TRUE
       \/ /\ disk.admin = NoPin
          /\ \E p \in StrongPins :
                /\ mem' = [disk EXCEPT !.admin = p]
                /\ Flush(mem', TRUE)
          /\ up' \in BOOLEAN
    /\ UNCHANGED <<clock, lockout, adminSessions, panelSessions, drawn, page, req>>

\* The process ends: lockout and both session tables were only in memory.  The
\* requests in progress fail in the page, which learns nothing of its session.
Stop ==
    /\ up
    /\ up' = FALSE
    /\ mem' = disk
    /\ failures' = 0 /\ lockedUntil' = 0 /\ first' = 0 /\ owed' = 0
    /\ adminSessions' = None /\ panelSessions' = None
    /\ req' = [r \in Requests |-> Idle]
    /\ page' = IF \E r \in Requests : req[r].heard /\ req[r].op = "logout" THEN 0 ELSE page
    /\ UNCHANGED <<clock, disk, drawn>>

Tick ==
    /\ clock < MaxClock
    /\ clock' = clock + 1
    /\ UNCHANGED <<up, database, lockout, adminSessions, panelSessions, drawn, page, req>>

-----------------------------------------------------------------------------
\* AdminService.

CheckLockout == lockedUntil <= clock

NextLockout(f) == BaseLock * 2 ^ (f - FreeFailures)

RegisterFailure ==
    LET pause == IF failures + 1 > FreeFailures THEN NextLockout(failures + 1) ELSE 0
    IN  /\ failures' = failures + 1
        /\ lockedUntil' = IF pause > 0 THEN clock + pause ELSE lockedUntil
        /\ first' = IF failures = 0 THEN clock ELSE first
        /\ owed' = IF failures = 0 THEN pause ELSE owed + pause

\* failures = 0; locked_until stays, in the past.
ResetFailures ==
    /\ failures' = 0 /\ first' = 0 /\ owed' = 0
    /\ UNCHANGED lockedUntil

\* Mutant: a PIN is tried although the lockout has not passed.
TryPinAnyway(p) == IF p # mem.admin THEN RegisterFailure ELSE ResetFailures

\* verify_admin_pin, login and set_admin_pin try a PIN alike: nothing while
\* locked, a failure is counted, a success clears the count.
TryPin(p) ==
    IF ~CheckLockout THEN UNCHANGED lockout
    ELSE IF p # mem.admin THEN RegisterFailure ELSE ResetFailures

PinAccepted(p) == CheckLockout /\ p = mem.admin

\* set_admin_pin with the current PIN.  A success does not clear the count; a
\* failure of the flush is reported, and the new PIN stays in memory.
ChangePin(current, new, saved) ==
    /\ up /\ new \in StrongPins /\ mem.admin # NoPin
    /\ IF PinAccepted(current)
       THEN /\ mem' = [mem EXCEPT !.admin = new]
            /\ Flush(mem', saved)
            /\ UNCHANGED lockout
       ELSE /\ TryPin(current)
            /\ UNCHANGED database
    /\ UNCHANGED <<clock, up, adminSessions, panelSessions, drawn, page, req>>

\* Mutant: a token that is in no table counts as one without expiry.
ValidateUnknown(t) == t \in DOMAIN adminSessions => adminSessions[t] > clock

\* validate_session: a token of AdminService that has not expired, renewed.
ValidateSession(t) == Live(adminSessions, t)

-----------------------------------------------------------------------------
\* The page, which shows the login only while it has no token.

Send(r, op) ==
    /\ up /\ req[r] = Idle
    /\ (op = "login") = (page = 0)
    /\ req' = [req EXCEPT ![r] = [pc |-> "sent", op |-> op, token |-> page, ok |-> FALSE,
                                  heard |-> TRUE]]
    /\ UNCHANGED <<clock, up, database, lockout, adminSessions, panelSessions, drawn, page>>

\* location.reload(), by logout() whatever the answer and by refresh() when the
\* session is refused: the answers of all the other requests are lost.
Reloads(r) == req[r].op = "logout" \/ (req[r].op = "refresh" /\ ~req[r].ok)

\* login() stores the token it gets, logout() removes it.  refresh() clears only the
\* variable, and the reload reads the refused token from the storage again.
Receive(r) ==
    /\ req[r].pc = "answered"
    /\ page' = IF ~req[r].heard THEN page
               ELSE CASE req[r].op = "login" /\ req[r].ok -> req[r].token
                      [] req[r].op = "logout" -> 0
                      [] OTHER -> page
    /\ req' = [q \in Requests |->
                 IF q = r THEN Idle
                 ELSE IF req[r].heard /\ Reloads(r) THEN [req[q] EXCEPT !.heard = FALSE]
                 ELSE req[q]]
    /\ UNCHANGED <<clock, up, database, lockout, adminSessions, panelSessions, drawn>>

-----------------------------------------------------------------------------
\* The panel: route().

Answer(r, ok) == req' = [req EXCEPT ![r].pc = "answered", ![r].ok = ok]

\* The page also draws the token of AdminService's session, which it discards.
Login(r, p, saved) ==
    /\ req[r].pc = "sent" /\ req[r].op = "login"
    /\ drawn + 2 <= MaxToken
    /\ TryPin(p)
    /\ Flush(mem, saved /\ CheckLockout)
    /\ IF PinAccepted(p)
       THEN /\ adminSessions' = Put(adminSessions, drawn + 1, clock + SessionTtl)
            /\ IF saved
               THEN /\ panelSessions' = Put(panelSessions, drawn + 2, clock + SessionTtl)
                    /\ drawn' = drawn + 2
                    /\ req' = [req EXCEPT ![r].pc = "answered", ![r].ok = TRUE,
                                          ![r].token = drawn + 2]
               ELSE /\ drawn' = drawn + 1
                    /\ Answer(r, FALSE)
                    /\ UNCHANGED panelSessions
       ELSE /\ Answer(r, FALSE)
            /\ UNCHANGED <<adminSessions, panelSessions, drawn>>
    /\ UNCHANGED <<clock, up, mem, page>>

\* Mutant: whatever is in the table is renewed.
RenewAnyKnown(t) ==
    panelSessions' = IF t \in DOMAIN panelSessions
                     THEN Put(panelSessions, t, clock + SessionTtl)
                     ELSE panelSessions

\* check_session: a live session is renewed, any other token is removed.
RenewOrRemove(t) ==
    panelSessions' = IF Live(panelSessions, t)
                     THEN Put(panelSessions, t, clock + SessionTtl)
                     ELSE Drop(panelSessions, t)

CheckSession(r) ==
    /\ req[r].pc = "sent" /\ req[r].op # "login"
    /\ RenewOrRemove(req[r].token)
    /\ IF Live(panelSessions, req[r].token)
       THEN req' = [req EXCEPT ![r].pc = "checked"]
       ELSE Answer(r, FALSE)
    /\ UNCHANGED <<clock, up, database, lockout, adminSessions, drawn, page>>

\* drop_session
Logout(r) ==
    /\ req[r].pc = "checked" /\ req[r].op = "logout"
    /\ panelSessions' = Drop(panelSessions, req[r].token)
    /\ Answer(r, TRUE)
    /\ UNCHANGED <<clock, up, database, lockout, adminSessions, drawn, page>>

\* Every route that asks for nothing more than the session: state, documents,
\* admit, reject, pairing-code, sweep, audit.
Refresh(r) ==
    /\ req[r].pc = "checked" /\ req[r].op = "refresh"
    /\ Answer(r, TRUE)
    /\ UNCHANGED <<clock, up, database, lockout, adminSessions, panelSessions, drawn, page>>

\* destroy: both PINs; only the first one has a lockout.  What follows the
\* PINs is in module Custody; here it is the flush at its end.
Destroy(r, p, d, saved) ==
    /\ req[r].pc = "checked" /\ req[r].op = "destroy"
    /\ TryPin(p)
    /\ LET both == PinAccepted(p) /\ mem.destruction # NoPin /\ d = mem.destruction
       IN  Answer(r, both /\ saved) /\ Flush(mem, both /\ saved)
    /\ UNCHANGED <<clock, up, mem, adminSessions, panelSessions, drawn, page>>

\* set_destruction_pin validates the token of the page against the sessions of
\* AdminService.
SetDestructionPin(r, new, saved) ==
    /\ req[r].pc = "checked" /\ req[r].op = "set_pin"
    /\ LET t == req[r].token
           valid == ValidateSession(t)
           done == valid /\ new \in StrongPins
       IN  /\ adminSessions' = IF valid THEN Put(adminSessions, t, clock + SessionTtl)
                               ELSE adminSessions
           /\ mem' = IF done THEN [mem EXCEPT !.destruction = new] ELSE mem
           /\ Flush(mem', done /\ saved)
           /\ Answer(r, done /\ saved)
    /\ UNCHANGED <<clock, up, lockout, panelSessions, drawn, page>>

Serve(r) ==
    \/ \E p \in Pins, saved \in BOOLEAN : Login(r, p, saved)
    \/ CheckSession(r)
    \/ Logout(r)
    \/ Refresh(r)
    \/ \E p, d \in Pins, saved \in BOOLEAN : Destroy(r, p, d, saved)
    \/ \E new \in Pins, saved \in BOOLEAN : SetDestructionPin(r, new, saved)

Next ==
    \/ Start
    \/ Stop
    \/ Tick
    \/ \E current, new \in Pins, saved \in BOOLEAN : ChangePin(current, new, saved)
    \/ \E r \in Requests : Receive(r) \/ Serve(r) \/ \E op \in Ops : Send(r, op)

Spec == Init /\ [][Next]_vars

-----------------------------------------------------------------------------
\* Consecutive wrong PINs cost time: since the first of them at least the sum
\* of all the doubling pauses has passed, or is still to be waited for, by
\* whichever of login, destroy and set_admin_pin they were tried.
GuessingIsSlow == failures > FreeFailures => lockedUntil >= first + owed

\* A session that was closed, that expired or that a restart forgot never opens
\* again, whatever requests are in flight: no later check or renewal of another
\* thread brings a spent token back.
DeadTokensStayDead ==
    [][\A t \in Token : t <= drawn /\ ~Live(panelSessions, t) => ~Live(panelSessions, t)']_vars

\* No destruction is ever authorized: the second PIN can only be set through the
\* panel, whose token AdminService never issued, whatever requests are in flight
\* and whichever sessions are open in either table.
DestructionIsNeverAuthorized == \A r \in Requests : req[r].op = "destroy" => ~req[r].ok
=============================================================================
