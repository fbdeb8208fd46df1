------------------------------ MODULE Deliveries ------------------------------
(***************************************************************************)
(* What the vault promises about the deliveries of the devices: one that a *)
(* device was told about is in the queue; it waits there until it is       *)
(* admitted or rejected, once and for all, with the content and for the    *)
(* place it came with; and the documents are exactly the deliveries        *)
(* admitted, each in a place of its own.                                   *)
(*                                                                         *)
(* As in DocumentLifecycle, one save may commit what several operations    *)
(* have left in memory, so a delivery may be new and decided in one save.  *)
(***************************************************************************)
CONSTANTS
  Subs,         \* submission_ids
  Contents,     \* contents delivered
  Paths         \* places in the vault tree

VARIABLES
  queue,        \* the deliveries that were saved, those decided included
  documents,    \* the documents of the vault: place and content
  told          \* the deliveries that a device has just been told of

vars == <<queue, documents, told>>

Delivery == [state : {"pending", "admitted", "rejected"}, sha : Contents, place : Paths]

Admitted(q) == {s \in DOMAIN q : q[s].state = "admitted"}

\* What may become of the queue q: deliveries arrive and are decided.
Follows(q, p) ==
  /\ DOMAIN q \subseteq DOMAIN p
  /\ \A s \in DOMAIN q : /\ p[s].sha = q[s].sha /\ p[s].place = q[s].place
                         /\ q[s].state # "pending" => p[s] = q[s]

Init ==
  /\ queue \in [{} -> Delivery]
  /\ documents = {}
  /\ told = {}

\* One save of the database, and the answer to whoever waited for it.
Save ==
  /\ DOMAIN queue' \subseteq Subs /\ queue' \in [DOMAIN queue' -> Delivery]
  /\ Follows(queue, queue')
  /\ \A s, t \in Admitted(queue') : queue'[s].place = queue'[t].place => s = t
  /\ documents' = {[place |-> queue'[s].place, sha |-> queue'[s].sha] : s \in Admitted(queue')}
  /\ told' \subseteq DOMAIN queue'

\* A device goes on to something else.
GoOn ==
  /\ told' \subseteq told
  /\ UNCHANGED <<queue, documents>>

Next == Save \/ GoOn

Spec == Init /\ [][Next]_vars

=============================================================================
