----------------------------- MODULE Deliveries -----------------------------
(***************************************************************************)
(* What the outbox promises to the handlers of its events.  An event that  *)
(* was written is delivered to a worker's handler, perhaps many times and  *)
(* to several workers at once, until a handler's answer settles it.  A     *)
(* worker may die at any time, and an answer that comes late may be        *)
(* ignored.  When deliveries are exclusive, a handler of an event starts   *)
(* only on a queued event, and no other delivery of the event starts or    *)
(* settles it while the handler is at work.                                *)
(*                                                                         *)
(* OutboxRuns implements this module; Publishing builds on it.             *)
(***************************************************************************)
CONSTANTS
    Events,     \* the rows of the outbox
    Workers,    \* the runs that may be at work at the same time
    NoEvent,    \* a worker without an event
    Exclusive   \* whether a delivery keeps the others out

VARIABLES
    queue,      \* each event: not written, queued, or settled
    job,        \* the event each worker was handed
    returned    \* the workers whose handler has answered

deliveryVars == <<queue, job, returned>>

WorksOn(w, x) == job[w] = x /\ w \notin returned

DeliveryInit ==
    /\ queue = [x \in Events |-> "ABSENT"]
    /\ job = [w \in Workers |-> NoEvent]
    /\ returned = {}

Write(x) ==
    /\ queue[x] = "ABSENT"
    /\ queue' = [queue EXCEPT ![x] = "QUEUED"]
    /\ UNCHANGED <<job, returned>>

\* A person puts a failed event back.
PutBack(x) ==
    /\ queue[x] = "FAILED"
    /\ queue' = [queue EXCEPT ![x] = "QUEUED"]
    /\ UNCHANGED <<job, returned>>

Deliver(w, x) ==
    /\ job[w] = NoEvent
    /\ queue[x] # "ABSENT"
    /\ Exclusive => queue[x] = "QUEUED" /\ \A v \in Workers : ~WorksOn(v, x)
    /\ job' = [job EXCEPT ![w] = x]
    /\ UNCHANGED <<queue, returned>>

Answer(w) ==
    /\ job[w] # NoEvent
    /\ w \notin returned
    /\ returned' = returned \cup {w}
    /\ UNCHANGED <<queue, job>>

\* The answer k settles the event, keeps it queued, or is ignored.
SettleAs(w, k) ==
    /\ w \in returned
    /\ \/ /\ queue[job[w]] = "QUEUED"
          /\ Exclusive => \A v \in Workers : ~WorksOn(v, job[w])
          /\ queue' = [queue EXCEPT ![job[w]] = k]
       \/ UNCHANGED queue
    /\ job' = [job EXCEPT ![w] = NoEvent]
    /\ returned' = returned \ {w}

\* The worker dies, with whatever its handler was doing.
Drop(w) ==
    /\ job' = [job EXCEPT ![w] = NoEvent]
    /\ returned' = returned \ {w}
    /\ UNCHANGED queue

Settlements == {"QUEUED", "DONE", "FAILED"}

DeliveryNext ==
    \/ \E x \in Events : Write(x) \/ PutBack(x)
    \/ \E w \in Workers, x \in Events : Deliver(w, x)
    \/ \E w \in Workers : Answer(w) \/ Drop(w)
    \/ \E w \in Workers, k \in Settlements : SettleAs(w, k)

DeliverySpec == DeliveryInit /\ [][DeliveryNext]_deliveryVars

=============================================================================
