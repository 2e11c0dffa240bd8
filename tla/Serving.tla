------------------------------ MODULE Serving ------------------------------
(***************************************************************************)
(* One process of the conference backend serving requests: the chain every *)
(* request goes through (Logger, Analytics, Recovery, Auth, FeatureGate,   *)
(* ETag, the handler), the usage event the Analytics middleware records,   *)
(* the queue of events the Moesif SDK sends in the background, and the     *)
(* shutdown of main.go.                                                    *)
(*                                                                         *)
(* gin's c.Writer is the real writer until ETag puts a buffer in front of  *)
(* it; a panic unwinds past every middleware that did not defer.  The      *)
(* queue and its sender are the SDK's, modelled from how Record and Close  *)
(* use them.                                                               *)
(***************************************************************************)
EXTENDS Naturals, FiniteSets, Sequences, SequencesExt

CONSTANTS Hits,
          Pages,         \* response bodies, the validators of ETag
          QueueSize

ASSUME ServingAssumption == QueueSize \in Nat \ {0}

VARIABLES req,           \* the requests
          events,        \* every event recorded, kept to be compared
          queue,         \* the SDK's channel
          sent, dropped, lost,
          sender,        \* the SDK's flush loop: idle, or posting a batch
          batch,
          process        \* serving, draining, flushing, closing, exited

servingVars == <<req, events, queue, sent, dropped, lost, sender, batch, process>>

NoBody == "none"

\* Routes differ by what the chain does with them.
Routes == [tracked : BOOLEAN, open : BOOLEAN, cacheable : BOOLEAN]

\* real: the status and body the real writer holds, and whether its header
\* has gone out; buf: what the ETag buffer holds while it stands in front.
NewRequest == [pc |-> "new", route |-> [tracked |-> FALSE, open |-> FALSE, cacheable |-> FALSE],
               match |-> NoBody, user |-> FALSE, buffered |-> FALSE,
               panicked |-> FALSE, dbConn |-> FALSE,
               status |-> 200, body |-> NoBody, sentHeader |-> FALSE,
               bufStatus |-> 200, bufBody |-> NoBody]

\* Mutant: the status of whichever writer stood in front last.
FrontStatus(r) == IF r.route.cacheable THEN r.bufStatus ELSE r.status

\* c.Writer.Status(): the buffer embeds the real writer and does not hide it.
Status(r) == r.status

\* c.JSON and c.AbortWithStatus through whichever writer stands in front.
\* WriteHeaderNow reaches the real writer either way.
Write(r, status, body) ==
    IF r.buffered THEN [r EXCEPT !.bufStatus = status, !.bufBody = body]
    ELSE [r EXCEPT !.status = status, !.body = body, !.sentHeader = TRUE]
AbortWithStatus(r, status) ==
    IF r.buffered THEN [r EXCEPT !.bufStatus = status, !.sentHeader = TRUE]
    ELSE [r EXCEPT !.status = status, !.sentHeader = TRUE]

-----------------------------------------------------------------------------
(* The chain, from the outside in.                                         *)

Arrive(q, route, match) ==
    /\ process = "serving" /\ req[q].pc = "new"
    /\ req' = [req EXCEPT ![q] = [NewRequest EXCEPT !.pc = IF route.open THEN "handler"
                                                           ELSE "auth",
                                                    !.route = route, !.match = match]]
    /\ UNCHANGED <<events, queue, sent, dropped, lost, sender, batch, process>>

\* Auth aborts with 401 or publishes the caller.
Auth(q) ==
    /\ req[q].pc = "auth"
    /\ \/ req' = [req EXCEPT ![q] = [Write(@, 401, NoBody) EXCEPT !.pc = "record"]]
       \/ req' = [req EXCEPT ![q].user = TRUE, ![q].pc = "gate"]
    /\ UNCHANGED <<events, queue, sent, dropped, lost, sender, batch, process>>

\* FeatureGate refuses a disabled feature; a cacheable route then goes
\* through ETag, which puts its buffer in front.
FeatureGateAnswers(q) ==
    /\ req[q].pc = "gate"
    /\ \/ req' = [req EXCEPT ![q] = [Write(@, 503, NoBody) EXCEPT !.pc = "record"]]
       \/ req' = [req EXCEPT ![q].pc = "handler",
                              ![q].buffered = req[q].route.cacheable]
    /\ UNCHANGED <<events, queue, sent, dropped, lost, sender, batch, process>>

\* The handler takes a connection of the pool for as long as it works.
Handle(q) ==
    /\ req[q].pc = "handler"
    /\ req' = [req EXCEPT ![q].pc = "working", ![q].dbConn = TRUE]
    /\ UNCHANGED <<events, queue, sent, dropped, lost, sender, batch, process>>

Answer(q, status, body) ==
    /\ req[q].pc = "working"
    /\ req' = [req EXCEPT ![q] = [Write(@, status, body) EXCEPT
                                    !.pc = IF req[q].buffered THEN "etag" ELSE "record",
                                    !.dbConn = FALSE]]
    /\ UNCHANGED <<events, queue, sent, dropped, lost, sender, batch, process>>

\* The panic skips the rest of ETag, which has no deferred part: c.Writer
\* is still the buffer when Recovery aborts with 500.
Panic(q) ==
    /\ req[q].pc = "working"
    /\ req' = [req EXCEPT ![q] = [AbortWithStatus(@, 500) EXCEPT
                                    !.pc = "record", !.panicked = TRUE, !.dbConn = FALSE]]
    /\ UNCHANGED <<events, queue, sent, dropped, lost, sender, batch, process>>

\* Only a 200 with a body gets a validator; a matching one is answered 304.
ETag(q) ==
    /\ req[q].pc = "etag"
    /\ req' = [req EXCEPT ![q] =
         LET r == [@ EXCEPT !.buffered = FALSE, !.pc = "record", !.sentHeader = TRUE]
         IN  IF r.bufStatus = 200 /\ r.bufBody # NoBody /\ r.match = r.bufBody
             THEN [r EXCEPT !.status = 304]
             ELSE [r EXCEPT !.status = r.bufStatus, !.body = r.bufBody]]
    /\ UNCHANGED <<events, queue, sent, dropped, lost, sender, batch, process>>

-----------------------------------------------------------------------------
(* Analytics and the SDK.                                                  *)

Event(q) == [req |-> q, status |-> Status(req[q]), user |-> req[q].user]

\* Mutant: the queue has no end.
QueueUnbounded(e) == queue' = Append(queue, e) /\ UNCHANGED dropped

\* Record never waits: a full queue drops the event.
QueueEvent(e) ==
    IF Len(queue) < QueueSize
    THEN queue' = Append(queue, e) /\ UNCHANGED dropped
    ELSE dropped' = dropped \cup {e} /\ UNCHANGED queue

Analytics(q) ==
    /\ req[q].pc = "record"
    /\ req' = [req EXCEPT ![q].pc = "done"]
    /\ IF req[q].route.tracked
       THEN events' = Append(events, Event(q)) /\ QueueEvent(Event(q))
       ELSE UNCHANGED <<events, queue, dropped>>
    /\ UNCHANGED <<sent, lost, sender, batch, process>>

\* On its timer, or when asked to close, the SDK posts what is queued.
Flush ==
    /\ sender = "idle" /\ queue # <<>> /\ process # "exited"
    /\ sender' = "posting" /\ batch' = queue /\ queue' = <<>>
    /\ UNCHANGED <<req, events, sent, dropped, lost, process>>

\* A batch the collector does not take is not sent again.
Posted ==
    /\ sender = "posting" /\ process # "exited"
    /\ \/ sent' = sent \cup ToSet(batch) /\ UNCHANGED lost
       \/ lost' = lost \cup ToSet(batch) /\ UNCHANGED sent
    /\ sender' = "idle" /\ batch' = <<>>
    /\ UNCHANGED <<req, events, queue, dropped, process>>

-----------------------------------------------------------------------------
(* main.go: stop listening, let requests finish, flush, close the pool.    *)

InFlight == {q \in Hits : req[q].pc \notin {"new", "done"}}

Signal ==
    /\ process = "serving" /\ process' = "draining"
    /\ UNCHANGED <<req, events, queue, sent, dropped, lost, sender, batch>>

\* srv.Shutdown returns when nothing is in flight, or after its ten seconds.
ShutdownReturns ==
    /\ process = "draining" /\ process' = "flushing"
    /\ UNCHANGED <<req, events, queue, sent, dropped, lost, sender, batch>>

\* Mutant: Close waits until the sender is done.
CloseWaiting ==
    /\ process = "flushing" /\ sender = "idle" /\ queue = <<>> /\ process' = "closing"
    /\ UNCHANGED <<req, events, queue, sent, dropped, lost, sender, batch>>

\* Close gives the SDK's handshake five seconds and goes on without it.
CloseRecorder ==
    /\ process = "flushing" /\ process' = "closing"
    /\ UNCHANGED <<req, events, queue, sent, dropped, lost, sender, batch>>

\* pool.Close waits for the connections in use; then the process is gone
\* and what was still queued with it.
ClosePool ==
    /\ process = "closing"
    /\ \A q \in Hits : ~req[q].dbConn
    /\ process' = "exited"
    /\ lost' = lost \cup ToSet(queue) \cup ToSet(batch)
    /\ queue' = <<>> /\ batch' = <<>> /\ sender' = "idle"
    /\ UNCHANGED <<req, events, sent, dropped>>

Step(q) ==
    /\ process # "exited"
    /\ \/ Auth(q) \/ FeatureGateAnswers(q) \/ Handle(q) \/ Panic(q) \/ ETag(q)
       \/ Analytics(q)
       \/ \E b \in Pages : Answer(q, 200, b)
       \/ \E b \in Pages : Answer(q, 404, b)

Shutdown == Signal \/ ShutdownReturns \/ CloseRecorder \/ ClosePool

ServingInit ==
    /\ req = [q \in Hits |-> NewRequest]
    /\ events = <<>> /\ queue = <<>> /\ batch = <<>>
    /\ sent = {} /\ dropped = {} /\ lost = {}
    /\ sender = "idle" /\ process = "serving"

ServingNext ==
    \/ \E q \in Hits : Step(q)
    \/ \E q \in Hits, r \in Routes, m \in Pages \cup {NoBody} :
          (r.open => ~r.cacheable) /\ (~r.cacheable => m = NoBody) /\ Arrive(q, r, m)
    \/ Flush \/ Posted \/ Shutdown

\* Handlers are bounded by their own timeouts, the shutdown runs on after
\* the signal, and the flush loop has its ticker; the collector may never
\* answer.
ServingFairness ==
    /\ \A q \in Hits : WF_servingVars(Step(q))
    /\ WF_servingVars(Flush)
    /\ WF_servingVars(ShutdownReturns \/ CloseRecorder \/ ClosePool)

ServingSpec == ServingInit /\ [][ServingNext]_servingVars /\ ServingFairness

-----------------------------------------------------------------------------
(* Properties.                                                             *)

ServingTypeOK ==
    /\ \A q \in Hits :
         /\ req[q].pc \in {"new", "auth", "gate", "handler", "working", "etag",
                           "record", "done"}
         /\ req[q].status \in {200, 304, 401, 404, 500, 503}
         /\ req[q].pc = "etag" => req[q].buffered
    /\ Len(queue) <= QueueSize
    /\ process \in {"serving", "draining", "flushing", "closing", "exited"}
    /\ sender \in {"idle", "posting"} /\ (sender = "idle" => batch = <<>>)

\* A tracked request leaves exactly one event whichever middleware ended
\* it, a panic or a refusal included; the event carries the status that was
\* answered, and the caller exactly when Auth let it through
\* (middleware/analytics.go).
RecordedAsAnswered ==
    \A q \in Hits :
        LET mine == {i \in DOMAIN events : events[i].req = q} IN
        /\ Cardinality(mine) = (IF req[q].pc = "done" /\ req[q].route.tracked THEN 1 ELSE 0)
        /\ \A i \in mine : /\ events[i].status = req[q].status
                           /\ events[i].user = (~req[q].route.open /\ req[q].status # 401)

\* No event is counted twice or forgotten: it is queued, being posted,
\* sent, dropped by a full queue, or lost with a batch or the process.
EventsAccounted ==
    /\ ToSet(events) = ToSet(queue) \cup ToSet(batch) \cup sent \cup dropped \cup lost
    /\ Len(events) = Len(queue) + Len(batch) + Cardinality(sent)
                       + Cardinality(dropped) + Cardinality(lost)

\* A caller revalidating gets 304 only for a successful answer it already
\* holds, and otherwise all of what its handler wrote, on every route that
\* ETag buffers (middleware/cache.go).
NotModifiedIsTrue ==
    \A q \in Hits : req[q].pc = "done" /\ req[q].route.cacheable /\ ~req[q].panicked =>
        /\ req[q].status = 304 => req[q].bufStatus = 200 /\ req[q].match = req[q].bufBody
        /\ req[q].status \in {200, 404} => /\ req[q].status = req[q].bufStatus
                                          /\ req[q].body = req[q].bufBody

\* A stop always completes, however long the collector or a drain takes.
StopCompletes == (process = "draining") ~> (process = "exited")

\* As long as the collector keeps answering, the queue is emptied again and
\* again: no event waits for ever for others to follow it.
EventsLeave == []<>(sender = "idle") => []<>(queue = <<>>)

\* What a caller is answered and what is recorded of it agree: the status and the caller of every event,
\* the number of events, and the validators of cached answers.
AnswersAreTrue == RecordedAsAnswered /\ EventsAccounted /\ NotModifiedIsTrue

\* A process that is told to stop exits, and events leave the queue while the collector answers.
ShutdownDrains == StopCompletes /\ EventsLeave
=============================================================================
