----------------------------- MODULE Assistant -----------------------------
(***************************************************************************)
(* The AI features of the conference backend: the attendee routes that ask *)
(* con-ai, the admin routes that manage its engineers and profiles, the    *)
(* client that calls it through a managed gateway, and the token source    *)
(* that gets the gateway's token.                                          *)
(*                                                                         *)
(* con-ai authenticates nobody and is external: it applies a call or not,  *)
(* and the answer may be lost after it was applied.  The token endpoint    *)
(* may hang until its timeout; a failed fetch is remembered for            *)
(* FailureTTL, and the fetch runs under one mutex.                         *)
(***************************************************************************)
EXTENDS Naturals, FiniteSets

CONSTANTS Calls, Addresses,
          Kinds,         \* the requests that may arrive
          FetchTimeout, FailureTTL, RequestTimeout,
          WriteFloor, WriteSlack,   \* the server's write deadline, see WriteTimeout
          MaxClock       \* environment: how long the clock runs

ASSUME AssistantAssumption ==
    /\ FetchTimeout \in Nat \ {0} /\ FailureTTL \in Nat \ {0}
    /\ RequestTimeout \in Nat \ {0} /\ WriteSlack \in Nat /\ MaxClock \in Nat
    /\ WriteFloor \in Nat /\ FetchTimeout <= WriteFloor
    /\ Kinds \subseteq [op : {"ask", "profile", "create", "update", "delete", "read"},
                        caller : Addresses, admin : BOOLEAN, target : Addresses,
                        override : BOOLEAN]

VARIABLES clock,
          mu,          \* the call holding the token source, {} when none
          token,       \* a usable token is cached by the oauth2 source
          failure,     \* [at, kind] of the remembered failure, or NoFailure
          call,
          stored,      \* the emails con-ai holds a record of
          applied,     \* the calls con-ai applied a change for, and to whom
          audit        \* the audit trail

assistantVars == <<clock, mu, token, failure, call, stored, applied, audit>>

NoFailure == [at |-> 0, kind |-> "none"]
Attendee == {"ask", "profile"}
Writes == {"profile", "create", "update", "delete"}
Unused == [pc |-> "unused", op |-> "ask", caller |-> "none", admin |-> FALSE,
           target |-> "none", override |-> FALSE, start |-> 0, upstream |-> 0,
           heard |-> 0, out |-> 0]

\* HTTPWriteTimeout: the AI budget and a margin, but no less than the floor.
WriteTimeout == LET t == RequestTimeout + WriteSlack IN IF t > WriteFloor THEN t ELSE WriteFloor

-----------------------------------------------------------------------------
(* What a handler answers for a status of the AI hop or a failure.         *)

\* Mutant: only an expired token is taken for the gateway's answer.
unauthorizedOnly(status) == status = 401

gatewayRejectedCredentials(status) == status \in {401, 403}

\* A token endpoint refusing the credentials will not fix itself; one that
\* throttles, breaks or cannot be reached ("unreached") will.
tokenCredentialsRejected(kind) == kind = "rejected"

respondAIUpstreamError(cause) ==
    IF cause \in {"transport", "unreached"} THEN 503 ELSE 500

\* The profile route relays what con-ai says, unless it is the gateway
\* refusing this service.
RelayProfile(status) ==
    IF gatewayRejectedCredentials(status) THEN respondAIUpstreamError("status") ELSE status

respondAIAdminError(status) ==
    IF gatewayRejectedCredentials(status) THEN respondAIUpstreamError("status")
    ELSE IF status \in {400, 404, 409, 422} THEN status
    ELSE respondAIUpstreamError("status")

Outcome(op, status) ==
    IF op = "profile" THEN RelayProfile(status)
    ELSE IF status \in {200, 201, 204}
         THEN status
         ELSE IF op = "ask" THEN respondAIUpstreamError("status")
              ELSE respondAIAdminError(status)

Finish(c, out) ==
    call' = [call EXCEPT ![c].pc = "done", ![c].out = out, ![c].upstream = 0, ![c].start = 0,
                         ![c].heard = 0]

-----------------------------------------------------------------------------
(* Requests arriving.                                                      *)

\* A profile is stored under the caller's own address; any other in the body
\* is ignored.
PinnedEmail(op, caller, body) == IF op = "profile" THEN caller ELSE body

Arrival(k, target, out) ==
    [pc |-> IF out = 0 THEN "token" ELSE "done", op |-> k.op, caller |-> k.caller,
     admin |-> k.admin, target |-> target, override |-> k.override,
     start |-> clock, upstream |-> 0, heard |-> 0, out |-> out]

\* An attendee route of a feature that is switched off answers 503 and
\* never calls con-ai.
BeginAttendee(c, k, enabled) ==
    /\ call[c].pc = "unused" /\ k.op \in Attendee
    /\ call' = [call EXCEPT ![c] = Arrival(k, PinnedEmail(k.op, k.caller, k.target),
                                          IF enabled THEN 0 ELSE 503)]
    /\ UNCHANGED <<clock, mu, token, failure, stored, applied, audit>>

requireAIAdmin(k) == k.admin

BeginAdmin(c, k) ==
    /\ call[c].pc = "unused" /\ k.op \notin Attendee
    /\ call' = [call EXCEPT ![c] = Arrival(k, k.target, IF requireAIAdmin(k) THEN 0 ELSE 403)]
    /\ UNCHANGED <<clock, mu, token, failure, stored, applied, audit>>

-----------------------------------------------------------------------------
(* The token source, called by the transport before the request is sent.   *)

Remembered == failure # NoFailure /\ clock - failure.at < FailureTTL

TokenFailed(kind) ==
    respondAIUpstreamError(IF tokenCredentialsRejected(kind) THEN "rejected" ELSE kind)

Token(c) ==
    /\ call[c].pc = "token" /\ mu = {}
    /\ IF Remembered
       THEN Finish(c, TokenFailed(failure.kind)) /\ UNCHANGED <<mu, failure>>
       ELSE IF token
       THEN /\ call' = [call EXCEPT ![c].pc = "sent"]
            /\ failure' = NoFailure
            /\ UNCHANGED mu
       ELSE /\ call' = [call EXCEPT ![c].pc = "fetching", ![c].upstream = clock]
            /\ mu' = {c}
            /\ UNCHANGED failure
    /\ UNCHANGED <<clock, token, stored, applied, audit>>

FetchSucceeds(c) ==
    /\ call[c].pc = "fetching"
    /\ token' = TRUE /\ failure' = NoFailure /\ mu' = mu \ {c}
    /\ call' = [call EXCEPT ![c].pc = "sent", ![c].upstream = 0]
    /\ UNCHANGED <<clock, stored, applied, audit>>

FetchFails(c, kind) ==
    /\ call[c].pc = "fetching"
    /\ failure' = [at |-> clock, kind |-> kind] /\ mu' = mu \ {c}
    /\ Finish(c, TokenFailed(kind))
    /\ UNCHANGED <<clock, token, stored, applied, audit>>

\* The cached token reaches its expiry; it outlives by far the calls that
\* were waiting when it was fetched.
TokenExpires ==
    /\ token /\ token' = FALSE
    /\ \A c \in Calls : call[c].pc # "token"
    /\ UNCHANGED <<clock, mu, failure, call, stored, applied, audit>>

-----------------------------------------------------------------------------
(* con-ai and the gateway in front of it.                                  *)

\* The budget of a request runs from its arrival; what is sent later is given up at once.
InBudget(c) == clock <= call[c].start + RequestTimeout

Reply(c, status) == call' = [call EXCEPT ![c].pc = "answered", ![c].upstream = status]

\* The gateway refuses the token (401) or an application that is not subscribed (403); con-ai
\* refuses the input or fails.
Refused(c) ==
    /\ call[c].pc = "sent" /\ InBudget(c)
    /\ \E status \in {401, 403, 422, 500} : Reply(c, status)
    /\ UNCHANGED <<clock, mu, token, failure, stored, applied, audit>>

Apply(c, after) == stored' = after /\ applied' = applied \cup {[call |-> c, email |-> call[c].target]}
Leave == UNCHANGED <<stored, applied>>

Performed(c) ==
    LET r == call[c]
        held == r.target \in stored IN
    /\ r.pc = "sent" /\ InBudget(c)
    /\ CASE r.op \in {"ask", "read"} -> Reply(c, 200) /\ Leave
         [] r.op \in {"create", "profile"} ->
              /\ Reply(c, 201)
              /\ IF held /\ ~r.override THEN Leave ELSE Apply(c, stored \cup {r.target})
         [] r.op = "update" ->
              IF held THEN Reply(c, 200) /\ Apply(c, stored) ELSE Reply(c, 404) /\ Leave
         [] r.op = "delete" ->
              IF held THEN Reply(c, 204) /\ Apply(c, stored \ {r.target})
              ELSE Reply(c, 404) /\ Leave
    /\ UNCHANGED <<clock, mu, token, failure, audit>>

-----------------------------------------------------------------------------
(* The handler finishing.                                                  *)

\* The five admin writes record a change once con-ai has confirmed it.
auditAIAdminWrite(c) ==
    audit' = IF call[c].op \in Writes \ Attendee /\ call[c].upstream \in {200, 201, 204}
             THEN audit \cup {[call |-> c, op |-> call[c].op, email |-> call[c].target]}
             ELSE audit

\* The body has been read, within the budget too.
Answered(c) ==
    /\ call[c].pc = "answered"
    /\ Finish(c, Outcome(call[c].op, call[c].upstream))
    /\ auditAIAdminWrite(c)
    /\ UNCHANGED <<clock, mu, token, failure, stored, applied>>

\* Matches and O2Bar have their answer read and look every recommended attendee up, under no
\* budget but their own; a lookup that fails discards the answer.
BeginLookups(c) ==
    /\ call[c].pc = "answered" /\ call[c].op = "ask" /\ call[c].upstream = 200
    /\ call' = [call EXCEPT ![c] = [@ EXCEPT !.pc = "lookup", !.heard = clock]]
    /\ UNCHANGED <<clock, mu, token, failure, stored, applied, audit>>

LookupsEnd(c) ==
    /\ call[c].pc = "lookup"
    /\ Finish(c, 200) \/ Finish(c, 500)
    /\ UNCHANGED <<clock, mu, token, failure, stored, applied, audit>>

\* The connection fails, the budget runs out, or the body does not decode:
\* con-ai may or may not have applied the call.
ResponseLost(c) ==
    /\ call[c].pc \in {"sent", "answered"}
    /\ \E cause \in {"transport", "decode"} : Finish(c, respondAIUpstreamError(cause))
    /\ UNCHANGED <<clock, mu, token, failure, stored, applied, audit>>

\* Time passes in fetches and calls, each within its budget, and in lookups without one; nothing
\* waits for the mutex while it is free.
TimePasses ==
    /\ clock < MaxClock
    /\ \A c \in Calls :
         /\ call[c].pc = "token" => mu # {}
         /\ call[c].pc = "fetching" => clock < call[c].upstream + FetchTimeout
         /\ call[c].pc \in {"sent", "answered"} => clock < call[c].start + RequestTimeout
    /\ clock' = clock + 1
    /\ UNCHANGED <<mu, token, failure, call, stored, applied, audit>>

AssistantInit ==
    /\ clock = 0 /\ mu = {} /\ token = FALSE /\ failure = NoFailure
    /\ call = [c \in Calls |-> Unused]
    /\ stored \in SUBSET Addresses
    /\ applied = {} /\ audit = {}

Progress(c) ==
    \/ Token(c) \/ FetchSucceeds(c)
    \/ \E kind \in {"rejected", "unreached"} : FetchFails(c, kind)
    \/ Refused(c) \/ Performed(c) \/ Answered(c) \/ BeginLookups(c) \/ LookupsEnd(c)
    \/ ResponseLost(c)

AssistantNext ==
    \/ \E c \in Calls : Progress(c)
    \/ \E c \in Calls, k \in Kinds : (\E on \in BOOLEAN : BeginAttendee(c, k, on))
                                     \/ BeginAdmin(c, k)
    \/ TokenExpires
    \/ TimePasses

AssistantSpec == AssistantInit /\ [][AssistantNext]_assistantVars

-----------------------------------------------------------------------------
(* Properties.                                                             *)

AssistantTypeOK ==
    /\ mu = {c \in Calls : call[c].pc = "fetching"} /\ Cardinality(mu) <= 1
    /\ failure.kind \in {"none", "rejected", "unreached"}
    /\ failure.at \in 0..clock
    /\ \A c \in Calls : call[c].pc = "done" <=> call[c].out # 0

\* However many wait behind a token endpoint that hangs, and whatever the AI budget is, a call is
\* over before the server's write deadline cuts its connection (failCachingTokenSource,
\* config.HTTPWriteTimeout): late is only an answer whose own lookups outlasted the margin.
LateByLookupsOnly ==
    \A c \in Calls :
        call[c].pc \notin {"unused", "done"} /\ clock > call[c].start + WriteTimeout
            => call[c].pc = "lookup" /\ clock > call[c].heard + WriteSlack

\* A fault of this service's own credentials or of its gateway never tells
\* an authenticated caller to sign in again, nor that it lacks a right: 401
\* never, 403 only to a caller outside the admin roles.
CallerKeepsSession ==
    \A c \in Calls : call[c].pc = "done" =>
        /\ call[c].out # 401
        /\ call[c].out = 403 => call[c].op \notin Attendee /\ ~call[c].admin

\* Without an admin role a caller changes no record but its own, whatever
\* email its request carries (aiagent_profile.go, aiagent_admin.go).
OwnProfileOnly ==
    \A a \in applied : call[a.call].admin \/ a.email = call[a.call].caller

\* The audit trail tells of a removal or an update only when that very call changed the record it
\* names.  The converse does not hold: a change whose answer was lost is not recorded.
AuditNamesRealChanges ==
    \A a \in audit : a.op \in {"delete", "update"} =>
        [call |-> a.call, email |-> a.email] \in applied

\* A caller of the AI routes is not kept waiting by the token endpoint or con-ai, is not sent away
\* for a fault of this service, and changes nobody else's profile without the role for it; and what
\* the audit trail says of updates and removals happened.
CallerSafety ==
    LateByLookupsOnly /\ CallerKeepsSession /\ OwnProfileOnly /\ AuditNamesRealChanges
=============================================================================
