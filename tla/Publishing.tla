----------------------------- MODULE Publishing -----------------------------
(***************************************************************************)
(* "Amplify, share this for me": one employee asks amplify-api to share    *)
(* campaigns, and the handler of RepostRequested in amplify-jobs posts     *)
(* each share to LinkedIn as the employee.  Posting is not idempotent.     *)
(* The handler writes the marker PUBLISH_IN_FLIGHT before the call and     *)
(* records the result after it; every write of the share and of the        *)
(* connection is guarded by the version the writer read.                   *)
(*                                                                         *)
(* A share has rounds: asking again after a failure starts the next one.   *)
(* Each round is one RepostRequested event.  Employees share no state, so  *)
(* one of them is modelled.  Neither the lease nor the advisory lock of    *)
(* the runs is assumed: Deliveries may hand a round to several workers at  *)
(* once and again after it was settled.                                    *)
(***************************************************************************)
EXTENDS Integers, FiniteSets

CONSTANTS
    Campaigns,
    Targets,    \* what a share posts: a LinkedIn post and the kind of share
    Workers,    \* runs of amplify-jobs that may be at work at the same time
    Nothing,    \* NULL
    Exclusive,  \* whether the outbox delivers an event to one worker at a time
    MaxRounds,  \* environment: how often the employee asks for a campaign
    MaxTokens,  \* environment: how often the employee connects LinkedIn
    MaxVersion  \* environment: the version after which a share is not tried again

Rounds == 1..MaxRounds
Events == Campaigns \X Rounds

ASSUME PublishingAssumption ==
    /\ MaxRounds \in Nat /\ MaxTokens \in Nat /\ MaxVersion \in Nat /\ Exclusive \in BOOLEAN
    /\ Nothing \notin Events /\ Nothing \notin Targets

VARIABLES
    queue, job, returned,   \* the outbox, see Deliveries
    share,          \* the share request of each campaign
    connection,     \* the employee's LinkedIn connection
    asking,         \* shares asked for, the connection read as usable
    engaged,        \* targets with an engagement of the employee
    scoring,        \* EngagementRecorded events written for each target
    posts,          \* posts on LinkedIn, per round
    lost,           \* those of which LinkedIn's answer was lost
    unread,         \* those LinkedIn confirmed with a post id the adapter cannot use
    \* the handler of each worker
    step, copy, used, reason, outcome

INSTANCE Deliveries WITH NoEvent <- Nothing

rowVars == <<queue, job, returned>>
factVars == <<share, connection, asking, engaged, scoring, posts, lost, unread>>
handlerVars == <<step, copy, used, reason>>
vars == <<rowVars, factVars, handlerVars, outcome>>

\* DUPLICATE_ENGAGEMENT stands for PROVIDER_REJECTED with that error code: the post is live,
\* but the engagement is somebody else's.
Reasons == {"NEEDS_RECONNECT", "PROVIDER_REJECTED", "RETRIES_EXHAUSTED", "DUPLICATE_ENGAGEMENT"}
Answers == {"UNAUTHORIZED", "RETRYABLE", "REJECTED"}
Outcomes == {"DONE", "RETRY", "DEFER", "FAIL"}
Steps == {"share", "connection", "token", "mark", "call", "record", "duplicate",
          "clear", "revoke", "fail"}

-----------------------------------------------------------------------------
(***************************************************************************)
(* The share request.                                                      *)
(***************************************************************************)
NoShare == [round |-> 0, state |-> "NONE", reason |-> Nothing, target |-> Nothing,
            marker |-> FALSE, version |-> 0]

newShareRequest(t) == [NoShare EXCEPT !.round = 1, !.state = "QUEUED", !.target = t, !.version = 1]

\* The code keeps the post and takes the kind anew; a retry here may take any target.
retryShare(s, t) == [s EXCEPT !.round = @ + 1, !.state = "QUEUED", !.reason = Nothing,
                              !.target = t, !.marker = FALSE, !.version = @ + 1]

\* Mutant: no marker is written.
withInFlightUnmarked(s) == [s EXCEPT !.version = @ + 1]

withInFlight(s) == [s EXCEPT !.marker = TRUE, !.version = @ + 1]

\* The cleared share keeps the version the marker was written with.
withoutInFlight(s) == [s EXCEPT !.marker = FALSE]

markPublished(s) == [s EXCEPT !.state = "PUBLISHED", !.marker = FALSE, !.version = @ + 1]

markFailed(s, r) == [s EXCEPT !.state = "FAILED", !.reason = r, !.marker = FALSE, !.version = @ + 1]

\* Mutant: the update finds the row by its id alone.
UpdateAnyVersion(c, old, new) == share' = [share EXCEPT ![c] = new]

\* updateRow: the write of a row whose version is still the one that was read.
Update(c, old, new) ==
    /\ share[c].version = old.version
    /\ share' = [share EXCEPT ![c] = new]

-----------------------------------------------------------------------------
(***************************************************************************)
(* The connection.  USABLE stands for ACTIVE and EXPIRING.                 *)
(***************************************************************************)
ConnectionStates == {"NONE", "USABLE", "EXPIRED", "REVOKED", "REMOVED"}

canShare(conn) == conn.state = "USABLE"

connect(conn) == [state |-> "USABLE", token |-> conn.token + 1, version |-> conn.version + 1]
revoke(conn) == [conn EXCEPT !.state = "REVOKED", !.version = @ + 1]
remove(conn) == [conn EXCEPT !.state = "REMOVED", !.version = @ + 1]

\* Mutant: the connection is saved whatever its version is by now.
SaveConnectionAnyVersion(old, new) == connection' = new

SaveConnection(old, new) == connection.version = old.version /\ connection' = new

Init ==
    /\ DeliveryInit
    /\ share = [c \in Campaigns |-> NoShare]
    /\ connection = [state |-> "NONE", token |-> 0, version |-> 0]
    /\ asking = {}
    /\ engaged = {}
    /\ scoring = [t \in Targets |-> 0]
    /\ posts = [x \in Events |-> 0]
    /\ lost = [x \in Events |-> 0]
    /\ unread = [x \in Events |-> 0]
    /\ step = [w \in Workers |-> "share"]
    /\ copy = [w \in Workers |-> NoShare]
    /\ used = [w \in Workers |-> Nothing]
    /\ reason = [w \in Workers |-> Nothing]
    /\ outcome = [w \in Workers |-> "DONE"]

-----------------------------------------------------------------------------
(***************************************************************************)
(* The employee.  A read followed by a version-guarded write either takes  *)
(* effect as one step or has no effect.                                    *)
(***************************************************************************)

\* completeConnection, removeConnection, and the token's expiry.
ConnectionChanges ==
    /\ \/ connection.token < MaxTokens /\ SaveConnection(connection, connect(connection))
       \/ connection.state \notin {"NONE", "REMOVED"} /\ SaveConnection(connection, remove(connection))
       \/ canShare(connection) /\ connection' = [connection EXCEPT !.state = "EXPIRED"]
    /\ UNCHANGED <<rowVars, share, asking, engaged, scoring, posts, lost, unread, handlerVars, outcome>>

\* amplify-api reads the connection first.
AskShare(c) ==
    /\ canShare(connection)
    /\ asking' = asking \cup {c}
    /\ UNCHANGED <<rowVars, share, connection, engaged, scoring, posts, lost, unread, handlerVars,
                   outcome>>

\* requestShare: the first round inserts the row, a round after a failure updates it; the
\* event is written in the same transaction.
RequestShare(c) ==
    /\ c \in asking
    /\ asking' = asking \ {c}
    /\ \/ \E t \in Targets :
            LET new == IF share[c].state = "NONE" THEN newShareRequest(t) ELSE retryShare(share[c], t)
            IN  /\ share[c].state \in {"NONE", "FAILED"}
                /\ new.round \in Rounds
                /\ Update(c, share[c], new)
                /\ Write(<<c, new.round>>)
       \/ share[c].state \in {"QUEUED", "PUBLISHED"} /\ UNCHANGED <<share, rowVars>>
    /\ UNCHANGED <<connection, engaged, scoring, posts, lost, unread, handlerVars, outcome>>

-----------------------------------------------------------------------------
(***************************************************************************)
(* handleRepostRequested, one action per read or write that another        *)
(* process can see.                                                        *)
(***************************************************************************)

Forget(w) ==
    /\ step' = [step EXCEPT ![w] = "share"]
    /\ copy' = [copy EXCEPT ![w] = NoShare]
    /\ used' = [used EXCEPT ![w] = Nothing]
    /\ reason' = [reason EXCEPT ![w] = Nothing]

Reply(w, k) ==
    /\ Answer(w)
    /\ Forget(w)
    /\ outcome' = [outcome EXCEPT ![w] = k]

\* Mutant: a failed write is logged and the row is acknowledged.
ErrorSwallowed(w) == Reply(w, "DONE")

\* dispatch: an error is retried, and fails the row on the last attempt.
Error(w) == Reply(w, "RETRY") \/ Reply(w, "FAIL")

Goto(w, s) == step' = [step EXCEPT ![w] = s] /\ UNCHANGED <<rowVars, outcome>>

GoOn(w, s) == Goto(w, s) /\ UNCHANGED <<copy, used, reason>>

WithCopy(w, s, a) == Goto(w, s) /\ copy' = [copy EXCEPT ![w] = a] /\ UNCHANGED <<used, reason>>

GoFail(w, r) ==
    /\ Goto(w, "fail")
    /\ reason' = [reason EXCEPT ![w] = r]
    /\ UNCHANGED <<copy, used>>

At(w, s) == job[w] # Nothing /\ w \notin returned /\ step[w] = s

\* The settings and the adapters of the run may make it defer every share.
ReadShare(w) ==
    /\ At(w, "share")
    /\ \E c \in Campaigns, k \in Rounds :
        /\ job[w] = <<c, k>>
        /\ \/ Reply(w, "DEFER")
           \/ Error(w)
           \/ share[c].round # k /\ Reply(w, "DONE")            \* superseded
           \/ share[c].round = k /\ share[c].state # "QUEUED" /\ Reply(w, "DONE")
           \/ share[c].round = k /\ share[c].state = "QUEUED" /\ share[c].marker /\ Reply(w, "FAIL")
           \/ /\ share[c].round = k /\ share[c].state = "QUEUED" /\ ~share[c].marker
              /\ WithCopy(w, "connection", share[c])
    /\ UNCHANGED factVars

ReadConnection(w) ==
    /\ At(w, "connection")
    /\ \/ Error(w)
       \/ ~canShare(connection) /\ GoFail(w, "NEEDS_RECONNECT")
       \/ /\ canShare(connection)
          /\ Goto(w, "token")
          /\ used' = [used EXCEPT ![w] = connection]
          /\ UNCHANGED <<copy, reason>>
    /\ UNCHANGED factVars

\* A reconnect or a removal deletes the old token row.  A key may be missing, and the run
\* may have used up its ceiling of posts.
TokenGone(conn) == connection.token # conn.token \/ connection.state = "REMOVED"

OpenToken(w) ==
    /\ At(w, "token")
    /\ \/ Error(w)
       \/ TokenGone(used[w]) /\ GoFail(w, "NEEDS_RECONNECT")
       \/ /\ ~TokenGone(used[w])
          /\ \/ Reply(w, "RETRY") \/ GoFail(w, "RETRIES_EXHAUSTED")
             \/ Reply(w, "DEFER")
             \/ GoOn(w, "mark")
    /\ UNCHANGED factVars

\* The marker is durable before the call.
SaveMarker(w) ==
    /\ At(w, "mark") /\ copy[w].version < MaxVersion
    /\ \E c \in Campaigns : LET marked == withInFlight(copy[w]) IN
        /\ job[w][1] = c
        /\ \/ Update(c, copy[w], marked) /\ (WithCopy(w, "call", marked) \/ Error(w))
           \/ UNCHANGED share /\ Error(w)
    /\ UNCHANGED <<connection, asking, engaged, scoring, posts, lost, unread>>

\* LinkedIn's answers: accepted; a refusal; accepted with an unusable post id, which the
\* adapter reports as BAD_RESPONSE; or none that says whether the post is live.
publishShare(w, x) ==
    \/ /\ posts' = [posts EXCEPT ![x] = @ + 1]
       /\ GoOn(w, "record")
       /\ UNCHANGED <<lost, unread>>
    \/ /\ Goto(w, "clear")
       /\ \E a \in Answers : reason' = [reason EXCEPT ![w] = a]
       /\ UNCHANGED <<posts, lost, unread, copy, used>>
    \/ /\ posts' = [posts EXCEPT ![x] = @ + 1]
       /\ unread' = [unread EXCEPT ![x] = @ + 1]
       /\ Goto(w, "clear")
       /\ reason' = [reason EXCEPT ![w] = "REJECTED"]
       /\ UNCHANGED <<lost, copy, used>>
    \/ /\ posts' = [posts EXCEPT ![x] = @ + 1]
       /\ lost' = [lost EXCEPT ![x] = @ + 1]
       /\ Goto(w, "clear")
       /\ reason' = [reason EXCEPT ![w] = "RETRYABLE"]
       /\ UNCHANGED <<unread, copy, used>>

Call(w) ==
    /\ At(w, "call")
    /\ publishShare(w, job[w])
    /\ UNCHANGED <<share, connection, asking, engaged, scoring>>

\* Mutant: the engagement table has no unique key.
EngagementTakenNever(t) == FALSE

\* engagement_once_uk
EngagementTaken(t) == t \in engaged

\* recordPublish: the engagement, the published share and EngagementRecorded, in one
\* transaction.  An error is final: retrying would post again.  The post's id may belong to
\* somebody else's engagement already.
RecordPublish(w) ==
    /\ At(w, "record")
    /\ \E c \in Campaigns : LET t == copy[w].target IN
        /\ job[w][1] = c
        /\ \/ /\ ~EngagementTaken(t)
              /\ Update(c, copy[w], markPublished(copy[w]))
              /\ engaged' = engaged \cup {t}
              /\ scoring' = [scoring EXCEPT ![t] = @ + 1]
              /\ Reply(w, "DONE") \/ Reply(w, "FAIL")
           \/ /\ EngagementTaken(t) /\ GoOn(w, "duplicate")
              /\ UNCHANGED <<share, engaged, scoring>>
           \/ /\ ~EngagementTaken(t) /\ GoFail(w, "DUPLICATE_ENGAGEMENT")
              /\ UNCHANGED <<share, engaged, scoring>>
           \/ Reply(w, "FAIL") /\ UNCHANGED <<share, engaged, scoring>>
    /\ UNCHANGED <<connection, asking, posts, lost, unread>>

\* recordDuplicatePublish: the share is settled on the engagement the employee has.
RecordDuplicate(w) ==
    /\ At(w, "duplicate")
    /\ \E c \in Campaigns :
        /\ job[w][1] = c
        /\ \/ Update(c, copy[w], markPublished(copy[w])) /\ (Reply(w, "DONE") \/ Error(w))
           \/ UNCHANGED share /\ Error(w)
    /\ UNCHANGED <<connection, asking, engaged, scoring, posts, lost, unread>>

\* handleLinkedInFailure: the marker is cleared, then the answer decides.
AfterRefusal(w, cleared) ==
    LET Failing(r) == /\ Goto(w, "fail")
                      /\ copy' = [copy EXCEPT ![w] = cleared]
                      /\ reason' = [reason EXCEPT ![w] = r]
                      /\ UNCHANGED used
    IN
    \/ reason[w] = "UNAUTHORIZED" /\ WithCopy(w, "revoke", cleared)
    \/ reason[w] = "RETRYABLE" /\ (Reply(w, "RETRY") \/ Failing("RETRIES_EXHAUSTED"))
    \/ reason[w] = "REJECTED" /\ Failing("PROVIDER_REJECTED")

ClearMarker(w) ==
    /\ At(w, "clear")
    /\ \E c \in Campaigns : LET cleared == withoutInFlight(copy[w]) IN
        /\ job[w][1] = c
        /\ \/ Update(c, copy[w], cleared) /\ (AfterRefusal(w, cleared) \/ Error(w))
           \/ UNCHANGED share /\ Error(w)
    /\ UNCHANGED <<connection, asking, engaged, scoring, posts, lost, unread>>

\* A 401 revokes the connection the handler read.
RevokeConnection(w) ==
    /\ At(w, "revoke")
    /\ \/ SaveConnection(used[w], revoke(used[w])) /\ (GoFail(w, "NEEDS_RECONNECT") \/ Error(w))
       \/ UNCHANGED connection /\ Error(w)
    /\ UNCHANGED <<share, asking, engaged, scoring, posts, lost, unread>>

FailShare(w) ==
    /\ At(w, "fail")
    /\ \E c \in Campaigns :
        /\ job[w][1] = c
        /\ \/ /\ Update(c, copy[w], markFailed(copy[w], reason[w]))
              /\ Reply(w, "DONE") \/ Error(w)
           \/ UNCHANGED share /\ Error(w)
    /\ UNCHANGED <<connection, asking, engaged, scoring, posts, lost, unread>>

HandlerStep(w) ==
    \/ ReadShare(w) \/ ReadConnection(w) \/ OpenToken(w) \/ SaveMarker(w) \/ Call(w)
    \/ RecordPublish(w) \/ RecordDuplicate(w) \/ ClearMarker(w) \/ RevokeConnection(w)
    \/ FailShare(w)

-----------------------------------------------------------------------------
Start(w) ==
    /\ \E x \in Events : Deliver(w, x)
    /\ UNCHANGED <<factVars, handlerVars, outcome>>

\* Mutant: the outcome is written as the row's status.
RowAfterRaw(k) == k

\* The outbox row after the handler's outcome; a RETRY comes only before the last attempt.
RowAfter(k) == CASE k = "DONE" -> "DONE" [] k = "FAIL" -> "FAILED" [] OTHER -> "QUEUED"

Settle(w) ==
    /\ SettleAs(w, RowAfter(outcome[w]))
    /\ outcome' = [outcome EXCEPT ![w] = "DONE"]
    /\ UNCHANGED <<factVars, handlerVars>>

Die(w) ==
    /\ job[w] # Nothing
    /\ Drop(w)
    /\ Forget(w)
    /\ outcome' = [outcome EXCEPT ![w] = "DONE"]
    /\ UNCHANGED factVars

Next ==
    \/ ConnectionChanges
    \/ \E c \in Campaigns : AskShare(c) \/ RequestShare(c)
    \/ \E w \in Workers : Start(w) \/ HandlerStep(w) \/ Settle(w) \/ Die(w)

Spec == Init /\ [][Next]_vars

-----------------------------------------------------------------------------
(***************************************************************************)
(* Properties.                                                             *)
(***************************************************************************)
ShareRows == [round : Nat, state : {"NONE", "QUEUED", "PUBLISHED", "FAILED"},
              reason : Reasons \cup {Nothing}, target : Targets \cup {Nothing},
              marker : BOOLEAN, version : Nat]
Connections == [state : ConnectionStates, token : Nat, version : Nat]

TypeOK ==
    /\ queue \in [Events -> {"ABSENT", "QUEUED", "DONE", "FAILED"}]
    /\ job \in [Workers -> Events \cup {Nothing}]
    /\ returned \subseteq Workers
    /\ share \in [Campaigns -> ShareRows]
    /\ connection \in Connections
    /\ asking \subseteq Campaigns
    /\ engaged \subseteq Targets
    /\ scoring \in [Targets -> Nat]
    /\ posts \in [Events -> Nat]
    /\ lost \in [Events -> Nat]
    /\ unread \in [Events -> Nat]
    /\ step \in [Workers -> Steps]
    /\ copy \in [Workers -> ShareRows]
    /\ used \in [Workers -> Connections \cup {Nothing}]
    /\ reason \in [Workers -> Reasons \cup Answers \cup {Nothing}]
    /\ outcome \in [Workers -> Outcomes]

\* A round posts at most once, but for the posts the adapter reported as errors: no crash,
\* failed write, redelivery or second worker posts again (PUBLISH_IN_FLIGHT).
OnePostPerRound == \A x \in Events : posts[x] <= 1 + lost[x] + unread[x]

\* What the dashboards and the ledger build on: a published share is a post of its round with
\* an engagement, and each engagement is handed to scoring exactly once.
PublishedIsRecorded ==
    /\ \A c \in Campaigns : share[c].state = "PUBLISHED" => /\ posts[<<c, share[c].round>>] > 0
                                                           /\ share[c].target \in engaged
    /\ \A t \in Targets : scoring[t] = IF t \in engaged THEN 1 ELSE 0

\* A round whose event was acknowledged is over: published, failed, or asked for again.
DoneIsSettled ==
    \A c \in Campaigns, k \in Rounds :
        queue[<<c, k>>] = "DONE" => \/ share[c].round > k
                                    \/ share[c].state \in {"PUBLISHED", "FAILED"}

\* A settled round stays settled whatever late handler writes: PUBLISHED for good, FAILED
\* until the employee asks again.
SettledRoundStays ==
    [][\A c \in Campaigns :
        /\ share[c].state = "PUBLISHED" => share'[c].state = "PUBLISHED"
        /\ share[c].state = "FAILED" => \/ share'[c].state = "FAILED"
                                        \/ share'[c].round = share[c].round + 1]_vars

\* A 401 revokes the token it was an answer to, never one from a later reconnect.
RevokesTheTokenUsed ==
    [][connection'.state = "REVOKED" /\ connection.state # "REVOKED"
        => \E w \in Workers : At(w, "revoke") /\ used[w].token = connection.token]_vars

\* handlers.bal:355 says of an error answer "so it did not post": a round that failed as
\* rejected has no post but those whose answer was lost.
RejectedDidNotPost ==
    \A c \in Campaigns : share[c].reason = "PROVIDER_REJECTED" =>
        LET x == <<c, share[c].round>> IN posts[x] <= lost[x]

=============================================================================
