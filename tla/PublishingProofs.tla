--------------------------- MODULE PublishingProofs ---------------------------
(***************************************************************************)
(* Proofs about Publishing: for any campaigns, targets and workers, and    *)
(* whether deliveries are exclusive or not, a round of a share posts at    *)
(* most once, a settled round stays settled, an acknowledged round is      *)
(* over, a published share is recorded once, and a 401 revokes only the    *)
(* token it was an answer to.                                              *)
(***************************************************************************)
EXTENDS Publishing, TLAPS

USE PublishingAssumption

-----------------------------------------------------------------------------
(***************************************************************************)
(* The inductive invariant.                                                *)
(***************************************************************************)

\* Worker w has read the share of campaign c and not answered yet.
OnShare(w, c) == step[w] # "share" /\ job[w] # Nothing /\ job[w][1] = c

Marked == {"call", "record", "duplicate", "clear"}
Unmarked == {"connection", "token", "mark", "revoke"}
UsesToken == {"token", "mark", "call", "record", "duplicate", "clear", "revoke"}

\* A worker without an event, or whose handler answered, is at no step of the handler.
Idle ==
    /\ \A w \in Workers : job[w] = Nothing \/ w \in returned => step[w] = "share"
    /\ \A w \in returned : job[w] # Nothing

\* Only written events are handed out, and an event is written with its round.
EventsWritten ==
    /\ \A w \in Workers : job[w] # Nothing => queue[job[w]] # "ABSENT"
    /\ \A c \in Campaigns, k \in Rounds : queue[<<c, k>>] # "ABSENT" => k <= share[c].round

\* A share that was asked for has a round and a target; one that was not has no round.
ShareShape ==
    \A c \in Campaigns :
        /\ share[c].state = "NONE" => share[c].round = 0 /\ share[c].version = 0
        /\ share[c].state # "NONE" => share[c].target # Nothing /\ share[c].round \in Rounds

\* What a worker holds at each step.
CopyShape ==
    \A w \in Workers :
        /\ step[w] \in Marked => copy[w].marker
        /\ step[w] \in Unmarked => ~copy[w].marker
        /\ step[w] # "share" => copy[w].state = "QUEUED" /\ copy[w].round = job[w][2]
                                /\ copy[w].target # Nothing
        /\ step[w] = "fail" => reason[w] \in Reasons
        /\ step[w] \in UsesToken => used[w] \in Connections

\* A copy is the share it was read from or an older one; a marked copy is the share.
CopyCurrent ==
    \A w \in Workers, c \in Campaigns :
        OnShare(w, c) => /\ copy[w].version <= share[c].version
                         /\ copy[w].version = share[c].version => copy[w] = share[c]
                         /\ copy[w].marker => copy[w] = share[c]

\* The marker has one owner.
OneMarker ==
    \A w, v \in Workers, c \in Campaigns :
        OnShare(w, c) /\ OnShare(v, c) /\ copy[w].marker /\ copy[v].marker => w = v

\* The posts of a round that count: those whose answer the handler could use.
Counted(x) == posts[x] - lost[x] - unread[x]

\* The round is still to come, or no handler of it has come to its call.
NotCalled(c, k) ==
    \/ k > share[c].round
    \/ k = share[c].round /\ share[c].state = "QUEUED" /\ ~share[c].marker

\* Until its call, a round has not been posted.
PostCount ==
    /\ \A x \in Events : Counted(x) <= 1
    /\ \A c \in Campaigns, k \in Rounds : NotCalled(c, k) => Counted(<<c, k>>) < 1
    /\ \A w \in Workers, c \in Campaigns :
        OnShare(w, c) /\ step[w] \in {"call", "clear"} => Counted(job[w]) < 1

RoundOver(c, k) ==
    \/ share[c].round > k
    \/ share[c].round = k /\ share[c].state \in {"PUBLISHED", "FAILED"}

Acknowledged ==
    \A c \in Campaigns, k \in Rounds :
        /\ queue[<<c, k>>] = "DONE" => RoundOver(c, k)
        /\ \A w \in Workers :
            w \in returned /\ job[w] = <<c, k>> /\ outcome[w] = "DONE" => RoundOver(c, k)

\* A worker that is to record a post has posted.
Recording ==
    \A w \in Workers, c \in Campaigns :
        OnShare(w, c) => /\ step[w] \in {"record", "duplicate"} => posts[job[w]] > 0
                         /\ step[w] = "duplicate" => copy[w].target \in engaged

\* The connection a worker read has the token of every connection of the same version.
TokenOfVersion ==
    \A w \in Workers :
        step[w] \in UsesToken => /\ used[w].version <= connection.version
                                 /\ used[w].version = connection.version
                                      => used[w].token = connection.token

PublishingInv ==
    /\ TypeOK
    /\ Idle
    /\ EventsWritten
    /\ ShareShape
    /\ CopyShape
    /\ CopyCurrent
    /\ OneMarker
    /\ PostCount
    /\ Acknowledged
    /\ Recording
    /\ PublishedIsRecorded
    /\ TokenOfVersion

-----------------------------------------------------------------------------
(***************************************************************************)
(* The operations on a share and on a connection.                          *)
(***************************************************************************)

\* What each operation makes of a share; the records are not looked into again.
LEMMA ShareAsked ==
    ASSUME NEW s \in ShareRows, NEW t \in Targets
    PROVE  /\ LET n == newShareRequest(t)
              IN  /\ n \in ShareRows /\ n.round = 1 /\ n.state = "QUEUED" /\ ~n.marker
                  /\ n.version = 1 /\ n.target = t
           /\ LET n == retryShare(s, t)
              IN  /\ n \in ShareRows /\ n.round = s.round + 1 /\ n.state = "QUEUED" /\ ~n.marker
                  /\ n.version = s.version + 1 /\ n.target = t
<1>1. newShareRequest(t) \in ShareRows
    BY DEF ShareRows, NoShare, newShareRequest
<1>2. s.round + 1 \in Nat /\ s.version + 1 \in Nat
    BY DEF ShareRows
<1>3. ASSUME NEW n \in Nat, NEW m \in Nat
      PROVE  [s EXCEPT !.round = m, !.state = "QUEUED", !.reason = Nothing, !.target = t,
                       !.marker = FALSE, !.version = n] \in ShareRows
    BY DEF ShareRows
<1>4. retryShare(s, t) \in ShareRows
    BY <1>2, <1>3 DEF retryShare
<1> QED
    BY <1>1, <1>4 DEF ShareRows, NoShare, newShareRequest, retryShare

LEMMA ShareTried ==
    ASSUME NEW s \in ShareRows
    PROVE  /\ LET n == withInFlight(s)
              IN  /\ n \in ShareRows /\ n.round = s.round /\ n.state = s.state /\ n.marker
                  /\ n.version = s.version + 1 /\ n.target = s.target
           /\ LET n == withoutInFlight(s)
              IN  /\ n \in ShareRows /\ n.round = s.round /\ n.state = s.state /\ ~n.marker
                  /\ n.version = s.version /\ n.target = s.target
           /\ LET n == markPublished(s)
              IN  /\ n \in ShareRows /\ n.round = s.round /\ n.state = "PUBLISHED"
                  /\ n.version = s.version + 1 /\ n.target = s.target
<1>1. s.version + 1 \in Nat
    BY DEF ShareRows
<1>2. ASSUME NEW n \in Nat
      PROVE  /\ [s EXCEPT !.marker = TRUE, !.version = n] \in ShareRows
             /\ [s EXCEPT !.marker = FALSE] \in ShareRows
             /\ [s EXCEPT !.state = "PUBLISHED", !.marker = FALSE, !.version = n] \in ShareRows
    BY DEF ShareRows
<1>3. /\ withInFlight(s) \in ShareRows
      /\ withoutInFlight(s) \in ShareRows
      /\ markPublished(s) \in ShareRows
    BY <1>1, <1>2 DEF withInFlight, withoutInFlight, markPublished
<1> QED
    BY <1>3 DEF ShareRows, withInFlight, withoutInFlight, markPublished

LEMMA ShareFailed ==
    ASSUME NEW s \in ShareRows, NEW r \in Reasons
    PROVE  LET n == markFailed(s, r)
           IN  /\ n \in ShareRows /\ n.round = s.round /\ n.state = "FAILED"
               /\ n.version = s.version + 1 /\ n.target = s.target
<1>1. s.version + 1 \in Nat
    BY DEF ShareRows
<1>2. ASSUME NEW n \in Nat
      PROVE  [s EXCEPT !.state = "FAILED", !.reason = r, !.marker = FALSE, !.version = n]
                \in ShareRows
    BY DEF ShareRows
<1>3. markFailed(s, r) \in ShareRows
    BY <1>1, <1>2 DEF markFailed
<1> QED
    BY <1>3 DEF ShareRows, markFailed

LEMMA NoShareTyped == NoShare \in ShareRows /\ ~NoShare.marker /\ NoShare.round = 0
BY DEF ShareRows, NoShare

LEMMA ConnectionOperations ==
    ASSUME NEW c \in Connections
    PROVE  /\ LET n == connect(c)
              IN  /\ n \in Connections /\ n.state = "USABLE" /\ n.version = c.version + 1
           /\ LET n == revoke(c)
              IN  /\ n \in Connections /\ n.state = "REVOKED" /\ n.version = c.version + 1
           /\ LET n == remove(c)
              IN  /\ n \in Connections /\ n.state = "REMOVED" /\ n.version = c.version + 1
           /\ LET n == [c EXCEPT !.state = "EXPIRED"]
              IN  /\ n \in Connections /\ n.state = "EXPIRED" /\ n.version = c.version
                  /\ n.token = c.token
<1>1. c.version + 1 \in Nat /\ c.token + 1 \in Nat
    BY DEF Connections
<1>2. ASSUME NEW n \in Nat, NEW m \in Nat
      PROVE  /\ [state |-> "USABLE", token |-> m, version |-> n] \in Connections
             /\ [c EXCEPT !.state = "REVOKED", !.version = n] \in Connections
             /\ [c EXCEPT !.state = "REMOVED", !.version = n] \in Connections
             /\ [c EXCEPT !.state = "EXPIRED"] \in Connections
    BY DEF Connections, ConnectionStates
<1>3. connect(c) \in Connections /\ revoke(c) \in Connections /\ remove(c) \in Connections
    BY <1>1, <1>2 DEF connect, revoke, remove
<1> QED
    BY <1>2, <1>3 DEF Connections, connect, revoke, remove

LEMMA InitHolds == Init => PublishingInv
<1> SUFFICES ASSUME Init PROVE PublishingInv
    OBVIOUS
<1>1. TypeOK
    BY NoShareTyped DEF Init, DeliveryInit, TypeOK, Connections, ConnectionStates, Steps, Outcomes
<1> QED
    BY <1>1 DEF Init, DeliveryInit, PublishingInv, Idle, EventsWritten, ShareShape, CopyShape, CopyCurrent, OneMarker,
       PostCount, Counted, NotCalled, Acknowledged, Recording, PublishedIsRecorded, TokenOfVersion, OnShare,
       NoShare, Marked, Unmarked, UsesToken, Events, Rounds

-----------------------------------------------------------------------------
(***************************************************************************)
(* What a step of the handler does to the worker.                          *)
(***************************************************************************)
WorkersTyped ==
    /\ queue \in [Events -> {"ABSENT", "QUEUED", "DONE", "FAILED"}]
    /\ job \in [Workers -> Events \cup {Nothing}]
    /\ returned \subseteq Workers
    /\ step \in [Workers -> Steps]
    /\ copy \in [Workers -> ShareRows]
    /\ used \in [Workers -> Connections \cup {Nothing}]
    /\ reason \in [Workers -> Reasons \cup Answers \cup {Nothing}]
    /\ outcome \in [Workers -> Outcomes]

FactsTyped ==
    /\ share \in [Campaigns -> ShareRows]
    /\ connection \in Connections
    /\ asking \subseteq Campaigns
    /\ engaged \subseteq Targets
    /\ scoring \in [Targets -> Nat]
    /\ posts \in [Events -> Nat]
    /\ lost \in [Events -> Nat]
    /\ unread \in [Events -> Nat]

LEMMA Typed == TypeOK <=> WorkersTyped /\ FactsTyped
BY DEF TypeOK, WorkersTyped, FactsTyped

\* The worker answered and forgot what it held, or it is at another step.
Replied(w) ==
    /\ returned' = returned \cup {w}
    /\ step'[w] = "share" /\ copy'[w] = NoShare /\ used'[w] = Nothing

Moved(w) == returned' = returned /\ outcome' = outcome

OthersWait(w) ==
    /\ queue' = queue /\ job' = job
    /\ \A v \in Workers \ {w} :
        step'[v] = step[v] /\ copy'[v] = copy[v] /\ used'[v] = used[v] /\ reason'[v] = reason[v]
        /\ outcome'[v] = outcome[v]

LEMMA ReplyEffect ==
    ASSUME WorkersTyped, NEW w \in Workers, NEW k \in Outcomes, Reply(w, k)
    PROVE  WorkersTyped' /\ Replied(w) /\ OthersWait(w) /\ outcome'[w] = k
BY NoShareTyped
DEF WorkersTyped, Reply, Answer, Forget, Steps, Outcomes, Replied, OthersWait

LEMMA ErrorEffect ==
    ASSUME WorkersTyped, NEW w \in Workers, Error(w)
    PROVE  WorkersTyped' /\ Replied(w) /\ OthersWait(w) /\ outcome'[w] # "DONE"
BY ReplyEffect DEF Error, Outcomes

LEMMA GoOnEffect ==
    ASSUME WorkersTyped, NEW w \in Workers, NEW s \in Steps, GoOn(w, s)
    PROVE  /\ WorkersTyped' /\ Moved(w) /\ OthersWait(w)
           /\ step'[w] = s /\ copy' = copy /\ used' = used /\ reason' = reason
BY DEF WorkersTyped, GoOn, Goto, rowVars, Moved, OthersWait

LEMMA WithCopyEffect ==
    ASSUME WorkersTyped, NEW w \in Workers, NEW s \in Steps, NEW a \in ShareRows, WithCopy(w, s, a)
    PROVE  /\ WorkersTyped' /\ Moved(w) /\ OthersWait(w)
           /\ step'[w] = s /\ copy'[w] = a /\ used' = used /\ reason' = reason
BY DEF WorkersTyped, WithCopy, Goto, rowVars, Moved, OthersWait

LEMMA GoFailEffect ==
    ASSUME WorkersTyped, NEW w \in Workers, NEW r \in Reasons, GoFail(w, r)
    PROVE  /\ WorkersTyped' /\ Moved(w) /\ OthersWait(w)
           /\ step'[w] = "fail" /\ copy' = copy /\ used' = used /\ reason'[w] = r
BY DEF WorkersTyped, GoFail, Goto, rowVars, Moved, OthersWait, Steps

-----------------------------------------------------------------------------
(***************************************************************************)
(* What a step of the handler of event <<c, k>> does to the share: it      *)
(* leaves it alone, it posts it, or it writes it.                          *)
(***************************************************************************)

\* A connection of the same version has the same token.
ConnectionGoesOn ==
    /\ connection'.version >= connection.version
    /\ connection'.version = connection.version => connection'.token = connection.token

Stays(w, c, k) ==
    /\ UNCHANGED <<share, posts, lost, unread, engaged, scoring>>
    /\ ConnectionGoesOn
    /\ \/ Replied(w) /\ (outcome'[w] = "DONE" => RoundOver(c, k))
       \/ /\ Moved(w)
          /\ step'[w] = "connection" /\ used'[w] = used[w] /\ copy'[w] = share[c]
          /\ share[c].state = "QUEUED" /\ ~share[c].marker /\ share[c].round = k
       \/ /\ Moved(w)
          /\ copy'[w] = copy[w]
          /\ \/ /\ step[w] = "connection" /\ step'[w] = "token" /\ used'[w] \in Connections
                /\ used'[w] = connection /\ connection' = connection
             \/ step[w] = "token" /\ step'[w] = "mark" /\ used'[w] = used[w]
             \/ step[w] # "share" /\ step'[w] = "fail" /\ used'[w] = used[w] /\ reason'[w] \in Reasons
             \/ /\ step[w] = "record" /\ step'[w] = "duplicate" /\ used'[w] = used[w]
                /\ copy[w].target \in engaged

Posts(w, x) ==
    /\ UNCHANGED <<share, engaged, scoring, connection>>
    /\ Moved(w)
    /\ step[w] = "call" /\ copy'[w] = copy[w] /\ used'[w] = used[w]
    /\ \A y \in Events : y # x => Counted(y)' = Counted(y)
    /\ \A y \in Events : posts'[y] >= posts[y]
    /\ \/ step'[w] = "record" /\ Counted(x)' = Counted(x) + 1 /\ posts'[x] > 0
       \/ step'[w] = "clear" /\ Counted(x)' = Counted(x)

\* The share was the worker's copy until now.
Writes(w, c) ==
    /\ UNCHANGED <<posts, lost, unread, connection>>
    /\ share[c].version = copy[w].version
    /\ \/ /\ step[w] = "mark" /\ share' = [share EXCEPT ![c] = withInFlight(copy[w])]
          /\ \/ Replied(w) /\ outcome'[w] # "DONE"
             \/ /\ Moved(w)
                /\ step'[w] = "call" /\ copy'[w] = withInFlight(copy[w]) /\ used'[w] = used[w]
          /\ UNCHANGED <<engaged, scoring>>
       \/ /\ step[w] = "clear" /\ share' = [share EXCEPT ![c] = withoutInFlight(copy[w])]
          /\ \/ Replied(w) /\ outcome'[w] # "DONE"
             \/ /\ Moved(w)
                /\ step'[w] \in {"revoke", "fail"}
                /\ step'[w] = "fail" => reason'[w] \in Reasons
                /\ copy'[w] = withoutInFlight(copy[w]) /\ used'[w] = used[w]
          /\ UNCHANGED <<engaged, scoring>>
       \/ /\ step[w] = "record" /\ share' = [share EXCEPT ![c] = markPublished(copy[w])]
          /\ copy[w].target \notin engaged
          /\ engaged' = engaged \cup {copy[w].target}
          /\ scoring' = [scoring EXCEPT ![copy[w].target] = @ + 1]
          /\ Replied(w)
       \/ /\ step[w] = "duplicate" /\ share' = [share EXCEPT ![c] = markPublished(copy[w])]
          /\ Replied(w)
          /\ UNCHANGED <<engaged, scoring>>
       \/ /\ step[w] = "fail" /\ share' = [share EXCEPT ![c] = markFailed(copy[w], reason[w])]
          /\ Replied(w)
          /\ UNCHANGED <<engaged, scoring>>

Effect(w, c, k) == OthersWait(w) /\ (Stays(w, c, k) \/ Posts(w, <<c, k>>) \/ Writes(w, c))

Handles(w, c, k) ==
    /\ WorkersTyped' /\ FactsTyped'
    /\ w \notin returned
    /\ job[w] = <<c, k>>
    /\ Effect(w, c, k)

LEMMA HandlerEffect ==
    ASSUME PublishingInv, NEW w \in Workers, HandlerStep(w)
    PROVE  \E c \in Campaigns, k \in Rounds : Handles(w, c, k)
<1>1. job[w] # Nothing /\ w \notin returned
    BY DEF HandlerStep, ReadShare, ReadConnection, OpenToken, SaveMarker, Call, RecordPublish,
       RecordDuplicate, ClearMarker, RevokeConnection, FailShare, At
<1>2. WorkersTyped /\ FactsTyped
    BY Typed DEF PublishingInv
<1>3. PICK c \in Campaigns, k \in Rounds : job[w] = <<c, k>>
    BY <1>1, <1>2 DEF WorkersTyped, Events
<1>4. job[w][1] = c /\ job[w][2] = k
    BY <1>3
<1>5. copy[w] \in ShareRows /\ share[c] \in ShareRows /\ used[w] \in Connections \cup {Nothing}
    BY <1>2 DEF WorkersTyped, FactsTyped
<1>6. UNCHANGED factVars => FactsTyped'
    BY <1>2 DEF FactsTyped, factVars
<1>0. connection' = connection => ConnectionGoesOn
    BY <1>2 DEF FactsTyped, Connections, ConnectionGoesOn
<1> SUFFICES WorkersTyped' /\ FactsTyped' /\ Effect(w, c, k)
    BY <1>1, <1>3 DEF Handles
<1>7. CASE ReadShare(w)
    <2>0. EventsWritten /\ ShareShape /\ share[c].round \in Nat /\ k \in Nat \ {0}
          /\ share[c].state \in {"NONE", "QUEUED", "PUBLISHED", "FAILED"}
        BY <1>5 DEF PublishingInv, ShareRows, Rounds
    <2>1. share[c].round # k => share[c].round > k
        <3>1. queue[<<c, k>>] # "ABSENT"
            BY <1>1, <1>3, <2>0 DEF EventsWritten
        <3>2. k <= share[c].round
            BY <2>0, <3>1 DEF EventsWritten
        <3> QED
            BY <2>0, <3>2
    <2>2. share[c].round = k /\ share[c].state # "QUEUED" => RoundOver(c, k)
        BY <2>0 DEF ShareShape, RoundOver
    <2>3. UNCHANGED factVars
        BY <1>7 DEF ReadShare
    <2>4. CASE \E q \in {"RETRY", "DEFER", "FAIL"} : Reply(w, q)
        BY <1>0, <1>2, <1>6, <2>3, <2>4, ReplyEffect DEF Outcomes, Effect, Stays, factVars
    <2>5. CASE Reply(w, "DONE") /\ RoundOver(c, k)
        BY <1>0, <1>2, <1>6, <2>3, <2>5, ReplyEffect DEF Outcomes, Effect, Stays, factVars
    <2>6. CASE /\ share[c].round = k /\ share[c].state = "QUEUED" /\ ~share[c].marker
               /\ WithCopy(w, "connection", share[c])
        BY <1>0, <1>2, <1>5, <1>6, <2>3, <2>6, WithCopyEffect DEF Steps, Effect, Stays, factVars
    <2>7. PICK d \in Campaigns, m \in Rounds : ReadShare(w)!2!(d, m)
        BY <1>7 DEF ReadShare
    <2>8. d = c /\ m = k
        BY <1>3, <2>7
    <2>9. ReadShare(w)!2!(c, k)
        BY <2>7, <2>8
    <2> QED
        BY <2>1, <2>2, <2>4, <2>5, <2>6, <2>9 DEF Error, RoundOver
<1>8. ASSUME Error(w), ConnectionGoesOn, UNCHANGED <<share, posts, lost, unread, engaged, scoring>>
      PROVE  WorkersTyped' /\ Effect(w, c, k)
    BY <1>2, <1>8, ErrorEffect DEF Effect, Stays
<1>9. CASE ReadConnection(w)
    <2>1. UNCHANGED factVars /\ step[w] = "connection"
        BY <1>9 DEF ReadConnection, At
    <2>2. CASE Error(w)
        BY <1>0, <1>6, <1>8, <2>1, <2>2 DEF factVars
    <2>3. CASE GoFail(w, "NEEDS_RECONNECT")
        BY <1>0, <1>2, <1>6, <2>1, <2>3, GoFailEffect DEF Effect, Stays, factVars, Reasons
    <2>4. CASE /\ Goto(w, "token") /\ used' = [used EXCEPT ![w] = connection]
               /\ UNCHANGED <<copy, reason>>
        <3>1. UNCHANGED factVars /\ connection \in Connections
            BY <1>2, <2>1 DEF FactsTyped
        <3>2. WorkersTyped' /\ Moved(w) /\ OthersWait(w)
            BY <1>2, <2>4, <3>1 DEF WorkersTyped, Goto, rowVars, Moved, OthersWait, Steps
        <3>3. step'[w] = "token" /\ copy'[w] = copy[w] /\ used'[w] = connection
            BY <1>2, <2>4 DEF WorkersTyped, Goto
        <3> QED
            BY <1>0, <1>6, <2>1, <3>1, <3>2, <3>3 DEF Effect, Stays, factVars
    <2> QED
        BY <1>9, <2>2, <2>3, <2>4 DEF ReadConnection
<1>10. CASE OpenToken(w)
    <2>1. UNCHANGED factVars /\ step[w] = "token"
        BY <1>10 DEF OpenToken, At
    <2>2. CASE Error(w)
        BY <1>0, <1>6, <1>8, <2>1, <2>2 DEF factVars
    <2>3. CASE \E q \in {"RETRY", "DEFER"} : Reply(w, q)
        BY <1>0, <1>2, <1>6, <2>1, <2>3, ReplyEffect DEF Outcomes, Effect, Stays, factVars
    <2>4. CASE \E r \in Reasons : GoFail(w, r)
        BY <1>0, <1>2, <1>6, <2>1, <2>4, GoFailEffect DEF Effect, Stays, factVars
    <2>5. CASE GoOn(w, "mark")
        BY <1>0, <1>2, <1>6, <2>1, <2>5, GoOnEffect DEF Effect, Stays, factVars, Steps
    <2> QED
        BY <1>10, <2>2, <2>3, <2>4, <2>5 DEF OpenToken, Reasons
<1>11. CASE SaveMarker(w)
    <2> DEFINE marked == withInFlight(copy[w])
    <2>1. /\ UNCHANGED <<connection, asking, engaged, scoring, posts, lost, unread>>
          /\ step[w] = "mark" /\ marked \in ShareRows
        BY <1>5, <1>11, ShareTried DEF SaveMarker, At
    <2> HIDE DEF marked
    <2>2. CASE UNCHANGED share /\ Error(w)
        BY <1>0, <1>2, <1>8, <2>1, <2>2 DEF FactsTyped
    <2>3. CASE Update(c, copy[w], marked) /\ (WithCopy(w, "call", marked) \/ Error(w))
        <3>1. share[c].version = copy[w].version /\ share' = [share EXCEPT ![c] = marked]
              /\ FactsTyped'
            BY <1>2, <2>1, <2>3 DEF Update, FactsTyped
        <3>2. CASE WithCopy(w, "call", marked)
            BY <1>2, <2>1, <3>1, <3>2, WithCopyEffect DEF Steps, Effect, Writes, marked
        <3>3. CASE Error(w)
            BY <1>2, <2>1, <3>1, <3>3, ErrorEffect DEF Effect, Writes, marked
        <3> QED
            BY <2>3, <3>2, <3>3
    <2> QED
        BY <1>4, <1>11, <2>2, <2>3 DEF SaveMarker, marked
<1>12. CASE Call(w)
    <2> DEFINE x == <<c, k>>
    <2>1. /\ UNCHANGED <<share, connection, asking, engaged, scoring>>
          /\ step[w] = "call" /\ publishShare(w, <<c, k>>)
        BY <1>3, <1>12 DEF Call, At
    <2>2. x \in Events /\ posts[x] \in Nat /\ lost[x] \in Nat /\ unread[x] \in Nat
        BY <1>2 DEF FactsTyped, Events
    <2> HIDE DEF x
    <2>3. CASE /\ posts' = [posts EXCEPT ![x] = @ + 1] /\ GoOn(w, "record")
               /\ UNCHANGED <<lost, unread>>
        <3>1. FactsTyped' /\ \A y \in Events : posts'[y] >= posts[y]
            BY <1>2, <2>1, <2>2, <2>3 DEF FactsTyped
        <3>2. Counted(x)' = Counted(x) + 1 /\ posts'[x] > 0
              /\ \A y \in Events : y # x => Counted(y)' = Counted(y)
            BY <1>2, <2>2, <2>3 DEF FactsTyped, Counted
        <3> QED
            BY <1>2, <2>1, <2>3, <3>1, <3>2, GoOnEffect DEF Effect, Posts, Steps, x
    <2>4. ASSUME NEW a \in Answers, Goto(w, "clear"), reason' = [reason EXCEPT ![w] = a],
                 UNCHANGED <<copy, used>>
          PROVE  /\ WorkersTyped' /\ Moved(w) /\ OthersWait(w)
                 /\ step'[w] = "clear" /\ copy' = copy /\ used' = used
        BY <1>2, <2>4 DEF WorkersTyped, Goto, rowVars, Moved, OthersWait, Steps
    <2>5. CASE /\ \E a \in Answers : reason' = [reason EXCEPT ![w] = a]
               /\ Goto(w, "clear") /\ UNCHANGED <<posts, lost, unread, copy, used>>
        <3>1. FactsTyped' /\ \A y \in Events : posts'[y] >= posts[y] /\ Counted(y)' = Counted(y)
            BY <1>2, <2>1, <2>2, <2>5 DEF FactsTyped, Counted
        <3> QED
            BY <2>1, <2>2, <2>4, <2>5, <3>1 DEF Effect, Posts, x
    <2>6. CASE /\ posts' = [posts EXCEPT ![x] = @ + 1]
               /\ \/ unread' = [unread EXCEPT ![x] = @ + 1] /\ lost' = lost
                  \/ lost' = [lost EXCEPT ![x] = @ + 1] /\ unread' = unread
               /\ \E a \in Answers : reason' = [reason EXCEPT ![w] = a]
               /\ Goto(w, "clear") /\ UNCHANGED <<copy, used>>
        <3>1. FactsTyped' /\ \A y \in Events : posts'[y] >= posts[y] /\ Counted(y)' = Counted(y)
            <4>1. FactsTyped' /\ \A y \in Events : posts'[y] >= posts[y]
                BY <1>2, <2>1, <2>2, <2>6 DEF FactsTyped
            <4>2. Counted(x)' = Counted(x) /\ \A y \in Events : y # x => Counted(y)' = Counted(y)
                BY <1>2, <2>2, <2>6 DEF FactsTyped, Counted
            <4> QED
                BY <4>1, <4>2
        <3> QED
            BY <2>1, <2>2, <2>4, <2>6, <3>1 DEF Effect, Posts, x
    <2> QED
        BY <2>1, <2>3, <2>5, <2>6 DEF publishShare, Answers, x
<1>13. CASE RecordPublish(w)
    <2> DEFINE t == copy[w].target
               published == markPublished(copy[w])
    <2>1. /\ UNCHANGED <<connection, asking, posts, lost, unread>>
          /\ step[w] = "record" /\ published \in ShareRows
        BY <1>5, <1>13, ShareTried DEF RecordPublish, At
    <2>2. t \in Targets
        BY <1>5, <2>1 DEF PublishingInv, CopyShape, ShareRows
    <2>3. CASE /\ t \notin engaged
               /\ Update(c, copy[w], published)
               /\ engaged' = engaged \cup {t}
               /\ scoring' = [scoring EXCEPT ![t] = @ + 1]
               /\ Reply(w, "DONE") \/ Reply(w, "FAIL")
        <3>1. FactsTyped'
            BY <1>2, <2>1, <2>2, <2>3 DEF Update, FactsTyped
        <3>2. WorkersTyped' /\ OthersWait(w) /\ Replied(w)
            BY <1>2, <2>3, ReplyEffect DEF Outcomes
        <3> QED
            BY <2>1, <2>3, <3>1, <3>2 DEF Effect, Writes, Update
    <2>4. CASE t \in engaged /\ GoOn(w, "duplicate") /\ UNCHANGED <<share, engaged, scoring>>
        BY <1>0, <1>2, <2>1, <2>4, GoOnEffect DEF FactsTyped, Effect, Stays, Steps
    <2>5. CASE GoFail(w, "DUPLICATE_ENGAGEMENT") /\ UNCHANGED <<share, engaged, scoring>>
        BY <1>0, <1>2, <2>1, <2>5, GoFailEffect DEF FactsTyped, Effect, Stays, Reasons
    <2>6. CASE Reply(w, "FAIL") /\ UNCHANGED <<share, engaged, scoring>>
        BY <1>0, <1>2, <2>1, <2>6, ReplyEffect DEF FactsTyped, Effect, Stays, Outcomes
    <2> QED
        BY <1>4, <1>13, <2>3, <2>4, <2>5, <2>6 DEF RecordPublish, EngagementTaken
<1>14. CASE RecordDuplicate(w)
    <2> DEFINE published == markPublished(copy[w])
    <2>1. /\ UNCHANGED <<connection, asking, engaged, scoring, posts, lost, unread>>
          /\ step[w] = "duplicate" /\ published \in ShareRows
        BY <1>5, <1>14, ShareTried DEF RecordDuplicate, At
    <2>2. CASE UNCHANGED share /\ Error(w)
        BY <1>0, <1>2, <1>8, <2>1, <2>2 DEF FactsTyped
    <2>3. CASE Update(c, copy[w], published) /\ (Reply(w, "DONE") \/ Error(w))
        <3>1. FactsTyped'
            BY <1>2, <2>1, <2>3 DEF Update, FactsTyped
        <3>2. WorkersTyped' /\ OthersWait(w) /\ Replied(w)
            BY <1>2, <2>3, ReplyEffect, ErrorEffect DEF Outcomes
        <3> QED
            BY <2>1, <2>3, <3>1, <3>2 DEF Effect, Writes, Update
    <2> QED
        BY <1>4, <1>14, <2>2, <2>3 DEF RecordDuplicate
<1>15. CASE ClearMarker(w)
    <2> DEFINE cleared == withoutInFlight(copy[w])
    <2>1. /\ UNCHANGED <<connection, asking, engaged, scoring, posts, lost, unread>>
          /\ step[w] = "clear" /\ cleared \in ShareRows
        BY <1>5, <1>15, ShareTried DEF ClearMarker, At
    <2>2. CASE UNCHANGED share /\ Error(w)
        BY <1>0, <1>2, <1>8, <2>1, <2>2 DEF FactsTyped
    <2>3. CASE Update(c, copy[w], cleared) /\ (AfterRefusal(w, cleared) \/ Error(w))
        <3>1. share[c].version = copy[w].version /\ share' = [share EXCEPT ![c] = cleared]
              /\ FactsTyped'
            BY <1>2, <2>1, <2>3 DEF Update, FactsTyped
        <3>2. CASE Error(w) \/ Reply(w, "RETRY")
            <4>1. WorkersTyped' /\ OthersWait(w) /\ Replied(w) /\ outcome'[w] # "DONE"
                BY <1>2, <3>2, ReplyEffect, ErrorEffect DEF Outcomes
            <4> QED
                BY <2>1, <3>1, <4>1 DEF Effect, Writes
        <3>3. CASE WithCopy(w, "revoke", cleared)
            <4>1. /\ WorkersTyped' /\ Moved(w) /\ OthersWait(w)
                  /\ step'[w] = "revoke" /\ copy'[w] = cleared /\ used'[w] = used[w]
                BY <1>2, <2>1, <3>3, WithCopyEffect DEF Steps
            <4> QED
                BY <2>1, <3>1, <4>1 DEF Effect, Writes
        <3>4. ASSUME NEW r \in Reasons, Goto(w, "fail"), copy' = [copy EXCEPT ![w] = cleared],
                     reason' = [reason EXCEPT ![w] = r], UNCHANGED used
              PROVE  WorkersTyped' /\ Effect(w, c, k)
            <4>1. /\ WorkersTyped' /\ Moved(w) /\ OthersWait(w)
                  /\ step'[w] = "fail" /\ copy'[w] = cleared /\ used'[w] = used[w]
                  /\ reason'[w] \in Reasons
                BY <1>2, <2>1, <3>4 DEF WorkersTyped, Goto, rowVars, Moved, OthersWait, Steps
            <4> QED
                BY <2>1, <3>1, <4>1 DEF Effect, Writes
        <3> QED
            BY <2>3, <3>1, <3>2, <3>3, <3>4 DEF AfterRefusal, Reasons
    <2> QED
        BY <1>4, <1>15, <2>2, <2>3 DEF ClearMarker
<1>16. CASE RevokeConnection(w)
    <2>1. /\ UNCHANGED <<share, asking, engaged, scoring, posts, lost, unread>>
          /\ step[w] = "revoke" /\ used[w] \in Connections
        BY <1>5, <1>16 DEF RevokeConnection, At, PublishingInv, CopyShape, UsesToken
    <2>2. FactsTyped' /\ ConnectionGoesOn
        <3>1. connection \in Connections
            BY <1>2 DEF FactsTyped
        <3>2. CASE connection' = connection
            BY <1>0, <1>2, <2>1, <3>2 DEF FactsTyped
        <3>3. CASE SaveConnection(used[w], revoke(used[w]))
            <4>1. connection' \in Connections /\ connection'.version = connection.version + 1
                BY <2>1, <3>3, ConnectionOperations DEF SaveConnection
            <4> QED
                BY <1>2, <2>1, <3>1, <4>1 DEF FactsTyped, ConnectionGoesOn, Connections
        <3> QED
            BY <1>16, <3>2, <3>3 DEF RevokeConnection
    <2>3. CASE Error(w)
        BY <1>8, <2>1, <2>2, <2>3
    <2>4. CASE GoFail(w, "NEEDS_RECONNECT")
        BY <1>2, <2>1, <2>2, <2>4, GoFailEffect DEF Effect, Stays, Reasons
    <2> QED
        BY <1>16, <2>3, <2>4 DEF RevokeConnection
<1>17. CASE FailShare(w)
    <2> DEFINE failed == markFailed(copy[w], reason[w])
    <2>1. /\ UNCHANGED <<connection, asking, engaged, scoring, posts, lost, unread>>
          /\ step[w] = "fail"
        BY <1>17 DEF FailShare, At
    <2>2. failed \in ShareRows
        BY <1>5, <2>1, ShareFailed DEF PublishingInv, CopyShape
    <2>3. CASE UNCHANGED share /\ Error(w)
        BY <1>0, <1>2, <1>8, <2>1, <2>3 DEF FactsTyped
    <2>4. CASE Update(c, copy[w], failed) /\ (Reply(w, "DONE") \/ Error(w))
        <3>1. FactsTyped'
            BY <1>2, <2>1, <2>2, <2>4 DEF Update, FactsTyped
        <3>2. WorkersTyped' /\ OthersWait(w) /\ Replied(w)
            BY <1>2, <2>4, ReplyEffect, ErrorEffect DEF Outcomes
        <3> QED
            BY <2>1, <2>4, <3>1, <3>2 DEF Effect, Writes, Update
    <2> QED
        BY <1>4, <1>17, <2>3, <2>4 DEF FailShare
<1> QED
    BY <1>7, <1>9, <1>10, <1>11, <1>12, <1>13, <1>14, <1>15, <1>16, <1>17 DEF HandlerStep

-----------------------------------------------------------------------------
(***************************************************************************)
(* The handler keeps the invariant.                                        *)
(***************************************************************************)

\* A worker whose copy has the version of the share owns it: nobody else has a marked copy,
\* and the copies of the others are older once the share is marked.
LEMMA Owns ==
    ASSUME PublishingInv, NEW w \in Workers, NEW c \in Campaigns, OnShare(w, c),
           share[c].version = copy[w].version
    PROVE  /\ share[c] = copy[w] /\ share[c].state = "QUEUED"
           /\ \A v \in Workers \ {w} :
                OnShare(v, c) => /\ ~copy[v].marker /\ step[v] \notin Marked
                                 /\ copy[v].version <= share[c].version
                                 /\ share[c].marker => copy[v].version < share[c].version
<1>1. share[c] = copy[w] /\ share[c].state = "QUEUED"
    BY DEF PublishingInv, CopyCurrent, CopyShape, OnShare
<1>2. ASSUME NEW v \in Workers \ {w}, OnShare(v, c)
      PROVE  /\ ~copy[v].marker /\ step[v] \notin Marked
             /\ copy[v].version <= share[c].version
             /\ share[c].marker => copy[v].version < share[c].version
    <2>1. /\ copy[v].version <= share[c].version
          /\ copy[v].version = share[c].version => copy[v] = share[c]
          /\ copy[v].marker => copy[v] = share[c]
        BY <1>2 DEF PublishingInv, CopyCurrent
    <2>2. ~(copy[v].marker /\ copy[w].marker)
        BY <1>2 DEF PublishingInv, OneMarker
    <2>3. ~copy[v].marker
        BY <1>1, <2>1, <2>2
    <2>4. step[v] \notin Marked
        BY <2>3 DEF PublishingInv, CopyShape
    <2>5. copy[v].version \in Nat /\ share[c].version \in Nat
        BY DEF PublishingInv, TypeOK, ShareRows
    <2> QED
        BY <2>1, <2>3, <2>4, <2>5
<1> QED
    BY <1>1, <1>2

\* Which workers are on which share after the step.
LEMMA OnShareAfter ==
    ASSUME PublishingInv, NEW w \in Workers, NEW c \in Campaigns, NEW k \in Rounds, Handles(w, c, k)
    PROVE  /\ \A v \in Workers \ {w}, d \in Campaigns : OnShare(v, d)' <=> OnShare(v, d)
           /\ \A d \in Campaigns : OnShare(w, d)' => d = c
           /\ step[w] # "share" => OnShare(w, c)
           /\ Replied(w) => \A d \in Campaigns : ~OnShare(w, d)'
BY DEF Handles, Effect, OthersWait, OnShare, Replied, Events

LEMMA HandlerKeepsIdle ==
    ASSUME PublishingInv, NEW w \in Workers, NEW c \in Campaigns, NEW k \in Rounds, Handles(w, c, k)
    PROVE  Idle'
<1>1. job' = job /\ job[w] # Nothing /\ w \notin returned
    BY DEF Handles, Effect, OthersWait, Events
<1>2. Replied(w) \/ Moved(w)
    BY DEF Handles, Effect, Stays, Posts, Writes
<1>3. \A v \in Workers \ {w} : step'[v] = step[v]
    BY DEF Handles, Effect, OthersWait
<1> QED
    BY <1>1, <1>2, <1>3 DEF PublishingInv, Idle, Replied, Moved

\* What a write of the handler makes of a share.
LEMMA WrittenShare ==
    ASSUME PublishingInv, NEW w \in Workers, NEW c \in Campaigns, NEW k \in Rounds, Handles(w, c, k),
           Writes(w, c)
    PROVE  /\ OnShare(w, c) /\ share[c] = copy[w] /\ share[c].state = "QUEUED" /\ copy[w] \in ShareRows
           /\ share'[c] \in ShareRows
           /\ \A d \in Campaigns : d # c => share'[d] = share[d]
           /\ share'[c].round = share[c].round
           /\ share'[c].state # "NONE" /\ share'[c].target # Nothing
           /\ \/ /\ step[w] = "mark" /\ share'[c].version = share[c].version + 1
                 /\ share'[c] = withInFlight(copy[w]) /\ share'[c].state = "QUEUED" /\ share'[c].marker
              \/ /\ step[w] = "clear" /\ share'[c].version = share[c].version /\ share[c].marker
                 /\ share'[c] = withoutInFlight(copy[w]) /\ share'[c].state = "QUEUED"
                 /\ ~share'[c].marker
              \/ /\ step[w] \in {"record", "duplicate"} /\ share'[c].version = share[c].version + 1
                 /\ share'[c].state = "PUBLISHED" /\ Replied(w) /\ share'[c].target = copy[w].target
              \/ /\ step[w] = "fail" /\ share'[c].version = share[c].version + 1
                 /\ share'[c].state = "FAILED" /\ Replied(w)
<1>1. step[w] # "share" /\ OnShare(w, c)
    BY OnShareAfter DEF Writes
<1>2. share[c] = copy[w] /\ share[c].state = "QUEUED"
    BY <1>1, Owns DEF Writes
<1>3. share \in [Campaigns -> ShareRows] /\ copy[w] \in ShareRows /\ ShareShape
    BY DEF PublishingInv, TypeOK
<1>4. /\ step[w] = "fail" => reason[w] \in Reasons
      /\ step[w] = "clear" => copy[w].marker
    BY DEF PublishingInv, CopyShape, Marked
<1>5. share' \in [Campaigns -> ShareRows] /\ \A d \in Campaigns : d # c => share'[d] = share[d]
    BY <1>3 DEF Handles, FactsTyped, Writes
<1>6. copy[w].target # Nothing /\ copy[w].target \in Targets
    BY <1>2, <1>3 DEF ShareShape, ShareRows
<1>7. \/ step[w] = "mark" /\ share'[c] = withInFlight(copy[w])
      \/ step[w] = "clear" /\ share'[c] = withoutInFlight(copy[w])
      \/ step[w] \in {"record", "duplicate"} /\ share'[c] = markPublished(copy[w]) /\ Replied(w)
      \/ step[w] = "fail" /\ share'[c] = markFailed(copy[w], reason[w]) /\ Replied(w)
    BY <1>3 DEF Writes
<1>8. CASE step[w] = "mark"
    BY <1>1, <1>2, <1>3, <1>5, <1>6, <1>7, <1>8, ShareTried
<1>9. CASE step[w] = "clear"
    BY <1>1, <1>2, <1>3, <1>4, <1>5, <1>6, <1>7, <1>9, ShareTried
<1>10. CASE step[w] \in {"record", "duplicate"}
    BY <1>1, <1>2, <1>3, <1>5, <1>6, <1>7, <1>10, ShareTried
<1>11. CASE step[w] = "fail"
    <2>1. reason[w] \in Reasons /\ share'[c] = markFailed(copy[w], reason[w]) /\ Replied(w)
        BY <1>4, <1>7, <1>11
    <2>2. /\ share'[c] \in ShareRows /\ share'[c].round = copy[w].round
          /\ share'[c].state = "FAILED" /\ share'[c].version = copy[w].version + 1
        BY <1>3, <2>1, ShareFailed
    <2>3. share'[c].target = copy[w].target
        BY <1>3, <2>1, ShareFailed
    <2> QED
        BY <1>1, <1>2, <1>3, <1>5, <1>6, <1>11, <2>1, <2>2, <2>3
<1> QED
    BY <1>7, <1>8, <1>9, <1>10, <1>11

\* What any handler step makes of a share.
LEMMA ShareKept ==
    ASSUME PublishingInv, NEW w \in Workers, NEW c \in Campaigns, NEW k \in Rounds, Handles(w, c, k),
           NEW d \in Campaigns
    PROVE  /\ share'[d] \in ShareRows
           /\ share'[d].round = share[d].round
           /\ share'[d] # share[d] => /\ d = c /\ Writes(w, c)
                                      /\ share[d].state = "QUEUED"
                                      /\ share'[d].state # "NONE" /\ share'[d].target # Nothing
<1>1. CASE Writes(w, c)
    BY <1>1, WrittenShare DEF PublishingInv, TypeOK
<1>2. CASE ~Writes(w, c)
    BY <1>2 DEF Handles, Effect, Stays, Posts, PublishingInv, TypeOK
<1> QED
    BY <1>1, <1>2

LEMMA HandlerKeepsEvents ==
    ASSUME PublishingInv, NEW w \in Workers, NEW c \in Campaigns, NEW k \in Rounds, Handles(w, c, k)
    PROVE  EventsWritten' /\ ShareShape'
<1>1. EventsWritten /\ ShareShape /\ queue' = queue /\ job' = job
    BY DEF PublishingInv, Handles, Effect, OthersWait
<1>2. EventsWritten'
    BY <1>1, ShareKept DEF EventsWritten
<1>3. ShareShape'
    BY <1>1, ShareKept DEF ShareShape
<1> QED
    BY <1>2, <1>3

LEMMA HandlerKeepsShape ==
    ASSUME PublishingInv, NEW w \in Workers, NEW c \in Campaigns, NEW k \in Rounds, Handles(w, c, k)
    PROVE  CopyShape'
<1> DEFINE Shape(v) ==
        /\ step[v] \in Marked => copy[v].marker
        /\ step[v] \in Unmarked => ~copy[v].marker
        /\ step[v] # "share" => copy[v].state = "QUEUED" /\ copy[v].round = job[v][2]
                                /\ copy[v].target # Nothing
        /\ step[v] = "fail" => reason[v] \in Reasons
        /\ step[v] \in UsesToken => used[v] \in Connections
<1>1. \A v \in Workers : Shape(v)
    BY DEF PublishingInv, CopyShape
<1>2. /\ \A v \in Workers \ {w} :
            step'[v] = step[v] /\ copy'[v] = copy[v] /\ used'[v] = used[v] /\ reason'[v] = reason[v]
      /\ job' = job /\ job[w][2] = k
    BY DEF Handles, Effect, OthersWait
<1>3. \A v \in Workers \ {w} : Shape(v)'
    BY <1>1, <1>2
<1>4. Shape(w)'
    <2> USE DEF Marked, Unmarked, UsesToken
    <2>1. CASE Replied(w)
        BY <2>1 DEF Replied
    <2>2. CASE Stays(w, c, k) /\ ~Replied(w)
        <3>1. share[c].state = "QUEUED" => share[c].target # Nothing
            BY DEF PublishingInv, ShareShape
        <3>2. CASE step'[w] = "connection"
            BY <1>2, <2>2, <3>1, <3>2 DEF Stays
        <3>3. CASE step'[w] # "connection"
            BY <1>1, <1>2, <2>2, <3>3 DEF Stays
        <3> QED
            BY <3>2, <3>3
    <2>3. CASE Posts(w, <<c, k>>)
        BY <1>1, <1>2, <2>3 DEF Posts
    <2>4. CASE Writes(w, c) /\ ~Replied(w)
        <3>1. copy[w] \in ShareRows
            BY DEF PublishingInv, TypeOK
        <3>2. CASE step[w] = "mark"
            BY <1>1, <1>2, <2>4, <3>1, <3>2, ShareTried DEF Writes
        <3>3. CASE step[w] = "clear"
            BY <1>1, <1>2, <2>4, <3>1, <3>3, ShareTried DEF Writes
        <3> QED
            BY <2>4, <3>2, <3>3 DEF Writes
    <2> QED
        BY <2>1, <2>2, <2>3, <2>4 DEF Handles, Effect
<1> QED
    BY <1>3, <1>4 DEF CopyShape

LEMMA HandlerKeepsCopies ==
    ASSUME PublishingInv, NEW w \in Workers, NEW c \in Campaigns, NEW k \in Rounds, Handles(w, c, k)
    PROVE  CopyCurrent'
<1> DEFINE Current(v, d) == /\ copy[v].version <= share[d].version
                            /\ copy[v].version = share[d].version => copy[v] = share[d]
                            /\ copy[v].marker => copy[v] = share[d]
<1>1. \A v \in Workers, d \in Campaigns : OnShare(v, d) => Current(v, d)
    BY DEF PublishingInv, CopyCurrent
<1>2. \A v \in Workers, d \in Campaigns : copy[v] \in ShareRows /\ share[d] \in ShareRows
    BY DEF PublishingInv, TypeOK
<1>3. ASSUME NEW v \in Workers \ {w}, NEW d \in Campaigns, OnShare(v, d)' PROVE Current(v, d)'
    <2>1. OnShare(v, d) /\ copy'[v] = copy[v] /\ Current(v, d)
        BY <1>1, <1>3, OnShareAfter DEF Handles, Effect, OthersWait
    <2>2. CASE share'[d] = share[d]
        BY <2>1, <2>2
    <2>3. CASE share'[d] # share[d]
        <3>1. d = c /\ Writes(w, c)
            BY <2>3, ShareKept
        <3>2. ~copy[v].marker /\ copy[v].version <= share[c].version
              /\ (share[c].marker => copy[v].version < share[c].version)
            BY <2>1, <3>1, WrittenShare, Owns DEF Writes
        <3>3. \/ share'[c].version = share[c].version + 1
              \/ share'[c].version = share[c].version /\ share[c].marker
            BY <3>1, WrittenShare
        <3>4. copy[v].version \in Nat /\ share[c].version \in Nat
            BY <1>2 DEF ShareRows
        <3> QED
            BY <2>1, <3>1, <3>2, <3>3, <3>4
    <2> QED
        BY <2>2, <2>3
<1>4. ASSUME NEW d \in Campaigns, OnShare(w, d)' PROVE Current(w, d)'
    <2>1. d = c /\ ~Replied(w)
        BY <1>4, OnShareAfter
    <2>2. copy'[w] = share'[c] => Current(w, c)'
        BY ShareKept DEF ShareRows
    <2>3. step[w] # "share" => Current(w, c)
        BY <1>1, OnShareAfter
    <2>4. CASE Writes(w, c)
        BY <2>1, <2>2, <2>4, WrittenShare DEF Writes
    <2>5. CASE Posts(w, <<c, k>>)
        BY <2>1, <2>3, <2>5 DEF Posts
    <2>6. CASE Stays(w, c, k)
        BY <2>1, <2>2, <2>3, <2>6 DEF Stays
    <2> QED
        BY <2>1, <2>4, <2>5, <2>6 DEF Handles, Effect
<1> QED
    BY <1>3, <1>4 DEF CopyCurrent

LEMMA HandlerKeepsMarker ==
    ASSUME PublishingInv, NEW w \in Workers, NEW c \in Campaigns, NEW k \in Rounds, Handles(w, c, k)
    PROVE  OneMarker'
<1>1. OneMarker
    BY DEF PublishingInv
<1>2. ASSUME NEW v \in Workers \ {w}, OnShare(v, c), OnShare(w, c)', copy'[w].marker
      PROVE  ~copy[v].marker
    <2>1. ~Replied(w)
        BY <1>2, OnShareAfter
    <2>2. CASE Stays(w, c, k) \/ Posts(w, <<c, k>>)
        <3>1. OnShare(w, c) /\ copy[w].marker
            BY <1>2, <2>1, <2>2, OnShareAfter DEF Stays, Posts
        <3> QED
            BY <1>1, <1>2, <3>1 DEF OneMarker
    <2>3. CASE Writes(w, c)
        BY <1>2, <2>3, WrittenShare, Owns DEF Writes
    <2> QED
        BY <2>2, <2>3 DEF Handles, Effect
<1>3. \A v \in Workers \ {w} : copy'[v] = copy[v]
    BY DEF Handles, Effect, OthersWait
<1>4. ASSUME NEW u \in Workers, NEW v \in Workers, NEW d \in Campaigns,
             OnShare(u, d)', OnShare(v, d)', copy'[u].marker, copy'[v].marker
      PROVE  u = v
    <2>1. CASE u = w
        BY <1>2, <1>3, <1>4, <2>1, OnShareAfter
    <2>2. CASE v = w
        BY <1>2, <1>3, <1>4, <2>2, OnShareAfter
    <2>3. CASE u # w /\ v # w
        BY <1>1, <1>3, <1>4, <2>3, OnShareAfter DEF OneMarker
    <2> QED
        BY <2>1, <2>2, <2>3
<1> QED
    BY <1>4 DEF OneMarker

LEMMA HandlerKeepsCount ==
    ASSUME PublishingInv, NEW w \in Workers, NEW c \in Campaigns, NEW k \in Rounds, Handles(w, c, k)
    PROVE  PostCount'
<1> DEFINE x == <<c, k>>
<1>1. PostCount /\ \A y \in Events : Counted(y) \in Int
    BY DEF PublishingInv, TypeOK, Counted
<1>2. job' = job /\ job[w] = x /\ x \in Events
    BY DEF Handles, Effect, OthersWait, Events
<1>3. \A d \in Campaigns : share[d].round \in Nat /\ share'[d].round = share[d].round
    BY ShareKept DEF PublishingInv, TypeOK, ShareRows
<1>4. ASSUME NEW v \in Workers \ {w}, NEW d \in Campaigns, OnShare(v, d)', step'[v] \in {"call", "clear"}
      PROVE  /\ OnShare(v, d) /\ step[v] \in {"call", "clear"}
             /\ job[v] \in Events /\ job[v][1] = d /\ Counted(job[v]) < 1
    <2>1. OnShare(v, d) /\ step[v] \in {"call", "clear"}
        BY <1>4, OnShareAfter DEF Handles, Effect, OthersWait
    <2>2. job[v] \in Events
        BY <2>1 DEF OnShare, PublishingInv, TypeOK
    <2> QED
        BY <1>1, <2>1, <2>2 DEF OnShare, PostCount
<1>5. CASE Posts(w, <<c, k>>)
    <2>1. OnShare(w, c) /\ step[w] = "call" /\ share' = share
        BY <1>5, OnShareAfter DEF Posts
    <2>2. copy[w].marker /\ copy[w] = share[c] /\ Counted(x) < 1
        BY <1>1, <1>2, <2>1 DEF PublishingInv, CopyShape, Marked, CopyCurrent, PostCount
    <2>3. share[c].round = k
        BY <1>2, <2>1, <2>2 DEF PublishingInv, CopyShape
    <2>4. \A y \in Events : y # x => Counted(y)' = Counted(y)
        BY <1>5 DEF Posts
    <2>5. \/ step'[w] = "record" /\ Counted(x)' = Counted(x) + 1
          \/ step'[w] = "clear" /\ Counted(x)' = Counted(x)
        BY <1>5 DEF Posts
    <2>6. \A y \in Events : Counted(y)' <= 1
        BY <1>1, <1>2, <2>2, <2>4, <2>5 DEF PostCount
    <2>7. ASSUME NEW d \in Campaigns, NEW m \in Rounds, NotCalled(d, m)'
          PROVE  Counted(<<d, m>>)' < 1
        <3>1. NotCalled(d, m)
            BY <2>1, <2>7 DEF NotCalled
        <3>2. <<d, m>> # x
            BY <1>3, <2>2, <2>3, <3>1 DEF NotCalled
        <3>3. <<d, m>> \in Events
            BY DEF Events
        <3> QED
            BY <1>1, <2>4, <3>1, <3>2, <3>3 DEF PostCount
    <2>8. ASSUME NEW v \in Workers, NEW d \in Campaigns, OnShare(v, d)', step'[v] \in {"call", "clear"}
          PROVE  Counted(job[v])' < 1
        <3>1. CASE v = w
            BY <1>2, <2>2, <2>5, <2>8, <3>1
        <3>2. CASE v # w
            <4>1. /\ OnShare(v, d) /\ step[v] \in {"call", "clear"}
                  /\ job[v] \in Events /\ job[v][1] = d /\ Counted(job[v]) < 1
                BY <1>4, <2>8, <3>2
            <4>2. d # c
                BY <2>1, <2>2, <3>2, <4>1, Owns DEF Marked
            <4>3. job[v] # x
                BY <4>1, <4>2
            <4> QED
                BY <1>2, <2>4, <4>1, <4>3
        <3> QED
            BY <3>1, <3>2
    <2> QED
        BY <2>6, <2>7, <2>8 DEF PostCount
<1>6. CASE Stays(w, c, k) \/ Writes(w, c)
    <2>1. \A y : Counted(y)' = Counted(y)
        BY <1>6 DEF Stays, Writes, Counted
    <2>2. \A y \in Events : Counted(y)' <= 1
        BY <1>1, <2>1 DEF PostCount
    <2>3. ASSUME NEW d \in Campaigns, NEW m \in Rounds, NotCalled(d, m)'
          PROVE  Counted(<<d, m>>)' < 1
        <3>1. CASE share'[d] = share[d] \/ m > share[d].round
            <4>1. NotCalled(d, m)
                BY <2>3, <3>1 DEF NotCalled
            <4> QED
                BY <1>1, <2>1, <4>1 DEF PostCount
        <3>2. CASE share'[d] # share[d] /\ ~(m > share[d].round)
            <4>1. d = c /\ Writes(w, c)
                BY <3>2, ShareKept
            <4>2. m = share[d].round /\ share'[d].state = "QUEUED" /\ ~share'[d].marker
                BY <1>3, <2>3, <3>2 DEF NotCalled
            <4>3. OnShare(w, c) /\ step[w] = "clear" /\ copy[w] = share[c]
                BY <4>1, <4>2, WrittenShare
            <4>4. <<d, m>> = job[w]
                BY <1>2, <4>1, <4>2, <4>3 DEF PublishingInv, CopyShape
            <4> QED
                BY <1>1, <2>1, <4>3, <4>4 DEF PostCount
        <3> QED
            BY <3>1, <3>2
    <2>4. ASSUME NEW v \in Workers, NEW d \in Campaigns, OnShare(v, d)', step'[v] \in {"call", "clear"}
          PROVE  Counted(job[v])' < 1
        <3>1. CASE v = w
            <4>1. d = c /\ Writes(w, c) /\ step[w] = "mark" /\ ~Replied(w)
                BY <1>6, <2>4, <3>1, OnShareAfter DEF Stays, Writes
            <4>2. share[c].state = "QUEUED" /\ share[c] = copy[w] /\ ~copy[w].marker
                BY <4>1, WrittenShare DEF PublishingInv, CopyShape, Unmarked
            <4>3. NotCalled(c, k)
                BY <1>2, <4>1, <4>2 DEF PublishingInv, CopyShape, NotCalled
            <4> QED
                BY <1>1, <1>2, <2>1, <3>1, <4>3 DEF PostCount
        <3>2. CASE v # w
            BY <1>2, <1>4, <2>1, <2>4, <3>2
        <3> QED
            BY <3>1, <3>2
    <2> QED
        BY <2>2, <2>3, <2>4 DEF PostCount
<1> QED
    BY <1>5, <1>6 DEF Handles, Effect

LEMMA HandlerKeepsRounds ==
    ASSUME PublishingInv, NEW w \in Workers, NEW c \in Campaigns, NEW k \in Rounds, Handles(w, c, k)
    PROVE  Acknowledged'
<1>1. Acknowledged /\ queue' = queue /\ job' = job
    BY DEF PublishingInv, Handles, Effect, OthersWait
<1>2. ASSUME NEW d \in Campaigns, NEW m \in Rounds, RoundOver(d, m) PROVE RoundOver(d, m)'
    BY <1>2, ShareKept DEF RoundOver
<1>3. ASSUME Replied(w), outcome'[w] = "DONE" PROVE RoundOver(c, k)'
    <2>1. CASE Stays(w, c, k)
        <3>1. ~Moved(w)
            BY <1>3 DEF Handles, Replied, Moved
        <3> QED
            BY <1>2, <1>3, <2>1, <3>1 DEF Stays
    <2>2. CASE Writes(w, c)
        <3>1. share'[c].state \in {"PUBLISHED", "FAILED"}
            BY <1>3, <2>2, WrittenShare DEF Writes, Replied, Moved, Handles
        <3>2. share'[c].round = k
            BY <2>2, WrittenShare DEF PublishingInv, CopyShape, OnShare, Handles
        <3> QED
            BY <3>1, <3>2 DEF RoundOver
    <2>3. CASE Posts(w, <<c, k>>)
        BY <1>3, <2>3 DEF Handles, Posts, Replied, Moved
    <2> QED
        BY <2>1, <2>2, <2>3 DEF Handles, Effect
<1>4. ASSUME NEW d \in Campaigns, NEW m \in Rounds, NEW v \in Workers,
             v \in returned', job'[v] = <<d, m>>, outcome'[v] = "DONE"
      PROVE  RoundOver(d, m)'
    <2>1. CASE v = w
        <3>1. Replied(w) /\ d = c /\ m = k
            BY <1>1, <1>4, <2>1 DEF Handles, Effect, Stays, Posts, Writes, Moved
        <3> QED
            BY <1>3, <1>4, <2>1, <3>1
    <2>2. CASE v # w
        <3>1. v \in returned /\ outcome[v] = "DONE"
            BY <1>4, <2>2 DEF Handles, Effect, OthersWait, Stays, Posts, Writes, Moved, Replied
        <3> QED
            BY <1>1, <1>2, <1>4, <3>1 DEF Acknowledged
    <2> QED
        BY <2>1, <2>2
<1> QED
    BY <1>1, <1>2, <1>4 DEF Acknowledged

LEMMA HandlerKeepsRecords ==
    ASSUME PublishingInv, NEW w \in Workers, NEW c \in Campaigns, NEW k \in Rounds, Handles(w, c, k)
    PROVE  Recording' /\ PublishedIsRecorded'
<1>1. /\ Recording /\ PublishedIsRecorded
      /\ engaged \subseteq Targets /\ scoring \in [Targets -> Nat] /\ posts \in [Events -> Nat]
      /\ posts' \in [Events -> Nat]
    BY DEF PublishingInv, TypeOK, Handles, FactsTyped
<1>2. engaged \subseteq engaged' /\ \A x \in Events : posts[x] > 0 => posts'[x] > 0
    <2>1. \A x \in Events : posts'[x] >= posts[x]
        BY <1>1 DEF Handles, Effect, Stays, Posts, Writes
    <2> QED
        BY <1>1, <2>1 DEF Handles, Effect, Stays, Posts, Writes
<1>0. job' = job /\ job[w] = <<c, k>> /\ job[w] \in Events
    BY DEF Handles, Effect, OthersWait, Events
<1>3. ASSUME NEW v \in Workers, NEW d \in Campaigns, OnShare(v, d)'
      PROVE  /\ step'[v] \in {"record", "duplicate"} => posts'[job'[v]] > 0
             /\ step'[v] = "duplicate" => copy'[v].target \in engaged'
    <2>1. CASE v # w
        <3>1. OnShare(v, d) /\ step'[v] = step[v] /\ copy'[v] = copy[v]
            BY <1>3, <2>1, OnShareAfter DEF Handles, Effect, OthersWait
        <3>2. /\ step[v] \in {"record", "duplicate"} => posts[job[v]] > 0
              /\ step[v] = "duplicate" => copy[v].target \in engaged
            BY <1>1, <3>1 DEF Recording
        <3>3. job[v] \in Events
            BY <3>1 DEF OnShare, PublishingInv, TypeOK
        <3> QED
            BY <1>0, <1>2, <3>1, <3>2, <3>3
    <2>2. CASE v = w
        <3>1. d = c /\ ~Replied(w)
            BY <1>3, <2>2, OnShareAfter
        <3>2. CASE Stays(w, c, k)
            <4>1. step'[w] \in {"record", "duplicate"}
                    => /\ step'[w] = "duplicate" /\ step[w] = "record"
                       /\ copy'[w].target \in engaged /\ posts' = posts /\ engaged' = engaged
                BY <3>1, <3>2 DEF Stays
            <4>2. step[w] = "record" => posts[job[w]] > 0
                BY <1>1, OnShareAfter DEF Recording
            <4> QED
                BY <1>0, <2>2, <3>1, <4>1, <4>2
        <3>3. CASE Posts(w, <<c, k>>)
            BY <1>0, <2>2, <3>1, <3>3 DEF Posts
        <3>4. CASE Writes(w, c)
            BY <2>2, <3>1, <3>4 DEF Writes
        <3> QED
            BY <3>2, <3>3, <3>4 DEF Handles, Effect
    <2> QED
        BY <2>1, <2>2
<1>4. ASSUME NEW d \in Campaigns, share'[d].state = "PUBLISHED"
      PROVE  posts'[<<d, share'[d].round>>] > 0 /\ share'[d].target \in engaged'
    <2>1. CASE share'[d] = share[d]
        <3>1. posts[<<d, share[d].round>>] > 0 /\ share[d].target \in engaged
            BY <1>1, <1>4, <2>1 DEF PublishedIsRecorded
        <3>2. <<d, share[d].round>> \in Events
            BY <1>4, <2>1 DEF PublishingInv, ShareShape, Events
        <3> QED
            BY <1>2, <2>1, <3>1, <3>2
    <2>2. CASE share'[d] # share[d]
        <3>1. d = c /\ Writes(w, c)
            BY <2>2, ShareKept
        <3>2. OnShare(w, c) /\ step[w] \in {"record", "duplicate"} /\ share[c] = copy[w]
              /\ share'[c].target = copy[w].target /\ share'[c].round = share[c].round
            BY <1>4, <3>1, WrittenShare
        <3>3. posts[job[w]] > 0 /\ (step[w] = "duplicate" => copy[w].target \in engaged)
            BY <1>1, <3>2 DEF Recording
        <3>4. posts' = posts /\ copy[w].target \in engaged'
            BY <3>1, <3>2, <3>3 DEF Writes
        <3>5. job[w] = <<c, share'[c].round>>
            BY <1>0, <3>2 DEF PublishingInv, CopyShape
        <3> QED
            BY <3>1, <3>2, <3>3, <3>4, <3>5
    <2> QED
        BY <2>1, <2>2
<1>5. \A t \in Targets : scoring'[t] = IF t \in engaged' THEN 1 ELSE 0
    BY <1>1 DEF PublishedIsRecorded, Handles, Effect, Stays, Posts, Writes
<1>6. Recording'
    BY <1>3 DEF Recording
<1> QED
    BY <1>4, <1>5, <1>6 DEF PublishedIsRecorded

LEMMA HandlerKeepsTokens ==
    ASSUME PublishingInv, NEW w \in Workers, NEW c \in Campaigns, NEW k \in Rounds, Handles(w, c, k)
    PROVE  TokenOfVersion'
<1>1. TokenOfVersion /\ CopyShape /\ connection \in Connections
    BY DEF PublishingInv, TypeOK
<1>2. ConnectionGoesOn
    BY <1>1 DEF Handles, Effect, Stays, Posts, Writes, ConnectionGoesOn, Connections
<1>3. connection' \in Connections
    BY DEF Handles, FactsTyped
<1>4. ASSUME NEW v \in Workers, step'[v] \in UsesToken, step[v] \in UsesToken, used'[v] = used[v]
      PROVE  /\ used'[v].version <= connection'.version
             /\ used'[v].version = connection'.version => used'[v].token = connection'.token
    <2>1. /\ used[v].version <= connection.version
          /\ used[v].version = connection.version => used[v].token = connection.token
        BY <1>1, <1>4 DEF TokenOfVersion
    <2>2. used[v].version \in Nat /\ connection.version \in Nat /\ connection'.version \in Nat
        BY <1>1, <1>3, <1>4 DEF CopyShape, Connections
    <2> QED
        BY <1>2, <1>4, <2>1, <2>2 DEF ConnectionGoesOn
<1>5. ASSUME NEW v \in Workers, step'[v] \in UsesToken
      PROVE  \/ step[v] \in UsesToken /\ used'[v] = used[v]
             \/ used'[v] = connection /\ connection' = connection
    <2>1. CASE v # w
        BY <1>5, <2>1 DEF Handles, Effect, OthersWait
    <2>2. CASE v = w
        BY <1>5, <2>2 DEF Handles, Effect, Stays, Posts, Writes, Replied, UsesToken
    <2> QED
        BY <2>1, <2>2
<1> QED
    BY <1>1, <1>4, <1>5 DEF TokenOfVersion, Connections

LEMMA HandlerKeepsInv ==
    ASSUME PublishingInv, NEW w \in Workers, HandlerStep(w)
    PROVE  PublishingInv'
<1>1. PICK c \in Campaigns, k \in Rounds : Handles(w, c, k)
    BY HandlerEffect
<1>2. TypeOK'
    BY <1>1, Typed DEF Handles, TypeOK, WorkersTyped, FactsTyped
<1> QED
    BY <1>1, <1>2, HandlerKeepsIdle, HandlerKeepsEvents, HandlerKeepsShape, HandlerKeepsCopies,
       HandlerKeepsMarker, HandlerKeepsCount, HandlerKeepsRounds, HandlerKeepsRecords,
       HandlerKeepsTokens DEF PublishingInv

-----------------------------------------------------------------------------
(***************************************************************************)
(* The employee and the runs keep the invariant.                           *)
(***************************************************************************)
LEMMA ConnectionKeepsInv ==
    ASSUME PublishingInv, ConnectionChanges
    PROVE  PublishingInv' /\ connection'.state # "REVOKED"
<1>1. TypeOK /\ connection \in Connections /\ CopyShape /\ TokenOfVersion
    BY DEF PublishingInv, TypeOK
<1>2. connection' \in Connections /\ ConnectionGoesOn /\ connection'.state # "REVOKED"
    <2>1. CASE connection' = connect(connection) \/ connection' = remove(connection)
        <3>1. /\ connection' \in Connections /\ connection'.version = connection.version + 1
              /\ connection'.state \in {"USABLE", "REMOVED"}
            <4>1. CASE connection' = connect(connection)
                BY <1>1, <4>1, ConnectionOperations
            <4>2. CASE connection' = remove(connection)
                BY <1>1, <4>2, ConnectionOperations
            <4> QED
                BY <2>1, <4>1, <4>2
        <3>2. connection.version \in Nat
            BY <1>1 DEF Connections
        <3> QED
            BY <3>1, <3>2 DEF ConnectionGoesOn
    <2>2. CASE connection' = [connection EXCEPT !.state = "EXPIRED"]
        BY <1>1, <2>2, ConnectionOperations DEF ConnectionGoesOn, Connections
    <2> QED
        BY <2>1, <2>2 DEF ConnectionChanges, SaveConnection
<1>3. UNCHANGED <<rowVars, share, asking, engaged, scoring, posts, lost, unread, handlerVars, outcome>>
    BY DEF ConnectionChanges
<1>4. TypeOK'
    BY <1>1, <1>2, <1>3 DEF TypeOK, rowVars, handlerVars
<1>5. TokenOfVersion'
    <2>1. ASSUME NEW v \in Workers, step[v] \in UsesToken
          PROVE  /\ used[v].version <= connection'.version
                 /\ used[v].version = connection'.version => used[v].token = connection'.token
        <3>1. /\ used[v].version <= connection.version
              /\ used[v].version = connection.version => used[v].token = connection.token
            BY <1>1, <2>1 DEF TokenOfVersion
        <3>2. used[v].version \in Nat /\ connection.version \in Nat /\ connection'.version \in Nat
            BY <1>1, <1>2, <2>1 DEF CopyShape, Connections
        <3> QED
            BY <1>2, <3>1, <3>2 DEF ConnectionGoesOn
    <2> QED
        BY <1>3, <2>1 DEF TokenOfVersion, handlerVars
<1> QED
    BY <1>2, <1>3, <1>4, <1>5
    DEF PublishingInv, Idle, EventsWritten, ShareShape, CopyShape, CopyCurrent, OneMarker, PostCount,
        Counted, NotCalled, Acknowledged, RoundOver, Recording, PublishedIsRecorded, OnShare, rowVars, handlerVars

LEMMA AskKeepsInv ==
    ASSUME PublishingInv, NEW c \in Campaigns, AskShare(c)
    PROVE  PublishingInv'
<1>1. UNCHANGED <<rowVars, share, connection, engaged, scoring, posts, lost, unread, handlerVars, outcome>>
      /\ asking' \in SUBSET Campaigns
    BY DEF AskShare, PublishingInv, TypeOK
<1>2. TypeOK'
    BY <1>1 DEF PublishingInv, TypeOK, rowVars, handlerVars
<1> QED
    BY <1>1, <1>2
    DEF PublishingInv, Idle, EventsWritten, ShareShape, CopyShape, CopyCurrent, OneMarker, PostCount,
        Counted, NotCalled, Acknowledged, RoundOver, Recording, PublishedIsRecorded, TokenOfVersion, OnShare,
        rowVars, handlerVars

\* A share that may be asked for has no marked copy, and the next round is its own.
LEMMA RequestKeepsInv ==
    ASSUME PublishingInv, NEW c \in Campaigns, RequestShare(c)
    PROVE  PublishingInv'
<1>1. /\ TypeOK /\ EventsWritten /\ ShareShape /\ CopyShape /\ CopyCurrent /\ OneMarker /\ PostCount
      /\ Acknowledged /\ Idle /\ Recording /\ PublishedIsRecorded
    BY DEF PublishingInv
<1>2. UNCHANGED <<connection, engaged, scoring, posts, lost, unread, handlerVars, outcome>>
      /\ asking' \in SUBSET Campaigns
    BY <1>1 DEF RequestShare, TypeOK
<1>3. CASE share[c].state \in {"QUEUED", "PUBLISHED"} /\ UNCHANGED <<share, rowVars>>
    <2>1. TypeOK'
        BY <1>1, <1>2, <1>3 DEF TypeOK, rowVars, handlerVars
    <2> QED
        BY <1>2, <1>3, <2>1
        DEF PublishingInv, Idle, EventsWritten, ShareShape, CopyShape, CopyCurrent, OneMarker,
            PostCount, Counted, NotCalled, Acknowledged, RoundOver, Recording, PublishedIsRecorded,
            TokenOfVersion, OnShare, rowVars, handlerVars
<1>4. ASSUME NEW t \in Targets, NEW new,
             new = IF share[c].state = "NONE" THEN newShareRequest(t) ELSE retryShare(share[c], t),
             share[c].state \in {"NONE", "FAILED"}, new.round \in Rounds,
             Update(c, share[c], new), Write(<<c, new.round>>)
      PROVE  PublishingInv'
    <2>1. share[c] \in ShareRows /\ share \in [Campaigns -> ShareRows]
          /\ queue \in [Events -> {"ABSENT", "QUEUED", "DONE", "FAILED"}]
        BY <1>1 DEF TypeOK
    <2>2. /\ new \in ShareRows /\ new.round = share[c].round + 1 /\ new.state = "QUEUED"
          /\ ~new.marker /\ new.version = share[c].version + 1 /\ new.target = t /\ t # Nothing
        <3>1. share[c].state = "NONE" => share[c].round = 0 /\ share[c].version = 0
            BY <1>1 DEF ShareShape
        <3> QED
            BY <1>4, <2>1, <3>1, ShareAsked
    <2>3. /\ share' = [share EXCEPT ![c] = new]
          /\ queue' = [queue EXCEPT ![<<c, new.round>>] = "QUEUED"]
          /\ job' = job /\ returned' = returned
          /\ <<c, new.round>> \in Events
        BY <1>4 DEF Update, Write, Events
    <2>4. TypeOK'
        BY <1>1, <1>2, <2>1, <2>2, <2>3 DEF TypeOK, handlerVars
    <2>5. /\ share'[c] = new /\ \A d \in Campaigns : d # c => share'[d] = share[d]
          /\ \A d \in Campaigns : share[d].round <= share'[d].round
          /\ \A d \in Campaigns : share[d].round \in Nat /\ share[d].version \in Nat
        BY <2>1, <2>2, <2>3 DEF ShareRows
    <2>6. ASSUME NEW v \in Workers, OnShare(v, c) PROVE copy[v].version < share[c].version /\ ~copy[v].marker
        <3>1. copy[v].state = "QUEUED" /\ copy[v].version \in Nat
            BY <1>1, <2>6 DEF CopyShape, OnShare, TypeOK, ShareRows
        <3>2. copy[v] # share[c]
            BY <1>4, <3>1
        <3> QED
            BY <1>1, <2>5, <2>6, <3>1, <3>2 DEF CopyCurrent
    <2>7. \A v \in Workers, d \in Campaigns : OnShare(v, d)' <=> OnShare(v, d)
        BY <1>2, <2>3 DEF OnShare, handlerVars
    <2>8. EventsWritten'
        <3>1. ASSUME NEW d \in Campaigns, NEW m \in Rounds, queue'[<<d, m>>] # "ABSENT"
              PROVE  m <= share'[d].round
            <4>1. CASE d = c /\ m = new.round
                BY <2>5, <4>1 DEF Rounds
            <4>2. CASE ~(d = c /\ m = new.round)
                <5>1. queue[<<d, m>>] # "ABSENT"
                    BY <2>1, <2>3, <3>1, <4>2 DEF Events
                <5>2. m <= share[d].round /\ m \in Nat /\ share'[d].round \in Nat
                    BY <1>1, <2>4, <5>1 DEF EventsWritten, Rounds, TypeOK, ShareRows
                <5> QED
                    BY <2>5, <5>2
            <4> QED
                BY <4>1, <4>2
        <3>2. \A v \in Workers : job'[v] # Nothing => queue'[job'[v]] # "ABSENT"
            BY <1>1, <2>1, <2>3 DEF EventsWritten, TypeOK
        <3> QED
            BY <3>1, <3>2 DEF EventsWritten
    <2>9. ShareShape'
        BY <1>1, <1>4, <2>2, <2>5 DEF ShareShape
    <2>10. CopyShape' /\ Idle' /\ TokenOfVersion'
        BY <1>1, <1>2, <2>3 DEF PublishingInv, CopyShape, Idle, TokenOfVersion, handlerVars
    <2>11. CopyCurrent' /\ OneMarker'
        <3>1. ASSUME NEW v \in Workers, NEW d \in Campaigns, OnShare(v, d)
              PROVE  /\ copy[v].version <= share'[d].version
                     /\ copy[v].version = share'[d].version => copy[v] = share'[d]
                     /\ copy[v].marker => copy[v] = share'[d]
            <4>1. CASE d # c
                BY <1>1, <2>5, <3>1, <4>1 DEF CopyCurrent
            <4>2. CASE d = c
                <5>1. copy[v].version \in Nat
                    BY <1>1 DEF TypeOK, ShareRows
                <5> QED
                    BY <2>2, <2>5, <2>6, <3>1, <4>2, <5>1
            <4> QED
                BY <4>1, <4>2
        <3> QED
            BY <1>1, <1>2, <2>7, <3>1 DEF CopyCurrent, OneMarker, handlerVars
    <2>12. PostCount'
        <3>1. \A x : Counted(x)' = Counted(x)
            BY <1>2 DEF Counted
        <3>2. ASSUME NEW d \in Campaigns, NEW m \in Rounds, NotCalled(d, m)' PROVE NotCalled(d, m)
            <4>1. CASE d = c
                BY <2>2, <2>5, <3>2, <4>1 DEF NotCalled, Rounds
            <4>2. CASE d # c
                BY <2>5, <3>2, <4>2 DEF NotCalled
            <4> QED
                BY <4>1, <4>2
        <3>3. job' = job /\ step' = step
            BY <1>2, <2>3 DEF handlerVars
        <3> QED
            BY <1>1, <2>7, <3>1, <3>2, <3>3 DEF PostCount
    <2>13. Acknowledged'
        <3>1. \A d \in Campaigns, m \in Rounds : RoundOver(d, m) => RoundOver(d, m)'
            <4>1. ASSUME NEW m \in Rounds, RoundOver(c, m) PROVE share'[c].round > m
                BY <2>2, <2>5, <4>1 DEF RoundOver, Rounds
            <4> QED
                BY <2>5, <4>1 DEF RoundOver
        <3>2. \A d \in Campaigns, m \in Rounds : queue'[<<d, m>>] = "DONE" => queue[<<d, m>>] = "DONE"
            BY <2>1, <2>3 DEF Events
        <3> QED
            BY <1>1, <1>2, <2>3, <3>1, <3>2 DEF Acknowledged
    <2>14. Recording'
        BY <1>1, <1>2, <2>3, <2>7 DEF Recording, handlerVars
    <2>15. PublishedIsRecorded'
        BY <1>1, <1>2, <2>2, <2>5 DEF PublishedIsRecorded
    <2> QED
        BY <2>4, <2>8, <2>9, <2>10, <2>11, <2>12, <2>13, <2>14, <2>15 DEF PublishingInv
<1> QED
    BY <1>3, <1>4 DEF RequestShare

\* A run is handed an event, settles one, or dies: the handler is at no step before and after.
LEMMA RunKeepsInv ==
    ASSUME PublishingInv, NEW w \in Workers, Start(w) \/ Settle(w) \/ Die(w)
    PROVE  PublishingInv'
<1>1. /\ TypeOK /\ EventsWritten /\ ShareShape /\ CopyShape /\ CopyCurrent /\ OneMarker /\ PostCount
      /\ Acknowledged /\ Idle /\ Recording /\ PublishedIsRecorded /\ TokenOfVersion
    BY DEF PublishingInv
<1>2. UNCHANGED factVars
    BY DEF Start, Settle, Die
<1>3. /\ \A v \in Workers \ {w} :
            /\ job'[v] = job[v] /\ step'[v] = step[v] /\ copy'[v] = copy[v] /\ used'[v] = used[v]
            /\ reason'[v] = reason[v] /\ outcome'[v] = outcome[v]
            /\ v \in returned' <=> v \in returned
      /\ step'[w] = "share" /\ w \notin returned'
    <2>1. CASE Start(w)
        BY <1>1, <2>1 DEF Start, Deliver, handlerVars, TypeOK, Idle
    <2>2. CASE Settle(w)
        BY <1>1, <2>2 DEF Settle, SettleAs, handlerVars, TypeOK, Idle
    <2>3. CASE Die(w)
        BY <1>1, <2>3 DEF Die, Drop, Forget, TypeOK
    <2> QED
        BY <2>1, <2>2, <2>3
<1>4. TypeOK'
    <2>1. CASE Start(w)
        BY <1>1, <1>2, <2>1 DEF Start, Deliver, handlerVars, factVars, TypeOK
    <2>2. CASE Settle(w)
        BY <1>1, <1>2, <2>2 DEF Settle, SettleAs, RowAfter, handlerVars, factVars, TypeOK, Outcomes
    <2>3. CASE Die(w)
        BY <1>1, <1>2, <2>3, NoShareTyped DEF Die, Drop, Forget, factVars, TypeOK, Outcomes, Steps
    <2> QED
        BY <2>1, <2>2, <2>3
<1>5. Idle'
    <2>1. \A v \in returned' : v \in Workers /\ v # w
        BY <1>3, <1>4 DEF TypeOK
    <2> QED
        BY <1>1, <1>3, <2>1 DEF Idle
<1>6. \A v \in Workers, d \in Campaigns : OnShare(v, d)' => v # w /\ OnShare(v, d)
    BY <1>3 DEF OnShare
<1>7. EventsWritten' /\ ShareShape'
    <2>1. \A x \in Events : queue'[x] = "ABSENT" <=> queue[x] = "ABSENT"
        <3>1. CASE Start(w) \/ Die(w)
            BY <3>1 DEF Start, Die, Deliver, Drop
        <3>2. CASE Settle(w)
            BY <1>1, <3>2 DEF Settle, SettleAs, RowAfter, TypeOK
        <3> QED
            BY <3>1, <3>2
    <2>2. job'[w] # Nothing => queue'[job'[w]] # "ABSENT"
        BY <1>1 DEF Start, Settle, Die, Deliver, SettleAs, Drop, TypeOK
    <2>3. job' \in [Workers -> Events \cup {Nothing}] /\ \A d \in Campaigns, m \in Rounds : <<d, m>> \in Events
        BY <1>4 DEF TypeOK, Events
    <2>4. \A v \in Workers : job'[v] # Nothing => queue'[job'[v]] # "ABSENT"
        BY <1>1, <1>3, <2>1, <2>2, <2>3 DEF EventsWritten
    <2> QED
        BY <1>1, <1>2, <2>1, <2>3, <2>4 DEF EventsWritten, ShareShape, factVars
<1>8. CopyShape'
    BY <1>1, <1>3 DEF CopyShape, Marked, Unmarked, UsesToken
<1>9. CopyCurrent' /\ OneMarker' /\ Recording'
    BY <1>1, <1>2, <1>3, <1>6 DEF CopyCurrent, OneMarker, Recording, factVars
<1>10. PostCount' /\ PublishedIsRecorded'
    BY <1>1, <1>2, <1>3, <1>6 DEF PostCount, Counted, NotCalled, PublishedIsRecorded, factVars
<1>11. Acknowledged'
    <2>1. \A d \in Campaigns, m \in Rounds : RoundOver(d, m)' <=> RoundOver(d, m)
        BY <1>2 DEF RoundOver, factVars
    <2>2. ASSUME NEW d \in Campaigns, NEW m \in Rounds, queue'[<<d, m>>] = "DONE"
          PROVE  RoundOver(d, m)
        <3>1. CASE queue[<<d, m>>] = "DONE"
            BY <1>1, <3>1 DEF Acknowledged
        <3>2. CASE queue[<<d, m>>] # "DONE"
            <4>1. Settle(w) /\ job[w] = <<d, m>> /\ outcome[w] = "DONE" /\ w \in returned
                BY <1>1, <2>2, <3>2
                DEF Start, Die, Deliver, Drop, Settle, SettleAs, RowAfter, TypeOK, Events, Outcomes
            <4> QED
                BY <1>1, <4>1 DEF Acknowledged
        <3> QED
            BY <3>1, <3>2
    <2> QED
        <3>1. ASSUME NEW d \in Campaigns, NEW m \in Rounds, NEW v \in Workers,
                     v \in returned', job'[v] = <<d, m>>, outcome'[v] = "DONE"
              PROVE  RoundOver(d, m)
            <4>1. v \in returned /\ job[v] = <<d, m>> /\ outcome[v] = "DONE"
                BY <1>3, <3>1
            <4> QED
                BY <1>1, <4>1 DEF Acknowledged
        <3> QED
            BY <2>1, <2>2, <3>1 DEF Acknowledged
<1>12. TokenOfVersion'
    BY <1>1, <1>2, <1>3 DEF TokenOfVersion, UsesToken, factVars
<1> QED
    BY <1>4, <1>5, <1>7, <1>8, <1>9, <1>10, <1>11, <1>12 DEF PublishingInv

LEMMA PublishingStep == PublishingInv /\ [Next]_vars => PublishingInv'
<1> SUFFICES ASSUME PublishingInv, [Next]_vars PROVE PublishingInv'
    OBVIOUS
<1>1. CASE UNCHANGED vars
    <2>1. UNCHANGED <<rowVars, factVars, handlerVars, outcome>>
        BY <1>1 DEF vars
    <2> QED
        BY <2>1
        DEF PublishingInv, TypeOK, Idle, EventsWritten, ShareShape, CopyShape, CopyCurrent, OneMarker,
            PostCount, Counted, NotCalled, Acknowledged, RoundOver, Recording, PublishedIsRecorded,
            TokenOfVersion, OnShare, rowVars, factVars, handlerVars
<1>2. CASE Next
    BY <1>2, ConnectionKeepsInv, AskKeepsInv, RequestKeepsInv, RunKeepsInv, HandlerKeepsInv DEF Next
<1> QED
    BY <1>1, <1>2

-----------------------------------------------------------------------------
\* Every behaviour of the employee, the workers and the outbox keeps the invariant.
THEOREM PublishingHolds == Spec => []PublishingInv
BY InitHolds, PublishingStep, PTL DEF Spec

\* The shares, the connection and the handlers keep their types.
THEOREM PublishingTyped == Spec => []TypeOK
<1>1. PublishingInv => TypeOK
    BY DEF PublishingInv
<1> QED
    BY <1>1, PublishingHolds, PTL

\* Whatever the outbox does to a round's event, its round posts at most once, but for posts
\* the adapter reported as errors.
THEOREM PostsOncePerRound == Spec => []OnePostPerRound
<1>1. PublishingInv => OnePostPerRound
    BY DEF PublishingInv, PostCount, Counted, OnePostPerRound, TypeOK
<1> QED
    BY <1>1, PublishingHolds, PTL

\* An acknowledged event's round is published, failed or followed by another.
THEOREM AcknowledgedIsSettled == Spec => []DoneIsSettled
<1>1. PublishingInv => DoneIsSettled
    BY DEF PublishingInv, Acknowledged, RoundOver, DoneIsSettled
<1> QED
    BY <1>1, PublishingHolds, PTL

\* A published share has a post and an engagement, and scoring is told of each once.
THEOREM PublishedRecorded == Spec => []PublishedIsRecorded
<1>1. PublishingInv => PublishedIsRecorded
    BY DEF PublishingInv
<1> QED
    BY <1>1, PublishingHolds, PTL

\* A handler writes only shares that are still open, and a new round follows a failed one.
LEMMA SettledStays ==
    ASSUME PublishingInv, [Next]_vars, NEW c \in Campaigns
    PROVE  /\ share[c].state = "PUBLISHED" => share'[c].state = "PUBLISHED"
           /\ share[c].state = "FAILED" => \/ share'[c].state = "FAILED"
                                           \/ share'[c].round = share[c].round + 1
<1>1. CASE \E w \in Workers : HandlerStep(w)
    BY <1>1, HandlerEffect, ShareKept
<1>2. CASE \E d \in Campaigns : RequestShare(d)
    <2>1. PICK d \in Campaigns : RequestShare(d)
        BY <1>2
    <2>2. CASE share' = share
        BY <2>2
    <2>3. ASSUME NEW t \in Targets, share[d].state \in {"NONE", "FAILED"},
                 share' = [share EXCEPT ![d] = IF share[d].state = "NONE" THEN newShareRequest(t)
                                               ELSE retryShare(share[d], t)]
          PROVE  /\ share[c].state = "PUBLISHED" => share'[c].state = "PUBLISHED"
                 /\ share[c].state = "FAILED" => \/ share'[c].state = "FAILED"
                                                 \/ share'[c].round = share[c].round + 1
        <3>1. share \in [Campaigns -> ShareRows] /\ share[d] \in ShareRows
            BY DEF PublishingInv, TypeOK
        <3>2. retryShare(share[d], t).round = share[d].round + 1
            BY <3>1, ShareAsked
        <3> QED
            BY <2>3, <3>1, <3>2
    <2> QED
        BY <2>1, <2>2, <2>3 DEF RequestShare, Update
<1>3. CASE ~(\E w \in Workers : HandlerStep(w)) /\ ~(\E d \in Campaigns : RequestShare(d))
    <2>1. share' = share
        BY <1>3 DEF Next, ConnectionChanges, AskShare, Start, Settle, Die, vars, factVars
    <2> QED
        BY <2>1
<1> QED
    BY <1>1, <1>2, <1>3

\* No late handler reopens a settled round.
THEOREM SettledRoundsStay == Spec => SettledRoundStays
<1>1. PublishingInv /\ [Next]_vars =>
        [\A c \in Campaigns :
            /\ share[c].state = "PUBLISHED" => share'[c].state = "PUBLISHED"
            /\ share[c].state = "FAILED" => \/ share'[c].state = "FAILED"
                                            \/ share'[c].round = share[c].round + 1]_vars
    BY SettledStays
<1> QED
    BY <1>1, PublishingHolds, PTL DEF Spec, SettledRoundStays

\* A 401 never revokes the token of a later reconnect.
THEOREM RevokesOwnToken == Spec => RevokesTheTokenUsed
<1>1. ASSUME PublishingInv, Next, connection'.state = "REVOKED", connection.state # "REVOKED"
      PROVE  \E w \in Workers : At(w, "revoke") /\ used[w].token = connection.token
    <2>1. PICK w \in Workers : RevokeConnection(w) /\ SaveConnection(used[w], revoke(used[w]))
        <3>1. ~ConnectionChanges
            BY <1>1, ConnectionKeepsInv
        <3>2. connection' # connection
            BY <1>1
        <3>3. ASSUME NEW w \in Workers, HandlerStep(w)
              PROVE  RevokeConnection(w) /\ SaveConnection(used[w], revoke(used[w]))
            BY <3>2, <3>3 DEF HandlerStep, ReadShare, ReadConnection, OpenToken, SaveMarker, Call,
               RecordPublish, RecordDuplicate, ClearMarker, RevokeConnection, FailShare, factVars
        <3> QED
            BY <1>1, <3>1, <3>2, <3>3
            DEF Next, AskShare, RequestShare, Start, Settle, Die, factVars
    <2>2. At(w, "revoke") /\ step[w] \in UsesToken /\ used[w].version = connection.version
        BY <2>1 DEF RevokeConnection, At, UsesToken, SaveConnection
    <2>3. used[w].token = connection.token
        BY <1>1, <2>2 DEF PublishingInv, TokenOfVersion
    <2> QED
        BY <2>2, <2>3
<1>2. PublishingInv /\ [Next]_vars =>
        [connection'.state = "REVOKED" /\ connection.state # "REVOKED"
            => \E w \in Workers : At(w, "revoke") /\ used[w].token = connection.token]_vars
    BY <1>1
<1> QED
    BY <1>2, PublishingHolds, PTL DEF Spec, RevokesTheTokenUsed

=============================================================================
