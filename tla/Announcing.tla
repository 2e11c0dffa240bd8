----------------------------- MODULE Announcing -----------------------------
(***************************************************************************)
(* The announcement of a campaign: the outbox rows are CampaignRegistered  *)
(* events, one per campaign, and their handler sends one card per campaign *)
(* to the Novera chat gateway, which does not deduplicate.  The handler    *)
(* keeps the announcement row: it saves an attempt marker before the call  *)
(* and the result after it, each save in a transaction of its own, so a    *)
(* run can die, lose an answer or fail a write between any two of them.    *)
(*                                                                         *)
(* An outbox row and its campaign share an id: the idempotency key of      *)
(* CampaignRegistered is the campaign's.                                   *)
(***************************************************************************)
EXTENDS OutboxRuns

CONSTANTS
    NoveraConfigured,   \* replicas with Novera on and a card button URL
    MaxRetries          \* environment: how often an admin retries an announcement

ASSUME AnnouncingAssumption == NoveraConfigured \subseteq Replicas /\ MaxRetries \in Nat

VARIABLES
    announcementsEnabled,   \* the setting announcements.enabled
    campaign,               \* campaignStatus of each campaign
    announcement,           \* the announcement row: which of its facts are set
    retrying,               \* campaigns an admin retry has read as FAILED
    permits,                \* how often a person asked for the card: registered, retried
    cards,                  \* the cards Novera has sent
    \* the handler of each replica's current row
    enabled,                \* the settings the run read at its start
    step,                   \* the next step of the handler
    copy,                   \* the handler's copy of the announcement
    verdict                 \* the outcome once copy is saved

handlerVars == <<step, copy, verdict>>
factVars == <<announcementsEnabled, campaign, announcement, retrying, permits, cards>>
announceVars == <<announcementsEnabled, campaign, announcement, retrying, permits, cards,
                  enabled, step, copy, verdict>>
vars == <<outboxVars, announceVars>>

Steps == {"inspect", "insert", "mark", "call", "save"}
CampaignStates == {"SCHEDULED", "OPEN", "CLOSED"}

-----------------------------------------------------------------------------
(***************************************************************************)
(* The announcement: a set of facts, no row when it is empty.              *)
(***************************************************************************)
Facts == {"queued", "attempted", "sent", "failed"}

announcementStatus(a) ==
    IF "sent" \in a THEN "SENT" ELSE IF "failed" \in a THEN "FAILED" ELSE "QUEUED"

hasUnfinishedAttempt(a) == announcementStatus(a) = "QUEUED" /\ "attempted" \in a

queueAnnouncement == {"queued"}
\* Mutant: no marker is kept.
markAttemptedForgotten(a) == a
markAttempted(a) == a \cup {"attempted"}
clearAttempt(a) == a \ {"attempted"}
markSent(a) == a \cup {"sent"}
markFailed(a) == a \cup {"failed"}
retryAnnouncement(a) == a \ {"failed", "attempted"}

-----------------------------------------------------------------------------
Init ==
    /\ OutboxInit
    /\ announcementsEnabled \in BOOLEAN
    /\ campaign \in [Rows -> {"SCHEDULED", "OPEN"}]
    /\ announcement = [c \in Rows |-> {}]
    /\ retrying = {}
    /\ permits = [c \in Rows |-> 0]
    /\ cards = [c \in Rows |-> 0]
    /\ enabled = [r \in Replicas |-> FALSE]
    /\ step = [r \in Replicas |-> "inspect"]
    /\ copy = [r \in Replicas |-> {}]
    /\ verdict = [r \in Replicas |-> "DONE"]

(***************************************************************************)
(* The people: registering and retrying, the kill switch, the campaign's   *)
(* opening and closing.                                                    *)
(***************************************************************************)

Register(c) ==
    /\ Enqueue(c)
    /\ permits' = [permits EXCEPT ![c] = @ + 1]
    /\ UNCHANGED <<announcementsEnabled, campaign, announcement, retrying, cards, enabled,
                   handlerVars>>

\* The admin retry of amplify-api is refused while the kill switch is off, and unless the
\* announcement is FAILED when it is read.
AskRetry(c) ==
    /\ announcementsEnabled
    /\ announcementStatus(announcement[c]) = "FAILED"
    /\ retrying' = retrying \cup {c}
    /\ UNCHANGED <<outboxVars, announcementsEnabled, campaign, announcement, permits, cards,
                   enabled, handlerVars>>

\* Then, in a later transaction, requeueTx puts the row back, or finds it is not FAILED.
RetryRequeues(c) ==
    /\ permits[c] <= MaxRetries
    /\ AdminRequeue(c)
    /\ permits' = [permits EXCEPT ![c] = @ + 1]

RetryRefused(c) == status[c] # "FAILED" /\ UNCHANGED <<outboxVars, permits>>

AdminRetry(c) ==
    /\ c \in retrying
    /\ RetryRequeues(c) \/ RetryRefused(c)
    /\ retrying' = retrying \ {c}
    /\ UNCHANGED <<announcementsEnabled, campaign, announcement, cards, enabled, handlerVars>>

ToggleAnnouncements ==
    /\ announcementsEnabled' = ~announcementsEnabled
    /\ UNCHANGED <<outboxVars, campaign, announcement, retrying, permits, cards, enabled,
                   handlerVars>>

\* The clock opens a campaign; closing, archiving or deleting it ends its announcement.
CampaignMoves(c) ==
    /\ \/ campaign[c] = "SCHEDULED" /\ campaign' = [campaign EXCEPT ![c] = "OPEN"]
       \/ campaign[c] # "CLOSED" /\ campaign' = [campaign EXCEPT ![c] = "CLOSED"]
    /\ UNCHANGED <<outboxVars, announcementsEnabled, announcement, retrying, permits, cards,
                   enabled, handlerVars>>

-----------------------------------------------------------------------------
(***************************************************************************)
(* handleCampaignRegistered, one action per read or write that another     *)
(* process can see.                                                        *)
(***************************************************************************)

Forget(r) ==
    /\ step' = [step EXCEPT ![r] = "inspect"]
    /\ copy' = [copy EXCEPT ![r] = {}]
    /\ verdict' = [verdict EXCEPT ![r] = "DONE"]

Return(r, k) == HandlerReturns(r, k) /\ Forget(r)

\* Mutant: the last attempt's error is logged and forgotten.
ErrorOutcomeSwallowed(r) == IF FinalAttempt(r) THEN "DONE" ELSE "RETRY"

\* dispatch: an error is retried, and fails the row on the last attempt.
ErrorOutcome(r) == IF FinalAttempt(r) THEN "FAIL" ELSE "RETRY"

GoOn(r, s, a) ==
    /\ step' = [step EXCEPT ![r] = s]
    /\ copy' = [copy EXCEPT ![r] = a]
    /\ UNCHANGED <<outboxVars, verdict>>

SaveThen(r, a, k) ==
    /\ step' = [step EXCEPT ![r] = "save"]
    /\ copy' = [copy EXCEPT ![r] = a]
    /\ verdict' = [verdict EXCEPT ![r] = k]
    /\ UNCHANGED outboxVars

MaySendNow(r, c) == enabled[r] /\ r \in NoveraConfigured /\ campaign[c] = "OPEN"

\* Mutant: every rerun of a FAILED announcement is taken for an admin's retry.
IsRetryAlways(r) == TRUE

\* requeueTx resets the attempts, so the first claim of a FAILED announcement is an admin's
\* retry; a later one is the rerun of a run that saved FAILED and did not settle the row.
IsRetry(r) == got[r][current[r]] <= 1

\* The kill switch, the configuration, the campaign and the announcement.  A Novera whose
\* button URL is not valid counts as one that is not configured: either defers the row.
Inspect(r) ==
    LET c == current[r]
        a == announcement[c]
    IN
    /\ Handling(r) /\ step[r] = "inspect"
    /\ \/ /\ ~enabled[r] \/ r \notin NoveraConfigured
          /\ Return(r, "DEFER")
       \/ /\ enabled[r] /\ r \in NoveraConfigured
          /\ \/ campaign[c] = "CLOSED" /\ Return(r, "DONE")
             \/ campaign[c] = "SCHEDULED" /\ Return(r, "DEFER")
             \/ Return(r, ErrorOutcome(r))      \* a read failed
       \/ /\ MaySendNow(r, c)
          /\ \/ a = {} /\ GoOn(r, "insert", queueAnnouncement)
             \/ announcementStatus(a) = "SENT" /\ Return(r, "DONE")
             \/ announcementStatus(a) = "FAILED" /\ ~IsRetry(r) /\ Return(r, "FAIL")
             \/ /\ announcementStatus(a) = "FAILED" /\ IsRetry(r)
                /\ GoOn(r, "mark", retryAnnouncement(a))
             \/ hasUnfinishedAttempt(a) /\ SaveThen(r, markFailed(a), "FAIL")
             \/ /\ a # {} /\ announcementStatus(a) = "QUEUED" /\ ~hasUnfinishedAttempt(a)
                /\ GoOn(r, "mark", a)
    /\ UNCHANGED <<factVars, enabled>>

\* insertQueued: ON CONFLICT DO NOTHING.  An error is reported whether or not the insert
\* was committed.
InsertQueued(r) ==
    LET c == current[r] IN
    /\ Handling(r) /\ step[r] = "insert"
    /\ \/ /\ announcement' = [announcement EXCEPT ![c] = IF @ = {} THEN copy[r] ELSE @]
          /\ GoOn(r, "mark", copy[r]) \/ Return(r, ErrorOutcome(r))
       \/ /\ Return(r, ErrorOutcome(r))
          /\ UNCHANGED announcement
    /\ UNCHANGED <<announcementsEnabled, campaign, retrying, permits, cards, enabled>>

\* save: an update of the whole row, whatever is in it.
SaveAnnouncement(c, a) == announcement' = [announcement EXCEPT ![c] = a]

\* The attempt marker must be durable before the call.
SaveMarker(r) ==
    LET c == current[r]
        marked == markAttempted(copy[r])
    IN
    /\ Handling(r) /\ step[r] = "mark"
    /\ \/ SaveAnnouncement(c, marked) /\ (GoOn(r, "call", marked) \/ Return(r, "RETRY"))
       \/ UNCHANGED announcement /\ Return(r, "RETRY")
    /\ UNCHANGED <<announcementsEnabled, campaign, retrying, permits, cards, enabled>>

\* One call to Novera: accepted; refused for now; refused for good; or no usable answer
\* (a timeout, a dropped connection, a 5xx), when the card may have gone out.
Novera(r, c) ==
    \/ /\ cards' = [cards EXCEPT ![c] = @ + 1]
       /\ SaveThen(r, markSent(copy[r]), "DONE")
    \/ /\ UNCHANGED cards
       /\ IF FinalAttempt(r)
          THEN SaveThen(r, markFailed(clearAttempt(copy[r])), "FAIL")
          ELSE SaveThen(r, clearAttempt(copy[r]), "RETRY")
    \/ /\ UNCHANGED cards
       /\ SaveThen(r, markFailed(clearAttempt(copy[r])), "FAIL")
    \/ /\ UNCHANGED cards \/ cards' = [cards EXCEPT ![c] = @ + 1]
       /\ SaveThen(r, markFailed(copy[r]), "FAIL")

CallNovera(r) ==
    /\ Handling(r) /\ step[r] = "call"
    /\ Novera(r, current[r])
    /\ UNCHANGED <<announcementsEnabled, campaign, announcement, retrying, permits, enabled>>

SaveResult(r) ==
    /\ Handling(r) /\ step[r] = "save"
    /\ \/ SaveAnnouncement(current[r], copy[r])
          /\ (Return(r, verdict[r]) \/ Return(r, ErrorOutcome(r)))
       \/ UNCHANGED announcement /\ Return(r, ErrorOutcome(r))
    /\ UNCHANGED <<announcementsEnabled, campaign, retrying, permits, cards, enabled>>

HandlerStep(r) ==
    Inspect(r) \/ InsertQueued(r) \/ SaveMarker(r) \/ CallNovera(r) \/ SaveResult(r)

-----------------------------------------------------------------------------
\* execute reads the settings once, right after the stale rows are released.
StartRun(r) ==
    /\ ReleaseStale(r)
    /\ enabled' = [enabled EXCEPT ![r] = announcementsEnabled]
    /\ UNCHANGED <<factVars, handlerVars>>

OtherRunStep(r) ==
    /\ Begin(r) \/ Claim(r) \/ HandBack(r) \/ BeginRow(r) \/ Settle(r)
    /\ UNCHANGED announceVars

\* A run that is over forgets the settings it read and the row it was handling.
RunEnds(r) ==
    /\ Finish(r) \/ Fault(r)
    /\ enabled' = [enabled EXCEPT ![r] = FALSE]
    /\ Forget(r)
    /\ UNCHANGED factVars

Next ==
    \/ \E c \in Rows : Register(c) \/ AskRetry(c) \/ AdminRetry(c) \/ CampaignMoves(c)
    \/ ToggleAnnouncements
    \/ \E r \in Replicas : HandlerStep(r) \/ StartRun(r) \/ OtherRunStep(r) \/ RunEnds(r)
    \/ LockDrops /\ UNCHANGED announceVars
    \/ Tick /\ UNCHANGED announceVars

Spec == Init /\ [][Next]_vars

\* The scheduler, the run and the handler go on; the clock opens a scheduled campaign.
Fairness ==
    /\ WF_vars(Tick /\ UNCHANGED announceVars)
    /\ \A c \in Rows : WF_vars(CampaignMoves(c) /\ campaign'[c] = "OPEN")
    /\ \A r \in Replicas :
        /\ WF_vars(Begin(r) /\ UNCHANGED announceVars)
        /\ WF_vars(StartRun(r))
        /\ SF_vars(StartRun(r) /\ elapsed[r] < MaxSeconds)
        /\ SF_vars(Claim(r) /\ UNCHANGED announceVars)
        /\ WF_vars(HandBack(r) /\ UNCHANGED announceVars)
        /\ SF_vars(BeginRow(r) /\ UNCHANGED announceVars)
        /\ WF_vars(HandlerStep(r))
        /\ WF_vars(Settle(r) /\ UNCHANGED announceVars)
        /\ WF_vars(RunEnds(r) /\ faults' = faults)

FairSpec == Spec /\ Fairness

-----------------------------------------------------------------------------
(***************************************************************************)
(* Properties.                                                             *)
(***************************************************************************)

TypeOK ==
    /\ OutboxTypeOK
    /\ announcementsEnabled \in BOOLEAN
    /\ campaign \in [Rows -> CampaignStates]
    /\ announcement \in [Rows -> SUBSET Facts]
    /\ retrying \subseteq Rows
    /\ permits \in [Rows -> Nat]
    /\ cards \in [Rows -> Nat]
    /\ enabled \in [Replicas -> BOOLEAN]
    /\ step \in [Replicas -> Steps]
    /\ copy \in [Replicas -> SUBSET Facts]
    /\ verdict \in [Replicas -> Outcomes]

\* At most one card per campaign for each time a person asked for it (the comment above
\* handleCampaignRegistered), whatever runs die, answers are lost or writes fail.
AtMostOneCard == \A c \in Rows : cards[c] <= permits[c]

\* The same as the abstract specification states it.
Cards == INSTANCE CardDelivery WITH Campaigns <- Rows
DeliversCards == Cards!CardSpec

\* SENT is final: the saves of announcements/repository.bal overwrite the whole row and
\* carry no version, yet no late save of another attempt undoes it.
SentIsFinal ==
    [][\A c \in Rows : "sent" \in announcement[c] => "sent" \in announcement'[c]]_vars

\* The dashboard tells the truth: a campaign shown as sent has a card in the space, and a
\* row is DONE only for a campaign that was announced or is closed.
NothingLostSilently ==
    \A c \in Rows : /\ announcementStatus(announcement[c]) = "SENT" => cards[c] > 0
                    /\ status[c] = "DONE" => \/ announcementStatus(announcement[c]) = "SENT"
                                             \/ campaign[c] = "CLOSED"

\* A registered campaign is settled, by a card, by a recorded failure or by its closing,
\* once the kill switch stays on.
RegisteredIsSettled ==
    <>[]announcementsEnabled
        => \A c \in Rows : status[c] = "PENDING" ~> status[c] \in {"DONE", "FAILED"}

=============================================================================
