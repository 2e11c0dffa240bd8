--------------------------- MODULE AnnouncingProofs ---------------------------
(***************************************************************************)
(* Proofs about Announcing.  Where one of the defences of OutboxRuns keeps *)
(* two runs off the same row, at most one card is sent per authorisation,  *)
(* SENT is final, nothing is lost silently, and Announcing implements      *)
(* CardDelivery: for every number of campaigns, replicas, attempts, faults *)
(* and retries.                                                            *)
(***************************************************************************)
EXTENDS Announcing, OutboxRunsProofs

USE ReplicasAssumption

-----------------------------------------------------------------------------
(***************************************************************************)
(* The inductive invariant.                                                *)
(***************************************************************************)

\* The campaign has an authorisation no card has spent.
Free(c) == cards[c] < permits[c]

\* An announcement nothing was ever sent for, or whose last attempt certainly sent nothing.
Open(a) == "attempted" \notin a /\ "sent" \notin a /\ "failed" \notin a

At(r, s) == Handling(r) /\ step[r] = s

\* A row is claimed by run r, whose handler has done nothing for it.
Untouched(r, c) ==
    /\ lockedBy[c] = r
    /\ \/ phase[r] = "batch"
       \/ phase[r] = "handling" /\ (current[r] = c => step[r] = "inspect")
       \/ phase[r] = "settling" /\ (current[r] = c => outcome[r] = "DEFER")

\* The first claim of a row, still to come or not yet acted on.
FirstTry(c) ==
    \/ status[c] = "PENDING" /\ attempts[c] = 0
    \/ attempts[c] <= 1 /\ \E r \in Replicas : Untouched(r, c)

\* Whatever the handler takes for a licence to send is one.
LicencesAreFree ==
    \A c \in Rows :
        /\ cards[c] <= permits[c]
        /\ status[c] # "ABSENT" /\ Open(announcement[c]) => Free(c)
        /\ announcementStatus(announcement[c]) = "FAILED" /\ FirstTry(c) => Free(c)

\* What the handler of run r knows at each of its steps.
HandlerKnows(r) ==
    LET c == current[r] IN
    /\ ~Handling(r) => step[r] = "inspect"
    /\ At(r, "insert") => Free(c) /\ copy[r] = queueAnnouncement
    /\ At(r, "mark") => Free(c) /\ "sent" \notin copy[r]
    /\ At(r, "call") => Free(c) /\ announcement[c] = copy[r] /\ "attempted" \in copy[r]
    /\ At(r, "save") => /\ Open(copy[r]) => Free(c)
                        /\ "sent" \in copy[r] => cards[c] > 0
                        /\ verdict[r] # "DEFER"
                        /\ verdict[r] = "DONE" => "sent" \in copy[r]
    /\ Handling(r) /\ step[r] # "inspect" => "sent" \notin announcement[c]
    /\ phase[r] = "settling" /\ outcome[r] = "DONE"
        => "sent" \in announcement[c] \/ campaign[c] = "CLOSED"

CardInv == LicencesAreFree /\ (\A r \in Replicas : HandlerKnows(r)) /\ NothingLostSilently

-----------------------------------------------------------------------------
(***************************************************************************)
(* Every step of Announcing is a step of the outbox, and keeps the types.  *)
(***************************************************************************)

\* The three things a step of the handler may do next.
LEMMA Returns ==
    ASSUME TypeOK, NEW r \in Replicas, NEW k, Return(r, k)
    PROVE  /\ Handling(r)
           /\ phase' = [phase EXCEPT ![r] = "settling"]
           /\ outcome' = [outcome EXCEPT ![r] = k]
           /\ step' = [step EXCEPT ![r] = "inspect"]
           /\ copy' = [copy EXCEPT ![r] = {}]
           /\ verdict' = [verdict EXCEPT ![r] = "DONE"]
           /\ UNCHANGED <<rowVars, elapsed, claimed, batch, got, current, inRow, runLock,
                          faults>>
BY DEF Return, HandlerReturns, Forget, rowVars

LEMMA InitTyped == Init => TypeOK
<1> SUFFICES ASSUME Init PROVE TypeOK
    OBVIOUS
<1>1. OutboxTypeOK
    BY InitInv DEF Init, OutboxInv
<1> QED
    BY <1>1 DEF Init, TypeOK, CampaignStates, Facts, Steps, Outcomes

\* The handler of a row is, to the outbox, a stutter or its return.
LEMMA HandlerIsOutboxStep ==
    ASSUME TypeOK, NEW r \in Replicas, HandlerStep(r)
    PROVE  /\ Handling(r)
           /\ UNCHANGED outboxVars \/ \E k \in Outcomes : HandlerReturns(r, k)
<1>1. ErrorOutcome(r) \in Outcomes /\ verdict[r] \in Outcomes
      /\ "DEFER" \in Outcomes /\ "DONE" \in Outcomes /\ "FAIL" \in Outcomes
      /\ "RETRY" \in Outcomes
    BY DEF TypeOK, ErrorOutcome, Outcomes
<1>2. CASE Inspect(r)
    BY <1>1, <1>2 DEF Inspect, Return, GoOn, SaveThen
<1>3. CASE InsertQueued(r)
    BY <1>1, <1>3 DEF InsertQueued, Return, GoOn
<1>4. CASE SaveMarker(r)
    BY <1>1, <1>4 DEF SaveMarker, Return, GoOn
<1>5. CASE CallNovera(r)
    BY <1>5 DEF CallNovera, Novera, SaveThen
<1>6. CASE SaveResult(r)
    BY <1>1, <1>6 DEF SaveResult, Return
<1> QED
    BY <1>2, <1>3, <1>4, <1>5, <1>6 DEF HandlerStep

LEMMA OutboxStep == TypeOK /\ [Next]_vars => [OutboxNext]_outboxVars
<1> SUFFICES ASSUME TypeOK, [Next]_vars PROVE [OutboxNext]_outboxVars
    OBVIOUS
<1>1. ASSUME NEW c \in Rows, Register(c) \/ AskRetry(c) \/ AdminRetry(c) \/ CampaignMoves(c)
      PROVE  [OutboxNext]_outboxVars
    BY <1>1 DEF Register, AskRetry, AdminRetry, RetryRequeues, RetryRefused, CampaignMoves,
                OutboxNext
<1>2. CASE ToggleAnnouncements
    BY <1>2 DEF ToggleAnnouncements
<1>3. ASSUME NEW r \in Replicas, HandlerStep(r) PROVE [OutboxNext]_outboxVars
    BY <1>3, HandlerIsOutboxStep DEF OutboxNext
<1>4. ASSUME NEW r \in Replicas, StartRun(r) \/ OtherRunStep(r) \/ RunEnds(r)
      PROVE  [OutboxNext]_outboxVars
    BY <1>4 DEF StartRun, OtherRunStep, RunEnds, OutboxNext, RunStep
<1>5. CASE (LockDrops \/ Tick) /\ UNCHANGED announceVars
    BY <1>5 DEF OutboxNext
<1>6. CASE UNCHANGED vars
    BY <1>6 DEF vars
<1> QED
    BY <1>1, <1>2, <1>3, <1>4, <1>5, <1>6 DEF Next

LEMMA FactTypes ==
    ASSUME NEW a \in SUBSET Facts
    PROVE  /\ queueAnnouncement \in SUBSET Facts
           /\ markAttempted(a) \in SUBSET Facts
           /\ clearAttempt(a) \in SUBSET Facts
           /\ markSent(a) \in SUBSET Facts
           /\ markFailed(a) \in SUBSET Facts
           /\ retryAnnouncement(a) \in SUBSET Facts
BY DEF Facts, queueAnnouncement, markAttempted, clearAttempt, markSent, markFailed,
       retryAnnouncement

\* The types of what the handler keeps.
HandlerTypes ==
    /\ announcement \in [Rows -> SUBSET Facts]
    /\ cards \in [Rows -> Nat]
    /\ step \in [Replicas -> Steps]
    /\ copy \in [Replicas -> SUBSET Facts]
    /\ verdict \in [Replicas -> Outcomes]

LEMMA HandlerTyped ==
    ASSUME TypeOK, RunShape, NEW r \in Replicas, HandlerStep(r)
    PROVE  HandlerTypes'
<1>1. HandlerTypes /\ current[r] \in Rows
    BY HandlerIsOutboxStep DEF TypeOK, OutboxTypeOK, HandlerTypes, RunShape, Handling
<1>2. copy[r] \in SUBSET Facts /\ announcement[current[r]] \in SUBSET Facts
    BY <1>1 DEF HandlerTypes
<1> DEFINE Stays == UNCHANGED <<announcement, cards>>
<1>3. ASSUME NEW k, Return(r, k)
      PROVE  step' \in [Replicas -> Steps] /\ copy' \in [Replicas -> SUBSET Facts]
             /\ verdict' \in [Replicas -> Outcomes]
    BY <1>1, <1>3, Returns DEF HandlerTypes, Steps, Outcomes
<1>4. ASSUME NEW s \in Steps, NEW a \in SUBSET Facts, GoOn(r, s, a)
      PROVE  step' \in [Replicas -> Steps] /\ copy' \in [Replicas -> SUBSET Facts]
             /\ verdict' \in [Replicas -> Outcomes]
    BY <1>1, <1>4 DEF GoOn, HandlerTypes
<1>5. ASSUME NEW a \in SUBSET Facts, NEW k \in Outcomes, SaveThen(r, a, k)
      PROVE  step' \in [Replicas -> Steps] /\ copy' \in [Replicas -> SUBSET Facts]
             /\ verdict' \in [Replicas -> Outcomes]
    BY <1>1, <1>5 DEF SaveThen, HandlerTypes, Steps
<1>6. "insert" \in Steps /\ "mark" \in Steps /\ "call" \in Steps
      /\ "FAIL" \in Outcomes /\ "DONE" \in Outcomes /\ "RETRY" \in Outcomes
    BY DEF Steps, Outcomes
<1>7. CASE Inspect(r)
    <2>1. Stays
        BY <1>7 DEF Inspect, factVars
    <2> QED
        BY <1>1, <1>2, <1>3, <1>4, <1>5, <1>6, <1>7, <2>1, FactTypes DEF Inspect, HandlerTypes
<1>8. CASE InsertQueued(r)
    <2>1. announcement' \in [Rows -> SUBSET Facts]
        BY <1>1, <1>2, <1>8 DEF InsertQueued, HandlerTypes
    <2> QED
        BY <1>1, <1>2, <1>3, <1>4, <1>6, <1>8, <2>1 DEF InsertQueued, HandlerTypes
<1>9. CASE SaveMarker(r)
    <2>1. markAttempted(copy[r]) \in SUBSET Facts
        BY <1>2, FactTypes
    <2>2. announcement' \in [Rows -> SUBSET Facts]
        BY <1>1, <1>9, <2>1 DEF SaveMarker, SaveAnnouncement, HandlerTypes
    <2> QED
        BY <1>1, <1>3, <1>4, <1>6, <1>9, <2>1, <2>2 DEF SaveMarker, HandlerTypes
<1>10. CASE CallNovera(r)
    <2>1. /\ clearAttempt(copy[r]) \in SUBSET Facts
          /\ markFailed(clearAttempt(copy[r])) \in SUBSET Facts
          /\ markSent(copy[r]) \in SUBSET Facts
          /\ markFailed(copy[r]) \in SUBSET Facts
        BY <1>2, FactTypes
    <2>2. cards' \in [Rows -> Nat] /\ announcement' = announcement
        BY <1>1, <1>10 DEF CallNovera, Novera, HandlerTypes
    <2> QED
        BY <1>1, <1>5, <1>6, <1>10, <2>1, <2>2 DEF CallNovera, Novera, HandlerTypes
<1>11. CASE SaveResult(r)
    <2>1. announcement' \in [Rows -> SUBSET Facts]
        BY <1>1, <1>2, <1>11 DEF SaveResult, SaveAnnouncement, HandlerTypes
    <2> QED
        BY <1>1, <1>3, <1>11, <2>1 DEF SaveResult, HandlerTypes
<1> QED
    BY <1>7, <1>8, <1>9, <1>10, <1>11 DEF HandlerStep

LEMMA TypeOKStep == TypeOK /\ OutboxInv /\ [Next]_vars => TypeOK'
<1> SUFFICES ASSUME TypeOK, OutboxInv, [Next]_vars PROVE TypeOK'
    OBVIOUS
<1>1. OutboxTypeOK' /\ RunShape
    BY OutboxStep, InvStep DEF OutboxInv
<1>2. ASSUME NEW c \in Rows, Register(c) \/ AskRetry(c) \/ AdminRetry(c) \/ CampaignMoves(c)
      PROVE  TypeOK'
    BY <1>1, <1>2 DEF Register, AskRetry, AdminRetry, RetryRequeues, RetryRefused, CampaignMoves,
                      TypeOK, handlerVars, CampaignStates
<1>3. CASE ToggleAnnouncements
    BY <1>1, <1>3 DEF ToggleAnnouncements, TypeOK, handlerVars
<1>4. ASSUME NEW r \in Replicas, HandlerStep(r) PROVE TypeOK'
    <2>1. UNCHANGED <<announcementsEnabled, campaign, retrying, permits, enabled>>
        BY <1>4 DEF HandlerStep, Inspect, InsertQueued, SaveMarker, CallNovera, SaveResult,
                    factVars
    <2> QED
        BY <1>1, <1>4, <2>1, HandlerTyped DEF HandlerTypes, TypeOK
<1>5. ASSUME NEW r \in Replicas, StartRun(r) \/ OtherRunStep(r) \/ RunEnds(r) PROVE TypeOK'
    BY <1>1, <1>5 DEF StartRun, OtherRunStep, RunEnds, Forget, TypeOK, factVars, announceVars,
                      handlerVars, Steps, Outcomes
<1>6. CASE (LockDrops \/ Tick) /\ UNCHANGED announceVars
    BY <1>1, <1>6 DEF TypeOK, announceVars
<1>7. CASE UNCHANGED vars
    BY <1>1, <1>7 DEF TypeOK, vars, announceVars
<1> QED
    BY <1>2, <1>3, <1>4, <1>5, <1>6, <1>7 DEF Next

-----------------------------------------------------------------------------
(***************************************************************************)
(* The invariant holds at first, and the steps outside the handler keep    *)
(* it.                                                                     *)
(***************************************************************************)

LEMMA InitCards == Init => CardInv
<1> SUFFICES ASSUME Init PROVE CardInv
    OBVIOUS
<1>1. LicencesAreFree
    BY DEF Init, OutboxInit, LicencesAreFree, FirstTry, Untouched, announcementStatus
<1>2. \A r \in Replicas : HandlerKnows(r)
    BY DEF Init, OutboxInit, HandlerKnows, Handling, At
<1>3. NothingLostSilently
    BY DEF Init, OutboxInit, NothingLostSilently, announcementStatus
<1> QED
    BY <1>1, <1>2, <1>3 DEF CardInv

\* A step that leaves the announcements and the cards alone keeps the invariant if it makes
\* no row new, no claim fresh, no handler knowing and no row done.
LEMMA QuietStep ==
    ASSUME CardInv,
           UNCHANGED <<announcement, cards, permits, campaign>>,
           \A c \in Rows : /\ status[c] = "ABSENT" => status'[c] = "ABSENT"
                           /\ FirstTry(c)' => FirstTry(c)
                           /\ status'[c] = "DONE" => \/ status[c] = "DONE"
                                                     \/ "sent" \in announcement[c]
                                                     \/ campaign[c] = "CLOSED",
           \A r \in Replicas :
               /\ step'[r] # "inspect" => Handling(r)'
               /\ Handling(r)' /\ step'[r] # "inspect"
                    => /\ Handling(r) /\ current'[r] = current[r] /\ step'[r] = step[r]
                       /\ copy'[r] = copy[r] /\ verdict'[r] = verdict[r]
               /\ phase'[r] = "settling" /\ outcome'[r] = "DONE"
                    => /\ phase[r] = "settling" /\ outcome[r] = "DONE"
                       /\ current'[r] = current[r]
    PROVE  CardInv'
<1>1. LicencesAreFree'
    BY DEF CardInv, LicencesAreFree, Free
<1>2. ASSUME NEW r \in Replicas PROVE HandlerKnows(r)'
    BY DEF CardInv, HandlerKnows, At, Handling, Free
<1>3. NothingLostSilently'
    BY DEF CardInv, NothingLostSilently, announcementStatus
<1> QED
    BY <1>1, <1>2, <1>3 DEF CardInv

\* Registering and retrying authorise one card more; the rest of what people do changes
\* nothing the handlers know, closing a campaign included.
LEMMA PeopleKeepCards ==
    ASSUME TypeOK, OutboxInv, HandlerHoldsRow, CardInv, NEW c \in Rows,
           \/ Register(c) \/ AskRetry(c) \/ AdminRetry(c) \/ CampaignMoves(c)
           \/ ToggleAnnouncements
    PROVE  CardInv'
<1>1. /\ UNCHANGED <<announcement, cards, step, copy, verdict, runVars>>
      /\ permits \in [Rows -> Nat] /\ cards \in [Rows -> Nat]
    BY DEF Register, Enqueue, AskRetry, AdminRetry, RetryRequeues, RetryRefused, AdminRequeue,
           CampaignMoves, ToggleAnnouncements, handlerVars, outboxVars, runVars, TypeOK
<1>2. /\ \A x \in Rows : permits'[x] \in Nat /\ permits'[x] >= permits[x]
      /\ \A x \in Rows : status[x] = "ABSENT" /\ status'[x] # "ABSENT" => permits'[x] > permits[x]
      /\ \A x \in Rows : FirstTry(x)' => FirstTry(x) \/ permits'[x] > permits[x]
      /\ \A x \in Rows : status'[x] = "DONE" => status[x] = "DONE"
      /\ \A x \in Rows : campaign[x] = "CLOSED" => campaign'[x] = "CLOSED"
    <2>1. CASE Register(c)
        BY <1>1, <2>1 DEF Register, Enqueue, TypeOK, OutboxTypeOK, FirstTry, Untouched, runVars
    <2>2. CASE AdminRetry(c) /\ RetryRequeues(c)
        BY <1>1, <2>2 DEF AdminRetry, RetryRequeues, AdminRequeue, TypeOK,
            OutboxTypeOK, FirstTry, Untouched, runVars
    <2>3. CASE \/ AskRetry(c) \/ CampaignMoves(c) \/ ToggleAnnouncements
               \/ AdminRetry(c) /\ RetryRefused(c)
        <3>1. UNCHANGED <<outboxVars, permits>>
            BY <2>3 DEF AskRetry, CampaignMoves, ToggleAnnouncements, AdminRetry, RetryRefused
        <3>2. \A x \in Rows : campaign[x] = "CLOSED" => campaign'[x] = "CLOSED"
            BY <2>3 DEF AskRetry, CampaignMoves, ToggleAnnouncements, AdminRetry, TypeOK
        <3> QED
            BY <1>1, <3>1, <3>2 DEF outboxVars, FirstTry, Untouched
    <2> QED
        BY <2>1, <2>2, <2>3 DEF AdminRetry
<1>3. LicencesAreFree'
    BY <1>1, <1>2 DEF CardInv, LicencesAreFree, Free
<1>4. ASSUME NEW r \in Replicas PROVE HandlerKnows(r)'
    <2>1. phase[r] \in {"handling", "settling"} => current[r] \in Rows
        BY DEF OutboxInv, OutboxTypeOK, RunShape
    <2>2. HandlerKnows(r)
        BY DEF CardInv
    <2> QED
        BY <1>1, <1>2, <2>1, <2>2 DEF HandlerKnows, At, Handling, Free, runVars
<1>5. NothingLostSilently'
    BY <1>1, <1>2 DEF CardInv, NothingLostSilently
<1> QED
    BY <1>3, <1>4, <1>5 DEF CardInv

\* A claim is fresh only if the row had no attempts; settling and handing back make a row
\* pending without attempts only if its claim was untouched.
LEMMA RunKeepsCards ==
    ASSUME TypeOK, OutboxInv, OutboxInv', HandlerHoldsRow, CardInv, NEW r \in Replicas,
           StartRun(r) \/ OtherRunStep(r) \/ RunEnds(r)
    PROVE  CardInv'
<1> USE DEF rowVars, runVars
<1>1. UNCHANGED factVars /\ OutboxTypeOK
    BY DEF StartRun, OtherRunStep, RunEnds, announceVars, factVars, TypeOK
<1>2. \A q \in Replicas : HandlerKnows(q)
    BY DEF CardInv
<1>3. CASE StartRun(r)
    <2>1. UNCHANGED <<phase, current, outcome>> \/
          (phase[r] = "starting" /\ phase' = [phase EXCEPT ![r] = "claiming"]
           /\ UNCHANGED <<current, outcome>>)
        BY <1>3 DEF StartRun, ReleaseStale
    <2>2. UNCHANGED <<step, copy, verdict, attempts>>
        BY <1>3 DEF StartRun, ReleaseStale, handlerVars
    <2>3. ASSUME NEW c \in Rows
          PROVE  /\ status[c] = "ABSENT" => status'[c] = "ABSENT"
                 /\ FirstTry(c)' => FirstTry(c)
                 /\ status'[c] = "DONE" => status[c] = "DONE"
        <3>1. attempts[c] \in Nat /\ (status[c] = "IN_PROGRESS" => attempts[c] > 0)
            BY <1>1 DEF OutboxTypeOK, OutboxInv, LockShape
        <3>2. /\ status'[c] = IF IsStale(c) THEN "PENDING" ELSE status[c]
              /\ lockedBy'[c] = IF IsStale(c) THEN NoRun ELSE lockedBy[c]
            BY <1>3 DEF StartRun, ReleaseStale
        <3>3. \A q \in Replicas : Untouched(q, c)' => Untouched(q, c)
            BY <1>1, <2>1, <2>2, <3>2 DEF Untouched, OutboxTypeOK
        <3> QED
            BY <2>2, <3>1, <3>2, <3>3 DEF FirstTry, IsStale
    <2>4. \A q \in Replicas :
               /\ step'[q] # "inspect" => Handling(q)'
               /\ Handling(q)' => Handling(q)
               /\ phase'[q] = "settling" => phase[q] = "settling"
        BY <1>1, <1>2, <2>1, <2>2 DEF HandlerKnows, Handling, OutboxTypeOK
    <2> QED
        BY <1>1, <2>1, <2>2, <2>3, <2>4, QuietStep DEF factVars
<1>4. CASE RunEnds(r)
    <2>1. /\ phase' = [phase EXCEPT ![r] = "idle"]
          /\ current' = [current EXCEPT ![r] = NoRow]
          /\ outcome' = [outcome EXCEPT ![r] = "DONE"]
          /\ step' = [step EXCEPT ![r] = "inspect"]
          /\ copy' = [copy EXCEPT ![r] = {}]
          /\ verdict' = [verdict EXCEPT ![r] = "DONE"]
        BY <1>4 DEF RunEnds, Finish, Fault, Die, ClaimAnswerLost, EndRun, Forget
    <2>2. ASSUME NEW c \in Rows
          PROVE  /\ status[c] = "ABSENT" => status'[c] = "ABSENT"
                 /\ FirstTry(c)' => FirstTry(c)
                 /\ status'[c] = "DONE" => status[c] = "DONE"
        <3>1. CASE Finish(r) \/ Die(r)
            <4>1. /\ UNCHANGED <<status, attempts>>
                  /\ \A q \in Replicas : lockedBy'[c] = q => lockedBy[c] = q
                BY <1>1, <3>1 DEF Finish, Die, OutboxTypeOK
            <4>2. \A q \in Replicas : Untouched(q, c)' => Untouched(q, c)
                BY <1>1, <2>1, <4>1 DEF Untouched, OutboxTypeOK
            <4> QED
                BY <4>1, <4>2 DEF FirstTry
        <3>2. CASE ClaimAnswerLost(r)
            <4>1. PICK S \in FirstDue(Room(r)) : TakeRows(DeadRun, S)
                BY <3>2 DEF ClaimAnswerLost
            <4>2. S \subseteq Due
                BY <4>1, ClaimedRows
            <4>3. CASE c \in S
                BY <1>1, <4>1, <4>2, <4>3 DEF TakeRows, FirstTry, Untouched, Due, OutboxTypeOK
            <4>4. CASE c \notin S
                <5>1. /\ status'[c] = status[c] /\ attempts'[c] = attempts[c]
                      /\ lockedBy'[c] = lockedBy[c]
                    BY <4>1, <4>4 DEF TakeRows
                <5>2. \A q \in Replicas : Untouched(q, c)' => Untouched(q, c)
                    BY <1>1, <2>1, <5>1 DEF Untouched, OutboxTypeOK
                <5> QED
                    BY <5>1, <5>2 DEF FirstTry
            <4> QED
                BY <4>3, <4>4
        <3> QED
            BY <1>4, <3>1, <3>2 DEF RunEnds, Fault
    <2>3. ASSUME NEW q \in Replicas
          PROVE  /\ step'[q] # "inspect" => Handling(q)'
                 /\ Handling(q)' /\ step'[q] # "inspect"
                      => /\ Handling(q) /\ current'[q] = current[q] /\ step'[q] = step[q]
                         /\ copy'[q] = copy[q] /\ verdict'[q] = verdict[q]
                 /\ phase'[q] = "settling" /\ outcome'[q] = "DONE"
                      => /\ phase[q] = "settling" /\ outcome[q] = "DONE"
                         /\ current'[q] = current[q]
        BY <1>1, <1>2, <2>1 DEF TypeOK, OutboxTypeOK, Handling, HandlerKnows
    <2> QED
        BY <1>1, <2>2, <2>3, QuietStep DEF factVars
<1>5. CASE OtherRunStep(r)
    <2>1. UNCHANGED <<step, copy, verdict>>
        BY <1>5 DEF OtherRunStep, announceVars
    <2>2. CASE Begin(r)
        <3>1. /\ phase[r] = "idle" /\ phase' = [phase EXCEPT ![r] = "starting"]
              /\ UNCHANGED <<status, attempts, lockedBy, current, outcome>>
            BY <2>2 DEF Begin
        <3>2. ASSUME NEW c \in Rows PROVE FirstTry(c)' => FirstTry(c)
            BY <1>1, <2>1, <3>1 DEF FirstTry, Untouched, OutboxTypeOK
        <3>3. ASSUME NEW q \in Replicas
              PROVE  /\ Handling(q)' <=> Handling(q)
                     /\ phase'[q] = "settling" => phase[q] = "settling"
            BY <1>1, <3>1 DEF Handling, OutboxTypeOK
        <3> QED
            BY <1>1, <1>2, <2>1, <3>1, <3>2, <3>3, QuietStep DEF factVars, HandlerKnows
    <2>3. CASE Claim(r)
        <3>1. PICK S \in FirstDue(Room(r)) : TakeRows(r, S)
            BY <2>3 DEF Claim
        <3>2. S \subseteq Due
            BY <3>1, ClaimedRows
        <3>3. /\ phase[r] = "claiming" /\ phase' = [phase EXCEPT ![r] = "batch"]
              /\ UNCHANGED <<current, outcome>> /\ batch[r] = {}
            BY <2>3 DEF Claim, OutboxInv, RunShape
        <3>4. ASSUME NEW c \in Rows
              PROVE  /\ status[c] = "ABSENT" => status'[c] = "ABSENT"
                     /\ FirstTry(c)' => FirstTry(c)
                     /\ status'[c] = "DONE" => status[c] = "DONE"
            <4>1. CASE c \in S
                <5>1. status[c] = "PENDING" /\ attempts[c] \in Nat
                      /\ attempts'[c] = attempts[c] + 1 /\ status'[c] = "IN_PROGRESS"
                    BY <1>1, <3>1, <3>2, <4>1 DEF TakeRows, Due, OutboxTypeOK
                <5> QED
                    BY <5>1 DEF FirstTry
            <4>2. CASE c \notin S
                <5>1. /\ status'[c] = status[c] /\ attempts'[c] = attempts[c]
                      /\ lockedBy'[c] = lockedBy[c]
                    BY <3>1, <4>2 DEF TakeRows
                <5>2. lockedBy[c] # r
                    BY <3>3 DEF OutboxInv, LockShape
                <5>3. \A q \in Replicas : Untouched(q, c)' => Untouched(q, c)
                    BY <1>1, <2>1, <3>3, <5>1, <5>2 DEF Untouched, OutboxTypeOK
                <5> QED
                    BY <5>1, <5>3 DEF FirstTry
            <4> QED
                BY <4>1, <4>2
        <3>5. ASSUME NEW q \in Replicas
              PROVE  /\ Handling(q)' <=> Handling(q)
                     /\ phase'[q] = "settling" => phase[q] = "settling"
            BY <1>1, <3>3 DEF Handling, OutboxTypeOK
        <3> QED
            BY <1>1, <1>2, <2>1, <3>3, <3>4, <3>5, QuietStep DEF factVars, HandlerKnows
    <2>4. CASE BeginRow(r)
        <3>1. /\ phase[r] = "batch" /\ phase' = [phase EXCEPT ![r] = "handling"]
              /\ UNCHANGED <<status, attempts, lockedBy, outcome>>
              /\ \A q \in Replicas : q # r => current'[q] = current[q]
            BY <2>4 DEF BeginRow
        <3>2. step[r] = "inspect"
            BY <1>2, <3>1 DEF HandlerKnows, Handling
        <3>3. ASSUME NEW c \in Rows PROVE FirstTry(c)' => FirstTry(c)
            BY <1>1, <2>1, <3>1 DEF FirstTry, Untouched, OutboxTypeOK
        <3>4. ASSUME NEW q \in Replicas
              PROVE  /\ step'[q] # "inspect" => Handling(q)' /\ Handling(q) /\ q # r
                     /\ phase'[q] = "settling" => phase[q] = "settling" /\ q # r
            BY <1>1, <1>2, <2>1, <3>1, <3>2 DEF Handling, OutboxTypeOK, HandlerKnows
        <3> QED
            BY <1>1, <1>2, <2>1, <3>1, <3>3, <3>4, QuietStep DEF factVars
    <2>5. CASE HandBack(r) \/ Settle(r)
        <3>1. PICK x \in batch[r] :
                    /\ RowDealtWith(r, x)
                    /\ \/ phase[r] = "batch" /\ Requeue(r, x, 0, FALSE)
                       \/ phase[r] = "settling" /\ current[r] = x /\ SettleRow(r, x)
            BY <2>5 DEF HandBack, Settle, OutboxInv, RunShape
        <3>2. x \in Rows /\ RowSettled(r, x)
            BY <1>1, <3>1, StatementSettles DEF OutboxTypeOK
        <3>3. /\ \A q \in Replicas : q # r => phase'[q] = phase[q] /\ current'[q] = current[q]
                                              /\ outcome'[q] = outcome[q]
              /\ phase'[r] \in {"batch", "claiming"}
            BY <1>1, <3>1 DEF RowDealtWith, OutboxTypeOK
        <3>4. lockedBy[x] = r => attempts[x] \in Nat /\ attempts[x] > 0
            BY <1>1, <3>2 DEF OutboxInv, LockShape, OutboxTypeOK
        <3>5. ASSUME NEW c \in Rows, c # x \/ lockedBy[x] # r
              PROVE  /\ status'[c] = status[c]
                     /\ FirstTry(c)' => FirstTry(c)
            <4>1. /\ status'[c] = status[c] /\ attempts'[c] = attempts[c]
                  /\ lockedBy'[c] = lockedBy[c]
                BY <3>2, <3>5 DEF RowSettled
            <4>2. \A q \in Replicas : Untouched(q, c)' => Untouched(q, c)
                BY <2>1, <3>1, <3>3, <3>5, <4>1 DEF Untouched
            <4> QED
                BY <4>1, <4>2 DEF FirstTry
        <3>6. ASSUME lockedBy[x] = r, FirstTry(x)' PROVE FirstTry(x)
            <4>1. status'[x] = "PENDING" /\ attempts'[x] = 0
                <5>1. lockedBy'[x] = NoRun
                    BY <3>2, <3>6 DEF RowSettled
                <5> QED
                    BY <3>6, <5>1 DEF FirstTry, Untouched
            <4>2. attempts[x] = 1
                BY <1>1, <3>1, <3>2, <3>4, <3>6, <4>1
                DEF Requeue, SettleRow, Complete, FailRow, HoldsLock, OutboxTypeOK
            <4>3. phase[r] = "batch" \/ outcome[r] = "DEFER"
                BY <1>1, <3>1, <3>2, <3>4, <3>6, <4>1
                DEF Requeue, SettleRow, Complete, FailRow, HoldsLock, OutboxTypeOK
            <4>4. Untouched(r, x)
                BY <3>1, <3>6, <4>3 DEF Untouched
            <4> QED
                BY <4>2, <4>4 DEF FirstTry
        <3>7. ASSUME lockedBy[x] = r, status'[x] = "DONE"
              PROVE  "sent" \in announcement[x] \/ campaign[x] = "CLOSED"
            <4>1. phase[r] = "settling" /\ outcome[r] = "DONE" /\ current[r] = x
                BY <1>1, <3>1, <3>2, <3>7
                DEF Requeue, SettleRow, Complete, FailRow, HoldsLock, OutboxTypeOK
            <4> QED
                BY <1>2, <4>1 DEF HandlerKnows
        <3>8. lockedBy[x] = r => status[x] # "ABSENT"
            BY <3>2 DEF OutboxInv, LockShape
        <3>9. ASSUME NEW q \in Replicas
              PROVE  /\ step'[q] # "inspect" => Handling(q)' /\ Handling(q) /\ q # r
                     /\ phase'[q] = "settling" => phase[q] = "settling" /\ q # r
            BY <1>2, <2>1, <3>1, <3>3 DEF Handling, HandlerKnows
        <3>10. ASSUME NEW c \in Rows
               PROVE  /\ status[c] = "ABSENT" => status'[c] = "ABSENT"
                      /\ FirstTry(c)' => FirstTry(c)
                      /\ status'[c] = "DONE" => \/ status[c] = "DONE"
                                                \/ "sent" \in announcement[c]
                                                \/ campaign[c] = "CLOSED"
            BY <3>5, <3>6, <3>7, <3>8
        <3> QED
            BY <1>1, <2>1, <3>3, <3>9, <3>10, QuietStep DEF factVars
    <2> QED
        BY <1>5, <2>2, <2>3, <2>4, <2>5 DEF OtherRunStep
<1> QED
    BY <1>3, <1>4, <1>5

-----------------------------------------------------------------------------
(***************************************************************************)
(* The steps of the handler.                                               *)
(***************************************************************************)

\* What a step of the handler of row c by run r must show of c: the rest of the invariant
\* follows, because no other run handles c.
CardGoal(r, c) ==
    /\ cards'[c] >= cards[c] /\ cards'[c] <= permits[c]
    /\ "sent" \in announcement[c] => "sent" \in announcement'[c]
    /\ "sent" \in announcement'[c] => cards'[c] > 0
    /\ Open(announcement'[c]) => cards'[c] < permits[c]
    /\ phase'[r] = "settling" /\ outcome'[r] = "DEFER"
        => announcement'[c] = announcement[c] /\ cards'[c] = cards[c] /\ step[r] = "inspect"
    /\ HandlerKnows(r)'

\* A handler that returns knows nothing any more, but what its outcome says.
LEMMA ReturnKnows ==
    ASSUME TypeOK, NEW r \in Replicas, NEW k, Return(r, k), current[r] \in Rows,
           k = "DONE" => "sent" \in announcement'[current[r]] \/ campaign'[current[r]] = "CLOSED"
    PROVE  HandlerKnows(r)' /\ phase'[r] = "settling" /\ outcome'[r] = k
<1>1. /\ phase'[r] = "settling" /\ outcome'[r] = k /\ step'[r] = "inspect"
      /\ current'[r] = current[r]
    BY Returns DEF TypeOK, OutboxTypeOK
<1> QED
    BY <1>1 DEF HandlerKnows, At, Handling

LEMMA GoOnKnows ==
    ASSUME TypeOK, NEW r \in Replicas, NEW s, NEW a, Handling(r), GoOn(r, s, a)
    PROVE  /\ phase'[r] = "handling" /\ step'[r] = s /\ copy'[r] = a
           /\ current'[r] = current[r] /\ outcome'[r] = outcome[r]
BY DEF GoOn, Handling, TypeOK, outboxVars

LEMMA SaveThenKnows ==
    ASSUME TypeOK, NEW r \in Replicas, NEW a, NEW k, Handling(r), SaveThen(r, a, k)
    PROVE  /\ phase'[r] = "handling" /\ step'[r] = "save" /\ copy'[r] = a /\ verdict'[r] = k
           /\ current'[r] = current[r] /\ outcome'[r] = outcome[r]
BY DEF SaveThen, Handling, TypeOK, outboxVars

\* A claim the handler inspects for the first time and finds FAILED is an admin's retry; an
\* announcement that is QUEUED without a marker was never sent for.
LEMMA InspectGoal ==
    ASSUME TypeOK, OutboxInv, HandlerHoldsRow, CardInv, NEW r \in Replicas, Inspect(r)
    PROVE  CardGoal(r, current[r])
<1> DEFINE c == current[r]
           a == announcement[c]
<1>1. /\ Handling(r) /\ step[r] = "inspect" /\ c \in Rows
      /\ UNCHANGED <<announcement, cards, permits, campaign>>
    BY DEF Inspect, OutboxInv, OutboxTypeOK, RunShape, Handling, factVars
<1>2. status[c] = "IN_PROGRESS" /\ lockedBy[c] = r /\ attempts[c] = got[r][c]
    BY <1>1 DEF HandlerHoldsRow
<1>3. HandlerKnows(r) /\ cards[c] \in Nat /\ permits[c] \in Nat
    BY <1>1 DEF CardInv, TypeOK
<1>4. /\ cards[c] <= permits[c]
      /\ Open(a) => Free(c)
      /\ announcementStatus(a) = "FAILED" /\ got[r][c] <= 1 => Free(c)
      /\ "sent" \in a => cards[c] > 0
    BY <1>1, <1>2 DEF CardInv, LicencesAreFree, FirstTry, Untouched, NothingLostSilently,
                      announcementStatus, Handling
<1>5. ASSUME NEW k, Return(r, k), k = "DONE" => "sent" \in a \/ campaign[c] = "CLOSED"
      PROVE  CardGoal(r, c)
    BY <1>1, <1>3, <1>4, <1>5, ReturnKnows DEF CardGoal, Free
<1>6. ASSUME NEW b, GoOn(r, "mark", b), "sent" \notin a, "sent" \notin b, Free(c)
      PROVE  CardGoal(r, c)
    <2>1. phase'[r] = "handling" /\ step'[r] = "mark" /\ copy'[r] = b /\ current'[r] = c
        BY <1>1, <1>6, GoOnKnows
    <2> QED
        BY <1>1, <1>3, <1>4, <1>6, <2>1 DEF CardGoal, Free, HandlerKnows, At, Handling
<1>7. ASSUME SaveThen(r, markFailed(a), "FAIL"), hasUnfinishedAttempt(a)
      PROVE  CardGoal(r, c)
    <2>1. /\ phase'[r] = "handling" /\ step'[r] = "save" /\ copy'[r] = markFailed(a)
          /\ current'[r] = c /\ verdict'[r] = "FAIL"
        BY <1>1, <1>7, SaveThenKnows
    <2>2. "sent" \notin a /\ "sent" \notin markFailed(a) /\ ~Open(markFailed(a)) /\ ~Open(a)
        BY <1>7 DEF hasUnfinishedAttempt, announcementStatus, markFailed, Open
    <2> QED
        BY <1>1, <1>3, <1>4, <2>1, <2>2 DEF CardGoal, Free, HandlerKnows, At, Handling
<1>8. CASE a = {} /\ GoOn(r, "insert", queueAnnouncement)
    <2>1. /\ phase'[r] = "handling" /\ step'[r] = "insert" /\ copy'[r] = queueAnnouncement
          /\ current'[r] = c
        BY <1>1, <1>8, GoOnKnows
    <2>2. Free(c) /\ "sent" \notin a
        BY <1>4, <1>8 DEF Open
    <2> QED
        BY <1>1, <1>3, <1>4, <2>1, <2>2 DEF CardGoal, Free, HandlerKnows, At, Handling
<1>9. CASE /\ announcementStatus(a) = "FAILED" /\ got[r][c] <= 1
           /\ GoOn(r, "mark", retryAnnouncement(a))
    <2>1. "sent" \notin a /\ "sent" \notin retryAnnouncement(a)
        BY <1>9 DEF announcementStatus, retryAnnouncement
    <2>2. Free(c)
        BY <1>4, <1>9
    <2> QED
        BY <1>6, <1>9, <2>1, <2>2
<1>10. CASE /\ announcementStatus(a) = "QUEUED" /\ ~hasUnfinishedAttempt(a)
            /\ GoOn(r, "mark", a)
    <2>1. "sent" \notin a /\ Open(a)
        BY <1>10 DEF announcementStatus, hasUnfinishedAttempt, Open
    <2> QED
        BY <1>4, <1>6, <1>10, <2>1
<1>11. CASE announcementStatus(a) = "SENT" /\ Return(r, "DONE")
    BY <1>5, <1>11 DEF announcementStatus
<1>12. CASE campaign[c] = "CLOSED" /\ Return(r, "DONE")
    BY <1>5, <1>12
<1>13. CASE Return(r, "DEFER") \/ Return(r, "FAIL") \/ Return(r, ErrorOutcome(r))
    BY <1>5, <1>13 DEF ErrorOutcome
<1> QED
    BY <1>7, <1>8, <1>9, <1>10, <1>11, <1>12, <1>13 DEF Inspect, IsRetry

\* What the handler of r has at a later step, before it takes that step.
LEMMA HandlerHas ==
    ASSUME TypeOK, OutboxInv, HandlerHoldsRow, CardInv, NEW r \in Replicas, Handling(r)
    PROVE  /\ current[r] \in Rows
           /\ announcement[current[r]] \in SUBSET Facts
           /\ cards[current[r]] \in Nat /\ permits[current[r]] \in Nat
           /\ cards[current[r]] <= permits[current[r]]
           /\ Open(announcement[current[r]]) => Free(current[r])
           /\ "sent" \in announcement[current[r]] => cards[current[r]] > 0
           /\ HandlerKnows(r)
<1>1. current[r] \in Rows /\ status[current[r]] = "IN_PROGRESS"
    BY DEF HandlerHoldsRow, OutboxInv, OutboxTypeOK, RunShape, Handling
<1> QED
    BY <1>1 DEF TypeOK, CardInv, LicencesAreFree, NothingLostSilently, announcementStatus

LEMMA InsertGoal ==
    ASSUME TypeOK, OutboxInv, HandlerHoldsRow, CardInv, NEW r \in Replicas, InsertQueued(r)
    PROVE  CardGoal(r, current[r])
<1> DEFINE c == current[r]
<1>1. Handling(r) /\ step[r] = "insert" /\ UNCHANGED <<cards, permits, campaign>>
    BY DEF InsertQueued
<1>2. /\ c \in Rows /\ cards[c] \in Nat /\ permits[c] \in Nat /\ cards[c] <= permits[c]
      /\ Free(c) /\ copy[r] = queueAnnouncement /\ "sent" \notin announcement[c]
      /\ Open(announcement[c]) => Free(c)
    BY <1>1, HandlerHas DEF HandlerKnows, At
<1>3. "sent" \notin announcement'[c]
    BY <1>1, <1>2 DEF InsertQueued, queueAnnouncement, TypeOK
<1>4. CASE GoOn(r, "mark", copy[r])
    <2>1. phase'[r] = "handling" /\ step'[r] = "mark" /\ copy'[r] = copy[r] /\ current'[r] = c
        BY <1>1, <1>4, GoOnKnows
    <2> QED
        BY <1>1, <1>2, <1>3, <2>1
        DEF CardGoal, Free, HandlerKnows, At, Handling, queueAnnouncement
<1>5. CASE Return(r, ErrorOutcome(r))
    <2>1. HandlerKnows(r)' /\ outcome'[r] # "DEFER"
        BY <1>2, <1>5, ReturnKnows DEF ErrorOutcome
    <2> QED
        BY <1>1, <1>2, <1>3, <2>1 DEF CardGoal, Free
<1> QED
    BY <1>4, <1>5 DEF InsertQueued

LEMMA MarkGoal ==
    ASSUME TypeOK, OutboxInv, HandlerHoldsRow, CardInv, NEW r \in Replicas, SaveMarker(r)
    PROVE  CardGoal(r, current[r])
<1> DEFINE c == current[r]
           marked == markAttempted(copy[r])
<1>1. Handling(r) /\ step[r] = "mark" /\ UNCHANGED <<cards, permits, campaign>>
    BY DEF SaveMarker
<1>2. /\ c \in Rows /\ cards[c] \in Nat /\ permits[c] \in Nat /\ cards[c] <= permits[c]
      /\ Free(c) /\ "sent" \notin copy[r] /\ "sent" \notin announcement[c]
    BY <1>1, HandlerHas DEF HandlerKnows, At
<1>3. "sent" \notin marked /\ "attempted" \in marked
    BY <1>2 DEF markAttempted
<1>4. announcement'[c] = marked \/ announcement'[c] = announcement[c]
    BY <1>2 DEF SaveMarker, SaveAnnouncement, TypeOK
<1>5. CASE GoOn(r, "call", marked) /\ SaveAnnouncement(c, marked)
    <2>1. phase'[r] = "handling" /\ step'[r] = "call" /\ copy'[r] = marked /\ current'[r] = c
        BY <1>1, <1>5, GoOnKnows
    <2>2. announcement'[c] = marked
        BY <1>2, <1>5 DEF SaveAnnouncement, TypeOK
    <2> QED
        BY <1>1, <1>2, <1>3, <2>1, <2>2 DEF CardGoal, Free, HandlerKnows, At, Handling
<1>6. CASE Return(r, "RETRY")
    <2>1. HandlerKnows(r)' /\ outcome'[r] # "DEFER"
        BY <1>2, <1>6, ReturnKnows
    <2> QED
        BY <1>1, <1>2, <1>3, <1>4, <2>1 DEF CardGoal, Free
<1> QED
    BY <1>5, <1>6 DEF SaveMarker

LEMMA CallGoal ==
    ASSUME TypeOK, OutboxInv, HandlerHoldsRow, CardInv, NEW r \in Replicas, CallNovera(r)
    PROVE  CardGoal(r, current[r])
<1> DEFINE c == current[r]
           a == copy[r]
<1>1. Handling(r) /\ step[r] = "call" /\ UNCHANGED <<announcement, permits, campaign>>
    BY DEF CallNovera
<1>2. /\ c \in Rows /\ cards[c] \in Nat /\ permits[c] \in Nat /\ cards[c] < permits[c]
      /\ announcement[c] = a /\ "attempted" \in a /\ "sent" \notin a
    BY <1>1, HandlerHas DEF HandlerKnows, At, Free
<1>3. cards'[c] = cards[c] \/ cards'[c] = cards[c] + 1
    BY <1>2 DEF CallNovera, Novera, TypeOK
<1>4. /\ "sent" \in markSent(a)
      /\ \A b \in {clearAttempt(a), markFailed(clearAttempt(a)), markFailed(a)} : "sent" \notin b
      /\ \A b \in {markSent(a), markFailed(clearAttempt(a)), markFailed(a)} : ~Open(b)
    BY <1>2 DEF markSent, markFailed, clearAttempt, Open
<1>5. ASSUME NEW b, NEW k, SaveThen(r, b, k), k # "DEFER", k = "DONE" => "sent" \in b,
             "sent" \in b => cards'[c] > 0, Open(b) => cards'[c] < permits[c]
      PROVE  CardGoal(r, c)
    <2>1. /\ phase'[r] = "handling" /\ step'[r] = "save" /\ copy'[r] = b /\ verdict'[r] = k
          /\ current'[r] = c
        BY <1>1, <1>5, SaveThenKnows
    <2> QED
        BY <1>1, <1>2, <1>3, <1>5, <2>1 DEF CardGoal, Free, HandlerKnows, At, Handling, Open
<1>6. CASE SaveThen(r, markSent(a), "DONE") /\ cards' = [cards EXCEPT ![c] = @ + 1]
    <2>1. cards'[c] > 0
        BY <1>2, <1>6 DEF TypeOK
    <2> QED
        BY <1>4, <1>5, <1>6, <2>1
<1>7. CASE SaveThen(r, clearAttempt(a), "RETRY") /\ UNCHANGED cards
    BY <1>2, <1>4, <1>5, <1>7
<1>8. CASE SaveThen(r, markFailed(clearAttempt(a)), "FAIL") \/ SaveThen(r, markFailed(a), "FAIL")
    BY <1>4, <1>5, <1>8
<1> QED
    BY <1>6, <1>7, <1>8 DEF CallNovera, Novera

LEMMA SaveGoal ==
    ASSUME TypeOK, OutboxInv, HandlerHoldsRow, CardInv, NEW r \in Replicas, SaveResult(r)
    PROVE  CardGoal(r, current[r])
<1> DEFINE c == current[r]
<1>1. Handling(r) /\ step[r] = "save" /\ UNCHANGED <<cards, permits, campaign>>
    BY DEF SaveResult
<1>2. /\ c \in Rows /\ cards[c] \in Nat /\ permits[c] \in Nat /\ cards[c] <= permits[c]
      /\ "sent" \notin announcement[c]
      /\ Open(announcement[c]) => Free(c)
      /\ Open(copy[r]) => Free(c)
      /\ "sent" \in copy[r] => cards[c] > 0
      /\ verdict[r] # "DEFER"
      /\ verdict[r] = "DONE" => "sent" \in copy[r]
    BY <1>1, HandlerHas DEF HandlerKnows, At
<1>3. announcement'[c] = copy[r] \/ announcement'[c] = announcement[c]
    BY <1>2 DEF SaveResult, SaveAnnouncement, TypeOK
<1>4. ASSUME NEW k, Return(r, k), k # "DEFER", k = "DONE" => "sent" \in announcement'[c]
      PROVE  CardGoal(r, c)
    <2>1. HandlerKnows(r)' /\ outcome'[r] # "DEFER"
        BY <1>2, <1>4, ReturnKnows
    <2>2. /\ "sent" \in announcement'[c] => cards[c] > 0
          /\ Open(announcement'[c]) => Free(c)
        BY <1>2, <1>3 DEF Open
    <2>3. cards'[c] = cards[c]
        BY <1>1
    <2> QED
        BY <1>2, <2>1, <2>2, <2>3 DEF CardGoal, Free
<1>5. CASE Return(r, verdict[r]) /\ SaveAnnouncement(c, copy[r])
    <2>1. announcement'[c] = copy[r]
        BY <1>2, <1>5 DEF SaveAnnouncement, TypeOK
    <2> QED
        BY <1>2, <1>4, <1>5, <2>1
<1>6. CASE Return(r, ErrorOutcome(r))
    BY <1>4, <1>6 DEF ErrorOutcome
<1> QED
    BY <1>5, <1>6 DEF SaveResult

\* Nobody but run r touches the row it handles, and r touches no other.
LEMMA HandlerKeepsCards ==
    ASSUME TypeOK, OutboxInv, HandlerHoldsRow, CardInv, NEW r \in Replicas, HandlerStep(r)
    PROVE  CardInv'
<1> DEFINE c == current[r]
<1>1. Handling(r) /\ c \in Rows /\ lockedBy[c] = r /\ status[c] = "IN_PROGRESS"
    BY HandlerIsOutboxStep DEF HandlerHoldsRow, OutboxInv, OutboxTypeOK, RunShape, Handling
<1>2. CardGoal(r, c)
    BY InspectGoal, InsertGoal, MarkGoal, CallGoal, SaveGoal DEF HandlerStep
<1>3. /\ UNCHANGED <<status, attempts, lockedBy, current, permits, campaign>>
      /\ \A q \in Replicas : q # r => phase'[q] = phase[q] /\ outcome'[q] = outcome[q]
    <2>1. UNCHANGED outboxVars \/ \E k \in Outcomes : HandlerReturns(r, k)
        BY HandlerIsOutboxStep
    <2>2. UNCHANGED <<permits, campaign>>
        BY DEF HandlerStep, Inspect, InsertQueued, SaveMarker, CallNovera, SaveResult, factVars
    <2> QED
        BY <2>1, <2>2 DEF outboxVars, HandlerReturns, rowVars, TypeOK, OutboxTypeOK
<1> DEFINE OthersKeep == \A q \in Replicas : q # r => /\ step'[q] = step[q]
                                                       /\ copy'[q] = copy[q]
                                                       /\ verdict'[q] = verdict[q]
<1>4. /\ OthersKeep
      /\ phase'[r] \in {"handling", "settling"}
      /\ phase'[r] = "handling" => step'[r] # "inspect"
    <2>1. ASSUME NEW k, Return(r, k) PROVE OthersKeep /\ phase'[r] = "settling"
        BY <2>1, Returns DEF TypeOK, OutboxTypeOK
    <2>2. ASSUME NEW s \in {"insert", "mark", "call"}, NEW a, GoOn(r, s, a)
          PROVE  OthersKeep /\ phase'[r] = "handling" /\ step'[r] # "inspect"
        BY <1>1, <2>2 DEF GoOn, TypeOK, outboxVars, Handling
    <2>3. ASSUME NEW a, NEW k, SaveThen(r, a, k)
          PROVE  OthersKeep /\ phase'[r] = "handling" /\ step'[r] # "inspect"
        BY <1>1, <2>3 DEF SaveThen, TypeOK, outboxVars, Handling
    <2>4. CASE Inspect(r)
        BY <2>1, <2>2, <2>3, <2>4 DEF Inspect
    <2>5. CASE InsertQueued(r)
        BY <2>1, <2>2, <2>5 DEF InsertQueued
    <2>6. CASE SaveMarker(r)
        BY <2>1, <2>2, <2>6 DEF SaveMarker
    <2>7. CASE CallNovera(r)
        BY <2>3, <2>7 DEF CallNovera, Novera
    <2>8. CASE SaveResult(r)
        BY <2>1, <2>8 DEF SaveResult
    <2> QED
        BY <2>4, <2>5, <2>6, <2>7, <2>8 DEF HandlerStep
<1>5. \A x \in Rows : x # c => announcement'[x] = announcement[x] /\ cards'[x] = cards[x]
    BY <1>1 DEF HandlerStep, Inspect, InsertQueued, SaveMarker, SaveAnnouncement, CallNovera,
                Novera, SaveResult, factVars, TypeOK
<1>6. ASSUME NEW x \in Rows, FirstTry(x)' PROVE FirstTry(x)
    <2>1. CASE status[x] = "PENDING" /\ attempts[x] = 0
        BY <2>1 DEF FirstTry
    <2>2. CASE attempts[x] <= 1 /\ \E q \in Replicas : Untouched(q, x)'
        <3>1. PICK q \in Replicas : Untouched(q, x)'
            BY <2>2
        <3>2. Untouched(q, x)
            BY <1>1, <1>2, <1>3, <1>4, <3>1 DEF Untouched, CardGoal, Handling
        <3> QED
            BY <2>2, <3>2 DEF FirstTry
    <2> QED
        BY <1>3, <1>6, <2>1, <2>2 DEF FirstTry
<1>7. FirstTry(c)' => announcement'[c] = announcement[c] /\ cards'[c] = cards[c]
    BY <1>1, <1>2, <1>3, <1>4 DEF FirstTry, Untouched, CardGoal
<1>8. LicencesAreFree'
    <2>1. ASSUME NEW x \in Rows
          PROVE  /\ cards'[x] <= permits'[x]
                 /\ status'[x] # "ABSENT" /\ Open(announcement'[x]) => cards'[x] < permits'[x]
                 /\ announcementStatus(announcement'[x]) = "FAILED" /\ FirstTry(x)'
                      => cards'[x] < permits'[x]
        <3>1. CASE x # c
            BY <1>3, <1>5, <1>6, <3>1 DEF CardInv, LicencesAreFree, Free
        <3>2. CASE x = c
            BY <1>2, <1>3, <1>6, <1>7, <3>2 DEF CardInv, LicencesAreFree, Free, CardGoal
        <3> QED
            BY <3>1, <3>2
    <2> QED
        BY <2>1 DEF LicencesAreFree, Free
<1>9. ASSUME NEW q \in Replicas PROVE HandlerKnows(q)'
    <2>1. CASE q = r
        BY <1>2, <2>1 DEF CardGoal
    <2>2. CASE q # r
        <3>1. HandlerKnows(q)
            BY DEF CardInv
        <3>2. phase[q] \in {"handling", "settling"} => current[q] \in Rows
            BY DEF OutboxInv, OutboxTypeOK, RunShape
        <3>3. Handling(q) => current[q] # c
            BY <1>1, <2>2 DEF HandlerHoldsRow
        <3>4. "sent" \in announcement[current[q]] /\ current[q] \in Rows
                => "sent" \in announcement'[current[q]]
            BY <1>2, <1>5 DEF CardGoal
        <3> QED
            BY <1>3, <1>4, <1>5, <2>2, <3>1, <3>2, <3>3, <3>4 DEF HandlerKnows, At, Handling, Free
    <2> QED
        BY <2>1, <2>2
<1>10. NothingLostSilently'
    <2>1. ASSUME NEW x \in Rows
          PROVE  /\ "sent" \in announcement'[x] => cards'[x] > 0
                 /\ "sent" \in announcement[x] => "sent" \in announcement'[x]
        BY <1>2, <1>5 DEF CardGoal, CardInv, NothingLostSilently, announcementStatus
    <2> QED
        BY <1>3, <2>1 DEF CardInv, NothingLostSilently, announcementStatus
<1> QED
    BY <1>8, <1>9, <1>10 DEF CardInv

-----------------------------------------------------------------------------
(***************************************************************************)
(* The theorems.                                                           *)
(***************************************************************************)

IInv == TypeOK /\ OutboxInv /\ CardInv

LEMMA CardStep == IInv /\ HandlerHoldsRow /\ [Next]_vars => CardInv'
<1> SUFFICES ASSUME IInv, HandlerHoldsRow, [Next]_vars PROVE CardInv'
    OBVIOUS
<1> USE DEF IInv
<1>1. OutboxInv'
    BY OutboxStep, InvStep
<1>2. ASSUME NEW c \in Rows, Register(c) \/ AskRetry(c) \/ AdminRetry(c) \/ CampaignMoves(c)
      PROVE  CardInv'
    BY <1>2, PeopleKeepCards
<1>3. CASE ToggleAnnouncements
    <2>1. UNCHANGED <<outboxVars, announcement, cards, permits, campaign, step, copy, verdict>>
        BY <1>3 DEF ToggleAnnouncements, handlerVars
    <2>2. CardInv' <=> CardInv
        BY <2>1 DEF outboxVars, CardInv, LicencesAreFree, FirstTry, Untouched, Free, HandlerKnows,
                    At, Handling, NothingLostSilently
    <2> QED
        BY <2>2
<1>4. ASSUME NEW r \in Replicas, HandlerStep(r) PROVE CardInv'
    BY <1>4, HandlerKeepsCards
<1>5. ASSUME NEW r \in Replicas, StartRun(r) \/ OtherRunStep(r) \/ RunEnds(r) PROVE CardInv'
    BY <1>1, <1>5, RunKeepsCards
<1>6. CASE \/ (LockDrops \/ Tick) /\ UNCHANGED announceVars
           \/ UNCHANGED vars
    <2>1. UNCHANGED <<status, attempts, lockedBy, phase, current, outcome, announcement, cards,
                      permits, campaign, step, copy, verdict>>
        BY <1>6 DEF LockDrops, Tick, rowVars, runVars, announceVars, vars, outboxVars
    <2>2. CardInv' <=> CardInv
        BY <2>1 DEF CardInv, LicencesAreFree, FirstTry, Untouched, Free, HandlerKnows, At,
                    Handling, NothingLostSilently
    <2> QED
        BY <2>2
<1> QED
    BY <1>2, <1>3, <1>4, <1>5, <1>6 DEF Next

\* The steps of Announcing keep its types, whether or not the runs are kept apart.
THEOREM AnnouncingTyped == Spec => []TypeOK
<1>1. Init => TypeOK /\ OutboxInv
    BY InitTyped, InitInv DEF Init
<1>2. TypeOK /\ OutboxInv /\ [Next]_vars => (TypeOK /\ OutboxInv)'
    BY TypeOKStep, OutboxStep, InvStep
<1> QED
    BY <1>1, <1>2, PTL DEF Spec

LEMMA InvAlways ==
    ASSUME Defended
    PROVE  Spec => []IInv
<1>1. Init => IInv
    BY InitTyped, InitInv, InitCards DEF Init, IInv
<1>2. IInv => HandlerHoldsRow
    BY InvHolds DEF IInv
<1>3. IInv /\ [Next]_vars => IInv'
    BY <1>2, TypeOKStep, OutboxStep, InvStep, CardStep DEF IInv
<1> QED
    BY <1>1, <1>3, PTL DEF Spec

\* For every number of campaigns, replicas, attempts, faults and retries: where one of the
\* two defences keeps two runs apart, no campaign gets more cards than were asked for.
THEOREM OneCard ==
    ASSUME Defended
    PROVE  Spec => []AtMostOneCard
<1>1. IInv => AtMostOneCard
    BY DEF IInv, CardInv, LicencesAreFree, AtMostOneCard
<1> QED
    BY <1>1, InvAlways, PTL

\* ... and what the dashboard and the outbox record as announced was announced.
THEOREM NothingLost ==
    ASSUME Defended
    PROVE  Spec => []NothingLostSilently
<1>1. IInv => NothingLostSilently
    BY DEF IInv, CardInv
<1> QED
    BY <1>1, InvAlways, PTL

\* A step of the program is a step of the card delivery, or none.
LEMMA CardsStep ==
    ASSUME IInv, IInv', HandlerHoldsRow, [Next]_vars
    PROVE  /\ [Cards!CardNext]_(Cards!cardVars)
           /\ \A c \in Rows : "sent" \in announcement[c] => "sent" \in announcement'[c]
<1> DEFINE Goal == /\ [Cards!CardNext]_(Cards!cardVars)
                   /\ \A c \in Rows : "sent" \in announcement[c] => "sent" \in announcement'[c]
<1> USE DEF Cards!CardNext, Cards!cardVars, Cards!Authorise, Cards!Deliver
<1>1. ASSUME NEW c \in Rows, Register(c) \/ AdminRetry(c) PROVE Goal
    BY <1>1 DEF Register, AdminRetry, RetryRequeues, RetryRefused
<1>2. ASSUME NEW c \in Rows, AskRetry(c) \/ CampaignMoves(c) PROVE Goal
    BY <1>2 DEF AskRetry, CampaignMoves
<1>3. ASSUME NEW r \in Replicas, HandlerStep(r) PROVE Goal
    <2>1. CardGoal(r, current[r])
        BY <1>3, InspectGoal, InsertGoal, MarkGoal, CallGoal, SaveGoal DEF HandlerStep, IInv
    <2>2. current[r] \in Rows /\ Handling(r)
        BY <1>3, HandlerIsOutboxStep DEF IInv, OutboxInv, OutboxTypeOK, RunShape, Handling
    <2>3. \A c \in Rows : "sent" \in announcement[c] => "sent" \in announcement'[c]
        BY <1>3, <2>1, <2>2 DEF CardGoal, IInv, HandlerStep, Inspect, InsertQueued, SaveMarker,
            SaveAnnouncement, CallNovera, Novera, SaveResult, factVars, TypeOK
    <2>4. CASE CallNovera(r)
        <3>1. Free(current[r])
            BY <2>2, <2>4, HandlerHas DEF CallNovera, IInv, HandlerKnows, At
        <3>2. \/ UNCHANGED <<cards, permits>>
              \/ cards' = [cards EXCEPT ![current[r]] = @ + 1] /\ UNCHANGED permits
            BY <2>4 DEF CallNovera, Novera
        <3> QED
            BY <2>2, <2>3, <3>1, <3>2 DEF Free
    <2>5. CASE ~CallNovera(r)
        <3>1. UNCHANGED <<cards, permits>>
            BY <1>3, <2>5 DEF HandlerStep, Inspect, InsertQueued, SaveMarker, SaveResult, factVars
        <3> QED
            BY <2>3, <3>1
    <2> QED
        BY <2>4, <2>5
<1>4. ASSUME \/ ToggleAnnouncements
             \/ (LockDrops \/ Tick) /\ UNCHANGED announceVars
             \/ UNCHANGED vars
      PROVE  Goal
    BY <1>4 DEF ToggleAnnouncements, announceVars, vars
<1>5. ASSUME NEW r \in Replicas, StartRun(r) \/ OtherRunStep(r) \/ RunEnds(r) PROVE Goal
    BY <1>5 DEF StartRun, OtherRunStep, RunEnds, announceVars, factVars
<1>6. Goal
    <2> HIDE DEF Goal
    <2> QED
        BY <1>1, <1>2, <1>3, <1>4, <1>5 DEF Next
<1> QED
    BY <1>6

\* ... and a campaign shown as sent stays so, whatever late save comes.
THEOREM SentStays ==
    ASSUME Defended
    PROVE  Spec => SentIsFinal
<1>1. IInv => HandlerHoldsRow
    BY InvHolds DEF IInv
<1>2. IInv /\ IInv' /\ [Next]_vars
        => [\A c \in Rows : "sent" \in announcement[c] => "sent" \in announcement'[c]]_vars
    BY <1>1, CardsStep
<1> QED
    BY <1>2, InvAlways, PTL DEF Spec, SentIsFinal

\* ... and Announcing implements CardDelivery.
THEOREM ImplementsCards ==
    ASSUME Defended
    PROVE  Spec => DeliversCards
<1>1. Init => Cards!CardInit
    BY DEF Init, Cards!CardInit
<1>2. IInv => HandlerHoldsRow
    BY InvHolds DEF IInv
<1>3. IInv /\ IInv' /\ [Next]_vars => [Cards!CardNext]_(Cards!cardVars)
    BY <1>2, CardsStep
<1> QED
    BY <1>1, <1>3, InvAlways, PTL DEF Spec, DeliversCards, Cards!CardSpec

=============================================================================
