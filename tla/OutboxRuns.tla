----------------------------- MODULE OutboxRuns -----------------------------
(***************************************************************************)
(* The transactional outbox of Amplify (`messaging_outbox`) and the runs   *)
(* of `amplify-jobs` that drain it.  Every domain event is a row.  A run   *)
(* takes the in-process flag and a session advisory lock, releases the     *)
(* rows of dead runs, claims due rows in batches under a lease, hands each *)
(* row to the handler of its event type, and settles it with the handler's *)
(* outcome.                                                                *)
(*                                                                         *)
(* What a handler does is not modelled here: a handler takes some time and *)
(* returns one of the four outcomes.  Announcing refines this module with  *)
(* the handler of CampaignRegistered.                                      *)
(*                                                                         *)
(* Time is counted in ticks by timers, so the state space stays finite:    *)
(* lease[x] and wait[x] count down to locked_until and next_attempt_at,    *)
(* elapsed[r] and inRow[r] count up from the start of the run and of the   *)
(* row it handles.                                                         *)
(***************************************************************************)
EXTENDS Integers, FiniteSets

CONSTANTS
    Rows,           \* outbox ids; their order is the queue order
    Replicas,       \* replicas of amplify-jobs; each runs at most one run
    NoRun,          \* locked_by is NULL, or nobody holds the advisory lock
    DeadRun,        \* the run id of a run that is over: run ids are never reused
    BatchSize,      \* runBatchSize
    MaxRows,        \* runMaxRows
    MaxAttempts,    \* maxAttempts
    MaxSeconds,     \* runMaxSeconds
    LongestCall,    \* the longest external call of one row
    LeaseSeconds,   \* runLockLeaseSeconds
    RowSeconds,     \* environment: the longest one row takes, database included
    Delay,          \* environment: a backoff or a deferral, in ticks
    LockMayDrop,    \* environment: the session of the advisory lock may die
    MaxFaults       \* environment: how many runs die or lose their lock

ASSUME RowsAssumption == Rows \subseteq Nat \ {0} /\ IsFiniteSet(Rows)
ASSUME ReplicasAssumption == NoRun \notin Replicas /\ DeadRun \notin Replicas
                             /\ NoRun # DeadRun
ASSUME TuningAssumption ==
    /\ BatchSize \in Nat \ {0}
    /\ MaxRows \in Nat \ {0}
    /\ MaxAttempts \in Nat \ {0}
    /\ MaxSeconds \in Nat \ {0}
    /\ LongestCall \in Nat
    /\ LeaseSeconds \in Nat
    /\ RowSeconds \in Nat
    /\ Delay \in Nat
    /\ LockMayDrop \in BOOLEAN
    /\ MaxFaults \in Nat
\* validateRunConfig refuses to start the worker otherwise.
ASSUME RunConfigAssumption == MaxSeconds + LongestCall < LeaseSeconds

VARIABLES
    \* messaging_outbox, one entry per row
    status, attempts, lockedBy, lease, wait,
    \* runOnce and execute, one entry per replica
    phase, elapsed, claimed, batch, got, current, inRow, outcome,
    \* the advisory lock, and the faults so far
    runLock, faults

rowVars == <<status, attempts, lockedBy, lease, wait>>
runVars == <<phase, elapsed, claimed, batch, got, current, inRow, outcome>>
outboxVars == <<status, attempts, lockedBy, lease, wait, phase, elapsed, claimed,
                batch, got, current, inRow, outcome, runLock, faults>>

Statuses == {"ABSENT", "PENDING", "IN_PROGRESS", "DONE", "FAILED"}
Phases == {"idle", "starting", "claiming", "batch", "handling", "settling"}
Outcomes == {"DONE", "RETRY", "DEFER", "FAIL"}

Live(r) == phase[r] # "idle"
Handling(r) == phase[r] = "handling"

\* Mutant: the budget is compared one attempt too late.
FinalAttemptLate(r) == got[r][current[r]] > MaxAttempts

\* A RETRY of this claim would exhaust maxAttempts.
FinalAttempt(r) == got[r][current[r]] >= MaxAttempts

Due == {x \in Rows : status[x] = "PENDING" /\ wait[x] = 0}

\* The batches a claim of at most n rows may return: the first due rows.
FirstDue(n) ==
    {S \in SUBSET Due : /\ S # {}
                        /\ Cardinality(S) <= n
                        /\ Cardinality(S) < n => S = Due
                        /\ \A x \in S, y \in Due \ S : x < y}

IsFirst(x, S) == x \in S /\ \A y \in S : x <= y

NoRow == 0

OutboxInit ==
    /\ status = [x \in Rows |-> "ABSENT"]
    /\ attempts = [x \in Rows |-> 0]
    /\ lockedBy = [x \in Rows |-> NoRun]
    /\ lease = [x \in Rows |-> 0]
    /\ wait = [x \in Rows |-> 0]
    /\ phase = [r \in Replicas |-> "idle"]
    /\ elapsed = [r \in Replicas |-> 0]
    /\ claimed = [r \in Replicas |-> 0]
    /\ batch = [r \in Replicas |-> {}]
    /\ got = [r \in Replicas |-> [x \in Rows |-> 0]]
    /\ current = [r \in Replicas |-> NoRow]
    /\ inRow = [r \in Replicas |-> 0]
    /\ outcome = [r \in Replicas |-> "DONE"]
    /\ runLock = NoRun
    /\ faults = 0

-----------------------------------------------------------------------------
(***************************************************************************)
(* The outbox statements.                                                  *)
(***************************************************************************)

\* writeOutbox: a repeated idempotency key is skipped, so a row is written once.
Enqueue(x) ==
    /\ status[x] = "ABSENT"
    /\ status' = [status EXCEPT ![x] = "PENDING"]
    /\ UNCHANGED <<attempts, lockedBy, lease, wait, runVars, runLock, faults>>

\* requeueTx: the admin retry puts back a FAILED row, with its attempts reset.
AdminRequeue(x) ==
    /\ status[x] = "FAILED"
    /\ status' = [status EXCEPT ![x] = "PENDING"]
    /\ attempts' = [attempts EXCEPT ![x] = 0]
    /\ lockedBy' = [lockedBy EXCEPT ![x] = NoRun]
    /\ wait' = [wait EXCEPT ![x] = 0]
    /\ UNCHANGED <<lease, runVars, runLock, faults>>

\* completeOutbox, retryOutbox and failOutbox touch the row only while locked_by is
\* still the run; else the statement matches no row.
HoldsLock(r, x) == lockedBy[x] = r

Unlocked(x) ==
    /\ lockedBy' = [lockedBy EXCEPT ![x] = NoRun]
    /\ lease' = [lease EXCEPT ![x] = 0]

Complete(r, x) ==
    IF HoldsLock(r, x)
    THEN /\ status' = [status EXCEPT ![x] = "DONE"]
         /\ Unlocked(x)
         /\ UNCHANGED <<attempts, wait>>
    ELSE UNCHANGED rowVars

\* countAttempt = FALSE gives the claim's attempt back, never below zero.
Requeue(r, x, delay, countAttempt) ==
    IF HoldsLock(r, x)
    THEN /\ status' = [status EXCEPT ![x] = "PENDING"]
         /\ wait' = [wait EXCEPT ![x] = delay]
         /\ attempts' = IF countAttempt \/ attempts[x] = 0 THEN attempts
                        ELSE [attempts EXCEPT ![x] = @ - 1]
         /\ Unlocked(x)
    ELSE UNCHANGED rowVars

FailRow(r, x) ==
    IF HoldsLock(r, x)
    THEN /\ status' = [status EXCEPT ![x] = "FAILED"]
         /\ Unlocked(x)
         /\ UNCHANGED <<attempts, wait>>
    ELSE UNCHANGED rowVars

\* Mutants: the lease is ignored; a row whose attempts are used up is left to its dead run.
IsStaleAnyLease(x) == status[x] = "IN_PROGRESS"
IsStaleWithinBudget(x) == status[x] = "IN_PROGRESS" /\ lease[x] = 0 /\ attempts[x] < MaxAttempts

\* Only a lease that ran out is released.
IsStale(x) == status[x] = "IN_PROGRESS" /\ lease[x] = 0

-----------------------------------------------------------------------------
(***************************************************************************)
(* The run.                                                                *)
(***************************************************************************)

\* Mutant: only the in-process flag keeps runs apart.
BeginUnlocked(r) ==
    /\ phase[r] = "idle"
    /\ runLock' = r
    /\ phase' = [phase EXCEPT ![r] = "starting"]
    /\ UNCHANGED <<rowVars, elapsed, claimed, batch, got, current, inRow, outcome, faults>>

\* runOnce: the in-process flag (phase[r] is idle) and the advisory lock.  When another
\* run holds either, the trigger answers SKIPPED and nothing changes.
Begin(r) ==
    /\ phase[r] = "idle"
    /\ runLock = NoRun
    /\ runLock' = r
    /\ phase' = [phase EXCEPT ![r] = "starting"]
    /\ UNCHANGED <<rowVars, elapsed, claimed, batch, got, current, inRow, outcome, faults>>

\* releaseStaleLocks: the attempt the dead run counted stays counted.
ReleaseStale(r) ==
    /\ phase[r] = "starting"
    /\ status' = [x \in Rows |-> IF IsStale(x) THEN "PENDING" ELSE status[x]]
    /\ lockedBy' = [x \in Rows |-> IF IsStale(x) THEN NoRun ELSE lockedBy[x]]
    /\ wait' = [x \in Rows |-> IF IsStale(x) THEN 0 ELSE wait[x]]
    /\ phase' = [phase EXCEPT ![r] = "claiming"]
    /\ UNCHANGED <<attempts, lease, elapsed, claimed, batch, got, current, inRow,
                   outcome, runLock, faults>>

MayClaim(r) == claimed[r] < MaxRows /\ elapsed[r] < MaxSeconds

Room(r) == IF MaxRows - claimed[r] < BatchSize THEN MaxRows - claimed[r] ELSE BatchSize

\* Mutant: the lease is added to the end of the run's budget.
TakeRowsLong(owner, S) ==
    /\ status' = [x \in Rows |-> IF x \in S THEN "IN_PROGRESS" ELSE status[x]]
    /\ attempts' = [x \in Rows |-> IF x \in S THEN attempts[x] + 1 ELSE attempts[x]]
    /\ lockedBy' = [x \in Rows |-> IF x \in S THEN owner ELSE lockedBy[x]]
    /\ lease' = [x \in Rows |-> IF x \in S THEN MaxSeconds + LeaseSeconds ELSE lease[x]]
    /\ UNCHANGED wait

\* claimOutbox for the run id `owner`: one UPDATE, so it is atomic.
TakeRows(owner, S) ==
    /\ status' = [x \in Rows |-> IF x \in S THEN "IN_PROGRESS" ELSE status[x]]
    /\ attempts' = [x \in Rows |-> IF x \in S THEN attempts[x] + 1 ELSE attempts[x]]
    /\ lockedBy' = [x \in Rows |-> IF x \in S THEN owner ELSE lockedBy[x]]
    /\ lease' = [x \in Rows |-> IF x \in S THEN LeaseSeconds ELSE lease[x]]
    /\ UNCHANGED wait

Claim(r) ==
    /\ phase[r] = "claiming"
    /\ MayClaim(r)
    /\ \E S \in FirstDue(Room(r)) :
        /\ TakeRows(r, S)
        /\ batch' = [batch EXCEPT ![r] = S]
        /\ got' = [got EXCEPT ![r] = [x \in Rows |-> IF x \in S THEN attempts[x] + 1
                                                     ELSE got[r][x]]]
        /\ claimed' = [claimed EXCEPT ![r] = @ + Cardinality(S)]
    /\ phase' = [phase EXCEPT ![r] = "batch"]
    /\ UNCHANGED <<elapsed, current, inRow, outcome, runLock, faults>>

\* The run is over, its locals with it; the lock is released if its session still holds it.
EndRun(r) ==
    /\ phase' = [phase EXCEPT ![r] = "idle"]
    /\ elapsed' = [elapsed EXCEPT ![r] = 0]
    /\ claimed' = [claimed EXCEPT ![r] = 0]
    /\ batch' = [batch EXCEPT ![r] = {}]
    /\ got' = [got EXCEPT ![r] = [x \in Rows |-> 0]]
    /\ current' = [current EXCEPT ![r] = NoRow]
    /\ inRow' = [inRow EXCEPT ![r] = 0]
    /\ outcome' = [outcome EXCEPT ![r] = "DONE"]
    /\ runLock' = IF runLock = r THEN NoRun ELSE runLock

Finish(r) ==
    /\ phase[r] = "claiming"
    /\ ~MayClaim(r) \/ Due = {}
    /\ EndRun(r)
    /\ UNCHANGED <<rowVars, faults>>

\* What the loop does after it has dealt with row x.
RowDealtWith(r, x) ==
    /\ batch' = [batch EXCEPT ![r] = @ \ {x}]
    /\ got' = [got EXCEPT ![r][x] = 0]
    /\ phase' = [phase EXCEPT ![r] = IF batch[r] = {x} THEN "claiming" ELSE "batch"]
    /\ current' = [current EXCEPT ![r] = NoRow]
    /\ inRow' = [inRow EXCEPT ![r] = 0]
    /\ outcome' = [outcome EXCEPT ![r] = "DONE"]
    /\ UNCHANGED <<elapsed, claimed, runLock, faults>>

\* Out of time: the rest of the batch is handed back untouched.
HandBack(r) ==
    /\ phase[r] = "batch"
    /\ elapsed[r] >= MaxSeconds
    /\ \E x \in batch[r] : /\ IsFirst(x, batch[r])
                          /\ Requeue(r, x, 0, FALSE)
                          /\ RowDealtWith(r, x)

BeginRow(r) ==
    /\ phase[r] = "batch"
    /\ elapsed[r] < MaxSeconds
    /\ phase' = [phase EXCEPT ![r] = "handling"]
    /\ \E x \in batch[r] : /\ IsFirst(x, batch[r])
                          /\ current' = [current EXCEPT ![r] = x]
    /\ inRow' = [inRow EXCEPT ![r] = 0]
    /\ UNCHANGED <<rowVars, elapsed, claimed, batch, got, outcome, runLock, faults>>

\* The handler of the row returns outcome k.
HandlerReturns(r, k) ==
    /\ Handling(r)
    /\ phase' = [phase EXCEPT ![r] = "settling"]
    /\ outcome' = [outcome EXCEPT ![r] = k]
    /\ UNCHANGED <<rowVars, elapsed, claimed, batch, got, current, inRow, runLock, faults>>

\* The statement settle runs for the handler's outcome.
SettleRow(r, x) ==
    \/ outcome[r] = "DONE" /\ Complete(r, x)
    \/ outcome[r] = "DEFER" /\ Requeue(r, x, Delay, FALSE)
    \/ outcome[r] = "RETRY" /\ ~FinalAttempt(r) /\ Requeue(r, x, Delay, TRUE)
    \/ outcome[r] = "RETRY" /\ FinalAttempt(r) /\ FailRow(r, x)
    \/ outcome[r] = "FAIL" /\ FailRow(r, x)

Settle(r) ==
    /\ phase[r] = "settling"
    /\ SettleRow(r, current[r])
    /\ RowDealtWith(r, current[r])

-----------------------------------------------------------------------------
(***************************************************************************)
(* Faults and time.                                                        *)
(***************************************************************************)

\* The process dies, or a database error aborts execute: the run is over.  Its rows stay
\* IN_PROGRESS under a run id nobody uses again.
Die(r) ==
    /\ Live(r)
    /\ faults < MaxFaults
    /\ faults' = faults + 1
    /\ EndRun(r)
    /\ lockedBy' = [x \in Rows |-> IF lockedBy[x] = r THEN DeadRun ELSE lockedBy[x]]
    /\ UNCHANGED <<status, attempts, lease, wait>>

\* The claim commits but its answer is lost: nobody handles the claimed rows.
ClaimAnswerLost(r) ==
    /\ phase[r] = "claiming"
    /\ MayClaim(r)
    /\ faults < MaxFaults
    /\ faults' = faults + 1
    /\ \E S \in FirstDue(Room(r)) : TakeRows(DeadRun, S)
    /\ EndRun(r)

\* The session of the advisory lock dies while its run goes on.
LockDrops ==
    /\ LockMayDrop
    /\ runLock # NoRun
    /\ faults < MaxFaults
    /\ faults' = faults + 1
    /\ runLock' = NoRun
    /\ UNCHANGED <<rowVars, runVars>>

\* No row takes longer than RowSeconds.  elapsed stops at LeaseSeconds.
Tick ==
    /\ \A r \in Replicas : Handling(r) => inRow[r] < RowSeconds
    /\ lease' = [x \in Rows |-> IF lease[x] > 0 THEN lease[x] - 1 ELSE 0]
    /\ wait' = [x \in Rows |-> IF wait[x] > 0 THEN wait[x] - 1 ELSE 0]
    /\ elapsed' = [r \in Replicas |-> IF Live(r) /\ elapsed[r] < LeaseSeconds
                                      THEN elapsed[r] + 1 ELSE elapsed[r]]
    /\ inRow' = [r \in Replicas |-> IF Handling(r) THEN inRow[r] + 1 ELSE inRow[r]]
    /\ UNCHANGED <<status, attempts, lockedBy, phase, claimed, batch, got, current,
                   outcome, runLock, faults>>

-----------------------------------------------------------------------------
\* Steps of a run outside its handlers.
RunStep(r) ==
    \/ Begin(r) \/ ReleaseStale(r) \/ Claim(r) \/ Finish(r)
    \/ HandBack(r) \/ BeginRow(r) \/ Settle(r)

Fault(r) == Die(r) \/ ClaimAnswerLost(r)

OutboxNext ==
    \/ \E x \in Rows : Enqueue(x) \/ AdminRequeue(x)
    \/ \E r \in Replicas : RunStep(r) \/ Fault(r)
    \/ \E r \in Replicas, k \in Outcomes : HandlerReturns(r, k)
    \/ LockDrops
    \/ Tick

OutboxSpec == OutboxInit /\ [][OutboxNext]_outboxVars

\* The scheduler triggers a run on every replica again and again, and a run that is not
\* killed goes on.  A single run may spend its whole budget before it begins a row, but
\* not every run does: a start within the budget, Claim and BeginRow are strongly fair.
OutboxFairness ==
    /\ WF_outboxVars(Tick)
    /\ \A r \in Replicas :
        /\ WF_outboxVars(Begin(r))
        /\ WF_outboxVars(ReleaseStale(r))
        /\ SF_outboxVars(ReleaseStale(r) /\ elapsed[r] < MaxSeconds)
        /\ SF_outboxVars(Claim(r))
        /\ WF_outboxVars(Finish(r))
        /\ WF_outboxVars(HandBack(r))
        /\ SF_outboxVars(BeginRow(r))
        /\ WF_outboxVars(\E k \in Outcomes : HandlerReturns(r, k))
        /\ WF_outboxVars(Settle(r))

FairOutboxSpec == OutboxSpec /\ OutboxFairness

-----------------------------------------------------------------------------
(***************************************************************************)
(* Properties.                                                             *)
(***************************************************************************)

OutboxTypeOK ==
    /\ status \in [Rows -> Statuses]
    /\ attempts \in [Rows -> Nat]
    /\ lockedBy \in [Rows -> Replicas \cup {NoRun, DeadRun}]
    /\ lease \in [Rows -> 0..LeaseSeconds]
    /\ wait \in [Rows -> Nat]
    /\ phase \in [Replicas -> Phases]
    /\ elapsed \in [Replicas -> 0..LeaseSeconds]
    /\ claimed \in [Replicas -> Nat]
    /\ batch \in [Replicas -> SUBSET Rows]
    /\ got \in [Replicas -> [Rows -> Nat]]
    /\ current \in [Replicas -> Rows \cup {NoRow}]
    /\ inRow \in [Replicas -> Nat]
    /\ outcome \in [Replicas -> Outcomes]
    /\ runLock \in Replicas \cup {NoRun}
    /\ faults \in Nat

\* One of the two defences against a second run is in force: the lease outlives every row
\* a run may start, or the advisory lock outlives the run.
LeaseCoversRow == MaxSeconds + RowSeconds < LeaseSeconds
Defended == LeaseCoversRow \/ ~LockMayDrop

\* A run that handles a row still holds it: no other run released it as stale, claimed it
\* or settled it meanwhile, so no row is handled by two runs at once (validateRunConfig,
\* and the comment on PgRunLock).
HandlerHoldsRow ==
    \A r \in Replicas :
        Handling(r) => /\ status[current[r]] = "IN_PROGRESS"
                       /\ lockedBy[current[r]] = r
                       /\ attempts[current[r]] = got[r][current[r]]

\* What a handler may rely on: each queued row is delivered until it is settled, a settled
\* row stays settled whatever a late run answers, and, with one of the two defences, one
\* delivery at a time.
Queue == [x \in Rows |-> IF status[x] \in {"PENDING", "IN_PROGRESS"} THEN "QUEUED" ELSE status[x]]
Settling == {r \in Replicas : phase[r] = "settling"}

Delivered == INSTANCE Deliveries WITH
    Events <- Rows, Workers <- Replicas, NoEvent <- NoRow, Exclusive <- Defended,
    queue <- Queue, job <- current, returned <- Settling

ImplementsDeliveries == Delivered!DeliverySpec

\* Only a run that died raises a row's attempts past maxAttempts: a retry, a deferral, a
\* hand-back and an admin retry all stay inside the budget (retryOutbox, settle).
AttemptsWithinBudget == \A x \in Rows : attempts[x] <= MaxAttempts + faults

\* No row is stranded: whatever runs die, lose their lock or run out of time, a queued row
\* is settled, provided its handler stops deferring it and the admins stop re-queueing
\* rows (a lower id is always claimed first).
DeferralsEnd == <>[](\A r \in Replicas : outcome[r] # "DEFER")
AdminRetriesEnd == <>[][\A x \in Rows : status[x] = "FAILED" => status'[x] = "FAILED"]_outboxVars

QueueDrains ==
    DeferralsEnd /\ AdminRetriesEnd
        => \A x \in Rows : status[x] = "PENDING" ~> status[x] \in {"DONE", "FAILED"}

=============================================================================
