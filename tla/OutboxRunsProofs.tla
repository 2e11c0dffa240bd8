--------------------------- MODULE OutboxRunsProofs ---------------------------
(***************************************************************************)
(* Proofs about OutboxRuns: its types; that a run never handles a row      *)
(* another run took from it, whenever the lease outlives every row or the  *)
(* advisory lock outlives the run; that the runs implement Deliveries; and *)
(* that no row is tried beyond its budget.                                 *)
(***************************************************************************)
EXTENDS OutboxRuns, FiniteSetTheorems, TLAPS

USE RowsAssumption, ReplicasAssumption, TuningAssumption

-----------------------------------------------------------------------------
(***************************************************************************)
(* The inductive invariant.                                                *)
(***************************************************************************)

\* Only a run inside its loop has a batch, and the row it handles is in it.
RunShape ==
    \A r \in Replicas :
        /\ phase[r] \in {"idle", "starting", "claiming"} => batch[r] = {}
        /\ phase[r] \in {"handling", "settling"} => current[r] \in batch[r]

\* A row locked by a run is in progress, in that run's batch, with the attempts it claimed.
LockShape ==
    /\ \A x \in Rows : lockedBy[x] # NoRun => status[x] = "IN_PROGRESS"
    /\ \A x \in Rows, r \in Replicas :
        lockedBy[x] = r => x \in batch[r] /\ attempts[x] = got[r][x]
    /\ \A x \in Rows : status[x] = "IN_PROGRESS" => attempts[x] > 0

\* What keeps the rows of a run its own while the lease outlives every row: the lease of a
\* claimed row and the time the run has left add up.
LeaseKeepsRows ==
    \A r \in Replicas :
        /\ Handling(r) => elapsed[r] < MaxSeconds + inRow[r] /\ inRow[r] <= RowSeconds
        /\ \A x \in batch[r] :
            \/ elapsed[r] = LeaseSeconds
            \/ lockedBy[x] = r /\ lease[x] + elapsed[r] >= LeaseSeconds

\* What keeps them its own while the advisory lock outlives the run: there is no other run.
LockKeepsRows ==
    \A r \in Replicas : /\ Live(r) => runLock = r
                        /\ \A x \in batch[r] : lockedBy[x] = r

OutboxInv ==
    /\ OutboxTypeOK
    /\ RunShape
    /\ LockShape
    /\ LeaseCoversRow => LeaseKeepsRows
    /\ ~LockMayDrop => LockKeepsRows

-----------------------------------------------------------------------------
LEMMA InitInv == OutboxInit => OutboxInv
BY DEF OutboxInit, OutboxInv, OutboxTypeOK, RunShape, LockShape, LeaseKeepsRows, LockKeepsRows,
       Handling, Live, Statuses, Phases, Outcomes, NoRow

(***************************************************************************)
(* The statements on one row, and the claim.                               *)
(***************************************************************************)

\* What settling row x as run r may do: another row is left alone, and row x too unless r
\* holds its lock; else the lock is given up.
RowSettled(r, x) ==
    /\ status' \in [Rows -> Statuses]
    /\ attempts' \in [Rows -> Nat]
    /\ lockedBy' \in [Rows -> Replicas \cup {NoRun, DeadRun}]
    /\ lease' \in [Rows -> 0..LeaseSeconds]
    /\ wait' \in [Rows -> Nat]
    /\ \A y \in Rows : y # x \/ lockedBy[x] # r =>
        /\ status'[y] = status[y] /\ attempts'[y] = attempts[y]
        /\ lockedBy'[y] = lockedBy[y] /\ lease'[y] = lease[y] /\ wait'[y] = wait[y]
    /\ lockedBy[x] = r => /\ lockedBy'[x] = NoRun
                          /\ status'[x] \in {"DONE", "PENDING", "FAILED"}

\* Every statement of settle and of the hand-back does no more than that.
LEMMA StatementSettles ==
    ASSUME OutboxTypeOK, NEW r \in Replicas, NEW x \in Rows,
           \/ SettleRow(r, x)
           \/ Requeue(r, x, 0, FALSE)
    PROVE  RowSettled(r, x)
<1> USE DEF OutboxTypeOK, RowSettled, Statuses
<1>1. CASE lockedBy[x] # r
    <2>1. UNCHANGED rowVars
        BY <1>1 DEF SettleRow, Complete, Requeue, FailRow, HoldsLock
    <2> QED
        BY <1>1, <2>1 DEF rowVars
<1>2. CASE lockedBy[x] = r
    <2> SUFFICES ASSUME NEW s \in {"DONE", "PENDING", "FAILED"}, NEW w \in Nat, NEW n \in Nat,
                        status' = [status EXCEPT ![x] = s],
                        attempts' = [attempts EXCEPT ![x] = n],
                        wait' = [wait EXCEPT ![x] = w],
                        lockedBy' = [lockedBy EXCEPT ![x] = NoRun],
                        lease' = [lease EXCEPT ![x] = 0]
                 PROVE  RowSettled(r, x)
        <3>1. attempts = [attempts EXCEPT ![x] = attempts[x]] /\ attempts[x] \in Nat
              /\ wait = [wait EXCEPT ![x] = wait[x]] /\ wait[x] \in Nat
            OBVIOUS
        <3>2. CASE Complete(r, x)
            BY <1>2, <3>1, <3>2 DEF Complete, HoldsLock, Unlocked
        <3>3. CASE FailRow(r, x)
            BY <1>2, <3>1, <3>3 DEF FailRow, HoldsLock, Unlocked
        <3>4. ASSUME NEW d \in Nat, NEW k \in BOOLEAN, Requeue(r, x, d, k)
              PROVE  RowSettled(r, x)
            <4>1. /\ status' = [status EXCEPT ![x] = "PENDING"]
                  /\ wait' = [wait EXCEPT ![x] = d]
                  /\ lockedBy' = [lockedBy EXCEPT ![x] = NoRun]
                  /\ lease' = [lease EXCEPT ![x] = 0]
                BY <1>2, <3>4 DEF Requeue, HoldsLock, Unlocked
            <4>2. \E n \in Nat : attempts' = [attempts EXCEPT ![x] = n]
                BY <1>2, <3>1, <3>4 DEF Requeue, HoldsLock
            <4> QED
                BY <4>1, <4>2
        <3> QED
            BY <3>2, <3>3, <3>4 DEF SettleRow
    <2> QED
        BY <1>2
<1> QED
    BY <1>1, <1>2

\* settle and the hand-back settle one row of the batch and leave it out of the batch.
LEMMA RowLeaves ==
    ASSUME OutboxTypeOK, RunShape, NEW r \in Replicas, HandBack(r) \/ Settle(r)
    PROVE  \E x \in batch[r] : RowSettled(r, x) /\ RowDealtWith(r, x)
<1>1. \A x \in batch[r] : x \in Rows
    BY DEF OutboxTypeOK
<1>2. CASE HandBack(r)
    BY <1>1, <1>2, StatementSettles DEF HandBack
<1>3. CASE Settle(r)
    <2>1. current[r] \in batch[r]
        BY <1>3 DEF Settle, RunShape
    <2> QED
        BY <1>1, <1>3, <2>1, StatementSettles DEF Settle
<1> QED
    BY <1>2, <1>3

\* A claim returns due rows, finitely many of them.
LEMMA ClaimedRows ==
    ASSUME NEW n, NEW S \in FirstDue(n)
    PROVE  S \subseteq Due /\ Cardinality(S) \in Nat
<1>1. S \subseteq Rows
    BY DEF FirstDue, Due
<1> QED
    BY <1>1, FS_Subset, FS_CardinalityType DEF FirstDue

-----------------------------------------------------------------------------
LEMMA TypeStep == OutboxTypeOK /\ RunShape /\ [OutboxNext]_outboxVars => OutboxTypeOK'
<1> SUFFICES ASSUME OutboxTypeOK, RunShape, [OutboxNext]_outboxVars PROVE OutboxTypeOK'
    OBVIOUS
<1> USE DEF OutboxTypeOK, Statuses, Phases, Outcomes, NoRow, rowVars, runVars
<1>1. ASSUME NEW x \in Rows, Enqueue(x) PROVE OutboxTypeOK'
    BY <1>1 DEF Enqueue
<1>2. ASSUME NEW x \in Rows, AdminRequeue(x) PROVE OutboxTypeOK'
    BY <1>2 DEF AdminRequeue
<1>3. ASSUME NEW r \in Replicas, Begin(r) PROVE OutboxTypeOK'
    BY <1>3 DEF Begin
<1>4. ASSUME NEW r \in Replicas, ReleaseStale(r) PROVE OutboxTypeOK'
    BY <1>4 DEF ReleaseStale
<1>5. ASSUME NEW r \in Replicas, Claim(r) PROVE OutboxTypeOK'
    <2>1. PICK S \in FirstDue(Room(r)) : Claim(r)!3!(S)
        BY <1>5 DEF Claim
    <2>2. S \subseteq Rows /\ Cardinality(S) \in Nat
        BY <2>1, ClaimedRows DEF Due
    <2> QED
        BY <1>5, <2>1, <2>2 DEF Claim, TakeRows
<1>6. ASSUME NEW r \in Replicas, Finish(r) PROVE OutboxTypeOK'
    BY <1>6 DEF Finish, EndRun
<1>7. ASSUME NEW r \in Replicas, HandBack(r) PROVE OutboxTypeOK'
    <2>1. PICK x \in batch[r] : Requeue(r, x, 0, FALSE) /\ RowDealtWith(r, x)
        BY <1>7 DEF HandBack
    <2>2. RowSettled(r, x)
        BY <2>1, StatementSettles
    <2> QED
        BY <2>1, <2>2 DEF RowDealtWith, RowSettled
<1>8. ASSUME NEW r \in Replicas, BeginRow(r) PROVE OutboxTypeOK'
    BY <1>8 DEF BeginRow
<1>9. ASSUME NEW r \in Replicas, NEW k \in Outcomes, HandlerReturns(r, k) PROVE OutboxTypeOK'
    BY <1>9 DEF HandlerReturns
<1>10. ASSUME NEW r \in Replicas, Settle(r) PROVE OutboxTypeOK'
    <2>1. current[r] \in batch[r]
        BY <1>10 DEF Settle, RunShape
    <2>2. RowSettled(r, current[r])
        BY <1>10, <2>1, StatementSettles DEF Settle
    <2> QED
        BY <1>10, <2>1, <2>2 DEF Settle, RowDealtWith, RowSettled
<1>11. ASSUME NEW r \in Replicas, Die(r) PROVE OutboxTypeOK'
    BY <1>11 DEF Die, EndRun
<1>12. ASSUME NEW r \in Replicas, ClaimAnswerLost(r) PROVE OutboxTypeOK'
    <2>1. PICK S \in FirstDue(Room(r)) : TakeRows(DeadRun, S)
        BY <1>12 DEF ClaimAnswerLost
    <2>2. S \subseteq Rows
        BY <2>1, ClaimedRows DEF Due
    <2> QED
        BY <1>12, <2>1, <2>2 DEF ClaimAnswerLost, TakeRows, EndRun
<1>13. ASSUME LockDrops PROVE OutboxTypeOK'
    BY <1>13 DEF LockDrops
<1>14. ASSUME Tick PROVE OutboxTypeOK'
    BY <1>14 DEF Tick
<1>15. ASSUME UNCHANGED outboxVars PROVE OutboxTypeOK'
    BY <1>15 DEF outboxVars
<1> QED
    BY <1>1, <1>2, <1>3, <1>4, <1>5, <1>6, <1>7, <1>8, <1>9, <1>10, <1>11, <1>12, <1>13, <1>14,
       <1>15 DEF OutboxNext, RunStep, Fault

-----------------------------------------------------------------------------
LEMMA RunShapeStep ==
    OutboxTypeOK /\ RunShape /\ [OutboxNext]_outboxVars => RunShape'
<1> SUFFICES ASSUME OutboxTypeOK, RunShape, [OutboxNext]_outboxVars PROVE RunShape'
    OBVIOUS
<1> USE DEF OutboxTypeOK, RunShape, rowVars, runVars
<1>1. ASSUME NEW x \in Rows, Enqueue(x) \/ AdminRequeue(x) PROVE RunShape'
    BY <1>1 DEF Enqueue, AdminRequeue
<1>2. ASSUME NEW r \in Replicas, Begin(r) \/ ReleaseStale(r) PROVE RunShape'
    BY <1>2 DEF Begin, ReleaseStale
<1>3. ASSUME NEW r \in Replicas, Claim(r) PROVE RunShape'
    BY <1>3 DEF Claim
<1>4. ASSUME NEW r \in Replicas, Finish(r) \/ Fault(r) PROVE RunShape'
    BY <1>4 DEF Finish, Fault, Die, ClaimAnswerLost, EndRun
<1>5. ASSUME NEW r \in Replicas, HandBack(r) \/ Settle(r) PROVE RunShape'
    <2>1. PICK x \in batch[r] : RowDealtWith(r, x)
        BY <1>5 DEF HandBack, Settle
    <2> QED
        BY <2>1 DEF RowDealtWith
<1>6. ASSUME NEW r \in Replicas, BeginRow(r) PROVE RunShape'
    BY <1>6 DEF BeginRow
<1>7. ASSUME NEW r \in Replicas, NEW k \in Outcomes, HandlerReturns(r, k) PROVE RunShape'
    BY <1>7 DEF HandlerReturns, Handling
<1>8. ASSUME LockDrops \/ Tick \/ UNCHANGED outboxVars PROVE RunShape'
    BY <1>8 DEF LockDrops, Tick, outboxVars
<1> QED
    BY <1>1, <1>2, <1>3, <1>4, <1>5, <1>6, <1>7, <1>8 DEF OutboxNext, RunStep

LEMMA LockShapeStep ==
    OutboxTypeOK /\ RunShape /\ LockShape /\ [OutboxNext]_outboxVars => LockShape'
<1> SUFFICES ASSUME OutboxTypeOK, RunShape, LockShape, [OutboxNext]_outboxVars PROVE LockShape'
    OBVIOUS
<1> USE DEF OutboxTypeOK, LockShape, rowVars, runVars
<1>1. ASSUME NEW x \in Rows, Enqueue(x) PROVE LockShape'
    BY <1>1 DEF Enqueue
<1>2. ASSUME NEW x \in Rows, AdminRequeue(x) PROVE LockShape'
    BY <1>2 DEF AdminRequeue
<1>3. ASSUME NEW r \in Replicas, Begin(r) PROVE LockShape'
    BY <1>3 DEF Begin
<1>4. ASSUME NEW r \in Replicas, ReleaseStale(r) PROVE LockShape'
    BY <1>4 DEF ReleaseStale
<1>5. ASSUME NEW r \in Replicas, Claim(r) PROVE LockShape'
    <2>1. PICK S \in FirstDue(Room(r)) : Claim(r)!3!(S)
        BY <1>5 DEF Claim
    <2>2. S \subseteq Due
        BY <2>1, ClaimedRows
    <2>3. batch[r] = {}
        BY <1>5 DEF Claim, RunShape
    <2> QED
        BY <1>5, <2>1, <2>2, <2>3 DEF Claim, TakeRows, Due
<1>6. ASSUME NEW r \in Replicas, Finish(r) PROVE LockShape'
    <2>1. batch[r] = {}
        BY <1>6 DEF Finish, RunShape
    <2> QED
        BY <1>6, <2>1 DEF Finish, EndRun
<1>7. ASSUME NEW r \in Replicas, HandBack(r) \/ Settle(r) PROVE LockShape'
    <2>1. PICK x \in batch[r] : RowSettled(r, x) /\ RowDealtWith(r, x)
        BY <1>7, RowLeaves
    <2>2. ASSUME NEW y \in Rows, lockedBy'[y] # NoRun
          PROVE  status'[y] = "IN_PROGRESS"
        BY <2>1, <2>2 DEF RowSettled
    <2>3. ASSUME NEW y \in Rows, NEW q \in Replicas, lockedBy'[y] = q
          PROVE  y \in batch'[q] /\ attempts'[y] = got'[q][y]
        <3>1. lockedBy[y] = q /\ attempts'[y] = attempts[y]
            BY <2>1, <2>3 DEF RowSettled
        <3>2. q # r \/ y # x
            BY <2>1, <2>3, <3>1 DEF RowSettled
        <3> QED
            BY <2>1, <3>1, <3>2 DEF RowDealtWith
    <2>4. ASSUME NEW y \in Rows, status'[y] = "IN_PROGRESS"
          PROVE  attempts'[y] > 0
        BY <2>1, <2>4 DEF RowSettled
    <2> QED
        BY <2>2, <2>3, <2>4
<1>8. ASSUME NEW r \in Replicas, BeginRow(r) PROVE LockShape'
    BY <1>8 DEF BeginRow
<1>9. ASSUME NEW r \in Replicas, NEW k \in Outcomes, HandlerReturns(r, k) PROVE LockShape'
    BY <1>9 DEF HandlerReturns
<1>10. ASSUME NEW r \in Replicas, Die(r) PROVE LockShape'
    BY <1>10 DEF Die, EndRun
<1>11. ASSUME NEW r \in Replicas, ClaimAnswerLost(r) PROVE LockShape'
    <2>1. PICK S \in FirstDue(Room(r)) : TakeRows(DeadRun, S)
        BY <1>11 DEF ClaimAnswerLost
    <2>2. S \subseteq Due
        BY <2>1, ClaimedRows
    <2>3. batch[r] = {}
        BY <1>11 DEF ClaimAnswerLost, RunShape
    <2> QED
        BY <1>11, <2>1, <2>2, <2>3 DEF ClaimAnswerLost, TakeRows, EndRun, Due
<1>12. ASSUME LockDrops PROVE LockShape'
    BY <1>12 DEF LockDrops
<1>13. ASSUME Tick PROVE LockShape'
    BY <1>13 DEF Tick
<1>14. ASSUME UNCHANGED outboxVars PROVE LockShape'
    BY <1>14 DEF outboxVars
<1> QED
    BY <1>1, <1>2, <1>3, <1>4, <1>5, <1>6, <1>7, <1>8, <1>9, <1>10, <1>11, <1>12, <1>13, <1>14
    DEF OutboxNext, RunStep, Fault

LEMMA LeaseStep ==
    LeaseCoversRow /\ OutboxTypeOK /\ RunShape /\ LockShape /\ LeaseKeepsRows
        /\ [OutboxNext]_outboxVars => LeaseKeepsRows'
<1> SUFFICES ASSUME LeaseCoversRow, OutboxTypeOK, RunShape, LockShape, LeaseKeepsRows,
                    [OutboxNext]_outboxVars
             PROVE  LeaseKeepsRows'
    OBVIOUS
<1> USE DEF OutboxTypeOK, LeaseKeepsRows, Handling, rowVars, runVars
<1>1. ASSUME NEW x \in Rows, Enqueue(x) PROVE LeaseKeepsRows'
    BY <1>1 DEF Enqueue
<1>2. ASSUME NEW x \in Rows, AdminRequeue(x) PROVE LeaseKeepsRows'
    BY <1>2 DEF AdminRequeue, LockShape
<1>3. ASSUME NEW r \in Replicas, Begin(r) PROVE LeaseKeepsRows'
    BY <1>3 DEF Begin, RunShape
<1>4. ASSUME NEW r \in Replicas, ReleaseStale(r) PROVE LeaseKeepsRows'
    <2>1. ASSUME NEW q \in Replicas, NEW x \in batch'[q]
          PROVE  \/ elapsed'[q] = LeaseSeconds
                 \/ lockedBy'[x] = q /\ lease'[x] + elapsed'[q] >= LeaseSeconds
        <3>1. x \in batch[q] /\ x \in Rows
            BY <1>4, <2>1 DEF ReleaseStale
        <3>2. /\ lease[x] \in 0..LeaseSeconds /\ elapsed[q] \in 0..LeaseSeconds
              /\ lease'[x] = lease[x] /\ elapsed'[q] = elapsed[q]
              /\ lockedBy'[x] = IF IsStale(x) THEN NoRun ELSE lockedBy[x]
            BY <1>4, <3>1 DEF ReleaseStale
        <3>3. \/ elapsed[q] = LeaseSeconds
              \/ lockedBy[x] = q /\ lease[x] + elapsed[q] >= LeaseSeconds
            BY <3>1
        <3> HIDE DEF OutboxTypeOK, LeaseKeepsRows
        <3>4. CASE IsStale(x)
            <4>1. lease[x] = 0
                BY <3>4 DEF IsStale
            <4>2. elapsed[q] = LeaseSeconds
                BY <3>2, <3>3, <4>1
            <4> QED
                BY <3>2, <4>2
        <3>5. CASE ~IsStale(x)
            BY <3>2, <3>3, <3>5
        <3> QED
            BY <3>4, <3>5
    <2>2. \A q \in Replicas : Handling(q)' => Handling(q)
        BY <1>4 DEF ReleaseStale
    <2>3. elapsed' = elapsed /\ inRow' = inRow
        BY <1>4 DEF ReleaseStale
    <2> QED
        BY <2>1, <2>2, <2>3
<1>5. ASSUME NEW r \in Replicas, Claim(r) PROVE LeaseKeepsRows'
    <2>1. PICK S \in FirstDue(Room(r)) : Claim(r)!3!(S)
        BY <1>5 DEF Claim
    <2>2. S \subseteq Due
        BY <2>1, ClaimedRows
    <2>3. \A x \in S : lockedBy[x] = NoRun
        BY <2>2 DEF Due, LockShape
    <2> QED
        BY <1>5, <2>1, <2>2, <2>3 DEF Claim, TakeRows, Due
<1>6. ASSUME NEW r \in Replicas, Finish(r) PROVE LeaseKeepsRows'
    BY <1>6 DEF Finish, EndRun
<1>7. ASSUME NEW r \in Replicas, HandBack(r) \/ Settle(r) PROVE LeaseKeepsRows'
    <2>1. PICK x \in batch[r] : RowSettled(r, x) /\ RowDealtWith(r, x)
        BY <1>7, RowLeaves
    <2>2. ASSUME NEW q \in Replicas, NEW y \in batch'[q]
          PROVE  \/ elapsed'[q] = LeaseSeconds
                 \/ lockedBy'[y] = q /\ lease'[y] + elapsed'[q] >= LeaseSeconds
        <3>1. y \in batch[q] /\ (q # r \/ y # x)
            BY <2>1, <2>2 DEF RowDealtWith
        <3>2. CASE elapsed[q] = LeaseSeconds
            BY <2>1, <3>2 DEF RowDealtWith
        <3>3. CASE lockedBy[y] = q /\ lease[y] + elapsed[q] >= LeaseSeconds
            BY <2>1, <3>1, <3>3 DEF RowDealtWith, RowSettled
        <3> QED
            BY <3>1, <3>2, <3>3
    <2>3. \A q \in Replicas : Handling(q)' => Handling(q) /\ q # r
        BY <2>1 DEF RowDealtWith
    <2> QED
        BY <2>1, <2>2, <2>3 DEF RowDealtWith
<1>8. ASSUME NEW r \in Replicas, BeginRow(r) PROVE LeaseKeepsRows'
    BY <1>8 DEF BeginRow
<1>9. ASSUME NEW r \in Replicas, NEW k \in Outcomes, HandlerReturns(r, k) PROVE LeaseKeepsRows'
    BY <1>9 DEF HandlerReturns
<1>10. ASSUME NEW r \in Replicas, Die(r) PROVE LeaseKeepsRows'
    BY <1>10 DEF Die, EndRun
<1>11. ASSUME NEW r \in Replicas, ClaimAnswerLost(r) PROVE LeaseKeepsRows'
    <2>1. PICK S \in FirstDue(Room(r)) : TakeRows(DeadRun, S)
        BY <1>11 DEF ClaimAnswerLost
    <2>2. \A x \in S : lockedBy[x] = NoRun
        BY <2>1, ClaimedRows DEF Due, LockShape
    <2> QED
        BY <1>11, <2>1, <2>2 DEF ClaimAnswerLost, TakeRows, EndRun
<1>12. ASSUME LockDrops PROVE LeaseKeepsRows'
    BY <1>12 DEF LockDrops
<1>13. ASSUME Tick PROVE LeaseKeepsRows'
    <2>1. ASSUME NEW q \in Replicas, Handling(q)'
          PROVE  elapsed'[q] < MaxSeconds + inRow'[q] /\ inRow'[q] <= RowSeconds
        <3>1. Handling(q) /\ inRow[q] < RowSeconds
            BY <1>13, <2>1 DEF Tick
        <3>2. inRow'[q] = inRow[q] + 1 /\ elapsed'[q] <= elapsed[q] + 1
            BY <1>13, <3>1 DEF Tick
        <3> QED
            BY <1>13, <3>1, <3>2 DEF Tick
    <2>2. ASSUME NEW q \in Replicas, NEW x \in batch'[q]
          PROVE  \/ elapsed'[q] = LeaseSeconds
                 \/ lockedBy'[x] = q /\ lease'[x] + elapsed'[q] >= LeaseSeconds
        <3>1. x \in batch[q] /\ x \in Rows /\ Live(q)
            BY <1>13, <2>2 DEF Tick, RunShape, Live
        <3>2. lockedBy'[x] = lockedBy[x]
            BY <1>13 DEF Tick
        <3>3. elapsed'[q] = IF elapsed[q] < LeaseSeconds THEN elapsed[q] + 1 ELSE elapsed[q]
            BY <1>13, <3>1 DEF Tick
        <3>4. lease'[x] >= lease[x] - 1
            BY <1>13, <3>1 DEF Tick
        <3>5. \/ elapsed[q] = LeaseSeconds
              \/ lockedBy[x] = q /\ lease[x] + elapsed[q] >= LeaseSeconds
            BY <3>1
        <3>6. /\ lease[x] \in Int /\ lease'[x] \in Int
              /\ elapsed[q] \in 0..LeaseSeconds
            BY <1>13, <3>1 DEF Tick
        <3> HIDE DEF OutboxTypeOK, LeaseKeepsRows
        <3>7. CASE elapsed[q] = LeaseSeconds
            BY <3>3, <3>7
        <3>8. CASE elapsed[q] # LeaseSeconds
            <4>1. elapsed[q] < LeaseSeconds
                BY <3>6, <3>8
            <4>2. elapsed'[q] = elapsed[q] + 1
                BY <3>3, <4>1
            <4> QED
                BY <3>2, <3>4, <3>5, <3>6, <3>8, <4>2
        <3> QED
            BY <3>7, <3>8
    <2> QED
        BY <2>1, <2>2
<1>14. ASSUME UNCHANGED outboxVars PROVE LeaseKeepsRows'
    BY <1>14 DEF outboxVars
<1> QED
    BY <1>1, <1>2, <1>3, <1>4, <1>5, <1>6, <1>7, <1>8, <1>9, <1>10, <1>11, <1>12, <1>13, <1>14
    DEF OutboxNext, RunStep, Fault

LEMMA LockStep ==
    ~LockMayDrop /\ OutboxTypeOK /\ RunShape /\ LockShape /\ LockKeepsRows
        /\ [OutboxNext]_outboxVars => LockKeepsRows'
<1> SUFFICES ASSUME ~LockMayDrop, OutboxTypeOK, RunShape, LockShape, LockKeepsRows,
                    [OutboxNext]_outboxVars
             PROVE  LockKeepsRows'
    OBVIOUS
<1> USE DEF OutboxTypeOK, LockKeepsRows, Live, rowVars, runVars
<1>1. ASSUME NEW x \in Rows, Enqueue(x) \/ AdminRequeue(x) PROVE LockKeepsRows'
    <2>1. CASE Enqueue(x)
        BY <2>1 DEF Enqueue
    <2>2. CASE AdminRequeue(x)
        BY <2>2 DEF AdminRequeue, LockShape
    <2> QED
        BY <1>1, <2>1, <2>2
<1>2. ASSUME NEW r \in Replicas, Begin(r) PROVE LockKeepsRows'
    BY <1>2 DEF Begin
<1>3. ASSUME NEW r \in Replicas, ReleaseStale(r) PROVE LockKeepsRows'
    BY <1>3 DEF ReleaseStale, RunShape
<1>4. ASSUME NEW r \in Replicas, Claim(r) PROVE LockKeepsRows'
    <2>1. PICK S \in FirstDue(Room(r)) : Claim(r)!3!(S)
        BY <1>4 DEF Claim
    <2>2. S \subseteq Due
        BY <2>1, ClaimedRows
    <2> QED
        BY <1>4, <2>1, <2>2 DEF Claim, TakeRows, Due, RunShape
<1>5. ASSUME NEW r \in Replicas, Finish(r) PROVE LockKeepsRows'
    BY <1>5 DEF Finish, EndRun
<1>6. ASSUME NEW r \in Replicas, HandBack(r) \/ Settle(r) PROVE LockKeepsRows'
    <2>1. PICK x \in batch[r] : RowSettled(r, x) /\ RowDealtWith(r, x)
        BY <1>6, RowLeaves
    <2>2. ASSUME NEW q \in Replicas, NEW y \in batch'[q] PROVE lockedBy'[y] = q
        BY <2>1, <2>2 DEF RowDealtWith, RowSettled
    <2>3. phase[r] # "idle" /\ \A q \in Replicas : q # r => phase'[q] = phase[q]
        BY <1>6, <2>1 DEF HandBack, Settle, RowDealtWith
    <2> QED
        BY <2>1, <2>2, <2>3 DEF RowDealtWith
<1>7. ASSUME NEW r \in Replicas, BeginRow(r) PROVE LockKeepsRows'
    BY <1>7 DEF BeginRow
<1>8. ASSUME NEW r \in Replicas, NEW k \in Outcomes, HandlerReturns(r, k) PROVE LockKeepsRows'
    BY <1>8 DEF HandlerReturns, Handling
<1>9. ASSUME NEW r \in Replicas, Die(r) PROVE LockKeepsRows'
    BY <1>9 DEF Die, EndRun
<1>10. ASSUME NEW r \in Replicas, ClaimAnswerLost(r) PROVE LockKeepsRows'
    <2>1. PICK S \in FirstDue(Room(r)) : TakeRows(DeadRun, S)
        BY <1>10 DEF ClaimAnswerLost
    <2>2. \A x \in S : lockedBy[x] = NoRun
        BY <2>1, ClaimedRows DEF Due, LockShape
    <2> QED
        BY <1>10, <2>1, <2>2 DEF ClaimAnswerLost, TakeRows, EndRun
<1>11. ASSUME LockDrops PROVE LockKeepsRows'
    BY <1>11 DEF LockDrops
<1>12. ASSUME Tick \/ UNCHANGED outboxVars PROVE LockKeepsRows'
    BY <1>12 DEF Tick, outboxVars
<1> QED
    BY <1>1, <1>2, <1>3, <1>4, <1>5, <1>6, <1>7, <1>8, <1>9, <1>10, <1>11, <1>12
    DEF OutboxNext, RunStep, Fault

-----------------------------------------------------------------------------
LEMMA InvStep == OutboxInv /\ [OutboxNext]_outboxVars => OutboxInv'
BY TypeStep, RunShapeStep, LockShapeStep, LeaseStep, LockStep DEF OutboxInv, LeaseCoversRow

LEMMA InvHolds == OutboxInv /\ Defended => HandlerHoldsRow
<1> SUFFICES ASSUME OutboxInv, Defended, NEW r \in Replicas, Handling(r)
             PROVE  /\ status[current[r]] = "IN_PROGRESS"
                    /\ lockedBy[current[r]] = r
                    /\ attempts[current[r]] = got[r][current[r]]
    BY DEF HandlerHoldsRow
<1>1. current[r] \in batch[r] /\ current[r] \in Rows
    BY DEF OutboxInv, OutboxTypeOK, RunShape, Handling
<1>2. lockedBy[current[r]] = r
    <2>1. CASE LeaseCoversRow
        <3>1. LeaseKeepsRows /\ OutboxTypeOK
            BY <2>1 DEF OutboxInv
        <3>2. elapsed[r] < MaxSeconds + inRow[r] /\ inRow[r] <= RowSeconds
            BY <3>1 DEF LeaseKeepsRows
        <3>3. elapsed[r] # LeaseSeconds
            BY <2>1, <3>1, <3>2 DEF LeaseCoversRow, OutboxTypeOK
        <3> QED
            BY <1>1, <3>1, <3>3 DEF LeaseKeepsRows
    <2>2. CASE ~LockMayDrop
        BY <1>1, <2>2 DEF OutboxInv, LockKeepsRows
    <2> QED
        BY <2>1, <2>2 DEF Defended
<1> QED
    BY <1>1, <1>2 DEF OutboxInv, LockShape

\* The outbox and the runs keep their types.
THEOREM OutboxTyped == OutboxSpec => []OutboxTypeOK
<1>1. OutboxSpec => []OutboxInv
    BY InitInv, InvStep, PTL DEF OutboxSpec
<1>2. OutboxInv => OutboxTypeOK
    BY DEF OutboxInv
<1> QED
    BY <1>1, <1>2, PTL

\* However many rows and replicas there are, whatever the tuning, and whichever runs die: a
\* run that handles a row holds it, as long as one of the two defences is in force.
THEOREM OutboxHandlersHold ==
    ASSUME Defended
    PROVE  OutboxSpec => []HandlerHoldsRow
<1>1. OutboxSpec => []OutboxInv
    BY InitInv, InvStep, PTL DEF OutboxSpec
<1>2. OutboxInv => HandlerHoldsRow
    BY InvHolds
<1> QED
    BY <1>1, <1>2, PTL

-----------------------------------------------------------------------------
(***************************************************************************)
(* The runs over the outbox implement Deliveries: what a handler, and      *)
(* Publishing, may rely on holds of every OutboxRuns.                      *)
(***************************************************************************)

\* A run has a current row only while it handles or settles it, and it claims no row that
\* was never written.
DeliveryShape ==
    /\ \A r \in Replicas : phase[r] \notin {"handling", "settling"} => current[r] = NoRow
    /\ \A r \in Replicas : \A x \in batch[r] : status[x] # "ABSENT"

DeliveryInv == OutboxInv /\ DeliveryShape

LEMMA DeliveryShapeInit == OutboxInit => DeliveryShape
BY DEF OutboxInit, DeliveryShape

LEMMA DeliveryShapeStep ==
    OutboxInv /\ DeliveryShape /\ [OutboxNext]_outboxVars => DeliveryShape'
<1> SUFFICES ASSUME OutboxTypeOK, RunShape, LockShape, DeliveryShape, [OutboxNext]_outboxVars
             PROVE  DeliveryShape'
    BY DEF OutboxInv
<1> USE DEF OutboxTypeOK, DeliveryShape, rowVars, runVars
<1>1. ASSUME NEW x \in Rows, Enqueue(x) \/ AdminRequeue(x) PROVE DeliveryShape'
    <2>1. status' = [status EXCEPT ![x] = "PENDING"] /\ UNCHANGED <<phase, batch, current>>
        BY <1>1 DEF Enqueue, AdminRequeue
    <2> QED
        BY <2>1
<1>2. ASSUME NEW r \in Replicas, Begin(r) \/ ReleaseStale(r) PROVE DeliveryShape'
    BY <1>2 DEF Begin, ReleaseStale
<1>3. ASSUME NEW r \in Replicas, Claim(r) PROVE DeliveryShape'
    <2>1. PICK S \in FirstDue(Room(r)) : Claim(r)!3!(S)
        BY <1>3 DEF Claim
    <2>2. S \subseteq Rows
        BY <2>1, ClaimedRows DEF Due
    <2> QED
        BY <1>3, <2>1, <2>2 DEF Claim, TakeRows
<1>4. ASSUME NEW r \in Replicas, Finish(r) \/ Die(r) PROVE DeliveryShape'
    BY <1>4 DEF Finish, Die, EndRun
<1>5. ASSUME NEW r \in Replicas, ClaimAnswerLost(r) PROVE DeliveryShape'
    <2>1. PICK S \in FirstDue(Room(r)) : TakeRows(DeadRun, S)
        BY <1>5 DEF ClaimAnswerLost
    <2> QED
        BY <1>5, <2>1 DEF ClaimAnswerLost, TakeRows, EndRun
<1>6. ASSUME NEW r \in Replicas, HandBack(r) \/ Settle(r) PROVE DeliveryShape'
    <2>1. PICK x \in batch[r] : RowSettled(r, x) /\ RowDealtWith(r, x)
        BY <1>6, RowLeaves
    <2>2. ASSUME NEW q \in Replicas, NEW y \in batch'[q] PROVE status'[y] # "ABSENT"
        <3>1. y \in batch[q] /\ y \in Rows /\ status[y] # "ABSENT"
            BY <2>1, <2>2 DEF RowDealtWith
        <3> QED
            BY <2>1, <3>1 DEF RowSettled
    <2> QED
        BY <2>1, <2>2 DEF RowDealtWith
<1>7. ASSUME NEW r \in Replicas, BeginRow(r) PROVE DeliveryShape'
    BY <1>7 DEF BeginRow
<1>8. ASSUME NEW r \in Replicas, NEW k \in Outcomes, HandlerReturns(r, k) PROVE DeliveryShape'
    BY <1>8 DEF HandlerReturns, Handling
<1>9. ASSUME LockDrops \/ Tick \/ UNCHANGED outboxVars PROVE DeliveryShape'
    BY <1>9 DEF LockDrops, Tick, outboxVars
<1> QED
    BY <1>1, <1>2, <1>3, <1>4, <1>5, <1>6, <1>7, <1>8, <1>9 DEF OutboxNext, RunStep, Fault

-----------------------------------------------------------------------------
LEMMA DeliveryInitMaps == OutboxInit => Delivered!DeliveryInit
BY DEF OutboxInit, Delivered!DeliveryInit, Queue, Settling

\* While a defence is in force, the run that holds the lock of a row and has not begun, or
\* has ended, its work on it knows that no other run is at work on it.
LEMMA NobodyElse ==
    ASSUME DeliveryInv, Defended, NEW r \in Replicas, NEW x \in Rows,
           lockedBy[x] = r, ~Handling(r)
    PROVE  \A v \in Replicas : ~Delivered!WorksOn(v, x)
<1> SUFFICES ASSUME NEW v \in Replicas, current[v] = x, v \notin Settling
             PROVE  FALSE
    BY DEF Delivered!WorksOn
<1>1. Handling(v)
    BY RowsAssumption DEF DeliveryInv, DeliveryShape, Settling, Handling, NoRow
<1>2. lockedBy[x] = v
    BY <1>1, InvHolds DEF DeliveryInv, HandlerHoldsRow
<1> QED
    BY <1>1, <1>2

\* A run that begins a row of its batch holds the row's lock.
LEMMA BeginsLocked ==
    ASSUME OutboxInv, Defended, NEW r \in Replicas, NEW x \in batch[r],
           phase[r] = "batch", elapsed[r] < MaxSeconds
    PROVE  lockedBy[x] = r
<1>1. CASE LeaseCoversRow
    <2>1. elapsed[r] # LeaseSeconds
        BY <1>1 DEF OutboxInv, OutboxTypeOK, LeaseCoversRow
    <2> QED
        BY <1>1, <2>1 DEF OutboxInv, LeaseKeepsRows
<1>2. CASE ~LockMayDrop
    BY <1>2 DEF OutboxInv, LockKeepsRows
<1> QED
    BY <1>1, <1>2 DEF Defended

LEMMA DeliveryStep ==
    DeliveryInv /\ [OutboxNext]_outboxVars => [Delivered!DeliveryNext]_(Delivered!deliveryVars)
<1> DEFINE Same == Queue' = Queue /\ current' = current /\ Settling' = Settling
<1> SUFFICES ASSUME DeliveryInv, [OutboxNext]_outboxVars
             PROVE  Delivered!DeliveryNext \/ Same
    BY DEF Delivered!deliveryVars
<1> USE DEF OutboxTypeOK, rowVars, runVars
<1>0. OutboxTypeOK /\ RunShape /\ LockShape /\ DeliveryShape /\ 0 \notin Rows
    BY RowsAssumption DEF DeliveryInv, OutboxInv
<1>1. ASSUME NEW x \in Rows, Enqueue(x) PROVE Delivered!Write(x)
    BY <1>0, <1>1 DEF Enqueue, Delivered!Write, Queue, Settling
<1>2. ASSUME NEW x \in Rows, AdminRequeue(x) PROVE Delivered!PutBack(x)
    BY <1>0, <1>2 DEF AdminRequeue, Delivered!PutBack, Queue, Settling
<1>3. ASSUME NEW r \in Replicas, Begin(r) PROVE Same
    BY <1>0, <1>3 DEF Begin, Queue, Settling
<1>4. ASSUME NEW r \in Replicas, ReleaseStale(r) PROVE Same
    BY <1>0, <1>4 DEF ReleaseStale, IsStale, Queue, Settling
<1>5. ASSUME NEW r \in Replicas, Claim(r) PROVE Same
    <2>1. PICK S \in FirstDue(Room(r)) : TakeRows(r, S)
        BY <1>5 DEF Claim
    <2>2. S \subseteq Due
        BY <2>1, ClaimedRows
    <2> QED
        BY <1>0, <1>5, <2>1, <2>2 DEF Claim, TakeRows, Due, Queue, Settling
<1>6. ASSUME NEW r \in Replicas, Finish(r) \/ Die(r) PROVE Delivered!Drop(r)
    BY <1>0, <1>6 DEF Finish, Die, EndRun, Delivered!Drop, Queue, Settling
<1>7. ASSUME NEW r \in Replicas, ClaimAnswerLost(r) PROVE Delivered!Drop(r)
    <2>1. PICK S \in FirstDue(Room(r)) : TakeRows(DeadRun, S)
        BY <1>7 DEF ClaimAnswerLost
    <2>2. S \subseteq Due
        BY <2>1, ClaimedRows
    <2> QED
        BY <1>0, <1>7, <2>1, <2>2
        DEF ClaimAnswerLost, TakeRows, EndRun, Due, Delivered!Drop, Queue, Settling
<1>8. ASSUME NEW r \in Replicas, HandBack(r) PROVE Delivered!Drop(r)
    <2>1. PICK x \in batch[r] : Requeue(r, x, 0, FALSE) /\ RowDealtWith(r, x)
        BY <1>8 DEF HandBack
    <2>2. x \in Rows
        BY <1>0
    <2>3. Queue' = Queue
        BY <1>0, <2>1, <2>2 DEF Requeue, HoldsLock, LockShape, Queue
    <2> QED
        BY <1>0, <1>8, <2>1, <2>3 DEF HandBack, RowDealtWith, Delivered!Drop, Settling
<1>9. ASSUME NEW r \in Replicas, BeginRow(r) PROVE \E x \in Rows : Delivered!Deliver(r, x)
    <2>1. PICK x \in batch[r] : current' = [current EXCEPT ![r] = x]
        BY <1>9 DEF BeginRow
    <2>2. x \in Rows /\ current[r] = NoRow /\ Queue[x] # "ABSENT"
        BY <1>0, <1>9 DEF BeginRow, DeliveryShape, Queue
    <2>3. Queue' = Queue /\ Settling' = Settling
        BY <1>0, <1>9 DEF BeginRow, Queue, Settling
    <2>4. ASSUME Defended
          PROVE  Queue[x] = "QUEUED" /\ \A v \in Replicas : ~Delivered!WorksOn(v, x)
        <3>1. lockedBy[x] = r
            BY <1>9, <2>4, BeginsLocked DEF BeginRow, DeliveryInv
        <3>2. status[x] = "IN_PROGRESS"
            BY <1>0, <2>2, <3>1 DEF LockShape
        <3> QED
            BY <1>9, <2>2, <2>4, <3>1, <3>2, NobodyElse DEF BeginRow, Handling, Queue
    <2> QED
        BY <2>1, <2>2, <2>3, <2>4 DEF Delivered!Deliver
<1>10. ASSUME NEW r \in Replicas, NEW k \in Outcomes, HandlerReturns(r, k)
       PROVE  Delivered!Answer(r)
    BY <1>0, <1>10 DEF HandlerReturns, Handling, RunShape, NoRow, Delivered!Answer, Queue, Settling
<1>11. ASSUME NEW r \in Replicas, Settle(r)
       PROVE  \E k \in Delivered!Settlements : Delivered!SettleAs(r, k)
    <2> DEFINE x == current[r]
    <2>1. x \in Rows /\ r \in Settling /\ ~Handling(r)
        BY <1>0, <1>11 DEF Settle, RunShape, Settling, Handling
    <2>2. current' = [current EXCEPT ![r] = NoRow] /\ Settling' = Settling \ {r}
        BY <1>0, <1>11 DEF Settle, RowDealtWith, Settling
    <2>3. RowSettled(r, x)
        BY <1>0, <1>11, <2>1, StatementSettles DEF Settle
    <2>4. CASE lockedBy[x] # r
        <3>1. Queue' = Queue
            BY <2>3, <2>4 DEF RowSettled, Queue
        <3> QED
            BY <2>1, <2>2, <3>1 DEF Delivered!SettleAs, Delivered!Settlements
    <2>5. CASE lockedBy[x] = r
        <3>1. PICK k \in Delivered!Settlements : Queue' = [Queue EXCEPT ![x] = k]
            <4>1. \A y \in Rows : y # x => Queue'[y] = Queue[y]
                BY <2>3 DEF RowSettled, Queue
            <4>2. Queue'[x] \in Delivered!Settlements
                BY <2>1, <2>3, <2>5 DEF RowSettled, Queue, Delivered!Settlements
            <4>3. Queue' = [Queue EXCEPT ![x] = Queue'[x]]
                BY <4>1 DEF Queue
            <4> QED
                BY <4>2, <4>3
        <3>2. Queue[x] = "QUEUED"
            BY <1>0, <2>1, <2>5 DEF LockShape, Queue
        <3>3. Defended => \A v \in Replicas : ~Delivered!WorksOn(v, x)
            BY <2>1, <2>5, NobodyElse
        <3> QED
            BY <2>1, <2>2, <3>1, <3>2, <3>3 DEF Delivered!SettleAs
    <2> QED
        BY <2>4, <2>5
<1>12. ASSUME LockDrops \/ Tick \/ UNCHANGED outboxVars PROVE Same
    BY <1>0, <1>12 DEF LockDrops, Tick, outboxVars, Queue, Settling
<1> QED
    BY <1>1, <1>2, <1>3, <1>4, <1>5, <1>6, <1>7, <1>8, <1>9, <1>10, <1>11, <1>12
    DEF OutboxNext, RunStep, Fault, Delivered!DeliveryNext

\* Whatever the constants are, the runs deliver each queued row until it is settled, keep a
\* settled row settled, and, with one of the two defences, deliver it to one run at a time.
THEOREM OutboxDelivers == OutboxSpec => ImplementsDeliveries
<1>1. OutboxInit => DeliveryInv
    BY InitInv, DeliveryShapeInit DEF DeliveryInv
<1>2. DeliveryInv /\ [OutboxNext]_outboxVars => DeliveryInv'
    BY InvStep, DeliveryShapeStep DEF DeliveryInv
<1> QED
    BY <1>1, <1>2, DeliveryInitMaps, DeliveryStep, PTL
    DEF OutboxSpec, ImplementsDeliveries, Delivered!DeliverySpec

-----------------------------------------------------------------------------
(***************************************************************************)
(* The retry budget.  A fault costs a row one attempt at most: the run it  *)
(* hits dies with the row, or loses its advisory lock and later takes or   *)
(* releases the row behind the back of the next run.                       *)
(***************************************************************************)

\* The runs that go on without the advisory lock.
Lost == {r \in Replicas : Live(r) /\ runLock # r}

\* Those that may still cost row x an attempt.
Owing(x) == {r \in Lost : lockedBy[x] # r /\ (phase[r] = "starting" \/ elapsed[r] < LeaseSeconds)}

\* The run that holds the advisory lock has claimed row x.
UnderLock(x) == runLock # NoRun /\ lockedBy[x] = runLock

\* The attempts row x may count.
Allowed(x) == IF UnderLock(x) THEN MaxAttempts + faults ELSE MaxAttempts - 1 + faults

\* Every run without the lock lost it by a fault.
LostShape == IsFiniteSet(Lost) /\ Cardinality(Lost) <= faults

\* The lease of a row ends no earlier than the lease time of the run that claimed it, and
\* of every run that began before that one.
LeasesOutlast ==
    \A r \in Replicas, x \in Rows :
        lockedBy[x] = r \/ (r \in Lost /\ UnderLock(x)) => elapsed[r] + lease[x] >= LeaseSeconds

RowInBudget(x) ==
    /\ attempts[x] <= MaxAttempts + faults
    /\ status[x] \in {"ABSENT", "PENDING", "IN_PROGRESS"}
        => attempts[x] + Cardinality(Owing(x)) <= Allowed(x)

BudgetInv ==
    /\ OutboxTypeOK /\ RunShape /\ LockShape
    /\ LostShape
    /\ LeasesOutlast
    /\ \A x \in Rows : RowInBudget(x)

LEMMA BudgetInit == OutboxInit => BudgetInv
<1> SUFFICES ASSUME OutboxInit PROVE BudgetInv
    OBVIOUS
<1>1. OutboxTypeOK /\ RunShape /\ LockShape
    BY InitInv DEF OutboxInv
<1>2. Lost = {} /\ \A x \in Rows : Owing(x) = {}
    BY DEF OutboxInit, Lost, Owing, Live
<1>3. \A x \in Rows : attempts[x] = 0 /\ ~UnderLock(x)
    BY DEF OutboxInit, UnderLock
<1>4. faults = 0 /\ \A x \in Rows : lockedBy[x] = NoRun
    BY DEF OutboxInit
<1> QED
    BY <1>1, <1>2, <1>3, <1>4, FS_EmptySet DEF BudgetInv, LostShape, LeasesOutlast, RowInBudget, Allowed

\* How the runs without the lock may change, and what that means for their number.
LEMMA LostChanges ==
    ASSUME LostShape, OutboxTypeOK, OutboxTypeOK',
           \/ Lost' \subseteq Lost /\ faults' >= faults
           \/ \E r : Lost' \subseteq Lost \cup {r} /\ faults' = faults + 1
    PROVE  LostShape'
<1>1. Cardinality(Lost) \in Nat /\ faults \in Nat /\ faults' \in Nat
    BY FS_CardinalityType DEF LostShape, OutboxTypeOK
<1>2. CASE Lost' \subseteq Lost /\ faults' >= faults
    BY <1>1, <1>2, FS_Subset, FS_CardinalityType DEF LostShape
<1>3. ASSUME NEW r, Lost' \subseteq Lost \cup {r}, faults' = faults + 1
      PROVE  LostShape'
    <2>1. IsFiniteSet(Lost \cup {r}) /\ Cardinality(Lost \cup {r}) <= faults + 1
        <3>1. IsFiniteSet(Lost) /\ Cardinality(Lost) <= faults
            BY DEF LostShape
        <3>2. /\ IsFiniteSet(Lost \cup {r})
              /\ Cardinality(Lost \cup {r})
                     = IF r \in Lost THEN Cardinality(Lost) ELSE Cardinality(Lost) + 1
            BY <3>1, FS_AddElement
        <3> QED
            BY <1>1, <3>1, <3>2
    <2>2. IsFiniteSet(Lost') /\ Cardinality(Lost') <= Cardinality(Lost \cup {r})
        BY <1>3, <2>1, FS_Subset
    <2> QED
        BY <1>1, <1>3, <2>1, <2>2, FS_CardinalityType DEF LostShape
<1> QED
    BY <1>2, <1>3

LEMMA LostStep ==
    OutboxTypeOK /\ OutboxTypeOK' /\ LostShape /\ [OutboxNext]_outboxVars => LostShape'
<1> SUFFICES ASSUME OutboxTypeOK, OutboxTypeOK', LostShape, [OutboxNext]_outboxVars PROVE LostShape'
    OBVIOUS
<1>0. faults \in Nat /\ phase \in [Replicas -> Phases]
    BY DEF OutboxTypeOK
<1>1. CASE LockDrops
    <2>1. Lost' \subseteq Lost \cup {runLock} /\ faults' = faults + 1
        BY <1>1 DEF LockDrops, runVars, Lost, Live
    <2> QED
        BY <2>1, LostChanges
<1>2. ASSUME ~LockDrops PROVE Lost' \subseteq Lost /\ faults' >= faults
    <2>1. ASSUME NEW x \in Rows, Enqueue(x) \/ AdminRequeue(x)
          PROVE  Lost' \subseteq Lost /\ faults' >= faults
        BY <1>0, <2>1 DEF Enqueue, AdminRequeue, runVars, Lost, Live
    <2>2. ASSUME NEW r \in Replicas, Begin(r) \/ ReleaseStale(r) \/ Claim(r) \/ BeginRow(r)
          PROVE  Lost' \subseteq Lost /\ faults' >= faults
        BY <1>0, <2>2 DEF Begin, ReleaseStale, Claim, BeginRow, Lost, Live
    <2>3. ASSUME NEW r \in Replicas, Finish(r) \/ Die(r) \/ ClaimAnswerLost(r)
          PROVE  Lost' \subseteq Lost /\ faults' >= faults
        BY <1>0, <2>3 DEF Finish, Die, ClaimAnswerLost, EndRun, Lost, Live
    <2>4. ASSUME NEW r \in Replicas, HandBack(r) \/ Settle(r)
          PROVE  Lost' \subseteq Lost /\ faults' >= faults
        <3>1. phase[r] \in {"batch", "settling"} /\ \E x : RowDealtWith(r, x)
            BY <2>4 DEF HandBack, Settle
        <3>2. runLock' = runLock /\ faults' = faults /\ \A q \in Replicas : Live(q)' => Live(q)
            BY <1>0, <3>1 DEF RowDealtWith, Live
        <3> QED
            BY <1>0, <3>2 DEF Lost
    <2>5. ASSUME NEW r \in Replicas, NEW k \in Outcomes, HandlerReturns(r, k)
          PROVE  Lost' \subseteq Lost /\ faults' >= faults
        BY <1>0, <2>5 DEF HandlerReturns, Handling, Lost, Live
    <2>6. ASSUME Tick \/ UNCHANGED outboxVars
          PROVE  Lost' \subseteq Lost /\ faults' >= faults
        BY <1>0, <2>6 DEF Tick, outboxVars, Lost, Live
    <2> QED
        BY <1>2, <2>1, <2>2, <2>3, <2>4, <2>5, <2>6 DEF OutboxNext, RunStep, Fault
<1> QED
    BY <1>1, <1>2, LostChanges

-----------------------------------------------------------------------------
LEMMA LeasesOutlastStep ==
    OutboxTypeOK /\ RunShape /\ LockShape /\ LeasesOutlast /\ [OutboxNext]_outboxVars
        => LeasesOutlast'
<1> SUFFICES ASSUME OutboxTypeOK, RunShape, LockShape, LeasesOutlast, [OutboxNext]_outboxVars,
                    NEW q \in Replicas, NEW y \in Rows,
                    lockedBy'[y] = q \/ (q \in Lost' /\ UnderLock(y)')
             PROVE  elapsed'[q] + lease'[y] >= LeaseSeconds
    BY DEF LeasesOutlast
<1> DEFINE Covered == lockedBy[y] = q \/ (q \in Lost /\ UnderLock(y))
<1>a. Covered => elapsed[q] + lease[y] >= LeaseSeconds
    BY DEF LeasesOutlast
<1>b. elapsed[q] \in 0..LeaseSeconds /\ lease[y] \in 0..LeaseSeconds
    BY DEF OutboxTypeOK
<1>c. lockedBy[y] = q => batch[q] # {}
    BY DEF LockShape
<1> USE DEF rowVars, runVars
<1>1. ASSUME NEW x \in Rows, Enqueue(x) \/ AdminRequeue(x)
      PROVE  elapsed'[q] + lease'[y] >= LeaseSeconds
    <2>1. UNCHANGED <<elapsed, lease, phase, runLock>> /\ (lockedBy'[y] # NoRun => lockedBy'[y] = lockedBy[y])
        BY <1>1 DEF Enqueue, AdminRequeue, OutboxTypeOK
    <2>2. Covered
        BY <2>1 DEF Lost, Live, UnderLock
    <2> QED
        BY <1>a, <2>1, <2>2
<1>2. ASSUME NEW r \in Replicas, Begin(r)
      PROVE  elapsed'[q] + lease'[y] >= LeaseSeconds
    <2>1. UNCHANGED <<elapsed, lease, lockedBy>> /\ runLock' = r /\ batch[r] = {}
        BY <1>2 DEF Begin, RunShape
    <2>2. lockedBy[y] # r
        BY <2>1 DEF LockShape
    <2>3. Covered
        BY <2>1, <2>2 DEF UnderLock
    <2> QED
        BY <1>a, <2>1, <2>3
<1>3. ASSUME NEW r \in Replicas, ReleaseStale(r)
      PROVE  elapsed'[q] + lease'[y] >= LeaseSeconds
    <2>1. /\ UNCHANGED <<elapsed, lease, runLock>>
          /\ lockedBy'[y] # NoRun => lockedBy'[y] = lockedBy[y]
          /\ q \in Lost' => q \in Lost
        BY <1>3 DEF ReleaseStale, Lost, Live, OutboxTypeOK
    <2>2. Covered
        BY <2>1 DEF UnderLock
    <2> QED
        BY <1>a, <2>1, <2>2
<1>4. ASSUME NEW r \in Replicas, Claim(r)
      PROVE  elapsed'[q] + lease'[y] >= LeaseSeconds
    <2>1. PICK S \in FirstDue(Room(r)) : TakeRows(r, S)
        BY <1>4 DEF Claim
    <2>2. elapsed' = elapsed /\ runLock' = runLock /\ (q \in Lost' => q \in Lost)
        BY <1>4 DEF Claim, Lost, Live, OutboxTypeOK
    <2>3. CASE y \in S
        BY <1>b, <2>1, <2>2, <2>3 DEF TakeRows
    <2>4. CASE y \notin S
        <3>1. lease'[y] = lease[y] /\ lockedBy'[y] = lockedBy[y]
            BY <2>1, <2>4 DEF TakeRows
        <3> QED
            BY <1>a, <2>2, <3>1 DEF UnderLock
    <2> QED
        BY <2>3, <2>4
<1>5. ASSUME NEW r \in Replicas, Finish(r)
      PROVE  elapsed'[q] + lease'[y] >= LeaseSeconds
    <2>1. /\ UNCHANGED <<lease, lockedBy>> /\ batch[r] = {}
          /\ q \in Lost' => q \in Lost /\ q # r
          /\ UnderLock(y)' => UnderLock(y)
          /\ q # r => elapsed'[q] = elapsed[q]
        BY <1>5 DEF Finish, EndRun, RunShape, Lost, Live, UnderLock, OutboxTypeOK
    <2>2. lockedBy[y] # r
        BY <2>1 DEF LockShape
    <2>3. Covered /\ q # r
        BY <2>1, <2>2
    <2> QED
        BY <1>a, <2>1, <2>3
<1>6. ASSUME NEW r \in Replicas, HandBack(r) \/ Settle(r)
      PROVE  elapsed'[q] + lease'[y] >= LeaseSeconds
    <2>1. PICK x \in batch[r] : RowSettled(r, x) /\ RowDealtWith(r, x)
        BY <1>6, RowLeaves
    <2>2. x \in Rows /\ UNCHANGED <<elapsed, runLock>>
        BY <2>1 DEF RowDealtWith, OutboxTypeOK
    <2>3. q \in Lost' => q \in Lost
        BY <1>6, <2>1 DEF HandBack, Settle, RowDealtWith, Lost, Live, OutboxTypeOK
    <2>4. lockedBy'[y] # NoRun => lockedBy'[y] = lockedBy[y] /\ lease'[y] = lease[y]
        BY <2>1, <2>2 DEF RowSettled
    <2>5. Covered /\ lease'[y] = lease[y]
        BY <2>2, <2>3, <2>4 DEF UnderLock
    <2> QED
        BY <1>a, <2>2, <2>5
<1>7. ASSUME NEW r \in Replicas, BeginRow(r) \/ \E k \in Outcomes : HandlerReturns(r, k)
      PROVE  elapsed'[q] + lease'[y] >= LeaseSeconds
    <2>1. UNCHANGED <<elapsed, lease, lockedBy, runLock>> /\ (q \in Lost' => q \in Lost)
        BY <1>7 DEF BeginRow, HandlerReturns, Handling, Lost, Live, OutboxTypeOK
    <2> QED
        BY <1>a, <2>1 DEF UnderLock
<1>8. ASSUME NEW r \in Replicas, Die(r)
      PROVE  elapsed'[q] + lease'[y] >= LeaseSeconds
    <2>1. /\ UNCHANGED lease
          /\ lockedBy'[y] = IF lockedBy[y] = r THEN DeadRun ELSE lockedBy[y]
          /\ q \in Lost' => q \in Lost /\ q # r
          /\ UnderLock(y)' => UnderLock(y)
          /\ q # r => elapsed'[q] = elapsed[q]
        BY <1>8 DEF Die, EndRun, Lost, Live, UnderLock, OutboxTypeOK
    <2> QED
        BY <1>a, <2>1
<1>9. ASSUME NEW r \in Replicas, ClaimAnswerLost(r)
      PROVE  elapsed'[q] + lease'[y] >= LeaseSeconds
    <2>1. PICK S \in FirstDue(Room(r)) : TakeRows(DeadRun, S)
        BY <1>9 DEF ClaimAnswerLost
    <2>2. /\ batch[r] = {}
          /\ q \in Lost' => q \in Lost /\ q # r
          /\ runLock' # NoRun => runLock' = runLock
          /\ q # r => elapsed'[q] = elapsed[q]
        BY <1>9 DEF ClaimAnswerLost, EndRun, RunShape, Lost, Live, OutboxTypeOK
    <2>3. y \notin S /\ lockedBy[y] # r
        BY <2>1, <2>2 DEF TakeRows, UnderLock, LockShape, OutboxTypeOK
    <2>4. lockedBy'[y] = lockedBy[y] /\ lease'[y] = lease[y]
        BY <2>1, <2>3 DEF TakeRows
    <2> QED
        BY <1>a, <2>2, <2>3, <2>4 DEF UnderLock
<1>10. ASSUME LockDrops
       PROVE  elapsed'[q] + lease'[y] >= LeaseSeconds
    BY <1>a, <1>10 DEF LockDrops, UnderLock
<1>11. ASSUME Tick
       PROVE  elapsed'[q] + lease'[y] >= LeaseSeconds
    <2>1. UNCHANGED <<lockedBy, phase, runLock, batch>>
        BY <1>11 DEF Tick
    <2>2. Covered /\ Live(q)
        BY <1>c, <2>1 DEF Lost, Live, UnderLock, RunShape
    <2>3. /\ elapsed'[q] = IF elapsed[q] < LeaseSeconds THEN elapsed[q] + 1 ELSE elapsed[q]
          /\ lease'[y] = IF lease[y] > 0 THEN lease[y] - 1 ELSE 0
        BY <1>11, <2>2 DEF Tick
    <2> QED
        BY <1>a, <1>b, <2>2, <2>3
<1>12. ASSUME UNCHANGED outboxVars
       PROVE  elapsed'[q] + lease'[y] >= LeaseSeconds
    BY <1>a, <1>12 DEF outboxVars, Lost, Live, UnderLock
<1> QED
    BY <1>1, <1>2, <1>3, <1>4, <1>5, <1>6, <1>7, <1>8, <1>9, <1>10, <1>11, <1>12
    DEF OutboxNext, RunStep, Fault

-----------------------------------------------------------------------------
\* How the debt of a row may change, and that its budget covers the change.
LEMMA DebtChanges ==
    ASSUME LostShape, OutboxTypeOK, NEW x
    PROVE  /\ IsFiniteSet(Owing(x)) /\ Cardinality(Owing(x)) \in Nat
           /\ Cardinality(Owing(x)) <= faults
           /\ Owing(x)' \subseteq Owing(x)
                => Cardinality(Owing(x)') \in Nat /\ Cardinality(Owing(x)') <= Cardinality(Owing(x))
           /\ \A r : Owing(x)' \subseteq Owing(x) \cup {r}
                => Cardinality(Owing(x)') \in Nat /\ Cardinality(Owing(x)') <= Cardinality(Owing(x)) + 1
           /\ \A r \in Owing(x) : Owing(x)' \subseteq Owing(x) \ {r}
                => Cardinality(Owing(x)') \in Nat /\ Cardinality(Owing(x)') <= Cardinality(Owing(x)) - 1
<1>1. Owing(x) \subseteq Lost /\ faults \in Nat
    BY DEF Owing, OutboxTypeOK
<1>2. IsFiniteSet(Owing(x)) /\ Cardinality(Owing(x)) <= Cardinality(Lost) /\ Cardinality(Lost) \in Nat
    BY <1>1, FS_Subset, FS_CardinalityType DEF LostShape
<1>3. Cardinality(Owing(x)) \in Nat
    BY <1>2, FS_CardinalityType
<1>4. Cardinality(Owing(x)) <= faults
    BY <1>1, <1>2, <1>3 DEF LostShape
<1>5. ASSUME NEW S, IsFiniteSet(S), NEW T, T \subseteq S
      PROVE  Cardinality(T) \in Nat /\ Cardinality(T) <= Cardinality(S)
    BY <1>5, FS_Subset, FS_CardinalityType
<1>6. ASSUME NEW r
      PROVE  /\ IsFiniteSet(Owing(x) \cup {r})
             /\ Cardinality(Owing(x) \cup {r}) <= Cardinality(Owing(x)) + 1
    <2>1. /\ IsFiniteSet(Owing(x) \cup {r})
          /\ Cardinality(Owing(x) \cup {r})
                = IF r \in Owing(x) THEN Cardinality(Owing(x)) ELSE Cardinality(Owing(x)) + 1
        BY <1>2, FS_AddElement
    <2> QED
        BY <1>3, <2>1
<1>7. ASSUME NEW r \in Owing(x)
      PROVE  /\ IsFiniteSet(Owing(x) \ {r})
             /\ Cardinality(Owing(x) \ {r}) = Cardinality(Owing(x)) - 1
    BY <1>2, FS_RemoveElement
<1>8. ASSUME NEW r, Owing(x)' \subseteq Owing(x) \cup {r}
      PROVE  Cardinality(Owing(x)') \in Nat /\ Cardinality(Owing(x)') <= Cardinality(Owing(x)) + 1
    <2>1. Cardinality(Owing(x)') \in Nat /\ Cardinality(Owing(x)') <= Cardinality(Owing(x) \cup {r})
        BY <1>5, <1>6, <1>8
    <2>2. Cardinality(Owing(x) \cup {r}) \in Nat
        BY <1>6, FS_CardinalityType
    <2>3. Cardinality(Owing(x) \cup {r}) <= Cardinality(Owing(x)) + 1
        BY <1>6
    <2> QED
        BY <1>3, <2>1, <2>2, <2>3
<1>9. ASSUME NEW r \in Owing(x), Owing(x)' \subseteq Owing(x) \ {r}
      PROVE  Cardinality(Owing(x)') \in Nat /\ Cardinality(Owing(x)') <= Cardinality(Owing(x)) - 1
    <2>1. Cardinality(Owing(x)') \in Nat /\ Cardinality(Owing(x)') <= Cardinality(Owing(x) \ {r})
        BY <1>5, <1>7, <1>9
    <2> QED
        BY <1>7, <2>1
<1> QED
    BY <1>2, <1>3, <1>4, <1>5, <1>8, <1>9

LEMMA RowBudgetStep ==
    BudgetInv /\ OutboxTypeOK' /\ LostShape' /\ [OutboxNext]_outboxVars
        => \A x \in Rows : RowInBudget(x)'
<1> SUFFICES ASSUME BudgetInv, OutboxTypeOK', LostShape', [OutboxNext]_outboxVars, NEW x \in Rows
             PROVE  RowInBudget(x)'
    OBVIOUS
<1> DEFINE Waits(s) == s \in {"ABSENT", "PENDING", "IN_PROGRESS"}
<1> DEFINE o == Cardinality(Owing(x))
<1> DEFINE p == Cardinality(Owing(x)')
<1> USE DEF rowVars, runVars
<1>0. OutboxTypeOK /\ RunShape /\ LockShape /\ LostShape /\ LeasesOutlast
    BY DEF BudgetInv
<1>a. /\ attempts[x] \in Nat /\ faults \in Nat /\ attempts'[x] \in Nat /\ faults' \in Nat
      /\ MaxAttempts \in Nat \ {0}
    BY <1>0 DEF OutboxTypeOK
<1>b. /\ attempts[x] <= MaxAttempts + faults
      /\ Waits(status[x]) => attempts[x] + o <= Allowed(x)
    BY DEF BudgetInv, RowInBudget
<1>c. /\ o \in Nat /\ o <= faults
      /\ Owing(x)' \subseteq Owing(x) => p \in Nat /\ p <= o
      /\ \A r : Owing(x)' \subseteq Owing(x) \cup {r} => p \in Nat /\ p <= o + 1
      /\ \A r \in Owing(x) : Owing(x)' \subseteq Owing(x) \ {r} => p \in Nat /\ p <= o - 1
    BY <1>0, DebtChanges
<1>d. p \in Nat /\ p <= faults'
    <2>1. Owing(x)' \subseteq Lost'
        BY DEF Owing
    <2>2. IsFiniteSet(Lost') /\ Cardinality(Lost') <= faults'
        BY DEF LostShape
    <2>3. p \in Nat /\ p <= Cardinality(Lost') /\ Cardinality(Lost') \in Nat
        BY <2>1, <2>2, FS_Subset, FS_CardinalityType
    <2> QED
        BY <1>a, <2>2, <2>3
<1>e. ASSUME attempts'[x] <= MaxAttempts + faults',
             Waits(status'[x]) => attempts'[x] + p <= Allowed(x)'
      PROVE  RowInBudget(x)'
    BY <1>e DEF RowInBudget
<1> HIDE DEF o, p
\* The row is left alone and no run begins to owe it.
<1>f. ASSUME Owing(x)' \subseteq Owing(x), attempts'[x] = attempts[x], faults' = faults,
             Waits(status'[x]) => Waits(status[x]), UnderLock(x) => UnderLock(x)'
      PROVE  RowInBudget(x)'
    <2>1. Waits(status[x]) => attempts'[x] + p <= Allowed(x)'
        BY <1>a, <1>b, <1>c, <1>f DEF Allowed
    <2> QED
        BY <1>a, <1>b, <1>e, <1>f, <2>1
<1>1. ASSUME NEW z \in Rows, Enqueue(z) PROVE RowInBudget(x)'
    <2>1. UNCHANGED <<attempts, faults, lockedBy, runLock, phase, elapsed>>
          /\ (Waits(status'[x]) => Waits(status[x]))
        BY <1>0, <1>1 DEF Enqueue, OutboxTypeOK
    <2> QED
        BY <1>f, <2>1 DEF Owing, Lost, Live, UnderLock
<1>2. ASSUME NEW z \in Rows, AdminRequeue(z) PROVE RowInBudget(x)'
    <2>1. UNCHANGED <<faults, runLock, phase, elapsed>>
        BY <1>2 DEF AdminRequeue
    <2>2. CASE z = x
        <3>1. attempts'[x] = 0
            BY <1>0, <1>2, <2>2 DEF AdminRequeue, OutboxTypeOK
        <3> QED
            BY <1>a, <1>d, <1>e, <2>1, <3>1 DEF Allowed
    <2>3. CASE z # x
        <3>1. status'[x] = status[x] /\ attempts'[x] = attempts[x] /\ lockedBy'[x] = lockedBy[x]
            BY <1>0, <1>2, <2>3 DEF AdminRequeue, OutboxTypeOK
        <3> QED
            BY <1>f, <2>1, <3>1 DEF Owing, Lost, Live, UnderLock
    <2> QED
        BY <2>2, <2>3
<1>3. ASSUME NEW r \in Replicas, Begin(r) PROVE RowInBudget(x)'
    <2>1. /\ UNCHANGED <<status, attempts, faults, lockedBy, elapsed>> /\ runLock = NoRun /\ runLock' = r
          /\ \A q \in Replicas : q # r => phase'[q] = phase[q]
        BY <1>0, <1>3 DEF Begin, OutboxTypeOK
    <2>2. Lost' \subseteq Lost /\ r \notin Lost'
        BY <2>1 DEF Lost, Live
    <2>3. Owing(x)' \subseteq Owing(x) /\ ~UnderLock(x)
        BY <2>1, <2>2 DEF Owing, Lost, UnderLock
    <2> QED
        BY <1>f, <2>1, <2>3
<1>4. ASSUME NEW r \in Replicas, ReleaseStale(r) PROVE RowInBudget(x)'
    <2>1. /\ UNCHANGED <<attempts, faults, elapsed, runLock>>
          /\ phase' = [phase EXCEPT ![r] = "claiming"] /\ phase[r] = "starting"
          /\ status'[x] = IF IsStale(x) THEN "PENDING" ELSE status[x]
          /\ lockedBy'[x] = IF IsStale(x) THEN NoRun ELSE lockedBy[x]
        BY <1>4 DEF ReleaseStale
    <2>2. \A q \in Replicas : phase'[q] = "starting" => phase[q] = "starting" /\ q # r
        BY <1>0, <2>1 DEF OutboxTypeOK
    <2>3. Lost' = Lost
        BY <1>0, <2>1 DEF Lost, Live, OutboxTypeOK
    <2>4. CASE ~IsStale(x)
        BY <1>f, <2>1, <2>2, <2>3, <2>4 DEF Owing, UnderLock
    <2>5. CASE IsStale(x)
        <3>1. \A q \in Replicas : lockedBy[x] = q => elapsed[q] >= LeaseSeconds /\ batch[q] # {}
            BY <1>0, <2>5 DEF LeasesOutlast, LockShape, IsStale, OutboxTypeOK
        <3>2. \A q \in Replicas : lockedBy[x] = q => phase[q] # "starting"
            BY <1>0, <3>1 DEF RunShape
        <3>3. \A q \in Replicas : elapsed[q] \in 0..LeaseSeconds
            BY <1>0 DEF OutboxTypeOK
        <3>4. Owing(x)' \subseteq Owing(x)
            BY <2>1, <2>2, <2>3, <3>1, <3>2, <3>3 DEF Owing, Lost
        <3>5. CASE ~UnderLock(x)
            <4>1. attempts'[x] + p <= Allowed(x)'
                BY <1>a, <1>b, <1>c, <2>1, <2>5, <3>4, <3>5 DEF Allowed, IsStale, UnderLock
            <4> QED
                BY <1>a, <1>b, <1>e, <2>1, <4>1
        <3>6. CASE UnderLock(x)
            <4>1. r \in Lost
                BY <2>1, <3>2, <3>6 DEF UnderLock, Lost, Live
            <4>2. elapsed[r] >= LeaseSeconds
                BY <1>0, <2>5, <3>6, <4>1 DEF LeasesOutlast, IsStale, OutboxTypeOK
            <4>3. r \in Owing(x) /\ r \notin Owing(x)'
                BY <2>1, <2>2, <3>2, <3>3, <4>1, <4>2 DEF Owing
            <4>4. p \in Nat /\ p <= o - 1
                BY <1>c, <3>4, <4>3
            <4>5. ~UnderLock(x)'
                BY <2>1, <2>5 DEF UnderLock
            <4>6. attempts'[x] + p <= Allowed(x)'
                BY <1>a, <1>b, <1>c, <2>1, <2>5, <3>6, <4>4, <4>5 DEF Allowed, IsStale
            <4> QED
                BY <1>a, <1>b, <1>e, <2>1, <4>6
        <3> QED
            BY <3>5, <3>6
    <2> QED
        BY <2>4, <2>5
<1>5. ASSUME NEW r \in Replicas, Claim(r) PROVE RowInBudget(x)'
    <2>1. PICK S \in FirstDue(Room(r)) : TakeRows(r, S)
        BY <1>5 DEF Claim
    <2>2. /\ UNCHANGED <<faults, elapsed, runLock>> /\ phase[r] = "claiming" /\ elapsed[r] < MaxSeconds
          /\ phase' = [phase EXCEPT ![r] = "batch"]
        BY <1>5 DEF Claim, MayClaim
    <2>3. Lost' = Lost /\ \A q \in Replicas : phase'[q] = "starting" => phase[q] = "starting"
        BY <1>0, <2>2 DEF Lost, Live, OutboxTypeOK
    <2>4. CASE x \notin S
        <3>1. status'[x] = status[x] /\ attempts'[x] = attempts[x] /\ lockedBy'[x] = lockedBy[x]
            BY <2>1, <2>4 DEF TakeRows
        <3> QED
            BY <1>f, <2>2, <2>3, <3>1 DEF Owing, UnderLock
    <2>5. CASE x \in S
        <3>1. status[x] = "PENDING" /\ lockedBy[x] = NoRun
            BY <1>0, <2>1, <2>5, ClaimedRows DEF Due, LockShape
        <3>2. attempts'[x] = attempts[x] + 1 /\ lockedBy'[x] = r /\ attempts[x] + o <= MaxAttempts - 1 + faults
            BY <1>b, <2>1, <2>5, <3>1 DEF TakeRows, Allowed, UnderLock
        <3>3. Owing(x)' \subseteq Owing(x) \ {r}
            BY <2>2, <2>3, <3>1, <3>2 DEF Owing, Lost
        <3>4. CASE runLock = r
            <4>1. Allowed(x)' = MaxAttempts + faults
                BY <2>2, <3>2, <3>4 DEF Allowed, UnderLock
            <4>2. p \in Nat /\ p <= o
                BY <1>c, <3>3
            <4> QED
                BY <1>a, <1>c, <1>e, <2>2, <3>2, <4>1, <4>2
        <3>5. CASE runLock # r
            <4>1. r \in Owing(x)
                BY <1>0, <2>2, <3>1, <3>5, RunConfigAssumption DEF Owing, Lost, Live, OutboxTypeOK
            <4>2. p \in Nat /\ p <= o - 1
                BY <1>c, <3>3, <4>1
            <4>3. Allowed(x)' >= MaxAttempts - 1 + faults
                BY <1>a, <2>2 DEF Allowed
            <4>4. Allowed(x)' \in Int
                BY <1>a, <2>2 DEF Allowed
            <4> QED
                BY <1>a, <1>c, <1>e, <2>2, <3>2, <4>2, <4>3, <4>4
        <3> QED
            BY <3>4, <3>5
    <2> QED
        BY <2>4, <2>5

<1>6. ASSUME NEW r \in Replicas, Finish(r) PROVE RowInBudget(x)'
    <2>1. /\ UNCHANGED <<status, attempts, lockedBy, faults>> /\ batch[r] = {}
          /\ phase' = [phase EXCEPT ![r] = "idle"]
          /\ elapsed' = [elapsed EXCEPT ![r] = 0]
          /\ runLock' = IF runLock = r THEN NoRun ELSE runLock
        BY <1>0, <1>6 DEF Finish, EndRun, RunShape
    <2>2. lockedBy[x] # r
        BY <1>0, <2>1 DEF LockShape
    <2>3. Owing(x)' \subseteq Owing(x)
        BY <1>0, <2>1 DEF Owing, Lost, Live, OutboxTypeOK
    <2>4. UnderLock(x) => UnderLock(x)'
        BY <2>1, <2>2 DEF UnderLock
    <2> QED
        BY <1>f, <2>1, <2>3, <2>4
<1>7. ASSUME NEW r \in Replicas, HandBack(r) \/ Settle(r) PROVE RowInBudget(x)'
    <2>1. PICK z \in Rows : \/ HandBack(r) /\ Requeue(r, z, 0, FALSE) /\ RowDealtWith(r, z)
                            \/ Settle(r) /\ SettleRow(r, z) /\ RowDealtWith(r, z) /\ z = current[r]
        BY <1>0, <1>7 DEF HandBack, Settle, OutboxTypeOK, RunShape
    <2>2. RowSettled(r, z)
        BY <1>0, <2>1, StatementSettles
    <2>3. /\ UNCHANGED <<faults, elapsed, runLock>>
          /\ phase[r] \in {"batch", "settling"}
          /\ \E s \in {"claiming", "batch"} : phase' = [phase EXCEPT ![r] = s]
        BY <2>1 DEF RowDealtWith, HandBack, Settle
    <2>4. /\ Lost' = Lost
          /\ \A q \in Replicas : phase'[q] = "starting" => phase[q] = "starting"
        BY <1>0, <2>3 DEF Lost, Live, OutboxTypeOK
    <2>5. CASE z # x \/ lockedBy[x] # r
        <3>1. status'[x] = status[x] /\ attempts'[x] = attempts[x] /\ lockedBy'[x] = lockedBy[x]
            BY <2>2, <2>5 DEF RowSettled
        <3> QED
            BY <1>f, <2>3, <2>4, <3>1 DEF Owing, UnderLock
    <2>6. CASE z = x /\ lockedBy[x] = r
        <3>1. /\ lockedBy'[x] = NoRun /\ ~UnderLock(x)'
              /\ status[x] = "IN_PROGRESS" /\ attempts[x] = got[r][x] /\ attempts[x] > 0
            BY <1>0, <2>2, <2>3, <2>6 DEF RowSettled, UnderLock, LockShape
        <3>2. attempts[x] + o <= Allowed(x) /\ Allowed(x)' = MaxAttempts - 1 + faults
            BY <1>b, <2>3, <3>1 DEF Allowed
        <3>3. CASE status'[x] \in {"DONE", "FAILED"}
            <4>1. attempts'[x] = attempts[x]
                BY <1>0, <2>1, <2>6, <3>3
                DEF SettleRow, Complete, FailRow, Requeue, HoldsLock, OutboxTypeOK
            <4> QED
                BY <1>b, <1>e, <2>3, <3>3, <4>1
        <3>4. CASE status'[x] = "PENDING" /\ attempts'[x] = attempts[x] - 1
            <4>1. CASE runLock = r
                <5>1. Owing(x)' \subseteq Owing(x)
                    BY <2>3, <2>4, <2>6, <4>1 DEF Owing, Lost
                <5>2. UnderLock(x)
                    BY <2>6, <4>1 DEF UnderLock
                <5> QED
                    BY <1>a, <1>c, <1>e, <2>3, <3>2, <3>4, <5>1, <5>2 DEF Allowed
            <4>2. CASE runLock # r
                <5>1. Owing(x)' \subseteq Owing(x) \cup {r}
                    BY <2>3, <2>4, <2>6 DEF Owing, Lost
                <5>2. ~UnderLock(x)
                    BY <2>6, <4>2 DEF UnderLock
                <5>3. p \in Nat /\ p <= o + 1
                    BY <1>c, <5>1
                <5> QED
                    BY <1>a, <1>c, <1>e, <2>3, <3>2, <3>4, <5>2, <5>3 DEF Allowed
            <4> QED
                BY <4>1, <4>2
        <3>5. CASE status'[x] = "PENDING" /\ attempts'[x] = attempts[x] /\ ~FinalAttempt(r) /\ x = current[r]
            <4>1. attempts[x] <= MaxAttempts - 1
                BY <1>a, <3>1, <3>5 DEF FinalAttempt
            <4>2. attempts'[x] <= MaxAttempts + faults' /\ attempts'[x] + p <= Allowed(x)'
                BY <1>a, <1>d, <2>3, <3>2, <3>5, <4>1
            <4> QED
                BY <1>e, <4>2
        <3>6. \/ status'[x] \in {"DONE", "FAILED"}
              \/ status'[x] = "PENDING" /\ attempts'[x] = attempts[x] - 1
              \/ status'[x] = "PENDING" /\ attempts'[x] = attempts[x] /\ ~FinalAttempt(r) /\ x = current[r]
            <4>1. ASSUME NEW d, NEW k, Requeue(r, x, d, k)
                  PROVE  /\ status'[x] = "PENDING"
                         /\ k = FALSE => attempts'[x] = attempts[x] - 1
                         /\ k = TRUE => attempts'[x] = attempts[x]
                BY <1>0, <2>6, <3>1, <4>1 DEF Requeue, HoldsLock, OutboxTypeOK
            <4>2. CASE Complete(r, x) \/ FailRow(r, x)
                BY <1>0, <2>6, <4>2 DEF Complete, FailRow, HoldsLock, OutboxTypeOK
            <4> QED
                BY <2>1, <2>6, <4>1, <4>2 DEF SettleRow
        <3> QED
            BY <3>3, <3>4, <3>5, <3>6
    <2> QED
        BY <2>5, <2>6
<1>8. ASSUME NEW r \in Replicas, BeginRow(r) \/ \E k \in Outcomes : HandlerReturns(r, k)
      PROVE  RowInBudget(x)'
    <2>1. /\ UNCHANGED <<status, attempts, lockedBy, faults, elapsed, runLock>>
          /\ phase[r] # "idle"
          /\ \E s \in {"handling", "settling"} : phase' = [phase EXCEPT ![r] = s]
        BY <1>8 DEF BeginRow, HandlerReturns, Handling
    <2>2. Owing(x)' \subseteq Owing(x)
        BY <1>0, <2>1 DEF Owing, Lost, Live, OutboxTypeOK
    <2> QED
        BY <1>f, <2>1, <2>2 DEF UnderLock
<1>9. ASSUME NEW r \in Replicas, Die(r) PROVE RowInBudget(x)'
    <2>1. /\ UNCHANGED <<status, attempts>> /\ faults' = faults + 1
          /\ phase' = [phase EXCEPT ![r] = "idle"]
          /\ elapsed' = [elapsed EXCEPT ![r] = 0]
          /\ runLock' = IF runLock = r THEN NoRun ELSE runLock
          /\ lockedBy'[x] = IF lockedBy[x] = r THEN DeadRun ELSE lockedBy[x]
        BY <1>9 DEF Die, EndRun
    <2>2. Owing(x)' \subseteq Owing(x)
        BY <1>0, <2>1 DEF Owing, Lost, Live, OutboxTypeOK
    <2>3. Allowed(x)' >= Allowed(x) /\ Allowed(x)' \in Int /\ Allowed(x) \in Int
        BY <1>a, <2>1 DEF Allowed, UnderLock
    <2> QED
        BY <1>a, <1>b, <1>c, <1>e, <2>1, <2>2, <2>3
<1>10. ASSUME NEW r \in Replicas, ClaimAnswerLost(r) PROVE RowInBudget(x)'
    <2>1. PICK S \in FirstDue(Room(r)) : TakeRows(DeadRun, S)
        BY <1>10 DEF ClaimAnswerLost
    <2>2. /\ faults' = faults + 1 /\ batch[r] = {}
          /\ phase' = [phase EXCEPT ![r] = "idle"]
          /\ elapsed' = [elapsed EXCEPT ![r] = 0]
          /\ runLock' = IF runLock = r THEN NoRun ELSE runLock
        BY <1>0, <1>10 DEF ClaimAnswerLost, EndRun, RunShape
    <2>3. Lost' \subseteq Lost /\ \A q \in Lost' : q # r
        BY <1>0, <2>2 DEF Lost, Live, OutboxTypeOK
    <2>4. CASE x \notin S
        <3>1. status'[x] = status[x] /\ attempts'[x] = attempts[x] /\ lockedBy'[x] = lockedBy[x]
            BY <2>1, <2>4 DEF TakeRows
        <3>2. Owing(x)' \subseteq Owing(x)
            BY <1>0, <2>2, <2>3, <3>1 DEF Owing, Lost, OutboxTypeOK
        <3>3. Allowed(x)' >= Allowed(x) /\ Allowed(x)' \in Int /\ Allowed(x) \in Int
            BY <1>a, <2>2, <3>1 DEF Allowed, UnderLock
        <3> QED
            BY <1>a, <1>b, <1>c, <1>e, <2>2, <3>1, <3>2, <3>3
    <2>5. CASE x \in S
        <3>1. status[x] = "PENDING" /\ lockedBy[x] = NoRun
            BY <1>0, <2>1, <2>5, ClaimedRows DEF Due, LockShape
        <3>2. attempts'[x] = attempts[x] + 1 /\ lockedBy'[x] = DeadRun
              /\ attempts[x] + o <= MaxAttempts - 1 + faults
            BY <1>b, <2>1, <2>5, <3>1 DEF TakeRows, Allowed, UnderLock
        <3>3. Owing(x)' \subseteq Owing(x)
            BY <1>0, <2>2, <2>3, <3>1 DEF Owing, Lost, OutboxTypeOK
        <3>4. ~UnderLock(x)'
            BY <1>0, <2>2, <3>2 DEF UnderLock, OutboxTypeOK
        <3> QED
            BY <1>a, <1>c, <1>e, <2>2, <3>2, <3>3, <3>4 DEF Allowed
    <2> QED
        BY <2>4, <2>5
<1>11. ASSUME LockDrops PROVE RowInBudget(x)'
    <2>1. /\ UNCHANGED <<status, attempts, lockedBy, phase, elapsed>> /\ faults' = faults + 1
          /\ runLock' = NoRun /\ runLock # NoRun
        BY <1>11 DEF LockDrops
    <2>2. Owing(x)' \subseteq Owing(x) \cup {runLock}
        BY <2>1 DEF Owing, Lost, Live
    <2>3. UnderLock(x) => Owing(x)' \subseteq Owing(x)
        BY <2>1 DEF Owing, Lost, Live, UnderLock
    <2>4. ~UnderLock(x)'
        BY <2>1 DEF UnderLock
    <2>5. p \in Nat /\ p <= o + 1 /\ (UnderLock(x) => p <= o)
        BY <1>c, <2>2, <2>3
    <2> QED
        BY <1>a, <1>b, <1>c, <1>e, <2>1, <2>4, <2>5 DEF Allowed
<1>12. ASSUME Tick PROVE RowInBudget(x)'
    <2>1. /\ UNCHANGED <<status, attempts, lockedBy, phase, faults, runLock>>
          /\ \A q \in Replicas : elapsed'[q] < LeaseSeconds => elapsed[q] < LeaseSeconds
        BY <1>0, <1>12 DEF Tick, OutboxTypeOK
    <2>2. Owing(x)' \subseteq Owing(x)
        BY <2>1 DEF Owing, Lost, Live
    <2> QED
        BY <1>f, <2>1, <2>2 DEF UnderLock
<1>13. ASSUME UNCHANGED outboxVars PROVE RowInBudget(x)'
    BY <1>f, <1>13 DEF outboxVars, Owing, Lost, Live, UnderLock
<1> QED
    BY <1>1, <1>2, <1>3, <1>4, <1>5, <1>6, <1>7, <1>8, <1>9, <1>10, <1>11, <1>12, <1>13
    DEF OutboxNext, RunStep, Fault

LEMMA BudgetStep == BudgetInv /\ [OutboxNext]_outboxVars => BudgetInv'
<1> SUFFICES ASSUME BudgetInv, [OutboxNext]_outboxVars PROVE BudgetInv'
    OBVIOUS
<1>1. OutboxTypeOK' /\ RunShape' /\ LockShape'
    BY TypeStep, RunShapeStep, LockShapeStep DEF BudgetInv
<1>2. LostShape' /\ LeasesOutlast'
    BY <1>1, LostStep, LeasesOutlastStep DEF BudgetInv
<1> QED
    BY <1>1, <1>2, RowBudgetStep DEF BudgetInv

\* Whatever the tuning, defended or not, and in whatever order runs die, lose their lock
\* and come back: a row never counts more than maxAttempts attempts and one per fault.
THEOREM OutboxStaysInBudget == OutboxSpec => []AttemptsWithinBudget
<1>1. BudgetInv => AttemptsWithinBudget
    BY DEF BudgetInv, RowInBudget, AttemptsWithinBudget
<1> QED
    BY <1>1, BudgetInit, BudgetStep, PTL DEF OutboxSpec

=============================================================================
