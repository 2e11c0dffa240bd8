------------------------------- MODULE Points -------------------------------
(***************************************************************************)
(* Amplify's points: claims for posts people wrote themselves, the ledger  *)
(* of points, and the standings that recognition keeps of it.  A program   *)
(* owner (PO) approves, rejects or marks a claim amplified; the decision,  *)
(* its ledger row and the new standings commit in one transaction.  A row  *)
(* may be reversed once, anyone's points may be adjusted, and the jobs     *)
(* rebuild the standings from the ledger.                                  *)
(*                                                                         *)
(* A call reads first and writes in a transaction that starts later.  The  *)
(* gate lets a process run one transaction at a time; between processes    *)
(* the row locks, the unique keys and the recognition lock decide.  What a *)
(* transaction wrote, and so the locks it holds, is told by how far its    *)
(* call is.  The URL of a claim is unique and no claim is ever deleted, so *)
(* claims are named after their URL.  Prices do not change while they run. *)
(***************************************************************************)
EXTENDS Integers, FiniteSets, Functions

CONSTANTS
    Tasks,              \* calls of the API, and rebuilds
    Processes,          \* replicas of amplify-api and amplify-jobs
    Urls, People,
    Commands,           \* what clients may ask for
    OwnPost, OwnPostAmplified,  \* points of the two rules in force
    NoOne, NoTask, NoRef

Deciding == {"approve", "reject", "amplify"}
Ops == Deciding \cup {"submit", "reverse", "adjust", "rebuild"}

\* An award is named by a hash of the post and the action, a correction by a fresh id.
AwardRef(action, u) == <<action, u>>
CorrectionRef(c) == <<"correction", c>>
Refs == {AwardRef(a, u) : a \in {"OWN_POST", "OWN_POST_AMPLIFIED"}, u \in Urls}
        \cup {CorrectionRef(c) : c \in Tasks}

ASSUME PointsAssumption ==
    /\ OwnPost \in Nat /\ OwnPostAmplified \in Nat
    /\ NoOne \notin People /\ NoTask \notin Tasks /\ NoRef \notin Refs
    /\ \A m \in Commands :
        /\ m.op \in Ops /\ m.by \in People
        /\ m.op \in Deciding \cup {"submit"} => m.url \in Urls
        /\ m.op = "reverse" => m.ref \in Refs
        /\ m.op = "adjust" => m.whom \in People /\ m.points \in Int

VARIABLES
    claim,      \* external_sharing_external_share, by URL
    ledger,     \* scoring_points_ledger
    total, rank,        \* recognition_standing
    gate,       \* who runs the transaction of each process
    recognition,        \* who holds the recognition lock
    task        \* the calls

pointsVars == <<claim, ledger, total, rank, gate, recognition, task>>

NoClaim == [by |-> NoOne, status |-> "NONE", version |-> 0]
NoRow == [ref |-> NoRef, whom |-> NoOne, points |-> 0, reverses |-> NoRef]

\* What the ledger says people have, and their dense ranks.
Totals(L) ==
    [e \in {r.whom : r \in L} |->
        SumFunctionOnSet([r \in L |-> r.points], {r \in L : r.whom = e})]
Ranks(t) == [e \in DOMAIN t |-> 1 + Cardinality({t[f] : f \in {f \in DOMAIN t : t[f] > t[e]}})]

Row(ref) == CHOOSE r \in ledger : r.ref = ref
Has(ref) == \E r \in ledger : r.ref = ref
Reversed(ref) == \E r \in ledger : r.reverses = ref
Award(action, u, e, p) ==
    [ref |-> AwardRef(action, u), whom |-> e, points |-> p, reverses |-> NoRef]

-----------------------------------------------------------------------------
\* Where a call is: its reads, then its transaction, statement by statement.  What the
\* client is told in the end is left out.
Quiet == [pc |-> "idle", cmd |-> [op |-> "none"], at |-> NoOne, seen |-> NoClaim, net |-> 0,
          row |-> NoRow, board |-> Totals({})]
Update(c, f) == task' = [task EXCEPT ![c] = f]
Goes(c, pc) == Update(c, [task[c] EXCEPT !.pc = pc])
Ends(c) == Update(c, [Quiet EXCEPT !.pc = "done"])
InTransaction == {"update", "insert", "lock", "commit"}

\* Locks a transaction holds: the claim it wrote, the ledger row it inserted.
HoldsClaim(c, u) ==
    /\ task[c].cmd.op \in Deciding \cup {"submit"} /\ task[c].cmd.url = u
    /\ task[c].pc \in {"insert", "lock", "commit"}
HoldsRow(c) ==
    /\ task[c].cmd.op \in {"approve", "amplify", "reverse", "adjust"}
    /\ task[c].pc \in {"lock", "commit"}

Ask(c, m, p) ==
    /\ task[c].pc = "idle"
    /\ Update(c, [task[c] EXCEPT !.cmd = m, !.at = p,
                    !.pc = CASE m.op \in Deciding \cup {"submit"} -> "read"
                             [] m.op = "reverse" -> "readAward"
                             [] OTHER -> "enter"])
    /\ UNCHANGED <<claim, ledger, total, rank, gate, recognition>>

\* submitExternalShare asks whether the URL is claimed.
ReadIsClaimed(c) ==
    /\ task[c].pc = "read" /\ task[c].cmd.op = "submit"
    /\ IF claim[task[c].cmd.url].status = "NONE" THEN Goes(c, "enter") ELSE Ends(c)
    /\ UNCHANGED <<claim, ledger, total, rank, gate, recognition>>

\* findOrFail and the pure rules of a decision.
MayDecide(m, k) ==
    /\ k.by # m.by
    /\ k.status = (IF m.op = "amplify" THEN "APPROVED" ELSE "PENDING")
ReadClaim(c) ==
    LET m == task[c].cmd  k == claim[m.url] IN
    /\ task[c].pc = "read" /\ m.op \in Deciding
    /\ IF MayDecide(m, k)
       THEN Update(c, [task[c] EXCEPT
                !.seen = k, !.pc = IF m.op = "amplify" THEN "readAward" ELSE "enter",
                !.row = IF m.op = "approve" THEN Award("OWN_POST", m.url, k.by, OwnPost) ELSE NoRow])
       ELSE Ends(c)
    /\ UNCHANGED <<claim, ledger, total, rank, gate, recognition>>

\* The first read of ownPostNet.
ReadOwnPost(c) ==
    LET ref == AwardRef("OWN_POST", task[c].cmd.url) IN
    /\ task[c].pc = "readAward" /\ task[c].cmd.op = "amplify"
    /\ Update(c, [task[c] EXCEPT !.pc = "readReversal",
                                 !.net = IF Has(ref) THEN Row(ref).points ELSE 0])
    /\ UNCHANGED <<claim, ledger, total, rank, gate, recognition>>

\* Its second read, and amplifiedTopUp, which refuses a top-up that is not positive.
ReadNet(c) ==
    LET ref == AwardRef("OWN_POST", task[c].cmd.url)
        back == {r \in ledger : r.reverses = ref}
        net == task[c].net + (IF back = {} THEN 0 ELSE (CHOOSE r \in back : TRUE).points)
        topUp == OwnPostAmplified - net IN
    /\ task[c].pc = "readReversal" /\ task[c].cmd.op = "amplify"
    /\ IF topUp > 0
       THEN Update(c, [task[c] EXCEPT !.pc = "enter",
                !.row = Award("OWN_POST_AMPLIFIED", task[c].cmd.url, task[c].seen.by, topUp)])
       ELSE Ends(c)
    /\ UNCHANGED <<claim, ledger, total, rank, gate, recognition>>

\* reverseEntry: the row, the reversal it may have, and the rules of a reversal.
ReadOriginal(c) ==
    LET m == task[c].cmd IN
    /\ task[c].pc = "readAward" /\ m.op = "reverse"
    /\ IF Has(m.ref) THEN Goes(c, "readReversal") ELSE Ends(c)
    /\ UNCHANGED <<claim, ledger, total, rank, gate, recognition>>

ReadReversal(c) ==
    LET m == task[c].cmd  r == Row(m.ref) IN
    /\ task[c].pc = "readReversal" /\ m.op = "reverse"
    /\ IF r.whom # m.by /\ r.reverses = NoRef /\ ~Reversed(m.ref)
       THEN Update(c, [task[c] EXCEPT !.pc = "enter",
                !.row = [ref |-> CorrectionRef(c), whom |-> r.whom, points |-> -r.points,
                         reverses |-> m.ref]])
       ELSE Ends(c)
    /\ UNCHANGED <<claim, ledger, total, rank, gate, recognition>>

-----------------------------------------------------------------------------
\* adjustPoints reads nothing that could change.
MayAdjust(m) == m.whom # m.by /\ m.points # 0
RefuseAdjustment(c) ==
    /\ task[c].pc = "enter" /\ task[c].cmd.op = "adjust" /\ ~MayAdjust(task[c].cmd)
    /\ Ends(c)
    /\ UNCHANGED <<claim, ledger, total, rank, gate, recognition>>
AdjustmentOf(c) ==
    LET m == task[c].cmd IN
    [ref |-> CorrectionRef(c), whom |-> m.whom, points |-> m.points, reverses |-> NoRef]

\* The transaction starts when the process's gate is free.
Enter(c) ==
    LET m == task[c].cmd IN
    /\ task[c].pc = "enter"
    /\ m.op = "adjust" => MayAdjust(m)
    /\ gate[task[c].at] = NoTask
    /\ gate' = [gate EXCEPT ![task[c].at] = c]
    /\ Update(c, [task[c] EXCEPT
            !.pc = CASE m.op \in Deciding \cup {"submit"} -> "update"
                     [] m.op = "rebuild" -> "lock"
                     [] OTHER -> "insert",
            !.row = IF m.op = "adjust" THEN AdjustmentOf(c) ELSE @])
    /\ UNCHANGED <<claim, ledger, total, rank, recognition>>

\* A transaction ends: its locks and its place at the gate are free.
EndTransaction(c) ==
    /\ Ends(c)
    /\ gate' = [gate EXCEPT ![task[c].at] = NoTask]
    /\ recognition' = IF recognition = c THEN NoTask ELSE recognition
Rollback(c) == EndTransaction(c) /\ UNCHANGED <<claim, ledger, total, rank>>

\* Mutant: the update does not ask for the version that was read.
WriteUnversioned(c) ==
    LET m == task[c].cmd IN
    /\ task[c].pc = "update"
    /\ \A d \in Tasks \ {c} : ~HoldsClaim(d, m.url)
    /\ IF m.op = "submit" => claim[m.url].status = "NONE"
       THEN /\ Goes(c, IF m.op \in {"submit", "reject"} THEN "commit" ELSE "insert")
            /\ UNCHANGED <<claim, ledger, total, rank, gate, recognition>>
       ELSE Rollback(c)

\* The claim row is inserted, or locked and updated if its version is the one that was read.
WriteClaim(c) ==
    LET m == task[c].cmd  k == claim[m.url] IN
    /\ task[c].pc = "update"
    /\ \A d \in Tasks \ {c} : ~HoldsClaim(d, m.url)
    /\ IF IF m.op = "submit" THEN k.status = "NONE" ELSE k.version = task[c].seen.version
       THEN /\ Goes(c, IF m.op \in {"submit", "reject"} THEN "commit" ELSE "insert")
            /\ UNCHANGED <<claim, ledger, total, rank, gate, recognition>>
       ELSE Rollback(c)

\* appendInTransaction: a reference that exists rolls the decision back, and so does a
\* second reversal of one row.
Conflicts(r, s) == r.ref = s.ref \/ (r.reverses # NoRef /\ r.reverses = s.reverses)
InsertRow(c) ==
    /\ task[c].pc = "insert"
    /\ \A d \in Tasks \ {c} : HoldsRow(d) => ~Conflicts(task[c].row, task[d].row)
    /\ IF \E r \in ledger : Conflicts(task[c].row, r)
       THEN Rollback(c)
       ELSE Goes(c, "lock") /\ UNCHANGED <<claim, ledger, total, rank, gate, recognition>>

\* lockRecognition, then apply_ledger_entry or rebuild, which read the standings and the
\* ledger as committed, the own row included.
Earned(c) ==
    LET r == task[c].row IN
    [e \in DOMAIN total \cup {r.whom} |->
        (IF e \in DOMAIN total THEN total[e] ELSE 0) + (IF e = r.whom THEN r.points ELSE 0)]
ReadsOf(c) == IF task[c].cmd.op = "rebuild" THEN Totals(ledger) ELSE Earned(c)
\* Mutant: the standings are read under no lock.
ReadUnlocked(c) ==
    /\ task[c].pc = "lock"
    /\ recognition' = c
    /\ Update(c, [task[c] EXCEPT !.pc = "commit", !.board = ReadsOf(c)])
    /\ UNCHANGED <<claim, ledger, total, rank, gate>>

LockRecognition(c) ==
    /\ task[c].pc = "lock"
    /\ recognition = NoTask
    /\ recognition' = c
    /\ Update(c, [task[c] EXCEPT !.pc = "commit", !.board = ReadsOf(c)])
    /\ UNCHANGED <<claim, ledger, total, rank, gate>>

\* The lock stayed busy for two seconds.
GiveUp(c) == task[c].pc = "lock" /\ recognition # NoTask /\ Rollback(c)

Decided(k, m) ==
    CASE m.op = "submit" -> [by |-> m.by, status |-> "PENDING", version |-> 1]
      [] m.op = "approve" -> [k EXCEPT !.status = "APPROVED", !.version = @ + 1]
      [] m.op = "reject" -> [k EXCEPT !.status = "REJECTED", !.version = @ + 1]
      [] m.op = "amplify" -> [k EXCEPT !.status = "AMPLIFIED", !.version = @ + 1]

\* The writes become visible together.
Commit(c) ==
    LET m == task[c].cmd IN
    /\ task[c].pc = "commit"
    /\ claim' = IF m.op \in {"submit"} \cup Deciding
                THEN [claim EXCEPT ![m.url] =
                        Decided(IF m.op = "submit" THEN @ ELSE task[c].seen, m)]
                ELSE claim
    /\ ledger' = IF HoldsRow(c) THEN ledger \cup {task[c].row} ELSE ledger
    /\ total' = IF HoldsRow(c) THEN Earned(c)
                ELSE IF m.op = "rebuild" THEN task[c].board ELSE total
    /\ rank' = IF HoldsRow(c) \/ m.op = "rebuild" THEN Ranks(task[c].board) ELSE rank
    /\ EndTransaction(c)

\* A statement fails, the session is ended for idling, or the process dies.
Fail(c) ==
    \/ /\ task[c].pc \in {"read", "readAward", "readReversal", "enter"}
       /\ Ends(c)
       /\ UNCHANGED <<claim, ledger, total, rank, gate, recognition>>
    \/ task[c].pc \in InTransaction /\ Rollback(c)

-----------------------------------------------------------------------------
\* A claim at the start: none, pending, or approved and paid.
Starts ==
    {NoClaim} \cup {[by |-> e, status |-> "PENDING", version |-> 1] : e \in People}
              \cup {[by |-> e, status |-> "APPROVED", version |-> 2] : e \in People}

PointsInit ==
    /\ claim \in [Urls -> Starts]
    /\ ledger = {Award("OWN_POST", u, claim[u].by, OwnPost) :
                    u \in {v \in Urls : claim[v].status = "APPROVED"}}
    /\ IsFiniteSet(ledger)
    /\ total = Totals(ledger) /\ rank = Ranks(total)
    /\ gate = [p \in Processes |-> NoTask] /\ recognition = NoTask
    /\ task = [c \in Tasks |-> Quiet]

PointsNext ==
    \E c \in Tasks :
        \/ \E m \in Commands, p \in Processes : Ask(c, m, p)
        \/ ReadIsClaimed(c) \/ ReadClaim(c)
        \/ ReadOwnPost(c) \/ ReadNet(c)
        \/ ReadOriginal(c) \/ ReadReversal(c)
        \/ RefuseAdjustment(c)
        \/ Enter(c) \/ WriteClaim(c) \/ InsertRow(c)
        \/ LockRecognition(c) \/ GiveUp(c)
        \/ Commit(c) \/ Fail(c)

PointsSpec == PointsInit /\ [][PointsNext]_pointsVars

-----------------------------------------------------------------------------
(***************************************************************************)
(* Properties.                                                             *)
(***************************************************************************)

PointsTypeOK ==
    /\ \A u \in Urls : /\ claim[u].by \in People \cup {NoOne}
                       /\ claim[u].status \in {"NONE", "PENDING", "APPROVED", "REJECTED", "AMPLIFIED"}
                       /\ claim[u].version \in Nat
    /\ \A r \in ledger : r.ref \in Refs /\ r.whom \in People /\ r.points \in Int
                         /\ r.reverses \in Refs \cup {NoRef}
    /\ total \in [DOMAIN total -> Int] /\ DOMAIN total \subseteq People
    /\ rank \in [DOMAIN total -> Nat]
    /\ gate \in [Processes -> Tasks \cup {NoTask}]
    /\ recognition \in Tasks \cup {NoTask}

\* A decision and its points are one: a claim is approved exactly when its author has the
\* award for it, and amplified exactly when its author has the top-up.
DecisionsArePaid ==
    \A u \in Urls :
        /\ claim[u].status \in {"APPROVED", "AMPLIFIED"} <=> Has(AwardRef("OWN_POST", u))
        /\ claim[u].status = "AMPLIFIED" <=> Has(AwardRef("OWN_POST_AMPLIFIED", u))
        /\ \A r \in ledger : r.ref \in {AwardRef("OWN_POST", u), AwardRef("OWN_POST_AMPLIFIED", u)}
                                => r.whom = claim[u].by

\* What a row is worth after its reversal, and what a post earned.
Net(ref) ==
    LET back == {r \in ledger : r.reverses = ref} IN
    IF ~Has(ref) THEN 0
    ELSE Row(ref).points + (IF back = {} THEN 0 ELSE (CHOOSE r \in back : TRUE).points)
Worth(u) == Net(AwardRef("OWN_POST", u)) + Net(AwardRef("OWN_POST_AMPLIFIED", u))

\* However a top-up's reads, reversals and other decisions interleave, a post is never worth
\* more than the better tier nor less than nothing, and a row is reversed at most once.
PaidWithinTier ==
    /\ \A u \in Urls : Worth(u) >= 0 /\ (Worth(u) <= OwnPost \/ Worth(u) <= OwnPostAmplified)
    /\ \A r, s \in ledger : Conflicts(r, s) => r = s

\* The locks are taken in one order, so that of the transactions that run some can go on.
Waits(c) ==
    \/ task[c].pc = "update" /\ \E d \in Tasks \ {c} : HoldsClaim(d, task[c].cmd.url)
    \/ task[c].pc = "insert" /\ \E d \in Tasks \ {c} : HoldsRow(d) /\ Conflicts(task[c].row, task[d].row)
    \/ task[c].pc = "enter" /\ gate[task[c].at] # NoTask
NobodyStuck ==
    \A c \in Tasks : Waits(c) => \E d \in Tasks : task[d].pc \in InTransaction /\ ~Waits(d)

\* A claim is decided once and amplified once, under one version each, and the ledger only grows.
Course == {<<"NONE", "PENDING">>, <<"PENDING", "APPROVED">>, <<"PENDING", "REJECTED">>,
           <<"APPROVED", "AMPLIFIED">>}
DecisionStands(u) ==
    claim'[u] # claim[u] =>
        /\ <<claim[u].status, claim'[u].status>> \in Course
        /\ claim'[u].version = claim[u].version + 1
        /\ claim[u].status # "NONE" => claim'[u].by = claim[u].by

LedgerSafety ==
    /\ [](DecisionsArePaid /\ PaidWithinTier /\ NobodyStuck)
    /\ [][ledger \subseteq ledger' /\ \A u \in Urls : DecisionStands(u)]_pointsVars

\* The standings are what the ledger adds up to and the ranks are those of the standings,
\* although appends and rebuilds compute them from what was committed when they read.
StandingsFollowLedger == total = Totals(ledger) /\ rank = Ranks(total)
=============================================================================
