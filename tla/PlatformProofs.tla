--------------------------- MODULE PlatformProofs ---------------------------
(***************************************************************************)
(* Proofs about what the backends keep or ask of others while they serve,  *)
(* for any requests, replicas and faults.  Amplify's points and keys:      *)
(* decisions, ledger and standings agree, and a key's effect happens once. *)
(* The conference's flags: what a request is answered follows the table.   *)
(* Its schema capabilities: a query names only what exists.  Its AI        *)
(* client: callers are answered in time and truly.  The five share no      *)
(* state; the last section puts them together as MCPlatform does.          *)
(***************************************************************************)
EXTENDS MCPlatform, SumTheorems, FiniteSetTheorems, TLAPS

-----------------------------------------------------------------------------
(***************************************************************************)
(* Points: the inductive invariant.                                        *)
(***************************************************************************)

Statuses == {"NONE", "PENDING", "APPROVED", "REJECTED", "AMPLIFIED"}
Reading == {"read", "readAward", "readReversal"}
Later == {"enter"} \cup InTransaction
Paying == {"approve", "amplify", "reverse", "adjust"}
OwnRef(u) == AwardRef("OWN_POST", u)
TopRef(u) == AwardRef("OWN_POST_AMPLIFIED", u)
LedgerRow == [ref : Refs, whom : People, points : Int, reverses : Refs \cup {NoRef}]

ClaimsShape ==
    /\ claim \in [Urls -> [by : People \cup {NoOne}, status : Statuses, version : Nat]]
    /\ \A u \in Urls : IF claim[u].status = "NONE" THEN claim[u] = NoClaim ELSE claim[u].by \in People

\* A top-up brings its post to the better tier, or found the first award reversed.
TopUp(r) ==
    /\ r.reverses = NoRef /\ r.points > 0
    /\ \/ r.points = OwnPostAmplified - OwnPost
       \/ r.points = OwnPostAmplified /\ \E u \in Urls : r.ref = TopRef(u) /\ Reversed(OwnRef(u))
Reverses(r) == \E o \in ledger : o.ref = r.reverses /\ o.reverses = NoRef /\ r.points = -o.points

\* What a row of the ledger, or one that is about to be, says.
Sound(r) ==
    /\ r \in LedgerRow
    /\ \A u \in Urls : /\ r.ref = OwnRef(u) => r.points = OwnPost /\ r.reverses = NoRef
                       /\ r.ref = TopRef(u) => TopUp(r)
    /\ r.reverses # NoRef => Reverses(r)
LedgerSound ==
    /\ \A r \in ledger : Sound(r)
    /\ \A r, s \in ledger : Conflicts(r, s) => r = s

\* Where a call is goes with what it asks for.
Placed(t) ==
    /\ t = [pc |-> t.pc, cmd |-> t.cmd, at |-> t.at, seen |-> t.seen, net |-> t.net, row |-> t.row,
            board |-> t.board]
    /\ t.pc \in {"idle", "done"} \cup Reading \cup Later
    /\ t.pc \in Reading \cup Later => t.cmd \in Commands /\ t.at \in Processes
    /\ t.pc \in {"read", "update"} => t.cmd.op \in Deciding \cup {"submit"}
    /\ t.pc \in {"readAward", "readReversal"} => t.cmd.op \in {"amplify", "reverse"}
    /\ t.pc = "insert" => t.cmd.op \in Paying
    /\ t.pc = "lock" => t.cmd.op \in Paying \cup {"rebuild"}

\* A decision remembers a version of its claim that allowed it.
Remembers(t) ==
    t.cmd.op \in Deciding /\ t.pc \in Later \cup {"readAward", "readReversal"} =>
        /\ t.seen.by \in People /\ t.seen.version \in Nat /\ MayDecide(t.cmd, t.seen)
        /\ t.seen.version <= claim[t.cmd.url].version
        /\ t.seen.version = claim[t.cmd.url].version => t.seen = claim[t.cmd.url]

\* The row a call is about to write, and what its reads found.
RowReady(t) ==
    /\ t.cmd.op = "approve" /\ t.pc \in Later =>
            t.row = Award("OWN_POST", t.cmd.url, t.seen.by, OwnPost)
    /\ t.cmd.op = "amplify" /\ t.pc \in {"readAward", "readReversal"} => Has(OwnRef(t.cmd.url))
    /\ t.cmd.op = "amplify" /\ t.pc = "readReversal" => t.net = OwnPost
    /\ t.cmd.op = "amplify" /\ t.pc \in Later =>
            t.row.ref = TopRef(t.cmd.url) /\ t.row.whom = t.seen.by
    /\ t.cmd.op = "reverse" /\ t.pc = "readReversal" => Has(t.cmd.ref)
    /\ t.cmd.op \in {"reverse", "adjust"} /\ t.pc \in {"insert", "lock", "commit"} =>
            \A u \in Urls : t.row.ref # OwnRef(u) /\ t.row.ref # TopRef(u)
    /\ t.cmd.op = "reverse" /\ t.pc = "enter" =>
            \A u \in Urls : t.row.ref # OwnRef(u) /\ t.row.ref # TopRef(u)
    /\ t.cmd.op \in {"approve", "amplify", "reverse"} /\ t.pc \in Later => Sound(t.row)
    /\ t.cmd.op = "adjust" /\ t.pc \in {"insert", "lock", "commit"} => Sound(t.row)

\* The locks: the claim written is still the one that was read and nobody else writes it, and
\* the row inserted conflicts with nobody's.
Locked(c) ==
    /\ \A u \in Urls : HoldsClaim(c, u) =>
        /\ claim[u] = IF task[c].cmd.op = "submit" THEN NoClaim ELSE task[c].seen
        /\ \A d \in Tasks : HoldsClaim(d, u) => d = c
    /\ HoldsRow(c) =>
        /\ \A r \in ledger : ~Conflicts(task[c].row, r)
        /\ \A d \in Tasks \ {c} : HoldsRow(d) => ~Conflicts(task[c].row, task[d].row)

GateShape ==
    /\ gate \in [Processes -> Tasks \cup {NoTask}]
    /\ \A p \in Processes : gate[p] # NoTask =>
        task[gate[p]].at = p /\ task[gate[p]].pc \in InTransaction

CallsShape ==
    /\ task = [c \in Tasks |-> task[c]]
    /\ \A c \in Tasks : Placed(task[c]) /\ Remembers(task[c]) /\ RowReady(task[c]) /\ Locked(c)

PointsInv == ClaimsShape /\ LedgerSound /\ DecisionsArePaid /\ CallsShape /\ GateShape

-----------------------------------------------------------------------------
(***************************************************************************)
(* Names of awards and corrections, and what follows from the invariant.   *)
(***************************************************************************)

LEMMA RefsDiffer ==
    ASSUME NEW u \in Urls, NEW v \in Urls
    PROVE  /\ OwnRef(u) = OwnRef(v) => u = v
           /\ TopRef(u) = TopRef(v) => u = v
           /\ OwnRef(u) # TopRef(v)
           /\ OwnRef(u) \in Refs /\ TopRef(u) \in Refs /\ NoRef \notin Refs
           /\ \A c \in Tasks : /\ CorrectionRef(c) # OwnRef(u) /\ CorrectionRef(c) # TopRef(u)
                             /\ CorrectionRef(c) \in Refs
BY PointsAssumption DEF OwnRef, TopRef, AwardRef, CorrectionRef, Refs

LEMMA NetOfAward ==
    ASSUME LedgerSound, NEW r \in ledger, r.reverses = NoRef, r.points \in Int
    PROVE  Net(r.ref) = IF Reversed(r.ref) THEN 0 ELSE r.points
<1>1. Has(r.ref) /\ Row(r.ref) = r
  BY DEF Has, Row, LedgerSound, Conflicts
<1>2. CASE ~Reversed(r.ref)
  <2>1. {s \in ledger : s.reverses = r.ref} = {}
    BY <1>2 DEF Reversed
  <2>2. QED
    BY <1>1, <1>2, <2>1 DEF Net
<1>3. CASE Reversed(r.ref)
  <2> DEFINE back == {s \in ledger : s.reverses = r.ref}
  <2>1. PICK b \in back : b = CHOOSE s \in back : TRUE
    BY <1>3 DEF Reversed
  <2>2. r.ref \in Refs
    BY DEF LedgerSound, Sound, LedgerRow
  <2>3. Reverses(b)
    BY <2>1, <2>2, PointsAssumption DEF LedgerSound, Sound
  <2>4. b.points = -r.points
    BY <2>1, <2>3 DEF Reverses, LedgerSound, Conflicts
  <2>5. QED
    BY <1>1, <1>3, <2>1, <2>4 DEF Net
<1>4. QED
  BY <1>2, <1>3

LEMMA TierKept == ASSUME LedgerSound PROVE PaidWithinTier
<1> USE PointsAssumption
<1>1. ASSUME NEW u \in Urls
      PROVE  Worth(u) >= 0 /\ (Worth(u) <= OwnPost \/ Worth(u) <= OwnPostAmplified)
  <2> DEFINE o == Net(OwnRef(u))  t == Net(TopRef(u))
  <2>1. o = 0 \/ (o = OwnPost /\ ~Reversed(OwnRef(u)))
    <3>1. CASE Has(OwnRef(u))
      <4>1. PICK r \in ledger : r.ref = OwnRef(u)
        BY <3>1 DEF Has
      <4>2. r.points = OwnPost /\ r.reverses = NoRef
        BY <4>1 DEF LedgerSound, Sound
      <4>3. QED
        BY <4>1, <4>2, NetOfAward
    <3>2. QED
      BY <3>1 DEF Net
  <2>2. \/ t = 0
        \/ t = OwnPostAmplified - OwnPost /\ t > 0
        \/ t = OwnPostAmplified /\ t > 0 /\ Reversed(OwnRef(u))
    <3>1. CASE Has(TopRef(u))
      <4>1. PICK r \in ledger : r.ref = TopRef(u)
        BY <3>1 DEF Has
      <4>2. TopUp(r) /\ r.points \in Int
        BY <4>1 DEF LedgerSound, Sound, LedgerRow
      <4>3. t = IF Reversed(r.ref) THEN 0 ELSE r.points
        BY <4>1, <4>2, NetOfAward DEF TopUp
      <4>4. r.points > 0 /\ (r.points = OwnPostAmplified - OwnPost
                \/ (r.points = OwnPostAmplified /\ Reversed(OwnRef(u))))
        BY <4>1, <4>2, RefsDiffer DEF TopUp
      <4>5. QED
        BY <4>3, <4>4
    <3>2. QED
      BY <3>1 DEF Net
  <2>3. Worth(u) = o + t
    BY DEF Worth, OwnRef, TopRef
  <2>4. QED
    BY <2>1, <2>2, <2>3
<1>2. QED
  BY <1>1 DEF PaidWithinTier, LedgerSound

\* Who waits for the gate waits for a transaction, who waits for a claim for one that wrote it,
\* who waits for a row for one that inserted it; and that one waits for nobody.
LEMMA SomebodyGoesOn == ASSUME PointsInv PROVE NobodyStuck
<1>1. ASSUME NEW c \in Tasks, HoldsRow(c) PROVE task[c].pc \in InTransaction /\ ~Waits(c)
  BY <1>1 DEF HoldsRow, Waits, InTransaction
<1>2. ASSUME NEW c \in Tasks, task[c].pc = "insert"
      PROVE  \E d \in Tasks : task[d].pc \in InTransaction /\ ~Waits(d)
  BY <1>1, <1>2 DEF Waits, InTransaction
<1>3. ASSUME NEW c \in Tasks, NEW u, HoldsClaim(c, u)
      PROVE  \E d \in Tasks : task[d].pc \in InTransaction /\ ~Waits(d)
  BY <1>2, <1>3 DEF HoldsClaim, Waits, InTransaction
<1>4. ASSUME NEW c \in Tasks, task[c].pc \in InTransaction
      PROVE  \E d \in Tasks : task[d].pc \in InTransaction /\ ~Waits(d)
  BY <1>1, <1>2, <1>3, <1>4 DEF Waits, InTransaction
<1>5. ASSUME NEW c \in Tasks, task[c].pc = "enter", gate[task[c].at] # NoTask
      PROVE  \E d \in Tasks : task[d].pc \in InTransaction
  <2>1. task[c].at \in Processes
    BY <1>5 DEF PointsInv, CallsShape, Placed, Later
  <2>2. QED
    BY <1>5, <2>1 DEF PointsInv, GateShape
<1>6. QED
  BY <1>2, <1>3, <1>4, <1>5 DEF NobodyStuck, Waits
-----------------------------------------------------------------------------
(***************************************************************************)
(* What a step does to the calls.                                          *)
(***************************************************************************)

LEMMA PointsInitially == ASSUME PointsInit PROVE PointsInv
<1> USE PointsAssumption
<1>1. ClaimsShape
  BY DEF PointsInit, ClaimsShape, Starts, NoClaim, Statuses
<1>2. \A r \in ledger : \E u \in Urls : /\ r = Award("OWN_POST", u, claim[u].by, OwnPost)
                                        /\ claim[u].status = "APPROVED"
  BY DEF PointsInit
<1>3. \A r \in ledger : \E u \in Urls : r.ref = OwnRef(u) /\ r.whom = claim[u].by /\ r.points = OwnPost
                                        /\ r.reverses = NoRef /\ r \in LedgerRow
  BY <1>1, <1>2, RefsDiffer DEF Award, OwnRef, ClaimsShape, LedgerRow
<1>4. LedgerSound
  <2>1. \A r \in ledger : Sound(r)
    BY <1>3, RefsDiffer DEF Sound
  <2>2. ASSUME NEW r \in ledger, NEW s \in ledger, Conflicts(r, s) PROVE r = s
    <3>1. PICK u \in Urls : r = Award("OWN_POST", u, claim[u].by, OwnPost)
      BY <1>2
    <3>2. PICK v \in Urls : s = Award("OWN_POST", v, claim[v].by, OwnPost)
      BY <1>2
    <3>3. OwnRef(u) = OwnRef(v)
      BY <2>2, <3>1, <3>2 DEF Conflicts, Award, OwnRef
    <3>4. QED
      BY <3>1, <3>2, <3>3, RefsDiffer
  <2>3. QED
    BY <2>1, <2>2 DEF LedgerSound
<1>5. DecisionsArePaid
  <2>1. ASSUME NEW u \in Urls, claim[u].status = "APPROVED" PROVE Has(OwnRef(u))
    <3>1. Award("OWN_POST", u, claim[u].by, OwnPost) \in ledger
      BY <2>1 DEF PointsInit
    <3>2. QED
      BY <3>1 DEF Has, OwnRef, Award
  <2>2. ASSUME NEW u \in Urls PROVE claim[u].status # "AMPLIFIED" /\ ~Has(TopRef(u))
    <3>1. claim[u].status # "AMPLIFIED"
      BY DEF PointsInit, Starts, NoClaim
    <3>2. \A r \in ledger : r.ref # TopRef(u)
      BY <1>3, RefsDiffer
    <3>3. QED
      BY <3>1, <3>2 DEF Has
  <2>3. ASSUME NEW u \in Urls, NEW r \in ledger, r.ref = OwnRef(u)
        PROVE  r.whom = claim[u].by /\ claim[u].status = "APPROVED"
    BY <1>2, <1>3, <2>3, RefsDiffer DEF Award, OwnRef
  <2>4. QED
    BY <2>1, <2>2, <2>3 DEF DecisionsArePaid, Has, OwnRef, TopRef
<1>6. CallsShape
  BY DEF PointsInit, CallsShape, Quiet, Placed, Remembers, RowReady, Locked, HoldsClaim, HoldsRow, Later,
         Reading, InTransaction
<1>7. GateShape
  BY DEF PointsInit, GateShape
<1>8. QED
  BY <1>1, <1>4, <1>5, <1>6, <1>7 DEF PointsInv

\* A call goes on, and everything but the calls and the gate stays.
LEMMA CallProceeds ==
    ASSUME PointsInv, NEW c \in Tasks, claim' = claim, ledger' = ledger,
           task' = [task EXCEPT ![c] = task'[c]],
           Placed(task[c])', Remembers(task[c])', RowReady(task[c])', Locked(c)', GateShape'
    PROVE  PointsInv'
<1>1. ClaimsShape' /\ LedgerSound' /\ DecisionsArePaid'
  BY DEF PointsInv, ClaimsShape, LedgerSound, Sound, TopUp, Reverses, Reversed, DecisionsArePaid, Has
<1>2. task' = [d \in Tasks |-> task'[d]] /\ \A d \in Tasks \ {c} : task'[d] = task[d]
  BY DEF PointsInv, CallsShape
<1>3. ASSUME NEW d \in Tasks \ {c} PROVE Placed(task[d])' /\ Remembers(task[d])' /\ RowReady(task[d])'
  <2>1. task'[d] = task[d] /\ Placed(task[d]) /\ Remembers(task[d]) /\ RowReady(task[d])
    BY <1>2 DEF PointsInv, CallsShape
  <2>2. Placed(task[d])'
    BY <2>1 DEF Placed
  <2>3. Remembers(task[d])'
    BY <2>1 DEF Remembers
  <2>4. RowReady(task[d])'
    BY <2>1 DEF RowReady, Sound, TopUp, Reverses, Reversed, Has
  <2>5. QED
    BY <2>2, <2>3, <2>4
<1>4. ASSUME NEW d \in Tasks \ {c} PROVE Locked(d)'
  <2>1. /\ \A u : HoldsClaim(d, u)' <=> HoldsClaim(d, u)
        /\ HoldsRow(d)' <=> HoldsRow(d)
        /\ task'[d] = task[d]
    BY <1>2 DEF HoldsClaim, HoldsRow
  <2>2. ASSUME NEW e \in Tasks \ {c}
        PROVE  /\ \A u : HoldsClaim(e, u)' <=> HoldsClaim(e, u)
               /\ HoldsRow(e)' <=> HoldsRow(e)
               /\ task'[e] = task[e]
    BY <1>2 DEF HoldsClaim, HoldsRow
  <2>3. ASSUME NEW u \in Urls, HoldsClaim(d, u)'
        PROVE  /\ claim'[u] = IF task'[d].cmd.op = "submit" THEN NoClaim ELSE task'[d].seen
               /\ \A e \in Tasks : HoldsClaim(e, u)' => e = d
    BY <2>1, <2>2, <2>3 DEF PointsInv, CallsShape, Locked
  <2>4. ASSUME HoldsRow(d)'
        PROVE  /\ \A r \in ledger' : ~Conflicts(task'[d].row, r)
               /\ \A e \in Tasks \ {d} : HoldsRow(e)' => ~Conflicts(task'[d].row, task'[e].row)
    <3>1. Locked(d)
      BY DEF PointsInv, CallsShape
    <3>2. HoldsRow(c)' => ~Conflicts(task'[d].row, task'[c].row)
      BY <2>4 DEF Locked, Conflicts
    <3>3. QED
      BY <2>1, <2>2, <2>4, <3>1, <3>2 DEF Locked, Conflicts
  <2>5. QED
    BY <2>3, <2>4 DEF Locked
<1>5. CallsShape'
  BY <1>2, <1>3, <1>4 DEF CallsShape
<1>6. QED
  BY <1>1, <1>5 DEF PointsInv

\* A call ends without having written: its locks and its place at the gate are free.
LEMMA CallEnds ==
    ASSUME PointsInv, NEW c \in Tasks, Ends(c), claim' = claim, ledger' = ledger,
           \/ task[c].pc \notin InTransaction /\ gate' = gate
           \/ gate' = [gate EXCEPT ![task[c].at] = NoTask]
    PROVE  PointsInv'
<1>1. task' = [task EXCEPT ![c] = task'[c]] /\ task'[c] = [Quiet EXCEPT !.pc = "done"]
  BY DEF Ends, Update, PointsInv, CallsShape
<1>2. Placed(task[c])' /\ Remembers(task[c])' /\ RowReady(task[c])' /\ Locked(c)'
  BY <1>1 DEF Quiet, Placed, Remembers, RowReady, Locked, HoldsClaim, HoldsRow, Reading, Later, InTransaction
<1>3. GateShape'
  BY <1>1, PointsAssumption DEF GateShape, PointsInv, CallsShape
<1>4. QED
  BY <1>1, <1>2, <1>3, CallProceeds

\* A call moves to pc and keeps the rest of its record.
LEMMA CallGoes ==
    ASSUME PointsInv, NEW c \in Tasks, NEW pc, Goes(c, pc)
    PROVE  /\ task' = [task EXCEPT ![c] = task'[c]]
           /\ task'[c] = [pc |-> pc, cmd |-> task[c].cmd, at |-> task[c].at, seen |-> task[c].seen,
                          net |-> task[c].net, row |-> task[c].row, board |-> task[c].board]
<1>1. task = [d \in Tasks |-> task[d]] /\ Placed(task[c])
  BY DEF PointsInv, CallsShape
<1>2. task'[c] = [task[c] EXCEPT !.pc = pc] /\ task' = [task EXCEPT ![c] = task'[c]]
  BY <1>1 DEF Goes, Update
<1>3. QED
  BY <1>1, <1>2 DEF Placed

-----------------------------------------------------------------------------
(***************************************************************************)
(* The invariant is kept by the steps that write nothing yet.              *)
(***************************************************************************)

\* Reads and steps in a transaction leave the gate as it was; who was in a transaction stays there.
LEMMA GateStays ==
    ASSUME PointsInv, NEW c \in Tasks, gate' = gate, task' = [task EXCEPT ![c] = task'[c]],
           task'[c].at = task[c].at, task[c].pc \in InTransaction => task'[c].pc \in InTransaction
    PROVE  GateShape'
BY PointsAssumption DEF PointsInv, GateShape, CallsShape

\* The end of a transaction frees the gate of its process; the other transactions keep theirs.
LEMMA GateFreed ==
    ASSUME PointsInv, NEW c \in Tasks, task' = [task EXCEPT ![c] = task'[c]],
           gate' = [gate EXCEPT ![task[c].at] = NoTask]
    PROVE  GateShape'
<1>1. gate \in [Processes -> Tasks \cup {NoTask}] /\ task = [d \in Tasks |-> task[d]] /\ NoTask \notin Tasks
  BY PointsAssumption DEF PointsInv, GateShape, CallsShape
<1>2. gate' \in [Processes -> Tasks \cup {NoTask}]
  BY <1>1
<1>3. ASSUME NEW p \in Processes, gate'[p] # NoTask
      PROVE  task'[gate'[p]].at = p /\ task'[gate'[p]].pc \in InTransaction
  <2>1. gate[p] # NoTask /\ gate'[p] = gate[p] /\ p # task[c].at
    BY <1>1, <1>3
  <2>2. gate[p] \in Tasks /\ task[gate[p]].at = p /\ task[gate[p]].pc \in InTransaction
    BY <1>1, <2>1 DEF PointsInv, GateShape
  <2>3. gate[p] # c /\ task'[gate[p]] = task[gate[p]]
    BY <1>1, <2>1, <2>2
  <2>4. QED
    BY <2>1, <2>2, <2>3
<1>4. QED
  BY <1>2, <1>3 DEF GateShape

\* A call that holds nothing yet has no lock to answer for.
LEMMA NothingHeld ==
    ASSUME NEW c \in Tasks, task'[c].pc \notin {"insert", "lock", "commit"}
    PROVE  Locked(c)'
BY DEF Locked, HoldsClaim, HoldsRow

LEMMA AskKeeps ==
    ASSUME PointsInv, NEW c \in Tasks, NEW m \in Commands, NEW p \in Processes, Ask(c, m, p)
    PROVE  PointsInv'
<1>1. Placed(task[c]) /\ task = [d \in Tasks |-> task[d]]
  BY DEF PointsInv, CallsShape
<1>2. /\ task' = [task EXCEPT ![c] = task'[c]]
      /\ task'[c].pc = CASE m.op \in Deciding \cup {"submit"} -> "read"
                         [] m.op = "reverse" -> "readAward"
                         [] OTHER -> "enter"
      /\ task'[c].cmd = m /\ task'[c].at = p
      /\ task'[c] = [pc |-> task'[c].pc, cmd |-> m, at |-> p, seen |-> task[c].seen, net |-> task[c].net,
                     row |-> task[c].row, board |-> task[c].board]
  <2> DEFINE to == CASE m.op \in Deciding \cup {"submit"} -> "read"
                     [] m.op = "reverse" -> "readAward"
                     [] OTHER -> "enter"
  <2>1. task' = [task EXCEPT ![c] = [task[c] EXCEPT !.cmd = m, !.at = p, !.pc = to]]
    BY DEF Ask, Update
  <2>2. /\ task' = [task EXCEPT ![c] = task'[c]]
        /\ task'[c] = [pc |-> to, cmd |-> m, at |-> p, seen |-> task[c].seen, net |-> task[c].net,
                       row |-> task[c].row, board |-> task[c].board]
    <3> HIDE DEF to
    <3>1. QED
      BY <1>1, <2>1 DEF Placed
  <2>3. QED
    BY <2>2
<1>3. Placed(task[c])' /\ Remembers(task[c])' /\ RowReady(task[c])' /\ Locked(c)'
  <2>1. m.op \in Ops
    BY PointsAssumption
  <2>2. task'[c].pc \in Reading \cup {"enter"} /\ task'[c].pc # "readReversal"
    BY <1>2, <2>1 DEF Reading, Ops
  <2>3. Placed(task[c])'
    BY <1>2, <2>1, <2>2 DEF Placed, Reading, Later, InTransaction, Ops, Deciding
  <2>4. Remembers(task[c])' /\ RowReady(task[c])'
    BY <1>2, <2>1 DEF Remembers, RowReady, Later, InTransaction, Ops, Deciding
  <2>5. QED
    BY <2>2, <2>3, <2>4, NothingHeld DEF Reading
<1>4. task[c].pc \notin InTransaction /\ GateShape'
  BY <1>1, <1>2, PointsAssumption DEF Ask, InTransaction, PointsInv, GateShape
<1>5. QED
  BY <1>2, <1>3, <1>4, CallProceeds DEF Ask

LEMMA ReadIsClaimedKeeps == ASSUME PointsInv, NEW c \in Tasks, ReadIsClaimed(c) PROVE PointsInv'
<1>1. CASE Ends(c)
  BY <1>1, CallEnds DEF ReadIsClaimed, InTransaction
<1>2. CASE Goes(c, "enter")
  <2>1. task[c].cmd.op = "submit" /\ task[c].pc = "read" /\ Placed(task[c])
    BY DEF ReadIsClaimed, PointsInv, CallsShape
  <2>5. /\ task' = [task EXCEPT ![c] = task'[c]]
        /\ task'[c] = [pc |-> "enter", cmd |-> task[c].cmd, at |-> task[c].at, seen |-> task[c].seen,
                       net |-> task[c].net, row |-> task[c].row, board |-> task[c].board]
    BY <1>2, CallGoes
  <2>2. Placed(task[c])' /\ Remembers(task[c])' /\ RowReady(task[c])' /\ Locked(c)'
    <3>1. Placed(task[c])'
      BY <2>1, <2>5 DEF Placed, Reading, Later, Deciding
    <3>2. Remembers(task[c])' /\ RowReady(task[c])'
      BY <2>1, <2>5 DEF Remembers, RowReady, Deciding
    <3>3. QED
      BY <2>5, <3>1, <3>2, NothingHeld
  <2>3. GateShape'
    BY <2>1, <2>5, GateStays DEF ReadIsClaimed, InTransaction
  <2>4. QED
    BY <2>2, <2>3, <2>5, CallProceeds DEF ReadIsClaimed
<1>3. QED
  BY <1>1, <1>2 DEF ReadIsClaimed

\* The row of an approval is the award, which is sound.
LEMMA ReadClaimKeeps == ASSUME PointsInv, NEW c \in Tasks, ReadClaim(c) PROVE PointsInv'
<1> DEFINE m == task[c].cmd
           k == claim[m.url]
<1>1. CASE Ends(c)
  BY <1>1, CallEnds DEF ReadClaim, InTransaction
<1>2. CASE ~Ends(c)
  <2>1. /\ m.op \in Deciding /\ task[c].pc = "read" /\ MayDecide(m, k) /\ m \in Commands /\ m.url \in Urls
        /\ task[c].at \in Processes /\ m.op \in Ops
    BY <1>2, PointsAssumption DEF ReadClaim, PointsInv, CallsShape, Placed, Reading
  <2>2. /\ task' = [task EXCEPT ![c] = task'[c]]
        /\ task'[c] = [pc |-> IF m.op = "amplify" THEN "readAward" ELSE "enter", cmd |-> m,
                       at |-> task[c].at, seen |-> k, net |-> task[c].net,
                       row |-> IF m.op = "approve" THEN Award("OWN_POST", m.url, k.by, OwnPost) ELSE NoRow,
                       board |-> task[c].board]
    <3>1. task = [d \in Tasks |-> task[d]] /\ Placed(task[c])
      BY DEF PointsInv, CallsShape
    <3>2. task' = [task EXCEPT ![c] = task'[c]] /\ task'[c] = [task[c] EXCEPT
                !.seen = k, !.pc = IF m.op = "amplify" THEN "readAward" ELSE "enter",
                !.row = IF m.op = "approve" THEN Award("OWN_POST", m.url, k.by, OwnPost) ELSE NoRow]
      BY <1>2, <3>1 DEF ReadClaim, Update
    <3>3. QED
      BY <3>1, <3>2 DEF Placed
  <2>3. k.by \in People /\ k.version \in Nat /\ k.status \in {"PENDING", "APPROVED"}
        /\ (m.op = "amplify" => Has(OwnRef(m.url)))
    BY <2>1 DEF MayDecide, PointsInv, ClaimsShape, DecisionsArePaid, OwnRef
  <2>4. ASSUME m.op = "approve" PROVE Sound(task[c].row)'
    <3>1. /\ task'[c].row = [ref |-> OwnRef(m.url), whom |-> k.by, points |-> OwnPost, reverses |-> NoRef]
          /\ task'[c].row \in LedgerRow
      BY <2>1, <2>2, <2>3, <2>4, RefsDiffer, PointsAssumption DEF Award, OwnRef, LedgerRow
    <3>2. QED
      BY <2>1, <3>1, RefsDiffer DEF Sound
  <2>5. Placed(task[c])'
    BY <2>1, <2>2 DEF Placed, Reading, Later
  <2>6. Remembers(task[c])'
    <3>1. task'[c].cmd = m /\ task'[c].seen = k /\ claim'[task'[c].cmd.url] = task'[c].seen
      BY <1>2, <2>2 DEF ReadClaim
    <3>2. task'[c].seen.by \in People /\ task'[c].seen.version \in Nat /\ MayDecide(task'[c].cmd, task'[c].seen)
      BY <2>1, <2>3, <3>1
    <3>3. QED
      BY <3>1, <3>2 DEF Remembers
  <2>7. RowReady(task[c])'
    <3>1. CASE m.op = "amplify"
      BY <2>1, <2>2, <2>3, <3>1 DEF RowReady, Has, ReadClaim, Later, InTransaction
    <3>2. CASE m.op = "approve"
      <4>1. /\ task'[c].row = Award("OWN_POST", task'[c].cmd.url, task'[c].seen.by, OwnPost)
            /\ task'[c].cmd.op = "approve"
        BY <2>2, <3>2
      <4>2. Sound(task[c].row)'
        BY <2>4, <3>2
      <4>3. QED
        BY <4>1, <4>2 DEF RowReady
    <3>3. CASE m.op = "reject"
      BY <2>1, <2>2, <3>3 DEF RowReady
    <3>4. QED
      BY <2>1, <3>1, <3>2, <3>3 DEF Deciding
  <2>8. Locked(c)' /\ GateShape'
    BY <2>1, <2>2, NothingHeld, GateStays DEF ReadClaim, InTransaction
  <2>9. QED
    BY <2>2, <2>5, <2>6, <2>7, <2>8, CallProceeds DEF ReadClaim
<1>3. QED
  BY <1>1, <1>2

\* An amplification finds the award of the claim it read approved.
LEMMA ReadOwnPostKeeps == ASSUME PointsInv, NEW c \in Tasks, ReadOwnPost(c) PROVE PointsInv'
<1> DEFINE ref == OwnRef(task[c].cmd.url)
           net == IF Has(ref) THEN Row(ref).points ELSE 0
<1>1. Placed(task[c]) /\ Remembers(task[c]) /\ RowReady(task[c]) /\ task = [d \in Tasks |-> task[d]]
      /\ task[c].cmd.op = "amplify" /\ task[c].pc = "readAward" /\ task[c].cmd.url \in Urls
  BY PointsAssumption DEF PointsInv, CallsShape, ReadOwnPost, Placed, Reading, Deciding
<1>2. net = OwnPost
  <2>1. Has(ref)
    BY <1>1 DEF RowReady
  <2>2. Row(ref) \in ledger /\ Row(ref).ref = ref
    BY <2>1 DEF Has, Row
  <2>3. QED
    BY <1>1, <2>1, <2>2 DEF PointsInv, LedgerSound, Sound
<1>3. /\ task' = [task EXCEPT ![c] = task'[c]]
      /\ task'[c] = [pc |-> "readReversal", cmd |-> task[c].cmd, at |-> task[c].at, seen |-> task[c].seen,
                     net |-> net, row |-> task[c].row, board |-> task[c].board]
  <2>1. task' = [task EXCEPT ![c] = [task[c] EXCEPT !.pc = "readReversal", !.net = net]]
    BY DEF ReadOwnPost, Update, OwnRef
  <2> HIDE DEF net
  <2>2. QED
    BY <1>1, <2>1 DEF Placed
<1>4. Placed(task[c])'
  BY <1>1, <1>3 DEF Placed, Reading
<1>5. Remembers(task[c])'
  BY <1>1, <1>3 DEF Remembers, ReadOwnPost
<1>6. RowReady(task[c])'
  <2> HIDE DEF net
  <2>1. QED
    BY <1>1, <1>2, <1>3 DEF RowReady, Has, ReadOwnPost, Later, InTransaction
<1>7. Locked(c)' /\ GateShape'
  <2> HIDE DEF net
  <2>1. QED
    BY <1>1, <1>3, NothingHeld, GateStays DEF ReadOwnPost, InTransaction
<1>8. QED
  BY <1>3, <1>4, <1>5, <1>6, <1>7, CallProceeds DEF ReadOwnPost

\* A reversal found after the award was read leaves nothing of it, so the top-up is the whole tier.
LEMMA ReadNetKeeps == ASSUME PointsInv, NEW c \in Tasks, ReadNet(c) PROVE PointsInv'
<1> DEFINE u == task[c].cmd.url
           back == {r \in ledger : r.reverses = OwnRef(u)}
           net == task[c].net + (IF back = {} THEN 0 ELSE (CHOOSE r \in back : TRUE).points)
           r0 == Award("OWN_POST_AMPLIFIED", u, task[c].seen.by, OwnPostAmplified - net)
<1>1. Placed(task[c]) /\ Remembers(task[c]) /\ RowReady(task[c]) /\ task = [d \in Tasks |-> task[d]]
      /\ task[c].cmd.op = "amplify" /\ task[c].pc = "readReversal" /\ u \in Urls
  BY PointsAssumption DEF PointsInv, CallsShape, ReadNet, Placed, Reading, Deciding
<1>2. net = OwnPost \/ (net = 0 /\ Reversed(OwnRef(u)))
  <2>1. task[c].net = OwnPost /\ Has(OwnRef(u))
    BY <1>1 DEF RowReady
  <2>2. ASSUME NEW b \in back PROVE b.points = -OwnPost /\ Reversed(OwnRef(u))
    <3>1. Reverses(b)
      BY <1>1, RefsDiffer DEF PointsInv, LedgerSound, Sound
    <3>2. PICK o \in ledger : o.ref = OwnRef(u) /\ b.points = -o.points
      BY <3>1 DEF Reverses
    <3>3. QED
      BY <1>1, <3>2 DEF PointsInv, LedgerSound, Sound, Reversed
  <2>3. back # {} => (CHOOSE r \in back : TRUE) \in back
    OBVIOUS
  <2>4. QED
    BY <2>1, <2>2, <2>3, PointsAssumption
<1>3. CASE Ends(c)
  BY <1>1, <1>3, CallEnds DEF ReadNet, InTransaction
<1>4. CASE ~Ends(c)
  <2>1. /\ OwnPostAmplified - net > 0
        /\ task' = [task EXCEPT ![c] = [task[c] EXCEPT !.pc = "enter", !.row = r0]]
    BY <1>4 DEF ReadNet, Update, OwnRef
  <2>2. /\ task' = [task EXCEPT ![c] = task'[c]]
        /\ task'[c] = [pc |-> "enter", cmd |-> task[c].cmd, at |-> task[c].at, seen |-> task[c].seen,
                       net |-> task[c].net, row |-> r0, board |-> task[c].board]
    <3> HIDE DEF r0
    <3>1. QED
      BY <1>1, <2>1 DEF Placed
  <2>3. Sound(r0) /\ r0.ref = TopRef(u) /\ r0.whom = task[c].seen.by
    <3> HIDE DEF net
    <3>1. /\ r0 = [ref |-> TopRef(u), whom |-> task[c].seen.by, points |-> OwnPostAmplified - net,
                   reverses |-> NoRef]
          /\ task[c].seen.by \in People
      BY <1>1 DEF Remembers, Deciding, Award, TopRef
    <3>2. r0 \in LedgerRow
      BY <1>1, <1>2, <3>1, RefsDiffer, PointsAssumption DEF LedgerRow
    <3>3. TopUp(r0)
      BY <1>1, <1>2, <2>1, <3>1, PointsAssumption DEF TopUp
    <3>4. QED
      BY <1>1, <3>1, <3>2, <3>3, RefsDiffer DEF Sound
  <2> HIDE DEF r0, net
  <2>4. Placed(task[c])'
    BY <1>1, <2>2 DEF Placed, Reading, Later
  <2>5. Remembers(task[c])'
    BY <1>1, <2>2 DEF Remembers, ReadNet, Later
  <2>6. RowReady(task[c])'
    <3>1. Sound(task[c].row)'
      BY <2>2, <2>3 DEF Sound, TopUp, Reverses, Reversed, ReadNet
    <3>2. QED
      BY <1>1, <2>2, <2>3, <3>1 DEF RowReady
  <2>7. Locked(c)' /\ GateShape'
    BY <1>1, <2>2, NothingHeld, GateStays DEF ReadNet, InTransaction
  <2>8. QED
    BY <2>2, <2>4, <2>5, <2>6, <2>7, CallProceeds DEF ReadNet
<1>5. QED
  BY <1>3, <1>4

LEMMA ReadOriginalKeeps == ASSUME PointsInv, NEW c \in Tasks, ReadOriginal(c) PROVE PointsInv'
<1>1. CASE Ends(c)
  BY <1>1, CallEnds DEF ReadOriginal, InTransaction
<1>2. CASE ~Ends(c)
  <2>1. task[c].cmd.op = "reverse" /\ task[c].pc = "readAward" /\ Placed(task[c]) /\ Has(task[c].cmd.ref)
    BY <1>2 DEF ReadOriginal, PointsInv, CallsShape
  <2>2. /\ task' = [task EXCEPT ![c] = task'[c]]
        /\ task'[c] = [pc |-> "readReversal", cmd |-> task[c].cmd, at |-> task[c].at, seen |-> task[c].seen,
                       net |-> task[c].net, row |-> task[c].row, board |-> task[c].board]
    BY <1>2, CallGoes DEF ReadOriginal
  <2>3. Placed(task[c])'
    BY <2>1, <2>2 DEF Placed, Reading
  <2>4. Remembers(task[c])' /\ RowReady(task[c])'
    BY <2>1, <2>2 DEF Remembers, RowReady, Deciding, Has, ReadOriginal, Later, InTransaction
  <2>5. Locked(c)' /\ GateShape'
    BY <2>1, <2>2, NothingHeld, GateStays DEF ReadOriginal, InTransaction
  <2>6. QED
    BY <2>2, <2>3, <2>4, <2>5, CallProceeds DEF ReadOriginal
<1>3. QED
  BY <1>1, <1>2

\* The correction takes back what its row gave.
LEMMA ReadReversalKeeps == ASSUME PointsInv, NEW c \in Tasks, ReadReversal(c) PROVE PointsInv'
<1> DEFINE m == task[c].cmd
           o == Row(m.ref)
           r0 == [ref |-> CorrectionRef(c), whom |-> o.whom, points |-> -o.points, reverses |-> m.ref]
<1>1. Placed(task[c]) /\ RowReady(task[c]) /\ task = [d \in Tasks |-> task[d]] /\ m.op = "reverse"
      /\ task[c].pc = "readReversal" /\ m.ref \in Refs
  BY PointsAssumption DEF PointsInv, CallsShape, ReadReversal, Placed, Reading
<1>2. CASE Ends(c)
  BY <1>1, <1>2, CallEnds DEF ReadReversal, InTransaction
<1>3. CASE ~Ends(c)
  <2>1. o.reverses = NoRef /\ task' = [task EXCEPT ![c] = [task[c] EXCEPT !.pc = "enter", !.row = r0]]
    BY <1>3 DEF ReadReversal, Update
  <2>2. /\ task' = [task EXCEPT ![c] = task'[c]]
        /\ task'[c] = [pc |-> "enter", cmd |-> m, at |-> task[c].at, seen |-> task[c].seen,
                       net |-> task[c].net, row |-> r0, board |-> task[c].board]
    <3> HIDE DEF r0
    <3>1. QED
      BY <1>1, <2>1 DEF Placed
  <2>3. o \in ledger /\ o.ref = m.ref /\ o \in LedgerRow
    BY <1>1 DEF RowReady, Has, Row, PointsInv, LedgerSound, Sound
  <2>4. Sound(r0) /\ \A u \in Urls : r0.ref # OwnRef(u) /\ r0.ref # TopRef(u)
    <3>1. r0 \in LedgerRow
      BY <1>1, <2>3, RefsDiffer DEF LedgerRow, Refs
    <3>2. Reverses(r0)
      BY <2>1, <2>3 DEF Reverses
    <3>3. \A u \in Urls : r0.ref # OwnRef(u) /\ r0.ref # TopRef(u)
      BY RefsDiffer
    <3>4. QED
      BY <3>1, <3>2, <3>3 DEF Sound
  <2> HIDE DEF r0
  <2>5. Placed(task[c])'
    BY <1>1, <2>2 DEF Placed, Reading, Later
  <2>6. Remembers(task[c])'
    BY <1>1, <2>2 DEF Remembers, Deciding
  <2>7. RowReady(task[c])'
    <3>1. Sound(task[c].row)'
      BY <2>2, <2>4 DEF Sound, TopUp, Reverses, Reversed, ReadReversal
    <3>2. QED
      BY <1>1, <2>2, <2>4, <3>1 DEF RowReady
  <2>8. Locked(c)' /\ GateShape'
    BY <1>1, <2>2, NothingHeld, GateStays DEF ReadReversal, InTransaction
  <2>9. QED
    BY <2>2, <2>5, <2>6, <2>7, <2>8, CallProceeds DEF ReadReversal
<1>4. QED
  BY <1>2, <1>3

\* A transaction begins at a free gate; only now is the row of an adjustment known.
LEMMA EnterKeeps == ASSUME PointsInv, NEW c \in Tasks, Enter(c) PROVE PointsInv'
<1> DEFINE m == task[c].cmd
           to == CASE m.op \in Deciding \cup {"submit"} -> "update"
                   [] m.op = "rebuild" -> "lock"
                   [] OTHER -> "insert"
           r0 == IF m.op = "adjust" THEN AdjustmentOf(c) ELSE task[c].row
<1>1. Placed(task[c]) /\ Remembers(task[c]) /\ RowReady(task[c]) /\ task = [d \in Tasks |-> task[d]]
      /\ task[c].pc = "enter" /\ m \in Commands /\ m.op \in Ops /\ task[c].at \in Processes
  BY PointsAssumption DEF PointsInv, CallsShape, Enter, Placed, Later
<1>2. /\ to \in {"update", "lock", "insert"}
      /\ to = "update" => m.op \in Deciding \cup {"submit"}
      /\ to = "lock" => m.op = "rebuild"
      /\ to = "insert" => m.op \in {"reverse", "adjust"}
  BY <1>1 DEF Ops
<1>3. m.op = "adjust" => Sound(r0) /\ \A u \in Urls : r0.ref # OwnRef(u) /\ r0.ref # TopRef(u)
  <2>1. SUFFICES ASSUME m.op = "adjust"
                 PROVE  Sound(r0) /\ \A u \in Urls : r0.ref # OwnRef(u) /\ r0.ref # TopRef(u)
    OBVIOUS
  <2>2. r0 = [ref |-> CorrectionRef(c), whom |-> m.whom, points |-> m.points, reverses |-> NoRef]
    BY <2>1 DEF AdjustmentOf
  <2>3. r0 \in LedgerRow
    BY <1>1, <2>1, <2>2, PointsAssumption DEF LedgerRow, Refs
  <2>4. QED
    BY <2>2, <2>3, RefsDiffer DEF Sound
<1>4. task' = [task EXCEPT ![c] = [task[c] EXCEPT !.pc = to, !.row = r0]]
  BY <1>1 DEF Enter, Update, Placed
<1> HIDE DEF to, r0
<1>5. /\ task' = [task EXCEPT ![c] = task'[c]]
      /\ task'[c] = [pc |-> to, cmd |-> m, at |-> task[c].at, seen |-> task[c].seen, net |-> task[c].net,
                     row |-> r0, board |-> task[c].board]
  BY <1>1, <1>4 DEF Placed
<1>6. Placed(task[c])'
  BY <1>1, <1>2, <1>5 DEF Placed, Later, Reading, InTransaction, Paying
<1>7. Remembers(task[c])'
  BY <1>1, <1>5 DEF Remembers, Enter, Later
<1>8. RowReady(task[c])'
  <2>1. Sound(r0) => Sound(task[c].row)'
    BY <1>5 DEF Sound, TopUp, Reverses, Reversed, Enter
  <2>2. m.op # "adjust" => r0 = task[c].row
    BY DEF r0
  <2>3. CASE m.op = "adjust"
    BY <1>3, <1>5, <2>1, <2>3 DEF RowReady
  <2>4. CASE m.op # "adjust"
    <3>1. task'[c].cmd.op # "adjust" /\ task'[c].row = task[c].row /\ task'[c].seen = task[c].seen
          /\ task'[c].cmd = task[c].cmd
      BY <1>5, <2>2, <2>4
    <3>2. QED
      BY <1>1, <1>2, <1>5, <2>1, <2>2, <2>4, <3>1 DEF RowReady, Later
  <2>5. QED
    BY <2>3, <2>4
<1>9. Locked(c)'
  BY <1>2, <1>5 DEF Locked, HoldsClaim, HoldsRow, Deciding
<1>10. GateShape'
  <2>1. gate' = [gate EXCEPT ![task[c].at] = c] /\ to \in InTransaction
    BY <1>2 DEF Enter, InTransaction
  <2>2. QED
    BY <1>1, <1>5, <2>1, PointsAssumption DEF PointsInv, GateShape, CallsShape, InTransaction
<1>11. QED
  BY <1>5, <1>6, <1>7, <1>8, <1>9, <1>10, CallProceeds DEF Enter

-----------------------------------------------------------------------------
(***************************************************************************)
(* The statements of a transaction.                                        *)
(***************************************************************************)

\* A call that moves within its transaction keeps what it remembers and its row.
LEMMA MovesOn ==
    ASSUME PointsInv, NEW c \in Tasks, claim' = claim, ledger' = ledger, gate' = gate,
           task[c].pc \in InTransaction, task'[c].pc \in {"insert", "lock", "commit"},
           task' = [task EXCEPT ![c] = task'[c]],
           task'[c] = [pc |-> task'[c].pc, cmd |-> task[c].cmd, at |-> task[c].at, seen |-> task[c].seen,
                       net |-> task[c].net, row |-> task[c].row, board |-> task'[c].board],
           task'[c].pc = "insert" => task[c].cmd.op \in Paying,
           task'[c].pc = "lock" => task[c].cmd.op \in Paying \cup {"rebuild"},
           Locked(c)'
    PROVE  PointsInv'
<1>1. Placed(task[c]) /\ Remembers(task[c]) /\ RowReady(task[c])
  BY DEF PointsInv, CallsShape
<1>2. /\ task'[c].cmd = task[c].cmd /\ task'[c].at = task[c].at
      /\ task'[c].seen = task[c].seen /\ task'[c].row = task[c].row
      /\ {task'[c].pc, task[c].pc} \subseteq Later /\ {task'[c].pc, task[c].pc} \cap Reading = {}
      /\ task'[c].pc \in InTransaction
  BY DEF Later, Reading, InTransaction
<1>3. Placed(task[c])'
  BY <1>1, <1>2 DEF Placed, Reading, Later, InTransaction
<1>4. Remembers(task[c])'
  BY <1>1, <1>2 DEF Remembers
<1>5. RowReady(task[c])'
  <2>1. Sound(task[c].row) => Sound(task[c].row)'
    BY <1>2 DEF Sound, TopUp, Reverses, Reversed
  <2>2. task[c].cmd.op \in {"reverse", "adjust"} => task[c].pc # "update"
    BY <1>1 DEF Placed, Deciding
  <2>3. QED
    BY <1>1, <1>2, <2>1, <2>2 DEF RowReady, Reading, InTransaction
<1>6. GateShape'
  BY <1>2, GateStays
<1>7. QED
  BY <1>3, <1>4, <1>5, <1>6, CallProceeds

\* The version read is the claim's: what is written follows what was read.
LEMMA WriteClaimKeeps == ASSUME PointsInv, NEW c \in Tasks, WriteClaim(c) PROVE PointsInv'
<1> DEFINE m == task[c].cmd
           to == IF m.op \in {"submit", "reject"} THEN "commit" ELSE "insert"
<1>1. Placed(task[c]) /\ Remembers(task[c]) /\ task[c].pc = "update" /\ m \in Commands
      /\ m.op \in Deciding \cup {"submit"} /\ m.url \in Urls /\ task = [d \in Tasks |-> task[d]]
  BY PointsAssumption DEF PointsInv, CallsShape, WriteClaim, Placed, Later, InTransaction
<1>2. CASE Rollback(c)
  BY <1>2, CallEnds DEF Rollback, EndTransaction
<1>3. CASE ~Rollback(c)
  <2>1. /\ Goes(c, to) /\ UNCHANGED <<claim, ledger, total, rank, gate, recognition>>
        /\ IF m.op = "submit" THEN claim[m.url].status = "NONE"
           ELSE claim[m.url].version = task[c].seen.version
        /\ \A d \in Tasks \ {c} : ~HoldsClaim(d, m.url)
    BY <1>3 DEF WriteClaim
  <2>2. claim[m.url] = IF m.op = "submit" THEN NoClaim ELSE task[c].seen
    BY <1>1, <2>1 DEF Remembers, Later, InTransaction, PointsInv, ClaimsShape
  <2>3. task'[c] = [pc |-> to, cmd |-> m, at |-> task[c].at, seen |-> task[c].seen,
                    net |-> task[c].net, row |-> task[c].row, board |-> task[c].board]
        /\ \A d \in Tasks \ {c} : task'[d] = task[d]
    BY <1>1, <2>1, CallGoes
  <2>4. Locked(c)'
    <3>1. \A u \in Urls : HoldsClaim(c, u)' => u = m.url
      BY <2>3 DEF HoldsClaim
    <3>2. \A d \in Tasks : HoldsClaim(d, m.url)' => d = c
      BY <2>1, <2>3 DEF HoldsClaim
    <3>3. ~HoldsRow(c)'
      BY <1>1, <2>3 DEF HoldsRow
    <3>4. QED
      BY <2>1, <2>2, <2>3, <3>1, <3>2, <3>3 DEF Locked
  <2>5. to \in {"commit", "insert"} /\ (to = "insert" => m.op \in Paying) /\ m.op # "adjust"
    BY <1>1 DEF Deciding, Paying
  <2>6. task' = [task EXCEPT ![c] = task'[c]]
    BY <2>1, CallGoes
  <2>7. QED
    BY <1>1, <2>1, <2>3, <2>4, <2>5, <2>6, MovesOn DEF InTransaction
<1>4. QED
  BY <1>2, <1>3

\* A row is inserted when nobody's row, committed or not, conflicts with it.
LEMMA InsertRowKeeps == ASSUME PointsInv, NEW c \in Tasks, InsertRow(c) PROVE PointsInv'
<1>1. Placed(task[c]) /\ Locked(c) /\ task[c].pc = "insert" /\ task[c].cmd.op \in Paying
      /\ task = [d \in Tasks |-> task[d]]
  BY DEF PointsInv, CallsShape, InsertRow, Placed
<1>2. CASE Rollback(c)
  BY <1>2, CallEnds DEF Rollback, EndTransaction
<1>3. CASE ~Rollback(c)
  <2>1. /\ Goes(c, "lock") /\ UNCHANGED <<claim, ledger, total, rank, gate, recognition>>
        /\ \A r \in ledger : ~Conflicts(task[c].row, r)
        /\ \A d \in Tasks \ {c} : HoldsRow(d) => ~Conflicts(task[c].row, task[d].row)
    BY <1>3 DEF InsertRow
  <2>2. task'[c] = [pc |-> "lock", cmd |-> task[c].cmd, at |-> task[c].at, seen |-> task[c].seen,
                    net |-> task[c].net, row |-> task[c].row, board |-> task[c].board]
        /\ \A d \in Tasks \ {c} : task'[d] = task[d]
    BY <1>1, <2>1, CallGoes
  <2>3. Locked(c)'
    <3>1. \A u, d : d \in Tasks => (HoldsClaim(d, u)' <=> HoldsClaim(d, u))
      BY <1>1, <2>2 DEF HoldsClaim
    <3>2. \A d \in Tasks \ {c} : HoldsRow(d)' <=> HoldsRow(d)
      BY <2>2 DEF HoldsRow
    <3>3. QED
      BY <1>1, <2>1, <2>2, <3>1, <3>2 DEF Locked, Conflicts
  <2>4. task' = [task EXCEPT ![c] = task'[c]]
    BY <2>1, CallGoes
  <2>5. QED
    BY <1>1, <2>1, <2>2, <2>3, <2>4, MovesOn DEF InTransaction
<1>4. QED
  BY <1>2, <1>3

LEMMA LockRecognitionKeeps == ASSUME PointsInv, NEW c \in Tasks, LockRecognition(c) PROVE PointsInv'
<1>1. Placed(task[c]) /\ Locked(c) /\ task[c].pc = "lock" /\ task = [d \in Tasks |-> task[d]]
      /\ task[c].cmd.op \in Paying \cup {"rebuild"}
  BY DEF PointsInv, CallsShape, LockRecognition, Placed
<1>2. task' = [task EXCEPT ![c] = [task[c] EXCEPT !.pc = "commit", !.board = ReadsOf(c)]]
      /\ UNCHANGED <<claim, ledger, gate>>
  BY DEF LockRecognition, Update
<1>3. /\ task' = [task EXCEPT ![c] = task'[c]] /\ \A d \in Tasks \ {c} : task'[d] = task[d]
      /\ task'[c].pc = "commit"
      /\ task'[c] = [pc |-> task'[c].pc, cmd |-> task[c].cmd, at |-> task[c].at, seen |-> task[c].seen,
                     net |-> task[c].net, row |-> task[c].row, board |-> task'[c].board]
  BY <1>1, <1>2 DEF Placed
<1>4. Locked(c)'
  <2>1. \A u, d : d \in Tasks => (HoldsClaim(d, u)' <=> HoldsClaim(d, u))
    BY <1>1, <1>3 DEF HoldsClaim
  <2>2. \A d \in Tasks : HoldsRow(d)' <=> HoldsRow(d)
    BY <1>1, <1>3 DEF HoldsRow
  <2>3. \A d \in Tasks : /\ task'[d].row = task[d].row /\ task'[d].cmd = task[d].cmd
                         /\ task'[d].seen = task[d].seen
    BY <1>3
  <2>4. QED
    BY <1>1, <1>2, <2>1, <2>2, <2>3 DEF Locked
<1>5. QED
  BY <1>1, <1>2, <1>3, <1>4, MovesOn DEF InTransaction

-----------------------------------------------------------------------------
(***************************************************************************)
(* The commit: a claim, its row and the standings change together.         *)
(***************************************************************************)

\* What a commit writes: the claim it holds moves one version on, and its row joins the ledger.
LEMMA CommitWrites ==
    ASSUME PointsInv, NEW c \in Tasks, Commit(c)
    PROVE  /\ \A u \in Urls :
                claim'[u] = IF HoldsClaim(c, u) THEN Decided(claim[u], task[c].cmd) ELSE claim[u]
           /\ claim' = [u \in Urls |-> claim'[u]]
           /\ HoldsRow(c) <=> task[c].cmd.op \in Paying
           /\ ledger' = IF HoldsRow(c) THEN ledger \cup {task[c].row} ELSE ledger
           /\ task' = [task EXCEPT ![c] = task'[c]] /\ task'[c] = [Quiet EXCEPT !.pc = "done"]
           /\ gate' = [gate EXCEPT ![task[c].at] = NoTask]
<1> DEFINE m == task[c].cmd
<1>1. task[c].pc = "commit" /\ Locked(c) /\ Placed(task[c]) /\ task = [d \in Tasks |-> task[d]]
      /\ claim = [u \in Urls |-> claim[u]] /\ m \in Commands /\ m.op \in Ops
      /\ (m.op \in Deciding \cup {"submit"} => m.url \in Urls)
  BY PointsAssumption DEF PointsInv, CallsShape, ClaimsShape, Commit, Placed, Later, InTransaction
<1>2. \A u : HoldsClaim(c, u) <=> (m.op \in Deciding \cup {"submit"} /\ m.url = u)
  BY <1>1 DEF HoldsClaim
<1>3. CASE m.op \in Deciding \cup {"submit"}
  <2>1. claim' = [claim EXCEPT ![m.url] = Decided(IF m.op = "submit" THEN @ ELSE task[c].seen, m)]
    BY <1>3 DEF Commit
  <2>2. claim[m.url] = IF m.op = "submit" THEN NoClaim ELSE task[c].seen
    BY <1>1, <1>2, <1>3 DEF Locked
  <2>3. claim' = [claim EXCEPT ![m.url] = Decided(claim[m.url], m)]
    BY <2>1, <2>2
  <2>4. QED
    BY <1>1, <1>2, <1>3, <2>3 DEF Commit, EndTransaction, Ends, Update, HoldsRow, Paying
<1>4. CASE m.op \notin Deciding \cup {"submit"}
  <2>1. claim' = claim
    BY <1>4 DEF Commit
  <2>2. QED
    BY <1>1, <1>2, <1>4, <2>1 DEF Commit, EndTransaction, Ends, Update, HoldsRow, Paying
<1>5. QED
  BY <1>3, <1>4

\* How a held claim moves on.
LEMMA ClaimMoves ==
    ASSUME PointsInv, NEW c \in Tasks, task[c].pc = "commit", NEW u \in Urls, HoldsClaim(c, u)
    PROVE  LET m == task[c].cmd  k == claim[u]  l == Decided(k, m) IN
           /\ k.version \in Nat /\ l.version = k.version + 1 /\ m.by \in People /\ l.by \in People
           /\ k.status = (IF m.op = "submit" THEN "NONE" ELSE IF m.op = "amplify" THEN "APPROVED" ELSE "PENDING")
           /\ l.status = CASE m.op = "submit" -> "PENDING" [] m.op = "approve" -> "APPROVED"
                           [] m.op = "reject" -> "REJECTED" [] m.op = "amplify" -> "AMPLIFIED"
           /\ m.op # "submit" => l.by = k.by /\ k = task[c].seen
           /\ m.op = "submit" => k = NoClaim
           /\ l \in [by : People, status : Statuses, version : Nat]
<1> DEFINE m == task[c].cmd
           k == claim[u]
<1>1. m.op \in Deciding \cup {"submit"} /\ m.url = u /\ m.by \in People
      /\ k \in [by : People \cup {NoOne}, status : Statuses, version : Nat]
      /\ k = IF m.op = "submit" THEN NoClaim ELSE task[c].seen
  BY PointsAssumption DEF HoldsClaim, PointsInv, CallsShape, ClaimsShape, Locked, Placed, Later, InTransaction
<1>2. CASE m.op = "submit"
  BY <1>1, <1>2 DEF Decided, NoClaim, Statuses
<1>3. CASE m.op # "submit"
  <2>1. k.by \in People /\ MayDecide(m, k) /\ m.op \in Deciding
    BY <1>1, <1>3 DEF PointsInv, CallsShape, Remembers, Later, InTransaction
  <2>2. CASE m.op = "approve"
    <3>1. Decided(k, m) = [by |-> k.by, status |-> "APPROVED", version |-> k.version + 1]
      BY <1>1, <2>2 DEF Decided
    <3>2. QED
      BY <1>1, <2>1, <2>2, <3>1 DEF MayDecide, Statuses
  <2>3. CASE m.op = "reject"
    <3>1. Decided(k, m) = [by |-> k.by, status |-> "REJECTED", version |-> k.version + 1]
      BY <1>1, <2>3 DEF Decided
    <3>2. QED
      BY <1>1, <2>1, <2>3, <3>1 DEF MayDecide, Statuses
  <2>4. CASE m.op = "amplify"
    <3>1. Decided(k, m) = [by |-> k.by, status |-> "AMPLIFIED", version |-> k.version + 1]
      BY <1>1, <2>4 DEF Decided
    <3>2. QED
      BY <1>1, <2>1, <2>4, <3>1 DEF MayDecide, Statuses
  <2>5. QED
    BY <2>1, <2>2, <2>3, <2>4 DEF Deciding
<1>4. QED
  BY <1>2, <1>3

\* The new row is sound, or there is none, and it conflicts with no other.
LEMMA LedgerGrows ==
    ASSUME PointsInv, NEW c \in Tasks, Commit(c)
    PROVE  /\ \A r : Sound(r) => Sound(r)'
           /\ LedgerSound'
           /\ ledger \subseteq ledger'
<1>1. ledger \subseteq ledger' /\ ledger' \subseteq ledger \cup {task[c].row}
      /\ (~HoldsRow(c) => ledger' = ledger) /\ (HoldsRow(c) => task[c].row \in ledger')
  BY CommitWrites
<1>2. ASSUME NEW r, Sound(r) PROVE Sound(r)'
  BY <1>1, <1>2 DEF Sound, TopUp, Reverses, Reversed
<1>3. CASE HoldsRow(c)
  <2>1. Sound(task[c].row)
    BY <1>3 DEF PointsInv, CallsShape, RowReady, HoldsRow, Later, InTransaction
  <2>2. \A r \in ledger : ~Conflicts(task[c].row, r) /\ ~Conflicts(r, task[c].row)
    BY <1>3 DEF PointsInv, CallsShape, Locked, Conflicts
  <2>3. \A r \in ledger' : Sound(r)'
    BY <1>1, <1>2, <2>1 DEF PointsInv, LedgerSound
  <2>4. \A r, s \in ledger' : Conflicts(r, s) => r = s
    BY <1>1, <2>2 DEF PointsInv, LedgerSound
  <2>5. QED
    BY <1>1, <1>2, <2>3, <2>4 DEF LedgerSound, Conflicts
<1>4. CASE ~HoldsRow(c)
  BY <1>1, <1>2, <1>4 DEF PointsInv, LedgerSound, Conflicts
<1>5. QED
  BY <1>3, <1>4

LEMMA CommitKeepsClaims == ASSUME PointsInv, NEW c \in Tasks, Commit(c) PROVE ClaimsShape'
<1> USE DEF Commit
<1>1. claim' = [u \in Urls |-> claim'[u]]
  BY CommitWrites
<1>2. ASSUME NEW u \in Urls
      PROVE  /\ claim'[u] \in [by : People \cup {NoOne}, status : Statuses, version : Nat]
             /\ IF claim'[u].status = "NONE" THEN claim'[u] = NoClaim ELSE claim'[u].by \in People
  <2>1. CASE HoldsClaim(c, u)
    <3> DEFINE l == Decided(claim[u], task[c].cmd)
    <3>1. /\ l \in [by : People, status : Statuses, version : Nat] /\ l.status # "NONE"
          /\ l.by \in People
      BY <2>1, ClaimMoves DEF HoldsClaim, Deciding
    <3>2. claim'[u] = l
      BY <2>1, CommitWrites
    <3> HIDE DEF l
    <3>3. QED
      BY <3>1, <3>2
  <2>2. CASE ~HoldsClaim(c, u)
    <3>1. claim'[u] = claim[u]
      BY <2>2, CommitWrites
    <3>2. QED
      BY <3>1 DEF PointsInv, ClaimsShape
  <2>3. QED
    BY <2>1, <2>2
<1>3. QED
  BY <1>1, <1>2 DEF ClaimsShape

\* The row that goes with a decision is its award, and no other call's row is an award.
LEMMA RowOfDecision ==
    ASSUME PointsInv, NEW c \in Tasks, HoldsRow(c), NEW u \in Urls
    PROVE  /\ task[c].row.ref = OwnRef(u) <=> task[c].cmd.op = "approve" /\ task[c].cmd.url = u
           /\ task[c].row.ref = TopRef(u) <=> task[c].cmd.op = "amplify" /\ task[c].cmd.url = u
           /\ task[c].row.ref \in {OwnRef(u), TopRef(u)} => task[c].row.whom = task[c].seen.by
<1> DEFINE m == task[c].cmd
<1>1. RowReady(task[c]) /\ Placed(task[c]) /\ m \in Commands /\ task[c].pc \in {"lock", "commit"}
      /\ task[c].pc \in Later /\ m.op \in Paying /\ (m.op \in {"approve", "amplify"} => m.url \in Urls)
  BY PointsAssumption DEF HoldsRow, PointsInv, CallsShape, Placed, Later, InTransaction, Paying, Deciding
<1>2. CASE m.op = "approve"
  <2>1. task[c].row.ref = OwnRef(m.url) /\ task[c].row.whom = task[c].seen.by /\ m.url \in Urls
    BY <1>1, <1>2 DEF RowReady, Award, OwnRef
  <2>2. QED
    BY <1>2, <2>1, RefsDiffer
<1>3. CASE m.op = "amplify"
  <2>1. task[c].row.ref = TopRef(m.url) /\ task[c].row.whom = task[c].seen.by /\ m.url \in Urls
    BY <1>1, <1>3 DEF RowReady
  <2>2. QED
    BY <1>3, <2>1, RefsDiffer
<1>4. CASE m.op \in {"reverse", "adjust"}
  BY <1>1, <1>4 DEF RowReady
<1>5. QED
  BY <1>1, <1>2, <1>3, <1>4 DEF Paying

\* Decision and award become visible together.
LEMMA CommitPays == ASSUME PointsInv, NEW c \in Tasks, Commit(c) PROVE DecisionsArePaid'
<1> DEFINE m == task[c].cmd
<1>1. task[c].pc = "commit" /\ (HoldsRow(c) <=> m.op \in Paying)
      /\ ledger' = (IF HoldsRow(c) THEN ledger \cup {task[c].row} ELSE ledger)
  BY CommitWrites DEF Commit
<1>2. SUFFICES ASSUME NEW u \in Urls
      PROVE  /\ claim'[u].status \in {"APPROVED", "AMPLIFIED"} <=> Has(OwnRef(u))'
             /\ claim'[u].status = "AMPLIFIED" <=> Has(TopRef(u))'
             /\ \A r \in ledger' : r.ref \in {OwnRef(u), TopRef(u)} => r.whom = claim'[u].by
  BY DEF DecisionsArePaid, OwnRef, TopRef
<1>3. /\ claim[u].status \in {"APPROVED", "AMPLIFIED"} <=> Has(OwnRef(u))
      /\ claim[u].status = "AMPLIFIED" <=> Has(TopRef(u))
      /\ \A r \in ledger : r.ref \in {OwnRef(u), TopRef(u)} => r.whom = claim[u].by
  BY DEF PointsInv, DecisionsArePaid, OwnRef, TopRef
<1>4. /\ Has(OwnRef(u))' <=> Has(OwnRef(u)) \/ (m.op = "approve" /\ m.url = u)
      /\ Has(TopRef(u))' <=> Has(TopRef(u)) \/ (m.op = "amplify" /\ m.url = u)
  BY <1>1, RowOfDecision DEF Has, Paying, OwnRef, TopRef
<1>5. HoldsClaim(c, u) <=> m.op \in Deciding \cup {"submit"} /\ m.url = u
  BY <1>1 DEF HoldsClaim
<1>6. CASE HoldsClaim(c, u)
  <2> DEFINE l == Decided(claim[u], m)
  <2>1. claim'[u] = l
    BY <1>6, CommitWrites
  <2>2. /\ claim[u].status = (IF m.op = "submit" THEN "NONE" ELSE IF m.op = "amplify" THEN "APPROVED" ELSE "PENDING")
        /\ l.status = CASE m.op = "submit" -> "PENDING" [] m.op = "approve" -> "APPROVED"
                        [] m.op = "reject" -> "REJECTED" [] m.op = "amplify" -> "AMPLIFIED"
        /\ m.op # "submit" => l.by = claim[u].by /\ claim[u] = task[c].seen
    BY <1>1, <1>6, ClaimMoves
  <2> HIDE DEF l
  <2>3. /\ claim'[u].status \in {"APPROVED", "AMPLIFIED"} <=> Has(OwnRef(u))'
        /\ claim'[u].status = "AMPLIFIED" <=> Has(TopRef(u))'
    BY <1>3, <1>4, <1>5, <1>6, <2>1, <2>2 DEF Deciding
  <2>4. ASSUME NEW r \in ledger', r.ref \in {OwnRef(u), TopRef(u)} PROVE r.whom = claim'[u].by
    <3>1. CASE r \in ledger
      <4>1. Has(OwnRef(u)) \/ Has(TopRef(u))
        BY <2>4, <3>1 DEF Has
      <4>2. m.op # "submit"
        BY <1>3, <2>2, <4>1
      <4>3. QED
        BY <1>3, <2>1, <2>2, <2>4, <3>1, <4>2
    <3>2. CASE r \notin ledger
      <4>1. HoldsRow(c) /\ r = task[c].row
        BY <1>1, <3>2
      <4>2. r.whom = task[c].seen.by /\ m.op # "submit"
        BY <1>1, <2>4, <4>1, RowOfDecision DEF Paying
      <4>3. QED
        BY <2>1, <2>2, <4>2
    <3>3. QED
      BY <3>1, <3>2
  <2>5. QED
    BY <2>3, <2>4
<1>7. CASE ~HoldsClaim(c, u)
  <2>1. claim'[u] = claim[u]
    BY <1>7, CommitWrites
  <2>2. HoldsRow(c) => task[c].row.ref \notin {OwnRef(u), TopRef(u)}
    BY <1>5, <1>7, RowOfDecision DEF Deciding
  <2>3. QED
    BY <1>1, <1>3, <1>4, <1>5, <1>7, <2>1, <2>2 DEF Deciding
<1>8. QED
  BY <1>6, <1>7

\* The other calls: a version they remember stays behind, what they found stays found, and what
\* they hold was neither decided nor written by this commit.
LEMMA CommitKeepsCalls == ASSUME PointsInv, NEW c \in Tasks, Commit(c) PROVE CallsShape'
<1>1. task = [d \in Tasks |-> task[d]] /\ task' = [task EXCEPT ![c] = task'[c]]
      /\ task'[c] = [Quiet EXCEPT !.pc = "done"] /\ \A d \in Tasks \ {c} : task'[d] = task[d]
  BY CommitWrites DEF PointsInv, CallsShape
<1>2. Placed(task[c])' /\ Remembers(task[c])' /\ RowReady(task[c])' /\ Locked(c)'
  BY <1>1 DEF Quiet, Placed, Remembers, RowReady, Locked, HoldsClaim, HoldsRow, Reading, Later, InTransaction
<1>3. ASSUME NEW d \in Tasks \ {c} PROVE Placed(task[d])' /\ Remembers(task[d])' /\ RowReady(task[d])' /\ Locked(d)'
  <2>1. task'[d] = task[d] /\ Placed(task[d]) /\ Remembers(task[d]) /\ RowReady(task[d]) /\ Locked(d)
    BY <1>1 DEF PointsInv, CallsShape
  <2>2. Placed(task[d])'
    BY <2>1 DEF Placed
  <2>3. Remembers(task[d])'
    <3>1. SUFFICES ASSUME task[d].cmd.op \in Deciding, task[d].pc \in Later \cup {"readAward", "readReversal"}
          PROVE  LET k == claim'[task[d].cmd.url] IN
                 task[d].seen.version <= k.version /\ (task[d].seen.version = k.version => task[d].seen = k)
      BY <2>1 DEF Remembers
    <3> DEFINE u == task[d].cmd.url
    <3>2. u \in Urls /\ task[d].seen.version \in Nat /\ task[d].seen.version <= claim[u].version
          /\ (task[d].seen.version = claim[u].version => task[d].seen = claim[u])
      BY <2>1, <3>1, PointsAssumption DEF Placed, Remembers, Reading
    <3>3. CASE HoldsClaim(c, u)
      <4>1. claim'[u].version = claim[u].version + 1 /\ claim[u].version \in Nat
        <5>1. task[c].pc = "commit" /\ claim'[u] = Decided(claim[u], task[c].cmd)
          BY <3>2, <3>3, CommitWrites DEF Commit
        <5>2. QED
          BY <3>2, <3>3, <5>1, ClaimMoves
      <4>2. QED
        BY <3>2, <4>1
    <3>4. CASE ~HoldsClaim(c, u)
      BY <3>2, <3>4, CommitWrites
    <3>5. QED
      BY <3>3, <3>4
  <2>4. RowReady(task[d])'
    <3>1. \A ref : Has(ref) => Has(ref)'
      BY LedgerGrows DEF Has
    <3>2. Sound(task[d].row) => Sound(task[d].row)'
      BY <2>1, LedgerGrows
    <3>3. QED
      BY <2>1, <3>1, <3>2 DEF RowReady
  <2>5. Locked(d)'
    <3>1. \A e \in Tasks : HoldsRow(e)' => e # c /\ HoldsRow(e) /\ task'[e].row = task[e].row
      BY <1>1 DEF HoldsRow, Quiet
    <3>2. \A e \in Tasks : \A u : HoldsClaim(e, u)' => e # c /\ HoldsClaim(e, u)
      BY <1>1 DEF HoldsClaim, Quiet
    <3>3. ASSUME NEW u \in Urls, HoldsClaim(d, u)'
          PROVE  /\ claim'[u] = IF task'[d].cmd.op = "submit" THEN NoClaim ELSE task'[d].seen
                 /\ \A e \in Tasks : HoldsClaim(e, u)' => e = d
      <4>1. HoldsClaim(d, u) /\ ~HoldsClaim(c, u)
        BY <2>1, <3>2, <3>3 DEF Locked
      <4>2. claim'[u] = claim[u]
        BY <4>1, CommitWrites
      <4>3. QED
        BY <2>1, <3>2, <4>1, <4>2 DEF Locked
    <3>4. ASSUME HoldsRow(d)'
          PROVE  /\ \A r \in ledger' : ~Conflicts(task'[d].row, r)
                 /\ \A e \in Tasks \ {d} : HoldsRow(e)' => ~Conflicts(task'[d].row, task'[e].row)
      <4>1. /\ HoldsRow(d)
            /\ \A r \in ledger : ~Conflicts(task[d].row, r)
            /\ \A e \in Tasks \ {d} : HoldsRow(e) => ~Conflicts(task[d].row, task[e].row)
        BY <2>1, <3>1, <3>4 DEF Locked
      <4>2. \A r \in ledger' : r \in ledger \/ (HoldsRow(c) /\ r = task[c].row)
        BY CommitWrites
      <4>3. \A r \in ledger' : ~Conflicts(task[d].row, r)
        BY <4>1, <4>2
      <4>4. \A e \in Tasks \ {d} : HoldsRow(e)' => ~Conflicts(task[d].row, task'[e].row)
        BY <3>1, <4>1
      <4>5. QED
        BY <2>1, <4>3, <4>4
    <3>5. QED
      BY <3>3, <3>4 DEF Locked, Conflicts
  <2>6. QED
    BY <2>2, <2>3, <2>4, <2>5
<1>4. QED
  BY <1>1, <1>2, <1>3 DEF CallsShape

LEMMA CommitKeeps == ASSUME PointsInv, NEW c \in Tasks, Commit(c) PROVE PointsInv'
<1>1. GateShape'
  <2>1. task' = [task EXCEPT ![c] = task'[c]] /\ gate' = [gate EXCEPT ![task[c].at] = NoTask]
    BY CommitWrites
  <2>2. QED
    BY <2>1, GateFreed
<1>2. QED
  BY <1>1, CommitKeepsClaims, LedgerGrows, CommitPays, CommitKeepsCalls DEF PointsInv

-----------------------------------------------------------------------------
(***************************************************************************)
(* The theorem.                                                            *)
(***************************************************************************)

LEMMA PointsStep == ASSUME PointsInv, [PointsNext]_pointsVars PROVE PointsInv'
<1>1. ASSUME NEW c \in Tasks, RefuseAdjustment(c) PROVE PointsInv'
  BY <1>1, CallEnds DEF RefuseAdjustment, InTransaction
<1>2. ASSUME NEW c \in Tasks, GiveUp(c) \/ Fail(c) PROVE PointsInv'
  BY <1>2, CallEnds DEF GiveUp, Fail, Rollback, EndTransaction, InTransaction
<1>3. ASSUME UNCHANGED pointsVars PROVE PointsInv'
  <2>1. ClaimsShape' /\ LedgerSound' /\ DecisionsArePaid'
    BY <1>3 DEF pointsVars, PointsInv, ClaimsShape, LedgerSound, Sound, TopUp, Reverses, Reversed,
       DecisionsArePaid, Has
  <2>2. \A c \in Tasks : Placed(task[c])' /\ Remembers(task[c])' /\ RowReady(task[c])'
    BY <1>3 DEF pointsVars, PointsInv, CallsShape, Placed, Remembers, RowReady, Sound, TopUp, Reverses,
       Reversed, Has
  <2>3. \A c \in Tasks : Locked(c)'
    BY <1>3 DEF pointsVars, PointsInv, CallsShape, Locked, HoldsClaim, HoldsRow, Conflicts
  <2>4. GateShape'
    BY <1>3 DEF pointsVars, PointsInv, GateShape
  <2>5. QED
    BY <1>3, <2>1, <2>2, <2>3, <2>4 DEF pointsVars, PointsInv, CallsShape
<1>4. QED
  BY <1>1, <1>2, <1>3, AskKeeps, ReadIsClaimedKeeps, ReadClaimKeeps, ReadOwnPostKeeps, ReadNetKeeps,
     ReadOriginalKeeps, ReadReversalKeeps, EnterKeeps, WriteClaimKeeps, InsertRowKeeps,
     LockRecognitionKeeps, CommitKeeps DEF PointsNext

\* Only a commit changes claims or the ledger, by one decision and one row.
LEMMA StepDecides ==
    ASSUME PointsInv, [PointsNext]_pointsVars
    PROVE  ledger \subseteq ledger' /\ \A u \in Urls : DecisionStands(u)
<1>1. ASSUME NEW c \in Tasks, Commit(c) PROVE ledger \subseteq ledger' /\ \A u \in Urls : DecisionStands(u)
  <2>1. ledger \subseteq ledger'
    BY <1>1, LedgerGrows
  <2>2. ASSUME NEW u \in Urls, claim'[u] # claim[u] PROVE DecisionStands(u)
    <3> DEFINE m == task[c].cmd
               l == Decided(claim[u], m)
    <3>1. HoldsClaim(c, u) /\ claim'[u] = l
      BY <1>1, <2>2, CommitWrites
    <3>2. /\ l.version = claim[u].version + 1
          /\ claim[u].status = (IF m.op = "submit" THEN "NONE" ELSE IF m.op = "amplify" THEN "APPROVED" ELSE "PENDING")
          /\ l.status = CASE m.op = "submit" -> "PENDING" [] m.op = "approve" -> "APPROVED"
                          [] m.op = "reject" -> "REJECTED" [] m.op = "amplify" -> "AMPLIFIED"
          /\ m.op # "submit" => l.by = claim[u].by
      BY <1>1, <3>1, ClaimMoves DEF Commit
    <3>3. m.op \in Deciding \cup {"submit"}
      BY <3>1 DEF HoldsClaim
    <3> HIDE DEF l
    <3>4. <<claim[u].status, l.status>> \in Course
      BY <3>2, <3>3 DEF Course, Deciding
    <3>5. claim[u].status # "NONE" => l.by = claim[u].by
      BY <3>2
    <3>6. QED
      BY <3>1, <3>2, <3>4, <3>5 DEF DecisionStands
  <2>3. QED
    BY <2>1, <2>2 DEF DecisionStands
<1>2. CASE claim' = claim /\ ledger' = ledger
  BY <1>2 DEF DecisionStands
<1>3. QED
  BY <1>1, <1>2 DEF PointsNext, pointsVars, Ask, ReadIsClaimed, ReadClaim, ReadOwnPost, ReadNet, ReadOriginal,
     ReadReversal, RefuseAdjustment, Enter, WriteClaim, InsertRow, LockRecognition, GiveUp, Rollback, Fail

\* For any calls of any replicas about any posts, however their reads and transactions
\* interleave and fail: a claim is approved or amplified exactly when its author has the points
\* for it, a post is never worth more than a tier, no locks are ever all waited for, a decision
\* stands and the ledger only grows.
THEOREM PointsAreSafe == PointsSpec => LedgerSafety
<1>1. PointsInit => PointsInv
  BY PointsInitially
<1>2. PointsInv /\ [PointsNext]_pointsVars => PointsInv'
  BY PointsStep
<1>3. PointsInv => DecisionsArePaid /\ PaidWithinTier /\ NobodyStuck
  BY TierKept, SomebodyGoesOn DEF PointsInv
<1>4. PointsInv /\ [PointsNext]_pointsVars
        => [ledger \subseteq ledger' /\ \A u \in Urls : DecisionStands(u)]_pointsVars
  BY StepDecides
<1>5. QED
  BY <1>1, <1>2, <1>3, <1>4, PTL DEF PointsSpec, LedgerSafety

-----------------------------------------------------------------------------
(***************************************************************************)
(* Points: the standings.  A transaction that will write them holds the    *)
(* recognition lock from its reads on, so that what it read is still so    *)
(* when it commits.                                                        *)
(***************************************************************************)

Writing(t) == t.pc = "commit" /\ t.cmd.op \in Paying \cup {"rebuild"}
BoardsTrue ==
    \A c \in Tasks : Writing(task[c]) => recognition = c /\ task[c].board = ReadsOf(c)
StandingsInv ==
    /\ IsFiniteSet(ledger) /\ recognition \in Tasks \cup {NoTask}
    /\ BoardsTrue /\ StandingsFollowLedger

\* A row adds its points to what its person has, and changes nobody else's.
LEMMA TotalsOfOneMore ==
    ASSUME NEW L, IsFiniteSet(L), NEW x, x \notin L, \A r \in L \cup {x} : r.points \in Int
    PROVE  Totals(L \cup {x}) =
             [e \in DOMAIN Totals(L) \cup {x.whom} |->
                (IF e \in DOMAIN Totals(L) THEN Totals(L)[e] ELSE 0) + (IF e = x.whom THEN x.points ELSE 0)]
<1> DEFINE M == L \cup {x}
           f == [r \in L |-> r.points]
           g == [r \in M |-> r.points]
           Of(e) == {r \in L : r.whom = e}
           OfM(e) == {r \in M : r.whom = e}
<1>1. DOMAIN Totals(L) = {r.whom : r \in L} /\ DOMAIN Totals(M) = {r.whom : r \in L} \cup {x.whom}
  BY DEF Totals
<1>2. ASSUME NEW e \in DOMAIN Totals(M)
      PROVE  Totals(M)[e] = (IF e \in DOMAIN Totals(L) THEN Totals(L)[e] ELSE 0)
                            + (IF e = x.whom THEN x.points ELSE 0)
  <2>1. Totals(M)[e] = SumFunctionOnSet(g, OfM(e))
    BY <1>2 DEF Totals
  <2>2. IsFiniteSet(Of(e)) /\ x \notin Of(e) /\ \A r \in Of(e) : g[r] = f[r] /\ f[r] \in Int
    BY FS_Subset
  <2>3. SumFunctionOnSet(g, Of(e)) = SumFunctionOnSet(f, Of(e)) /\ SumFunctionOnSet(f, Of(e)) \in Int
    BY <2>2, SumSame, SumType
  <2>4. SumFunctionOnSet(f, Of(e)) = IF e \in DOMAIN Totals(L) THEN Totals(L)[e] ELSE 0
    <3>1. CASE e \in DOMAIN Totals(L)
      BY <3>1 DEF Totals
    <3>2. CASE e \notin DOMAIN Totals(L)
      <4>1. Of(e) = {}
        BY <1>1, <3>2
      <4>2. QED
        BY <3>2, <4>1, SumOfNone
    <3>3. QED
      BY <3>1, <3>2
  <2>5. CASE e = x.whom
    <3>1. OfM(e) = Of(e) \cup {x} /\ g[x] = x.points /\ \A r \in Of(e) \cup {x} : g[r] \in Int
      BY <2>5
    <3> HIDE DEF g, f, Of, OfM, M
    <3>2. SumFunctionOnSet(g, Of(e) \cup {x}) = g[x] + SumFunctionOnSet(g, Of(e))
      BY <2>2, <3>1, SumAdds
    <3>3. g[x] \in Int
      BY <3>1
    <3>4. QED
      BY <2>1, <2>3, <2>4, <2>5, <3>1, <3>2, <3>3
  <2>6. CASE e # x.whom
    <3>1. OfM(e) = Of(e)
      BY <2>6
    <3> HIDE DEF g, f, Of, OfM, M
    <3>2. QED
      BY <2>1, <2>3, <2>4, <2>6, <3>1
  <2>7. QED
    BY <2>5, <2>6
<1>3. Totals(M) = [e \in DOMAIN Totals(M) |-> Totals(M)[e]]
  BY DEF Totals
<1> HIDE DEF M
<1>4. QED
  BY <1>1, <1>2, <1>3 DEF M

LEMMA StandingsInitially == ASSUME PointsInit PROVE StandingsInv
BY DEF PointsInit, StandingsInv, BoardsTrue, Writing, Quiet, StandingsFollowLedger

\* A call that writes no standings goes on, and may let go of the lock.
LEMMA StandingsStay ==
    ASSUME StandingsInv, NEW c \in Tasks, UNCHANGED <<ledger, total, rank>>,
           \A d \in Tasks \ {c} : task'[d] = task[d], ~Writing(task'[c]),
           recognition' = recognition \/ recognition' = IF recognition = c THEN NoTask ELSE recognition
    PROVE  StandingsInv'
<1>1. ASSUME NEW d \in Tasks, Writing(task'[d]) PROVE recognition' = d /\ task'[d].board = ReadsOf(d)'
  <2>1. d # c /\ task'[d] = task[d] /\ Writing(task[d])
    BY <1>1
  <2>2. recognition = d /\ task[d].board = ReadsOf(d)
    BY <2>1 DEF StandingsInv, BoardsTrue
  <2>3. ReadsOf(d)' = ReadsOf(d)
    BY <2>1 DEF ReadsOf, Earned
  <2>4. QED
    BY <2>1, <2>2, <2>3
<1>2. BoardsTrue' /\ StandingsFollowLedger' /\ IsFiniteSet(ledger')
  BY <1>1 DEF StandingsInv, BoardsTrue, StandingsFollowLedger
<1>3. QED
  BY <1>2 DEF StandingsInv

LEMMA EndKeepsStandings ==
    ASSUME PointsInv, StandingsInv, NEW c \in Tasks, Ends(c), UNCHANGED <<ledger, total, rank>>,
           recognition' = recognition \/ recognition' = IF recognition = c THEN NoTask ELSE recognition
    PROVE  StandingsInv'
<1>1. task = [d \in Tasks |-> task[d]]
  BY DEF PointsInv, CallsShape
<1>2. \A d \in Tasks \ {c} : task'[d] = task[d]
  BY <1>1 DEF Ends, Update
<1>3. task'[c].pc = "done"
  BY <1>1 DEF Ends, Update, Quiet
<1>4. QED
  BY <1>2, <1>3, StandingsStay DEF Writing

LEMMA RollbackKeepsStandings ==
    ASSUME PointsInv, StandingsInv, NEW c \in Tasks, Rollback(c) PROVE StandingsInv'
BY EndKeepsStandings DEF Rollback, EndTransaction

LEMMA GoingKeepsStandings ==
    ASSUME PointsInv, StandingsInv, NEW c \in Tasks, NEW pc, Goes(c, pc),
           pc # "commit" \/ task[c].cmd.op \in {"submit", "reject"},
           UNCHANGED <<ledger, total, rank, recognition>>
    PROVE  StandingsInv'
<1>1. task = [d \in Tasks |-> task[d]]
  BY DEF PointsInv, CallsShape
<1>2. \A d \in Tasks \ {c} : task'[d] = task[d]
  BY <1>1 DEF Goes, Update
<1>3. task'[c].pc = pc /\ task'[c].cmd = task[c].cmd
  <2>1. task'[c] = [pc |-> pc, cmd |-> task[c].cmd, at |-> task[c].at, seen |-> task[c].seen,
                    net |-> task[c].net, row |-> task[c].row, board |-> task[c].board]
    BY CallGoes
  <2>2. QED
    BY <2>1
<1>4. QED
  BY <1>2, <1>3, StandingsStay DEF Writing, Paying

\* A call that takes its place in the record f, on its way to pc.
LEMMA UpdateKeepsStandings ==
    ASSUME PointsInv, StandingsInv, NEW c \in Tasks, NEW f, Update(c, f), f.pc # "commit",
           UNCHANGED <<ledger, total, rank, recognition>>
    PROVE  StandingsInv'
<1>1. task = [d \in Tasks |-> task[d]]
  BY DEF PointsInv, CallsShape
<1>2. (\A d \in Tasks \ {c} : task'[d] = task[d]) /\ task'[c] = f
  BY <1>1 DEF Update
<1>3. QED
  BY <1>2, StandingsStay DEF Writing

LEMMA LockKeepsStandings ==
    ASSUME PointsInv, StandingsInv, NEW c \in Tasks, LockRecognition(c) PROVE StandingsInv'
<1>1. Placed(task[c]) /\ task = [d \in Tasks |-> task[d]] /\ NoTask \notin Tasks
  BY PointsAssumption DEF PointsInv, CallsShape
<1>2. task' = [task EXCEPT ![c] = [task[c] EXCEPT !.pc = "commit", !.board = ReadsOf(c)]]
      /\ UNCHANGED <<ledger, total, rank>> /\ recognition' = c /\ recognition = NoTask
  BY DEF LockRecognition, Update
<1>3. /\ \A d \in Tasks \ {c} : task'[d] = task[d]
      /\ task'[c].board = ReadsOf(c) /\ task'[c].cmd = task[c].cmd /\ task'[c].row = task[c].row
  BY <1>1, <1>2 DEF Placed
<1>4. ReadsOf(c)' = ReadsOf(c)
  BY <1>2, <1>3 DEF ReadsOf, Earned
<1>5. ASSUME NEW d \in Tasks \ {c} PROVE ~Writing(task'[d])
  BY <1>1, <1>2, <1>3 DEF StandingsInv, BoardsTrue
<1>6. BoardsTrue'
  BY <1>2, <1>3, <1>4, <1>5 DEF BoardsTrue
<1>7. QED
  BY <1>2, <1>6 DEF StandingsInv, StandingsFollowLedger

LEMMA CommitKeepsStandings ==
    ASSUME PointsInv, StandingsInv, NEW c \in Tasks, Commit(c) PROVE StandingsInv'
<1>1. Placed(task[c]) /\ task = [d \in Tasks |-> task[d]] /\ task[c].pc = "commit"
  BY DEF PointsInv, CallsShape, Commit
<1>2. /\ HoldsRow(c) <=> task[c].cmd.op \in Paying
      /\ ledger' = IF HoldsRow(c) THEN ledger \cup {task[c].row} ELSE ledger
      /\ total' = IF HoldsRow(c) THEN Earned(c)
                  ELSE IF task[c].cmd.op = "rebuild" THEN task[c].board ELSE total
      /\ rank' = IF HoldsRow(c) \/ task[c].cmd.op = "rebuild" THEN Ranks(task[c].board) ELSE rank
      /\ Ends(c) /\ recognition' = IF recognition = c THEN NoTask ELSE recognition
  BY CommitWrites DEF Commit, EndTransaction
<1>3. CASE ~Writing(task[c])
  <2>1. UNCHANGED <<ledger, total, rank>>
    BY <1>1, <1>2, <1>3 DEF Writing
  <2>2. QED
    BY <1>2, <2>1, EndKeepsStandings
<1>4. CASE Writing(task[c])
  <2>1. recognition = c /\ task[c].board = ReadsOf(c) /\ total = Totals(ledger) /\ IsFiniteSet(ledger)
    BY <1>4 DEF StandingsInv, BoardsTrue, StandingsFollowLedger
  <2>2. IsFiniteSet(ledger') /\ total' = Totals(ledger') /\ rank' = Ranks(total')
    <3>1. CASE HoldsRow(c)
      <4>1. task[c].cmd.op \in Paying /\ task[c].cmd.op # "rebuild"
        BY <1>2, <3>1 DEF Paying
      <4>2. task[c].row \notin ledger /\ Sound(task[c].row)
        BY <3>1 DEF PointsInv, CallsShape, Locked, Conflicts, RowReady, HoldsRow, Later, InTransaction
      <4>3. \A r \in ledger \cup {task[c].row} : r.points \in Int
        BY <4>2 DEF PointsInv, LedgerSound, Sound, LedgerRow
      <4>4. Totals(ledger \cup {task[c].row}) = Earned(c)
        BY <2>1, <4>2, <4>3, TotalsOfOneMore DEF Earned
      <4>5. task[c].board = Earned(c)
        BY <2>1, <4>1 DEF ReadsOf
      <4>6. IsFiniteSet(ledger')
        BY <1>2, <2>1, <3>1, FS_AddElement
      <4>7. QED
        BY <1>2, <3>1, <4>4, <4>5, <4>6
    <3>2. CASE ~HoldsRow(c)
      <4>1. task[c].cmd.op = "rebuild" /\ task[c].board = Totals(ledger)
        BY <1>2, <1>4, <2>1, <3>2 DEF Writing, ReadsOf
      <4>2. QED
        BY <1>2, <2>1, <3>2, <4>1
    <3>3. QED
      BY <3>1, <3>2
  <2>3. ASSUME NEW d \in Tasks PROVE ~Writing(task'[d])
    <3>1. CASE d = c
      BY <1>1, <1>2, <3>1 DEF Ends, Update, Quiet, Writing
    <3>2. CASE d # c
      <4>1. task'[d] = task[d]
        BY <1>1, <1>2, <3>2 DEF Ends, Update
      <4>2. QED
        BY <2>1, <3>2, <4>1 DEF StandingsInv, BoardsTrue
    <3>3. QED
      BY <3>1, <3>2
  <2>4. QED
    BY <1>2, <2>2, <2>3 DEF StandingsInv, BoardsTrue, StandingsFollowLedger
<1>5. QED
  BY <1>3, <1>4

LEMMA StandingsStep == ASSUME PointsInv, StandingsInv, [PointsNext]_pointsVars PROVE StandingsInv'
<1> DEFINE Kept == UNCHANGED <<ledger, total, rank, recognition>>
<1>1. ASSUME NEW c \in Tasks, NEW m \in Commands, NEW p \in Processes, Ask(c, m, p) PROVE StandingsInv'
  <2>1. Placed(task[c])
    BY DEF PointsInv, CallsShape
  <2>2. PICK f : /\ f = [task[c] EXCEPT !.cmd = m, !.at = p,
                          !.pc = CASE m.op \in Deciding \cup {"submit"} -> "read"
                                   [] m.op = "reverse" -> "readAward"
                                   [] OTHER -> "enter"]
                 /\ Update(c, f) /\ Kept
    BY <1>1 DEF Ask
  <2>3. f.pc # "commit"
    BY <2>1, <2>2 DEF Placed
  <2>4. QED
    BY <2>2, <2>3, UpdateKeepsStandings
<1>2. ASSUME NEW c \in Tasks, ReadIsClaimed(c) \/ ReadOriginal(c) \/ RefuseAdjustment(c) PROVE StandingsInv'
  BY <1>2, GoingKeepsStandings, EndKeepsStandings DEF ReadIsClaimed, ReadOriginal, RefuseAdjustment
<1>3. ASSUME NEW c \in Tasks, ReadClaim(c) PROVE StandingsInv'
  <2>1. Placed(task[c])
    BY DEF PointsInv, CallsShape
  <2>2. CASE Ends(c)
    BY <1>3, <2>2, EndKeepsStandings DEF ReadClaim
  <2>3. CASE ~Ends(c)
    <3> DEFINE m == task[c].cmd
               k == claim[m.url]
    <3>1. PICK f : /\ f = [task[c] EXCEPT !.seen = k, !.pc = IF m.op = "amplify" THEN "readAward" ELSE "enter",
                            !.row = IF m.op = "approve" THEN Award("OWN_POST", m.url, k.by, OwnPost) ELSE NoRow]
                   /\ Update(c, f) /\ Kept
      BY <1>3, <2>3 DEF ReadClaim
    <3>2. f.pc # "commit"
      BY <2>1, <3>1 DEF Placed
    <3>3. QED
      BY <3>1, <3>2, UpdateKeepsStandings
  <2>4. QED
    BY <2>2, <2>3
<1>4. ASSUME NEW c \in Tasks, ReadOwnPost(c) PROVE StandingsInv'
  <2>1. Placed(task[c])
    BY DEF PointsInv, CallsShape
  <2>2. PICK n : Update(c, [task[c] EXCEPT !.pc = "readReversal", !.net = n]) /\ Kept
    BY <1>4 DEF ReadOwnPost
  <2>3. [task[c] EXCEPT !.pc = "readReversal", !.net = n].pc = "readReversal"
    BY <2>1 DEF Placed
  <2>4. QED
    BY <2>2, <2>3, UpdateKeepsStandings
<1>5. ASSUME NEW c \in Tasks, ReadNet(c) PROVE StandingsInv'
  <2>1. Placed(task[c])
    BY DEF PointsInv, CallsShape
  <2>2. CASE Ends(c)
    BY <1>5, <2>2, EndKeepsStandings DEF ReadNet
  <2>3. CASE ~Ends(c)
    <3>1. PICK r : Update(c, [task[c] EXCEPT !.pc = "enter", !.row = r]) /\ Kept
      BY <1>5, <2>3 DEF ReadNet
    <3>2. [task[c] EXCEPT !.pc = "enter", !.row = r].pc = "enter"
      BY <2>1 DEF Placed
    <3>3. QED
      BY <3>1, <3>2, UpdateKeepsStandings
  <2>4. QED
    BY <2>2, <2>3
<1>6. ASSUME NEW c \in Tasks, ReadReversal(c) PROVE StandingsInv'
  <2>1. Placed(task[c])
    BY DEF PointsInv, CallsShape
  <2>2. CASE Ends(c)
    BY <1>6, <2>2, EndKeepsStandings DEF ReadReversal
  <2>3. CASE ~Ends(c)
    <3>1. PICK r : Update(c, [task[c] EXCEPT !.pc = "enter", !.row = r]) /\ Kept
      BY <1>6, <2>3 DEF ReadReversal
    <3>2. [task[c] EXCEPT !.pc = "enter", !.row = r].pc = "enter"
      BY <2>1 DEF Placed
    <3>3. QED
      BY <3>1, <3>2, UpdateKeepsStandings
  <2>4. QED
    BY <2>2, <2>3
<1>7. ASSUME NEW c \in Tasks, Enter(c) PROVE StandingsInv'
  <2>1. Placed(task[c])
    BY DEF PointsInv, CallsShape
  <2>2. PICK f : /\ f = [task[c] EXCEPT
                            !.pc = CASE task[c].cmd.op \in Deciding \cup {"submit"} -> "update"
                                     [] task[c].cmd.op = "rebuild" -> "lock"
                                     [] OTHER -> "insert",
                            !.row = IF task[c].cmd.op = "adjust" THEN AdjustmentOf(c) ELSE @]
                 /\ Update(c, f) /\ Kept
    BY <1>7 DEF Enter
  <2>3. f.pc # "commit"
    BY <2>1, <2>2 DEF Placed
  <2>4. QED
    BY <2>2, <2>3, UpdateKeepsStandings
<1>8. ASSUME NEW c \in Tasks, WriteClaim(c) PROVE StandingsInv'
  BY <1>8, RollbackKeepsStandings, GoingKeepsStandings DEF WriteClaim
<1>9. ASSUME NEW c \in Tasks, InsertRow(c) PROVE StandingsInv'
  BY <1>9, RollbackKeepsStandings, GoingKeepsStandings DEF InsertRow
<1>10. ASSUME NEW c \in Tasks, GiveUp(c) \/ Fail(c) PROVE StandingsInv'
  BY <1>10, RollbackKeepsStandings, EndKeepsStandings DEF GiveUp, Fail
<1>11. ASSUME UNCHANGED pointsVars PROVE StandingsInv'
  BY <1>11 DEF pointsVars, StandingsInv, BoardsTrue, StandingsFollowLedger, ReadsOf, Earned
<1>12. QED
  BY <1>1, <1>2, <1>3, <1>4, <1>5, <1>6, <1>7, <1>8, <1>9, <1>10, <1>11, LockKeepsStandings,
     CommitKeepsStandings DEF PointsNext

\* However appends, reversals, adjustments and rebuilds of several replicas interleave, and
\* wherever they fail: the standings are what the ledger adds up to.
THEOREM StandingsAreTheLedgers == PointsSpec => []StandingsFollowLedger
<1>1. PointsInit => PointsInv /\ StandingsInv
  BY PointsInitially, StandingsInitially
<1>2. PointsInv /\ StandingsInv /\ [PointsNext]_pointsVars => PointsInv' /\ StandingsInv'
  BY PointsStep, StandingsStep
<1>3. StandingsInv => StandingsFollowLedger
  BY DEF StandingsInv
<1>4. QED
  BY <1>1, <1>2, <1>3, PTL DEF PointsSpec

\* The standings of a finite ledger are integers, and the ranks naturals.
LEMMA StandingsTyped == ASSUME PointsInv, StandingsInv PROVE PointsTypeOK
<1>1. \A r \in ledger : r \in LedgerRow
  BY DEF PointsInv, LedgerSound, Sound
<1>2. /\ \A u \in Urls : /\ claim[u].by \in People \cup {NoOne}
                         /\ claim[u].status \in Statuses /\ claim[u].version \in Nat
      /\ \A r \in ledger : r.ref \in Refs /\ r.whom \in People /\ r.points \in Int
                           /\ r.reverses \in Refs \cup {NoRef}
      /\ gate \in [Processes -> Tasks \cup {NoTask}] /\ recognition \in Tasks \cup {NoTask}
  BY <1>1 DEF PointsInv, StandingsInv, ClaimsShape, GateShape, LedgerRow
<1>3. total = Totals(ledger) /\ rank = Ranks(total) /\ IsFiniteSet(ledger)
  BY DEF StandingsInv, StandingsFollowLedger
<1>4. total \in [DOMAIN total -> Int]
  <2>1. ASSUME NEW e \in DOMAIN total PROVE total[e] \in Int
    <3> DEFINE f == [r \in ledger |-> r.points]
               D == {r \in ledger : r.whom = e}
    <3>1. total[e] = SumFunctionOnSet(f, D)
      BY <1>3, <2>1 DEF Totals
    <3>2. IsFiniteSet(D) /\ \A r \in D : f[r] \in Int
      BY <1>2, <1>3, FS_Subset
    <3> HIDE DEF f, D
    <3>3. QED
      BY <3>1, <3>2, SumType
  <2>2. total = [e \in DOMAIN total |-> total[e]]
    BY <1>3 DEF Totals
  <2>3. QED
    BY <2>1, <2>2
<1>5. DOMAIN total = {r.whom : r \in ledger} /\ IsFiniteSet(DOMAIN total)
  <2>1. DOMAIN total = {r.whom : r \in ledger}
    BY <1>3 DEF Totals
  <2> DEFINE f == [r \in ledger |-> r.whom]
  <2>2. f \in Surjection(ledger, DOMAIN total)
    BY <2>1 DEF Surjection
  <2>3. QED
    BY <1>3, <2>1, <2>2, FS_Surjection
<1>6. rank \in [DOMAIN total -> Nat]
  <2>1. ASSUME NEW e \in DOMAIN total PROVE Ranks(total)[e] \in Nat
    <3> DEFINE D == {f \in DOMAIN total : total[f] > total[e]}
               T == {total[f] : f \in D}
    <3>1. IsFiniteSet(D)
      BY <1>5, FS_Subset
    <3> DEFINE g == [f \in D |-> total[f]]
    <3>2. IsFiniteSet(T)
      <4>1. g \in Surjection(D, T)
        BY DEF Surjection
      <4>2. QED
        BY <3>1, <4>1, FS_Surjection
    <3>3. Cardinality(T) \in Nat
      BY <3>2, FS_CardinalityType
    <3>4. Ranks(total)[e] = 1 + Cardinality(T)
      BY <2>1 DEF Ranks
    <3> HIDE DEF T
    <3>5. QED
      BY <3>3, <3>4
  <2>2. Ranks(total) = [e \in DOMAIN total |-> Ranks(total)[e]]
    BY DEF Ranks
  <2>3. QED
    BY <1>3, <2>1, <2>2
<1>7. DOMAIN total \subseteq People
  BY <1>2, <1>5
<1>8. QED
  BY <1>2, <1>4, <1>6, <1>7 DEF PointsTypeOK, Statuses

-----------------------------------------------------------------------------
(***************************************************************************)
(* Idempotency keys.  Whoever runs has the row of its key in the table,    *)
(* and nobody inserts a row where one is; so one request runs at a time,   *)
(* and while no row is there every effect so far is accounted for.         *)
(***************************************************************************)

Codes == {"idle", "inserting", "reading", "retrying", "done"} \cup Running

Answers == Stored \cup {InProgress, "error", "reused", "unavailable", "none"}
Post == [pc : Codes, key : Keys \cup {NoKey}, hash : Hashes \cup {"none"}, answer : Answers]
KeyShapes ==
    /\ row \in [Keys -> Rows \cup {Absent}]
    /\ post \in [Posts -> Post]
    /\ \A q \in Posts : post[q].pc # "idle" => post[q].key \in Keys /\ post[q].hash \in Hashes
    /\ effects \in [Keys -> Nat] /\ forgotten \in [Keys -> Nat]

\* A runner has its row; only one that may have stored an answer finds one in it.
RunnerHasRow ==
    \A q \in Posts : post[q].pc \in Running =>
        /\ RowOf(q) # Absent
        /\ post[q].pc \in {"handling", "completing"} => RowOf(q).answer = InProgress
        /\ post[q].pc = "completing" => post[q].answer \in Stored

\* What has happened under a key, by the state of its row and of its runner.
Accounted ==
    /\ \A k \in Keys : /\ effects[k] <= 1 + forgotten[k]
                       /\ row[k] = Absent => effects[k] <= forgotten[k]
    /\ \A q \in Posts :
        /\ post[q].pc = "handling" => effects[post[q].key] <= forgotten[post[q].key]
        /\ post[q].pc \in {"completing", "releasing"} /\ post[q].answer # "success" =>
                effects[post[q].key] <= forgotten[post[q].key]
        /\ post[q].pc = "completing" /\ post[q].answer = "success" =>
                effects[post[q].key] > forgotten[post[q].key]

KeysInv == KeyShapes /\ RunnerHasRow /\ OneAtATime /\ Accounted /\ StoredIsTrue

\* What a step may write of a request.
LEMMA PostMoves ==
    ASSUME post \in [Posts -> Post], NEW q \in Posts, NEW pc \in Codes, NEW a \in Answers,
           NEW k \in Keys, NEW h \in Hashes
    PROVE  /\ [post EXCEPT ![q].pc = pc, ![q].answer = a] \in [Posts -> Post]
           /\ [post EXCEPT ![q] = [@ EXCEPT !.pc = pc, !.key = k, !.hash = h]] \in [Posts -> Post]
<1>1. [post[q] EXCEPT !.pc = pc, !.answer = a] \in Post /\ [post[q] EXCEPT !.pc = pc, !.key = k, !.hash = h] \in Post
  BY DEF Post
<1>2. QED
  BY <1>1

LEMMA KeyRowsInitially == ASSUME KeyRowsInit PROVE KeysInv
BY KeysAssumption DEF KeyRowsInit, KeysInv, KeyShapes, RunnerHasRow, OneAtATime, Accounted,
    StoredIsTrue, RowOf, Codes, Running, Stored, InProgress, Post, Answers

LEMMA KeyRowsStep == ASSUME KeysInv, [KeyRowsNext]_keyRowVars PROVE KeysInv'
<1> USE KeysAssumption DEF KeysInv, KeyShapes, RunnerHasRow, OneAtATime, Accounted, StoredIsTrue,
        RowOf, Codes, Running, Stored, InProgress, Rows, Goto, Answer, NewRow, Post, Answers
<1>1. ASSUME NEW q \in Posts, NEW k \in Keys, NEW h \in Hashes, Arrive(q, k, h) PROVE KeysInv'
  <2>1. KeyShapes'
    <3>1. post' \in [Posts -> Post]
      <4> HIDE DEF Post, Answers, Codes
      <4>1. "inserting" \in Codes /\ "done" \in Codes /\ {"unavailable", "none"} \subseteq Answers
        BY DEF Codes, Answers
      <4>2. QED
        BY <1>1, <4>1, PostMoves DEF Arrive
    <3>2. \A p \in Posts : post'[p].pc # "idle" => post'[p].key \in Keys /\ post'[p].hash \in Hashes
      BY <1>1 DEF Arrive
    <3>3. row' \in [Keys -> Rows \cup {Absent}] /\ effects' \in [Keys -> Nat] /\ forgotten' \in [Keys -> Nat]
      BY <1>1 DEF Arrive
    <3>4. QED
      BY <3>1, <3>2, <3>3
  <2>2. RunnerHasRow'
    BY <1>1 DEF Arrive
  <2>3. OneAtATime'
    BY <1>1 DEF Arrive
  <2>4. Accounted'
    BY <1>1 DEF Arrive
  <2>5. StoredIsTrue'
    BY <1>1 DEF Arrive
  <2>6. QED
    BY <2>1, <2>2, <2>3, <2>4, <2>5 DEF KeysInv
<1>2. ASSUME NEW q \in Posts, InsertKey(q) PROVE KeysInv'
  <2>1. KeyShapes'
    BY SMTT(30), <1>2 DEF InsertKey
  <2>2. RunnerHasRow'
    BY <1>2 DEF InsertKey
  <2>3. OneAtATime'
    BY <1>2 DEF InsertKey
  <2>4. Accounted'
    BY <1>2 DEF InsertKey
  <2>5. StoredIsTrue'
    BY <1>2 DEF InsertKey
  <2>6. QED
    BY <2>1, <2>2, <2>3, <2>4, <2>5 DEF KeysInv
<1>3. ASSUME NEW q \in Posts, ReadKey(q) PROVE KeysInv'
  <2>1. KeyShapes'
    BY <1>3 DEF ReadKey
  <2>2. RunnerHasRow'
    BY <1>3 DEF ReadKey
  <2>3. OneAtATime'
    BY <1>3 DEF ReadKey
  <2>4. Accounted'
    BY <1>3 DEF ReadKey
  <2>5. StoredIsTrue'
    BY <1>3 DEF ReadKey
  <2>6. QED
    BY <2>1, <2>2, <2>3, <2>4, <2>5 DEF KeysInv
<1>4. ASSUME NEW q \in Posts, ClaimFails(q) PROVE KeysInv'
  <2>1. KeyShapes'
    <3>1. post' \in [Posts -> Post]
      <4> HIDE DEF Post, Answers, Codes
      <4>1. "inserting" \in Codes /\ "done" \in Codes /\ {"unavailable", "none"} \subseteq Answers
        BY DEF Codes, Answers
      <4>2. QED
        BY <1>4, <4>1, PostMoves DEF ClaimFails
    <3>2. \A p \in Posts : post'[p].pc # "idle" => post'[p].key \in Keys /\ post'[p].hash \in Hashes
      BY <1>4 DEF ClaimFails
    <3>3. row' \in [Keys -> Rows \cup {Absent}] /\ effects' \in [Keys -> Nat] /\ forgotten' \in [Keys -> Nat]
      BY <1>4 DEF ClaimFails
    <3>4. QED
      BY <3>1, <3>2, <3>3
  <2>2. RunnerHasRow'
    BY <1>4 DEF ClaimFails
  <2>3. OneAtATime'
    BY <1>4 DEF ClaimFails
  <2>4. Accounted'
    BY <1>4 DEF ClaimFails
  <2>5. StoredIsTrue'
    BY <1>4 DEF ClaimFails
  <2>6. QED
    BY <2>1, <2>2, <2>3, <2>4, <2>5 DEF KeysInv
<1>5. ASSUME NEW q \in Posts, Handle(q) PROVE KeysInv'
  <2>1. KeyShapes'
    BY <1>5 DEF Handle
  <2>2. RunnerHasRow'
    BY <1>5 DEF Handle
  <2>3. OneAtATime'
    BY <1>5 DEF Handle
  <2>4. Accounted'
    BY <1>5 DEF Handle
  <2>5. StoredIsTrue'
    BY <1>5 DEF Handle
  <2>6. QED
    BY <2>1, <2>2, <2>3, <2>4, <2>5 DEF KeysInv
<1>6. ASSUME NEW q \in Posts, NEW heard \in BOOLEAN, Complete(q, heard) PROVE KeysInv'
  BY <1>6 DEF Complete
<1>7. ASSUME NEW q \in Posts, CompleteFails(q) PROVE KeysInv'
  BY <1>7 DEF CompleteFails
<1>8. ASSUME NEW q \in Posts, Release(q) PROVE KeysInv'
  BY <1>8 DEF Release
<1>9. ASSUME NEW q \in Posts, ReleaseFails(q) PROVE KeysInv'
  BY <1>9 DEF ReleaseFails
<1>10. ASSUME NEW q \in Posts, Crash(q) PROVE KeysInv'
  <2>1. KeyShapes'
    <3>1. post' \in [Posts -> Post]
      <4> HIDE DEF Post, Answers, Codes
      <4>1. "inserting" \in Codes /\ "done" \in Codes /\ {"unavailable", "none"} \subseteq Answers
        BY DEF Codes, Answers
      <4>2. QED
        BY <1>10, <4>1, PostMoves DEF Crash
    <3>2. \A p \in Posts : post'[p].pc # "idle" => post'[p].key \in Keys /\ post'[p].hash \in Hashes
      BY <1>10 DEF Crash
    <3>3. row' \in [Keys -> Rows \cup {Absent}] /\ effects' \in [Keys -> Nat] /\ forgotten' \in [Keys -> Nat]
      BY <1>10 DEF Crash
    <3>4. QED
      BY <3>1, <3>2, <3>3
  <2>2. RunnerHasRow'
    BY <1>10 DEF Crash
  <2>3. OneAtATime'
    BY <1>10 DEF Crash
  <2>4. Accounted'
    BY <1>10 DEF Crash
  <2>5. StoredIsTrue'
    BY <1>10 DEF Crash
  <2>6. QED
    BY <2>1, <2>2, <2>3, <2>4, <2>5 DEF KeysInv
<1>11. ASSUME NEW k \in Keys, Expire(k) PROVE KeysInv'
  <2>1. KeyShapes'
    BY <1>11 DEF Expire
  <2>2. RunnerHasRow'
    BY <1>11 DEF Expire
  <2>3. OneAtATime'
    BY <1>11 DEF Expire
  <2>4. Accounted'
    BY <1>11 DEF Expire
  <2>5. StoredIsTrue'
    BY <1>11 DEF Expire
  <2>6. QED
    BY <2>1, <2>2, <2>3, <2>4, <2>5 DEF KeysInv
<1>12. ASSUME UNCHANGED keyRowVars PROVE KeysInv'
  BY <1>12 DEF keyRowVars
<1> HIDE DEF KeysInv, KeyShapes, RunnerHasRow, OneAtATime, Accounted, StoredIsTrue,
        RowOf, Codes, Running, Stored, InProgress, Rows, Goto, Answer, NewRow, Post, Answers
<1>13. QED
  BY <1>1, <1>2, <1>3, <1>4, <1>5, <1>6, <1>7, <1>8, <1>9, <1>10, <1>11, <1>12 DEF KeyRowsNext

LEMMA KeysAreTyped == KeysInv => KeyRowsTypeOK
BY DEF KeysInv, KeyShapes, KeyRowsTypeOK, Post

\* Every row names its request's fingerprint and an answer, for any requests and keys.
THEOREM KeyRowsTyped == KeyRowsSpec => []KeyRowsTypeOK
BY KeysAreTyped, KeyRowsInitially, KeyRowsStep, PTL DEF KeyRowsSpec

\* However requests under one key interleave, whatever statement fails or loses its answer and
\* whichever process dies: one of them at a time runs its handler, its effect happens once for
\* every answer that could not be stored or was an error, and once more, and a stored success
\* has had its effect.
THEOREM OneEffectPerKey == KeyRowsSpec => []KeySafety
<1>1. KeysInv => KeySafety
  BY DEF KeysInv, KeySafety, EffectOnce, Accounted
<1>2. QED
  BY <1>1, KeyRowsInitially, KeyRowsStep, PTL DEF KeyRowsSpec

USE FlagsAssumption

-----------------------------------------------------------------------------
(***************************************************************************)
(* The inductive invariant.                                                *)
(***************************************************************************)

Stages == {"gate", "bypass", "defaults", "unhide"}
Outs == {"none", "served", "refused", "listed", "unhidden", "error"}
Request ==
    [pc : {"idle", "load", "waiting", "listing", "listed", "reread", "done"}, stage : Stages,
     email : Emails \cup {Anonymous}, got : Nat, begun : Nat, failed : BOOLEAN, loads : Seq(Nat),
     rows : Nat, out : Outs]

FlagsShape ==
    /\ tables \in Seq(Table) /\ Len(tables) > 0
    /\ replaced \in Seq(Nat) /\ Len(replaced) + 1 = Len(tables)
    /\ now \in Nat /\ current \in 0..Len(tables) /\ fetchedAt \in 0..now
    /\ reqs \in [Requests -> Request]

\* The mutex has one holder, the request whose query runs.
OneHolder ==
    /\ refreshMu = {q \in Requests : reqs[q].pc \in {"listing", "listed"}}
    /\ \A p, q \in refreshMu : p = q

\* The holder found the cache expired, and its query has not outlived its timeout; what the query
\* read is no older than the cache, and was in force when the query began.
HolderShape ==
    \A q \in Requests :
        /\ reqs[q].pc \in {"listing", "listed"} =>
            ~Fresh /\ reqs[q].begun <= now /\ now <= reqs[q].begun + RefreshTimeout
        /\ reqs[q].pc = "listed" =>
            /\ reqs[q].got \in 1..Len(tables) /\ current <= reqs[q].got
            /\ reqs[q].got < Len(tables) => replaced[reqs[q].got] >= reqs[q].begun

\* The cached reading was in force at most one query timeout before it was published.
CacheAge ==
    current # None /\ current < Len(tables) => replaced[current] + RefreshTimeout >= fetchedAt

\* A request about to read the cache again, whose refresh did not fail, finds it fresh.
RereadFresh == \A q \in Requests : reqs[q].pc = "reread" /\ ~reqs[q].failed => Fresh

\* What the answer of request r, to be explained by its readings, rests on.
Explained(r) ==
    /\ \A i \in 1..Len(r.loads) : r.loads[i] \in 0..Len(tables)
    /\ r.pc \notin {"idle", "done"} =>
        r.out = "none" /\ (r.stage \in {"defaults", "unhide"} => r.rows \in 1..Len(tables))
    /\ r.out \in {"listed", "unhidden"} => r.rows \in 1..Len(tables) /\ Len(r.loads) > 0
    /\ r.out = "unhidden" => BypassesGates(Snapshot(Last(r.loads)), r.email)
AnswersExplained == \A q \in Requests : Explained(reqs[q])

FlagsInv ==
    /\ FlagsShape /\ OneHolder /\ HolderShape /\ CacheAge /\ RereadFresh /\ AnswersExplained

-----------------------------------------------------------------------------
(***************************************************************************)
(* Lemmas.                                                                 *)
(***************************************************************************)

\* Changing one field of a request leaves a request.
LEMMA RequestField ==
    ASSUME NEW r \in Request
    PROVE  /\ \A x \in {"idle", "load", "waiting", "listing", "listed", "reread", "done"} :
                [r EXCEPT !.pc = x] \in Request
           /\ \A x \in Stages : [r EXCEPT !.stage = x] \in Request
           /\ \A x \in Nat : [r EXCEPT !.got = x] \in Request
           /\ \A x \in Nat : [r EXCEPT !.begun = x] \in Request
           /\ \A x \in BOOLEAN : [r EXCEPT !.failed = x] \in Request
           /\ \A x \in Seq(Nat) : [r EXCEPT !.loads = x] \in Request
           /\ \A x \in Outs : [r EXCEPT !.out = x] \in Request
<1>1. \A x \in {"idle", "load", "waiting", "listing", "listed", "reread", "done"} :
          [r EXCEPT !.pc = x] \in Request
  BY DEF Request
<1>2. \A x \in Stages : [r EXCEPT !.stage = x] \in Request
  BY DEF Request
<1>3. \A x \in Nat : [r EXCEPT !.got = x] \in Request
  BY DEF Request
<1>4. \A x \in Nat : [r EXCEPT !.begun = x] \in Request
  BY DEF Request
<1>5. \A x \in BOOLEAN : [r EXCEPT !.failed = x] \in Request
  BY DEF Request
<1>6. \A x \in Seq(Nat) : [r EXCEPT !.loads = x] \in Request
  BY DEF Request
<1>7. \A x \in Outs : [r EXCEPT !.out = x] \in Request
  BY DEF Request
<1> QED BY <1>1, <1>2, <1>3, <1>4, <1>5, <1>6, <1>7

\* The request with what a load answered, before it is judged.
Loaded(r, v) == [r EXCEPT !.loads = Append(@, v), !.failed = FALSE, !.got = None, !.begun = 0]

LEMMA LoadedLemma ==
    ASSUME NEW r \in Request, NEW v \in Nat
    PROVE  /\ Loaded(r, v) \in Request
           /\ Loaded(r, v).loads = Append(r.loads, v) /\ ~Loaded(r, v).failed
           /\ Loaded(r, v).pc = r.pc /\ Loaded(r, v).stage = r.stage /\ Loaded(r, v).out = r.out
           /\ Loaded(r, v).email = r.email /\ Loaded(r, v).rows = r.rows
<1> DEFINE r1 == [r EXCEPT !.loads = Append(@, v)]
           r2 == [r1 EXCEPT !.failed = FALSE]
           r3 == [r2 EXCEPT !.got = None]
           r4 == [r3 EXCEPT !.begun = 0]
<1>1. r1 \in Request
  <2>1. Append(r.loads, v) \in Seq(Nat)
    BY DEF Request
  <2> QED BY <2>1, RequestField
<1>2. r2 \in Request
  BY <1>1, RequestField
<1>3. r3 \in Request
  BY <1>2, RequestField DEF None
<1>4. r4 \in Request
  BY <1>3, RequestField
<1>5. Loaded(r, v) = r4
  BY DEF Loaded
<1>6. /\ Loaded(r, v).loads = Append(r.loads, v) /\ ~Loaded(r, v).failed
      /\ Loaded(r, v).pc = r.pc /\ Loaded(r, v).stage = r.stage /\ Loaded(r, v).out = r.out
      /\ Loaded(r, v).email = r.email /\ Loaded(r, v).rows = r.rows
  BY DEF Loaded, Request
<1> QED BY <1>4, <1>5, <1>6

\* What a finished load makes of its request: another load, or an answer that the load explains.
LEMMA ContinueLemma ==
    ASSUME NEW q \in Requests, reqs[q] \in Request, NEW v \in Nat
    PROVE  /\ Continue(q, v) \in Request
           /\ Continue(q, v).loads = Append(reqs[q].loads, v) /\ ~Continue(q, v).failed
           /\ Continue(q, v).rows = reqs[q].rows /\ Continue(q, v).email = reqs[q].email
           /\ Continue(q, v).pc \in {"load", "done"}
           /\ Continue(q, v).pc = "load" =>
                /\ Continue(q, v).out = reqs[q].out
                /\ Continue(q, v).stage \in {"defaults", "unhide"} => reqs[q].stage \in {"defaults", "unhide"}
           /\ Continue(q, v).pc = "done" =>
                /\ Continue(q, v).out \in {"listed", "unhidden"} => reqs[q].stage \in {"defaults", "unhide"}
                /\ Continue(q, v).out = "unhidden" => BypassesGates(Snapshot(v), reqs[q].email)
<1> DEFINE r == Loaded(reqs[q], v)
           s == Snapshot(v)
<1>1. /\ r \in Request /\ r.loads = Append(reqs[q].loads, v) /\ ~r.failed
      /\ r.stage = reqs[q].stage /\ r.out = reqs[q].out
      /\ r.email = reqs[q].email /\ r.rows = reqs[q].rows
  BY LoadedLemma
<1>2. Continue(q, v) = CASE r.stage = "gate"     -> FeatureGate(r, s)
                         [] r.stage = "bypass"   -> Bypass(r, s)
                         [] r.stage = "defaults" -> withDefaults(r, s)
                         [] r.stage = "unhide"   -> unhideForBypass(r, s)
  BY DEF Continue, Loaded
<1>3. r.stage \in Stages
  BY <1>1 DEF Request
<1> DEFINE answer(out) == [r EXCEPT !.pc = "done", !.out = out]
           again(stage) == [r EXCEPT !.pc = "load", !.stage = stage]
<1>4. ASSUME NEW out \in Outs
      PROVE  /\ answer(out) \in Request /\ answer(out).loads = r.loads /\ ~answer(out).failed
             /\ answer(out).rows = r.rows /\ answer(out).email = r.email
             /\ answer(out).pc = "done" /\ answer(out).out = out
  <2>1. [r EXCEPT !.pc = "done"] \in Request
    BY <1>1, RequestField
  <2>2. [[r EXCEPT !.pc = "done"] EXCEPT !.out = out] \in Request
    BY <2>1, RequestField
  <2>3. answer(out) = [[r EXCEPT !.pc = "done"] EXCEPT !.out = out]
    OBVIOUS
  <2> HIDE DEF r
  <2>4. /\ answer(out).loads = r.loads /\ ~answer(out).failed
        /\ answer(out).rows = r.rows /\ answer(out).email = r.email
        /\ answer(out).pc = "done" /\ answer(out).out = out
    BY <1>1 DEF Request
  <2> QED BY <2>2, <2>3, <2>4
<1>5. ASSUME NEW stage \in Stages
      PROVE  /\ again(stage) \in Request /\ again(stage).loads = r.loads /\ ~again(stage).failed
             /\ again(stage).rows = r.rows /\ again(stage).email = r.email
             /\ again(stage).pc = "load" /\ again(stage).stage = stage /\ again(stage).out = r.out
  <2>1. [r EXCEPT !.pc = "load"] \in Request
    BY <1>1, RequestField
  <2>2. [[r EXCEPT !.pc = "load"] EXCEPT !.stage = stage] \in Request
    BY <2>1, RequestField
  <2>3. again(stage) = [[r EXCEPT !.pc = "load"] EXCEPT !.stage = stage]
    OBVIOUS
  <2> HIDE DEF r
  <2>4. /\ again(stage).loads = r.loads /\ ~again(stage).failed
        /\ again(stage).rows = r.rows /\ again(stage).email = r.email
        /\ again(stage).pc = "load" /\ again(stage).stage = stage /\ again(stage).out = r.out
    BY <1>1 DEF Request
  <2> QED BY <2>2, <2>3, <2>4
<1> DEFINE n == Continue(q, v)
<1>6. \/ n \in {answer("served"), answer("refused")}
      \/ n = again("bypass")
      \/ r.stage = "defaults" /\ n \in {answer("listed"), again("unhide")}
      \/ r.stage = "unhide" /\ n = answer("listed")
      \/ r.stage = "unhide" /\ n = answer("unhidden") /\ BypassesGates(s, r.email)
  <2>1. CASE r.stage = "gate"
    <3>1. n = FeatureGate(r, s)
      BY <1>2, <2>1
    <3> QED BY <3>1 DEF FeatureGate
  <2>2. CASE r.stage = "bypass"
    <3>1. n = Bypass(r, s)
      BY <1>2, <2>2
    <3> QED BY <3>1 DEF Bypass
  <2>3. CASE r.stage = "defaults"
    <3>1. n = withDefaults(r, s)
      BY <1>2, <2>3
    <3> QED BY <2>3, <3>1 DEF withDefaults
  <2>4. CASE r.stage = "unhide"
    <3>1. n = unhideForBypass(r, s)
      BY <1>2, <2>4
    <3> QED BY <2>4, <3>1 DEF unhideForBypass
  <2> QED BY <1>3, <2>1, <2>2, <2>3, <2>4 DEF Stages
<1> HIDE DEF n, r, s, answer, again
<1>7. /\ n \in Request /\ n.loads = r.loads /\ ~n.failed /\ n.rows = r.rows /\ n.email = r.email
      /\ n.pc \in {"load", "done"}
  BY <1>4, <1>5, <1>6 DEF Outs, Stages
<1>8. n.pc = "load" => /\ n.out = r.out
                       /\ n.stage \in {"defaults", "unhide"} => r.stage \in {"defaults", "unhide"}
  BY <1>4, <1>5, <1>6 DEF Outs, Stages
<1>9. n.pc = "done" => /\ n.out \in {"listed", "unhidden"} => r.stage \in {"defaults", "unhide"}
                       /\ n.out = "unhidden" => BypassesGates(s, r.email)
  BY <1>4, <1>5, <1>6 DEF Outs, Stages
<1> QED BY <1>1, <1>7, <1>8, <1>9 DEF n, s

-----------------------------------------------------------------------------
(***************************************************************************)
(* The invariant is inductive.                                             *)
(***************************************************************************)

\* Readings already made stay as they are when the table is edited.
LEMMA TablesGrow ==
    ASSUME tables \in Seq(Table), tables' \in Seq(Table), Len(tables') >= Len(tables),
           \A i \in 1..Len(tables) : tables'[i] = tables[i],
           NEW r, Explained(r), r \in Request
    PROVE  Explained(r)'
<1>1. ASSUME NEW v \in 0..Len(tables) PROVE Snapshot(v)' = Snapshot(v)
  BY <1>1 DEF Snapshot, None
<1>2. \A i \in 1..Len(r.loads) : r.loads[i] \in 0..Len(tables')
  BY DEF Explained
<1>3. r.rows \in 1..Len(tables) => r.rows \in 1..Len(tables')
  OBVIOUS
<1>4. ASSUME r.out = "unhidden" PROVE BypassesGates(Snapshot(Last(r.loads)), r.email)'
  <2>1. r.loads \in Seq(Nat) /\ Len(r.loads) > 0
    BY <1>4 DEF Explained, Request
  <2>2. Last(r.loads) \in 0..Len(tables)
    BY <2>1 DEF Explained, Last
  <2>3. Snapshot(Last(r.loads))' = Snapshot(Last(r.loads))
    BY <1>1, <2>2
  <2> QED BY <1>4, <2>3 DEF Explained, BypassesGates
<1> QED BY <1>2, <1>3, <1>4 DEF Explained

\* A load that answers edit v explains what it leads to.
LEMMA ContinueExplained ==
    ASSUME FlagsInv, NEW q \in Requests, reqs[q].pc \in {"load", "reread"}, NEW v \in 0..Len(tables)
    PROVE  Explained(Continue(q, v))
<1> DEFINE r == reqs[q]
           n == Continue(q, v)
<1>1. r \in Request /\ Explained(r) /\ v \in Nat /\ Len(tables) \in Nat
  BY DEF FlagsInv, FlagsShape, AnswersExplained
<1>2. /\ r.out = "none" /\ (r.stage \in {"defaults", "unhide"} => r.rows \in 1..Len(tables))
      /\ \A i \in 1..Len(r.loads) : r.loads[i] \in 0..Len(tables)
      /\ r.loads \in Seq(Nat)
  BY <1>1 DEF Explained, Request
<1>3. /\ n.loads = Append(r.loads, v) /\ n.rows = r.rows /\ n.email = r.email
      /\ n.pc \in {"load", "done"}
      /\ n.pc = "load" => /\ n.out = r.out
                          /\ n.stage \in {"defaults", "unhide"} => r.stage \in {"defaults", "unhide"}
      /\ n.pc = "done" => /\ n.out \in {"listed", "unhidden"} => r.stage \in {"defaults", "unhide"}
                          /\ n.out = "unhidden" => BypassesGates(Snapshot(v), r.email)
  BY <1>1, ContinueLemma
<1> HIDE DEF r, n
<1>4. /\ Len(n.loads) = Len(r.loads) + 1 /\ Last(n.loads) = v
      /\ \A i \in 1..Len(n.loads) : n.loads[i] \in 0..Len(tables)
  BY <1>2, <1>3 DEF Last
<1>5. Len(n.loads) > 0
  BY <1>2, <1>4
<1>6. n.pc \notin {"idle", "done"} =>
          n.out = "none" /\ (n.stage \in {"defaults", "unhide"} => n.rows \in 1..Len(tables))
  BY <1>2, <1>3
<1>7. n.out \in {"listed", "unhidden"} => n.rows \in 1..Len(tables) /\ Len(n.loads) > 0
  BY <1>2, <1>3, <1>5
<1>8. n.out = "unhidden" => BypassesGates(Snapshot(Last(n.loads)), n.email)
  BY <1>2, <1>3, <1>4
<1> QED BY <1>4, <1>6, <1>7, <1>8 DEF Explained, n

\* A step that touches one request only.
LEMMA OneRequest ==
    ASSUME FlagsInv, NEW q \in Requests, NEW n \in Request, Explained(n),
           reqs' = [reqs EXCEPT ![q] = n], UNCHANGED tables
    PROVE  reqs' \in [Requests -> Request] /\ AnswersExplained'
<1>1. reqs \in [Requests -> Request]
  BY DEF FlagsInv, FlagsShape
<1>2. reqs' \in [Requests -> Request]
  BY <1>1
<1>3. ASSUME NEW p \in Requests PROVE Explained(reqs[p])'
  <2>1. Explained(reqs'[p])
    BY <1>1 DEF FlagsInv, AnswersExplained
  <2> QED BY <2>1 DEF Explained, Snapshot, BypassesGates
<1> QED BY <1>2, <1>3 DEF AnswersExplained

LEMMA FlagsInvInit == FlagsInit => FlagsInv
<1> SUFFICES ASSUME FlagsInit PROVE FlagsInv
  OBVIOUS
<1>1. Idle \in Request
  BY DEF Idle, Request, Stages, Outs, None
<1>2. PICK t \in Table : tables = <<t>>
  BY DEF FlagsInit
<1>3. tables \in Seq(Table) /\ Len(tables) = 1
  BY <1>2
<1>4. replaced \in Seq(Nat) /\ Len(replaced) = 0
  BY DEF FlagsInit
<1>5. reqs \in [Requests -> Request] /\ \A q \in Requests : reqs[q] = Idle
  BY <1>1 DEF FlagsInit
<1>6. FlagsShape
  BY <1>3, <1>4, <1>5 DEF FlagsInit, FlagsShape, None
<1>7. OneHolder /\ HolderShape /\ CacheAge /\ RereadFresh
  BY <1>5 DEF FlagsInit, OneHolder, HolderShape, CacheAge, RereadFresh, Idle, None
<1>8. AnswersExplained
  BY <1>5 DEF AnswersExplained, Explained, Idle
<1> QED BY <1>6, <1>7, <1>8 DEF FlagsInv

\* A step of one request that neither takes nor leaves the mutex.
LEMMA LocalStep ==
    ASSUME FlagsInv, NEW q \in Requests, NEW n \in Request, Explained(n),
           reqs' = [reqs EXCEPT ![q] = n],
           UNCHANGED <<tables, replaced, now, current, fetchedAt, refreshMu>>,
           reqs[q].pc \notin {"listing", "listed"}, n.pc \notin {"listing", "listed"},
           n.pc = "reread" /\ ~n.failed => Fresh
    PROVE  FlagsInv'
<1>1. reqs' \in [Requests -> Request] /\ AnswersExplained'
  BY OneRequest
<1>2. reqs'[q] = n /\ \A p \in Requests \ {q} : reqs'[p] = reqs[p]
  BY DEF FlagsInv, FlagsShape
<1>3. FlagsShape'
  BY <1>1 DEF FlagsInv, FlagsShape
<1>4. OneHolder'
  BY <1>2 DEF FlagsInv, OneHolder
<1>5. HolderShape'
  BY <1>2 DEF FlagsInv, HolderShape, Fresh
<1>6. CacheAge'
  BY DEF FlagsInv, CacheAge
<1>7. RereadFresh'
  BY <1>2 DEF FlagsInv, RereadFresh, Fresh
<1> QED BY <1>1, <1>3, <1>4, <1>5, <1>6, <1>7 DEF FlagsInv

\* Changing fields of a request that is not answered keeps it explained.
LEMMA StillExplained ==
    ASSUME NEW r \in Request, Explained(r), r.pc \notin {"idle", "done"},
           NEW n \in Request, n.loads = r.loads, n.rows = r.rows, n.stage = r.stage, n.out = r.out
    PROVE  Explained(n)
<1>1. r.out = "none" /\ (r.stage \in {"defaults", "unhide"} => r.rows \in 1..Len(tables))
      /\ \A i \in 1..Len(r.loads) : r.loads[i] \in 0..Len(tables)
  BY DEF Explained
<1> QED BY <1>1 DEF Explained

LEMMA LoadCachedStep ==
    ASSUME FlagsInv, NEW q \in Requests, LoadCached(q)
    PROVE  FlagsInv'
<1>1. /\ reqs[q].pc = "load" /\ UNCHANGED <<tables, replaced, now, current, fetchedAt, refreshMu>>
      /\ reqs' = [reqs EXCEPT ![q] = IF Fresh THEN Continue(q, current)
                                     ELSE [reqs[q] EXCEPT !.pc = "waiting"]]
  BY DEF LoadCached, FlagsInv, FlagsShape
<1>2. reqs[q] \in Request /\ Explained(reqs[q]) /\ current \in 0..Len(tables) /\ current \in Nat
  BY DEF FlagsInv, FlagsShape, AnswersExplained
<1>3. CASE Fresh
  <2> DEFINE n == Continue(q, current)
  <2>1. n \in Request /\ n.pc \in {"load", "done"}
    BY <1>2, ContinueLemma
  <2>2. Explained(n)
    BY <1>1, <1>2, ContinueExplained
  <2>3. reqs' = [reqs EXCEPT ![q] = n]
    BY <1>1, <1>3
  <2> HIDE DEF n
  <2> QED BY <1>1, <2>1, <2>2, <2>3, LocalStep
<1>4. CASE ~Fresh
  <2> DEFINE n == [reqs[q] EXCEPT !.pc = "waiting"]
  <2>1. n \in Request
    BY <1>2, RequestField
  <2>2. /\ n.pc = "waiting" /\ n.loads = reqs[q].loads /\ n.rows = reqs[q].rows
        /\ n.stage = reqs[q].stage /\ n.out = reqs[q].out
    BY <1>2 DEF Request
  <2>3. reqs' = [reqs EXCEPT ![q] = n]
    BY <1>1, <1>4
  <2> HIDE DEF n
  <2>4. Explained(n)
    BY <1>1, <1>2, <2>1, <2>2, StillExplained
  <2> QED BY <1>1, <2>1, <2>2, <2>3, <2>4, LocalStep
<1> QED BY <1>3, <1>4

LEMMA BeginRefreshStep ==
    ASSUME FlagsInv, NEW q \in Requests, BeginRefresh(q)
    PROVE  FlagsInv'
<1>1. /\ reqs[q].pc = "waiting" /\ refreshMu = {}
      /\ UNCHANGED <<tables, replaced, now, current, fetchedAt>>
  BY DEF BeginRefresh
<1>2. reqs[q] \in Request /\ Explained(reqs[q]) /\ now \in Nat
  BY DEF FlagsInv, FlagsShape, AnswersExplained
<1>3. CASE Fresh
  <2> DEFINE n == [reqs[q] EXCEPT !.pc = "reread"]
  <2>1. n \in Request
    BY <1>2, RequestField
  <2>2. /\ n.pc = "reread" /\ n.loads = reqs[q].loads /\ n.rows = reqs[q].rows
        /\ n.stage = reqs[q].stage /\ n.out = reqs[q].out
    BY <1>2 DEF Request
  <2>3. reqs' = [reqs EXCEPT ![q] = n] /\ UNCHANGED refreshMu
    BY <1>3 DEF BeginRefresh, FlagsInv, FlagsShape
  <2> HIDE DEF n
  <2>4. Explained(n)
    BY <1>1, <1>2, <2>1, <2>2, StillExplained
  <2> QED BY <1>1, <1>3, <2>1, <2>2, <2>3, <2>4, LocalStep
<1>4. CASE ~Fresh
  <2> DEFINE m == [reqs[q] EXCEPT !.pc = "listing"]
             n == [m EXCEPT !.begun = now]
  <2>1. n \in Request
    BY <1>2, RequestField
  <2>2. /\ n.pc = "listing" /\ n.loads = reqs[q].loads /\ n.rows = reqs[q].rows
        /\ n.stage = reqs[q].stage /\ n.out = reqs[q].out /\ n.begun = now
    BY <1>2 DEF Request
  <2>3. reqs' = [reqs EXCEPT ![q] = n] /\ refreshMu' = {q}
    BY <1>4 DEF BeginRefresh, FlagsInv, FlagsShape
  <2> HIDE DEF n, m
  <2>4. Explained(n)
    BY <1>1, <1>2, <2>1, <2>2, StillExplained
  <2>5. reqs' \in [Requests -> Request] /\ AnswersExplained'
    BY <1>1, <2>1, <2>3, <2>4, OneRequest
  <2>6. reqs'[q] = n /\ \A p \in Requests \ {q} : reqs'[p] = reqs[p]
    BY <2>3 DEF FlagsInv, FlagsShape
  <2>7. FlagsShape'
    BY <1>1, <2>5 DEF FlagsInv, FlagsShape
  <2>8. OneHolder'
    BY <1>1, <2>2, <2>3, <2>6 DEF FlagsInv, OneHolder
  <2>9. HolderShape'
    BY <1>1, <1>2, <1>4, <2>2, <2>6 DEF FlagsInv, HolderShape, Fresh
  <2>10. CacheAge' /\ RereadFresh'
    BY <1>1, <2>2, <2>6 DEF FlagsInv, CacheAge, RereadFresh, Fresh
  <2> QED BY <2>5, <2>7, <2>8, <2>9, <2>10 DEF FlagsInv
<1> QED BY <1>3, <1>4

LEMMA ListStep ==
    ASSUME FlagsInv, NEW q \in Requests, List(q)
    PROVE  FlagsInv'
<1> DEFINE m == [reqs[q] EXCEPT !.pc = "listed"]
           n == [m EXCEPT !.got = Len(tables)]
<1>1. /\ reqs[q].pc = "listing" /\ reqs' = [reqs EXCEPT ![q] = n]
      /\ UNCHANGED <<tables, replaced, now, current, fetchedAt, refreshMu>>
  BY DEF List, FlagsInv, FlagsShape
<1>2. reqs[q] \in Request /\ Explained(reqs[q]) /\ Len(tables) \in Nat \ {0} /\ current <= Len(tables)
  BY DEF FlagsInv, FlagsShape, AnswersExplained
<1>3. n \in Request
  BY <1>2, RequestField
<1>4. /\ n.pc = "listed" /\ n.loads = reqs[q].loads /\ n.rows = reqs[q].rows
      /\ n.stage = reqs[q].stage /\ n.out = reqs[q].out /\ n.begun = reqs[q].begun
      /\ n.got = Len(tables)
  BY <1>2 DEF Request
<1> HIDE DEF n, m
<1>5. Explained(n)
  BY <1>1, <1>2, <1>3, <1>4, StillExplained
<1>6. reqs' \in [Requests -> Request] /\ AnswersExplained'
  BY <1>1, <1>3, <1>5, OneRequest
<1>7. reqs'[q] = n /\ \A p \in Requests \ {q} : reqs'[p] = reqs[p]
  BY <1>1 DEF FlagsInv, FlagsShape
<1>8. FlagsShape'
  BY <1>1, <1>6 DEF FlagsInv, FlagsShape
<1>9. OneHolder'
  BY <1>1, <1>4, <1>7 DEF FlagsInv, OneHolder
<1>10. HolderShape'
  BY <1>1, <1>2, <1>4, <1>7 DEF FlagsInv, HolderShape, Fresh
<1>11. CacheAge' /\ RereadFresh'
  BY <1>1, <1>4, <1>7 DEF FlagsInv, CacheAge, RereadFresh, Fresh
<1> QED BY <1>6, <1>8, <1>9, <1>10, <1>11 DEF FlagsInv

LEMMA ListFailsStep ==
    ASSUME FlagsInv, NEW q \in Requests, ListFails(q)
    PROVE  FlagsInv'
<1> DEFINE l == [reqs[q] EXCEPT !.pc = "reread"]
           m == [l EXCEPT !.failed = TRUE]
           n == [m EXCEPT !.got = None]
<1>1. /\ reqs[q].pc \in {"listing", "listed"} /\ reqs' = [reqs EXCEPT ![q] = n]
      /\ refreshMu' = refreshMu \ {q}
      /\ UNCHANGED <<tables, replaced, now, current, fetchedAt>>
  BY DEF ListFails, FlagsInv, FlagsShape
<1>2. reqs[q] \in Request /\ Explained(reqs[q])
  BY DEF FlagsInv, FlagsShape, AnswersExplained
<1>3. n \in Request
  BY <1>2, RequestField DEF None
<1>4. /\ n.pc = "reread" /\ n.loads = reqs[q].loads /\ n.rows = reqs[q].rows
      /\ n.stage = reqs[q].stage /\ n.out = reqs[q].out /\ n.failed
  BY <1>2 DEF Request
<1> HIDE DEF n, m, l
<1>5. Explained(n)
  BY <1>1, <1>2, <1>3, <1>4, StillExplained
<1>6. reqs' \in [Requests -> Request] /\ AnswersExplained'
  BY <1>1, <1>3, <1>5, OneRequest
<1>7. reqs'[q] = n /\ \A p \in Requests \ {q} : reqs'[p] = reqs[p]
  BY <1>1 DEF FlagsInv, FlagsShape
<1>8. FlagsShape'
  BY <1>1, <1>6 DEF FlagsInv, FlagsShape
<1>9. OneHolder'
  BY <1>1, <1>4, <1>7 DEF FlagsInv, OneHolder
<1>10. HolderShape'
  BY <1>1, <1>4, <1>7 DEF FlagsInv, HolderShape, Fresh
<1>11. CacheAge' /\ RereadFresh'
  BY <1>1, <1>4, <1>7 DEF FlagsInv, CacheAge, RereadFresh, Fresh
<1> QED BY <1>6, <1>8, <1>9, <1>10, <1>11 DEF FlagsInv

LEMMA PublishStep ==
    ASSUME FlagsInv, NEW q \in Requests, Publish(q)
    PROVE  FlagsInv'
<1> DEFINE n == [reqs[q] EXCEPT !.pc = "reread"]
<1>1. /\ reqs[q].pc = "listed" /\ reqs' = [reqs EXCEPT ![q] = n]
      /\ current' = reqs[q].got /\ fetchedAt' = now /\ refreshMu' = refreshMu \ {q}
      /\ UNCHANGED <<tables, replaced, now>>
  BY DEF Publish, FlagsInv, FlagsShape
<1>2. reqs[q] \in Request /\ Explained(reqs[q]) /\ now \in Nat
  BY DEF FlagsInv, FlagsShape, AnswersExplained
<1>3. n \in Request
  BY <1>2, RequestField
<1>4. /\ n.pc = "reread" /\ n.loads = reqs[q].loads /\ n.rows = reqs[q].rows
      /\ n.stage = reqs[q].stage /\ n.out = reqs[q].out
  BY <1>2 DEF Request
<1> HIDE DEF n
<1>5. Explained(n)
  BY <1>1, <1>2, <1>3, <1>4, StillExplained
<1>6. reqs' \in [Requests -> Request] /\ AnswersExplained'
  BY <1>1, <1>3, <1>5, OneRequest
<1>7. reqs'[q] = n /\ \A p \in Requests \ {q} : reqs'[p] = reqs[p]
  BY <1>1 DEF FlagsInv, FlagsShape
<1>8. /\ reqs[q].got \in 1..Len(tables) /\ reqs[q].begun \in Nat /\ now <= reqs[q].begun + RefreshTimeout
      /\ reqs[q].got < Len(tables) => replaced[reqs[q].got] >= reqs[q].begun
  BY <1>1, <1>2 DEF FlagsInv, HolderShape, Request
<1>9. FlagsShape'
  BY <1>1, <1>2, <1>6, <1>8 DEF FlagsInv, FlagsShape
<1>10. OneHolder'
  BY <1>1, <1>4, <1>7 DEF FlagsInv, OneHolder
<1>11. \A p \in Requests : reqs'[p].pc \notin {"listing", "listed"}
  BY <1>1, <1>4, <1>7 DEF FlagsInv, OneHolder
<1>12. HolderShape'
  BY <1>11 DEF HolderShape
<1>13. Fresh'
  BY <1>1, <1>2, <1>8 DEF Fresh, None
<1>14. RereadFresh'
  BY <1>13 DEF RereadFresh
<1>15. CacheAge'
  <2> SUFFICES ASSUME reqs[q].got < Len(tables)
               PROVE  replaced[reqs[q].got] + RefreshTimeout >= now
    BY <1>1 DEF CacheAge
  <2>1. replaced[reqs[q].got] \in Nat
    BY <1>8 DEF FlagsInv, FlagsShape
  <2> QED BY <1>2, <1>8, <2>1
<1> QED BY <1>6, <1>9, <1>10, <1>12, <1>14, <1>15 DEF FlagsInv

LEMMA RereadStep ==
    ASSUME FlagsInv, NEW q \in Requests, Reread(q)
    PROVE  FlagsInv'
<1> DEFINE n == Continue(q, current)
<1>1. /\ reqs[q].pc = "reread" /\ reqs' = [reqs EXCEPT ![q] = n]
      /\ UNCHANGED <<tables, replaced, now, current, fetchedAt, refreshMu>>
  BY DEF Reread
<1>2. reqs[q] \in Request /\ current \in 0..Len(tables) /\ current \in Nat
  BY DEF FlagsInv, FlagsShape
<1>3. n \in Request /\ n.pc \in {"load", "done"}
  BY <1>2, ContinueLemma
<1>4. Explained(n)
  BY <1>1, <1>2, ContinueExplained
<1> HIDE DEF n
<1> QED BY <1>1, <1>3, <1>4, LocalStep

\* A request arrives, to be gated or to list the flags.
LEMMA ArriveStep ==
    ASSUME FlagsInv, NEW q \in Requests, NEW e \in Emails \cup {Anonymous},
           GatedRequest(q, e) \/ ListConfigs(q, e)
    PROVE  FlagsInv'
<1> DEFINE gated == [Idle EXCEPT !.pc = "load", !.email = e]
           listing == [Idle EXCEPT !.pc = "load", !.email = e, !.stage = "defaults", !.rows = Len(tables)]
           failed == [Idle EXCEPT !.pc = "done", !.email = e, !.stage = "defaults", !.out = "error"]
<1>1. Len(tables) \in Nat \ {0}
  BY DEF FlagsInv, FlagsShape
<1>2. Idle \in Request /\ Idle.out = "none" /\ Idle.loads = <<>> /\ Idle.stage = "gate"
  BY DEF Idle, Request, Stages, Outs, None
<1>3. ASSUME NEW pc \in {"load", "done"}
      PROVE  LET n == [[Idle EXCEPT !.pc = pc] EXCEPT !.email = e] IN
             n \in Request /\ n.pc = pc /\ n.out = "none" /\ n.loads = <<>> /\ n.stage = "gate"
  BY <1>2, <1>3 DEF Request
<1>4. gated \in Request /\ gated.pc = "load" /\ gated.out = "none" /\ gated.loads = <<>> /\ gated.stage = "gate"
  BY <1>3
<1>5. /\ listing \in Request /\ listing.pc = "load" /\ listing.out = "none" /\ listing.loads = <<>>
      /\ listing.rows = Len(tables)
  <2> DEFINE m == [[Idle EXCEPT !.pc = "load"] EXCEPT !.email = e]
  <2>1. m \in Request /\ m.pc = "load" /\ m.out = "none" /\ m.loads = <<>>
    BY <1>3
  <2>2. listing = [[m EXCEPT !.stage = "defaults"] EXCEPT !.rows = Len(tables)]
    OBVIOUS
  <2> HIDE DEF m, listing
  <2> QED BY <1>1, <2>1, <2>2 DEF Request, Stages
<1>6. failed \in Request /\ failed.pc = "done" /\ failed.out = "error" /\ failed.loads = <<>>
  <2> DEFINE m == [[Idle EXCEPT !.pc = "done"] EXCEPT !.email = e]
  <2>1. m \in Request /\ m.pc = "done" /\ m.loads = <<>>
    BY <1>3
  <2>2. failed = [[m EXCEPT !.stage = "defaults"] EXCEPT !.out = "error"]
    OBVIOUS
  <2> HIDE DEF m, failed
  <2> QED BY <2>1, <2>2 DEF Request, Stages, Outs
<1>7. /\ reqs[q].pc \in {"idle", "done"} /\ \E n \in {gated, listing, failed} : reqs' = [reqs EXCEPT ![q] = n]
      /\ UNCHANGED <<tables, replaced, now, current, fetchedAt, refreshMu>>
  BY DEF GatedRequest, ListConfigs
<1> HIDE DEF gated, listing, failed
<1>8. Explained(gated) /\ Explained(listing) /\ Explained(failed)
  BY <1>1, <1>4, <1>5, <1>6 DEF Explained
<1>9. PICK n \in {gated, listing, failed} : reqs' = [reqs EXCEPT ![q] = n]
  BY <1>7
<1>10. n \in Request /\ Explained(n) /\ n.pc \in {"load", "done"}
  BY <1>4, <1>5, <1>6, <1>8, <1>9
<1> QED BY <1>7, <1>9, <1>10, LocalStep

LEMMA EditStep ==
    ASSUME FlagsInv, NEW t \in Table, EditTo(t)
    PROVE  FlagsInv'
<1>1. /\ tables' = Append(tables, t) /\ replaced' = Append(replaced, now)
      /\ UNCHANGED <<now, current, fetchedAt, refreshMu, reqs>>
  BY DEF EditTo
<1>2. /\ tables \in Seq(Table) /\ replaced \in Seq(Nat) /\ now \in Nat
      /\ Len(tables) \in Nat /\ Len(replaced) \in Nat /\ Len(replaced) + 1 = Len(tables)
      /\ current \in 0..Len(tables) /\ fetchedAt \in 0..now
  BY DEF FlagsInv, FlagsShape
<1>3. /\ tables' \in Seq(Table) /\ Len(tables') = Len(tables) + 1
      /\ \A i \in 1..Len(tables) : tables'[i] = tables[i]
  BY <1>1, <1>2
<1>4. /\ replaced' \in Seq(Nat) /\ Len(replaced') = Len(replaced) + 1
      /\ replaced'[Len(tables)] = now
      /\ \A i \in 1..Len(tables) - 1 : replaced'[i] = replaced[i]
  BY <1>1, <1>2
<1>5. FlagsShape'
  BY <1>1, <1>2, <1>3, <1>4 DEF FlagsInv, FlagsShape
<1>6. OneHolder' /\ RereadFresh'
  BY <1>1 DEF FlagsInv, OneHolder, RereadFresh, Fresh
<1>7. HolderShape'
  <2> SUFFICES ASSUME NEW q \in Requests, reqs[q].pc = "listed"
               PROVE  /\ reqs[q].got \in 1..Len(tables') /\ current <= reqs[q].got
                      /\ reqs[q].got < Len(tables') => replaced'[reqs[q].got] >= reqs[q].begun
    BY <1>1 DEF FlagsInv, HolderShape, Fresh
  <2>1. /\ reqs[q].got \in 1..Len(tables) /\ current <= reqs[q].got /\ reqs[q].begun <= now
        /\ reqs[q].got < Len(tables) => replaced[reqs[q].got] >= reqs[q].begun
    BY DEF FlagsInv, HolderShape
  <2>2. reqs[q].begun \in Nat
    BY DEF FlagsInv, FlagsShape, Request
  <2>3. CASE reqs[q].got = Len(tables)
    BY <1>2, <1>3, <1>4, <2>1, <2>2, <2>3
  <2>4. CASE reqs[q].got < Len(tables)
    <3>1. reqs[q].got \in 1..Len(tables) - 1
      BY <1>2, <2>1, <2>4
    <3>2. replaced'[reqs[q].got] = replaced[reqs[q].got]
      BY <1>4, <3>1
    <3> QED BY <1>2, <1>3, <2>1, <2>4, <3>2
  <2> QED BY <1>2, <2>1, <2>3, <2>4
<1>8. CacheAge'
  <2> SUFFICES ASSUME current # None, current <= Len(tables)
               PROVE  replaced'[current] + RefreshTimeout >= fetchedAt
    <3>1. \A m, n \in Nat : m < n + 1 => m <= n
      OBVIOUS
    <3>2. current \in Nat /\ (current < Len(tables') => current <= Len(tables))
      BY <1>2, <1>3, <3>1
    <3> QED BY <1>1, <3>2 DEF CacheAge
  <2>1. CASE current = Len(tables)
    BY <1>2, <1>4, <2>1
  <2>2. CASE current < Len(tables)
    <3>1. current \in 1..Len(tables) - 1
      BY <1>2, <2>2 DEF None
    <3>2. replaced'[current] = replaced[current]
      BY <1>4, <3>1
    <3> QED BY <2>2, <3>2 DEF FlagsInv, CacheAge
  <2> QED BY <1>2, <2>1, <2>2
<1>9. AnswersExplained'
  <2>1. ASSUME NEW q \in Requests PROVE Explained(reqs[q])'
    <3>1. Explained(reqs[q]) /\ reqs[q] \in Request /\ Len(tables') >= Len(tables)
      BY <1>2, <1>3 DEF FlagsInv, FlagsShape, AnswersExplained
    <3>2. ASSUME NEW r, r = reqs[q], r \in Request, Explained(r) PROVE Explained(r)'
      BY <1>2, <1>3, <3>1, <3>2, TablesGrow
    <3> QED BY <1>1, <3>1, <3>2 DEF Explained, Snapshot, BypassesGates
  <2> QED BY <1>1, <2>1 DEF AnswersExplained
<1> QED BY <1>5, <1>6, <1>7, <1>8, <1>9 DEF FlagsInv

LEMMA TickStep ==
    ASSUME FlagsInv, Tick
    PROVE  FlagsInv'
<1>1. /\ now' = now + 1 /\ UNCHANGED <<tables, replaced, current, fetchedAt, refreshMu, reqs>>
      /\ \A q \in Requests : reqs[q].pc \notin {"load", "reread"}
      /\ \A q \in refreshMu : now < reqs[q].begun + RefreshTimeout
  BY DEF Tick
<1>2. FlagsShape'
  BY <1>1 DEF FlagsInv, FlagsShape
<1>3. OneHolder' /\ CacheAge' /\ RereadFresh'
  BY <1>1 DEF FlagsInv, OneHolder, CacheAge, RereadFresh
<1>4. HolderShape'
  <2> SUFFICES ASSUME NEW q \in Requests, reqs[q].pc \in {"listing", "listed"}
               PROVE  ~Fresh' /\ reqs[q].begun <= now + 1 /\ now + 1 <= reqs[q].begun + RefreshTimeout
    BY <1>1 DEF FlagsInv, HolderShape
  <2>1. q \in refreshMu /\ ~Fresh /\ reqs[q].begun <= now
    BY DEF FlagsInv, OneHolder, HolderShape
  <2>2. reqs[q].begun \in Nat /\ now \in Nat /\ fetchedAt \in Nat
    BY DEF FlagsInv, FlagsShape, Request
  <2> QED BY <1>1, <2>1, <2>2 DEF Fresh
<1>5. AnswersExplained'
  BY <1>1 DEF FlagsInv, AnswersExplained, Explained, Snapshot, BypassesGates
<1> QED BY <1>2, <1>3, <1>4, <1>5 DEF FlagsInv

\* An edit changes one row to another content app_config may have.
LEMMA EditRowLemma ==
    ASSUME FlagsInv, EditRow
    PROVE  \E t \in Table : EditTo(t)
<1> DEFINE t == Last(tables)
<1>1. t \in Table
  BY DEF FlagsInv, FlagsShape, Last
<1> HIDE DEF t
<1>2. ASSUME NEW f \in Features, NEW v \in FlagValues PROVE [t EXCEPT !.flag[f] = v] \in Table
  BY <1>1 DEF Table
<1>3. ASSUME NEW g \in GateRows PROVE [t EXCEPT !.gates = g] \in Table
  BY <1>1 DEF Table
<1>4. ASSUME NEW b \in SUBSET Emails PROVE [t EXCEPT !.bypass = b] \in Table
  BY <1>1 DEF Table
<1> QED BY <1>2, <1>3, <1>4 DEF EditRow, t

LEMMA FlagsInvStep == FlagsInv /\ [FlagsNext]_flagVars => FlagsInv'
<1> SUFFICES ASSUME FlagsInv, [FlagsNext]_flagVars PROVE FlagsInv'
  OBVIOUS
<1>1. ASSUME NEW q \in Requests, Load(q) PROVE FlagsInv'
  BY <1>1, LoadCachedStep, BeginRefreshStep, ListStep, ListFailsStep, PublishStep, RereadStep DEF Load
<1>2. ASSUME NEW q \in Requests, NEW e \in Emails \cup {Anonymous},
             GatedRequest(q, e) \/ ListConfigs(q, e)
      PROVE  FlagsInv'
  BY <1>2, ArriveStep
<1>3. CASE EditRow
  BY <1>3, EditRowLemma, EditStep
<1>4. CASE Tick
  BY <1>4, TickStep
<1>5. CASE UNCHANGED flagVars
  BY <1>5 DEF flagVars, FlagsInv, FlagsShape, OneHolder, HolderShape, CacheAge, RereadFresh, Fresh,
              AnswersExplained, Explained, Snapshot, BypassesGates
<1> QED BY <1>1, <1>2, <1>3, <1>4, <1>5 DEF FlagsNext

-----------------------------------------------------------------------------
(***************************************************************************)
(* The properties.                                                         *)
(***************************************************************************)

\* Every switch shown is one of a row read, of the snapshot loaded first, or switched on by the allowlist.
LEMMA ShownLemma == FlagsInv => ShownAsRead
<1> SUFFICES ASSUME FlagsInv, NEW q \in Requests, reqs[q].out \in {"listed", "unhidden"},
                    NEW f \in DOMAIN Served(reqs[q])
             PROVE  LET r == reqs[q]
                        shown == Served(r) IN
                    /\ shown[f] = "1" => \E v \in Readings(r) :
                         State(Snapshot(v), f) \/ BypassesGates(Snapshot(v), r.email)
                    /\ shown[f] = "0" => \E v \in Readings(r) : ~State(Snapshot(v), f)
                    /\ shown[f] # "absent"
  BY DEF ShownAsRead
<1> DEFINE r == reqs[q]
           rows == tables[r.rows]
           snap == Snapshot(r.loads[1])
           known == DOMAIN snap.states
           value(g) == IF r.out = "unhidden" /\ g \in known THEN "1"
                       ELSE IF rows.flag[g] # "absent" THEN rows.flag[g]
                       ELSE IF snap.states[g] THEN "1" ELSE "0"
<1>1. /\ r \in Request /\ r.rows \in 1..Len(tables) /\ Len(r.loads) > 0 /\ tables \in Seq(Table)
      /\ r.out = "unhidden" => BypassesGates(Snapshot(Last(r.loads)), r.email)
  BY DEF FlagsInv, FlagsShape, AnswersExplained, Explained
<1>2. r.rows \in Readings(r) /\ r.loads[1] \in Readings(r) /\ Last(r.loads) \in Readings(r)
  BY <1>1 DEF Readings, ToSet, Last, Request
<1>3. /\ f \in known \cup {g \in Features : rows.flag[g] # "absent"}
      /\ Served(r)[f] = value(f)
  BY DEF Served
<1>4. rows \in Table
  BY <1>1
<1>5. CASE r.out = "unhidden" /\ f \in known
  <2>1. value(f) = "1"
    BY <1>5
  <2> QED BY <1>1, <1>2, <1>3, <1>5, <2>1
<1>6. CASE ~(r.out = "unhidden" /\ f \in known) /\ rows.flag[f] # "absent"
  <2>1. value(f) = rows.flag[f]
    BY <1>6
  <2>2. f \in Features
    <3>1. CASE r.loads[1] = None
      BY <1>3, <3>1 DEF Snapshot, defaultSnapshot
    <3>2. CASE r.loads[1] # None
      BY <1>3, <3>2 DEF Snapshot, apply, featuresOf
    <3> QED BY <3>1, <3>2
  <2>3. /\ Snapshot(r.rows).states = [g \in featuresOf(rows) |-> parseEnabled(rows.flag[g], TRUE)]
        /\ f \in featuresOf(rows)
    <3>1. r.rows # None /\ Snapshot(r.rows) = apply(rows)
      BY <1>1 DEF Snapshot, None
    <3>2. apply(rows).states = [g \in featuresOf(rows) |-> parseEnabled(rows.flag[g], TRUE)]
      BY DEF apply
    <3>3. f \in featuresOf(rows)
      BY <1>6, <2>2 DEF featuresOf
    <3> QED BY <3>1, <3>2, <3>3
  <2>4. State(Snapshot(r.rows), f) = parseEnabled(rows.flag[f], TRUE)
    BY <2>3 DEF State
  <2>5. CASE rows.flag[f] = "1"
    <3>1. State(Snapshot(r.rows), f)
      BY <2>4, <2>5 DEF parseEnabled
    <3> QED BY <1>2, <1>3, <2>1, <2>5, <3>1
  <2>6. CASE rows.flag[f] = "0"
    <3>1. ~State(Snapshot(r.rows), f)
      BY <2>4, <2>6 DEF parseEnabled
    <3> QED BY <1>2, <1>3, <2>1, <2>6, <3>1
  <2>7. CASE rows.flag[f] \notin {"0", "1"}
    BY <1>3, <1>6, <2>1, <2>7
  <2> QED BY <2>5, <2>6, <2>7
<1>7. CASE ~(r.out = "unhidden" /\ f \in known) /\ rows.flag[f] = "absent"
  <2>1. f \in known /\ value(f) = IF snap.states[f] THEN "1" ELSE "0"
    BY <1>3, <1>7
  <2>2. State(snap, f) = snap.states[f]
    BY <2>1 DEF State
  <2>3. CASE snap.states[f]
    <3>1. value(f) = "1"
      BY <2>1, <2>3
    <3> QED BY <1>2, <1>3, <2>2, <2>3, <3>1
  <2>4. CASE ~snap.states[f]
    <3>1. value(f) = "0"
      BY <2>1, <2>4
    <3> QED BY <1>2, <1>3, <2>2, <2>4, <3>1
  <2> QED BY <2>3, <2>4
<1> QED BY <1>5, <1>6, <1>7

\* A load appends what the cache answered, and only a load appends.
LEMMA LoadsLemma ==
    ASSUME FlagsInv, [FlagsNext]_flagVars, NEW q \in Requests,
           Len(reqs'[q].loads) > Len(reqs[q].loads)
    PROVE  /\ (reqs[q].pc = "load" /\ Fresh) \/ reqs[q].pc = "reread"
           /\ Last(reqs'[q].loads) = current
<1>1. reqs[q] \in Request /\ current \in Nat /\ reqs \in [Requests -> Request]
  BY DEF FlagsInv, FlagsShape
<1>2. reqs[q].loads \in Seq(Nat) /\ Len(reqs[q].loads) \in Nat
  BY <1>1 DEF Request
<1>3. ASSUME NEW l, l = reqs[q].loads \/ l = <<>> PROVE reqs'[q].loads # l
  BY <1>2, <1>3
<1>4. ASSUME reqs'[q] = Continue(q, current) PROVE Last(reqs'[q].loads) = current
  <2>1. reqs'[q].loads = Append(reqs[q].loads, current)
    BY <1>1, <1>4, ContinueLemma
  <2> QED BY <1>1, <1>2, <2>1 DEF Last
<1>5. ASSUME NEW p \in Requests, Load(p)
      PROVE  /\ (reqs[q].pc = "load" /\ Fresh) \/ reqs[q].pc = "reread"
             /\ Last(reqs'[q].loads) = current
  <2>1. p = q
    <3>1. p # q => reqs'[q] = reqs[q]
      BY <1>1, <1>5 DEF Load, LoadCached, BeginRefresh, List, ListFails, Publish, Reread
    <3> QED BY <1>3, <3>1
  <2>2. ~(BeginRefresh(q) \/ List(q) \/ ListFails(q) \/ Publish(q))
    <3>1. ASSUME BeginRefresh(q) \/ List(q) \/ ListFails(q) \/ Publish(q)
          PROVE  reqs'[q].loads = reqs[q].loads
      <4>1. CASE BeginRefresh(q)
        BY <1>1, <4>1 DEF BeginRefresh, Request
      <4>2. CASE List(q)
        BY <1>1, <4>2 DEF List, Request
      <4>3. CASE ListFails(q)
        BY <1>1, <4>3 DEF ListFails, Request
      <4>4. CASE Publish(q)
        BY <1>1, <4>4 DEF Publish, Request
      <4> QED BY <3>1, <4>1, <4>2, <4>3, <4>4
    <3> QED BY <1>3, <3>1
  <2>3. CASE LoadCached(q)
    <3>1. CASE ~Fresh
      <4>1. reqs'[q] = [reqs[q] EXCEPT !.pc = "waiting"]
        BY <1>1, <2>3, <3>1 DEF LoadCached
      <4>2. reqs'[q].loads = reqs[q].loads
        BY <1>1, <4>1 DEF Request
      <4> QED BY <1>3, <4>2
    <3>2. CASE Fresh
      <4>1. reqs[q].pc = "load" /\ reqs'[q] = Continue(q, current)
        BY <1>1, <2>3, <3>2 DEF LoadCached
      <4> QED BY <1>4, <3>2, <4>1
    <3> QED BY <3>1, <3>2
  <2>4. CASE Reread(q)
    <3>1. reqs[q].pc = "reread" /\ reqs'[q] = Continue(q, current)
      BY <1>1, <2>4 DEF Reread
    <3> QED BY <1>4, <3>1
  <2> QED BY <1>5, <2>1, <2>2, <2>3, <2>4 DEF Load
<1>6. ASSUME NEW p \in Requests, NEW e \in Emails \cup {Anonymous}, GatedRequest(p, e) \/ ListConfigs(p, e)
      PROVE  FALSE
  <2>1. \/ reqs'[q] = reqs[q]
        \/ \E r \in Request : r.loads = <<>> /\ reqs'[q] = r
    <3>1. p # q => reqs'[q] = reqs[q]
      BY <1>1, <1>6 DEF GatedRequest, ListConfigs
    <3>2. ASSUME p = q PROVE reqs'[q].loads = <<>>
      <4>1. Idle.loads = <<>> /\ Idle \in Request
        BY DEF Idle, Request, Stages, Outs, None
      <4>2. \/ reqs'[q] = [Idle EXCEPT !.pc = "load", !.email = e]
            \/ reqs'[q] = [Idle EXCEPT !.pc = "load", !.email = e, !.stage = "defaults", !.rows = Len(tables)]
            \/ reqs'[q] = [Idle EXCEPT !.pc = "done", !.email = e, !.stage = "defaults", !.out = "error"]
        BY <1>1, <1>6, <3>2 DEF GatedRequest, ListConfigs
      <4> QED BY <4>1, <4>2 DEF Request
    <3>3. reqs'[q] \in Request
      BY FlagsInvStep DEF FlagsInv, FlagsShape
    <3> QED BY <3>1, <3>2, <3>3
  <2> QED BY <1>3, <2>1
<1>7. ASSUME EditRow \/ Tick \/ UNCHANGED flagVars PROVE FALSE
  <2>1. UNCHANGED reqs
    BY <1>7 DEF EditRow, EditTo, Tick, flagVars
  <2> QED BY <1>3, <2>1
<1> QED BY <1>5, <1>6, <1>7 DEF FlagsNext

\* A cache that is fresh holds a reading that was in force recently.
LEMMA FreshIsRecent == FlagsInv /\ Fresh => Recent(current)
<1> SUFFICES ASSUME FlagsInv, Fresh PROVE Recent(current)
  OBVIOUS
<1>1. /\ current # None /\ now - fetchedAt < TTL /\ now \in Nat /\ fetchedAt \in Nat /\ current \in Nat
      /\ current <= Len(tables)
  BY DEF FlagsInv, FlagsShape, Fresh
<1>2. ASSUME current < Len(tables) PROVE replaced[current] + TTL + RefreshTimeout > now
  <2>1. replaced[current] + RefreshTimeout >= fetchedAt
    BY <1>1, <1>2 DEF FlagsInv, CacheAge
  <2>2. current \in 1..Len(replaced)
    <3>1. Len(replaced) \in Nat /\ Len(replaced) + 1 = Len(tables)
      BY DEF FlagsInv, FlagsShape
    <3> QED BY <1>1, <1>2, <3>1 DEF None
  <2>3. replaced[current] \in Nat
    BY <2>2 DEF FlagsInv, FlagsShape
  <2> QED BY <1>1, <2>1, <2>3
<1> QED BY <1>1, <1>2 DEF Recent

\* What a request is answered follows the table: it rests on a recent reading unless its refresh failed,
\* readings never go back, one is published per TTL, and a listing is explained by the readings made
\* (resolver.go, load and refresh; middleware/feature.go; handlers/app_config.go).
THEOREM FlagsFollowTheTable == FlagsSpec => FlagSafety
<1>1. FlagsInv /\ [FlagsNext]_flagVars =>
        [\A q \in Requests :
           LET l == reqs'[q].loads IN
           Len(l) > Len(reqs[q].loads) /\ ~reqs[q].failed => Recent(Last(l))]_flagVars
  <2> SUFFICES ASSUME FlagsInv, [FlagsNext]_flagVars, NEW q \in Requests,
                      Len(reqs'[q].loads) > Len(reqs[q].loads), ~reqs[q].failed
               PROVE  Recent(Last(reqs'[q].loads))
    OBVIOUS
  <2>1. Fresh /\ Last(reqs'[q].loads) = current
    BY LoadsLemma DEF FlagsInv, RereadFresh
  <2> QED BY <2>1, FreshIsRecent
<1>2. FlagsInv /\ [FlagsNext]_flagVars => [current' >= current]_flagVars
  <2> SUFFICES ASSUME FlagsInv, FlagsNext PROVE current' >= current
    OBVIOUS
  <2>1. current \in Nat
    BY DEF FlagsInv, FlagsShape
  <2>2. ASSUME NEW q \in Requests, Publish(q) PROVE current' >= current
    <3>1. current' = reqs[q].got /\ reqs[q].pc = "listed"
      BY <2>2 DEF Publish
    <3> QED BY <2>1, <3>1 DEF FlagsInv, HolderShape
  <2>3. ASSUME ~\E q \in Requests : Publish(q) PROVE UNCHANGED current
    BY <2>3 DEF FlagsNext, Load, LoadCached, BeginRefresh, List, ListFails, Reread, GatedRequest,
                ListConfigs, EditRow, EditTo, Tick
  <2> QED BY <2>1, <2>2, <2>3
<1>3. FlagsInv /\ [FlagsNext]_flagVars =>
        [\A q \in Requests : Publishes(q) => current = None \/ now >= fetchedAt + TTL]_flagVars
  <2> SUFFICES ASSUME FlagsInv, NEW q \in Requests, reqs[q].pc = "listed", current # None
               PROVE  now >= fetchedAt + TTL
    BY DEF Publishes
  <2>1. ~Fresh /\ now \in Nat /\ fetchedAt \in Nat
    BY DEF FlagsInv, FlagsShape, HolderShape
  <2> QED BY <2>1 DEF Fresh
<1>4. FlagsSpec => []FlagsInv
  BY FlagsInvInit, FlagsInvStep, PTL DEF FlagsSpec
<1> QED BY <1>1, <1>2, <1>3, <1>4, ShownLemma, PTL
        DEF FlagSafety, FlagsSpec, DecisionsAreRecent, NeverGoesBack, OneReadingPerTTL

-----------------------------------------------------------------------------
(***************************************************************************)
(* The types of the flags, whose clock stops at its bound.                 *)
(***************************************************************************)

InTime == now <= MaxTime

LEMMA ClockStops == ASSUME InTime, FlagsInv, [FlagsNext]_flagVars PROVE InTime'
<1> USE DEF InTime
<1>1. now \in Nat /\ MaxTime \in Nat
  BY FlagsAssumption DEF FlagsInv, FlagsShape
<1>2. CASE Tick
  BY <1>1, <1>2 DEF Tick
<1>3. CASE ~Tick
  <2>1. now' = now
    BY <1>3 DEF FlagsNext, flagVars, Load, LoadCached, BeginRefresh, List, ListFails, Publish, Reread, GatedRequest,
           ListConfigs, EditRow, EditTo
  <2>2. QED
    BY <2>1
<1>4. QED
  BY <1>2, <1>3

LEMMA FlagsAreTyped == ASSUME FlagsInv, InTime PROVE FlagsTypeOK
<1>1. Cardinality(refreshMu) <= 1
  <2>1. CASE refreshMu = {}
    BY <2>1, FS_EmptySet
  <2>2. CASE refreshMu # {}
    <3>1. PICK q : q \in refreshMu
      BY <2>2
    <3>2. \A p \in refreshMu : p = q
      BY <3>1 DEF FlagsInv, OneHolder
    <3>3. refreshMu = {q}
      BY <3>1, <3>2
    <3>4. QED
      BY <3>3, FS_Singleton
  <2>3. QED
    BY <2>1, <2>2
<1>2. QED
  BY <1>1, FlagsAssumption DEF InTime, FlagsInv, FlagsShape, OneHolder, FlagsTypeOK

\* However loads, queries and edits overlap, one request refreshes at a time and the cache names a
\* reading that was made.
THEOREM FlagsTyped == FlagsSpec => []FlagsTypeOK
<1>1. FlagsInit => InTime
  BY FlagsAssumption DEF FlagsInit, InTime
<1>2. FlagsInv /\ InTime /\ [FlagsNext]_flagVars => InTime'
  BY ClockStops
<1>3. FlagsInv /\ InTime => FlagsTypeOK
  BY FlagsAreTyped
<1>4. QED
  BY <1>1, <1>2, <1>3, FlagsInvInit, FlagsInvStep, PTL DEF FlagsSpec

HIDE FlagsAssumption

-----------------------------------------------------------------------------
(***************************************************************************)
(* SchemaCaps.                                                             *)
(***************************************************************************)

\* What a capability's first n - 1 probes ask about.
AskedBefore(c, n) == {Probes[c][i] : i \in {j \in 1..Len(Probes[c]) : j < n}}

Whole(c, S) == AllOrNothing(c) => S \in {{}, ToSet(Probes[c])}

\* Found exactly what there is, while nobody migrates.
Exact(S, T) == migrated = 0 => S = schema \cap T

CacheShape ==
    \A c \in Capabilities : cache[c] # Unresolved =>
        /\ cache[c] \subseteq schema \cap ToSet(Probes[c])
        /\ Whole(c, cache[c])
        /\ Exact(cache[c], ToSet(Probes[c]))

ReaderShape ==
    \A r \in Reads :
        /\ reader[r].pc = "query" =>
            /\ reader[r].found \subseteq schema
            /\ Whole(reader[r].cap, reader[r].found)
        /\ reader[r].pc = "probing" =>
            /\ reader[r].found \subseteq schema \cap AskedBefore(reader[r].cap, reader[r].probe)
            /\ Exact(reader[r].found, AskedBefore(reader[r].cap, reader[r].probe))
        /\ reader[r].probe \in 1..Len(Probes[reader[r].cap]) + 1

\* The objects of a capability are created together before the first migration under way.
SchemaShape == migrated = 0 => \A c \in Capabilities : schema \cap ToSet(Probes[c]) \in {{}, ToSet(Probes[c])}

SchemaInv ==
    /\ schema \subseteq Objects /\ migrated \in Nat
    /\ DOMAIN cache = Capabilities
    /\ reader \in [Reads -> [pc : {"rest", "probing", "query"}, cap : Capabilities,
                             probe : Nat, found : SUBSET Objects]]
    /\ CacheShape
    /\ ReaderShape
    /\ SchemaShape

\* The capabilities, and that no two of them probe the same object.
LEMMA ProbeFacts ==
    /\ Capabilities = {"hasTopicID", "colorTokenColumns", "venueColumns", "activityTables"}
    /\ \A c \in Capabilities : Len(Probes[c]) \in {1, 2}
    /\ \A c \in Capabilities : ToSet(Probes[c]) = {Probes[c][i] : i \in 1..Len(Probes[c])}
    /\ \A c \in Capabilities : ToSet(Probes[c]) \subseteq Objects
    /\ \A c, d \in Capabilities : c # d => ToSet(Probes[c]) \cap ToSet(Probes[d]) = {}
    /\ Len(Probes["activityTables"]) = 2
    /\ Probes["activityTables"][1] # Probes["activityTables"][2]
    /\ Unresolved \notin SUBSET Objects
<1>1. Capabilities = {"hasTopicID", "colorTokenColumns", "venueColumns", "activityTables"}
    BY DEF Capabilities, Probes
<1>2. /\ Probes["hasTopicID"] = <<"sessions.topic_id">>
      /\ Probes["colorTokenColumns"] = <<"rooms.color_token", "tracks.color_token">>
      /\ Probes["venueColumns"] = <<"venue_name", "venue_address">>
      /\ Probes["activityTables"] = <<"con_activities", "con_activity_hours">>
    BY DEF Probes
<1>3. \A c \in Capabilities : Len(Probes[c]) \in {1, 2} /\ DOMAIN Probes[c] = 1..Len(Probes[c])
    <2>1. Len(Probes["hasTopicID"]) = 1 /\ DOMAIN Probes["hasTopicID"] = 1..1
        BY <1>2
    <2>2. Len(Probes["colorTokenColumns"]) = 2 /\ DOMAIN Probes["colorTokenColumns"] = 1..2
        BY <1>2
    <2>3. Len(Probes["venueColumns"]) = 2 /\ DOMAIN Probes["venueColumns"] = 1..2
        BY <1>2
    <2>4. Len(Probes["activityTables"]) = 2 /\ DOMAIN Probes["activityTables"] = 1..2
        BY <1>2
    <2> QED
        BY <1>1, <2>1, <2>2, <2>3, <2>4
<1>4. \A c \in Capabilities : ToSet(Probes[c]) = {Probes[c][i] : i \in 1..Len(Probes[c])}
    BY <1>3 DEF ToSet
<1>5. /\ ToSet(Probes["hasTopicID"]) = {"sessions.topic_id"}
      /\ ToSet(Probes["colorTokenColumns"]) = {"rooms.color_token", "tracks.color_token"}
      /\ ToSet(Probes["venueColumns"]) = {"venue_name", "venue_address"}
      /\ ToSet(Probes["activityTables"]) = {"con_activities", "con_activity_hours"}
    BY <1>2 DEF ToSet
<1>6. \A c, d \in Capabilities : c # d => ToSet(Probes[c]) \cap ToSet(Probes[d]) = {}
    BY <1>1, <1>5
<1>7. \A c \in Capabilities : ToSet(Probes[c]) \subseteq Objects
    BY DEF Objects
<1>8. "unresolved" \notin Objects
    BY <1>1, <1>5 DEF Objects
<1> QED
    BY <1>1, <1>2, <1>3, <1>4, <1>6, <1>7, <1>8 DEF Unresolved

LEMMA SchemaInitInv == SchemaInit => SchemaInv
<1> SUFFICES ASSUME SchemaInit PROVE SchemaInv
    OBVIOUS
<1>1. PICK caps \in SUBSET Asked : schema = UNION {ToSet(Probes[c]) : c \in caps}
    BY DEF SchemaInit
<1>2. caps \subseteq Capabilities
    BY SchemaAssumption
<1>3. schema \subseteq Objects
    BY <1>1, <1>2 DEF Objects
<1>4. SchemaShape
    <2>1. \A c \in Capabilities : c \in caps => schema \cap ToSet(Probes[c]) = ToSet(Probes[c])
        BY <1>1
    <2>2. \A c \in Capabilities : c \notin caps => schema \cap ToSet(Probes[c]) = {}
        BY <1>1, <1>2, ProbeFacts
    <2> QED
        BY <2>1, <2>2 DEF SchemaShape
<1>5. "hasTopicID" \in Capabilities
    BY ProbeFacts
<1> QED
    BY <1>3, <1>4, <1>5, ProbeFacts
    DEF SchemaInit, SchemaInv, CacheShape, ReaderShape, Resting

\* A capability that was probed to its end found all there is of it, as an answer.
LEMMA AnswerIsExact ==
    ASSUME SchemaInv, NEW r \in Reads, reader[r].pc = "probing", Finished(reader[r])
    PROVE  LET c == reader[r].cap
               a == AnswerOf(c, reader[r].found)
           IN  a \subseteq schema \cap ToSet(Probes[c]) /\ Whole(c, a) /\ Exact(a, ToSet(Probes[c]))
<1> DEFINE c == reader[r].cap
<1> DEFINE n == reader[r].probe
<1> DEFINE S == reader[r].found
<1> DEFINE a == AnswerOf(c, S)
<1>1. /\ c \in Capabilities /\ n \in 1..Len(Probes[c]) + 1
      /\ S \subseteq schema \cap AskedBefore(c, n) /\ Exact(S, AskedBefore(c, n))
    <2>1. c \in Capabilities
        BY DEF SchemaInv
    <2>2. /\ n \in 1..Len(Probes[c]) + 1
          /\ S \subseteq schema \cap AskedBefore(c, n) /\ Exact(S, AskedBefore(c, n))
        BY Zenon DEF SchemaInv, ReaderShape
    <2> QED
        BY <2>1, <2>2
<1>2. AskedBefore(c, n) \subseteq ToSet(Probes[c])
    BY <1>1, ProbeFacts DEF AskedBefore
<1>3. a \in {S, {}} /\ Whole(c, a) /\ (~AllOrNothing(c) => a = S)
    BY DEF AnswerOf, Whole
<1>4. n > Len(Probes[c]) => AskedBefore(c, n) = ToSet(Probes[c])
    <2>1. ASSUME n > Len(Probes[c]) PROVE {j \in 1..Len(Probes[c]) : j < n} = 1..Len(Probes[c])
        BY <1>1, <2>1, ProbeFacts
    <2> QED
        BY <1>1, <2>1, ProbeFacts DEF AskedBefore
<1>5. ASSUME ~AllOrNothing(c) PROVE Exact(a, ToSet(Probes[c]))
    BY <1>1, <1>3, <1>4, <1>5 DEF Finished
<1>6. ASSUME AllOrNothing(c), migrated = 0 PROVE a = schema \cap ToSet(Probes[c])
    <2>1. c \in Capabilities /\ schema \cap ToSet(Probes[c]) \in {{}, ToSet(Probes[c])}
        BY <1>1, <1>6 DEF SchemaInv, SchemaShape
    <2>2. S = schema \cap AskedBefore(c, n)
        BY <1>1, <1>6 DEF Exact
    <2>3. CASE schema \cap ToSet(Probes[c]) = {}
        BY <1>2, <1>3, <2>2, <2>3
    <2>4. CASE schema \cap ToSet(Probes[c]) = ToSet(Probes[c])
        <3>1. S = AskedBefore(c, n)
            BY <1>2, <2>2, <2>4
        <3>2. n > Len(Probes[c])
            <4>1. SUFFICES ASSUME n <= 2, n \in 1..3, Cardinality(S) < n - 1 PROVE FALSE
                BY <1>1, <1>6, ProbeFacts DEF Finished, AllOrNothing
            <4>2. CASE n = 1
                <5>1. S = {}
                    BY <3>1, <4>2 DEF AskedBefore
                <5> QED
                    BY <4>1, <4>2, <5>1, FS_EmptySet
            <4>3. CASE n = 2
                <5>1. S = {Probes["activityTables"][1]}
                    BY <1>6, <3>1, <4>3, ProbeFacts DEF AskedBefore, AllOrNothing
                <5>2. Cardinality(S) = 1
                    BY <5>1, FS_Singleton
                <5> QED
                    BY <4>1, <4>3, <5>2
            <4> QED
                BY <4>1, <4>2, <4>3
        <3>3. S = ToSet(Probes[c])
            BY <1>4, <3>1, <3>2
        <3> QED
            BY <2>4, <3>3 DEF AnswerOf
    <2> QED
        BY <2>1, <2>3, <2>4
<1> QED
    BY <1>1, <1>2, <1>3, <1>5, <1>6 DEF Exact

\* While a migration adds objects, what was found of the schema is still there.
LEMMA MigrateKeeps == SchemaInv /\ Migrate => SchemaInv'
<1> SUFFICES ASSUME SchemaInv, Migrate PROVE SchemaInv'
    OBVIOUS
<1>1. PICK c \in Asked : \E added \in SUBSET ToSet(Probes[c]) : schema' = schema \cup added
    BY DEF Migrate
<1>2. PICK added \in SUBSET Objects : schema' = schema \cup added
    BY <1>1, SchemaAssumption, ProbeFacts
<1>3. migrated' = migrated + 1 /\ migrated' # 0 /\ UNCHANGED <<cache, reader>>
    BY DEF Migrate, SchemaInv
<1>4. CacheShape' /\ ReaderShape' /\ SchemaShape'
    BY <1>2, <1>3 DEF SchemaInv, CacheShape, ReaderShape, SchemaShape, Exact, Whole
<1> QED
    BY <1>2, <1>3, <1>4 DEF SchemaInv

\* A step of a read keeps what it, and everybody else, found.
LEMMA ReadKeeps ==
    ASSUME SchemaInv, NEW r \in Reads,
           \/ \E c \in Asked : Begin(r, c)
           \/ probeColumn(r) \/ ProbeFails(r) \/ Resolve(r) \/ Query(r)
    PROVE  SchemaInv'
<1> DEFINE Kept(q) ==
        /\ reader'[q] \in [pc : {"rest", "probing", "query"}, cap : Capabilities,
                           probe : Nat, found : SUBSET Objects]
        /\ reader'[q].pc = "query" =>
            /\ reader'[q].found \subseteq schema
            /\ Whole(reader'[q].cap, reader'[q].found)
        /\ reader'[q].pc = "probing" =>
            /\ reader'[q].found \subseteq schema \cap AskedBefore(reader'[q].cap, reader'[q].probe)
            /\ Exact(reader'[q].found, AskedBefore(reader'[q].cap, reader'[q].probe))
        /\ reader'[q].probe \in 1..Len(Probes[reader'[q].cap]) + 1
<1>0. /\ reader \in [Reads -> [pc : {"rest", "probing", "query"}, cap : Capabilities,
                             probe : Nat, found : SUBSET Objects]]
      /\ UNCHANGED <<schema, migrated>> /\ schema \subseteq Objects /\ migrated \in Nat
      /\ DOMAIN cache = Capabilities
    BY DEF SchemaInv, Begin, probeColumn, ProbeFails, Resolve, Query
<1>1. \E new : reader' = [reader EXCEPT ![r] = new]
    <2>1. ASSUME NEW c \in Asked, Begin(r, c) PROVE \E new : reader' = [reader EXCEPT ![r] = new]
        BY <2>1 DEF Begin
    <2>2. CASE probeColumn(r)
        BY <1>0, <2>2 DEF probeColumn
    <2>3. CASE ProbeFails(r) \/ Resolve(r)
        BY <1>0, <2>3 DEF ProbeFails, Resolve
    <2>4. CASE Query(r)
        BY <2>4 DEF Query
    <2> QED
        BY <2>1, <2>2, <2>3, <2>4
<1>2. \A q \in Reads : q # r => Kept(q)
    BY <1>0, <1>1 DEF SchemaInv, ReaderShape
<1>3. "hasTopicID" \in Capabilities /\ 1 \in 1..Len(Probes["hasTopicID"]) + 1
    BY ProbeFacts
<1>4. ASSUME NEW c \in Asked, Begin(r, c) PROVE Kept(r) /\ CacheShape'
    <2>1. c \in Capabilities /\ 1 \in 1..Len(Probes[c]) + 1 /\ ToSet(Probes[c]) \subseteq Objects
        BY ProbeFacts, SchemaAssumption
    <2>2. CacheShape'
        BY <1>0, <1>4 DEF Begin, SchemaInv, CacheShape, Exact, Whole
    <2>3. CASE cache[c] = Unresolved
        <3>1. reader'[r] = [pc |-> "probing", cap |-> c, probe |-> 1, found |-> {}]
            BY <1>0, <1>4, <2>3 DEF Begin, Resting
        <3>2. AskedBefore(c, 1) = {}
            BY DEF AskedBefore
        <3> QED
            BY <2>1, <2>2, <3>1, <3>2 DEF Exact
    <2>4. CASE cache[c] # Unresolved
        <3>1. reader'[r] = [pc |-> "query", cap |-> c, probe |-> 1, found |-> cache[c]]
            BY <1>0, <1>4, <2>4 DEF Begin, Resting
        <3>2. cache[c] \subseteq schema \cap ToSet(Probes[c]) /\ Whole(c, cache[c])
            BY <2>1, <2>4 DEF SchemaInv, CacheShape
        <3> QED
            BY <2>1, <2>2, <3>1, <3>2
    <2> QED
        BY <2>3, <2>4
<1>5. ASSUME probeColumn(r) PROVE Kept(r) /\ CacheShape'
    <2> DEFINE c == reader[r].cap
    <2> DEFINE n == reader[r].probe
    <2> DEFINE S == reader[r].found
    <2> DEFINE T == IF Probes[c][n] \in schema THEN S \cup {Probes[c][n]} ELSE S
    <2>1. /\ c \in Capabilities /\ n \in 1..Len(Probes[c]) + 1 /\ S \subseteq Objects
          /\ S \subseteq schema \cap AskedBefore(c, n) /\ Exact(S, AskedBefore(c, n))
        BY <1>0, <1>5 DEF probeColumn, SchemaInv, ReaderShape
    <2>2. n \in 1..Len(Probes[c]) /\ n + 1 \in 1..Len(Probes[c]) + 1 /\ n + 1 \in Nat
        BY <1>5, <2>1, ProbeFacts DEF probeColumn, Finished
    <2>3. reader'[r] = [pc |-> "probing", cap |-> c, probe |-> n + 1, found |-> T]
        BY <1>0, <1>5 DEF probeColumn
    <2>4. AskedBefore(c, n + 1) = AskedBefore(c, n) \cup {Probes[c][n]}
        <3>1. {j \in 1..Len(Probes[c]) : j < n + 1} = {j \in 1..Len(Probes[c]) : j < n} \cup {n}
            BY <2>1, <2>2, ProbeFacts
        <3> QED
            BY <3>1 DEF AskedBefore
    <2>5. T \subseteq schema \cap AskedBefore(c, n + 1) /\ Exact(T, AskedBefore(c, n + 1))
        BY <2>1, <2>4 DEF Exact
    <2>6. CacheShape'
        BY <1>0, <1>5 DEF probeColumn, SchemaInv, CacheShape, Exact, Whole
    <2>7. T \subseteq Objects
        BY <1>0, <2>1
    <2> HIDE DEF T, S
    <2> QED
        BY <2>1, <2>2, <2>3, <2>5, <2>6, <2>7
<1>6. ASSUME ProbeFails(r) PROVE Kept(r) /\ CacheShape'
    <2>1. /\ reader'[r] = [pc |-> "query", cap |-> reader[r].cap, probe |-> reader[r].probe, found |-> {}]
          /\ reader[r].probe \in 1..Len(Probes[reader[r].cap]) + 1
        BY <1>0, <1>6 DEF ProbeFails, SchemaInv, ReaderShape
    <2>2. CacheShape'
        BY <1>0, <1>6 DEF ProbeFails, SchemaInv, CacheShape, Exact, Whole
    <2>3. reader[r].cap \in Capabilities /\ reader[r].probe \in Nat
        BY <1>0
    <2> QED
        BY <2>1, <2>2, <2>3 DEF Whole
<1>7. ASSUME Resolve(r) PROVE Kept(r) /\ CacheShape' /\ DOMAIN cache' = Capabilities
    <2> DEFINE c == reader[r].cap
    <2> DEFINE a == AnswerOf(c, reader[r].found)
    <2>1. /\ c \in Capabilities /\ reader[r].probe \in Nat
          /\ reader[r].probe \in 1..Len(Probes[c]) + 1
        BY <1>0 DEF SchemaInv, ReaderShape
    <2>2. a \subseteq schema \cap ToSet(Probes[c]) /\ Whole(c, a) /\ Exact(a, ToSet(Probes[c]))
        BY <1>7, AnswerIsExact DEF Resolve
    <2>3. /\ reader'[r] = [pc |-> "query", cap |-> c, probe |-> reader[r].probe, found |-> a]
          /\ cache' = [cache EXCEPT ![c] = a]
        BY <1>0, <1>7 DEF Resolve
    <2> HIDE DEF a, c
    <2>4. CacheShape' /\ DOMAIN cache' = Capabilities
        <3>1. \A d \in Capabilities : cache'[d] = IF d = c THEN a ELSE cache[d]
            BY <1>0, <2>1, <2>3
        <3> QED
            BY <1>0, <2>1, <2>2, <2>3, <3>1 DEF SchemaInv, CacheShape, Exact, Whole
    <2> QED
        BY <1>0, <2>1, <2>2, <2>3, <2>4
<1>8. ASSUME Query(r) PROVE Kept(r) /\ CacheShape'
    BY <1>0, <1>3, <1>8 DEF Query, Resting, SchemaInv, CacheShape, Exact, Whole
<1>9. Kept(r) /\ CacheShape' /\ DOMAIN cache' = Capabilities
    <2>1. Resolve(r) \/ cache' = cache
        BY DEF Begin, probeColumn, ProbeFails, Query
    <2> QED
        BY <1>0, <1>4, <1>5, <1>6, <1>7, <1>8, <2>1
<1>10. \A q \in Reads : Kept(q)
    BY <1>2, <1>9
<1>11. ReaderShape' /\ reader' \in [Reads -> [pc : {"rest", "probing", "query"}, cap : Capabilities,
                             probe : Nat, found : SUBSET Objects]]
    BY <1>0, <1>1, <1>10 DEF ReaderShape, Exact, Whole
<1>12. SchemaShape'
    BY <1>0 DEF SchemaInv, SchemaShape
<1> QED
    BY <1>0, <1>9, <1>11, <1>12 DEF SchemaInv

LEMMA SchemaStep == SchemaInv /\ [SchemaNext]_schemaVars => SchemaInv'
<1>1. SchemaInv /\ UNCHANGED schemaVars => SchemaInv'
    BY DEF schemaVars, SchemaInv, CacheShape, ReaderShape, SchemaShape, Exact, Whole
<1> QED
    BY <1>1, MigrateKeeps, ReadKeeps DEF SchemaNext

LEMMA SchemaInvHolds == SchemaInv => SchemaSafety /\ SchemaTypeOK
<1> SUFFICES ASSUME SchemaInv PROVE SchemaSafety /\ SchemaTypeOK
    OBVIOUS
<1>1. NamesWhatExists
    BY DEF NamesWhatExists, SchemaInv, ReaderShape, Whole
<1>2. AbsenceWasAnswered
    BY DEF AbsenceWasAnswered, SchemaInv, CacheShape, Exact
<1>3. SchemaTypeOK
    BY DEF SchemaTypeOK, SchemaInv, CacheShape, ReaderShape
<1> QED
    BY <1>1, <1>2, <1>3 DEF SchemaSafety

\* What the backend remembers and probes of its schema keeps its types.
THEOREM SchemaTyped == SchemaSpec => []SchemaTypeOK
BY SchemaInitInv, SchemaStep, SchemaInvHolds, PTL DEF SchemaSpec

\* However many reads probe at once, and however the migrations fall between their probes:
\* a read names only objects that exist, the activity tables both or neither, and nothing
\* is remembered as missing that was there.
THEOREM SchemaIsSafe == SchemaSpec => []SchemaSafety
BY SchemaInitInv, SchemaStep, SchemaInvHolds, PTL DEF SchemaSpec

-----------------------------------------------------------------------------
(***************************************************************************)
(* Assistant.                                                              *)
(***************************************************************************)

CallRecords ==
    [pc : {"unused", "token", "fetching", "sent", "answered", "lookup", "done"},
     op : {"ask", "profile", "create", "update", "delete", "read"},
     caller : Addresses \cup {"none"}, admin : BOOLEAN, target : Addresses \cup {"none"},
     override : BOOLEAN, start : Nat, upstream : Nat, heard : Nat, out : Nat]

Confirmed == {200, 201, 204}
HopStatuses == Confirmed \cup {401, 403, 404, 422, 500}

\* What a call that was let through may be answered.
CallAnswers == {200, 201, 204, 404, 422, 500, 503}

\* One call: what its answer may be, whom it may change, and how long it has been under way.  Its
\* wait for the token has one bound, its request another, its lookups none.
CallShape(c) ==
    LET r == call[c] IN
    /\ r.pc = "done" <=> r.out # 0
    /\ r.pc = "done" => r.out # 401 /\ (r.out = 403 => r.op \notin Attendee /\ ~r.admin)
    /\ r.pc \notin {"unused", "done"} =>
        /\ r.admin \/ r.op = "ask" \/ (r.op = "profile" /\ r.target = r.caller)
        /\ r.start <= clock
    /\ r.pc \in {"token", "fetching"} => clock <= r.start + FetchTimeout
    /\ r.pc = "sent" => clock <= r.start + FetchTimeout \/ clock <= r.start + RequestTimeout
    /\ r.pc = "lookup" => r.heard <= r.start + RequestTimeout
    /\ r.pc = "fetching" => r.upstream = r.start
    /\ r.pc = "answered" =>
        /\ clock <= r.start + RequestTimeout
        /\ r.upstream \in HopStatuses
        /\ r.op \in {"update", "delete"} /\ r.upstream \in Confirmed
            => [call |-> c, email |-> r.target] \in applied

\* At most one call fetches.  A call that waits for the token began no earlier than that
\* fetch; once the fetch is over, the token or a fresh failure is there for all who waited.
TokenShape ==
    /\ mu = {c \in Calls : call[c].pc = "fetching"}
    /\ \A c, d \in mu : c = d
    /\ \A c \in Calls : call[c].pc = "token" =>
        /\ \A d \in mu : call[d].start <= call[c].start
        /\ mu = {} => \/ call[c].start = clock
                      \/ token
                      \/ failure.at = clock /\ failure.kind # "none"

\* What con-ai applied, it applied for a call that was let through.
AppliedShape ==
    \A a \in applied : /\ a.call \in Calls
                       /\ call[a.call].pc \in {"answered", "lookup", "done"}
                       /\ call[a.call].admin \/ a.email = call[a.call].caller

AssistantInv ==
    /\ clock \in Nat /\ token \in BOOLEAN
    /\ failure \in [at : Nat, kind : {"none", "rejected", "unreached"}] /\ failure.at <= clock
    /\ call \in [Calls -> CallRecords]
    /\ \A c \in Calls : CallShape(c)
    /\ TokenShape
    /\ AppliedShape
    /\ AuditNamesRealChanges

LEMMA AssistantInitInv == AssistantInit => AssistantInv
<1> SUFFICES ASSUME AssistantInit PROVE AssistantInv
    OBVIOUS
<1>1. call \in [Calls -> CallRecords] /\ \A c \in Calls : call[c] = Unused
    BY DEF AssistantInit, CallRecords, Unused
<1>2. \A c \in Calls : CallShape(c)
    BY <1>1 DEF CallShape, Unused
<1>3. TokenShape /\ AppliedShape /\ AuditNamesRealChanges
    BY <1>1 DEF AssistantInit, TokenShape, AppliedShape, AuditNamesRealChanges, Unused
<1>4. /\ clock = 0 /\ token = FALSE
      /\ failure = [at |-> 0, kind |-> "none"]
    BY DEF AssistantInit, NoFailure
<1>5. /\ failure \in [at : Nat, kind : {"none", "rejected", "unreached"}]
      /\ failure.at <= clock
    BY <1>4
<1> QED
    BY <1>1, <1>2, <1>3, <1>4, <1>5 DEF AssistantInv

\* No answer tells an authenticated caller to sign in again or that it lacks a right.
LEMMA AnswersKeepSession ==
    /\ \A op, status : status \in HopStatuses => Outcome(op, status) \in CallAnswers
    /\ \A cause : respondAIUpstreamError(cause) \in {500, 503}
    /\ \A kind : TokenFailed(kind) \in {500, 503}
<1>1. \A cause : respondAIUpstreamError(cause) \in {500, 503}
    BY DEF respondAIUpstreamError
<1>2. \A kind : TokenFailed(kind) \in {500, 503}
    BY <1>1 DEF TokenFailed
<1>3. ASSUME NEW op, NEW status \in HopStatuses
      PROVE  Outcome(op, status) \in CallAnswers
    <2>1. RelayProfile(status) \in CallAnswers
        BY <1>1 DEF RelayProfile, gatewayRejectedCredentials, CallAnswers, HopStatuses, Confirmed
    <2>2. respondAIAdminError(status) \in CallAnswers
        BY <1>1 DEF respondAIAdminError, gatewayRejectedCredentials, CallAnswers, HopStatuses, Confirmed
    <2>3. \/ Outcome(op, status) = RelayProfile(status)
          \/ Outcome(op, status) = respondAIAdminError(status)
          \/ Outcome(op, status) = respondAIUpstreamError("status")
          \/ Outcome(op, status) \in Confirmed
        BY DEF Outcome, Confirmed
    <2>4. respondAIUpstreamError("status") \in CallAnswers
        BY <1>1 DEF CallAnswers
    <2>5. Confirmed \subseteq CallAnswers
        BY DEF CallAnswers, Confirmed
    <2> QED
        BY <2>1, <2>2, <2>3, <2>4, <2>5
<1> QED
    BY <1>1, <1>2, <1>3

\* A step that only gives call c a new record keeps the shape of the other calls.
LEMMA OtherCallsKeep ==
    ASSUME AssistantInv, NEW c \in Calls, NEW new \in CallRecords,
           call' = [call EXCEPT ![c] = new], clock' = clock, applied \subseteq applied'
    PROVE  /\ call' \in [Calls -> CallRecords] /\ call'[c] = new
           /\ \A q \in Calls \ {c} : call'[q] = call[q] /\ CallShape(q)'
BY DEF AssistantInv, CallShape

\* How a call that ends leaves the rest: its answer is final.
LEMMA CallIsOver ==
    ASSUME AssistantInv, NEW c \in Calls, NEW out \in CallAnswers,
           call[c].pc \in {"token", "fetching", "sent", "answered", "lookup"},
           Finish(c, out), clock' = clock, applied' = applied
    PROVE  /\ call' \in [Calls -> CallRecords]
           /\ \A q \in Calls : CallShape(q)'
           /\ call'[c].pc = "done" /\ call'[c].admin = call[c].admin /\ call'[c].caller = call[c].caller
           /\ \A q \in Calls \ {c} : call'[q] = call[q]
<1> DEFINE new == [call[c] EXCEPT !.pc = "done", !.out = out, !.upstream = 0, !.start = 0,
                                 !.heard = 0]
<1>1. call' = [call EXCEPT ![c] = new]
    <2>1. call \in [Calls -> CallRecords]
        BY DEF AssistantInv
    <2>2. call'[c] = new /\ \A q \in Calls \ {c} : call'[q] = call[q]
        BY <2>1 DEF Finish, CallRecords
    <2>3. call' = [q \in Calls |-> call'[q]]
        BY <2>1, Zenon DEF Finish
    <2> QED
        BY <2>1, <2>2, <2>3
<1>2. call[c] \in CallRecords /\ out \in Nat \ {0, 401, 403}
    BY DEF AssistantInv, CallAnswers
<1>3. /\ new \in CallRecords /\ new.pc = "done" /\ new.out = out
      /\ new.admin = call[c].admin /\ new.caller = call[c].caller
    BY <1>2 DEF CallRecords
<1> HIDE DEF new
<1>4. CallShape(c)'
    BY <1>1, <1>2, <1>3 DEF CallShape, AssistantInv
<1>5. /\ call' \in [Calls -> CallRecords] /\ call'[c] = new
      /\ \A q \in Calls \ {c} : call'[q] = call[q] /\ CallShape(q)'
    BY <1>1, <1>3, OtherCallsKeep
<1> QED
    BY <1>3, <1>4, <1>5

\* What the parts of the invariant need of a step that ends call c, which fetches nothing.
LEMMA EndingKeeps ==
    ASSUME AssistantInv, NEW c \in Calls, NEW out \in CallAnswers, Finish(c, out),
           call[c].pc \in {"token", "sent", "answered", "lookup"},
           UNCHANGED <<clock, mu, token, failure, applied>>, AuditNamesRealChanges'
    PROVE  AssistantInv'
<1>1. /\ call' \in [Calls -> CallRecords]
      /\ \A q \in Calls : CallShape(q)'
      /\ call'[c].pc = "done" /\ call'[c].admin = call[c].admin /\ call'[c].caller = call[c].caller
      /\ \A q \in Calls \ {c} : call'[q] = call[q]
    BY CallIsOver
<1>2. TokenShape'
    <2>1. mu' = {q \in Calls : call'[q].pc = "fetching"}
        BY <1>1 DEF AssistantInv, TokenShape
    <2>2. \A d \in mu : call'[d] = call[d]
        BY <1>1 DEF AssistantInv, TokenShape
    <2> QED
        BY <1>1, <2>1, <2>2 DEF AssistantInv, TokenShape
<1>3. AppliedShape'
    BY <1>1 DEF AssistantInv, AppliedShape
<1> QED
    BY <1>1, <1>2, <1>3 DEF AssistantInv

\* A request arrives.
LEMMA ArrivalKeeps ==
    ASSUME AssistantInv, NEW c \in Calls, NEW k \in Kinds,
           (\E on \in BOOLEAN : BeginAttendee(c, k, on)) \/ BeginAdmin(c, k)
    PROVE  AssistantInv'
<1>1. /\ call[c].pc = "unused" /\ UNCHANGED <<clock, mu, token, failure, stored, applied, audit>>
      /\ \E target \in {k.caller, k.target}, out \in {0, 403, 503} :
            /\ call' = [call EXCEPT ![c] = Arrival(k, target, out)]
            /\ out = 403 => k.op \notin Attendee /\ ~k.admin
            /\ out = 0 => k.admin \/ k.op = "ask" \/ (k.op = "profile" /\ target = k.caller)
    BY DEF BeginAttendee, BeginAdmin, PinnedEmail, requireAIAdmin, Attendee
<1>2. PICK target \in {k.caller, k.target}, out \in {0, 403, 503} :
            /\ call' = [call EXCEPT ![c] = Arrival(k, target, out)]
            /\ out = 403 => k.op \notin Attendee /\ ~k.admin
            /\ out = 0 => k.admin \/ k.op = "ask" \/ (k.op = "profile" /\ target = k.caller)
    BY <1>1
<1> DEFINE new == Arrival(k, target, out)
<1>3. k \in [op : {"ask", "profile", "create", "update", "delete", "read"},
              caller : Addresses, admin : BOOLEAN, target : Addresses, override : BOOLEAN]
    BY AssistantAssumption
<1>4. /\ new \in CallRecords /\ new.start = clock /\ new.out = out /\ new.admin = k.admin
      /\ new.op = k.op /\ new.target = target /\ new.caller = k.caller
      /\ new.pc = IF out = 0 THEN "token" ELSE "done"
    BY <1>2, <1>3 DEF Arrival, CallRecords, AssistantInv
<1> HIDE DEF new
<1>5. /\ call' \in [Calls -> CallRecords] /\ call'[c] = new
      /\ \A q \in Calls \ {c} : call'[q] = call[q] /\ CallShape(q)'
    BY <1>1, <1>2, <1>4, OtherCallsKeep DEF new
<1>6. CallShape(c)'
    <2>1. clock \in Nat /\ FetchTimeout \in Nat
        BY AssistantAssumption DEF AssistantInv
    <2>2. call'[c] = new /\ clock' = clock /\ clock <= clock + FetchTimeout
        BY <1>1, <1>5, <2>1
    <2>3. CASE out = 0
        <3>1. /\ new.pc = "token" /\ new.out = 0 /\ new.start = clock
              /\ new.admin \/ new.op = "ask" \/ (new.op = "profile" /\ new.target = new.caller)
            BY <1>2, <1>4, <2>3
        <3>2. new.start <= clock' /\ clock' <= new.start + FetchTimeout
            BY <2>1, <2>2, <3>1
        <3>3. new.pc \notin {"unused", "done", "fetching", "sent", "answered", "lookup"}
            BY <3>1
        <3> QED
            BY ONLY <2>2, <3>1, <3>2, <3>3 DEF CallShape
    <2>4. CASE out # 0
        <3>1. new.pc = "done" /\ new.out # 0 /\ new.out # 401
            BY <1>4, <2>4
        <3> QED
            BY <1>2, <1>4, <2>2, <2>4, <3>1 DEF CallShape
    <2> QED
        BY <2>3, <2>4
<1>7. TokenShape'
    <2>1. mu' = {q \in Calls : call'[q].pc = "fetching"} /\ c \notin mu
        BY <1>1, <1>4, <1>5 DEF AssistantInv, TokenShape
    <2>2. \A d \in mu : call'[d] = call[d] /\ call[d].start <= clock
        <3>1. \A d \in mu : d \in Calls \ {c} /\ call[d].pc = "fetching" /\ CallShape(d)
            BY <2>1 DEF AssistantInv, TokenShape
        <3> QED
            BY <1>5, <3>1 DEF CallShape
    <2>3. TokenShape
        BY DEF AssistantInv
    <2> QED
        BY <1>1, <1>4, <1>5, <2>1, <2>2, <2>3 DEF TokenShape
<1>8. AppliedShape' /\ AuditNamesRealChanges'
    BY <1>1, <1>5 DEF AssistantInv, AppliedShape, AuditNamesRealChanges
<1> QED
    BY <1>1, <1>5, <1>6, <1>7, <1>8 DEF AssistantInv

\* A call asks for the token.
LEMMA TokenKeeps == ASSUME AssistantInv, NEW c \in Calls, Token(c) PROVE AssistantInv'
<1>1. /\ call[c].pc = "token" /\ mu = {} /\ UNCHANGED <<clock, token, stored, applied, audit>>
      /\ call \in [Calls -> CallRecords] /\ CallShape(c)
    BY DEF Token, AssistantInv
<1>2. AuditNamesRealChanges'
    BY <1>1 DEF AssistantInv, AuditNamesRealChanges
<1>3. CASE Remembered
    <2>1. Finish(c, TokenFailed(failure.kind)) /\ TokenFailed(failure.kind) \in CallAnswers
          /\ UNCHANGED <<mu, failure>>
        BY <1>3, AnswersKeepSession DEF Token, CallAnswers
    <2> QED
        BY <1>1, <1>2, <2>1, EndingKeeps
<1>4. ASSUME ~Remembered, NEW p \in {"sent", "fetching"}, NEW u \in Nat,
             call' = [call EXCEPT ![c] = [call[c] EXCEPT !.pc = p, !.upstream = u]],
             p = "fetching" => u = call[c].start
      PROVE  /\ call' \in [Calls -> CallRecords] /\ \A q \in Calls : CallShape(q)'
             /\ call'[c].pc = p /\ call'[c].start = call[c].start
             /\ \A q \in Calls \ {c} : call'[q] = call[q]
             /\ AppliedShape'
    <2> DEFINE new == [call[c] EXCEPT !.pc = p, !.upstream = u]
    <2>1. /\ new \in CallRecords /\ new.pc = p /\ new.upstream = u /\ new.start = call[c].start
          /\ new.op = call[c].op /\ new.admin = call[c].admin /\ new.target = call[c].target
          /\ new.caller = call[c].caller /\ new.out = call[c].out
        BY <1>1, <1>4 DEF CallRecords
    <2> HIDE DEF new
    <2>2. /\ call' \in [Calls -> CallRecords] /\ call'[c] = new
          /\ \A q \in Calls \ {c} : call'[q] = call[q] /\ CallShape(q)'
        BY <1>1, <1>4, <2>1, OtherCallsKeep DEF new
    <2>3. CallShape(c)'
        BY <1>1, <1>4, <2>1, <2>2 DEF CallShape
    <2>4. AppliedShape'
        BY <1>1, <1>4, <2>1, <2>2 DEF AssistantInv, AppliedShape
    <2> QED
        BY <2>1, <2>2, <2>3, <2>4
<1>5. CASE ~Remembered /\ token
    <2>1. /\ call' = [call EXCEPT ![c] = [call[c] EXCEPT !.pc = "sent", !.upstream = call[c].upstream]]
          /\ failure' = NoFailure /\ mu' = mu /\ call[c].upstream \in Nat
        BY <1>1, <1>5 DEF Token, CallRecords
    <2>2. /\ call' \in [Calls -> CallRecords] /\ \A q \in Calls : CallShape(q)'
          /\ call'[c].pc = "sent" /\ \A q \in Calls \ {c} : call'[q] = call[q]
          /\ AppliedShape'
        BY <1>4, <1>5, <2>1
    <2>3. TokenShape'
        BY <1>1, <1>5, <2>1, <2>2 DEF AssistantInv, TokenShape
    <2>4. /\ failure' \in [at : Nat, kind : {"none", "rejected", "unreached"}]
          /\ failure'.at <= clock'
        BY <1>1, <2>1 DEF AssistantInv, NoFailure
    <2> QED
        BY <1>1, <1>2, <2>2, <2>3, <2>4 DEF AssistantInv
<1>6. CASE ~Remembered /\ ~token
    <2>1. \A q \in Calls : call[q].pc = "token" => call[q].start = clock
        <3>1. ~(failure.at = clock /\ failure.kind # "none")
            <4>1. SUFFICES ASSUME failure.at = clock, failure.kind # "none" PROVE FALSE
                OBVIOUS
            <4>2. failure # NoFailure
                BY <4>1 DEF NoFailure
            <4>3. clock - failure.at < FailureTTL
                BY <4>1, AssistantAssumption DEF AssistantInv
            <4> QED
                BY <1>6, <4>2, <4>3 DEF Remembered
        <3> QED
            BY <1>1, <1>6, <3>1 DEF AssistantInv, TokenShape
    <2>2. /\ call' = [call EXCEPT ![c] = [call[c] EXCEPT !.pc = "fetching", !.upstream = clock]]
          /\ failure' = failure /\ mu' = {c} /\ clock \in Nat /\ clock = call[c].start
        BY <1>1, <1>6, <2>1 DEF Token, CallRecords, AssistantInv
    <2>3. /\ call' \in [Calls -> CallRecords] /\ \A q \in Calls : CallShape(q)'
          /\ call'[c].pc = "fetching" /\ call'[c].start = call[c].start
          /\ \A q \in Calls \ {c} : call'[q] = call[q]
          /\ AppliedShape'
        BY <1>4, <1>6, <2>2
    <2>4. TokenShape'
        <3>1. mu' = {q \in Calls : call'[q].pc = "fetching"}
            BY <1>1, <2>2, <2>3 DEF AssistantInv, TokenShape
        <3>2. \A q \in Calls : call'[q].pc = "token" => call'[c].start <= call'[q].start
            BY <2>1, <2>2, <2>3
        <3> QED
            BY <2>2, <3>1, <3>2 DEF TokenShape
    <2> QED
        BY <1>1, <1>2, <2>2, <2>3, <2>4 DEF AssistantInv
<1> QED
    BY <1>3, <1>5, <1>6

\* A fetch ends: who waited finds the token, or the failure it left.
LEMMA FetchKeeps ==
    ASSUME AssistantInv, NEW c \in Calls,
           \/ FetchSucceeds(c)
           \/ \E kind \in {"rejected", "unreached"} : FetchFails(c, kind)
    PROVE  AssistantInv'
<1>1. /\ call[c].pc = "fetching" /\ UNCHANGED <<clock, stored, applied, audit>> /\ mu' = mu \ {c}
      /\ call \in [Calls -> CallRecords] /\ CallShape(c)
    BY DEF FetchSucceeds, FetchFails, AssistantInv
<1>2. AuditNamesRealChanges'
    BY <1>1 DEF AssistantInv, AuditNamesRealChanges
<1>3. mu = {c}
    BY <1>1 DEF AssistantInv, TokenShape
<1>4. ASSUME NEW p \in {"sent", "done"}, call'[c].pc = p, call' \in [Calls -> CallRecords],
             \A q \in Calls \ {c} : call'[q] = call[q],
             token' = TRUE \/ (failure'.at = clock /\ failure'.kind # "none")
      PROVE  TokenShape' /\ AppliedShape'
    <2>1. mu' = {q \in Calls : call'[q].pc = "fetching"} /\ mu' = {}
        BY <1>1, <1>3, <1>4 DEF AssistantInv, TokenShape
    <2>2. TokenShape'
        BY <1>1, <1>4, <2>1 DEF TokenShape
    <2>3. AppliedShape'
        BY <1>1, <1>4 DEF AssistantInv, AppliedShape
    <2> QED
        BY <2>2, <2>3
<1>5. CASE FetchSucceeds(c)
    <2> DEFINE new == [call[c] EXCEPT !.pc = "sent", !.upstream = 0]
    <2>1. call' = [call EXCEPT ![c] = new] /\ token' = TRUE /\ failure' = NoFailure
        BY <1>1, <1>5 DEF FetchSucceeds, CallRecords
    <2>2. /\ new \in CallRecords /\ new.pc = "sent" /\ new.start = call[c].start
          /\ new.op = call[c].op /\ new.admin = call[c].admin /\ new.target = call[c].target
          /\ new.caller = call[c].caller /\ new.out = call[c].out
        BY <1>1 DEF CallRecords
    <2> HIDE DEF new
    <2>3. /\ call' \in [Calls -> CallRecords] /\ call'[c] = new
          /\ \A q \in Calls \ {c} : call'[q] = call[q] /\ CallShape(q)'
        BY <1>1, <2>1, <2>2, OtherCallsKeep
    <2>4. CallShape(c)'
        BY <1>1, <2>2, <2>3 DEF CallShape
    <2>5. TokenShape' /\ AppliedShape'
        BY <1>4, <2>1, <2>2, <2>3
    <2>6. /\ failure' \in [at : Nat, kind : {"none", "rejected", "unreached"}]
          /\ failure'.at <= clock'
        BY <1>1, <2>1 DEF AssistantInv, NoFailure
    <2> QED
        BY <1>1, <1>2, <2>1, <2>3, <2>4, <2>5, <2>6 DEF AssistantInv
<1>6. ASSUME NEW kind \in {"rejected", "unreached"}, FetchFails(c, kind) PROVE AssistantInv'
    <2>1. /\ Finish(c, TokenFailed(kind)) /\ TokenFailed(kind) \in CallAnswers
          /\ failure' = [at |-> clock, kind |-> kind] /\ token' = token
        BY <1>6, AnswersKeepSession DEF FetchFails, CallAnswers
    <2>2. /\ call' \in [Calls -> CallRecords]
          /\ \A q \in Calls : CallShape(q)'
          /\ call'[c].pc = "done"
          /\ \A q \in Calls \ {c} : call'[q] = call[q]
        BY <1>1, <2>1, CallIsOver
    <2>3. TokenShape' /\ AppliedShape'
        BY <1>4, <2>1, <2>2
    <2>4. /\ failure' \in [at : Nat, kind : {"none", "rejected", "unreached"}]
          /\ failure'.at <= clock'
        BY <1>1, <2>1 DEF AssistantInv
    <2> QED
        BY <1>1, <1>2, <2>1, <2>2, <2>3, <2>4 DEF AssistantInv
<1> QED
    BY <1>5, <1>6

\* con-ai or its gateway answers, and what it applied is what the call was let through for.
LEMMA UpstreamKeeps ==
    ASSUME AssistantInv, NEW c \in Calls, Refused(c) \/ Performed(c)
    PROVE  AssistantInv'
<1> DEFINE r == call[c]
<1>1. /\ r.pc = "sent" /\ InBudget(c) /\ UNCHANGED <<clock, mu, token, failure, audit>>
      /\ call \in [Calls -> CallRecords] /\ CallShape(c)
    BY DEF Refused, Performed, AssistantInv
<1>2. \E s \in HopStatuses :
        /\ call' = [call EXCEPT ![c].pc = "answered", ![c].upstream = s]
        /\ \/ applied' = applied
           \/ /\ applied' = applied \cup {[call |-> c, email |-> r.target]}
              /\ r.op \notin {"ask", "read"}
        /\ r.op \in {"update", "delete"} /\ s \in Confirmed
             => [call |-> c, email |-> r.target] \in applied'
    <2>1. CASE Refused(c)
        <3>1. PICK s \in {401, 403, 422, 500} :
                call' = [call EXCEPT ![c].pc = "answered", ![c].upstream = s]
            BY <2>1 DEF Refused, Reply
        <3>2. applied' = applied /\ s \in HopStatuses /\ s \notin Confirmed
            BY <2>1 DEF Refused, HopStatuses, Confirmed
        <3> QED
            BY <3>1, <3>2
    <2>2. CASE Performed(c)
        <3>1. CASE r.op \in {"ask", "read"}
            <4>1. /\ call' = [call EXCEPT ![c].pc = "answered", ![c].upstream = 200]
                  /\ applied' = applied
                BY <2>2, <3>1 DEF Performed, Reply, Leave
            <4> QED
                BY <3>1, <4>1 DEF HopStatuses, Confirmed
        <3>2. CASE r.op \in {"create", "profile"}
            <4>1. /\ call' = [call EXCEPT ![c].pc = "answered", ![c].upstream = 201]
                  /\ \/ applied' = applied
                     \/ applied' = applied \cup {[call |-> c, email |-> r.target]}
                BY <2>2, <3>2 DEF Performed, Reply, Leave, Apply
            <4> QED
                BY <3>2, <4>1 DEF HopStatuses, Confirmed
        <3>3. CASE r.op = "update"
            BY <2>2, <3>3 DEF Performed, Reply, Leave, Apply, HopStatuses, Confirmed
        <3>4. CASE r.op = "delete"
            BY <2>2, <3>4 DEF Performed, Reply, Leave, Apply, HopStatuses, Confirmed
        <3> QED
            BY <1>1, <3>1, <3>2, <3>3, <3>4 DEF CallRecords
    <2> QED
        BY <2>1, <2>2
<1>3. PICK s \in HopStatuses :
        /\ call' = [call EXCEPT ![c].pc = "answered", ![c].upstream = s]
        /\ \/ applied' = applied
           \/ /\ applied' = applied \cup {[call |-> c, email |-> r.target]}
              /\ r.op \notin {"ask", "read"}
        /\ r.op \in {"update", "delete"} /\ s \in Confirmed
             => [call |-> c, email |-> r.target] \in applied'
    BY <1>2
<1> DEFINE new == [r EXCEPT !.pc = "answered", !.upstream = s]
<1>4. /\ new \in CallRecords /\ new.pc = "answered" /\ new.start = r.start /\ new.upstream = s
      /\ new.op = r.op /\ new.admin = r.admin /\ new.target = r.target
      /\ new.caller = r.caller /\ new.out = r.out
    <2>1. s \in Nat /\ r \in CallRecords
        BY <1>1 DEF HopStatuses, Confirmed
    <2> QED
        BY <2>1 DEF CallRecords
<1>5. call' = [call EXCEPT ![c] = new]
    BY <1>1, <1>3 DEF CallRecords
<1> HIDE DEF new
<1>6. applied \subseteq applied' /\ clock' = clock
    BY <1>1, <1>3
<1>7. /\ call' \in [Calls -> CallRecords] /\ call'[c] = new
      /\ \A q \in Calls \ {c} : call'[q] = call[q] /\ CallShape(q)'
    BY <1>1, <1>4, <1>5, <1>6, OtherCallsKeep
<1>8. CallShape(c)'
    BY <1>1, <1>3, <1>4, <1>6, <1>7 DEF CallShape, InBudget
<1>9. TokenShape'
    <2>1. c \notin mu /\ mu' = {q \in Calls : call'[q].pc = "fetching"}
        BY <1>1, <1>4, <1>7 DEF AssistantInv, TokenShape
    <2>2. \A d \in mu : call'[d] = call[d]
        BY <1>7, <2>1 DEF AssistantInv, TokenShape
    <2> QED
        BY <1>1, <1>4, <1>7, <2>1, <2>2 DEF AssistantInv, TokenShape
<1>10. AppliedShape'
    <2>1. ASSUME r.op \notin {"ask", "read"} PROVE r.admin \/ r.target = r.caller
        BY <1>1, <2>1 DEF CallShape
    <2>2. ASSUME NEW a \in applied
          PROVE  /\ a.call \in Calls /\ call'[a.call].pc \in {"answered", "lookup", "done"}
                 /\ call'[a.call].admin \/ a.email = call'[a.call].caller
        BY <1>1, <1>4, <1>7 DEF AssistantInv, AppliedShape
    <2>3. ASSUME NEW a \in applied', a \notin applied
          PROVE  /\ a.call \in Calls /\ call'[a.call].pc \in {"answered", "lookup", "done"}
                 /\ call'[a.call].admin \/ a.email = call'[a.call].caller
        <3>1. a = [call |-> c, email |-> r.target] /\ r.op \notin {"ask", "read"}
            BY <1>3, <2>3
        <3> QED
            BY <1>4, <1>7, <2>1, <3>1
    <2> QED
        BY <2>2, <2>3 DEF AppliedShape
<1>11. AuditNamesRealChanges'
    BY <1>1, <1>6 DEF AssistantInv, AuditNamesRealChanges
<1> QED
    BY <1>1, <1>7, <1>8, <1>9, <1>10, <1>11 DEF AssistantInv

\* The handler answers, and the audit names what con-ai confirmed.
LEMMA HandlerKeeps ==
    ASSUME AssistantInv, NEW c \in Calls, Answered(c) \/ LookupsEnd(c) \/ ResponseLost(c)
    PROVE  AssistantInv'
<1>1. /\ call[c].pc \in {"sent", "answered", "lookup"}
      /\ UNCHANGED <<clock, mu, token, failure, stored, applied>> /\ CallShape(c)
    BY DEF Answered, LookupsEnd, ResponseLost, AssistantInv
<1>2. \E out \in CallAnswers : Finish(c, out)
    <2>1. CASE Answered(c)
        BY <1>1, <2>1, AnswersKeepSession DEF Answered, CallShape
    <2>2. CASE LookupsEnd(c)
        BY <2>2 DEF LookupsEnd, CallAnswers
    <2>3. CASE ResponseLost(c)
        BY <2>3, AnswersKeepSession DEF ResponseLost, CallAnswers
    <2> QED
        BY <2>1, <2>2, <2>3
<1>3. AuditNamesRealChanges'
    <2>1. CASE audit' = audit
        BY <1>1, <2>1 DEF AssistantInv, AuditNamesRealChanges
    <2>2. CASE audit' # audit
        <3>1. /\ Answered(c) /\ call[c].upstream \in Confirmed
              /\ audit' = audit \cup {[call |-> c, op |-> call[c].op, email |-> call[c].target]}
            BY <2>2 DEF Answered, LookupsEnd, ResponseLost, auditAIAdminWrite, Confirmed
        <3>2. call[c].op \in {"update", "delete"} => [call |-> c, email |-> call[c].target] \in applied
            BY <1>1, <3>1 DEF Answered, CallShape
        <3> QED
            BY <1>1, <3>1, <3>2 DEF AssistantInv, AuditNamesRealChanges
    <2> QED
        BY <2>1, <2>2
<1> QED
    BY <1>1, <1>2, <1>3, EndingKeeps

\* The lookups begin: con-ai's answer came within the budget.
LEMMA LookupsKeep ==
    ASSUME AssistantInv, NEW c \in Calls, BeginLookups(c)
    PROVE  AssistantInv'
<1> DEFINE new == [call[c] EXCEPT !.pc = "lookup", !.heard = clock]
<1>1. /\ call[c].pc = "answered" /\ UNCHANGED <<clock, mu, token, failure, stored, applied, audit>>
      /\ call' = [call EXCEPT ![c] = new]
    BY DEF BeginLookups
<1>2. call \in [Calls -> CallRecords] /\ CallShape(c) /\ clock \in Nat
    BY DEF AssistantInv
<1>3. /\ new \in CallRecords /\ new.pc = "lookup" /\ new.heard = clock /\ new.start = call[c].start
      /\ new.op = call[c].op /\ new.admin = call[c].admin /\ new.target = call[c].target
      /\ new.caller = call[c].caller /\ new.out = call[c].out
    BY <1>2 DEF CallRecords
<1> HIDE DEF new
<1>4. /\ call' \in [Calls -> CallRecords] /\ call'[c] = new
      /\ \A q \in Calls \ {c} : call'[q] = call[q] /\ CallShape(q)'
    BY <1>1, <1>3, OtherCallsKeep
<1>5. CallShape(c)'
    BY <1>1, <1>3, <1>4, <1>2 DEF CallShape
<1>6. TokenShape'
    <2>1. c \notin mu /\ mu' = {q \in Calls : call'[q].pc = "fetching"}
        BY <1>1, <1>3, <1>4 DEF AssistantInv, TokenShape
    <2>2. \A d \in mu : call'[d] = call[d]
        BY <1>4, <2>1 DEF AssistantInv, TokenShape
    <2> QED
        BY <1>1, <1>3, <1>4, <2>1, <2>2 DEF AssistantInv, TokenShape
<1>7. AppliedShape' /\ AuditNamesRealChanges'
    BY <1>1, <1>3, <1>4 DEF AssistantInv, AppliedShape, AuditNamesRealChanges
<1> QED
    BY <1>1, <1>4, <1>5, <1>6, <1>7 DEF AssistantInv

\* Time passes only while nothing due at this instant is left undone.
LEMMA TimeKeeps == ASSUME AssistantInv, TimePasses \/ TokenExpires PROVE AssistantInv'
<1>1. UNCHANGED <<mu, failure, call, stored, applied, audit>>
    BY DEF TimePasses, TokenExpires
<1>2. AppliedShape' /\ AuditNamesRealChanges'
    BY <1>1 DEF AssistantInv, AppliedShape, AuditNamesRealChanges
<1>3. CASE TokenExpires
    <2>1. /\ token' = FALSE /\ clock' = clock /\ failure' = failure
          /\ \A c \in Calls : call[c].pc # "token"
        BY <1>3 DEF TokenExpires
    <2>2. TokenShape'
        BY <1>1, <2>1 DEF AssistantInv, TokenShape
    <2>3. \A c \in Calls : CallShape(c)'
        BY <1>1, <2>1 DEF AssistantInv, CallShape
    <2> QED
        BY <1>1, <1>2, <2>1, <2>2, <2>3 DEF AssistantInv
<1>4. CASE TimePasses
    <2>1. /\ clock \in Nat /\ clock' = clock + 1 /\ token' = token
          /\ \A c \in Calls : call[c] \in CallRecords /\ CallShape(c)
          /\ RequestTimeout \in Nat /\ FetchTimeout \in Nat
        BY <1>4, AssistantAssumption DEF TimePasses, AssistantInv
    <2>2. ASSUME NEW c \in Calls PROVE CallShape(c)'
        <3> DEFINE r == call[c]
        <3>1. r.start \in Nat /\ r.pc \in {"unused", "token", "fetching", "sent", "answered", "lookup", "done"}
            BY <2>1 DEF CallRecords
        <3>2. r.pc \in {"token", "fetching"} => clock < r.start + FetchTimeout
            <4>1. CASE r.pc = "fetching"
                BY <1>4, <2>1, <4>1 DEF TimePasses, CallShape
            <4>2. CASE r.pc = "token"
                <5>1. PICK d \in mu : call[d].start <= r.start
                    BY <1>4, <4>2 DEF TimePasses, AssistantInv, TokenShape
                <5>2. d \in Calls /\ call[d].pc = "fetching" /\ call[d].start \in Nat
                    BY <2>1 DEF AssistantInv, TokenShape, CallRecords
                <5>3. clock < call[d].start + FetchTimeout
                    BY <1>4, <2>1, <5>2 DEF TimePasses, CallShape
                <5> QED
                    BY <2>1, <3>1, <5>1, <5>2, <5>3
            <4> QED
                BY <4>1, <4>2
        <3>3. r.pc \in {"sent", "answered"} => clock < r.start + RequestTimeout
            BY <1>4 DEF TimePasses
        <3>4. /\ r.pc \notin {"unused", "done"} => r.start <= clock'
              /\ r.pc \in {"token", "fetching"} => clock' <= r.start + FetchTimeout
              /\ r.pc \in {"sent", "answered"} => clock' <= r.start + RequestTimeout
            <4>1. r.pc \notin {"unused", "done"} => r.start <= clock
                BY <2>1 DEF CallShape
            <4> QED
                BY <2>1, <3>1, <3>2, <3>3, <4>1
        <3> QED
            BY <1>1, <2>1, <3>4 DEF CallShape
    <2>3. TokenShape'
        BY <1>1, <1>4, <2>1 DEF TimePasses, AssistantInv, TokenShape
    <2>4. failure.at \in Nat /\ failure'.at <= clock'
        BY <1>1, <2>1 DEF AssistantInv
    <2> QED
        BY <1>1, <1>2, <2>1, <2>2, <2>3, <2>4 DEF AssistantInv
<1> QED
    BY <1>3, <1>4

LEMMA AssistantStep == AssistantInv /\ [AssistantNext]_assistantVars => AssistantInv'
<1>1. AssistantInv /\ UNCHANGED assistantVars => AssistantInv'
    BY DEF assistantVars, AssistantInv, CallShape, TokenShape, AppliedShape, AuditNamesRealChanges
<1> QED
    BY <1>1, ArrivalKeeps, TokenKeeps, FetchKeeps, UpstreamKeeps, HandlerKeeps, LookupsKeep,
       TimeKeeps
    DEF AssistantNext, Progress

LEMMA AssistantInvHolds == AssistantInv => CallerSafety /\ AssistantTypeOK
<1> SUFFICES ASSUME AssistantInv PROVE CallerSafety /\ AssistantTypeOK
    OBVIOUS
<1>1. LateByLookupsOnly
    <2> SUFFICES ASSUME NEW c \in Calls, call[c].pc \notin {"unused", "done"},
                        clock > call[c].start + WriteTimeout
                 PROVE  call[c].pc = "lookup" /\ clock > call[c].heard + WriteSlack
        BY DEF LateByLookupsOnly
    <2> DEFINE r == call[c]
    <2>1. r.start \in Nat /\ r.heard \in Nat /\ clock \in Nat
          /\ r.pc \in {"token", "fetching", "sent", "answered", "lookup"}
        BY DEF AssistantInv, CallRecords
    <2>2. WriteTimeout >= FetchTimeout /\ WriteTimeout >= RequestTimeout + WriteSlack
          /\ WriteTimeout \in Nat /\ FetchTimeout \in Nat /\ RequestTimeout \in Nat /\ WriteSlack \in Nat
        BY AssistantAssumption DEF WriteTimeout
    <2>3. ~(clock <= r.start + FetchTimeout) /\ ~(clock <= r.start + RequestTimeout)
        BY <2>1, <2>2
    <2>4. r.pc = "lookup" /\ r.heard <= r.start + RequestTimeout
        BY <2>1, <2>3 DEF AssistantInv, CallShape
    <2> QED
        BY <2>1, <2>2, <2>4
<1>2. CallerKeepsSession
    BY DEF AssistantInv, CallShape, CallerKeepsSession
<1>3. OwnProfileOnly /\ AuditNamesRealChanges
    BY DEF AssistantInv, AppliedShape, OwnProfileOnly
<1>4. Cardinality(mu) <= 1
    <2>1. CASE mu = {}
        BY <2>1, FS_EmptySet
    <2>2. CASE mu # {}
        <3>1. PICK c \in mu : mu = {c}
            BY <2>2 DEF AssistantInv, TokenShape
        <3>2. Cardinality(mu) = 1
            BY <3>1, FS_Singleton
        <3> QED
            BY <3>2
    <2> QED
        BY <2>1, <2>2
<1>5. failure.at \in 0..clock /\ failure.kind \in {"none", "rejected", "unreached"}
    BY DEF AssistantInv
<1>6. AssistantTypeOK
    BY <1>4, <1>5 DEF AssistantTypeOK, AssistantInv, TokenShape, CallShape
<1> QED
    BY <1>1, <1>2, <1>3, <1>6 DEF CallerSafety

\* The token source, the calls and the remembered failure keep their types; at most one call
\* fetches the token.
THEOREM AssistantTyped == AssistantSpec => []AssistantTypeOK
BY AssistantInitInv, AssistantStep, AssistantInvHolds, PTL DEF AssistantSpec

\* However many calls queue behind a token endpoint that hangs, and whatever con-ai and its
\* gateway answer or apply: a call is over before the write deadline unless the handler's own
\* lookups, which no budget covers, outlast the margin; nobody gets a 401, nor a 403 but for
\* lack of the role; nobody changes another's record without the role; and an audited update
\* or removal is one that con-ai applied.
THEOREM CallersAreSafe == AssistantSpec => []CallerSafety
BY AssistantInitInv, AssistantStep, AssistantInvHolds, PTL DEF AssistantSpec

-----------------------------------------------------------------------------
(***************************************************************************)
(* MCPlatform.  Each of its behaviours is one of a component, the others   *)
(* standing still, so that the invariants of all five hold side by side.   *)
(***************************************************************************)

PlatformInv ==
    /\ FlagsInv /\ InTime /\ AssistantInv /\ SchemaInv
    /\ PointsInv /\ StandingsInv /\ KeysInv

LEMMA PlatformInitially == ASSUME Init PROVE PlatformInv
<1>1. InTime
  BY FlagsAssumption DEF Init, FlagsInit, InTime
<1>2. QED
  BY <1>1, FlagsInvInit, AssistantInitInv, SchemaInitInv, PointsInitially, StandingsInitially,
     KeyRowsInitially DEF Init, PlatformInv

LEMMA PlatformStep == ASSUME PlatformInv, [Next]_vars PROVE PlatformInv'
<1>1. [FlagsNext]_flagVars /\ [AssistantNext]_assistantVars /\ [SchemaNext]_schemaVars
      /\ [PointsNext]_pointsVars /\ [KeyRowsNext]_keyRowVars
  BY DEF Next, vars
<1>2. QED
  BY <1>1, FlagsInvStep, ClockStops, AssistantStep, SchemaStep, PointsStep, StandingsStep, KeyRowsStep
     DEF PlatformInv

\* Whatever the five components of MCPlatform go through, every variable keeps its type.
THEOREM PlatformTyped == Spec => []TypesOK
<1>1. PlatformInv => TypesOK
  BY FlagsAreTyped, AssistantInvHolds, SchemaInvHolds, StandingsTyped, KeysAreTyped DEF PlatformInv, TypesOK
<1>2. Init => PlatformInv
  BY PlatformInitially
<1>3. PlatformInv /\ [Next]_vars => PlatformInv'
  BY PlatformStep
<1>4. QED
  BY <1>1, <1>2, <1>3, PTL DEF Spec
=============================================================================
