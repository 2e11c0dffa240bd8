-------------------------- MODULE IdempotencyKeys --------------------------
(***************************************************************************)
(* Idempotency-Key on the POSTs of amplify-api.  A request inserts the row *)
(* of its key, runs its handler and stores the answer in the row; a repeat *)
(* is given the stored answer, or told that the first still runs.  The row *)
(* names no owner, so what keeps two requests apart is only who inserted   *)
(* it.  Every statement may fail, or be applied and its answer lost; a     *)
(* process may die at any point.  A row lives for a day, and no request    *)
(* runs that long.                                                         *)
(*                                                                         *)
(* Keys are per caller: a key here stands for a caller and a key.  Of an   *)
(* answer only its kind is kept: a success has had its effect, a refusal   *)
(* (4xx) none, an error (5xx) perhaps.                                     *)
(***************************************************************************)
EXTENDS Naturals, FiniteSets

CONSTANTS
    Keys,
    Posts,
    Hashes,     \* fingerprints of method, route and body
    Absent, NoKey

Stored == {"success", "refused"}
InProgress == "inProgress"
Rows == [hash : Hashes, answer : Stored \cup {InProgress}]

ASSUME KeysAssumption == NoKey \notin Keys /\ Absent \notin Rows

VARIABLES
    row,        \* messaging_idempotency_key, by key
    post,       \* the requests
    effects,    \* effects of the handlers under a key since its row expired last
    forgotten   \* of these, effects whose answer no row could hold

keyRowVars == <<row, post, effects, forgotten>>

Running == {"handling", "completing", "releasing"}

Goto(q, pc) == post' = [post EXCEPT ![q].pc = pc]
Answer(q, a) == post' = [post EXCEPT ![q].pc = "done", ![q].answer = a]
RowOf(q) == row[post[q].key]
NewRow(q) == [hash |-> post[q].hash, answer |-> InProgress]

Arrive(q, k, h) ==
    /\ post[q].pc = "idle"
    /\ post' = [post EXCEPT ![q] = [@ EXCEPT !.pc = "inserting", !.key = k, !.hash = h]]
    /\ UNCHANGED <<row, effects, forgotten>>

\* Both inserts of claimIdempotencyKey: ON CONFLICT DO NOTHING.
InsertKey(q) ==
    /\ post[q].pc \in {"inserting", "retrying"}
    /\ IF RowOf(q) = Absent
       THEN row' = [row EXCEPT ![post[q].key] = NewRow(q)] /\ Goto(q, "handling")
       ELSE /\ IF post[q].pc = "inserting" THEN Goto(q, "reading") ELSE Answer(q, InProgress)
            /\ UNCHANGED row
    /\ UNCHANGED <<effects, forgotten>>

\* Mutant: a row released since lets the request run at once.
ReadGone(q) ==
    /\ post[q].pc = "reading"
    /\ IF RowOf(q) = Absent THEN Goto(q, "handling")
       ELSE IF RowOf(q).hash # post[q].hash THEN Answer(q, "reused")
       ELSE Answer(q, RowOf(q).answer)
    /\ UNCHANGED <<row, effects, forgotten>>

\* Its read in between; the row may have been released since.
ReadKey(q) ==
    /\ post[q].pc = "reading"
    /\ IF RowOf(q) = Absent THEN Goto(q, "retrying")
       ELSE IF RowOf(q).hash # post[q].hash THEN Answer(q, "reused")
       ELSE Answer(q, RowOf(q).answer)
    /\ UNCHANGED <<row, effects, forgotten>>

\* A claim that fails is answered 503; its insert may have been applied.
ClaimFails(q) ==
    /\ post[q].pc \in {"inserting", "reading", "retrying"}
    /\ Answer(q, "unavailable")
    /\ \/ UNCHANGED row
       \/ post[q].pc # "reading" /\ RowOf(q) = Absent /\ row' = [row EXCEPT ![post[q].key] = NewRow(q)]
    /\ UNCHANGED <<effects, forgotten>>

\* The handler commits or refuses; an error may hide that it committed.
Handle(q) ==
    /\ post[q].pc = "handling"
    /\ \E a \in Stored \cup {"error"}, had \in BOOLEAN :
        /\ a = "success" => had
        /\ a = "refused" => ~had
        /\ post' = [post EXCEPT ![q].answer = a,
                              ![q].pc = IF a \in Stored THEN "completing" ELSE "releasing"]
        /\ effects' = [effects EXCEPT ![post[q].key] = @ + (IF had THEN 1 ELSE 0)]
        /\ forgotten' = [forgotten EXCEPT ![post[q].key] = @ + (IF had /\ a = "error" THEN 1 ELSE 0)]
    /\ UNCHANGED row

\* completeIdempotencyKey updates whatever row the key has.
Complete(q, heard) ==
    /\ post[q].pc = "completing"
    /\ row' = [row EXCEPT ![post[q].key] =
                IF @ = Absent THEN @ ELSE [@ EXCEPT !.answer = post[q].answer]]
    /\ Goto(q, IF heard THEN "done" ELSE "releasing")
    /\ UNCHANGED <<effects, forgotten>>

CompleteFails(q) ==
    /\ post[q].pc = "completing" /\ Goto(q, "releasing")
    /\ UNCHANGED <<row, effects, forgotten>>

\* releaseIdempotencyKey deletes the row unless it has an answer.
Release(q) ==
    LET frees == RowOf(q) # Absent /\ RowOf(q).answer = InProgress IN
    /\ post[q].pc = "releasing"
    /\ row' = [row EXCEPT ![post[q].key] = IF frees THEN Absent ELSE @]
    /\ forgotten' = [forgotten EXCEPT ![post[q].key] =
                        @ + (IF frees /\ post[q].answer = "success" THEN 1 ELSE 0)]
    /\ Goto(q, "done")
    /\ UNCHANGED effects

ReleaseFails(q) ==
    /\ post[q].pc = "releasing" /\ Goto(q, "done")
    /\ UNCHANGED <<row, effects, forgotten>>

\* The process dies; the handler may just have committed.
Crash(q) ==
    /\ post[q].pc \notin {"idle", "done"}
    /\ Answer(q, "none")
    /\ \/ UNCHANGED effects
       \/ post[q].pc = "handling" /\ effects' = [effects EXCEPT ![post[q].key] = @ + 1]
    /\ UNCHANGED <<row, forgotten>>

\* A day later: the purge or the next claim deletes the row.
Expire(k) ==
    /\ row[k] # Absent
    /\ \A q \in Posts : post[q].key = k => post[q].pc \in {"idle", "done"}
    /\ row' = [row EXCEPT ![k] = Absent]
    /\ effects' = [effects EXCEPT ![k] = 0] /\ forgotten' = [forgotten EXCEPT ![k] = 0]
    /\ UNCHANGED post

KeyRowsInit ==
    /\ row = [k \in Keys |-> Absent]
    /\ post = [q \in Posts |-> [pc |-> "idle", key |-> NoKey, hash |-> "none", answer |-> "none"]]
    /\ effects = [k \in Keys |-> 0] /\ forgotten = [k \in Keys |-> 0]

KeyRowsNext ==
    \/ \E q \in Posts :
        \/ \E k \in Keys, h \in Hashes : Arrive(q, k, h)
        \/ InsertKey(q) \/ ReadKey(q) \/ ClaimFails(q)
        \/ Handle(q)
        \/ \E heard \in BOOLEAN : Complete(q, heard)
        \/ CompleteFails(q) \/ Release(q) \/ ReleaseFails(q)
        \/ Crash(q)
    \/ \E k \in Keys : Expire(k)

KeyRowsSpec == KeyRowsInit /\ [][KeyRowsNext]_keyRowVars

-----------------------------------------------------------------------------
(***************************************************************************)
(* Properties.                                                             *)
(***************************************************************************)

KeyRowsTypeOK ==
    /\ \A k \in Keys : row[k] \in Rows \cup {Absent}
    /\ \A q \in Posts : post[q].key \in Keys \cup {NoKey}
    /\ effects \in [Keys -> Nat] /\ forgotten \in [Keys -> Nat]

\* Although a row names no owner, one request at a time runs its handler under a key.
OneAtATime ==
    \A p, q \in Posts :
        post[p].pc \in Running /\ post[q].pc \in Running /\ post[p].key = post[q].key => p = q

\* Under one key the effect happens once, and once more for each effect whose answer could
\* not be stored or was an error.
EffectOnce == \A k \in Keys : effects[k] <= 1 + forgotten[k]

\* A stored answer is that of the request it stands for: a success has had its effect.
StoredIsTrue ==
    \A k \in Keys : row[k] # Absent /\ row[k].answer = "success" => effects[k] > forgotten[k]

KeySafety == OneAtATime /\ EffectOnce /\ StoredIsTrue
=============================================================================
