---------------------------- MODULE MCAttendees ----------------------------
(***************************************************************************)
(* Small instances for TLC of what attendees meet: the directory with its  *)
(* pushes, the connections of two of them, the coins they scan and the     *)
(* registrant's desks.  They share no state beyond the directory, so each  *)
(* behaviour is about one of them, chosen at the start.                    *)
(***************************************************************************)
EXTENDS Connections, Coins, Registrants, TLC

CONSTANTS a, b, c, q1, q2

VARIABLE focus

vars == <<connectionVars, coinVars, registrantVars, focus>>

\* a comes with two kinds of token, b and c with one.
Accounts == {[sub |-> id, email |-> <<id[1], "email">>] :
                id \in {<<a, "uuid">>, <<a, "email">>, <<b, "uuid">>, <<c, "uuid">>}}

\* The connections are those of a and b.
Pair == /\ c \notin Range(directory')
        /\ {call'[k].token : k \in Calls} \subseteq {t \in Accounts : t.sub[1] # c} \cup {NoToken}
        /\ {call'[k].target : k \in Calls} \subseteq ({a, b} \X {"uuid", "email"}) \cup {NoId}

\* A session that ends before the clock does, and a code without a session.
Info == (q1 :> [type |-> "SESSION", coins |-> 5, scheduled |-> TRUE, start |-> 1, end |-> 1])
     @@ (q2 :> [type |-> "GENERAL", coins |-> 3, scheduled |-> FALSE, start |-> 0, end |-> 0])

Init ==
    /\ ConnectionInit /\ CoinInit /\ RegistrantInit
    /\ focus \in {"directory", "connections", "coins", "desks"}
    /\ focus # "coins" => scan = [s \in Scans |-> [pc |-> "idle", user |-> a, code |-> q1,
                                                   event |-> 0, answer |-> "none"]]
    /\ focus # "desks" => registrations = {}

Next ==
    /\ \/ /\ \/ focus = "directory" /\ AttendeeStep /\ UNCHANGED connectionOnly
             \/ focus = "connections" /\ ConnectionNext /\ Pair
          /\ UNCHANGED <<coinVars, registrantVars>>
       \/ focus = "coins" /\ CoinNext /\ UNCHANGED <<connectionVars, registrantVars>>
       \/ focus = "desks" /\ RegistrantNext /\ UNCHANGED <<connectionVars, coinVars>>
    /\ UNCHANGED focus

Spec == Init /\ [][Next]_vars

Sym == Permutations(Calls) \cup Permutations(Visits) \cup Permutations(Syncs)

\* Every variable of the four components has its type.
TypesOK == ConnectionTypeOK /\ CoinTypeOK /\ RegistrantTypeOK
=============================================================================
