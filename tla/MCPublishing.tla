---------------------------- MODULE MCPublishing ----------------------------
(***************************************************************************)
(* A small instance of Publishing for TLC.  A behaviour has one of two     *)
(* foci, chosen at the start:                                              *)
(*                                                                         *)
(*   rounds   one campaign, asked for again after its first round, on      *)
(*            workers the outbox does not keep apart                       *)
(*   targets  two campaigns that promote the same post, one round each,    *)
(*            while the employee reconnects; the outbox keeps the workers  *)
(*            apart, as Deliveries does when Exclusive                     *)
(***************************************************************************)
EXTENDS Publishing, TLC

VARIABLE focus

\* Bounds of "rounds": a connection that is not removed, and expires only between two deliveries.
OneShareOneToken ==
    /\ Cardinality({x \in Campaigns : x \in asking' \/ share'[x].state # "NONE"}) <= 1
    /\ connection'.token <= 1 /\ connection'.state # "REMOVED"
    /\ connection.state # "EXPIRED" /\ connection'.state = "EXPIRED" => \A w \in Workers : job[w] = Nothing

\* What Deliveries asks of an Exclusive outbox.
Apart ==
    /\ \A w \in Workers : job'[w] \notin {job[w], Nothing} =>
         queue[job'[w]] = "QUEUED" /\ \A v \in Workers : ~WorksOn(v, job'[w])
    /\ \A x \in Events : queue[x] = "QUEUED" /\ queue'[x] # "QUEUED" =>
         \A v \in Workers : ~WorksOn(v, x)

\* Bounds of "targets": a share is handled up to its first call, shares are asked for one after
\* the other, and the connection, which does not expire, is made anew at most once and then kept.
OneRoundOneCall ==
    /\ connection'.state # "EXPIRED" /\ Cardinality(asking') <= 1
    /\ connection'.token = 2 => connection'.state # "REMOVED"
    /\ \A x \in Campaigns : share'[x].round <= 1
    /\ \A w \in Workers : step'[w] \in {"connection", "token", "mark"} => copy'[w].version <= 1

FocusedInit == Init /\ focus \in {"rounds", "targets"}

FocusedNext ==
    /\ Next /\ UNCHANGED focus
    /\ focus = "rounds" => OneShareOneToken
    /\ focus = "targets" => OneRoundOneCall /\ Apart

FocusedSpec == FocusedInit /\ [][FocusedNext]_<<vars, focus>>

Sym == Permutations(Workers) \cup Permutations(Campaigns)
=============================================================================
