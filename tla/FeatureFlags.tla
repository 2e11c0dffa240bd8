---------------------------- MODULE FeatureFlags ----------------------------
(***************************************************************************)
(* Feature flags of the conference backend: the rows of app_config, the    *)
(* Resolver that answers from a cached reading of them, the middleware     *)
(* that refuses the routes of a disabled feature and the /app-configs      *)
(* listing the microapp reads.                                             *)
(*                                                                         *)
(* Operators edit rows by hand while requests run.  A request loads the    *)
(* cached snapshot, refreshing it first when it has aged past the TTL; a   *)
(* refresh is one query under a mutex, and the query may fail.  The gate   *)
(* loads once for the flag and, when that refuses, once more for the       *)
(* allowlist.  Readings are named by the number of the edit they saw.      *)
(***************************************************************************)
EXTENDS Naturals, Sequences, FiniteSets, SequencesExt

CONSTANTS Features,       \* every is_<x>_enabled name that can occur
          Registered,     \* those this build declares, on by default
          Ungated, DefaultOwner,   \* compiled route map
          Emails, Anonymous,       \* callers; a token may carry no email
          FlagValues,     \* spellings an operator may store
          GateRows,       \* contents of the route map row
          Requests, TTL, RefreshTimeout, MaxTime, MaxEdits

ASSUME FlagsAssumption ==
    /\ Registered \subseteq Features
    /\ DefaultOwner \in Features \cup {Ungated}
    /\ Ungated \notin Features /\ Anonymous \notin Emails
    /\ FlagValues \subseteq {"1", "0", "typo", "absent"}
    /\ GateRows \subseteq Features \cup {Ungated, "absent", "malformed"}
    /\ TTL \in Nat \ {0} /\ RefreshTimeout \in Nat
    /\ MaxTime \in Nat /\ MaxEdits \in Nat

VARIABLES tables,     \* every content app_config has had, the last is current
          replaced,   \* when each was edited away
          now,
          current,    \* the edit the cached snapshot saw, 0 before the first
          fetchedAt,
          refreshMu,  \* the request refreshing, {} when none
          reqs

flagVars == <<tables, replaced, now, current, fetchedAt, refreshMu, reqs>>

None == 0
Table == [flag : [Features -> FlagValues],
          gates : GateRows,
          bypass : SUBSET Emails]

Idle == [pc |-> "idle", stage |-> "gate", email |-> Anonymous,
         got |-> None, begun |-> 0, failed |-> FALSE, loads |-> <<>>,
         rows |-> None, out |-> "none"]

-----------------------------------------------------------------------------
(* A snapshot.                                                             *)

\* The answer when nothing was ever read: every declared feature on.
defaultSnapshot ==
    [states |-> [f \in Registered |-> TRUE], gate |-> DefaultOwner, bypass |-> {}]

parseEnabled(v, otherwise) ==
    IF v \in {"1", "0"} THEN v = "1" ELSE otherwise

\* A row names a feature even when this build does not declare it.
featuresOf(t) == Registered \cup {f \in Features : t.flag[f] # "absent"}

\* The rows laid over the defaults.  Every default is on.
apply(t) ==
    [states |-> [f \in featuresOf(t) |-> parseEnabled(t.flag[f], TRUE)],
     gate   |-> IF t.gates \in {"absent", "malformed"} THEN DefaultOwner ELSE t.gates,
     bypass |-> t.bypass]

Snapshot(v) == IF v = None THEN defaultSnapshot ELSE apply(tables[v])

\* A feature nobody declared fails open.
State(s, f) == IF f \in DOMAIN s.states THEN s.states[f] ELSE TRUE

Gate(s) == IF s.gate = Ungated THEN "open"
           ELSE IF State(s, s.gate) THEN "open" ELSE "closed"

BypassesGates(s, e) == e # Anonymous /\ e \in s.bypass

Fresh == current # None /\ now - fetchedAt < TTL

-----------------------------------------------------------------------------
(* Resolver.load and Resolver.refresh.  loads keeps what each load of a    *)
(* request answered; failed says that the refresh it asked for did.        *)

\* What the request does with the snapshot it loaded.
FeatureGate(r, s) ==
    IF Gate(s) = "open" THEN [r EXCEPT !.pc = "done", !.out = "served"]
    ELSE IF r.email = Anonymous THEN [r EXCEPT !.pc = "done", !.out = "refused"]
    ELSE [r EXCEPT !.pc = "load", !.stage = "bypass"]

Bypass(r, s) ==
    [r EXCEPT !.pc = "done",
              !.out = IF BypassesGates(s, r.email) THEN "served" ELSE "refused"]

\* GET /app-configs keeps the snapshot for its defaults, then asks for the
\* caller's place on the allowlist; without one it answers as it stands.
withDefaults(r, s) ==
    IF r.email = Anonymous \/ DOMAIN s.states = {}
    THEN [r EXCEPT !.pc = "done", !.out = "listed"]
    ELSE [r EXCEPT !.pc = "load", !.stage = "unhide"]

unhideForBypass(r, s) ==
    [r EXCEPT !.pc = "done",
              !.out = IF BypassesGates(s, r.email) THEN "unhidden" ELSE "listed"]

\* The stage a finished load continues, for the snapshot of edit v.
Continue(q, v) ==
    LET r == [reqs[q] EXCEPT !.loads = Append(@, v), !.failed = FALSE,
                             !.got = None, !.begun = 0]
        s == Snapshot(v)
    IN  CASE r.stage = "gate"     -> FeatureGate(r, s)
          [] r.stage = "bypass"   -> Bypass(r, s)
          [] r.stage = "defaults" -> withDefaults(r, s)
          [] r.stage = "unhide"   -> unhideForBypass(r, s)

LoadCached(q) ==
    /\ reqs[q].pc = "load"
    /\ reqs' = [reqs EXCEPT ![q] = IF Fresh THEN Continue(q, current)
                                   ELSE [@ EXCEPT !.pc = "waiting"]]
    /\ UNCHANGED <<tables, replaced, now, current, fetchedAt, refreshMu>>

\* Mutants: every request refreshes for itself; the one that waited
\* queries again.
RefreshUnlocked(q) ==
    /\ reqs[q].pc = "waiting"
    /\ reqs' = [reqs EXCEPT ![q].pc = "listing", ![q].begun = now]
    /\ refreshMu' = refreshMu \cup {q}
    /\ UNCHANGED <<tables, replaced, now, current, fetchedAt>>

RefreshWithoutRecheck(q) ==
    /\ reqs[q].pc = "waiting" /\ refreshMu = {}
    /\ reqs' = [reqs EXCEPT ![q].pc = "listing", ![q].begun = now]
    /\ refreshMu' = {q}
    /\ UNCHANGED <<tables, replaced, now, current, fetchedAt>>

\* refresh re-checks under its mutex before spending a query.
BeginRefresh(q) ==
    /\ reqs[q].pc = "waiting" /\ refreshMu = {}
    /\ IF Fresh
       THEN /\ reqs' = [reqs EXCEPT ![q].pc = "reread"]
            /\ UNCHANGED refreshMu
       ELSE /\ reqs' = [reqs EXCEPT ![q].pc = "listing", ![q].begun = now]
            /\ refreshMu' = {q}
    /\ UNCHANGED <<tables, replaced, now, current, fetchedAt>>

List(q) ==
    /\ reqs[q].pc = "listing"
    /\ reqs' = [reqs EXCEPT ![q].pc = "listed", ![q].got = Len(tables)]
    /\ UNCHANGED <<tables, replaced, now, current, fetchedAt, refreshMu>>

\* The query failed or ran out of its timeout: keep what is cached.
ListFails(q) ==
    /\ reqs[q].pc \in {"listing", "listed"}
    /\ reqs' = [reqs EXCEPT ![q].pc = "reread", ![q].failed = TRUE, ![q].got = None]
    /\ refreshMu' = refreshMu \ {q}
    /\ UNCHANGED <<tables, replaced, now, current, fetchedAt>>

Publish(q) ==
    /\ reqs[q].pc = "listed"
    /\ current' = reqs[q].got
    /\ fetchedAt' = now
    /\ refreshMu' = refreshMu \ {q}
    /\ reqs' = [reqs EXCEPT ![q].pc = "reread"]
    /\ UNCHANGED <<tables, replaced, now>>

Reread(q) ==
    /\ reqs[q].pc = "reread"
    /\ reqs' = [reqs EXCEPT ![q] = Continue(q, current)]
    /\ UNCHANGED <<tables, replaced, now, current, fetchedAt, refreshMu>>

-----------------------------------------------------------------------------
(* Requests, operators and the clock.                                      *)

GatedRequest(q, e) ==
    /\ reqs[q].pc \in {"idle", "done"}
    /\ reqs' = [reqs EXCEPT ![q] = [Idle EXCEPT !.pc = "load", !.email = e]]
    /\ UNCHANGED <<tables, replaced, now, current, fetchedAt, refreshMu>>

\* GET /app-configs reads the rows itself; without them it answers 500.
ListConfigs(q, e) ==
    /\ reqs[q].pc \in {"idle", "done"}
    /\ \/ reqs' = [reqs EXCEPT ![q] = [Idle EXCEPT !.pc = "load", !.email = e,
                                !.stage = "defaults", !.rows = Len(tables)]]
       \/ reqs' = [reqs EXCEPT ![q] = [Idle EXCEPT !.pc = "done", !.email = e,
                                !.stage = "defaults", !.out = "error"]]
    /\ UNCHANGED <<tables, replaced, now, current, fetchedAt, refreshMu>>

\* The rows GET /app-configs serves to the caller of r: the allowlist is
\* held back, gaps take the snapshot's states, an allowlisted caller sees
\* every flag the snapshot knows switched on.
Served(r) ==
    LET rows == tables[r.rows]
        snap == Snapshot(r.loads[1])
        known == DOMAIN snap.states
        value(f) == IF r.out = "unhidden" /\ f \in known THEN "1"
                    ELSE IF rows.flag[f] # "absent" THEN rows.flag[f]
                    ELSE IF snap.states[f] THEN "1" ELSE "0"
    IN  [f \in known \cup {g \in Features : rows.flag[g] # "absent"} |-> value(f)]

EditTo(t) ==
    /\ Len(tables) <= MaxEdits
    /\ t # Last(tables)
    /\ tables' = Append(tables, t)
    /\ replaced' = Append(replaced, now)
    /\ UNCHANGED <<now, current, fetchedAt, refreshMu, reqs>>

\* One UPDATE changes one row.
EditRow ==
    LET t == Last(tables) IN
    \/ \E f \in Features, v \in FlagValues : EditTo([t EXCEPT !.flag[f] = v])
    \/ \E g \in GateRows : EditTo([t EXCEPT !.gates = g])
    \/ \E b \in SUBSET Emails : EditTo([t EXCEPT !.bypass = b])

\* No query outlives its timeout, and time passes only in queries, in
\* waiting for the mutex and between requests.
Tick ==
    /\ now < MaxTime
    /\ \A q \in Requests : reqs[q].pc \notin {"load", "reread"}
    /\ \A q \in refreshMu : now < reqs[q].begun + RefreshTimeout
    /\ now' = now + 1
    /\ UNCHANGED <<tables, replaced, current, fetchedAt, refreshMu, reqs>>

FlagsInit ==
    /\ tables \in {<<t>> : t \in Table}
    /\ replaced = <<>>
    /\ now = 0 /\ current = None /\ fetchedAt = 0 /\ refreshMu = {}
    /\ reqs = [q \in Requests |-> Idle]

Load(q) == LoadCached(q) \/ BeginRefresh(q) \/ List(q) \/ ListFails(q)
           \/ Publish(q) \/ Reread(q)

FlagsNext ==
    \/ \E q \in Requests : Load(q)
    \/ \E q \in Requests, e \in Emails \cup {Anonymous} :
          GatedRequest(q, e) \/ ListConfigs(q, e)
    \/ EditRow
    \/ Tick

FlagsSpec == FlagsInit /\ [][FlagsNext]_flagVars

-----------------------------------------------------------------------------
(* Properties.                                                             *)

FlagsTypeOK ==
    /\ tables \in Seq(Table) /\ Len(replaced) = Len(tables) - 1
    /\ now \in 0..MaxTime /\ current \in 0..Len(tables)
    /\ fetchedAt \in 0..now
    /\ refreshMu = {q \in Requests : reqs[q].pc \in {"listing", "listed"}}
    /\ Cardinality(refreshMu) <= 1

\* A decision rests on rows that were in force less than the TTL and one
\* query timeout ago, unless the refresh it asked for failed: what an
\* operator turned off longer ago is off (resolver.go, load and refresh).
Recent(v) ==
    /\ v # None
    /\ v < Len(tables) => replaced[v] + TTL + RefreshTimeout > now
DecisionsAreRecent ==
    [][\A q \in Requests :
         LET l == reqs'[q].loads IN
         Len(l) > Len(reqs[q].loads) /\ ~reqs[q].failed => Recent(Last(l))]_flagVars

\* The process never goes back to an older reading, nor to the compiled
\* defaults once it has read the table, whatever queries fail or overlap.
NeverGoesBack == [][current' >= current]_flagVars

\* However many requests find the cache expired, one reading of the table
\* is published per TTL ("a burst issues one query", resolver.go).
Publishes(q) == reqs[q].pc = "listed" /\ reqs'[q].pc = "reread" /\ ~reqs'[q].failed
OneReadingPerTTL ==
    [][\A q \in Requests : Publishes(q) => current = None \/ now >= fetchedAt + TTL]_flagVars

\* GET /app-configs shows a caller no switch that the readings its request
\* made do not explain: one of them has the feature on, or lists the caller;
\* one of them has it off when it is shown off (handlers/app_config.go).
Readings(r) == ToSet(r.loads) \cup {r.rows}
ShownAsRead ==
    \A q \in Requests : reqs[q].out \in {"listed", "unhidden"} =>
        LET r == reqs[q]
            shown == Served(r) IN
        \A f \in DOMAIN shown :
            /\ shown[f] = "1" => \E v \in Readings(r) :
                 State(Snapshot(v), f) \/ BypassesGates(Snapshot(v), r.email)
            /\ shown[f] = "0" => \E v \in Readings(r) : ~State(Snapshot(v), f)
            /\ shown[f] # "absent"

\* What requests are answered follows the table: recent readings, never an older one, one per TTL, and
\* a listing that the readings explain.
FlagSafety == []ShownAsRead /\ DecisionsAreRecent /\ NeverGoesBack /\ OneReadingPerTTL
=============================================================================
