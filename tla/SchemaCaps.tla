----------------------------- MODULE SchemaCaps -----------------------------
(***************************************************************************)
(* What the conference backend knows of a schema it does not own: columns  *)
(* and tables that migrations add by hand while it runs.                   *)
(*                                                                         *)
(* A read that needs an optional column or table asks information_schema   *)
(* until it got an answer, one query per object and none of them under the *)
(* lock, and shapes its own query by what it learned.  A capability is     *)
(* named after the function that resolves it.                              *)
(***************************************************************************)
EXTENDS Naturals, Sequences, FiniteSets, SequencesExt, Functions

CONSTANTS Reads,
          Asked,          \* the capabilities the reads need
          MaxMigrations   \* bound: migrations applied while it runs

VARIABLES schema,     \* the optional objects that exist
          migrated,
          cache,      \* what each capability resolved to, or Unresolved
          reader

schemaVars == <<schema, migrated, cache, reader>>

\* What each capability probes, in order.  The topic query also joins
\* track_topics, which no capability probes: the migration that adds
\* sessions.topic_id (upstream 023) creates that table too, and the column
\* stands for both here.
Probes ==
    [hasTopicID        |-> <<"sessions.topic_id">>,
     colorTokenColumns |-> <<"rooms.color_token", "tracks.color_token">>,
     venueColumns      |-> <<"venue_name", "venue_address">>,
     activityTables    |-> <<"con_activities", "con_activity_hours">>]
Capabilities == DOMAIN Probes
ASSUME SchemaAssumption == Asked \subseteq Capabilities /\ MaxMigrations \in Nat

Objects == UNION {ToSet(Probes[c]) : c \in Capabilities}

Unresolved == {"unresolved"}
Resting == [pc |-> "rest", cap |-> "hasTopicID", probe |-> 1, found |-> {}]

\* activityTables answers for both tables together, and asks no further
\* once one is missing.
AllOrNothing(c) == c = "activityTables"
\* Mutant: one of the two tables is enough.
AnswerOfEither(c, found) ==
    IF AllOrNothing(c) /\ found # {} THEN ToSet(Probes[c]) ELSE found

AnswerOf(c, found) ==
    IF AllOrNothing(c) /\ found # ToSet(Probes[c]) THEN {} ELSE found
Finished(r) ==
    \/ r.probe > Len(Probes[r.cap])
    \/ AllOrNothing(r.cap) /\ Cardinality(r.found) < r.probe - 1

-----------------------------------------------------------------------------
(* A read.  query holds the objects its own SQL names.                     *)

Begin(r, c) ==
    /\ reader[r].pc = "rest"
    /\ reader' = [reader EXCEPT ![r] =
           IF cache[c] = Unresolved THEN [Resting EXCEPT !.pc = "probing", !.cap = c]
           ELSE [Resting EXCEPT !.pc = "query", !.cap = c, !.found = cache[c]]]
    /\ UNCHANGED <<schema, migrated, cache>>

probeColumn(r) ==
    LET o == Probes[reader[r].cap][reader[r].probe] IN
    /\ reader[r].pc = "probing" /\ ~Finished(reader[r])
    /\ reader' = [reader EXCEPT ![r].probe = @ + 1,
                                ![r].found = IF o \in schema THEN @ \cup {o} ELSE @]
    /\ UNCHANGED <<schema, migrated, cache>>

\* A probe that fails or outlives its own ten seconds degrades this read
\* and leaves the capability to be asked for again.
ProbeFails(r) ==
    /\ reader[r].pc = "probing" /\ ~Finished(reader[r])
    /\ reader' = [reader EXCEPT ![r].pc = "query", ![r].found = {}]
    /\ UNCHANGED <<schema, migrated, cache>>

Resolve(r) ==
    LET c == reader[r].cap
        answer == AnswerOf(c, reader[r].found) IN
    /\ reader[r].pc = "probing" /\ Finished(reader[r])
    /\ cache' = [cache EXCEPT ![c] = answer]
    /\ reader' = [reader EXCEPT ![r].pc = "query", ![r].found = answer]
    /\ UNCHANGED <<schema, migrated>>

Query(r) ==
    /\ reader[r].pc = "query"
    /\ reader' = [reader EXCEPT ![r] = Resting]
    /\ UNCHANGED <<schema, migrated, cache>>

\* Someone applies a migration, or one ALTER of it.
Migrate ==
    /\ migrated < MaxMigrations /\ migrated' = migrated + 1
    /\ \E c \in Asked : \E added \in SUBSET ToSet(Probes[c]) :
         added \ schema # {} /\ schema' = schema \cup added
    /\ UNCHANGED <<cache, reader>>

SchemaInit ==
    /\ \E caps \in SUBSET Asked :
         schema = UNION {ToSet(Probes[c]) : c \in caps}
    /\ migrated = 0
    /\ cache = [c \in Capabilities |-> Unresolved]
    /\ reader = [r \in Reads |-> Resting]

SchemaNext ==
    \/ \E r \in Reads : probeColumn(r) \/ ProbeFails(r) \/ Resolve(r) \/ Query(r)
                        \/ \E c \in Asked : Begin(r, c)
    \/ Migrate

SchemaSpec == SchemaInit /\ [][SchemaNext]_schemaVars

-----------------------------------------------------------------------------
(* Properties.                                                             *)

SchemaTypeOK ==
    /\ schema \subseteq Objects
    /\ \A c \in Capabilities : cache[c] = Unresolved \/ cache[c] \subseteq ToSet(Probes[c])
    /\ \A r \in Reads : reader[r].probe \in 1..Len(Probes[reader[r].cap]) + 1

\* A read never names a column or a table the database does not have, and
\* the activity read names both tables or neither, whatever migrations land
\* between its probes (schema.go).
NamesWhatExists ==
    \A r \in Reads : reader[r].pc = "query" =>
        /\ reader[r].found \subseteq schema
        /\ AllOrNothing(reader[r].cap) => reader[r].found \in {{}, ToSet(Probes[reader[r].cap])}

\* Only an answer is remembered, never a failure: with no migration under
\* way, what is remembered missing is missing.
AbsenceWasAnswered ==
    migrated = 0 => \A c \in Capabilities :
        cache[c] # Unresolved => cache[c] = schema \cap ToSet(Probes[c])

\* A read fits the schema it is sent to, and a missing object is one that was asked for.
SchemaSafety == NamesWhatExists /\ AbsenceWasAnswered
=============================================================================
