----------------------------- MODULE MCPlatform -----------------------------
(***************************************************************************)
(* Small instances for TLC of what the backends keep or ask of others while *)
(* they serve: the feature flags, the capabilities of the schema and the   *)
(* AI client of the conference, Amplify's points and its idempotency keys. *)
(* They share no state, so each behaviour is about one of them, chosen at  *)
(* the start.                                                              *)
(***************************************************************************)
EXTENDS FeatureFlags, Assistant, SchemaCaps, Points, IdempotencyKeys, TLC

CONSTANTS u1, ann, po

VARIABLE focus

vars == <<flagVars, assistantVars, schemaVars, pointsVars, keyRowVars, focus>>

\* What callers of the AI routes ask for; bob's record is the target.
Kind(op, admin, target, override) ==
    [op |-> op, caller |-> "ann", admin |-> admin, target |-> target, override |-> override]
AIKinds ==
    {Kind("ask", FALSE, "ann", FALSE), Kind("profile", FALSE, "bob", TRUE),
     Kind("create", TRUE, "bob", FALSE), Kind("update", TRUE, "bob", FALSE),
     Kind("delete", TRUE, "bob", FALSE), Kind("delete", FALSE, "bob", FALSE)}

\* Claims of one post, by the PO who decides or by somebody else.
OnPost(op) == [op |-> op, by |-> po, url |-> u1]
ReverseOf(action) == [op |-> "reverse", by |-> po, ref |-> AwardRef(action, u1)]
PointCommands ==
    {OnPost(op) : op \in Deciding} \cup {[op |-> "submit", by |-> e, url |-> u1] : e \in People}
    \cup {ReverseOf("OWN_POST"), ReverseOf("OWN_POST_AMPLIFIED")}
    \cup {[op |-> "adjust", by |-> ann, whom |-> po, points |-> 2], [op |-> "rebuild", by |-> po]}

Init ==
    /\ FlagsInit /\ AssistantInit /\ SchemaInit /\ PointsInit /\ KeyRowsInit
    /\ focus \in {"flags", "assistant", "schema", "points", "keys"}
    /\ Last(tables).gates = "absent"
    /\ focus # "flags" => Last(tables).bypass = {} /\ \A f \in Features : Last(tables).flag[f] = "1"
    /\ focus # "assistant" => stored = {}
    /\ focus # "schema" => schema = {}
    /\ focus # "points" => claim = [u \in Urls |-> NoClaim]

\* Calls that could be renamed begin in the order of their numbers.
InOrder == \A c \in Tasks : task[c].pc = "idle" /\ task'[c].pc # "idle" =>
                \A d \in 1..c : task'[d].pc # "idle"
PostsInOrder == \A q \in Posts : post[q].pc = "idle" /\ post'[q].pc # "idle" =>
                    \A p \in 1..q : post'[p].pc # "idle"

Next ==
    /\ \/ focus = "flags" /\ FlagsNext
          /\ UNCHANGED <<assistantVars, schemaVars, pointsVars, keyRowVars>>
       \/ focus = "assistant" /\ AssistantNext
          /\ UNCHANGED <<flagVars, schemaVars, pointsVars, keyRowVars>>
       \/ focus = "schema" /\ SchemaNext
          /\ UNCHANGED <<flagVars, assistantVars, pointsVars, keyRowVars>>
       \/ focus = "points" /\ PointsNext /\ InOrder
          /\ UNCHANGED <<flagVars, assistantVars, schemaVars, keyRowVars>>
       \/ focus = "keys" /\ KeyRowsNext /\ PostsInOrder
          /\ UNCHANGED <<flagVars, assistantVars, schemaVars, pointsVars>>
    /\ UNCHANGED focus

Spec == Init /\ [][Next]_vars

\* Each behaviour uses one of the sets of two, so they are given the same model values.
Sym == Permutations(Requests)

\* Every variable of the five components has its type.
TypesOK == FlagsTypeOK /\ AssistantTypeOK /\ SchemaTypeOK /\ PointsTypeOK /\ KeyRowsTypeOK
=============================================================================
