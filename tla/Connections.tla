---------------------------- MODULE Connections ----------------------------
(***************************************************************************)
(* Connections between attendees: one row for a pair, pending until its    *)
(* addressee accepts it, gone when either party deletes it.  A call first  *)
(* works out which identities its caller answers to, then acts on the      *)
(* table, then notifies and describes the other party after the commit.    *)
(***************************************************************************)
EXTENDS Attendees

CONSTANTS
    Calls,          \* concurrent calls of /users/me/connections
    MaxRows,        \* bound: rows ever inserted
    MaxBegun,       \* bound: calls ever begun
    NoRow, NoToken

ASSUME ConnectionAssumption == MaxRows \in Nat /\ MaxBegun \in Nat /\ NoToken \notin Tokens

VARIABLES
    connection,     \* user_connection, by row id
    rows,           \* row ids handed out
    call, begun,
    consented,      \* history: <<p, q>>, p asked q or accepted q's request
    disclosed       \* history: <<p, q>>, p was shown the email address of q

connectionVars == <<attendeeVars, connection, rows, call, begun, consented, disclosed>>
connectionOnly == <<connection, rows, call, begun, consented, disclosed>>

Idle == [pc |-> "idle", token |-> NoToken, canonical |-> NoId, target |-> NoId, id |-> 0, row |-> NoRow]

ConnectionInit ==
    /\ AttendeeInit
    /\ connection = [i \in 1..MaxRows |-> NoRow]
    /\ rows = 0 /\ begun = 0
    /\ call = [c \in Calls |-> Idle]
    /\ consented = {} /\ disclosed = {}

-----------------------------------------------------------------------------
Live == {i \in 1..MaxRows : connection[i] # NoRow}

\* Every form the caller may be stored under.
Aliases(canonical, t) == {canonical, t.sub, t.email} \ {NoId}
Matches(c, id) == id \in Aliases(call[c].canonical, call[c].token)

Person(t) == t.sub[1]

\* Whichever party of the row is not the caller, if the caller is one.
OtherFor(aliases, row) == IF row.requester \in aliases THEN row.addressee ELSE row.requester

PairOf(a, b) == {i \in Live : {connection[i].requester, connection[i].addressee} = {a, b}}

\* The attendee a stored party names, by idp_uuid or by email.
Named(id) == {p \in Range(directory) : Claimed(p) /\ (profile[p].idp = id \/ EmailOf(p) = id)}

\* GET /users/me/connections: each row under any of the caller's forms, with the attendee on its other
\* side; rows whose other side names nobody are left out, pending rows keep the address.
Get(canonical, t) ==
    LET mine == Aliases(canonical, t)
        item(i, p) ==
            [id |-> i, person |-> p,
             bucket |-> CASE connection[i].state = "accepted" -> "connections"
                          [] connection[i].state = "pending" /\ connection[i].requester \in mine -> "sent"
                          [] OTHER -> "received",
             email |-> connection[i].state = "accepted"]
        joined == {x \in Live \X People :
                    /\ {connection[x[1]].requester, connection[x[1]].addressee} \cap mine # {}
                    /\ x[2] \in Named(OtherFor(mine, connection[x[1]]))}
    IN  {item(x[1], x[2]) : x \in joined}

\* The idp_uuid of the caller; the raw sub when there is none or the lookup failed.
callerIdentity(t, failed) ==
    LET uuid == ResolveUUID(t.sub, t.email)
    IN  IF failed \/ uuid = NoId THEN t.sub ELSE uuid

Answer(c) == call' = [call EXCEPT ![c] = Idle]

-----------------------------------------------------------------------------
(***************************************************************************)
(* The calls.                                                              *)
(***************************************************************************)
\* Target is an id for a request, the number of a row for an accept or a delete.
Begin(c, t, op, target, id, failed) ==
    /\ call[c].pc = "idle" /\ begun < MaxBegun /\ begun' = begun + 1
    /\ call' = [call EXCEPT ![c] = [pc |-> op, token |-> t, canonical |-> callerIdentity(t, failed),
                                    target |-> target, id |-> id, row |-> NoRow]]
    /\ UNCHANGED <<attendeeVars, connection, rows, consented, disclosed>>

\* The target must be an attendee; a row of the pair, in either direction, is left as it is.
Request(c) ==
    LET me == call[c].canonical
        to == call[c].target
        row == [requester |-> me, addressee |-> to, state |-> "pending"]
    IN  /\ call[c].pc = "request"
        /\ IF me = to \/ GetByUUID(to) = {} THEN Answer(c) /\ UNCHANGED <<connection, rows, consented>>
           ELSE IF PairOf(me, to) = {}
                THEN /\ rows < MaxRows
                     /\ rows' = rows + 1
                     /\ connection' = [connection EXCEPT ![rows + 1] = row]
                     /\ consented' = consented \cup {<<Person(call[c].token), to[1]>>}
                     /\ call' = [call EXCEPT ![c].pc = "describe", ![c].row = row]
                ELSE call' = [call EXCEPT ![c].pc = "reread"] /\ UNCHANGED <<connection, rows, consented>>
        /\ UNCHANGED <<attendeeVars, begun, disclosed>>

\* The row that was in the way is read; if it was deleted meanwhile the call fails.
Reread(c) ==
    LET found == PairOf(call[c].canonical, call[c].target)
    IN  /\ call[c].pc = "reread"
        /\ IF found = {} THEN Answer(c)
           ELSE \E i \in found : call' = [call EXCEPT ![c].pc = "describe", ![c].row = connection[i]]
        /\ UNCHANGED <<attendeeVars, begun, connection, rows, consented, disclosed>>

\* Mutant: either party may accept.
AcceptByEither(c, i) ==
    {connection[i].requester, connection[i].addressee} \cap Aliases(call[c].canonical, call[c].token) # {}

AcceptedBy(c, i) == Matches(c, connection[i].addressee)

\* One guarded update decides: still there, still pending, and the caller its addressee.
Accept(c) ==
    LET i == call[c].id
    IN  /\ call[c].pc = "accept"
        /\ IF connection[i] # NoRow /\ connection[i].state = "pending" /\ AcceptedBy(c, i)
           THEN /\ connection' = [connection EXCEPT ![i].state = "accepted"]
                /\ call' = [call EXCEPT ![c].pc = "describe", ![c].row = connection'[i]]
                /\ consented' = consented \cup
                        {<<Person(call[c].token), OtherFor({connection[i].addressee}, connection[i])[1]>>}
           ELSE call' = [call EXCEPT ![c].pc = "why"] /\ UNCHANGED <<connection, consented>>
        /\ UNCHANGED <<attendeeVars, begun, rows, disclosed>>

\* The row is read again, only to choose between not found, forbidden and no longer pending.
ExplainRefusal(c) ==
    /\ call[c].pc = "why"
    /\ Answer(c)
    /\ UNCHANGED <<attendeeVars, begun, connection, rows, consented, disclosed>>

\* Decline, withdraw and remove: either party, in any state, and nobody is notified.
Delete(c) ==
    LET i == call[c].id
    IN  /\ call[c].pc = "delete"
        /\ Answer(c)
        /\ connection' = IF connection[i] # NoRow
                            /\ (Matches(c, connection[i].requester) \/ Matches(c, connection[i].addressee))
                         THEN [connection EXCEPT ![i] = NoRow] ELSE connection
        /\ UNCHANGED <<attendeeVars, begun, rows, consented, disclosed>>

\* The address is released once the pair is connected.
shownEmail(row, p) == IF row.state = "accepted" THEN {EmailOf(p)} ELSE {}

\* After the commit: the push to the other party and the profile in the answer; either may fail.
Describe(c) ==
    LET t == call[c].token
        row == call[c].row
        other == OtherFor(Aliases(call[c].canonical, t), row)
        uuid == ResolveUUID(other, NoId)
        to == IF uuid = NoId THEN other ELSE uuid
    IN  /\ call[c].pc = "describe"
        /\ Answer(c)
        /\ \/ pushed' = pushed
           \/ uuid # NoId /\ Send({uuid})
        /\ \/ disclosed' = disclosed
           \/ disclosed' = disclosed \cup
                {<<Person(t), p>> : p \in {q \in GetByUUID(to) : shownEmail(row, q) # {}}}
        /\ UNCHANGED <<directory, profile, walk, connection, rows, begun, consented>>

ReadConnections(t, failed) ==
    /\ disclosed' = disclosed \cup
            {<<Person(t), v.person>> : v \in {w \in Get(callerIdentity(t, failed), t) : w.email}}
    /\ disclosed' # disclosed
    /\ UNCHANGED <<attendeeVars, connection, rows, call, begun, consented>>

-----------------------------------------------------------------------------
ConnectionNext ==
    \/ AttendeeWrite /\ UNCHANGED connectionOnly
    \/ \E c \in Calls, t \in Tokens, failed \in BOOLEAN :
        \/ \E to \in Ids : Begin(c, t, "request", to, 0, failed)
        \/ \E op \in {"accept", "delete"}, i \in 1..rows : Begin(c, t, op, NoId, i, failed)
    \/ \E c \in Calls : Request(c) \/ Reread(c) \/ Accept(c) \/ ExplainRefusal(c) \/ Delete(c) \/ Describe(c)
    \/ \E t \in Tokens, failed \in BOOLEAN : ReadConnections(t, failed)

ConnectionSpec == ConnectionInit /\ [][ConnectionNext]_connectionVars

-----------------------------------------------------------------------------
RowType == [requester : Ids, addressee : Ids, state : {"pending", "accepted"}]

\* Every variable has its type, the attendees' included.
ConnectionTypeOK ==
    /\ AttendeeTypeOK
    /\ connection \in [1..MaxRows -> RowType \cup {NoRow}]
    /\ rows \in 0..MaxRows /\ begun \in 0..MaxBegun
    /\ call \in [Calls -> [pc : {"idle", "request", "reread", "accept", "why", "delete", "describe"},
                           token : Tokens \cup {NoToken}, canonical : Ids \cup {NoId},
                           target : Ids \cup {NoId}, id : 0..MaxRows, row : RowType \cup {NoRow}]]
    /\ consented \subseteq People \X People /\ disclosed \subseteq People \X People

\* Nobody is shown another attendee's email address unless that attendee asked for the connection or
\* accepted it, whatever requests, accepts and deletes of the pair overlap.
DisclosedWithConsent ==
    \A d \in disclosed : d[1] # d[2] => <<d[2], d[1]>> \in consented

\* An accept that found nothing to update while the caller is the addressee of a row that is still
\* there was too late: the row is accepted, which is what the 409 tells.
RefusalIsTrue ==
    \A c \in Calls :
        LET i == call[c].id
        IN  call[c].pc = "why" /\ connection[i] # NoRow /\ Matches(c, connection[i].addressee) =>
                connection[i].state = "accepted" \/ Matches(c, connection[i].requester)

\* A row between two attendees who are known is in the listing of both, in the bucket that fits its
\* state and direction, under whichever token they read it and whichever form it was stored under.
BothSidesSeeTheRow ==
    \A i \in Live : \A p \in Named(connection[i].requester), q \in Named(connection[i].addressee) :
        p # q => \A t \in Tokens : t.email # NoId /\ Person(t) \in {p, q} =>
            LET other == IF Person(t) = p THEN q ELSE p
                seen == {v \in Get(callerIdentity(t, FALSE), t) : v.id = i}
            IN  /\ {v.person : v \in seen} = {other}
                /\ {v.bucket : v \in seen} =
                    {IF connection[i].state = "accepted" THEN "connections"
                     ELSE IF Person(t) = p THEN "sent" ELSE "received"}

\* What the two parties of a row are told of it, and of each other.
ConnectionSafety == DisclosedWithConsent /\ RefusalIsTrue /\ BothSidesSeeTheRow
=============================================================================
