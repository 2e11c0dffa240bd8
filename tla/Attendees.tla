----------------------------- MODULE Attendees -----------------------------
(***************************************************************************)
(* The attendees table: profiles imported before the conference and bound  *)
(* to an account at its first login, the caller's own profile, the paged   *)
(* directory and the broadcast push.  An account is known by the sub and   *)
(* the email of its token; a sub is a uuid or, in one application, the     *)
(* email itself.                                                           *)
(***************************************************************************)
EXTENDS Integers, FiniteSets, Sequences, SequencesExt

CONSTANTS
    People,
    Tokens,         \* set of [sub : Ids, email : Ids \cup {NoId}]
    Members,        \* check-in ids
    Admins,         \* the tokens with a notification admin role
    PageLimit,      \* page size of a directory walk
    NoId, NoMember

Ids == People \X {"uuid", "email"}
EmailOf(p) == <<p, "email">>
IsUuid(id) == id # NoId /\ id[2] = "uuid"

ASSUME AttendeeAssumption ==
    /\ Tokens \subseteq [sub : Ids, email : Ids \cup {NoId}]
    /\ \A t \in Tokens : t.email \in {NoId, EmailOf(t.sub[1])}
    /\ Admins \subseteq Tokens /\ PageLimit \in Nat \ {0}
    /\ NoId \notin Ids /\ NoMember \notin Members

VARIABLES
    directory,      \* the rows in the order of (created_at, id), by the person of their email
    profile,        \* idp_uuid and member_id of each row
    walk,           \* one caller's walk through the pages of the directory
    pushed          \* recipients of the pushes handed to the notification service

attendeeVars == <<directory, profile, walk, pushed>>

NoWalk == [on |-> FALSE, done |-> FALSE, me |-> NoId, cursor |-> 0, begun |-> {}, seen |-> <<>>]

AttendeeInit ==
    /\ directory = <<>>
    /\ profile = [p \in People |-> [idp |-> NoId, member |-> NoMember]]
    /\ walk = NoWalk
    /\ pushed = {}

-----------------------------------------------------------------------------
Listed(p) == p \in Range(directory)
Claimed(p) == profile[p].idp # NoId

\* The row of the caller's email: what the profile and the caller's own row are read from.
GetByEmail(email) == {p \in Range(directory) : EmailOf(p) = email}
GetByUUID(id) == {p \in Range(directory) : profile[p].idp = id}

\* The check-in code is derived from the member id and shown to its owner only.
QRUri(email) == {profile[p].member : p \in GetByEmail(email)} \ {NoMember}

\* By idp_uuid, else by the sub as an email, else by the email claim; unclaimed rows are nobody.
ResolveUUID(sub, email) ==
    LET claimed(ids) == {p \in Range(directory) : Claimed(p) /\ ids[p]}
        byIdp   == claimed([p \in People |-> profile[p].idp = sub])
        bySub   == claimed([p \in People |-> EmailOf(p) = sub])
        byEmail == claimed([p \in People |-> EmailOf(p) = email])
        best    == IF byIdp # {} THEN byIdp ELSE IF bySub # {} THEN bySub ELSE byEmail
    IN  IF best = {} THEN NoId ELSE profile[CHOOSE p \in best : TRUE].idp

-----------------------------------------------------------------------------
(***************************************************************************)
(* Rows are imported, claimed and changed.                                 *)
(***************************************************************************)
\* The roster of registrations, loaded by hand: no account is bound yet.
Import(p, member) ==
    /\ ~Listed(p) /\ \A q \in People : profile[q].member = NoMember \/ profile[q].member # member
    /\ directory' = Append(directory, p)
    /\ profile' = [profile EXCEPT ![p].member = member]
    /\ UNCHANGED <<walk, pushed>>

\* Another row already has the account or the member id: the unique keys refuse the write.
TakenElsewhere(p, sub, member) ==
    \E q \in People \ {p} : profile[q].idp = sub \/ (member # NoMember /\ profile[q].member = member)

\* Mutant: an omitted member id erases the stored one.
InsertErasing(p, sub, member) ==
    /\ directory' = IF Listed(p) THEN directory ELSE Append(directory, p)
    /\ profile' = [profile EXCEPT ![p] = [idp |-> sub, member |-> member]]

\* The upsert: an omitted member id leaves the stored one.
Insert(p, sub, member) ==
    /\ directory' = IF Listed(p) THEN directory ELSE Append(directory, p)
    /\ profile' = [profile EXCEPT ![p] = [idp |-> sub, member |-> IF member = NoMember THEN @.member ELSE member]]

\* POST /attendees: identity from the token alone; only an unclaimed or the caller's own row is written.
CreateAttendee(t, member) ==
    /\ t.email # NoId
    /\ \E p \in People :
        /\ EmailOf(p) = t.email
        /\ profile[p].idp \in {NoId, t.sub}
        /\ ~TakenElsewhere(p, t.sub, member)
        /\ Insert(p, t.sub, member)
    /\ UNCHANGED <<walk, pushed>>

-----------------------------------------------------------------------------
(***************************************************************************)
(* POST /attendees/search: keyset pages over the claimed rows.             *)
(***************************************************************************)
\* What a caller is shown: claimed rows other than the one keyed by the caller's sub.
Visible(me) == {p \in Range(directory) : Claimed(p) /\ profile[p].idp # me}

\* The positions behind the cursor of the rows a caller is shown, and the first n of them.
After(me, cursor) == {i \in (cursor + 1)..Len(directory) : directory[i] \in Visible(me)}
Limit(n, rows) == {i \in rows : Cardinality({j \in rows : j < i}) < n}

\* Mutant: the cursor names the first row of the next page.
SearchPastTheEnd(me, cursor) ==
    LET rows == After(me, cursor)
        page == Limit(PageLimit, rows)
    IN  [items |-> {directory[i] : i \in page},
         next  |-> IF page = rows THEN 0 ELSE CHOOSE i \in rows \ page : \A j \in rows \ page : i <= j]

\* One row more than the page is read; the cursor is the position of the last item shown.
Search(me, cursor) ==
    LET rows == After(me, cursor)
        page == Limit(PageLimit, rows)
    IN  [items |-> {directory[i] : i \in page},
         next  |-> IF Cardinality(rows) > PageLimit THEN CHOOSE i \in page : \A j \in page : j <= i ELSE 0]

BeginWalk(t) ==
    /\ ~walk.on /\ ~walk.done
    /\ walk' = [NoWalk EXCEPT !.on = TRUE, !.me = t.sub, !.begun = Visible(t.sub)]
    /\ UNCHANGED <<directory, profile, pushed>>

NextPage ==
    LET page == Search(walk.me, walk.cursor)
    IN  /\ walk.on
        /\ walk' = [walk EXCEPT !.seen = Append(@, page.items), !.cursor = page.next,
                                !.on = page.next # 0, !.done = page.next = 0]
        /\ UNCHANGED <<directory, profile, pushed>>

-----------------------------------------------------------------------------
(***************************************************************************)
(* Push notifications.                                                     *)
(***************************************************************************)

\* The service reads a recipient that is neither uuid nor email as a group: only uuids are sent.
filterUUIDRecipients(ids) == {id \in ids : IsUuid(id)}

ListAllUUIDs == {profile[p].idp : p \in {q \in Range(directory) : Claimed(q)}}

\* No recipient, no request; a send that failed is not repeated.
Send(ids) ==
    LET to == filterUUIDRecipients(ids)
    IN  pushed' = IF to = {} THEN pushed ELSE pushed \cup {to}

\* requireNotificationAdmin, the recipients, one request for all of them.
Broadcast(t) ==
    /\ t \in Admins
    /\ Send(ListAllUUIDs)
    /\ pushed' # pushed
    /\ UNCHANGED <<directory, profile, walk>>

-----------------------------------------------------------------------------
AttendeeWrite ==
    \/ \E p \in People, m \in Members \cup {NoMember} : Import(p, m)
    \/ \E t \in Tokens, m \in Members \cup {NoMember} : CreateAttendee(t, m)

AttendeeStep ==
    \/ AttendeeWrite
    \/ \E t \in Tokens : BeginWalk(t) \/ Broadcast(t)
    \/ NextPage

AttendeeSpec == AttendeeInit /\ [][AttendeeStep]_attendeeVars

AttendeeTypeOK ==
    /\ directory \in Seq(People) /\ IsInjective(directory)
    /\ profile \in [People -> [idp : Ids \cup {NoId}, member : Members \cup {NoMember}]]
    /\ walk \in [on : BOOLEAN, done : BOOLEAN, me : Ids \cup {NoId}, cursor : Nat,
                 begun : SUBSET People, seen : Seq(SUBSET People)]
    /\ pushed \subseteq SUBSET Ids

\* While rows are imported and claimed between the pages of a walk, nobody is shown twice, no row is
\* shown that is bound to the sub of the caller's token, and everyone the caller could see when the
\* walk began has been shown when it ends.  A caller whose sub has the other form than its row is
\* bound to does meet its own row, see OwnRowNotShown.
WalkIsComplete ==
    /\ \A i, j \in DOMAIN walk.seen : i # j => walk.seen[i] \cap walk.seen[j] = {}
    /\ \A i \in DOMAIN walk.seen : \A p \in walk.seen[i] : profile[p].idp # walk.me
    /\ walk.done => \A p \in walk.begun : \E i \in DOMAIN walk.seen : p \in walk.seen[i]

\* attendee_profile.go:322 says of the id a search leaves out that it is "(the caller's own row)":
\* no page shows a caller the row of its own email.
OwnRowNotShown == \A i \in DOMAIN walk.seen : walk.me[1] \notin walk.seen[i]

\* A push names a uuid some attendee is bound to, and nothing the service would read as a group.
PushesReachAttendees ==
    \A to \in pushed : \A id \in to : IsUuid(id) /\ \E p \in Range(directory) : profile[p].idp = id

\* A claimed row stays with its account and no row loses the member id its check-in code is made of.
RowsKept ==
    [][\A p \in People : /\ Claimed(p) => profile'[p].idp = profile[p].idp
                         /\ profile[p].member # NoMember => profile'[p].member # NoMember]_profile

\* Whoever is bound to an account is reached by a push and by a walk of anybody who came with
\* another sub, and stays bound to it.
DirectorySafety == [](WalkIsComplete /\ PushesReachAttendees) /\ RowsKept
=============================================================================
