-------------------------- MODULE ConferenceProofs --------------------------
(***************************************************************************)
(* What attendees meet, proved for any attendees, tokens, codes, scans,    *)
(* visits and syncs.                                                       *)
(*                                                                         *)
(*   DirectoryIsSafe     walks through the directory miss nobody, pushes   *)
(*                       reach attendees, claimed rows keep their account  *)
(*   ConnectionsAreSafe  addresses are shown with consent, refusals are    *)
(*                       true and both sides see a row                     *)
(*   CoinsAreSafe        a code pays an attendee once, and every view of   *)
(*                       the coins adds up to what was paid                *)
(*   DesksAreSafe        a rescan is refused, the counts are of what was   *)
(*                       scanned and a sync that ran alone is the sheet    *)
(*   ConnectionsTyped, CoinsTyped, DesksTyped, AttendeesTyped              *)
(*                       every variable has its type, in each of them and  *)
(*                       in what MCAttendees composes                      *)
(***************************************************************************)
EXTENDS MCAttendees, SumTheorems

-----------------------------------------------------------------------------
(***************************************************************************)
(* The directory.  Rows keep their positions, a claimed row keeps its      *)
(* account, and an account is of the person whose row it claims.           *)
(***************************************************************************)
ProfileRecord == [idp : Ids \cup {NoId}, member : Members \cup {NoMember}]
WalkRecord ==
    [on : BOOLEAN, done : BOOLEAN, me : Ids \cup {NoId}, cursor : Nat,
     begun : SUBSET People, seen : Seq(SUBSET People)]

OwnAccounts ==
    \A p \in People : /\ Claimed(p) => profile[p].idp[1] = p
                      /\ ~Listed(p) => profile[p].member = NoMember

DirectoryInv == AttendeeTypeOK /\ OwnAccounts /\ PushesReachAttendees

\* p is the row at a position up to n.
UpTo(n, p) == \E i \in 1..Len(directory) : i <= n /\ directory[i] = p
SeenBy(p) == \E k \in 1..Len(walk.seen) : p \in walk.seen[k]

\* Up to its cursor a walk has shown whom it had to, and nobody else.
WalkInv ==
    /\ walk.on => ~walk.done /\ walk.me \in Ids
    /\ ~walk.on /\ ~walk.done => walk.seen = <<>>
    /\ \A k \in 1..Len(walk.seen) : \A p \in walk.seen[k] :
         /\ Claimed(p) /\ profile[p].idp # walk.me
         /\ walk.on => UpTo(walk.cursor, p)
    /\ \A j, k \in 1..Len(walk.seen) : j # k => walk.seen[j] \cap walk.seen[k] = {}
    /\ walk.on => walk.begun \subseteq Visible(walk.me)
    /\ walk.on => \A p \in walk.begun : UpTo(walk.cursor, p) => SeenBy(p)
    /\ walk.done => \A p \in walk.begun : SeenBy(p)

AttendeeInv == DirectoryInv /\ WalkInv

\* The first n of a set of positions: some, if there are any, and all, if there are no more.
LEMMA LimitIs ==
    ASSUME NEW found, IsFiniteSet(found), found \subseteq Nat, NEW n \in Nat \ {0}
    PROVE  /\ Limit(n, found) \subseteq found
           /\ \A i \in Limit(n, found), j \in found : j < i => j \in Limit(n, found)
           /\ Cardinality(found) <= n => Limit(n, found) = found
           /\ found # {} => Limit(n, found) # {}
<1> DEFINE Below(i) == {j \in found : j < i}
<1>1. \A i : IsFiniteSet(Below(i)) /\ Cardinality(Below(i)) \in Nat
  <2> TAKE i
  <2>1. Below(i) \in SUBSET found
    OBVIOUS
  <2> QED BY <2>1, FS_Subset, FS_CardinalityType
<1>2. \A i : i \in Limit(n, found) <=> i \in found /\ Cardinality(Below(i)) < n
  BY DEF Limit
<1>3. ASSUME NEW i \in Limit(n, found), NEW j \in found, j < i PROVE j \in Limit(n, found)
  <2>1. i \in Nat /\ j \in Nat
    BY <1>2
  <2>2. Below(j) \in SUBSET Below(i)
    <3>1. \A k \in found : k < j => k < i
      BY <1>3, <2>1
    <3> QED BY <3>1
  <2>3. Cardinality(Below(j)) <= Cardinality(Below(i))
    BY <1>1, <2>2, FS_Subset
  <2> HIDE DEF Below
  <2> QED BY <1>1, <1>2, <2>3
<1>4. ASSUME Cardinality(found) <= n PROVE Limit(n, found) = found
  <2> SUFFICES ASSUME NEW i \in found PROVE Cardinality(Below(i)) < n
    BY <1>2
  <2>1. i \in Nat
    OBVIOUS
  <2>2. Below(i) \in SUBSET (found \ {i})
    BY <2>1
  <2>3. IsFiniteSet(found \ {i}) /\ Cardinality(found \ {i}) = Cardinality(found) - 1
    BY FS_RemoveElement
  <2>4. Cardinality(Below(i)) <= Cardinality(found \ {i})
    BY <2>2, <2>3, FS_Subset
  <2>5. Cardinality(found) \in Nat
    BY FS_CardinalityType
  <2> HIDE DEF Below
  <2> QED BY <1>1, <1>4, <2>3, <2>4, <2>5
<1>5. ASSUME found # {} PROVE Limit(n, found) # {}
  <2>1. PICK i \in found : \A d \in found : i <= d
    BY <1>5, SmallestNumber
  <2>2. Below(i) = {}
    <3>1. \A d \in found : ~(d < i)
      BY <2>1
    <3> QED BY <3>1
  <2>3. Cardinality(Below(i)) = 0
    BY <2>2, FS_EmptySet
  <2> QED BY <1>2, <2>3
<1> QED BY <1>2, <1>3, <1>4, <1>5

\* What an import or a claim does to the rows.
RowsGrow ==
    /\ directory \in Seq(People) /\ directory' \in Seq(People) /\ IsInjective(directory')
    /\ Len(directory) <= Len(directory')
    /\ \A i \in 1..Len(directory) : directory'[i] = directory[i]
    /\ profile' \in [People -> ProfileRecord]
    /\ \A p \in People : /\ Claimed(p) => profile'[p].idp = profile[p].idp
                         /\ profile[p].member # NoMember => profile'[p].member # NoMember

LEMMA GrownRange ==
    ASSUME directory \in Seq(People), directory' \in Seq(People), NEW p \in People,
           directory' = Append(directory, p) \/ (p \in Range(directory) /\ directory' = directory)
    PROVE  Range(directory') = Range(directory) \cup {p}
<1>1. DOMAIN directory = 1..Len(directory) /\ DOMAIN directory' = 1..Len(directory') /\ Len(directory) \in Nat
  OBVIOUS
<1>2. CASE directory' = Append(directory, p)
  <2>1. Len(directory') = Len(directory) + 1 /\ directory'[Len(directory) + 1] = p
        /\ \A i \in 1..Len(directory) : directory'[i] = directory[i]
    BY <1>2
  <2>2. \A i \in 1..Len(directory') : i \in 1..Len(directory) \/ i = Len(directory) + 1
    BY <1>1, <2>1
  <2>3. Len(directory) + 1 \in 1..Len(directory') /\ \A i \in 1..Len(directory) : i \in 1..Len(directory')
    BY <1>1, <2>1
  <2> QED BY <1>1, <2>1, <2>2, <2>3 DEF Range
<1>3. CASE p \in Range(directory) /\ directory' = directory
  BY <1>3
<1> QED BY <1>2, <1>3

LEMMA GrownMembers ==
    ASSUME RowsGrow, NEW p \in Range(directory) PROVE p \in People /\ p \in Range(directory')
<1>1. DOMAIN directory = 1..Len(directory) /\ DOMAIN directory' = 1..Len(directory')
      /\ Len(directory) \in Nat /\ Len(directory') \in Nat
  BY DEF RowsGrow
<1>2. PICK i \in 1..Len(directory) : directory[i] = p
  BY <1>1 DEF Range
<1>3. i \in 1..Len(directory') /\ directory'[i] = p
  BY <1>1, <1>2 DEF RowsGrow
<1> QED BY <1>1, <1>2, <1>3 DEF Range, RowsGrow

LEMMA DirectoryGrows ==
    ASSUME AttendeeTypeOK, NEW p \in People,
           directory' = (IF Listed(p) THEN directory ELSE Append(directory, p))
    PROVE  /\ directory \in Seq(People) /\ directory' \in Seq(People) /\ IsInjective(directory')
           /\ Len(directory) <= Len(directory')
           /\ \A i \in 1..Len(directory) : directory'[i] = directory[i]
<1>1. directory \in Seq(People) /\ IsInjective(directory) /\ DOMAIN directory = 1..Len(directory)
      /\ Len(directory) \in Nat
  BY DEF AttendeeTypeOK
<1>2. CASE Listed(p)
  BY <1>1, <1>2
<1>3. CASE ~Listed(p)
  <2>1. /\ directory' \in Seq(People) /\ Len(directory') = Len(directory) + 1
        /\ directory'[Len(directory) + 1] = p /\ DOMAIN directory' = 1..Len(directory')
        /\ \A i \in 1..Len(directory) : directory'[i] = directory[i]
    BY <1>1, <1>3
  <2>2. \A i \in 1..Len(directory) : directory[i] # p
    BY <1>1, <1>3 DEF Listed, Range
  <2>3. IsInjective(directory')
    <3> SUFFICES ASSUME NEW i \in 1..Len(directory'), NEW j \in 1..Len(directory'),
                        directory'[i] = directory'[j]
                 PROVE  i = j
      BY <2>1 DEF IsInjective
    <3>1. (i \in 1..Len(directory) \/ i = Len(directory) + 1) /\ (j \in 1..Len(directory) \/ j = Len(directory) + 1)
      BY <1>1, <2>1
    <3>2. CASE i \in 1..Len(directory) /\ j \in 1..Len(directory)
      BY <1>1, <2>1, <3>2 DEF IsInjective
    <3>3. CASE ~(i \in 1..Len(directory) /\ j \in 1..Len(directory))
      BY <2>1, <2>2, <3>1, <3>3
    <3> QED BY <3>2, <3>3
  <2> QED BY <1>1, <2>1, <2>3
<1> QED BY <1>2, <1>3

LEMMA ImportGrows ==
    ASSUME AttendeeTypeOK, OwnAccounts, NEW p \in People, NEW m \in Members \cup {NoMember}, Import(p, m)
    PROVE  RowsGrow /\ OwnAccounts' /\ UNCHANGED <<walk, pushed>>
<1>1. /\ ~Listed(p) /\ directory' = Append(directory, p)
      /\ profile' = [profile EXCEPT ![p].member = m] /\ UNCHANGED <<walk, pushed>>
  BY DEF Import
<1>2. profile \in [People -> ProfileRecord]
  BY DEF AttendeeTypeOK, ProfileRecord
<1> DEFINE r == profile[p]
           q == [r EXCEPT !.member = m]
<1>3. profile' = [profile EXCEPT ![p] = q] /\ r \in ProfileRecord
  BY <1>1, <1>2
<1> HIDE DEF r
<1>4. q \in ProfileRecord /\ q.idp = r.idp /\ q.member = m
  BY <1>3 DEF ProfileRecord
<1> HIDE DEF q
<1>5. /\ profile' \in [People -> ProfileRecord] /\ profile'[p] = q
      /\ \A k \in People : k # p => profile'[k] = profile[k]
  BY <1>2, <1>3, <1>4
<1>6. \A k \in People : profile'[k].idp = profile[k].idp
  BY <1>4, <1>5 DEF r
<1>7. /\ directory \in Seq(People) /\ directory' \in Seq(People) /\ IsInjective(directory')
      /\ Len(directory) <= Len(directory')
      /\ \A i \in 1..Len(directory) : directory'[i] = directory[i]
  BY <1>1, DirectoryGrows
<1>8. Range(directory') = Range(directory) \cup {p}
  BY <1>1, <1>7, GrownRange
<1>9. OwnAccounts'
  <2> SUFFICES ASSUME NEW k \in People
               PROVE  /\ Claimed(k)' => profile'[k].idp[1] = k
                      /\ ~Listed(k)' => profile'[k].member = NoMember
    BY DEF OwnAccounts
  <2>1. Claimed(k)' => profile'[k].idp[1] = k
    BY <1>6 DEF OwnAccounts, Claimed
  <2>2. ~Listed(k)' => profile'[k].member = NoMember
    BY <1>5, <1>8 DEF OwnAccounts, Listed
  <2> QED BY <2>1, <2>2
<1>10. ASSUME NEW k \in People, profile[k].member # NoMember PROVE profile'[k].member # NoMember
  <2>1. k # p
    BY <1>1, <1>10 DEF OwnAccounts
  <2> QED BY <1>5, <1>10, <2>1
<1> QED BY <1>1, <1>5, <1>6, <1>7, <1>9, <1>10 DEF RowsGrow

LEMMA CreateGrows ==
    ASSUME AttendeeTypeOK, OwnAccounts, NEW t \in Tokens, NEW m \in Members \cup {NoMember},
           CreateAttendee(t, m)
    PROVE  RowsGrow /\ OwnAccounts' /\ UNCHANGED <<walk, pushed>>
<1>1. PICK p \in People : /\ EmailOf(p) = t.email /\ profile[p].idp \in {NoId, t.sub}
                          /\ Insert(p, t.sub, m) /\ t.email # NoId /\ UNCHANGED <<walk, pushed>>
  BY DEF CreateAttendee
<1>2. t.sub \in Ids /\ t.sub[1] = p
  BY <1>1, AttendeeAssumption DEF EmailOf, Ids
<1>3. profile \in [People -> ProfileRecord]
  BY DEF AttendeeTypeOK, ProfileRecord
<1> DEFINE n == [idp |-> t.sub, member |-> IF m = NoMember THEN profile[p].member ELSE m]
<1>4. profile' = [profile EXCEPT ![p] = n]
  BY <1>1, <1>3 DEF Insert
<1>5. n \in ProfileRecord /\ n.idp = t.sub /\ (profile[p].member # NoMember => n.member # NoMember)
  BY <1>2, <1>3 DEF ProfileRecord
<1> HIDE DEF n
<1>6. /\ profile' \in [People -> ProfileRecord] /\ profile'[p] = n
      /\ \A k \in People : k # p => profile'[k] = profile[k]
  BY <1>3, <1>4, <1>5
<1>7. directory' = IF Listed(p) THEN directory ELSE Append(directory, p)
  BY <1>1 DEF Insert
<1>8. /\ directory \in Seq(People) /\ directory' \in Seq(People) /\ IsInjective(directory')
      /\ Len(directory) <= Len(directory')
      /\ \A i \in 1..Len(directory) : directory'[i] = directory[i]
  BY <1>7, DirectoryGrows
<1>9. Range(directory') = Range(directory) \cup {p}
  BY <1>7, <1>8, GrownRange DEF Listed
<1>10. OwnAccounts'
  <2> SUFFICES ASSUME NEW k \in People
               PROVE  /\ Claimed(k)' => profile'[k].idp[1] = k
                      /\ ~Listed(k)' => profile'[k].member = NoMember
    BY DEF OwnAccounts
  <2>1. CASE k = p
    BY <1>2, <1>5, <1>6, <1>9, <2>1 DEF Listed
  <2>2. CASE k # p
    BY <1>6, <1>9, <2>2 DEF OwnAccounts, Listed, Claimed
  <2> QED BY <2>1, <2>2
<1>11. ASSUME NEW k \in People
       PROVE  /\ Claimed(k) => profile'[k].idp = profile[k].idp
              /\ profile[k].member # NoMember => profile'[k].member # NoMember
  <2>1. CASE k = p
    BY <1>1, <1>5, <1>6, <2>1 DEF Claimed
  <2>2. CASE k # p
    BY <1>6, <2>2
  <2> QED BY <2>1, <2>2
<1> QED BY <1>1, <1>6, <1>8, <1>10, <1>11 DEF RowsGrow

LEMMA WritesGrow ==
    ASSUME AttendeeTypeOK, OwnAccounts, AttendeeWrite
    PROVE  RowsGrow /\ OwnAccounts' /\ UNCHANGED <<walk, pushed>>
  BY ImportGrows, CreateGrows DEF AttendeeWrite

\* Growing rows, or unchanged ones, keep what the pushes and the walk rest on.
LEMMA GrowthKeepsDirectory ==
    ASSUME DirectoryInv, RowsGrow, OwnAccounts', UNCHANGED <<walk, pushed>> PROVE DirectoryInv'
<1>1. AttendeeTypeOK'
  BY DEF DirectoryInv, AttendeeTypeOK, RowsGrow, ProfileRecord
<1>2. PushesReachAttendees'
  <2> SUFFICES ASSUME NEW to \in pushed, NEW id \in to
               PROVE  IsUuid(id) /\ \E p \in Range(directory') : profile'[p].idp = id
    BY DEF PushesReachAttendees
  <2>1. IsUuid(id) /\ \E p \in Range(directory) : profile[p].idp = id
    BY DEF DirectoryInv, PushesReachAttendees
  <2>2. PICK p \in Range(directory) : profile[p].idp = id
    BY <2>1
  <2>3. p \in People /\ p \in Range(directory')
    BY GrownMembers
  <2>4. Claimed(p)
    BY <2>1, <2>2 DEF Claimed, IsUuid
  <2> QED BY <2>1, <2>2, <2>3, <2>4 DEF RowsGrow
<1> QED BY <1>1, <1>2 DEF DirectoryInv

\* A push to accounts that rows are claimed by.
LEMMA SendKeeps ==
    ASSUME DirectoryInv, NEW ids, Send(ids), UNCHANGED <<directory, profile, walk>>,
           \A id \in ids : id # NoId /\ \E p \in Range(directory) : profile[p].idp = id
    PROVE  DirectoryInv'
<1> DEFINE to == filterUUIDRecipients(ids)
<1>1. pushed' = pushed \/ pushed' = pushed \cup {to}
  BY DEF Send
<1>2. Range(directory) \subseteq People
  BY DEF DirectoryInv, AttendeeTypeOK, Range
<1>3. \A id \in to : IsUuid(id) /\ id \in Ids /\ \E p \in Range(directory) : profile[p].idp = id
  BY <1>2 DEF filterUUIDRecipients, DirectoryInv, AttendeeTypeOK
<1> HIDE DEF to
<1>4. AttendeeTypeOK'
  BY <1>1, <1>3 DEF DirectoryInv, AttendeeTypeOK
<1>5. PushesReachAttendees'
  BY <1>1, <1>3 DEF DirectoryInv, PushesReachAttendees
<1>6. OwnAccounts'
  BY DEF DirectoryInv, OwnAccounts, Claimed, Listed
<1> QED BY <1>4, <1>5, <1>6 DEF DirectoryInv

LEMMA BroadcastKeeps == ASSUME DirectoryInv, NEW t \in Tokens, Broadcast(t) PROVE DirectoryInv'
<1>1. Send(ListAllUUIDs) /\ UNCHANGED <<directory, profile, walk>>
  BY DEF Broadcast
<1>2. \A id \in ListAllUUIDs : id # NoId /\ \E p \in Range(directory) : profile[p].idp = id
  BY DEF ListAllUUIDs, Claimed
<1> QED BY <1>1, <1>2, SendKeeps

\* A step that leaves the walk: the rows it rests on only grow.
LEMMA GrowthKeepsWalk ==
    ASSUME DirectoryInv, WalkInv, RowsGrow, walk' = walk PROVE WalkInv'
<1>1. DOMAIN directory = 1..Len(directory) /\ DOMAIN directory' = 1..Len(directory')
      /\ Len(directory) \in Nat /\ Len(directory') \in Nat /\ walk \in WalkRecord
  BY DEF RowsGrow, DirectoryInv, AttendeeTypeOK, WalkRecord
<1>2. walk.seen \in Seq(SUBSET People) /\ walk.cursor \in Nat
  BY <1>1 DEF WalkRecord
<1>3. \A k \in 1..Len(walk.seen) : walk.seen[k] \subseteq People
  BY <1>2
<1>4. \A p \in People : Claimed(p) => Claimed(p)' /\ profile'[p].idp = profile[p].idp
  BY DEF RowsGrow, Claimed
<1>5. ASSUME NEW p, NEW n \in Nat, UpTo(n, p) PROVE UpTo(n, p)'
  <2>1. PICK i \in 1..Len(directory) : i <= n /\ directory[i] = p
    BY <1>5 DEF UpTo
  <2>2. i \in 1..Len(directory') /\ directory'[i] = p
    BY <1>1, <2>1 DEF RowsGrow
  <2> QED BY <2>1, <2>2 DEF UpTo
<1>6. ASSUME walk.on PROVE walk.begun \subseteq Visible(walk.me)'
  <2> SUFFICES ASSUME NEW p \in walk.begun PROVE p \in Visible(walk.me)'
    OBVIOUS
  <2>1. p \in Range(directory) /\ Claimed(p) /\ profile[p].idp # walk.me
    BY <1>6 DEF WalkInv, Visible
  <2>2. p \in People /\ p \in Range(directory')
    BY <2>1, GrownMembers
  <2> QED BY <1>4, <2>1, <2>2 DEF Visible
<1>7. ASSUME walk.on, NEW p \in walk.begun, UpTo(walk.cursor, p)' PROVE UpTo(walk.cursor, p)
  <2>1. p \in Range(directory)
    BY <1>7 DEF WalkInv, Visible
  <2>2. PICK j \in 1..Len(directory) : directory[j] = p
    BY <1>1, <2>1 DEF Range
  <2>3. PICK i \in 1..Len(directory') : i <= walk.cursor /\ directory'[i] = p
    BY <1>7 DEF UpTo
  <2>4. j \in 1..Len(directory') /\ directory'[j] = p
    BY <1>1, <2>2 DEF RowsGrow
  <2>5. i = j
    BY <1>1, <2>3, <2>4 DEF RowsGrow, IsInjective
  <2> QED BY <2>2, <2>3, <2>5 DEF UpTo
<1>8. \A p : SeenBy(p) => SeenBy(p)'
  BY DEF SeenBy
<1>9. \A k \in 1..Len(walk.seen) : \A p \in walk.seen[k] :
        /\ Claimed(p)' /\ profile'[p].idp # walk.me
        /\ walk.on => UpTo(walk.cursor, p)'
  BY <1>2, <1>3, <1>4, <1>5 DEF WalkInv
<1>10. walk.on => \A p \in walk.begun : UpTo(walk.cursor, p)' => SeenBy(p)'
  BY <1>7, <1>8 DEF WalkInv
<1> QED BY <1>6, <1>8, <1>9, <1>10 DEF WalkInv

\* Nothing but the pushes changes.
LEMMA RowsStay ==
    ASSUME AttendeeTypeOK, UNCHANGED <<directory, profile>> PROVE RowsGrow
  BY DEF AttendeeTypeOK, RowsGrow, ProfileRecord

LEMMA VisiblePeople == ASSUME AttendeeTypeOK, NEW me PROVE Visible(me) \subseteq People
  BY DEF AttendeeTypeOK, Visible, Range

LEMMA BeginWalkKeeps == ASSUME AttendeeInv, NEW t \in Tokens, BeginWalk(t) PROVE AttendeeInv'
<1> DEFINE w == [on |-> TRUE, done |-> FALSE, me |-> t.sub, cursor |-> 0, begun |-> Visible(t.sub),
                 seen |-> <<>>]
<1>1. walk' = w /\ UNCHANGED <<directory, profile, pushed>>
  BY DEF BeginWalk, NoWalk
<1>2. t.sub \in Ids /\ AttendeeTypeOK
  BY AttendeeAssumption DEF AttendeeInv, DirectoryInv
<1>3. w \in WalkRecord
  <2>1. <<>> \in Seq(SUBSET People) /\ Visible(t.sub) \in SUBSET People /\ 0 \in Nat
    BY <1>2, VisiblePeople
  <2> QED BY <1>2, <2>1 DEF WalkRecord
<1>4. DirectoryInv'
  <2>1. AttendeeTypeOK'
    BY <1>1, <1>2, <1>3 DEF AttendeeTypeOK, WalkRecord
  <2> QED BY <1>1, <2>1 DEF AttendeeInv, DirectoryInv, OwnAccounts, PushesReachAttendees, Claimed, Listed
<1>5. WalkInv'
  <2>1. walk'.on /\ ~walk'.done /\ walk'.me \in Ids /\ walk'.cursor = 0 /\ walk'.seen = <<>>
        /\ walk'.begun = Visible(walk'.me)
    BY <1>1, <1>2
  <2>2. Len(walk'.seen) = 0 /\ Visible(walk.me)' = walk'.begun
    BY <1>1, <2>1 DEF Visible, Claimed
  <2>3. \A p : ~UpTo(walk.cursor, p)'
    <3>1. \A i \in 1..Len(directory') : ~(i <= 0)
      BY <1>1, <1>2 DEF AttendeeTypeOK
    <3> QED BY <2>1, <3>1 DEF UpTo
  <2> QED BY <2>1, <2>2, <2>3 DEF WalkInv
<1> QED BY <1>4, <1>5 DEF AttendeeInv

\* What a page shows: the rows up to the next cursor, all that are left if there is none.
LEMMA PageIs ==
    ASSUME AttendeeTypeOK, NEW me, NEW cursor \in Nat
    PROVE  LET page == Search(me, cursor) IN
           /\ page.items \in SUBSET People /\ page.next \in Nat
           /\ \A p \in page.items :
                p \in Visible(me) /\ ~UpTo(cursor, p) /\ (page.next # 0 => UpTo(page.next, p))
           /\ \A p \in Visible(me) : (page.next # 0 => UpTo(page.next, p)) => UpTo(cursor, p) \/ p \in page.items
           /\ page.next # 0 => cursor < page.next
<1> DEFINE found == After(me, cursor)
           first == Limit(PageLimit, found)
           page == Search(me, cursor)
<1>1. /\ directory \in Seq(People) /\ IsInjective(directory) /\ DOMAIN directory = 1..Len(directory)
      /\ Len(directory) \in Nat
  BY DEF AttendeeTypeOK
<1>2. found \subseteq 1..Len(directory) /\ found \subseteq Nat /\ \A i \in found : cursor < i
  BY <1>1 DEF After
<1>3. IsFiniteSet(found)
  <2>1. IsFiniteSet(1..Len(directory))
    BY <1>1, FS_Interval
  <2> QED BY <1>2, <2>1, FS_Subset
<1>4. /\ first \subseteq found
      /\ \A i \in first, j \in found : j < i => j \in first
      /\ Cardinality(found) <= PageLimit => first = found
      /\ found # {} => first # {}
  BY <1>2, <1>3, AttendeeAssumption, LimitIs
<1>5. Cardinality(found) \in Nat /\ PageLimit \in Nat \ {0}
  BY <1>3, FS_CardinalityType, AttendeeAssumption
<1>6. page.items = {directory[i] : i \in first}
      /\ page.next = IF Cardinality(found) > PageLimit THEN CHOOSE i \in first : \A j \in first : j <= i ELSE 0
  BY DEF Search
<1>7. \A i \in found : directory[i] \in Visible(me) /\ directory[i] \in People
  BY <1>1, <1>2 DEF After
<1>8. ASSUME NEW i \in found PROVE ~UpTo(cursor, directory[i])
  <2> SUFFICES ASSUME NEW j \in 1..Len(directory), j <= cursor, directory[j] = directory[i] PROVE FALSE
    BY DEF UpTo
  <2>1. i = j
    BY <1>1, <1>2 DEF IsInjective
  <2> QED BY <1>2, <2>1
<1>9. ASSUME NEW p \in Visible(me), ~UpTo(cursor, p) PROVE \E i \in found : directory[i] = p
  <2>1. PICK i \in 1..Len(directory) : directory[i] = p
    BY <1>1 DEF Visible, Range
  <2>2. ~(i <= cursor)
    BY <1>9, <2>1 DEF UpTo
  <2>3. i \in (cursor + 1)..Len(directory)
    BY <1>1, <2>2
  <2> QED BY <2>1, <2>3 DEF After
<1> HIDE DEF found, first, page
<1>10. CASE Cardinality(found) > PageLimit
  <2>1. found # {}
    <3>1. Cardinality({}) = 0
      BY FS_EmptySet
    <3> QED BY <1>5, <1>10, <3>1
  <2>2. first # {} /\ first \subseteq Nat /\ IsFiniteSet(first)
    BY <1>2, <1>3, <1>4, <2>1, FS_Subset
  <2>3. \E i \in first : \A j \in first : j <= i
    BY <2>2, LargestNumber
  <2>4. page.next \in first /\ \A j \in first : j <= page.next
    BY <1>6, <1>10, <2>3
  <2>5. page.next \in Nat /\ cursor < page.next /\ page.next # 0
    <3>1. page.next \in found
      BY <1>4, <2>4
    <3>2. page.next \in Nat /\ cursor < page.next
      BY <1>2, <3>1
    <3> QED BY <3>2
  <2>6. ASSUME NEW p \in page.items
        PROVE  p \in Visible(me) /\ p \in People /\ ~UpTo(cursor, p) /\ UpTo(page.next, p)
    <3>1. PICK i \in first : directory[i] = p
      BY <1>6
    <3>2. i \in found /\ i \in 1..Len(directory) /\ i <= page.next
      BY <1>2, <1>4, <2>4
    <3> QED BY <1>7, <1>8, <3>1, <3>2 DEF UpTo
  <2>7. ASSUME NEW p \in Visible(me), UpTo(page.next, p), ~UpTo(cursor, p) PROVE p \in page.items
    <3>1. PICK i \in found : directory[i] = p
      BY <1>9, <2>7
    <3>2. PICK j \in 1..Len(directory) : j <= page.next /\ directory[j] = p
      BY <2>7 DEF UpTo
    <3>3. i = j
      BY <1>1, <1>2, <3>1, <3>2 DEF IsInjective
    <3>4. i \in first
      BY <1>2, <1>4, <2>4, <2>5, <3>2, <3>3
    <3> QED BY <1>6, <3>1, <3>4
  <2> QED BY <2>5, <2>6, <2>7 DEF page
<1>11. CASE ~(Cardinality(found) > PageLimit)
  <2>1. first = found /\ page.next = 0
    BY <1>4, <1>5, <1>6, <1>11
  <2>2. ASSUME NEW p \in page.items PROVE p \in Visible(me) /\ p \in People /\ ~UpTo(cursor, p)
    BY <1>6, <1>7, <1>8, <2>1
  <2>3. ASSUME NEW p \in Visible(me), ~UpTo(cursor, p) PROVE p \in page.items
    BY <1>6, <1>9, <2>1, <2>3
  <2> QED BY <2>1, <2>2, <2>3 DEF page
<1> QED BY <1>10, <1>11

LEMMA NextPageKeeps == ASSUME AttendeeInv, NextPage PROVE AttendeeInv'
<1> DEFINE page == Search(walk.me, walk.cursor)
           w == [on |-> page.next # 0, done |-> page.next = 0, me |-> walk.me, cursor |-> page.next,
                 begun |-> walk.begun, seen |-> Append(walk.seen, page.items)]
<1>1. AttendeeTypeOK /\ walk \in WalkRecord /\ walk.on /\ UNCHANGED <<directory, profile, pushed>>
  BY DEF AttendeeInv, DirectoryInv, AttendeeTypeOK, WalkRecord, NextPage
<1>2. walk' = w
  <2> DEFINE r == walk
             r1 == [r EXCEPT !.seen = Append(@, page.items)]
             r2 == [r1 EXCEPT !.cursor = page.next]
             r3 == [r2 EXCEPT !.on = page.next # 0]
             r4 == [r3 EXCEPT !.done = page.next = 0]
  <2>1. walk' = r4
    BY DEF NextPage
  <2>2. r \in WalkRecord
    BY <1>1
  <2> HIDE DEF page
  <2> QED BY <2>1, <2>2 DEF WalkRecord
<1>3. walk.seen \in Seq(SUBSET People) /\ walk.cursor \in Nat /\ walk.begun \in SUBSET People
      /\ walk.me \in Ids \cup {NoId} /\ Len(walk.seen) \in Nat
  BY <1>1 DEF WalkRecord
<1>4. /\ page.items \in SUBSET People /\ page.next \in Nat
      /\ \A p \in page.items :
           p \in Visible(walk.me) /\ ~UpTo(walk.cursor, p) /\ (page.next # 0 => UpTo(page.next, p))
      /\ \A p \in Visible(walk.me) :
           (page.next # 0 => UpTo(page.next, p)) => UpTo(walk.cursor, p) \/ p \in page.items
      /\ page.next # 0 => walk.cursor < page.next
  BY <1>1, <1>3, PageIs
<1> HIDE DEF page
<1> DEFINE n == Len(walk.seen)
<1>5. /\ w.seen \in Seq(SUBSET People) /\ Len(w.seen) = n + 1 /\ w.seen[n + 1] = page.items
      /\ \A k \in 1..n : w.seen[k] = walk.seen[k]
  BY <1>3, <1>4
<1>6. \A k \in 1..Len(w.seen) : k \in 1..n \/ k = n + 1
  BY <1>3, <1>5
<1>7. w \in WalkRecord
  BY <1>3, <1>4, <1>5 DEF WalkRecord
<1>8. DirectoryInv'
  <2>1. AttendeeTypeOK'
    BY <1>1, <1>2, <1>7 DEF AttendeeTypeOK, WalkRecord
  <2> QED BY <1>1, <2>1 DEF AttendeeInv, DirectoryInv, OwnAccounts, PushesReachAttendees, Claimed, Listed
<1>9. /\ walk'.on = (page.next # 0) /\ walk'.done = (page.next = 0) /\ walk'.me = walk.me
      /\ walk'.cursor = page.next /\ walk'.begun = walk.begun /\ walk'.seen = w.seen
  BY <1>2
<1>10. \A p : UpTo(walk.cursor, p)' <=> UpTo(page.next, p)
  BY <1>1, <1>9 DEF UpTo
<1>11. \A p \in People : Claimed(p)' <=> Claimed(p)
  BY <1>1 DEF Claimed
<1>12. Visible(walk.me)' = Visible(walk.me)
  BY <1>1, <1>9 DEF Visible, Claimed
<1>13. ASSUME NEW p PROVE SeenBy(p)' <=> SeenBy(p) \/ p \in page.items
  <2>1. SeenBy(p) => SeenBy(p)'
    <3> SUFFICES ASSUME NEW k \in 1..Len(walk.seen), p \in walk.seen[k] PROVE SeenBy(p)'
      BY DEF SeenBy
    <3>1. k \in 1..Len(w.seen) /\ w.seen[k] = walk.seen[k]
      BY <1>3, <1>5
    <3> QED BY <1>9, <3>1 DEF SeenBy
  <2>2. p \in page.items => SeenBy(p)'
    <3>1. n + 1 \in 1..Len(w.seen)
      BY <1>3, <1>5
    <3> QED BY <1>5, <1>9, <3>1 DEF SeenBy
  <2>3. SeenBy(p)' => SeenBy(p) \/ p \in page.items
    BY <1>5, <1>6, <1>9 DEF SeenBy
  <2> QED BY <2>1, <2>2, <2>3
<1>14. ASSUME NEW k \in 1..Len(w.seen), NEW p \in w.seen[k]
       PROVE  /\ Claimed(p)' /\ profile'[p].idp # walk.me
              /\ page.next # 0 => UpTo(page.next, p)
  <2>1. CASE k \in 1..n
    <3>1. p \in walk.seen[k] /\ p \in People
      BY <1>3, <1>5, <1>14, <2>1
    <3>2. Claimed(p) /\ profile[p].idp # walk.me /\ UpTo(walk.cursor, p)
      BY <1>1, <2>1, <3>1 DEF AttendeeInv, WalkInv
    <3>3. page.next # 0 => UpTo(page.next, p)
      <4>1. PICK i \in 1..Len(directory) : i <= walk.cursor /\ directory[i] = p
        BY <3>2 DEF UpTo
      <4>2. i \in Nat /\ (page.next # 0 => i <= page.next)
        BY <1>3, <1>4, <4>1
      <4> QED BY <4>1, <4>2 DEF UpTo
    <3> QED BY <1>1, <1>11, <3>1, <3>2, <3>3
  <2>2. CASE k = n + 1
    <3>1. p \in page.items
      BY <1>5, <1>14, <2>2
    <3>2. p \in Visible(walk.me)
      BY <1>4, <3>1
    <3> QED BY <1>1, <1>4, <3>1, <3>2 DEF Visible, Claimed
  <2> QED BY <1>6, <2>1, <2>2
<1>15. ASSUME NEW j \in 1..Len(w.seen), NEW k \in 1..Len(w.seen), j # k PROVE w.seen[j] \cap w.seen[k] = {}
  <2>1. \A i \in 1..n : walk.seen[i] \cap page.items = {}
    BY <1>1, <1>4 DEF AttendeeInv, WalkInv
  <2>2. CASE j \in 1..n /\ k \in 1..n
    BY <1>5, <1>15, <2>2 DEF AttendeeInv, WalkInv
  <2>3. CASE j \in 1..n /\ k = n + 1
    BY <1>5, <2>1, <2>3
  <2>4. CASE j = n + 1 /\ k \in 1..n
    BY <1>5, <2>1, <2>4
  <2> QED BY <1>6, <1>15, <2>2, <2>3, <2>4
<1>16. ASSUME NEW p \in walk.begun, page.next # 0 => UpTo(page.next, p) PROVE SeenBy(p)'
  <2>1. p \in Visible(walk.me)
    BY <1>1 DEF AttendeeInv, WalkInv
  <2>2. UpTo(walk.cursor, p) \/ p \in page.items
    BY <1>4, <1>16, <2>1
  <2>3. UpTo(walk.cursor, p) => SeenBy(p)
    BY <1>1 DEF AttendeeInv, WalkInv
  <2> QED BY <1>13, <2>2, <2>3
<1> HIDE DEF w
<1>17. WalkInv'
  <2>1. walk'.on => ~walk'.done /\ walk'.me \in Ids
    BY <1>1, <1>9 DEF AttendeeInv, WalkInv
  <2>2. walk'.on \/ walk'.done
    BY <1>9
  <2>3. \A k \in 1..Len(walk'.seen) : \A p \in walk'.seen[k] :
          /\ Claimed(p)' /\ profile'[p].idp # walk'.me
          /\ walk'.on => UpTo(walk.cursor, p)'
    BY <1>4, <1>9, <1>10, <1>14
  <2>4. \A j, k \in 1..Len(walk'.seen) : j # k => walk'.seen[j] \cap walk'.seen[k] = {}
    BY <1>9, <1>15
  <2>5. walk'.begun \subseteq Visible(walk.me)'
    <3>1. walk.begun \subseteq Visible(walk.me)
      BY <1>1 DEF AttendeeInv, WalkInv
    <3> QED BY <1>9, <1>12, <3>1
  <2>6. walk'.on => \A p \in walk'.begun : UpTo(walk.cursor, p)' => SeenBy(p)'
    BY <1>4, <1>9, <1>10, <1>16
  <2>7. walk'.done => \A p \in walk'.begun : SeenBy(p)'
    BY <1>9, <1>16
  <2> QED BY <2>1, <2>2, <2>3, <2>4, <2>5, <2>6, <2>7 DEF WalkInv
<1> QED BY <1>8, <1>17 DEF AttendeeInv

LEMMA AttendeeInitially == AttendeeInit => AttendeeInv
<1> SUFFICES ASSUME AttendeeInit PROVE AttendeeInv
  OBVIOUS
<1>1. AttendeeTypeOK
  <2>1. NoWalk \in WalkRecord
    <3>1. <<>> \in Seq(SUBSET People) /\ 0 \in Nat
      OBVIOUS
    <3> QED BY <3>1 DEF NoWalk, WalkRecord
  <2>2. <<>> \in Seq(People) /\ IsInjective(<<>>)
    BY DEF IsInjective
  <2> QED BY <2>1, <2>2 DEF AttendeeInit, AttendeeTypeOK, WalkRecord
<1>2. OwnAccounts /\ PushesReachAttendees
  BY DEF AttendeeInit, OwnAccounts, PushesReachAttendees, Claimed
<1>3. WalkInv
  BY DEF AttendeeInit, WalkInv, NoWalk
<1> QED BY <1>1, <1>2, <1>3 DEF AttendeeInv, DirectoryInv

LEMMA WritesKeep == AttendeeInv /\ AttendeeWrite => AttendeeInv'
  BY WritesGrow, GrowthKeepsDirectory, GrowthKeepsWalk DEF AttendeeInv, DirectoryInv

LEMMA AttendeesStep == AttendeeInv /\ [AttendeeStep]_attendeeVars => AttendeeInv'
<1> SUFFICES ASSUME AttendeeInv, [AttendeeStep]_attendeeVars PROVE AttendeeInv'
  OBVIOUS
<1>1. CASE AttendeeWrite
  BY <1>1, WritesKeep
<1>2. ASSUME NEW t \in Tokens, BeginWalk(t) PROVE AttendeeInv'
  BY <1>2, BeginWalkKeeps
<1>3. ASSUME NEW t \in Tokens, Broadcast(t) PROVE AttendeeInv'
  <2>1. DirectoryInv'
    BY <1>3, BroadcastKeeps DEF AttendeeInv
  <2>2. WalkInv'
    BY <1>3, RowsStay, GrowthKeepsWalk DEF AttendeeInv, DirectoryInv, Broadcast
  <2> QED BY <2>1, <2>2 DEF AttendeeInv
<1>4. CASE NextPage
  BY <1>4, NextPageKeeps
<1>5. CASE UNCHANGED attendeeVars
  <2>1. UNCHANGED <<directory, profile, walk, pushed>>
    BY <1>5 DEF attendeeVars
  <2>2. DirectoryInv'
    BY <2>1 DEF AttendeeInv, DirectoryInv, AttendeeTypeOK, OwnAccounts, PushesReachAttendees, Claimed, Listed
  <2>3. WalkInv'
    BY <2>1, RowsStay, GrowthKeepsWalk DEF AttendeeInv, DirectoryInv
  <2> QED BY <2>2, <2>3 DEF AttendeeInv
<1> QED BY <1>1, <1>2, <1>3, <1>4, <1>5 DEF AttendeeStep

LEMMA AttendeesHold == AttendeeInv => WalkIsComplete /\ PushesReachAttendees
<1> SUFFICES ASSUME AttendeeInv PROVE WalkIsComplete
  BY DEF AttendeeInv, DirectoryInv
<1>1. walk \in WalkRecord
  BY DEF AttendeeInv, DirectoryInv, AttendeeTypeOK, WalkRecord
<1>2. DOMAIN walk.seen = 1..Len(walk.seen)
  BY <1>1 DEF WalkRecord
<1> QED BY <1>2 DEF AttendeeInv, WalkInv, SeenBy, WalkIsComplete

\* A step keeps every account and every member id.
LEMMA RowsKeptStep ==
    AttendeeInv /\ [AttendeeStep]_attendeeVars =>
        [\A p \in People : /\ Claimed(p) => profile'[p].idp = profile[p].idp
                           /\ profile[p].member # NoMember => profile'[p].member # NoMember]_profile
<1> SUFFICES ASSUME AttendeeInv, AttendeeStep, profile' # profile
             PROVE  \A p \in People : /\ Claimed(p) => profile'[p].idp = profile[p].idp
                                      /\ profile[p].member # NoMember => profile'[p].member # NoMember
  BY DEF attendeeVars
<1>1. AttendeeWrite
  BY DEF AttendeeStep, BeginWalk, Broadcast, NextPage
<1>2. RowsGrow
  BY <1>1, WritesGrow DEF AttendeeInv, DirectoryInv
<1> QED BY <1>2 DEF RowsGrow

\* However rows are imported and claimed between the pages of a walk through the directory: it shows nobody
\* twice, misses nobody who had an account before it began, and shows no row bound to the caller's own sub.
\* A push reaches everyone with an account, and who has one keeps it (attendee.go, notification.go).
THEOREM DirectoryIsSafe == AttendeeSpec => DirectorySafety
<1> QED BY AttendeeInitially, AttendeesStep, AttendeesHold, RowsKeptStep, PTL
        DEF AttendeeSpec, DirectorySafety, RowsKept

-----------------------------------------------------------------------------
(***************************************************************************)
(* Connections.  Every form of an account names one person, so whoever is  *)
(* a party of a row is told by the first half of its ids.                  *)
(***************************************************************************)
CallRecord ==
    [pc : {"idle", "request", "reread", "accept", "why", "delete", "describe"},
     token : Tokens \cup {NoToken}, canonical : Ids \cup {NoId},
     target : Ids \cup {NoId}, id : 0..MaxRows, row : RowType \cup {NoRow}]

\* The requester has asked, and the addressee of an accepted row has accepted.
RowConsent(row, given) ==
    /\ <<row.requester[1], row.addressee[1]>> \in given
    /\ row.state = "accepted" => <<row.addressee[1], row.requester[1]>> \in given

RowsHaveConsent ==
    /\ \A i \in 1..MaxRows : connection[i] # NoRow => RowConsent(connection[i], consented)
    /\ \A i \in 1..MaxRows : i > rows => connection[i] = NoRow

\* What a call carries: its caller's identity, what it is about, and the row it will describe.
CallShape(k) ==
    /\ call[k].pc # "idle" => /\ call[k].token \in Tokens /\ call[k].canonical \in Ids
                              /\ call[k].canonical[1] = Person(call[k].token)
    /\ call[k].pc \in {"request", "reread"} => call[k].target \in Ids
    /\ call[k].pc \in {"accept", "why", "delete"} => call[k].id \in 1..rows
    /\ call[k].pc = "describe" =>
         /\ call[k].row \in RowType /\ RowConsent(call[k].row, consented)
         /\ Person(call[k].token) \in {call[k].row.requester[1], call[k].row.addressee[1]}
    /\ call[k].pc = "why" =>
         \/ connection[call[k].id] = NoRow \/ connection[call[k].id].state = "accepted"
         \/ ~Matches(k, connection[call[k].id].addressee)

ConnectionTypes ==
    /\ connection \in [1..MaxRows -> RowType \cup {NoRow}]
    /\ rows \in 0..MaxRows /\ begun \in 0..MaxBegun
    /\ call \in [Calls -> CallRecord]
    /\ consented \subseteq People \X People /\ disclosed \subseteq People \X People

TableInv ==
    /\ ConnectionTypes /\ RowsHaveConsent /\ (\A k \in Calls : CallShape(k))
    /\ DisclosedWithConsent

ConnectionInv == AttendeeInv /\ TableInv

\* An id is of one person.
LEMMA IdsOfPeople ==
    /\ \A id \in Ids : id[1] \in People
    /\ \A p \in People : EmailOf(p) \in Ids /\ EmailOf(p)[1] = p
    /\ \A t \in Tokens : /\ t.sub \in Ids /\ Person(t) = t.sub[1] /\ Person(t) \in People
                         /\ t.email = NoId \/ (t.email \in Ids /\ t.email[1] = Person(t))
  BY AttendeeAssumption DEF Ids, EmailOf, Person

\* Whom an identity resolves to: an account of the same person that some row is bound to, or nobody.
LEMMA ResolvesToPerson ==
    ASSUME DirectoryInv, NEW sub \in Ids, NEW email, email = NoId \/ (email \in Ids /\ email[1] = sub[1])
    PROVE  LET u == ResolveUUID(sub, email) IN
           u # NoId => /\ u \in Ids /\ u[1] = sub[1]
                       /\ \E p \in Range(directory) : profile[p].idp = u
<1> DEFINE byIdp   == {p \in Range(directory) : Claimed(p) /\ [j \in People |-> profile[j].idp = sub][p]}
           bySub   == {p \in Range(directory) : Claimed(p) /\ [j \in People |-> EmailOf(j) = sub][p]}
           byEmail == {p \in Range(directory) : Claimed(p) /\ [j \in People |-> EmailOf(j) = email][p]}
           best    == IF byIdp # {} THEN byIdp ELSE IF bySub # {} THEN bySub ELSE byEmail
<1>1. Range(directory) \subseteq People /\ profile \in [People -> ProfileRecord]
  BY DEF DirectoryInv, AttendeeTypeOK, Range, ProfileRecord
<1>2. ASSUME NEW p \in best PROVE p \in Range(directory) /\ Claimed(p) /\ p = sub[1]
  <2>1. p \in byIdp => p \in Range(directory) /\ Claimed(p) /\ profile[p].idp = sub
    BY <1>1
  <2>2. p \in bySub => p \in Range(directory) /\ Claimed(p) /\ EmailOf(p) = sub
    BY <1>1
  <2>3. p \in byEmail => p \in Range(directory) /\ Claimed(p) /\ EmailOf(p) = email
    BY <1>1
  <2>4. p \in byIdp \/ p \in bySub \/ p \in byEmail
    BY <1>2
  <2> HIDE DEF byIdp, bySub, byEmail
  <2>5. p \in Range(directory) /\ Claimed(p)
    BY <2>1, <2>2, <2>3, <2>4
  <2>6. p \in People
    BY <1>1, <2>5
  <2>7. p \in byIdp => p = sub[1]
    BY <2>1, <2>5, <2>6 DEF DirectoryInv, OwnAccounts
  <2>8. p \in bySub => p = sub[1]
    BY <2>2, <2>6, IdsOfPeople
  <2>9. p \in byEmail => p = sub[1]
    BY <2>3, <2>6, IdsOfPeople, AttendeeAssumption
  <2> QED BY <2>4, <2>5, <2>7, <2>8, <2>9
<1>3. ResolveUUID(sub, email) = IF best = {} THEN NoId ELSE profile[CHOOSE p \in best : TRUE].idp
  BY DEF ResolveUUID
<1>4. best # {} => (CHOOSE p \in best : TRUE) \in best
  OBVIOUS
<1> HIDE DEF best
<1> SUFFICES ASSUME ResolveUUID(sub, email) # NoId
             PROVE  /\ ResolveUUID(sub, email) \in Ids /\ ResolveUUID(sub, email)[1] = sub[1]
                    /\ \E p \in Range(directory) : profile[p].idp = ResolveUUID(sub, email)
  OBVIOUS
<1> DEFINE chosen == CHOOSE p \in best : TRUE
<1>5. chosen \in best /\ ResolveUUID(sub, email) = profile[chosen].idp
  BY <1>3, <1>4
<1> HIDE DEF chosen
<1>6. chosen \in Range(directory) /\ Claimed(chosen) /\ chosen = sub[1] /\ chosen \in People
  BY <1>1, <1>2, <1>5
<1>7. profile[chosen].idp \in Ids /\ profile[chosen].idp[1] = chosen
  BY <1>1, <1>6 DEF DirectoryInv, OwnAccounts, Claimed, ProfileRecord
<1> QED BY <1>5, <1>6, <1>7

LEMMA CallersOwnIds ==
    ASSUME DirectoryInv, NEW t \in Tokens, NEW failed
    PROVE  callerIdentity(t, failed) \in Ids /\ callerIdentity(t, failed)[1] = Person(t)
  BY ResolvesToPerson, IdsOfPeople DEF callerIdentity

LEMMA AliasesAreOwn ==
    ASSUME NEW t \in Tokens, NEW canonical \in Ids, canonical[1] = Person(t), NEW id \in Aliases(canonical, t)
    PROVE  id \in Ids /\ id[1] = Person(t)
  BY IdsOfPeople DEF Aliases

\* A row of one of the caller's forms, or told from the caller's forms: the other party is the other.
LEMMA OtherParty ==
    ASSUME NEW t \in Tokens, NEW canonical \in Ids, canonical[1] = Person(t), NEW row \in RowType,
           Person(t) \in {row.requester[1], row.addressee[1]}
    PROVE  LET other == OtherFor(Aliases(canonical, t), row) IN
           /\ other \in Ids
           /\ other[1] # Person(t) =>
                {Person(t), other[1]} = {row.requester[1], row.addressee[1]}
<1>1. row.requester \in Ids /\ row.addressee \in Ids
  BY DEF RowType
<1>2. row.requester \in Aliases(canonical, t) => row.requester[1] = Person(t)
  BY AliasesAreOwn
<1> QED BY <1>1, <1>2 DEF OtherFor

LEMMA NamedIsPerson ==
    ASSUME DirectoryInv, NEW id \in Ids, NEW p \in Named(id) PROVE p = id[1] /\ p \in People
<1>1. p \in People /\ Claimed(p) /\ (profile[p].idp = id \/ EmailOf(p) = id)
  BY DEF Named, DirectoryInv, AttendeeTypeOK, Range
<1> QED BY <1>1, IdsOfPeople DEF DirectoryInv, OwnAccounts

LEMMA UuidIsPerson ==
    ASSUME DirectoryInv, NEW id \in Ids, NEW p \in GetByUUID(id) PROVE p = id[1] /\ p \in People
<1>1. p \in People /\ profile[p].idp = id
  BY DEF GetByUUID, DirectoryInv, AttendeeTypeOK, Range
<1>2. Claimed(p)
  BY <1>1, AttendeeAssumption DEF Claimed
<1> QED BY <1>1, <1>2 DEF DirectoryInv, OwnAccounts

LEMMA ConnectionInitially == ConnectionInit => ConnectionInv
<1> SUFFICES ASSUME ConnectionInit PROVE ConnectionInv
  OBVIOUS
<1>1. AttendeeInv
  BY AttendeeInitially DEF ConnectionInit
<1>2. Idle \in CallRecord /\ Idle.pc = "idle"
  BY ConnectionAssumption DEF Idle, CallRecord
<1>3. ConnectionTypes
  BY <1>2, ConnectionAssumption DEF ConnectionInit, ConnectionTypes
<1>4. \A k \in Calls : CallShape(k)
  BY <1>2 DEF ConnectionInit, CallShape
<1>5. RowsHaveConsent /\ DisclosedWithConsent
  BY DEF ConnectionInit, RowsHaveConsent, DisclosedWithConsent
<1> QED BY <1>1, <1>3, <1>4, <1>5 DEF ConnectionInv, TableInv

\* Rows are imported and claimed while calls run.
LEMMA TableStays ==
    ASSUME TableInv, UNCHANGED connectionOnly PROVE TableInv'
<1>1. UNCHANGED <<connection, rows, call, begun, consented, disclosed>>
  BY DEF connectionOnly
<1> QED BY <1>1 DEF TableInv, ConnectionTypes, RowsHaveConsent, CallShape, RowConsent, DisclosedWithConsent,
                    Matches, Aliases

\* One call's step, while the rows and what was consented and disclosed stay.
LEMMA CallsChange ==
    ASSUME TableInv, NEW k \in Calls, NEW r \in CallRecord, call' = [call EXCEPT ![k] = r],
           UNCHANGED <<connection, rows, consented, disclosed>>, begun' \in 0..MaxBegun,
           CallShape(k)'
    PROVE  TableInv'
<1>1. call' \in [Calls -> CallRecord] /\ \A j \in Calls : j # k => call'[j] = call[j]
  BY DEF TableInv, ConnectionTypes
<1>2. ConnectionTypes'
  BY <1>1 DEF TableInv, ConnectionTypes
<1>3. ASSUME NEW j \in Calls, j # k PROVE CallShape(j)'
  BY <1>1, <1>3 DEF TableInv, CallShape, RowConsent, Matches, Aliases
<1>4. \A j \in Calls : CallShape(j)'
  BY <1>3
<1>5. RowsHaveConsent' /\ DisclosedWithConsent'
  BY DEF TableInv, RowsHaveConsent, RowConsent, DisclosedWithConsent
<1> QED BY <1>2, <1>4, <1>5 DEF TableInv

LEMMA IdleCall ==
    ASSUME TableInv, NEW k \in Calls, Answer(k)
    PROVE  /\ Idle \in CallRecord /\ call' = [call EXCEPT ![k] = Idle]
           /\ CallShape(k)' /\ call'[k] = Idle
<1>1. Idle \in CallRecord /\ Idle.pc = "idle"
  BY ConnectionAssumption DEF Idle, CallRecord
<1>2. call' = [call EXCEPT ![k] = Idle] /\ call'[k] = Idle
  BY DEF Answer, TableInv, ConnectionTypes
<1> QED BY <1>1, <1>2 DEF CallShape

\* The call's record, one field at a time.
LEMMA CallPc ==
    ASSUME NEW r \in CallRecord,
           NEW v \in {"idle", "request", "reread", "accept", "why", "delete", "describe"}
    PROVE  /\ [r EXCEPT !.pc = v] \in CallRecord /\ [r EXCEPT !.pc = v].pc = v
           /\ [r EXCEPT !.pc = v].token = r.token /\ [r EXCEPT !.pc = v].canonical = r.canonical
           /\ [r EXCEPT !.pc = v].target = r.target /\ [r EXCEPT !.pc = v].id = r.id
           /\ [r EXCEPT !.pc = v].row = r.row
  BY DEF CallRecord

LEMMA CallRow ==
    ASSUME NEW r \in CallRecord, NEW v \in RowType \cup {NoRow}
    PROVE  /\ [r EXCEPT !.row = v] \in CallRecord /\ [r EXCEPT !.row = v].row = v
           /\ [r EXCEPT !.row = v].token = r.token /\ [r EXCEPT !.row = v].canonical = r.canonical
           /\ [r EXCEPT !.row = v].target = r.target /\ [r EXCEPT !.row = v].id = r.id
           /\ [r EXCEPT !.row = v].pc = r.pc
  BY DEF CallRecord

LEMMA BeginKeeps ==
    ASSUME ConnectionInv, NEW k \in Calls, NEW t \in Tokens, NEW failed \in BOOLEAN,
           NEW op, NEW target, NEW id, Begin(k, t, op, target, id, failed),
           \/ op = "request" /\ target \in Ids /\ id = 0
           \/ op \in {"accept", "delete"} /\ target = NoId /\ id \in 1..rows
    PROVE  ConnectionInv'
<1> DEFINE n == [pc |-> op, token |-> t, canonical |-> callerIdentity(t, failed),
                 target |-> target, id |-> id, row |-> NoRow]
<1>1. /\ call' = [call EXCEPT ![k] = n] /\ begun < MaxBegun /\ begun' = begun + 1
      /\ UNCHANGED <<directory, profile, walk, pushed, connection, rows, consented, disclosed>>
  BY DEF Begin, attendeeVars
<1>2. DirectoryInv
  BY DEF ConnectionInv, AttendeeInv
<1>3. callerIdentity(t, failed) \in Ids /\ callerIdentity(t, failed)[1] = Person(t)
  BY <1>2, CallersOwnIds
<1>4. id \in 0..MaxRows
  <2>1. rows \in 0..MaxRows /\ MaxRows \in Nat
    BY ConnectionAssumption DEF ConnectionInv, TableInv, ConnectionTypes
  <2>2. id = 0 \/ id \in 1..rows
    OBVIOUS
  <2> QED BY <2>1, <2>2
<1>5. n \in CallRecord
  BY <1>3, <1>4 DEF CallRecord
<1>6. begun' \in 0..MaxBegun
  BY <1>1, ConnectionAssumption DEF ConnectionInv, TableInv, ConnectionTypes
<1>7. CallShape(k)'
  <2>1. call'[k] = n
    BY <1>1 DEF ConnectionInv, TableInv, ConnectionTypes
  <2> QED BY <1>1, <1>3, <2>1 DEF CallShape
<1>8. TableInv'
  BY <1>1, <1>5, <1>6, <1>7, CallsChange DEF ConnectionInv
<1>9. AttendeeInv'
  BY <1>1, AttendeesStep DEF ConnectionInv, attendeeVars
<1> QED BY <1>8, <1>9 DEF ConnectionInv

\* What a call that is on its way knows of its caller.
LEMMA CallersKnown ==
    ASSUME TableInv, NEW k \in Calls, call[k].pc # "idle"
    PROVE  /\ call[k] \in CallRecord /\ call[k].token \in Tokens /\ call[k].canonical \in Ids
           /\ call[k].canonical[1] = Person(call[k].token) /\ Person(call[k].token) \in People
  BY IdsOfPeople DEF TableInv, CallShape, ConnectionTypes

\* Rows are added behind the last, accepted or removed: what the other calls know stays true.
LEMMA OtherCallsKeep ==
    ASSUME TableInv, NEW k \in Calls, NEW r, call' = [call EXCEPT ![k] = r],
           rows' \in 0..MaxRows, rows <= rows', consented \subseteq consented',
           \A i \in 1..rows : \/ connection'[i] = connection[i] \/ connection'[i] = NoRow
                              \/ connection'[i].state = "accepted",
           NEW j \in Calls, j # k
    PROVE  CallShape(j)'
<1>1. call'[j] = call[j]
  BY DEF TableInv, ConnectionTypes
<1>2. CallShape(j) /\ rows \in Nat /\ rows' \in Nat
  BY ConnectionAssumption DEF TableInv, ConnectionTypes
<1>3. call[j].pc \in {"accept", "why", "delete"} => call[j].id \in 1..rows /\ call[j].id \in 1..rows'
  BY <1>2 DEF CallShape
<1>4. call[j].pc = "describe" => RowConsent(call[j].row, consented')
  BY <1>1, <1>2 DEF CallShape, RowConsent
<1>5. Matches(j, call[j].id)' <=> Matches(j, call[j].id)
  BY <1>1 DEF Matches, Aliases
<1>6. call[j].pc = "why" =>
         \/ connection'[call[j].id] = NoRow \/ connection'[call[j].id].state = "accepted"
         \/ ~Matches(j, connection[call[j].id].addressee)' /\ connection'[call[j].id] = connection[call[j].id]
  BY <1>1, <1>2, <1>3 DEF CallShape, Matches, Aliases
<1> QED BY <1>1, <1>2, <1>3, <1>4, <1>6 DEF CallShape, Matches, Aliases

\* A step of one call on the table.
LEMMA TableStep ==
    ASSUME TableInv, NEW k \in Calls, NEW r \in CallRecord, call' = [call EXCEPT ![k] = r], CallShape(k)',
           rows' \in 0..MaxRows, rows <= rows', begun' = begun,
           consented \subseteq consented', consented' \subseteq People \X People, disclosed' = disclosed,
           connection' \in [1..MaxRows -> RowType \cup {NoRow}],
           \A i \in 1..rows : \/ connection'[i] = connection[i] \/ connection'[i] = NoRow
                              \/ connection'[i].state = "accepted",
           RowsHaveConsent'
    PROVE  TableInv'
<1>1. call' \in [Calls -> CallRecord]
  BY DEF TableInv, ConnectionTypes
<1>2. ConnectionTypes'
  BY <1>1 DEF TableInv, ConnectionTypes
<1>3. \A j \in Calls : j # k => CallShape(j)'
  BY OtherCallsKeep
<1>4. \A j \in Calls : CallShape(j)'
  BY <1>3
<1>5. DisclosedWithConsent'
  BY DEF TableInv, DisclosedWithConsent
<1> QED BY <1>2, <1>4, <1>5 DEF TableInv

\* The call turns to describing a row that both its parties stand in.
LEMMA CallDescribes ==
    ASSUME TableInv, NEW k \in Calls, call[k].pc # "idle", NEW row \in RowType, RowConsent(row, consented'),
           call' = [call EXCEPT ![k].pc = "describe", ![k].row = row],
           Person(call[k].token) \in {row.requester[1], row.addressee[1]}
    PROVE  \E r \in CallRecord : call' = [call EXCEPT ![k] = r] /\ CallShape(k)'
<1> DEFINE p == [call[k] EXCEPT !.pc = "describe"]
           r == [p EXCEPT !.row = row]
<1>1. call[k] \in CallRecord
  BY DEF TableInv, ConnectionTypes
<1>2. p \in CallRecord /\ p.pc = "describe" /\ p.token = call[k].token /\ p.canonical = call[k].canonical
  BY <1>1, CallPc
<1>3. call' = [call EXCEPT ![k] = r]
  BY DEF TableInv, ConnectionTypes
<1> HIDE DEF p
<1>4. r \in CallRecord /\ r.pc = "describe" /\ r.row = row /\ r.token = call[k].token
      /\ r.canonical = call[k].canonical
  BY <1>2, CallRow
<1> HIDE DEF r
<1>5. call'[k] = r
  BY <1>3 DEF TableInv, ConnectionTypes
<1>6. CallShape(k)'
  BY <1>4, <1>5, CallersKnown DEF CallShape, RowConsent
<1> QED BY <1>3, <1>4, <1>6

\* The call turns elsewhere, and its other fields stay.
LEMMA CallTurns ==
    ASSUME TableInv, NEW k \in Calls,
           NEW v \in {"reread", "why"},
           call' = [call EXCEPT ![k].pc = v]
    PROVE  LET r == [call[k] EXCEPT !.pc = v] IN
           /\ r \in CallRecord /\ call' = [call EXCEPT ![k] = r] /\ call'[k] = r
           /\ r.pc = v /\ r.token = call[k].token /\ r.canonical = call[k].canonical
           /\ r.target = call[k].target /\ r.id = call[k].id /\ r.row = call[k].row
<1> DEFINE r == [call[k] EXCEPT !.pc = v]
<1>1. call[k] \in CallRecord
  BY DEF TableInv, ConnectionTypes
<1>2. /\ r \in CallRecord /\ r.pc = v /\ r.token = call[k].token /\ r.canonical = call[k].canonical
      /\ r.target = call[k].target /\ r.id = call[k].id /\ r.row = call[k].row
  <2>1. CASE v = "reread"
    <3> DEFINE o == [call[k] EXCEPT !.pc = "reread"]
    <3>1. /\ o \in CallRecord /\ o.pc = "reread" /\ o.token = call[k].token /\ o.canonical = call[k].canonical
          /\ o.target = call[k].target /\ o.id = call[k].id /\ o.row = call[k].row
      BY <1>1, CallPc
    <3>2. o = r
      BY <2>1
    <3> QED BY ONLY <2>1, <3>1, <3>2
  <2>2. CASE v = "why"
    <3> DEFINE o == [call[k] EXCEPT !.pc = "why"]
    <3>1. /\ o \in CallRecord /\ o.pc = "why" /\ o.token = call[k].token /\ o.canonical = call[k].canonical
          /\ o.target = call[k].target /\ o.id = call[k].id /\ o.row = call[k].row
      BY <1>1, CallPc
    <3>2. o = r
      BY <2>2
    <3> QED BY ONLY <2>2, <3>1, <3>2
  <2> QED BY <2>1, <2>2
<1>3. call' = [call EXCEPT ![k] = r] /\ call'[k] = r
  BY DEF TableInv, ConnectionTypes
<1> QED BY <1>2, <1>3

\* The attendees' variables stay.
LEMMA AttendeesStay == ASSUME AttendeeInv, UNCHANGED attendeeVars PROVE AttendeeInv'
  BY AttendeesStep

LEMMA AnswerKeeps ==
    ASSUME TableInv, NEW k \in Calls, Answer(k), UNCHANGED <<connection, rows, consented, disclosed, begun>>
    PROVE  TableInv'
<1>1. begun' \in 0..MaxBegun
  BY DEF TableInv, ConnectionTypes
<1> QED BY <1>1, IdleCall, CallsChange

LEMMA RequestKeeps == ASSUME TableInv, NEW k \in Calls, Request(k) PROVE TableInv'
<1> DEFINE me  == call[k].canonical
           to  == call[k].target
           row == [requester |-> me, addressee |-> to, state |-> "pending"]
<1>1. call[k].pc = "request" /\ UNCHANGED <<begun, disclosed>>
  BY DEF Request
<1>2. /\ call[k] \in CallRecord /\ call[k].token \in Tokens /\ me \in Ids /\ me[1] = Person(call[k].token)
      /\ Person(call[k].token) \in People
  BY <1>1, CallersKnown
<1>3. to \in Ids /\ to[1] \in People
  BY <1>1, IdsOfPeople DEF TableInv, CallShape
<1>4. CASE Answer(k) /\ UNCHANGED <<connection, rows, consented>>
  BY <1>1, <1>4, AnswerKeeps
<1>5. CASE /\ rows < MaxRows /\ rows' = rows + 1
           /\ connection' = [connection EXCEPT ![rows + 1] = row]
           /\ consented' = consented \cup {<<Person(call[k].token), to[1]>>}
           /\ call' = [call EXCEPT ![k].pc = "describe", ![k].row = row]
  <2>1. row \in RowType /\ row.requester = me /\ row.addressee = to /\ row.state = "pending"
    BY <1>2, <1>3 DEF RowType
  <2> HIDE DEF row
  <2>2. rows \in 0..MaxRows /\ MaxRows \in Nat /\ connection \in [1..MaxRows -> RowType \cup {NoRow}]
    BY ConnectionAssumption DEF TableInv, ConnectionTypes
  <2>3. rows' \in 0..MaxRows /\ rows + 1 \in 1..MaxRows /\ rows <= rows'
    BY <1>5, <2>2
  <2>4. RowConsent(row, consented')
    BY <1>2, <1>5, <2>1 DEF RowConsent
  <2>5. /\ connection' \in [1..MaxRows -> RowType \cup {NoRow}]
        /\ connection'[rows + 1] = row
        /\ \A i \in 1..MaxRows : i # rows + 1 => connection'[i] = connection[i]
    BY <1>5, <2>1, <2>2, <2>3
  <2>6. RowsHaveConsent'
    <3>1. ASSUME NEW i \in 1..MaxRows, connection'[i] # NoRow PROVE RowConsent(connection'[i], consented')
      <4>1. CASE i = rows + 1
        BY <2>4, <2>5, <4>1 DEF RowConsent
      <4>2. CASE i # rows + 1
        BY <1>5, <2>5, <3>1, <4>2 DEF RowConsent, TableInv, RowsHaveConsent
      <4> QED BY <4>1, <4>2
    <3>2. \A i \in 1..MaxRows : i > rows' => connection'[i] = NoRow
      BY <1>5, <2>2, <2>5 DEF TableInv, RowsHaveConsent
    <3> QED BY <3>1, <3>2 DEF RowsHaveConsent
  <2>7. \E r \in CallRecord : call' = [call EXCEPT ![k] = r] /\ CallShape(k)'
    BY <1>1, <1>2, <1>5, <2>1, <2>4, CallDescribes
  <2>8. consented \subseteq consented' /\ consented' \subseteq People \X People
    BY <1>2, <1>3, <1>5 DEF TableInv, ConnectionTypes
  <2>9. \A i \in 1..rows : connection'[i] = connection[i]
    BY <2>2, <2>5
  <2> QED BY <1>1, <2>3, <2>5, <2>6, <2>7, <2>8, <2>9, TableStep
<1>6. CASE call' = [call EXCEPT ![k].pc = "reread"] /\ UNCHANGED <<connection, rows, consented>>
  <2> DEFINE r == [call[k] EXCEPT !.pc = "reread"]
  <2>1. /\ r \in CallRecord /\ call' = [call EXCEPT ![k] = r] /\ call'[k] = r
        /\ r.pc = "reread" /\ r.token = call[k].token /\ r.canonical = call[k].canonical
        /\ r.target = call[k].target
    BY <1>6, CallTurns
  <2> HIDE DEF r
  <2>2. CallShape(k)'
    BY <1>2, <1>3, <2>1 DEF CallShape
  <2>3. begun' \in 0..MaxBegun
    BY <1>1 DEF TableInv, ConnectionTypes
  <2> QED BY <1>1, <1>6, <2>1, <2>2, <2>3, CallsChange
<1> QED BY <1>4, <1>5, <1>6 DEF Request

LEMMA RereadKeeps == ASSUME TableInv, NEW k \in Calls, Reread(k) PROVE TableInv'
<1>1. call[k].pc = "reread" /\ UNCHANGED <<begun, connection, rows, consented, disclosed>>
  BY DEF Reread
<1>2. CASE Answer(k)
  BY <1>1, <1>2, AnswerKeeps
<1>3. ASSUME NEW i \in PairOf(call[k].canonical, call[k].target),
             call' = [call EXCEPT ![k].pc = "describe", ![k].row = connection[i]]
      PROVE  TableInv'
  <2>1. i \in 1..MaxRows /\ connection[i] \in RowType
        /\ call[k].canonical \in {connection[i].requester, connection[i].addressee}
    BY DEF PairOf, Live, TableInv, ConnectionTypes
  <2>2. RowConsent(connection[i], consented')
    BY <1>1, <2>1 DEF PairOf, Live, TableInv, RowsHaveConsent, RowConsent
  <2>3. Person(call[k].token) \in {connection[i].requester[1], connection[i].addressee[1]}
    BY <1>1, <2>1, CallersKnown
  <2>6. PICK r \in CallRecord : call' = [call EXCEPT ![k] = r] /\ CallShape(k)'
    BY <1>1, <1>3, <2>1, <2>2, <2>3, CallDescribes
  <2>7. begun' \in 0..MaxBegun
    BY <1>1 DEF TableInv, ConnectionTypes
  <2> QED BY <1>1, <2>6, <2>7, CallsChange
<1> QED BY <1>2, <1>3 DEF Reread

LEMMA AcceptKeeps == ASSUME TableInv, NEW k \in Calls, Accept(k) PROVE TableInv'
<1> DEFINE i == call[k].id
<1>1. call[k].pc = "accept" /\ UNCHANGED <<begun, rows, disclosed>>
  BY DEF Accept
<1>2. i \in 1..rows /\ rows \in 0..MaxRows /\ MaxRows \in Nat
  BY <1>1, ConnectionAssumption DEF TableInv, CallShape, ConnectionTypes
<1>3. i \in 1..MaxRows
  BY <1>2
<1>4. /\ call[k] \in CallRecord /\ call[k].token \in Tokens /\ call[k].canonical \in Ids
      /\ call[k].canonical[1] = Person(call[k].token) /\ Person(call[k].token) \in People
  BY <1>1, CallersKnown
<1>5. CASE /\ connection[i] # NoRow /\ AcceptedBy(k, i)
           /\ connection' = [connection EXCEPT ![i].state = "accepted"]
           /\ call' = [call EXCEPT ![k].pc = "describe", ![k].row = connection'[i]]
           /\ consented' = consented \cup
                    {<<Person(call[k].token), OtherFor({connection[i].addressee}, connection[i])[1]>>}
  <2> DEFINE was == connection[i]
             now == [was EXCEPT !.state = "accepted"]
  <2>1. was \in RowType /\ was.requester \in Ids /\ was.addressee \in Ids
    BY <1>3, <1>5 DEF TableInv, ConnectionTypes, RowType
  <2>2. now \in RowType /\ now.requester = was.requester /\ now.addressee = was.addressee
        /\ now.state = "accepted"
    BY <2>1 DEF RowType
  <2>3. connection' = [connection EXCEPT ![i] = now]
    BY <1>3, <1>5 DEF TableInv, ConnectionTypes
  <2>4. was.addressee[1] = Person(call[k].token)
    BY <1>4, <1>5, AliasesAreOwn DEF AcceptedBy, Matches
  <2>5. OtherFor({was.addressee}, was)[1] = was.requester[1]
    BY <2>1 DEF OtherFor
  <2>6. RowConsent(was, consented)
    BY <1>3, <1>5 DEF TableInv, RowsHaveConsent
  <2> HIDE DEF now, was
  <2>7. RowConsent(now, consented')
    BY <1>5, <2>2, <2>4, <2>5, <2>6 DEF RowConsent, was
  <2>8. /\ connection' \in [1..MaxRows -> RowType \cup {NoRow}] /\ connection'[i] = now
        /\ \A l \in 1..MaxRows : l # i => connection'[l] = connection[l]
    BY <1>3, <2>2, <2>3 DEF TableInv, ConnectionTypes
  <2>9. RowsHaveConsent'
    <3>1. ASSUME NEW l \in 1..MaxRows, connection'[l] # NoRow PROVE RowConsent(connection'[l], consented')
      <4>1. CASE l = i
        BY <2>7, <2>8, <4>1
      <4>2. CASE l # i
        BY <1>5, <2>8, <3>1, <4>2 DEF RowConsent, TableInv, RowsHaveConsent
      <4> QED BY <4>1, <4>2
    <3>2. \A l \in 1..MaxRows : l > rows' => connection'[l] = NoRow
      BY <1>1, <1>2, <2>8 DEF TableInv, RowsHaveConsent
    <3> QED BY <3>1, <3>2 DEF RowsHaveConsent
  <2>10. call' = [call EXCEPT ![k].pc = "describe", ![k].row = now]
    BY <1>5, <2>8
  <2>11. PICK r \in CallRecord : call' = [call EXCEPT ![k] = r] /\ CallShape(k)'
    BY <1>1, <2>2, <2>4, <2>7, <2>10, CallDescribes
  <2>12. consented \subseteq consented' /\ consented' \subseteq People \X People
    <3>1. was.requester[1] \in People
      BY <2>1, IdsOfPeople
    <3>2. consented' = consented \cup {<<Person(call[k].token), was.requester[1]>>}
      BY <1>5, <2>5 DEF was
    <3>3. consented \subseteq People \X People
      BY DEF TableInv, ConnectionTypes
    <3> QED BY <1>4, <3>1, <3>2, <3>3
  <2>13. \A l \in 1..rows : \/ connection'[l] = connection[l] \/ connection'[l] = NoRow
                            \/ connection'[l].state = "accepted"
    BY <1>2, <2>2, <2>8
  <2>14. rows' \in 0..MaxRows /\ rows <= rows' /\ begun' = begun /\ disclosed' = disclosed
    BY <1>1, <1>2
  <2> HIDE DEF i
  <2> QED BY <2>8, <2>9, <2>11, <2>12, <2>13, <2>14, TableStep
<1>6. CASE /\ ~(connection[i] # NoRow /\ connection[i].state = "pending" /\ AcceptedBy(k, i))
           /\ call' = [call EXCEPT ![k].pc = "why"] /\ UNCHANGED <<connection, consented>>
  <2> DEFINE r == [call[k] EXCEPT !.pc = "why"]
  <2>1. /\ r \in CallRecord /\ call' = [call EXCEPT ![k] = r] /\ call'[k] = r
        /\ r.pc = "why" /\ r.token = call[k].token /\ r.canonical = call[k].canonical
        /\ r.target = call[k].target /\ r.id = i
    BY <1>6, CallTurns
  <2> HIDE DEF r
  <2>2. connection[i] = NoRow \/ connection[i].state = "accepted" \/ ~Matches(k, connection[i].addressee)
    BY <1>3, <1>6 DEF AcceptedBy, TableInv, ConnectionTypes, RowType
  <2>3. CallShape(k)'
    BY <1>1, <1>2, <1>4, <1>6, <2>1, <2>2 DEF CallShape, Matches, Aliases
  <2>4. begun' \in 0..MaxBegun
    BY <1>1 DEF TableInv, ConnectionTypes
  <2> QED BY <1>1, <1>6, <2>1, <2>3, <2>4, CallsChange
<1> QED BY <1>5, <1>6 DEF Accept

LEMMA RefusalKeeps == ASSUME TableInv, NEW k \in Calls, ExplainRefusal(k) PROVE TableInv'
  BY AnswerKeeps DEF ExplainRefusal

LEMMA DeleteKeeps == ASSUME TableInv, NEW k \in Calls, Delete(k) PROVE TableInv'
<1> DEFINE i == call[k].id
<1>1. Answer(k) /\ call[k].pc = "delete" /\ UNCHANGED <<begun, rows, consented, disclosed>>
  BY DEF Delete
<1>2. i \in 1..rows /\ rows \in 0..MaxRows /\ MaxRows \in Nat
  BY <1>1, ConnectionAssumption DEF TableInv, CallShape, ConnectionTypes
<1>3. connection' = connection \/ connection' = [connection EXCEPT ![i] = NoRow]
  BY DEF Delete
<1>4. /\ connection' \in [1..MaxRows -> RowType \cup {NoRow}]
      /\ \A l \in 1..MaxRows : connection'[l] = connection[l] \/ connection'[l] = NoRow
  BY <1>2, <1>3 DEF TableInv, ConnectionTypes
<1>5. RowsHaveConsent'
  BY <1>1, <1>4 DEF TableInv, RowsHaveConsent
<1>6. Idle \in CallRecord /\ call' = [call EXCEPT ![k] = Idle] /\ CallShape(k)'
  BY <1>1, IdleCall
<1>7. consented' \subseteq People \X People /\ consented \subseteq consented'
  BY <1>1 DEF TableInv, ConnectionTypes
<1>8. \A l \in 1..rows : connection'[l] = connection[l] \/ connection'[l] = NoRow
  BY <1>2, <1>4
<1>9. rows' \in 0..MaxRows /\ rows <= rows'
  BY <1>1, <1>2
<1> QED BY <1>1, <1>4, <1>5, <1>6, <1>7, <1>8, <1>9, TableStep

\* An address is shown once both parties of its row have consented.
LEMMA ShownWithConsent ==
    ASSUME TableInv, NEW t \in Tokens, disclosed' \subseteq People \X People,
           \A d \in disclosed' : d \in disclosed \/ (d[1] = Person(t) /\ (d[1] # d[2] =>
               \E row \in RowType : /\ row.state = "accepted" /\ RowConsent(row, consented)
                                    /\ {d[1], d[2]} = {row.requester[1], row.addressee[1]})),
           call' \in [Calls -> CallRecord], \A k \in Calls : CallShape(k)',
           UNCHANGED <<connection, rows, begun, consented>>
    PROVE  TableInv'
<1>1. ConnectionTypes'
  BY DEF TableInv, ConnectionTypes
<1>2. RowsHaveConsent'
  BY DEF TableInv, RowsHaveConsent, RowConsent
<1>3. \A k \in Calls : CallShape(k)'
  OBVIOUS
<1>4. ASSUME NEW d \in disclosed', d[1] # d[2] PROVE <<d[2], d[1]>> \in consented
  <2>1. CASE d \in disclosed
    BY <1>4, <2>1 DEF TableInv, DisclosedWithConsent
  <2>2. CASE d \notin disclosed
    <3>1. PICK row \in RowType : /\ row.state = "accepted" /\ RowConsent(row, consented)
                                 /\ {d[1], d[2]} = {row.requester[1], row.addressee[1]}
      BY <1>4, <2>2
    <3>2. \/ d[1] = row.requester[1] /\ d[2] = row.addressee[1]
          \/ d[2] = row.requester[1] /\ d[1] = row.addressee[1]
      BY <3>1
    <3> QED BY <3>1, <3>2 DEF RowConsent
  <2> QED BY <2>1, <2>2
<1>5. DisclosedWithConsent'
  BY <1>4 DEF DisclosedWithConsent
<1> QED BY <1>1, <1>2, <1>3, <1>5 DEF TableInv

LEMMA DescribeKeeps == ASSUME ConnectionInv, NEW k \in Calls, Describe(k) PROVE ConnectionInv'
<1> DEFINE t     == call[k].token
           row   == call[k].row
           other == OtherFor(Aliases(call[k].canonical, t), row)
           uuid  == ResolveUUID(other, NoId)
           to    == IF uuid = NoId THEN other ELSE uuid
           shown == {<<Person(t), p>> : p \in {q \in GetByUUID(to) : shownEmail(row, q) # {}}}
<1>1. /\ call[k].pc = "describe" /\ Answer(k)
      /\ pushed' = pushed \/ (uuid # NoId /\ Send({uuid}))
      /\ disclosed' = disclosed \/ disclosed' = disclosed \cup shown
      /\ UNCHANGED <<directory, profile, walk, connection, rows, begun, consented>>
  BY DEF Describe
<1>2. TableInv /\ DirectoryInv /\ AttendeeInv
  BY DEF ConnectionInv, AttendeeInv
<1>3. t \in Tokens /\ call[k].canonical \in Ids /\ call[k].canonical[1] = Person(t) /\ Person(t) \in People
  BY <1>1, <1>2, CallersKnown
<1>4. row \in RowType /\ RowConsent(row, consented) /\ Person(t) \in {row.requester[1], row.addressee[1]}
  BY <1>1, <1>2 DEF TableInv, CallShape
<1> HIDE DEF t, row
<1>5. /\ other \in Ids
      /\ other[1] # Person(t) => {Person(t), other[1]} = {row.requester[1], row.addressee[1]}
  BY <1>3, <1>4, OtherParty DEF t
<1> HIDE DEF other
<1>6. uuid # NoId => /\ uuid \in Ids /\ uuid[1] = other[1]
                     /\ \E p \in Range(directory) : profile[p].idp = uuid
  BY <1>2, <1>5, ResolvesToPerson
<1> HIDE DEF uuid
<1>7. to \in Ids /\ to[1] = other[1]
  BY <1>5, <1>6
<1> HIDE DEF to
<1>8. AttendeeInv'
  <2>1. CASE pushed' = pushed
    BY <1>1, <1>2, <2>1, AttendeesStep DEF attendeeVars
  <2>2. CASE uuid # NoId /\ Send({uuid})
    <3>1. DirectoryInv'
      BY <1>1, <1>2, <1>6, <2>2, SendKeeps
    <3>2. WalkInv'
      BY <1>1, <1>2, RowsStay, GrowthKeepsWalk DEF AttendeeInv, DirectoryInv
    <3> QED BY <3>1, <3>2 DEF AttendeeInv
  <2> QED BY <1>1, <2>1, <2>2
<1>9. ASSUME NEW d \in shown
      PROVE  /\ d \in People \X People /\ d[1] = Person(t)
             /\ d[1] # d[2] => /\ row.state = "accepted"
                               /\ {d[1], d[2]} = {row.requester[1], row.addressee[1]}
  <2>1. PICK p \in GetByUUID(to) : shownEmail(row, p) # {} /\ d = <<Person(t), p>>
    OBVIOUS
  <2>2. p = to[1] /\ p \in People
    BY <1>2, <1>7, UuidIsPerson
  <2>3. row.state = "accepted"
    BY <2>1 DEF shownEmail
  <2> QED BY <1>3, <1>5, <1>7, <2>1, <2>2, <2>3
<1> HIDE DEF shown
<1>10. disclosed' \subseteq People \X People
  BY <1>1, <1>2, <1>9 DEF TableInv, ConnectionTypes
<1>11. \A d \in disclosed' : d \in disclosed \/ (d[1] = Person(t) /\ (d[1] # d[2] =>
               \E w \in RowType : /\ w.state = "accepted" /\ RowConsent(w, consented)
                                  /\ {d[1], d[2]} = {w.requester[1], w.addressee[1]}))
  BY <1>1, <1>4, <1>9
<1>12. Idle \in CallRecord /\ call' = [call EXCEPT ![k] = Idle] /\ CallShape(k)'
  BY <1>1, <1>2, IdleCall
<1>13. call' \in [Calls -> CallRecord]
  BY <1>2, <1>12 DEF TableInv, ConnectionTypes
<1>14. \A j \in Calls : CallShape(j)'
  <2>1. rows' \in 0..MaxRows /\ rows <= rows'
    BY <1>1, <1>2, ConnectionAssumption DEF TableInv, ConnectionTypes
  <2>2. \A j \in Calls : j # k => CallShape(j)'
    BY <1>1, <1>2, <1>12, <2>1, OtherCallsKeep
  <2> QED BY <1>12, <2>2
<1>15. TableInv'
  BY <1>1, <1>2, <1>3, <1>10, <1>11, <1>13, <1>14, ShownWithConsent
<1> QED BY <1>8, <1>15 DEF ConnectionInv

\* What a listing holds.
LEMMA ListedRows ==
    ASSUME NEW canonical, NEW t, NEW v \in Get(canonical, t)
    PROVE  /\ v.id \in Live /\ v.person \in People
           /\ {connection[v.id].requester, connection[v.id].addressee} \cap Aliases(canonical, t) # {}
           /\ v.person \in Named(OtherFor(Aliases(canonical, t), connection[v.id]))
           /\ v.email = (connection[v.id].state = "accepted")
  BY DEF Get

LEMMA ReadKeeps ==
    ASSUME ConnectionInv, NEW t \in Tokens, NEW failed \in BOOLEAN, ReadConnections(t, failed)
    PROVE  ConnectionInv'
<1> DEFINE me    == callerIdentity(t, failed)
           shown == {<<Person(t), v.person>> : v \in {w \in Get(me, t) : w.email}}
<1>1. disclosed' = disclosed \cup shown
      /\ UNCHANGED <<attendeeVars, connection, rows, call, begun, consented>>
  BY DEF ReadConnections
<1>2. TableInv /\ DirectoryInv /\ AttendeeInv
  BY DEF ConnectionInv, AttendeeInv
<1>3. me \in Ids /\ me[1] = Person(t) /\ Person(t) \in People
  BY <1>2, CallersOwnIds, IdsOfPeople
<1> HIDE DEF me
<1>4. ASSUME NEW d \in shown
      PROVE  /\ d \in People \X People /\ d[1] = Person(t)
             /\ d[1] # d[2] => \E w \in RowType : /\ w.state = "accepted" /\ RowConsent(w, consented)
                                                  /\ {d[1], d[2]} = {w.requester[1], w.addressee[1]}
  <2>1. PICK v \in Get(me, t) : v.email /\ d = <<Person(t), v.person>>
    OBVIOUS
  <2> DEFINE w == connection[v.id]
  <2>2. /\ v.id \in Live /\ v.person \in People /\ {w.requester, w.addressee} \cap Aliases(me, t) # {}
        /\ v.person \in Named(OtherFor(Aliases(me, t), w)) /\ w.state = "accepted"
    BY <2>1, ListedRows
  <2>3. w \in RowType /\ RowConsent(w, consented)
    BY <1>2, <2>2 DEF Live, TableInv, RowsHaveConsent, ConnectionTypes
  <2> HIDE DEF w
  <2>4. Person(t) \in {w.requester[1], w.addressee[1]}
    BY <1>3, <2>2, AliasesAreOwn
  <2> DEFINE other == OtherFor(Aliases(me, t), w)
  <2>5. other \in Ids /\ (other[1] # Person(t) =>
                {Person(t), other[1]} = {w.requester[1], w.addressee[1]})
    BY <1>3, <2>3, <2>4, OtherParty
  <2>6. v.person = other[1]
    BY <1>2, <2>2, <2>5, NamedIsPerson
  <2> QED BY <1>3, <2>1, <2>2, <2>3, <2>5, <2>6
<1> HIDE DEF shown
<1>5. disclosed' \subseteq People \X People
  BY <1>1, <1>2, <1>4 DEF TableInv, ConnectionTypes
<1>6. call' \in [Calls -> CallRecord]
  BY <1>1, <1>2 DEF TableInv, ConnectionTypes
<1>7. \A k \in Calls : CallShape(k)'
  BY <1>1, <1>2 DEF TableInv, CallShape, RowConsent, Matches, Aliases
<1>8. TableInv'
  BY <1>1, <1>2, <1>4, <1>5, <1>6, <1>7, ShownWithConsent
<1>9. AttendeeInv'
  BY <1>1, <1>2, AttendeesStay
<1> QED BY <1>8, <1>9 DEF ConnectionInv

LEMMA ConnectionStep == ConnectionInv /\ [ConnectionNext]_connectionVars => ConnectionInv'
<1> SUFFICES ASSUME ConnectionInv, [ConnectionNext]_connectionVars PROVE ConnectionInv'
  OBVIOUS
<1>1. CASE AttendeeWrite /\ UNCHANGED connectionOnly
  BY <1>1, WritesKeep, TableStays DEF ConnectionInv
<1>2. ASSUME NEW k \in Calls, NEW t \in Tokens, NEW failed \in BOOLEAN,
             \/ \E to \in Ids : Begin(k, t, "request", to, 0, failed)
             \/ \E op \in {"accept", "delete"}, i \in 1..rows : Begin(k, t, op, NoId, i, failed)
      PROVE  ConnectionInv'
  BY <1>2, BeginKeeps
<1>3. ASSUME NEW k \in Calls, Request(k) \/ Reread(k) \/ Accept(k) \/ ExplainRefusal(k) \/ Delete(k)
      PROVE  ConnectionInv'
  <2>1. TableInv'
    BY <1>3, RequestKeeps, RereadKeeps, AcceptKeeps, RefusalKeeps, DeleteKeeps DEF ConnectionInv
  <2>2. UNCHANGED attendeeVars
    BY <1>3 DEF Request, Reread, Accept, ExplainRefusal, Delete
  <2> QED BY <2>1, <2>2, AttendeesStay DEF ConnectionInv
<1>4. ASSUME NEW k \in Calls, Describe(k) PROVE ConnectionInv'
  BY <1>4, DescribeKeeps
<1>5. ASSUME NEW t \in Tokens, NEW failed \in BOOLEAN, ReadConnections(t, failed) PROVE ConnectionInv'
  BY <1>5, ReadKeeps
<1>6. CASE UNCHANGED connectionVars
  <2>1. UNCHANGED attendeeVars /\ UNCHANGED connectionOnly
    BY <1>6 DEF connectionVars, connectionOnly
  <2> QED BY <2>1, AttendeesStay, TableStays DEF ConnectionInv
<1> QED BY <1>1, <1>2, <1>3, <1>4, <1>5, <1>6 DEF ConnectionNext

\* A caller who is listed and bound, and whose email comes with the token, is known by the bound id.
LEMMA CallerOfRow ==
    ASSUME DirectoryInv, NEW t \in Tokens, t.email # NoId,
           Person(t) \in Range(directory), Claimed(Person(t))
    PROVE  callerIdentity(t, FALSE) = profile[Person(t)].idp
<1> DEFINE p       == Person(t)
           byIdp   == {l \in Range(directory) : Claimed(l) /\ [j \in People |-> profile[j].idp = t.sub][l]}
           bySub   == {l \in Range(directory) : Claimed(l) /\ [j \in People |-> EmailOf(j) = t.sub][l]}
           byEmail == {l \in Range(directory) : Claimed(l) /\ [j \in People |-> EmailOf(j) = t.email][l]}
           best    == IF byIdp # {} THEN byIdp ELSE IF bySub # {} THEN bySub ELSE byEmail
<1>1. p \in People /\ t.email = EmailOf(p) /\ t.sub \in Ids /\ t.email \in Ids /\ t.email[1] = t.sub[1]
  BY IdsOfPeople, AttendeeAssumption DEF Person
<1>2. Range(directory) \subseteq People
  BY DEF DirectoryInv, AttendeeTypeOK, Range
<1>3. p \in byEmail
  BY <1>1
<1>4. ASSUME NEW l \in best PROVE l = p
  <2>1. l \in byIdp => l \in People /\ Claimed(l) /\ profile[l].idp = t.sub
    BY <1>2
  <2>2. l \in bySub => l \in People /\ EmailOf(l) = t.sub
    BY <1>2
  <2>3. l \in byEmail => l \in People /\ EmailOf(l) = t.email
    BY <1>2
  <2>4. l \in byIdp \/ l \in bySub \/ l \in byEmail
    BY <1>4
  <2> HIDE DEF byIdp, bySub, byEmail, p
  <2>5. l \in byIdp => l = t.sub[1]
    BY <2>1 DEF DirectoryInv, OwnAccounts
  <2>6. (l \in bySub => l = t.sub[1]) /\ (l \in byEmail => l = t.sub[1])
    BY <1>1, <2>2, <2>3, IdsOfPeople
  <2> QED BY <2>4, <2>5, <2>6 DEF p, Person
<1>5. ResolveUUID(t.sub, t.email) = IF best = {} THEN NoId ELSE profile[CHOOSE l \in best : TRUE].idp
  BY DEF ResolveUUID
<1>6. best # {}
  BY <1>3
<1> HIDE DEF best, p
<1>7. (CHOOSE l \in best : TRUE) = p
  BY <1>4, <1>6
<1>8. ResolveUUID(t.sub, t.email) = profile[p].idp
  BY <1>5, <1>6, <1>7
<1>9. profile[p].idp # NoId
  BY DEF Claimed, p
<1> QED BY <1>8, <1>9 DEF callerIdentity, p

\* What the party me of a row that names both attendees is shown of it.
LEMMA PartySeesTheRow ==
    ASSUME ConnectionInv, NEW i \in Live, NEW t \in Tokens, t.email # NoId, NEW mine \in Ids, NEW other \in Ids,
           {connection[i].requester, connection[i].addressee} = {mine, other},
           Person(t) \in Named(mine), NEW q \in Named(other), q # Person(t)
    PROVE  LET seen == {v \in Get(callerIdentity(t, FALSE), t) : v.id = i} IN
           /\ {v.person : v \in seen} = {q}
           /\ {v.bucket : v \in seen} =
                {IF connection[i].state = "accepted" THEN "connections"
                 ELSE IF connection[i].requester = mine THEN "sent" ELSE "received"}
<1> DEFINE me   == callerIdentity(t, FALSE)
           row  == connection[i]
           ali  == Aliases(me, t)
           seen == {v \in Get(me, t) : v.id = i}
           bucket == IF row.state = "accepted" THEN "connections"
                     ELSE IF row.requester = mine THEN "sent" ELSE "received"
<1>1. DirectoryInv /\ TableInv
  BY DEF ConnectionInv, AttendeeInv
<1>2. i \in 1..MaxRows /\ row \in RowType /\ row.state \in {"pending", "accepted"}
  BY <1>1 DEF Live, TableInv, ConnectionTypes, RowType
<1>3. Person(t) = mine[1] /\ q = other[1] /\ q \in People /\ mine # other
  BY <1>1, NamedIsPerson
<1>4. Person(t) \in Range(directory) /\ Claimed(Person(t))
      /\ (profile[Person(t)].idp = mine \/ EmailOf(Person(t)) = mine)
  BY DEF Named
<1>5. me = profile[Person(t)].idp
  BY <1>1, <1>4, CallerOfRow
<1>6. me \in Ids /\ me[1] = Person(t)
  BY <1>1, CallersOwnIds
<1>7. t.email = EmailOf(Person(t))
  BY AttendeeAssumption DEF Person
<1>8. mine \in ali /\ other \notin ali
  <2>1. mine = me \/ mine = t.email
    BY <1>4, <1>5, <1>7
  <2>2. mine \in ali
    BY <2>1, AttendeeAssumption DEF Aliases
  <2>3. \A id \in ali : id[1] = Person(t)
    BY <1>6, AliasesAreOwn
  <2> QED BY <1>3, <2>2, <2>3
<1>9. OtherFor(ali, row) = other
  BY <1>8 DEF OtherFor
<1>10. {row.requester, row.addressee} \cap ali # {}
  BY <1>8
<1> HIDE DEF me, ali
<1> DEFINE item(n, p) ==
            [id |-> n, person |-> p,
             bucket |-> CASE connection[n].state = "accepted" -> "connections"
                          [] connection[n].state = "pending" /\ connection[n].requester \in ali -> "sent"
                          [] OTHER -> "received",
             email |-> connection[n].state = "accepted"]
           joined == {x \in Live \X People :
                        /\ {connection[x[1]].requester, connection[x[1]].addressee} \cap ali # {}
                        /\ x[2] \in Named(OtherFor(ali, connection[x[1]]))}
<1>11. Get(me, t) = {item(x[1], x[2]) : x \in joined}
  BY DEF Get, ali
<1>12. <<i, q>> \in joined
  BY <1>3, <1>9, <1>10
<1>13. \A x \in joined : x[1] = i => x[2] = q
  BY <1>1, <1>3, <1>9, NamedIsPerson
<1>14. row.requester \in ali <=> row.requester = mine
  BY <1>8
<1>15. item(i, q).id = i /\ item(i, q).person = q /\ item(i, q).bucket = bucket
  BY <1>2, <1>14
<1>16. \A x \in joined : item(x[1], x[2]).id = x[1] /\ x = <<x[1], x[2]>>
  OBVIOUS
<1> HIDE DEF item, joined, bucket
<1>17. seen = {item(i, q)}
  BY <1>11, <1>12, <1>13, <1>15, <1>16
<1> HIDE DEF seen
<1>18. {v.person : v \in seen} = {q} /\ {v.bucket : v \in seen} = {bucket}
  BY <1>15, <1>17
<1> QED BY <1>18 DEF seen, me, bucket

\* The listing that t's caller reads shows row i as the row of the attendees p, who asked, and q.
SeenBySide(i, p, q, t) ==
    LET other == IF Person(t) = p THEN q ELSE p
        seen == {v \in Get(callerIdentity(t, FALSE), t) : v.id = i}
    IN  /\ {v.person : v \in seen} = {other}
        /\ {v.bucket : v \in seen} =
            {IF connection[i].state = "accepted" THEN "connections"
             ELSE IF Person(t) = p THEN "sent" ELSE "received"}

LEMMA BothSidesSee ==
    ASSUME ConnectionInv, NEW i \in Live, NEW p \in Named(connection[i].requester),
           NEW q \in Named(connection[i].addressee), p # q, NEW t \in Tokens, t.email # NoId,
           Person(t) \in {p, q}
    PROVE  SeenBySide(i, p, q, t)
<1>1. connection[i].requester \in Ids /\ connection[i].addressee \in Ids
  BY DEF Live, ConnectionInv, TableInv, ConnectionTypes, RowType
<1>2. p = connection[i].requester[1] /\ q = connection[i].addressee[1]
  BY <1>1, NamedIsPerson DEF ConnectionInv, AttendeeInv
<1> DEFINE seen == {v \in Get(callerIdentity(t, FALSE), t) : v.id = i}
<1>3. CASE Person(t) = p
  <2>1. /\ {v.person : v \in seen} = {q}
        /\ {v.bucket : v \in seen} =
             {IF connection[i].state = "accepted" THEN "connections"
              ELSE IF connection[i].requester = connection[i].requester THEN "sent" ELSE "received"}
    BY <1>1, <1>3, PartySeesTheRow
  <2> QED BY <1>3, <2>1 DEF SeenBySide
<1>4. CASE Person(t) = q
  <2>1. connection[i].requester # connection[i].addressee
    BY <1>2
  <2>2. /\ {v.person : v \in seen} = {p}
        /\ {v.bucket : v \in seen} =
             {IF connection[i].state = "accepted" THEN "connections"
              ELSE IF connection[i].requester = connection[i].addressee THEN "sent" ELSE "received"}
    <3> DEFINE mine == connection[i].addressee
               other == connection[i].requester
    <3>1. {connection[i].requester, connection[i].addressee} = {mine, other}
      OBVIOUS
    <3>2. mine \in Ids /\ other \in Ids /\ Person(t) \in Named(mine) /\ p \in Named(other) /\ p # Person(t)
      BY <1>1, <1>4
    <3> QED BY <3>1, <3>2, PartySeesTheRow
  <2> QED BY <1>4, <2>1, <2>2 DEF SeenBySide
<1> QED BY <1>3, <1>4

LEMMA ConnectionsHold == ConnectionInv => ConnectionTypeOK /\ ConnectionSafety
<1> SUFFICES ASSUME ConnectionInv PROVE ConnectionTypeOK /\ ConnectionSafety
  OBVIOUS
<1>1. ConnectionTypeOK
  BY DEF ConnectionInv, AttendeeInv, DirectoryInv, TableInv, ConnectionTypes, CallRecord, ConnectionTypeOK
<1>2. DisclosedWithConsent
  BY DEF ConnectionInv, TableInv
<1>3. RefusalIsTrue
  BY DEF ConnectionInv, TableInv, CallShape, RefusalIsTrue
<1>4. BothSidesSeeTheRow
  <2>1. ASSUME NEW i \in Live, NEW p \in Named(connection[i].requester),
               NEW q \in Named(connection[i].addressee), p # q, NEW t \in Tokens,
               t.email # NoId /\ Person(t) \in {p, q}
        PROVE  SeenBySide(i, p, q, t)
    BY <2>1, BothSidesSee
  <2>2. \A i \in Live : \A p \in Named(connection[i].requester), q \in Named(connection[i].addressee) :
            p # q => \A t \in Tokens : t.email # NoId /\ Person(t) \in {p, q} => SeenBySide(i, p, q, t)
    BY <2>1
  <2> QED BY <2>2 DEF BothSidesSeeTheRow, SeenBySide
<1> QED BY <1>1, <1>2, <1>3, <1>4 DEF ConnectionSafety

\* Every variable of the connections has its type, the attendees' included.
THEOREM ConnectionsTyped == ConnectionSpec => []ConnectionTypeOK
<1>1. ConnectionInit => ConnectionInv
  BY ConnectionInitially
<1>2. ConnectionInv /\ [ConnectionNext]_connectionVars => ConnectionInv'
  BY ConnectionStep
<1>3. ConnectionInv => ConnectionTypeOK
  BY ConnectionsHold
<1> QED BY <1>1, <1>2, <1>3, PTL DEF ConnectionSpec

\* However requests, accepts, deletes and claims of a pair overlap, an email address is shown to the
\* other party only with consent, an accept is refused as too late only when it was, and a row between
\* two known attendees is in the listing of both.
THEOREM ConnectionsAreSafe == ConnectionSpec => []ConnectionSafety
<1>1. ConnectionInit => ConnectionInv
  BY ConnectionInitially
<1>2. ConnectionInv /\ [ConnectionNext]_connectionVars => ConnectionInv'
  BY ConnectionStep
<1>3. ConnectionInv => ConnectionSafety
  BY ConnectionsHold
<1> QED BY <1>1, <1>2, <1>3, PTL DEF ConnectionSpec

-----------------------------------------------------------------------------
(***************************************************************************)
(* Coins: the inductive invariant.  A scan that is accepted or about to be *)
(* owns the one row of its code and attendee; with a transfer job that     *)
(* takes up FAILED rows only, nobody else touches that row before the scan *)
(* has marked it.                                                          *)
(***************************************************************************)

ScanPhases == {"idle", "lookup", "insert", "mark", "done"}
ScanRecord ==
    [pc : ScanPhases, user : Scanners, code : Codes, event : Nat, answer : ScanAnswers]
Rows == [status : CoinStatuses \cup {"NONE"}, event : Nat, coins : Nat]

Owns(s) == scan[s].pc = "mark" \/ scan[s].answer = "accepted"
OwnersHaveRows == \A s \in Scans : Owns(s) => Exists(scan[s].code, scan[s].user)
OneOwner ==
    \A s, t \in Scans :
        Owns(s) /\ Owns(t) /\ scan[s].user = scan[t].user /\ scan[s].code = scan[t].code => s = t
AnswersAtTheEnd == \A s \in Scans : scan[s].answer # "none" => scan[s].pc = "done"

\* The history of every attendee is finite, and a row brings what its code is worth.
RowsAreOfCodes ==
    /\ \A u \in Scanners : IsFiniteSet({q \in Codes : Exists(q, u)})
    /\ \A q \in Codes, u \in Scanners : Exists(q, u) => allocation[<<q, u>>].coins = CodeInfo[q].coins

\* What only holds for a transfer job that leaves PENDING rows alone.
FreshRowsWait ==
    \A s \in Scans : scan[s].pc = "mark" => allocation[<<scan[s].code, scan[s].user>>].status = "PENDING"
PaidOnce ==
    \A q \in Codes, u \in Scanners : paid[<<q, u>>] = (IF allocation[<<q, u>>].status = "TRANSFERRED" THEN 1 ELSE 0)

CoinInv ==
    /\ CoinTypeOK /\ OwnersHaveRows /\ OneOwner /\ AnswersAtTheEnd /\ RowsAreOfCodes
    /\ CronTakes \subseteq {"FAILED"} => FreshRowsWait /\ PaidOnce

\* The first of the events.
LEMMA FirstEvent ==
    ASSUME NEW E \in SUBSET Nat, E # {}
    PROVE  (CHOOSE e \in E : \A d \in E : e <= d) \in E
<1>1. PICK n \in E : TRUE
    OBVIOUS
<1> DEFINE S == {d \in E : d <= n}
<1>2. n \in Nat /\ S \subseteq 0..n /\ S \subseteq Nat /\ n \in S
    <2>1. n \in Nat /\ \A d \in E : d \in Nat /\ d >= 0
        OBVIOUS
    <2>2. \A d \in S : d \in Nat /\ d >= 0 /\ d <= n
        BY <2>1
    <2>3. S \subseteq 0..n /\ S \subseteq Nat
        <3> HIDE DEF S
        <3> QED
            BY <2>1, <2>2
    <2>4. n <= n
        BY <2>1
    <2> QED
        BY <2>1, <2>3, <2>4
<1> HIDE DEF S
<1>3. IsFiniteSet(S) /\ S # {}
    <2>1. IsFiniteSet(0..n)
        BY <1>2, FS_Interval
    <2> QED
        BY <1>2, <2>1, FS_Subset
<1>4. PICK e \in S : \A d \in S : e <= d
    BY <1>2, <1>3, SmallestNumber
<1>5. e \in E /\ \A d \in E : e <= d
    BY <1>2, <1>4 DEF S
<1> QED
    BY <1>5

LEMMA CoinInitially == ASSUME CoinInit PROVE CoinInv
<1>1. coinEvent \in CoinEvents
    BY CoinAssumption, FirstEvent DEF CoinInit
<1>2. CoinTypeOK
    BY <1>1, CoinAssumption DEF CoinInit, CoinTypeOK, NoAllocation, ScanAnswers
<1>3. \A s \in Scans : scan[s].pc = "idle" /\ scan[s].answer = "none"
    BY DEF CoinInit
<1>4. \A q \in Codes, u \in Scanners : ~Exists(q, u) /\ allocation[<<q, u>>].status = "NONE" /\ paid[<<q, u>>] = 0
    BY DEF CoinInit, Exists, NoAllocation
<1>5. \A u \in Scanners : {q \in Codes : Exists(q, u)} = {}
    BY <1>4
<1>6. RowsAreOfCodes
    BY <1>4, <1>5, FS_EmptySet DEF RowsAreOfCodes
<1> QED
    BY <1>2, <1>3, <1>4, <1>6 DEF CoinInv, OwnersHaveRows, OneOwner, AnswersAtTheEnd, Owns, FreshRowsWait, PaidOnce

\* A scan moves on, to be accepted only from "mark", and changes no row.
ScanMoves(s, r) ==
    /\ r \in ScanRecord /\ r.user = scan[s].user /\ r.code = scan[s].code
    /\ r.pc # "mark" /\ (r.answer = "accepted" => scan[s].pc = "mark")
    /\ (r.answer # "none" => r.pc = "done")
    /\ scan' = [scan EXCEPT ![s] = r]

\* The answer that ends a scan, and a step on its way.
LEMMA ScanFields ==
    ASSUME NEW r \in ScanRecord
    PROVE  /\ \A answer \in ScanAnswers : [[r EXCEPT !.pc = "done"] EXCEPT !.answer = answer]
                = [pc |-> "done", user |-> r.user, code |-> r.code, event |-> r.event, answer |-> answer]
           /\ \A pc \in ScanPhases : [r EXCEPT !.pc = pc]
                = [pc |-> pc, user |-> r.user, code |-> r.code, event |-> r.event, answer |-> r.answer]
           /\ \A e \in Nat : [[r EXCEPT !.pc = "insert"] EXCEPT !.event = e]
                = [pc |-> "insert", user |-> r.user, code |-> r.code, event |-> e, answer |-> r.answer]
<1>1. ASSUME NEW q \in ScanRecord
      PROVE  /\ \A answer \in ScanAnswers : [q EXCEPT !.answer = answer]
                    = [pc |-> q.pc, user |-> q.user, code |-> q.code, event |-> q.event, answer |-> answer]
             /\ \A pc \in ScanPhases : [q EXCEPT !.pc = pc]
                    = [pc |-> pc, user |-> q.user, code |-> q.code, event |-> q.event, answer |-> q.answer]
             /\ \A e \in Nat : [q EXCEPT !.event = e]
                    = [pc |-> q.pc, user |-> q.user, code |-> q.code, event |-> e, answer |-> q.answer]
    <2>1. \A answer \in ScanAnswers : [q EXCEPT !.answer = answer]
            = [pc |-> q.pc, user |-> q.user, code |-> q.code, event |-> q.event, answer |-> answer]
        BY DEF ScanRecord
    <2>2. \A pc \in ScanPhases : [q EXCEPT !.pc = pc]
            = [pc |-> pc, user |-> q.user, code |-> q.code, event |-> q.event, answer |-> q.answer]
        BY DEF ScanRecord
    <2>3. \A e \in Nat : [q EXCEPT !.event = e]
            = [pc |-> q.pc, user |-> q.user, code |-> q.code, event |-> e, answer |-> q.answer]
        BY DEF ScanRecord
    <2> QED
        BY <2>1, <2>2, <2>3
<1>2. ASSUME NEW pc \in ScanPhases
      PROVE  /\ [r EXCEPT !.pc = pc] \in ScanRecord /\ [r EXCEPT !.pc = pc].pc = pc
             /\ [r EXCEPT !.pc = pc].user = r.user /\ [r EXCEPT !.pc = pc].code = r.code
             /\ [r EXCEPT !.pc = pc].event = r.event /\ [r EXCEPT !.pc = pc].answer = r.answer
    BY DEF ScanRecord
<1>3. \A answer \in ScanAnswers : [[r EXCEPT !.pc = "done"] EXCEPT !.answer = answer]
        = [pc |-> "done", user |-> r.user, code |-> r.code, event |-> r.event, answer |-> answer]
    <2> DEFINE q == [r EXCEPT !.pc = "done"]
    <2>1. q \in ScanRecord /\ q.pc = "done" /\ q.user = r.user /\ q.code = r.code /\ q.event = r.event
        BY <1>2 DEF ScanPhases
    <2> HIDE DEF q
    <2>2. \A answer \in ScanAnswers : [q EXCEPT !.answer = answer]
            = [pc |-> "done", user |-> r.user, code |-> r.code, event |-> r.event, answer |-> answer]
        BY <1>1, <2>1
    <2> QED
        BY <2>2 DEF q
<1>4. \A e \in Nat : [[r EXCEPT !.pc = "insert"] EXCEPT !.event = e]
        = [pc |-> "insert", user |-> r.user, code |-> r.code, event |-> e, answer |-> r.answer]
    <2> DEFINE q == [r EXCEPT !.pc = "insert"]
    <2>1. q \in ScanRecord /\ q.pc = "insert" /\ q.user = r.user /\ q.code = r.code /\ q.answer = r.answer
        BY <1>2 DEF ScanPhases
    <2> HIDE DEF q
    <2>2. \A e \in Nat : [q EXCEPT !.event = e]
            = [pc |-> "insert", user |-> r.user, code |-> r.code, event |-> e, answer |-> r.answer]
        BY <1>1, <2>1
    <2> QED
        BY <2>2 DEF q
<1> QED
    BY <1>1, <1>3, <1>4

LEMMA AnswerMoves ==
    ASSUME CoinInv, NEW s \in Scans, NEW answer \in ScanAnswers, AnswerScan(s, answer),
           answer = "accepted" => scan[s].pc = "mark"
    PROVE  \E r : ScanMoves(s, r) /\ r.answer = answer /\ r.pc = "done"
<1> DEFINE r == [pc |-> "done", user |-> scan[s].user, code |-> scan[s].code, event |-> scan[s].event,
                 answer |-> answer]
<1>1. scan \in [Scans -> ScanRecord]
    BY DEF CoinInv, CoinTypeOK, ScanRecord, ScanPhases
<1>2. scan' = [scan EXCEPT ![s] = [[scan[s] EXCEPT !.pc = "done"] EXCEPT !.answer = answer]]
    BY <1>1 DEF AnswerScan
<1>3. scan' = [scan EXCEPT ![s] = r]
    BY <1>1, <1>2, ScanFields DEF ScanPhases
<1>4. r \in ScanRecord /\ r.pc = "done" /\ r.answer = answer /\ r.user = scan[s].user /\ r.code = scan[s].code
    BY <1>1 DEF ScanRecord, ScanPhases
<1> HIDE DEF r
<1> QED
    BY <1>3, <1>4 DEF ScanMoves

\* Scans that move on without a row keep the invariant.
LEMMA MovesKeep ==
    ASSUME CoinInv, NEW s \in Scans, NEW r, ScanMoves(s, r), scan[s].pc # "mark" \/ r.pc = "done",
           UNCHANGED <<allocation, paid, showFullName, coinEvent, clock>>
    PROVE  CoinInv'
<1>1. scan \in [Scans -> ScanRecord] /\ scan' \in [Scans -> ScanRecord]
      /\ scan'[s] = r /\ \A t \in Scans \ {s} : scan'[t] = scan[t]
    BY DEF ScanMoves, CoinInv, CoinTypeOK, ScanRecord, ScanPhases
<1>2. \A t \in Scans : /\ scan'[t].user = scan[t].user /\ scan'[t].code = scan[t].code
                       /\ Owns(t)' => Owns(t)
                       /\ scan'[t].pc = "mark" => scan[t].pc = "mark"
    BY <1>1 DEF ScanMoves, Owns
<1>3. CoinTypeOK'
    BY <1>1 DEF CoinInv, CoinTypeOK, ScanRecord, ScanPhases
<1>4. OwnersHaveRows' /\ OneOwner' /\ RowsAreOfCodes'
    BY <1>2 DEF CoinInv, OwnersHaveRows, OneOwner, RowsAreOfCodes, Exists
<1>5. AnswersAtTheEnd'
    BY <1>1 DEF CoinInv, AnswersAtTheEnd, ScanMoves
<1>6. CronTakes \subseteq {"FAILED"} => FreshRowsWait' /\ PaidOnce'
    BY <1>2 DEF CoinInv, FreshRowsWait, PaidOnce
<1> QED
    BY <1>3, <1>4, <1>5, <1>6 DEF CoinInv

LEMMA BeginScanKeeps == ASSUME CoinInv, NEW s \in Scans, BeginScan(s) PROVE CoinInv'
<1>1. scan \in [Scans -> ScanRecord] /\ scan[s].pc = "idle"
    BY DEF BeginScan, CoinInv, CoinTypeOK, ScanRecord, ScanPhases
<1>2. UNCHANGED <<allocation, paid, showFullName, coinEvent, clock>>
    BY DEF BeginScan
<1>3. CASE scan' = [scan EXCEPT ![s].pc = "lookup"]
    <2> DEFINE r == [pc |-> "lookup", user |-> scan[s].user, code |-> scan[s].code, event |-> scan[s].event,
                     answer |-> scan[s].answer]
    <2>1. scan' = [scan EXCEPT ![s] = [scan[s] EXCEPT !.pc = "lookup"]]
        BY <1>1, <1>3
    <2>2. scan' = [scan EXCEPT ![s] = r]
        BY <1>1, <2>1, ScanFields DEF ScanPhases
    <2>3. r \in ScanRecord /\ r.pc = "lookup" /\ r.answer = "none" /\ r.user = scan[s].user /\ r.code = scan[s].code
        BY <1>1 DEF ScanRecord, ScanPhases, CoinInv, AnswersAtTheEnd
    <2> HIDE DEF r
    <2>4. ScanMoves(s, r)
        BY <2>2, <2>3 DEF ScanMoves
    <2> QED
        BY <1>1, <1>2, <2>4, MovesKeep
<1>4. CASE \E answer \in ScanAnswers \ {"accepted"} : AnswerScan(s, answer)
    BY <1>2, <1>4, AnswerMoves, MovesKeep
<1> QED
    BY <1>3, <1>4 DEF BeginScan, ScanAnswers

LEMMA LookUpScanKeeps == ASSUME CoinInv, NEW s \in Scans, LookUpScan(s) PROVE CoinInv'
<1>1. scan \in [Scans -> ScanRecord] /\ scan[s].pc = "lookup"
    BY DEF LookUpScan, CoinInv, CoinTypeOK, ScanRecord, ScanPhases
<1>2. UNCHANGED <<allocation, paid, showFullName, coinEvent, clock>>
    BY DEF LookUpScan
<1>3. CASE scan' = [scan EXCEPT ![s].pc = "insert", ![s].event = coinEvent]
    <2> DEFINE r == [pc |-> "insert", user |-> scan[s].user, code |-> scan[s].code, event |-> coinEvent,
                     answer |-> scan[s].answer]
    <2>1. scan' = [scan EXCEPT ![s] = [[scan[s] EXCEPT !.pc = "insert"] EXCEPT !.event = coinEvent]]
        BY <1>1, <1>3
    <2>2. coinEvent \in Nat
        BY CoinAssumption DEF CoinInv, CoinTypeOK
    <2>3. scan' = [scan EXCEPT ![s] = r]
        BY <1>1, <2>1, <2>2, ScanFields DEF ScanPhases
    <2>4. r \in ScanRecord /\ r.pc = "insert" /\ r.answer = "none" /\ r.user = scan[s].user /\ r.code = scan[s].code
        BY <1>1, <2>2 DEF ScanRecord, ScanPhases, CoinInv, AnswersAtTheEnd
    <2> HIDE DEF r
    <2>5. ScanMoves(s, r)
        BY <2>3, <2>4 DEF ScanMoves
    <2> QED
        BY <1>1, <1>2, <2>5, MovesKeep
<1>4. CASE \E answer \in ScanAnswers \ {"accepted"} : AnswerScan(s, answer)
    BY <1>2, <1>4, AnswerMoves, MovesKeep
<1>5. validateSessionWindow(scan[s].code) \in {"error", "notStarted", "expired", "none"}
    BY DEF validateSessionWindow
<1> QED
    BY <1>3, <1>4, <1>5 DEF LookUpScan, ScanAnswers

\* A statement on an existing row changes its status and nothing else about any row.
LEMMA StatusChanges ==
    ASSUME CoinInv, NEW q \in Codes, NEW u \in Scanners, Exists(q, u), NEW status \in CoinStatuses,
           allocation' = [allocation EXCEPT ![<<q, u>>].status = status]
    PROVE  /\ allocation' \in [Codes \X Scanners -> Rows] /\ RowsAreOfCodes'
           /\ allocation'[<<q, u>>].status = status
           /\ \A p \in Codes, v \in Scanners :
                /\ Exists(p, v)' <=> Exists(p, v)
                /\ p # q \/ v # u => allocation'[<<p, v>>] = allocation[<<p, v>>]
<1>1. allocation \in [Codes \X Scanners -> Rows]
    BY DEF CoinInv, CoinTypeOK, Rows
<1> DEFINE old == allocation[<<q, u>>]
           new == [status |-> status, event |-> old.event, coins |-> old.coins]
<1>2. old \in Rows /\ new \in Rows /\ [old EXCEPT !.status = status] = new
    <2>1. old \in Rows
        BY <1>1
    <2> HIDE DEF old
    <2> QED
        BY <2>1 DEF Rows
<1>3. allocation' = [allocation EXCEPT ![<<q, u>>] = new]
    BY <1>1, <1>2
<1>4. new.status = status /\ new.coins = old.coins
    OBVIOUS
<1> HIDE DEF new
<1>5. /\ allocation' \in [Codes \X Scanners -> Rows] /\ allocation'[<<q, u>>] = new
      /\ \A p \in Codes, v \in Scanners :
            p # q \/ v # u => allocation'[<<p, v>>] = allocation[<<p, v>>]
    BY <1>1, <1>2, <1>3
<1>6. ASSUME NEW p \in Codes, NEW v \in Scanners
      PROVE  (Exists(p, v)' <=> Exists(p, v)) /\ allocation'[<<p, v>>].coins = allocation[<<p, v>>].coins
    <2>1. CASE p # q \/ v # u
        BY <1>5, <2>1 DEF Exists
    <2>2. CASE p = q /\ v = u
        BY <1>4, <1>5, <2>2 DEF Exists, CoinStatuses
    <2> QED
        BY <2>1, <2>2
<1>7. \A v \in Scanners : {p \in Codes : Exists(p, v)'} = {p \in Codes : Exists(p, v)}
    BY <1>6
<1>8. RowsAreOfCodes'
    BY <1>6, <1>7 DEF CoinInv, RowsAreOfCodes
<1> QED
    BY <1>4, <1>5, <1>6, <1>8

LEMMA InsertKeeps == ASSUME CoinInv, NEW s \in Scans, InsertAllocation(s) PROVE CoinInv'
<1> DEFINE u == scan[s].user
           q == scan[s].code
           new == [status |-> "PENDING", event |-> scan[s].event, coins |-> CodeInfo[q].coins]
           r == [pc |-> "mark", user |-> u, code |-> q, event |-> scan[s].event, answer |-> scan[s].answer]
<1>1. /\ scan \in [Scans -> ScanRecord] /\ scan[s].pc = "insert" /\ u \in Scanners /\ q \in Codes
      /\ allocation \in [Codes \X Scanners -> Rows] /\ scan[s].event \in Nat
      /\ UNCHANGED <<paid, showFullName, coinEvent, clock>>
    BY DEF InsertAllocation, CoinInv, CoinTypeOK, ScanRecord, ScanPhases, Rows
<1>2. CASE Exists(q, u)
    <2>1. AnswerScan(s, "alreadyScanned") /\ UNCHANGED allocation
        BY <1>2 DEF InsertAllocation
    <2> QED
        BY <1>1, <2>1, AnswerMoves, MovesKeep DEF ScanAnswers
<1>3. CASE ~Exists(q, u)
    <2>1. allocation' = [allocation EXCEPT ![<<q, u>>] = new] /\ scan' = [scan EXCEPT ![s].pc = "mark"]
        BY <1>3 DEF InsertAllocation
    <2>2. scan' = [scan EXCEPT ![s] = r]
        <3>1. scan' = [scan EXCEPT ![s] = [scan[s] EXCEPT !.pc = "mark"]]
            BY <1>1, <2>1
        <3> QED
            BY <1>1, <3>1, ScanFields DEF ScanPhases
    <2>3. new \in Rows /\ new.status = "PENDING" /\ new.coins = CodeInfo[q].coins
        BY <1>1, CoinAssumption DEF Rows, CoinStatuses
    <2>4. r \in ScanRecord /\ r.pc = "mark" /\ r.user = u /\ r.code = q /\ r.answer = "none"
        BY <1>1 DEF ScanRecord, ScanPhases, CoinInv, AnswersAtTheEnd
    <2> HIDE DEF new, r
    <2>5. /\ allocation' \in [Codes \X Scanners -> Rows] /\ allocation'[<<q, u>>] = new
          /\ \A p \in Codes, v \in Scanners :
                p # q \/ v # u => allocation'[<<p, v>>] = allocation[<<p, v>>]
        BY <1>1, <2>1, <2>3
    <2>6. /\ scan' \in [Scans -> ScanRecord] /\ scan'[s] = r
          /\ \A t \in Scans \ {s} : scan'[t] = scan[t]
        BY <1>1, <2>2, <2>4
    <2>7. \A p \in Codes, v \in Scanners : Exists(p, v)' <=> (Exists(p, v) \/ (p = q /\ v = u))
        BY <2>3, <2>5 DEF Exists
    <2>8. CoinTypeOK'
        BY <1>1, <2>5, <2>6 DEF CoinInv, CoinTypeOK, ScanRecord, ScanPhases, Rows
    <2>9. \A t \in Scans : /\ scan[t].user \in Scanners /\ scan[t].code \in Codes
                           /\ scan'[t].user = scan[t].user /\ scan'[t].code = scan[t].code
                           /\ t # s => (Owns(t)' <=> Owns(t))
        BY <1>1, <2>4, <2>6 DEF Owns, ScanRecord
    <2>10. \A t \in Scans \ {s} : Owns(t) => scan[t].user # u \/ scan[t].code # q
        BY <1>3 DEF CoinInv, OwnersHaveRows
    <2>11. OwnersHaveRows'
        BY <2>4, <2>6, <2>7, <2>9 DEF CoinInv, OwnersHaveRows
    <2>12. OneOwner'
        BY <2>9, <2>10 DEF CoinInv, OneOwner
    <2>13. AnswersAtTheEnd'
        BY <2>4, <2>6 DEF CoinInv, AnswersAtTheEnd
    <2>14. RowsAreOfCodes'
        <3>1. ASSUME NEW v \in Scanners PROVE IsFiniteSet({p \in Codes : Exists(p, v)'})
            <4>1. {p \in Codes : Exists(p, v)'} \in {{p \in Codes : Exists(p, v)}, {p \in Codes : Exists(p, v)} \cup {q}}
                <5>1. CASE v = u
                    BY <1>1, <2>7, <5>1
                <5>2. CASE v # u
                    BY <1>1, <2>7, <5>2
                <5> QED
                    BY <5>1, <5>2
            <4> QED
                BY <4>1, FS_AddElement DEF CoinInv, RowsAreOfCodes
        <3>2. ASSUME NEW p \in Codes, NEW v \in Scanners, Exists(p, v)'
              PROVE  allocation'[<<p, v>>].coins = CodeInfo[p].coins
            BY <2>3, <2>5, <2>7, <3>2 DEF CoinInv, RowsAreOfCodes
        <3> QED
            BY <3>1, <3>2 DEF RowsAreOfCodes
    <2>15. ASSUME CronTakes \subseteq {"FAILED"} PROVE FreshRowsWait' /\ PaidOnce'
        <3>1. FreshRowsWait /\ PaidOnce
            BY <2>15 DEF CoinInv
        <3>2. ASSUME NEW t \in Scans, scan'[t].pc = "mark"
              PROVE  allocation'[<<scan'[t].code, scan'[t].user>>].status = "PENDING"
            <4>1. CASE t = s
                BY <2>3, <2>4, <2>5, <2>6, <4>1
            <4>2. CASE t # s
                <5>1. scan'[t] = scan[t] /\ scan[t].pc = "mark" /\ Owns(t)
                    BY <2>6, <3>2, <4>2 DEF Owns
                <5>2. /\ allocation[<<scan[t].code, scan[t].user>>].status = "PENDING"
                      /\ scan[t].code # q \/ scan[t].user # u
                      /\ scan[t].code \in Codes /\ scan[t].user \in Scanners
                    BY <2>9, <2>10, <3>1, <4>2, <5>1 DEF FreshRowsWait
                <5>3. allocation'[<<scan[t].code, scan[t].user>>] = allocation[<<scan[t].code, scan[t].user>>]
                    BY <2>5, <5>2
                <5> QED
                    BY <5>1, <5>2, <5>3
            <4> QED
                BY <4>1, <4>2
        <3>3. paid[<<q, u>>] = 0
            BY <1>1, <1>3, <3>1 DEF PaidOnce, Exists
        <3>4. PaidOnce'
            BY <1>1, <2>3, <2>5, <3>1, <3>3 DEF PaidOnce
        <3> QED
            BY <3>2, <3>4 DEF FreshRowsWait
    <2> QED
        BY <2>8, <2>11, <2>12, <2>13, <2>14, <2>15 DEF CoinInv
<1> QED
    BY <1>2, <1>3

LEMMA MarkFailedKeeps == ASSUME CoinInv, NEW s \in Scans, MarkFailed(s) PROVE CoinInv'
<1> DEFINE u == scan[s].user
           q == scan[s].code
<1>1. /\ scan \in [Scans -> ScanRecord] /\ scan[s].pc = "mark" /\ u \in Scanners /\ q \in Codes
      /\ UNCHANGED <<paid, showFullName, coinEvent, clock>> /\ AnswerScan(s, "accepted") /\ Exists(q, u)
      /\ allocation \in [Codes \X Scanners -> Rows]
    BY DEF MarkFailed, CoinInv, CoinTypeOK, ScanRecord, ScanPhases, OwnersHaveRows, Owns, Rows
<1>2. PICK r : ScanMoves(s, r) /\ r.pc = "done"
    BY <1>1, AnswerMoves DEF ScanAnswers
<1>3. CASE UNCHANGED allocation
    BY <1>1, <1>2, <1>3, MovesKeep
<1>4. CASE UpdateStatus(q, u, "FAILED")
    <2>1. allocation' = [allocation EXCEPT ![<<q, u>>].status = "FAILED"]
        BY <1>1, <1>4 DEF UpdateStatus, Exists
    <2>2. /\ allocation' \in [Codes \X Scanners -> Rows] /\ RowsAreOfCodes'
          /\ allocation'[<<q, u>>].status = "FAILED"
          /\ \A p \in Codes, v \in Scanners :
                /\ Exists(p, v)' <=> Exists(p, v)
                /\ p # q \/ v # u => allocation'[<<p, v>>] = allocation[<<p, v>>]
        BY <1>1, <2>1, StatusChanges DEF CoinStatuses
    <2>3. /\ scan' \in [Scans -> ScanRecord] /\ scan'[s] = r
          /\ \A t \in Scans \ {s} : scan'[t] = scan[t]
        BY <1>1, <1>2 DEF ScanMoves
    <2>4. \A t \in Scans : /\ scan[t].user \in Scanners /\ scan[t].code \in Codes
                           /\ scan'[t].user = scan[t].user /\ scan'[t].code = scan[t].code
                           /\ Owns(t)' => Owns(t)
                           /\ scan'[t].pc = "mark" => t # s /\ scan[t].pc = "mark"
        BY <1>1, <1>2, <2>3 DEF ScanMoves, Owns, ScanRecord
    <2>5. CoinTypeOK'
        BY <1>1, <2>2, <2>3 DEF CoinInv, CoinTypeOK, ScanRecord, ScanPhases, Rows
    <2>6. OwnersHaveRows' /\ OneOwner'
        <3> HIDE DEF u, q
        <3>1. ASSUME NEW t \in Scans, Owns(t)' PROVE Exists(scan[t].code, scan[t].user)'
            <4>1. Exists(scan[t].code, scan[t].user)
                BY <2>4, <3>1 DEF CoinInv, OwnersHaveRows
            <4>2. \A p \in Codes, v \in Scanners : Exists(p, v)' <=> Exists(p, v)
                BY ONLY <2>2
            <4>3. \A p \in Codes, v \in Scanners : Exists(p, v) => allocation'[<<p, v>>].status # "NONE"
                BY <4>2 DEF Exists
            <4> QED BY <2>4, <4>1, <4>3 DEF Exists
        <3>2. OwnersHaveRows'
            BY <3>1 DEF OwnersHaveRows
        <3>3. OneOwner'
            BY ONLY <2>4, CoinInv DEF CoinInv, OneOwner
        <3> QED BY <3>2, <3>3
    <2>7. AnswersAtTheEnd'
        BY <1>2, <2>3 DEF CoinInv, AnswersAtTheEnd, ScanMoves
    <2>8. ASSUME CronTakes \subseteq {"FAILED"} PROVE FreshRowsWait' /\ PaidOnce'
        <3>1. FreshRowsWait /\ PaidOnce /\ allocation[<<q, u>>].status = "PENDING"
            BY <1>1, <2>8 DEF CoinInv, FreshRowsWait
        <3>2. paid[<<q, u>>] = 0
            BY <1>1, <3>1 DEF PaidOnce
        <3>3. PaidOnce'
            <4>1. ASSUME NEW p \in Codes, NEW v \in Scanners
                  PROVE  paid[<<p, v>>] = (IF allocation'[<<p, v>>].status = "TRANSFERRED" THEN 1 ELSE 0)
                <5>1. CASE p = q /\ v = u
                    BY <2>2, <3>2, <5>1
                <5>2. CASE p # q \/ v # u
                    BY <2>2, <3>1, <5>2 DEF PaidOnce
                <5> QED
                    BY <5>1, <5>2
            <4> QED
                BY <1>1, <4>1 DEF PaidOnce
        <3>4. ASSUME NEW t \in Scans, scan'[t].pc = "mark"
              PROVE  allocation'[<<scan'[t].code, scan'[t].user>>].status = "PENDING"
            <4>1. scan[t].user # u \/ scan[t].code # q
                BY <1>1, <2>4, <3>4 DEF CoinInv, OneOwner, Owns
            <4> QED
                BY <2>2, <2>4, <3>1, <3>4, <4>1 DEF FreshRowsWait
        <3> QED
            BY <3>3, <3>4 DEF FreshRowsWait
    <2> QED
        BY <2>2, <2>5, <2>6, <2>7, <2>8 DEF CoinInv
<1> QED
    BY <1>3, <1>4 DEF MarkFailed

LEMMA FailScanKeeps == ASSUME CoinInv, NEW s \in Scans, FailScan(s) PROVE CoinInv'
BY AnswerMoves, MovesKeep DEF FailScan, ScanAnswers

\* The transfer job moves a row from one status to another, and pays when it says so.
LEMMA JobKeeps ==
    ASSUME CoinInv, NEW q \in Codes, NEW u \in Scanners, Exists(q, u), NEW status \in CoinStatuses,
           allocation' = [allocation EXCEPT ![<<q, u>>].status = status],
           paid' \in [Codes \X Scanners -> Nat],
           CronTakes \subseteq {"FAILED"} => allocation[<<q, u>>].status # "PENDING" /\ PaidOnce',
           UNCHANGED <<scan, showFullName, coinEvent, clock>>
    PROVE  CoinInv'
<1>1. /\ allocation' \in [Codes \X Scanners -> Rows] /\ RowsAreOfCodes'
      /\ \A p \in Codes, v \in Scanners :
            /\ Exists(p, v)' <=> Exists(p, v)
            /\ p # q \/ v # u => allocation'[<<p, v>>] = allocation[<<p, v>>]
    BY StatusChanges
<1>2. \A t \in Scans : scan[t].user \in Scanners /\ scan[t].code \in Codes
    BY DEF CoinInv, CoinTypeOK
<1>3. CoinTypeOK'
    BY <1>1 DEF CoinInv, CoinTypeOK, Rows
<1>4. OwnersHaveRows' /\ OneOwner' /\ AnswersAtTheEnd'
    <2>1. \A t \in Scans : scan'[t] = scan[t] /\ (Owns(t)' <=> Owns(t))
        BY DEF Owns
    <2>2. OwnersHaveRows'
        BY <1>1, <1>2, <2>1 DEF CoinInv, OwnersHaveRows
    <2>3. OneOwner'
        BY <2>1 DEF CoinInv, OneOwner
    <2>4. AnswersAtTheEnd'
        BY <2>1 DEF CoinInv, AnswersAtTheEnd
    <2> QED
        BY <2>2, <2>3, <2>4
<1>5. CronTakes \subseteq {"FAILED"} => FreshRowsWait' /\ PaidOnce'
    BY <1>1, <1>2 DEF CoinInv, FreshRowsWait
<1> QED
    BY <1>1, <1>3, <1>4, <1>5 DEF CoinInv

LEMMA TakeUpKeeps ==
    ASSUME CoinInv, NEW q \in Codes, NEW u \in Scanners, TakeUp(q, u) PROVE CoinInv'
<1>1. allocation[<<q, u>>].status \in CoinStatuses /\ Exists(q, u)
    BY CoinAssumption DEF TakeUp, CoinStatuses, Exists
<1>2. allocation' = [allocation EXCEPT ![<<q, u>>].status = "PROCESSING"]
      /\ UNCHANGED <<scan, paid, showFullName, coinEvent, clock>> /\ paid \in [Codes \X Scanners -> Nat]
    BY DEF TakeUp, CoinInv, CoinTypeOK
<1>3. ASSUME CronTakes \subseteq {"FAILED"} PROVE allocation[<<q, u>>].status # "PENDING" /\ PaidOnce'
    <2>1. allocation[<<q, u>>].status = "FAILED" /\ PaidOnce
        BY <1>3 DEF TakeUp, CoinInv
    <2>2. /\ allocation'[<<q, u>>].status = "PROCESSING"
          /\ \A p \in Codes, v \in Scanners :
                p # q \/ v # u => allocation'[<<p, v>>] = allocation[<<p, v>>]
        BY <1>1, <1>2, StatusChanges DEF CoinStatuses
    <2> QED
        BY <1>2, <2>1, <2>2 DEF PaidOnce
<1> QED
    BY <1>1, <1>2, <1>3, JobKeeps DEF CoinStatuses

LEMMA TransferKeeps ==
    ASSUME CoinInv, NEW q \in Codes, NEW u \in Scanners, Transfer(q, u) PROVE CoinInv'
<1>1. allocation[<<q, u>>].status = "PROCESSING" /\ Exists(q, u) /\ paid \in [Codes \X Scanners -> Nat]
      /\ UNCHANGED <<scan, showFullName, coinEvent, clock>>
    BY DEF Transfer, Exists, CoinInv, CoinTypeOK
<1>2. PICK status \in {"TRANSFERRED", "FAILED"} :
        /\ allocation' = [allocation EXCEPT ![<<q, u>>].status = status]
        /\ paid' = IF status = "TRANSFERRED" THEN [paid EXCEPT ![<<q, u>>] = @ + 1] ELSE paid
    BY DEF Transfer
<1>3. paid' \in [Codes \X Scanners -> Nat]
    BY <1>1, <1>2
<1>4. ASSUME CronTakes \subseteq {"FAILED"} PROVE PaidOnce'
    <2>1. PaidOnce /\ paid[<<q, u>>] = 0
        BY <1>1, <1>4 DEF CoinInv, PaidOnce
    <2>2. /\ allocation'[<<q, u>>].status = status
          /\ \A p \in Codes, v \in Scanners :
                p # q \/ v # u => allocation'[<<p, v>>] = allocation[<<p, v>>]
        BY <1>1, <1>2, StatusChanges DEF CoinStatuses
    <2>3. /\ paid'[<<q, u>>] = IF status = "TRANSFERRED" THEN 1 ELSE 0
          /\ \A p \in Codes, v \in Scanners : p # q \/ v # u => paid'[<<p, v>>] = paid[<<p, v>>]
        BY <1>1, <1>2, <2>1
    <2>4. ASSUME NEW p \in Codes, NEW v \in Scanners
          PROVE  paid'[<<p, v>>] = (IF allocation'[<<p, v>>].status = "TRANSFERRED" THEN 1 ELSE 0)
        <3>1. CASE p = q /\ v = u
            BY <2>2, <2>3, <3>1
        <3>2. CASE p # q \/ v # u
            BY <2>1, <2>2, <2>3, <3>2 DEF PaidOnce
        <3> QED
            BY <3>1, <3>2
    <2> QED
        BY <2>4 DEF PaidOnce
<1> QED
    BY <1>1, <1>2, <1>3, <1>4, JobKeeps DEF CoinStatuses

\* Preferences, the next event and the clock touch no scan and no row.
LEMMA OthersKeep ==
    ASSUME CoinInv, UNCHANGED <<allocation, scan, paid>>, showFullName' \subseteq Scanners,
           coinEvent' \in CoinEvents, clock' \in 0..MaxTime
    PROVE  CoinInv'
BY DEF CoinInv, CoinTypeOK, OwnersHaveRows, OneOwner, AnswersAtTheEnd, RowsAreOfCodes, FreshRowsWait,
       PaidOnce, Owns, Exists

LEMMA CoinStep == ASSUME CoinInv, [CoinNext]_coinVars PROVE CoinInv'
<1>1. showFullName \subseteq Scanners /\ coinEvent \in CoinEvents /\ clock \in 0..MaxTime /\ MaxTime \in Nat
    BY CoinAssumption DEF CoinInv, CoinTypeOK
<1>2. ASSUME NEW u \in Scanners, NEW show \in BOOLEAN, UpdatePreferences(u, show) PROVE CoinInv'
    <2>1. showFullName' \subseteq Scanners
        BY <1>1, <1>2 DEF UpdatePreferences
    <2> QED
        BY <1>1, <1>2, <2>1, OthersKeep DEF UpdatePreferences
<1>3. CASE RollEvent
    BY <1>1, <1>3, OthersKeep DEF RollEvent
<1>4. CASE Tick
    <2>1. clock' \in 0..MaxTime
        BY <1>1, <1>4 DEF Tick
    <2> QED
        BY <1>1, <1>4, <2>1, OthersKeep DEF Tick
<1>5. CASE UNCHANGED coinVars
    BY <1>1, <1>5, OthersKeep DEF coinVars
<1> QED
    BY <1>2, <1>3, <1>4, <1>5, BeginScanKeeps, LookUpScanKeeps, InsertKeeps, MarkFailedKeeps, FailScanKeeps,
       TakeUpKeeps, TransferKeeps DEF CoinNext

-----------------------------------------------------------------------------
(***************************************************************************)
(* Coins: what attendees are shown adds up.                                *)
(***************************************************************************)

LEMMA HistoryAddsUp ==
    ASSUME CoinInv, NEW u \in Scanners, NEW e \in CoinEvents
    PROVE  Summary(u, e).totalPending + Summary(u, e).totalTransferred
             = SumFunction([h \in History(u, e) |-> h.coins])
<1> DEFINE R == RowsOf(u, e)
           f == [q \in Codes |-> allocation[<<q, u>>].coins]
           P == {q \in R : allocation[<<q, u>>].status \in {"PENDING", "PROCESSING", "FAILED"}}
           T == {q \in R : allocation[<<q, u>>].status \in {"TRANSFERRED"}}
           m == [q \in Codes |-> [code |-> q, coins |-> allocation[<<q, u>>].coins,
                    status |-> IF allocation[<<q, u>>].status \in {"FAILED", "PROCESSING"} THEN "PENDING"
                               ELSE allocation[<<q, u>>].status]]
           g == [h \in History(u, e) |-> h.coins]
<1>1. Summary(u, e).totalPending = SumFunctionOnSet(f, P) /\ Summary(u, e).totalTransferred = SumFunctionOnSet(f, T)
    BY DEF Summary
<1>2. IsFiniteSet(R) /\ R \subseteq Codes
    <2>1. R \subseteq {q \in Codes : Exists(q, u)}
        BY DEF RowsOf
    <2> QED
        BY <2>1, FS_Subset DEF CoinInv, RowsAreOfCodes
<1>3. \A q \in R : f[q] \in Int /\ allocation[<<q, u>>].status \in CoinStatuses
    BY <1>2 DEF CoinInv, CoinTypeOK, RowsOf, Exists
<1>4. P \cup T = R /\ P \cap T = {} /\ IsFiniteSet(P) /\ IsFiniteSet(T)
    <2>1. P \cup T = R /\ P \cap T = {}
        BY <1>3 DEF CoinStatuses
    <2> QED
        BY <1>2, <2>1, FS_Subset
<1>5. History(u, e) = {m[q] : q \in R}
    BY <1>2 DEF History
<1>6. \A x, y \in R : m[x] = m[y] => x = y
    <2>1. \A x \in R : m[x].code = x
        BY <1>2
    <2> HIDE DEF m
    <2> QED
        BY <2>1
<1>7. \A q \in R : g[m[q]] = f[q]
    <2>1. \A q \in R : m[q].coins = f[q] /\ m[q] \in History(u, e)
        BY <1>2, <1>5
    <2> HIDE DEF m, f
    <2> QED
        BY <2>1
<1>8. SumFunction(g) = SumFunctionOnSet(g, History(u, e))
    BY DEF SumFunction
<1> HIDE DEF R, f, P, T, m, g
<1>9. SumFunctionOnSet(f, P \cup T) = SumFunctionOnSet(f, P) + SumFunctionOnSet(f, T)
    BY <1>3, <1>4, SumOfUnion
<1>10. SumFunctionOnSet(g, {m[q] : q \in R}) = SumFunctionOnSet(f, R)
    <2>1. \A x \in R : f[x] \in Int /\ g[m[x]] = f[x]
        BY <1>3, <1>7
    <2> QED
        BY ONLY <1>2, <1>6, <2>1, SumMoves
<1> QED
    BY <1>1, <1>4, <1>5, <1>8, <1>9, <1>10 DEF g

LEMMA LeaderboardIsPaid ==
    ASSUME CoinInv, CronTakes \subseteq {"FAILED"}, NEW u \in Scanners, NEW e \in CoinEvents
    PROVE  Summary(u, e).totalTransferred = SumFunction([q \in RowsOf(u, e) |-> paid[<<q, u>>] * CodeInfo[q].coins])
<1> DEFINE R == RowsOf(u, e)
           f == [q \in Codes |-> allocation[<<q, u>>].coins]
           T == {q \in R : allocation[<<q, u>>].status \in {"TRANSFERRED"}}
           k == [q \in R |-> paid[<<q, u>>] * CodeInfo[q].coins]
           Z == R \ T
<1>1. Summary(u, e).totalTransferred = SumFunctionOnSet(f, T) /\ SumFunction(k) = SumFunctionOnSet(k, R)
    BY DEF Summary, SumFunction
<1>2. IsFiniteSet(R) /\ R \subseteq Codes
    <2>1. R \subseteq {q \in Codes : Exists(q, u)}
        BY DEF RowsOf
    <2> QED
        BY <2>1, FS_Subset DEF CoinInv, RowsAreOfCodes
<1>3. T \cup Z = R /\ T \cap Z = {} /\ IsFiniteSet(T) /\ IsFiniteSet(Z)
    BY <1>2, FS_Subset
<1>4. ASSUME NEW q \in R
      PROVE  CodeInfo[q].coins \in Nat /\ f[q] = CodeInfo[q].coins /\ paid[<<q, u>>] = IF q \in T THEN 1 ELSE 0
    <2>1. q \in Codes /\ Exists(q, u)
        BY <1>2 DEF RowsOf
    <2> QED
        BY <2>1, CoinAssumption DEF CoinInv, RowsAreOfCodes, PaidOnce
<1>5. (\A q \in T : k[q] = f[q]) /\ (\A q \in Z : k[q] = 0) /\ \A q \in R : k[q] \in Int
    <2>1. \A q \in R : k[q] = paid[<<q, u>>] * CodeInfo[q].coins
        OBVIOUS
    <2>2. T \subseteq R /\ Z \subseteq R /\ \A q \in Z : q \notin T
        OBVIOUS
    <2> HIDE DEF R, f, T, k, Z
    <2>3. ASSUME NEW q \in R, NEW n \in Nat, CodeInfo[q].coins = n
          PROVE  (q \in T => k[q] = f[q]) /\ (q \notin T => k[q] = 0) /\ k[q] \in Int
        <3>1. k[q] = paid[<<q, u>>] * n /\ f[q] = n
            BY <1>4, <2>1, <2>3
        <3>2. CASE q \in T
            BY <1>4, <3>1, <3>2
        <3>3. CASE q \notin T
            BY <1>4, <3>1, <3>3
        <3> QED
            BY <3>2, <3>3
    <2> QED
        BY <1>4, <2>2, <2>3
<1> HIDE DEF R, f, T, k, Z
<1>6. SumFunctionOnSet(k, T \cup Z) = SumFunctionOnSet(k, T) + SumFunctionOnSet(k, Z)
    BY <1>3, <1>5, SumOfUnion
<1>7. SumFunctionOnSet(k, T) = SumFunctionOnSet(f, T) /\ SumFunctionOnSet(k, Z) = 0
    BY <1>3, <1>5, SumSame, SumOfZeros
<1>8. SumFunctionOnSet(k, T) \in Int
    BY <1>3, <1>5, SumType
<1>9. SumFunctionOnSet(k, R) = SumFunctionOnSet(f, T)
    <2>1. SumFunctionOnSet(k, T \cup Z) = SumFunctionOnSet(k, R)
        BY <1>3
    <2> QED
        BY <1>6, <1>7, <1>8, <2>1
<1> QED
    BY <1>1, <1>9 DEF k, R

LEMMA CoinInvHolds == ASSUME CoinInv, CronTakes \subseteq {"FAILED"} PROVE CoinSafety
<1>1. AcceptedOnce
    BY DEF CoinInv, OwnersHaveRows, OneOwner, Owns, AcceptedOnce
<1>2. TransferredOnce
    BY DEF CoinInv, PaidOnce, TransferredOnce
<1>3. CoinViewsAgree
    <2>1. ASSUME NEW u \in Scanners, NEW e \in CoinEvents, NEW entry \in GetLeaderboard(e), entry.user = u
          PROVE  entry.totalCoins = SumFunction([q \in RowsOf(u, e) |-> paid[<<q, u>>] * CodeInfo[q].coins])
        <3>1. entry.totalCoins = Summary(u, e).totalTransferred
            BY <2>1 DEF GetLeaderboard
        <3> QED
            BY <3>1, LeaderboardIsPaid
    <2> QED
        BY <2>1, HistoryAddsUp DEF CoinViewsAgree
<1> QED
    BY <1>1, <1>2, <1>3 DEF CoinSafety

\* Every variable of the coins keeps its type, whatever the transfer job takes up.
THEOREM CoinsTyped == CoinSpec => []CoinTypeOK
<1>1. CoinInit => CoinInv
    BY CoinInitially
<1>2. CoinInv /\ [CoinNext]_coinVars => CoinInv'
    BY CoinStep
<1>3. CoinInv => CoinTypeOK
    BY DEF CoinInv
<1> QED
    BY <1>1, <1>2, <1>3, PTL DEF CoinSpec

\* For any scans, codes, attendees and events, with a transfer job that takes up FAILED rows only:
\* a code is worth its coins once to an attendee, however the scans race, die or are marked, and
\* the summary, the history and the leaderboard add up to what was paid.
THEOREM CoinsAreSafe ==
    ASSUME CronTakes \subseteq {"FAILED"}
    PROVE  CoinSpec => []CoinSafety
<1>1. CoinInit => CoinInv
    BY CoinInitially
<1>2. CoinInv /\ [CoinNext]_coinVars => CoinInv'
    BY CoinStep
<1>3. CoinInv => CoinSafety
    BY CoinInvHolds
<1> QED
    BY <1>1, <1>2, <1>3, PTL DEF CoinSpec

-----------------------------------------------------------------------------
(***************************************************************************)
(* The desks.  A visit that goes on to insert has met no row of a visit    *)
(* confirmed before it began, and rows are never deleted.                  *)
(***************************************************************************)
Registration == [attendee : Guests \cup {"gone"}, day : Days, by : Visits \cup Foreign]
VisitRecord ==
    [pc : {"new", "looking", "inserting", "stored", "created", "conflict", "failed"},
     attendee : Guests \cup {"none"}, day : Days \cup {"none"}, known : SUBSET Visits]
SyncRecord ==
    [pc : {"new", "clearing", "appending", "spacing", "ok", "failed"},
     read : SUBSET Registration, before : SUBSET Visits, alone : BOOLEAN]

DeskTypes ==
    /\ registrations \subseteq Registration
    /\ visit \in [Visits -> VisitRecord] /\ sync \in [Syncs -> SyncRecord]
    /\ \A s \in Visits : visit[s].pc # "new" => visit[s].attendee \in Guests /\ visit[s].day \in Days

\* A row is of a visit, and a visit that stored one has it.
RowsAreOfVisits ==
    /\ \A r \in registrations : r.by \in Visits =>
         /\ visit[r.by].pc \in {"stored", "created", "failed"}
         /\ visit[r.by].day = r.day /\ visit[r.by].attendee = r.attendee
    /\ \A s \in Visits : visit[s].pc \in {"stored", "created"} =>
         [attendee |-> visit[s].attendee, day |-> visit[s].day, by |-> s] \in registrations

\* Two visits for one attendee and day.
SamePerson(s, k) == visit[k].attendee = visit[s].attendee /\ visit[k].day = visit[s].day

KnownBefore ==
    \A s \in Visits :
        /\ visit[s].known \subseteq Confirmed
        /\ visit[s].pc \in {"inserting", "stored", "created"} => \A k \in visit[s].known : ~SamePerson(s, k)

VisitsInv == DeskTypes /\ RowsAreOfVisits /\ KnownBefore

LEMMA VisitsInitially == ASSUME RegistrantInit PROVE VisitsInv
<1>1. DeskTypes
  <2>1. NewVisit \in VisitRecord /\ NewSync \in SyncRecord
    BY DEF NewVisit, NewSync, VisitRecord, SyncRecord
  <2>2. registrations \subseteq Registration
    BY DEF RegistrantInit, Registration
  <2>3. \A s \in Visits : visit[s].pc = "new"
    BY DEF RegistrantInit, NewVisit
  <2> QED BY <2>1, <2>2, <2>3 DEF RegistrantInit, DeskTypes
<1>2. RowsAreOfVisits
  BY RegistrantAssumption DEF RegistrantInit, RowsAreOfVisits, NewVisit
<1>3. KnownBefore
  BY DEF RegistrantInit, KnownBefore, NewVisit
<1> QED BY <1>1, <1>2, <1>3 DEF VisitsInv

\* A visit moves on, with the same attendee and the same knowledge.
VisitMoves(s, phase) ==
    /\ visit[s].pc \notin {"new", "created"}
    /\ visit' = [visit EXCEPT ![s].pc = phase]

LEMMA VisitFields ==
    ASSUME DeskTypes, NEW s \in Visits,
           NEW phase \in {"looking", "inserting", "stored", "created", "conflict", "failed"},
           VisitMoves(s, phase)
    PROVE  /\ visit' \in [Visits -> VisitRecord]
           /\ visit'[s].pc = phase /\ visit'[s].attendee = visit[s].attendee
           /\ visit'[s].day = visit[s].day /\ visit'[s].known = visit[s].known
           /\ \A k \in Visits : k # s => visit'[k] = visit[k]
<1> DEFINE r == visit[s]
           q == [r EXCEPT !.pc = phase]
<1>1. r \in VisitRecord /\ visit' = [visit EXCEPT ![s] = q]
  BY DEF DeskTypes, VisitMoves
<1> HIDE DEF r
<1>2. /\ q \in VisitRecord /\ q.pc = phase /\ q.attendee = r.attendee /\ q.day = r.day
      /\ q.known = r.known
  BY <1>1 DEF VisitRecord
<1> HIDE DEF q
<1>3. visit' \in [Visits -> VisitRecord] /\ visit'[s] = q /\ \A k \in Visits : k # s => visit'[k] = visit[k]
  BY <1>1, <1>2 DEF DeskTypes
<1> QED BY <1>2, <1>3 DEF r

\* Confirmed visits stay, and what is known of them.
LEMMA MovesKeepKnown ==
    ASSUME VisitsInv, NEW s \in Visits,
           NEW phase \in {"looking", "inserting", "stored", "created", "conflict", "failed"},
           VisitMoves(s, phase),
           phase \in {"inserting", "stored", "created"} => \A k \in visit[s].known : ~SamePerson(s, k)
    PROVE  KnownBefore'
<1>1. /\ visit'[s].pc = phase /\ visit'[s].attendee = visit[s].attendee
      /\ visit'[s].day = visit[s].day /\ visit'[s].known = visit[s].known
      /\ \A k \in Visits : k # s => visit'[k] = visit[k]
  BY VisitFields DEF VisitsInv
<1>2. \A k \in Visits : visit'[k].attendee = visit[k].attendee /\ visit'[k].day = visit[k].day
                        /\ visit'[k].known = visit[k].known
  BY <1>1
<1>3. \A k \in Visits : visit[k].known \subseteq Visits
  BY DEF VisitsInv, KnownBefore, Confirmed
<1>4. Confirmed \subseteq Confirmed'
  BY <1>1 DEF Confirmed, VisitMoves
<1>5. ASSUME NEW k \in Visits, visit'[k].pc \in {"inserting", "stored", "created"}, NEW j \in visit'[k].known
      PROVE  ~SamePerson(k, j)'
  <2>1. j \in Visits /\ j \in visit[k].known
    BY <1>2, <1>3, <1>5
  <2>2. ~SamePerson(k, j)
    BY <1>1, <1>5, <2>1 DEF VisitsInv, KnownBefore
  <2> QED BY <1>2, <2>1, <2>2 DEF SamePerson
<1> QED BY <1>2, <1>4, <1>5 DEF KnownBefore, VisitsInv

LEMMA RegisterKeeps ==
    ASSUME VisitsInv, NEW s \in Visits, NEW g \in Guests, NEW d \in Days, RegisterAttendee(s, g, d)
    PROVE  VisitsInv'
<1> DEFINE n == [pc |-> "looking", attendee |-> g, day |-> d, known |-> Confirmed]
<1>1. n \in VisitRecord
  BY DEF VisitRecord, Confirmed
<1>2. /\ visit[s].pc = "new" /\ visit' = [visit EXCEPT ![s] = n]
      /\ UNCHANGED <<registrations, sync, sheet>>
  BY DEF RegisterAttendee
<1>3. /\ visit' \in [Visits -> VisitRecord] /\ visit'[s] = n
      /\ \A k \in Visits : k # s => visit'[k] = visit[k]
  BY <1>1, <1>2 DEF VisitsInv, DeskTypes
<1>4. DeskTypes'
  BY <1>2, <1>3 DEF VisitsInv, DeskTypes
<1>5. RowsAreOfVisits'
  <2>1. \A r \in registrations : r.by \in Visits => r.by # s
    BY <1>2 DEF VisitsInv, RowsAreOfVisits
  <2> QED BY <1>2, <1>3, <2>1 DEF VisitsInv, RowsAreOfVisits
<1>6. KnownBefore'
  <2>1. Confirmed' = Confirmed
    BY <1>2, <1>3 DEF Confirmed
  <2>2. s \notin Confirmed
    BY <1>2 DEF Confirmed
  <2>3. ASSUME NEW k \in Visits, visit'[k].pc \in {"inserting", "stored", "created"}, NEW j \in visit'[k].known
        PROVE  ~SamePerson(k, j)'
    <3>1. k # s
      BY <1>3, <2>3
    <3>2. j \in visit[k].known /\ j \in Visits /\ j # s
      BY <1>3, <2>2, <2>3, <3>1 DEF VisitsInv, KnownBefore, Confirmed
    <3>3. ~SamePerson(k, j)
      BY <1>3, <2>3, <3>1, <3>2 DEF VisitsInv, KnownBefore
    <3> QED BY <1>3, <3>1, <3>2, <3>3 DEF SamePerson
  <2>4. \A k \in Visits : visit'[k].known \subseteq Confirmed'
    BY <1>3, <2>1 DEF VisitsInv, KnownBefore
  <2> QED BY <2>3, <2>4 DEF KnownBefore
<1> QED BY <1>4, <1>5, <1>6 DEF VisitsInv

\* A step that leaves the rows and takes a visit to its end, or on to its insert.
LEMMA LookingKeeps ==
    ASSUME VisitsInv, NEW s \in Visits,
           NEW phase \in {"inserting", "created", "conflict", "failed"}, VisitMoves(s, phase),
           phase = "inserting" => visit[s].pc = "looking" /\ \A k \in visit[s].known : ~SamePerson(s, k),
           phase = "conflict" => visit[s].pc = "looking",
           phase = "created" => visit[s].pc = "stored",
           UNCHANGED <<registrations, sync>>
    PROVE  VisitsInv'
<1>1. /\ visit' \in [Visits -> VisitRecord]
      /\ visit'[s].pc = phase /\ visit'[s].attendee = visit[s].attendee
      /\ visit'[s].day = visit[s].day /\ visit'[s].known = visit[s].known
      /\ \A k \in Visits : k # s => visit'[k] = visit[k]
  BY VisitFields DEF VisitsInv
<1>2. DeskTypes'
  <2>1. visit[s].pc # "new"
    BY DEF VisitMoves
  <2> QED BY <1>1, <2>1 DEF VisitsInv, DeskTypes
<1>3. phase \in {"inserting", "stored", "created"} => \A k \in visit[s].known : ~SamePerson(s, k)
  BY DEF VisitsInv, KnownBefore
<1>4. KnownBefore'
  BY <1>3, MovesKeepKnown
<1>5. RowsAreOfVisits'
  <2>1. ASSUME NEW r \in registrations, r.by \in Visits
        PROVE  /\ visit'[r.by].pc \in {"stored", "created", "failed"}
               /\ visit'[r.by].day = r.day /\ visit'[r.by].attendee = r.attendee
    <3>1. /\ visit[r.by].pc \in {"stored", "created", "failed"}
          /\ visit[r.by].day = r.day /\ visit[r.by].attendee = r.attendee
      BY <2>1 DEF VisitsInv, RowsAreOfVisits
    <3> QED BY <1>1, <2>1, <3>1
  <2>2. ASSUME NEW k \in Visits, visit'[k].pc \in {"stored", "created"}
        PROVE  [attendee |-> visit'[k].attendee, day |-> visit'[k].day, by |-> k] \in registrations
    <3>1. visit[k].pc \in {"stored", "created"}
      BY <1>1, <2>2
    <3>2. visit'[k].attendee = visit[k].attendee /\ visit'[k].day = visit[k].day
      BY <1>1
    <3> QED BY <3>1, <3>2 DEF VisitsInv, RowsAreOfVisits
  <2> QED BY <2>1, <2>2 DEF RowsAreOfVisits
<1> QED BY <1>2, <1>4, <1>5 DEF VisitsInv

LEMMA LookUpKeeps == ASSUME VisitsInv, NEW s \in Visits, GetAgendaAttendee(s) PROVE VisitsInv'
<1> DEFINE day == OfDay(visit[s].day)
           match == {r \in day : Decrypts(r) /\ r.attendee = visit[s].attendee}
<1>1. /\ visit[s].pc = "looking" /\ UNCHANGED <<registrations, sync>>
      /\ \/ visit' = [visit EXCEPT ![s].pc = "conflict"]
         \/ visit' = [visit EXCEPT ![s].pc = "failed"]
         \/ match = {} /\ visit' = [visit EXCEPT ![s].pc = "inserting"]
  BY DEF GetAgendaAttendee
<1>2. CASE visit' = [visit EXCEPT ![s].pc = "conflict"]
  BY <1>1, <1>2, LookingKeeps DEF VisitMoves
<1>3. CASE visit' = [visit EXCEPT ![s].pc = "failed"]
  BY <1>1, <1>3, LookingKeeps DEF VisitMoves
<1>4. CASE match = {} /\ visit' = [visit EXCEPT ![s].pc = "inserting"]
  <2>1. ASSUME NEW k \in visit[s].known, SamePerson(s, k) PROVE FALSE
    <3>1. k \in Visits /\ visit[k].pc = "created"
      BY DEF VisitsInv, KnownBefore, Confirmed
    <3> DEFINE row == [attendee |-> visit[k].attendee, day |-> visit[k].day, by |-> k]
    <3>2. row \in registrations
      BY <3>1 DEF VisitsInv, RowsAreOfVisits
    <3>3. row.by \notin Foreign
      BY <3>1, RegistrantAssumption
    <3>4. row \in match
      BY <2>1, <3>2, <3>3 DEF SamePerson, OfDay, Decrypts
    <3> QED BY <1>4, <3>4
  <2> QED BY <1>1, <1>4, <2>1, LookingKeeps DEF VisitMoves
<1> QED BY <1>1, <1>2, <1>3, <1>4

LEMMA InsertRowKeeps == ASSUME VisitsInv, NEW s \in Visits, InsertAgendaAttendee(s) PROVE VisitsInv'
<1> DEFINE row == [attendee |-> visit[s].attendee, day |-> visit[s].day, by |-> s]
<1>1. /\ visit[s].pc = "inserting" /\ registrations' = registrations \cup {row}
      /\ VisitMoves(s, "stored") /\ sync' = sync
  BY DEF InsertAgendaAttendee, VisitMoves
<1>2. /\ visit' \in [Visits -> VisitRecord]
      /\ visit'[s].pc = "stored" /\ visit'[s].attendee = visit[s].attendee
      /\ visit'[s].day = visit[s].day /\ visit'[s].known = visit[s].known
      /\ \A k \in Visits : k # s => visit'[k] = visit[k]
  BY <1>1, VisitFields DEF VisitsInv
<1>3. row \in Registration
  BY <1>1 DEF Registration, VisitsInv, DeskTypes
<1>4. DeskTypes'
  BY <1>1, <1>2, <1>3 DEF VisitsInv, DeskTypes
<1>5. KnownBefore'
  <2>1. \A k \in visit[s].known : ~SamePerson(s, k)
    BY <1>1 DEF VisitsInv, KnownBefore
  <2> QED BY <1>1, <2>1, MovesKeepKnown
<1>6. RowsAreOfVisits'
  <2>1. ASSUME NEW r \in registrations', r.by \in Visits
        PROVE  /\ visit'[r.by].pc \in {"stored", "created", "failed"}
               /\ visit'[r.by].day = r.day /\ visit'[r.by].attendee = r.attendee
    <3>1. CASE r = row
      BY <1>2, <3>1
    <3>2. CASE r # row
      <4>1. r \in registrations
        BY <1>1, <3>2
      <4>2. /\ visit[r.by].pc \in {"stored", "created", "failed"}
            /\ visit[r.by].day = r.day /\ visit[r.by].attendee = r.attendee
        BY <2>1, <4>1 DEF VisitsInv, RowsAreOfVisits
      <4> QED BY <1>1, <1>2, <2>1, <4>2
    <3> QED BY <3>1, <3>2
  <2>2. ASSUME NEW k \in Visits, visit'[k].pc \in {"stored", "created"}
        PROVE  [attendee |-> visit'[k].attendee, day |-> visit'[k].day, by |-> k] \in registrations'
    <3>1. CASE k = s
      BY <1>1, <1>2, <3>1
    <3>2. CASE k # s
      BY <1>1, <1>2, <2>2, <3>2 DEF VisitsInv, RowsAreOfVisits
    <3> QED BY <3>1, <3>2
  <2> QED BY <2>1, <2>2 DEF RowsAreOfVisits
<1> QED BY <1>4, <1>5, <1>6 DEF VisitsInv

LEMMA CreatedKeeps == ASSUME VisitsInv, NEW s \in Visits, Created(s) PROVE VisitsInv'
  BY LookingKeeps DEF Created, VisitMoves

LEMMA VisitFailsKeeps == ASSUME VisitsInv, NEW s \in Visits, VisitFails(s) PROVE VisitsInv'
  BY LookingKeeps DEF VisitFails, VisitMoves

\* The properties of the desks.
LEMMA VisitsHold == VisitsInv => RescanIsRefused /\ CountsWhatWasScanned
<1> SUFFICES ASSUME VisitsInv PROVE RescanIsRefused /\ CountsWhatWasScanned
  OBVIOUS
<1>1. RescanIsRefused
  BY DEF VisitsInv, KnownBefore, RescanIsRefused, Confirmed, SamePerson
<1>2. ASSUME NEW s \in Confirmed
      PROVE  \E r \in registrations : r.by = s /\ r.attendee = visit[s].attendee
  <2> DEFINE row == [attendee |-> visit[s].attendee, day |-> visit[s].day, by |-> s]
  <2>1. row \in registrations
    BY <1>2 DEF VisitsInv, RowsAreOfVisits, Confirmed
  <2>2. row.by = s /\ row.attendee = visit[s].attendee
    OBVIOUS
  <2> QED BY <2>1, <2>2
<1>3. ASSUME NEW d \in Days, GetAgendaAttendeeCount(d) # -1
      PROVE  GetAgendaAttendeeCount(d) <= Cardinality({s \in Visits : visit[s].day = d /\ visit[s].pc # "conflict"})
  <2> DEFINE scanned == {s \in Visits : visit[s].day = d /\ visit[s].pc # "conflict"}
             f == [r \in OfDay(d) |-> r.by]
  <2>1. (\A r \in OfDay(d) : Decrypts(r)) /\ GetAgendaAttendeeCount(d) = Cardinality(OfDay(d))
    BY <1>3 DEF GetAgendaAttendeeCount
  <2>2. ASSUME NEW r \in OfDay(d)
        PROVE  /\ r.by \in Visits /\ r.by \in scanned /\ r \in Registration
               /\ r.attendee = visit[r.by].attendee /\ r.day = visit[r.by].day
    <3>1. r \in registrations /\ r \in Registration /\ r.day = d /\ r.by \notin Foreign
      BY <2>1 DEF OfDay, Decrypts, VisitsInv, DeskTypes
    <3>2. r.by \in Visits
      BY <3>1 DEF Registration
    <3> QED BY <3>1, <3>2 DEF VisitsInv, RowsAreOfVisits
  <2>3. ASSUME NEW r \in OfDay(d), NEW t \in OfDay(d), r.by = t.by PROVE r = t
    <3>1. r.attendee = t.attendee /\ r.day = t.day /\ r \in Registration /\ t \in Registration
      BY <2>2, <2>3
    <3> QED BY <2>3, <3>1 DEF Registration
  <2>4. f \in Injection(OfDay(d), scanned)
    BY <2>2, <2>3 DEF Injection, IsInjective
  <2>5. IsFiniteSet(scanned)
    BY FS_Subset, RegistrantAssumption
  <2>6. Cardinality(OfDay(d)) <= Cardinality(scanned)
    BY <2>4, <2>5, FS_Injection
  <2> QED BY <2>1, <2>6
<1> QED BY <1>1, <1>2, <1>3 DEF CountsWhatWasScanned

-----------------------------------------------------------------------------
(***************************************************************************)
(* The sheet.  A sync is alone until another begins, and only then does    *)
(* the sheet hold exactly what it wrote.                                   *)
(***************************************************************************)
Ended == {y \in Syncs : sync[y].pc \in {"ok", "failed"}}

SheetTypes ==
    /\ sheet \in [tables : Seq(SUBSET Registration), spacers : Nat]
    /\ sheet.spacers <= Cardinality(Ended)

\* What a sync read holds a row of every visit it came after.
ReadsConfirmed ==
    \A y \in Syncing : \A s \in sync[y].before :
        /\ s \in Confirmed
        /\ visit[s].day \in CurrentDays => \E r \in sync[y].read : r.by = s

AloneOnTheSheet ==
    \A y \in Syncing : sync[y].alone =>
        /\ Syncing = {y}
        /\ sync[y].pc = "appending" => sheet = [tables |-> <<>>, spacers |-> 0]
        /\ sync[y].pc = "spacing" => sheet = [tables |-> <<sync[y].read>>, spacers |-> 0]

SheetInv == SheetTypes /\ ReadsConfirmed /\ AloneOnTheSheet
RegistrantInv == VisitsInv /\ SheetInv

LEMMA EndedFinite == IsFiniteSet(Ended) /\ Cardinality(Ended) \in Nat /\ Cardinality(Ended) <= Cardinality(Syncs)
<1>1. Ended \subseteq Syncs /\ IsFiniteSet(Syncs)
  BY RegistrantAssumption DEF Ended
<1> QED BY <1>1, FS_Subset, FS_CardinalityType

LEMMA SheetInitially == ASSUME RegistrantInit PROVE SheetInv
<1>1. SheetTypes
  <2>1. sheet = [tables |-> <<>>, spacers |-> 0] /\ <<>> \in Seq(SUBSET Registration)
    BY DEF RegistrantInit
  <2>2. sheet \in [tables : Seq(SUBSET Registration), spacers : Nat] /\ sheet.spacers = 0
    BY <2>1
  <2>3. Cardinality(Ended) \in Nat
    BY EndedFinite
  <2> QED BY <2>2, <2>3 DEF SheetTypes
<1>2. Syncing = {}
  BY DEF RegistrantInit, Syncing, NewSync
<1> QED BY <1>1, <1>2 DEF SheetInv, ReadsConfirmed, AloneOnTheSheet

\* The visits leave the sheet and the syncs alone, and what is confirmed stays so.
LEMMA VisitsKeepSheet ==
    ASSUME VisitsInv, SheetInv, UNCHANGED <<sync, sheet>>,
           \A s \in Confirmed : s \in Confirmed' /\ visit'[s].day = visit[s].day
    PROVE  SheetInv'
<1>1. Syncing' = Syncing /\ Ended' = Ended
  BY DEF Syncing, Ended
<1> QED BY <1>1 DEF SheetInv, SheetTypes, ReadsConfirmed, AloneOnTheSheet

\* A sync takes one step of its own.
SyncMoves(y, phase) ==
    /\ sync[y].pc \notin {"new", "ok", "failed"}
    /\ sync' = [sync EXCEPT ![y].pc = phase]

LEMMA SyncFields ==
    ASSUME DeskTypes, NEW y \in Syncs, NEW phase \in {"clearing", "appending", "spacing", "ok", "failed"},
           sync' = [sync EXCEPT ![y].pc = phase]
    PROVE  /\ sync' \in [Syncs -> SyncRecord]
           /\ sync'[y].pc = phase /\ sync'[y].read = sync[y].read
           /\ sync'[y].before = sync[y].before /\ sync'[y].alone = sync[y].alone
           /\ \A z \in Syncs : z # y => sync'[z] = sync[z]
<1> DEFINE r == sync[y]
           q == [r EXCEPT !.pc = phase]
<1>1. r \in SyncRecord /\ sync' = [sync EXCEPT ![y] = q]
  BY DEF DeskTypes
<1> HIDE DEF r
<1>2. q \in SyncRecord /\ q.pc = phase /\ q.read = r.read /\ q.before = r.before /\ q.alone = r.alone
  BY <1>1 DEF SyncRecord
<1> HIDE DEF q
<1>3. sync' \in [Syncs -> SyncRecord] /\ sync'[y] = q /\ \A z \in Syncs : z # y => sync'[z] = sync[z]
  BY <1>1, <1>2 DEF DeskTypes
<1> QED BY <1>2, <1>3 DEF r

\* A sync that goes on, or ends, with a sheet that fits.
LEMMA SyncStepKeeps ==
    ASSUME VisitsInv, SheetInv, NEW y \in Syncs, NEW phase \in {"appending", "spacing", "ok", "failed"},
           SyncMoves(y, phase), UNCHANGED <<registrations, visit>>,
           sheet' \in [tables : Seq(SUBSET Registration), spacers : Nat],
           phase \in {"ok", "failed"} => sheet'.spacers <= sheet.spacers + 1,
           phase \notin {"ok", "failed"} => sheet'.spacers <= sheet.spacers,
           sync[y].alone /\ phase = "appending" => sheet' = [tables |-> <<>>, spacers |-> 0],
           sync[y].alone /\ phase = "spacing" => sheet' = [tables |-> <<sync[y].read>>, spacers |-> 0]
    PROVE  RegistrantInv'
<1>1. /\ sync' \in [Syncs -> SyncRecord]
      /\ sync'[y].pc = phase /\ sync'[y].read = sync[y].read
      /\ sync'[y].before = sync[y].before /\ sync'[y].alone = sync[y].alone
      /\ \A z \in Syncs : z # y => sync'[z] = sync[z]
  BY SyncFields DEF VisitsInv, SyncMoves
<1>2. VisitsInv'
  BY <1>1 DEF VisitsInv, DeskTypes, RowsAreOfVisits, KnownBefore, Confirmed, SamePerson
<1>3. y \in Syncing /\ Syncing' \subseteq Syncing /\ (phase \in {"ok", "failed"} => y \notin Syncing')
  BY <1>1 DEF SyncMoves, Syncing
<1>4. \A z \in Syncing : sync'[z].read = sync[z].read /\ sync'[z].before = sync[z].before
                         /\ sync'[z].alone = sync[z].alone
  BY <1>1 DEF Syncing
<1>5. ReadsConfirmed'
  BY <1>3, <1>4 DEF SheetInv, ReadsConfirmed, Confirmed
<1>6. AloneOnTheSheet'
  <2>1. ASSUME NEW z \in Syncing', sync'[z].alone
        PROVE  /\ Syncing' = {z}
               /\ sync'[z].pc = "appending" => sheet' = [tables |-> <<>>, spacers |-> 0]
               /\ sync'[z].pc = "spacing" => sheet' = [tables |-> <<sync'[z].read>>, spacers |-> 0]
    <3>1. z \in Syncing /\ sync[z].alone
      BY <1>3, <1>4, <2>1
    <3>2. Syncing = {z}
      BY <3>1 DEF SheetInv, AloneOnTheSheet
    <3>3. z = y
      BY <1>3, <3>2
    <3>4. Syncing' = {z}
      BY <1>3, <3>2
    <3> QED BY <1>1, <3>1, <3>3, <3>4
  <2> QED BY <2>1 DEF AloneOnTheSheet
<1>7. SheetTypes'
  <2>1. Ended' = IF phase \in {"ok", "failed"} THEN Ended \cup {y} ELSE Ended
    BY <1>1 DEF Ended, SyncMoves
  <2>2. y \notin Ended
    BY DEF Ended, SyncMoves
  <2>3. Cardinality(Ended \cup {y}) = Cardinality(Ended) + 1
    BY <2>2, EndedFinite, FS_AddElement
  <2>4. sheet.spacers <= Cardinality(Ended) /\ sheet.spacers \in Nat /\ sheet'.spacers \in Nat
    BY DEF SheetInv, SheetTypes
  <2>5. Cardinality(Ended) \in Nat
    BY EndedFinite
  <2>6. sheet'.spacers <= Cardinality(Ended')
    <3>1. CASE phase \in {"ok", "failed"}
      BY <2>1, <2>3, <2>4, <2>5, <3>1
    <3>2. CASE phase \notin {"ok", "failed"}
      BY <2>1, <2>4, <2>5, <3>2
    <3> QED BY <3>1, <3>2
  <2> QED BY <2>6 DEF SheetTypes
<1> QED BY <1>2, <1>5, <1>6, <1>7 DEF RegistrantInv, SheetInv

LEMMA SheetSteps ==
    ASSUME RegistrantInv, NEW y \in Syncs, UNCHANGED <<registrations, visit>>,
           sheet' \in [tables : Seq(SUBSET Registration), spacers : Nat]
    PROVE  /\ SyncMoves(y, "appending") /\ sheet'.spacers <= sheet.spacers
              /\ sheet' = [tables |-> <<>>, spacers |-> 0] => RegistrantInv'
           /\ SyncMoves(y, "spacing") /\ sheet'.spacers <= sheet.spacers
              /\ (sync[y].alone => sheet' = [tables |-> <<sync[y].read>>, spacers |-> 0]) => RegistrantInv'
           /\ SyncMoves(y, "ok") /\ sheet'.spacers <= sheet.spacers + 1 => RegistrantInv'
           /\ SyncMoves(y, "failed") /\ sheet'.spacers <= sheet.spacers + 1 => RegistrantInv'
<1>1. VisitsInv /\ SheetInv
  BY DEF RegistrantInv
<1>2. /\ "appending" \notin {"ok", "failed"} /\ "spacing" \notin {"ok", "failed"}
      /\ "appending" # "spacing" /\ "ok" # "spacing" /\ "ok" # "appending"
      /\ "failed" # "spacing" /\ "failed" # "appending"
  OBVIOUS
<1>3. SyncMoves(y, "appending") /\ sheet'.spacers <= sheet.spacers
      /\ sheet' = [tables |-> <<>>, spacers |-> 0] => RegistrantInv'
  BY <1>1, <1>2, SyncStepKeeps
<1>4. SyncMoves(y, "spacing") /\ sheet'.spacers <= sheet.spacers
      /\ (sync[y].alone => sheet' = [tables |-> <<sync[y].read>>, spacers |-> 0]) => RegistrantInv'
  BY <1>1, <1>2, SyncStepKeeps
<1>5. SyncMoves(y, "ok") /\ sheet'.spacers <= sheet.spacers + 1 => RegistrantInv'
  BY <1>1, <1>2, SyncStepKeeps
<1>6. SyncMoves(y, "failed") /\ sheet'.spacers <= sheet.spacers + 1 => RegistrantInv'
  BY <1>1, <1>2, SyncStepKeeps
<1> QED BY <1>3, <1>4, <1>5, <1>6

LEMMA ClearKeeps == ASSUME RegistrantInv, NEW y \in Syncs, Clear(y) PROVE RegistrantInv'
<1>1. /\ SyncMoves(y, "appending") /\ sheet' = [tables |-> <<>>, spacers |-> 0]
      /\ UNCHANGED <<registrations, visit>>
  BY DEF Clear, SyncMoves
<1>2. sheet' \in [tables : Seq(SUBSET Registration), spacers : Nat] /\ sheet'.spacers = 0
  <2>1. <<>> \in Seq(SUBSET Registration)
    OBVIOUS
  <2> QED BY <1>1, <2>1
<1>3. sheet.spacers \in Nat
  BY DEF RegistrantInv, SheetInv, SheetTypes
<1>4. sheet'.spacers <= sheet.spacers
  BY <1>2, <1>3
<1> QED BY <1>1, <1>2, <1>4, SheetSteps

LEMMA AppendRowsKeeps == ASSUME RegistrantInv, NEW y \in Syncs, AppendRows(y) PROVE RegistrantInv'
<1>1. /\ sync[y].pc = "appending" /\ SyncMoves(y, "spacing") /\ UNCHANGED <<registrations, visit>>
      /\ sheet' = [sheet EXCEPT !.tables = Append(@, sync[y].read)]
  BY DEF AppendRows, SyncMoves
<1>2. sheet \in [tables : Seq(SUBSET Registration), spacers : Nat] /\ sync[y].read \in SUBSET Registration
  BY DEF RegistrantInv, SheetInv, SheetTypes, VisitsInv, DeskTypes, SyncRecord
<1>3. Append(sheet.tables, sync[y].read) \in Seq(SUBSET Registration)
  BY <1>2
<1>4. /\ sheet' \in [tables : Seq(SUBSET Registration), spacers : Nat]
      /\ sheet'.spacers = sheet.spacers /\ sheet'.tables = Append(sheet.tables, sync[y].read)
  BY <1>1, <1>2, <1>3
<1>5. sync[y].alone => sheet' = [tables |-> <<sync[y].read>>, spacers |-> 0]
  <2> SUFFICES ASSUME sync[y].alone PROVE sheet' = [tables |-> <<sync[y].read>>, spacers |-> 0]
    OBVIOUS
  <2>1. sheet = [tables |-> <<>>, spacers |-> 0]
    BY <1>1 DEF RegistrantInv, SheetInv, AloneOnTheSheet, Syncing
  <2>2. Append(<<>>, sync[y].read) = <<sync[y].read>>
    BY <1>2
  <2> QED BY <1>1, <2>1, <2>2
<1>6. sheet'.spacers <= sheet.spacers
  BY <1>2, <1>4
<1> QED BY <1>1, <1>4, <1>5, <1>6, SheetSteps

LEMMA InsertSpacerKeeps == ASSUME RegistrantInv, NEW y \in Syncs, InsertSpacer(y) PROVE RegistrantInv'
<1>1. /\ sync[y].pc = "spacing" /\ UNCHANGED <<registrations, visit>>
      /\ sheet' = [sheet EXCEPT !.spacers = @ + 1]
      /\ SyncMoves(y, "ok") \/ SyncMoves(y, "failed")
  BY DEF InsertSpacer, SyncMoves
<1>2. sheet \in [tables : Seq(SUBSET Registration), spacers : Nat]
  BY DEF RegistrantInv, SheetInv, SheetTypes
<1>3. sheet' \in [tables : Seq(SUBSET Registration), spacers : Nat] /\ sheet'.spacers = sheet.spacers + 1
  BY <1>1, <1>2
<1>4. sheet'.spacers <= sheet.spacers + 1
  BY <1>2, <1>3
<1>5. CASE SyncMoves(y, "ok")
  BY <1>1, <1>3, <1>5, <1>4, SheetSteps
<1>6. CASE SyncMoves(y, "failed")
  BY <1>1, <1>3, <1>6, <1>4, SheetSteps
<1> QED BY <1>1, <1>5, <1>6

LEMMA CallFailsKeeps == ASSUME RegistrantInv, NEW y \in Syncs, CallFails(y) PROVE RegistrantInv'
<1>1. SyncMoves(y, "failed") /\ UNCHANGED <<registrations, visit, sheet>>
  BY DEF CallFails, SyncMoves
<1>2. sheet \in [tables : Seq(SUBSET Registration), spacers : Nat] /\ sheet'.spacers <= sheet.spacers + 1
  BY <1>1 DEF RegistrantInv, SheetInv, SheetTypes
<1> QED BY <1>1, <1>2, SheetSteps

\* Beginning a sync tells the others that they are not alone.
LEMMA SyncKeeps == ASSUME RegistrantInv, NEW y \in Syncs, SyncAttendees(y) PROVE RegistrantInv'
<1>1. sync[y].pc = "new" /\ UNCHANGED <<registrations, visit, sheet>>
  BY DEF SyncAttendees
<1>2. CASE sync' = [sync EXCEPT ![y].pc = "failed"]
  <2>1. /\ sync' \in [Syncs -> SyncRecord] /\ sync'[y].pc = "failed"
        /\ \A z \in Syncs : z # y => sync'[z] = sync[z]
    BY <1>2, SyncFields DEF RegistrantInv, VisitsInv
  <2>2. VisitsInv'
    BY <1>1, <2>1 DEF RegistrantInv, VisitsInv, DeskTypes, RowsAreOfVisits, KnownBefore, Confirmed, SamePerson
  <2>3. Syncing' = Syncing /\ y \notin Syncing
    BY <1>1, <2>1 DEF Syncing
  <2>4. \A z \in Syncing : sync'[z] = sync[z]
    BY <2>1, <2>3 DEF Syncing
  <2>5. ReadsConfirmed' /\ AloneOnTheSheet'
    BY <1>1, <2>3, <2>4 DEF RegistrantInv, SheetInv, ReadsConfirmed, AloneOnTheSheet, Confirmed
  <2>6. Ended' = Ended \cup {y} /\ y \notin Ended
    BY <1>1, <2>1 DEF Ended
  <2>7. Cardinality(Ended') = Cardinality(Ended) + 1 /\ Cardinality(Ended) \in Nat
    BY <2>6, EndedFinite, FS_AddElement
  <2>8. SheetTypes'
    BY <1>1, <2>7 DEF RegistrantInv, SheetInv, SheetTypes
  <2> QED BY <2>2, <2>5, <2>8 DEF RegistrantInv, SheetInv
<1>3. CASE (\A r \in GetAttendeeSummary : Decrypts(r)) /\ sync' # [sync EXCEPT ![y].pc = "failed"]
  <2> DEFINE n == [pc |-> "clearing", read |-> GetAttendeeSummary, before |-> Confirmed,
                   alone |-> Syncing = {}]
  <2>1. sync' = [z \in Syncs |-> IF z = y THEN n
                                 ELSE IF z \in Syncing THEN [sync[z] EXCEPT !.alone = FALSE] ELSE sync[z]]
    BY <1>3 DEF SyncAttendees
  <2>2. n \in SyncRecord
    <3>1. GetAttendeeSummary \in SUBSET Registration /\ Confirmed \in SUBSET Visits /\ (Syncing = {}) \in BOOLEAN
      BY DEF GetAttendeeSummary, Confirmed, RegistrantInv, VisitsInv, DeskTypes
    <3> QED BY <3>1 DEF SyncRecord
  <2>3. sync'[y] = n
    BY <2>1
  <2>4. \A z \in Syncs : z # y /\ z \notin Syncing => sync'[z] = sync[z]
    BY <2>1
  <2>5. ASSUME NEW z \in Syncing
        PROVE  /\ sync'[z] \in SyncRecord /\ sync'[z].pc = sync[z].pc /\ sync'[z].read = sync[z].read
               /\ sync'[z].before = sync[z].before /\ ~sync'[z].alone
    <3> DEFINE r == sync[z]
    <3>1. z # y /\ z \in Syncs /\ r \in SyncRecord
      BY <1>1 DEF Syncing, RegistrantInv, VisitsInv, DeskTypes
    <3>2. sync'[z] = [r EXCEPT !.alone = FALSE]
      BY <2>1, <2>5, <3>1
    <3> HIDE DEF r
    <3> DEFINE q == [r EXCEPT !.alone = FALSE]
    <3>3. q \in SyncRecord /\ q.pc = r.pc /\ q.read = r.read /\ q.before = r.before /\ ~q.alone
      BY <3>1 DEF SyncRecord
    <3> HIDE DEF q
    <3>4. sync'[z] = q
      BY <3>2 DEF q
    <3> QED BY <3>3, <3>4 DEF r
  <2>6. sync' \in [Syncs -> SyncRecord]
    <3>1. \A z \in Syncs : sync'[z] \in SyncRecord
      BY <2>2, <2>3, <2>4, <2>5 DEF RegistrantInv, VisitsInv, DeskTypes
    <3>2. sync' = [z \in Syncs |-> sync'[z]]
      BY <2>1
    <3> QED BY <3>1, <3>2
  <2>7. VisitsInv'
    BY <1>1, <2>6 DEF RegistrantInv, VisitsInv, DeskTypes, RowsAreOfVisits, KnownBefore, Confirmed, SamePerson
  <2>8. \A z \in Syncs : z # y => sync'[z].pc = sync[z].pc
    BY <2>4, <2>5
  <2>9. sync'[y].pc = "clearing" /\ sync'[y].alone = (Syncing = {})
    BY <2>3
  <2>10. y \notin Syncing /\ Syncing' = Syncing \cup {y}
    BY <1>1, <2>8, <2>9 DEF Syncing
  <2>11. Ended' = Ended
    BY <1>1, <2>8, <2>9 DEF Ended
  <2>12. SheetTypes'
    BY <1>1, <2>11 DEF RegistrantInv, SheetInv, SheetTypes
  <2>13. AloneOnTheSheet'
    <3> SUFFICES ASSUME NEW z \in Syncing', sync'[z].alone
                 PROVE  Syncing' = {z} /\ sync'[z].pc = "clearing"
      BY DEF AloneOnTheSheet
    <3>1. z = y
      BY <2>5, <2>10
    <3> QED BY <2>9, <2>10, <3>1
  <2>14. ReadsConfirmed'
    <3>1. Confirmed' = Confirmed
      BY <1>1 DEF Confirmed
    <3>2. ASSUME NEW s \in Confirmed, visit[s].day \in CurrentDays
          PROVE  \E r \in GetAttendeeSummary : r.by = s
      <4> DEFINE row == [attendee |-> visit[s].attendee, day |-> visit[s].day, by |-> s]
      <4>1. row \in registrations
        BY DEF RegistrantInv, VisitsInv, RowsAreOfVisits, Confirmed
      <4>2. row \in GetAttendeeSummary /\ row.by = s
        BY <3>2, <4>1 DEF GetAttendeeSummary
      <4> QED BY <4>2
    <3>3. sync'[y].before = Confirmed /\ sync'[y].read = GetAttendeeSummary
      BY <2>3
    <3>4. ASSUME NEW z \in Syncing', NEW s \in sync'[z].before
          PROVE  /\ s \in Confirmed
                 /\ visit[s].day \in CurrentDays => \E r \in sync'[z].read : r.by = s
      <4>1. CASE z = y
        BY <3>2, <3>3, <3>4, <4>1
      <4>2. CASE z # y
        <5>1. z \in Syncing
          BY <2>10, <4>2
        <5>2. sync'[z].before = sync[z].before /\ sync'[z].read = sync[z].read
          BY <2>5, <5>1
        <5> QED BY <3>4, <5>1, <5>2 DEF RegistrantInv, SheetInv, ReadsConfirmed
      <4> QED BY <4>1, <4>2
    <3> QED BY <1>1, <3>1, <3>4 DEF ReadsConfirmed
  <2> QED BY <2>7, <2>12, <2>13, <2>14 DEF RegistrantInv, SheetInv
<1> QED BY <1>1, <1>2, <1>3 DEF SyncAttendees

\* A step of the visits.
LEMMA VisitsStep ==
    ASSUME RegistrantInv, NEW s \in Visits,
           \/ \E g \in Guests, d \in Days : RegisterAttendee(s, g, d)
           \/ GetAgendaAttendee(s) \/ InsertAgendaAttendee(s) \/ Created(s) \/ VisitFails(s)
    PROVE  RegistrantInv'
<1>1. VisitsInv' /\ UNCHANGED <<sync, sheet>>
  BY RegisterKeeps, LookUpKeeps, InsertRowKeeps, CreatedKeeps, VisitFailsKeeps
     DEF RegistrantInv, RegisterAttendee, GetAgendaAttendee, InsertAgendaAttendee, Created, VisitFails
<1>2. visit[s].pc # "created" /\ \A k \in Visits : k # s => visit'[k] = visit[k]
  <2>1. visit \in [Visits -> VisitRecord]
    BY DEF RegistrantInv, VisitsInv, DeskTypes
  <2> QED BY <2>1 DEF RegisterAttendee, GetAgendaAttendee, InsertAgendaAttendee, Created, VisitFails
<1>3. \A k \in Confirmed : k \in Confirmed' /\ visit'[k].day = visit[k].day
  BY <1>2 DEF Confirmed
<1> QED BY <1>1, <1>3, VisitsKeepSheet DEF RegistrantInv

LEMMA RegistrantInitially == RegistrantInit => RegistrantInv
  BY VisitsInitially, SheetInitially DEF RegistrantInv

LEMMA RegistrantStep == RegistrantInv /\ [RegistrantNext]_registrantVars => RegistrantInv'
<1> SUFFICES ASSUME RegistrantInv, [RegistrantNext]_registrantVars PROVE RegistrantInv'
  OBVIOUS
<1>1. CASE \E s \in Visits : \/ \E g \in Guests, d \in Days : RegisterAttendee(s, g, d)
                             \/ GetAgendaAttendee(s) \/ InsertAgendaAttendee(s)
                             \/ Created(s) \/ VisitFails(s)
  BY <1>1, VisitsStep
<1>2. CASE \E y \in Syncs : SyncAttendees(y) \/ Clear(y) \/ AppendRows(y) \/ InsertSpacer(y) \/ CallFails(y)
  BY <1>2, SyncKeeps, ClearKeeps, AppendRowsKeeps, InsertSpacerKeeps, CallFailsKeeps
<1>3. CASE UNCHANGED registrantVars
  BY <1>3 DEF registrantVars, RegistrantInv, VisitsInv, DeskTypes, RowsAreOfVisits, KnownBefore, Confirmed,
              SamePerson, SheetInv, SheetTypes, ReadsConfirmed, AloneOnTheSheet, Syncing, Ended
<1> QED BY <1>1, <1>2, <1>3 DEF RegistrantNext

LEMMA LoneSyncStep ==
    RegistrantInv /\ [RegistrantNext]_registrantVars =>
        [\A y \in Syncs : sync[y].pc = "spacing" /\ sync'[y].pc = "ok" /\ sync[y].alone =>
            /\ Len(sheet'.tables) = 1 /\ sheet'.spacers = 1
            /\ \A s \in sync[y].before : visit[s].day \in CurrentDays =>
                 \E r \in sheet'.tables[1] : r.by = s]_registrantVars
<1> SUFFICES ASSUME RegistrantInv, RegistrantNext, NEW y \in Syncs,
                    sync[y].pc = "spacing", sync'[y].pc = "ok", sync[y].alone
             PROVE  /\ Len(sheet'.tables) = 1 /\ sheet'.spacers = 1
                    /\ \A s \in sync[y].before : visit[s].day \in CurrentDays =>
                         \E r \in sheet'.tables[1] : r.by = s
  OBVIOUS
<1>1. DeskTypes
  BY DEF RegistrantInv, VisitsInv
<1>2. InsertSpacer(y)
  <2>1. PICK z \in Syncs : SyncAttendees(z) \/ Clear(z) \/ AppendRows(z) \/ InsertSpacer(z) \/ CallFails(z)
    <3>1. sync' # sync
      OBVIOUS
    <3> QED BY <3>1 DEF RegistrantNext, RegisterAttendee, GetAgendaAttendee, InsertAgendaAttendee, Created,
                        VisitFails
  <2>2. CASE SyncAttendees(z)
    <3>1. z # y
      BY <2>2 DEF SyncAttendees
    <3>2. sync'[y].pc = "spacing"
      <4>1. CASE sync' = [sync EXCEPT ![z].pc = "failed"]
        BY <1>1, <3>1, <4>1 DEF DeskTypes
      <4>2. CASE sync' # [sync EXCEPT ![z].pc = "failed"]
        <5>1. sync'[y] = [sync[y] EXCEPT !.alone = FALSE]
          BY <2>2, <3>1, <4>2 DEF SyncAttendees, Syncing
        <5>2. sync[y] \in SyncRecord
          BY <1>1 DEF DeskTypes
        <5> QED BY <5>1, <5>2 DEF SyncRecord
      <4> QED BY <4>1, <4>2
    <3> QED BY <3>2
  <2>3. CASE Clear(z) \/ AppendRows(z) \/ CallFails(z)
    <3>1. PICK phase \in {"appending", "spacing", "failed"} : sync' = [sync EXCEPT ![z].pc = phase]
      BY <2>3 DEF Clear, AppendRows, CallFails
    <3>2. sync'[z].pc = phase /\ \A k \in Syncs : k # z => sync'[k] = sync[k]
      BY <1>1, <3>1, SyncFields
    <3> QED BY <3>2
  <2>4. CASE InsertSpacer(z)
    <3>1. PICK phase \in {"ok", "failed"} : sync' = [sync EXCEPT ![z].pc = phase]
      BY <2>4 DEF InsertSpacer
    <3>2. \A k \in Syncs : k # z => sync'[k] = sync[k]
      BY <1>1, <3>1, SyncFields
    <3> QED BY <2>4, <3>2
  <2> QED BY <2>1, <2>2, <2>3, <2>4
<1>3. sheet = [tables |-> <<sync[y].read>>, spacers |-> 0] /\ y \in Syncing
  BY DEF RegistrantInv, SheetInv, AloneOnTheSheet, Syncing
<1>4. sheet' = [tables |-> <<sync[y].read>>, spacers |-> 1]
  BY <1>2, <1>3 DEF InsertSpacer
<1>5. Len(sheet'.tables) = 1 /\ sheet'.spacers = 1 /\ sheet'.tables[1] = sync[y].read
  BY <1>4
<1> QED BY <1>3, <1>5 DEF RegistrantInv, SheetInv, ReadsConfirmed

LEMMA RegistrantTypes == RegistrantInv => RegistrantTypeOK
<1> SUFFICES ASSUME RegistrantInv PROVE RegistrantTypeOK
  OBVIOUS
<1>1. sheet.spacers \in Nat /\ sheet.spacers <= Cardinality(Ended)
  BY DEF RegistrantInv, SheetInv, SheetTypes
<1>2. IsFiniteSet(Syncs) /\ Cardinality(Syncs) \in Nat
  BY RegistrantAssumption, FS_CardinalityType
<1>3. sheet.spacers \in 0..Cardinality(Syncs)
  BY <1>1, <1>2, EndedFinite
<1> QED BY <1>3 DEF RegistrantInv, VisitsInv, DeskTypes, Registration, VisitRecord, RegistrantTypeOK

\* Every variable of the registrant backend has its type.
THEOREM DesksTyped == RegistrantSpec => []RegistrantTypeOK
<1> QED BY RegistrantInitially, RegistrantStep, RegistrantTypes, PTL DEF RegistrantSpec

\* A day's desks register an attendee once, the counts report what they scanned, and a copy to the sheet
\* that nobody overlapped leaves all of it there (handlers/agenda.go, sheets/sheet.go).
THEOREM DesksAreSafe == RegistrantSpec => DeskSafety
<1>1. RegistrantInv => RescanIsRefused /\ CountsWhatWasScanned
  BY VisitsHold DEF RegistrantInv
<1> QED BY <1>1, RegistrantInitially, RegistrantStep, LoneSyncStep, PTL
        DEF RegistrantSpec, DeskSafety, LoneSyncReplaces

-----------------------------------------------------------------------------
(***************************************************************************)
(* What MCAttendees composes: each step is one of the four components'     *)
(* own, and leaves the others as they are.                                 *)
(***************************************************************************)
AttendeesInv == ConnectionInv /\ CoinInv /\ RegistrantInv

LEMMA AttendeesInitially == Init => AttendeesInv
  BY ConnectionInitially, CoinInitially, RegistrantInitially DEF Init, AttendeesInv

LEMMA AttendeesNext == AttendeesInv /\ [Next]_vars => AttendeesInv'
<1> SUFFICES ASSUME AttendeesInv, [Next]_vars PROVE AttendeesInv'
  OBVIOUS
<1>1. ConnectionInv'
  <2>1. CASE AttendeeStep /\ UNCHANGED connectionOnly
    <3>1. AttendeeInv'
      BY <2>1, AttendeesStep DEF AttendeesInv, ConnectionInv
    <3>2. TableInv'
      BY <2>1, TableStays DEF AttendeesInv, ConnectionInv
    <3> QED BY <3>1, <3>2 DEF ConnectionInv
  <2>2. CASE [ConnectionNext]_connectionVars
    BY <2>2, ConnectionStep DEF AttendeesInv
  <2> QED BY <2>1, <2>2 DEF Next, vars
<1>2. [CoinNext]_coinVars /\ [RegistrantNext]_registrantVars
  BY DEF Next, vars
<1>3. CoinInv' /\ RegistrantInv'
  BY <1>2, CoinStep, RegistrantStep DEF AttendeesInv
<1> QED BY <1>1, <1>3 DEF AttendeesInv

\* Whichever of the four a behaviour is about, every variable of all four keeps its type.
THEOREM AttendeesTyped == Spec => []TypesOK
<1>1. AttendeesInv => TypesOK
  BY ConnectionsHold, RegistrantTypes DEF AttendeesInv, CoinInv, TypesOK
<1> QED BY <1>1, AttendeesInitially, AttendeesNext, PTL DEF Spec
=============================================================================
