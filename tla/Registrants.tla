---------------------------- MODULE Registrants ----------------------------
(***************************************************************************)
(* The registrant backend: scanning an attendee at a day's desk, counting  *)
(* a day, and copying everything into the shared Google Sheet.             *)
(*                                                                         *)
(* Attendee ids are stored under a cipher that never repeats, so the       *)
(* primary key cannot tell two rows of one attendee apart and every lookup *)
(* decrypts the rows of its day.  Rows are named by the visit that wrote   *)
(* them.  The sheet is rewritten by three calls to the Sheets API, each    *)
(* of which may fail or be applied without an answer.                      *)
(***************************************************************************)
EXTENDS Naturals, Sequences, FiniteSets, SequencesExt, FiniteSetsExt

CONSTANTS Visits, Syncs, Guests, Days,
          CurrentDays,   \* the labels of the current event
          Foreign        \* rows another key encrypted

ASSUME RegistrantAssumption ==
    /\ CurrentDays \subseteq Days /\ Visits \cap Foreign = {}
    /\ IsFiniteSet(Visits) /\ IsFiniteSet(Syncs)

VARIABLES registrations,      \* [attendee, day, by], the ciphertext being its by
          visit, sync,
          sheet      \* [tables, spacers]: what was appended since the last clear

registrantVars == <<registrations, visit, sync, sheet>>

NewVisit == [pc |-> "new", attendee |-> "none", day |-> "none", known |-> {}]
NewSync == [pc |-> "new", read |-> {}, before |-> {}, alone |-> FALSE]

Confirmed == {s \in Visits : visit[s].pc = "created"}
Syncing == {y \in Syncs : sync[y].pc \notin {"new", "ok", "failed"}}

-----------------------------------------------------------------------------
(* The registrations.                                                      *)

\* A row of another key cannot be decrypted; the lookup that meets it fails.
Decrypts(r) == r.by \notin Foreign

OfDay(d) == {r \in registrations : r.day = d}

RegisterAttendee(s, a, d) ==
    /\ visit[s].pc = "new"
    /\ visit' = [visit EXCEPT ![s] = [pc |-> "looking", attendee |-> a, day |-> d,
                                    known |-> Confirmed]]
    /\ UNCHANGED <<registrations, sync, sheet>>

\* Mutant: the stored ciphertexts are compared.
GetByCiphertext(s) ==
    /\ visit[s].pc = "looking"
    /\ visit' = [visit EXCEPT ![s].pc = "inserting"]
    /\ UNCHANGED <<registrations, sync, sheet>>

\* The rows come in no order: a match may be met before one that does not
\* decrypt.
GetAgendaAttendee(s) ==
    LET day == OfDay(visit[s].day)
        match == {r \in day : Decrypts(r) /\ r.attendee = visit[s].attendee}
        broken == {r \in day : ~Decrypts(r)} IN
    /\ visit[s].pc = "looking"
    /\ \/ match # {} /\ visit' = [visit EXCEPT ![s].pc = "conflict"]
       \/ broken # {} /\ visit' = [visit EXCEPT ![s].pc = "failed"]
       \/ match = {} /\ broken = {} /\ visit' = [visit EXCEPT ![s].pc = "inserting"]
    /\ UNCHANGED <<registrations, sync, sheet>>

InsertAgendaAttendee(s) ==
    /\ visit[s].pc = "inserting"
    /\ registrations' = registrations \cup {[attendee |-> visit[s].attendee, day |-> visit[s].day, by |-> s]}
    /\ visit' = [visit EXCEPT ![s].pc = "stored"]
    /\ UNCHANGED <<sync, sheet>>

Created(s) ==
    /\ visit[s].pc = "stored" /\ visit' = [visit EXCEPT ![s].pc = "created"]
    /\ UNCHANGED <<registrations, sync, sheet>>

\* The query, the insert or its answer is lost.
VisitFails(s) ==
    /\ visit[s].pc \in {"looking", "inserting", "stored"}
    /\ visit' = [visit EXCEPT ![s].pc = "failed"]
    /\ UNCHANGED <<registrations, sync, sheet>>

\* What GET /agendas/:agendaId/attendees/count answers, or -1 for its 500.
GetAgendaAttendeeCount(d) ==
    IF \A r \in OfDay(d) : Decrypts(r) THEN Cardinality(OfDay(d)) ELSE -1

\* A joined dropdown option narrows the summary to the current event's days.
GetAttendeeSummary == {r \in registrations : r.day \in CurrentDays}

-----------------------------------------------------------------------------
(* The sheet.                                                              *)

SyncAttendees(y) ==
    /\ sync[y].pc = "new"
    /\ IF \A r \in GetAttendeeSummary : Decrypts(r)
       THEN sync' = [z \in Syncs |->
                IF z = y THEN [pc |-> "clearing", read |-> GetAttendeeSummary,
                               before |-> Confirmed, alone |-> Syncing = {}]
                ELSE IF z \in Syncing THEN [sync[z] EXCEPT !.alone = FALSE]
                ELSE sync[z]]
       ELSE sync' = [sync EXCEPT ![y].pc = "failed"]
    /\ UNCHANGED <<registrations, visit, sheet>>

\* Mutant: nothing is cleared.
KeepSheet(y) ==
    /\ sync[y].pc = "clearing"
    /\ sync' = [sync EXCEPT ![y].pc = "appending"]
    /\ UNCHANGED <<registrations, visit, sheet>>

Clear(y) ==
    /\ sync[y].pc = "clearing"
    /\ sheet' = [tables |-> <<>>, spacers |-> 0]
    /\ sync' = [sync EXCEPT ![y].pc = "appending"]
    /\ UNCHANGED <<registrations, visit>>

AppendRows(y) ==
    /\ sync[y].pc = "appending"
    /\ sheet' = [sheet EXCEPT !.tables = Append(@, sync[y].read)]
    /\ sync' = [sync EXCEPT ![y].pc = "spacing"]
    /\ UNCHANGED <<registrations, visit>>

\* Mutant: two rows are inserted.
InsertTwoRows(y) ==
    /\ sync[y].pc = "spacing"
    /\ sheet' = [sheet EXCEPT !.spacers = @ + 2]
    /\ sync' = [sync EXCEPT ![y].pc = "ok"]
    /\ UNCHANGED <<registrations, visit>>

\* The answer to the last call may be lost after it was applied.
InsertSpacer(y) ==
    /\ sync[y].pc = "spacing"
    /\ sheet' = [sheet EXCEPT !.spacers = @ + 1]
    /\ \E out \in {"ok", "failed"} : sync' = [sync EXCEPT ![y].pc = out]
    /\ UNCHANGED <<registrations, visit>>

\* A call that fails ends the sync where it stands.
CallFails(y) ==
    /\ sync[y].pc \in {"clearing", "appending", "spacing"}
    /\ sync' = [sync EXCEPT ![y].pc = "failed"]
    /\ UNCHANGED <<registrations, visit, sheet>>

RegistrantInit ==
    /\ registrations \in {{}} \cup {{[attendee |-> "gone", day |-> d, by |-> f]} : d \in Days, f \in Foreign}
    /\ visit = [s \in Visits |-> NewVisit] /\ sync = [y \in Syncs |-> NewSync]
    /\ sheet = [tables |-> <<>>, spacers |-> 0]

RegistrantNext ==
    \/ \E s \in Visits : \/ \E a \in Guests, d \in Days : RegisterAttendee(s, a, d)
                        \/ GetAgendaAttendee(s) \/ InsertAgendaAttendee(s)
                        \/ Created(s) \/ VisitFails(s)
    \/ \E y \in Syncs : SyncAttendees(y) \/ Clear(y) \/ AppendRows(y)
                        \/ InsertSpacer(y) \/ CallFails(y)

RegistrantSpec == RegistrantInit /\ [][RegistrantNext]_registrantVars

-----------------------------------------------------------------------------
(* Properties.                                                             *)

RegistrantTypeOK ==
    /\ \A r \in registrations : r.by \in Visits \cup Foreign /\ r.day \in Days
    /\ \A s \in Visits : visit[s].pc \in {"new", "looking", "inserting", "stored",
                                        "created", "conflict", "failed"}
    /\ sheet.spacers \in 0..Cardinality(Syncs)

\* A visit begun after the attendee was registered for the day is never
\* registered again, on whichever desk: each success counts a person
\* (handlers/agenda.go, RegisterAttendee).
RescanIsRefused ==
    \A s \in Confirmed : \A k \in visit[s].known :
        ~(visit[k].attendee = visit[s].attendee /\ visit[k].day = visit[s].day)

\* What the counts report: every confirmed visit has its row, and no row
\* exists but for a visit that looked its attendee up first.
CountsWhatWasScanned ==
    /\ \A s \in Confirmed : \E r \in registrations : r.by = s /\ r.attendee = visit[s].attendee
    /\ \A d \in Days : GetAgendaAttendeeCount(d) # -1 =>
         GetAgendaAttendeeCount(d) <=
             Cardinality({s \in Visits : visit[s].day = d /\ visit[s].pc # "conflict"})

\* "Replaces the summary sheet's contents" (sheets/sheet.go): a sync that
\* nobody overlapped, whatever earlier ones left half done, answers 200 with
\* one table in the sheet, and everything confirmed before it began in it.
LoneSyncReplaces ==
    [][\A y \in Syncs : sync[y].pc = "spacing" /\ sync'[y].pc = "ok" /\ sync[y].alone =>
         /\ Len(sheet'.tables) = 1 /\ sheet'.spacers = 1
         /\ \A s \in sync[y].before : visit[s].day \in CurrentDays =>
              \E r \in sheet'.tables[1] : r.by = s]_registrantVars

\* A day's desks register an attendee once, the counts report what they scanned, and a copy to
\* the sheet that nobody overlapped leaves all of it there.
DeskSafety == [](RescanIsRefused /\ CountsWhatWasScanned) /\ LoneSyncReplaces
=============================================================================
