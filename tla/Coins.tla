------------------------------- MODULE Coins -------------------------------
(***************************************************************************)
(* Coins for scanned QR codes.  A scan is checked, looked up in the QR     *)
(* portal and the wallet service, inserted as a PENDING allocation and     *)
(* then marked FAILED, which is what the transfer job outside this code    *)
(* picks up.  Two scans of one code by one attendee may run side by side,  *)
(* and a scan may die between its steps.                                   *)
(***************************************************************************)
EXTENDS Integers, FiniteSets, Functions

CONSTANTS
    Scanners, Codes, Scans, CoinEvents,
    Registered, Employees, WalletOwners,    \* sets of attendees
    CodeInfo,               \* what the QR portal knows of a code: type, coins, start, end
    ExcludeEmployees, EnableQrValidations,  \* deployment settings
    SessionEndTimeOffset,
    CronTakes,              \* the statuses the transfer job takes up
    MaxTime                 \* environment: how far the clock goes

ASSUME CoinAssumption ==
    /\ Registered \subseteq Scanners /\ Employees \subseteq Scanners /\ WalletOwners \subseteq Scanners
    /\ ExcludeEmployees \in BOOLEAN /\ EnableQrValidations \in BOOLEAN
    /\ SessionEndTimeOffset \in Nat /\ MaxTime \in Nat /\ CoinEvents \subseteq Nat /\ CoinEvents # {}
    /\ CronTakes \subseteq {"PENDING", "PROCESSING", "TRANSFERRED", "FAILED"}
    /\ \A q \in Codes : /\ CodeInfo[q].type \in {"SESSION", "O2BAR", "GENERAL", "PARTNER"}
                        /\ CodeInfo[q].coins \in Nat
                        /\ CodeInfo[q].scheduled \in BOOLEAN
                        /\ CodeInfo[q].start \in Nat /\ CodeInfo[q].end \in Nat

VARIABLES
    allocation,     \* coin_allocation: the row of each code and attendee
    scan,           \* the scan calls
    paid,           \* external: transfers made for each code and attendee
    showFullName,   \* attendees who show their full name
    coinEvent,      \* the current event
    clock

coinVars == <<allocation, scan, paid, showFullName, coinEvent, clock>>

NoAllocation == [status |-> "NONE", event |-> 0, coins |-> 0]
CoinStatuses == {"PENDING", "PROCESSING", "TRANSFERRED", "FAILED"}
ScanAnswers ==
    {"none", "accepted", "notRegistered", "employee", "alreadyScanned", "noWallet", "notStarted",
     "expired", "error"}

CoinInit ==
    /\ allocation = [place \in Codes \X Scanners |-> NoAllocation]
    /\ scan \in [Scans -> {[pc |-> "idle", user |-> u, code |-> q, event |-> 0, answer |-> "none"] :
                              u \in Scanners, q \in Codes}]
    /\ paid = [place \in Codes \X Scanners |-> 0]
    /\ showFullName = {}
    /\ coinEvent = CHOOSE e \in CoinEvents : \A d \in CoinEvents : e <= d
    /\ clock = 0

-----------------------------------------------------------------------------
IsRegistered(u) == u \in Registered

Exists(q, u) == allocation[<<q, u>>].status # "NONE"

\* A missing wallet is an answer of the wallet service, not an error.
GetPrimaryWallet(u) == u \in WalletOwners

\* A session without a day and a slot has no window.
GetTimeWindow(q) == [scheduled |-> CodeInfo[q].scheduled, start |-> CodeInfo[q].start, end |-> CodeInfo[q].end]

\* The scan window is closed on both sides; the offset extends its end.
validateSessionWindow(q) ==
    LET w == GetTimeWindow(q)
    IN  CASE ~w.scheduled -> "error"
          [] w.scheduled /\ clock < w.start -> "notStarted"
          [] w.scheduled /\ clock > w.end + SessionEndTimeOffset -> "expired"
          [] OTHER -> "none"

\* Only three of the four kinds of code can be stored.
buildEventData(q) == CodeInfo[q].type \in {"SESSION", "O2BAR", "GENERAL"}

AnswerScan(s, answer) == scan' = [scan EXCEPT ![s].pc = "done", ![s].answer = answer]

-----------------------------------------------------------------------------
(***************************************************************************)
(* The steps of a scan.                                                    *)
(***************************************************************************)
\* Registered, eligible and not yet scanned, as far as a first look tells.
BeginScan(s) ==
    LET u == scan[s].user
        q == scan[s].code
    IN  /\ scan[s].pc = "idle"
        /\ CASE ~IsRegistered(u) -> AnswerScan(s, "notRegistered")
             [] IsRegistered(u) /\ ExcludeEmployees /\ u \in Employees -> AnswerScan(s, "employee")
             [] OTHER -> IF Exists(q, u) THEN AnswerScan(s, "alreadyScanned")
                         ELSE scan' = [scan EXCEPT ![s].pc = "lookup"]
        /\ UNCHANGED <<allocation, paid, showFullName, coinEvent, clock>>

\* Code, wallet, session window and current event, in this order; any lookup may fail.
LookUpScan(s) ==
    LET u == scan[s].user
        q == scan[s].code
        window == IF EnableQrValidations /\ CodeInfo[q].type = "SESSION"
                  THEN validateSessionWindow(q) ELSE "none"
    IN  /\ scan[s].pc = "lookup"
        /\ CASE ~GetPrimaryWallet(u) -> AnswerScan(s, "noWallet")
             [] GetPrimaryWallet(u) /\ window # "none" -> AnswerScan(s, window)
             [] OTHER -> IF ~buildEventData(q) THEN AnswerScan(s, "error")
                         ELSE scan' = [scan EXCEPT ![s].pc = "insert", ![s].event = coinEvent]
        /\ UNCHANGED <<allocation, paid, showFullName, coinEvent, clock>>

\* Mutant: the table accepts a second row for the pair, which replaces the first here.
InsertTwice(s) ==
    LET u == scan[s].user
        q == scan[s].code
    IN  /\ scan[s].pc = "insert"
        /\ allocation' = [allocation EXCEPT ![<<q, u>>] =
                [status |-> "PENDING", event |-> scan[s].event, coins |-> CodeInfo[q].coins]]
        /\ scan' = [scan EXCEPT ![s].pc = "mark"]
        /\ UNCHANGED <<paid, showFullName, coinEvent, clock>>

\* The unique pair of code and attendee decides between racing scans.
InsertAllocation(s) ==
    LET u == scan[s].user
        q == scan[s].code
    IN  /\ scan[s].pc = "insert"
        /\ IF Exists(q, u) THEN AnswerScan(s, "alreadyScanned") /\ UNCHANGED allocation
           ELSE /\ allocation' = [allocation EXCEPT ![<<q, u>>] =
                        [status |-> "PENDING", event |-> scan[s].event, coins |-> CodeInfo[q].coins]]
                /\ scan' = [scan EXCEPT ![s].pc = "mark"]
        /\ UNCHANGED <<paid, showFullName, coinEvent, clock>>

\* UPDATE without a guard on the status the row has.
UpdateStatus(q, u, status) ==
    allocation' = [allocation EXCEPT ![<<q, u>>].status = IF @ = "NONE" THEN @ ELSE status]

\* The scan is accepted whether or not the row could be marked FAILED.
MarkFailed(s) ==
    /\ scan[s].pc = "mark"
    /\ AnswerScan(s, "accepted")
    /\ UpdateStatus(scan[s].code, scan[s].user, "FAILED") \/ UNCHANGED allocation
    /\ UNCHANGED <<paid, showFullName, coinEvent, clock>>

\* A lookup or a statement fails, or the process ends: the caller sees an error.
FailScan(s) ==
    /\ scan[s].pc \in {"lookup", "insert", "mark"}
    /\ AnswerScan(s, "error")
    /\ UNCHANGED <<allocation, paid, showFullName, coinEvent, clock>>

-----------------------------------------------------------------------------
(***************************************************************************)
(* What attendees are shown.                                               *)
(***************************************************************************)
RowsOf(u, e) == {q \in Codes : Exists(q, u) /\ allocation[<<q, u>>].event = e}

\* Every coin of the attendee at the event; a coin not yet transferred is pending.
History(u, e) ==
    {[code |-> q, coins |-> allocation[<<q, u>>].coins,
      status |-> IF allocation[<<q, u>>].status \in {"FAILED", "PROCESSING"} THEN "PENDING"
                 ELSE allocation[<<q, u>>].status] : q \in RowsOf(u, e)}

Summary(u, e) ==
    LET sum(statuses) == SumFunctionOnSet([q \in Codes |-> allocation[<<q, u>>].coins],
                                          {q \in RowsOf(u, e) : allocation[<<q, u>>].status \in statuses})
    IN  [totalPending |-> sum({"PENDING", "PROCESSING", "FAILED"}), totalTransferred |-> sum({"TRANSFERRED"})]

\* Scanners with transferred coins, and whether each is shown with the full name.
GetLeaderboard(e) ==
    {[user |-> u, totalCoins |-> Summary(u, e).totalTransferred, fullName |-> u \in showFullName] :
        u \in {v \in Scanners : \E q \in RowsOf(v, e) : allocation[<<q, v>>].status = "TRANSFERRED"}}

UpdatePreferences(u, show) ==
    /\ showFullName' = IF show THEN showFullName \cup {u} ELSE showFullName \ {u}
    /\ showFullName' # showFullName
    /\ UNCHANGED <<allocation, scan, paid, coinEvent, clock>>

-----------------------------------------------------------------------------
(***************************************************************************)
(* The transfer job outside this code, the organizer and the clock.        *)
(***************************************************************************)
TakeUp(q, u) ==
    /\ allocation[<<q, u>>].status \in CronTakes
    /\ allocation' = [allocation EXCEPT ![<<q, u>>].status = "PROCESSING"]
    /\ UNCHANGED <<scan, paid, showFullName, coinEvent, clock>>

Transfer(q, u) ==
    /\ allocation[<<q, u>>].status = "PROCESSING"
    /\ \/ /\ allocation' = [allocation EXCEPT ![<<q, u>>].status = "TRANSFERRED"]
          /\ paid' = [paid EXCEPT ![<<q, u>>] = @ + 1]
       \/ allocation' = [allocation EXCEPT ![<<q, u>>].status = "FAILED"] /\ UNCHANGED paid
    /\ UNCHANGED <<scan, showFullName, coinEvent, clock>>

RollEvent ==
    /\ \E e \in CoinEvents : e > coinEvent /\ coinEvent' = e
    /\ UNCHANGED <<allocation, scan, paid, showFullName, clock>>

Tick ==
    /\ clock < MaxTime /\ clock' = clock + 1
    /\ UNCHANGED <<allocation, scan, paid, showFullName, coinEvent>>

-----------------------------------------------------------------------------
CoinNext ==
    \/ \E s \in Scans : BeginScan(s) \/ LookUpScan(s) \/ InsertAllocation(s) \/ MarkFailed(s) \/ FailScan(s)
    \/ \E u \in Scanners, show \in BOOLEAN : UpdatePreferences(u, show)
    \/ \E q \in Codes, u \in Scanners : TakeUp(q, u) \/ Transfer(q, u)
    \/ RollEvent \/ Tick

CoinSpec == CoinInit /\ [][CoinNext]_coinVars

-----------------------------------------------------------------------------
\* Every variable has its type.
CoinTypeOK ==
    /\ allocation \in [Codes \X Scanners -> [status : CoinStatuses \cup {"NONE"}, event : Nat, coins : Nat]]
    /\ scan \in [Scans -> [pc : {"idle", "lookup", "insert", "mark", "done"}, user : Scanners, code : Codes,
                           event : Nat, answer : ScanAnswers]]
    /\ paid \in [Codes \X Scanners -> Nat] /\ showFullName \subseteq Scanners
    /\ coinEvent \in CoinEvents /\ clock \in 0..MaxTime

\* However the scans of one code by one attendee interleave, at most one of them is accepted, and a
\* scan that was accepted or is about to be has its row.
AcceptedOnce ==
    \A s, t \in Scans :
        /\ scan[s].answer = "accepted" \/ scan[s].pc = "mark" => Exists(scan[s].code, scan[s].user)
        /\ /\ s # t /\ scan[s].user = scan[t].user /\ scan[s].code = scan[t].code
           /\ scan[s].answer = "accepted"
           => scan[t].answer # "accepted"

\* With a transfer job that takes up FAILED rows only, the unguarded status update never undoes a
\* transfer: each allocation is paid once, and its status says whether it was.
TransferredOnce ==
    CronTakes \subseteq {"FAILED"} =>
        \A q \in Codes, u \in Scanners :
            paid[<<q, u>>] = (IF allocation[<<q, u>>].status = "TRANSFERRED" THEN 1 ELSE 0)

\* The summary, the history and the leaderboard tell one story at every event: pending and transferred
\* add up to every coin in the history, and the leaderboard counts what was really paid.
CoinViewsAgree ==
    \A u \in Scanners, e \in CoinEvents :
        /\ Summary(u, e).totalPending + Summary(u, e).totalTransferred
             = SumFunction([h \in History(u, e) |-> h.coins])
        /\ \A entry \in GetLeaderboard(e) :
            entry.user = u =>
                entry.totalCoins = SumFunction([q \in RowsOf(u, e) |-> paid[<<q, u>>] * CodeInfo[q].coins])

\* A code is worth its coins once to an attendee, and every view says so.
CoinSafety == AcceptedOnce /\ TransferredOnce /\ CoinViewsAgree
=============================================================================
