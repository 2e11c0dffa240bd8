-------------------------------- MODULE Shop --------------------------------
(***************************************************************************)
(* The conference shop: a checkout reserves stock for a PENDING order in   *)
(* one transaction, a confirmation verifies the payment while it holds the *)
(* order's row and settles the order, and each replica's worker expires    *)
(* stale orders and restores their stock.                                  *)
(*                                                                         *)
(* A transaction's writes become visible when it commits; the row locks it *)
(* holds are the "held" and "orders" of its caller.  A checkout call mints *)
(* its order id, so the orders are named after the calls that create them. *)
(* Item ids are numbers because rows are locked in id order, and an event  *)
(* is a number because the current event is the latest one.                *)
(***************************************************************************)
EXTENDS Integers, Sequences, FiniteSets, FiniteSetsExt

CONSTANTS
    Users, Items, Events,
    Checkouts,          \* the checkout calls, and the orders they create
    Confirms,           \* the confirmation calls
    Sweeps,             \* the replicas' cleanup workers
    Requests,           \* the bodies a client may send to checkout
    Hashes, NoHash, NoKey, NoUser, NoOrder,
    InitialStock,       \* the catalog at the start
    SoldAt,             \* events an item is sold at: its own, or all when it has none
    MaxPerUser,         \* 0 stands for no cap
    MaxCheckoutLines, MaxLineQuantity,
    Connections,        \* size of the database pool
    MaxActs             \* environment: how often the organizer acts or a sweep fails

ASSUME ShopAssumption ==
    /\ Items \subseteq Nat /\ Events \subseteq Nat
    /\ IsFiniteSet(Items) /\ IsFiniteSet(Events) /\ IsFiniteSet(Checkouts)
    /\ NoHash \notin Hashes /\ NoUser \notin Users /\ NoOrder \notin Checkouts
    /\ InitialStock \in [Items -> Nat] /\ MaxPerUser \in [Items -> Nat]
    /\ SoldAt \in [Items -> SUBSET Events]
    /\ MaxLineQuantity \in Nat /\ MaxCheckoutLines \in Nat /\ MaxActs \in Nat
    /\ Requests \subseteq [key : STRING \cup {NoKey}, lines : Seq([id : Nat, quantity : Int]),
                           shipping : BOOLEAN]

VARIABLES
    conferences,        \* rows of conference_config
    closed,             \* events whose shop_closing_time has passed
    item,               \* rows of shop_item: stock, visible, price
    order,              \* rows of shop_order with their lines
    walletConfigured,   \* this deployment knows the merchant wallet
    chain,              \* what the transaction service knows of each hash
    checkout, confirm, sweep,   \* the calls in progress
    mailed,             \* confirmation mails sent for each order
    acts                \* organizer acts and failed sweeps so far

eventVars == <<conferences, closed, walletConfigured>>
vars == <<eventVars, item, order, chain, checkout, confirm, sweep, mailed, acts>>

Refusals == {"shortfall", "limit", "unavailable"}
Live == {"PENDING", "CONFIRMED", "FULFILLED"}
GivenUp == {"EXPIRED", "FAILED"}

-----------------------------------------------------------------------------
\* The current event is the latest one; without a conference the shop is closed.
CurrentShopEvent == CHOOSE e \in conferences : \A d \in conferences : d <= e
IsOpen == conferences # {} /\ CurrentShopEvent \notin closed

\* The items an attendee can see and buy at event e.
ListItems(e) == {i \in Items : item[i].visible /\ e \in SoldAt[i]}

\* A cart is a list of lines, each item at most once, with the shipping fields filled in.
Validate(r) ==
    /\ Len(r.lines) \in 1..MaxCheckoutLines
    /\ \A m, n \in DOMAIN r.lines : r.lines[m].id = r.lines[n].id => m = n
    /\ \A n \in DOMAIN r.lines : r.lines[n].quantity \in 1..MaxLineQuantity
    /\ r.shipping

Cart(r) ==
    [i \in Items |->
        IF \E n \in DOMAIN r.lines : r.lines[n].id = i
        THEN r.lines[CHOOSE n \in DOMAIN r.lines : r.lines[n].id = i].quantity ELSE 0]

CartTotal(r) == SumFunction([i \in Items |-> Cart(r)[i] * item[i].price])

OrdersOf(u, e) == {o \in Checkouts : order[o].user = u /\ order[o].event = e}

\* Paid orders, the ones a caller is shown.
OrderHistory(u, e) == {o \in OrdersOf(u, e) : order[o].status \in {"CONFIRMED", "FULFILLED"}}

\* Units of i in the carts of the orders S.
UnitsIn(S, i) == SumFunctionOnSet([o \in Checkouts |-> order[o].cart[i]], S)

\* Units of i the user has ordered at e, given-up orders excluded.
purchasedQuantity(u, e, i) == UnitsIn({o \in OrdersOf(u, e) : order[o].status \in Live}, i)

orderByIdempotencyKey(u, k) ==
    {o \in Checkouts : order[o].status # "NONE" /\ order[o].user = u /\ order[o].key = k}

\* Mutant: user and key are not unique.
KeyNotUnique(u, k) == FALSE
DuplicateKey(u, k) == k # NoKey /\ orderByIdempotencyKey(u, k) # {}

TakenBy(h) == {o \in Checkouts : order[o].hash = h}

\* Mutant: the hash is not unique.
HashNotUnique(h, o) == FALSE
HashUsed(h, o) == TakenBy(h) \ {o} # {}

-----------------------------------------------------------------------------
NotOnChain == [found |-> FALSE, toMaster |-> FALSE, amount |-> 0, success |-> FALSE]
EmptyCart == [i \in Items |-> 0]
NoOrderRow == [status |-> "NONE", user |-> NoUser, key |-> NoKey, event |-> 0, cart |-> EmptyCart,
               total |-> 0, hash |-> NoHash, stale |-> FALSE]
NoRequest == [key |-> NoKey, lines |-> <<>>, shipping |-> FALSE]
IdleCheckout == [pc |-> "idle", user |-> NoUser, request |-> NoRequest, event |-> 0,
                 held |-> {}, answer |-> "none", placed |-> NoOrder]
IdleConfirm == [pc |-> "idle", user |-> NoUser, order |-> NoOrder, hash |-> NoHash, answer |-> "none"]
IdleSweep == [orders |-> {}, at |-> NoOrder, held |-> {}, restored |-> {}]

Init ==
    /\ conferences \in {{}} \cup {{e} : e \in {x \in Events : \A d \in Events : x <= d}}
    /\ closed = {}
    /\ item = [i \in Items |-> [stock |-> InitialStock[i], visible |-> TRUE, price |-> 1]]
    /\ order = [o \in Checkouts |-> NoOrderRow]
    /\ walletConfigured \in BOOLEAN
    /\ chain = [h \in Hashes |-> NotOnChain]
    /\ checkout = [c \in Checkouts |-> IdleCheckout]
    /\ confirm = [f \in Confirms |-> IdleConfirm]
    /\ sweep = [s \in Sweeps |-> IdleSweep]
    /\ mailed = [o \in Checkouts |-> 0]
    /\ acts = 0

-----------------------------------------------------------------------------
(***************************************************************************)
(* Row locks and pool connections of the transactions in progress.         *)
(***************************************************************************)
InTransaction ==
    {c \in Checkouts : checkout[c].pc \in {"locking", "checked"}}
      \cup {f \in Confirms : confirm[f].pc = "verifying"}
      \cup {s \in Sweeps : sweep[s].orders # {}}

ConnectionFree == Cardinality(InTransaction) < Connections

\* Mutant: the catalog rows are read without FOR UPDATE.
ItemUnlocked(i) == {}
ItemHolder(i) ==
    {c \in Checkouts : i \in checkout[c].held} \cup {s \in Sweeps : i \in sweep[s].held}

OrderLocked(o) ==
    \/ \E f \in Confirms : confirm[f].pc = "verifying" /\ confirm[f].order = o
    \/ \E s \in Sweeps : o \in sweep[s].orders

\* The rows a call still has to lock: a checkout's in id order, a sweep's in any order.
Wanted(c) ==
    {i \in ListItems(checkout[c].event) : Cart(checkout[c].request)[i] > 0} \ checkout[c].held
NextItem(c) == CHOOSE i \in Wanted(c) : \A j \in Wanted(c) : i <= j
CartItems(o) == {i \in Items : order[o].cart[i] > 0}
SweepNeeds(s) == IF sweep[s].at = NoOrder THEN {} ELSE CartItems(sweep[s].at) \ sweep[s].held

AnswerCheckout(c, answer, placed) ==
    LET r == checkout[c]
    IN  checkout' = [checkout EXCEPT ![c] =
            [pc |-> "done", user |-> r.user, request |-> r.request, event |-> r.event, held |-> {},
             answer |-> answer, placed |-> placed]]

AnswerConfirm(f, answer) == confirm' = [confirm EXCEPT ![f].pc = "done", ![f].answer = answer]

-----------------------------------------------------------------------------
(***************************************************************************)
(* Checkout.                                                               *)
(***************************************************************************)
\* The handler validates the body; the service asks for the current event and its closing time.
BeginCheckout(c) ==
    /\ checkout[c].pc = "idle"
    /\ \E u \in Users, r \in Requests :
        LET start(pc, answer, e) ==
                [pc |-> pc, user |-> u, request |-> r, event |-> e, held |-> {}, answer |-> answer,
                 placed |-> NoOrder]
        IN  checkout' = [checkout EXCEPT ![c] =
                CASE ~Validate(r) -> start("done", "invalid", 0)
                  [] Validate(r) /\ ~IsOpen -> start("done", "closed", 0)
                  [] OTHER -> start(IF r.key = NoKey THEN "begin" ELSE "lookup", "none", CurrentShopEvent)]
    /\ UNCHANGED <<eventVars, item, order, chain, confirm, sweep, mailed, acts>>

\* A replayed key is answered with its order, whatever became of that order.
LookUpKey(c) ==
    /\ checkout[c].pc = "lookup" /\ ConnectionFree
    /\ LET known == orderByIdempotencyKey(checkout[c].user, checkout[c].request.key)
       IN  IF known # {} THEN \E o \in known : AnswerCheckout(c, "placed", o)
           ELSE checkout' = [checkout EXCEPT ![c].pc = "begin"]
    /\ UNCHANGED <<eventVars, item, order, chain, confirm, sweep, mailed, acts>>

BeginTransaction(c) ==
    /\ checkout[c].pc = "begin" /\ ConnectionFree
    /\ checkout' = [checkout EXCEPT ![c].pc = "locking"]
    /\ UNCHANGED <<eventVars, item, order, chain, confirm, sweep, mailed, acts>>

\* SELECT ... ORDER BY id FOR UPDATE: the purchasable rows of the cart, one after the other.
LockItem(c) ==
    /\ checkout[c].pc = "locking"
    /\ Wanted(c) # {}
    /\ ItemHolder(NextItem(c)) = {}
    /\ checkout' = [checkout EXCEPT ![c].held = @ \cup {NextItem(c)}]
    /\ UNCHANGED <<eventVars, item, order, chain, confirm, sweep, mailed, acts>>

\* What one line of the cart is refused for, given the rows that could be locked.
LineRefusal(c, line) ==
    CASE line.id \notin checkout[c].held -> "unavailable"
      [] line.id \in checkout[c].held /\ item[line.id].stock < line.quantity -> "shortfall"
      [] OTHER -> IF /\ MaxPerUser[line.id] > 0
                     /\ purchasedQuantity(checkout[c].user, checkout[c].event, line.id) + line.quantity
                          > MaxPerUser[line.id]
                  THEN "limit" ELSE "none"

\* Availability, stock and cap of every line before a write; the first bad line decides.
CheckCart(c) ==
    /\ checkout[c].pc = "locking" /\ Wanted(c) = {}
    /\ LET lines == checkout[c].request.lines
           bad == {n \in DOMAIN lines : LineRefusal(c, lines[n]) # "none"}
       IN  IF bad = {} THEN checkout' = [checkout EXCEPT ![c].pc = "checked"]
           ELSE AnswerCheckout(c, LineRefusal(c, lines[CHOOSE n \in bad : \A m \in bad : n <= m]), NoOrder)
    /\ UNCHANGED <<eventVars, item, order, chain, confirm, sweep, mailed, acts>>

\* Order, lines and guarded stock decrements, committed together; the answer can be lost.
PlaceOrder(c) ==
    LET u == checkout[c].user
        r == checkout[c].request
        row == [status |-> "PENDING", user |-> u, key |-> r.key, event |-> checkout[c].event,
                cart |-> Cart(r), total |-> CartTotal(r), hash |-> NoHash, stale |-> FALSE]
    IN  /\ checkout[c].pc = "checked"
        /\ ~DuplicateKey(u, r.key)
        /\ \A i \in Items : Cart(r)[i] <= item[i].stock
        /\ order' = [order EXCEPT ![c] = row]
        /\ item' = [i \in Items |-> [item[i] EXCEPT !.stock = @ - Cart(r)[i]]]
        /\ \/ AnswerCheckout(c, "placed", c)
           \/ AnswerCheckout(c, "error", NoOrder)
        /\ UNCHANGED <<eventVars, chain, confirm, sweep, mailed, acts>>

\* Mutant: the unique violation is not handled.
FindConcurrentReplayForgotten(c) == FALSE
\* The insert met the key of another order: look it up on a second connection.
FindConcurrentReplay(c) ==
    LET u == checkout[c].user
        k == checkout[c].request.key
    IN  /\ checkout[c].pc = "checked" /\ DuplicateKey(u, k)
        /\ ConnectionFree
        /\ \E o \in orderByIdempotencyKey(u, k) : AnswerCheckout(c, "placed", o)
        /\ UNCHANGED <<eventVars, item, order, chain, confirm, sweep, mailed, acts>>

\* A statement or the connection fails: the transaction is rolled back.
FailCheckout(c) ==
    /\ checkout[c].pc \in {"lookup", "begin", "locking", "checked"}
    /\ AnswerCheckout(c, "error", NoOrder)
    /\ UNCHANGED <<eventVars, item, order, chain, confirm, sweep, mailed, acts>>

-----------------------------------------------------------------------------
(***************************************************************************)
(* Confirmation.                                                           *)
(***************************************************************************)
\* Without the merchant wallet nothing can be verified: 503, the order untouched.
BeginConfirm(f) ==
    /\ confirm[f].pc = "idle"
    /\ \E u \in Users, o \in Checkouts, h \in Hashes :
        confirm' = [confirm EXCEPT ![f] =
            [pc |-> IF walletConfigured THEN "locking" ELSE "done", user |-> u, order |-> o, hash |-> h,
             answer |-> IF walletConfigured THEN "none" ELSE "unavailable"]]
    /\ UNCHANGED <<eventVars, item, order, chain, checkout, sweep, mailed, acts>>

\* Take the order's row lock and check what was read under it.
LockOrder(f) ==
    LET o == confirm[f].order
    IN  /\ confirm[f].pc = "locking" /\ ConnectionFree
        /\ ~OrderLocked(o)
        /\ CASE order[o].status = "NONE" -> AnswerConfirm(f, "notFound")
             [] order[o].status # "NONE" /\ order[o].user # confirm[f].user -> AnswerConfirm(f, "notOwned")
             [] order[o].user = confirm[f].user /\ order[o].status \notin {"NONE", "PENDING"} ->
                  AnswerConfirm(f, "notPending")
             [] OTHER -> IF HashUsed(confirm[f].hash, o) THEN AnswerConfirm(f, "hashUsed")
                         ELSE confirm' = [confirm EXCEPT ![f].pc = "verifying"]
        /\ UNCHANGED <<eventVars, item, order, chain, checkout, sweep, mailed, acts>>

\* Every condition a payment must satisfy; the amount is compared with the stored total.
verifyPayment(d, total) == d.found /\ d.toMaster /\ d.amount = total /\ d.success

\* The payment holds and nobody else has settled with this hash meanwhile: settle and commit.
ConfirmOrder(f) ==
    LET o == confirm[f].order
        h == confirm[f].hash
    IN  /\ confirm[f].pc = "verifying"
        /\ verifyPayment(chain[h], order[o].total)
        /\ order[o].status = "PENDING"
        /\ ~HashUsed(h, o)
        /\ order' = [order EXCEPT ![o].status = "CONFIRMED", ![o].hash = h]
        /\ \/ confirm' = [confirm EXCEPT ![f].pc = "mailing", ![f].answer = "confirmed"]
           \/ AnswerConfirm(f, "error")
        /\ UNCHANGED <<eventVars, item, chain, checkout, sweep, mailed, acts>>

\* The payment is not acceptable, the hash was taken while it was verified, or a call failed.
RefuseConfirm(f) ==
    /\ confirm[f].pc = "verifying"
    /\ \/ /\ ~verifyPayment(chain[confirm[f].hash], order[confirm[f].order].total)
          /\ AnswerConfirm(f, "unverified")
       \/ /\ verifyPayment(chain[confirm[f].hash], order[confirm[f].order].total)
          /\ HashUsed(confirm[f].hash, confirm[f].order)
          /\ AnswerConfirm(f, "hashUsed")
       \/ AnswerConfirm(f, "error")
    /\ UNCHANGED <<eventVars, item, order, chain, checkout, sweep, mailed, acts>>

\* The mail is looked up in the caller's history of the current event, so it can be dropped.
SendMail(f) ==
    LET o == confirm[f].order
    IN  /\ confirm[f].pc = "mailing"
        /\ confirm' = [confirm EXCEPT ![f].pc = "done"]
        /\ \/ /\ o \in OrderHistory(confirm[f].user, CurrentShopEvent)
              /\ mailed' = [mailed EXCEPT ![o] = @ + 1]
           \/ UNCHANGED mailed
        /\ UNCHANGED <<eventVars, item, order, chain, checkout, sweep, acts>>

-----------------------------------------------------------------------------
(***************************************************************************)
(* The cleanup worker of a replica.                                        *)
(***************************************************************************)
\* Time passes: a pending order passes the timeout.
Age(o) ==
    /\ order[o].status = "PENDING" /\ ~order[o].stale
    /\ order' = [order EXCEPT ![o].stale = TRUE]
    /\ UNCHANGED <<eventVars, item, chain, checkout, confirm, sweep, mailed, acts>>

StaleOrders == {o \in Checkouts : order[o].status = "PENDING" /\ order[o].stale}

\* SELECT ... FOR UPDATE SKIP LOCKED
SelectStale(s) ==
    LET free == {o \in StaleOrders : ~OrderLocked(o)}
    IN  /\ sweep[s] = IdleSweep /\ ConnectionFree
        /\ free # {}
        /\ sweep' = [sweep EXCEPT ![s].orders = free]
        /\ UNCHANGED <<eventVars, item, order, chain, checkout, confirm, mailed, acts>>

\* Restore the stock of one order: its item rows are locked one by one, in no given order.
RestoreStock(s) ==
    /\ sweep[s].orders # {}
    /\ \/ /\ sweep[s].at = NoOrder
          /\ \E o \in sweep[s].orders \ sweep[s].restored : sweep' = [sweep EXCEPT ![s].at = o]
       \/ /\ \E i \in SweepNeeds(s) :
                /\ ItemHolder(i) = {}
                /\ sweep' = [sweep EXCEPT ![s].held = @ \cup {i}]
       \/ /\ sweep[s].at # NoOrder /\ SweepNeeds(s) = {}
          /\ sweep' = [sweep EXCEPT ![s].restored = @ \cup {sweep[s].at}, ![s].at = NoOrder]
    /\ UNCHANGED <<eventVars, item, order, chain, checkout, confirm, mailed, acts>>

\* Mutant: the sweep is never committed.
SweepUncommitted(s) ==
    /\ sweep[s].orders # {} /\ sweep[s].orders = sweep[s].restored
    /\ sweep' = [sweep EXCEPT ![s] = IdleSweep]
    /\ UNCHANGED <<eventVars, item, order, chain, checkout, confirm, mailed, acts>>

\* The orders still pending are expired and their carts restored in one commit.
MarkStaleOrders(s) ==
    LET gone == {o \in sweep[s].orders : order[o].status = "PENDING"}
    IN  /\ sweep[s].orders # {} /\ sweep[s].orders = sweep[s].restored
        /\ order' = [o \in Checkouts |->
                        IF o \in gone THEN [order[o] EXCEPT !.status = "EXPIRED"] ELSE order[o]]
        /\ item' = [i \in Items |->
                        [item[i] EXCEPT !.stock = @ + UnitsIn(gone, i)]]
        /\ sweep' = [sweep EXCEPT ![s] = IdleSweep]
        /\ UNCHANGED <<eventVars, chain, checkout, confirm, mailed, acts>>

\* Sets of calls each of which waits for a row another one holds.
WaitsFor(p) ==
    IF p \in Sweeps
    THEN IF \E i \in SweepNeeds(p) : ItemHolder(i) = {} THEN {}
         ELSE UNION {ItemHolder(i) : i \in SweepNeeds(p)}
    ELSE IF checkout[p].pc = "locking" /\ Wanted(p) # {} THEN ItemHolder(NextItem(p)) ELSE {}
Deadlocked(P) == P # {} /\ \A p \in P : WaitsFor(p) \cap P # {}
InDeadlock(p) == \E P \in SUBSET (Checkouts \cup Sweeps) : p \in P /\ Deadlocked(P)

\* Mutant: without a transaction the stock restored so far stays.
FailSweepHalfway(s) ==
    /\ sweep[s].orders # {} /\ acts < MaxActs
    /\ acts' = acts + 1
    /\ item' = [i \in Items |-> [item[i] EXCEPT !.stock = @ + UnitsIn(sweep[s].restored, i)]]
    /\ sweep' = [sweep EXCEPT ![s] = IdleSweep]
    /\ UNCHANGED <<eventVars, order, chain, checkout, confirm, mailed>>

\* An error, the end of the process or a deadlock rolls the whole sweep back; the next tick tries again.
FailSweep(s) ==
    /\ sweep[s].orders # {}
    /\ \/ acts < MaxActs /\ acts' = acts + 1
       \/ InDeadlock(s) /\ UNCHANGED acts
    /\ sweep' = [sweep EXCEPT ![s] = IdleSweep]
    /\ UNCHANGED <<eventVars, item, order, chain, checkout, confirm, mailed>>

\* The database ends one of the calls that wait for each other.
BreakDeadlock(p) == InDeadlock(p) /\ IF p \in Sweeps THEN FailSweep(p) ELSE FailCheckout(p)

-----------------------------------------------------------------------------
(***************************************************************************)
(* The shop's environment: the chain, the organizer's admin tool on the    *)
(* shared tables, the operator of the deployment.                          *)
(***************************************************************************)
\* A transfer reaches the chain: to the merchant or not, successful or not, of some order's total.
Pay(h) ==
    /\ chain[h] = NotOnChain
    /\ \E o \in {p \in Checkouts : order[p].status # "NONE"}, toMaster, success \in BOOLEAN :
        /\ toMaster \/ success
        /\ chain' = [chain EXCEPT ![h] =
            [found |-> TRUE, toMaster |-> toMaster, amount |-> order[o].total, success |-> success]]
    /\ UNCHANGED <<eventVars, item, order, checkout, confirm, sweep, mailed, acts>>

Fulfil(o) ==
    /\ acts < MaxActs /\ ~OrderLocked(o)
    /\ order[o].status = "CONFIRMED"
    /\ order' = [order EXCEPT ![o].status = "FULFILLED"]
    /\ acts' = acts + 1
    /\ UNCHANGED <<eventVars, item, chain, checkout, confirm, sweep, mailed>>

\* The organizer reverses an abandoned order and restores its stock.
ReverseByOrganizer(o) ==
    /\ acts < MaxActs /\ ~OrderLocked(o)
    /\ order[o].status = "PENDING"
    /\ \A i \in CartItems(o) : ItemHolder(i) = {}
    /\ order' = [order EXCEPT ![o].status = "FAILED"]
    /\ item' = [i \in Items |->
                    [item[i] EXCEPT !.stock = @ + UnitsIn({o}, i)]]
    /\ acts' = acts + 1
    /\ UNCHANGED <<eventVars, chain, checkout, confirm, sweep, mailed>>

\* Hide an item, or change its price.
EditItem(i) ==
    /\ acts < MaxActs /\ ItemHolder(i) = {}
    /\ \/ item' = [item EXCEPT ![i].visible = FALSE]
       \/ item' = [item EXCEPT ![i].price = @ + 1]
    /\ acts' = acts + 1
    /\ UNCHANGED <<eventVars, order, chain, checkout, confirm, sweep, mailed>>

EditEvent(e) ==
    /\ acts < MaxActs
    /\ \/ conferences' = conferences \cup {e} /\ UNCHANGED closed
       \/ e \in conferences /\ closed' = closed \cup {e} /\ UNCHANGED conferences
    /\ acts' = acts + 1
    /\ UNCHANGED <<walletConfigured, item, order, chain, checkout, confirm, sweep, mailed>>

\* The deployment is fixed: the merchant wallet is set.
ConfigureWallet ==
    /\ ~walletConfigured
    /\ walletConfigured' = TRUE
    /\ UNCHANGED <<conferences, closed, item, order, chain, checkout, confirm, sweep, mailed, acts>>

\* Every call has been answered and every order is settled: nothing is left to do.
Finished ==
    /\ \A c \in Checkouts : checkout[c].pc = "done"
    /\ \A f \in Confirms : confirm[f].pc = "done"
    /\ UNCHANGED vars

-----------------------------------------------------------------------------
CheckoutStep(c) ==
    \/ BeginCheckout(c) \/ LookUpKey(c) \/ BeginTransaction(c) \/ LockItem(c) \/ CheckCart(c)
    \/ PlaceOrder(c) \/ FindConcurrentReplay(c)

ConfirmStep(f) == BeginConfirm(f) \/ LockOrder(f) \/ ConfirmOrder(f) \/ RefuseConfirm(f) \/ SendMail(f)

SweepStep(s) == SelectStale(s) \/ RestoreStock(s) \/ MarkStaleOrders(s)

Environment ==
    \/ \E h \in Hashes : Pay(h)
    \/ \E o \in Checkouts : Fulfil(o) \/ ReverseByOrganizer(o) \/ Age(o)
    \/ \E i \in Items : EditItem(i)
    \/ \E e \in Events : EditEvent(e)
    \/ ConfigureWallet

Next ==
    \/ \E c \in Checkouts : CheckoutStep(c) \/ FailCheckout(c)
    \/ \E f \in Confirms : ConfirmStep(f)
    \/ \E s \in Sweeps : SweepStep(s) \/ FailSweep(s)
    \/ Environment
    \/ Finished

Spec == Init /\ [][Next]_vars

\* Row locks are granted in turn, the pool serves its waiters in turn, a statement that can run
\* runs, the database breaks deadlocks and the ticker fires; at most MaxActs sweeps fail.  Nobody has
\* to call, to pay or to act on the admin tool.
Fairness ==
    /\ \A c \in Checkouts :
        /\ SF_vars(LookUpKey(c) \/ BeginTransaction(c) \/ LockItem(c) \/ FindConcurrentReplay(c))
        /\ WF_vars(CheckCart(c) \/ PlaceOrder(c))
    /\ \A f \in Confirms :
        SF_vars(LockOrder(f)) /\ WF_vars(ConfirmOrder(f) \/ RefuseConfirm(f) \/ SendMail(f))
    /\ \A s \in Sweeps : SF_vars(SelectStale(s)) /\ SF_vars(RestoreStock(s) \/ MarkStaleOrders(s))
    /\ WF_vars(\E p \in Checkouts \cup Sweeps : BreakDeadlock(p))
    /\ WF_vars(\E o \in Checkouts : Age(o))

FairSpec == Spec /\ Fairness

-----------------------------------------------------------------------------
\* Every variable has its type.
TypeOK ==
    /\ conferences \subseteq Events /\ closed \subseteq Events /\ walletConfigured \in BOOLEAN
    /\ item \in [Items -> [stock : Nat, visible : BOOLEAN, price : Nat]]
    /\ order \in [Checkouts -> [status : Live \cup GivenUp \cup {"NONE"}, user : Users \cup {NoUser},
                                key : STRING \cup {NoKey}, event : Nat, cart : [Items -> Nat], total : Nat,
                                hash : Hashes \cup {NoHash}, stale : BOOLEAN]]
    /\ chain \in [Hashes -> [found : BOOLEAN, toMaster : BOOLEAN, amount : Nat, success : BOOLEAN]]
    /\ acts \in 0..MaxActs

\* Stock is never lost or invented: what an item started with is on the shelf or in a live order,
\* through concurrent carts, confirmations, sweeps that fail midway, reversals and replays.
StockConserved ==
    \A i \in Items :
        item[i].stock + UnitsIn({o \in Checkouts : order[o].status \in Live}, i) = InitialStock[i]

\* Nobody holds more units of a capped item at an event than its cap, however the user's
\* checkouts interleave.
CapRespected ==
    \A u \in Users, e \in Events, i \in Items :
        MaxPerUser[i] > 0 => purchasedQuantity(u, e, i) <= MaxPerUser[i]

\* A settled order was paid: its hash is a successful transfer of exactly its frozen total to the
\* merchant, no other order was settled with it, and only then one confirmation mail was sent.
PaidInFullOnce ==
    \A o \in Checkouts :
        /\ order[o].hash # NoHash =>
            /\ order[o].status \in {"CONFIRMED", "FULFILLED"}
            /\ verifyPayment(chain[order[o].hash], order[o].total)
            /\ TakenBy(order[o].hash) = {o}
        /\ mailed[o] <= (IF order[o].hash # NoHash THEN 1 ELSE 0)

\* All checkouts of one user with one key that succeed are answered with one order.
ReplaySameOrder ==
    \A c, d \in Checkouts :
        /\ checkout[c].answer = "placed" /\ checkout[d].answer = "placed"
        /\ checkout[c].user = checkout[d].user
        /\ checkout[c].request.key = checkout[d].request.key /\ checkout[c].request.key # NoKey
        => checkout[c].placed = checkout[d].placed

\* Every checkout and confirmation that was begun is answered, although carts, confirmations and
\* sweeps wait for each other's rows and for the pool: no call waits for ever.
CallsAnswered ==
    /\ \A c \in Checkouts : checkout[c].pc # "idle" ~> checkout[c].pc = "done"
    /\ \A f \in Confirms : confirm[f].pc # "idle" ~> confirm[f].pc = "done"

\* An order does not hold its stock for ever: it is paid, or expired by a worker, or reversed.
PendingSettles == \A o \in Checkouts : order[o].status = "PENDING" ~> order[o].status # "PENDING"

\* The promise on stock and payment is kept by the transactions.
Ledger == INSTANCE ShopLedger WITH
    Orders <- Checkouts,
    stock <- [i \in Items |-> item[i].stock],
    book <- [o \in Checkouts |-> [status |-> order[o].status, cart |-> order[o].cart, hash |-> order[o].hash]]
ImplementsLedger == Ledger!LedgerSpec
=============================================================================
