------------------------------ MODULE ShopProofs ------------------------------
(***************************************************************************)
(* The promises of the shop, proved for any number of checkouts,           *)
(* confirmations, workers, items and hashes.                               *)
(*                                                                         *)
(*   PaidOnce           a settled order was paid in full by a transfer of  *)
(*                      its own and mailed at most once                    *)
(*   OneOrder           a replayed checkout is answered with the order of  *)
(*                      the first                                          *)
(*   ShopTypes          every row, payment and call has its type           *)
(*   StockIsConserved   what an item started with is on the shelf or in    *)
(*                      live orders                                        *)
(*   LedgerImplemented  the transactions implement ShopLedger              *)
(*   CapsAreRespected   nobody buys more of a capped item than its cap     *)
(*                                                                         *)
(* For payments and replays every step is one of five kinds (StepKinds):   *)
(* it answers a checkout with an order that is there, places one, settles  *)
(* one, mails, or leaves users, keys, totals and hashes alone.  For the    *)
(* shelf and the carts every step is a step of the ledger or changes       *)
(* nothing (BookSteps), and stock, a sum over orders, follows with the     *)
(* lemmas of SumTheorems.  Caps need what holds between a checkout's       *)
(* checks and its commit: it holds the row of each item of its cart, rows  *)
(* have one holder, and its cart still fits (CapInv).                      *)
(***************************************************************************)
EXTENDS Shop, SumTheorems, TLAPS

OrderRow(r) == r = [status |-> r.status, user |-> r.user, key |-> r.key, event |-> r.event,
                    cart |-> r.cart, total |-> r.total, hash |-> r.hash, stale |-> r.stale]
CallRow(r) == r = [pc |-> r.pc, user |-> r.user, request |-> r.request, event |-> r.event,
                   held |-> r.held, answer |-> r.answer, placed |-> r.placed]
ConfirmRow(r) == r = [pc |-> r.pc, user |-> r.user, order |-> r.order, hash |-> r.hash,
                      answer |-> r.answer]

\* What the proofs need of the types: rows are rows, and a confirmation that began names an order.
OrdersShaped == DOMAIN order = Checkouts /\ \A o \in Checkouts : OrderRow(order[o])
CallsShaped == DOMAIN checkout = Checkouts /\ \A c \in Checkouts : CallRow(checkout[c])
ConfirmsShaped ==
    /\ DOMAIN confirm = Confirms
    /\ \A f \in Confirms :
        /\ ConfirmRow(confirm[f])
        /\ confirm[f].pc # "idle" => confirm[f].order \in Checkouts /\ confirm[f].hash \in Hashes
RestShaped == DOMAIN chain = Hashes /\ mailed \in [Checkouts -> Nat]
Shapes == OrdersShaped /\ CallsShaped /\ ConfirmsShaped /\ RestShaped

-----------------------------------------------------------------------------
(***************************************************************************)
(* The kinds of steps.                                                     *)
(***************************************************************************)
Kept(o) ==
    /\ order'[o].user = order[o].user /\ order'[o].key = order[o].key
    /\ order'[o].total = order[o].total /\ order'[o].hash = order[o].hash

Moves(o) ==
    /\ Kept(o)
    /\ \/ order'[o].status = order[o].status
       \/ order[o].status = "PENDING" /\ order'[o].status \in GivenUp
       \/ order[o].status = "CONFIRMED" /\ order'[o].status = "FULFILLED"

CallGoesOn(c) ==
    /\ checkout[c].pc = "done" => checkout'[c].pc = "done"
    /\ checkout'[c].answer = "placed" =>
        /\ checkout[c].answer = "placed" /\ checkout'[c].placed = checkout[c].placed
        /\ checkout'[c].user = checkout[c].user /\ checkout'[c].request = checkout[c].request

CallAnswered(c, o) ==
    /\ checkout'[c].pc = "done" /\ checkout'[c].placed = o
    /\ checkout'[c].user = checkout[c].user /\ checkout'[c].request = checkout[c].request

ConfirmGoesOn(f) ==
    confirm'[f].pc = "mailing" =>
        /\ confirm[f].pc = "mailing"
        /\ confirm'[f].order = confirm[f].order /\ confirm'[f].hash = confirm[f].hash

OrdersMove == \A o \in Checkouts : Moves(o)
CallsGoOn == \A c \in Checkouts : CallGoesOn(c)
ConfirmsGoOn == \A f \in Confirms : ConfirmGoesOn(f)
ChainGrows == \A h \in Hashes : chain[h].found => chain'[h] = chain[h]

Silent == OrdersMove /\ CallsGoOn /\ ConfirmsGoOn /\ ChainGrows /\ UNCHANGED mailed

Replays(c, o) ==
    /\ o \in orderByIdempotencyKey(checkout[c].user, checkout[c].request.key)
    /\ CallAnswered(c, o)
    /\ \A d \in Checkouts \ {c} : checkout'[d] = checkout[d]
    /\ UNCHANGED <<order, chain, confirm, mailed>>

Places(c) ==
    /\ checkout[c].pc = "checked" /\ ~DuplicateKey(checkout[c].user, checkout[c].request.key)
    /\ order'[c].status = "PENDING" /\ order'[c].user = checkout[c].user
    /\ order'[c].key = checkout[c].request.key /\ order'[c].hash = NoHash
    /\ \A o \in Checkouts \ {c} : order'[o] = order[o]
    /\ checkout'[c].answer = "placed" => CallAnswered(c, c)
    /\ checkout'[c].pc = "done"
    /\ \A d \in Checkouts \ {c} : checkout'[d] = checkout[d]
    /\ UNCHANGED <<chain, confirm, mailed>>

Settles(f) ==
    LET o == confirm[f].order
        h == confirm[f].hash
    IN  /\ confirm[f].pc = "verifying" /\ order[o].status = "PENDING"
        /\ verifyPayment(chain[h], order[o].total) /\ ~HashUsed(h, o)
        /\ order'[o].status = "CONFIRMED" /\ order'[o].hash = h
        /\ order'[o].user = order[o].user /\ order'[o].key = order[o].key
        /\ order'[o].total = order[o].total
        /\ \A p \in Checkouts \ {o} : order'[p] = order[p]
        /\ confirm'[f].order = o /\ confirm'[f].hash = h
        /\ \A g \in Confirms \ {f} : confirm'[g] = confirm[g]
        /\ UNCHANGED <<chain, checkout, mailed>>

Mails(f) ==
    /\ confirm[f].pc = "mailing" /\ confirm'[f].pc = "done"
    /\ \A g \in Confirms \ {f} : confirm'[g] = confirm[g]
    /\ mailed'[confirm[f].order] \in {mailed[confirm[f].order], mailed[confirm[f].order] + 1}
    /\ \A o \in Checkouts \ {confirm[f].order} : mailed'[o] = mailed[o]
    /\ UNCHANGED <<order, chain, checkout>>

StepKind ==
    \/ Silent
    \/ \E c, o \in Checkouts : Replays(c, o)
    \/ \E c \in Checkouts : Places(c)
    \/ \E f \in Confirms : Settles(f) \/ Mails(f)

-----------------------------------------------------------------------------
(***************************************************************************)
(* Single writes.                                                          *)
(***************************************************************************)
\* A new status, and nothing else, on an order row.
LEMMA StatusWrite ==
    ASSUME NEW r, OrderRow(r), NEW v
    PROVE  LET n == [r EXCEPT !.status = v] IN
           /\ OrderRow(n) /\ n.status = v /\ n.user = r.user /\ n.key = r.key
           /\ n.total = r.total /\ n.hash = r.hash
<1> DEFINE n == [r EXCEPT !.status = v]
<1>1. n = [status |-> v, user |-> r.user, key |-> r.key, event |-> r.event,
           cart |-> r.cart, total |-> r.total, hash |-> r.hash, stale |-> r.stale]
  BY DEF OrderRow
<1> HIDE DEF n
<1>2. OrderRow(n) /\ n.status = v /\ n.user = r.user /\ n.key = r.key
      /\ n.total = r.total /\ n.hash = r.hash
  BY <1>1 DEF OrderRow
<1> QED BY <1>2 DEF n

LEMMA StaleWrite ==
    ASSUME NEW r, OrderRow(r), NEW v
    PROVE  LET n == [r EXCEPT !.stale = v] IN
           /\ OrderRow(n) /\ n.status = r.status /\ n.user = r.user /\ n.key = r.key
           /\ n.total = r.total /\ n.hash = r.hash
<1> DEFINE n == [r EXCEPT !.stale = v]
<1>1. n = [status |-> r.status, user |-> r.user, key |-> r.key, event |-> r.event,
           cart |-> r.cart, total |-> r.total, hash |-> r.hash, stale |-> v]
  BY DEF OrderRow
<1> HIDE DEF n
<1>2. OrderRow(n) /\ n.status = r.status /\ n.user = r.user /\ n.key = r.key
      /\ n.total = r.total /\ n.hash = r.hash
  BY <1>1 DEF OrderRow
<1> QED BY <1>2 DEF n

LEMMA SettleWrite ==
    ASSUME NEW r, OrderRow(r), NEW h
    PROVE  LET n == [[r EXCEPT !.status = "CONFIRMED"] EXCEPT !.hash = h] IN
           /\ OrderRow(n) /\ n.status = "CONFIRMED" /\ n.hash = h
           /\ n.user = r.user /\ n.key = r.key /\ n.total = r.total
<1> DEFINE m == [r EXCEPT !.status = "CONFIRMED"]
           n == [m EXCEPT !.hash = h]
<1>1. /\ OrderRow(m) /\ m.status = "CONFIRMED" /\ m.user = r.user /\ m.key = r.key
      /\ m.total = r.total
  BY StatusWrite
<1> HIDE DEF m
<1>2. n = [status |-> m.status, user |-> m.user, key |-> m.key, event |-> m.event,
           cart |-> m.cart, total |-> m.total, hash |-> h, stale |-> m.stale]
  BY <1>1 DEF OrderRow
<1> HIDE DEF n
<1>3. OrderRow(n) /\ n.status = "CONFIRMED" /\ n.hash = h
      /\ n.user = r.user /\ n.key = r.key /\ n.total = r.total
  BY <1>1, <1>2 DEF OrderRow
<1> QED BY <1>3 DEF m, n

-----------------------------------------------------------------------------
\* The end of a checkout leaves its user and its body, and the other checkouts, alone.
LEMMA CheckoutEnds ==
    ASSUME Shapes, NEW c \in Checkouts, NEW a, NEW p, AnswerCheckout(c, a, p)
    PROVE  /\ CallsShaped'
           /\ checkout'[c].pc = "done" /\ checkout'[c].answer = a /\ checkout'[c].placed = p
           /\ checkout'[c].user = checkout[c].user /\ checkout'[c].request = checkout[c].request
           /\ \A d \in Checkouts \ {c} : checkout'[d] = checkout[d]
<1> DEFINE r == checkout[c]
           n == [pc |-> "done", user |-> r.user, request |-> r.request, event |-> r.event,
                 held |-> {}, answer |-> a, placed |-> p]
<1>1. checkout' = [d \in Checkouts |-> IF d = c THEN n ELSE checkout[d]]
  BY DEF AnswerCheckout, Shapes, CallsShaped, CallRow
<1>2. checkout'[c] = n
  BY <1>1
<1>3. \A d \in Checkouts \ {c} : checkout'[d] = checkout[d]
  BY <1>1
<1>4. CallRow(n)
  BY DEF CallRow
<1>5. \A d \in Checkouts : CallRow(checkout'[d])
  BY <1>2, <1>3, <1>4 DEF Shapes, CallsShaped
<1> QED BY <1>1, <1>2, <1>3, <1>5 DEF CallsShaped

\* An answer other than "placed" is a checkout that goes on.
LEMMA RefusedGoesOn ==
    ASSUME Shapes, NEW c \in Checkouts, NEW a, NEW p, AnswerCheckout(c, a, p), a # "placed"
    PROVE  CallsGoOn
<1>1. CallGoesOn(c)
  BY CheckoutEnds DEF CallGoesOn
<1>2. ASSUME NEW d \in Checkouts \ {c} PROVE CallGoesOn(d)
  BY CheckoutEnds DEF CallGoesOn
<1> QED BY <1>1, <1>2 DEF CallsGoOn

\* A checkout that only changes its phase and the rows it holds goes on.
LEMMA PhaseGoesOn ==
    ASSUME Shapes, NEW c \in Checkouts, checkout[c].pc # "done", NEW v,
           \/ checkout' = [checkout EXCEPT ![c].pc = v]
           \/ checkout' = [checkout EXCEPT ![c].held = v]
    PROVE  CallsGoOn /\ CallsShaped'
<1> DEFINE r == checkout[c]
           n == [pc |-> v, user |-> r.user, request |-> r.request, event |-> r.event,
                 held |-> r.held, answer |-> r.answer, placed |-> r.placed]
           m == [pc |-> r.pc, user |-> r.user, request |-> r.request, event |-> r.event,
                 held |-> v, answer |-> r.answer, placed |-> r.placed]
<1>1. \/ checkout' = [d \in Checkouts |-> IF d = c THEN n ELSE checkout[d]]
      \/ checkout' = [d \in Checkouts |-> IF d = c THEN m ELSE checkout[d]]
  BY DEF Shapes, CallsShaped, CallRow
<1>2. checkout'[c] = n \/ checkout'[c] = m
  BY <1>1
<1>3. \A d \in Checkouts \ {c} : checkout'[d] = checkout[d]
  BY <1>1
<1>4. CallRow(n) /\ CallRow(m)
  BY DEF CallRow
<1>5. \A d \in Checkouts : CallRow(checkout'[d])
  BY <1>2, <1>3, <1>4 DEF Shapes, CallsShaped
<1>6. CallGoesOn(c)
  BY <1>2 DEF CallGoesOn
<1>7. CallsGoOn
  BY <1>3, <1>6 DEF CallsGoOn, CallGoesOn
<1> QED BY <1>1, <1>5, <1>7 DEF CallsShaped

\* A confirmation that changes its phase, and perhaps gets its answer, keeps its order and hash.
LEMMA ConfirmWrite ==
    ASSUME Shapes, NEW f \in Confirms, NEW v, NEW a,
           \/ confirm' = [confirm EXCEPT ![f].pc = v]
           \/ confirm' = [confirm EXCEPT ![f].pc = v, ![f].answer = a]
    PROVE  /\ DOMAIN confirm' = Confirms
           /\ ConfirmRow(confirm'[f]) /\ confirm'[f].pc = v
           /\ confirm'[f].order = confirm[f].order /\ confirm'[f].hash = confirm[f].hash
           /\ \A g \in Confirms \ {f} : confirm'[g] = confirm[g]
<1> DEFINE r == confirm[f]
           n(b) == [pc |-> v, user |-> r.user, order |-> r.order, hash |-> r.hash, answer |-> b]
<1>1. \/ confirm' = [g \in Confirms |-> IF g = f THEN n(r.answer) ELSE confirm[g]]
      \/ confirm' = [g \in Confirms |-> IF g = f THEN n(a) ELSE confirm[g]]
  BY DEF Shapes, ConfirmsShaped, ConfirmRow
<1>2. confirm'[f] = n(r.answer) \/ confirm'[f] = n(a)
  BY <1>1
<1>3. \A g \in Confirms \ {f} : confirm'[g] = confirm[g]
  BY <1>1
<1>4. ConfirmRow(n(r.answer)) /\ ConfirmRow(n(a))
  BY DEF ConfirmRow
<1> QED BY <1>1, <1>2, <1>3, <1>4

\* Its phase is no "mailing" and it began before: it goes on, and names its order as before.
LEMMA ConfirmAdvances ==
    ASSUME Shapes, NEW f \in Confirms, NEW v, NEW a, v # "mailing", confirm[f].pc # "idle",
           \/ confirm' = [confirm EXCEPT ![f].pc = v]
           \/ confirm' = [confirm EXCEPT ![f].pc = v, ![f].answer = a]
    PROVE  ConfirmsGoOn /\ ConfirmsShaped'
<1>1. ConfirmGoesOn(f)
  BY ConfirmWrite DEF ConfirmGoesOn
<1>2. \A g \in Confirms \ {f} : confirm'[g] = confirm[g]
  BY ConfirmWrite
<1>3. ConfirmsGoOn
  BY <1>1, <1>2 DEF ConfirmsGoOn, ConfirmGoesOn
<1>4. ConfirmRow(confirm'[f]) /\ confirm'[f].order \in Checkouts /\ confirm'[f].hash \in Hashes
  BY ConfirmWrite DEF Shapes, ConfirmsShaped
<1> QED BY <1>2, <1>3, <1>4, ConfirmWrite DEF Shapes, ConfirmsShaped

\* A step that leaves a variable alone keeps what is said of it.
LEMMA Idle ==
    ASSUME Shapes
    PROVE  /\ UNCHANGED order => OrdersMove /\ OrdersShaped'
           /\ UNCHANGED checkout => CallsGoOn /\ CallsShaped'
           /\ UNCHANGED confirm => ConfirmsGoOn /\ ConfirmsShaped'
           /\ UNCHANGED <<chain, mailed>> => ChainGrows /\ RestShaped'
<1>1. UNCHANGED order => OrdersMove /\ OrdersShaped'
  BY DEF Shapes, OrdersMove, Moves, Kept, OrdersShaped
<1>2. UNCHANGED checkout => CallsGoOn /\ CallsShaped'
  BY DEF Shapes, CallsGoOn, CallGoesOn, CallsShaped
<1>3. UNCHANGED confirm => ConfirmsGoOn /\ ConfirmsShaped'
  BY DEF Shapes, ConfirmsGoOn, ConfirmGoesOn, ConfirmsShaped
<1>4. UNCHANGED <<chain, mailed>> => ChainGrows /\ RestShaped'
  BY DEF Shapes, ChainGrows, RestShaped
<1> QED BY <1>1, <1>2, <1>3, <1>4

\* One order row is replaced by another row.
LEMMA OrderWrite ==
    ASSUME Shapes, NEW o \in Checkouts, NEW n, OrderRow(n), order' = [order EXCEPT ![o] = n]
    PROVE  OrdersShaped' /\ order'[o] = n /\ \A p \in Checkouts \ {o} : order'[p] = order[p]
<1>1. order' = [p \in Checkouts |-> IF p = o THEN n ELSE order[p]]
  BY DEF Shapes, OrdersShaped
<1>2. order'[o] = n /\ \A p \in Checkouts \ {o} : order'[p] = order[p]
  BY <1>1
<1> QED BY <1>1, <1>2 DEF Shapes, OrdersShaped

\* A status write the organizer or a worker may make.
LEMMA StatusMoves ==
    ASSUME Shapes, NEW o \in Checkouts, NEW v, order' = [order EXCEPT ![o].status = v],
           \/ order[o].status = "PENDING" /\ v \in GivenUp
           \/ order[o].status = "CONFIRMED" /\ v = "FULFILLED"
    PROVE  OrdersShaped' /\ OrdersMove
<1> DEFINE n == [order[o] EXCEPT !.status = v]
<1>1. order' = [order EXCEPT ![o] = n]
  OBVIOUS
<1>2. /\ OrderRow(n) /\ n.status = v /\ n.user = order[o].user /\ n.key = order[o].key
      /\ n.total = order[o].total /\ n.hash = order[o].hash
  BY StatusWrite DEF Shapes, OrdersShaped
<1> HIDE DEF n
<1>3. OrdersShaped' /\ order'[o] = n /\ \A p \in Checkouts \ {o} : order'[p] = order[p]
  BY <1>1, <1>2, OrderWrite
<1>4. Moves(o)
  BY <1>2, <1>3 DEF Moves, Kept
<1> QED BY <1>3, <1>4 DEF OrdersMove, Moves, Kept

-----------------------------------------------------------------------------
(***************************************************************************)
(* Every step has a kind: the checkout, the confirmation, the worker and   *)
(* the environment in turn.                                                *)
(***************************************************************************)
LEMMA BeginCheckoutKind ==
    ASSUME Shapes, NEW c \in Checkouts, BeginCheckout(c)
    PROVE  Shapes' /\ Silent
<1>1. PICK u \in Users, r \in Requests :
        LET start(pc, answer, e) ==
                [pc |-> pc, user |-> u, request |-> r, event |-> e, held |-> {}, answer |-> answer,
                 placed |-> NoOrder]
        IN  checkout' = [checkout EXCEPT ![c] =
                CASE ~Validate(r) -> start("done", "invalid", 0)
                  [] Validate(r) /\ ~IsOpen -> start("done", "closed", 0)
                  [] OTHER -> start(IF r.key = NoKey THEN "begin" ELSE "lookup", "none", CurrentShopEvent)]
  BY DEF BeginCheckout
<1> DEFINE row(pc, answer, e) == [pc |-> pc, user |-> u, request |-> r, event |-> e,
                                  held |-> {}, answer |-> answer, placed |-> NoOrder]
           n == CASE ~Validate(r) -> row("done", "invalid", 0)
                  [] Validate(r) /\ ~IsOpen -> row("done", "closed", 0)
                  [] OTHER -> row(IF r.key = NoKey THEN "begin" ELSE "lookup", "none", CurrentShopEvent)
<1>2. checkout' = [checkout EXCEPT ![c] = n]
  BY <1>1
<1>3. CallRow(n) /\ n.answer # "placed"
  <2>1. CASE ~Validate(r)
    BY <2>1 DEF CallRow
  <2>2. CASE Validate(r) /\ ~IsOpen
    BY <2>2 DEF CallRow
  <2>3. CASE Validate(r) /\ IsOpen
    BY <2>3 DEF CallRow
  <2> QED BY <2>1, <2>2, <2>3
<1> HIDE DEF n
<1>4. checkout' = [d \in Checkouts |-> IF d = c THEN n ELSE checkout[d]]
  BY <1>2 DEF Shapes, CallsShaped
<1>5. checkout'[c] = n /\ \A d \in Checkouts \ {c} : checkout'[d] = checkout[d]
  BY <1>4
<1>6. CallsShaped'
  BY <1>3, <1>4, <1>5 DEF Shapes, CallsShaped
<1>7. CallsGoOn
  BY <1>3, <1>5 DEF CallsGoOn, CallGoesOn, BeginCheckout
<1> QED BY <1>6, <1>7, Idle DEF BeginCheckout, Silent, Shapes

LEMMA CheckoutRunsKind ==
    ASSUME Shapes, NEW c \in Checkouts,
           BeginTransaction(c) \/ LockItem(c) \/ CheckCart(c) \/ FailCheckout(c)
    PROVE  Shapes' /\ Silent
<1>1. checkout[c].pc # "done" /\ UNCHANGED <<order, confirm, chain, mailed>>
  BY DEF BeginTransaction, LockItem, CheckCart, FailCheckout
<1>2. CallsGoOn /\ CallsShaped'
  <2>1. CASE BeginTransaction(c)
    BY <1>1, <2>1, PhaseGoesOn DEF BeginTransaction
  <2>2. CASE LockItem(c)
    BY <1>1, <2>2, PhaseGoesOn DEF LockItem
  <2>3. CASE CheckCart(c)
    <3>1. ASSUME NEW line PROVE LineRefusal(c, line) # "placed"
      BY DEF LineRefusal
    <3>2. \/ checkout' = [checkout EXCEPT ![c].pc = "checked"]
          \/ \E line : AnswerCheckout(c, LineRefusal(c, line), NoOrder)
      BY <2>3 DEF CheckCart
    <3> QED BY <1>1, <3>1, <3>2, PhaseGoesOn, CheckoutEnds, RefusedGoesOn
  <2>4. CASE FailCheckout(c)
    <3>1. AnswerCheckout(c, "error", NoOrder)
      BY <2>4 DEF FailCheckout
    <3> QED BY <3>1, CheckoutEnds, RefusedGoesOn
  <2> QED BY <2>1, <2>2, <2>3, <2>4
<1> QED BY <1>1, <1>2, Idle DEF Silent, Shapes

LEMMA ReplayKind ==
    ASSUME Shapes, NEW c \in Checkouts, LookUpKey(c) \/ FindConcurrentReplay(c)
    PROVE  Shapes' /\ (Silent \/ \E o \in Checkouts : Replays(c, o))
<1>1. UNCHANGED <<order, confirm, chain, mailed>>
  BY DEF LookUpKey, FindConcurrentReplay
<1>2. ASSUME NEW o \in orderByIdempotencyKey(checkout[c].user, checkout[c].request.key),
             AnswerCheckout(c, "placed", o)
      PROVE  Shapes' /\ \E p \in Checkouts : Replays(c, p)
  <2>1. o \in Checkouts
    BY DEF orderByIdempotencyKey
  <2>2. Replays(c, o)
    BY <1>1, <1>2, CheckoutEnds DEF Replays, CallAnswered
  <2>3. CallsShaped'
    BY <1>2, CheckoutEnds
  <2> QED BY <1>1, <2>1, <2>2, <2>3, Idle DEF Shapes
<1>3. ASSUME checkout' = [checkout EXCEPT ![c].pc = "begin"], LookUpKey(c) PROVE Shapes' /\ Silent
  <2>1. CallsGoOn /\ CallsShaped'
    BY <1>3, PhaseGoesOn DEF LookUpKey
  <2> QED BY <1>1, <2>1, Idle DEF Silent, Shapes
<1>4. CASE LookUpKey(c)
  BY <1>2, <1>3, <1>4 DEF LookUpKey
<1>5. CASE FindConcurrentReplay(c)
  BY <1>2, <1>5 DEF FindConcurrentReplay
<1> QED BY <1>4, <1>5

LEMMA PlaceOrderKind ==
    ASSUME Shapes, NEW c \in Checkouts, PlaceOrder(c)
    PROVE  Shapes' /\ Places(c)
<1> DEFINE u == checkout[c].user
           r == checkout[c].request
           n == [status |-> "PENDING", user |-> u, key |-> r.key, event |-> checkout[c].event,
                 cart |-> Cart(r), total |-> CartTotal(r), hash |-> NoHash, stale |-> FALSE]
<1>1. order' = [order EXCEPT ![c] = n] /\ checkout[c].pc = "checked" /\ ~DuplicateKey(u, r.key)
      /\ UNCHANGED <<chain, confirm, mailed>>
  BY DEF PlaceOrder
<1>2. AnswerCheckout(c, "placed", c) \/ AnswerCheckout(c, "error", NoOrder)
  BY DEF PlaceOrder
<1>3. /\ OrderRow(n) /\ n.status = "PENDING" /\ n.user = u /\ n.key = r.key /\ n.hash = NoHash
  BY DEF OrderRow
<1> HIDE DEF n
<1>4. OrdersShaped' /\ order'[c] = n /\ \A p \in Checkouts \ {c} : order'[p] = order[p]
  BY <1>1, <1>3, OrderWrite
<1>5. /\ CallsShaped' /\ checkout'[c].pc = "done"
      /\ checkout'[c].answer = "placed" => CallAnswered(c, c)
      /\ \A d \in Checkouts \ {c} : checkout'[d] = checkout[d]
  BY <1>2, CheckoutEnds DEF CallAnswered
<1>6. ConfirmsShaped' /\ RestShaped'
  BY <1>1, Idle
<1>7. Places(c)
  BY <1>1, <1>3, <1>4, <1>5 DEF Places
<1> QED BY <1>4, <1>5, <1>6, <1>7 DEF Shapes

LEMMA BeginConfirmKind ==
    ASSUME Shapes, NEW f \in Confirms, BeginConfirm(f)
    PROVE  Shapes' /\ Silent
<1>1. PICK u \in Users, o \in Checkouts, h \in Hashes :
        confirm' = [confirm EXCEPT ![f] =
            [pc |-> IF walletConfigured THEN "locking" ELSE "done", user |-> u, order |-> o, hash |-> h,
             answer |-> IF walletConfigured THEN "none" ELSE "unavailable"]]
  BY DEF BeginConfirm
<1> DEFINE n == [pc |-> IF walletConfigured THEN "locking" ELSE "done", user |-> u, order |-> o,
                 hash |-> h, answer |-> IF walletConfigured THEN "none" ELSE "unavailable"]
<1>2. ConfirmRow(n) /\ n.order \in Checkouts /\ n.hash \in Hashes /\ n.pc # "mailing"
  BY DEF ConfirmRow
<1>3. confirm' = [confirm EXCEPT ![f] = n]
  BY <1>1
<1> HIDE DEF n
<1>4. confirm' = [g \in Confirms |-> IF g = f THEN n ELSE confirm[g]]
  BY <1>3 DEF Shapes, ConfirmsShaped
<1>5. confirm'[f] = n /\ \A g \in Confirms \ {f} : confirm'[g] = confirm[g]
  BY <1>4
<1>6. ConfirmsShaped'
  BY <1>2, <1>4, <1>5 DEF Shapes, ConfirmsShaped
<1>7. ConfirmsGoOn
  BY <1>2, <1>5 DEF ConfirmsGoOn, ConfirmGoesOn
<1> QED BY <1>6, <1>7, Idle DEF BeginConfirm, Silent, Shapes

LEMMA ConfirmRunsKind ==
    ASSUME Shapes, NEW f \in Confirms, LockOrder(f) \/ RefuseConfirm(f)
    PROVE  Shapes' /\ Silent
<1>1. confirm[f].pc # "idle" /\ UNCHANGED <<order, checkout, chain, mailed>>
  BY DEF LockOrder, RefuseConfirm
<1>2. \/ confirm' = [confirm EXCEPT ![f].pc = "verifying"]
      \/ \E a : confirm' = [confirm EXCEPT ![f].pc = "done", ![f].answer = a]
  BY DEF LockOrder, RefuseConfirm, AnswerConfirm
<1>3. ConfirmsGoOn /\ ConfirmsShaped'
  BY <1>1, <1>2, ConfirmAdvances
<1> QED BY <1>1, <1>3, Idle DEF Silent, Shapes

LEMMA ConfirmOrderKind ==
    ASSUME Shapes, NEW f \in Confirms, ConfirmOrder(f)
    PROVE  Shapes' /\ Settles(f)
<1> DEFINE o == confirm[f].order
           h == confirm[f].hash
           n == [[order[o] EXCEPT !.status = "CONFIRMED"] EXCEPT !.hash = h]
<1>1. /\ confirm[f].pc = "verifying" /\ verifyPayment(chain[h], order[o].total)
      /\ order[o].status = "PENDING" /\ ~HashUsed(h, o)
      /\ UNCHANGED <<chain, checkout, mailed>>
  BY DEF ConfirmOrder
<1>2. o \in Checkouts /\ h \in Hashes
  BY <1>1 DEF Shapes, ConfirmsShaped
<1>3. order' = [order EXCEPT ![o] = n]
  BY <1>2 DEF ConfirmOrder
<1>4. /\ OrderRow(n) /\ n.status = "CONFIRMED" /\ n.hash = h
      /\ n.user = order[o].user /\ n.key = order[o].key /\ n.total = order[o].total
  BY <1>2, SettleWrite DEF Shapes, OrdersShaped
<1> HIDE DEF n
<1>5. OrdersShaped' /\ order'[o] = n /\ \A p \in Checkouts \ {o} : order'[p] = order[p]
  BY <1>2, <1>3, <1>4, OrderWrite
<1>6. \/ confirm' = [confirm EXCEPT ![f].pc = "mailing", ![f].answer = "confirmed"]
      \/ confirm' = [confirm EXCEPT ![f].pc = "done", ![f].answer = "error"]
  BY DEF ConfirmOrder, AnswerConfirm
<1>7. /\ DOMAIN confirm' = Confirms /\ ConfirmRow(confirm'[f])
      /\ confirm'[f].order = o /\ confirm'[f].hash = h
      /\ \A g \in Confirms \ {f} : confirm'[g] = confirm[g]
  BY <1>6, ConfirmWrite
<1>8. ConfirmsShaped'
  BY <1>2, <1>7 DEF Shapes, ConfirmsShaped
<1>9. CallsShaped' /\ RestShaped'
  BY <1>1, Idle
<1>10. Settles(f)
  BY <1>1, <1>4, <1>5, <1>7 DEF Settles
<1> QED BY <1>5, <1>8, <1>9, <1>10 DEF Shapes

LEMMA SendMailKind ==
    ASSUME Shapes, NEW f \in Confirms, SendMail(f)
    PROVE  Shapes' /\ Mails(f)
<1> DEFINE o == confirm[f].order
<1>1. /\ confirm[f].pc = "mailing" /\ confirm' = [confirm EXCEPT ![f].pc = "done"]
      /\ UNCHANGED <<order, chain, checkout>>
      /\ \/ mailed' = [mailed EXCEPT ![o] = mailed[o] + 1]
         \/ mailed' = mailed
  BY DEF SendMail
<1>2. o \in Checkouts /\ mailed \in [Checkouts -> Nat]
  BY <1>1 DEF Shapes, ConfirmsShaped, RestShaped
<1>3. /\ mailed' \in [Checkouts -> Nat] /\ mailed'[o] \in {mailed[o], mailed[o] + 1}
      /\ \A p \in Checkouts \ {o} : mailed'[p] = mailed[p]
  BY <1>1, <1>2
<1>4. /\ DOMAIN confirm' = Confirms /\ ConfirmRow(confirm'[f]) /\ confirm'[f].pc = "done"
      /\ confirm'[f].order = o /\ confirm'[f].hash = confirm[f].hash
      /\ \A g \in Confirms \ {f} : confirm'[g] = confirm[g]
  BY <1>1, ConfirmWrite
<1>5. ConfirmsShaped'
  BY <1>1, <1>4 DEF Shapes, ConfirmsShaped
<1>6. OrdersShaped' /\ CallsShaped' /\ RestShaped'
  BY <1>1, <1>3, Idle DEF Shapes, RestShaped
<1>7. Mails(f)
  BY <1>1, <1>3, <1>4 DEF Mails
<1> QED BY <1>5, <1>6, <1>7 DEF Shapes

\* The writes of the worker, the organizer and the clock on orders.
LEMMA SweepKind ==
    ASSUME Shapes, NEW s \in Sweeps, SweepStep(s) \/ FailSweep(s)
    PROVE  Shapes' /\ Silent
<1>1. UNCHANGED <<checkout, confirm, chain, mailed>>
  BY DEF SweepStep, SelectStale, RestoreStock, MarkStaleOrders, FailSweep
<1>2. OrdersMove /\ OrdersShaped'
  <2>1. CASE SelectStale(s) \/ RestoreStock(s) \/ FailSweep(s)
    BY <2>1, Idle DEF SelectStale, RestoreStock, FailSweep
  <2>2. CASE MarkStaleOrders(s)
    <3> DEFINE gone == {o \in sweep[s].orders : order[o].status = "PENDING"}
    <3>1. order' = [o \in Checkouts |->
                      IF o \in gone THEN [order[o] EXCEPT !.status = "EXPIRED"] ELSE order[o]]
      BY <2>2 DEF MarkStaleOrders
    <3>2. ASSUME NEW o \in Checkouts PROVE OrderRow(order'[o]) /\ Moves(o)
      <4>1. CASE o \in gone
        <5>1. order'[o] = [order[o] EXCEPT !.status = "EXPIRED"] /\ order[o].status = "PENDING"
          BY <3>1, <4>1
        <5>2. /\ OrderRow(order'[o]) /\ order'[o].status = "EXPIRED"
              /\ order'[o].user = order[o].user /\ order'[o].key = order[o].key
              /\ order'[o].total = order[o].total /\ order'[o].hash = order[o].hash
          BY <5>1, StatusWrite DEF Shapes, OrdersShaped
        <5> QED BY <5>1, <5>2 DEF Moves, Kept, GivenUp
      <4>2. CASE o \notin gone
        <5>1. order'[o] = order[o]
          BY <3>1, <4>2
        <5> QED BY <5>1 DEF Moves, Kept, Shapes, OrdersShaped
      <4> QED BY <4>1, <4>2
    <3>3. DOMAIN order' = Checkouts
      BY <3>1
    <3> QED BY <3>2, <3>3 DEF OrdersMove, OrdersShaped
  <2> QED BY <2>1, <2>2 DEF SweepStep
<1> QED BY <1>1, <1>2, Idle DEF Silent, Shapes

LEMMA EnvironmentKind ==
    ASSUME Shapes, Environment \/ Finished \/ UNCHANGED vars
    PROVE  Shapes' /\ Silent
<1>1. CASE UNCHANGED vars \/ Finished
  <2>1. UNCHANGED <<order, checkout, confirm, chain, mailed>>
    BY <1>1 DEF vars, Finished
  <2> QED BY <2>1, Idle DEF Silent, Shapes
<1>2. ASSUME NEW h \in Hashes, Pay(h) PROVE Shapes' /\ Silent
  <2>1. chain[h] = NotOnChain /\ UNCHANGED <<order, checkout, confirm, mailed>>
    BY <1>2 DEF Pay
  <2>2. PICK d : chain' = [chain EXCEPT ![h] = d]
    BY <1>2 DEF Pay
  <2>3. ~chain[h].found
    BY <2>1 DEF NotOnChain
  <2>4. ChainGrows /\ RestShaped'
    BY <2>1, <2>2, <2>3 DEF ChainGrows, Shapes, RestShaped
  <2> QED BY <2>1, <2>4, Idle DEF Silent, Shapes
<1>3. ASSUME NEW o \in Checkouts, Fulfil(o) \/ ReverseByOrganizer(o) PROVE Shapes' /\ Silent
  <2>1. OrdersShaped' /\ OrdersMove
    BY <1>3, StatusMoves DEF Fulfil, ReverseByOrganizer, GivenUp
  <2>2. UNCHANGED <<checkout, confirm, chain, mailed>>
    BY <1>3 DEF Fulfil, ReverseByOrganizer
  <2> QED BY <2>1, <2>2, Idle DEF Silent, Shapes
<1>4. ASSUME NEW o \in Checkouts, Age(o) PROVE Shapes' /\ Silent
  <2> DEFINE n == [order[o] EXCEPT !.stale = TRUE]
  <2>1. order' = [order EXCEPT ![o] = n] /\ UNCHANGED <<checkout, confirm, chain, mailed>>
    BY <1>4 DEF Age
  <2>2. /\ OrderRow(n) /\ n.status = order[o].status /\ n.user = order[o].user
        /\ n.key = order[o].key /\ n.total = order[o].total /\ n.hash = order[o].hash
    BY StaleWrite DEF Shapes, OrdersShaped
  <2> HIDE DEF n
  <2>3. OrdersShaped' /\ order'[o] = n /\ \A p \in Checkouts \ {o} : order'[p] = order[p]
    BY <2>1, <2>2, OrderWrite
  <2>4. OrdersMove
    BY <2>2, <2>3 DEF OrdersMove, Moves, Kept
  <2> QED BY <2>1, <2>3, <2>4, Idle DEF Silent, Shapes
<1>5. ASSUME \/ \E i \in Items : EditItem(i)
             \/ \E e \in Events : EditEvent(e)
             \/ ConfigureWallet
      PROVE  Shapes' /\ Silent
  <2>1. UNCHANGED <<order, checkout, confirm, chain, mailed>>
    BY <1>5 DEF EditItem, EditEvent, ConfigureWallet
  <2> QED BY <2>1, Idle DEF Silent, Shapes
<1> QED BY <1>1, <1>2, <1>3, <1>4, <1>5 DEF Environment

LEMMA StepKinds ==
    ASSUME Shapes, [Next]_vars
    PROVE  Shapes' /\ StepKind
<1>1. ASSUME NEW c \in Checkouts, CheckoutStep(c) \/ FailCheckout(c) PROVE Shapes' /\ StepKind
  BY <1>1, BeginCheckoutKind, CheckoutRunsKind, ReplayKind, PlaceOrderKind DEF CheckoutStep, StepKind
<1>2. ASSUME NEW f \in Confirms, ConfirmStep(f) PROVE Shapes' /\ StepKind
  BY <1>2, BeginConfirmKind, ConfirmRunsKind, ConfirmOrderKind, SendMailKind DEF ConfirmStep, StepKind
<1>3. ASSUME NEW s \in Sweeps, SweepStep(s) \/ FailSweep(s) PROVE Shapes' /\ StepKind
  BY <1>3, SweepKind DEF StepKind
<1>4. ASSUME Environment \/ Finished \/ UNCHANGED vars PROVE Shapes' /\ StepKind
  BY <1>4, EnvironmentKind DEF StepKind
<1> QED BY <1>1, <1>2, <1>3, <1>4 DEF Next

-----------------------------------------------------------------------------
(***************************************************************************)
(* The invariant.                                                          *)
(***************************************************************************)
NotYetPlaced == \A c \in Checkouts : checkout[c].pc # "done" => order[c].status = "NONE"

\* A hash on an order is its payment.
HashesPaid ==
    \A o \in Checkouts : order[o].hash # NoHash =>
        /\ order[o].hash \in Hashes /\ order[o].status \in {"CONFIRMED", "FULFILLED"}
        /\ verifyPayment(chain[order[o].hash], order[o].total)

HashesUnique ==
    \A o, p \in Checkouts : order[o].hash # NoHash /\ order[o].hash = order[p].hash => o = p

\* A confirmation about to mail settled its order, and is the only one that will mail it.
MailOnce ==
    /\ \A o \in Checkouts : mailed[o] <= (IF order[o].hash # NoHash THEN 1 ELSE 0)
    /\ \A f \in Confirms : confirm[f].pc = "mailing" =>
        order[confirm[f].order].hash # NoHash /\ mailed[confirm[f].order] = 0
    /\ \A f, g \in Confirms :
        confirm[f].pc = "mailing" /\ confirm[g].pc = "mailing" /\ confirm[f].order = confirm[g].order
        => f = g

\* The order a checkout was answered with is an order of its user under its key.
AnswersMatch ==
    \A c \in Checkouts : checkout[c].answer = "placed" =>
        /\ checkout[c].placed \in Checkouts /\ order[checkout[c].placed].status # "NONE"
        /\ order[checkout[c].placed].user = checkout[c].user
        /\ order[checkout[c].placed].key = checkout[c].request.key

KeysUnique ==
    \A o, p \in Checkouts :
        /\ order[o].status # "NONE" /\ order[p].status # "NONE"
        /\ order[o].user = order[p].user /\ order[o].key = order[p].key /\ order[o].key # NoKey
        => o = p

ShopInv == NotYetPlaced /\ HashesPaid /\ HashesUnique /\ MailOnce /\ AnswersMatch /\ KeysUnique

LEMMA InitEstablishes == Init => Shapes /\ ShopInv
<1> SUFFICES ASSUME Init PROVE Shapes /\ ShopInv
  OBVIOUS
<1>1. \A o \in Checkouts : order[o] = NoOrderRow /\ checkout[o] = IdleCheckout /\ mailed[o] = 0
  BY DEF Init
<1>2. \A f \in Confirms : confirm[f] = IdleConfirm
  BY DEF Init
<1>3. OrderRow(NoOrderRow) /\ NoOrderRow.status = "NONE" /\ NoOrderRow.hash = NoHash
  BY DEF OrderRow, NoOrderRow
<1>4. CallRow(IdleCheckout) /\ IdleCheckout.answer = "none"
  BY DEF CallRow, IdleCheckout
<1>5. ConfirmRow(IdleConfirm) /\ IdleConfirm.pc = "idle"
  BY DEF ConfirmRow, IdleConfirm
<1>6. /\ DOMAIN order = Checkouts /\ DOMAIN checkout = Checkouts /\ DOMAIN confirm = Confirms
      /\ DOMAIN chain = Hashes /\ mailed \in [Checkouts -> Nat]
  BY DEF Init
<1>7. Shapes
  BY <1>1, <1>2, <1>3, <1>4, <1>5, <1>6
  DEF Shapes, OrdersShaped, CallsShaped, ConfirmsShaped, RestShaped
<1>8. NotYetPlaced /\ HashesPaid /\ HashesUnique
  BY <1>1, <1>3 DEF NotYetPlaced, HashesPaid, HashesUnique
<1>9. MailOnce
  BY <1>1, <1>2, <1>3, <1>5 DEF MailOnce
<1>10. AnswersMatch /\ KeysUnique
  BY <1>1, <1>3, <1>4 DEF AnswersMatch, KeysUnique
<1> QED BY <1>7, <1>8, <1>9, <1>10 DEF ShopInv

LEMMA QuietKeeps == ASSUME Shapes, ShopInv, Silent PROVE ShopInv'
<1>1. \A o \in Checkouts : Moves(o)
  BY DEF Silent, OrdersMove
<1>2. \A o \in Checkouts :
        /\ order'[o].user = order[o].user /\ order'[o].key = order[o].key
        /\ order'[o].total = order[o].total /\ order'[o].hash = order[o].hash
        /\ order'[o].status = "NONE" <=> order[o].status = "NONE"
        /\ order[o].status \in {"CONFIRMED", "FULFILLED"} => order'[o].status \in {"CONFIRMED", "FULFILLED"}
  BY <1>1 DEF Moves, Kept, GivenUp
<1>3. NotYetPlaced'
  BY <1>2 DEF NotYetPlaced, ShopInv, Silent, CallsGoOn, CallGoesOn
<1>4. HashesPaid'
  <2> SUFFICES ASSUME NEW o \in Checkouts, order'[o].hash # NoHash
               PROVE  /\ order'[o].hash \in Hashes /\ order'[o].status \in {"CONFIRMED", "FULFILLED"}
                      /\ verifyPayment(chain'[order'[o].hash], order'[o].total)
    BY DEF HashesPaid, verifyPayment
  <2>1. /\ order[o].hash \in Hashes /\ order[o].status \in {"CONFIRMED", "FULFILLED"}
        /\ verifyPayment(chain[order[o].hash], order[o].total)
    BY <1>2 DEF ShopInv, HashesPaid
  <2>2. chain'[order[o].hash] = chain[order[o].hash]
    BY <2>1 DEF Silent, ChainGrows, verifyPayment
  <2> QED BY <1>2, <2>1, <2>2
<1>5. HashesUnique'
  BY <1>2 DEF HashesUnique, ShopInv
<1>6. MailOnce'
  <2>1. \A f \in Confirms : confirm'[f].pc = "mailing" =>
          confirm[f].pc = "mailing" /\ confirm'[f].order = confirm[f].order /\ confirm[f].order \in Checkouts
    BY DEF Silent, ConfirmsGoOn, ConfirmGoesOn, Shapes, ConfirmsShaped
  <2> QED BY <1>2, <2>1 DEF MailOnce, ShopInv, Silent
<1>7. AnswersMatch'
  BY <1>2 DEF AnswersMatch, ShopInv, Silent, CallsGoOn, CallGoesOn
<1>8. KeysUnique'
  BY <1>2 DEF KeysUnique, ShopInv
<1> QED BY <1>3, <1>4, <1>5, <1>6, <1>7, <1>8 DEF ShopInv

LEMMA ReplaysKeep ==
    ASSUME Shapes, ShopInv, NEW c \in Checkouts, NEW o \in Checkouts, Replays(c, o)
    PROVE  ShopInv'
<1>1. UNCHANGED <<order, chain, confirm, mailed>>
  BY DEF Replays
<1>2. HashesPaid' /\ HashesUnique' /\ KeysUnique'
  BY <1>1 DEF ShopInv, HashesPaid, HashesUnique, KeysUnique
<1>3. MailOnce'
  BY <1>1 DEF ShopInv, MailOnce
<1>4. NotYetPlaced'
  BY <1>1 DEF ShopInv, NotYetPlaced, Replays, CallAnswered
<1>5. AnswersMatch'
  BY <1>1 DEF ShopInv, AnswersMatch, Replays, CallAnswered, orderByIdempotencyKey
<1> QED BY <1>2, <1>3, <1>4, <1>5 DEF ShopInv

LEMMA PlacesKeeps ==
    ASSUME Shapes, ShopInv, NEW c \in Checkouts, Places(c)
    PROVE  ShopInv'
<1>1. order[c].status = "NONE" /\ order[c].hash = NoHash
  BY DEF Places, ShopInv, NotYetPlaced, HashesPaid
<1>2. /\ order'[c].status = "PENDING" /\ order'[c].hash = NoHash
      /\ order'[c].user = checkout[c].user /\ order'[c].key = checkout[c].request.key
      /\ \A o \in Checkouts \ {c} : order'[o] = order[o]
      /\ UNCHANGED <<chain, confirm, mailed>>
  BY DEF Places
<1>3. NotYetPlaced'
  BY <1>2 DEF ShopInv, NotYetPlaced, Places
<1>4. HashesPaid' /\ HashesUnique'
  BY <1>2 DEF ShopInv, HashesPaid, HashesUnique
<1>5. \A o \in Checkouts : order'[o].hash = order[o].hash
  BY <1>1, <1>2
<1>6. MailOnce'
  BY <1>2, <1>5 DEF ShopInv, MailOnce, Shapes, ConfirmsShaped
<1>7. AnswersMatch'
  <2> SUFFICES ASSUME NEW d \in Checkouts, checkout'[d].answer = "placed"
               PROVE  /\ checkout'[d].placed \in Checkouts /\ order'[checkout'[d].placed].status # "NONE"
                      /\ order'[checkout'[d].placed].user = checkout'[d].user
                      /\ order'[checkout'[d].placed].key = checkout'[d].request.key
    BY DEF AnswersMatch
  <2>1. CASE d = c
    BY <1>2, <2>1 DEF Places, CallAnswered
  <2>2. CASE d # c
    <3>1. checkout'[d] = checkout[d]
      BY <2>2 DEF Places
    <3> QED BY <1>1, <1>2, <3>1 DEF ShopInv, AnswersMatch
  <2> QED BY <2>1, <2>2
<1>8. KeysUnique'
  <2>1. ~DuplicateKey(checkout[c].user, checkout[c].request.key)
    BY DEF Places
  <2>2. ASSUME NEW o \in Checkouts \ {c}, order[o].status # "NONE", order[o].user = checkout[c].user,
               order[o].key = checkout[c].request.key
        PROVE  order[o].key = NoKey
    BY <2>1, <2>2 DEF DuplicateKey, orderByIdempotencyKey
  <2> QED BY <1>2, <2>2 DEF ShopInv, KeysUnique
<1> QED BY <1>3, <1>4, <1>6, <1>7, <1>8 DEF ShopInv

LEMMA SettlesKeeps ==
    ASSUME ShopAssumption, Shapes, ShopInv, NEW f \in Confirms, Settles(f)
    PROVE  ShopInv'
<1> DEFINE o == confirm[f].order
           h == confirm[f].hash
<1>1. /\ o \in Checkouts /\ h \in Hashes /\ h # NoHash /\ order[o].status = "PENDING"
      /\ verifyPayment(chain[h], order[o].total)
  BY DEF Settles, Shapes, ConfirmsShaped, ShopAssumption
<1>2. /\ order'[o].status = "CONFIRMED" /\ order'[o].hash = h /\ order'[o].user = order[o].user
      /\ order'[o].key = order[o].key /\ order'[o].total = order[o].total
      /\ \A p \in Checkouts \ {o} : order'[p] = order[p]
      /\ UNCHANGED <<chain, checkout, mailed>>
  BY DEF Settles
<1>3. order[o].hash = NoHash /\ \A p \in Checkouts \ {o} : order[p].hash # h
  BY <1>1 DEF Settles, HashUsed, TakenBy, ShopInv, HashesPaid
<1>4. /\ \A g \in Confirms \ {f} : confirm'[g] = confirm[g]
      /\ confirm'[f].order = o
  BY DEF Settles
<1>5. \A g \in Confirms : confirm[g].pc = "mailing" => confirm[g].order # o
  BY <1>3 DEF ShopInv, MailOnce
<1> HIDE DEF o, h
<1>6. NotYetPlaced'
  BY <1>1, <1>2 DEF ShopInv, NotYetPlaced
<1>7. HashesPaid'
  <2> SUFFICES ASSUME NEW p \in Checkouts, order'[p].hash # NoHash
               PROVE  /\ order'[p].hash \in Hashes /\ order'[p].status \in {"CONFIRMED", "FULFILLED"}
                      /\ verifyPayment(chain[order'[p].hash], order'[p].total)
    BY <1>2 DEF HashesPaid, verifyPayment
  <2>1. CASE p = o
    BY <1>1, <1>2, <2>1
  <2>2. CASE p # o
    BY <1>2, <2>2 DEF ShopInv, HashesPaid
  <2> QED BY <2>1, <2>2
<1>8. HashesUnique'
  BY <1>2, <1>3 DEF ShopInv, HashesUnique
<1>9. MailOnce'
  <2>1. \A p \in Checkouts : mailed'[p] <= (IF order'[p].hash # NoHash THEN 1 ELSE 0)
    BY <1>1, <1>2, <1>3 DEF ShopInv, MailOnce, Shapes, RestShaped
  <2>2. mailed[o] = 0
    BY <1>1, <1>3 DEF ShopInv, MailOnce, Shapes, RestShaped
  <2>3. \A g \in Confirms : confirm[g].pc = "mailing" => confirm[g].order \in Checkouts
    BY DEF Shapes, ConfirmsShaped
  <2>4. \A g \in Confirms : confirm'[g].pc = "mailing" =>
          order'[confirm'[g].order].hash # NoHash /\ mailed'[confirm'[g].order] = 0
    BY <1>1, <1>2, <1>4, <1>5, <2>2, <2>3 DEF ShopInv, MailOnce
  <2>5. \A g, k \in Confirms :
          confirm'[g].pc = "mailing" /\ confirm'[k].pc = "mailing" /\ confirm'[g].order = confirm'[k].order
          => g = k
    BY <1>4, <1>5 DEF ShopInv, MailOnce
  <2> QED BY <2>1, <2>4, <2>5 DEF MailOnce
<1>10. AnswersMatch' /\ KeysUnique'
  <2>1. \A p \in Checkouts :
          /\ order'[p].user = order[p].user /\ order'[p].key = order[p].key
          /\ order'[p].status # "NONE" <=> order[p].status # "NONE"
    BY <1>1, <1>2
  <2>2. AnswersMatch'
    BY <1>2, <2>1 DEF ShopInv, AnswersMatch
  <2>3. KeysUnique'
    BY <2>1 DEF ShopInv, KeysUnique
  <2> QED BY <2>2, <2>3
<1> QED BY <1>6, <1>7, <1>8, <1>9, <1>10 DEF ShopInv

LEMMA MailsKeeps ==
    ASSUME Shapes, ShopInv, NEW f \in Confirms, Mails(f)
    PROVE  ShopInv'
<1>1. UNCHANGED <<order, chain, checkout>>
  BY DEF Mails
<1>2. NotYetPlaced' /\ HashesPaid' /\ HashesUnique'
  BY <1>1 DEF ShopInv, NotYetPlaced, HashesPaid, HashesUnique
<1>3. AnswersMatch' /\ KeysUnique'
  BY <1>1 DEF ShopInv, AnswersMatch, KeysUnique
<1>4. MailOnce'
  <2> DEFINE o == confirm[f].order
  <2>1. /\ confirm[f].pc = "mailing" /\ confirm'[f].pc = "done"
        /\ \A g \in Confirms \ {f} : confirm'[g] = confirm[g]
        /\ mailed'[o] \in {mailed[o], mailed[o] + 1}
        /\ \A p \in Checkouts \ {o} : mailed'[p] = mailed[p]
    BY DEF Mails
  <2>2. mailed[o] = 0 /\ order[o].hash # NoHash
    BY <2>1 DEF ShopInv, MailOnce
  <2>3. \A g \in Confirms : confirm'[g].pc = "mailing" =>
          g # f /\ confirm[g].pc = "mailing" /\ confirm'[g].order = confirm[g].order
          /\ confirm[g].order \in Checkouts /\ confirm[g].order # o
    BY <2>1 DEF ShopInv, MailOnce, Shapes, ConfirmsShaped
  <2> HIDE DEF o
  <2>4. \A p \in Checkouts : mailed'[p] <= (IF order'[p].hash # NoHash THEN 1 ELSE 0)
    BY <1>1, <2>1, <2>2 DEF ShopInv, MailOnce
  <2>5. \A g \in Confirms : confirm'[g].pc = "mailing" =>
          order'[confirm'[g].order].hash # NoHash /\ mailed'[confirm'[g].order] = 0
    BY <1>1, <2>1, <2>3 DEF ShopInv, MailOnce
  <2>6. \A g, k \in Confirms :
          confirm'[g].pc = "mailing" /\ confirm'[k].pc = "mailing" /\ confirm'[g].order = confirm'[k].order
          => g = k
    BY <2>3 DEF ShopInv, MailOnce
  <2> QED BY <2>4, <2>5, <2>6 DEF MailOnce
<1> QED BY <1>2, <1>3, <1>4 DEF ShopInv

LEMMA InvariantHolds == Spec => [](Shapes /\ ShopInv)
<1>1. Init => Shapes /\ ShopInv
  BY InitEstablishes
<1>2. Shapes /\ ShopInv /\ [Next]_vars => (Shapes /\ ShopInv)'
  <2> SUFFICES ASSUME Shapes, ShopInv, [Next]_vars PROVE Shapes' /\ ShopInv'
    OBVIOUS
  <2>1. Shapes' /\ StepKind
    BY StepKinds
  <2>2. CASE Silent
    BY <2>1, <2>2, QuietKeeps
  <2>3. ASSUME NEW c \in Checkouts, NEW o \in Checkouts, Replays(c, o) PROVE ShopInv'
    BY <2>3, ReplaysKeep
  <2>4. ASSUME NEW c \in Checkouts, Places(c) PROVE ShopInv'
    BY <2>4, PlacesKeeps
  <2>5. ASSUME NEW f \in Confirms, Settles(f) \/ Mails(f) PROVE ShopInv'
    BY <2>5, SettlesKeeps, MailsKeeps, ShopAssumption
  <2> QED BY <2>1, <2>2, <2>3, <2>4, <2>5 DEF StepKind
<1> QED BY <1>1, <1>2, PTL DEF Spec

\* A settled order was paid: its hash is a successful transfer of exactly its frozen total to the
\* merchant, it settled no other order, and only a settled order is mailed, once (ConfirmOrder).
THEOREM PaidOnce == Spec => []PaidInFullOnce
<1>1. Shapes /\ ShopInv => PaidInFullOnce
  <2> SUFFICES ASSUME Shapes, ShopInv, NEW o \in Checkouts
               PROVE  /\ order[o].hash # NoHash =>
                          /\ order[o].status \in {"CONFIRMED", "FULFILLED"}
                          /\ verifyPayment(chain[order[o].hash], order[o].total)
                          /\ TakenBy(order[o].hash) = {o}
                      /\ mailed[o] <= (IF order[o].hash # NoHash THEN 1 ELSE 0)
    BY DEF PaidInFullOnce
  <2>1. order[o].hash # NoHash => TakenBy(order[o].hash) = {o}
    BY DEF TakenBy, ShopInv, HashesUnique
  <2> QED BY <2>1 DEF ShopInv, HashesPaid, MailOnce
<1> QED BY <1>1, InvariantHolds, PTL

\* All checkouts of one user under one key that succeed are answered with the same order
\* (orderByIdempotencyKey, the unique key of shop_order).
THEOREM OneOrder == Spec => []ReplaySameOrder
<1>1. Shapes /\ ShopInv => ReplaySameOrder
  BY DEF ReplaySameOrder, ShopInv, AnswersMatch, KeysUnique
<1> QED BY <1>1, InvariantHolds, PTL

-----------------------------------------------------------------------------
(***************************************************************************)
(* Types.                                                                  *)
(***************************************************************************)
RequestBodies == [key : STRING \cup {NoKey}, lines : Seq([id : Nat, quantity : Int]), shipping : BOOLEAN]
ItemRow == [stock : Nat, visible : BOOLEAN, price : Nat]
OrderRecord == [status : Live \cup GivenUp \cup {"NONE"}, user : Users \cup {NoUser},
                key : STRING \cup {NoKey}, event : Nat, cart : [Items -> Nat], total : Nat,
                hash : Hashes \cup {NoHash}, stale : BOOLEAN]
Payment == [found : BOOLEAN, toMaster : BOOLEAN, amount : Nat, success : BOOLEAN]
CheckoutCall == [pc : {"idle", "lookup", "begin", "locking", "checked", "done"},
                 user : Users \cup {NoUser}, request : RequestBodies, event : Nat, held : SUBSET Items,
                 answer : {"none", "invalid", "closed", "placed", "error"} \cup Refusals,
                 placed : Checkouts \cup {NoOrder}]
ConfirmCall == [pc : {"idle", "locking", "verifying", "mailing", "done"}, user : Users \cup {NoUser},
                order : Checkouts \cup {NoOrder}, hash : Hashes \cup {NoHash},
                answer : {"none", "unavailable", "notFound", "notOwned", "notPending", "hashUsed",
                          "confirmed", "unverified", "error"}]
SweepRun == [orders : SUBSET Checkouts, at : Checkouts \cup {NoOrder}, held : SUBSET Items,
             restored : SUBSET Checkouts]

\* A cart under way was validated; a confirmation that began names an order and a hash.
CartsValid ==
    \A c \in Checkouts : checkout[c].pc \notin {"idle", "done"} =>
        Validate(checkout[c].request) /\ checkout[c].user \in Users
ConfirmsName ==
    \A f \in Confirms : confirm[f].pc # "idle" =>
        confirm[f].order \in Checkouts /\ confirm[f].hash \in Hashes

CallsTyped ==
    /\ checkout \in [Checkouts -> CheckoutCall] /\ confirm \in [Confirms -> ConfirmCall]
    /\ sweep \in [Sweeps -> SweepRun]
    /\ CartsValid /\ ConfirmsName

ShopTyped == TypeOK /\ CallsTyped

LEMMA ShopTypedInit == Init => ShopTyped
<1> SUFFICES ASSUME Init PROVE ShopTyped
    OBVIOUS
<1> USE ShopAssumption
<1>1. NoOrderRow \in OrderRecord
    BY DEF NoOrderRow, OrderRecord, EmptyCart
<1>2. IdleCheckout \in CheckoutCall /\ NoRequest \in RequestBodies
    BY DEF IdleCheckout, CheckoutCall, NoRequest, RequestBodies
<1>3. IdleConfirm \in ConfirmCall /\ IdleSweep \in SweepRun
    BY DEF IdleConfirm, ConfirmCall, IdleSweep, SweepRun
<1>4. NotOnChain \in Payment
    BY DEF NotOnChain, Payment
<1>5. TypeOK
    BY <1>1, <1>4 DEF Init, TypeOK, OrderRecord, Payment
<1>6. CallsTyped
    BY <1>2, <1>3 DEF Init, CallsTyped, CartsValid, ConfirmsName, IdleCheckout, IdleConfirm
<1> QED
    BY <1>5, <1>6 DEF ShopTyped

LEMMA CurrentIsEvent ==
    ASSUME TypeOK, conferences # {} PROVE CurrentShopEvent \in conferences /\ CurrentShopEvent \in Nat
<1>1. conferences \subseteq Nat /\ IsFiniteSet(conferences)
    BY ShopAssumption, FS_Subset DEF TypeOK
<1>2. \E e \in conferences : \A d \in conferences : d <= e
    BY <1>1, LargestNumber
<1> QED
    BY <1>1, <1>2 DEF CurrentShopEvent

\* A validated cart asks for a number of every item, within the limit of a line.
LEMMA CartIsCounts ==
    ASSUME NEW r \in RequestBodies, Validate(r)
    PROVE  Cart(r) \in [Items -> 0..MaxLineQuantity] /\ Cart(r) \in [Items -> Nat]
<1>1. ASSUME NEW i \in Items PROVE Cart(r)[i] \in 0..MaxLineQuantity
    <2>1. CASE \E n \in DOMAIN r.lines : r.lines[n].id = i
        <3> DEFINE m == CHOOSE n \in DOMAIN r.lines : r.lines[n].id = i
        <3>1. m \in DOMAIN r.lines
            BY <2>1
        <3>2. Cart(r)[i] = r.lines[m].quantity
            BY <2>1 DEF Cart
        <3>3. r.lines[m].quantity \in 1..MaxLineQuantity
            BY <3>1 DEF Validate
        <3> HIDE DEF m
        <3> QED
            BY <3>2, <3>3, ShopAssumption
    <2>2. CASE ~ \E n \in DOMAIN r.lines : r.lines[n].id = i
        BY <2>2, ShopAssumption DEF Cart
    <2> QED
        BY <2>1, <2>2
<1>2. Cart(r) = [i \in Items |-> Cart(r)[i]]
    BY DEF Cart
<1>3. Cart(r) \in [Items -> 0..MaxLineQuantity]
    BY <1>1, <1>2
<1> QED
    BY <1>3, ShopAssumption

LEMMA TotalIsCount ==
    ASSUME TypeOK, NEW r \in RequestBodies, Validate(r) PROVE CartTotal(r) \in Nat
<1> DEFINE f == [i \in Items |-> Cart(r)[i] * item[i].price]
<1>1. \A i \in Items : Cart(r)[i] \in Nat /\ item[i].price \in Nat
    BY CartIsCounts DEF TypeOK
<1>2. \A x, y \in Nat : x * y \in Nat
    OBVIOUS
<1>3. \A i \in Items : f[i] \in Int /\ f[i] >= 0
    BY <1>1, <1>2
<1>4. DOMAIN f = Items
    OBVIOUS
<1> HIDE DEF f
<1>5. IsFiniteSet(Items)
    BY ShopAssumption
<1>6. SumFunctionOnSet(f, Items) \in Int /\ SumFunctionOnSet(f, Items) >= 0
    BY <1>3, <1>5, SumType
<1> QED
    BY <1>4, <1>6 DEF CartTotal, SumFunction, f

\* The units in the carts of some orders.
LEMMA UnitsAreCounts ==
    ASSUME TypeOK, NEW S \in SUBSET Checkouts, NEW i \in Items
    PROVE  UnitsIn(S, i) \in Nat
<1> DEFINE f == [o \in Checkouts |-> order[o].cart[i]]
<1>1. IsFiniteSet(S)
    BY FS_Subset, ShopAssumption
<1>2. \A o \in S : f[o] \in Int /\ f[o] >= 0
    BY DEF TypeOK
<1> HIDE DEF f
<1>3. SumFunctionOnSet(f, S) \in Nat
    BY <1>1, <1>2, SumType
<1> QED
    BY <1>3 DEF UnitsIn, f

\* A checkout call, a confirmation or a worker gets a new record.
LEMMA CallWrite ==
    ASSUME ShopTyped, NEW c \in Checkouts, NEW new \in CheckoutCall,
           checkout' = [checkout EXCEPT ![c] = new],
           new.pc \notin {"idle", "done"} => Validate(new.request) /\ new.user \in Users,
           UNCHANGED <<confirm, sweep>>
    PROVE  CallsTyped'
BY DEF ShopTyped, CallsTyped, CartsValid, ConfirmsName

LEMMA ConfirmationWrite ==
    ASSUME ShopTyped, NEW f \in Confirms, NEW new \in ConfirmCall,
           confirm' = [confirm EXCEPT ![f] = new],
           new.order \in Checkouts /\ new.hash \in Hashes,
           UNCHANGED <<checkout, sweep>>
    PROVE  CallsTyped'
BY DEF ShopTyped, CallsTyped, CartsValid, ConfirmsName

LEMMA SweepWrite ==
    ASSUME ShopTyped, NEW s \in Sweeps, NEW new \in SweepRun,
           sweep' = [sweep EXCEPT ![s] = new], UNCHANGED <<checkout, confirm>>
    PROVE  CallsTyped'
BY DEF ShopTyped, CallsTyped, CartsValid, ConfirmsName

\* A checkout that ends keeps its type.
LEMMA AnswerTyped ==
    ASSUME ShopTyped, NEW c \in Checkouts, NEW placed \in Checkouts \cup {NoOrder},
           NEW answer \in {"placed", "error"} \cup Refusals,
           AnswerCheckout(c, answer, placed), UNCHANGED <<confirm, sweep>>
    PROVE  CallsTyped'
<1> DEFINE r == checkout[c]
           new == [pc |-> "done", user |-> r.user, request |-> r.request, event |-> r.event,
                   held |-> {}, answer |-> answer, placed |-> placed]
<1>1. r \in CheckoutCall
    BY DEF ShopTyped, CallsTyped
<1>2. new \in CheckoutCall /\ new.pc = "done"
    BY <1>1 DEF CheckoutCall
<1>3. checkout' = [checkout EXCEPT ![c] = new]
    BY DEF AnswerCheckout
<1> HIDE DEF new
<1> QED
    BY <1>2, <1>3, CallWrite

\* A checkout that changes its phase, or locks one more row.
LEMMA PhaseTyped ==
    ASSUME ShopTyped, NEW c \in Checkouts, checkout[c].pc \notin {"idle", "done"},
           NEW pc \in {"begin", "locking", "checked"}, NEW held \in SUBSET Items,
           \/ checkout' = [checkout EXCEPT ![c].pc = pc]
           \/ checkout' = [checkout EXCEPT ![c].held = held],
           UNCHANGED <<confirm, sweep>>
    PROVE  CallsTyped'
<1> DEFINE r == checkout[c]
           n == [pc |-> pc, user |-> r.user, request |-> r.request, event |-> r.event,
                 held |-> r.held, answer |-> r.answer, placed |-> r.placed]
           m == [pc |-> r.pc, user |-> r.user, request |-> r.request, event |-> r.event,
                 held |-> held, answer |-> r.answer, placed |-> r.placed]
<1>1. r \in CheckoutCall /\ checkout \in [Checkouts -> CheckoutCall]
    BY DEF ShopTyped, CallsTyped
<1>2. checkout' = [checkout EXCEPT ![c] = n] \/ checkout' = [checkout EXCEPT ![c] = m]
    BY <1>1 DEF CheckoutCall
<1>3. n \in CheckoutCall /\ m \in CheckoutCall /\ n.request = r.request /\ m.request = r.request
      /\ n.user = r.user /\ m.user = r.user
    BY <1>1 DEF CheckoutCall
<1>4. Validate(r.request) /\ r.user \in Users
    BY DEF ShopTyped, CallsTyped, CartsValid
<1> HIDE DEF n, m
<1> QED
    BY <1>2, <1>3, <1>4, CallWrite

LEMMA CheckoutTyped ==
    ASSUME ShopTyped, NEW c \in Checkouts, CheckoutStep(c) \/ FailCheckout(c)
    PROVE  ShopTyped'
<1> USE ShopAssumption
<1>1. /\ UNCHANGED <<confirm, sweep, eventVars, chain, acts>>
      /\ PlaceOrder(c) \/ UNCHANGED <<item, order>>
    BY DEF CheckoutStep, FailCheckout, BeginCheckout, LookUpKey, BeginTransaction, LockItem, CheckCart,
           PlaceOrder, FindConcurrentReplay
<1>2. /\ TypeOK /\ CallsTyped /\ checkout[c] \in CheckoutCall
      /\ checkout \in [Checkouts -> CheckoutCall]
    BY DEF ShopTyped, CallsTyped
<1>3. ASSUME BeginCheckout(c) PROVE CallsTyped'
    <2>1. PICK u \in Users, r \in Requests :
            LET start(pc, answer, e) ==
                    [pc |-> pc, user |-> u, request |-> r, event |-> e, held |-> {}, answer |-> answer,
                     placed |-> NoOrder]
            IN  checkout' = [checkout EXCEPT ![c] =
                    CASE ~Validate(r) -> start("done", "invalid", 0)
                      [] Validate(r) /\ ~IsOpen -> start("done", "closed", 0)
                      [] OTHER -> start(IF r.key = NoKey THEN "begin" ELSE "lookup", "none", CurrentShopEvent)]
        BY <1>3 DEF BeginCheckout
    <2> DEFINE row(pc, answer, e) == [pc |-> pc, user |-> u, request |-> r, event |-> e, held |-> {},
                                      answer |-> answer, placed |-> NoOrder]
    <2>2. r \in RequestBodies
        BY DEF RequestBodies
    <2>3. ASSUME NEW pc \in {"idle", "lookup", "begin", "done"}, NEW answer \in {"none", "invalid", "closed"},
                 NEW e \in Nat, checkout' = [checkout EXCEPT ![c] = row(pc, answer, e)],
                 pc \in {"begin", "lookup"} => Validate(r)
          PROVE  CallsTyped'
        <3> DEFINE new == row(pc, answer, e)
        <3>1. new \in CheckoutCall /\ new.pc = pc /\ new.request = r /\ new.user = u
            BY <2>2 DEF CheckoutCall
        <3>2. checkout' = [checkout EXCEPT ![c] = new]
            BY <2>3
        <3> HIDE DEF new
        <3> QED
            BY <1>1, <2>3, <3>1, <3>2, CallWrite
    <2>4. CASE ~Validate(r)
        <3>1. checkout' = [checkout EXCEPT ![c] = row("done", "invalid", 0)]
            BY <2>1, <2>4
        <3> HIDE DEF row
        <3> QED
            BY <2>3, <3>1
    <2>5. CASE Validate(r) /\ ~IsOpen
        <3>1. checkout' = [checkout EXCEPT ![c] = row("done", "closed", 0)]
            BY <2>1, <2>5
        <3> HIDE DEF row
        <3> QED
            BY <2>3, <3>1
    <2>6. CASE Validate(r) /\ IsOpen
        <3>1. CurrentShopEvent \in Nat
            BY <1>2, <2>6, CurrentIsEvent DEF IsOpen
        <3>2. PICK pc \in {"begin", "lookup"} :
                checkout' = [checkout EXCEPT ![c] = row(pc, "none", CurrentShopEvent)]
            BY <2>1, <2>6
        <3> HIDE DEF row
        <3> QED
            BY <2>3, <2>6, <3>1, <3>2
    <2> QED
        BY <2>4, <2>5, <2>6
<1>4. ASSUME LookUpKey(c) PROVE CallsTyped'
    <2>1. CASE \E o \in orderByIdempotencyKey(checkout[c].user, checkout[c].request.key) :
                AnswerCheckout(c, "placed", o)
        BY <1>1, <2>1, AnswerTyped DEF orderByIdempotencyKey
    <2>2. CASE checkout' = [checkout EXCEPT ![c].pc = "begin"]
        BY <1>1, <1>4, <2>2, PhaseTyped DEF LookUpKey
    <2> QED
        BY <1>4, <2>1, <2>2 DEF LookUpKey
<1>5. ASSUME BeginTransaction(c) PROVE CallsTyped'
    BY <1>1, <1>5, PhaseTyped DEF BeginTransaction
<1>6. ASSUME LockItem(c) PROVE CallsTyped'
    <2>1. checkout[c].held \cup {NextItem(c)} \in SUBSET Items
        <3>1. Wanted(c) \subseteq Items /\ Wanted(c) # {}
            BY <1>6 DEF LockItem, Wanted, ListItems
        <3>2. IsFiniteSet(Wanted(c)) /\ Wanted(c) \subseteq Nat
            BY <3>1, FS_Subset
        <3>3. \E e \in Wanted(c) : \A d \in Wanted(c) : e <= d
            BY <3>1, <3>2, SmallestNumber
        <3>4. NextItem(c) \in Wanted(c)
            BY <3>3 DEF NextItem
        <3> QED
            BY <1>2, <3>1, <3>4 DEF CheckoutCall
    <2>2. checkout' = [checkout EXCEPT ![c].held = checkout[c].held \cup {NextItem(c)}]
        BY <1>6 DEF LockItem
    <2> QED
        BY <1>1, <1>6, <2>1, <2>2, PhaseTyped DEF LockItem
<1>7. ASSUME CheckCart(c) PROVE CallsTyped'
    <2> DEFINE lines == checkout[c].request.lines
               bad == {n \in DOMAIN lines : LineRefusal(c, lines[n]) # "none"}
               first == CHOOSE n \in bad : \A m \in bad : n <= m
    <2>1. \A line : LineRefusal(c, line) \in Refusals \cup {"none"}
        BY DEF LineRefusal, Refusals
    <2>2. CASE checkout' = [checkout EXCEPT ![c].pc = "checked"]
        BY <1>1, <1>7, <2>2, PhaseTyped DEF CheckCart
    <2>3. CASE bad # {} /\ AnswerCheckout(c, LineRefusal(c, lines[first]), NoOrder)
        <3>1. lines \in Seq([id : Nat, quantity : Int])
            BY <1>2 DEF CheckoutCall, RequestBodies
        <3>2. bad \subseteq 1..Len(lines) /\ Len(lines) \in Nat
            <4>1. DOMAIN lines = 1..Len(lines) /\ Len(lines) \in Nat
                <5> HIDE DEF lines
                <5> QED
                    BY <3>1
            <4>2. bad \subseteq DOMAIN lines
                OBVIOUS
            <4> QED
                BY <4>1, <4>2
        <3>3. IsFiniteSet(1..Len(lines)) /\ 1..Len(lines) \subseteq Nat
            BY <3>2, FS_Interval
        <3>4. IsFiniteSet(bad) /\ bad \subseteq Nat
            BY <3>2, <3>3, FS_Subset
        <3>5. \E n \in bad : \A m \in bad : n <= m
            <4> HIDE DEF bad
            <4> QED
                BY <2>3, <3>4, SmallestNumber
        <3>6. first \in bad
            BY <3>5
        <3> DEFINE status == LineRefusal(c, lines[first])
        <3>7. status \in Refusals /\ AnswerCheckout(c, status, NoOrder)
            BY <2>1, <2>3, <3>6
        <3> HIDE DEF status
        <3>8. status \in {"placed", "error"} \cup Refusals /\ NoOrder \in Checkouts \cup {NoOrder}
            BY <3>7
        <3> QED
            BY ONLY ShopTyped, c \in Checkouts, <1>1, <3>7, <3>8, AnswerTyped
    <2> QED
        BY <1>7, <2>2, <2>3 DEF CheckCart
<1>8. ASSUME PlaceOrder(c) PROVE CallsTyped' /\ TypeOK'
    <2> DEFINE u == checkout[c].user
               r == checkout[c].request
               row == [status |-> "PENDING", user |-> u, key |-> r.key, event |-> checkout[c].event,
                       cart |-> Cart(r), total |-> CartTotal(r), hash |-> NoHash, stale |-> FALSE]
    <2>1. r \in RequestBodies /\ Validate(r) /\ u \in Users
        BY <1>2, <1>8 DEF PlaceOrder, CheckoutCall, CallsTyped, CartsValid
    <2>2. Cart(r) \in [Items -> Nat] /\ CartTotal(r) \in Nat
        BY <1>2, <2>1, CartIsCounts, TotalIsCount
    <2>3. row \in OrderRecord
        BY <1>2, <2>1, <2>2 DEF OrderRecord, CheckoutCall, RequestBodies, Live
    <2>4. /\ order' = [order EXCEPT ![c] = row]
          /\ item' = [i \in Items |-> [item[i] EXCEPT !.stock = @ - Cart(r)[i]]]
          /\ \A i \in Items : Cart(r)[i] <= item[i].stock
          /\ AnswerCheckout(c, "placed", c) \/ AnswerCheckout(c, "error", NoOrder)
        BY <1>8 DEF PlaceOrder
    <2> HIDE DEF row
    <2>5. CallsTyped'
        BY <1>1, <2>4, AnswerTyped
    <2>6. order' \in [Checkouts -> OrderRecord]
        BY <1>2, <2>3, <2>4 DEF TypeOK, OrderRecord
    <2>7. ASSUME NEW i \in Items PROVE item'[i] \in ItemRow
        <3>1. item[i] \in ItemRow /\ Cart(r)[i] \in Nat /\ Cart(r)[i] <= item[i].stock
            BY <1>2, <2>2, <2>4 DEF TypeOK, ItemRow
        <3>2. item'[i] = [item[i] EXCEPT !.stock = item[i].stock - Cart(r)[i]]
            BY <2>4
        <3>3. item[i].stock - Cart(r)[i] \in Nat
            BY <3>1 DEF ItemRow
        <3> DEFINE left == item[i].stock - Cart(r)[i]
        <3> HIDE DEF left
        <3>4. left \in Nat /\ item'[i] = [item[i] EXCEPT !.stock = left]
            BY <3>2, <3>3 DEF left
        <3> QED
            BY <3>1, <3>4 DEF ItemRow
    <2>8. item' \in [Items -> ItemRow]
        BY <2>4, <2>7
    <2> QED
        BY <1>1, <1>2, <2>5, <2>6, <2>8 DEF TypeOK, OrderRecord, ItemRow, eventVars
<1>9. ASSUME FindConcurrentReplay(c) PROVE CallsTyped'
    BY <1>1, <1>9, AnswerTyped DEF FindConcurrentReplay, orderByIdempotencyKey
<1>10. ASSUME FailCheckout(c) PROVE CallsTyped'
    BY <1>1, <1>10, AnswerTyped DEF FailCheckout
<1>11. CallsTyped'
    BY <1>3, <1>4, <1>5, <1>6, <1>7, <1>8, <1>9, <1>10 DEF CheckoutStep
<1>12. TypeOK'
    BY <1>1, <1>2, <1>8 DEF TypeOK, eventVars
<1> QED
    BY <1>11, <1>12 DEF ShopTyped

\* A status, a hash or a sign of age is written into one order row, or several statuses at once.
LEMMA OrderRowWrite ==
    ASSUME NEW r \in OrderRecord, NEW status \in Live \cup GivenUp, NEW hash \in Hashes \cup {NoHash}
    PROVE  /\ [r EXCEPT !.status = status] \in OrderRecord
           /\ [r EXCEPT !.status = status, !.hash = hash] \in OrderRecord
           /\ \A old \in BOOLEAN : [r EXCEPT !.stale = old] \in OrderRecord
<1>0. r = [status |-> r.status, user |-> r.user, key |-> r.key, event |-> r.event, cart |-> r.cart,
           total |-> r.total, hash |-> r.hash, stale |-> r.stale]
    BY DEF OrderRecord
<1> DEFINE a == [status |-> status, user |-> r.user, key |-> r.key, event |-> r.event, cart |-> r.cart,
                 total |-> r.total, hash |-> r.hash, stale |-> r.stale]
           b == [status |-> status, user |-> r.user, key |-> r.key, event |-> r.event, cart |-> r.cart,
                 total |-> r.total, hash |-> hash, stale |-> r.stale]
<1>1. a \in OrderRecord /\ b \in OrderRecord
    BY DEF OrderRecord
<1>2. [r EXCEPT !.status = status] = a
    BY DEF OrderRecord
<1>3. [r EXCEPT !.status = status, !.hash = hash] = b
    <2>1. [r EXCEPT !.status = status, !.hash = hash] = [[r EXCEPT !.status = status] EXCEPT !.hash = hash]
        BY Zenon
    <2>2. [a EXCEPT !.hash = hash] = b
        OBVIOUS
    <2> QED
        BY <1>2, <2>1, <2>2
<1>4. ASSUME NEW old \in BOOLEAN PROVE [r EXCEPT !.stale = old] \in OrderRecord
    BY DEF OrderRecord
<1> HIDE DEF a, b
<1> QED
    BY <1>1, <1>2, <1>3, <1>4

LEMMA ItemRowWrite ==
    ASSUME NEW r \in ItemRow, NEW stock \in Nat, NEW price \in Nat
    PROVE  /\ [r EXCEPT !.stock = stock] \in ItemRow
           /\ [r EXCEPT !.visible = FALSE] \in ItemRow /\ [r EXCEPT !.price = price] \in ItemRow
BY DEF ItemRow

\* TypeOK, with names for its rows.
LEMMA RowsTyped ==
    TypeOK <=> /\ conferences \subseteq Events /\ closed \subseteq Events /\ walletConfigured \in BOOLEAN
               /\ item \in [Items -> ItemRow] /\ order \in [Checkouts -> OrderRecord]
               /\ chain \in [Hashes -> Payment] /\ acts \in 0..MaxActs
BY DEF TypeOK, ItemRow, OrderRecord, Payment

LEMMA ConfirmTyped ==
    ASSUME ShopTyped, NEW f \in Confirms, ConfirmStep(f) PROVE ShopTyped'
<1> USE ShopAssumption
<1> DEFINE r == confirm[f]
           put(pc, answer) == [pc |-> pc, user |-> r.user, order |-> r.order, hash |-> r.hash,
                               answer |-> answer]
<1>1. /\ TypeOK /\ CallsTyped /\ r \in ConfirmCall /\ confirm \in [Confirms -> ConfirmCall]
      /\ order \in [Checkouts -> OrderRecord]
    BY RowsTyped DEF ShopTyped, CallsTyped
<1>2. /\ UNCHANGED <<eventVars, item, chain, checkout, sweep, acts>>
      /\ ConfirmOrder(f) \/ UNCHANGED order
    BY DEF ConfirmStep, BeginConfirm, LockOrder, ConfirmOrder, RefuseConfirm, SendMail
<1>3. CASE BeginConfirm(f)
    <2>1. PICK u \in Users, o \in Checkouts, h \in Hashes :
            confirm' = [confirm EXCEPT ![f] =
                [pc |-> IF walletConfigured THEN "locking" ELSE "done", user |-> u, order |-> o, hash |-> h,
                 answer |-> IF walletConfigured THEN "none" ELSE "unavailable"]]
        BY <1>3 DEF BeginConfirm
    <2> DEFINE new == [pc |-> IF walletConfigured THEN "locking" ELSE "done", user |-> u, order |-> o,
                       hash |-> h, answer |-> IF walletConfigured THEN "none" ELSE "unavailable"]
    <2>2. new \in ConfirmCall /\ new.order \in Checkouts /\ new.hash \in Hashes
        BY DEF ConfirmCall
    <2>3. confirm' = [confirm EXCEPT ![f] = new]
        BY <2>1
    <2> HIDE DEF new
    <2>4. CallsTyped'
        BY <1>2, <2>2, <2>3, ConfirmationWrite
    <2> QED
        BY <1>1, <1>2, <1>3, <2>4 DEF ShopTyped, TypeOK, BeginConfirm, eventVars
<1>4. CASE r.pc # "idle" /\ ~ BeginConfirm(f)
    <2>1. r.order \in Checkouts /\ r.hash \in Hashes
        BY <1>1, <1>4 DEF CallsTyped, ConfirmsName
    <2>2. ASSUME NEW pc \in {"verifying", "mailing", "done"},
                 NEW answer \in {"none", "unavailable", "notFound", "notOwned", "notPending", "hashUsed",
                                 "confirmed", "unverified", "error"},
                 \/ confirm' = [confirm EXCEPT ![f].pc = pc]
                 \/ confirm' = [confirm EXCEPT ![f].pc = pc, ![f].answer = answer]
          PROVE  CallsTyped'
        <3> DEFINE a == put(pc, r.answer)
                   b == put(pc, answer)
        <3>1. confirm' = [confirm EXCEPT ![f] = a] \/ confirm' = [confirm EXCEPT ![f] = b]
            BY <1>1, <2>2 DEF ConfirmCall
        <3>2. /\ a \in ConfirmCall /\ b \in ConfirmCall /\ a.order = r.order /\ b.order = r.order
              /\ a.hash = r.hash /\ b.hash = r.hash
            BY <1>1 DEF ConfirmCall
        <3> HIDE DEF a, b
        <3> QED
            BY <1>2, <2>1, <3>1, <3>2, ConfirmationWrite
    <2>3. \/ confirm' = [confirm EXCEPT ![f].pc = "verifying"]
          \/ confirm' = [confirm EXCEPT ![f].pc = "done"]
          \/ confirm' = [confirm EXCEPT ![f].pc = "mailing", ![f].answer = "confirmed"]
          \/ \E answer \in {"notFound", "notOwned", "notPending", "hashUsed", "unverified", "error"} :
                confirm' = [confirm EXCEPT ![f].pc = "done", ![f].answer = answer]
        BY <1>4 DEF ConfirmStep, LockOrder, ConfirmOrder, RefuseConfirm, SendMail, AnswerConfirm
    <2>4. CallsTyped'
        BY <2>2, <2>3
    <2>5. order' \in [Checkouts -> OrderRecord]
        <3>1. CASE UNCHANGED order
            BY <1>1, <3>1
        <3>2. CASE ConfirmOrder(f)
            <4> DEFINE new == [order[r.order] EXCEPT !.status = "CONFIRMED", !.hash = r.hash]
            <4>1. order' = [order EXCEPT ![r.order] = new]
                BY <1>1, <2>1, <3>2 DEF ConfirmOrder
            <4>2. order[r.order] \in OrderRecord /\ "CONFIRMED" \in Live \cup GivenUp
                  /\ r.hash \in Hashes \cup {NoHash}
                BY <1>1, <2>1 DEF Live
            <4>3. new \in OrderRecord
                BY <4>2, OrderRowWrite
            <4> HIDE DEF new
            <4> QED
                BY <1>1, <2>1, <4>1, <4>3
        <3> QED
            BY <1>2, <3>1, <3>2
    <2> QED
        BY <1>1, <1>2, <2>4, <2>5, RowsTyped DEF ShopTyped, TypeOK, eventVars, OrderRecord
<1> QED
    BY <1>3, <1>4 DEF ConfirmStep, BeginConfirm, LockOrder, ConfirmOrder, RefuseConfirm, SendMail

\* A field of a worker's run is written.
LEMMA RunFields ==
    ASSUME NEW r \in SweepRun, NEW v
    PROVE  /\ [r EXCEPT !.orders = v] = [orders |-> v, at |-> r.at, held |-> r.held, restored |-> r.restored]
           /\ [r EXCEPT !.at = v] = [orders |-> r.orders, at |-> v, held |-> r.held, restored |-> r.restored]
           /\ [r EXCEPT !.held = v] = [orders |-> r.orders, at |-> r.at, held |-> v, restored |-> r.restored]
           /\ [r EXCEPT !.restored = v] = [orders |-> r.orders, at |-> r.at, held |-> r.held, restored |-> v]
BY DEF SweepRun

LEMMA RunTypes ==
    ASSUME NEW r \in SweepRun
    PROVE  /\ \A v \in SUBSET Checkouts : [r EXCEPT !.orders = v] \in SweepRun /\ [r EXCEPT !.restored = v] \in SweepRun
           /\ \A v \in Checkouts \cup {NoOrder} : [r EXCEPT !.at = v] \in SweepRun
           /\ \A v \in SUBSET Items : [r EXCEPT !.held = v] \in SweepRun
<1>1. /\ r.orders \in SUBSET Checkouts /\ r.at \in Checkouts \cup {NoOrder}
      /\ r.held \in SUBSET Items /\ r.restored \in SUBSET Checkouts
    BY DEF SweepRun
<1>2. ASSUME NEW v \in SUBSET Checkouts PROVE [r EXCEPT !.orders = v] \in SweepRun /\ [r EXCEPT !.restored = v] \in SweepRun
    BY <1>1, RunFields DEF SweepRun
<1>3. ASSUME NEW v \in Checkouts \cup {NoOrder} PROVE [r EXCEPT !.at = v] \in SweepRun
    BY <1>1, RunFields DEF SweepRun
<1>4. ASSUME NEW v \in SUBSET Items PROVE [r EXCEPT !.held = v] \in SweepRun
    BY <1>1, RunFields DEF SweepRun
<1> QED
    BY <1>2, <1>3, <1>4

LEMMA SweepTyped ==
    ASSUME ShopTyped, NEW s \in Sweeps, SweepStep(s) \/ FailSweep(s) PROVE ShopTyped'
<1> USE ShopAssumption
<1>1. /\ TypeOK /\ CallsTyped /\ sweep[s] \in SweepRun /\ sweep \in [Sweeps -> SweepRun]
      /\ order \in [Checkouts -> OrderRecord] /\ item \in [Items -> ItemRow]
    BY RowsTyped DEF ShopTyped, CallsTyped
<1>2. /\ UNCHANGED <<eventVars, chain, checkout, confirm>>
      /\ acts' = acts \/ (acts < MaxActs /\ acts' = acts + 1)
    <2>1. SweepStep(s) => UNCHANGED <<eventVars, chain, checkout, confirm, acts>>
        BY DEF SweepStep, SelectStale, RestoreStock, MarkStaleOrders
    <2>2. FailSweep(s) => UNCHANGED <<eventVars, chain, checkout, confirm>>
        BY DEF FailSweep
    <2>3. FailSweep(s) => acts' = acts \/ (acts < MaxActs /\ acts' = acts + 1)
        BY DEF FailSweep
    <2> QED
        BY <2>1, <2>2, <2>3
<1>3. acts' \in 0..MaxActs
    BY <1>1, <1>2 DEF TypeOK
<1>4. IdleSweep \in SweepRun
    BY DEF IdleSweep, SweepRun
<1> DEFINE r == sweep[s]
<1>5. /\ r.orders \in SUBSET Checkouts /\ r.at \in Checkouts \cup {NoOrder}
      /\ r.held \in SUBSET Items /\ r.restored \in SUBSET Checkouts
    BY <1>1 DEF SweepRun
<1>6. CASE SelectStale(s)
    <2> DEFINE free == {o \in StaleOrders : ~OrderLocked(o)}
               new == [r EXCEPT !.orders = free]
    <2>1. free \in SUBSET Checkouts /\ sweep' = [sweep EXCEPT ![s].orders = free]
        BY <1>6 DEF SelectStale, StaleOrders
    <2> HIDE DEF free
    <2>2. sweep' = [sweep EXCEPT ![s] = new] /\ new \in SweepRun
        BY <1>1, <2>1, RunTypes
    <2> HIDE DEF new
    <2>3. CallsTyped'
        BY <1>2, <2>2, SweepWrite
    <2> QED
        BY <1>1, <1>2, <1>3, <1>6, <2>3 DEF SelectStale, ShopTyped, TypeOK, eventVars
<1>7. CASE RestoreStock(s)
    <2>1. ASSUME NEW o \in r.orders \ r.restored, sweep' = [sweep EXCEPT ![s].at = o] PROVE CallsTyped'
        <3> DEFINE new == [r EXCEPT !.at = o]
        <3>1. sweep' = [sweep EXCEPT ![s] = new] /\ new \in SweepRun
            BY <1>1, <1>5, <2>1, RunTypes
        <3> HIDE DEF new
        <3> QED
            BY <1>2, <3>1, SweepWrite
    <2>2. ASSUME NEW i \in SweepNeeds(s), sweep' = [sweep EXCEPT ![s].held = @ \cup {i}] PROVE CallsTyped'
        <3> DEFINE held == r.held \cup {i}
                   new == [r EXCEPT !.held = held]
        <3>1. held \in SUBSET Items
            BY <1>5, <2>2 DEF SweepNeeds, CartItems
        <3>2. sweep' = [sweep EXCEPT ![s].held = held]
            BY <2>2
        <3> HIDE DEF held
        <3>3. sweep' = [sweep EXCEPT ![s] = new] /\ new \in SweepRun
            BY <1>1, <3>1, <3>2, RunTypes
        <3> HIDE DEF new
        <3> QED
            BY <1>2, <3>3, SweepWrite
    <2>3. ASSUME r.at # NoOrder,
                 sweep' = [sweep EXCEPT ![s].restored = @ \cup {sweep[s].at}, ![s].at = NoOrder]
          PROVE  CallsTyped'
        <3> DEFINE restored == r.restored \cup {r.at}
                   mid == [r EXCEPT !.restored = restored]
                   new == [mid EXCEPT !.at = NoOrder]
        <3>1. restored \in SUBSET Checkouts
            BY <1>5, <2>3
        <3>2. sweep' = [sweep EXCEPT ![s].restored = restored, ![s].at = NoOrder]
            BY <2>3
        <3> HIDE DEF restored
        <3>3. [sweep EXCEPT ![s].restored = restored, ![s].at = NoOrder]
              = [[sweep EXCEPT ![s].restored = restored] EXCEPT ![s].at = NoOrder]
            BY Zenon
        <3>4. [sweep EXCEPT ![s].restored = restored] = [sweep EXCEPT ![s] = mid] /\ mid \in SweepRun
            BY <1>1, <3>1, RunTypes
        <3> HIDE DEF mid
        <3>5. new \in SweepRun
            BY <3>4, RunTypes
        <3>6. [[sweep EXCEPT ![s] = mid] EXCEPT ![s].at = NoOrder] = [sweep EXCEPT ![s] = new]
            BY <1>1, <3>4
        <3> HIDE DEF new
        <3>7. sweep' = [sweep EXCEPT ![s] = new]
            BY <3>2, <3>3, <3>4, <3>6
        <3> QED
            BY <1>2, <3>5, <3>7, SweepWrite
    <2>4. CallsTyped'
        BY <1>7, <2>1, <2>2, <2>3 DEF RestoreStock
    <2> QED
        BY <1>1, <1>2, <1>3, <1>7, <2>4 DEF RestoreStock, ShopTyped, TypeOK, eventVars
<1>8. CASE FailSweep(s)
    <2>1. CallsTyped'
        BY <1>2, <1>4, <1>8, SweepWrite DEF FailSweep
    <2> QED
        BY <1>1, <1>2, <1>3, <1>8, <2>1 DEF FailSweep, ShopTyped, TypeOK, eventVars
<1>9. CASE MarkStaleOrders(s)
    <2> DEFINE gone == {o \in sweep[s].orders : order[o].status = "PENDING"}
    <2>1. gone \in SUBSET Checkouts
        BY <1>1 DEF SweepRun
    <2>2. /\ order' = [o \in Checkouts |->
                        IF o \in gone THEN [order[o] EXCEPT !.status = "EXPIRED"] ELSE order[o]]
          /\ item' = [i \in Items |-> [item[i] EXCEPT !.stock = @ + UnitsIn(gone, i)]]
          /\ sweep' = [sweep EXCEPT ![s] = IdleSweep]
        BY <1>9 DEF MarkStaleOrders
    <2> HIDE DEF gone
    <2>3. ASSUME NEW o \in Checkouts PROVE order'[o] \in OrderRecord
        <3>1. [order[o] EXCEPT !.status = "EXPIRED"] \in OrderRecord
            BY <1>1, OrderRowWrite DEF GivenUp
        <3> QED
            BY <1>1, <2>2, <3>1
    <2>4. ASSUME NEW i \in Items PROVE item'[i] \in ItemRow
        <3> DEFINE left == item[i].stock + UnitsIn(gone, i)
        <3>1. UnitsIn(gone, i) \in Nat /\ item[i].stock \in Nat /\ item[i] \in ItemRow
            BY <1>1, <2>1, UnitsAreCounts DEF ItemRow
        <3>2. left \in Nat /\ item'[i] = [item[i] EXCEPT !.stock = left]
            BY <2>2, <3>1
        <3> HIDE DEF left
        <3> QED
            BY <3>1, <3>2, ItemRowWrite
    <2>5. order' \in [Checkouts -> OrderRecord] /\ item' \in [Items -> ItemRow]
        BY <2>2, <2>3, <2>4
    <2>6. CallsTyped'
        BY <1>2, <1>4, <2>2, SweepWrite
    <2> QED
        BY <1>1, <1>2, <1>3, <2>5, <2>6, RowsTyped DEF ShopTyped, TypeOK, eventVars, ItemRow, OrderRecord
<1> QED
    BY <1>6, <1>7, <1>8, <1>9 DEF SweepStep

LEMMA EnvironmentTyped ==
    ASSUME ShopTyped, Environment PROVE ShopTyped'
<1> USE ShopAssumption
<1>1. /\ TypeOK /\ CallsTyped /\ order \in [Checkouts -> OrderRecord] /\ item \in [Items -> ItemRow]
      /\ chain \in [Hashes -> Payment]
    BY RowsTyped DEF ShopTyped
<1>2. /\ UNCHANGED <<checkout, confirm, sweep>>
      /\ acts' = acts \/ (acts < MaxActs /\ acts' = acts + 1)
    <2>1. CASE (\E h \in Hashes : Pay(h)) \/ ConfigureWallet
        BY <2>1 DEF Pay, ConfigureWallet
    <2>2. CASE \E o \in Checkouts : Fulfil(o) \/ ReverseByOrganizer(o) \/ Age(o)
        BY <2>2 DEF Fulfil, ReverseByOrganizer, Age
    <2>3. CASE (\E i \in Items : EditItem(i)) \/ (\E e \in Events : EditEvent(e))
        BY <2>3 DEF EditItem, EditEvent
    <2> QED
        BY <2>1, <2>2, <2>3 DEF Environment
<1>3. acts' \in 0..MaxActs /\ CallsTyped'
    BY <1>1, <1>2 DEF TypeOK, CallsTyped, CartsValid, ConfirmsName
<1>4. ASSUME NEW h \in Hashes, Pay(h) PROVE TypeOK'
    <2>1. PICK o \in Checkouts, toMaster \in BOOLEAN, success \in BOOLEAN :
            chain' = [chain EXCEPT ![h] =
              [found |-> TRUE, toMaster |-> toMaster, amount |-> order[o].total, success |-> success]]
        BY <1>4 DEF Pay
    <2> DEFINE new == [found |-> TRUE, toMaster |-> toMaster, amount |-> order[o].total, success |-> success]
    <2>2. new \in Payment
        BY <1>1 DEF Payment, OrderRecord
    <2>3. chain' = [chain EXCEPT ![h] = new]
        BY <2>1
    <2> HIDE DEF new
    <2>4. chain' \in [Hashes -> Payment]
        BY <1>1, <2>2, <2>3
    <2> QED
        BY <1>1, <1>3, <1>4, <2>4 DEF TypeOK, Pay, eventVars, Payment
<1>5. ASSUME NEW o \in Checkouts, Fulfil(o) \/ Age(o) \/ ReverseByOrganizer(o) PROVE TypeOK'
    <2>1. \E status \in Live \cup GivenUp :
            \/ order' = [order EXCEPT ![o] = [order[o] EXCEPT !.status = status]]
            \/ order' = [order EXCEPT ![o] = [order[o] EXCEPT !.stale = TRUE]]
        BY <1>1, <1>5 DEF Fulfil, Age, ReverseByOrganizer, Live, GivenUp
    <2>2. \A status \in Live \cup GivenUp :
            [order[o] EXCEPT !.status = status] \in OrderRecord /\ [order[o] EXCEPT !.stale = TRUE] \in OrderRecord
        BY <1>1, OrderRowWrite
    <2>3. order' \in [Checkouts -> OrderRecord]
        BY <1>1, <2>1, <2>2
    <2>4. item' \in [Items -> ItemRow]
        <3>1. CASE ReverseByOrganizer(o)
            <4>1. item' = [i \in Items |-> [item[i] EXCEPT !.stock = @ + UnitsIn({o}, i)]]
                BY <3>1 DEF ReverseByOrganizer
            <4>2. ASSUME NEW i \in Items PROVE item'[i] \in ItemRow
                <5> DEFINE left == item[i].stock + UnitsIn({o}, i)
                <5>1. UnitsIn({o}, i) \in Nat /\ item[i].stock \in Nat /\ item[i] \in ItemRow
                    BY <1>1, UnitsAreCounts DEF ItemRow
                <5>2. left \in Nat /\ item'[i] = [item[i] EXCEPT !.stock = left]
                    <6>1. left \in Nat
                        BY <5>1
                    <6> QED
                        BY <4>1, <6>1, Zenon
                <5> HIDE DEF left
                <5> QED
                    BY <5>1, <5>2, ItemRowWrite
            <4> QED
                BY <4>1, <4>2
        <3>2. CASE UNCHANGED item
            BY <1>1, <3>2
        <3> QED
            BY <1>5, <3>1, <3>2 DEF Fulfil, Age
    <2>5. UNCHANGED <<eventVars, chain>>
        BY <1>5 DEF Fulfil, Age, ReverseByOrganizer
    <2> QED
        BY <1>1, <1>3, <2>3, <2>4, <2>5, RowsTyped DEF TypeOK, eventVars, ItemRow, OrderRecord
<1>6. ASSUME NEW i \in Items, EditItem(i) PROVE TypeOK'
    <2>1. \/ item' = [item EXCEPT ![i] = [item[i] EXCEPT !.visible = FALSE]]
          \/ item' = [item EXCEPT ![i] = [item[i] EXCEPT !.price = item[i].price + 1]]
        BY <1>1, <1>6 DEF EditItem
    <2>2. item[i] \in ItemRow /\ item[i].price + 1 \in Nat
        BY <1>1 DEF ItemRow
    <2>3. /\ [item[i] EXCEPT !.visible = FALSE] \in ItemRow
          /\ [item[i] EXCEPT !.price = item[i].price + 1] \in ItemRow
        BY <2>2, ItemRowWrite
    <2>4. item' \in [Items -> ItemRow]
        BY <1>1, <2>1, <2>3
    <2> QED
        BY <1>1, <1>3, <1>6, <2>4 DEF TypeOK, EditItem, eventVars, ItemRow
<1>7. ASSUME NEW e \in Events, EditEvent(e) PROVE TypeOK'
    BY <1>1, <1>3, <1>7 DEF TypeOK, EditEvent
<1>8. ASSUME ConfigureWallet PROVE TypeOK'
    BY <1>1, <1>8 DEF TypeOK, ConfigureWallet
<1>9. TypeOK'
    BY <1>4, <1>5, <1>6, <1>7, <1>8 DEF Environment
<1> QED
    BY <1>3, <1>9 DEF ShopTyped

LEMMA ShopTypedStep == ShopTyped /\ [Next]_vars => ShopTyped'
<1> SUFFICES ASSUME ShopTyped, [Next]_vars PROVE ShopTyped'
    OBVIOUS
<1>1. CASE UNCHANGED vars
    BY <1>1 DEF vars, eventVars, ShopTyped, TypeOK, CallsTyped, CartsValid, ConfirmsName
<1>2. CASE Finished
    BY <1>1, <1>2 DEF Finished
<1> QED
    BY <1>1, <1>2, CheckoutTyped, ConfirmTyped, SweepTyped, EnvironmentTyped DEF Next

\* Every row of the shop, every payment and every call in progress has its type: no stock falls
\* below zero, a line asks for a number of units, a call answers what the handlers can answer.
THEOREM ShopTypes == Spec => [](TypeOK /\ CallsTyped)
<1>1. ShopTyped => TypeOK /\ CallsTyped
    BY DEF ShopTyped
<1> QED
    BY <1>1, ShopTypedInit, ShopTypedStep, PTL DEF Spec

-----------------------------------------------------------------------------
(***************************************************************************)
(* Stock.  For the shelf and for the carts every step is one of five: an   *)
(* order is placed, settled or fulfilled, open orders are given up         *)
(* together, or nothing changes.  They are the steps of ShopLedger.        *)
(***************************************************************************)
OnShelf == [i \in Items |-> item[i].stock]
Book == [o \in Checkouts |-> [status |-> order[o].status, cart |-> order[o].cart, hash |-> order[o].hash]]

SameEntry(o) ==
    /\ order'[o].status = order[o].status /\ order'[o].cart = order[o].cart
    /\ order'[o].hash = order[o].hash
ShelfKept == \A i \in Items : item'[i].stock = item[i].stock
BookKept == ShelfKept /\ \A o \in Checkouts : SameEntry(o)

BookPlaces(c) ==
    /\ order[c].status = "NONE"
    /\ order'[c].cart \in [Items -> 0..MaxLineQuantity]
    /\ order'[c].status = "PENDING" /\ order'[c].hash = NoHash
    /\ \A i \in Items :
        order'[c].cart[i] <= item[i].stock /\ item'[i].stock = item[i].stock - order'[c].cart[i]
    /\ \A o \in Checkouts \ {c} : SameEntry(o)

BookSettles(o, h) ==
    /\ ShelfKept /\ order[o].status = "PENDING" /\ \A p \in Checkouts : order[p].hash # h
    /\ order'[o].status = "CONFIRMED" /\ order'[o].hash = h /\ order'[o].cart = order[o].cart
    /\ \A p \in Checkouts \ {o} : SameEntry(p)

BookGivesUp(S, status) ==
    /\ \A o \in S :
        /\ order[o].status = "PENDING" /\ order'[o].status = status
        /\ order'[o].cart = order[o].cart /\ order'[o].hash = order[o].hash
    /\ \A o \in Checkouts \ S : SameEntry(o)
    /\ \A i \in Items : item'[i].stock = item[i].stock + UnitsIn(S, i)

BookFulfils(o) ==
    /\ ShelfKept /\ order[o].status = "CONFIRMED" /\ order'[o].status = "FULFILLED"
    /\ order'[o].cart = order[o].cart /\ order'[o].hash = order[o].hash
    /\ \A p \in Checkouts \ {o} : SameEntry(p)

BookStep ==
    \/ BookKept
    \/ \E c \in Checkouts : BookPlaces(c)
    \/ \E o \in Checkouts, h \in Hashes : BookSettles(o, h)
    \/ \E S \in SUBSET Checkouts, status \in GivenUp : BookGivesUp(S, status)
    \/ \E o \in Checkouts : BookFulfils(o)

\* A new status or hash leaves an order's cart alone.
LEMMA EntryWrite ==
    ASSUME NEW r \in OrderRecord, NEW status, NEW hash
    PROVE  /\ LET n == [r EXCEPT !.status = status] IN n.status = status /\ n.cart = r.cart /\ n.hash = r.hash
           /\ LET n == [r EXCEPT !.status = status, !.hash = hash]
              IN  n.status = status /\ n.cart = r.cart /\ n.hash = hash
           /\ \A old \in BOOLEAN :
                LET n == [r EXCEPT !.stale = old]
                IN  n.status = r.status /\ n.cart = r.cart /\ n.hash = r.hash
<1>1. ASSUME NEW q \in OrderRecord, NEW a, NEW b, NEW d \in BOOLEAN
      PROVE  /\ LET n == [q EXCEPT !.status = a] IN n.status = a /\ n.cart = q.cart /\ n.hash = q.hash
             /\ LET n == [q EXCEPT !.stale = d] IN n.status = q.status /\ n.cart = q.cart /\ n.hash = q.hash
    BY DEF OrderRecord
<1>2. [r EXCEPT !.status = status, !.hash = hash] = [[r EXCEPT !.status = status] EXCEPT !.hash = hash]
    BY Zenon
<1>3. LET n == [[r EXCEPT !.status = status] EXCEPT !.hash = hash]
      IN  n.status = status /\ n.cart = r.cart /\ n.hash = hash
    BY DEF OrderRecord
<1> QED
    BY <1>1, <1>2, <1>3

LEMMA StockWrite ==
    ASSUME NEW r \in ItemRow, NEW v
    PROVE  [r EXCEPT !.stock = v].stock = v
BY DEF ItemRow

LEMMA CheckoutBook ==
    ASSUME ShopTyped, ShopInv, NEW c \in Checkouts, CheckoutStep(c) \/ FailCheckout(c)
    PROVE  BookStep
<1>1. /\ TypeOK /\ CallsTyped /\ checkout[c] \in CheckoutCall
      /\ item \in [Items -> ItemRow] /\ order \in [Checkouts -> OrderRecord]
    BY RowsTyped DEF ShopTyped, CallsTyped
<1>2. PlaceOrder(c) \/ UNCHANGED <<item, order>>
    BY DEF CheckoutStep, FailCheckout, BeginCheckout, LookUpKey, BeginTransaction, LockItem, CheckCart,
           FindConcurrentReplay
<1>3. CASE PlaceOrder(c)
    <2> DEFINE u == checkout[c].user
               r == checkout[c].request
               row == [status |-> "PENDING", user |-> u, key |-> r.key, event |-> checkout[c].event,
                       cart |-> Cart(r), total |-> CartTotal(r), hash |-> NoHash, stale |-> FALSE]
    <2>1. r \in RequestBodies /\ Validate(r) /\ order[c].status = "NONE"
        BY <1>1, <1>3 DEF PlaceOrder, CheckoutCall, CallsTyped, CartsValid, ShopInv, NotYetPlaced
    <2>2. Cart(r) \in [Items -> 0..MaxLineQuantity]
        BY <2>1, CartIsCounts
    <2>3. /\ order' = [order EXCEPT ![c] = row]
          /\ item' = [i \in Items |-> [item[i] EXCEPT !.stock = @ - Cart(r)[i]]]
          /\ \A i \in Items : Cart(r)[i] <= item[i].stock
        BY <1>3 DEF PlaceOrder
    <2>4. row.status = "PENDING" /\ row.cart = Cart(r) /\ row.hash = NoHash
        OBVIOUS
    <2> HIDE DEF row
    <2>5. order'[c] = row /\ \A o \in Checkouts \ {c} : order'[o] = order[o]
        BY <1>1, <2>3
    <2>6. ASSUME NEW i \in Items PROVE item'[i].stock = item[i].stock - Cart(r)[i]
        BY <1>1, <2>3, StockWrite
    <2>7. BookPlaces(c)
        BY <2>1, <2>2, <2>3, <2>4, <2>5, <2>6 DEF BookPlaces, SameEntry
    <2> QED
        BY <2>7 DEF BookStep
<1>4. CASE UNCHANGED <<item, order>>
    BY <1>4 DEF BookStep, BookKept, ShelfKept, SameEntry
<1> QED
    BY <1>2, <1>3, <1>4

LEMMA ConfirmBook ==
    ASSUME ShopTyped, ShopInv, NEW f \in Confirms, ConfirmStep(f)
    PROVE  BookStep
<1>1. /\ CallsTyped /\ order \in [Checkouts -> OrderRecord]
    BY RowsTyped DEF ShopTyped
<1>2. UNCHANGED item /\ (ConfirmOrder(f) \/ UNCHANGED order)
    BY DEF ConfirmStep, BeginConfirm, LockOrder, ConfirmOrder, RefuseConfirm, SendMail
<1>3. CASE ConfirmOrder(f)
    <2> DEFINE o == confirm[f].order
               h == confirm[f].hash
               row == [order[o] EXCEPT !.status = "CONFIRMED", !.hash = h]
    <2>1. /\ o \in Checkouts /\ h \in Hashes /\ h # NoHash
          /\ order[o].status = "PENDING" /\ TakenBy(h) \ {o} = {}
        BY <1>1, <1>3, ShopAssumption DEF ConfirmOrder, CallsTyped, ConfirmsName, HashUsed
    <2>2. \A p \in Checkouts : order[p].hash # h
        BY <2>1 DEF TakenBy, ShopInv, HashesPaid
    <2>3. order' = [order EXCEPT ![o] = row]
        BY <1>1, <1>3, <2>1 DEF ConfirmOrder
    <2>4. row.status = "CONFIRMED" /\ row.cart = order[o].cart /\ row.hash = h
        BY <1>1, <2>1, EntryWrite
    <2> HIDE DEF row
    <2>5. order'[o] = row /\ \A p \in Checkouts \ {o} : order'[p] = order[p]
        BY <1>1, <2>1, <2>3
    <2> HIDE DEF o, h
    <2>6. BookSettles(o, h)
        BY <1>2, <2>1, <2>2, <2>4, <2>5 DEF BookSettles, ShelfKept, SameEntry
    <2> QED
        BY <2>1, <2>6 DEF BookStep
<1>4. CASE UNCHANGED order
    BY <1>2, <1>4 DEF BookStep, BookKept, ShelfKept, SameEntry
<1> QED
    BY <1>2, <1>3, <1>4

LEMMA SweepBook ==
    ASSUME ShopTyped, NEW s \in Sweeps, SweepStep(s) \/ FailSweep(s)
    PROVE  BookStep
<1>1. /\ CallsTyped /\ sweep[s] \in SweepRun
      /\ item \in [Items -> ItemRow] /\ order \in [Checkouts -> OrderRecord]
    BY RowsTyped DEF ShopTyped, CallsTyped
<1>2. MarkStaleOrders(s) \/ UNCHANGED <<item, order>>
    BY DEF SweepStep, FailSweep, SelectStale, RestoreStock
<1>3. CASE MarkStaleOrders(s)
    <2> DEFINE gone == {o \in sweep[s].orders : order[o].status = "PENDING"}
    <2>1. gone \in SUBSET Checkouts /\ \A o \in gone : order[o].status = "PENDING"
        BY <1>1 DEF SweepRun
    <2>2. /\ order' = [o \in Checkouts |->
                        IF o \in gone THEN [order[o] EXCEPT !.status = "EXPIRED"] ELSE order[o]]
          /\ item' = [i \in Items |-> [item[i] EXCEPT !.stock = @ + UnitsIn(gone, i)]]
        BY <1>3 DEF MarkStaleOrders
    <2> HIDE DEF gone
    <2>3. ASSUME NEW o \in gone
          PROVE  /\ order'[o].status = "EXPIRED" /\ order'[o].cart = order[o].cart
                 /\ order'[o].hash = order[o].hash
        <3>1. order'[o] = [order[o] EXCEPT !.status = "EXPIRED"] /\ order[o] \in OrderRecord
            BY <1>1, <2>1, <2>2
        <3> QED
            BY <3>1, EntryWrite
    <2>4. ASSUME NEW o \in Checkouts \ gone PROVE order'[o] = order[o]
        BY <2>2
    <2>5. ASSUME NEW i \in Items PROVE item'[i].stock = item[i].stock + UnitsIn(gone, i)
        BY <1>1, <2>2, StockWrite
    <2>6. BookGivesUp(gone, "EXPIRED")
        BY <2>1, <2>3, <2>4, <2>5 DEF BookGivesUp, SameEntry
    <2> QED
        BY <2>1, <2>6 DEF BookStep, GivenUp
<1>4. CASE UNCHANGED <<item, order>>
    BY <1>4 DEF BookStep, BookKept, ShelfKept, SameEntry
<1> QED
    BY <1>2, <1>3, <1>4

LEMMA EnvironmentBook ==
    ASSUME ShopTyped, Environment
    PROVE  BookStep
<1>1. item \in [Items -> ItemRow] /\ order \in [Checkouts -> OrderRecord]
    BY RowsTyped DEF ShopTyped
<1>2. ASSUME NEW o \in Checkouts, Fulfil(o) PROVE BookStep
    <2> DEFINE row == [order[o] EXCEPT !.status = "FULFILLED"]
    <2>1. order' = [order EXCEPT ![o] = row] /\ UNCHANGED item /\ order[o].status = "CONFIRMED"
        BY <1>1, <1>2 DEF Fulfil
    <2>2. row.status = "FULFILLED" /\ row.cart = order[o].cart /\ row.hash = order[o].hash
        BY <1>1, EntryWrite
    <2> HIDE DEF row
    <2>3. order'[o] = row /\ \A p \in Checkouts \ {o} : order'[p] = order[p]
        BY <1>1, <2>1
    <2>4. BookFulfils(o)
        BY <2>1, <2>2, <2>3 DEF BookFulfils, ShelfKept, SameEntry
    <2> QED
        BY <2>4 DEF BookStep
<1>3. ASSUME NEW o \in Checkouts, ReverseByOrganizer(o) PROVE BookStep
    <2> DEFINE row == [order[o] EXCEPT !.status = "FAILED"]
    <2>1. /\ order' = [order EXCEPT ![o] = row] /\ order[o].status = "PENDING"
          /\ item' = [i \in Items |-> [item[i] EXCEPT !.stock = @ + UnitsIn({o}, i)]]
        BY <1>1, <1>3 DEF ReverseByOrganizer
    <2>2. row.status = "FAILED" /\ row.cart = order[o].cart /\ row.hash = order[o].hash
        BY <1>1, EntryWrite
    <2> HIDE DEF row
    <2>3. order'[o] = row /\ \A p \in Checkouts \ {o} : order'[p] = order[p]
        BY <1>1, <2>1
    <2>4. ASSUME NEW i \in Items PROVE item'[i].stock = item[i].stock + UnitsIn({o}, i)
        BY <1>1, <2>1, StockWrite
    <2>5. BookGivesUp({o}, "FAILED")
        BY <2>1, <2>2, <2>3, <2>4 DEF BookGivesUp, SameEntry
    <2>6. {o} \in SUBSET Checkouts /\ "FAILED" \in GivenUp
        BY DEF GivenUp
    <2> QED
        BY <2>5, <2>6 DEF BookStep
<1>4. ASSUME NEW o \in Checkouts, Age(o) PROVE BookStep
    <2> DEFINE row == [order[o] EXCEPT !.stale = TRUE]
    <2>1. order' = [order EXCEPT ![o] = row] /\ UNCHANGED item
        BY <1>1, <1>4 DEF Age
    <2>2. row.status = order[o].status /\ row.cart = order[o].cart /\ row.hash = order[o].hash
        BY <1>1, EntryWrite
    <2> HIDE DEF row
    <2>3. order'[o] = row /\ \A p \in Checkouts \ {o} : order'[p] = order[p]
        BY <1>1, <2>1
    <2> QED
        BY <2>1, <2>2, <2>3 DEF BookStep, BookKept, ShelfKept, SameEntry
<1>5. ASSUME NEW i \in Items, EditItem(i) PROVE BookStep
    <2>1. /\ UNCHANGED order
          /\ \/ item' = [item EXCEPT ![i] = [item[i] EXCEPT !.visible = FALSE]]
             \/ item' = [item EXCEPT ![i] = [item[i] EXCEPT !.price = item[i].price + 1]]
        BY <1>1, <1>5 DEF EditItem
    <2>2. \A v : [item[i] EXCEPT !.price = v].stock = item[i].stock
        BY <1>1 DEF ItemRow
    <2>3. \A v \in BOOLEAN : [item[i] EXCEPT !.visible = v].stock = item[i].stock
        BY <1>1 DEF ItemRow
    <2>4. \A j \in Items : item'[j].stock = item[j].stock
        BY <1>1, <2>1, <2>2, <2>3
    <2> QED
        BY <2>1, <2>4 DEF BookStep, BookKept, ShelfKept, SameEntry
<1>6. CASE UNCHANGED <<item, order>>
    BY <1>6 DEF BookStep, BookKept, ShelfKept, SameEntry
<1> QED
    BY <1>2, <1>3, <1>4, <1>5, <1>6 DEF Environment, Pay, EditEvent, ConfigureWallet

LEMMA BookSteps == ShopTyped /\ ShopInv /\ [Next]_vars => BookStep
<1> SUFFICES ASSUME ShopTyped, ShopInv, [Next]_vars PROVE BookStep
    OBVIOUS
<1>1. CASE UNCHANGED vars
    BY <1>1 DEF vars, BookStep, BookKept, ShelfKept, SameEntry
<1>2. CASE Finished
    BY <1>1, <1>2 DEF Finished
<1> QED
    BY <1>1, <1>2, CheckoutBook, ConfirmBook, SweepBook, EnvironmentBook DEF Next

-----------------------------------------------------------------------------
LiveOrders == {o \in Checkouts : order[o].status \in Live}

\* Units of i in the carts that S has in a table of orders, this one or the next.
CartUnits(rows, S, i) == SumFunctionOnSet([o \in Checkouts |-> rows[o].cart[i]], S)

LEMMA UnitsAreCartUnits ==
    ASSUME NEW S, NEW i PROVE UnitsIn(S, i) = CartUnits(order, S, i)
BY DEF UnitsIn, CartUnits

LEMMA CartsSame ==
    ASSUME NEW S \in SUBSET Checkouts, NEW i, NEW rows, NEW next,
           \A o \in S : next[o].cart = rows[o].cart
    PROVE  CartUnits(next, S, i) = CartUnits(rows, S, i)
<1> DEFINE f == [o \in Checkouts |-> next[o].cart[i]]
           g == [o \in Checkouts |-> rows[o].cart[i]]
<1>1. IsFiniteSet(S)
    BY FS_Subset, ShopAssumption
<1>2. \A o \in S : f[o] = g[o]
    OBVIOUS
<1> HIDE DEF f, g
<1>3. SumFunctionOnSet(f, S) = SumFunctionOnSet(g, S)
    BY ONLY <1>1, <1>2, SumSame
<1> QED
    BY <1>3 DEF CartUnits, f, g

LEMMA CartsAdd ==
    ASSUME NEW rows \in [Checkouts -> OrderRecord], NEW S \in SUBSET Checkouts,
           NEW T \in SUBSET Checkouts, S \cap T = {}, NEW i \in Items
    PROVE  CartUnits(rows, S \cup T, i) = CartUnits(rows, S, i) + CartUnits(rows, T, i)
<1> DEFINE f == [o \in Checkouts |-> rows[o].cart[i]]
<1>1. IsFiniteSet(S) /\ IsFiniteSet(T)
    BY FS_Subset, ShopAssumption
<1>2. \A o \in S \cup T : f[o] \in Int
    BY DEF OrderRecord
<1> HIDE DEF f
<1>3. SumFunctionOnSet(f, S \cup T) = SumFunctionOnSet(f, S) + SumFunctionOnSet(f, T)
    BY ONLY <1>1, <1>2, S \cap T = {}, SumOfUnion
<1> QED
    BY <1>3 DEF CartUnits, f

LEMMA CartsAddOne ==
    ASSUME NEW rows \in [Checkouts -> OrderRecord], NEW S \in SUBSET Checkouts,
           NEW c \in Checkouts, c \notin S, NEW i \in Items
    PROVE  CartUnits(rows, S \cup {c}, i) = rows[c].cart[i] + CartUnits(rows, S, i)
<1> DEFINE f == [o \in Checkouts |-> rows[o].cart[i]]
<1>1. IsFiniteSet(S)
    BY FS_Subset, ShopAssumption
<1>2. (\A o \in S \cup {c} : f[o] \in Int) /\ f[c] = rows[c].cart[i]
    BY DEF OrderRecord
<1> HIDE DEF f
<1>3. SumFunctionOnSet(f, S \cup {c}) = f[c] + SumFunctionOnSet(f, S)
    BY ONLY <1>1, <1>2, c \notin S, SumAdds
<1> QED
    BY <1>2, <1>3 DEF CartUnits, f

LEMMA StockInitially == Init => StockConserved
<1> SUFFICES ASSUME Init, NEW i \in Items
             PROVE  item[i].stock + UnitsIn({o \in Checkouts : order[o].status \in Live}, i) = InitialStock[i]
    BY DEF StockConserved
<1>1. {o \in Checkouts : order[o].status \in Live} = {}
    BY DEF Init, NoOrderRow, Live
<1>2. UnitsIn({}, i) = 0
    BY SumOfNone DEF UnitsIn
<1>3. item[i].stock = InitialStock[i] /\ InitialStock[i] \in Nat
    BY ShopAssumption DEF Init
<1> QED
    BY <1>1, <1>2, <1>3

LEMMA StockKept ==
    ASSUME ShopTyped, ShopTyped', StockConserved, BookStep
    PROVE  StockConserved'
<1> SUFFICES ASSUME NEW i \in Items
             PROVE  item'[i].stock + UnitsIn(LiveOrders, i)' = InitialStock[i]
    BY DEF StockConserved, LiveOrders
<1> DEFINE L == {o \in Checkouts : order[o].status \in Live}
           M == {o \in Checkouts : order'[o].status \in Live}
           Was(S) == CartUnits(order, S, i)
           Is(S) == CartUnits(order', S, i)
<1>1. UnitsIn(LiveOrders, i)' = Is(M)
    BY DEF UnitsIn, CartUnits, LiveOrders
<1>2. item[i].stock + Was(L) = InitialStock[i]
    BY DEF StockConserved, UnitsIn, CartUnits
<1>3. /\ order \in [Checkouts -> OrderRecord] /\ order' \in [Checkouts -> OrderRecord]
      /\ item[i].stock \in Nat /\ item'[i].stock \in Nat /\ InitialStock[i] \in Nat
    BY ShopAssumption DEF ShopTyped, TypeOK, OrderRecord
<1>4. L \in SUBSET Checkouts /\ M \in SUBSET Checkouts
    OBVIOUS
<1>5. \A S \in SUBSET Checkouts : Was(S) \in Nat
    <2>1. ASSUME NEW S \in SUBSET Checkouts PROVE Was(S) \in Nat
        BY UnitsAreCounts, UnitsAreCartUnits DEF ShopTyped
    <2> QED
        BY <2>1
<1>6. \A o \in Checkouts : (o \in L <=> order[o].status \in Live) /\ (o \in M <=> order'[o].status \in Live)
    OBVIOUS
<1> HIDE DEF L, M
<1>7. CASE /\ item'[i].stock = item[i].stock /\ M = L
           /\ \A o \in Checkouts : order'[o].cart = order[o].cart
    <2>1. Is(M) = Was(M)
        BY <1>4, <1>7, CartsSame
    <2> QED
        BY <1>1, <1>2, <1>7, <2>1
<1>8. CASE BookKept
    BY <1>4, <1>6, <1>7, <1>8 DEF BookKept, ShelfKept, SameEntry
<1>9. ASSUME NEW c \in Checkouts, BookPlaces(c)
      PROVE  item'[i].stock + UnitsIn(LiveOrders, i)' = InitialStock[i]
    <2>1. /\ c \notin L /\ M = L \cup {c} /\ \A o \in L : order'[o].cart = order[o].cart
          /\ item'[i].stock = item[i].stock - order'[c].cart[i]
        BY <1>4, <1>6, <1>9 DEF BookPlaces, SameEntry, Live
    <2>2. Is(L) = Was(L)
        BY <1>4, <2>1, CartsSame
    <2>3. Is(L \cup {c}) = order'[c].cart[i] + Is(L)
        BY <1>3, <1>4, <2>1, CartsAddOne
    <2>4. order'[c].cart[i] \in Nat
        BY <1>3 DEF OrderRecord
    <2> QED
        BY <1>1, <1>2, <1>3, <1>4, <1>5, <2>1, <2>2, <2>3, <2>4
<1>10. ASSUME NEW S \in SUBSET Checkouts, NEW status \in GivenUp, BookGivesUp(S, status)
       PROVE  item'[i].stock + UnitsIn(LiveOrders, i)' = InitialStock[i]
    <2>1. /\ S \cap M = {} /\ L = S \cup M /\ \A o \in Checkouts : order'[o].cart = order[o].cart
          /\ item'[i].stock = item[i].stock + UnitsIn(S, i)
        BY <1>4, <1>6, <1>10 DEF BookGivesUp, SameEntry, Live, GivenUp
    <2>2. Is(M) = Was(M)
        BY <1>4, <2>1, CartsSame
    <2>3. Was(S \cup M) = Was(S) + Was(M) /\ UnitsIn(S, i) = Was(S)
        BY <1>3, <1>4, <2>1, CartsAdd, UnitsAreCartUnits
    <2> QED
        BY <1>1, <1>2, <1>3, <1>4, <1>5, <2>1, <2>2, <2>3
<1>11. CASE \/ \E o \in Checkouts, h \in Hashes : BookSettles(o, h)
            \/ \E o \in Checkouts : BookFulfils(o)
    <2>1. \A o \in Checkouts : order'[o].cart = order[o].cart /\ (order'[o].status \in Live <=> order[o].status \in Live)
        BY <1>11 DEF BookSettles, BookFulfils, SameEntry, Live
    <2>2. M = L
        BY <1>4, <1>6, <2>1
    <2>3. item'[i].stock = item[i].stock
        BY <1>11 DEF BookSettles, BookFulfils, ShelfKept
    <2> QED
        BY <1>7, <2>1, <2>2, <2>3
<1> QED
    BY <1>8, <1>9, <1>10, <1>11 DEF BookStep

\* Stock is never lost or invented: what an item started with is on its shelf or in a live order,
\* through concurrent carts, expired, reversed and replayed orders (Checkout, MarkStaleOrders).
THEOREM StockIsConserved == Spec => []StockConserved
<1> DEFINE Inv == ShopTyped /\ Shapes /\ ShopInv /\ StockConserved
<1>1. Init => Inv
    BY ShopTypedInit, InitEstablishes, StockInitially
<1>2. ASSUME Inv, [Next]_vars, (Shapes /\ ShopInv)' PROVE Inv'
    <2>1. ShopTyped'
        BY <1>2, ShopTypedStep
    <2>2. BookStep
        BY <1>2, BookSteps
    <2> QED
        BY <1>2, <2>1, <2>2, StockKept
<1>3. Inv /\ [Next]_vars /\ (Shapes /\ ShopInv)' => Inv'
    BY <1>2
<1>4. Inv => StockConserved
    OBVIOUS
<1> QED
    BY <1>1, <1>3, <1>4, InvariantHolds, PTL DEF Spec

\* The transactions keep the promise on stock and payment: an order takes its cart or nothing, a
\* payment settles one open order, and carts of given up orders come back once (ShopLedger).
THEOREM LedgerImplemented == Spec => ImplementsLedger
<1>1. Init => Ledger!LedgerInit
    <2> SUFFICES ASSUME Init PROVE Ledger!LedgerInit
        OBVIOUS
    <2>1. OnShelf = InitialStock
        <3>1. \A i \in Items : item[i].stock = InitialStock[i]
            BY DEF Init
        <3> QED
            BY <3>1, ShopAssumption DEF OnShelf
    <2>2. \A o \in Checkouts : order[o].status = "NONE" /\ order[o].cart = EmptyCart /\ order[o].hash = NoHash
        BY DEF Init, NoOrderRow
    <2>3. Book = [o \in Checkouts |-> [status |-> "NONE", cart |-> EmptyCart, hash |-> NoHash]]
        BY <2>2 DEF Book
    <2> QED
        BY <2>1, <2>3 DEF Ledger!LedgerInit, OnShelf, Book, EmptyCart
<1>2. ASSUME ShopTyped, ShopTyped', ShopInv, [Next]_vars PROVE [Ledger!LedgerNext]_(Ledger!ledgerVars)
    <2>1. BookStep
        BY <1>2, BookSteps
    <2>2. CASE BookKept
        <3>1. OnShelf' = OnShelf
            BY <2>2 DEF BookKept, ShelfKept, OnShelf
        <3>2. Book' = Book
            BY <2>2 DEF BookKept, SameEntry, Book
        <3> QED
            BY <3>1, <3>2 DEF Ledger!ledgerVars, OnShelf, Book
    <2>3. ASSUME NEW c \in Checkouts, BookPlaces(c) PROVE Ledger!LedgerNext
        <3>0. PICK cart \in [Items -> 0..MaxLineQuantity] : cart = order'[c].cart
            BY <2>3 DEF BookPlaces
        <3>1. Ledger!Reserve(c, cart)
            <4>1. Book[c].status = "NONE" /\ \A i \in Items : cart[i] <= OnShelf[i]
                BY <2>3, <3>0 DEF BookPlaces, Book, OnShelf
            <4>2. OnShelf' = [i \in Items |-> OnShelf[i] - cart[i]]
                BY <2>3, <3>0 DEF BookPlaces, OnShelf
            <4>3. Book' = [Book EXCEPT ![c] = [status |-> "PENDING", cart |-> cart, hash |-> NoHash]]
                BY <2>3, <3>0 DEF BookPlaces, SameEntry, Book
            <4> QED
                BY <4>1, <4>2, <4>3 DEF Ledger!Reserve, OnShelf, Book
        <3> QED
            BY <3>1 DEF Ledger!LedgerNext, Ledger!Carts
    <2>4. ASSUME NEW o \in Checkouts, NEW h \in Hashes, BookSettles(o, h) PROVE Ledger!LedgerNext
        <3>1. Book[o].status = "PENDING" /\ \A p \in Checkouts : Book[p].hash # h
            BY <2>4 DEF BookSettles, Book
        <3>2. OnShelf' = OnShelf
            BY <2>4 DEF BookSettles, ShelfKept, OnShelf
        <3>3. Book' = [Book EXCEPT ![o].status = "CONFIRMED", ![o].hash = h]
            BY <2>4 DEF BookSettles, SameEntry, Book
        <3>4. Ledger!Settle(o, h)
            BY <3>1, <3>2, <3>3 DEF Ledger!Settle, OnShelf, Book
        <3> QED
            BY <3>4 DEF Ledger!LedgerNext
    <2>5. ASSUME NEW S \in SUBSET Checkouts, NEW status \in GivenUp, BookGivesUp(S, status)
          PROVE  Ledger!LedgerNext
        <3>1. \A o \in S : Book[o].status = "PENDING"
            BY <2>5 DEF BookGivesUp, Book
        <3>2. \A i \in Items : Ledger!Units(S, i) = UnitsIn(S, i)
            <4>1. ASSUME NEW i \in Items PROVE Ledger!Units(S, i) = UnitsIn(S, i)
                <5>1. [o \in Checkouts |-> Book[o].cart[i]] = [o \in Checkouts |-> order[o].cart[i]]
                    BY DEF Book
                <5>2. Ledger!Units(S, i) = SumFunctionOnSet([o \in Checkouts |-> Book[o].cart[i]], S)
                    BY Zenon DEF Ledger!Units, Ledger!SumFunctionOnSet, SumFunctionOnSet,
                       Ledger!FoldFunctionOnSet, FoldFunctionOnSet, Ledger!MapThenFoldSet, MapThenFoldSet, Book
                <5> QED
                    BY <5>1, <5>2, Zenon DEF UnitsIn
            <4> QED
                BY <4>1
        <3>3. OnShelf' = [i \in Items |-> OnShelf[i] + UnitsIn(S, i)]
            BY <2>5 DEF BookGivesUp, OnShelf
        <3>4. OnShelf' = [i \in Items |-> OnShelf[i] + Ledger!Units(S, i)]
            BY <3>2, <3>3
        <3>5. Book' = [o \in Checkouts |-> IF o \in S THEN [Book[o] EXCEPT !.status = status] ELSE Book[o]]
            BY <2>5 DEF BookGivesUp, SameEntry, Book
        <3>6. Ledger!GiveUp(S, status)
            BY <3>1, <3>4, <3>5 DEF Ledger!GiveUp, OnShelf, Book
        <3> QED
            BY <3>6 DEF Ledger!LedgerNext, GivenUp
    <2>6. ASSUME NEW o \in Checkouts, BookFulfils(o) PROVE Ledger!LedgerNext
        <3>1. Book[o].status = "CONFIRMED"
            BY <2>6 DEF BookFulfils, Book
        <3>2. OnShelf' = OnShelf
            BY <2>6 DEF BookFulfils, ShelfKept, OnShelf
        <3>3. Book' = [Book EXCEPT ![o].status = "FULFILLED"]
            BY <2>6 DEF BookFulfils, SameEntry, Book
        <3>4. Ledger!Fulfil(o)
            BY <3>1, <3>2, <3>3 DEF Ledger!Fulfil, OnShelf, Book
        <3> QED
            BY <3>4 DEF Ledger!LedgerNext
    <2> QED
        BY <2>1, <2>2, <2>3, <2>4, <2>5, <2>6 DEF BookStep
<1>3. ShopTyped /\ ShopTyped' /\ ShopInv /\ [Next]_vars => [Ledger!LedgerNext]_(Ledger!ledgerVars)
    BY <1>2
<1>4. ShopTyped /\ [Next]_vars => ShopTyped'
    BY ShopTypedStep
<1> QED
    BY <1>1, <1>3, <1>4, ShopTypedInit, InvariantHolds, PTL DEF Spec, ImplementsLedger, Ledger!LedgerSpec

-----------------------------------------------------------------------------
(***************************************************************************)
(* Caps.  A checkout that passed its checks holds the row of every item it *)
(* asks for, no row has two holders, and so nobody else can sell units of  *)
(* these items to its user before it commits.                              *)
(***************************************************************************)
Fits(c) ==
    \A i \in Items : Cart(checkout[c].request)[i] > 0 =>
        /\ i \in checkout[c].held
        /\ MaxPerUser[i] > 0 =>
            purchasedQuantity(checkout[c].user, checkout[c].event, i) + Cart(checkout[c].request)[i]
              <= MaxPerUser[i]

CartsFit == \A c \in Checkouts : checkout[c].pc = "checked" => Fits(c)
HeldOnce == \A c, d \in Checkouts : c # d => checkout[c].held \cap checkout[d].held = {}
CapInv == CartsFit /\ HeldOnce /\ CapRespected

\* The live orders of u at e in a table of orders, this one or the next.
LiveOf(rows, u, e) ==
    {o \in Checkouts : rows[o].user = u /\ rows[o].event = e /\ rows[o].status \in Live}

LEMMA PurchasedIs ==
    ASSUME NEW u, NEW e, NEW i PROVE purchasedQuantity(u, e, i) = CartUnits(order, LiveOf(order, u, e), i)
<1>1. {o \in OrdersOf(u, e) : order[o].status \in Live} = LiveOf(order, u, e)
    BY DEF OrdersOf, LiveOf
<1> QED
    BY <1>1, Zenon DEF purchasedQuantity, UnitsIn, CartUnits

LEMMA PurchasedBecomes ==
    ASSUME NEW u, NEW e, NEW i
    PROVE  CartUnits(order', LiveOf(order', u, e), i) = SumFunctionOnSet([o \in Checkouts |-> order'[o].cart[i]],
              {o \in {p \in Checkouts : order'[p].user = u /\ order'[p].event = e} : order'[o].status \in Live})
<1>1. {o \in {p \in Checkouts : order'[p].user = u /\ order'[p].event = e} : order'[o].status \in Live}
      = LiveOf(order', u, e)
    BY DEF LiveOf
<1> QED
    BY <1>1, Zenon DEF CartUnits

\* Orders that are live after the step were live before, with the same user, event and cart.
StillLive(o) ==
    order'[o].status \in Live =>
        /\ order[o].status \in Live /\ order'[o].user = order[o].user
        /\ order'[o].event = order[o].event /\ order'[o].cart = order[o].cart
NoneComes == \A o \in Checkouts : StillLive(o)

LEMMA RowKeepsOwner ==
    ASSUME NEW r \in OrderRecord, NEW status, NEW hash
    PROVE  /\ LET n == [r EXCEPT !.status = status]
              IN  n.status = status /\ n.cart = r.cart /\ n.user = r.user /\ n.event = r.event
           /\ LET n == [r EXCEPT !.status = status, !.hash = hash]
              IN  n.status = status /\ n.cart = r.cart /\ n.user = r.user /\ n.event = r.event
           /\ \A old \in BOOLEAN :
                LET n == [r EXCEPT !.stale = old]
                IN  n.status = r.status /\ n.cart = r.cart /\ n.user = r.user /\ n.event = r.event
<1>1. LET n == [r EXCEPT !.status = status]
      IN  n.status = status /\ n.cart = r.cart /\ n.user = r.user /\ n.event = r.event
    BY DEF OrderRecord
<1>2. \A old \in BOOLEAN :
        LET n == [r EXCEPT !.stale = old]
        IN  n.status = r.status /\ n.cart = r.cart /\ n.user = r.user /\ n.event = r.event
    BY DEF OrderRecord
<1>3. [r EXCEPT !.status = status, !.hash = hash] = [[r EXCEPT !.status = status] EXCEPT !.hash = hash]
    BY Zenon
<1>4. LET n == [[r EXCEPT !.status = status] EXCEPT !.hash = hash]
      IN  n.status = status /\ n.cart = r.cart /\ n.user = r.user /\ n.event = r.event
    BY DEF OrderRecord
<1> QED
    BY <1>1, <1>2, <1>3, <1>4

\* Only a placed order adds to what a user has bought.
LEMMA OnlyPlacingAdds ==
    ASSUME ShopTyped, [Next]_vars
    PROVE  NoneComes \/ \E c \in Checkouts : PlaceOrder(c)
<1>1. /\ CallsTyped /\ order \in [Checkouts -> OrderRecord]
    BY RowsTyped DEF ShopTyped
<1>2. CASE UNCHANGED order
    BY <1>2 DEF NoneComes, StillLive
<1>3. ASSUME NEW f \in Confirms, ConfirmOrder(f) PROVE NoneComes
    <2> DEFINE o == confirm[f].order
               row == [order[o] EXCEPT !.status = "CONFIRMED", !.hash = confirm[f].hash]
    <2>1. o \in Checkouts /\ order[o].status \in Live
        BY <1>1, <1>3 DEF ConfirmOrder, CallsTyped, ConfirmsName, Live
    <2>2. order' = [order EXCEPT ![o] = row]
        BY <1>1, <1>3, <2>1 DEF ConfirmOrder
    <2>3. row.cart = order[o].cart /\ row.user = order[o].user /\ row.event = order[o].event
        BY <1>1, <2>1, RowKeepsOwner
    <2> HIDE DEF row
    <2>4. order'[o] = row /\ \A p \in Checkouts \ {o} : order'[p] = order[p]
        BY <1>1, <2>1, <2>2
    <2> QED
        BY <2>1, <2>3, <2>4 DEF NoneComes, StillLive
<1>4. ASSUME NEW s \in Sweeps, MarkStaleOrders(s) PROVE NoneComes
    <2> DEFINE gone == {o \in sweep[s].orders : order[o].status = "PENDING"}
    <2>1. order' = [o \in Checkouts |-> IF o \in gone THEN [order[o] EXCEPT !.status = "EXPIRED"] ELSE order[o]]
        BY <1>4 DEF MarkStaleOrders
    <2> HIDE DEF gone
    <2>2. ASSUME NEW o \in Checkouts PROVE StillLive(o)
        <3>1. CASE o \in gone
            <4>1. order'[o] = [order[o] EXCEPT !.status = "EXPIRED"] /\ order[o] \in OrderRecord
                BY <1>1, <2>1, <3>1
            <4>2. order'[o].status = "EXPIRED"
                BY <4>1, RowKeepsOwner
            <4> QED
                BY <4>2 DEF StillLive, Live
        <3>2. CASE o \notin gone
            BY <2>1, <3>2 DEF StillLive
        <3> QED
            BY <3>1, <3>2
    <2> QED
        BY <2>2 DEF NoneComes
<1>5. ASSUME NEW o \in Checkouts, Fulfil(o) \/ ReverseByOrganizer(o) \/ Age(o) PROVE NoneComes
    <2>1. PICK row : /\ order' = [order EXCEPT ![o] = row]
                     /\ row.cart = order[o].cart /\ row.user = order[o].user /\ row.event = order[o].event
                     /\ row.status \in Live => order[o].status \in Live
        <3>1. CASE Fulfil(o)
            <4> DEFINE row == [order[o] EXCEPT !.status = "FULFILLED"]
            <4>1. order' = [order EXCEPT ![o] = row] /\ order[o].status \in Live
                BY <1>1, <3>1 DEF Fulfil, Live
            <4>2. row.cart = order[o].cart /\ row.user = order[o].user /\ row.event = order[o].event
                BY <1>1, RowKeepsOwner
            <4> HIDE DEF row
            <4> QED
                BY <4>1, <4>2
        <3>2. CASE ReverseByOrganizer(o)
            <4> DEFINE row == [order[o] EXCEPT !.status = "FAILED"]
            <4>1. order' = [order EXCEPT ![o] = row] /\ order[o].status \in Live
                BY <1>1, <3>2 DEF ReverseByOrganizer, Live
            <4>2. row.cart = order[o].cart /\ row.user = order[o].user /\ row.event = order[o].event
                BY <1>1, RowKeepsOwner
            <4> HIDE DEF row
            <4> QED
                BY <4>1, <4>2
        <3>3. CASE Age(o)
            <4> DEFINE row == [order[o] EXCEPT !.stale = TRUE]
            <4>1. order' = [order EXCEPT ![o] = row] /\ order[o].status \in Live
                BY <1>1, <3>3 DEF Age, Live
            <4>2. row.cart = order[o].cart /\ row.user = order[o].user /\ row.event = order[o].event
                BY <1>1, RowKeepsOwner
            <4> HIDE DEF row
            <4> QED
                BY <4>1, <4>2
        <3> QED
            BY <1>5, <3>1, <3>2, <3>3
    <2>2. order'[o] = row /\ \A p \in Checkouts \ {o} : order'[p] = order[p]
        BY <1>1, <2>1
    <2> QED
        BY <2>1, <2>2 DEF NoneComes, StillLive
<1>6. \/ UNCHANGED order \/ \E c \in Checkouts : PlaceOrder(c)
      \/ \E f \in Confirms : ConfirmOrder(f)
      \/ \E s \in Sweeps : MarkStaleOrders(s)
      \/ \E o \in Checkouts : Fulfil(o) \/ ReverseByOrganizer(o) \/ Age(o)
    <2>1. ASSUME NEW c \in Checkouts, CheckoutStep(c) \/ FailCheckout(c) PROVE PlaceOrder(c) \/ UNCHANGED order
        BY <2>1 DEF CheckoutStep, FailCheckout, BeginCheckout, LookUpKey, BeginTransaction, LockItem, CheckCart,
                    FindConcurrentReplay
    <2>2. ASSUME NEW f \in Confirms, ConfirmStep(f) PROVE ConfirmOrder(f) \/ UNCHANGED order
        BY <2>2 DEF ConfirmStep, BeginConfirm, LockOrder, RefuseConfirm, SendMail
    <2>3. ASSUME NEW s \in Sweeps, SweepStep(s) \/ FailSweep(s) PROVE MarkStaleOrders(s) \/ UNCHANGED order
        BY <2>3 DEF SweepStep, FailSweep, SelectStale, RestoreStock
    <2>4. Environment => \/ UNCHANGED order
                         \/ \E o \in Checkouts : Fulfil(o) \/ ReverseByOrganizer(o) \/ Age(o)
        BY DEF Environment, Pay, EditItem, EditEvent, ConfigureWallet
    <2>5. (UNCHANGED vars \/ Finished) => UNCHANGED order
        BY DEF vars, Finished
    <2> QED
        BY <2>1, <2>2, <2>3, <2>4, <2>5 DEF Next
<1> QED
    BY <1>2, <1>3, <1>4, <1>5, <1>6

LEMMA BoughtNoMore ==
    ASSUME ShopTyped, ShopTyped', NoneComes, NEW u, NEW e, NEW i \in Items
    PROVE  /\ CartUnits(order', LiveOf(order', u, e), i) <= CartUnits(order, LiveOf(order, u, e), i)
           /\ CartUnits(order', LiveOf(order', u, e), i) \in Int
           /\ CartUnits(order, LiveOf(order, u, e), i) \in Int
<1> DEFINE A == LiveOf(order', u, e)
           B == LiveOf(order, u, e)
           f == [o \in Checkouts |-> order[o].cart[i]]
           g == [o \in Checkouts |-> order'[o].cart[i]]
<1>1. A \subseteq B /\ B \subseteq Checkouts
    BY DEF LiveOf, NoneComes, StillLive
<1>2. \A o \in A : order'[o].cart = order[o].cart
    BY DEF LiveOf, NoneComes, StillLive
<1>3. /\ \A o \in Checkouts : f[o] \in Nat /\ g[o] \in Nat
      /\ \A o \in A : f[o] = g[o]
    BY <1>1, <1>2 DEF ShopTyped, TypeOK
<1>4. IsFiniteSet(A) /\ IsFiniteSet(B)
    BY <1>1, FS_Subset, ShopAssumption
<1> HIDE DEF f, g, A, B
<1>5. SumFunctionOnSet(f, A) = SumFunctionOnSet(g, A)
    BY ONLY <1>3, <1>4, SumSame
<1>6. SumFunctionOnSet(f, A) <= SumFunctionOnSet(f, B)
    <2>1. A \in SUBSET B /\ \A o \in B : f[o] \in Nat
        BY <1>1, <1>3
    <2> QED
        BY ONLY <1>4, <2>1, SumOfPart
<1>7. SumFunctionOnSet(f, A) \in Int /\ SumFunctionOnSet(f, B) \in Int
    <2>1. (\A o \in B : f[o] \in Int) /\ (\A o \in A : f[o] \in Int)
        BY <1>1, <1>3
    <2> QED
        BY ONLY <1>4, <2>1, SumType
<1> QED
    BY <1>5, <1>6, <1>7 DEF CartUnits, A, B, f, g

-----------------------------------------------------------------------------
\* What a step does to a checkout call: it passes its checks, takes one more row nobody holds, or
\* neither, and then it holds no more than before and has not passed its checks just now.
Passes(c) ==
    /\ Fits(c) /\ checkout'[c].held = checkout[c].held /\ checkout'[c].user = checkout[c].user
    /\ checkout'[c].event = checkout[c].event /\ checkout'[c].request = checkout[c].request
TakesRow(c) ==
    \E i \in Items :
        /\ \A d \in Checkouts : i \notin checkout[d].held
        /\ checkout'[c].pc # "checked" /\ checkout'[c].held = checkout[c].held \cup {i}
NoCloser(c) == checkout'[c].pc # "checked" /\ checkout'[c].held \subseteq checkout[c].held

LEMMA AnswerNoCloser ==
    ASSUME ShopTyped, NEW c \in Checkouts, NEW answer, NEW placed, AnswerCheckout(c, answer, placed)
    PROVE  NoCloser(c) /\ \A d \in Checkouts \ {c} : checkout'[d] = checkout[d]
<1> DEFINE r == checkout[c]
           new == [pc |-> "done", user |-> r.user, request |-> r.request, event |-> r.event,
                   held |-> {}, answer |-> answer, placed |-> placed]
<1>1. checkout \in [Checkouts -> CheckoutCall]
    BY DEF ShopTyped, CallsTyped
<1>2. checkout' = [checkout EXCEPT ![c] = new] /\ new.pc = "done" /\ new.held = {}
    BY DEF AnswerCheckout
<1> HIDE DEF new
<1>3. checkout'[c] = new /\ \A d \in Checkouts \ {c} : checkout'[d] = checkout[d]
    BY <1>1, <1>2
<1> QED
    BY <1>2, <1>3 DEF NoCloser

\* A write of the phase, or of the rows held, leaves the rest of a call alone.
LEMMA CallFields ==
    ASSUME ShopTyped, NEW c \in Checkouts, NEW pc, NEW held
    PROVE  /\ LET n == [checkout EXCEPT ![c].pc = pc] IN
              /\ n[c].pc = pc /\ n[c].held = checkout[c].held /\ n[c].user = checkout[c].user
              /\ n[c].event = checkout[c].event /\ n[c].request = checkout[c].request
              /\ \A d \in Checkouts \ {c} : n[d] = checkout[d]
           /\ LET n == [checkout EXCEPT ![c].held = held] IN
              /\ n[c].pc = checkout[c].pc /\ n[c].held = held
              /\ \A d \in Checkouts \ {c} : n[d] = checkout[d]
<1>1. checkout \in [Checkouts -> CheckoutCall]
    BY DEF ShopTyped, CallsTyped
<1> QED
    BY <1>1 DEF CheckoutCall

\* A cart without a refused line fits: every line found its row locked and its cap respected.
LEMMA ChecksFit ==
    ASSUME ShopTyped, NEW c \in Checkouts, checkout[c].pc = "locking",
           \A n \in DOMAIN checkout[c].request.lines : LineRefusal(c, checkout[c].request.lines[n]) = "none"
    PROVE  Fits(c)
<1> DEFINE r == checkout[c].request
           lines == r.lines
<1> SUFFICES ASSUME NEW i \in Items, Cart(r)[i] > 0
             PROVE  /\ i \in checkout[c].held
                    /\ MaxPerUser[i] > 0 =>
                        purchasedQuantity(checkout[c].user, checkout[c].event, i) + Cart(r)[i] <= MaxPerUser[i]
    BY DEF Fits
<1>1. \E n \in DOMAIN lines : lines[n].id = i
    BY DEF Cart
<1> DEFINE m == CHOOSE n \in DOMAIN lines : lines[n].id = i
<1>2. m \in DOMAIN lines /\ lines[m].id = i
    BY <1>1
<1>3. Cart(r)[i] = lines[m].quantity
    BY <1>1 DEF Cart
<1>4. LineRefusal(c, lines[m]) = "none"
    BY <1>2
<1> HIDE DEF m, lines, r
<1>5. i \in checkout[c].held
    BY <1>2, <1>4 DEF LineRefusal
<1>6. ASSUME MaxPerUser[i] > 0,
             purchasedQuantity(checkout[c].user, checkout[c].event, i) + lines[m].quantity > MaxPerUser[i]
      PROVE  FALSE
    BY <1>2, <1>4, <1>5, <1>6 DEF LineRefusal
<1>7. /\ purchasedQuantity(checkout[c].user, checkout[c].event, i) \in Int
      /\ lines[m].quantity \in Int /\ MaxPerUser[i] \in Int
    <2>1. LiveOf(order, checkout[c].user, checkout[c].event) \in SUBSET Checkouts
        BY DEF LiveOf
    <2>2. purchasedQuantity(checkout[c].user, checkout[c].event, i) \in Nat
        BY <2>1, PurchasedIs, UnitsAreCounts, UnitsAreCartUnits DEF ShopTyped
    <2>3. Cart(r)[i] \in Nat
        <3>1. r \in RequestBodies /\ Validate(r)
            BY DEF ShopTyped, CallsTyped, CartsValid, CheckoutCall, r
        <3> QED
            BY <3>1, CartIsCounts
    <2> QED
        BY <1>3, <2>2, <2>3, ShopAssumption
<1> QED
    BY <1>3, <1>5, <1>6, <1>7

LEMMA CheckoutCalls ==
    ASSUME ShopTyped, NEW c \in Checkouts, CheckoutStep(c) \/ FailCheckout(c)
    PROVE  /\ \A d \in Checkouts \ {c} : checkout'[d] = checkout[d]
           /\ Passes(c) \/ TakesRow(c) \/ NoCloser(c)
<1>1. checkout \in [Checkouts -> CheckoutCall]
    BY DEF ShopTyped, CallsTyped
<1> DEFINE Goal == /\ \A d \in Checkouts \ {c} : checkout'[d] = checkout[d]
                   /\ Passes(c) \/ TakesRow(c) \/ NoCloser(c)
<1>2. ASSUME BeginCheckout(c) PROVE Goal
    <2>1. PICK new : /\ checkout' = [checkout EXCEPT ![c] = new] /\ new.held = {}
                     /\ new.pc \in {"done", "begin", "lookup"}
        <3>1. PICK u \in Users, r \in Requests :
            LET start(pc, answer, e) ==
                    [pc |-> pc, user |-> u, request |-> r, event |-> e, held |-> {}, answer |-> answer,
                     placed |-> NoOrder]
            IN  checkout' = [checkout EXCEPT ![c] =
                    CASE ~Validate(r) -> start("done", "invalid", 0)
                      [] Validate(r) /\ ~IsOpen -> start("done", "closed", 0)
                      [] OTHER -> start(IF r.key = NoKey THEN "begin" ELSE "lookup", "none", CurrentShopEvent)]
            BY <1>2 DEF BeginCheckout
        <3> DEFINE row(pc, answer, e) == [pc |-> pc, user |-> u, request |-> r, event |-> e, held |-> {},
                                          answer |-> answer, placed |-> NoOrder]
        <3>2. PICK pc \in {"done", "begin", "lookup"}, answer \in {"invalid", "closed", "none"},
                   e \in {0, CurrentShopEvent} : checkout' = [checkout EXCEPT ![c] = row(pc, answer, e)]
            <4>1. CASE ~Validate(r)
                BY <3>1, <4>1
            <4>2. CASE Validate(r) /\ ~IsOpen
                BY <3>1, <4>2
            <4>3. CASE Validate(r) /\ IsOpen
                BY <3>1, <4>3
            <4> QED
                BY <4>1, <4>2, <4>3
        <3> DEFINE new == row(pc, answer, e)
        <3>3. new.held = {} /\ new.pc \in {"done", "begin", "lookup"}
            OBVIOUS
        <3>4. checkout' = [checkout EXCEPT ![c] = new]
            BY <3>2
        <3> HIDE DEF new
        <3> QED
            BY <3>3, <3>4
    <2>2. checkout'[c] = new /\ \A d \in Checkouts \ {c} : checkout'[d] = checkout[d]
        BY <1>1, <2>1
    <2> QED
        BY <2>1, <2>2 DEF NoCloser
<1>3. ASSUME NEW pc \in {"begin", "locking"}, checkout' = [checkout EXCEPT ![c].pc = pc] PROVE Goal
    BY <1>3, CallFields DEF NoCloser
<1>4. ASSUME NEW answer, NEW placed, AnswerCheckout(c, answer, placed) PROVE Goal
    BY <1>4, AnswerNoCloser
<1>5. ASSUME LookUpKey(c) \/ BeginTransaction(c) PROVE Goal
    BY <1>3, <1>4, <1>5 DEF LookUpKey, BeginTransaction
<1>6. ASSUME PlaceOrder(c) \/ FindConcurrentReplay(c) \/ FailCheckout(c) PROVE Goal
    BY <1>4, <1>6 DEF PlaceOrder, FindConcurrentReplay, FailCheckout
<1>7. ASSUME LockItem(c) PROVE Goal
    <2> DEFINE i == NextItem(c)
               held == checkout[c].held \cup {i}
    <2>1. i \in Items
        <3>1. Wanted(c) \subseteq Items /\ Wanted(c) # {}
            BY <1>7 DEF LockItem, Wanted, ListItems
        <3>2. IsFiniteSet(Wanted(c)) /\ Wanted(c) \subseteq Nat
            BY <3>1, FS_Subset, ShopAssumption
        <3>3. \E e \in Wanted(c) : \A d \in Wanted(c) : e <= d
            BY <3>1, <3>2, SmallestNumber
        <3> QED
            BY <3>1, <3>3 DEF NextItem
    <2>2. checkout' = [checkout EXCEPT ![c].held = held] /\ checkout[c].pc = "locking"
          /\ \A d \in Checkouts : i \notin checkout[d].held
        BY <1>7 DEF LockItem, ItemHolder
    <2> HIDE DEF held, i
    <2>3. /\ checkout'[c].pc = "locking" /\ checkout'[c].held = held
          /\ \A d \in Checkouts \ {c} : checkout'[d] = checkout[d]
        BY <2>2, CallFields
    <2> QED
        BY <2>1, <2>2, <2>3 DEF TakesRow, held
<1>8. ASSUME CheckCart(c) PROVE Goal
    <2> DEFINE lines == checkout[c].request.lines
               bad == {n \in DOMAIN lines : LineRefusal(c, lines[n]) # "none"}
    <2>1. CASE bad = {} /\ checkout' = [checkout EXCEPT ![c].pc = "checked"]
        <3>1. Fits(c)
            BY <1>8, <2>1, ChecksFit DEF CheckCart
        <3> QED
            BY <2>1, <3>1, CallFields DEF Passes
    <2>2. CASE bad # {}
        BY <1>4, <1>8, <2>2 DEF CheckCart
    <2> QED
        BY <1>8, <2>1, <2>2 DEF CheckCart
<1> QED
    BY <1>2, <1>5, <1>6, <1>7, <1>8 DEF CheckoutStep

LEMMA CapInitially == Init => CapInv
<1> SUFFICES ASSUME Init PROVE CapInv
    OBVIOUS
<1>1. \A c \in Checkouts : checkout[c].pc = "idle" /\ checkout[c].held = {} /\ order[c].status = "NONE"
    BY DEF Init, IdleCheckout, NoOrderRow
<1>2. CartsFit /\ HeldOnce
    BY <1>1 DEF CartsFit, HeldOnce
<1>3. ASSUME NEW u \in Users, NEW e \in Events, NEW i \in Items, MaxPerUser[i] > 0
      PROVE  purchasedQuantity(u, e, i) <= MaxPerUser[i]
    <2>1. LiveOf(order, u, e) = {}
        BY <1>1 DEF LiveOf, Live
    <2>2. purchasedQuantity(u, e, i) = 0
        BY <2>1, PurchasedIs, SumOfNone DEF CartUnits
    <2> QED
        BY <1>3, <2>2, ShopAssumption
<1> QED
    BY <1>2, <1>3 DEF CapInv, CapRespected

\* Every call passes, takes a row or comes no closer, or stays as it is; at most one moves.
CallMoves ==
    \/ UNCHANGED checkout
    \/ \E c \in Checkouts : /\ \A d \in Checkouts \ {c} : checkout'[d] = checkout[d]
                            /\ Passes(c) \/ TakesRow(c) \/ NoCloser(c)
LEMMA CallsMove == ShopTyped /\ [Next]_vars => CallMoves
<1> SUFFICES ASSUME ShopTyped, [Next]_vars PROVE CallMoves
    OBVIOUS
<1>1. ASSUME NEW f \in Confirms, ConfirmStep(f) PROVE UNCHANGED checkout
    BY <1>1 DEF ConfirmStep, BeginConfirm, LockOrder, ConfirmOrder, RefuseConfirm, SendMail
<1>2. ASSUME NEW s \in Sweeps, SweepStep(s) \/ FailSweep(s) PROVE UNCHANGED checkout
    BY <1>2 DEF SweepStep, FailSweep, SelectStale, RestoreStock, MarkStaleOrders
<1>3. Environment => UNCHANGED checkout
    BY DEF Environment, Pay, Fulfil, ReverseByOrganizer, Age, EditItem, EditEvent, ConfigureWallet
<1>4. (UNCHANGED vars \/ Finished) => UNCHANGED checkout
    BY DEF vars, Finished
<1>5. ASSUME NEW c \in Checkouts, CheckoutStep(c) \/ FailCheckout(c) PROVE CallMoves
    BY <1>5, CheckoutCalls DEF CallMoves
<1> QED
    BY <1>1, <1>2, <1>3, <1>4, <1>5 DEF Next, CallMoves

LEMMA HeldOnceKept == ASSUME HeldOnce, CallMoves PROVE HeldOnce'
<1>1. CASE UNCHANGED checkout
    BY <1>1 DEF HeldOnce
<1>2. ASSUME NEW c \in Checkouts, \A d \in Checkouts \ {c} : checkout'[d] = checkout[d],
             Passes(c) \/ TakesRow(c) \/ NoCloser(c)
      PROVE  HeldOnce'
    <2>1. \A d \in Checkouts \ {c} : checkout'[c].held \cap checkout[d].held = {}
        BY <1>2 DEF Passes, TakesRow, NoCloser, HeldOnce
    <2> QED
        BY <1>2, <2>1 DEF HeldOnce
<1> QED
    BY <1>1, <1>2 DEF CallMoves

\* What a user has bought of an item at an event, before and after the step.
Bought(u, e, i) == CartUnits(order, LiveOf(order, u, e), i)
BoughtThen(u, e, i) == CartUnits(order', LiveOf(order', u, e), i)

LEMMA BoughtAreCounts ==
    ASSUME ShopTyped, ShopTyped', NEW u, NEW e, NEW i \in Items
    PROVE  Bought(u, e, i) \in Int /\ BoughtThen(u, e, i) \in Int
<1> DEFINE f == [o \in Checkouts |-> order[o].cart[i]]
           g == [o \in Checkouts |-> order'[o].cart[i]]
           A == LiveOf(order', u, e)
           B == LiveOf(order, u, e)
<1>1. IsFiniteSet(A) /\ IsFiniteSet(B)
    BY FS_Subset, ShopAssumption DEF LiveOf
<1>2. (\A o \in A : g[o] \in Int) /\ (\A o \in B : f[o] \in Int)
    BY DEF LiveOf, ShopTyped, TypeOK
<1> HIDE DEF f, g, A, B
<1>3. SumFunctionOnSet(f, B) \in Int /\ SumFunctionOnSet(g, A) \in Int
    BY ONLY <1>1, <1>2, SumType
<1> QED
    BY <1>3 DEF Bought, BoughtThen, CartUnits, A, B, f, g

\* A call that passed its checks, now or before, fits, and its cart is the one it passed with.
LEMMA CheckedFits ==
    ASSUME CartsFit, CallMoves, NEW c \in Checkouts, checkout'[c].pc = "checked"
    PROVE  /\ Fits(c) /\ checkout'[c].held = checkout[c].held /\ checkout'[c].user = checkout[c].user
           /\ checkout'[c].event = checkout[c].event /\ checkout'[c].request = checkout[c].request
<1>1. CASE checkout'[c] = checkout[c]
    BY <1>1 DEF CartsFit
<1>2. CASE Passes(c)
    BY <1>2 DEF Passes
<1> QED
    BY <1>1, <1>2 DEF CallMoves, TakesRow, NoCloser

\* Fits and CapRespected after the step, in terms of what was bought then.
LEMMA FitsThen ==
    ASSUME NEW c \in Checkouts,
           \A i \in Items : Cart(checkout'[c].request)[i] > 0 =>
              /\ i \in checkout'[c].held
              /\ MaxPerUser[i] > 0 =>
                  BoughtThen(checkout'[c].user, checkout'[c].event, i) + Cart(checkout'[c].request)[i]
                    <= MaxPerUser[i]
    PROVE  Fits(c)'
<1>1. ASSUME NEW i \in Items
      PROVE  purchasedQuantity(checkout[c].user, checkout[c].event, i)'
               = BoughtThen(checkout'[c].user, checkout'[c].event, i)
    BY PurchasedBecomes DEF purchasedQuantity, UnitsIn, OrdersOf, BoughtThen
<1>2. Cart(checkout[c].request)' = Cart(checkout'[c].request)
    BY DEF Cart
<1> QED
    BY <1>1, <1>2 DEF Fits

LEMMA CapThen ==
    ASSUME \A u \in Users, e \in Events, i \in Items :
              MaxPerUser[i] > 0 => BoughtThen(u, e, i) <= MaxPerUser[i]
    PROVE  CapRespected'
<1>1. ASSUME NEW u \in Users, NEW e \in Events, NEW i \in Items
      PROVE  purchasedQuantity(u, e, i)' = BoughtThen(u, e, i)
    BY PurchasedBecomes DEF purchasedQuantity, UnitsIn, OrdersOf, BoughtThen
<1> QED
    BY <1>1 DEF CapRespected

\* The cart of a call under way asks for a number of every item.
LEMMA CartCounts ==
    ASSUME ShopTyped, NEW c \in Checkouts, checkout[c].pc \notin {"idle", "done"}, NEW i \in Items
    PROVE  Cart(checkout[c].request)[i] \in Nat
<1>1. checkout[c].request \in RequestBodies /\ Validate(checkout[c].request)
    BY DEF ShopTyped, CallsTyped, CartsValid, CheckoutCall
<1> QED
    BY <1>1, CartIsCounts

\* Carts that passed still fit, when purchases only grow of items that another call holds.
LEMMA FitsKept ==
    ASSUME ShopTyped, ShopTyped', CapInv, CallMoves,
           \A u, e : \A i \in Items :
              \/ BoughtThen(u, e, i) <= Bought(u, e, i)
              \/ \E c \in Checkouts : checkout'[c].pc # "checked" /\ i \in checkout[c].held
    PROVE  CartsFit'
<1> SUFFICES ASSUME NEW c \in Checkouts, checkout'[c].pc = "checked" PROVE Fits(c)'
    BY DEF CartsFit
<1>1. /\ Fits(c) /\ checkout'[c].held = checkout[c].held /\ checkout'[c].user = checkout[c].user
      /\ checkout'[c].event = checkout[c].event /\ checkout'[c].request = checkout[c].request
    BY CheckedFits DEF CapInv
<1> DEFINE u == checkout[c].user
           e == checkout[c].event
           r == checkout[c].request
<1>2. ASSUME NEW i \in Items, Cart(r)[i] > 0
      PROVE  /\ i \in checkout[c].held
             /\ MaxPerUser[i] > 0 => BoughtThen(u, e, i) + Cart(r)[i] <= MaxPerUser[i]
    <2>1. /\ i \in checkout[c].held
          /\ MaxPerUser[i] > 0 => purchasedQuantity(u, e, i) + Cart(r)[i] <= MaxPerUser[i]
        BY <1>1, <1>2 DEF Fits
    <2>2. purchasedQuantity(u, e, i) = Bought(u, e, i)
        BY PurchasedIs DEF Bought
    <2>3. BoughtThen(u, e, i) <= Bought(u, e, i)
        BY <2>1 DEF CapInv, HeldOnce
    <2>4. Bought(u, e, i) \in Int /\ BoughtThen(u, e, i) \in Int /\ MaxPerUser[i] \in Int
        BY BoughtAreCounts, ShopAssumption
    <2>5. Cart(r)[i] \in Int
        <3>1. Cart(checkout'[c].request)[i] \in Nat
            <4>1. checkout'[c].request \in RequestBodies /\ Validate(checkout'[c].request)
                BY DEF ShopTyped, CallsTyped, CartsValid, CheckoutCall
            <4> QED
                BY <4>1, CartIsCounts
        <3> QED
            BY <1>1, <3>1
    <2> HIDE DEF u, e, r
    <2> QED
        BY <2>1, <2>2, <2>3, <2>4, <2>5
<1> QED
    BY <1>1, <1>2, FitsThen

LEMMA CapsKeptQuietly ==
    ASSUME ShopTyped, ShopTyped', CapInv, NoneComes, CallMoves
    PROVE  CapInv'
<1>1. ASSUME NEW u, NEW e, NEW i \in Items PROVE BoughtThen(u, e, i) <= Bought(u, e, i)
    BY BoughtNoMore DEF Bought, BoughtThen
<1>2. CartsFit'
    BY <1>1, FitsKept
<1>3. ASSUME NEW u \in Users, NEW e \in Events, NEW i \in Items, MaxPerUser[i] > 0
      PROVE  BoughtThen(u, e, i) <= MaxPerUser[i]
    <2>1. Bought(u, e, i) <= MaxPerUser[i]
        BY <1>3, PurchasedIs DEF Bought, CapInv, CapRespected
    <2>2. Bought(u, e, i) \in Int /\ BoughtThen(u, e, i) \in Int /\ MaxPerUser[i] \in Int
        BY BoughtAreCounts, ShopAssumption
    <2> QED
        BY <1>1, <2>1, <2>2
<1>4. CapRespected'
    BY <1>3, CapThen
<1> QED
    BY <1>2, <1>4, HeldOnceKept DEF CapInv

\* A placed order adds its cart to what its user has bought at its event.
LEMMA PlacingAdds ==
    ASSUME ShopTyped, ShopTyped', ShopInv, NEW c \in Checkouts, PlaceOrder(c), NEW u, NEW e, NEW i \in Items
    PROVE  BoughtThen(u, e, i) = Bought(u, e, i)
              + (IF u = checkout[c].user /\ e = checkout[c].event THEN Cart(checkout[c].request)[i] ELSE 0)
<1> DEFINE r == checkout[c].request
           row == [status |-> "PENDING", user |-> checkout[c].user, key |-> r.key, event |-> checkout[c].event,
                   cart |-> Cart(r), total |-> CartTotal(r), hash |-> NoHash, stale |-> FALSE]
           A == LiveOf(order', u, e)
           B == LiveOf(order, u, e)
<1>1. order' = [order EXCEPT ![c] = row] /\ order[c].status = "NONE"
    BY DEF PlaceOrder, ShopInv, NotYetPlaced
<1>2. /\ row.status = "PENDING" /\ row.user = checkout[c].user /\ row.event = checkout[c].event
      /\ row.cart = Cart(r)
    OBVIOUS
<1>3. order \in [Checkouts -> OrderRecord] /\ order' \in [Checkouts -> OrderRecord]
    BY DEF ShopTyped, TypeOK, OrderRecord
<1> HIDE DEF row
<1>4. order'[c] = row /\ \A o \in Checkouts \ {c} : order'[o] = order[o]
    BY <1>1, <1>3
<1>5. c \notin B /\ B \in SUBSET Checkouts
    BY <1>1 DEF LiveOf, Live
<1>6. CartUnits(order', B, i) = CartUnits(order, B, i)
    <2>1. \A o \in B : order'[o].cart = order[o].cart
        BY <1>4, <1>5
    <2> HIDE DEF B
    <2> QED
        BY <1>5, <2>1, CartsSame
<1>7. Bought(u, e, i) \in Int /\ Bought(u, e, i) = CartUnits(order, B, i)
      /\ BoughtThen(u, e, i) = CartUnits(order', A, i)
    BY BoughtAreCounts DEF Bought, BoughtThen
<1>8. Cart(r)[i] \in Nat
    BY CartCounts DEF PlaceOrder
<1>9. CASE u = checkout[c].user /\ e = checkout[c].event
    <2>1. A = B \cup {c}
        BY <1>2, <1>4, <1>9 DEF LiveOf, Live
    <2> HIDE DEF A, B
    <2>2. CartUnits(order', B \cup {c}, i) = order'[c].cart[i] + CartUnits(order', B, i)
        BY <1>3, <1>5, CartsAddOne
    <2>3. order'[c].cart[i] = Cart(r)[i]
        BY <1>2, <1>4
    <2> HIDE DEF r
    <2> QED
        BY <1>6, <1>7, <1>8, <1>9, <2>1, <2>2, <2>3 DEF r
<1>10. CASE ~ (u = checkout[c].user /\ e = checkout[c].event)
    <2>1. A = B
        BY <1>1, <1>2, <1>4, <1>10 DEF LiveOf, Live
    <2> HIDE DEF A, B
    <2> QED
        BY <1>6, <1>7, <1>10, <2>1
<1> QED
    BY <1>9, <1>10

LEMMA CapsKeptPlacing ==
    ASSUME ShopTyped, ShopTyped', ShopInv, CapInv, CallMoves, NEW c \in Checkouts, PlaceOrder(c)
    PROVE  CapInv'
<1>1. checkout[c].pc = "checked" /\ Fits(c)
    BY DEF PlaceOrder, CapInv, CartsFit
<1>2. checkout'[c].pc = "done"
    <2>1. AnswerCheckout(c, "placed", c) \/ AnswerCheckout(c, "error", NoOrder)
        BY DEF PlaceOrder
    <2> QED
        BY <2>1 DEF AnswerCheckout, ShopTyped, CallsTyped
<1> DEFINE r == checkout[c].request
           u0 == checkout[c].user
           e0 == checkout[c].event
<1>3. ASSUME NEW u, NEW e, NEW i \in Items
      PROVE  /\ BoughtThen(u, e, i) = Bought(u, e, i) + (IF u = u0 /\ e = e0 THEN Cart(r)[i] ELSE 0)
             /\ Bought(u, e, i) \in Int /\ Cart(r)[i] \in Nat /\ MaxPerUser[i] \in Nat
             /\ purchasedQuantity(u, e, i) = Bought(u, e, i)
    BY <1>1, PlacingAdds, BoughtAreCounts, CartCounts, PurchasedIs, ShopAssumption DEF Bought
<1>4. ASSUME NEW i \in Items, Cart(r)[i] > 0
      PROVE  i \in checkout[c].held /\ (MaxPerUser[i] > 0 => Bought(u0, e0, i) + Cart(r)[i] <= MaxPerUser[i])
    <2>1. i \in checkout[c].held /\ (MaxPerUser[i] > 0 => purchasedQuantity(u0, e0, i) + Cart(r)[i] <= MaxPerUser[i])
        BY <1>1, <1>4 DEF Fits
    <2>2. purchasedQuantity(u0, e0, i) = Bought(u0, e0, i)
        BY <1>3
    <2> HIDE DEF r, u0, e0
    <2> QED
        BY <2>1, <2>2
<1> HIDE DEF r, u0, e0
<1>5. ASSUME NEW u, NEW e, NEW i \in Items
      PROVE  BoughtThen(u, e, i) <= Bought(u, e, i)
             \/ \E d \in Checkouts : checkout'[d].pc # "checked" /\ i \in checkout[d].held
    <2>1. CASE Cart(r)[i] > 0
        BY <1>2, <1>4, <2>1
    <2>2. CASE Cart(r)[i] = 0
        BY <1>3, <2>2
    <2> QED
        BY <1>3, <2>1, <2>2
<1>6. CartsFit'
    BY <1>5, FitsKept
<1>7. ASSUME NEW u \in Users, NEW e \in Events, NEW i \in Items, MaxPerUser[i] > 0
      PROVE  BoughtThen(u, e, i) <= MaxPerUser[i]
    <2>1. Bought(u, e, i) <= MaxPerUser[i]
        BY <1>7, PurchasedIs DEF Bought, CapInv, CapRespected
    <2>2. CASE Cart(r)[i] > 0 /\ u = u0 /\ e = e0
        BY <1>3, <1>4, <1>7, <2>2
    <2>3. CASE ~ (Cart(r)[i] > 0 /\ u = u0 /\ e = e0)
        BY <1>3, <2>1, <2>3
    <2> QED
        BY <2>2, <2>3
<1>8. CapRespected'
    BY <1>7, CapThen
<1> QED
    BY <1>6, <1>8, HeldOnceKept DEF CapInv

\* Nobody holds more units of a capped item at an event than its cap, however the user's checkouts
\* interleave: the cap is checked under the item's row lock (Checkout, purchasedQuantity).
THEOREM CapsAreRespected == Spec => []CapRespected
<1> DEFINE Inv == ShopTyped /\ ShopInv /\ CapInv
<1>1. Init => ShopTyped /\ CapInv
    BY ShopTypedInit, CapInitially
<1>2. ASSUME ShopTyped, ShopInv, CapInv, [Next]_vars PROVE (ShopTyped /\ CapInv)'
    <2>1. ShopTyped'
        BY <1>2, ShopTypedStep
    <2>2. CallMoves
        BY <1>2, CallsMove
    <2>3. NoneComes \/ \E c \in Checkouts : PlaceOrder(c)
        BY <1>2, OnlyPlacingAdds
    <2>4. CapInv'
        BY <1>2, <2>1, <2>2, <2>3, CapsKeptQuietly, CapsKeptPlacing
    <2> QED
        BY <2>1, <2>4
<1>3. ShopTyped /\ ShopInv /\ CapInv /\ [Next]_vars => (ShopTyped /\ CapInv)'
    BY <1>2
<1>4. CapInv => CapRespected
    BY DEF CapInv
<1> QED
    BY <1>1, <1>3, <1>4, InvariantHolds, PTL DEF Spec
=============================================================================
