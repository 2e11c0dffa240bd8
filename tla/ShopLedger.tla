----------------------------- MODULE ShopLedger -----------------------------
(***************************************************************************)
(* What the conference shop promises about stock and payment, without its  *)
(* transactions: an order takes its whole cart from the stock or nothing,  *)
(* a payment settles one open order, an order that is given up returns the *)
(* cart it took, once, and a settled or given up order is final but for    *)
(* what the organizer does.                                                *)
(***************************************************************************)
EXTENDS Integers, FiniteSets, Functions

CONSTANTS Items, Orders, Hashes, NoHash, InitialStock, MaxLineQuantity

VARIABLES stock, book

ledgerVars == <<stock, book>>

Carts == [Items -> 0..MaxLineQuantity]

\* Units of item i in the carts of the orders S.
Units(S, i) == SumFunctionOnSet([o \in Orders |-> book[o].cart[i]], S)

LedgerInit ==
    /\ stock = InitialStock
    /\ book = [o \in Orders |-> [status |-> "NONE", cart |-> [i \in Items |-> 0], hash |-> NoHash]]

Reserve(o, cart) ==
    /\ book[o].status = "NONE"
    /\ \A i \in Items : cart[i] <= stock[i]
    /\ stock' = [i \in Items |-> stock[i] - cart[i]]
    /\ book' = [book EXCEPT ![o] = [status |-> "PENDING", cart |-> cart, hash |-> NoHash]]

Settle(o, h) ==
    /\ book[o].status = "PENDING"
    /\ \A p \in Orders : book[p].hash # h
    /\ book' = [book EXCEPT ![o].status = "CONFIRMED", ![o].hash = h]
    /\ UNCHANGED stock

\* Open orders are given up together: all of their carts come back.
GiveUp(S, status) ==
    /\ \A o \in S : book[o].status = "PENDING"
    /\ book' = [o \in Orders |-> IF o \in S THEN [book[o] EXCEPT !.status = status] ELSE book[o]]
    /\ stock' = [i \in Items |-> stock[i] + Units(S, i)]

Fulfil(o) ==
    /\ book[o].status = "CONFIRMED"
    /\ book' = [book EXCEPT ![o].status = "FULFILLED"]
    /\ UNCHANGED stock

LedgerNext ==
    \/ \E o \in Orders, cart \in Carts : Reserve(o, cart)
    \/ \E o \in Orders, h \in Hashes : Settle(o, h)
    \/ \E S \in SUBSET Orders, status \in {"EXPIRED", "FAILED"} : GiveUp(S, status)
    \/ \E o \in Orders : Fulfil(o)

LedgerSpec == LedgerInit /\ [][LedgerNext]_ledgerVars
=============================================================================
