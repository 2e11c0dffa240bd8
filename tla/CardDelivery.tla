---------------------------- MODULE CardDelivery ----------------------------
(***************************************************************************)
(* What the announcement of campaigns promises: every card that reaches    *)
(* the chat space spends one authorisation.  Registering a campaign        *)
(* authorises one card; an admin who retries a failed announcement         *)
(* authorises one more.  Nothing else, and no crash, rerun or lost answer, *)
(* sends a card.                                                           *)
(***************************************************************************)
EXTENDS Naturals

CONSTANT Campaigns

VARIABLES permits,  \* authorisations given so far
          cards     \* cards in the chat space

cardVars == <<permits, cards>>

CardInit ==
    /\ permits = [c \in Campaigns |-> 0]
    /\ cards = [c \in Campaigns |-> 0]

Authorise(c) ==
    /\ permits' = [permits EXCEPT ![c] = @ + 1]
    /\ UNCHANGED cards

Deliver(c) ==
    /\ cards[c] < permits[c]
    /\ cards' = [cards EXCEPT ![c] = @ + 1]
    /\ UNCHANGED permits

CardNext == \E c \in Campaigns : Authorise(c) \/ Deliver(c)

CardSpec == CardInit /\ [][CardNext]_cardVars

=============================================================================
