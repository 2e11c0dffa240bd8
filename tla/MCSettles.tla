----------------------------- MODULE MCSettles -----------------------------
(***************************************************************************)
(* Small instances for TLC of what must come to an end in the conference   *)
(* backend: the calls and orders of the shop, the requests, usage events   *)
(* and shutdown of a process, and the rotation of the signing keys.  They  *)
(* share no state, so each behaviour is about one of them, chosen at the   *)
(* start; the others stay in a state where none of their fair actions is   *)
(* enabled.                                                                *)
(***************************************************************************)
EXTENDS MCShop, Serving, SigningKeys

CONSTANTS q1, q2

VARIABLE focus

allVars == <<vars, servingVars, keyVars, focus>>

\* Tokens of either key, one of another application, and one that does not decode.
Signed(kid, aud) == [kid |-> kid, aud |-> aud, readable |-> TRUE, sound |-> TRUE]
Garbled == [Signed("k1", "app") EXCEPT !.readable = FALSE, !.sound = FALSE]
SignedTokens == {Signed("k1", "app"), Signed("k2", "app"), Signed("k1", "other"), Garbled}

ShopRests == conferences = {} /\ walletConfigured
KeysRest ==
    /\ config = [production |-> FALSE, validator |-> FALSE] /\ server = "serving"
    /\ documents = <<{}>> /\ keys = {} /\ reading = 0 /\ fetch = NoFetch
    /\ caller = [q \in Callers |-> Quiet]

SettlesInit ==
    /\ focus \in {"shop", "serving", "keys"}
    /\ Init /\ (focus # "shop" => ShopRests)
    /\ ServingInit
    /\ IF focus = "keys" THEN KeysInit ELSE KeysRest

\* One request is of any route, the other of one that only leaves an event.
Routed == req'[q2].route \in {[tracked |-> TRUE, open |-> TRUE, cacheable |-> FALSE], req[q2].route}

SettlesNext ==
    /\ \/ focus = "shop" /\ Next /\ UNCHANGED <<servingVars, keyVars>>
       \/ focus = "serving" /\ ServingNext /\ Routed /\ UNCHANGED <<vars, keyVars>>
       \/ focus = "keys" /\ KeysNext /\ UNCHANGED <<vars, servingVars>>
    /\ UNCHANGED focus

SettlesSpec ==
    /\ SettlesInit /\ [][SettlesNext]_allVars
    /\ Fairness /\ ServingFairness /\ KeysFairness

\* Every variable of the three components has its type.
TypesOK == TypeOK /\ ServingTypeOK /\ KeysTypeOK
=============================================================================
