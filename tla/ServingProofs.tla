----------------------------- MODULE ServingProofs -----------------------------
(***************************************************************************)
(* The requests of the conference backend, their usage events and the keys *)
(* their tokens are verified with, proved for any number of requests,      *)
(* callers, keys and documents.                                            *)
(*                                                                         *)
(*   CallersJudged       however the provider rotates its keys, whatever   *)
(*                       fetches fail and however often the container is   *)
(*                       restarted, a request is judged by the keys in     *)
(*                       memory                                            *)
(*   ServingTyped        every variable of a serving process has its type  *)
(*   AnswersMatchEvents  an event says what was answered, none is counted  *)
(*                       twice or forgotten, and 304 confirms what the     *)
(*                       caller holds                                      *)
(*   SettlesTyped        every variable of what MCSettles composes has its *)
(*                       type, the shop's included                         *)
(***************************************************************************)
EXTENDS MCSettles, ShopProofs

USE KeysAssumption

-----------------------------------------------------------------------------
(***************************************************************************)
(* The signing keys: the inductive invariant.                              *)
(***************************************************************************)

\* The shape of every variable.
KeysShape ==
    /\ config \in [production : BOOLEAN, validator : BOOLEAN]
    /\ server \in {"starting", "serving", "down"}
    /\ documents \in Seq(SUBSET Kids) /\ Len(documents) > 0
    /\ reading \in 0..Len(documents)
    /\ fetch \in [pc : {"idle", "asking", "got"}, doc : 0..Len(documents)]
    /\ caller \in [Callers -> [pc : {"quiet", "trying", "done"}, offers : Seq(Tokens), out : Nat,
                               since : Nat, upto : Nat]]

\* The keys are those of the document being read, and a fetch never brings an older one.
KeysOfDocument ==
    /\ keys = IF reading = 0 THEN {} ELSE documents[reading]
    /\ fetch.pc = "got" => fetch.doc \in reading..Len(documents) /\ fetch.doc # 0

\* Nobody is served before the deployment can verify tokens.
ServesWithKeys ==
    /\ server = "serving" /\ config.validator => keys # {} /\ reading # 0
    /\ fetch # NoFetch => config.validator
    /\ server = "serving" => ~InsecureAuthConfig
    /\ \A q \in Callers : caller[q].pc # "quiet" => server = "serving"

\* If token t is good but for the key, a document in force since the request arrived lacks it.
TurnedAway(r, t, upto) ==
    t.readable =>
    /\ config.validator
    /\ t.sound /\ t.aud \in Audiences => \E d \in r.since..upto : d > 0 /\ t.kid \notin documents[d]

\* Token t verifies, by a document in force since the request arrived.
LetIn(r, t, upto) ==
    /\ t.sound /\ t.aud \in Audiences
    /\ \E d \in r.since..upto : d > 0 /\ t.kid \in documents[d]

\* A list of candidates being tried: none tried so far verified.
TryingShape ==
    \A q \in Callers : caller[q].pc = "trying" =>
        /\ caller[q].since <= reading
        /\ caller[q].out < Len(caller[q].offers) /\ Len(caller[q].offers) <= 2
        /\ config.validator => caller[q].since # 0
        /\ \A i \in 1..caller[q].out : TurnedAway(caller[q], caller[q].offers[i], reading)

\* What an answer rests on.
AnswerShape ==
    \A q \in Callers :
        /\ caller[q].pc = "quiet" => caller[q].out = 0
        /\ caller[q].pc = "done" =>
            /\ caller[q].out \in {200, 401} /\ caller[q].upto <= reading
            /\ caller[q].out = 200 /\ config.validator =>
                 LetIn(caller[q], caller[q].offers[1], caller[q].upto)
            /\ caller[q].out = 401 => \A i \in 1..Len(caller[q].offers) :
                 TurnedAway(caller[q], caller[q].offers[i], caller[q].upto)

KeysInv == KeysShape /\ KeysOfDocument /\ ServesWithKeys /\ TryingShape /\ AnswerShape

-----------------------------------------------------------------------------
(***************************************************************************)
(* Lemmas.                                                                 *)
(***************************************************************************)

\* A request carries at most one token in each of the two headers.
LEMMA CandidatesLemma ==
    ASSUME NEW a \in Offers, NEW b \in Offers
    PROVE  /\ candidateTokens(a, b) \in Seq(Tokens)
           /\ Len(candidateTokens(a, b)) \in 0..2
           /\ candidateTokens(a, b) = <<>> \/ Len(candidateTokens(a, b)) > 0
<1>1. ASSUME NEW o \in Offers PROVE o \in Seq(Tokens) /\ Len(o) \in 0..1
  <2>1. CASE o = <<>>
    BY <2>1
  <2>2. ASSUME NEW t \in Tokens, o = <<t>> PROVE o \in Seq(Tokens) /\ Len(o) \in 0..1
    BY <2>2
  <2> QED BY <2>1, <2>2 DEF Offers
<1>2. a \in Seq(Tokens) /\ b \in Seq(Tokens) /\ Len(a) \in 0..1 /\ Len(b) \in 0..1
  BY <1>1
<1>3. a \o b \in Seq(Tokens) /\ Len(a \o b) = Len(a) + Len(b)
  BY <1>2
<1>4. a \o b = <<>> \/ Len(a \o b) > 0
  BY <1>3
<1>5. Len(a \o b) \in 0..2
  <2>1. \A m, n \in 0..1 : m + n \in 0..2
    OBVIOUS
  <2> QED BY <1>2, <1>3, <2>1
<1> QED BY <1>3, <1>4, <1>5 DEF candidateTokens

\* Requests that see the keys advance keep what was found out about them.
LEMMA JudgedStays ==
    ASSUME KeysInv, UNCHANGED <<config, caller>>, KeysShape',
           reading' >= reading, Len(documents') >= Len(documents),
           \A d \in 1..Len(documents) : documents'[d] = documents[d]
    PROVE  TryingShape' /\ AnswerShape'
<1>0. ASSUME NEW q \in Callers, NEW upto \in 0..reading, NEW d \in caller[q].since..upto, d > 0
      PROVE  documents'[d] = documents[d]
  BY <1>0 DEF KeysInv, KeysShape
<1>1. ASSUME NEW q \in Callers, NEW t \in Tokens, NEW upto \in 0..reading,
             TurnedAway(caller[q], t, upto), NEW last \in Nat, last >= upto
      PROVE  TurnedAway(caller[q], t, last)'
  <2>1. caller[q].since \in Nat /\ upto \in Nat /\ UNCHANGED <<config, caller>>
    BY DEF KeysInv, KeysShape
  <2>2. CASE t.readable /\ t.sound /\ t.aud \in Audiences
    <3>1. PICK d \in caller[q].since..upto : d > 0 /\ t.kid \notin documents[d]
      BY <1>1, <2>2 DEF TurnedAway
    <3>2. d \in caller[q].since..last /\ t.kid \notin documents'[d]
      BY <1>0, <1>1, <2>1, <3>1
    <3> QED BY <1>1, <2>1, <3>1, <3>2 DEF TurnedAway
  <2>3. CASE ~(t.readable /\ t.sound /\ t.aud \in Audiences)
    BY <1>1, <2>1, <2>3 DEF TurnedAway
  <2> QED BY <2>2, <2>3
<1>2. reading \in Nat /\ reading' \in Nat
  BY DEF KeysInv, KeysShape
<1>3. TryingShape'
  BY <1>1, <1>2 DEF KeysInv, KeysShape, TryingShape
<1>4. AnswerShape'
  <2> SUFFICES ASSUME NEW q \in Callers, caller[q].pc = "done"
               PROVE  (/\ caller[q].out \in {200, 401} /\ caller[q].upto <= reading
                       /\ caller[q].out = 200 /\ config.validator =>
                            LetIn(caller[q], caller[q].offers[1], caller[q].upto)
                       /\ caller[q].out = 401 => \A i \in 1..Len(caller[q].offers) :
                            TurnedAway(caller[q], caller[q].offers[i], caller[q].upto))'
    BY DEF KeysInv, AnswerShape
  <2>1. caller[q].upto \in 0..reading
    BY <1>2 DEF KeysInv, KeysShape, AnswerShape
  <2>2. caller[q].out \in {200, 401} /\ UNCHANGED <<config, caller>>
    BY DEF KeysInv, AnswerShape
  <2>3. ASSUME caller[q].out = 200, config.validator
        PROVE  LetIn(caller[q], caller[q].offers[1], caller[q].upto)'
    <3>1. LetIn(caller[q], caller[q].offers[1], caller[q].upto)
      BY <2>3 DEF KeysInv, AnswerShape
    <3> QED BY <1>0, <2>1, <2>2, <3>1 DEF LetIn
  <2>4. ASSUME caller[q].out = 401, NEW i \in 1..Len(caller[q].offers)
        PROVE  TurnedAway(caller[q], caller[q].offers[i], caller[q].upto)'
    <3>1. caller[q].offers[i] \in Tokens
      BY <2>4 DEF KeysInv, KeysShape
    <3>2. TurnedAway(caller[q], caller[q].offers[i], caller[q].upto)
      BY <2>4 DEF KeysInv, AnswerShape
    <3>3. caller[q].upto \in Nat /\ caller[q].upto >= caller[q].upto
      BY <2>1
    <3> QED BY <1>1, <2>1, <2>2, <3>1, <3>2, <3>3
  <2> QED BY <1>2, <2>1, <2>2, <2>3, <2>4
<1> QED BY <1>3, <1>4

-----------------------------------------------------------------------------
(***************************************************************************)
(* The invariant is inductive.                                             *)
(***************************************************************************)

LEMMA KeysInvInit == KeysInit => KeysInv
<1> SUFFICES ASSUME KeysInit PROVE KeysInv
  OBVIOUS
<1>1. KeysShape
  <2>1. PICK d \in SUBSET Kids : documents = <<d>>
    BY DEF KeysInit
  <2>2. documents \in Seq(SUBSET Kids) /\ Len(documents) = 1
    BY <2>1
  <2>3. Quiet \in [pc : {"quiet", "trying", "done"}, offers : Seq(Tokens), out : Nat, since : Nat, upto : Nat]
    BY DEF Quiet
  <2> QED BY <2>2, <2>3 DEF KeysInit, KeysShape, NoFetch
<1>2. KeysOfDocument /\ ServesWithKeys
  BY DEF KeysInit, KeysOfDocument, ServesWithKeys, NoFetch, Quiet, InsecureAuthConfig
<1>3. TryingShape /\ AnswerShape
  BY DEF KeysInit, TryingShape, AnswerShape, Quiet
<1> QED BY <1>1, <1>2, <1>3 DEF KeysInv

LEMMA KeysInvStep == KeysInv /\ [KeysNext]_keyVars => KeysInv'
<1> SUFFICES ASSUME KeysInv, [KeysNext]_keyVars PROVE KeysInv'
  OBVIOUS
<1>1. ASSUME Boot \/ Restart \/ TickerFires \/ fetchJWKS \/ FetchJWKSFails PROVE KeysInv'
  <2>0. /\ UNCHANGED <<config, documents, keys, reading, caller>>
        /\ server' \in {"starting", "serving", "down"}
    BY <1>1 DEF KeysInv, KeysShape, Boot, Restart, TickerFires, fetchJWKS, FetchJWKSFails, NoNewKeys
  <2>a. fetch' \in {fetch, NoFetch, [pc |-> "asking", doc |-> 0], [pc |-> "got", doc |-> Len(documents)]}
    BY <1>1 DEF Boot, Restart, TickerFires, fetchJWKS, FetchJWKSFails, NoFetch
  <2>1. KeysShape'
    BY <2>0, <2>a DEF KeysInv, KeysShape, NoFetch
  <2>2. KeysOfDocument'
    BY <2>0, <2>a DEF KeysInv, KeysShape, KeysOfDocument, NoFetch
  <2>3. ServesWithKeys'
    BY <1>1 DEF KeysInv, KeysShape, ServesWithKeys, Boot, Restart, TickerFires, fetchJWKS,
                FetchJWKSFails, NoNewKeys, NoFetch, InsecureAuthConfig
  <2>4. TryingShape' /\ AnswerShape'
    <3>1. UNCHANGED <<config, caller, reading, documents>>
      BY <1>1 DEF Boot, Restart, TickerFires, fetchJWKS, FetchJWKSFails, NoNewKeys
    <3> QED BY <2>1, <3>1, JudgedStays DEF KeysInv, KeysShape
  <2> QED BY <2>1, <2>2, <2>3, <2>4 DEF KeysInv
<1>2. CASE StoreKeys
  <2>1. KeysShape' /\ reading' >= reading
    BY <1>2 DEF KeysInv, KeysShape, KeysOfDocument, StoreKeys, NoNewKeys, NoFetch
  <2>2. KeysOfDocument'
    BY <1>2 DEF KeysInv, KeysShape, KeysOfDocument, StoreKeys, NoNewKeys, NoFetch
  <2>3. ServesWithKeys'
    BY <1>2 DEF KeysInv, KeysShape, KeysOfDocument, ServesWithKeys, StoreKeys, NoNewKeys, NoFetch,
                InsecureAuthConfig
  <2>4. TryingShape' /\ AnswerShape'
    <3>1. UNCHANGED <<config, caller, documents>>
      BY <1>2 DEF StoreKeys
    <3> QED BY <2>1, <3>1, JudgedStays DEF KeysInv, KeysShape
  <2> QED BY <2>1, <2>2, <2>3, <2>4 DEF KeysInv
<1>3. ASSUME NEW d \in Documents, PublishKeys(d) PROVE KeysInv'
  <2>1. /\ documents' \in Seq(SUBSET Kids) /\ Len(documents') = Len(documents) + 1
        /\ \A i \in 1..Len(documents) : documents'[i] = documents[i]
    BY <1>3 DEF KeysInv, KeysShape, PublishKeys
  <2>2. KeysShape'
    BY <1>3, <2>1 DEF KeysInv, KeysShape, PublishKeys
  <2>3. KeysOfDocument' /\ ServesWithKeys'
    BY <1>3, <2>1 DEF KeysInv, KeysShape, KeysOfDocument, ServesWithKeys, PublishKeys, InsecureAuthConfig
  <2>4. TryingShape' /\ AnswerShape'
    <3>1. UNCHANGED <<config, caller, reading>>
      BY <1>3 DEF PublishKeys
    <3>2. Len(documents) \in Nat /\ reading \in Nat
      BY DEF KeysInv, KeysShape
    <3> QED BY <2>1, <2>2, <3>1, <3>2, JudgedStays
  <2> QED BY <2>2, <2>3, <2>4 DEF KeysInv
<1>4. ASSUME NEW q \in Callers, NEW a \in Offers, NEW b \in Offers, Offer(q, a, b) PROVE KeysInv'
  <2> DEFINE offers == candidateTokens(a, b)
  <2>1. offers \in Seq(Tokens) /\ Len(offers) \in 0..2 /\ (offers = <<>> \/ Len(offers) > 0)
    BY CandidatesLemma
  <2> HIDE DEF offers
  <2>2. /\ server = "serving" /\ UNCHANGED <<config, server, documents, keys, reading, fetch>>
        /\ caller' = [caller EXCEPT ![q] =
               IF offers = <<>> THEN Answered(<<>>, 401, reading)
               ELSE [pc |-> "trying", offers |-> offers, out |-> 0, since |-> reading, upto |-> 0]]
    BY <1>4 DEF Offer, offers
  <2>3. KeysShape'
    <3> DEFINE OneCaller == [pc : {"quiet", "trying", "done"}, offers : Seq(Tokens), out : Nat,
                           since : Nat, upto : Nat]
    <3>1. reading \in Nat /\ <<>> \in Seq(Tokens) /\ caller \in [Callers -> OneCaller]
      BY DEF KeysInv, KeysShape
    <3>2. /\ Answered(<<>>, 401, reading) \in OneCaller
          /\ [pc |-> "trying", offers |-> offers, out |-> 0, since |-> reading, upto |-> 0] \in OneCaller
      BY <2>1, <3>1 DEF Answered
    <3> HIDE DEF OneCaller
    <3>3. caller' \in [Callers -> OneCaller]
      BY <2>2, <3>1, <3>2
    <3> QED BY <2>2, <3>3 DEF KeysInv, KeysShape, OneCaller
  <2>4. KeysOfDocument' /\ ServesWithKeys'
    BY <2>2 DEF KeysInv, KeysShape, KeysOfDocument, ServesWithKeys, InsecureAuthConfig
  <2>5. TryingShape' /\ AnswerShape'
    <3> DEFINE asked == [pc |-> "trying", offers |-> offers, out |-> 0, since |-> reading, upto |-> 0]
    <3> DEFINE new == IF offers = <<>> THEN Answered(<<>>, 401, reading) ELSE asked
    <3>a. caller' = [caller EXCEPT ![q] = new] /\ DOMAIN caller = Callers
      BY <2>2 DEF KeysInv, KeysShape
    <3>b. new = Answered(<<>>, 401, reading) \/ (Len(offers) > 0 /\ new = asked)
      BY <2>1
    <3> HIDE DEF new
    <3>1. /\ caller'[q] = Answered(<<>>, 401, reading) \/ (Len(offers) > 0 /\ caller'[q] = asked)
          /\ \A p \in Callers \ {q} : caller'[p] = caller[p]
      BY <3>a, <3>b
    <3>2. reading \in Nat /\ (config.validator => reading # 0)
      BY <2>2 DEF KeysInv, KeysShape, ServesWithKeys
    <3> HIDE DEF asked
    <3>3. UNCHANGED <<config, documents, reading>>
      BY <2>2
    <3>4. TryingShape'
      <4> SUFFICES ASSUME NEW p \in Callers, caller'[p].pc = "trying"
                   PROVE  /\ caller'[p].since <= reading
                          /\ caller'[p].out < Len(caller'[p].offers) /\ Len(caller'[p].offers) <= 2
                          /\ config.validator => caller'[p].since # 0
                          /\ \A i \in 1..caller'[p].out : TurnedAway(caller'[p], caller'[p].offers[i], reading)
        BY <3>3 DEF TryingShape, TurnedAway
      <4>1. CASE p = q
        <5>1. caller'[p] = asked /\ Len(offers) > 0
          BY <3>1, <4>1 DEF Answered
        <5>2. /\ caller'[p].since = reading /\ caller'[p].out = 0
              /\ caller'[p].offers = offers
          BY <5>1 DEF asked
        <5>3. 1..0 = {} /\ reading <= reading
          BY <3>2
        <5>4. caller'[p].since <= reading
          BY <5>2, <5>3
        <5>5. caller'[p].out < Len(caller'[p].offers) /\ Len(caller'[p].offers) <= 2
          <6>1. \A n \in 0..2 : n > 0 => 0 < n /\ n <= 2
            OBVIOUS
          <6>2. 0 < Len(offers) /\ Len(offers) <= 2
            BY <2>1, <5>1, <6>1
          <6> QED BY <5>2, <6>2
        <5>6. config.validator => caller'[p].since # 0
          BY <3>2, <5>2
        <5>7. \A i \in 1..caller'[p].out : TurnedAway(caller'[p], caller'[p].offers[i], reading)
          BY <5>2, <5>3
        <5> QED BY <5>4, <5>5, <5>6, <5>7
      <4>2. CASE p # q
        BY <3>1, <4>2 DEF KeysInv, TryingShape
      <4> QED BY <4>1, <4>2
    <3>5. AnswerShape'
      <4> SUFFICES ASSUME NEW p \in Callers
                   PROVE  /\ caller'[p].pc = "quiet" => caller'[p].out = 0
                          /\ caller'[p].pc = "done" =>
                              /\ caller'[p].out \in {200, 401} /\ caller'[p].upto <= reading
                              /\ caller'[p].out = 200 /\ config.validator =>
                                   LetIn(caller'[p], caller'[p].offers[1], caller'[p].upto)
                              /\ caller'[p].out = 401 => \A i \in 1..Len(caller'[p].offers) :
                                   TurnedAway(caller'[p], caller'[p].offers[i], caller'[p].upto)
        BY <3>3 DEF AnswerShape, TurnedAway, LetIn
      <4>1. CASE p = q
        BY <3>1, <3>2, <4>1 DEF Answered, asked
      <4>2. CASE p # q
        BY <3>1, <4>2 DEF KeysInv, AnswerShape
      <4> QED BY <4>1, <4>2
    <3> QED BY <3>4, <3>5
  <2> QED BY <2>3, <2>4, <2>5 DEF KeysInv
<1>5. ASSUME NEW q \in Callers, firstValidToken(q) PROVE KeysInv'
  <2> DEFINE r == caller[q]
             t == r.offers[r.out + 1]
  <2>1. /\ r.pc = "trying" /\ UNCHANGED <<config, server, documents, keys, reading, fetch>>
        /\ caller' = [caller EXCEPT ![q] =
             IF extractUserInfo(t, keys)
             THEN Answered(<<t>>, 200, r.since)
             ELSE IF r.out + 1 = Len(r.offers) THEN Answered(r.offers, 401, r.since)
             ELSE [r EXCEPT !.out = @ + 1]]
    BY <1>5 DEF firstValidToken
  <2>2. /\ r \in [pc : {"quiet", "trying", "done"}, offers : Seq(Tokens), out : Nat, since : Nat, upto : Nat]
        /\ r.since <= reading /\ r.out + 1 \in 1..Len(r.offers) /\ Len(r.offers) <= 2 /\ t \in Tokens
        /\ reading \in Nat
        /\ config.validator => r.since # 0
        /\ \A i \in 1..r.out : TurnedAway(r, r.offers[i], reading)
    BY <2>1 DEF KeysInv, KeysShape, TryingShape
  <2>3. extractUserInfo(t, keys) /\ config.validator => LetIn(r, t, reading)
    BY <2>2 DEF KeysInv, KeysShape, KeysOfDocument, extractUserInfo, audienceAllowed, LetIn
  <2>4. ~extractUserInfo(t, keys) => \A i \in 1..r.out + 1 : TurnedAway(r, r.offers[i], reading)
    BY SMTT(30), <2>2 DEF KeysInv, KeysShape, KeysOfDocument, extractUserInfo, audienceAllowed, TurnedAway
  <2>5. KeysShape'
    <3> DEFINE OneCaller == [pc : {"quiet", "trying", "done"}, offers : Seq(Tokens), out : Nat,
                           since : Nat, upto : Nat]
    <3>1. <<t>> \in Seq(Tokens) /\ caller \in [Callers -> OneCaller] /\ r \in OneCaller
      BY <2>2 DEF KeysInv, KeysShape
    <3>2. \A offers \in Seq(Tokens), out \in {200, 401} : Answered(offers, out, r.since) \in OneCaller
      BY <2>2, <3>1 DEF Answered
    <3>a. ASSUME NEW x \in OneCaller PROVE [x EXCEPT !.out = @ + 1] \in OneCaller
      OBVIOUS
    <3> HIDE DEF OneCaller
    <3>b. [r EXCEPT !.out = @ + 1] \in OneCaller
      BY <3>1, <3>a
    <3>c. Answered(<<t>>, 200, r.since) \in OneCaller
      <4>1. PICK s \in Seq(Tokens) : s = <<t>>
        BY <3>1
      <4>2. Answered(s, 200, r.since) \in OneCaller
        BY <3>2
      <4> QED BY <4>1, <4>2, Zenon
    <3>d. Answered(r.offers, 401, r.since) \in OneCaller
      <4>1. r.offers \in Seq(Tokens)
        BY <2>2
      <4> QED BY <3>2, <4>1
    <3>3. caller' \in [Callers -> OneCaller]
      <4>a. caller'[q] \in {Answered(<<t>>, 200, r.since), Answered(r.offers, 401, r.since),
                            [r EXCEPT !.out = @ + 1]}
        BY <2>1, <3>1
      <4>1. caller'[q] \in OneCaller
        BY <3>b, <3>c, <3>d, <4>a
      <4>2. DOMAIN caller' = Callers /\ \A p \in Callers \ {q} : caller'[p] = caller[p]
        BY <2>1, <3>1
      <4>3. caller' = [p \in Callers |-> caller'[p]]
        BY <2>1, <3>1
      <4> QED BY <3>1, <4>1, <4>2, <4>3
    <3> QED BY <2>1, <3>3 DEF KeysInv, KeysShape, OneCaller
  <2>6. KeysOfDocument' /\ ServesWithKeys'
    BY <2>1 DEF KeysInv, KeysShape, KeysOfDocument, ServesWithKeys, InsecureAuthConfig
  <2>7. TryingShape' /\ AnswerShape'
    <3> SUFFICES ASSUME NEW p \in Callers
                 PROVE  /\ (caller[p].pc = "trying" =>
                             /\ caller[p].since <= reading
                             /\ caller[p].out < Len(caller[p].offers) /\ Len(caller[p].offers) <= 2
                             /\ config.validator => caller[p].since # 0
                             /\ \A i \in 1..caller[p].out : TurnedAway(caller[p], caller[p].offers[i], reading))'
                        /\ (/\ caller[p].pc = "quiet" => caller[p].out = 0
                            /\ caller[p].pc = "done" =>
                                /\ caller[p].out \in {200, 401} /\ caller[p].upto <= reading
                                /\ caller[p].out = 200 /\ config.validator =>
                                     LetIn(caller[p], caller[p].offers[1], caller[p].upto)
                                /\ caller[p].out = 401 => \A i \in 1..Len(caller[p].offers) :
                                     TurnedAway(caller[p], caller[p].offers[i], caller[p].upto))'
      BY DEF TryingShape, AnswerShape
    <3>1. CASE p # q
      BY SMTT(30), <2>1, <3>1 DEF KeysInv, KeysShape, TryingShape, AnswerShape, TurnedAway, LetIn
    <3>2. CASE p = q /\ extractUserInfo(t, keys)
      <4>1. caller'[q] = Answered(<<t>>, 200, r.since)
        BY <2>1, <3>2 DEF KeysInv, KeysShape
      <4> QED BY <2>1, <2>2, <2>3, <3>2, <4>1 DEF LetIn, Answered
    <3>3. CASE p = q /\ ~extractUserInfo(t, keys) /\ r.out + 1 = Len(r.offers)
      <4>1. caller'[q] = Answered(r.offers, 401, r.since)
        BY <2>1, <3>3 DEF KeysInv, KeysShape
      <4> QED BY <2>1, <2>2, <2>4, <3>3, <4>1 DEF TurnedAway, Answered
    <3>4. CASE p = q /\ ~extractUserInfo(t, keys) /\ r.out + 1 # Len(r.offers)
      <4>1. caller'[q] = [r EXCEPT !.out = @ + 1]
        BY <2>1, <3>4 DEF KeysInv, KeysShape
      <4> QED BY <2>1, <2>2, <2>4, <3>4, <4>1 DEF TurnedAway
    <3> QED BY <3>1, <3>2, <3>3, <3>4
  <2> QED BY <2>5, <2>6, <2>7 DEF KeysInv
<1>6. CASE UNCHANGED keyVars
  BY <1>6 DEF keyVars, KeysInv, KeysShape, KeysOfDocument, ServesWithKeys, TryingShape, AnswerShape,
              TurnedAway, LetIn, InsecureAuthConfig
<1> QED BY <1>1, <1>2, <1>3, <1>4, <1>5, <1>6 DEF KeysNext

-----------------------------------------------------------------------------
(***************************************************************************)
(* The theorem.                                                            *)
(***************************************************************************)

\* In production only a token whose key is in a document in force while the request was judged lets a
\* caller in, and a good token is turned away only if such a document lacks its key (newJWKSKeyfunc,
\* firstValidToken, InsecureAuthConfig).
THEOREM CallersJudged == KeysSpec => []JudgedByCurrentKeys
<1>1. KeysInv => JudgedByCurrentKeys
  <2> SUFFICES ASSUME KeysInv PROVE JudgedByCurrentKeys
    OBVIOUS
  <2>1. SignedByACurrentKey
    <3> SUFFICES ASSUME NEW q \in Callers, caller[q].out = 200, config.production
                 PROVE  LetIn(caller[q], caller[q].offers[1], caller[q].upto)
      BY DEF SignedByACurrentKey, LetIn
    <3>1. caller[q].pc = "done"
      BY DEF KeysInv, KeysShape, TryingShape, AnswerShape
    <3>2. config.validator
      BY <3>1 DEF KeysInv, KeysShape, ServesWithKeys, InsecureAuthConfig
    <3> QED BY <3>1, <3>2 DEF KeysInv, AnswerShape
  <2>2. GoodTokenLetIn
    <3> SUFFICES ASSUME NEW q \in Callers, caller[q].out = 401, NEW i \in DOMAIN caller[q].offers
                 PROVE  TurnedAway(caller[q], caller[q].offers[i], caller[q].upto)
      BY DEF GoodTokenLetIn, TurnedAway
    <3>1. caller[q].pc # "trying" /\ i \in 1..Len(caller[q].offers)
      BY DEF KeysInv, KeysShape, TryingShape
    <3>2. caller[q].pc = "done"
      BY <3>1 DEF KeysInv, KeysShape, AnswerShape
    <3> QED BY <3>1, <3>2 DEF KeysInv, AnswerShape
  <2> QED BY <2>1, <2>2 DEF JudgedByCurrentKeys
<1> QED BY <1>1, KeysInvInit, KeysInvStep, PTL DEF KeysSpec

-----------------------------------------------------------------------------
(***************************************************************************)
(* Requests: what holds of a request at each place of the chain.           *)
(***************************************************************************)
ChainPhases == {"new", "auth", "gate", "handler", "working", "etag", "record", "done"}
Statuses == {200, 304, 401, 404, 500, 503}
Texts == Pages \cup {NoBody}
RequestRecord ==
    [pc : ChainPhases, route : Routes, match : Texts, user : BOOLEAN, buffered : BOOLEAN,
     panicked : BOOLEAN, dbConn : BOOLEAN, status : Statuses, body : Texts, sentHeader : BOOLEAN,
     bufStatus : Statuses, bufBody : Texts]

\* How far a request is decides who is known, where its answer is, and which writer stands in front.
RequestShape(r) ==
    /\ r.route.open => ~r.route.cacheable
    /\ r.pc \notin {"record", "done"} => r.status = 200 /\ ~r.panicked
    /\ r.pc = "auth" => ~r.user /\ ~r.route.open /\ ~r.buffered
    /\ r.pc = "gate" => r.user /\ ~r.route.open /\ ~r.buffered
    /\ r.pc \in {"handler", "working", "etag"} =>
         /\ r.user = (~r.route.open)
         /\ r.buffered = r.route.cacheable
    /\ r.pc = "etag" => r.buffered /\ r.bufStatus \in {200, 404}
    /\ r.pc \in {"record", "done"} =>
         /\ r.user = (~r.route.open /\ r.status # 401)
         /\ r.route.cacheable /\ ~r.panicked =>
              /\ r.status = 304 => r.bufStatus = 200 /\ r.match = r.bufBody
              /\ r.status \in {200, 404} => r.status = r.bufStatus /\ r.body = r.bufBody

RequestsInv ==
    /\ req \in [Hits -> RequestRecord]
    /\ \A q \in Hits : RequestShape(req[q])

\* q is r but for the field f.
SameBut(q, r, f) ==
    /\ q \in RequestRecord
    /\ f # "pc" => q.pc = r.pc
    /\ f # "user" => q.user = r.user
    /\ f # "buffered" => q.buffered = r.buffered
    /\ f # "panicked" => q.panicked = r.panicked
    /\ f # "dbConn" => q.dbConn = r.dbConn
    /\ f # "status" => q.status = r.status
    /\ f # "body" => q.body = r.body
    /\ f # "bufStatus" => q.bufStatus = r.bufStatus
    /\ f # "bufBody" => q.bufBody = r.bufBody
    /\ q.route = r.route /\ q.match = r.match

\* One field of a request at a time.
LEMMA RequestFields ==
    ASSUME NEW r \in RequestRecord
    PROVE  /\ \A v \in ChainPhases : SameBut([r EXCEPT !.pc = v], r, "pc") /\ [r EXCEPT !.pc = v].pc = v
           /\ \A v \in BOOLEAN :
                /\ SameBut([r EXCEPT !.user = v], r, "user") /\ [r EXCEPT !.user = v].user = v
                /\ SameBut([r EXCEPT !.buffered = v], r, "buffered") /\ [r EXCEPT !.buffered = v].buffered = v
                /\ SameBut([r EXCEPT !.panicked = v], r, "panicked") /\ [r EXCEPT !.panicked = v].panicked = v
                /\ SameBut([r EXCEPT !.dbConn = v], r, "dbConn") /\ [r EXCEPT !.dbConn = v].dbConn = v
                /\ SameBut([r EXCEPT !.sentHeader = v], r, "sentHeader")
           /\ \A v \in Statuses :
                /\ SameBut([r EXCEPT !.status = v], r, "status") /\ [r EXCEPT !.status = v].status = v
                /\ SameBut([r EXCEPT !.bufStatus = v], r, "bufStatus") /\ [r EXCEPT !.bufStatus = v].bufStatus = v
           /\ \A v \in Texts :
                /\ SameBut([r EXCEPT !.body = v], r, "body") /\ [r EXCEPT !.body = v].body = v
                /\ SameBut([r EXCEPT !.bufBody = v], r, "bufBody") /\ [r EXCEPT !.bufBody = v].bufBody = v
<1>1. \A v \in ChainPhases : SameBut([r EXCEPT !.pc = v], r, "pc") /\ [r EXCEPT !.pc = v].pc = v
  BY DEF SameBut, RequestRecord
<1>2. \A v \in BOOLEAN : SameBut([r EXCEPT !.user = v], r, "user") /\ [r EXCEPT !.user = v].user = v
  BY DEF SameBut, RequestRecord
<1>3. \A v \in BOOLEAN : SameBut([r EXCEPT !.buffered = v], r, "buffered") /\ [r EXCEPT !.buffered = v].buffered = v
  BY DEF SameBut, RequestRecord
<1>4. \A v \in BOOLEAN : SameBut([r EXCEPT !.panicked = v], r, "panicked") /\ [r EXCEPT !.panicked = v].panicked = v
  BY DEF SameBut, RequestRecord
<1>5. \A v \in BOOLEAN : SameBut([r EXCEPT !.dbConn = v], r, "dbConn") /\ [r EXCEPT !.dbConn = v].dbConn = v
  BY DEF SameBut, RequestRecord
<1>6. \A v \in BOOLEAN : SameBut([r EXCEPT !.sentHeader = v], r, "sentHeader")
  BY DEF SameBut, RequestRecord
<1>7. \A v \in Statuses : SameBut([r EXCEPT !.status = v], r, "status") /\ [r EXCEPT !.status = v].status = v
  BY DEF SameBut, RequestRecord
<1>8. \A v \in Statuses :
        SameBut([r EXCEPT !.bufStatus = v], r, "bufStatus") /\ [r EXCEPT !.bufStatus = v].bufStatus = v
  BY DEF SameBut, RequestRecord
<1>9. \A v \in Texts : SameBut([r EXCEPT !.body = v], r, "body") /\ [r EXCEPT !.body = v].body = v
  BY DEF SameBut, RequestRecord
<1>10. \A v \in Texts : SameBut([r EXCEPT !.bufBody = v], r, "bufBody") /\ [r EXCEPT !.bufBody = v].bufBody = v
  BY DEF SameBut, RequestRecord
<1> QED BY <1>1, <1>2, <1>3, <1>4, <1>5, <1>6, <1>7, <1>8, <1>9, <1>10

\* An answer goes to the buffer while it stands in front.
LEMMA WriteFields ==
    ASSUME NEW r \in RequestRecord, NEW s \in Statuses, NEW b \in Texts, NEW w, w = Write(r, s, b)
    PROVE  /\ w \in RequestRecord /\ w.route = r.route /\ w.match = r.match /\ w.pc = r.pc
           /\ w.user = r.user /\ w.panicked = r.panicked /\ w.buffered = r.buffered
           /\ w.status = (IF r.buffered THEN r.status ELSE s) /\ w.body = (IF r.buffered THEN r.body ELSE b)
           /\ w.bufStatus = (IF r.buffered THEN s ELSE r.bufStatus)
           /\ w.bufBody = (IF r.buffered THEN b ELSE r.bufBody)
<1>1. CASE r.buffered
  <2> DEFINE p == [r EXCEPT !.bufStatus = s]
             q == [p EXCEPT !.bufBody = b]
  <2>1. w = q
    BY <1>1 DEF Write
  <2>2. SameBut(p, r, "bufStatus") /\ p.bufStatus = s
    BY RequestFields
  <2>3. p \in RequestRecord
    BY <2>2 DEF SameBut
  <2> HIDE DEF p
  <2>4. SameBut(q, p, "bufBody") /\ q.bufBody = b
    BY <2>3, RequestFields
  <2> HIDE DEF q
  <2> QED BY <1>1, <2>1, <2>2, <2>4 DEF SameBut
<1>2. CASE ~r.buffered
  <2> DEFINE p == [r EXCEPT !.status = s]
             q == [p EXCEPT !.body = b]
             t == [q EXCEPT !.sentHeader = TRUE]
  <2>1. w = t
    BY <1>2 DEF Write
  <2>2. SameBut(p, r, "status") /\ p.status = s
    BY RequestFields
  <2>3. p \in RequestRecord
    BY <2>2 DEF SameBut
  <2> HIDE DEF p
  <2>4. SameBut(q, p, "body") /\ q.body = b
    BY <2>3, RequestFields
  <2>5. q \in RequestRecord
    BY <2>4 DEF SameBut
  <2> HIDE DEF q
  <2>6. SameBut(t, q, "sentHeader")
    BY <2>5, RequestFields
  <2> HIDE DEF t
  <2> QED BY <1>2, <2>1, <2>2, <2>4, <2>6 DEF SameBut
<1> QED BY <1>1, <1>2

-----------------------------------------------------------------------------
(* The steps of a request that is not being recorded.                      *)

\* Request q goes on, and is not done.
Advances(q) ==
    \E r \in RequestRecord :
        /\ RequestShape(r) /\ r.pc # "done" /\ req[q].pc # "done"
        /\ req' = [req EXCEPT ![q] = r]

LEMMA AdvancesKeeps == ASSUME RequestsInv, NEW q \in Hits, Advances(q) PROVE RequestsInv'
  BY DEF Advances, RequestsInv

LEMMA ArriveAdvances ==
    ASSUME NEW q \in Hits, NEW r \in Routes, NEW m \in Pages \cup {NoBody}, RequestsInv,
           r.open => ~r.cacheable, Arrive(q, r, m)
    PROVE  Advances(q)
<1> DEFINE place == IF r.open THEN "handler" ELSE "auth"
           p == [NewRequest EXCEPT !.pc = place]
           t == [p EXCEPT !.route = r]
           n == [t EXCEPT !.match = m]
<1>1. /\ NewRequest \in RequestRecord /\ ~NewRequest.user /\ ~NewRequest.buffered
      /\ ~NewRequest.panicked /\ NewRequest.status = 200
  BY DEF NewRequest, RequestRecord, Routes, ChainPhases, Statuses, Texts
<1>2. req' = [req EXCEPT ![q] = n] /\ req[q].pc # "done"
  BY DEF Arrive
<1>3. place \in ChainPhases
  BY DEF ChainPhases
<1>4. SameBut(p, NewRequest, "pc") /\ p.pc = place
  BY <1>1, <1>3, RequestFields
<1>5. p \in RequestRecord
  BY <1>4 DEF SameBut
<1> HIDE DEF p
<1>6. /\ t \in RequestRecord /\ t.route = r /\ t.pc = p.pc /\ t.user = p.user /\ t.buffered = p.buffered
      /\ t.panicked = p.panicked /\ t.status = p.status
  BY <1>5 DEF RequestRecord
<1> HIDE DEF t
<1>7. /\ n \in RequestRecord /\ n.route = t.route /\ n.pc = t.pc /\ n.user = t.user
      /\ n.buffered = t.buffered /\ n.panicked = t.panicked /\ n.status = t.status
  BY <1>6 DEF RequestRecord, Texts
<1> HIDE DEF n
<1>8. /\ n.route = r /\ n.pc = place /\ n.status = 200
      /\ n.user = FALSE /\ n.buffered = FALSE /\ n.panicked = FALSE
  <2>1. ~n.user /\ ~n.buffered /\ ~n.panicked
    BY <1>1, <1>4, <1>6, <1>7 DEF SameBut
  <2>2. n.user \in BOOLEAN /\ n.buffered \in BOOLEAN /\ n.panicked \in BOOLEAN
    BY <1>7 DEF RequestRecord
  <2>3. n.route = r /\ n.pc = place /\ n.status = 200
    BY <1>1, <1>4, <1>6, <1>7 DEF SameBut
  <2> QED BY <2>1, <2>2, <2>3
<1>9. RequestShape(n)
  BY <1>8 DEF RequestShape, Routes
<1> QED BY <1>2, <1>7, <1>8, <1>9 DEF Advances

LEMMA AuthAdvances == ASSUME NEW q \in Hits, RequestsInv, Auth(q) PROVE Advances(q)
<1> DEFINE r == req[q]
           w == Write(r, 401, NoBody)
           t == [w EXCEPT !.pc = "record"]
           p == [r EXCEPT !.user = TRUE]
           g == [p EXCEPT !.pc = "gate"]
<1>1. r \in RequestRecord /\ RequestShape(r) /\ r.pc = "auth"
  BY DEF RequestsInv, Auth
<1>2. req' = [req EXCEPT ![q] = t] \/ req' = [req EXCEPT ![q] = g]
  BY DEF Auth, RequestsInv
<1> HIDE DEF r
<1>3. 401 \in Statuses /\ NoBody \in Texts /\ "record" \in ChainPhases /\ "gate" \in ChainPhases
  BY DEF Statuses, Texts, ChainPhases
<1>4. /\ w \in RequestRecord /\ w.route = r.route /\ w.user = r.user /\ w.panicked = r.panicked
      /\ w.buffered = r.buffered /\ (~r.buffered => w.status = 401)
  BY <1>1, <1>3, WriteFields
<1> HIDE DEF w
<1>5. SameBut(t, w, "pc") /\ t.pc = "record"
  BY <1>3, <1>4, RequestFields
<1> HIDE DEF t
<1>6. t \in RequestRecord /\ RequestShape(t)
  <2>1. /\ t \in RequestRecord /\ t.route = r.route /\ t.user = r.user /\ t.panicked = r.panicked
        /\ ~r.buffered => t.status = 401
    BY <1>4, <1>5 DEF SameBut
  <2>2. t.user = FALSE /\ t.status = 401 /\ t.panicked = r.panicked
    <3>1. t.user \in BOOLEAN
      BY <2>1 DEF RequestRecord
    <3> QED BY <1>1, <2>1, <3>1 DEF RequestShape
  <2>3. t.user = (~t.route.open /\ t.status # 401)
    BY <2>2
  <2>4. t.route.open => ~t.route.cacheable
    BY <1>1, <2>1 DEF RequestShape
  <2>5. t.pc = "record" /\ t.status \notin {200, 304, 404}
    BY <1>5, <2>2
  <2> QED BY <2>1, <2>3, <2>4, <2>5 DEF RequestShape
<1>7. SameBut(p, r, "user") /\ p.user
  BY <1>1, RequestFields
<1>8. p \in RequestRecord
  BY <1>7 DEF SameBut
<1> HIDE DEF p
<1>9. SameBut(g, p, "pc") /\ g.pc = "gate"
  BY <1>3, <1>8, RequestFields
<1> HIDE DEF g
<1>10. g \in RequestRecord /\ RequestShape(g)
  BY <1>1, <1>7, <1>9 DEF SameBut, RequestShape
<1>11. req[q].pc # "done"
  BY DEF Auth
<1> QED BY <1>2, <1>5, <1>6, <1>9, <1>10, <1>11 DEF Advances

LEMMA GateAdvances == ASSUME NEW q \in Hits, RequestsInv, FeatureGateAnswers(q) PROVE Advances(q)
<1> DEFINE r == req[q]
           w == Write(r, 503, NoBody)
           t == [w EXCEPT !.pc = "record"]
           p == [r EXCEPT !.pc = "handler"]
           g == [p EXCEPT !.buffered = r.route.cacheable]
<1>1. r \in RequestRecord /\ RequestShape(r) /\ r.pc = "gate" /\ r.route.cacheable \in BOOLEAN
  BY DEF RequestsInv, FeatureGateAnswers, RequestRecord, Routes
<1>2. req' = [req EXCEPT ![q] = t] \/ req' = [req EXCEPT ![q] = g]
  BY DEF FeatureGateAnswers, RequestsInv
<1> HIDE DEF r
<1>3. 503 \in Statuses /\ NoBody \in Texts /\ "record" \in ChainPhases /\ "handler" \in ChainPhases
  BY DEF Statuses, Texts, ChainPhases
<1>4. /\ w \in RequestRecord /\ w.route = r.route /\ w.user = r.user /\ w.panicked = r.panicked
      /\ w.buffered = r.buffered /\ (~r.buffered => w.status = 503)
  BY <1>1, <1>3, WriteFields
<1> HIDE DEF w
<1>5. SameBut(t, w, "pc") /\ t.pc = "record"
  BY <1>3, <1>4, RequestFields
<1> HIDE DEF t
<1>6. t \in RequestRecord /\ RequestShape(t)
  <2>1. /\ t \in RequestRecord /\ t.route = r.route /\ t.user = r.user /\ t.panicked = r.panicked
        /\ ~r.buffered => t.status = 503
    BY <1>4, <1>5 DEF SameBut
  <2>2. t.user = TRUE /\ ~t.route.open /\ t.status = 503
    <3>1. t.user \in BOOLEAN
      BY <2>1 DEF RequestRecord
    <3> QED BY <1>1, <2>1, <3>1 DEF RequestShape
  <2>3. t.user = (~t.route.open /\ t.status # 401)
    <3>1. t.status # 401
      BY <2>2
    <3> QED BY <2>2, <3>1, Zenon
  <2>4. t.route.open => ~t.route.cacheable
    BY <1>1, <2>1 DEF RequestShape
  <2>5. t.pc = "record" /\ t.status \notin {200, 304, 404}
    BY <1>5, <2>2
  <2> QED BY <2>1, <2>3, <2>4, <2>5 DEF RequestShape
<1>7. SameBut(p, r, "pc") /\ p.pc = "handler"
  BY <1>1, <1>3, RequestFields
<1>8. p \in RequestRecord
  BY <1>7 DEF SameBut
<1> HIDE DEF p
<1>9. SameBut(g, p, "buffered") /\ g.buffered = r.route.cacheable
  BY <1>1, <1>8, RequestFields
<1> HIDE DEF g
<1>10. g \in RequestRecord /\ RequestShape(g)
  <2>1. /\ g \in RequestRecord /\ g.pc = "handler" /\ g.route = r.route /\ g.user = r.user
        /\ g.panicked = r.panicked /\ g.status = r.status /\ g.buffered = r.route.cacheable
    BY <1>7, <1>9 DEF SameBut
  <2> QED BY <1>1, <2>1 DEF RequestShape
<1>11. req[q].pc # "done"
  BY DEF FeatureGateAnswers
<1> QED BY <1>2, <1>5, <1>6, <1>7, <1>9, <1>10, <1>11 DEF Advances, SameBut

LEMMA HandleAdvances == ASSUME NEW q \in Hits, RequestsInv, Handle(q) PROVE Advances(q)
<1> DEFINE r == req[q]
           p == [r EXCEPT !.pc = "working"]
           g == [p EXCEPT !.dbConn = TRUE]
<1>1. r \in RequestRecord /\ RequestShape(r) /\ r.pc = "handler"
  BY DEF RequestsInv, Handle
<1>2. req' = [req EXCEPT ![q] = g]
  BY DEF Handle, RequestsInv
<1> HIDE DEF r
<1>3. SameBut(p, r, "pc") /\ p.pc = "working"
  BY <1>1, RequestFields DEF ChainPhases
<1>4. p \in RequestRecord
  BY <1>3 DEF SameBut
<1> HIDE DEF p
<1>5. SameBut(g, p, "dbConn")
  BY <1>4, RequestFields
<1> HIDE DEF g
<1>6. g \in RequestRecord /\ RequestShape(g)
  BY <1>1, <1>3, <1>5 DEF SameBut, RequestShape
<1>7. req[q].pc # "done"
  BY DEF Handle
<1> QED BY <1>2, <1>3, <1>5, <1>6, <1>7 DEF Advances, SameBut

LEMMA AnswerAdvances ==
    ASSUME NEW q \in Hits, NEW s \in {200, 404}, NEW b \in Pages, RequestsInv, Answer(q, s, b)
    PROVE  Advances(q)
<1> DEFINE r == req[q]
           w == Write(r, s, b)
           place == IF r.buffered THEN "etag" ELSE "record"
           p == [w EXCEPT !.pc = place]
           g == [p EXCEPT !.dbConn = FALSE]
<1>1. r \in RequestRecord /\ RequestShape(r) /\ r.pc = "working"
  BY DEF RequestsInv, Answer
<1>2. req' = [req EXCEPT ![q] = g]
  BY DEF Answer, RequestsInv
<1> HIDE DEF r
<1>3. s \in Statuses /\ b \in Texts /\ place \in ChainPhases
  BY DEF Statuses, Texts, ChainPhases
<1>4. /\ w \in RequestRecord /\ w.route = r.route /\ w.user = r.user /\ w.panicked = r.panicked
      /\ w.buffered = r.buffered
      /\ w.status = (IF r.buffered THEN r.status ELSE s)
      /\ w.bufStatus = (IF r.buffered THEN s ELSE r.bufStatus)
  BY <1>1, <1>3, WriteFields
<1> HIDE DEF w
<1>5. SameBut(p, w, "pc") /\ p.pc = place
  BY <1>3, <1>4, RequestFields
<1>6. p \in RequestRecord
  BY <1>5 DEF SameBut
<1> HIDE DEF p
<1>7. SameBut(g, p, "dbConn")
  BY <1>6, RequestFields
<1> HIDE DEF g
<1>8. /\ g \in RequestRecord /\ g.pc = place /\ g.route = r.route /\ g.user = r.user
      /\ g.panicked = r.panicked /\ g.buffered = r.buffered
      /\ g.status = (IF r.buffered THEN r.status ELSE s)
      /\ g.bufStatus = (IF r.buffered THEN s ELSE r.bufStatus)
  BY <1>4, <1>5, <1>7 DEF SameBut
<1>9. RequestShape(g)
  BY <1>1, <1>8 DEF RequestShape
<1>10. req[q].pc # "done"
  BY DEF Answer
<1> QED BY <1>2, <1>8, <1>9, <1>10 DEF Advances

LEMMA AbortFields ==
    ASSUME NEW r \in RequestRecord, NEW w, w = AbortWithStatus(r, 500)
    PROVE  /\ w \in RequestRecord /\ w.route = r.route /\ w.user = r.user
           /\ w.status = (IF r.buffered THEN r.status ELSE 500)
<1>1. 500 \in Statuses
  BY DEF Statuses
<1> DEFINE p == IF r.buffered THEN [r EXCEPT !.bufStatus = 500] ELSE [r EXCEPT !.status = 500]
           q == [p EXCEPT !.sentHeader = TRUE]
<1>2. w = q
  BY DEF AbortWithStatus
<1>3. /\ p \in RequestRecord /\ p.route = r.route /\ p.user = r.user
      /\ p.status = (IF r.buffered THEN r.status ELSE 500)
  <2>1. SameBut([r EXCEPT !.bufStatus = 500], r, "bufStatus")
    BY <1>1, RequestFields
  <2>2. SameBut([r EXCEPT !.status = 500], r, "status") /\ [r EXCEPT !.status = 500].status = 500
    <3>1. \A v \in Statuses : SameBut([r EXCEPT !.status = v], r, "status") /\ [r EXCEPT !.status = v].status = v
      BY RequestFields
    <3> QED BY <1>1, <3>1
  <2>3. CASE r.buffered
    BY <2>1, <2>3 DEF SameBut
  <2>4. CASE ~r.buffered
    BY <2>2, <2>4 DEF SameBut
  <2> QED BY <2>3, <2>4
<1> HIDE DEF p
<1>4. SameBut(q, p, "sentHeader")
  BY <1>3, RequestFields
<1> HIDE DEF q
<1> QED BY <1>2, <1>3, <1>4 DEF SameBut

LEMMA PanicAdvances == ASSUME NEW q \in Hits, RequestsInv, Panic(q) PROVE Advances(q)
<1> DEFINE r == req[q]
           w == AbortWithStatus(r, 500)
           p == [w EXCEPT !.pc = "record"]
           t == [p EXCEPT !.panicked = TRUE]
           g == [t EXCEPT !.dbConn = FALSE]
<1>1. r \in RequestRecord /\ RequestShape(r) /\ r.pc = "working"
  BY DEF RequestsInv, Panic
<1>2. req' = [req EXCEPT ![q] = g]
  BY DEF Panic, RequestsInv
<1> HIDE DEF r
<1>3. /\ w \in RequestRecord /\ w.route = r.route /\ w.user = r.user
      /\ w.status = (IF r.buffered THEN r.status ELSE 500)
  BY <1>1, AbortFields
<1> HIDE DEF w
<1>4. SameBut(p, w, "pc") /\ p.pc = "record"
  BY <1>3, RequestFields DEF ChainPhases
<1>5. p \in RequestRecord
  BY <1>4 DEF SameBut
<1> HIDE DEF p
<1>6. SameBut(t, p, "panicked") /\ t.panicked
  BY <1>5, RequestFields
<1>7. t \in RequestRecord
  BY <1>6 DEF SameBut
<1> HIDE DEF t
<1>8. SameBut(g, t, "dbConn")
  BY <1>7, RequestFields
<1> HIDE DEF g
<1>9. /\ g \in RequestRecord /\ g.pc = "record" /\ g.route = r.route /\ g.user = r.user /\ g.panicked
      /\ g.status = (IF r.buffered THEN r.status ELSE 500)
  <2>1. p.route = r.route /\ p.user = r.user /\ p.status = (IF r.buffered THEN r.status ELSE 500)
    BY <1>3, <1>4 DEF SameBut
  <2>2. t.pc = "record" /\ t.route = p.route /\ t.user = p.user /\ t.status = p.status
    BY <1>4, <1>6 DEF SameBut
  <2>3. /\ g \in RequestRecord /\ g.pc = t.pc /\ g.route = t.route /\ g.user = t.user
        /\ g.panicked = t.panicked /\ g.status = t.status
    BY <1>8 DEF SameBut
  <2> QED BY <1>6, <2>1, <2>2, <2>3
<1>10. RequestShape(g)
  BY <1>1, <1>9 DEF RequestShape
<1>11. req[q].pc # "done"
  BY DEF Panic
<1> QED BY <1>2, <1>9, <1>10, <1>11 DEF Advances

LEMMA ETagAdvances == ASSUME NEW q \in Hits, RequestsInv, ETag(q) PROVE Advances(q)
<1> DEFINE r == req[q]
           p == [r EXCEPT !.buffered = FALSE]
           t == [p EXCEPT !.pc = "record"]
           w == [t EXCEPT !.sentHeader = TRUE]
           match == r.bufStatus = 200 /\ r.bufBody # NoBody /\ r.match = r.bufBody
           x == [w EXCEPT !.status = 304]
           y == [w EXCEPT !.status = r.bufStatus]
           z == [y EXCEPT !.body = r.bufBody]
<1>1. r \in RequestRecord /\ RequestShape(r) /\ r.pc = "etag"
  BY DEF RequestsInv, ETag
<1>2. r.bufStatus \in Statuses /\ r.bufBody \in Texts /\ 304 \in Statuses
  BY <1>1 DEF RequestRecord, Statuses
<1>3. w = [r EXCEPT !.buffered = FALSE, !.pc = "record", !.sentHeader = TRUE]
  OBVIOUS
<1>4. z = [w EXCEPT !.status = r.bufStatus, !.body = r.bufBody]
  OBVIOUS
<1>5. SameBut(p, r, "buffered")
  BY <1>1, RequestFields
<1>6. p \in RequestRecord
  BY <1>5 DEF SameBut
<1>7. w.bufStatus = r.bufStatus /\ w.bufBody = r.bufBody /\ w.match = r.match
  <2> HIDE DEF p
  <2>1. SameBut(t, p, "pc")
    BY <1>6, RequestFields DEF ChainPhases
  <2>2. t \in RequestRecord
    BY <2>1 DEF SameBut
  <2> HIDE DEF t
  <2>3. SameBut(w, t, "sentHeader")
    BY <2>2, RequestFields
  <2> QED BY <1>5, <2>1, <2>3 DEF SameBut
<1>8. req' = [req EXCEPT ![q] = IF match THEN x ELSE z]
  BY <1>3, <1>4, <1>7 DEF ETag, RequestsInv
<1> HIDE DEF r, match
<1> HIDE DEF p
<1>9. SameBut(t, p, "pc") /\ t.pc = "record"
  BY <1>6, RequestFields DEF ChainPhases
<1>10. t \in RequestRecord
  BY <1>9 DEF SameBut
<1> HIDE DEF t
<1>11. SameBut(w, t, "sentHeader")
  BY <1>10, RequestFields
<1>12. w \in RequestRecord
  BY <1>11 DEF SameBut
<1> HIDE DEF w
<1>13. SameBut(x, w, "status") /\ x.status = 304 /\ SameBut(y, w, "status") /\ y.status = r.bufStatus
  <2>1. \A v \in Statuses : SameBut([w EXCEPT !.status = v], w, "status") /\ [w EXCEPT !.status = v].status = v
    BY <1>12, RequestFields
  <2> QED BY <1>2, <2>1
<1>14. y \in RequestRecord
  BY <1>13 DEF SameBut
<1> HIDE DEF y
<1>15. SameBut(z, y, "body") /\ z.body = r.bufBody
  BY <1>2, <1>14, RequestFields
<1> HIDE DEF x, z
<1>16. /\ x \in RequestRecord /\ x.pc = "record" /\ x.route = r.route /\ x.user = r.user
       /\ x.match = r.match /\ x.bufStatus = r.bufStatus /\ x.bufBody = r.bufBody /\ x.status = 304
  BY <1>5, <1>9, <1>11, <1>13 DEF SameBut
<1>17. /\ z \in RequestRecord /\ z.pc = "record" /\ z.route = r.route /\ z.user = r.user
       /\ z.match = r.match /\ z.bufStatus = r.bufStatus /\ z.bufBody = r.bufBody
       /\ z.status = r.bufStatus /\ z.body = r.bufBody
  BY <1>5, <1>9, <1>11, <1>13, <1>15 DEF SameBut
<1>18. match => RequestShape(x)
  BY <1>1, <1>16 DEF RequestShape, match
<1>19. RequestShape(z)
  BY <1>1, <1>17 DEF RequestShape
<1>20. req[q].pc # "done"
  BY DEF ETag
<1> QED BY <1>8, <1>16, <1>17, <1>18, <1>19, <1>20 DEF Advances

\* Every step of a request but the recording of it.
LEMMA StepAdvances ==
    ASSUME RequestsInv, NEW q \in Hits, Step(q), ~Analytics(q)
    PROVE  Advances(q) /\ UNCHANGED <<events, queue, sent, dropped, lost, sender, batch, process>>
<1>1. CASE Auth(q)
  BY <1>1, AuthAdvances DEF Auth
<1>2. CASE FeatureGateAnswers(q)
  BY <1>2, GateAdvances DEF FeatureGateAnswers
<1>3. CASE Handle(q)
  BY <1>3, HandleAdvances DEF Handle
<1>4. CASE Panic(q)
  BY <1>4, PanicAdvances DEF Panic
<1>5. CASE ETag(q)
  BY <1>5, ETagAdvances DEF ETag
<1>6. CASE \E b \in Pages : Answer(q, 200, b)
  BY <1>6, AnswerAdvances DEF Answer
<1>7. CASE \E b \in Pages : Answer(q, 404, b)
  <2>1. PICK b \in Pages : Answer(q, 404, b)
    BY <1>7
  <2>2. 404 \in {200, 404}
    OBVIOUS
  <2>3. Advances(q)
    BY <2>1, <2>2, AnswerAdvances
  <2> QED BY <2>1, <2>3 DEF Answer
<1> QED BY <1>1, <1>2, <1>3, <1>4, <1>5, <1>6, <1>7 DEF Step
-----------------------------------------------------------------------------
(***************************************************************************)
(* Events: one for each tracked request that is done, each in one place.   *)
(***************************************************************************)
EventRecord == [req : Hits, status : Statuses, user : BOOLEAN]

EventTypes ==
    /\ events \in Seq(EventRecord) /\ queue \in Seq(EventRecord) /\ batch \in Seq(EventRecord)
    /\ IsFiniteSet(sent) /\ IsFiniteSet(dropped) /\ IsFiniteSet(lost)
    /\ Len(queue) <= QueueSize
    /\ process \in {"serving", "draining", "flushing", "closing", "exited"}
    /\ sender \in {"idle", "posting"} /\ (sender = "idle" => batch = <<>>)

\* An event is of a request that is done, says what is known of it, and is the only one.
EventsOfRequests ==
    /\ \A i \in 1..Len(events) :
         /\ req[events[i].req].pc = "done" /\ req[events[i].req].route.tracked
         /\ events[i].status = req[events[i].req].status /\ events[i].user = req[events[i].req].user
    /\ \A q \in Hits : req[q].pc = "done" /\ req[q].route.tracked =>
         \E i \in 1..Len(events) : events[i].req = q
    /\ \A i, j \in 1..Len(events) : events[i].req = events[j].req => i = j

\* Nothing is queued or posted twice, and what is queued or posted is not settled.
PlacesApart ==
    /\ IsInjective(queue) /\ IsInjective(batch)
    /\ ToSet(queue) \cap (ToSet(batch) \cup sent \cup lost) = {}
    /\ ToSet(batch) \cap (sent \cup lost) = {}

ServingInv == RequestsInv /\ EventTypes /\ EventsOfRequests /\ PlacesApart /\ EventsAccounted

\* A sequence that repeats nothing is as long as it has members.
LEMMA DistinctCount ==
    ASSUME NEW S, NEW s \in Seq(S), IsInjective(s)
    PROVE  IsFiniteSet(ToSet(s)) /\ Cardinality(ToSet(s)) = Len(s)
<1>1. s \in [1..Len(s) -> ToSet(s)] /\ DOMAIN s = 1..Len(s) /\ Len(s) \in Nat
  BY DEF ToSet
<1>2. s \in Bijection(1..Len(s), ToSet(s))
  BY <1>1 DEF Bijection, Injection, Surjection, IsInjective, ToSet
<1>3. IsFiniteSet(1..Len(s)) /\ Cardinality(1..Len(s)) = Len(s)
  <2>1. Len(s) \in Int /\ 1 \in Int /\ Len(s) - 1 + 1 = Len(s) /\ (1 > Len(s) <=> Len(s) = 0)
    BY <1>1
  <2>2. /\ IsFiniteSet(1..Len(s))
        /\ Cardinality(1..Len(s)) = IF 1 > Len(s) THEN 0 ELSE Len(s) - 1 + 1
    BY <2>1, FS_Interval
  <2> QED BY <2>1, <2>2
<1> QED BY <1>2, <1>3, FS_Bijection DEF ExistsBijection

\* Two sets with nothing in common.
LEMMA ApartCount ==
    ASSUME NEW S, NEW T, IsFiniteSet(S), IsFiniteSet(T), S \cap T = {}
    PROVE  IsFiniteSet(S \cup T) /\ Cardinality(S \cup T) = Cardinality(S) + Cardinality(T)
<1>1. Cardinality(S) \in Nat /\ Cardinality(T) \in Nat /\ Cardinality(S \cap T) = 0
  BY FS_CardinalityType, FS_EmptySet
<1>2. IsFiniteSet(S \cup T) /\ Cardinality(S \cup T) = Cardinality(S) + Cardinality(T) - Cardinality(S \cap T)
  BY FS_Union
<1> QED BY <1>1, <1>2

LEMMA ServingInitially == ASSUME ServingInit PROVE ServingInv
<1>1. RequestsInv
  <2>1. NewRequest \in RequestRecord
    BY DEF NewRequest, RequestRecord, Routes, ChainPhases, Statuses, Texts
  <2>2. RequestShape(NewRequest)
    BY DEF NewRequest, RequestShape
  <2> QED BY <2>1, <2>2 DEF ServingInit, RequestsInv
<1>2. EventTypes
  BY FS_EmptySet, ServingAssumption DEF ServingInit, EventTypes
<1>3. EventsOfRequests
  BY DEF ServingInit, EventsOfRequests, NewRequest
<1>4. PlacesApart
  BY DEF ServingInit, PlacesApart, ToSet, IsInjective
<1>5. EventsAccounted
  BY FS_EmptySet DEF ServingInit, EventsAccounted, ToSet
<1> QED BY <1>1, <1>2, <1>3, <1>4, <1>5 DEF ServingInv

LEMMA AdvanceKeepsEvents ==
    ASSUME ServingInv, NEW q \in Hits, Advances(q),
           UNCHANGED <<events, queue, sent, dropped, lost, sender, batch, process>>
    PROVE  ServingInv'
<1>1. RequestsInv'
  BY AdvancesKeeps DEF ServingInv
<1>2. EventTypes' /\ PlacesApart' /\ EventsAccounted'
  BY DEF ServingInv, EventTypes, PlacesApart, EventsAccounted
<1>3. PICK r \in RequestRecord : r.pc # "done" /\ req[q].pc # "done" /\ req' = [req EXCEPT ![q] = r]
  BY DEF Advances
<1>4. \A p \in Hits : p # q => req'[p] = req[p]
  BY <1>3 DEF ServingInv, RequestsInv
<1>5. req'[q] = r
  BY <1>3 DEF ServingInv, RequestsInv
<1>6. \A i \in 1..Len(events) : events[i] \in EventRecord
  BY DEF ServingInv, EventTypes
<1>7. \A i \in 1..Len(events) : events[i].req \in Hits /\ events[i].req # q
  BY <1>3, <1>6 DEF ServingInv, EventsOfRequests, EventRecord
<1>8. EventsOfRequests'
  <2>1. \A i \in 1..Len(events) : req'[events[i].req] = req[events[i].req]
    BY <1>4, <1>7
  <2>2. ASSUME NEW p \in Hits, req'[p].pc = "done", req'[p].route.tracked
        PROVE  \E i \in 1..Len(events) : events[i].req = p
    <3>1. p # q
      BY <1>3, <1>5, <2>2
    <3> QED BY <1>4, <2>2, <3>1 DEF ServingInv, EventsOfRequests
  <2> QED BY <2>1, <2>2 DEF ServingInv, EventsOfRequests
<1> QED BY <1>1, <1>2, <1>8 DEF ServingInv

LEMMA ArriveKeeps ==
    ASSUME ServingInv, NEW q \in Hits, NEW r \in Routes, NEW m \in Pages \cup {NoBody},
           r.open => ~r.cacheable, Arrive(q, r, m)
    PROVE  ServingInv'
<1>1. Advances(q)
  BY ArriveAdvances DEF ServingInv
<1> QED BY <1>1, AdvanceKeepsEvents DEF Arrive

\* The request that is recorded is done; nothing else of it changes.
LEMMA RecordedRequest ==
    ASSUME RequestsInv, NEW q \in Hits, Analytics(q)
    PROVE  /\ RequestsInv'
           /\ \A p \in Hits : p # q => req'[p] = req[p]
           /\ req[q].pc = "record" /\ req'[q].pc = "done"
           /\ req'[q].route = req[q].route /\ req'[q].status = req[q].status /\ req'[q].user = req[q].user
<1> DEFINE r == req[q]
           p == [r EXCEPT !.pc = "done"]
<1>1. r \in RequestRecord /\ RequestShape(r) /\ r.pc = "record"
  BY DEF RequestsInv, Analytics
<1>2. req' = [req EXCEPT ![q] = p]
  BY DEF Analytics, RequestsInv
<1> HIDE DEF r
<1>3. SameBut(p, r, "pc") /\ p.pc = "done"
  BY <1>1, RequestFields DEF ChainPhases
<1> HIDE DEF p
<1>4. p \in RequestRecord /\ RequestShape(p)
  BY <1>1, <1>3 DEF SameBut, RequestShape
<1>5. RequestsInv'
  BY <1>2, <1>4 DEF RequestsInv
<1>6. req'[q] = p /\ \A k \in Hits : k # q => req'[k] = req[k]
  BY <1>2 DEF RequestsInv
<1> QED BY <1>1, <1>3, <1>5, <1>6 DEF SameBut, r

LEMMA AnalyticsKeeps == ASSUME ServingInv, NEW q \in Hits, Analytics(q) PROVE ServingInv'
<1> DEFINE e == Event(q)
<1>1. /\ RequestsInv'
      /\ \A p \in Hits : p # q => req'[p] = req[p]
      /\ req[q].pc = "record" /\ req'[q].pc = "done"
      /\ req'[q].route = req[q].route /\ req'[q].status = req[q].status /\ req'[q].user = req[q].user
  BY RecordedRequest DEF ServingInv
<1>2. e \in EventRecord /\ e.req = q /\ e.status = req[q].status /\ e.user = req[q].user
  BY DEF Event, Status, EventRecord, ServingInv, RequestsInv, RequestRecord
<1>3. \A i \in 1..Len(events) : events[i] \in EventRecord /\ events[i].req # q
  <2>1. \A i \in 1..Len(events) : events[i] \in EventRecord
    BY DEF ServingInv, EventTypes
  <2>2. \A i \in 1..Len(events) : req[events[i].req].pc = "done"
    BY DEF ServingInv, EventsOfRequests
  <2> QED BY <1>1, <2>1, <2>2
<1>4. \A i \in 1..Len(events) : req'[events[i].req] = req[events[i].req]
  BY <1>1, <1>3 DEF EventRecord
<1>5. CASE ~req[q].route.tracked
  <2>1. UNCHANGED <<events, queue, sent, dropped, lost, sender, batch, process>>
    BY <1>5 DEF Analytics
  <2>2. EventTypes' /\ PlacesApart' /\ EventsAccounted'
    BY <2>1 DEF ServingInv, EventTypes, PlacesApart, EventsAccounted
  <2>3. EventsOfRequests'
    <3>1. ASSUME NEW p \in Hits, req'[p].pc = "done", req'[p].route.tracked
          PROVE  \E i \in 1..Len(events) : events[i].req = p
      <4>1. p # q
        BY <1>1, <1>5, <3>1
      <4> QED BY <1>1, <3>1, <4>1 DEF ServingInv, EventsOfRequests
    <3> QED BY <1>4, <2>1, <3>1 DEF ServingInv, EventsOfRequests
  <2> QED BY <1>1, <2>2, <2>3 DEF ServingInv
<1>6. CASE req[q].route.tracked
  <2>1. /\ events' = Append(events, e) /\ QueueEvent(e)
        /\ UNCHANGED <<sent, lost, sender, batch, process>>
    BY <1>6 DEF Analytics
  <2> HIDE DEF e
  <2>2. /\ events \in Seq(EventRecord) /\ queue \in Seq(EventRecord) /\ batch \in Seq(EventRecord)
        /\ Len(events) \in Nat /\ Len(queue) \in Nat /\ Len(batch) \in Nat
    BY DEF ServingInv, EventTypes
  <2>3. /\ events' \in Seq(EventRecord) /\ Len(events') = Len(events) + 1
        /\ events'[Len(events) + 1] = e
        /\ \A i \in 1..Len(events) : events'[i] = events[i]
    BY <1>2, <2>1, <2>2
  <2>4. \A i \in 1..Len(events') : i \in 1..Len(events) \/ i = Len(events) + 1
    BY <2>2, <2>3
  <2>5. EventsOfRequests'
    <3>1. ASSUME NEW i \in 1..Len(events')
          PROVE  /\ req'[events'[i].req].pc = "done" /\ req'[events'[i].req].route.tracked
                 /\ events'[i].status = req'[events'[i].req].status
                 /\ events'[i].user = req'[events'[i].req].user
      <4>1. CASE i \in 1..Len(events)
        BY <1>4, <2>3, <4>1 DEF ServingInv, EventsOfRequests
      <4>2. CASE i = Len(events) + 1
        BY <1>1, <1>2, <1>6, <2>3, <4>2
      <4> QED BY <2>4, <4>1, <4>2
    <3>2. ASSUME NEW p \in Hits, req'[p].pc = "done", req'[p].route.tracked
          PROVE  \E i \in 1..Len(events') : events'[i].req = p
      <4>1. CASE p = q
        <5>1. Len(events) + 1 \in 1..Len(events')
          BY <2>2, <2>3
        <5> QED BY <1>2, <2>3, <4>1, <5>1
      <4>2. CASE p # q
        <5>1. PICK i \in 1..Len(events) : events[i].req = p
          BY <1>1, <3>2, <4>2 DEF ServingInv, EventsOfRequests
        <5>2. i \in 1..Len(events')
          BY <2>2, <2>3
        <5> QED BY <2>3, <5>1, <5>2
      <4> QED BY <4>1, <4>2
    <3>3. ASSUME NEW i \in 1..Len(events'), NEW j \in 1..Len(events'), events'[i].req = events'[j].req
          PROVE  i = j
      <4>1. CASE i \in 1..Len(events) /\ j \in 1..Len(events)
        BY <2>3, <3>3, <4>1 DEF ServingInv, EventsOfRequests
      <4>2. CASE i = Len(events) + 1 /\ j = Len(events) + 1
        BY <4>2
      <4>3. CASE i \in 1..Len(events) /\ j = Len(events) + 1
        BY <1>2, <1>3, <2>3, <3>3, <4>3
      <4>4. CASE i = Len(events) + 1 /\ j \in 1..Len(events)
        BY <1>2, <1>3, <2>3, <3>3, <4>4
      <4> QED BY <2>4, <4>1, <4>2, <4>3, <4>4
    <3> QED BY <3>1, <3>2, <3>3 DEF EventsOfRequests
  <2>6. e \notin ToSet(events) /\ ToSet(events') = ToSet(events) \cup {e}
    <3>1. DOMAIN events = 1..Len(events) /\ DOMAIN events' = 1..Len(events')
      BY <2>2, <2>3
    <3>2. Len(events) + 1 \in 1..Len(events') /\ \A i \in 1..Len(events) : i \in 1..Len(events')
      BY <2>2, <2>3
    <3> QED BY <1>2, <1>3, <2>3, <2>4, <3>1, <3>2 DEF ToSet
  <2>7. /\ ToSet(events) = ToSet(queue) \cup ToSet(batch) \cup sent \cup dropped \cup lost
        /\ Len(events) = Len(queue) + Len(batch) + Cardinality(sent)
                           + Cardinality(dropped) + Cardinality(lost)
    BY DEF ServingInv, EventsAccounted
  <2>8. IsFiniteSet(dropped) /\ IsFiniteSet(sent) /\ IsFiniteSet(lost)
    BY DEF ServingInv, EventTypes
  <2>9. Cardinality(dropped) \in Nat /\ Cardinality(sent) \in Nat /\ Cardinality(lost) \in Nat
    BY <2>8, FS_CardinalityType
  <2>10. CASE Len(queue) < QueueSize
    <3>1. queue' = Append(queue, e) /\ dropped' = dropped
      BY <2>1, <2>10 DEF QueueEvent
    <3>2. /\ queue' \in Seq(EventRecord) /\ Len(queue') = Len(queue) + 1 /\ queue'[Len(queue) + 1] = e
          /\ \A i \in 1..Len(queue) : queue'[i] = queue[i]
      BY <1>2, <2>2, <3>1
    <3>3. DOMAIN queue = 1..Len(queue) /\ DOMAIN queue' = 1..Len(queue')
      BY <2>2, <3>2
    <3>4. Len(queue) + 1 \in 1..Len(queue') /\ \A i \in 1..Len(queue) : i \in 1..Len(queue')
      BY <2>2, <3>2
    <3>5. \A i \in 1..Len(queue') : i \in 1..Len(queue) \/ i = Len(queue) + 1
      BY <2>2, <3>2
    <3>6. ToSet(queue') = ToSet(queue) \cup {e}
      BY <3>2, <3>3, <3>4, <3>5 DEF ToSet
    <3>7. e \notin ToSet(queue) /\ e \notin ToSet(batch) \cup sent \cup lost
      BY <2>6, <2>7
    <3>8. IsInjective(queue')
      <4> SUFFICES ASSUME NEW i \in 1..Len(queue'), NEW j \in 1..Len(queue'), queue'[i] = queue'[j]
                   PROVE  i = j
        BY <3>3 DEF IsInjective
      <4>1. \A k \in 1..Len(queue) : queue[k] # e
        BY <3>3, <3>7 DEF ToSet
      <4>2. CASE i \in 1..Len(queue) /\ j \in 1..Len(queue)
        BY <3>2, <3>3, <4>2 DEF ServingInv, PlacesApart, IsInjective
      <4>3. CASE i = Len(queue) + 1 /\ j = Len(queue) + 1
        BY <4>3
      <4>4. CASE i \in 1..Len(queue) /\ j = Len(queue) + 1
        BY <3>2, <4>1, <4>4
      <4>5. CASE i = Len(queue) + 1 /\ j \in 1..Len(queue)
        BY <3>2, <4>1, <4>5
      <4> QED BY <3>5, <4>2, <4>3, <4>4, <4>5
    <3>9. PlacesApart'
      BY <2>1, <3>6, <3>7, <3>8 DEF ServingInv, PlacesApart
    <3>10. EventsAccounted'
      <4>1. ToSet(events') = ToSet(queue') \cup ToSet(batch') \cup sent' \cup dropped' \cup lost'
        BY <2>1, <2>6, <2>7, <3>1, <3>6
      <4>2. Len(events') = Len(queue') + Len(batch') + Cardinality(sent')
                             + Cardinality(dropped') + Cardinality(lost')
        <5>1. /\ batch' = batch /\ sent' = sent /\ dropped' = dropped /\ lost' = lost
              /\ Len(queue') = Len(queue) + 1 /\ Len(events') = Len(events) + 1
          BY <2>1, <2>3, <3>1, <3>2
        <5> QED BY <2>2, <2>7, <2>9, <5>1
      <4> QED BY <4>1, <4>2 DEF EventsAccounted
    <3>11. EventTypes'
      <4>1. Len(queue') <= QueueSize
        BY <2>2, <2>10, <3>2, ServingAssumption
      <4> QED BY <2>1, <2>3, <3>1, <3>2, <4>1 DEF ServingInv, EventTypes
    <3> QED BY <1>1, <2>5, <3>9, <3>10, <3>11 DEF ServingInv
  <2>11. CASE ~(Len(queue) < QueueSize)
    <3>1. dropped' = dropped \cup {e} /\ queue' = queue
      BY <2>1, <2>11 DEF QueueEvent
    <3>2. e \notin dropped
      BY <2>6, <2>7
    <3>3. IsFiniteSet(dropped') /\ Cardinality(dropped') = Cardinality(dropped) + 1
      BY <2>8, <3>1, <3>2, FS_AddElement
    <3>4. EventsAccounted'
      <4>1. ToSet(events') = ToSet(queue') \cup ToSet(batch') \cup sent' \cup dropped' \cup lost'
        BY <2>1, <2>6, <2>7, <3>1
      <4>2. Len(events') = Len(queue') + Len(batch') + Cardinality(sent')
                             + Cardinality(dropped') + Cardinality(lost')
        <5>1. /\ batch' = batch /\ sent' = sent /\ queue' = queue /\ lost' = lost
              /\ Len(events') = Len(events) + 1
          BY <2>1, <2>3, <3>1
        <5> QED BY <2>2, <2>7, <2>9, <3>3, <5>1
      <4> QED BY <4>1, <4>2 DEF EventsAccounted
    <3>5. EventTypes'
      BY <2>1, <2>3, <3>1, <3>3 DEF ServingInv, EventTypes
    <3>6. PlacesApart'
      BY <2>1, <3>1 DEF ServingInv, PlacesApart
    <3> QED BY <1>1, <2>5, <3>4, <3>5, <3>6 DEF ServingInv
  <2> QED BY <2>10, <2>11
<1> QED BY <1>5, <1>6

\* What the process and its sender do changes neither requests nor events.
LEMMA OthersKeepEvents ==
    ASSUME ServingInv, UNCHANGED <<req, events>>, EventTypes', PlacesApart', EventsAccounted'
    PROVE  ServingInv'
  BY DEF ServingInv, RequestsInv, EventsOfRequests

LEMMA FlushKeeps == ASSUME ServingInv, Flush PROVE ServingInv'
<1>1. batch = <<>> /\ batch' = queue /\ queue' = <<>> /\ UNCHANGED <<events, sent, dropped, lost>>
  BY DEF ServingInv, EventTypes, Flush
<1>2. ToSet(<<>>) = {} /\ Len(<<>>) = 0 /\ <<>> \in Seq(EventRecord) /\ IsInjective(<<>>)
  BY DEF ToSet, IsInjective
<1>3. EventTypes'
  BY <1>1, <1>2, ServingAssumption DEF ServingInv, EventTypes, Flush
<1>4. PlacesApart'
  BY <1>1, <1>2 DEF ServingInv, PlacesApart
<1>5. EventsAccounted'
  <2>1. ToSet(events') = ToSet(queue') \cup ToSet(batch') \cup sent' \cup dropped' \cup lost'
    BY <1>1, <1>2 DEF ServingInv, EventsAccounted
  <2>2. Len(queue) \in Nat /\ Len(batch) = 0 /\ Len(queue') = 0 /\ Len(batch') = Len(queue)
    BY <1>1, <1>2 DEF ServingInv, EventTypes
  <2>3. Len(events') = Len(queue') + Len(batch') + Cardinality(sent') + Cardinality(dropped') + Cardinality(lost')
    <3>1. Len(events) = Len(queue) + Len(batch) + Cardinality(sent) + Cardinality(dropped) + Cardinality(lost)
      BY DEF ServingInv, EventsAccounted
    <3>2. events' = events /\ sent' = sent /\ dropped' = dropped /\ lost' = lost
      BY <1>1
    <3> QED BY <2>2, <3>1, <3>2
  <2> QED BY <2>1, <2>3 DEF EventsAccounted
<1> QED BY <1>3, <1>4, <1>5, OthersKeepEvents DEF Flush

LEMMA PostedKeeps == ASSUME ServingInv, Posted PROVE ServingInv'
<1>1. /\ batch' = <<>> /\ sender' = "idle" /\ UNCHANGED <<req, events, queue, dropped, process>>
      /\ \/ sent' = sent \cup ToSet(batch) /\ lost' = lost
         \/ lost' = lost \cup ToSet(batch) /\ sent' = sent
  BY DEF Posted
<1>2. ToSet(<<>>) = {} /\ Len(<<>>) = 0 /\ <<>> \in Seq(EventRecord) /\ IsInjective(<<>>)
  BY DEF ToSet, IsInjective
<1>3. IsFiniteSet(ToSet(batch)) /\ Cardinality(ToSet(batch)) = Len(batch)
  BY DistinctCount DEF ServingInv, EventTypes, PlacesApart
<1>4. /\ IsFiniteSet(sent) /\ IsFiniteSet(lost) /\ IsFiniteSet(dropped)
      /\ sent \cap ToSet(batch) = {} /\ lost \cap ToSet(batch) = {}
  BY DEF ServingInv, EventTypes, PlacesApart
<1>5. /\ IsFiniteSet(sent \cup ToSet(batch))
      /\ Cardinality(sent \cup ToSet(batch)) = Cardinality(sent) + Len(batch)
  BY <1>3, <1>4, ApartCount
<1>6. /\ IsFiniteSet(lost \cup ToSet(batch))
      /\ Cardinality(lost \cup ToSet(batch)) = Cardinality(lost) + Len(batch)
  BY <1>3, <1>4, ApartCount
<1>7. EventTypes'
  BY <1>1, <1>2, <1>4, <1>5, <1>6 DEF ServingInv, EventTypes
<1>8. PlacesApart'
  BY <1>1, <1>2 DEF ServingInv, PlacesApart
<1>9. EventsAccounted'
  <2>1. ToSet(events') = ToSet(queue') \cup ToSet(batch') \cup sent' \cup dropped' \cup lost'
    BY <1>1, <1>2 DEF ServingInv, EventsAccounted
  <2>2. Len(queue) \in Nat /\ Len(batch) \in Nat /\ Len(batch') = 0 /\ queue' = queue /\ events' = events
    BY <1>1, <1>2 DEF ServingInv, EventTypes
  <2>3. Cardinality(sent) \in Nat /\ Cardinality(lost) \in Nat /\ Cardinality(dropped) \in Nat /\ dropped' = dropped
    BY <1>1, <1>4, FS_CardinalityType
  <2>4. Len(events) = Len(queue) + Len(batch) + Cardinality(sent) + Cardinality(dropped) + Cardinality(lost)
    BY DEF ServingInv, EventsAccounted
  <2>5. Len(events') = Len(queue') + Len(batch') + Cardinality(sent') + Cardinality(dropped') + Cardinality(lost')
    <3>1. CASE sent' = sent \cup ToSet(batch) /\ lost' = lost
      <4>1. Cardinality(sent') = Cardinality(sent) + Len(batch)
        BY <1>5, <3>1
      <4> QED BY <2>2, <2>3, <2>4, <3>1, <4>1
    <3>2. CASE lost' = lost \cup ToSet(batch) /\ sent' = sent
      <4>1. Cardinality(lost') = Cardinality(lost) + Len(batch)
        BY <1>6, <3>2
      <4> QED BY <2>2, <2>3, <2>4, <3>2, <4>1
    <3> QED BY <1>1, <3>1, <3>2
  <2> QED BY <2>1, <2>5 DEF EventsAccounted
<1> QED BY <1>1, <1>7, <1>8, <1>9, OthersKeepEvents

LEMMA ClosePoolKeeps == ASSUME ServingInv, ClosePool PROVE ServingInv'
<1>1. /\ queue' = <<>> /\ batch' = <<>> /\ sender' = "idle" /\ process' = "exited"
      /\ UNCHANGED <<req, events, sent, dropped>>
      /\ lost' = lost \cup ToSet(queue) \cup ToSet(batch)
  BY DEF ClosePool
<1>2. ToSet(<<>>) = {} /\ Len(<<>>) = 0 /\ <<>> \in Seq(EventRecord) /\ IsInjective(<<>>)
  BY DEF ToSet, IsInjective
<1>3. /\ IsFiniteSet(ToSet(batch)) /\ Cardinality(ToSet(batch)) = Len(batch)
      /\ IsFiniteSet(ToSet(queue)) /\ Cardinality(ToSet(queue)) = Len(queue)
  BY DistinctCount DEF ServingInv, EventTypes, PlacesApart
<1>4. /\ IsFiniteSet(sent) /\ IsFiniteSet(lost) /\ IsFiniteSet(dropped)
      /\ lost \cap ToSet(queue) = {} /\ (lost \cup ToSet(queue)) \cap ToSet(batch) = {}
  BY DEF ServingInv, EventTypes, PlacesApart
<1>5. /\ IsFiniteSet(lost \cup ToSet(queue))
      /\ Cardinality(lost \cup ToSet(queue)) = Cardinality(lost) + Len(queue)
  BY <1>3, <1>4, ApartCount
<1>6. /\ IsFiniteSet(lost')
      /\ Cardinality(lost') = Cardinality(lost \cup ToSet(queue)) + Len(batch)
  BY <1>1, <1>3, <1>4, <1>5, ApartCount
<1>7. EventTypes'
  BY <1>1, <1>2, <1>4, <1>6, ServingAssumption DEF ServingInv, EventTypes
<1>8. PlacesApart'
  BY <1>1, <1>2 DEF PlacesApart
<1>9. EventsAccounted'
  <2>1. ToSet(events') = ToSet(queue') \cup ToSet(batch') \cup sent' \cup dropped' \cup lost'
    BY <1>1, <1>2 DEF ServingInv, EventsAccounted
  <2>2. Len(queue) \in Nat /\ Len(batch) \in Nat /\ Len(batch') = 0 /\ Len(queue') = 0 /\ events' = events
    BY <1>1, <1>2 DEF ServingInv, EventTypes
  <2>3. /\ Cardinality(sent) \in Nat /\ Cardinality(lost) \in Nat /\ Cardinality(dropped) \in Nat
        /\ dropped' = dropped /\ sent' = sent
    BY <1>1, <1>4, FS_CardinalityType
  <2>4. Cardinality(lost') = Cardinality(lost) + Len(queue) + Len(batch)
    BY <1>5, <1>6, <2>2, <2>3
  <2>5. Len(events) = Len(queue) + Len(batch) + Cardinality(sent) + Cardinality(dropped) + Cardinality(lost)
    BY DEF ServingInv, EventsAccounted
  <2> QED BY <2>1, <2>2, <2>3, <2>4, <2>5 DEF EventsAccounted
<1> QED BY <1>1, <1>7, <1>8, <1>9, OthersKeepEvents

LEMMA ServingStep == ServingInv /\ [ServingNext]_servingVars => ServingInv'
<1> SUFFICES ASSUME ServingInv, [ServingNext]_servingVars PROVE ServingInv'
  OBVIOUS
<1>1. CASE \E q \in Hits : Step(q)
  <2>1. PICK q \in Hits : Step(q)
    BY <1>1
  <2>2. CASE Analytics(q)
    BY <2>2, AnalyticsKeeps
  <2>3. CASE ~Analytics(q)
    <3>1. RequestsInv
      BY DEF ServingInv
    <3>2. Advances(q) /\ UNCHANGED <<events, queue, sent, dropped, lost, sender, batch, process>>
      BY <2>1, <2>3, <3>1, StepAdvances
    <3> QED BY <3>2, AdvanceKeepsEvents
  <2> QED BY <2>2, <2>3
<1>2. CASE \E q \in Hits, r \in Routes, m \in Pages \cup {NoBody} :
             (r.open => ~r.cacheable) /\ (~r.cacheable => m = NoBody) /\ Arrive(q, r, m)
  BY <1>2, ArriveKeeps
<1>3. CASE Flush
  BY <1>3, FlushKeeps
<1>4. CASE Posted
  BY <1>4, PostedKeeps
<1>5. CASE Signal \/ ShutdownReturns \/ CloseRecorder \/ UNCHANGED servingVars
  <2>1. /\ UNCHANGED <<req, events, queue, sent, dropped, lost, sender, batch>>
        /\ process' \in {process, "draining", "flushing", "closing"}
    BY <1>5 DEF Signal, ShutdownReturns, CloseRecorder, servingVars
  <2>2. EventTypes' /\ PlacesApart' /\ EventsAccounted'
    BY <2>1 DEF ServingInv, EventTypes, PlacesApart, EventsAccounted
  <2> QED BY <2>1, <2>2, OthersKeepEvents
<1>6. CASE ClosePool
  BY <1>6, ClosePoolKeeps
<1> QED BY <1>1, <1>2, <1>3, <1>4, <1>5, <1>6 DEF ServingNext, Shutdown

\* The properties follow from the invariant.
LEMMA ServingHolds == ServingInv => ServingTypeOK /\ AnswersAreTrue
<1> SUFFICES ASSUME ServingInv PROVE ServingTypeOK /\ AnswersAreTrue
  OBVIOUS
<1>1. ServingTypeOK
  BY DEF ServingInv, RequestsInv, RequestRecord, RequestShape, EventTypes, ServingTypeOK, ChainPhases, Statuses
<1>2. NotModifiedIsTrue
  BY DEF ServingInv, RequestsInv, RequestShape, NotModifiedIsTrue
<1>3. RecordedAsAnswered
  <2> SUFFICES ASSUME NEW q \in Hits
               PROVE  LET mine == {i \in DOMAIN events : events[i].req = q} IN
                      /\ Cardinality(mine) = (IF req[q].pc = "done" /\ req[q].route.tracked THEN 1 ELSE 0)
                      /\ \A i \in mine : /\ events[i].status = req[q].status
                                         /\ events[i].user = (~req[q].route.open /\ req[q].status # 401)
    BY DEF RecordedAsAnswered
  <2> DEFINE mine == {i \in DOMAIN events : events[i].req = q}
  <2>1. DOMAIN events = 1..Len(events)
    BY DEF ServingInv, EventTypes
  <2>2. ASSUME NEW i \in mine
        PROVE  /\ req[q].pc = "done" /\ req[q].route.tracked
               /\ events[i].status = req[q].status
               /\ events[i].user = (~req[q].route.open /\ req[q].status # 401)
    BY <2>1 DEF ServingInv, EventsOfRequests, RequestsInv, RequestShape
  <2>3. CASE req[q].pc = "done" /\ req[q].route.tracked
    <3>1. PICK i \in 1..Len(events) : events[i].req = q
      BY <2>3 DEF ServingInv, EventsOfRequests
    <3>2. mine = {i}
      BY <2>1, <3>1 DEF ServingInv, EventsOfRequests
    <3>3. Cardinality(mine) = 1
      BY <3>2, FS_Singleton
    <3> QED BY <2>2, <2>3, <3>3
  <2>4. CASE ~(req[q].pc = "done" /\ req[q].route.tracked)
    <3>1. mine = {}
      BY <2>2, <2>4
    <3>2. Cardinality(mine) = 0
      BY <3>1, FS_EmptySet
    <3> QED BY <2>2, <2>4, <3>2
  <2> QED BY <2>3, <2>4
<1> QED BY <1>1, <1>2, <1>3 DEF AnswersAreTrue, ServingInv

-----------------------------------------------------------------------------
(* The theorems.                                                           *)

\* Every variable of a serving process has its type.
THEOREM ServingTyped == ServingSpec => []ServingTypeOK
<1>1. ServingInit => ServingInv
  BY ServingInitially
<1> QED BY <1>1, ServingStep, ServingHolds, PTL DEF ServingSpec

\* Whatever middleware ended a request, its caller and its usage event are told the same, no event is
\* counted twice or forgotten, and 304 confirms what the caller holds (middleware/analytics.go, cache.go).
THEOREM AnswersMatchEvents == ServingSpec => []AnswersAreTrue
<1>1. ServingInit => ServingInv
  BY ServingInitially
<1> QED BY <1>1, ServingStep, ServingHolds, PTL DEF ServingSpec

-----------------------------------------------------------------------------
(***************************************************************************)
(* What MCSettles composes: each step is one of the three components' own, *)
(* and leaves the other two as they are.                                   *)
(***************************************************************************)
SettlesInv == ShopTyped /\ ServingInv /\ KeysInv

\* A validator that needs no keys keeps the invariant while it rests.
LEMMA RestingKeys == ASSUME KeysRest PROVE KeysInv
<1>1. KeysShape
  <2>1. documents \in Seq(SUBSET Kids) /\ Len(documents) = 1
    <3>1. documents = <<{}>> /\ {} \in SUBSET Kids
      BY DEF KeysRest
    <3> QED BY <3>1
  <2>2. Quiet \in [pc : {"quiet", "trying", "done"}, offers : Seq(Tokens), out : Nat, since : Nat, upto : Nat]
    BY DEF Quiet
  <2> QED BY <2>1, <2>2 DEF KeysRest, KeysShape, NoFetch
<1>2. KeysOfDocument /\ ServesWithKeys
  BY DEF KeysRest, KeysOfDocument, ServesWithKeys, NoFetch, Quiet, InsecureAuthConfig
<1>3. TryingShape /\ AnswerShape
  BY DEF KeysRest, TryingShape, AnswerShape, Quiet
<1> QED BY <1>1, <1>2, <1>3 DEF KeysInv

LEMMA SettlesInitially == SettlesInit => SettlesInv
<1> SUFFICES ASSUME SettlesInit PROVE SettlesInv
  OBVIOUS
<1>1. ShopTyped
  BY ShopTypedInit DEF SettlesInit
<1>2. ServingInv
  BY ServingInitially DEF SettlesInit
<1>3. KeysInv
  BY RestingKeys, KeysInvInit DEF SettlesInit
<1> QED BY <1>1, <1>2, <1>3 DEF SettlesInv

LEMMA ShopRestsTyped == ShopTyped /\ UNCHANGED vars => ShopTyped'
  BY ShopTypedStep
LEMMA ServingRestsTyped == ServingInv /\ UNCHANGED servingVars => ServingInv'
  BY ServingStep
LEMMA KeysRestTyped == KeysInv /\ UNCHANGED keyVars => KeysInv'
  BY KeysInvStep

LEMMA SettlesStep == SettlesInv /\ [SettlesNext]_allVars => SettlesInv'
<1> SUFFICES ASSUME SettlesInv, [SettlesNext]_allVars PROVE SettlesInv'
  OBVIOUS
<1>1. CASE Next /\ UNCHANGED <<servingVars, keyVars>>
  <2>1. ShopTyped'
    BY <1>1, ShopTypedStep DEF SettlesInv
  <2>2. ServingInv' /\ KeysInv'
    BY <1>1, ServingRestsTyped, KeysRestTyped DEF SettlesInv
  <2> QED BY <2>1, <2>2 DEF SettlesInv
<1>2. CASE ServingNext /\ UNCHANGED <<vars, keyVars>>
  <2>1. ServingInv'
    BY <1>2, ServingStep DEF SettlesInv
  <2>2. ShopTyped' /\ KeysInv'
    BY <1>2, ShopRestsTyped, KeysRestTyped DEF SettlesInv
  <2> QED BY <2>1, <2>2 DEF SettlesInv
<1>3. CASE KeysNext /\ UNCHANGED <<vars, servingVars>>
  <2>1. KeysInv'
    BY <1>3, KeysInvStep DEF SettlesInv
  <2>2. ShopTyped' /\ ServingInv'
    BY <1>3, ShopRestsTyped, ServingRestsTyped DEF SettlesInv
  <2> QED BY <2>1, <2>2 DEF SettlesInv
<1>4. CASE UNCHANGED allVars
  <2>1. UNCHANGED vars /\ UNCHANGED servingVars /\ UNCHANGED keyVars
    BY <1>4 DEF allVars
  <2> QED BY <2>1, ShopRestsTyped, ServingRestsTyped, KeysRestTyped DEF SettlesInv
<1> QED BY <1>1, <1>2, <1>3, <1>4 DEF SettlesNext

LEMMA SettlesHolds == SettlesInv => TypesOK
<1> SUFFICES ASSUME SettlesInv PROVE TypesOK
  OBVIOUS
<1>1. TypeOK
  BY DEF SettlesInv, ShopTyped
<1>2. ServingTypeOK
  BY ServingHolds DEF SettlesInv
<1>3. KeysTypeOK
  <2>1. KeysShape /\ KeysOfDocument /\ ServesWithKeys
    BY DEF SettlesInv, KeysInv
  <2>2. keys \subseteq Kids
    <3>1. reading # 0 => documents[reading] \in SUBSET Kids
      BY <2>1 DEF KeysShape
    <3> QED BY <2>1, <3>1 DEF KeysOfDocument
  <2>3. ASSUME NEW q \in Callers PROVE caller[q].out \in {0, 1, 200, 401}
    <3>1. caller[q].pc \in {"quiet", "trying", "done"} /\ caller[q].out \in Nat /\ Len(caller[q].offers) \in Nat
      BY <2>1 DEF KeysShape
    <3>2. CASE caller[q].pc = "trying"
      <4>1. caller[q].out < Len(caller[q].offers) /\ Len(caller[q].offers) <= 2
        BY <3>2 DEF SettlesInv, KeysInv, TryingShape
      <4> QED BY <3>1, <4>1
    <3>3. CASE caller[q].pc # "trying"
      BY <3>1, <3>3 DEF SettlesInv, KeysInv, AnswerShape
    <3> QED BY <3>2, <3>3
  <2> QED BY <2>1, <2>2, <2>3 DEF KeysTypeOK, KeysShape, ServesWithKeys
<1> QED BY <1>1, <1>2, <1>3 DEF TypesOK

\* Whichever of the three a behaviour is about, every variable of all three keeps its type.
THEOREM SettlesTyped == SettlesSpec => []TypesOK
<1> QED BY SettlesInitially, SettlesStep, SettlesHolds, PTL DEF SettlesSpec
=============================================================================
