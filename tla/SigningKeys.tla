----------------------------- MODULE SigningKeys -----------------------------
(***************************************************************************)
(* Who may call the conference and registrant backends: the identity       *)
(* provider's signing keys, fetched at startup and by an hourly ticker in  *)
(* the background, and the Auth middleware that verifies a request's       *)
(* tokens against the keys in memory.                                      *)
(*                                                                         *)
(* The provider is external: it publishes one document of keys after       *)
(* another, some without a usable key, and its endpoint may not answer.    *)
(* The conference backend reads one token of a request, the registrant     *)
(* backend up to two.                                                      *)
(***************************************************************************)
EXTENDS Naturals, Sequences, FiniteSets, SequencesExt

CONSTANTS Kids, Documents,   \* documents: sets of keys that may be published
          Tokens,        \* [kid, aud, readable, sound]: key, audience, whether it
                         \* decodes with the claims needed, every other check
          Audiences,     \* those the deployment accepts
          Callers,       \* requests
          MaxDocuments   \* bound: documents ever published

ASSUME KeysAssumption ==
    /\ Documents \subseteq SUBSET Kids
    /\ Tokens \subseteq [kid : Kids, aud : STRING, readable : BOOLEAN, sound : BOOLEAN]
    /\ MaxDocuments \in Nat \ {0}

VARIABLES config,      \* [production, validator]
          server,     \* starting, serving, down
          documents,   \* the usable keys of every document published so far
          keys,        \* the keys requests are verified against
          reading,     \* which document they came from
          fetch,       \* the fetch under way: [pc, doc]
          caller

keyVars == <<config, server, documents, keys, reading, fetch, caller>>

NoFetch == [pc |-> "idle", doc |-> 0]
Quiet == [pc |-> "quiet", offers |-> <<>>, out |-> 0, since |-> 0, upto |-> 0]

-----------------------------------------------------------------------------
(* Startup and the background refresh.                                     *)

InsecureAuthConfig == config.production /\ ~config.validator

\* main refuses an unverified production deployment; a validator needs keys
\* before the listener opens.
Boot ==
    /\ server = "starting" /\ fetch = NoFetch
    /\ IF InsecureAuthConfig THEN server' = "down" /\ UNCHANGED fetch
       ELSE IF config.validator
       THEN fetch' = [NoFetch EXCEPT !.pc = "asking"] /\ UNCHANGED server
       ELSE server' = "serving" /\ UNCHANGED fetch
    /\ UNCHANGED <<config, documents, keys, reading, caller>>

\* The orchestrator starts the container again.
Restart ==
    /\ server = "down" /\ server' = "starting"
    /\ UNCHANGED <<config, documents, keys, reading, fetch, caller>>

\* The hourly ticker, one fetch at a time.
TickerFires ==
    /\ server = "serving" /\ config.validator /\ fetch = NoFetch
    /\ fetch' = [NoFetch EXCEPT !.pc = "asking"]
    /\ UNCHANGED <<config, server, documents, keys, reading, caller>>

\* The document as it stands; entries that are not complete RSA keys are
\* skipped.
fetchJWKS ==
    /\ fetch.pc = "asking"
    /\ fetch' = [pc |-> "got", doc |-> Len(documents)]
    /\ UNCHANGED <<config, server, documents, keys, reading, caller>>

\* A first document without a usable key, like a first fetch that fails,
\* ends the server; a later one leaves the keys as they are.
NoNewKeys ==
    /\ server' = IF server = "starting" THEN "down" ELSE server
    /\ UNCHANGED <<keys, reading>>

\* Mutant: new keys are added to the old ones.
MergeKeys ==
    /\ fetch.pc = "got" /\ fetch' = NoFetch
    /\ IF documents[fetch.doc] = {} THEN NoNewKeys
       ELSE /\ keys' = keys \cup documents[fetch.doc] /\ reading' = fetch.doc
            /\ server' = "serving"
    /\ UNCHANGED <<config, documents, caller>>

StoreKeys ==
    /\ fetch.pc = "got" /\ fetch' = NoFetch
    /\ IF documents[fetch.doc] = {} THEN NoNewKeys
       ELSE /\ keys' = documents[fetch.doc] /\ reading' = fetch.doc
            /\ server' = "serving"
    /\ UNCHANGED <<config, documents, caller>>

\* Mutant: the background loop returns at its first error.
TickerStops ==
    /\ fetch.pc = "asking" /\ fetch' = [NoFetch EXCEPT !.doc = 1]
    /\ NoNewKeys
    /\ UNCHANGED <<config, documents, caller>>

FetchJWKSFails ==
    /\ fetch.pc = "asking" /\ fetch' = NoFetch
    /\ NoNewKeys
    /\ UNCHANGED <<config, documents, caller>>

PublishKeys(d) ==
    /\ Len(documents) < MaxDocuments /\ d # Last(documents)
    /\ documents' = Append(documents, d)
    /\ UNCHANGED <<config, server, keys, reading, fetch, caller>>

-----------------------------------------------------------------------------
(* A request.                                                              *)

audienceAllowed(t) == t.aud \in Audiences

\* With the validator off a token is only decoded.
extractUserInfo(t, current) ==
    /\ t.readable
    /\ config.validator => t.kid \in current /\ audienceAllowed(t) /\ t.sound

\* The gateway's assertion first, then the bearer token, as far as the
\* request carries them.
candidateTokens(assertion, bearer) == assertion \o bearer

\* A request that arrived when since was read is answered now.
Answered(offers, out, since) ==
    [pc |-> "done", offers |-> offers, out |-> out, since |-> since, upto |-> reading]

Offer(q, assertion, bearer) ==
    /\ server = "serving" /\ caller[q].pc \in {"quiet", "done"}
    /\ LET offers == candidateTokens(assertion, bearer) IN
       caller' = [caller EXCEPT ![q] =
           IF offers = <<>> THEN Answered(<<>>, 401, reading)
           ELSE [pc |-> "trying", offers |-> offers, out |-> 0, since |-> reading, upto |-> 0]]
    /\ UNCHANGED <<config, server, documents, keys, reading, fetch>>

\* One candidate against the keys of this moment; the first that verifies
\* signs the caller in.  out counts the candidates tried until then.
firstValidToken(q) ==
    LET r == caller[q]
        t == r.offers[r.out + 1] IN
    /\ r.pc = "trying"
    /\ caller' = [caller EXCEPT ![q] =
           IF extractUserInfo(t, keys)
           THEN Answered(<<t>>, 200, r.since)
           ELSE IF r.out + 1 = Len(r.offers) THEN Answered(r.offers, 401, r.since)
           ELSE [r EXCEPT !.out = @ + 1]]
    /\ UNCHANGED <<config, server, documents, keys, reading, fetch>>

KeysInit ==
    /\ config \in [production : BOOLEAN, validator : BOOLEAN]
    /\ server = "starting" /\ fetch = NoFetch
    /\ documents \in {<<d>> : d \in Documents}
    /\ keys = {} /\ reading = 0
    /\ caller = [q \in Callers |-> Quiet]

Offers == {<<>>} \cup {<<t>> : t \in Tokens}

KeysNext ==
    \/ Boot \/ Restart \/ TickerFires \/ fetchJWKS \/ StoreKeys \/ FetchJWKSFails
    \/ \E d \in Documents : PublishKeys(d)
    \/ \E q \in Callers : firstValidToken(q) \/ \E a, b \in Offers : Offer(q, a, b)

\* The ticker runs and the container is restarted; the endpoint answers
\* whenever it is asked often enough.
KeysFairness ==
    /\ WF_keyVars(Boot) /\ WF_keyVars(Restart) /\ WF_keyVars(TickerFires)
    /\ WF_keyVars(StoreKeys) /\ SF_keyVars(fetchJWKS)
    /\ WF_keyVars(fetchJWKS \/ FetchJWKSFails)

KeysSpec == KeysInit /\ [][KeysNext]_keyVars /\ KeysFairness

-----------------------------------------------------------------------------
(* Properties.                                                             *)

KeysTypeOK ==
    /\ server \in {"starting", "serving", "down"}
    /\ keys \subseteq Kids /\ reading \in 0..Len(documents)
    /\ fetch \in [pc : {"idle", "asking", "got"}, doc : 0..Len(documents)]
    /\ server = "serving" /\ config.validator => keys # {}
    /\ \A q \in Callers : caller[q].out \in {0, 1, 200, 401}

\* In production nobody is let in but with a token whose key the provider
\* published, in a document no older than the one in memory when the
\* request arrived: a retired key ends with the refresh that misses it
\* (newJWKSKeyfunc, InsecureAuthConfig).
SignedByACurrentKey ==
    \A q \in Callers : caller[q].out = 200 /\ config.production =>
        LET t == caller[q].offers[1] IN
        /\ t.sound /\ t.aud \in Audiences
        /\ \E i \in caller[q].since..caller[q].upto : i > 0 /\ t.kid \in documents[i]

\* A request that offers a good token in either header is let in, unless
\* its key left memory while the request was being checked
\* (candidateTokens, firstValidToken), whatever fetches failed meanwhile;
\* with the validator off any token that can be read will do.
GoodTokenLetIn ==
    \A q \in Callers : caller[q].out = 401 =>
        \A i \in DOMAIN caller[q].offers :
            LET t == caller[q].offers[i] IN
            t.readable =>
            /\ config.validator
            /\ t.sound /\ t.aud \in Audiences =>
                 \E d \in caller[q].since..caller[q].upto : t.kid \notin documents[d]

\* A rotation is picked up without a restart, once the endpoint answers
\* again (jwksRefreshInterval).
RotationArrives ==
    <>[](config.validator /\ Last(documents) # {} => keys = Last(documents))

\* The keys in memory decide, in both directions: no other key signs a caller in, and a good token is
\* not turned away.
JudgedByCurrentKeys == SignedByACurrentKey /\ GoodTokenLetIn
=============================================================================
