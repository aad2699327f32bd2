----------------------------- MODULE JwksCache -----------------------------
(***************************************************************************)
(* JWT verification against a remote key set: the five-minute cache of     *)
(* verification keys, requests that validate and refresh concurrently, and *)
(* an issuer that rotates, removes and mispublishes keys.                  *)
(*                                                                         *)
(* Time is a clock of ticks. The model adds to the code how long ago the   *)
(* issuer last served each key, and how long its document has not changed. *)
(*                                                                         *)
(* Code: contextforge-data-plane-lib/src/authorization/jwks/{jwks,         *)
(* jwks_authorization}.rs.                                                 *)
(***************************************************************************)
EXTENDS Naturals

CONSTANTS
    Jwk,        \* the JSON Web Keys an issuer may serve
    Kind,       \* Kind[j]: "rsa", "ec", "skipped" (not a verification key), "broken"
    Kid,        \* key ids
    KeyId,      \* KeyId[j]: the key id of j, or NoKid
    Document,   \* key sets the issuer may serve
    Token,      \* the tokens presented
    Request,    \* validations in progress at once
    TTL,        \* JWKS_CACHE_TTL in ticks
    Latency     \* JWKS_REQUEST_TIMEOUT: most ticks from the answer to the insert

NoKid == "no_kid"

\* The keys from_jwk keeps: signature keys of the RSA and EC families.
VerificationKeys(doc) == {j \in doc : Kind[j] \in {"rsa", "ec"}}

\* What validate sees of a token: who signed it, the key id its header names,
\* and whether its time claims hold.
Presentable == [signer : VerificationKeys(Jwk), kid : Kid \cup {NoKid}, timely : BOOLEAN]

ASSUME JwksAssumption ==
    /\ Kind \in [Jwk -> {"rsa", "ec", "skipped", "broken"}]
    /\ NoKid \notin Kid
    /\ KeyId \in [Jwk -> Kid \cup {NoKid}]
    /\ Document \subseteq SUBSET Jwk
    /\ Token \subseteq Presentable
    /\ TTL \in Nat \ {0}
    /\ Latency \in Nat

VARIABLES
    served,   \* the document at the JWKS URL
    cache,    \* the cached keys and their age in ticks
    req,      \* req[r]: where validation r is
    gone,     \* gone[j]: ticks since j was last on offer
    steady    \* ticks since the document last changed

vars == <<served, cache, req, gone, steady>>

MaxGone   == TTL + Latency
MaxSteady == TTL + Latency

Out == {"none", "accepted", "rejected", "unavailable"}

RequestState ==
    [pc    : {"idle", "fetch", "insert", "done"},
     token : Token,
     keys  : SUBSET VerificationKeys(Jwk),
     wait  : 0 .. Latency,
     out   : Out,
     lag   : 0 .. MaxGone,    \* gone[signer] when the verdict fell
     kept  : BOOLEAN]         \* whether the signer's key has been on offer since the start

At(pc, t, keys, wait, out, lag, kept) ==
    [pc |-> pc, token |-> t, keys |-> keys, wait |-> wait, out |-> out, lag |-> lag, kept |-> kept]

Cached(keys, age) == [keys |-> keys, age |-> age]

-----------------------------------------------------------------------------

\* VerificationKey::matches. The family of the header's algorithm is that of
\* the signing key.
Matches(j, t) ==
    /\ Kind[j] = Kind[t.signer]
    /\ t.kid = NoKid \/ KeyId[j] = NoKid \/ KeyId[j] = t.kid

\* validate_with_keys: some matching key verifies the signature and the claims.
Verifies(keys, t) == t.timely /\ t.signer \in {j \in keys : Matches(j, t)}

\* validated_json_web_keys: one key that cannot be decoded spoils the document,
\* keys for other uses and families are skipped.
FetchOk(doc) == doc = {} \/ (VerificationKeys(doc) # {} /\ \A j \in doc : Kind[j] # "broken")

OnOffer(j, doc) == FetchOk(doc) /\ j \in doc

\* LruCache::peek returns an entry by its insertion time and does not renew it.
Fresh == cache.age < TTL

Init ==
    /\ served \in Document
    /\ cache = Cached({}, TTL)
    /\ \E t \in Token : req = [r \in Request |-> At("idle", t, {}, 0, "none", 0, FALSE)]
    /\ gone = [j \in VerificationKeys(Jwk) |-> IF OnOffer(j, served) THEN 0 ELSE MaxGone]
    /\ steady = MaxSteady

Verdict(keys, t, kept) ==
    IF Verifies(keys, t) THEN At("done", t, {}, 0, "accepted", gone[t.signer], kept)
                         ELSE At("done", t, {}, 0, "rejected", 0, kept)

\* Mutant: a lookup renews the entry (get in place of peek).
Validate_Renews(r, t) ==
    LET kept == OnOffer(t.signer, served) IN
    /\ req[r].pc \in {"idle", "done"}
    /\ req' = [req EXCEPT ![r] =
                 IF Fresh /\ \E j \in cache.keys : Matches(j, t) THEN Verdict(cache.keys, t, kept)
                 ELSE At("fetch", t, {}, 0, "none", 0, kept)]
    /\ cache' = IF Fresh THEN Cached(cache.keys, 0) ELSE cache
    /\ UNCHANGED <<served, gone, steady>>

\* Mutant: cached keys decide also when none of them matches the header.
Validate_NoRefresh(r, t) ==
    LET kept == OnOffer(t.signer, served) IN
    /\ req[r].pc \in {"idle", "done"}
    /\ req' = [req EXCEPT ![r] =
                 IF Fresh THEN Verdict(cache.keys, t, kept)
                 ELSE At("fetch", t, {}, 0, "none", 0, kept)]
    /\ UNCHANGED <<served, cache, gone, steady>>

\* validate up to the answer of the cache, under the read lock. A cached key
\* that matches the header decides; there is no refresh when it rejects.
Validate(r, t) ==
    LET kept == OnOffer(t.signer, served) IN
    /\ req[r].pc \in {"idle", "done"}
    /\ req' = [req EXCEPT ![r] =
                 IF Fresh /\ \E j \in cache.keys : Matches(j, t) THEN Verdict(cache.keys, t, kept)
                 ELSE At("fetch", t, {}, 0, "none", 0, kept)]
    /\ UNCHANGED <<served, cache, gone, steady>>

\* Mutant: every key of the document is taken for a verification key.
FetchAnswered_Unfiltered(r) ==
    LET x == req[r] IN
    /\ x.pc = "fetch"
    /\ FetchOk(served)
    /\ req' = [req EXCEPT ![r] = At("insert", x.token, served, 0, "none", 0, x.kept)]
    /\ UNCHANGED <<served, cache, gone, steady>>

\* The issuer answers the GET with the document it has now.
FetchAnswered(r) ==
    LET x == req[r] IN
    /\ x.pc = "fetch"
    /\ FetchOk(served)
    /\ req' = [req EXCEPT ![r] = At("insert", x.token, VerificationKeys(served), 0, "none", 0, x.kept)]
    /\ UNCHANGED <<served, cache, gone, steady>>

\* Mutant: a failed refresh gives the cached keys another lifetime.
FetchFails_KeepsKeys(r) ==
    LET x == req[r] IN
    /\ x.pc \in {"fetch", "insert"}
    /\ req' = [req EXCEPT ![r] = At("done", x.token, {}, 0, "unavailable", 0, x.kept)]
    /\ cache' = Cached(cache.keys, 0)
    /\ UNCHANGED <<served, gone, steady>>

\* No answer, an error status, an oversized body, or a document that yields no
\* key set: the token is rejected and the cache left alone.
FetchFails(r) ==
    LET x == req[r] IN
    /\ x.pc \in {"fetch", "insert"}
    /\ req' = [req EXCEPT ![r] = At("done", x.token, {}, 0, "unavailable", 0, x.kept)]
    /\ UNCHANGED <<served, cache, gone, steady>>

\* The fetched keys decide, and replace whatever the cache holds by now.
Refresh(r) ==
    LET x == req[r] IN
    /\ x.pc = "insert"
    /\ cache' = Cached(x.keys, 0)
    /\ req' = [req EXCEPT ![r] = Verdict(x.keys, x.token, x.kept)]
    /\ UNCHANGED <<served, gone, steady>>

StillKept(x, doc) ==
    IF x.pc = "done" THEN x
    ELSE At(x.pc, x.token, x.keys, x.wait, x.out, x.lag, x.kept /\ OnOffer(x.token.signer, doc))

\* The issuer publishes another document.
Rotate(doc) ==
    /\ doc # served
    /\ served' = doc
    /\ gone' = [j \in VerificationKeys(Jwk) |-> IF OnOffer(j, doc) THEN 0 ELSE gone[j]]
    /\ steady' = 0
    /\ req' = [r \in Request |-> StillKept(req[r], doc)]
    /\ UNCHANGED cache

Older(x) ==
    IF x.pc # "insert" THEN x
    ELSE At(x.pc, x.token, x.keys, x.wait + 1, x.out, x.lag, x.kept)

\* A tick passes. An answered fetch is inserted, or timed out, within Latency.
Tick ==
    /\ \A r \in Request : req[r].pc = "insert" => req[r].wait < Latency
    /\ cache' = Cached(cache.keys, IF cache.age < TTL THEN cache.age + 1 ELSE TTL)
    /\ req' = [r \in Request |-> Older(req[r])]
    /\ gone' = [j \in VerificationKeys(Jwk) |->
                  IF OnOffer(j, served) THEN 0
                  ELSE IF gone[j] < MaxGone THEN gone[j] + 1 ELSE MaxGone]
    /\ steady' = IF steady < MaxSteady THEN steady + 1 ELSE MaxSteady
    /\ UNCHANGED served

Next ==
    \/ \E r \in Request :
          \/ \E t \in Token : Validate(r, t)
          \/ FetchAnswered(r) \/ FetchFails(r) \/ Refresh(r)
    \/ \E doc \in Document : Rotate(doc)
    \/ Tick

Spec == Init /\ [][Next]_vars

-----------------------------------------------------------------------------
(* Properties *)

\* Every variable keeps the shape the verifier's types give it, and only keys
\* of a usable kind are ever held.
TypeOK ==
    /\ served \in Document
    /\ cache \in [keys : SUBSET VerificationKeys(Jwk), age : 0 .. TTL]
    /\ req \in [Request -> RequestState]
    /\ gone \in [VerificationKeys(Jwk) -> 0 .. MaxGone]
    /\ steady \in 0 .. MaxSteady

\* An accepted token was signed by a key the issuer served less than the cache
\* lifetime plus one fetch ago. Overlapping refreshes that finish out of order,
\* failed refreshes and steady traffic never keep a removed key longer.
RemovedKeyExpires ==
    \A r \in Request : req[r].out = "accepted" => req[r].lag < TTL + Latency

\* Once the issuer's document has been the same for the cache lifetime plus
\* one fetch, the cache holds exactly that document: a replaced key that shares
\* its id with the old one is picked up, and no late refresh undoes it.
CacheSettles ==
    Fresh /\ steady >= TTL + Latency =>
        FetchOk(served) /\ cache.keys = VerificationKeys(served)

\* A token no other key matches, signed by a key on offer throughout its
\* validation, is rejected only by a failed fetch: whatever the cache holds, a
\* key id it does not know leads to a refresh (Jwks::validate).
NewKeyAccepted ==
    \A r \in Request :
        LET x == req[r] IN
        /\ x.pc = "done" /\ x.kept /\ x.token.timely
        /\ Matches(x.token.signer, x.token)
        /\ \A j \in Jwk : Kind[j] # "skipped" /\ Matches(j, x.token) => j = x.token.signer
        => x.out # "rejected"

=============================================================================
