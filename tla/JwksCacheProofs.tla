-------------------------- MODULE JwksCacheProofs --------------------------
(***************************************************************************)
(* Invariance proofs for JwksCache, for every set of keys, documents and   *)
(* tokens, every cache lifetime and latency, and any number of concurrent  *)
(* validations.                                                            *)
(***************************************************************************)
EXTENDS JwksCache, TLAPS

\* Every key of keys was on offer at most n ticks ago.
Recent(keys, n) == \A j \in keys : gone[j] <= n

\* keys is what the issuer offers, or its document changed at most n ticks ago.
Current(keys, n) == steady <= n \/ (FetchOk(served) /\ keys = VerificationKeys(served))

\* What the invariant says of one validation.
GoodRequest(x) ==
    /\ x.pc = "insert" => Recent(x.keys, x.wait) /\ Current(x.keys, x.wait)
    /\ x.pc = "fetch" /\ x.kept => OnOffer(x.token.signer, served)
    /\ x.pc = "insert" /\ x.kept => OnOffer(x.token.signer, served) /\ x.token.signer \in x.keys

\* The keys of the cache are at most a fetch older than their age.
GoodCache ==
    Fresh => Recent(cache.keys, cache.age + Latency) /\ Current(cache.keys, cache.age + Latency)

\* What RemovedKeyExpires and NewKeyAccepted say of one validation.
Expires(x) == x.out = "accepted" => x.lag < TTL + Latency
Accepts(x) ==
    /\ x.pc = "done" /\ x.kept /\ x.token.timely
    /\ Matches(x.token.signer, x.token)
    /\ \A j \in Jwk : Kind[j] # "skipped" /\ Matches(j, x.token) => j = x.token.signer
    => x.out # "rejected"

\* A validation that satisfies all of it.
Sound(x) == x \in RequestState /\ GoodRequest(x) /\ Expires(x) /\ Accepts(x)

\* The clock of a key on offer stands still.
OfferedNow == \A j \in VerificationKeys(Jwk) : OnOffer(j, served) => gone[j] = 0

\* Inductive: an answer in flight bounds what a refresh may install, and the
\* age of the entry bounds what it has become since.
JwksInv ==
    /\ TypeOK
    /\ GoodCache
    /\ OfferedNow
    /\ \A r \in Request : Sound(req[r])

\* Numeric facts about the bounds.
LEMMA JwksBounds ==
    TTL \in Nat /\ TTL > 0 /\ Latency \in Nat /\ MaxGone \in Nat /\ MaxSteady \in Nat
    /\ MaxGone = TTL + Latency /\ MaxSteady = TTL + Latency
  BY JwksAssumption DEF MaxGone, MaxSteady

\* A token's signer is a verification key.
LEMMA SignerFact == ASSUME NEW t \in Token PROVE t.signer \in VerificationKeys(Jwk) /\ t.timely \in BOOLEAN
  BY JwksAssumption DEF Presentable

\* The verification keys of a document are keys, and the ones a signer is among.
LEMMA KeysFact ==
    ASSUME NEW doc \in SUBSET Jwk
    PROVE  /\ VerificationKeys(doc) \in SUBSET VerificationKeys(Jwk)
           /\ \A j \in VerificationKeys(Jwk) : j \in doc => j \in VerificationKeys(doc)
  BY DEF VerificationKeys

\* A verdict from keys on offer recently enough is sound, if the signer is
\* among them whenever it has been on offer throughout and is unmistakable.
LEMMA VerdictSound ==
    ASSUME TypeOK, NEW t \in Token, NEW keys \in SUBSET VerificationKeys(Jwk), NEW kept \in BOOLEAN,
           Recent(keys, TTL + Latency - 1),
           \/ \E j \in keys : Matches(j, t)
           \/ kept => t.signer \in keys
    PROVE  Sound(Verdict(keys, t, kept))
  <1> DEFINE x == Verdict(keys, t, kept)
  <1>1. gone[t.signer] \in 0 .. MaxGone /\ 0 \in 0 .. MaxGone /\ 0 \in 0 .. Latency
    BY SignerFact, JwksBounds DEF TypeOK
  <1>2. CASE Verifies(keys, t)
    <2>1. x = At("done", t, {}, 0, "accepted", gone[t.signer], kept)
      BY <1>2 DEF Verdict
    <2>2. x \in RequestState /\ x.pc = "done" /\ x.out = "accepted" /\ x.lag = gone[t.signer]
      BY <1>1, <2>1 DEF At, RequestState, Out
    <2>3. gone[t.signer] <= TTL + Latency - 1
      BY <1>2 DEF Verifies, Recent
    <2>4. QED
      BY <1>1, <2>2, <2>3, JwksBounds DEF Sound, GoodRequest, Expires, Accepts
  <1>3. CASE ~Verifies(keys, t)
    <2>1. x = At("done", t, {}, 0, "rejected", 0, kept)
      BY <1>3 DEF Verdict
    <2>2. x \in RequestState /\ x.pc = "done" /\ x.out = "rejected" /\ x.kept = kept /\ x.token = t
      BY <1>1, <2>1 DEF At, RequestState, Out
    <2>3. ASSUME kept, t.timely, Matches(t.signer, t),
                 \A j \in Jwk : Kind[j] # "skipped" /\ Matches(j, t) => j = t.signer
          PROVE  FALSE
      <3>1. t.signer \in keys
        BY <2>3 DEF VerificationKeys
      <3>2. QED
        BY <1>3, <2>3, <3>1 DEF Verifies
    <2>4. QED
      BY <2>2, <2>3 DEF Sound, GoodRequest, Expires, Accepts
  <1>4. QED
    BY <1>2, <1>3

\* Replacing one validation by a sound one, with the issuer and the clock still,
\* keeps them all sound.
LEMMA OneRequest ==
    ASSUME JwksInv, NEW r \in Request, NEW x, Sound(x), req' = [req EXCEPT ![r] = x],
           UNCHANGED <<served, gone, steady>>
    PROVE  req' \in [Request -> RequestState] /\ (\A q \in Request : Sound(req[q]))'
  <1>1. \A q \in Request : Sound(req[q])
    BY DEF JwksInv
  <1>2. \A q \in Request : Sound(req'[q])
    BY <1>1 DEF JwksInv, TypeOK
  <1>3. req' \in [Request -> RequestState]
    BY <1>1 DEF JwksInv, TypeOK, Sound
  <1>4. \A q \in Request : Sound(req[q])'
    BY <1>2 DEF Sound, GoodRequest, Recent, Current, Expires, Accepts
  <1>5. QED
    BY <1>3, <1>4

\* The same, when the cache is left alone too.
LEMMA OneRequestOnly ==
    ASSUME JwksInv, NEW r \in Request, NEW x, Sound(x), req' = [req EXCEPT ![r] = x],
           UNCHANGED <<served, cache, gone, steady>>
    PROVE  JwksInv'
  <1>1. req' \in [Request -> RequestState] /\ (\A q \in Request : Sound(req[q]))'
    BY OneRequest
  <1>2. TypeOK'
    BY <1>1 DEF JwksInv, TypeOK
  <1>3. GoodCache'
    BY DEF JwksInv, GoodCache, Fresh, Recent, Current
  <1>4. QED
    BY <1>1, <1>2, <1>3 DEF JwksInv, OfferedNow

\* A new verifier: nothing is cached or in flight.
LEMMA JwksInit == Init => JwksInv
  <1> SUFFICES ASSUME Init PROVE JwksInv
    OBVIOUS
  <1>1. PICK t \in Token : req = [r \in Request |-> At("idle", t, {}, 0, "none", 0, FALSE)]
    BY DEF Init
  <1>2. Sound(At("idle", t, {}, 0, "none", 0, FALSE))
    BY JwksBounds DEF Sound, GoodRequest, Expires, Accepts, At, RequestState, Out
  <1>3. \A r \in Request : Sound(req[r])
    BY <1>1, <1>2
  <1>4. req \in [Request -> RequestState]
    BY <1>1, <1>2 DEF Sound
  <1>5. cache \in [keys : SUBSET VerificationKeys(Jwk), age : 0 .. TTL] /\ ~Fresh
    BY JwksBounds DEF Init, Cached, Fresh
  <1>6. gone \in [VerificationKeys(Jwk) -> 0 .. MaxGone] /\ steady \in 0 .. MaxSteady
    BY JwksBounds DEF Init
  <1>7. TypeOK /\ GoodCache
    BY <1>4, <1>5, <1>6 DEF Init, TypeOK, GoodCache
  <1>8. QED
    BY <1>3, <1>7 DEF JwksInv, Init, OfferedNow

\* A lookup decides from cached keys within their lifetime, or goes to fetch.
LEMMA ValidateKeeps ==
    ASSUME JwksInv, NEW r \in Request, NEW t \in Token, Validate(r, t) PROVE JwksInv'
  <1> DEFINE kept == OnOffer(t.signer, served)
  <1>0. kept \in BOOLEAN
    BY DEF OnOffer, FetchOk
  <1>1. CASE Fresh /\ \E j \in cache.keys : Matches(j, t)
    <2>1. cache.keys \in SUBSET VerificationKeys(Jwk) /\ cache.age \in 0 .. TTL
      BY DEF JwksInv, TypeOK
    <2>2. Recent(cache.keys, TTL + Latency - 1)
      <3>1. SUFFICES ASSUME NEW j \in cache.keys PROVE gone[j] <= TTL + Latency - 1
        BY DEF Recent
      <3>2. gone[j] <= cache.age + Latency /\ cache.age < TTL
        BY <1>1 DEF JwksInv, GoodCache, Recent, Fresh
      <3>3. gone[j] \in Nat
        BY <2>1 DEF JwksInv, TypeOK
      <3>4. QED
        BY <2>1, <3>2, <3>3, JwksBounds
    <2>3. Sound(Verdict(cache.keys, t, kept))
      BY <1>0, <1>1, <2>1, <2>2, VerdictSound DEF JwksInv
    <2>4. req' = [req EXCEPT ![r] = Verdict(cache.keys, t, kept)]
      BY <1>1 DEF Validate
    <2>5. QED
      BY <2>3, <2>4, OneRequestOnly DEF Validate
  <1>2. CASE ~(Fresh /\ \E j \in cache.keys : Matches(j, t))
    <2>1. Sound(At("fetch", t, {}, 0, "none", 0, kept))
      BY <1>0, JwksBounds DEF Sound, GoodRequest, Expires, Accepts, At, RequestState, Out
    <2>2. req' = [req EXCEPT ![r] = At("fetch", t, {}, 0, "none", 0, kept)]
      BY <1>2 DEF Validate
    <2>3. QED
      BY <2>1, <2>2, OneRequestOnly DEF Validate
  <1>3. QED
    BY <1>1, <1>2

\* The answer of the issuer is what it offers at that moment.
LEMMA FetchAnsweredKeeps ==
    ASSUME JwksInv, NEW r \in Request, FetchAnswered(r) PROVE JwksInv'
  <1> DEFINE x == req[r]
             keys == VerificationKeys(served)
  <1>1. x \in RequestState /\ x.token \in Token /\ x.kept \in BOOLEAN /\ served \in SUBSET Jwk
    BY JwksAssumption DEF JwksInv, TypeOK, RequestState
  <1>2. keys \in SUBSET VerificationKeys(Jwk)
    BY <1>1, KeysFact
  <1>3. Recent(keys, 0)
    <2>1. SUFFICES ASSUME NEW j \in keys PROVE gone[j] = 0
      BY DEF Recent
    <2>2. j \in served /\ j \in VerificationKeys(Jwk)
      BY <1>2 DEF VerificationKeys
    <2>3. QED
      BY <2>2 DEF JwksInv, OfferedNow, OnOffer, FetchAnswered
  <1>4. Current(keys, 0)
    BY DEF Current, FetchAnswered
  <1>5. x.kept => OnOffer(x.token.signer, served) /\ x.token.signer \in keys
    BY <1>1, SignerFact, KeysFact DEF JwksInv, Sound, GoodRequest, FetchAnswered, OnOffer
  <1> HIDE DEF keys
  <1>6. Sound(At("insert", x.token, keys, 0, "none", 0, x.kept))
    BY <1>1, <1>2, <1>3, <1>4, <1>5, JwksBounds
    DEF Sound, GoodRequest, Expires, Accepts, At, RequestState, Out
  <1>7. req' = [req EXCEPT ![r] = At("insert", x.token, keys, 0, "none", 0, x.kept)]
    BY DEF FetchAnswered, keys
  <1>8. QED
    BY <1>6, <1>7, OneRequestOnly DEF FetchAnswered

\* A failed fetch ends the validation and changes nothing else.
LEMMA FetchFailsKeeps ==
    ASSUME JwksInv, NEW r \in Request, FetchFails(r) PROVE JwksInv'
  <1> DEFINE x == req[r]
  <1>1. x.token \in Token /\ x.kept \in BOOLEAN
    BY DEF JwksInv, TypeOK, RequestState
  <1>2. Sound(At("done", x.token, {}, 0, "unavailable", 0, x.kept))
    BY <1>1, JwksBounds DEF Sound, GoodRequest, Expires, Accepts, At, RequestState, Out
  <1>3. QED
    BY <1>2, OneRequestOnly DEF FetchFails

\* A refresh installs keys that were on offer within the latency, however many
\* other refreshes came first.
LEMMA RefreshKeeps ==
    ASSUME JwksInv, NEW r \in Request, Refresh(r) PROVE JwksInv'
  <1> DEFINE x == req[r]
  <1>1. /\ x.token \in Token /\ x.kept \in BOOLEAN /\ x.keys \in SUBSET VerificationKeys(Jwk)
        /\ x.wait \in 0 .. Latency
    BY DEF JwksInv, TypeOK, RequestState
  <1>2. Recent(x.keys, x.wait) /\ Current(x.keys, x.wait) /\ (x.kept => x.token.signer \in x.keys)
    BY DEF JwksInv, Sound, GoodRequest, Refresh
  <1>3. \A j \in x.keys : gone[j] \in Nat
    BY <1>1 DEF JwksInv, TypeOK
  <1>4. Recent(x.keys, TTL + Latency - 1) /\ Recent(x.keys, Latency)
    BY <1>1, <1>2, <1>3, JwksBounds DEF Recent
  <1>5. Current(x.keys, Latency)
    BY <1>1, <1>2, JwksBounds DEF Current, JwksInv, TypeOK
  <1>6. Sound(Verdict(x.keys, x.token, x.kept))
    BY <1>1, <1>2, <1>4, VerdictSound DEF JwksInv
  <1>7. req' \in [Request -> RequestState] /\ (\A q \in Request : Sound(req[q]))'
    BY <1>6, OneRequest DEF Refresh
  <1>8. cache' = Cached(x.keys, 0) /\ cache'.keys = x.keys /\ cache'.age = 0
    BY DEF Refresh, Cached
  <1>9. cache' \in [keys : SUBSET VerificationKeys(Jwk), age : 0 .. TTL]
    BY <1>1, <1>8, JwksBounds DEF Cached
  <1>10. TypeOK'
    BY <1>7, <1>9 DEF JwksInv, TypeOK, Refresh
  <1>11. GoodCache'
    BY <1>4, <1>5, <1>8, JwksBounds DEF GoodCache, Recent, Current, Refresh
  <1>12. QED
    BY <1>7, <1>10, <1>11 DEF JwksInv, OfferedNow, Refresh

\* A rotation restarts the clock of the document, stops those of the keys now
\* on offer, and takes the mark from validations whose signer is not.
LEMMA RotateKeeps ==
    ASSUME JwksInv, NEW doc \in Document, Rotate(doc) PROVE JwksInv'
  <1>1. gone' \in [VerificationKeys(Jwk) -> 0 .. MaxGone] /\ steady' = 0
    BY JwksBounds DEF Rotate, JwksInv, TypeOK
  <1>2. \A j \in VerificationKeys(Jwk) : gone[j] \in Nat /\ (gone'[j] = 0 \/ gone'[j] = gone[j])
    BY DEF Rotate, JwksInv, TypeOK
  <1>3. OfferedNow'
    BY DEF Rotate, OfferedNow
  <1>4. GoodCache'
    <2>1. cache.keys \in SUBSET VerificationKeys(Jwk) /\ cache.age \in Nat /\ cache' = cache
      BY DEF Rotate, JwksInv, TypeOK
    <2>2. QED
      BY <1>1, <1>2, <2>1, JwksBounds DEF JwksInv, GoodCache, Fresh, Recent, Current
  <1>5. ASSUME NEW r \in Request PROVE Sound(req[r])' /\ req'[r] \in RequestState
    <2> DEFINE x == req[r]
    <2>0. Sound(x) /\ x \in RequestState /\ req'[r] = StillKept(x, doc)
      BY DEF JwksInv, TypeOK, Rotate
    <2>1. CASE x.pc = "done"
      BY <2>0, <2>1 DEF Sound, StillKept, GoodRequest, Expires, Accepts
    <2>2. CASE x.pc # "done"
      <3> DEFINE kept == x.kept /\ OnOffer(x.token.signer, doc)
                 y == At(x.pc, x.token, x.keys, x.wait, x.out, x.lag, kept)
      <3>1. req'[r] = y
        BY <2>0, <2>2 DEF StillKept
      <3>2. kept \in BOOLEAN
        BY DEF OnOffer, FetchOk
      <3>3. /\ y \in RequestState
            /\ y.pc = x.pc /\ y.token = x.token /\ y.keys = x.keys /\ y.wait = x.wait
            /\ y.out = x.out /\ y.lag = x.lag
        BY <2>0, <3>2 DEF At, RequestState
      <3>4. y.kept => x.kept /\ OnOffer(x.token.signer, doc)
        BY DEF At
      <3> HIDE DEF y
      <3>5. x.keys \in SUBSET VerificationKeys(Jwk) /\ x.wait \in Nat
        BY <2>0, JwksBounds DEF RequestState
      <3>6. served' = doc
        BY DEF Rotate
      <3>7. GoodRequest(req[r])'
        BY <1>1, <1>2, <2>0, <3>1, <3>3, <3>4, <3>5, <3>6 DEF Sound, GoodRequest, Recent, Current
      <3>8. QED
        BY <2>0, <2>2, <3>1, <3>3, <3>7 DEF Sound, Expires, Accepts
    <2>3. QED
      BY <2>1, <2>2
  <1>6. req' \in [Request -> RequestState]
    BY <1>5 DEF Rotate
  <1>7. TypeOK'
    BY <1>1, <1>6, JwksBounds DEF Rotate, JwksInv, TypeOK
  <1>8. QED
    BY <1>3, <1>4, <1>5, <1>7 DEF JwksInv

\* A tick ages the cache and what is in flight as fast as it ages the keys.
LEMMA TickKeeps == ASSUME JwksInv, Tick PROVE JwksInv'
  <1>1. /\ gone' \in [VerificationKeys(Jwk) -> 0 .. MaxGone]
        /\ steady' \in 0 .. MaxSteady /\ steady' <= steady + 1
        /\ \A j \in VerificationKeys(Jwk) : gone[j] \in Nat /\ gone'[j] <= gone[j] + 1
    BY JwksBounds DEF Tick, JwksInv, TypeOK
  <1>2. OfferedNow'
    BY DEF Tick, OfferedNow
  <1>3. /\ cache'.keys = cache.keys /\ cache.keys \in SUBSET VerificationKeys(Jwk)
        /\ cache.age \in Nat /\ cache' \in [keys : SUBSET VerificationKeys(Jwk), age : 0 .. TTL]
        /\ cache'.age < TTL => cache'.age = cache.age + 1 /\ cache.age < TTL
    BY JwksBounds DEF Tick, JwksInv, TypeOK, Cached
  <1>4. GoodCache'
    <2>1. SUFFICES ASSUME Fresh' PROVE (Recent(cache.keys, cache.age + Latency) /\ Current(cache.keys, cache.age + Latency))'
      BY DEF GoodCache
    <2>2. Recent(cache.keys, cache.age + Latency) /\ Current(cache.keys, cache.age + Latency)
      BY <1>3, <2>1 DEF JwksInv, GoodCache, Fresh
    <2>3. cache'.age = cache.age + 1
      BY <1>3, <2>1 DEF Fresh
    <2>4. \A j \in cache.keys : gone'[j] \in Nat /\ gone[j] \in Nat /\ gone'[j] <= gone[j] + 1
      BY <1>1, <1>3
    <2>5. steady \in Nat /\ steady' \in Nat /\ steady' <= steady + 1 /\ served' = served
      BY <1>1, JwksBounds DEF Tick, JwksInv, TypeOK
    <2>6. QED
      BY <1>3, <2>2, <2>3, <2>4, <2>5, JwksBounds DEF Recent, Current
  <1>5. ASSUME NEW r \in Request PROVE Sound(req[r])' /\ req'[r] \in RequestState
    <2> DEFINE x == req[r]
    <2>0. Sound(x) /\ x \in RequestState /\ req'[r] = Older(x) /\ served' = served
      BY DEF JwksInv, TypeOK, Tick
    <2>1. CASE x.pc # "insert"
      BY <2>0, <2>1 DEF Sound, Older, GoodRequest, Expires, Accepts
    <2>2. CASE x.pc = "insert"
      <3> DEFINE y == At(x.pc, x.token, x.keys, x.wait + 1, x.out, x.lag, x.kept)
      <3>1. req'[r] = y
        BY <2>0, <2>2 DEF Older
      <3>2. x.wait + 1 \in 0 .. Latency /\ x.wait \in Nat /\ x.keys \in SUBSET VerificationKeys(Jwk)
        BY <2>0, <2>2, JwksBounds DEF Tick, RequestState
      <3>3. /\ y \in RequestState
            /\ y.pc = x.pc /\ y.token = x.token /\ y.keys = x.keys /\ y.wait = x.wait + 1
            /\ y.out = x.out /\ y.lag = x.lag /\ y.kept = x.kept
        BY <2>0, <3>2 DEF At, RequestState
      <3> HIDE DEF y
      <3>4. \A j \in x.keys : gone'[j] \in Nat /\ gone[j] \in Nat /\ gone'[j] <= gone[j] + 1
        BY <1>1, <3>2
      <3>5. steady \in Nat /\ steady' \in Nat /\ steady' <= steady + 1
        BY <1>1, JwksBounds DEF JwksInv, TypeOK
      <3>6. GoodRequest(req[r])'
        BY <2>0, <2>2, <3>1, <3>2, <3>3, <3>4, <3>5 DEF Sound, GoodRequest, Recent, Current
      <3>7. QED
        BY <2>0, <2>2, <3>1, <3>3, <3>6 DEF Sound, Expires, Accepts
    <2>3. QED
      BY <2>1, <2>2
  <1>6. req' \in [Request -> RequestState]
    BY <1>5 DEF Tick
  <1>7. TypeOK'
    BY <1>1, <1>3, <1>6 DEF Tick, JwksInv, TypeOK
  <1>8. QED
    BY <1>2, <1>4, <1>5, <1>7 DEF JwksInv

\* Every step keeps the invariant.
LEMMA JwksNext == JwksInv /\ [Next]_vars => JwksInv'
  <1> SUFFICES ASSUME JwksInv, [Next]_vars PROVE JwksInv'
    OBVIOUS
  <1>1. CASE UNCHANGED vars
    BY <1>1
    DEF vars, JwksInv, TypeOK, GoodCache, OfferedNow, Fresh, Recent, Current, Sound, GoodRequest, Expires, Accepts
  <1>2. QED
    BY <1>1, ValidateKeeps, FetchAnsweredKeeps, FetchFailsKeeps, RefreshKeeps, RotateKeeps, TickKeeps
    DEF Next

-----------------------------------------------------------------------------
(* Theorems *)

\* The inductive invariant holds in every reachable state.
LEMMA JwksInvAlways == Spec => []JwksInv
  BY JwksInit, JwksNext, PTL DEF Spec

\* The verifier's variables keep their types; in particular only signature keys
\* of the supported families are ever cached (VerificationKey::from_jwk).
THEOREM JwksTypeCorrect == Spec => []TypeOK
  <1>1. JwksInv => TypeOK
    BY DEF JwksInv
  <1>2. QED
    BY <1>1, JwksInvAlways, PTL

\* No token is accepted on a key that has been off offer for the cache lifetime
\* plus one fetch, for any number of overlapping validations.
THEOREM RemovedKeysExpire == Spec => []RemovedKeyExpires
  <1>1. JwksInv => RemovedKeyExpires
    BY DEF JwksInv, Sound, Expires, RemovedKeyExpires
  <1>2. QED
    BY <1>1, JwksInvAlways, PTL

\* A document left in place for the cache lifetime plus one fetch is the only
\* one the cache can hold.
THEOREM CacheIsSettled == Spec => []CacheSettles
  <1>1. JwksInv => CacheSettles
    <2>1. SUFFICES ASSUME JwksInv, Fresh, steady >= TTL + Latency
                   PROVE  FetchOk(served) /\ cache.keys = VerificationKeys(served)
      BY DEF CacheSettles
    <2>2. Current(cache.keys, cache.age + Latency) /\ cache.age < TTL
      BY <2>1 DEF JwksInv, GoodCache, Fresh
    <2>3. steady \in Nat /\ cache.age \in Nat
      BY <2>1, JwksBounds DEF JwksInv, TypeOK
    <2>4. QED
      BY <2>1, <2>2, <2>3, JwksBounds DEF Current
  <1>2. QED
    BY <1>1, JwksInvAlways, PTL

\* A token that only its signer's key matches is not rejected on account of a
\* stale cache while that key is on offer.
THEOREM NewKeysAccepted == Spec => []NewKeyAccepted
  <1>1. JwksInv => NewKeyAccepted
    BY DEF JwksInv, Sound, Accepts, NewKeyAccepted
  <1>2. QED
    BY <1>1, JwksInvAlways, PTL

=============================================================================
