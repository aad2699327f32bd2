----------------------- MODULE UserConfigStoreProofs -----------------------
(***************************************************************************)
(* The staleness bound of UserConfigStore, for every expiry (zero         *)
(* included), latency, capacity and number of users, configurations and   *)
(* concurrent requests.                                                    *)
(***************************************************************************)
EXTENDS UserConfigStore, TLAPS

\* A configuration in hand left Redis no longer ago than it has been waiting.
HandFresh(x) == InHand(x) => x.value \in Config /\ x.stale <= x.wait

\* set_config carries a configuration from the start.
SetCarries(x) == x.pc = "set" => x.value \in Config

\* A fresh entry left Redis at most its age plus one insert latency ago.
EntryFresh(e) == IsFresh(e) => e.stale <= e.age + Latency

\* What BoundedStaleness says of one request.
Bounded(x) == x.pc = "done" /\ x.out \in {"hit", "ok"} => x.stale <= StalenessBound

\* Everything the invariant says of one request and of one entry.
GoodRequest(x) ==
    /\ x \in RequestState
    /\ HandFresh(x)
    /\ SetCarries(x)
    /\ Bounded(x)

GoodEntry(e) == e \in Entry \cup {NoEntry} /\ EntryFresh(e)

\* Inductive: the bound on what is returned follows from a bound on what is in
\* hand and a bound, growing with age, on what is cached.
StaleInv ==
    /\ redis \in [Key -> Value]
    /\ up \in BOOLEAN
    /\ wrote \in [Key -> Config \cup {Absent}]
    /\ cache \in [Key -> Entry \cup {NoEntry}]
    /\ req \in [Request -> RequestState]
    /\ \A k \in Key : GoodEntry(cache[k])
    /\ \A r \in Request : GoodRequest(req[r])

-----------------------------------------------------------------------------
(* The values the actions build *)

Pc  == {"idle", "get", "fill", "set", "insert", "done"}
Out == {"none", "hit", "ok", "no_data", "wrong_format", "written", "cant_write"}

\* The fields of a request state are what At puts there.
LEMMA AtFields ==
    ASSUME NEW pc \in Pc, NEW k \in Key, NEW v \in Config \cup {Absent},
           NEW wait \in 0 .. Latency, NEW stale \in 0 .. MaxStale, NEW out \in Out
    PROVE  LET x == At(pc, k, v, wait, stale, out) IN
           /\ x \in RequestState
           /\ x.pc = pc /\ x.key = k /\ x.value = v /\ x.wait = wait
           /\ x.stale = stale /\ x.out = out
  BY DEF At, RequestState, Pc, Out

\* Bounds the ranges of the types are made of.
LEMMA Bounds ==
    /\ MaxStale \in Nat /\ Latency \in Nat /\ Expiry \in Nat
    /\ StalenessBound \in Nat /\ Latency <= StalenessBound /\ StalenessBound <= MaxStale
    /\ Absent \notin Config /\ Garbled \notin Config
  BY StoreAssumption DEF MaxStale, StalenessBound

\* A request that is over, without a configuration, is good.
LEMMA DoneWithout ==
    ASSUME NEW k \in Key, NEW out \in {"no_data", "wrong_format", "written", "cant_write"}
    PROVE  GoodRequest(Done(k, Absent, 0, out))
  BY AtFields, Bounds DEF GoodRequest, HandFresh, SetCarries, Bounded, InHand, Done, At, RequestState

\* A request that returns a configuration within the bound is good.
LEMMA DoneWith ==
    ASSUME NEW k \in Key, NEW v \in Config, NEW stale \in 0 .. MaxStale,
           stale <= StalenessBound, NEW out \in {"hit", "ok"}
    PROVE  GoodRequest(Done(k, v, stale, out))
  BY AtFields, Bounds DEF GoodRequest, HandFresh, SetCarries, Bounded, InHand, Done, At, RequestState

\* A request with a configuration that Redis has just given or taken is good.
LEMMA JustAnswered ==
    ASSUME NEW k \in Key, NEW v \in Config, NEW pc \in {"fill", "insert", "set"}
    PROVE  GoodRequest(At(pc, k, v, 0, 0, "none"))
  BY AtFields, Bounds DEF GoodRequest, HandFresh, SetCarries, Bounded, InHand, At, RequestState

\* A request that has just missed the cache is good.
LEMMA Missed == ASSUME NEW k \in Key PROVE GoodRequest(At("get", k, Absent, 0, 0, "none"))
  BY AtFields, Bounds DEF GoodRequest, HandFresh, SetCarries, Bounded, InHand, At, RequestState

\* A change of Redis can only make a request's configuration less stale.
LEMMA RestampKeeps ==
    ASSUME NEW x, GoodRequest(x) PROVE GoodRequest(RestampRequest(x))
  <1>1. CASE ~InHand(x)
    BY <1>1 DEF RestampRequest
  <1>2. CASE InHand(x)
    <2>1. Restamp(x.value, x.key, x.stale) \in 0 .. x.stale
      BY Bounds DEF Restamp, GoodRequest, RequestState
    <2>2. QED
      BY <1>2, <2>1, Bounds
      DEF GoodRequest, HandFresh, SetCarries, Bounded, InHand, At, RestampRequest, RequestState
  <1>3. QED
    BY <1>1, <1>2

\* The same for an entry.
LEMMA RestampEntryKeeps ==
    ASSUME NEW e, NEW k, GoodEntry(e) PROVE GoodEntry(RestampEntry(e, k))
  <1>1. CASE e.value = Absent
    BY <1>1 DEF RestampEntry
  <1>2. CASE e.value # Absent
    <2>1. e \in Entry
      BY <1>2 DEF GoodEntry, NoEntry
    <2>2. Restamp(e.value, k, e.stale) \in 0 .. e.stale
      BY <2>1, Bounds DEF Restamp, Entry
    <2>3. QED
      BY <1>2, <2>1, <2>2, Bounds DEF GoodEntry, EntryFresh, IsFresh, RestampEntry, Entry
  <1>3. QED
    BY <1>1, <1>2

\* A tick keeps an entry within its bound: it ages as fast as it gets stale.
LEMMA AgeEntryKeeps ==
    ASSUME NEW e, NEW k, GoodEntry(e) PROVE GoodEntry(AgeEntry(e, k))
  <1>1. CASE e.value = Absent
    BY <1>1 DEF AgeEntry
  <1>2. CASE e.value # Absent
    <2>1. e \in Entry
      BY <1>2 DEF GoodEntry, NoEntry
    <2>2. Older(e.stale) \in 0 .. MaxStale /\ Older(e.stale) <= e.stale + 1
      BY <2>1, Bounds DEF Older, Entry
    <2>3. QED
      BY <1>2, <2>1, <2>2, Bounds DEF GoodEntry, EntryFresh, IsFresh, AgeEntry, Entry
  <1>3. QED
    BY <1>1, <1>2

\* A tick keeps a request good, as long as it may still wait.
LEMMA AgeRequestKeeps ==
    ASSUME NEW x, GoodRequest(x), InHand(x) => x.wait < Latency
    PROVE  GoodRequest(AgeRequest(x))
  <1>1. CASE ~InHand(x)
    BY <1>1 DEF AgeRequest
  <1>2. CASE InHand(x)
    <2>1. Older(x.stale) \in 0 .. MaxStale /\ Older(x.stale) <= x.stale + 1
      BY Bounds DEF Older, GoodRequest, RequestState
    <2>2. QED
      BY <1>2, <2>1, Bounds
      DEF GoodRequest, HandFresh, SetCarries, Bounded, InHand, At, AgeRequest, RequestState
  <1>3. QED
    BY <1>1, <1>2

-----------------------------------------------------------------------------
(* The steps *)

\* Inserting a configuration that waited at most Latency keeps the cache good.
LEMMA InsertKeeps ==
    ASSUME StaleInv, NEW k \in Key, NEW v \in Config, NEW stale \in 0 .. MaxStale,
           stale <= Latency, Insert(k, v, stale)
    PROVE  cache' \in [Key -> Entry \cup {NoEntry}] /\ \A q \in Key : GoodEntry(cache'[q])
  <1> DEFINE new == [value |-> v, age |-> 0, stale |-> stale]
  <1>1. GoodEntry(new)
    BY Bounds DEF GoodEntry, EntryFresh, IsFresh, Entry
  <1>2. GoodEntry(NoEntry)
    BY DEF GoodEntry, EntryFresh, IsFresh, NoEntry
  <1>3. new \in Entry \cup {NoEntry} /\ NoEntry \in Entry \cup {NoEntry}
    BY <1>1 DEF GoodEntry
  <1> HIDE DEF new
  <1>4. \/ cache' = cache
        \/ cache' = [cache EXCEPT ![k] = new]
        \/ \E victim \in Key : cache' = [cache EXCEPT ![victim] = NoEntry, ![k] = new]
    BY DEF Insert, new
  <1>5. CASE cache' = cache
    BY <1>5 DEF StaleInv
  <1>6. CASE cache' = [cache EXCEPT ![k] = new]
    BY <1>1, <1>3, <1>6 DEF StaleInv
  <1>7. CASE \E victim \in Key : cache' = [cache EXCEPT ![victim] = NoEntry, ![k] = new]
    BY <1>1, <1>2, <1>3, <1>7 DEF StaleInv
  <1>8. QED
    BY <1>4, <1>5, <1>6, <1>7

\* Replacing one request by a good one keeps the requests good.
LEMMA RequestKeeps ==
    ASSUME StaleInv, NEW r \in Request, NEW x, GoodRequest(x), req' = [req EXCEPT ![r] = x]
    PROVE  req' \in [Request -> RequestState] /\ \A q \in Request : GoodRequest(req'[q])
  BY DEF StaleInv, GoodRequest

\* A value arriving in Redis keeps the cache good and names nothing unwritten.
LEMMA StoreKeeps ==
    ASSUME StaleInv, NEW k \in Key, NEW v \in Value, Store(k, v)
    PROVE  /\ redis' \in [Key -> Value]
           /\ wrote' \in [Key -> Config \cup {Absent}]
           /\ cache' \in [Key -> Entry \cup {NoEntry}]
           /\ \A q \in Key : GoodEntry(cache'[q])
  <1>1. \A q \in Key : GoodEntry(RestampEntry(cache[q], q))
    BY RestampEntryKeeps DEF StaleInv
  <1>2. \A q \in Key : RestampEntry(cache[q], q) \in Entry \cup {NoEntry}
    BY <1>1 DEF GoodEntry
  <1>3. cache' = [q \in Key |-> RestampEntry(cache[q], q)]
    BY DEF Store
  <1>4. cache' \in [Key -> Entry \cup {NoEntry}] /\ \A q \in Key : GoodEntry(cache'[q])
    BY <1>1, <1>2, <1>3
  <1>5. QED
    BY <1>4 DEF Store, StaleInv

\* Restamping every request but r, which becomes a good x, keeps them good.
LEMMA RestampAllKeeps ==
    ASSUME StaleInv, NEW r, NEW x, GoodRequest(x),
           req' = [q \in Request |-> IF q = r THEN x ELSE RestampRequest(req[q])]
    PROVE  req' \in [Request -> RequestState] /\ \A q \in Request : GoodRequest(req'[q])
  <1>1. \A q \in Request : GoodRequest(RestampRequest(req[q]))
    BY RestampKeeps DEF StaleInv
  <1>2. \A q \in Request : GoodRequest(req'[q])
    BY <1>1
  <1>3. QED
    BY <1>2 DEF GoodRequest

\* The invariant holds of a new store: nothing is cached or in hand.
LEMMA StaleInit == Init => StaleInv
  <1> SUFFICES ASSUME Init PROVE StaleInv
    OBVIOUS
  <1>1. PICK k \in Key : req = [r \in Request |-> At("idle", k, Absent, 0, 0, "none")]
    BY DEF Init
  <1>2. GoodRequest(At("idle", k, Absent, 0, 0, "none"))
    BY AtFields, Bounds DEF GoodRequest, HandFresh, SetCarries, Bounded, InHand, At, RequestState
  <1>3. GoodEntry(NoEntry)
    BY DEF GoodEntry, EntryFresh, IsFresh, NoEntry
  <1>4. req \in [Request -> RequestState] /\ \A r \in Request : GoodRequest(req[r])
    BY <1>1, <1>2 DEF GoodRequest
  <1>5. QED
    BY <1>3, <1>4 DEF Init, StaleInv

\* A cache lookup returns a fresh entry within the bound, or goes to Redis.
LEMMA GetConfigKeeps ==
    ASSUME StaleInv, NEW r \in Request, NEW k \in Key, GetConfig(r, k) PROVE StaleInv'
  <1>1. CASE IsFresh(cache[k])
    <2>1. cache[k] \in Entry
      BY <1>1 DEF StaleInv, IsFresh, NoEntry
    <2>2. cache[k].stale <= StalenessBound
      BY <1>1, <2>1, Bounds DEF StaleInv, GoodEntry, EntryFresh, IsFresh, Entry, StalenessBound
    <2>3. GoodRequest(Done(k, cache[k].value, cache[k].stale, "hit"))
      BY <2>1, <2>2, DoneWith DEF Entry
    <2>4. req' = [req EXCEPT ![r] = Done(k, cache[k].value, cache[k].stale, "hit")]
      BY <1>1 DEF GetConfig
    <2>5. req' \in [Request -> RequestState] /\ \A q \in Request : GoodRequest(req'[q])
      BY <2>3, <2>4, RequestKeeps
    <2>6. QED
      BY <2>5 DEF GetConfig, StaleInv
  <1>2. CASE ~IsFresh(cache[k])
    <2>1. req' = [req EXCEPT ![r] = At("get", k, Absent, 0, 0, "none")]
      BY <1>2 DEF GetConfig
    <2>2. req' \in [Request -> RequestState] /\ \A q \in Request : GoodRequest(req'[q])
      BY <2>1, Missed, RequestKeeps
    <2>3. QED
      BY <2>2 DEF GetConfig, StaleInv
  <1>3. QED
    BY <1>1, <1>2

\* What GET leaves in hand decoded, and was in Redis just now.
LEMMA GetFromRedisKeeps ==
    ASSUME StaleInv, NEW r \in Request, GetFromRedis(r) PROVE StaleInv'
  <1> DEFINE k == req[r].key
  <1>1. k \in Key
    BY DEF StaleInv, RequestState
  <1>2. PICK x : GoodRequest(x) /\ req' = [req EXCEPT ![r] = x]
    <2>1. CASE ~up \/ redis[k] = Absent
      <3>1. req' = [req EXCEPT ![r] = Done(k, Absent, 0, "no_data")]
        BY <2>1 DEF GetFromRedis
      <3>2. QED
        BY <1>1, <3>1, DoneWithout
    <2>2. CASE up /\ redis[k] = Garbled
      <3>1. req' = [req EXCEPT ![r] = Done(k, Absent, 0, "wrong_format")]
        BY <2>2 DEF GetFromRedis, Absent, Garbled
      <3>2. QED
        BY <1>1, <3>1, DoneWithout
    <2>3. CASE up /\ redis[k] # Absent /\ redis[k] # Garbled
      <3>1. req' = [req EXCEPT ![r] = At("fill", k, redis[k], 0, 0, "none")]
        BY <2>3 DEF GetFromRedis
      <3>2. redis[k] \in Config
        BY <1>1, <2>3 DEF StaleInv, Value
      <3>3. GoodRequest(At("fill", k, redis[k], 0, 0, "none"))
        BY <1>1, <3>2, JustAnswered
      <3>4. QED
        BY <3>1, <3>3
    <2>4. QED
      BY <2>1, <2>2, <2>3 DEF StaleInv
  <1>3. req' \in [Request -> RequestState] /\ \A q \in Request : GoodRequest(req'[q])
    BY <1>2, RequestKeeps
  <1>4. QED
    BY <1>3 DEF GetFromRedis, StaleInv

\* Filling the cache and returning: the configuration waited at most Latency.
LEMMA FillKeeps == ASSUME StaleInv, NEW r \in Request, Fill(r) PROVE StaleInv'
  <1> DEFINE x == req[r]
  <1>1. /\ x.key \in Key /\ x.value \in Config
        /\ x.stale \in 0 .. MaxStale /\ x.stale <= Latency
    BY Bounds DEF Fill, StaleInv, GoodRequest, HandFresh, InHand, RequestState
  <1>2. cache' \in [Key -> Entry \cup {NoEntry}] /\ \A q \in Key : GoodEntry(cache'[q])
    BY <1>1, InsertKeeps DEF Fill
  <1>3. x.stale <= StalenessBound
    BY <1>1, Bounds
  <1>4. GoodRequest(Done(x.key, x.value, x.stale, "ok"))
    BY <1>1, <1>3, DoneWith
  <1>5. req' \in [Request -> RequestState] /\ \A q \in Request : GoodRequest(req'[q])
    BY <1>4, RequestKeeps DEF Fill
  <1>6. QED
    BY <1>2, <1>5 DEF Fill, StaleInv

\* The insert that follows a successful SET.
LEMMA SetInsertKeeps == ASSUME StaleInv, NEW r \in Request, SetInsert(r) PROVE StaleInv'
  <1> DEFINE x == req[r]
  <1>1. /\ x.key \in Key /\ x.value \in Config
        /\ x.stale \in 0 .. MaxStale /\ x.stale <= Latency
    BY Bounds DEF SetInsert, StaleInv, GoodRequest, HandFresh, InHand, RequestState
  <1>2. cache' \in [Key -> Entry \cup {NoEntry}] /\ \A q \in Key : GoodEntry(cache'[q])
    BY <1>1, InsertKeeps DEF SetInsert
  <1>3. GoodRequest(Done(x.key, Absent, 0, "written"))
    BY <1>1, DoneWithout
  <1>4. req' \in [Request -> RequestState] /\ \A q \in Request : GoodRequest(req'[q])
    BY <1>3, RequestKeeps DEF SetInsert
  <1>5. wrote' \in [Key -> Config \cup {Absent}]
    BY <1>1 DEF SetInsert, StaleInv
  <1>6. QED
    BY <1>2, <1>4, <1>5 DEF SetInsert, StaleInv

\* SET, acknowledged or not, and whether or not it was executed.
LEMMA SetKeeps ==
    ASSUME StaleInv, NEW r \in Request, SetInRedis(r) \/ SetFails(r) PROVE StaleInv'
  <1> DEFINE x == req[r]
  <1>1. x.key \in Key /\ x.value \in Config
    BY DEF SetInRedis, SetFails, StaleInv, GoodRequest, SetCarries, RequestState
  <1>2. CASE SetInRedis(r)
    <2>1. GoodRequest(At("insert", x.key, x.value, 0, 0, "none"))
      BY <1>1, JustAnswered
    <2>2. req' \in [Request -> RequestState] /\ \A q \in Request : GoodRequest(req'[q])
      BY <1>2, <2>1, RestampAllKeeps DEF SetInRedis
    <2>3. Store(x.key, x.value) /\ x.value \in Value
      BY <1>1, <1>2 DEF SetInRedis, Value
    <2>4. QED
      BY <1>1, <1>2, <2>2, <2>3, StoreKeeps DEF SetInRedis, StaleInv
  <1>3. CASE SetFails(r)
    <2>1. GoodRequest(Done(x.key, Absent, 0, "cant_write"))
      BY <1>1, DoneWithout
    <2>2. req' \in [Request -> RequestState] /\ \A q \in Request : GoodRequest(req'[q])
      BY <1>3, <2>1, RestampAllKeeps DEF SetFails
    <2>3. CASE UNCHANGED <<redis, cache, wrote>>
      BY <1>3, <2>2, <2>3 DEF SetFails, StaleInv
    <2>4. CASE Store(x.key, x.value)
      <3>1. x.value \in Value
        BY <1>1 DEF Value
      <3>2. QED
        BY <1>1, <1>3, <2>2, <2>4, <3>1, StoreKeeps DEF SetFails, StaleInv
    <2>5. QED
      BY <1>3, <2>3, <2>4 DEF SetFails
  <1>4. QED
    BY <1>2, <1>3

\* Every step keeps the invariant.
LEMMA StaleNext == StaleInv /\ [Next]_vars => StaleInv'
  <1> SUFFICES ASSUME StaleInv, [Next]_vars PROVE StaleInv'
    OBVIOUS
  <1>1. CASE UNCHANGED vars
    BY <1>1 DEF vars, StaleInv
  <1>2. ASSUME NEW r \in Request, NEW k \in Key, NEW v \in Config, SetConfig(r, k, v) PROVE StaleInv'
    <2>1. req' \in [Request -> RequestState] /\ \A q \in Request : GoodRequest(req'[q])
      BY <1>2, JustAnswered, RequestKeeps DEF SetConfig
    <2>2. QED
      BY <1>2, <2>1 DEF SetConfig, StaleInv
  <1>3. ASSUME NEW k \in Key, NEW v \in Value, Publish(k, v) PROVE StaleInv'
    <2>1. \A r \in Request : GoodRequest(RestampRequest(req[r]))
      BY RestampKeeps DEF StaleInv
    <2>2. \A r \in Request : GoodRequest(req'[r])
      BY <1>3, <2>1 DEF Publish
    <2>3. req' \in [Request -> RequestState]
      BY <1>3, <2>1 DEF Publish, GoodRequest
    <2>4. QED
      BY <1>3, <2>2, <2>3, StoreKeeps DEF Publish, StaleInv
  <1>4. CASE Outage
    BY <1>4 DEF Outage, StaleInv
  <1>5. CASE Tick
    <2>1. \A r \in Request : GoodRequest(AgeRequest(req[r]))
      BY <1>5, AgeRequestKeeps DEF Tick, StaleInv
    <2>2. \A k \in Key : GoodEntry(AgeEntry(cache[k], k))
      BY AgeEntryKeeps DEF StaleInv
    <2>3. cache' = [k \in Key |-> AgeEntry(cache[k], k)] /\ req' = [r \in Request |-> AgeRequest(req[r])]
      BY <1>5 DEF Tick
    <2>4. (\A k \in Key : GoodEntry(cache'[k])) /\ (\A r \in Request : GoodRequest(req'[r]))
      BY <2>1, <2>2, <2>3
    <2>5. cache' \in [Key -> Entry \cup {NoEntry}]
      BY <2>2, <2>3 DEF GoodEntry
    <2>6. req' \in [Request -> RequestState]
      BY <2>1, <2>3 DEF GoodRequest
    <2>7. QED
      BY <1>5, <2>4, <2>5, <2>6 DEF Tick, StaleInv
  <1>6. QED
    BY <1>1, <1>2, <1>3, <1>4, <1>5, GetConfigKeeps, GetFromRedisKeeps, FillKeeps, SetInsertKeeps, SetKeeps
    DEF Next

-----------------------------------------------------------------------------
(* Theorems *)

\* The inductive invariant holds in every reachable state.
LEMMA StaleInvAlways == Spec => []StaleInv
  BY StaleInit, StaleNext, PTL DEF Spec

\* The store's variables keep their types in every reachable state; in
\* particular nothing that does not decode reaches the cache (get_config).
THEOREM StoreTypeCorrect == Spec => []TypeOK
  <1>1. StaleInv => TypeOK
    BY DEF StaleInv, TypeOK
  <1>2. QED
    BY <1>1, StaleInvAlways, PTL

\* A configuration that get_config returns was in Redis at most the cache
\* expiry plus one insert latency ago, whatever the interleaving of fills,
\* writes, removals, failures and evictions. With a zero expiry only the
\* latency is left.
THEOREM StalenessBounded == Spec => []BoundedStaleness
  <1>1. StaleInv => BoundedStaleness
    BY DEF StaleInv, BoundedStaleness, GoodRequest, Bounded
  <1>2. QED
    BY <1>1, StaleInvAlways, PTL

=============================================================================
