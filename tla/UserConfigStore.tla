-------------------------- MODULE UserConfigStore --------------------------
(***************************************************************************)
(* RedisStore<UserConfig>: user configuration read through a local cache   *)
(* whose entries expire by insertion time, with requests that read and     *)
(* write concurrently, a control plane that publishes and removes          *)
(* configurations, and a Redis that fails.                                 *)
(*                                                                         *)
(* Time is a clock of ticks. What the model adds to the code is, for every *)
(* configuration held in the process, how many ticks ago Redis last held   *)
(* it: the staleness the cache is allowed to introduce.                    *)
(*                                                                         *)
(* Code: contextforge-data-plane-lib/src/config_stores/{mod,redis_store,   *)
(* user_config_store}.rs and common/mod.rs.                                *)
(***************************************************************************)
EXTENDS Naturals, FiniteSets

CONSTANTS
    Key,       \* subjects: MessagePack-encoded user ids
    Config,    \* decodable user configurations
    Request,   \* get_config and set_config calls in progress at once
    Expiry,    \* cache_expiry in ticks; 0 disables the cache
    Latency,   \* most ticks between the answer of Redis and the cache insert
    Capacity   \* entries the LRU cache holds

Absent  == "absent"     \* no value under the key
Garbled == "garbled"    \* a value that does not decode
NoEntry == [value |-> Absent, age |-> 0, stale |-> 0]

Value == Config \cup {Absent, Garbled}

ASSUME StoreAssumption ==
    /\ Expiry \in Nat
    /\ Latency \in Nat
    /\ Capacity \in Nat \ {0}
    /\ {Absent, Garbled} \cap Config = {}

VARIABLES
    redis,   \* redis[k]: the value stored for k
    up,      \* whether Redis answers
    cache,   \* cache[k]: a CachedEntry, or NoEntry
    req,     \* req[r]: where request r is
    wrote    \* wrote[k]: the configuration this process last wrote for k and
             \* reported as written, while Redis still holds it

vars == <<redis, up, cache, req, wrote>>

MaxStale == Expiry + Latency + 1

Entry == [value : Config, age : 0 .. Expiry, stale : 0 .. MaxStale]

RequestState ==
    [pc    : {"idle", "get", "fill", "set", "insert", "done"},
     key   : Key,
     value : Config \cup {Absent},
     wait  : 0 .. Latency,
     stale : 0 .. MaxStale,
     out   : {"none", "hit", "ok", "no_data", "wrong_format", "written", "cant_write"}]

At(pc, k, v, wait, stale, out) ==
    [pc |-> pc, key |-> k, value |-> v, wait |-> wait, stale |-> stale, out |-> out]

Done(k, v, stale, out) == At("done", k, v, 0, stale, out)

\* A configuration in hand between the answer of Redis and the end of the call.
InHand(x) == x.pc \in {"fill", "insert"}

\* Staleness of v for k once Redis holds what redis' says.
Restamp(v, k, stale) == IF redis'[k] = v THEN 0 ELSE stale
RestampEntry(e, k) ==
    IF e.value = Absent THEN e ELSE [value |-> e.value, age |-> e.age, stale |-> Restamp(e.value, k, e.stale)]
RestampRequest(x) ==
    IF InHand(x) THEN At(x.pc, x.key, x.value, x.wait, Restamp(x.value, x.key, x.stale), x.out) ELSE x

-----------------------------------------------------------------------------

\* CachedEntry::is_fresh: age counts from the insert and no hit renews it.
IsFresh(e) == e.value # Absent /\ e.age < Expiry

\* LruCache::insert: at capacity an entry makes room. Which one depends on the
\* use of the entries, so it may be any.
Insert(k, v, stale) ==
    LET held == {q \in Key : cache[q].value # Absent}
        new  == [value |-> v, age |-> 0, stale |-> stale]
    IN  IF Expiry = 0
        THEN UNCHANGED cache
        ELSE IF k \in held \/ Cardinality(held) < Capacity
        THEN cache' = [cache EXCEPT ![k] = new]
        ELSE \E victim \in held : cache' = [cache EXCEPT ![victim] = NoEntry, ![k] = new]

Init ==
    /\ redis \in [Key -> Value]
    /\ up = TRUE
    /\ cache = [k \in Key |-> NoEntry]
    /\ \E k \in Key : req = [r \in Request |-> At("idle", k, Absent, 0, 0, "none")]
    /\ wrote = [k \in Key |-> Absent]

Free(r) == req[r].pc \in {"idle", "done"}

\* Mutant: a hit renews the entry.
GetConfig_Renews(r, k) ==
    /\ Free(r)
    /\ req' = [req EXCEPT ![r] =
                 IF IsFresh(cache[k]) THEN Done(k, cache[k].value, cache[k].stale, "hit")
                                      ELSE At("get", k, Absent, 0, 0, "none")]
    /\ cache' = [cache EXCEPT ![k] =
                   IF IsFresh(cache[k]) THEN [value |-> cache[k].value, age |-> 0, stale |-> cache[k].stale]
                                        ELSE cache[k]]
    /\ UNCHANGED <<redis, up, wrote>>

\* get_config up to the answer of the cache, under the cache lock.
GetConfig(r, k) ==
    /\ Free(r)
    /\ req' = [req EXCEPT ![r] =
                 IF IsFresh(cache[k]) THEN Done(k, cache[k].value, cache[k].stale, "hit")
                                      ELSE At("get", k, Absent, 0, 0, "none")]
    /\ UNCHANGED <<redis, up, cache, wrote>>

\* Mutant: what Redis returns is cached before it is decoded.
GetFromRedis_Undecoded(r) ==
    LET k == req[r].key IN
    /\ req[r].pc = "get"
    /\ req' = [req EXCEPT ![r] =
                 IF ~up \/ redis[k] = Absent THEN Done(k, Absent, 0, "no_data")
                 ELSE At("fill", k, redis[k], 0, 0, "none")]
    /\ UNCHANGED <<redis, up, cache, wrote>>

\* GET, without the lock. A missing key and a Redis error are one error; a value
\* that does not decode is another.
GetFromRedis(r) ==
    LET k == req[r].key IN
    /\ req[r].pc = "get"
    /\ req' = [req EXCEPT ![r] =
                 IF ~up \/ redis[k] = Absent THEN Done(k, Absent, 0, "no_data")
                 ELSE IF redis[k] = Garbled THEN Done(k, Absent, 0, "wrong_format")
                 ELSE At("fill", k, redis[k], 0, 0, "none")]
    /\ UNCHANGED <<redis, up, cache, wrote>>

\* The lock is taken again, the entry inserted, and the configuration returned.
Fill(r) ==
    LET x == req[r] IN
    /\ x.pc = "fill"
    /\ Insert(x.key, x.value, x.stale)
    /\ req' = [req EXCEPT ![r] = Done(x.key, x.value, x.stale, "ok")]
    /\ UNCHANGED <<redis, up, wrote>>

\* set_config up to the SET.
SetConfig(r, k, v) ==
    /\ Free(r)
    /\ req' = [req EXCEPT ![r] = At("set", k, v, 0, 0, "none")]
    /\ UNCHANGED <<redis, up, cache, wrote>>

\* Redis holds v for k from now on.
Store(k, v) ==
    /\ redis' = [redis EXCEPT ![k] = v]
    /\ cache' = [q \in Key |-> RestampEntry(cache[q], q)]
    /\ wrote' = [wrote EXCEPT ![k] = Absent]

SetInRedis(r) ==
    LET x == req[r] IN
    /\ x.pc = "set"
    /\ up
    /\ Store(x.key, x.value)
    /\ req' = [q \in Request |-> IF q = r THEN At("insert", x.key, x.value, 0, 0, "none")
                                          ELSE RestampRequest(req[q])]
    /\ UNCHANGED up

\* SET failed; its command may have been executed before the reply was lost.
SetFails(r) ==
    LET x == req[r] IN
    /\ x.pc = "set"
    /\ \/ UNCHANGED <<redis, cache, wrote>>
       \/ up /\ Store(x.key, x.value)
    /\ req' = [q \in Request |-> IF q = r THEN Done(x.key, Absent, 0, "cant_write")
                                          ELSE RestampRequest(req[q])]
    /\ UNCHANGED up

\* SET succeeded: the local cache takes the written configuration.
SetInsert(r) ==
    LET x == req[r] IN
    /\ x.pc = "insert"
    /\ Insert(x.key, x.value, x.stale)
    /\ req' = [req EXCEPT ![r] = Done(x.key, Absent, 0, "written")]
    /\ wrote' = [wrote EXCEPT ![x.key] = IF redis[x.key] = x.value THEN x.value ELSE Absent]
    /\ UNCHANGED <<redis, up>>

\* The control plane publishes or removes a configuration.
Publish(k, v) ==
    /\ redis[k] # v
    /\ Store(k, v)
    /\ req' = [r \in Request |-> RestampRequest(req[r])]
    /\ UNCHANGED up

Outage ==
    /\ up' = ~up
    /\ UNCHANGED <<redis, cache, req, wrote>>

Older(stale) == IF stale < MaxStale THEN stale + 1 ELSE stale

AgeEntry(e, k) ==
    IF e.value = Absent THEN e
    ELSE [value |-> e.value,
          age   |-> IF e.age < Expiry THEN e.age + 1 ELSE e.age,
          stale |-> IF redis[k] = e.value THEN 0 ELSE Older(e.stale)]

AgeRequest(x) ==
    IF ~InHand(x) THEN x
    ELSE At(x.pc, x.key, x.value, x.wait + 1,
            IF redis[x.key] = x.value THEN 0 ELSE Older(x.stale), x.out)

\* A tick passes; a configuration in hand is inserted within Latency of them.
Tick ==
    /\ \A r \in Request : InHand(req[r]) => req[r].wait < Latency
    /\ cache' = [k \in Key |-> AgeEntry(cache[k], k)]
    /\ req' = [r \in Request |-> AgeRequest(req[r])]
    /\ UNCHANGED <<redis, up, wrote>>

Next ==
    \/ \E r \in Request, k \in Key : GetConfig(r, k) \/ \E v \in Config : SetConfig(r, k, v)
    \/ \E r \in Request : GetFromRedis(r) \/ Fill(r) \/ SetInRedis(r) \/ SetFails(r) \/ SetInsert(r)
    \/ \E k \in Key, v \in Value : Publish(k, v)
    \/ Outage
    \/ Tick

Spec == Init /\ [][Next]_vars

-----------------------------------------------------------------------------
(* Properties *)

\* Every variable keeps the shape RedisStore gives it.
TypeOK ==
    /\ redis \in [Key -> Value]
    /\ up \in BOOLEAN
    /\ cache \in [Key -> Entry \cup {NoEntry}]
    /\ req \in [Request -> RequestState]
    /\ wrote \in [Key -> Config \cup {Absent}]

StalenessBound == Latency + (IF Expiry = 0 THEN 0 ELSE Expiry - 1)

\* A configuration returned to a request was in Redis at most the cache expiry
\* plus the insert latency ago, through concurrent fills, overwrites, removals,
\* failed writes and outages: a removed configuration stops granting access,
\* and hits do not keep an entry alive (get_config, set_config, is_fresh).
BoundedStaleness ==
    \A r \in Request :
        req[r].pc = "done" /\ req[r].out \in {"hit", "ok"} => req[r].stale <= StalenessBound

\* A configuration this process wrote and Redis still holds is what the local
\* cache answers with: "Development config writes update the local process's
\* cache immediately" (_context/wiki/architecture.md:101, set_config).
LocalWriteVisible ==
    \A k \in Key : wrote[k] # Absent /\ IsFresh(cache[k]) => cache[k].value = wrote[k]

=============================================================================
