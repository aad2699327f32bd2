# A TLA+ model of the ContextForge data plane

The data plane is a stateless HTTP gateway for the Model Context Protocol (MCP). It authenticates a
caller with a JWT, looks up the caller's published configuration in Redis, and routes each MCP
request to one backend server, running CPEX plugins before and after. Its state is what it caches
(user configurations, verification keys), the plugin runtime it shares between requests, and the
table of tool calls in flight. These modules model that state and the requests that use it; TLC
checks them on small instances and TLAPS proves the safety properties for every instance.

Paths below are relative to `src/crates/`; `lib`, `cpex` and `bin` stand for
`contextforge-data-plane-lib/src`, `contextforge-data-plane-cpex/src` and `contextforge-data-plane/src`.

## Inventory

| Component | State it keeps | Operations | What is hard | What makes it correct |
|---|---|---|---|---|
| CPEX plugin registry and runtime (`cpex/registry/mod.rs`, `cpex/runtime.rs`, `cpex/config.rs`, `bin/main.rs`) | the slot `ArcSwap<RuntimeState>`, the watcher's last fingerprint, one `Arc` per runtime | startup load, watcher polls, `reload`, `apply_config`, `before`/`after` of a call, drop | swaps while calls are in flight; failed loads; the watcher's skip of unchanged documents; shutdown in `Drop` | a call runs on one intact runtime; the slot follows the store; replaced runtimes end |
| User configuration store (`lib/config_stores/`) | an LRU of timed entries in front of Redis | `get_config`, `set_config` | read-then-fill without a lock over the I/O; LRU hits; lost replies | a configuration is not used long after it was replaced or removed |
| JWKS cache (`lib/authorization/jwks/`) | one cached key set with a time to live | `validate` with refresh on a miss | overlapping refreshes, failing issuer, key ids reused by rotation | removed keys stop verifying; new keys are accepted |
| Tool call (`lib/gateway/backend_client.rs`, `lib/gateway/mcp_service/tools.rs`, `cpex/tools/mod.rs`) | the in-flight table, the call's hook state | start, progress, cancellation, post hook | progress before the token is known; cancellation against response; a context table shared over awaits | no progress lost, no context update lost, the call returns |
| Layers and handlers (`lib/lib.rs`, `lib/layers/`, `lib/gateway/mcp_service/`) | what travels with the request | header limits, path, claims, principal, configuration, dispatch, route, hooks, connect, forward, close | configurations replaced while a request runs; URIs rewritten by plugins; errors between connect and close | one configuration decides; routes are determined; connections end |
| Header forwarding (`lib/gateway/mcp_service/initialization.rs`) | a map of headers while a connection is made | `apply_header_config`, `inject_current_context` | four phases that insert and remove under names compared without case; a `HashMap` of spellings | protected headers never come from the configuration; the configuration's last word decides; trace contexts are not mixed |
| Standard headers (`lib/mcp_standard_headers.rs`) | none | validation of `Mcp-Param-*` against schema and arguments | integer boundaries, encodings, repeated headers, annotations in odd places, arguments edited afterwards | a header never contradicts the caller's arguments, and nothing else is refused |
| Secrets plugin (`plugins/cpex-secrets-detection/src/`) | none | scan, merge of matches, redaction, block | overlapping matches, pruned traversal of JSON | nothing matched survives redaction |
| CMF conversions (`cpex/prompts`, `cpex/resources`, `cpex/tools`, `cpex/hooks.rs`) | none | requests and results to payloads and back | payloads that have no place for what MCP carries, and the other way round | an edit is applied or the call fails, which holds for prompts and resources and not for tools; what was not edited is not changed |
| Principal extractors (`lib/authorization/principal_extractor/`) | none | claims to user and tenant | several aliases, values that are no strings | one alias decides |
| Process (`bin/main.rs`, `lib/lib.rs`, `lib/transports/`, `lib/common/`) | the configuration, two listeners, their connections | start-up, bind, accept, Ctrl-C, exit | early returns of start-up; two listeners that hear of Ctrl-C in different ways; errors that are dropped | clients are served only after every check start-up makes; requests are answered before the end; Ctrl-C ends it |
| Observability, development tools | none of interest | | | |

A request calls the JWKS cache (`claims_layer`), then the store (`user_config_store_layer`), then
its handler, which asks the registry for the current runtime, runs the pre hook, connects to the
backend, forwards, closes and runs the post hook. The control plane only writes Redis. The watcher
is a task of its own; progress notifications run in tasks of the RMCP client.

## Modules

| Module | Models | Proofs |
|---|---|---|
| `PluginRegistry` | registry, watcher, runtimes, calls | `PluginRegistryProofs` |
| `AbstractRegistry` | what the registry promises the handlers | |
| `RegistryRefinement` | the mapping under which `PluginRegistry` implements `AbstractRegistry` | `PluginRegistryProofs` |
| `UserConfigStore` | Redis, LRU cache, `get_config`, `set_config` | `UserConfigStoreProofs` |
| `JwksCache` | issuer's document, cache, validations | `JwksCacheProofs` |
| `ToolCall` | one `call_tool` with its notifications | `ToolCallProofs` |
| `RequestRouting` | layers and handlers | `RequestRoutingProofs` |
| `SecretsScanner` | the secrets detection plugin | `SecretsScannerProofs` |
| `HeaderForwarding` | the headers of a backend connection | `ParamHeadersProofs` |
| `IntegerHeader` | the parser of integer header values | `ParamHeadersProofs` |
| `ParamHeaders` | validation of `Mcp-Param-*`, the pre hook and the forwarding of the headers; composes `IntegerHeader` and `HeaderForwarding` | `ParamHeadersProofs` |
| `HookEdits` | conversions to plugin payloads and back | `ToolCallProofs` |
| `GatewayProcess` | start-up, listeners, Ctrl-C | `GatewayProcessProofs` |

`MC*` modules only give values to constants. Operators whose name ends in `_Something` next to a
definition are deliberate mistakes in it, used to see that the properties notice them.

### PluginRegistry

`slot` is the `ArcSwap`: a runtime, `Failed`, or gone with the registry. A runtime is live while the
slot or a call holds it (`Owned`); `AfterDrops` is the effect of the last reference going away,
`Drop for GatewayPluginRuntime`, which spawns the shutdown (`Shutdown`). `loader` has one entry each
for `initialize()` and the watcher and one per library caller in `Manual`.
`FetchErr`, `FetchUnchanged`, `FetchNew`, `BuildOk` and `BuildErr` are the branches of
`reload_runtime`; every load reads `stored` at one step and swaps at another, with anything between.
A call pins the runtime it was admitted under (`CallState`), runs the hooks that runtime's document
declares and drops it. What plugins decide is free. A resource response that has no payload
(`to_payload` fails) ends the call without its post hook (`NoPayload`). `Drop` outside of a Tokio
runtime, which skips the shutdown, is left out: runtimes are dropped by the tasks of the process.

### UserConfigStore

A `get_config` is a cache lookup (`GetConfig`), a Redis read (`GetFromRedis`) and a fill (`Fill`);
a `set_config` is a SET, whose reply may be lost, and an insert. Time is counted in ticks that
saturate; `Latency` bounds the ticks between a Redis reply and the insert. An entry's age and the
age of its value (how long ago Redis last held it) are kept separately: the first is what the code
sees, the second is what the property is about. The LRU evicts any other entry at capacity, which
includes the one the code evicts.

### JwksCache

The issuer replaces its document; a validation looks at the cache, fetches on a miss, filters the
usable keys, replaces the cache and validates again. Documents contain keys without an id, with a
duplicated id and of unusable kinds. `gone` and `steady` are history: how long a key has not been
served and how long the document has been the same. A signature is the identity of its key.

### ToolCall

One tool call, with or without a progress token and a stream hook, and a set of notifications the
backend may send at any time after the request was sent, each handled by a task of its own.
`guard` is the write lock on the in-flight table that `start_tool_call` holds across the send,
`mutex` the lock on the hook state. `ctx` is the context table as the set of updates it has and
`seen` what each hook started from.

### RequestRouting

Requests move through the layers in their order, then through a handler. `UserConfig` gives the
request any configuration published for its user, which is what the store may deliver; later steps
use the copy in the request's extensions. A pre hook may rewrite a resource's URI, which is then
resolved against the routes of the virtual host (`Candidates`, `Ambiguous`, `ReadFrom`). All early
returns are modelled, the layers' with their HTTP status. A tool call whose request cannot be
queued returns before the close: its connection is dropped, which the model tells apart from closed.

### SecretsScanner

The plugin handles one payload after the other and keeps nothing between them. The walk
(`scan_json_value_inner`) is a set of nodes still to visit, so its order is free; the code's order
only decides the order of the findings in a violation's details. A string is the set of matches the
regular expressions find in it, restricted to disjoint matches per pattern as `find_iter` returns
them. `Consider` takes the next match in the order of `sort_by` and merges it into the last selected
one or appends it; `CopyUpToMatch` and `CopyTail` are the redaction loop, with the positions copied
instead of a string. A slice out of order would panic: the step has no such case, so TLC would report
a deadlock.

### AbstractRegistry, RegistryRefinement

To a handler the registry is one configuration that changes in a step, and calls that keep the one
they began with. `RegistryRefinement` reads it off the slot's runtime (`Current`) and drops the pinned
runtime from the calls (`Unpinned`); loads, runtimes, owners, outages and shutdowns are stutters.
`Implements` is the safety part, `ImplementsFairly` adds that every call that began ends.

### HeaderForwarding

`phase` goes through the phases of `connect_backend_for_request`: authority, passthrough, parameter
headers, `add_headers`, `remove_headers`, trace context. A name is its lower-case form, and a
configuration's strings are spellings, which `NameOf` parses, or fails to. `toAdd` is a set, for
`add_headers` is a `HashMap`: its entries are inserted in any order.

### IntegerHeader, ParamHeaders

`IntegerHeader` is `parse_integer_header_value` on sequences of digits; base and limits are constants,
so that the limits are within reach of short texts. `ParamHeaders` has one `tools/call`: a
schema is a tree of nodes, some of them properties, some annotated; `Descend` visits it; the headers
are compared with the arguments at the same places; the pre hook edits the arguments; and the phases
of `HeaderForwarding`, which the module extends, carry the headers over. A raw header value is a text
and how it is encoded. A call that ends is followed by the same call from the start.

### HookEdits

A request's arguments and a response's blocks are projected to a payload, the plugin returns any
payload of a set that differs from it in every way the conversions tell apart, and the conversion back
accepts it or fails the call. A tool payload is a sequence of tool results, texts, and whether it has
parts of other kinds; `ToolResponse` keeps the first result and the texts. What CMF has no place for (`_meta`, annotations, embedded blobs) is part
of the MCP blocks and not of the payload, so that its loss would show. Once the backend has answered,
the request is gone: the post hook and the write-back only have the response.

### GatewayProcess

`stage` is how far `main` is. Settings are reduced to what a step may reject: the state of a file, a
mode, a scheme. `watch[l]` is a listener's `ctrl_c()` future: not polled yet, waiting, or notified.
The TCP listener has one for its life; the TLS loop makes a new one in each `select!`, so `Accept`
drops it, notified or not. `handler` is tokio's process-wide handler: before the first poll SIGINT
kills the process, afterwards it does nothing but notify. The end of `main` cuts what still runs. A
process that ended may be started again, with what Redis holds by then. The checks of start-up end
before the listeners bind; from there each listener ends for itself (`BindFails`, `TlsAcceptFails`,
`TcpDrained`, `TlsStop`) and `join_all` drops the errors. The restrictions of a global configuration
are its allowed hosts, allowed origins and header limits. That the command line or the set-up of
logging and traces may fail is part of `Configure`.

## Runs

| Run | Shows | Bounds |
|---|---|---|
| `registry_binary` | the watcher's fingerprint describes the slot; the slot converges, replaced runtimes stop, the watcher ends, every call that began ends | 1 call, 3 runtimes, one good, one unbuildable and one undecodable document, outages |
| `registry_api` | both hooks of a call come from one runtime that is not shut down under it, with `reload` and `apply_config` beside the watcher; the registry implements the abstract one | 1 call, 1 library caller, 3 runtimes, 4 documents (two good ones with different hooks), transient failures |
| `store_cached` | bounded staleness | 2 users, 2 configurations, 2 requests, capacity 1, expiry 2, latency 1 |
| `jwks` | removed keys expire, the cache settles, new keys are accepted | 2 validations, 5 documents, 4 tokens, time to live 2, latency 1 |
| `tool_call` | progress routing, context updates, the call and all notifications end | 2 notifications |
| `routing` | one configuration routes, map order does not matter, connections are settled | 2 requests, 2 users, 1 virtual host, 2 backends, 3 names, 3 configurations, 12 inputs |
| `scanner` | exact redaction, count and name of the findings, over overlapping matches and field filters | texts of length 4, 3 patterns of 2 specificities, every set of up to 3 matches in one text, 3 matches spread over a payload of 6 nodes, 4 filters, thresholds 0, 2 and 3 |
| `params` | what is forwarded agrees with the arguments; only disagreement is refused; annotations are found or the call is refused; protected headers; the configuration's order | a schema of 5 nodes with every kind of annotation at each; headers of 14 values, up to 3 of them; all integers of up to 3 digits before and 2 behind the point in base 3 with the largest safe integer 16 and i64 up to 9; 144 header configurations over 7 names in 7 spellings |
| `edits` | prompt and resource edits are shown in full or refused, of tool edits with a result the first result and the texts are shown; untouched content is kept | up to 2 blocks of 7 kinds; every field of a payload edited; up to 2 tool results, with and without other parts |
| `process` | clients are connected only after all checks of start-up, restrictions, answers before the end; Ctrl-C ends the TCP listener, and repeated ones the process | 16 settings, 4 global configurations, 2 connections |
| `store_localwrite`, `edits_fallback` | places where documentation and code disagree | as above |

Why these are enough: a race over a slot, a cache entry or a lock needs two actors and one value
that changes in between; three runtimes allow a pinned, a current and a loading one at once;
capacity 1 with two users makes every insert an eviction; expiry and time to live 2 separate
"fresh", "last fresh tick" and "expired"; three names give a route, an unknown name and a rewrite
with two candidates; three matches make a chain in which the first and the last do not overlap; a
base-3 text of three digits can have leading zeros, be one more than the largest safe integer and be
shifted beyond it by an exponent; two values of one header are the first and the last; two connections are one that makes the TLS loop miss a Ctrl-C
and one that is still served. Every safety property the runs check is also proved without bounds, for
any number of calls, users, keys and requests, any forest of JSON values and any schema; what is known
of two calls on one registry comes from the proofs.

In `scanner`, `params`, `edits` and `process` what ended is followed by the next payload, call or
start, so that deadlock checking stays on.
`tool_call` switches deadlock checking off because its one call ends and there is nothing more to do.
No other run needs to: their environment can always publish or let time pass.

### Fairness

`registry_binary`: weak fairness on the steps of a load, on the watcher's timer, on the shutdown task
and on the steps of admitted calls. Tokio runs every ready task and the interval elapses; plugins and
backends are assumed to answer or to fail, which the properties need because a call that never ends
keeps its runtime. Publishing, outages and the end of
the process are not fair.
`tool_call`: weak fairness on the handler's and the notification tasks' steps. The backend's answer and the cancellation are not fair: `CallReturns`
starts from either.
`process`: weak fairness on the steps of start-up and of the listeners, on `accept` and on the
end of requests: tokio polls what is ready, and graceful shutdown has no time limit, so
`SignalEndsTcp` needs requests that end. Clients, errors and Ctrl-C are not fair; `RepeatedSignalsEnd`
has the repetition of Ctrl-C as its hypothesis.

### Disagreements

- `store_localwrite`: `get_config` fills the cache with what it read earlier
  (`lib/config_stores/redis_store.rs:111`), so a reader that read before a local write can undo the
  write's cache update; `_context/wiki/architecture.md:101` says such writes update the cache
  immediately. Staleness is still bounded by the expiry.
- `edits_fallback`: a plugin's tool payload is answered although the reply cannot show it
  (`cpex/tools/mod.rs:73`). If the plugin removed the tool result, the backend's result stays in place;
  if there are further tool results or parts that are no text, they are dropped. Each of the three
  violates `EditShownOrFailed` (TLC reports one). `_context/wiki/failure-modes.md:61` says that edits
  which cannot be represented are an "MCP error; no fallback to the original unredacted response".
  `EditShown`, in the passing run, is what holds nevertheless.

Met while modelling and evident from the lines alone, so without a run:

- The default expiry is five minutes (`lib/common/mod.rs:88`), documented as 60 seconds
  (`_context/wiki/config.md:76`).
- `completion/complete` is implemented and forwarded (`lib/gateway/mcp_service/completion.rs:16`),
  documented as refused (`_context/wiki/routing.md:44`).
- Of a repeated parameter header only the last value is forwarded
  (`lib/gateway/mcp_service/initialization.rs:107`); `_context/wiki/security.md:112` says values are
  forwarded unchanged. All values were validated, so the one that is forwarded agrees with the
  argument (`ForwardedParamsAgree`).
- A plugin may turn a blob embedded in a prompt into a text (`cpex/prompts/mod.rs:220`);
  `_context/wiki/config.md:262` says editing one fails the write-back.
- A CEL expression has the variable `claims` only (`cel_principal_extractor.rs:81`); the comment on
  the type (line 43) promises `sub` and `tenant_id` as well.
- Nothing reads `CONTEXTFORGE_GATEWAY_RS_MCP_ALLOWED_HOSTS` (`_context/wiki/security.md:75`); the
  allowed hosts come from the global configuration in Redis only (`lib/common/mod.rs:47`).

Further remarks. The TLS listener misses a Ctrl-C that comes with a connection
(`lib/transports/tls.rs:82`); `_context/wiki/architecture.md:126` warns not to rely on it. An error of
`accept` ends the TLS listener for good, and the error is dropped; so is the error of a listener that
cannot bind, and `main` returns success when the gateway fails. With both addresses configured, a TLS
listener that cannot bind therefore leaves the TCP listener serving alone (`lib/transports/tls.rs:46`,
`lib/lib.rs:101`). The model has this behaviour and `ServesAsConfigured` allows it; no documentation
says what should happen. A failing `GET` of the global
configuration counts as none, so the process starts without its restrictions; `RestrictionsApplied`
exempts that case. A header is compared with the arguments the caller gave, before the pre hook: if a
plugin edits an annotated argument, the backend gets the header of the old value beside the new one.
`reload()` beside the watcher may fail transiently and leave the slot failed
while the watcher still holds the stored document's fingerprint, so that it never loads it again.
The binary does not call `reload()`; `WatcherTracksSlot` and `WatcherConverges` are stated for it.

## Proofs

Every proof module has an inductive invariant made of named parts, a lemma that it holds initially,
lemmas that every action preserves it (one step per action), and theorems that combine them. All
invariants the passing runs check, and `Implements`, are theorems.

- `PluginRegistryProofs`: `PinInv` has the types, ownership (what the slot or a call holds is live,
  and what a call holds was built from the document it was admitted under) and, per phase of a call,
  whether it holds a runtime and which hooks it has run; `OneConfigPerCall` needs the phases, for a
  call's last hook runs steps after its admission. `TrackInv`, for a registry without library
  callers, adds that startup and watcher do not overlap, that the slot exists while there are
  handles, and that `last` is a document that builds. `RegistryImplements` maps every step to a step
  of `AbstractRegistry` or a stutter; `RefInv` adds to `PinInv` that every runtime was built from a
  document that builds, which the abstract configuration has to be.
- `UserConfigStoreProofs`: each cached value is at most `Latency` older than its entry and each value
  in a request's hand at most `Latency` old; with `is_fresh` this gives the bound for hits and reads.
- `JwksCacheProofs`: the same for keys, per key: a cached key has been gone no longer than the
  cache's age plus the latency; and for `NewKeyAccepted`, that a refresh under way carries the keys
  served when it was answered.
- `ToolCallProofs`: the guard is held from before the send until the token is in the table; a
  forwarded event's update is in the context whenever nobody holds the mutex, and in what its holder
  started from. The second half is about `HookEdits`, the payloads of a call: lemmas on each
  conversion (`RequestApplied`, `MessageWrittenBack`, `ResourceWrittenBack`) carry its three
  invariants through the steps of a call. `EditShown` is proved, with its exemption of tool payloads
  without a result; `EditShownOrFailed` does not hold. The specifications have no variable in common and no theorem
  is about both.
- `RequestRoutingProofs`: per request, what is known at each step (which fields are set, that the
  configuration was published for the user, that the target is justified by it), and which
  connection states go with which step.
- `GatewayProcessProofs`: `ProcessInv` says, stage by stage, which settings start-up has accepted and
  what it has built from them, and which connections go with which state of their listener;
  `ListenerInv` that a listener which was started, whether or not it still runs, found every check
  passed; `GracefulTcp` needs that a TCP listener has ended only with its connections done.
- `ParamHeadersProofs` begins with the integer parser. `ParserExact` says what it returns for every
  text, base and limit. Its definitions are recursive functions; that those exist and obey their
  equations, and what they compute, is proved by induction over a set of natural numbers, stated with
  a set instead of an operator (`NatSetInduction`, from the well-foundedness of `<`), the only form of
  induction the provers can apply. The lemmas on `Number` and `Power` (concatenation, leading and
  trailing zeros, bounds) then give that the digits the parser keeps denote what the text denotes. For
  the walk through a schema `ParamInv` says that what has been collected and what is below the nodes
  still to visit cover the annotations, that no annotation is collected twice, and that what was
  compared agrees. `ForwardingInv` says, phase by phase, where the value
  of each header comes from.
- `SecretsScannerProofs`: `Up(n)` is a value with the containers it is in, the least set closed
  upwards; facts about it follow from `IsForest` by induction over the forest, again stated with a
  set. `EligibleReached` is the fact about the field filters: every container above a selected field is
  entered. `Chosen(sel, K)` says what `Select` keeps for the matches `K` considered so far:
  stretches in order, each beginning where no other match reaches, joined by overlaps, holding every
  match and named after the most specific. From this the number of stretches (`ChosenCount`, by a
  bijection) and the places they cover (`ChosenStretches`) follow. `ScannerInv` adds that nothing that
  waits for the walk is inside something else that waits (so no leaf is scanned twice and no finding
  counted twice), that the count is the number of stretches in the leaves that are done, and that
  exactly their matched places are gone. `SlicesAlwaysInOrder` says that no slice of the
  redaction panics.

Assumptions: most only say that constants have their types and that markers such as `None` are not
values. `ScannerAssumption` also has that a payload is a finite forest of JSON values, that paths grow
downwards from empty ones at the roots, and that field filters are not empty paths, which the plugin's
configuration refuses. `ParamHeaders` assumes that a schema is a tree, that numbers in arguments are
JSON numerals of the integers the model is about, and `HeaderForwarding` that the groups of header
names are disjoint. `HookEdits` assumes the types of the MCP and CMF libraries: a text part has a
text, a resource has a URI. `WatcherSound` and `NoEarlyCall` assume `Manual = {}`. TLC evaluates all of
them on the runs.

Only model-checked: `WatcherConverges`, `ReplacedRuntimeStops`, `WatcherEnds`, `ImplementsFairly`,
`CallReturns`, `NotesSettle`, `SignalEndsTcp` and `RepeatedSignalsEnd` (liveness under fairness is out
of the prover's reach), and the absence of deadlock (which needs `ENABLED`).
`NoCallBeforeFirstLoad`, `ParserExact` and `SlicesInOrder` are proved only. The
disagreements are counterexamples of TLC.

## Not modelled

- Set-up of logging, traces and metrics (`contextforge-data-plane-observability`): it decides nothing
  a request can see; that it may fail is a refusal in `GatewayProcess`. The injection of the trace context is in `HeaderForwarding`.
- The development endpoints (`lib/tools.rs`): they sign tokens and write configurations; the write is
  `SetConfig` of `UserConfigStore`.
- Parsing of command lines by clap, of the secrets plugin's configuration by serde, the regular
  expressions, base64, PEM and TLS, the evaluation of CEL: libraries whose results are inputs here.
- The principal extractors (`lib/authorization/principal_extractor/`): functions of one token's claims
  without state; `RequestRouting` has their two outcomes, a user or a 401.
- A `+` sign of an integer header, which the parser skips: a text without sign stands for it.
- Violation details, metrics and messages of errors.

RMCP, Redis, the issuer, the backends, tokio, axum and CPEX's plugin manager are external: modelled by
what the code may see of them.

## Plan

1. Done: the modules above, the refinement of the registry, and proofs of every safety property.
2. A composition of `RequestRouting` and `UserConfigStore`: a removed configuration stops routing
   after the bound. Both halves are proved; what is missing is one behaviour with both.
