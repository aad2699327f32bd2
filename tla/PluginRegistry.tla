--------------------------- MODULE PluginRegistry ---------------------------
(***************************************************************************)
(* The CPEX plugin runtime registry: the swappable runtime slot, the       *)
(* start-up load, the configuration watcher, the two reload operations of  *)
(* the public API, and the MCP calls that run hooks on the runtime they    *)
(* were admitted under while the slot is being replaced.                   *)
(*                                                                         *)
(* Code: contextforge-data-plane-cpex/src/{registry/mod,runtime,config}.rs *)
(* and contextforge-data-plane/src/main.rs.                                *)
(***************************************************************************)
EXTENDS Naturals, FiniteSets

CONSTANTS
    Doc,         \* plugin documents an operator may publish in Redis
    Decodable,   \* the documents that decode (JSON, then MessagePack)
    Buildable,   \* the documents a runtime can be built from
    Hooks,       \* Hooks[d][op]: the hooks document d declares for op
    Runtime,     \* identities of GatewayPluginRuntime allocations
    Call,        \* MCP calls in flight at once
    Manual,      \* callers of reload() and apply_config(); none in the binary
    Flaky        \* whether plugin initialization can fail on a good document

NoDoc   == "no_doc"      \* no document: missing key, empty runtime, no fingerprint
Failed  == "failed"      \* RuntimeState::Failed
Gone    == "gone"        \* the ArcSwap itself has been dropped
NoPin   == "no_pin"

Operation == {"tool", "prompt", "resource"}
HookName  == {"pre", "post"}
Loader    == {"init", "watcher"} \cup Manual

ASSUME DocAssumption ==
    /\ Decodable \subseteq Doc
    /\ Buildable \subseteq Decodable
    /\ NoDoc \notin Doc
    /\ Hooks \in [Doc -> [Operation -> SUBSET HookName]]

ASSUME RuntimeAssumption ==
    /\ {Failed, Gone, NoPin} \cap Runtime = {}
    /\ {"init", "watcher"} \cap Manual = {}
    /\ Flaky \in BOOLEAN

VARIABLES
    stored,    \* the document under the plugin configuration key in Redis
    up,        \* whether Redis answers
    slot,      \* the ArcSwap<RuntimeState>: a runtime, Failed, or Gone
    life,      \* life[r]: "free", "live" (some Arc), "stopping" (Drop ran)
    built,     \* built[r]: the document runtime r was built from
    loader,    \* loader[p]: where loader p is in its reload
    last,      \* the watcher's last_applied_config
    gateway,   \* "starting", "serving", or "exited" when initialize() failed
    handles,   \* whether a registry or handle still owns the slot
    call       \* call[c]: the hook state of call c

vars == <<stored, up, slot, life, built, loader, last, gateway, handles, call>>
env  == <<stored, up>>

LoaderState == [pc : {"off", "sleep", "fetch", "build", "apply"}, doc : Doc \cup {NoDoc}]
Idle        == [pc |-> "off", doc |-> NoDoc]
At(pc)      == [pc |-> pc, doc |-> NoDoc]

CallState == [phase : {"idle", "pre", "backend", "post", "ok", "err"},
              op    : Operation,
              doc   : Doc \cup {NoDoc},
              pin   : Runtime \cup {NoPin},
              ran   : SUBSET (HookName \X (Doc \cup {NoDoc}))]

\* The hook state of a call of op admitted under d.
Hooked(phase, op, d, pin, ran) ==
    [phase |-> phase, op |-> op, doc |-> d, pin |-> pin, ran |-> ran]

InProgress(c) == call[c].phase \in {"pre", "backend", "post"}

\* The hooks a runtime built from d runs for op; the default runtime has none.
HooksOf(d, op) == IF d \in Doc THEN Hooks[d][op] ELSE {}

-----------------------------------------------------------------------------
(* Arc ownership. A runtime lives while the slot or a call's CallState owns *)
(* it; dropping the last owner runs Drop, which spawns manager.shutdown().  *)

Owned(r, s, cs) == s = r \/ \E c \in Call : cs[c].pin = r

\* Mutant: a runtime is shut down when it leaves the slot, pinned or not.
AfterDrops_IgnoresPins(alive, s, cs) ==
    [r \in Runtime |-> IF alive[r] = "live" /\ s # r THEN "stopping" ELSE alive[r]]

\* Mutant: nothing shuts a replaced runtime down.
AfterDrops_NoDrop(alive, s, cs) == alive

AfterDrops(alive, s, cs) ==
    [r \in Runtime |-> IF alive[r] = "live" /\ ~Owned(r, s, cs) THEN "stopping" ELSE alive[r]]

\* Mutant: the watcher keeps the Arc it upgraded to.
Settle_StrongArc(s) == s

\* The state the slot is left in by a swap: with every handle gone, the
\* watcher's upgraded Arc is the last one, and ends with its reload.
Settle(s) == IF handles THEN s ELSE Gone

Swap(s, alive) ==
    /\ slot' = Settle(s)
    /\ life' = AfterDrops(alive, Settle(s), call)
    /\ UNCHANGED call

Init ==
    /\ stored \in Doc \cup {NoDoc}
    /\ up = TRUE
    /\ \E r \in Runtime :
          /\ slot = r
          /\ life = [q \in Runtime |-> IF q = r THEN "live" ELSE "free"]
    /\ built = [r \in Runtime |-> NoDoc]
    /\ loader = [p \in Loader |-> IF p = "init" THEN At("fetch") ELSE Idle]
    /\ last = NoDoc
    /\ gateway = "starting"
    /\ handles = TRUE
    /\ call = [c \in Call |-> Hooked("idle", "tool", NoDoc, NoPin, {})]

-----------------------------------------------------------------------------
(* Redis, changed by the control plane and by outages. *)

Publish ==
    /\ stored' \in (Doc \cup {NoDoc}) \ {stored}
    /\ UNCHANGED <<up, slot, life, built, loader, last, gateway, handles, call>>

Outage ==
    /\ up' = ~up
    /\ UNCHANGED <<stored, slot, life, built, loader, last, gateway, handles, call>>

-----------------------------------------------------------------------------
(* reload_runtime, shared by initialize(), the watcher and reload(). *)

\* What the caller of reload_runtime does with Ok(Some(d)).
Loaded(p, d) ==
    /\ loader'  = [q \in Loader |->
                     IF q = "watcher" /\ p \notin Manual THEN At("sleep")
                     ELSE IF q = p THEN Idle ELSE loader[q]]
    /\ last'    = IF p \in Manual THEN last ELSE d
    /\ gateway' = IF p = "init" THEN "serving" ELSE gateway

\* Mutant: the watcher keeps its fingerprint through an error.
LoadFailed_KeepsFingerprint(p) ==
    /\ loader' = [loader EXCEPT ![p] = IF p = "watcher" THEN At("sleep") ELSE Idle]
    /\ last'    = last
    /\ gateway' = IF p = "init" THEN "exited" ELSE gateway

\* What it does with Err: the process exits, the watcher forgets, reload() returns.
LoadFailed(p) ==
    /\ loader' = [loader EXCEPT ![p] = IF p = "watcher" THEN At("sleep") ELSE Idle]
    /\ last'    = IF p \in Manual THEN last ELSE NoDoc
    /\ gateway' = IF p = "init" THEN "exited" ELSE gateway

\* set_runtime_failed, then the caller's handling of the error.
SetRuntimeFailed(p) ==
    /\ Swap(Failed, life)
    /\ LoadFailed(p)
    /\ UNCHANGED <<env, built, handles>>

\* get_config fails, finds no document, or cannot decode it.
FetchErr(p) ==
    /\ loader[p].pc = "fetch"
    /\ ~up \/ stored \notin Decodable
    /\ SetRuntimeFailed(p)

\* The fingerprint is the one last applied: Ok(None), the slot is left alone.
\* Only the watcher passes a fingerprint.
FetchUnchanged(p) ==
    /\ p = "watcher"
    /\ loader[p].pc = "fetch"
    /\ up
    /\ stored \in Decodable
    /\ stored = last
    /\ loader' = [loader EXCEPT ![p] = At("sleep")]
    /\ Swap(slot, life)
    /\ UNCHANGED <<env, built, last, gateway, handles>>

FetchNew(p) ==
    /\ loader[p].pc = "fetch"
    /\ up
    /\ stored \in Decodable
    /\ p = "watcher" => stored # last
    /\ loader' = [loader EXCEPT ![p] = [pc |-> "build", doc |-> stored]]
    /\ UNCHANGED <<env, slot, life, built, last, gateway, handles, call>>

\* apply_runtime_config succeeds: the new runtime r replaces the slot.
BuildOk(p, r) ==
    /\ loader[p].pc \in {"build", "apply"}
    /\ loader[p].doc \in Buildable
    /\ life[r] = "free"
    /\ built' = [built EXCEPT ![r] = loader[p].doc]
    /\ Swap(r, [life EXCEPT ![r] = "live"])
    /\ Loaded(p, loader[p].doc)
    /\ UNCHANGED <<env, handles>>

BuildFails(p) == loader[p].doc \notin Buildable \/ Flaky

\* A wrong version, an unsupported setting or a plugin that does not start.
BuildErr(p) ==
    /\ loader[p].pc = "build"
    /\ BuildFails(p)
    /\ SetRuntimeFailed(p)

-----------------------------------------------------------------------------
(* The watcher task and the end of the registry. *)

\* The interval has passed and the Weak upgrades.
Wake ==
    /\ loader["watcher"].pc = "sleep"
    /\ slot # Gone
    /\ loader' = [loader EXCEPT !["watcher"] = At("fetch")]
    /\ UNCHANGED <<env, slot, life, built, last, gateway, handles, call>>

\* The Weak no longer upgrades: the watcher's loop breaks.
WatcherStops ==
    /\ loader["watcher"].pc = "sleep"
    /\ slot = Gone
    /\ loader' = [loader EXCEPT !["watcher"] = Idle]
    /\ UNCHANGED <<env, slot, life, built, last, gateway, handles, call>>

\* The last handle is dropped, with no call and no API caller left. A reload
\* under way keeps the slot until it ends.
DropHandles ==
    /\ gateway = "serving"
    /\ handles
    /\ \A c \in Call : ~InProgress(c)
    /\ \A p \in Manual : loader[p].pc = "off"
    /\ handles' = FALSE
    /\ slot' = IF loader["watcher"].pc = "sleep" THEN Gone ELSE slot
    /\ life' = AfterDrops(life, slot', call)
    /\ UNCHANGED <<env, built, loader, last, gateway, call>>

\* The spawned manager.shutdown() ends; the allocation may be reused.
Shutdown(r) ==
    /\ life[r] = "stopping"
    /\ life' = [life EXCEPT ![r] = "free"]
    /\ built' = [built EXCEPT ![r] = NoDoc]
    /\ UNCHANGED <<env, slot, loader, last, gateway, handles, call>>

-----------------------------------------------------------------------------
(* The public reload API, called concurrently with the watcher. *)

Reload(p) ==
    /\ p \in Manual
    /\ gateway = "serving"
    /\ handles
    /\ loader[p].pc = "off"
    /\ loader' = [loader EXCEPT ![p] = At("fetch")]
    /\ UNCHANGED <<env, slot, life, built, last, gateway, handles, call>>

ApplyConfig(p, d) ==
    /\ p \in Manual
    /\ gateway = "serving"
    /\ handles
    /\ loader[p].pc = "off"
    /\ loader' = [loader EXCEPT ![p] = [pc |-> "apply", doc |-> d]]
    /\ UNCHANGED <<env, slot, life, built, last, gateway, handles, call>>

\* apply_config(None) installs a default runtime, which declares no hooks.
ApplyNone(p, r) ==
    /\ p \in Manual
    /\ gateway = "serving"
    /\ handles
    /\ loader[p].pc = "off"
    /\ life[r] = "free"
    /\ built' = [built EXCEPT ![r] = NoDoc]
    /\ Swap(r, [life EXCEPT ![r] = "live"])
    /\ UNCHANGED <<env, loader, last, gateway, handles>>

\* apply_config returns the error without marking the runtime failed.
ApplyErr(p) ==
    /\ loader[p].pc = "apply"
    /\ BuildFails(p)
    /\ loader' = [loader EXCEPT ![p] = Idle]
    /\ UNCHANGED <<env, slot, life, built, last, gateway, handles, call>>

-----------------------------------------------------------------------------
(* Calls: handle.current() and before(), the backend, then after(). *)

SetCall(c, value) ==
    /\ call' = [call EXCEPT ![c] = value]
    /\ life' = AfterDrops(life, slot, call')
    /\ UNCHANGED <<env, slot, built, loader, last, gateway, handles>>

\* Mutant: the CallState takes whatever the slot holds by then.
ToBackend_PinsSlot(c, op, d, r, ran) ==
    SetCall(c, Hooked("backend", op, d,
                      IF "post" \in HooksOf(built[r], op) THEN slot ELSE NoPin, ran))

\* before() returns: CallState pins the runtime when a post hook is declared.
ToBackend(c, op, d, r, ran) ==
    SetCall(c, Hooked("backend", op, d,
                      IF "post" \in HooksOf(built[r], op) THEN r ELSE NoPin, ran))

Finish(c, phase, ran) ==
    SetCall(c, Hooked(phase, call[c].op, call[c].doc, NoPin, ran))

\* current() on a failed runtime rejects the call.
Reject(c, op) ==
    /\ gateway = "serving"
    /\ handles
    /\ ~InProgress(c)
    /\ slot = Failed
    /\ SetCall(c, Hooked("err", op, NoDoc, NoPin, {}))

\* Mutant: the listener opens before initialize() has returned.
Admit_WhileStarting(c, op) ==
    /\ gateway # "exited"
    /\ handles
    /\ ~InProgress(c)
    /\ slot \in Runtime
    /\ IF "pre" \in HooksOf(built[slot], op)
       THEN SetCall(c, Hooked("pre", op, built[slot], slot, {}))
       ELSE ToBackend(c, op, built[slot], slot, {})

\* current() clones the Arc, and before() looks at the declared hooks.
Admit(c, op) ==
    /\ gateway = "serving"
    /\ handles
    /\ ~InProgress(c)
    /\ slot \in Runtime
    /\ IF "pre" \in HooksOf(built[slot], op)
       THEN SetCall(c, Hooked("pre", op, built[slot], slot, {}))
       ELSE ToBackend(c, op, built[slot], slot, {})

\* The pre hook has run on the pinned runtime. Its denial, and an update that
\* does not apply, end the call before the backend is reached.
PreHook(c, allowed) ==
    /\ call[c].phase = "pre"
    /\ LET ran == call[c].ran \cup {<<"pre", built[call[c].pin]>>} IN
         IF allowed THEN ToBackend(c, call[c].op, call[c].doc, call[c].pin, ran)
                    ELSE Finish(c, "err", ran)

\* Mutant: whether there is a post hook is asked of the current runtime.
Backend_CurrentHooks(c, ok) ==
    LET after == slot \in Runtime /\ "post" \in HooksOf(built[slot], call[c].op) IN
    /\ call[c].phase = "backend"
    /\ \/ ~ok /\ Finish(c, "err", call[c].ran)
       \/ ok /\ ~after /\ Finish(c, "ok", call[c].ran)
       \/ /\ ok /\ after
          /\ SetCall(c, Hooked("post", call[c].op, call[c].doc, slot, call[c].ran))

\* A backend error ends the call and drops its CallState without a post hook.
Backend(c, ok) ==
    /\ call[c].phase = "backend"
    /\ \/ ~ok /\ Finish(c, "err", call[c].ran)
       \/ ok /\ call[c].pin = NoPin /\ Finish(c, "ok", call[c].ran)
       \/ /\ ok /\ call[c].pin # NoPin
          /\ SetCall(c, Hooked("post", call[c].op, call[c].doc, call[c].pin, call[c].ran))

\* Mutant: the post hook waits for its runtime to be the current one.
PostHook_WhenCurrent(c, allowed) ==
    /\ call[c].phase = "post"
    /\ call[c].pin = slot
    /\ Finish(c, IF allowed THEN "ok" ELSE "err",
              call[c].ran \cup {<<"post", built[call[c].pin]>>})

\* The post hook has run on the runtime the CallState owns.
PostHook(c, allowed) ==
    /\ call[c].phase = "post"
    /\ Finish(c, IF allowed THEN "ok" ELSE "err",
              call[c].ran \cup {<<"post", built[call[c].pin]>>})

\* to_payload fails, as it may for a resource: the hook does not run.
NoPayload(c) ==
    /\ call[c].phase = "post"
    /\ call[c].op = "resource"
    /\ Finish(c, "err", call[c].ran)

-----------------------------------------------------------------------------

LoadStep(p) ==
    \/ FetchErr(p) \/ FetchUnchanged(p) \/ FetchNew(p)
    \/ \E r \in Runtime : BuildOk(p, r)
    \/ BuildErr(p) \/ ApplyErr(p)

CallStep(c) ==
    \/ \E ok \in BOOLEAN : PreHook(c, ok) \/ Backend(c, ok) \/ PostHook(c, ok)
    \/ NoPayload(c)

Next ==
    \/ Publish \/ Outage
    \/ \E p \in Loader : LoadStep(p)
    \/ Wake \/ WatcherStops \/ DropHandles
    \/ \E r \in Runtime : Shutdown(r)
    \/ \E p \in Manual :
          \/ Reload(p)
          \/ \E d \in Decodable : ApplyConfig(p, d)
          \/ \E r \in Runtime : ApplyNone(p, r)
    \/ \E c \in Call :
          \/ \E op \in Operation : Reject(c, op) \/ Admit(c, op)
          \/ CallStep(c)

Spec == Init /\ [][Next]_vars

\* Tokio runs every ready task, the interval elapses, backends answer or time
\* out and hooks return. Nothing is assumed of Redis, clients or the operator.
Fairness ==
    /\ \A p \in Loader : WF_vars(LoadStep(p))
    /\ WF_vars(Wake \/ WatcherStops)
    /\ \A r \in Runtime : WF_vars(Shutdown(r))
    /\ \A c \in Call : WF_vars(CallStep(c))

FairSpec == Spec /\ Fairness

-----------------------------------------------------------------------------
(* Properties *)

\* Every variable keeps the shape the registry's types give it.
TypeOK ==
    /\ stored \in Doc \cup {NoDoc}
    /\ up \in BOOLEAN
    /\ slot \in Runtime \cup {Failed, Gone}
    /\ life \in [Runtime -> {"free", "live", "stopping"}]
    /\ built \in [Runtime -> Doc \cup {NoDoc}]
    /\ loader \in [Loader -> LoaderState]
    /\ last \in Doc \cup {NoDoc}
    /\ gateway \in {"starting", "serving", "exited"}
    /\ handles \in BOOLEAN
    /\ call \in [Call -> CallState]

\* A runtime a call has pinned is neither shut down nor replaced by another
\* one, however often the slot is swapped, failed or dropped meanwhile, and
\* neither is the runtime in the slot (CallState::runtime, Drop).
PinnedRuntimeIntact ==
    /\ \A c \in Call : call[c].pin # NoPin =>
          /\ life[call[c].pin] = "live"
          /\ built[call[c].pin] = call[c].doc
    /\ slot \in Runtime => life[slot] = "live"

\* A call that reached the backend had every pre hook of the document it was
\* admitted under, a call that returned a response had exactly the hooks of
\* that document, and no call runs a hook of another document: a reload never
\* adds, removes or mixes the hooks of a call in flight (before, after).
OneConfigPerCall ==
    \A c \in Call :
        LET declared == {<<h, call[c].doc>> : h \in HooksOf(call[c].doc, call[c].op)}
            passed   == {x \in declared : x[1] = "pre"}
        IN  /\ call[c].ran \subseteq declared
            /\ call[c].phase \in {"backend", "post"} => call[c].ran = passed
            /\ call[c].phase = "ok" => call[c].ran = declared

\* With the watcher as the only loader, its last applied fingerprint is the
\* document of the slot's runtime, and there is none exactly when the slot
\* is failed. It is what makes skipping an unchanged document sound
\* (start_config_watcher, reload_runtime).
WatcherTracksSlot ==
    gateway = "serving" /\ handles =>
        /\ slot = Failed <=> last = NoDoc
        /\ slot \in Runtime => built[slot] = last

\* No call is admitted under the empty default runtime the registry starts
\* with: the gateway serves only once a published document is loaded (main).
NoCallBeforeFirstLoad ==
    \A c \in Call : InProgress(c) \/ call[c].phase = "ok" => call[c].doc \in Buildable

ServesDoc(d) == slot \in Runtime /\ built[slot] = d

\* Once a good document stays in a reachable Redis, the gateway ends up
\* serving with it for good, whatever failed before (start_config_watcher).
WatcherConverges ==
    \A d \in Buildable :
        <>[](stored = d /\ up /\ handles /\ gateway = "serving") => <>[]ServesDoc(d)

\* A runtime that has left the slot is shut down once its calls are done.
ReplacedRuntimeStops ==
    \A r \in Runtime : (life[r] = "live" /\ slot # r) ~> (life[r] = "free" \/ slot = r)

\* When the last handle goes, the watcher task ends and no runtime is left.
WatcherEnds ==
    (gateway = "serving" /\ ~handles) ~>
        (loader["watcher"].pc = "off" /\ \A r \in Runtime : life[r] = "free")

=============================================================================
