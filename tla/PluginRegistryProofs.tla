------------------------ MODULE PluginRegistryProofs ------------------------
(***************************************************************************)
(* Invariance proofs for PluginRegistry, for every set of documents, hook  *)
(* declarations, runtimes, calls and API callers, and the proof that it    *)
(* implements AbstractRegistry.                                            *)
(***************************************************************************)
EXTENDS RegistryRefinement, TLAPS

\* The strengthening PinnedRuntimeIntact and OneConfigPerCall rest on: which
\* phases own a runtime, and what has run by each phase.
CallShape(x) ==
    LET declared == {<<h, x.doc>> : h \in HooksOf(x.doc, x.op)}
        passed   == {y \in declared : y[1] = "pre"}
    IN  /\ x.phase = "pre" =>
              x.pin # NoPin /\ x.ran = {} /\ "pre" \in HooksOf(x.doc, x.op)
        /\ x.phase \in {"backend", "post"} =>
              x.ran = passed /\ (x.pin # NoPin <=> "post" \in HooksOf(x.doc, x.op))
        /\ x.phase = "post" => x.pin # NoPin
        /\ x.phase \in {"idle", "ok", "err"} => x.pin = NoPin
        /\ x.phase = "ok" => x.ran = declared
        /\ x.ran \subseteq declared

CallsShaped == \A c \in Call : CallShape(call[c])

\* Inductive: a call's shape says when it owns a runtime, and owning one keeps
\* the document its hooks come from.
PinInv == TypeOK /\ PinnedRuntimeIntact /\ CallsShaped

-----------------------------------------------------------------------------
(* Types *)

\* What a runtime declares for an operation are hook names (HooksOf).
LEMMA HooksType == ASSUME NEW d, NEW op \in Operation PROVE HooksOf(d, op) \subseteq HookName
  BY DocAssumption DEF HooksOf

\* Dropping owners only moves runtimes between the three lifecycle states (Drop).
LEMMA AfterDropsType ==
    ASSUME NEW alive \in [Runtime -> {"free", "live", "stopping"}], NEW s, NEW cs
    PROVE  AfterDrops(alive, s, cs) \in [Runtime -> {"free", "live", "stopping"}]
  BY DEF AfterDrops

\* A swap of the slot keeps the types of the slot, the runtimes and the calls.
LEMMA SwapType ==
    ASSUME TypeOK, NEW s \in Runtime \cup {Failed, Gone},
           NEW alive \in [Runtime -> {"free", "live", "stopping"}], Swap(s, alive)
    PROVE  /\ slot' \in Runtime \cup {Failed, Gone}
           /\ life' \in [Runtime -> {"free", "live", "stopping"}]
           /\ call' \in [Call -> CallState]
  BY AfterDropsType DEF Swap, Settle, TypeOK

\* Replacing one call's hook state by another one keeps the types.
LEMMA SetCallType ==
    ASSUME TypeOK, NEW c \in Call, NEW v \in CallState, SetCall(c, v)
    PROVE  TypeOK'
  BY AfterDropsType DEF SetCall, TypeOK, env

\* The loader states the reload steps build are of the loader type.
LEMMA LoaderFacts ==
    /\ "init" \in Loader /\ "watcher" \in Loader /\ Manual \subseteq Loader
    /\ Idle \in LoaderState
    /\ \A pc \in {"off", "sleep", "fetch", "build", "apply"} :
          \A d \in Doc \cup {NoDoc} : [pc |-> pc, doc |-> d] \in LoaderState
  BY DEF Loader, LoaderState, Idle

\* A new registry is well typed (Default, main).
LEMMA InitType == Init => TypeOK
  <1> SUFFICES ASSUME Init PROVE TypeOK
    OBVIOUS
  <1>1. loader \in [Loader -> LoaderState]
    BY LoaderFacts DEF Init, At
  <1>2. call \in [Call -> CallState]
    BY DEF Init, CallState, Operation, Hooked
  <1>3. QED
    BY <1>1, <1>2 DEF Init, TypeOK

\* A failed load keeps the types.
LEMMA SetRuntimeFailedType ==
    ASSUME TypeOK, NEW p \in Loader, SetRuntimeFailed(p)
    PROVE  TypeOK'
  <1>1. /\ slot' \in Runtime \cup {Failed, Gone}
        /\ life' \in [Runtime -> {"free", "live", "stopping"}]
        /\ call' \in [Call -> CallState]
    BY SwapType DEF SetRuntimeFailed, TypeOK
  <1>2. loader' \in [Loader -> LoaderState]
    BY LoaderFacts DEF SetRuntimeFailed, LoadFailed, TypeOK, At
  <1>3. QED
    BY <1>1, <1>2 DEF SetRuntimeFailed, LoadFailed, TypeOK, env

\* A successful build keeps the types (apply_runtime_config).
LEMMA BuildOkType ==
    ASSUME TypeOK, NEW p \in Loader, NEW r \in Runtime, BuildOk(p, r)
    PROVE  TypeOK'
  <1>0. loader[p].doc \in Doc
    BY DocAssumption DEF BuildOk
  <1>1. /\ slot' \in Runtime \cup {Failed, Gone}
        /\ life' \in [Runtime -> {"free", "live", "stopping"}]
        /\ call' \in [Call -> CallState]
    BY SwapType DEF BuildOk, TypeOK
  <1>2. loader' \in [Loader -> LoaderState]
    BY LoaderFacts DEF BuildOk, Loaded, TypeOK, At
  <1>3. QED
    BY <1>0, <1>1, <1>2 DEF BuildOk, Loaded, TypeOK, env

\* Any load step keeps the types.
LEMMA LoadStepType ==
    ASSUME TypeOK, NEW p \in Loader, LoadStep(p)
    PROVE  TypeOK'
  <1>1. CASE FetchErr(p) \/ BuildErr(p)
    BY <1>1, SetRuntimeFailedType DEF FetchErr, BuildErr
  <1>2. CASE FetchUnchanged(p)
    <2>1. /\ slot' \in Runtime \cup {Failed, Gone}
          /\ life' \in [Runtime -> {"free", "live", "stopping"}]
          /\ call' \in [Call -> CallState]
      BY <1>2, SwapType DEF FetchUnchanged, TypeOK
    <2>2. loader' \in [Loader -> LoaderState]
      BY <1>2, LoaderFacts DEF FetchUnchanged, TypeOK, At
    <2>3. QED
      BY <1>2, <2>1, <2>2 DEF FetchUnchanged, TypeOK, env
  <1>3. CASE FetchNew(p)
    BY <1>3, LoaderFacts DEF FetchNew, TypeOK, env
  <1>4. CASE \E r \in Runtime : BuildOk(p, r)
    BY <1>4, BuildOkType
  <1>5. CASE ApplyErr(p)
    BY <1>5, LoaderFacts DEF ApplyErr, TypeOK, env
  <1>6. QED
    BY <1>1, <1>2, <1>3, <1>4, <1>5 DEF LoadStep

-----------------------------------------------------------------------------
(* Calls *)

\* What a new hook state must satisfy for the call to keep its promises.
Sound(v) ==
    /\ v \in CallState
    /\ CallShape(v)
    /\ v.pin # NoPin => life[v.pin] = "live" /\ built[v.pin] = v.doc

\* Replacing one call's hook state by a sound one keeps the invariant: drops
\* touch only runtimes that neither the slot nor a call owns afterwards.
LEMMA SetCallInv ==
    ASSUME PinInv, NEW c \in Call, NEW v, Sound(v), SetCall(c, v)
    PROVE  PinInv'
  <1>1. TypeOK'
    BY SetCallType DEF PinInv, Sound
  <1>2. \A q \in Call : call'[q] = IF q = c THEN v ELSE call[q]
    BY DEF SetCall, PinInv, TypeOK
  <1>3. CallsShaped'
    BY <1>2 DEF PinInv, CallsShaped, Sound
  <1>4. \A q \in Call : call'[q].pin # NoPin =>
           call'[q].pin \in Runtime /\ life[call'[q].pin] = "live" /\ built[call'[q].pin] = call'[q].doc
    BY <1>2 DEF PinInv, PinnedRuntimeIntact, Sound, TypeOK, CallState
  <1>5. life' = AfterDrops(life, slot, call') /\ slot' = slot /\ built' = built
    BY DEF SetCall
  <1>6. \A q \in Call : call'[q].pin # NoPin => life'[call'[q].pin] = "live"
    BY <1>4, <1>5 DEF AfterDrops, Owned
  <1>7. slot' \in Runtime => life'[slot'] = "live"
    BY <1>5 DEF AfterDrops, Owned, PinInv, PinnedRuntimeIntact
  <1>8. QED
    BY <1>1, <1>3, <1>4, <1>5, <1>6, <1>7 DEF PinInv, PinnedRuntimeIntact

\* Admission, rejection and every later step of a call install a sound state.
LEMMA CallInv ==
    ASSUME PinInv, NEW c \in Call,
           \/ \E op \in Operation : Reject(c, op) \/ Admit(c, op)
           \/ CallStep(c)
    PROVE  PinInv'
  <1> DEFINE x == call[c]
  <1>0. /\ x \in CallState /\ CallShape(x)
        /\ x.pin # NoPin => /\ x.pin \in Runtime
                            /\ life[x.pin] = "live"
                            /\ built[x.pin] = x.doc
    BY DEF PinInv, TypeOK, CallsShaped, PinnedRuntimeIntact, CallState
  <1>1. ASSUME NEW op \in Operation, Reject(c, op) PROVE PinInv'
    <2>1. Sound(Hooked("err", op, NoDoc, NoPin, {}))
      BY DEF Sound, CallState, CallShape, Hooked
    <2>2. QED
      BY <1>1, <2>1, SetCallInv DEF Reject
  <1>2. ASSUME NEW op \in Operation, Admit(c, op) PROVE PinInv'
    <2>1. /\ slot \in Runtime /\ slot # NoPin /\ life[slot] = "live"
          /\ built[slot] \in Doc \cup {NoDoc}
      BY <1>2, RuntimeAssumption DEF Admit, PinInv, TypeOK, PinnedRuntimeIntact
    <2>2. CASE "pre" \in HooksOf(built[slot], op)
      <3>1. Sound(Hooked("pre", op, built[slot], slot, {}))
        BY <2>1, <2>2 DEF Sound, CallState, CallShape, Hooked
      <3>2. QED
        BY <1>2, <2>2, <3>1, SetCallInv DEF Admit
    <2>3. CASE "pre" \notin HooksOf(built[slot], op)
      <3> DEFINE v == Hooked("backend", op, built[slot],
                        IF "post" \in HooksOf(built[slot], op) THEN slot ELSE NoPin, {})
      <3>1. Sound(v)
        BY <2>1, <2>3, HooksType DEF Sound, CallState, CallShape, Hooked, HookName
      <3>2. QED
        BY <1>2, <2>3, <3>1, SetCallInv DEF Admit, ToBackend
    <2>4. QED
      BY <2>2, <2>3
  <1>3. ASSUME NEW ok \in BOOLEAN, PreHook(c, ok) PROVE PinInv'
    <2> DEFINE ran == x.ran \cup {<<"pre", built[x.pin]>>}
    <2>1. x.phase = "pre" /\ x.pin # NoPin /\ x.ran = {} /\ "pre" \in HooksOf(x.doc, x.op)
      BY <1>0, <1>3 DEF PreHook, CallShape
    <2>2. ran = {<<"pre", x.doc>>}
      BY <1>0, <2>1
    <2>3. CASE ok
      <3> DEFINE v == Hooked("backend", x.op, x.doc,
                        IF "post" \in HooksOf(built[x.pin], x.op) THEN x.pin ELSE NoPin, ran)
      <3>1. Sound(v)
        BY <1>0, <2>1, <2>2, HooksType DEF Sound, CallState, CallShape, Hooked, HookName
      <3>2. QED
        BY <1>3, <2>3, <3>1, SetCallInv DEF PreHook, ToBackend
    <2>4. CASE ~ok
      <3>1. Sound(Hooked("err", x.op, x.doc, NoPin, ran))
        BY <1>0, <2>1, <2>2, HooksType DEF Sound, CallState, CallShape, Hooked, HookName
      <3>2. QED
        BY <1>3, <2>4, <3>1, SetCallInv DEF PreHook, Finish
    <2>5. QED
      BY <2>3, <2>4
  <1>4. ASSUME NEW ok \in BOOLEAN, Backend(c, ok) PROVE PinInv'
    <2>1. x.phase = "backend"
      BY <1>4 DEF Backend
    <2>2. Sound(Hooked("err", x.op, x.doc, NoPin, x.ran))
      BY <1>0, <2>1 DEF Sound, CallState, CallShape, Hooked
    <2>3. x.pin = NoPin => Sound(Hooked("ok", x.op, x.doc, NoPin, x.ran))
      BY <1>0, <2>1, HooksType DEF Sound, CallState, CallShape, Hooked, HookName
    <2>4. x.pin # NoPin => Sound(Hooked("post", x.op, x.doc, x.pin, x.ran))
      BY <1>0, <2>1 DEF Sound, CallState, CallShape, Hooked
    <2>5. QED
      BY <1>4, <2>2, <2>3, <2>4, SetCallInv DEF Backend, Finish
  <1>5. ASSUME NEW ok \in BOOLEAN, PostHook(c, ok) PROVE PinInv'
    <2> DEFINE ran == x.ran \cup {<<"post", built[x.pin]>>}
    <2>1. x.phase = "post" /\ x.pin # NoPin
      BY <1>0, <1>5 DEF PostHook, CallShape
    <2>2. ran = {<<h, x.doc>> : h \in HooksOf(x.doc, x.op)}
      BY <1>0, <2>1, HooksType DEF CallShape, CallState, HookName
    <2>3. \A phase \in {"ok", "err"} : Sound(Hooked(phase, x.op, x.doc, NoPin, ran))
      BY <1>0, <2>2, HooksType DEF Sound, CallState, CallShape, Hooked, HookName
    <2>4. QED
      BY <1>5, <2>3, SetCallInv DEF PostHook, Finish
  <1>6. CASE NoPayload(c)
    <2>1. x.phase = "post"
      BY <1>6 DEF NoPayload
    <2>2. Sound(Hooked("err", x.op, x.doc, NoPin, x.ran))
      BY <1>0, <2>1 DEF Sound, CallState, CallShape, Hooked
    <2>3. QED
      BY <1>6, <2>2, SetCallInv DEF NoPayload, Finish
  <1>7. QED
    BY <1>1, <1>2, <1>3, <1>4, <1>5, <1>6 DEF CallStep

-----------------------------------------------------------------------------
(* The slot *)

\* A swap to s keeps what the calls pinned, when no live runtime is killed by
\* it and s itself is live.
LEMMA SwapInv ==
    ASSUME PinInv, TypeOK', NEW s, NEW alive \in [Runtime -> {"free", "live", "stopping"}],
           \A q \in Runtime : life[q] = "live" => alive[q] = "live" /\ built'[q] = built[q],
           s \in Runtime => alive[s] = "live",
           slot' = s, life' = AfterDrops(alive, s, call), call' = call
    PROVE  PinInv'
  <1>1. CallsShaped'
    BY DEF PinInv, CallsShaped
  <1>2. \A c \in Call : call[c].pin # NoPin =>
           /\ call[c].pin \in Runtime
           /\ alive[call[c].pin] = "live"
           /\ built'[call[c].pin] = call[c].doc
    BY DEF PinInv, PinnedRuntimeIntact, TypeOK, CallState
  <1>3. \A c \in Call : call[c].pin # NoPin => life'[call[c].pin] = "live"
    BY <1>2 DEF AfterDrops, Owned
  <1>4. slot' \in Runtime => life'[slot'] = "live"
    BY DEF AfterDrops, Owned
  <1>5. QED
    BY <1>1, <1>2, <1>3, <1>4 DEF PinInv, PinnedRuntimeIntact

\* Marking the runtime failed takes no runtime from a call (set_runtime_failed).
LEMMA SetRuntimeFailedInv ==
    ASSUME PinInv, NEW p \in Loader, SetRuntimeFailed(p)
    PROVE  PinInv'
  <1>1. TypeOK'
    BY SetRuntimeFailedType DEF PinInv
  <1>2. slot' = Settle(Failed) /\ life' = AfterDrops(life, Settle(Failed), call) /\ call' = call /\ built' = built
    BY DEF SetRuntimeFailed, Swap
  <1>3. Settle(Failed) \notin Runtime
    BY RuntimeAssumption DEF Settle
  <1>4. QED
    BY <1>1, <1>2, <1>3, SwapInv DEF PinInv, TypeOK

\* The allocation a new runtime takes is free, so no call has it pinned.
LEMMA InstallInv ==
    ASSUME PinInv, TypeOK', NEW r \in Runtime, NEW d, life[r] = "free",
           built' = [built EXCEPT ![r] = d], Swap(r, [life EXCEPT ![r] = "live"])
    PROVE  PinInv'
  <1> DEFINE alive == [life EXCEPT ![r] = "live"]
  <1>1. alive \in [Runtime -> {"free", "live", "stopping"}]
    BY DEF PinInv, TypeOK
  <1>2. slot' = Settle(r) /\ life' = AfterDrops(alive, Settle(r), call) /\ call' = call
    BY DEF Swap
  <1>3. Settle(r) \in Runtime => alive[Settle(r)] = "live"
    BY RuntimeAssumption DEF Settle, PinInv, TypeOK
  <1>4. \A q \in Runtime : life[q] = "live" => alive[q] = "live" /\ built'[q] = built[q]
    BY DEF PinInv, TypeOK
  <1>5. QED
    BY <1>1, <1>2, <1>3, <1>4, SwapInv

\* No step of a reload takes a runtime from a call (reload_runtime).
LEMMA LoadStepInv ==
    ASSUME PinInv, NEW p \in Loader, LoadStep(p)
    PROVE  PinInv'
  <1>0. TypeOK'
    BY LoadStepType DEF PinInv
  <1>1. CASE FetchErr(p) \/ BuildErr(p)
    BY <1>1, SetRuntimeFailedInv DEF FetchErr, BuildErr
  <1>2. CASE FetchUnchanged(p)
    <2>1. slot' = Settle(slot) /\ life' = AfterDrops(life, Settle(slot), call) /\ call' = call /\ built' = built
      BY <1>2 DEF FetchUnchanged, Swap
    <2>2. Settle(slot) \in Runtime => life[Settle(slot)] = "live"
      BY RuntimeAssumption DEF Settle, PinInv, PinnedRuntimeIntact
    <2>3. QED
      BY <1>0, <2>1, <2>2, SwapInv DEF PinInv, TypeOK
  <1>3. CASE FetchNew(p) \/ ApplyErr(p)
    BY <1>0, <1>3 DEF FetchNew, ApplyErr, PinInv, PinnedRuntimeIntact, CallsShaped
  <1>4. ASSUME NEW r \in Runtime, BuildOk(p, r) PROVE PinInv'
    BY <1>0, <1>4, InstallInv DEF BuildOk
  <1>5. QED
    BY <1>1, <1>2, <1>3, <1>4 DEF LoadStep

\* Every step keeps the types.
LEMMA NextType == PinInv /\ [Next]_vars => TypeOK'
  <1> SUFFICES ASSUME PinInv, [Next]_vars PROVE TypeOK'
    OBVIOUS
  <1>0. TypeOK
    BY DEF PinInv
  <1>1. CASE Publish \/ Outage
    BY <1>0, <1>1 DEF Publish, Outage, TypeOK
  <1>2. ASSUME NEW p \in Loader, LoadStep(p) PROVE TypeOK'
    BY <1>0, <1>2, LoadStepType
  <1>3. CASE Wake \/ WatcherStops
    BY <1>0, <1>3, LoaderFacts DEF Wake, WatcherStops, TypeOK, env, At
  <1>4. CASE DropHandles
    BY <1>0, <1>4, AfterDropsType DEF DropHandles, TypeOK, env
  <1>5. ASSUME NEW r \in Runtime, Shutdown(r) PROVE TypeOK'
    BY <1>0, <1>5 DEF Shutdown, TypeOK, env
  <1>6. ASSUME NEW p \in Manual, Reload(p) PROVE TypeOK'
    BY <1>0, <1>6, LoaderFacts DEF Reload, TypeOK, env, At
  <1>7. ASSUME NEW p \in Manual, NEW d \in Decodable, ApplyConfig(p, d) PROVE TypeOK'
    BY <1>0, <1>7, LoaderFacts, DocAssumption DEF ApplyConfig, TypeOK, env
  <1>8. ASSUME NEW p \in Manual, NEW r \in Runtime, ApplyNone(p, r) PROVE TypeOK'
    BY <1>0, <1>8, SwapType DEF ApplyNone, TypeOK, env
  <1>9. ASSUME NEW c \in Call,
               (\E op \in Operation : Reject(c, op) \/ Admit(c, op)) \/ CallStep(c)
        PROVE  TypeOK'
    BY <1>9, CallInv DEF PinInv
  <1>10. CASE UNCHANGED vars
    BY <1>0, <1>10 DEF vars, TypeOK
  <1>11. QED
    BY <1>1, <1>2, <1>3, <1>4, <1>5, <1>6, <1>7, <1>8, <1>9, <1>10 DEF Next

\* The invariant holds of a new registry, whose calls are all idle.
LEMMA InitInv == Init => PinInv
  <1> SUFFICES ASSUME Init PROVE PinInv
    OBVIOUS
  <1>1. TypeOK
    BY InitType
  <1>2. PinnedRuntimeIntact
    BY DEF Init, Hooked, PinnedRuntimeIntact
  <1>3. CallsShaped
    BY DEF Init, Hooked, CallsShaped, CallShape
  <1>4. QED
    BY <1>1, <1>2, <1>3 DEF PinInv

\* Every step keeps the invariant: one case per action.
LEMMA NextInv == PinInv /\ [Next]_vars => PinInv'
  <1> SUFFICES ASSUME PinInv, [Next]_vars PROVE PinInv'
    OBVIOUS
  <1>0. TypeOK'
    BY NextType DEF PinInv
  <1>1. CASE Publish \/ Outage \/ Wake \/ WatcherStops \/ UNCHANGED vars
    BY <1>0, <1>1 DEF Publish, Outage, Wake, WatcherStops, vars, PinInv, PinnedRuntimeIntact, CallsShaped
  <1>2. ASSUME NEW p \in Loader, LoadStep(p) PROVE PinInv'
    BY <1>2, LoadStepInv
  <1>3. CASE DropHandles
    <2> DEFINE s == IF loader["watcher"].pc = "sleep" THEN Gone ELSE slot
    <2>1. slot' = s /\ life' = AfterDrops(life, s, call) /\ call' = call /\ built' = built
      BY <1>3 DEF DropHandles
    <2>2. s \in Runtime => life[s] = "live"
      BY RuntimeAssumption DEF PinInv, PinnedRuntimeIntact
    <2>3. QED
      BY <1>0, <2>1, <2>2, SwapInv DEF PinInv, TypeOK
  <1>4. ASSUME NEW r \in Runtime, Shutdown(r) PROVE PinInv'
    <2>1. \A q \in Runtime : life[q] = "live" => life'[q] = "live" /\ built'[q] = built[q]
      BY <1>4 DEF Shutdown, PinInv, TypeOK
    <2>2. \A c \in Call : call[c].pin # NoPin => call[c].pin \in Runtime
      BY DEF PinInv, TypeOK, CallState
    <2>3. QED
      BY <1>0, <1>4, <2>1, <2>2 DEF Shutdown, PinInv, PinnedRuntimeIntact, CallsShaped
  <1>5. ASSUME NEW p \in Manual, Reload(p) \/ \E d \in Decodable : ApplyConfig(p, d) PROVE PinInv'
    BY <1>0, <1>5 DEF Reload, ApplyConfig, PinInv, PinnedRuntimeIntact, CallsShaped
  <1>6. ASSUME NEW p \in Manual, NEW r \in Runtime, ApplyNone(p, r) PROVE PinInv'
    BY <1>0, <1>6, InstallInv DEF ApplyNone
  <1>7. ASSUME NEW c \in Call,
               (\E op \in Operation : Reject(c, op) \/ Admit(c, op)) \/ CallStep(c)
        PROVE  PinInv'
    BY <1>7, CallInv
  <1>8. QED
    BY <1>1, <1>2, <1>3, <1>4, <1>5, <1>6, <1>7 DEF Next

-----------------------------------------------------------------------------
(* Theorems *)

\* The inductive invariant holds in every reachable state.
LEMMA PinInvAlways == Spec => []PinInv
  BY InitInv, NextInv, PTL DEF Spec

\* The registry's variables keep their types in every reachable state.
THEOREM TypeCorrect == Spec => []TypeOK
  BY PinInvAlways, PTL DEF PinInv

\* No reload, failure, drop or shutdown ever takes the runtime of a call in
\* flight away from it, for any number of calls, loaders and API callers.
THEOREM PinnedRuntimesIntact == Spec => []PinnedRuntimeIntact
  BY PinInvAlways, PTL DEF PinInv

\* Every call runs exactly the hooks of the one document it was admitted
\* under, whatever the slot holds by the time it runs them.
THEOREM OneConfiguration == Spec => []OneConfigPerCall
  <1>1. PinInv => OneConfigPerCall
    BY DEF PinInv, CallsShaped, CallShape, OneConfigPerCall
  <1>2. QED
    BY <1>1, PinInvAlways, PTL

-----------------------------------------------------------------------------
(* The refinement of AbstractRegistry *)

\* A runtime is built from a document that can be, or it is a default one.
BuiltFromBuildable == \A r \in Runtime : built[r] \in Buildable \cup {NoDoc}

RefInv == PinInv /\ BuiltFromBuildable

\* No step builds a runtime from anything else (apply_runtime_config, Default).
LEMMA RefInvAlways == Spec => []RefInv
  <1>1. Init => BuiltFromBuildable
    BY DEF Init, BuiltFromBuildable
  <1>2. RefInv /\ [Next]_vars => BuiltFromBuildable'
    <2> SUFFICES ASSUME RefInv, [Next]_vars PROVE BuiltFromBuildable'
      OBVIOUS
    <2> USE DEF RefInv, BuiltFromBuildable
    <2>0. built \in [Runtime -> Doc \cup {NoDoc}]
      BY DEF PinInv, TypeOK
    <2>1. ASSUME NEW p \in Loader, LoadStep(p) PROVE BuiltFromBuildable'
      BY <2>0, <2>1 DEF LoadStep, FetchErr, FetchUnchanged, FetchNew, BuildOk, BuildErr,
                        ApplyErr, SetRuntimeFailed
    <2>2. ASSUME NEW r \in Runtime, Shutdown(r) \/ \E p \in Manual : ApplyNone(p, r)
          PROVE  BuiltFromBuildable'
      BY <2>0, <2>2 DEF Shutdown, ApplyNone
    <2>3. ASSUME NEW c \in Call,
                 (\E op \in Operation : Reject(c, op) \/ Admit(c, op)) \/ CallStep(c)
          PROVE  BuiltFromBuildable'
      BY <2>3 DEF CallStep, Reject, Admit, PreHook, Backend, PostHook, NoPayload, ToBackend, Finish, SetCall
    <2>4. CASE Publish \/ Outage \/ Wake \/ WatcherStops \/ DropHandles \/ UNCHANGED vars
      BY <2>4 DEF Publish, Outage, Wake, WatcherStops, DropHandles, vars
    <2>5. ASSUME NEW p \in Manual, Reload(p) \/ \E d \in Decodable : ApplyConfig(p, d)
          PROVE  BuiltFromBuildable'
      BY <2>5 DEF Reload, ApplyConfig
    <2>6. QED
      BY <2>1, <2>2, <2>3, <2>4, <2>5 DEF Next
  <1>3. QED
    BY <1>1, <1>2, InitInv, NextInv, PTL DEF Spec, RefInv

\* A step that leaves the calls alone is seen as a reconfiguration, whichever
\* loader takes it and whether it succeeds (reload_runtime, set_runtime_failed).
LEMMA HiddenStep ==
    ASSUME BuiltFromBuildable', call' = call
    PROVE  Abstract!Reconfigure
  BY DEF BuiltFromBuildable, Abstract!Reconfigure, Current, Unpinned

\* What the handlers see of a hook state.
Seen(x) == [phase |-> x.phase, op |-> x.op, doc |-> x.doc, ran |-> x.ran]

\* A step of one call changes nothing else that the handlers see.
LEMMA SeenStep ==
    ASSUME RefInv, NEW c \in Call, NEW v, SetCall(c, v)
    PROVE  Abstract!SetCall(c, Seen(v))
  <1>1. call \in [Call -> CallState] /\ call' = [call EXCEPT ![c] = v]
    BY DEF RefInv, PinInv, TypeOK, SetCall
  <1>2. Unpinned' = [Unpinned EXCEPT ![c] = Seen(v)]
    BY <1>1 DEF Unpinned, Seen
  <1>3. Current' = Current
    BY DEF SetCall, Current
  <1>4. QED
    BY <1>2, <1>3 DEF Abstract!SetCall

\* Admission takes the current configuration, and every later step of a call
\* is one of the abstract call: a hook that runs on the pinned runtime is a
\* hook of the configuration the call began with (current, before, after).
LEMMA CallSimulates ==
    ASSUME RefInv, NEW c \in Call,
           \/ \E op \in Operation : Reject(c, op) \/ Admit(c, op)
           \/ CallStep(c)
    PROVE  Abstract!Next
  <1> DEFINE x == call[c]
  <1>0. /\ x \in CallState /\ CallShape(x)
        /\ x.pin # NoPin => built[x.pin] = x.doc
        /\ Unpinned[c] = Seen(x)
    BY DEF RefInv, PinInv, TypeOK, CallsShaped, PinnedRuntimeIntact, Unpinned, Seen
  <1>1. ASSUME NEW op \in Operation, Reject(c, op) PROVE Abstract!Refuse(c, op)
    <2>1. Abstract!SetCall(c, Seen(Hooked("err", op, NoDoc, NoPin, {})))
      BY <1>1, SeenStep DEF Reject
    <2>2. Current = Failed
      BY <1>1, RuntimeAssumption DEF Reject, Current
    <2>3. QED
      BY <1>0, <1>1, <2>1, <2>2
      DEF Reject, InProgress, Abstract!Refuse, Abstract!InProgress, Abstract!Hooked, Seen, Hooked
  <1>2. ASSUME NEW op \in Operation, Admit(c, op) PROVE Abstract!Begin(c, op)
    <2>1. Current = built[slot] /\ Current \in Buildable \cup {NoDoc}
      BY <1>2 DEF Admit, Current, RefInv, BuiltFromBuildable
    <2> DEFINE h == IF "pre" \in HooksOf(Current, op) THEN "pre" ELSE "backend"
    <2>2. Abstract!SetCall(c, Abstract!Hooked(h, op, Current, {}))
      <3>1. CASE "pre" \in HooksOf(built[slot], op)
        <4>1. Abstract!SetCall(c, Seen(Hooked("pre", op, built[slot], slot, {})))
          BY <1>2, <3>1, SeenStep DEF Admit
        <4>2. QED
          BY <2>1, <3>1, <4>1 DEF Seen, Hooked, Abstract!Hooked
      <3>2. CASE "pre" \notin HooksOf(built[slot], op)
        <4> DEFINE pin == IF "post" \in HooksOf(built[slot], op) THEN slot ELSE NoPin
        <4>1. Abstract!SetCall(c, Seen(Hooked("backend", op, built[slot], pin, {})))
          BY <1>2, <3>2, SeenStep DEF Admit, ToBackend
        <4>2. QED
          BY <2>1, <3>2, <4>1 DEF Seen, Hooked, Abstract!Hooked
      <3>3. QED
        BY <3>1, <3>2
    <2>3. QED
      BY <1>0, <1>2, <2>1, <2>2
      DEF Admit, InProgress, Abstract!Begin, Abstract!InProgress, Seen
  <1>3. ASSUME NEW ok \in BOOLEAN, PreHook(c, ok)
        PROVE  \E phase \in {"backend", "err"} : Abstract!RunHook(c, "pre", phase)
    <2> DEFINE ran == x.ran \cup {<<"pre", built[x.pin]>>}
    <2>1. x.phase = "pre" /\ built[x.pin] = x.doc
      BY <1>0, <1>3 DEF PreHook, CallShape
    <2>2. PICK phase \in {"backend", "err"}, pin \in {x.pin, NoPin} : SetCall(c, Hooked(phase, x.op, x.doc, pin, ran))
      BY <1>3 DEF PreHook, ToBackend, Finish
    <2>3. Abstract!SetCall(c, Seen(Hooked(phase, x.op, x.doc, pin, ran)))
      BY <2>2, SeenStep
    <2>4. Abstract!RunHook(c, "pre", phase)
      BY <1>0, <2>1, <2>3 DEF Abstract!RunHook, Abstract!Hooked, Seen, Hooked
    <2>5. QED
      BY <2>4
  <1>4. ASSUME NEW ok \in BOOLEAN, Backend(c, ok) PROVE Abstract!Answer(c, ok)
    <2> DEFINE phase == IF ~ok THEN "err"
                        ELSE IF "post" \in HooksOf(x.doc, x.op) THEN "post" ELSE "ok"
    <2>1. x.phase = "backend" /\ (x.pin # NoPin <=> "post" \in HooksOf(x.doc, x.op))
      BY <1>0, <1>4 DEF Backend, CallShape
    <2>2. \E pin : SetCall(c, Hooked(phase, x.op, x.doc, pin, x.ran))
      <3>1. CASE ~ok
        BY <1>4, <3>1 DEF Backend, Finish
      <3>2. CASE ok /\ x.pin = NoPin
        BY <1>4, <2>1, <3>2 DEF Backend, Finish
      <3>3. CASE ok /\ x.pin # NoPin
        BY <1>4, <2>1, <3>3 DEF Backend, Finish
      <3>4. QED
        BY <3>1, <3>2, <3>3
    <2>3. PICK pin : SetCall(c, Hooked(phase, x.op, x.doc, pin, x.ran))
      BY <2>2
    <2>4. Abstract!SetCall(c, Seen(Hooked(phase, x.op, x.doc, pin, x.ran)))
      BY <2>3, SeenStep
    <2>5. QED
      BY <1>0, <2>1, <2>4 DEF Abstract!Answer, Abstract!Hooked, Seen, Hooked
  <1>5. ASSUME NEW ok \in BOOLEAN, PostHook(c, ok)
        PROVE  \E phase \in {"ok", "err"} : Abstract!RunHook(c, "post", phase)
    <2> DEFINE ran == x.ran \cup {<<"post", built[x.pin]>>}
               phase == IF ok THEN "ok" ELSE "err"
    <2>1. x.phase = "post" /\ built[x.pin] = x.doc
      BY <1>0, <1>5 DEF PostHook, CallShape
    <2>2. SetCall(c, Hooked(phase, x.op, x.doc, NoPin, ran))
      BY <1>5 DEF PostHook, Finish
    <2>3. Abstract!SetCall(c, Seen(Hooked(phase, x.op, x.doc, NoPin, ran)))
      BY <2>2, SeenStep
    <2>4. Abstract!RunHook(c, "post", phase)
      BY <1>0, <2>1, <2>3 DEF Abstract!RunHook, Abstract!Hooked, Seen, Hooked
    <2>5. QED
      BY <2>4
  <1>6. CASE NoPayload(c)
    <2>1. Abstract!SetCall(c, Seen(Hooked("err", x.op, x.doc, NoPin, x.ran)))
      BY <1>6, SeenStep DEF NoPayload, Finish
    <2>2. Abstract!Unseen(c)
      BY <1>0, <1>6, <2>1 DEF NoPayload, Abstract!Unseen, Abstract!Hooked, Seen, Hooked
    <2>3. QED
      BY <2>2 DEF Abstract!Next, Abstract!CallStep
  <1>7. QED
    BY <1>1, <1>2, <1>3, <1>4, <1>5, <1>6 DEF CallStep, Abstract!Next, Abstract!CallStep

\* Every step of the registry is a step of the abstract one, or none of it.
LEMMA StepSimulation == RefInv /\ RefInv' /\ [Next]_vars => [Abstract!Next]_(Abstract!vars)
  <1> SUFFICES ASSUME RefInv, RefInv', [Next]_vars PROVE [Abstract!Next]_(Abstract!vars)
    OBVIOUS
  <1>1. CASE call' = call
    BY <1>1, HiddenStep DEF RefInv, Abstract!Next
  <1>2. ASSUME NEW c \in Call,
               (\E op \in Operation : Reject(c, op) \/ Admit(c, op)) \/ CallStep(c)
        PROVE  Abstract!Next
    BY <1>2, CallSimulates
  <1>3. ASSUME NEW p \in Loader, LoadStep(p) PROVE call' = call
    BY <1>3 DEF LoadStep, FetchErr, FetchUnchanged, FetchNew, BuildOk, BuildErr, ApplyErr,
                SetRuntimeFailed, Swap
  <1>4. ASSUME NEW p \in Manual,
               \/ Reload(p) \/ \E d \in Decodable : ApplyConfig(p, d)
               \/ \E r \in Runtime : ApplyNone(p, r)
        PROVE  call' = call
    BY <1>4 DEF Reload, ApplyConfig, ApplyNone, Swap
  <1>5. CASE Publish \/ Outage \/ Wake \/ WatcherStops \/ DropHandles
             \/ (\E r \in Runtime : Shutdown(r)) \/ UNCHANGED vars
    <2>1. call' = call
      BY <1>5 DEF Publish, Outage, Wake, WatcherStops, DropHandles, Shutdown, vars
    <2>2. QED
      BY <1>1, <2>1
  <1>6. QED
    BY <1>1, <1>2, <1>3, <1>4, <1>5 DEF Next

\* The registry implements the abstract one: to the handlers a configuration
\* becomes current in one step and a call keeps the one it began with, for any
\* documents, hooks, runtimes, calls and API callers.
THEOREM RegistryImplements == Spec => Implements
  <1>1. Init => Abstract!Init
    BY DEF Init, Abstract!Init, Current, Unpinned, Hooked, Abstract!Hooked
  <1>2. QED
    BY <1>1, RefInvAlways, StepSimulation, PTL DEF Spec, Implements, Abstract!Spec

-----------------------------------------------------------------------------
(* The binary, where nothing but initialize() and the watcher loads *)

\* Why the watcher's fingerprint tracks the slot: initialize() loads only while
\* the gateway is starting, the watcher only afterwards, and each of them
\* replaces the slot and the fingerprint together.
TrackInv ==
    /\ PinInv
    /\ gateway = "starting" => handles /\ loader["watcher"].pc = "off"
    /\ loader["init"].pc # "off" => gateway = "starting"
    /\ handles => slot # Gone
    /\ last \in Buildable \cup {NoDoc}
    /\ WatcherTracksSlot
    /\ NoCallBeforeFirstLoad

\* The tracking invariant holds before the first load.
LEMMA TrackInit == Init => TrackInv
  <1> SUFFICES ASSUME Init PROVE TrackInv
    OBVIOUS
  <1>1. PinInv
    BY InitInv
  <1>2. loader["watcher"] = Idle
    BY LoaderFacts DEF Init
  <1>3. QED
    BY <1>1, <1>2, RuntimeAssumption
    DEF Init, TrackInv, Idle, WatcherTracksSlot, NoCallBeforeFirstLoad, InProgress, Hooked

\* A load step of initialize() or of the watcher.
LEMMA TrackLoad ==
    ASSUME Manual = {}, TrackInv, NEW p \in Loader, LoadStep(p)
    PROVE  TrackInv'
  <1>0. PinInv' /\ p \in {"init", "watcher"} /\ p \notin Manual
    BY LoadStepInv DEF TrackInv, Loader
  <1>1. p = "init" => gateway = "starting"
    BY DEF TrackInv, LoadStep, FetchErr, FetchUnchanged, FetchNew, BuildOk, BuildErr, ApplyErr
  <1>2. p = "watcher" => gateway # "starting"
    BY DEF TrackInv, LoadStep, FetchErr, FetchUnchanged, FetchNew, BuildOk, BuildErr, ApplyErr
  <1>3. NoCallBeforeFirstLoad'
    <2>1. call' = call
      BY DEF LoadStep, FetchErr, FetchUnchanged, FetchNew, BuildOk, BuildErr, ApplyErr,
             SetRuntimeFailed, Swap
    <2>2. QED
      BY <2>1 DEF TrackInv, NoCallBeforeFirstLoad, InProgress
  <1>4. CASE FetchErr(p) \/ BuildErr(p)
    <2>1. /\ slot' = Settle(Failed) /\ handles' = handles
          /\ loader' = [loader EXCEPT ![p] = IF p = "watcher" THEN At("sleep") ELSE Idle]
          /\ last' = NoDoc
          /\ gateway' = IF p = "init" THEN "exited" ELSE gateway
      BY <1>0, <1>4 DEF FetchErr, BuildErr, SetRuntimeFailed, Swap, LoadFailed
    <2>2. /\ loader'["init"] = IF p = "init" THEN Idle ELSE loader["init"]
          /\ loader'["watcher"] = IF p = "init" THEN loader["watcher"] ELSE At("sleep")
      BY <1>0, <2>1, LoaderFacts DEF TrackInv, PinInv, TypeOK
    <2>3. QED
      BY <1>0, <1>1, <1>2, <1>3, <2>1, <2>2, RuntimeAssumption
      DEF TrackInv, WatcherTracksSlot, Settle, Idle, Failed, Gone
  <1>5. CASE FetchUnchanged(p)
    <2>1. /\ slot' = Settle(slot) /\ handles' = handles /\ built' = built
          /\ p = "watcher" /\ loader' = [loader EXCEPT ![p] = At("sleep")]
          /\ last' = last /\ gateway' = gateway
      BY <1>5 DEF FetchUnchanged, Swap
    <2>2. loader'["init"] = loader["init"]
      BY <2>1, LoaderFacts DEF TrackInv, PinInv, TypeOK
    <2>3. QED
      BY <1>0, <1>2, <1>3, <2>1, <2>2 DEF TrackInv, WatcherTracksSlot, Settle
  <1>6. CASE FetchNew(p)
    <2>1. /\ loader' = [loader EXCEPT ![p] = [pc |-> "build", doc |-> stored]]
          /\ slot' = slot /\ handles' = handles /\ built' = built /\ last' = last /\ gateway' = gateway
      BY <1>6 DEF FetchNew
    <2>2. /\ p = "watcher" => loader'["init"] = loader["init"]
          /\ p = "init" => loader'["watcher"] = loader["watcher"]
      BY <2>1, LoaderFacts DEF TrackInv, PinInv, TypeOK
    <2>3. QED
      BY <1>0, <1>1, <1>2, <1>3, <2>1, <2>2 DEF TrackInv, WatcherTracksSlot
  <1>7. ASSUME NEW r \in Runtime, BuildOk(p, r) PROVE TrackInv'
    <2> DEFINE d == loader[p].doc
    <2>1. /\ slot' = Settle(r) /\ handles' = handles /\ built' = [built EXCEPT ![r] = d]
          /\ d \in Buildable /\ last' = d
          /\ gateway' = IF p = "init" THEN "serving" ELSE gateway
      BY <1>0, <1>7 DEF BuildOk, Swap, Loaded
    <2>2. /\ built'[r] = d /\ d # NoDoc
          /\ loader'["init"] = IF p = "init" THEN Idle ELSE loader["init"]
      BY <1>0, <1>7, <2>1, LoaderFacts, DocAssumption DEF BuildOk, Loaded, TrackInv, PinInv, TypeOK
    <2>3. QED
      BY <1>0, <1>1, <1>2, <1>3, <2>1, <2>2, RuntimeAssumption
      DEF TrackInv, WatcherTracksSlot, Settle, Idle, Failed, Gone
  <1>8. CASE ApplyErr(p)
    <2>1. /\ loader' = [loader EXCEPT ![p] = Idle]
          /\ slot' = slot /\ handles' = handles /\ built' = built /\ last' = last /\ gateway' = gateway
      BY <1>8 DEF ApplyErr
    <2>2. /\ loader'["init"] = IF p = "init" THEN Idle ELSE loader["init"]
          /\ loader'["watcher"] = IF p = "watcher" THEN Idle ELSE loader["watcher"]
      BY <1>0, <2>1, LoaderFacts DEF TrackInv, PinInv, TypeOK
    <2>3. QED
      BY <1>0, <1>1, <1>2, <1>3, <2>1, <2>2 DEF TrackInv, WatcherTracksSlot, Idle
  <1>9. QED
    BY <1>4, <1>5, <1>6, <1>7, <1>8 DEF LoadStep

\* A step of a call leaves the slot alone and starts only on a loaded document.
LEMMA TrackCall ==
    ASSUME TrackInv, NEW c \in Call,
           \/ \E op \in Operation : Reject(c, op) \/ Admit(c, op)
           \/ CallStep(c)
    PROVE  TrackInv'
  <1>1. PinInv'
    BY CallInv DEF TrackInv
  <1>2. UNCHANGED <<slot, built, loader, last, gateway, handles>>
    BY DEF CallStep, Reject, Admit, PreHook, Backend, PostHook, NoPayload, ToBackend, Finish, SetCall
  <1> DEFINE Served == /\ \A q \in Call \ {c} : call'[q] = call[q]
                       /\ call'[c].phase \in {"pre", "backend", "post", "ok"} => call'[c].doc \in Buildable
  <1>0. call \in [Call -> CallState]
    BY DEF TrackInv, PinInv, TypeOK
  <1>3. Served
    <2>1. ASSUME NEW op \in Operation, Reject(c, op) PROVE Served
      BY <1>0, <2>1 DEF Reject, SetCall, Hooked
    <2>2. ASSUME NEW op \in Operation, Admit(c, op) PROVE Served
      <3>1. built[slot] \in Buildable
        BY <2>2, RuntimeAssumption DEF Admit, TrackInv, WatcherTracksSlot
      <3>2. call'[c].doc = built[slot] /\ \A q \in Call \ {c} : call'[q] = call[q]
        <4>1. CASE "pre" \in HooksOf(built[slot], op)
          BY <1>0, <2>2, <4>1 DEF Admit, SetCall, Hooked
        <4>2. CASE "pre" \notin HooksOf(built[slot], op)
          BY <1>0, <2>2, <4>2 DEF Admit, ToBackend, SetCall, Hooked
        <4>3. QED
          BY <4>1, <4>2
      <3>3. QED
        BY <3>1, <3>2
    <2>3. ASSUME NEW ok \in BOOLEAN, PreHook(c, ok) \/ Backend(c, ok) \/ PostHook(c, ok) PROVE Served
      <3>1. call[c].doc \in Buildable
        BY <2>3 DEF PreHook, Backend, PostHook, TrackInv, NoCallBeforeFirstLoad, InProgress
      <3>2. call'[c].doc = call[c].doc /\ \A q \in Call \ {c} : call'[q] = call[q]
        BY <1>0, <2>3 DEF PreHook, Backend, PostHook, ToBackend, Finish, SetCall, Hooked
      <3>3. QED
        BY <3>1, <3>2
    <2>4. CASE NoPayload(c)
      BY <1>0, <2>4 DEF NoPayload, Finish, SetCall, Hooked
    <2>5. QED
      BY <2>1, <2>2, <2>3, <2>4 DEF CallStep
  <1>4. NoCallBeforeFirstLoad'
    BY <1>3 DEF TrackInv, PinInv, TypeOK, NoCallBeforeFirstLoad, InProgress
  <1>5. QED
    BY <1>1, <1>2, <1>4 DEF TrackInv, WatcherTracksSlot

\* Every step keeps the tracking invariant when the watcher is the only loader.
LEMMA TrackNext == ASSUME Manual = {} PROVE TrackInv /\ [Next]_vars => TrackInv'
  <1> SUFFICES ASSUME TrackInv, [Next]_vars PROVE TrackInv'
    OBVIOUS
  <1>0. PinInv'
    BY NextInv DEF TrackInv
  <1>1. CASE Publish \/ Outage \/ UNCHANGED vars
    BY <1>0, <1>1 DEF Publish, Outage, vars, TrackInv, WatcherTracksSlot, NoCallBeforeFirstLoad, InProgress
  <1>2. ASSUME NEW p \in Loader, LoadStep(p) PROVE TrackInv'
    BY <1>2, TrackLoad
  <1>3. CASE Wake \/ WatcherStops
    <2>1. loader'["init"] = loader["init"] /\ gateway # "starting"
      BY <1>3, LoaderFacts DEF Wake, WatcherStops, TrackInv, PinInv, TypeOK
    <2>2. QED
      BY <1>0, <1>3, <2>1 DEF Wake, WatcherStops, TrackInv, WatcherTracksSlot, NoCallBeforeFirstLoad, InProgress
  <1>4. CASE DropHandles
    BY <1>0, <1>4 DEF DropHandles, TrackInv, WatcherTracksSlot, NoCallBeforeFirstLoad, InProgress
  <1>5. ASSUME NEW r \in Runtime, Shutdown(r) PROVE TrackInv'
    <2>1. slot \in Runtime => built'[slot] = built[slot]
      BY <1>5 DEF Shutdown, TrackInv, PinInv, PinnedRuntimeIntact, TypeOK
    <2>2. QED
      BY <1>0, <1>5, <2>1 DEF Shutdown, TrackInv, WatcherTracksSlot, NoCallBeforeFirstLoad, InProgress
  <1>6. ASSUME NEW c \in Call,
               (\E op \in Operation : Reject(c, op) \/ Admit(c, op)) \/ CallStep(c)
        PROVE  TrackInv'
    BY <1>6, TrackCall
  <1>7. QED
    BY <1>1, <1>2, <1>3, <1>4, <1>5, <1>6 DEF Next

\* The tracking invariant holds in every reachable state of the binary.
LEMMA TrackAlways == ASSUME Manual = {} PROVE Spec => []TrackInv
  <1>1. TrackInv /\ [Next]_vars => TrackInv'
    BY TrackNext
  <1>2. QED
    BY <1>1, TrackInit, PTL DEF Spec

\* In the binary the fingerprint the watcher compares with is that of the
\* runtime in the slot, so an unchanged document never hides a failed slot.
THEOREM WatcherSound == ASSUME Manual = {} PROVE Spec => []WatcherTracksSlot
  <1>1. Spec => []TrackInv
    BY TrackAlways
  <1>2. QED
    BY <1>1, PTL DEF TrackInv

\* In the binary no call is served by the default runtime, before or after a
\* document has been loaded.
THEOREM NoEarlyCall == ASSUME Manual = {} PROVE Spec => []NoCallBeforeFirstLoad
  <1>1. Spec => []TrackInv
    BY TrackAlways
  <1>2. QED
    BY <1>1, PTL DEF TrackInv

=============================================================================
