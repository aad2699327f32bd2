------------------------------ MODULE ToolCall ------------------------------
(***************************************************************************)
(* One tools/call: the handler, its backend client, the backend's progress *)
(* notifications, and the downstream client that may cancel.               *)
(*                                                                         *)
(* Each call has a backend client of its own, so the token map holds at    *)
(* most this call. RMCP, which is not part of the repository, runs the     *)
(* handler and every notification handler as tasks of their own.           *)
(*                                                                         *)
(* Code: contextforge-data-plane-lib/src/gateway/{backend_client,          *)
(* mcp_service/tools}.rs, contextforge-data-plane-cpex/src/tools/mod.rs.   *)
(***************************************************************************)
EXTENDS Naturals

CONSTANT Note     \* progress notifications the backend may send

Handler == "handler"
Nobody  == "nobody"

ASSUME NoteAssumption == {Handler, Nobody} \cap Note = {}

Actor == Note \cup {Handler}

VARIABLES
    pc,         \* where the handler is
    out,        \* the result the caller will get
    token,      \* whether the caller asked for progress
    post,       \* whether the call has post-hook state (ToolHookState)
    guard,      \* whether the handler holds the write guard of in_flight_calls
    tracked,    \* whether in_flight_calls maps the backend's token
    backend,    \* the request at the backend
    cancelled,  \* whether the downstream cancellation token has fired
    note,       \* note[n]: where notification n is
    mutex,      \* who holds the mutex of the ToolHookState
    ctx,        \* the actors whose update is in CallState::context_table
    seen        \* seen[a]: the context a's hook invocation was given

vars == <<pc, out, token, post, guard, tracked, backend, cancelled, note, mutex, ctx, seen>>

Init ==
    /\ pc = "begin"
    /\ out = "none"
    /\ token \in BOOLEAN
    /\ post \in BOOLEAN
    /\ guard = FALSE
    /\ tracked = FALSE
    /\ backend = "none"
    /\ cancelled = FALSE
    /\ note = [n \in Note |-> "unsent"]
    /\ mutex = Nobody
    /\ ctx = {}
    /\ seen = [a \in Actor |-> {}]

-----------------------------------------------------------------------------
(* The handler: call_tool, start_tool_call, call_backend_tool. *)

\* Validation, routing, header parameters and the pre hook may reject; then the
\* backend may be unreachable. Neither leaves anything to clean up.
Connect(ok) ==
    /\ pc = "begin"
    /\ pc' = IF ok THEN "start" ELSE "done"
    /\ out' = IF ok THEN out ELSE "err"
    /\ UNCHANGED <<token, post, guard, tracked, backend, cancelled, note, mutex, ctx, seen>>

\* Without a progress token the request is sent and nothing is tracked.
SendUntracked(ok) ==
    /\ pc = "start"
    /\ ~token
    /\ pc' = IF ok THEN "await" ELSE "done"
    /\ out' = IF ok THEN out ELSE "err"
    /\ backend' = IF ok THEN "running" ELSE backend
    /\ UNCHANGED <<token, post, guard, tracked, cancelled, note, mutex, ctx, seen>>

\* Mutant: the guard is taken for the insert only.
LockTracking_InsertOnly ==
    /\ pc = "start"
    /\ token
    /\ guard' = FALSE
    /\ pc' = "send"
    /\ UNCHANGED <<out, token, post, tracked, backend, cancelled, note, mutex, ctx, seen>>

LockTracking ==
    /\ pc = "start"
    /\ token
    /\ guard' = TRUE
    /\ pc' = "send"
    /\ UNCHANGED <<out, token, post, tracked, backend, cancelled, note, mutex, ctx, seen>>

\* The request is on its way before its progress token is known here. An error
\* returns through ?, which drops the guard.
Send(ok) ==
    /\ pc = "send"
    /\ pc' = IF ok THEN "insert" ELSE "done"
    /\ out' = IF ok THEN out ELSE "err"
    /\ backend' = IF ok THEN "running" ELSE backend
    /\ guard' = (guard /\ ok)
    /\ UNCHANGED <<token, post, tracked, cancelled, note, mutex, ctx, seen>>

\* Mutant: the guard lives as long as the call.
InsertCall_KeepsGuard ==
    /\ pc = "insert"
    /\ tracked' = TRUE
    /\ guard' = TRUE
    /\ pc' = "await"
    /\ UNCHANGED <<out, token, post, backend, cancelled, note, mutex, ctx, seen>>

InsertCall ==
    /\ pc = "insert"
    /\ tracked' = TRUE
    /\ guard' = FALSE
    /\ pc' = "await"
    /\ UNCHANGED <<out, token, post, backend, cancelled, note, mutex, ctx, seen>>

\* Mutant: the backend's outcome is passed on as it is.
AwaitResponse_Unmapped ==
    /\ pc = "await"
    /\ backend \in {"answered", "failed"}
    /\ out' = backend
    /\ pc' = "stop"
    /\ UNCHANGED <<token, post, guard, tracked, backend, cancelled, note, mutex, ctx, seen>>

\* select! takes the response: a result, an error, another kind of response, or
\* the end of the transport.
AwaitResponse ==
    /\ pc = "await"
    /\ backend \in {"answered", "failed"}
    /\ out' = IF backend = "answered" THEN "ok" ELSE "err"
    /\ pc' = "stop"
    /\ UNCHANGED <<token, post, guard, tracked, backend, cancelled, note, mutex, ctx, seen>>

\* Mutant: a cancellation is noticed only when it has ended the transport.
AwaitCancelled_TransportOnly ==
    /\ pc = "await"
    /\ cancelled
    /\ backend = "failed"
    /\ out' = "err"
    /\ pc' = "stop"
    /\ UNCHANGED <<token, post, guard, tracked, backend, cancelled, note, mutex, ctx, seen>>

\* select! takes the cancellation, and relays it if the transport still can.
AwaitCancelled ==
    /\ pc = "await"
    /\ cancelled
    /\ out' = "err"
    /\ pc' = "stop"
    /\ backend' \in {backend, "cancelled"}
    /\ UNCHANGED <<token, post, guard, tracked, cancelled, note, mutex, ctx, seen>>

StopTracking ==
    /\ pc = "stop"
    /\ ~guard
    /\ tracked' = FALSE
    /\ pc' = "close"
    /\ UNCHANGED <<out, token, post, guard, backend, cancelled, note, mutex, ctx, seen>>

\* close(), whose own failure is only logged. Errors end the call here, and so
\* does a call without hook state.
Close ==
    /\ pc = "close"
    /\ backend' = "closed"
    /\ pc' = IF out = "ok" /\ post THEN "post" ELSE "done"
    /\ UNCHANGED <<out, token, post, guard, tracked, cancelled, note, mutex, ctx, seen>>

\* after_tool_call: the mutex, then the hook on a clone of the context.
PostLock ==
    /\ pc = "post"
    /\ mutex = Nobody
    /\ mutex' = Handler
    /\ seen' = [seen EXCEPT ![Handler] = ctx]
    /\ pc' = "hook"
    /\ UNCHANGED <<out, token, post, guard, tracked, backend, cancelled, note, ctx>>

PostHook(allowed) ==
    /\ pc = "hook"
    /\ ctx' = IF allowed THEN seen[Handler] \cup {Handler} ELSE ctx
    /\ out' = IF allowed THEN out ELSE "err"
    /\ mutex' = Nobody
    /\ pc' = "done"
    /\ UNCHANGED <<token, post, guard, tracked, backend, cancelled, note, seen>>

HandlerStep ==
    \/ \E ok \in BOOLEAN : Connect(ok) \/ SendUntracked(ok) \/ Send(ok) \/ PostHook(ok)
    \/ LockTracking \/ InsertCall \/ AwaitResponse \/ AwaitCancelled
    \/ StopTracking \/ Close \/ PostLock

-----------------------------------------------------------------------------
(* A progress notification: on_progress and after_stream_event. *)

SetNote(n, state) == note' = [note EXCEPT ![n] = state]

\* progress_call, under the read guard.
Lookup(n) ==
    /\ note[n] = "sent"
    /\ ~guard
    /\ SetNote(n, IF tracked THEN "event" ELSE "unknown")
    /\ UNCHANGED <<pc, out, token, post, guard, tracked, backend, cancelled, mutex, ctx, seen>>

\* The client loop ends before it hands the notification over.
Discard(n) ==
    /\ note[n] = "sent"
    /\ backend = "closed" \/ cancelled
    /\ SetNote(n, "discarded")
    /\ UNCHANGED <<pc, out, token, post, guard, tracked, backend, cancelled, mutex, ctx, seen>>

\* Mutant: an event clones the context without waiting for the mutex.
EventLock_Unserialised(n) ==
    /\ note[n] = "event"
    /\ post
    /\ mutex' = n
    /\ seen' = [seen EXCEPT ![n] = ctx]
    /\ SetNote(n, "hook")
    /\ UNCHANGED <<pc, out, token, post, guard, tracked, backend, cancelled, ctx>>

EventLock(n) ==
    /\ note[n] = "event"
    /\ post
    /\ mutex = Nobody
    /\ mutex' = n
    /\ seen' = [seen EXCEPT ![n] = ctx]
    /\ SetNote(n, "hook")
    /\ UNCHANGED <<pc, out, token, post, guard, tracked, backend, cancelled, ctx>>

\* A denial drops the event and its context; an event the plugin turned into
\* something else is dropped once its context is kept.
EventHook(n, verdict) ==
    /\ note[n] = "hook"
    /\ ctx' = IF verdict = "deny" THEN ctx ELSE seen[n] \cup {n}
    /\ SetNote(n, IF verdict = "allow" THEN "forward" ELSE "dropped")
    /\ mutex' = Nobody
    /\ UNCHANGED <<pc, out, token, post, guard, tracked, backend, cancelled, seen>>

\* notify_progress with the caller's token; a failure is only logged.
Forward(n) ==
    /\ note[n] = "forward" \/ (note[n] = "event" /\ ~post)
    /\ \E state \in {"delivered", "undelivered"} : SetNote(n, state)
    /\ UNCHANGED <<pc, out, token, post, guard, tracked, backend, cancelled, mutex, ctx, seen>>

NoteStep(n) ==
    \/ Lookup(n) \/ Discard(n) \/ EventLock(n) \/ Forward(n)
    \/ \E verdict \in {"allow", "deny", "misfit"} : EventHook(n, verdict)

-----------------------------------------------------------------------------
(* The backend and the downstream client. *)

Emit(n) ==
    /\ backend \in {"running", "cancelled"}
    /\ note[n] = "unsent"
    /\ SetNote(n, "sent")
    /\ UNCHANGED <<pc, out, token, post, guard, tracked, backend, cancelled, mutex, ctx, seen>>

Answer ==
    /\ backend = "running"
    /\ backend' \in {"answered", "failed"}
    /\ UNCHANGED <<pc, out, token, post, guard, tracked, cancelled, note, mutex, ctx, seen>>

\* The backend service shares the token: it may end before select! looks.
Cancel ==
    /\ pc # "done"
    /\ ~cancelled
    /\ cancelled' = TRUE
    /\ backend' \in {backend} \cup (IF backend = "running" THEN {"failed"} ELSE {})
    /\ UNCHANGED <<pc, out, token, post, guard, tracked, note, mutex, ctx, seen>>

Next ==
    \/ HandlerStep
    \/ \E n \in Note : NoteStep(n) \/ Emit(n)
    \/ Answer
    \/ Cancel

Spec == Init /\ [][Next]_vars

\* Tokio runs every ready task and hooks return. Nothing is assumed of the
\* backend or of the downstream client.
Fairness == WF_vars(HandlerStep) /\ \A n \in Note : WF_vars(NoteStep(n))

FairSpec == Spec /\ Fairness

-----------------------------------------------------------------------------
(* Properties *)

\* Every variable keeps the shape the handler's types give it.
TypeOK ==
    /\ pc \in {"begin", "start", "send", "insert", "await", "stop", "close", "post", "hook", "done"}
    /\ out \in {"none", "ok", "err"}
    /\ {token, post, guard, tracked, cancelled} \subseteq BOOLEAN
    /\ backend \in {"none", "running", "answered", "failed", "cancelled", "closed"}
    /\ note \in [Note -> {"unsent", "sent", "unknown", "discarded", "event", "hook", "dropped",
                          "forward", "delivered", "undelivered"}]
    /\ mutex \in Actor \cup {Nobody}
    /\ ctx \subseteq Actor
    /\ seen \in [Actor -> SUBSET Actor]

\* A notification for a call that asked for progress is dropped as unknown only
\* once the call's outcome is settled, even if it arrives before the handler
\* knows the token it carries (start_tool_call's guard, stop_tracking_tool_call).
EarlyProgressRouted ==
    \A n \in Note : token /\ note[n] = "unknown" => pc \in {"close", "post", "hook", "done"}

\* The plugin context has the update of every event that was let through, and
\* the final hook sees those of all events forwarded before it: concurrent
\* notifications never overwrite each other's update (ToolHookState's mutex).
NoLostContext ==
    LET forwarded == {n \in Note : note[n] \in {"forward", "delivered", "undelivered"}} IN
    post => /\ forwarded \subseteq ctx
            /\ pc = "hook" => forwarded \subseteq seen[Handler]
            /\ pc = "done" /\ out = "ok" => Handler \in ctx

\* An answered call returns, and so does a cancelled one, whatever the backend
\* and the notifications in flight do (call_backend_tool's select).
CallReturns == (backend \in {"answered", "failed"} \/ cancelled) ~> pc = "done"

\* Every notification received is forwarded, dropped or discarded in the end.
NotesSettle ==
    \A n \in Note : note[n] = "sent" ~>
        note[n] \in {"unknown", "discarded", "dropped", "delivered", "undelivered"}

=============================================================================
