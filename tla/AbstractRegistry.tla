-------------------------- MODULE AbstractRegistry --------------------------
(***************************************************************************)
(* What the plugin registry promises the MCP handlers: at any moment one   *)
(* configuration is current or none is, and a call takes the one that is   *)
(* current when it starts and keeps it to its end. There are no runtimes,  *)
(* owners, loaders or watchers here; PluginRegistry implements this.       *)
(***************************************************************************)
CONSTANTS
    Configuration,   \* what may be current
    Default,         \* what is before the first load
    Unavailable,     \* no configuration is: calls are refused
    HooksOf(_, _),   \* the hooks a configuration declares for an operation
    Operation,
    Call

VARIABLES
    current,
    call        \* call[c]: [phase, op, doc, ran]

vars == <<current, call>>

Hooked(phase, op, d, ran) == [phase |-> phase, op |-> op, doc |-> d, ran |-> ran]

Init ==
    /\ current = Default
    /\ call = [c \in Call |-> Hooked("idle", "tool", Default, {})]

Reconfigure ==
    /\ current' \in Configuration \cup {Unavailable}
    /\ UNCHANGED call

SetCall(c, value) ==
    /\ call' = [call EXCEPT ![c] = value]
    /\ UNCHANGED current

InProgress(c) == call[c].phase \in {"pre", "backend", "post"}

Refuse(c, op) ==
    /\ ~InProgress(c)
    /\ current = Unavailable
    /\ SetCall(c, Hooked("err", op, Default, {}))

Begin(c, op) ==
    /\ ~InProgress(c)
    /\ current \in Configuration
    /\ SetCall(c, Hooked(IF "pre" \in HooksOf(current, op) THEN "pre" ELSE "backend",
                         op, current, {}))

\* The hook h of the call's own configuration has run.
RunHook(c, h, phase) ==
    /\ call[c].phase = h
    /\ SetCall(c, Hooked(phase, call[c].op, call[c].doc, call[c].ran \cup {<<h, call[c].doc>>}))

Answer(c, ok) ==
    /\ call[c].phase = "backend"
    /\ SetCall(c, Hooked(IF ~ok THEN "err"
                         ELSE IF "post" \in HooksOf(call[c].doc, call[c].op) THEN "post" ELSE "ok",
                         call[c].op, call[c].doc, call[c].ran))

\* The response has no form the post hook could look at: the call fails.
Unseen(c) ==
    /\ call[c].phase = "post"
    /\ SetCall(c, Hooked("err", call[c].op, call[c].doc, call[c].ran))

CallStep(c) ==
    \/ \E phase \in {"backend", "err"} : RunHook(c, "pre", phase)
    \/ \E ok \in BOOLEAN : Answer(c, ok)
    \/ \E phase \in {"ok", "err"} : RunHook(c, "post", phase)
    \/ Unseen(c)

Next ==
    \/ Reconfigure
    \/ \E c \in Call :
          \/ \E op \in Operation : Refuse(c, op) \/ Begin(c, op)
          \/ CallStep(c)

Spec == Init /\ [][Next]_vars

\* Hooks return and backends answer or time out: a call that began ends.
FairSpec == Spec /\ \A c \in Call : WF_vars(CallStep(c))

=============================================================================
