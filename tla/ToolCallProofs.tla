--------------------------- MODULE ToolCallProofs ---------------------------
(***************************************************************************)
(* Invariance proofs for ToolCall, for any number of notifications, and    *)
(* for HookEdits, what the plugins' edits do to the payloads of a call,    *)
(* for all payloads.                                                       *)
(***************************************************************************)
EXTENDS ToolCall, HookEdits, TLAPS

Forwarded == {n \in Note : note[n] \in {"forward", "delivered", "undelivered"}}

\* The guard spans the enqueue and the insert, the mapping exists from there to
\* the end of the call, and nothing reaches the backend before the enqueue.
TrackingInv ==
    /\ guard <=> pc \in {"send", "insert"}
    /\ token /\ pc \in {"await", "stop"} => tracked
    /\ pc \in {"begin", "start", "send"} => backend = "none"
    /\ backend = "none" => \A n \in Note : note[n] = "unsent"
    /\ EarlyProgressRouted

\* The mutex is held exactly while a hook runs, and its holder has the context
\* as it is.
HookInv ==
    /\ mutex = Handler <=> pc = "hook"
    /\ \A n \in Note : mutex = n <=> note[n] = "hook"
    /\ \A a \in Actor : mutex = a => seen[a] = ctx
    /\ pc \in {"post", "hook"} => post /\ out = "ok"
    /\ pc \in {"begin", "start", "send", "insert", "await"} => out = "none"
    /\ post => Forwarded \subseteq ctx
    /\ post /\ pc = "done" /\ out = "ok" => Handler \in ctx

CallInv == TypeOK /\ TrackingInv /\ HookInv

\* A fresh call.
LEMMA CallInit == Init => CallInv
  BY NoteAssumption
  DEF Init, CallInv, TypeOK, TrackingInv, HookInv, EarlyProgressRouted, Forwarded, Actor, Handler, Nobody

\* Every step keeps the types.
LEMMA TypeNext == CallInv /\ Next => TypeOK'
  <1> SUFFICES ASSUME CallInv, Next PROVE TypeOK'
    OBVIOUS
  <1> USE DEF CallInv, TypeOK, Actor, SetNote
  <1>1. ASSUME NEW ok \in BOOLEAN, Connect(ok) \/ SendUntracked(ok) \/ Send(ok) PROVE TypeOK'
    BY <1>1 DEF Connect, SendUntracked, Send
  <1>2. ASSUME NEW ok \in BOOLEAN, PostHook(ok) PROVE TypeOK'
    BY <1>2 DEF PostHook
  <1>3. CASE LockTracking \/ InsertCall \/ AwaitResponse \/ StopTracking \/ Close
    BY <1>3 DEF LockTracking, InsertCall, AwaitResponse, StopTracking, Close
  <1>4. CASE AwaitCancelled \/ Answer \/ Cancel
    BY <1>4 DEF AwaitCancelled, Answer, Cancel
  <1>5. CASE PostLock
    BY <1>5 DEF PostLock
  <1>6. ASSUME NEW n \in Note, Lookup(n) \/ Discard(n) \/ Forward(n) \/ Emit(n) PROVE TypeOK'
    BY <1>6 DEF Lookup, Discard, Forward, Emit
  <1>7. ASSUME NEW n \in Note, EventLock(n) PROVE TypeOK'
    BY <1>7 DEF EventLock
  <1>8. ASSUME NEW n \in Note, NEW v \in {"allow", "deny", "misfit"}, EventHook(n, v) PROVE TypeOK'
    BY <1>8 DEF EventHook
  <1>9. QED
    BY <1>1, <1>2, <1>3, <1>4, <1>5, <1>6, <1>7, <1>8 DEF Next, HandlerStep, NoteStep

\* Every step keeps the tracking invariant; the lookup is where it matters.
LEMMA TrackingNext == CallInv /\ Next => TrackingInv'
  <1> SUFFICES ASSUME CallInv, Next PROVE TrackingInv'
    OBVIOUS
  <1> USE DEF CallInv, TypeOK, TrackingInv, EarlyProgressRouted, SetNote
  <1>1. ASSUME NEW ok \in BOOLEAN, Connect(ok) \/ SendUntracked(ok) \/ Send(ok) PROVE TrackingInv'
    BY <1>1 DEF Connect, SendUntracked, Send
  <1>2. ASSUME NEW ok \in BOOLEAN, PostHook(ok) PROVE TrackingInv'
    BY <1>2 DEF PostHook
  <1>3. CASE LockTracking \/ InsertCall \/ AwaitResponse \/ StopTracking \/ Close
    BY <1>3 DEF LockTracking, InsertCall, AwaitResponse, StopTracking, Close
  <1>4. CASE AwaitCancelled \/ Answer \/ Cancel
    BY <1>4 DEF AwaitCancelled, Answer, Cancel
  <1>5. CASE PostLock
    BY <1>5 DEF PostLock
  <1>6. ASSUME NEW n \in Note, Lookup(n) PROVE TrackingInv'
    <2>1. token /\ ~tracked => pc \in {"close", "post", "hook", "done"}
      BY <1>6 DEF Lookup
    <2>2. QED
      BY <1>6, <2>1 DEF Lookup
  <1>7. ASSUME NEW n \in Note, Discard(n) \/ Forward(n) \/ Emit(n) PROVE TrackingInv'
    BY <1>7 DEF Discard, Forward, Emit
  <1>8. ASSUME NEW n \in Note, EventLock(n) PROVE TrackingInv'
    BY <1>8 DEF EventLock
  <1>9. ASSUME NEW n \in Note, NEW v \in {"allow", "deny", "misfit"}, EventHook(n, v) PROVE TrackingInv'
    BY <1>9 DEF EventHook
  <1>10. QED
    BY <1>1, <1>2, <1>3, <1>4, <1>5, <1>6, <1>7, <1>8, <1>9 DEF Next, HandlerStep, NoteStep

\* Every step keeps the hook invariant: a context is written back only by the
\* actor that cloned it under the mutex.
LEMMA HookNext == CallInv /\ Next => HookInv'
  <1> SUFFICES ASSUME CallInv, Next PROVE HookInv'
    OBVIOUS
  <1>0. Handler \notin Note /\ Nobody \notin Note /\ Handler # Nobody
    BY NoteAssumption DEF Handler, Nobody
  <1> USE <1>0 DEF CallInv, TypeOK, HookInv, Forwarded, Actor, SetNote
  <1>1. ASSUME NEW ok \in BOOLEAN, Connect(ok) \/ SendUntracked(ok) \/ Send(ok) PROVE HookInv'
    BY <1>1 DEF Connect, SendUntracked, Send
  <1>2. ASSUME NEW ok \in BOOLEAN, PostHook(ok) PROVE HookInv'
    BY <1>2 DEF PostHook
  <1>3. CASE LockTracking \/ InsertCall \/ AwaitResponse \/ StopTracking \/ Close
    BY <1>3 DEF LockTracking, InsertCall, AwaitResponse, StopTracking, Close
  <1>4. CASE AwaitCancelled \/ Answer \/ Cancel
    BY <1>4 DEF AwaitCancelled, Answer, Cancel
  <1>5. CASE PostLock
    BY <1>5 DEF PostLock
  <1>6. ASSUME NEW n \in Note, Lookup(n) \/ Discard(n) \/ Emit(n) PROVE HookInv'
    BY <1>6 DEF Lookup, Discard, Emit
  <1>7. ASSUME NEW n \in Note, Forward(n) PROVE HookInv'
    BY <1>7 DEF Forward
  <1>8. ASSUME NEW n \in Note, EventLock(n) PROVE HookInv'
    BY <1>8 DEF EventLock
  <1>9. ASSUME NEW n \in Note, NEW v \in {"allow", "deny", "misfit"}, EventHook(n, v) PROVE HookInv'
    BY <1>9 DEF EventHook
  <1>10. QED
    BY <1>1, <1>2, <1>3, <1>4, <1>5, <1>6, <1>7, <1>8, <1>9 DEF Next, HandlerStep, NoteStep

\* The inductive invariant holds in every reachable state.
LEMMA CallInvAlways == Spec => []CallInv
  <1>1. CallInv /\ UNCHANGED vars => CallInv'
    BY DEF vars, CallInv, TypeOK, TrackingInv, HookInv, EarlyProgressRouted, Forwarded
  <1>2. CallInv /\ [Next]_vars => CallInv'
    BY <1>1, TypeNext, TrackingNext, HookNext DEF CallInv
  <1>3. QED
    BY <1>2, CallInit, PTL DEF Spec

-----------------------------------------------------------------------------
(* Theorems *)

\* The variables of a call keep their types in every reachable state.
THEOREM ToolCallTypeCorrect == Spec => []TypeOK
  <1>1. CallInv => TypeOK
    BY DEF CallInv
  <1>2. QED
    BY <1>1, CallInvAlways, PTL

\* Holding the write guard across the enqueue is enough: no notification is
\* dropped as unknown while its call is in flight, however early it arrives.
THEOREM ProgressRouted == Spec => []EarlyProgressRouted
  <1>1. CallInv => EarlyProgressRouted
    BY DEF CallInv, TrackingInv
  <1>2. QED
    BY <1>1, CallInvAlways, PTL

\* The mutex is enough: no update of the plugin context is lost, for any
\* number of notifications racing with each other and with the response.
THEOREM ContextKept == Spec => []NoLostContext
  <1>1. CallInv => NoLostContext
    <2>1. Handler \in Actor
      BY DEF Actor
    <2>2. QED
      BY <2>1 DEF CallInv, HookInv, NoLostContext, Forwarded
  <1>2. QED
    BY <1>1, CallInvAlways, PTL


-----------------------------------------------------------------------------
(* The plugins' edits *)

\* What the request and the response are while the hooks and the backend have
\* them.
EditInv ==
    /\ op \in Operation
    /\ step \in {"pre", "backend", "post", "done"}
    /\ step = "pre" => before = <<>>
    /\ step # "done" => reply = <<>> /\ after = <<>>
    /\ step = "post" => \E r \in Response[op] : response = <<r>>
    /\ ArgumentsFollowPlugin
    /\ EditShown
    /\ UntouchedKept

\* What is sent says what the plugin's payload says, and is what was asked if
\* that says the same.
LEMMA RequestApplied ==
    ASSUME op \in Operation, op # "resource", NEW p \in Request[op],
           ApplyRequest(op, asked, p).ok
    PROVE  LET v == ApplyRequest(op, asked, p).value IN
           /\ ArgumentMap(v) = p[1].args
           /\ p[1].args = ArgumentMap(asked) => v = asked
           /\ op = "prompt" => Len(p) = 1 /\ p[1].name = Name /\ p[1].id = Id /\ p[1].server = Backend
  <1> DEFINE u == IF op = "tool" THEN ToolArguments(p) ELSE PromptArguments(p)
             v == ApplyRequest(op, asked, p).value
  <1>1. op \in {"tool", "prompt"} /\ IsRequestEdit(op, p)
    BY HookAssumption
  <1>2. u.ok /\ v = FromModified(asked, u.value)
    BY <1>1 DEF ApplyRequest, Taken, Refused
  <1>3. /\ p # <<>> /\ u.value = p[1].args
        /\ op = "prompt" => Len(p) = 1 /\ p[1].name = Name /\ p[1].id = Id /\ p[1].server = Backend
    <2>1. CASE op = "tool"
      BY <1>2, <2>1 DEF ToolArguments, Taken, Refused
    <2>2. CASE op = "prompt"
      <3>1. /\ Len(p) = 1 /\ p[1].name = Name /\ p[1].id = Id /\ p[1].server = Backend
            /\ u.value = p[1].args
        BY <1>2, <2>2 DEF PromptArguments, Taken, Refused
      <3>2. p # <<>>
        <4>1. Len(p) = 1 /\ Len(<<>>) = 0
          BY <3>1
        <4>2. QED
          BY <4>1
      <3>3. QED
        BY <3>1, <3>2
    <2>3. QED
      BY <1>1, <2>1, <2>2
  <1>4. p[1].args # None
    BY <1>1, <1>3 DEF IsRequestEdit
  <1> HIDE DEF u, v
  <1>5. ArgumentMap(v) = p[1].args
    BY <1>2, <1>3, <1>4 DEF FromModified, ArgumentMap
  <1>6. p[1].args = ArgumentMap(asked) => v = asked
    BY <1>2, <1>3 DEF FromModified
  <1>7. QED
    BY <1>3, <1>5, <1>6 DEF v

\* A message that is written back is one MCP can carry and projects to the
\* edited one.
LEMMA MessageWrittenBack ==
    ASSUME NEW m \in [role : STRING, block : McpBlock],
           NEW e \in CmfMessage, WriteBack(m, e).ok
    PROVE  LET v == WriteBack(m, e).value IN
           /\ IsBlock(v.block)
           /\ PromptMessage(v) = e
           /\ PromptMessage(m) = e => v = m
  <1> DEFINE v == WriteBack(m, e).value
             c == e.content[1]
             b == McpContent(c)
  <1>1. CASE PromptMessage(m) = e
    <2>1. v = m
      BY <1>1 DEF WriteBack, Taken
    <2>2. IsBlock(m.block)
      BY DEF McpBlock
    <2>3. QED
      BY <1>1, <2>1, <2>2
  <1>2. CASE PromptMessage(m) # e
    <2>1. LET r == McpPromptMessage(e) IN r.ok /\ PromptMessage(r.value) = e /\ v = r.value
      BY <1>2 DEF WriteBack, Refused
    <2>2. /\ Len(e.content) = 1 /\ b.ok /\ v.block = b.value
      BY <2>1 DEF McpPromptMessage, Refused, Taken
    <2>3. c \in CmfPart
      <3>1. e.content \in Seq(CmfPart)
        BY DEF CmfMessage
      <3>2. QED
        BY <2>2, <3>1
    <2>4. c.uri \in Data \cup {None} /\ c.data \in Data \cup {None} /\ c.label \in Data \cup {None} /\ IsPart(c)
      BY <2>3 DEF CmfPart, OrNone
    <2> HIDE DEF c
    <2>5. /\ b.value = Block(IF c.type = "resource" THEN "text resource" ELSE c.type,
                                   c.uri, c.data, c.label, None)
          /\ \/ c.type = "text"
             \/ c.type \in {"image", "audio"} /\ c.source = "base64" /\ c.label # None
             \/ c.type = "resource" /\ c.data # None
             \/ c.type = "link" /\ c.label # None
      BY <2>2 DEF McpContent, Refused, Taken
    <2> HIDE DEF b
    <2>6. /\ b.value.type = IF c.type = "resource" THEN "text resource" ELSE c.type
          /\ b.value.uri = c.uri /\ b.value.data = c.data /\ b.value.label = c.label
      <3> DEFINE t == IF c.type = "resource" THEN "text resource" ELSE c.type
      <3>1. b.value = Block(t, c.uri, c.data, c.label, None)
        BY <2>5
      <3> HIDE DEF t
      <3>2. b.value.type = t /\ b.value.uri = c.uri /\ b.value.data = c.data /\ b.value.label = c.label
        BY <3>1 DEF Block
      <3>3. QED
        BY <3>2 DEF t
    <2>7. IsBlock(b.value)
      BY <2>4, <2>5, <2>6 DEF IsBlock, IsPart
    <2>8. QED
      BY <1>2, <2>1, <2>2, <2>7
  <1>3. QED
    BY <1>1, <1>2

\* A resource that is written back is one MCP can carry, has what the edit says
\* and the original's metadata.
LEMMA ResourceWrittenBack ==
    ASSUME NEW was \in McpBlock, NEW c \in CmfResource,
           ResourceItem(was, c).ok
    PROVE  LET v == ResourceItem(was, c).value IN
           /\ IsBlock(v)
           /\ v.uri = c.uri /\ v.label = c.label /\ v.meta = was.meta
           /\ IF c.text # None THEN v.type = "text resource" /\ v.data = c.text
                               ELSE v.type = "blob resource" /\ v.data = c.blob
           /\ (/\ c.uri = was.uri
               /\ c.label = was.label
               /\ c.text = IF was.type = "text resource" THEN was.data ELSE None
               /\ c.blob = IF was.type = "blob resource" THEN was.data ELSE None) => v = was
  <1> DEFINE v == ResourceItem(was, c).value
  <1>1. c.type = "resource" /\ (c.text # None \/ c.blob # None)
    BY DEF ResourceItem, Refused
  <1>2. c.uri \in Data /\ c.text \in Data \cup {None} /\ c.blob \in Data \cup {None} /\ c.label \in Data \cup {None}
    BY <1>1 DEF CmfResource, OrNone
  <1>3. v = Block(IF c.text # None THEN "text resource" ELSE "blob resource", c.uri,
                        IF c.text # None THEN c.text ELSE c.blob, c.label, was.meta)
    BY <1>1 DEF ResourceItem, Taken
  <1> HIDE DEF v
  <1>4. /\ v.type = IF c.text # None THEN "text resource" ELSE "blob resource"
        /\ v.uri = c.uri /\ v.label = c.label /\ v.meta = was.meta
        /\ v.data = IF c.text # None THEN c.text ELSE c.blob
        /\ v = [type |-> v.type, uri |-> v.uri, data |-> v.data, label |-> v.label, meta |-> v.meta]
    BY <1>3 DEF Block
  <1>5. IsBlock(v)
    BY <1>1, <1>2, <1>4 DEF IsBlock
  <1>6. was = [type |-> was.type, uri |-> was.uri, data |-> was.data, label |-> was.label, meta |-> was.meta]
    BY DEF McpBlock
  <1>7. ASSUME c.uri = was.uri, c.label = was.label,
               c.text = IF was.type = "text resource" THEN was.data ELSE None,
               c.blob = IF was.type = "blob resource" THEN was.data ELSE None
        PROVE  v = was
    <2>1. v.type = was.type /\ v.data = was.data
      BY <1>1, <1>4, <1>7
    <2>2. QED
      BY <1>4, <1>6, <1>7, <2>1
  <1>8. QED
    BY <1>4, <1>5, <1>7 DEF v

\* The kept part of UntouchedKept, for one item of the result.
KeptItem(p, was, is, i) ==
    IF op = "prompt" THEN PromptMessage(was) = p[1].messages[i] => is = was
    ELSE /\ is.meta = was.meta
         /\ (/\ p[i].uri = was.uri
             /\ p[i].label = was.label
             /\ p[i].text = IF was.type = "text resource" THEN was.data ELSE None
             /\ p[i].blob = IF was.type = "blob resource" THEN was.data ELSE None) => is = was

\* An edit that is applied shows in the reply, as far as EditShown says, and
\* what the edit left alone is kept.
LEMMA ResponseApplied ==
    ASSUME op \in Operation, NEW r \in Response[op], NEW p \in Edit[op],
           ApplyPayload(op, r, p).ok
    PROVE  LET v == ApplyPayload(op, r, p).value IN
           /\ IsResult(op, v)
           /\ op = "tool" /\ p.results # <<>> => FirstShown(v, p)
           /\ op # "tool" => Shows(v, p)
           /\ op # "tool" => \A i \in DOMAIN v : KeptItem(p, r[i], v[i], i)
  <1> DEFINE v == ApplyPayload(op, r, p).value
  <1>0. op \in {"tool", "prompt", "resource"} /\ IsResponse(op, r) /\ IsResponseEdit(op, p)
    BY HookAssumption
  <1>1. CASE op = "tool"
    <2>1. r \in ToolResultType /\ p.results \in Seq(ToolResultType)
      BY <1>0, <1>1 DEF IsResponse, IsResponseEdit
    <2>2. v = ToolResponse(r, p)
      BY <1>1 DEF ApplyPayload, Taken
    <2> HIDE DEF v
    <2>3. CASE p.results = <<>>
      <3>1. v = [r EXCEPT !.appended = p.text]
        BY <2>2, <2>3 DEF ToolResponse
      <3>2. v.data = r.data /\ v.error = r.error /\ r.data \in Data /\ r.error \in BOOLEAN
        BY <2>1, <3>1 DEF ToolResultType
      <3>3. QED
        BY <1>1, <2>3, <3>2 DEF IsResult, v
    <2>4. CASE p.results # <<>>
      <3> DEFINE f == p.results[1]
      <3>1. f \in ToolResultType
        BY <2>1, <2>4
      <3> HIDE DEF f
      <3>2. v = [shape |-> f.shape, data |-> f.data, error |-> f.error, appended |-> p.text]
        BY <2>2, <2>4 DEF ToolResponse, f
      <3>3. f.data \in Data /\ f.error \in BOOLEAN
        BY <3>1 DEF ToolResultType
      <3>4. IsResult(op, v)
        BY <1>1, <3>2, <3>3 DEF IsResult
      <3>5. FirstShown(v, p)
        BY <2>4, <3>2 DEF FirstShown, f
      <3>6. QED
        BY <1>1, <3>4, <3>5 DEF v
    <2>5. QED
      BY <2>3, <2>4
  <1>2. CASE op = "prompt"
    <2>1. v = PromptResponse(r, p).value /\ PromptResponse(r, p).ok
      BY <1>2 DEF ApplyPayload
    <2> DEFINE ms == p[1].messages
    <2>2. /\ Len(p) = 1 /\ ~p[1].isError /\ Len(ms) = Len(r)
          /\ \A i \in DOMAIN r : WriteBack(r[i], ms[i]).ok
          /\ v = [i \in DOMAIN r |-> WriteBack(r[i], ms[i]).value]
      BY <2>1 DEF PromptResponse, Taken, Refused
    <2>3. r \in Seq([role : STRING, block : McpBlock]) /\ ms \in Seq(CmfMessage)
      BY <1>0, <1>2, <2>2 DEF IsResponse, IsResponseEdit
    <2> HIDE DEF ms, v
    <2>4. DOMAIN r = DOMAIN ms /\ DOMAIN v = DOMAIN r
      BY <2>2, <2>3
    <2>5. ASSUME NEW i \in DOMAIN r
          PROVE  /\ IsBlock(v[i].block)
                 /\ PromptMessage(v[i]) = ms[i]
                 /\ PromptMessage(r[i]) = ms[i] => v[i] = r[i]
      <3>1. r[i] \in [role : STRING, block : McpBlock] /\ ms[i] \in CmfMessage
        <4> DEFINE M == [role : STRING, block : McpBlock]
        <4>1. r \in Seq(M) /\ ms \in Seq(CmfMessage) /\ i \in DOMAIN ms
          BY <2>3, <2>4
        <4> HIDE DEF M
        <4>2. r[i] \in M /\ ms[i] \in CmfMessage
          BY <4>1
        <4>3. QED
          BY <4>2 DEF M
      <3>2. v[i] = WriteBack(r[i], ms[i]).value /\ WriteBack(r[i], ms[i]).ok
        BY <2>2
      <3>3. QED
        BY <3>1, <3>2, MessageWrittenBack
    <2>6. IsResult(op, v)
      BY <1>2, <2>4, <2>5 DEF IsResult
    <2>7. [i \in DOMAIN v |-> PromptMessage(v[i])] = ms
      BY <2>3, <2>4, <2>5
    <2>8. Shows(v, p)
      BY <1>2, <2>2, <2>7 DEF Shows, ms
    <2>9. \A i \in DOMAIN v : KeptItem(p, r[i], v[i], i)
      BY <1>2, <2>4, <2>5 DEF KeptItem, ms
    <2>10. QED
      BY <1>2, <2>6, <2>8, <2>9 DEF v
  <1>3. CASE op = "resource"
    <2>1. v = ResourceResponse(r, p).value /\ ResourceResponse(r, p).ok
      BY <1>3 DEF ApplyPayload
    <2>2. /\ Len(p) = Len(r)
          /\ \A i \in DOMAIN p : ResourceItem(r[i], p[i]).ok
          /\ v = [i \in DOMAIN p |-> ResourceItem(r[i], p[i]).value]
      BY <2>1 DEF ResourceResponse, Taken, Refused
    <2>3. r \in Seq(McpBlock) /\ p \in Seq(CmfResource)
      BY <1>0, <1>3 DEF IsResponse, IsResponseEdit
    <2> HIDE DEF v
    <2>4. DOMAIN r = DOMAIN p /\ DOMAIN v = DOMAIN p
      BY <2>2, <2>3
    <2>5. ASSUME NEW i \in DOMAIN p
          PROVE  /\ IsBlock(v[i])
                 /\ v[i].uri = p[i].uri /\ v[i].label = p[i].label
                 /\ IF p[i].text # None THEN v[i].type = "text resource" /\ v[i].data = p[i].text
                                        ELSE v[i].type = "blob resource" /\ v[i].data = p[i].blob
                 /\ KeptItem(p, r[i], v[i], i)
      <3>1. r[i] \in McpBlock /\ p[i] \in CmfResource
        BY <2>3, <2>4
      <3>2. v[i] = ResourceItem(r[i], p[i]).value /\ ResourceItem(r[i], p[i]).ok
        BY <2>2
      <3> DEFINE w == v[i]
                 was == r[i]
                 c == p[i]
      <3> HIDE DEF w, was, c
      <3>3. /\ IsBlock(w)
            /\ w.uri = c.uri /\ w.label = c.label /\ w.meta = was.meta
            /\ IF c.text # None THEN w.type = "text resource" /\ w.data = c.text
                                ELSE w.type = "blob resource" /\ w.data = c.blob
            /\ (/\ c.uri = was.uri
                /\ c.label = was.label
                /\ c.text = IF was.type = "text resource" THEN was.data ELSE None
                /\ c.blob = IF was.type = "blob resource" THEN was.data ELSE None) => w = was
        <4>1. was \in McpBlock /\ c \in CmfResource
              /\ w = ResourceItem(was, c).value /\ ResourceItem(was, c).ok
          BY <3>1, <3>2 DEF w, was, c
        <4>2. QED
          BY <4>1, ResourceWrittenBack
      <3>4. KeptItem(p, r[i], v[i], i)
        BY <1>3, <3>3 DEF KeptItem, w, was, c
      <3>5. QED
        BY <3>3, <3>4 DEF w, was, c
    <2>6. IsResult(op, v)
      BY <1>3, <2>4, <2>5 DEF IsResult
    <2>7. Shows(v, p)
      BY <1>3, <2>4, <2>5 DEF Shows
    <2>8. QED
      BY <1>3, <2>4, <2>5, <2>6, <2>7 DEF v
  <1>4. QED
    BY <1>0, <1>1, <1>2, <1>3

\* Every step of a call keeps it.
LEMMA EditStep ==
    ASSUME EditInv, [EditNext]_editVars
    PROVE  EditInv'
  <1>0. op \in Operation /\ step \in {"pre", "backend", "post", "done"}
    BY DEF EditInv
  <1> USE DEF RepliedEdited
  <1>1. CASE PreUnchanged
    BY <1>1 DEF EditInv, PreUnchanged, ArgumentsFollowPlugin, EditShown, UntouchedKept
  <1>2. CASE PreDenied
    BY <1>2 DEF EditInv, PreDenied, ArgumentsFollowPlugin, EditShown, UntouchedKept
  <1>3. CASE BackendFails
    BY <1>3 DEF EditInv, BackendFails, ArgumentsFollowPlugin, EditShown, UntouchedKept
  <1>4. ASSUME NEW p \in Request[op], PreEdited(p) PROVE EditInv'
    <2> DEFINE u == ApplyRequest(op, asked, p)
    <2>1. /\ step = "pre" /\ before' = <<p>> /\ reply = <<>> /\ reply' = <<>> /\ after' = <<>> /\ op' = op
          /\ asked' = asked
          /\ step' = IF u.ok THEN "backend" ELSE "done"
          /\ sent' = IF u.ok THEN u.value ELSE sent
      BY <1>4 DEF PreEdited, EditInv
    <2>2. CASE u.ok /\ op # "resource"
      <3>1. /\ ArgumentMap(u.value) = p[1].args
            /\ p[1].args = ArgumentMap(asked) => u.value = asked
            /\ op = "prompt" => Len(p) = 1 /\ p[1].name = Name /\ p[1].id = Id /\ p[1].server = Backend
        BY <1>0, <2>2, RequestApplied
      <3>2. sent' = u.value /\ before'[1] = p
        BY <2>1, <2>2
      <3> HIDE DEF u
      <3>3. ArgumentsFollowPlugin'
        BY <2>1, <3>1, <3>2 DEF ArgumentsFollowPlugin, ArgumentMap
      <3>4. QED
        BY <1>0, <2>1, <2>2, <3>3 DEF EditInv, EditShown, UntouchedKept
    <2>3. CASE ~(u.ok /\ op # "resource")
      <3> HIDE DEF u
      <3>1. ArgumentsFollowPlugin'
        BY <2>1, <2>3 DEF ArgumentsFollowPlugin
      <3>2. QED
        BY <1>0, <2>1, <3>1 DEF EditInv, EditShown, UntouchedKept
    <2>4. QED
      BY <2>2, <2>3
  <1>5. ASSUME NEW r \in Response[op], BackendAnswers(r) PROVE EditInv'
    BY <1>5 DEF EditInv, BackendAnswers, ArgumentsFollowPlugin, EditShown, UntouchedKept
  <1>6. CASE NoPayload
    BY <1>6 DEF EditInv, NoPayload, ArgumentsFollowPlugin, EditShown, UntouchedKept
  <1>7. CASE PostUnchanged
    BY <1>7 DEF EditInv, PostUnchanged, ArgumentsFollowPlugin, EditShown, UntouchedKept
  <1>8. CASE PostDenied
    BY <1>8 DEF EditInv, PostDenied, ArgumentsFollowPlugin, EditShown, UntouchedKept
  <1>9. ASSUME NEW p \in Edit[op], PostEdited(p) PROVE EditInv'
    <2>1. PICK r \in Response[op] : response = <<r>>
      BY <1>9 DEF EditInv, PostEdited
    <2> DEFINE a == ApplyPayload(op, r, p)
    <2>2. response[1] = r
      BY <2>1
    <2>3. /\ step' = "done" /\ op' = op /\ after' = <<p>> /\ after'[1] = p
          /\ response' = response /\ response'[1] = r
          /\ reply' = IF a.ok THEN <<a.value>> ELSE <<>>
      BY <1>9, <2>2 DEF PostEdited
    <2>4. CASE a.ok
      <3> DEFINE v == a.value
      <3>1. /\ IsResult(op, v)
            /\ op = "tool" /\ p.results # <<>> => FirstShown(v, p)
            /\ op # "tool" => Shows(v, p)
            /\ op # "tool" => \A i \in DOMAIN v : KeptItem(p, r[i], v[i], i)
        BY <1>0, <2>4, ResponseApplied
      <3> HIDE DEF a
      <3>2. reply'[1] = v
        BY <2>3, <2>4
      <3> HIDE DEF v
      <3>3. EditShown'
        BY <2>3, <3>1, <3>2 DEF EditShown, IsResult, Shows, FirstShown, PromptMessage
      <3>4. UntouchedKept'
        <4>0. after'[1] = p /\ response'[1] = r /\ reply'[1] = v /\ op' = op
          BY <2>3, <3>2
        <4>1. CASE op = "tool"
          BY <4>0, <4>1 DEF UntouchedKept
        <4>2. CASE op = "prompt"
          <5>1. \A i \in DOMAIN v : PromptMessage(r[i]) = p[1].messages[i] => v[i] = r[i]
            BY <3>1, <4>2 DEF KeptItem
          <5>2. QED
            BY <4>0, <4>2, <5>1 DEF UntouchedKept, PromptMessage
        <4>3. CASE op = "resource"
          <5>1. ASSUME NEW i \in DOMAIN v
                PROVE  /\ v[i].meta = r[i].meta
                       /\ (/\ p[i].uri = r[i].uri
                           /\ p[i].label = r[i].label
                           /\ p[i].text = IF r[i].type = "text resource" THEN r[i].data ELSE None
                           /\ p[i].blob = IF r[i].type = "blob resource" THEN r[i].data ELSE None) => v[i] = r[i]
            BY <3>1, <4>3 DEF KeptItem
          <5>2. QED
            BY <4>0, <4>3, <5>1 DEF UntouchedKept
        <4>4. QED
          BY <4>1, <4>2, <4>3, HookAssumption DEF EditInv
      <3>5. QED
        BY <1>0, <2>3, <3>3, <3>4 DEF EditInv, ArgumentsFollowPlugin
    <2>5. CASE ~a.ok
      <3> HIDE DEF a
      <3>1. reply' = <<>>
        BY <2>3, <2>5
      <3>2. QED
        BY <1>0, <2>3, <3>1 DEF EditInv, ArgumentsFollowPlugin, EditShown, UntouchedKept
    <2>6. QED
      BY <2>4, <2>5
  <1>10. CASE NextCall
    BY <1>10 DEF EditInv, NextCall, ArgumentsFollowPlugin, EditShown, UntouchedKept
  <1>11. CASE UNCHANGED editVars
    BY <1>11 DEF EditInv, editVars, ArgumentsFollowPlugin, EditShown, UntouchedKept, Shows, FirstShown
  <1>12. QED
    BY <1>1, <1>2, <1>3, <1>4, <1>5, <1>6, <1>7, <1>8, <1>9, <1>10, <1>11 DEF EditNext

\* EditInv holds of every call, whatever the plugins return and the backends
\* answer.
LEMMA EditInvariant == EditSpec => []EditInv
  <1>1. EditInit => EditInv
    BY DEF EditInit, EditInv, ArgumentsFollowPlugin, EditShown, UntouchedKept, RepliedEdited
  <1>2. EditInv /\ [EditNext]_editVars => EditInv'
    BY EditStep
  <1>3. QED
    BY <1>1, <1>2, PTL DEF EditSpec

\* The backend is asked what the plugin's payload says; a request that was
\* renamed, rerouted or recorrelated is not sent (from_modified,
\* tool_call_arguments, prompt_request_arguments).
THEOREM PluginDecidesArguments == EditSpec => []ArgumentsFollowPlugin
  <1>1. EditInv => ArgumentsFollowPlugin
    BY DEF EditInv
  <1>2. QED
    BY <1>1, EditInvariant, PTL

\* A reply is one MCP can carry. For prompts and resources it shows the
\* plugin's edit in full, and an edit that cannot be written back fails the
\* call; for tools it shows the payload's first tool result and its texts
\* instead of the original, if there is a tool result
\* (prompt_result_response, resource_result_response, tool_result_response).
THEOREM EditsShown == EditSpec => []EditShown
  <1>1. EditInv => EditShown
    BY DEF EditInv
  <1>2. QED
    BY <1>1, EditInvariant, PTL

\* What the plugin left alone is returned as the backend sent it, with what the
\* plugin never saw (prompt_result_response, resource_result_response).
THEOREM UntouchedReturned == EditSpec => []UntouchedKept
  <1>1. EditInv => UntouchedKept
    BY DEF EditInv
  <1>2. QED
    BY <1>1, EditInvariant, PTL
=============================================================================
