----------------------------- MODULE HookEdits ------------------------------
(***************************************************************************)
(* What the gateway makes of a plugin's edits. A request and a response    *)
(* are projected to a CMF payload for the hook; an edited payload is       *)
(* converted back, or refused. The projections lose what CMF has no place  *)
(* for: annotations and _meta, blobs embedded in prompts, unknown blocks.  *)
(*                                                                         *)
(* Texts, bytes, URIs, names and MIME types are values of Data; None is    *)
(* an absent one. An MCP block is [type, uri, data, label, meta], where    *)
(* label is its media or MIME type or the name of a link.                  *)
(*                                                                         *)
(* Code: contextforge-data-plane-cpex/src/{tools,prompts,resources}/mod.rs,*)
(* hooks.rs, cmf.rs, runtime.rs.                                           *)
(***************************************************************************)
EXTENDS Naturals, Sequences

CONSTANTS
    Data, None,
    Name, Backend, Id,      \* the routed name, the backend and the call's id
    Operation,
    Arguments,              \* arguments of requests: sets, or None for absent
    Request,                \* Request[op]: payloads a pre hook may return
    Response,               \* Response[op]: backends' results
    Edit                    \* Edit[op]: payloads a post hook may return

Block(type, uri, data, label, meta) ==
    [type |-> type, uri |-> uri, data |-> data, label |-> label, meta |-> meta]

\* A CMF part. "rest" is "projected" if the fields MCP has no place for are as
\* the gateway's projection leaves them.
Part(type, uri, data, label, source, rest) ==
    [type |-> type, uri |-> uri, data |-> data, label |-> label, source |-> source, rest |-> rest]

Refused  == [ok |-> FALSE, value |-> <<>>]
Taken(v) == [ok |-> TRUE, value |-> v]

-----------------------------------------------------------------------------
(* The payloads *)

OrNone == Data \cup {None}

\* A block MCP can carry. Binary contents that are not Base64 have no data.
IsBlock(b) ==
    /\ b.type \in {"text", "image", "audio", "text resource", "blob resource", "link", "other"}
    /\ b.type \in {"text", "image", "audio", "text resource"} => b.data \in Data
    /\ b.type \in {"image", "audio", "link"} => b.label \in Data
    /\ b.type \in {"text resource", "blob resource", "link"} => b.uri \in Data

McpBlock == {b \in [type : STRING, uri : OrNone, data : OrNone, label : OrNone, meta : OrNone] : IsBlock(b)}

\* A CMF part has the text, the bytes or the URI that its type asks for.
IsPart(c) ==
    /\ c.type \in {"text", "image", "audio"} => c.data \in Data
    /\ c.type \in {"resource", "link"} => c.uri \in Data

CmfPart ==
    {c \in [type : STRING, uri : OrNone, data : OrNone, label : OrNone, source : STRING, rest : STRING] :
        IsPart(c)}

CmfMessage == [role : STRING, content : Seq(CmfPart), envelope : STRING]

CmfResource ==
    {c \in [type : STRING, uri : OrNone, text : OrNone, blob : OrNone, label : OrNone] :
        c.type = "resource" => c.uri \in Data}

ToolResultType == [shape : STRING, data : Data, error : BOOLEAN, appended : OrNone]

IsRequestEdit(o, p) == o # "resource" /\ p # <<>> => p[1].args # None

IsResponse(o, r) ==
    /\ o = "tool" => r \in ToolResultType
    /\ o = "prompt" => r \in Seq([role : STRING, block : McpBlock])
    /\ o = "resource" => r \in Seq(McpBlock)

IsResponseEdit(o, p) ==
    /\ o = "tool" => p.results \in Seq(ToolResultType) /\ p.others \in BOOLEAN
    /\ o = "prompt" /\ Len(p) = 1 => p[1].messages \in Seq(CmfMessage)
    /\ o = "resource" => p \in Seq(CmfResource)

\* What the types of the MCP and CMF libraries say of the payloads.
ASSUME HookAssumption ==
    /\ None \notin Data
    /\ Operation \subseteq {"tool", "prompt", "resource"}
    /\ \A o \in Operation :
          /\ \A p \in Request[o] : IsRequestEdit(o, p)
          /\ \A r \in Response[o] : IsResponse(o, r)
          /\ \A p \in Edit[o] : IsResponseEdit(o, p)

-----------------------------------------------------------------------------
(* Requests *)

ArgumentMap(args) == IF args = None THEN {} ELSE args

\* Mutant: absent arguments and empty ones are told apart.
FromModified_Absent(original, modified) == IF original = modified THEN original ELSE modified

\* ArgumentsUpdate::from_modified, applied to the original arguments.
FromModified(original, modified) ==
    IF ArgumentMap(original) = modified THEN original ELSE modified

\* tool_call_arguments: of the first tool call, whatever its name.
ToolArguments(p) == IF p = <<>> THEN Refused ELSE Taken(p[1].args)

\* prompt_request_arguments: of the only request, still the routed one.
PromptArguments(p) ==
    IF /\ Len(p) = 1
       /\ p[1].name = Name
       /\ p[1].id = Id
       /\ p[1].server = Backend
    THEN Taken(p[1].args) ELSE Refused

\* The update of before_read_resource: the URI of the only part.
ResourceUri(p) ==
    IF Len(p) = 1 /\ p[1].type = "ref" THEN Taken(p[1].uri) ELSE Refused

\* What is sent for an edited payload, if it can be applied.
ApplyRequest(op, original, p) ==
    IF op = "resource" THEN ResourceUri(p)
    ELSE LET update == IF op = "tool" THEN ToolArguments(p) ELSE PromptArguments(p) IN
         IF update.ok THEN Taken(FromModified(original, update.value)) ELSE Refused

-----------------------------------------------------------------------------
(* Tool results *)

\* Mutant: a value that is no CallToolResult leaves the original in place.
ToolResponse_Lenient(original, p) ==
    LET first == p.results[1] IN
    IF p.results = <<>> \/ first.shape # "mcp" THEN [original EXCEPT !.appended = p.text]
    ELSE [shape |-> first.shape, data |-> first.data, error |-> first.error, appended |-> p.text]

\* tool_result_response. A payload has tool results, texts and maybe parts of
\* other kinds. Without a tool result the original stays, results after the
\* first and other parts are dropped; a value that is no CallToolResult is
\* wrapped into one (raw_tool_result).
ToolResponse(original, p) ==
    LET first == p.results[1] IN
    IF p.results = <<>> THEN [original EXCEPT !.appended = p.text]
    ELSE [shape |-> first.shape, data |-> first.data, error |-> first.error, appended |-> p.text]

-----------------------------------------------------------------------------
(* Prompt results *)

\* cmf_content_part; an unknown block has no part.
ContentPart(b) ==
    IF b.type = "other" THEN <<>>
    ELSE LET type == IF b.type \in {"text resource", "blob resource"} THEN "resource" ELSE b.type IN
         <<Part(type, b.uri, IF b.type = "blob resource" THEN None ELSE b.data, b.label,
                "base64", "projected")>>

\* cmf_prompt_message
PromptMessage(m) == [role |-> m.role, content |-> ContentPart(m.block), envelope |-> "projected"]

\* The block for a part: inline media, a resource with text, a named link.
McpContent(c) ==
    LET type == IF c.type = "resource" THEN "text resource" ELSE c.type IN
    IF \/ c.type = "text"
       \/ c.type \in {"image", "audio"} /\ c.source = "base64" /\ c.label # None
       \/ c.type = "resource" /\ c.data # None
       \/ c.type = "link" /\ c.label # None
    THEN Taken(Block(type, c.uri, c.data, c.label, None)) ELSE Refused

\* mcp_prompt_message
McpPromptMessage(m) ==
    IF m.role \in {"user", "assistant"} /\ Len(m.content) = 1 /\ McpContent(m.content[1]).ok
    THEN Taken([role |-> m.role, block |-> McpContent(m.content[1]).value])
    ELSE Refused

\* Mutant: a rebuilt message is not projected again.
WriteBack_Trusting(original, edited) ==
    IF PromptMessage(original) = edited THEN Taken(original) ELSE McpPromptMessage(edited)

\* Mutant: every message is rebuilt.
WriteBack_Always(original, edited) ==
    LET rebuilt == McpPromptMessage(edited) IN
    IF rebuilt.ok /\ PromptMessage(rebuilt.value) = edited THEN rebuilt ELSE Refused

\* One turn of prompt_result_response's loop: what the plugin left alone stays
\* as the backend sent it; a rebuilt message has to say all the edit says.
WriteBack(original, edited) ==
    LET rebuilt == McpPromptMessage(edited) IN
    IF PromptMessage(original) = edited THEN Taken(original)
    ELSE IF rebuilt.ok /\ PromptMessage(rebuilt.value) = edited THEN rebuilt
    ELSE Refused

\* prompt_result_rejection, then prompt_result_response.
PromptResponse(original, p) ==
    IF /\ Len(p) = 1
       /\ ~p[1].isError
       /\ p[1].name = Name
       /\ p[1].id = Id
       /\ p[1].content = None
       /\ p[1].errorMessage = None
       /\ Len(p[1].messages) = Len(original)
       /\ \A i \in DOMAIN original : WriteBack(original[i], p[1].messages[i]).ok
    THEN Taken([i \in DOMAIN original |-> WriteBack(original[i], p[1].messages[i]).value])
    ELSE Refused

-----------------------------------------------------------------------------
(* Resource contents *)

\* cmf_resource_content can project it: a text, or a blob that is Base64.
Projectable(b) == b.type \in {"text resource", "blob resource"} /\ b.data # None

\* One turn of resource_result_response's loop; encoding the bytes again gives
\* the original blob if they are the original ones.
ResourceItem(original, c) ==
    IF c.type # "resource" THEN Refused
    ELSE IF c.text # None THEN Taken(Block("text resource", c.uri, c.text, c.label, original.meta))
    ELSE IF c.blob # None THEN Taken(Block("blob resource", c.uri, c.blob, c.label, original.meta))
    ELSE Refused

ResourceResponse(original, p) ==
    IF Len(p) = Len(original) /\ \A i \in DOMAIN p : ResourceItem(original[i], p[i]).ok
    THEN Taken([i \in DOMAIN p |-> ResourceItem(original[i], p[i]).value])
    ELSE Refused

\* CmfResponse::to_payload succeeds.
HasPayload(op, r) == op = "resource" => \A i \in DOMAIN r : Projectable(r[i])

\* CmfResponse::apply_payload
ApplyPayload(op, original, p) ==
    IF op = "tool" THEN Taken(ToolResponse(original, p))
    ELSE IF op = "prompt" THEN PromptResponse(original, p)
    ELSE ResourceResponse(original, p)

-----------------------------------------------------------------------------
(* One call: before, the backend, after. *)

VARIABLES
    step,       \* how far the call is
    op,         \* the operation
    hooked,     \* whether a post hook is declared
    asked,      \* the caller's arguments, or URI
    before,     \* <<p>>: the payload the pre hook returned, <<>> if unchanged
    after,      \* <<p>>: that of the post hook
    sent,       \* what the backend is asked
    response,   \* <<r>>: what the backend answered
    reply       \* <<r>>: what the caller gets, <<>> if an error

editVars == <<step, op, hooked, asked, before, after, sent, response, reply>>

EditInit ==
    /\ step = "pre"
    /\ op \in Operation
    /\ hooked \in BOOLEAN
    /\ asked \in Arguments[op]
    /\ sent = asked
    /\ before = <<>>
    /\ after = <<>>
    /\ response = <<>>
    /\ reply = <<>>

\* No pre hook, or one that leaves the payload alone.
PreUnchanged ==
    /\ step = "pre"
    /\ step' = "backend"
    /\ UNCHANGED <<op, hooked, asked, before, after, sent, response, reply>>

PreDenied ==
    /\ step = "pre"
    /\ step' = "done"
    /\ UNCHANGED <<op, hooked, asked, before, after, sent, response, reply>>

PreEdited(p) ==
    /\ step = "pre"
    /\ before' = <<p>>
    /\ LET update == ApplyRequest(op, asked, p) IN
          /\ step' = IF update.ok THEN "backend" ELSE "done"
          /\ sent' = IF update.ok THEN update.value ELSE sent
    /\ UNCHANGED <<op, hooked, asked, after, response, reply>>

\* Without a post hook the response is the reply. The request was given away
\* with the call to the backend: nothing that follows can look at it.
BackendAnswers(r) ==
    /\ step = "backend"
    /\ response' = <<r>>
    /\ reply' = IF hooked THEN <<>> ELSE <<r>>
    /\ step' = IF hooked THEN "post" ELSE "done"
    /\ asked' = None
    /\ sent' = None
    /\ before' = <<>>
    /\ UNCHANGED <<op, hooked, after>>

\* A backend error, which no hook sees.
BackendFails ==
    /\ step = "backend"
    /\ step' = "done"
    /\ UNCHANGED <<op, hooked, asked, before, after, sent, response, reply>>

\* A response that has no payload fails the call before the hook.
NoPayload ==
    /\ step = "post"
    /\ ~HasPayload(op, response[1])
    /\ step' = "done"
    /\ UNCHANGED <<op, hooked, asked, before, after, sent, response, reply>>

PostUnchanged ==
    /\ step = "post"
    /\ HasPayload(op, response[1])
    /\ reply' = response
    /\ step' = "done"
    /\ UNCHANGED <<op, hooked, asked, before, after, sent, response>>

PostDenied ==
    /\ step = "post"
    /\ HasPayload(op, response[1])
    /\ step' = "done"
    /\ UNCHANGED <<op, hooked, asked, before, after, sent, response, reply>>

PostEdited(p) ==
    /\ step = "post"
    /\ HasPayload(op, response[1])
    /\ LET applied == ApplyPayload(op, response[1], p) IN
          reply' = IF applied.ok THEN <<applied.value>> ELSE <<>>
    /\ after' = <<p>>
    /\ step' = "done"
    /\ UNCHANGED <<op, hooked, asked, before, sent, response>>

\* The next call, of which nothing is known from this one.
NextCall ==
    /\ step = "done"
    /\ step' = "pre"
    /\ op' \in Operation
    /\ hooked' \in BOOLEAN
    /\ asked' \in Arguments[op']
    /\ sent' = asked'
    /\ before' = <<>>
    /\ after' = <<>>
    /\ response' = <<>>
    /\ reply' = <<>>

EditNext ==
    \/ PreUnchanged \/ PreDenied \/ BackendFails
    \/ \E p \in Request[op] : PreEdited(p)
    \/ \E r \in Response[op] : BackendAnswers(r)
    \/ NoPayload \/ PostUnchanged \/ PostDenied
    \/ \E p \in Edit[op] : PostEdited(p)
    \/ NextCall

EditSpec == EditInit /\ [][EditNext]_editVars

-----------------------------------------------------------------------------
(* Properties *)

IsResult(o, r) ==
    IF o = "tool" THEN r.data \in Data /\ r.error \in BOOLEAN
    ELSE \A i \in DOMAIN r : IsBlock(IF o = "prompt" THEN r[i].block ELSE r[i])

\* The backend gets the arguments of the plugin's payload; a prompt request that
\* was renamed, rerouted or recorrelated never reaches it; and a payload that
\* says what the caller said changes nothing, so that absent arguments stay
\* absent (from_modified, prompt_request_arguments).
ArgumentsFollowPlugin ==
    step = "backend" /\ before # <<>> /\ op # "resource" =>
        LET first == before[1][1] IN
        /\ ArgumentMap(sent) = first.args
        /\ first.args = ArgumentMap(asked) => sent = asked
        /\ op = "prompt" =>
              Len(before[1]) = 1 /\ first.name = Name /\ first.id = Id /\ first.server = Backend

\* A tool's reply has the data of the payload's first result, and the texts.
FirstShown(r, p) ==
    /\ p.results # <<>>
    /\ r.data = p.results[1].data /\ r.error = p.results[1].error /\ r.appended = p.text

\* The reply, put before the plugin again, would be the payload it returned, up
\* to fields the operation's MCP result has no place for: no message, item,
\* tool result or part of it is missing.
Shows(r, p) ==
    IF op = "tool" THEN FirstShown(r, p) /\ Len(p.results) = 1 /\ ~p.others
    ELSE IF op = "prompt" THEN
        /\ Len(p) = 1 /\ ~p[1].isError
        /\ [i \in DOMAIN r |-> PromptMessage(r[i])] = p[1].messages
    ELSE
        /\ DOMAIN r = DOMAIN p
        /\ \A i \in DOMAIN r :
              /\ r[i].uri = p[i].uri /\ r[i].label = p[i].label
              /\ IF p[i].text # None THEN r[i].type = "text resource" /\ r[i].data = p[i].text
                                     ELSE r[i].type = "blob resource" /\ r[i].data = p[i].blob

\* The caller gets a reply and the post hook had edited the payload.
RepliedEdited == reply # <<>> /\ after # <<>>

\* A caller who gets a reply gets one MCP can carry. For a prompt or a resource
\* it has the plugin's edit in full and in order, never the content the plugin
\* replaced: an edit that cannot be written back fails the call. For a tool it
\* has what the payload's first tool result says, and the texts, and nothing of
\* the original, if there is a tool result; what tools lose is the subject of
\* EditShownOrFailed (prompt_result_response, resource_result_response,
\* tool_result_response).
EditShown ==
    RepliedEdited =>
        /\ IsResult(op, reply[1])
        /\ IF op = "tool" THEN after[1].results # <<>> => FirstShown(reply[1], after[1])
                          ELSE Shows(reply[1], after[1])

\* What the plugin left alone is returned exactly as the backend sent it,
\* annotations and embedded blobs included, although the plugin never saw them;
\* and a resource's _meta survives every edit (prompt_result_response,
\* resource_result_response).
UntouchedKept ==
    RepliedEdited /\ op # "tool" =>
        \A i \in DOMAIN reply[1] :
            LET p   == after[1]
                was == response[1][i]
                is  == reply[1][i]
            IN  IF op = "prompt" THEN PromptMessage(was) = p[1].messages[i] => is = was
                ELSE /\ is.meta = was.meta
                     /\ (/\ p[i].uri = was.uri
                         /\ p[i].label = was.label
                         /\ p[i].text = IF was.type = "text resource" THEN was.data ELSE None
                         /\ p[i].blob = IF was.type = "blob resource" THEN was.data ELSE None) => is = was

\* An edit the reply would not show in full fails the call, for every operation.
\* Not so for tools: a payload without a tool result leaves the original in
\* place, and tool results after the first and parts that are neither results
\* nor texts are dropped without an error (tool_result_response).
EditShownOrFailed ==
    RepliedEdited => Shows(reply[1], after[1])

=============================================================================
