---------------------------- MODULE MCHookEdits -----------------------------
(* Every way the conversions tell payloads apart: kinds of blocks, hidden    *)
(* data, edits of fields with and without a place in MCP, counts, names.     *)
EXTENDS HookEdits

CONSTANTS d1, d2, other

\* Requests: the routed one, renamed, rerouted, recorrelated, none, two.
ToolRequest(a)   == [args |-> a]
PromptRequest(n, i, b, a) == [name |-> n, id |-> i, server |-> b, args |-> a]
Uri(t, u)        == [type |-> t, uri |-> u]

Args == {{}, {d1}, {d2}}

AllArguments == [tool |-> Args \cup {None}, prompt |-> Args \cup {None}, resource |-> {d1}]
AllRequests  ==
    [tool     |-> {<<>>} \cup {<<ToolRequest(a)>> : a \in Args}
                  \cup {<<ToolRequest(a), ToolRequest({d2})>> : a \in Args},
     prompt   |-> {<<>>}
                  \cup {<<PromptRequest(n, i, b, a)>> :
                          n \in {Name, other}, i \in {Id, other}, b \in {Backend, other, None}, a \in Args}
                  \cup {<<PromptRequest(Name, Id, Backend, a), PromptRequest(Name, Id, Backend, a)>> : a \in Args},
     resource |-> {<<>>, <<Uri("ref", d2)>>, <<Uri("other", d2)>>, <<Uri("ref", d1), Uri("ref", d2)>>}]

-----------------------------------------------------------------------------

ToolResult(s, d, e) == [shape |-> s, data |-> d, error |-> e, appended |-> None]

\* Blocks with metadata the projection loses.
Blocks ==
    {Block("text", None, d1, None, d1), Block("image", None, d1, d1, None),
     Block("audio", None, d1, d1, None), Block("text resource", d1, d1, None, d1),
     Block("blob resource", d1, d1, d1, d1), Block("link", d1, None, d1, None),
     Block("other", None, None, None, d1)}

Prompts == {<<[role |-> "user", block |-> b]>> : b \in Blocks}
           \cup {<<[role |-> "user", block |-> b], [role |-> "assistant", block |-> c]>> : b, c \in Blocks}

Contents == {Block("text resource", d1, d1, None, d1), Block("blob resource", d1, d2, d1, None),
             Block("blob resource", d1, None, d1, d1), Block("other", None, None, None, None)}

AllResponses ==
    [tool     |-> {ToolResult("mcp", d1, e) : e \in BOOLEAN},
     prompt   |-> Prompts,
     resource |-> {<<>>} \cup {<<b>> : b \in Contents} \cup {<<b, c>> : b, c \in Contents}]

\* Parts: the projections of the blocks, and edits of them.
Parts ==
    {ContentPart(b)[1] : b \in {c \in Blocks : c.type # "other"}}
    \cup {Part("text", None, d2, None, "base64", "projected"),
          Part("image", None, d2, d1, "base64", "projected"),
          Part("image", None, d2, d1, "url", "projected"),
          Part("audio", None, d2, None, "base64", "projected"),
          Part("resource", d1, d2, d1, "base64", "projected"),
          Part("resource", d2, None, d1, "base64", "projected"),
          Part("resource", d1, d1, None, "base64", "edited"),
          Part("link", d2, None, None, "base64", "projected"),
          Part("cmf only", None, d1, None, "base64", "projected")}

Message(role, content, envelope) == [role |-> role, content |-> content, envelope |-> envelope]

Messages ==
    {Message(role, <<c>>, "projected") : role \in {"user", "assistant"}, c \in Parts}
    \cup {Message("user", <<>>, "projected"), Message("assistant", <<>>, "projected"),
          Message("system", <<ContentPart(Block("text", None, d1, None, d1))[1]>>, "projected"),
          Message("user", <<ContentPart(Block("text", None, d2, None, d1))[1]>>, "edited"),
          Message("user", ContentPart(Block("text", None, d1, None, d1))
                          \o ContentPart(Block("text", None, d2, None, d1)), "projected")}

Result(name, id, messages, content, isError, message) ==
    [name |-> name, id |-> id, messages |-> messages, content |-> content,
     isError |-> isError, errorMessage |-> message]

PromptEdits ==
    {<<>>}
    \cup {<<Result(Name, Id, m, None, FALSE, None)>> :
            m \in {<<>>} \cup {<<a>> : a \in Messages} \cup {<<a, b>> : a, b \in Messages}}
    \cup {<<Result(n, i, <<Message("user", <<c>>, "projected")>>, v, e, w)>> :
            n \in {Name, other}, i \in {Id, other}, c \in {ContentPart(Block("text", None, d, None, d1))[1] : d \in {d1, d2}},
            v \in {None, d1}, e \in BOOLEAN, w \in {None, d1}}
    \cup {<<Result(Name, Id, <<>>, None, FALSE, None), Result(Name, Id, <<>>, None, FALSE, None)>>}

Item(type, uri, text, blob, label) ==
    [type |-> type, uri |-> uri, text |-> text, blob |-> blob, label |-> label]

Items == {Item("resource", u, t, b, l) : u \in {d1, d2}, t \in {None, d1}, b \in {None, d2}, l \in {None, d1}}
         \cup {Item("other", d1, d1, None, None)}

AllEdits ==
    [tool     |-> {[results |-> r, text |-> t, others |-> o] :
                     r \in {<<>>} \cup {<<ToolResult(s, d, e)>> : s \in {"mcp", "text", "structured"},
                                                                  d \in {d1, d2}, e \in BOOLEAN}
                           \cup {<<ToolResult("mcp", d, FALSE), ToolResult("mcp", d1, TRUE)>> : d \in {d1, d2}},
                     t \in {None, d2}, o \in BOOLEAN},
     prompt   |-> PromptEdits,
     resource |-> {<<>>} \cup {<<i>> : i \in Items} \cup {<<i, j>> : i, j \in Items}]
=============================================================================
