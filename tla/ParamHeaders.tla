---------------------------- MODULE ParamHeaders ----------------------------
(***************************************************************************)
(* The Mcp-Param-* headers of one tools/call: validate_tool_params walks   *)
(* the tool's published schema for x-mcp-header annotations and compares   *)
(* every annotated argument with its header; then the pre hook may edit    *)
(* the arguments; then connect_backend_for_request (HeaderForwarding)      *)
(* copies the headers to the backend's connection.                         *)
(*                                                                         *)
(* A schema is a tree of JSON objects. An argument is at the place of the  *)
(* property with the same path, so one tree has both.                      *)
(*                                                                         *)
(* Code: contextforge-data-plane-lib/src/mcp_standard_headers.rs,          *)
(* gateway/mcp_service/tools.rs.                                           *)
(***************************************************************************)
EXTENDS IntegerHeader, HeaderForwarding

CONSTANTS
    Node, Root,
    Parent,         \* Parent[n], of every node but Root
    Property,       \* nodes that are a property of their parent's "properties"
    Token,          \* x-mcp-header names that are HTTP tokens
    HeaderOf,       \* HeaderOf[t]: the header of token t, without case
    NotToken,       \* x-mcp-header is empty, no token or no string
    NoSchema,       \* the tool has no published schema
    Call,           \* calls: [modern, schema, args, backend, downstream]
    Edits,          \* arguments plugins may put in the place of the caller's
    NeedsBase64     \* texts that are not allowed as plain header values

\* What the validator reads of a schema: annotations and types.
Schema == [header : [Node -> Token \cup {NotToken, None}], type : [Node -> STRING]]

\* The JSON value at every place of the arguments. A number is an i64, a u64 or
\* an f64, so that its display is well-formed and its exponent small.
Arguments ==
    {v \in [Node -> [kind : STRING, text : HeaderText]] :
        \A n \in Node : v[n].kind = "number" => WellFormed(v[n].text) /\ Fits(v[n].text)}

\* Every node is below the root: a set with the root and its nodes' children
\* has them all.
IsTree ==
    \A S \in SUBSET Node :
        Root \in S /\ (\A n \in Node \ {Root} : Parent[n] \in S => n \in S) => S = Node

ASSUME ParamHeadersAssumption ==
    /\ Root \in Node
    /\ Parent \in [Node \ {Root} -> Node]
    /\ IsTree
    /\ Property \subseteq Node \ {Root}
    /\ HeaderOf \in [Token -> Param]
    /\ {None, NotToken} \cap Token = {}
    /\ None # NotToken
    /\ NoSchema \notin Schema
    /\ Edits \subseteq Arguments
    /\ Call \subseteq [modern : BOOLEAN, schema : Schema \cup {NoSchema}, args : Arguments,
                      backend : BackendConfig, downstream : HeaderMap]
    /\ \A c \in Call : \A i \in DOMAIN c.downstream : c.downstream[i][2].text \in HeaderText

VARIABLES
    pc,
    modern,     \* whether the protocol version has standard headers
    schema,     \* the tool's published schema, if any
    args,       \* the caller's arguments
    sent,       \* the arguments for the backend
    visiting,   \* nodes visit_schema has yet to visit
    rejecting,  \* nodes reject_unreachable_annotations has yet to visit
    annotated,  \* the annotations found, as their nodes
    pending     \* the annotations not yet compared

request == <<modern, schema, args>>
vars    == <<forwarding, request, pc, sent, visiting, rejecting, annotated, pending>>

Children(n) == {m \in Node \ {Root} : Parent[m] = n}

\* The proper ancestors of a node.
Above[n \in Node] == IF n = Root THEN {} ELSE {Parent[n]} \cup Above[Parent[n]]

Header(n) == HeaderOf[schema.header[n]]

-----------------------------------------------------------------------------
(* Values *)

Body(kind, text) == [kind |-> kind, text |-> text]
Absent           == Body("absent", Word("absent"))

\* value_at_property_path, without null.
ArgumentAt(n) ==
    IF args[n].kind # "null" /\ \A m \in Above[n] : args[m].kind = "object" THEN args[n] ELSE Absent

\* A header value as it is written: plain text, Base64 in its sentinel, broken
\* Base64, or bytes that are no UTF-8.
Raw(form, text) == [form |-> form, text |-> text]

\* decode_header_value succeeds; the text is then raw.text.
Decodes(raw) ==
    \/ raw.form = "base64"
    \/ raw.form = "plain" /\ raw.text \notin NeedsBase64

\* parameter_value of a number: as_i64, or else the parser on its display.
BodyInteger(text) ==
    LET plain == (IF text.sign = "-" THEN -1 ELSE 1) * Number(text.whole) IN
    IF ~text.point /\ text.exponent = 0
    THEN IF plain \in SafeInteger THEN plain ELSE NoInteger
    ELSE ParseInteger(text)

\* parameter_value accepts the argument's type, and the text matches its value.
HasType(body, type) ==
    \/ type = "boolean" /\ body.kind = "boolean"
    \/ type = "string" /\ body.kind = "string"
    \/ type = "integer" /\ body.kind = "number" /\ BodyInteger(body.text) # NoInteger

TextMatches(text, body, type) ==
    IF type = "integer" THEN ParseInteger(text) = BodyInteger(body.text) ELSE text = body.text

\* HeaderMap::get_all
GetAll(n) == {downstream[i][2] : i \in {j \in DOMAIN downstream : downstream[j][1] = n}}

\* Mutant: only the first of repeated headers is looked at.
Accepts_First(n) ==
    LET raw  == FirstOf(downstream, Header(n))
        body == ArgumentAt(n)
        type == schema.type[n]
    IN  IF body = Absent THEN raw = None
        ELSE /\ raw # None
             /\ HasType(body, type)
             /\ Decodes(raw) /\ TextMatches(raw.text, body, type)

\* One turn of validate_tool_params' loop, for the annotation on n.
Accepts(n) ==
    LET raws == GetAll(Header(n))
        body == ArgumentAt(n)
        type == schema.type[n]
    IN  IF body = Absent THEN raws = {}
        ELSE /\ raws # {}
             /\ HasType(body, type)
             /\ \A raw \in raws : Decodes(raw) /\ TextMatches(raw.text, body, type)

-----------------------------------------------------------------------------
(* The call *)

\* Local validation needs the version and a published schema. Requests come
\* over HTTP, so that their header map is always there.
Start(m, s) == IF m /\ s # NoSchema THEN "walk" ELSE "hook"

Init ==
    /\ \E c \in Call :
          /\ ForwardingInit(c.backend, c.downstream)
          /\ modern = c.modern
          /\ schema = c.schema
          /\ args = c.args
    /\ sent = args
    /\ pc = Start(modern, schema)
    /\ visiting = {Root}
    /\ rejecting = {}
    /\ annotated = {}
    /\ pending = {}

\* What visit_schema refuses of an annotation on n.
Refused(n) ==
    IF n = Root \/ schema.header[n] = NotToken THEN TRUE
    ELSE \/ Header(n) \in {Header(m) : m \in annotated}
         \/ schema.type[n] \notin {"boolean", "integer", "string"}

\* Mutant: below a property every object is visited.
Descend_Everywhere(n) ==
    /\ visiting' = (visiting \ {n}) \cup Children(n)
    /\ UNCHANGED rejecting

\* Properties are visited, whatever else the object has must not be annotated.
Descend(n) ==
    /\ visiting' = (visiting \ {n}) \cup (Children(n) \cap Property)
    /\ rejecting' = rejecting \cup (Children(n) \ Property)

\* visit_schema
Visit(n) ==
    /\ pc = "walk"
    /\ n \in visiting
    /\ Descend(n)
    /\ \/ /\ schema.header[n] = None
          /\ UNCHANGED <<pc, annotated>>
       \/ /\ schema.header[n] # None
          /\ ~Refused(n)
          /\ annotated' = annotated \cup {n}
          /\ UNCHANGED pc
       \/ /\ schema.header[n] # None
          /\ Refused(n)
          /\ pc' = "bad schema"
          /\ UNCHANGED annotated
    /\ UNCHANGED <<forwarding, request, sent, pending>>

\* reject_unreachable_annotations
RejectUnreachable(n) ==
    /\ pc = "walk"
    /\ n \in rejecting
    /\ rejecting' = (rejecting \ {n}) \cup Children(n)
    /\ pc' = IF schema.header[n] = None THEN pc ELSE "bad schema"
    /\ UNCHANGED <<forwarding, request, sent, visiting, annotated, pending>>

EndWalk ==
    /\ pc = "walk"
    /\ visiting = {}
    /\ rejecting = {}
    /\ pc' = "compare"
    /\ pending' = annotated
    /\ UNCHANGED <<forwarding, request, sent, visiting, rejecting, annotated>>

Compare(n) ==
    /\ pc = "compare"
    /\ n \in pending
    /\ pending' = pending \ {n}
    /\ pc' = IF Accepts(n) THEN pc ELSE "bad header"
    /\ UNCHANGED <<forwarding, request, sent, visiting, rejecting, annotated>>

EndCompare ==
    /\ pc = "compare"
    /\ pending = {}
    /\ pc' = "hook"
    /\ UNCHANGED <<forwarding, request, sent, visiting, rejecting, annotated, pending>>

\* before_tool_call denies, or gives the arguments the backend is to get.
PreHook ==
    /\ pc = "hook"
    /\ \/ pc' = "denied" /\ UNCHANGED sent
       \/ pc' = "connect" /\ sent' \in {args} \cup Edits
    /\ UNCHANGED <<forwarding, request, visiting, rejecting, annotated, pending>>

\* connect_backend_for_request, step by step.
Connect ==
    /\ pc = "connect"
    /\ ApplyHeaders
    /\ UNCHANGED <<request, pc, sent, visiting, rejecting, annotated, pending>>

\* The call ends; a call with the same parameters starts from nothing.
Again ==
    /\ pc \in {"bad schema", "bad header", "denied"} \/ phase = "sent"
    /\ pc' = Start(modern, schema)
    /\ phase' = "idle"
    /\ headers' = Empty
    /\ sent' = args
    /\ visiting' = {Root}
    /\ rejecting' = {}
    /\ annotated' = {}
    /\ pending' = {}
    /\ UNCHANGED <<request, backend, downstream, todo, toAdd>>

Next ==
    \/ \E n \in Node : Visit(n) \/ RejectUnreachable(n) \/ Compare(n)
    \/ EndWalk \/ EndCompare \/ PreHook \/ Connect \/ Again

Spec == Init /\ [][Next]_vars

-----------------------------------------------------------------------------
(* Properties *)

\* Every variable keeps the shape the validation and the forwarding give it.
TypeOK ==
    /\ ForwardingTypeOK
    /\ pc \in {"walk", "compare", "hook", "connect", "bad schema", "bad header", "denied"}
    /\ modern \in BOOLEAN
    /\ schema \in Schema \cup {NoSchema}
    /\ args \in Arguments
    /\ sent \in {args} \cup Edits
    /\ UNION {visiting, rejecting, annotated, pending} \subseteq Node
    /\ visiting \cap rejecting = {}

Annotated == {n \in Node : schema.header[n] # None}

\* Every annotation is a token on a primitive property that is reached through
\* "properties" only, and no two are the same header.
WellAnnotated ==
    \A n \in Annotated :
        /\ {n} \cup Above[n] \subseteq Property \cup {Root}
        /\ n # Root
        /\ schema.header[n] # NotToken
        /\ schema.type[n] \in {"boolean", "integer", "string"}
        /\ \A m \in Annotated \ {n} : schema.header[m] # NotToken => Header(m) # Header(n)

\* A schema is refused exactly if some annotation in it, however deep and under
\* whatever keyword, is not a well-formed one; otherwise all are compared
\* (visit_schema, reject_unreachable_annotations).
SchemaFailsClosed ==
    /\ pc = "bad schema" => ~WellAnnotated
    /\ pc = "compare" => WellAnnotated /\ annotated = Annotated

\* The reference for one header value: it decodes, and it is the argument, as a
\* number if the property is an integer.
Agrees(raw, body, type) ==
    /\ Decodes(raw)
    /\ body.kind = IF type = "integer" THEN "number" ELSE type
    /\ IF type = "integer"
       THEN Denoted(raw.text) # NoInteger /\ Denoted(raw.text) = Denoted(body.text)
       ELSE raw.text = body.text

Validated == modern /\ schema # NoSchema

\* The parameter headers on the backend's connection say what the caller's
\* arguments say, for every annotation of the schema, however often a header is
\* repeated and whatever the backend's header configuration does
\* (validate_tool_params, apply_header_config). The arguments are those the
\* caller gave: the pre hook may have edited what is sent, and the code does not
\* compare again. Mcp-Param headers without an annotation are not spoken of.
ForwardedParamsAgree ==
    Validated /\ phase = "sent" =>
        \A n \in Annotated :
            LET raw == headers[Header(n)] IN
            IF ArgumentAt(n) = Absent THEN raw = None
            ELSE raw # None /\ Agrees(raw, ArgumentAt(n), schema.type[n])

\* A call is refused for its headers only if a header is missing, unexpected or
\* disagrees with its argument: spelling an integer or encoding a text another
\* way is no reason, whatever the number of leading zeros, decimals and the
\* exponent, as long as that is an i64 (parameter_values_match,
\* parse_integer_header_value, decode_header_value).
OnlyDisagreementRefused ==
    pc = "bad header" =>
        \E n \in Annotated :
            LET raws == GetAll(Header(n))
                body == ArgumentAt(n)
            IN  \/ (body = Absent) # (raws = {})
                \/ \E raw \in raws : ~Agrees(raw, body, schema.type[n]) \/ ~Fits(raw.text)

=============================================================================
