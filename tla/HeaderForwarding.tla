-------------------------- MODULE HeaderForwarding --------------------------
(***************************************************************************)
(* The headers of a backend connection: connect_backend_for_request builds *)
(* a HashMap of one value per name in phases. Names are compared without   *)
(* case, so a name is its lower-case form here; the strings of the backend *)
(* configuration are spellings, which NameOf parses. The steps are part of *)
(* a call: ParamHeaders composes them with what comes before.              *)
(*                                                                         *)
(* Code: contextforge-data-plane-lib/src/gateway/mcp_service/              *)
(* initialization.rs, mcp_standard_headers.rs.                             *)
(***************************************************************************)
EXTENDS Naturals, Sequences

CONSTANTS
    Spelling,   \* the header names a backend configuration writes
    Value,      \* header values
    NameOf,     \* NameOf[s]: the name s parses to, or Bad
    Param,      \* Mcp-Param-* names
    Reserved,   \* framing, hop-by-hop, transport and other computed MCP names
    Free,       \* any other name
    Trace,      \* the names the trace propagator writes
    Span,       \* what the propagator writes for the gateway's own span
    Host, Bad, None

Name == {Host} \cup Param \cup Reserved \cup Free

\* The header map of a request, in its iteration order.
HeaderMap == Seq(Name \X Value)

\* What apply_header_config reads of a backend's configuration; the entries of
\* add_headers that parse to no value are Bad, those that are not there None.
BackendConfig ==
    [authority   : Value \cup {Bad, None},
     passthrough : Seq(Spelling),
     added       : [Spelling -> Value \cup {Bad, None}],
     remove      : Seq(Spelling)]

ASSUME ForwardingAssumption ==
    /\ NameOf \in [Spelling -> Name \cup {Bad}]
    /\ Trace \subseteq Free
    /\ Free \cap ({Host} \cup Param \cup Reserved) = {}
    /\ Param \cap Reserved = {}
    /\ Host \notin Param \cup Reserved
    /\ Bad \notin Name \cup Value
    /\ None \notin Value
    /\ Span \notin Value \cup {None}

VARIABLES
    phase,      \* the phase under way
    backend,    \* the backend's configuration
    downstream, \* the headers of the request
    todo,       \* the rest of the list the phase goes through
    toAdd,      \* the entries of add_headers not yet inserted
    headers     \* the map under construction

forwarding == <<phase, backend, downstream, todo, toAdd, headers>>

Empty == [n \in Name |-> None]

\* Mutant: only the names the gateway itself writes are protected.
Protected_HostAndParams == {Host} \cup Param

\* is_protected_header
Protected == {Host} \cup Reserved \cup Param

\* A name of the configuration that parses and is not protected.
Configurable(s) == NameOf[s] # Bad /\ NameOf[s] \notin Protected

Insert(n, v) == headers' = [headers EXCEPT ![n] = v]

\* HeaderMap::get: the first of a name's values.
FirstOf(d, n) ==
    LET at == {i \in DOMAIN d : d[i][1] = n} IN
    IF at = {} THEN None ELSE d[CHOOSE i \in at : \A j \in at : i <= j][2]

\* What extend leaves of a name's values: the last one.
LastOf(d, n) ==
    LET at == {i \in DOMAIN d : d[i][1] = n} IN
    IF at = {} THEN None ELSE d[CHOOSE i \in at : \A j \in at : j <= i][2]

\* Nothing is sent yet for this request to this backend.
ForwardingInit(b, d) ==
    /\ phase = "idle"
    /\ backend = b
    /\ downstream = d
    /\ todo = <<>>
    /\ toAdd = {}
    /\ headers = Empty

-----------------------------------------------------------------------------

\* Only an https backend has an authority here; one that is no header value is
\* skipped. A request without HTTP parts is one without headers.
Begin ==
    /\ phase = "idle"
    /\ headers' = [Empty EXCEPT ![Host] = IF backend.authority = Bad THEN None ELSE backend.authority]
    /\ todo' = backend.passthrough
    /\ phase' = "passthrough"
    /\ UNCHANGED <<backend, downstream, toAdd>>

Passthrough ==
    /\ phase = "passthrough"
    /\ todo # <<>>
    /\ LET n == NameOf[Head(todo)]
           v == IF Configurable(Head(todo)) THEN FirstOf(downstream, n) ELSE None
       IN IF v # None THEN Insert(n, v) ELSE UNCHANGED headers
    /\ todo' = Tail(todo)
    /\ UNCHANGED <<phase, backend, downstream, toAdd>>

\* All downstream Mcp-Param-* values, in order, into a map of one per name.
ForwardParams ==
    /\ phase = "passthrough"
    /\ todo = <<>>
    /\ headers' = [n \in Name |-> IF n \in Param THEN LastOf(downstream, n) ELSE headers[n]]
    /\ toAdd' = {s \in Spelling : backend.added[s] # None}
    /\ phase' = "add"
    /\ UNCHANGED <<backend, downstream, todo>>

\* Mutant: an entry does not replace a header that is there already.
AddHeader_IfAbsent(s) ==
    /\ phase = "add"
    /\ s \in toAdd
    /\ IF Configurable(s) /\ backend.added[s] # Bad /\ headers[NameOf[s]] = None
       THEN Insert(NameOf[s], backend.added[s]) ELSE UNCHANGED headers
    /\ toAdd' = toAdd \ {s}
    /\ UNCHANGED <<phase, backend, downstream, todo>>

\* add_headers is a HashMap: its entries come in any order, two spellings of
\* one name too.
AddHeader(s) ==
    /\ phase = "add"
    /\ s \in toAdd
    /\ IF Configurable(s) /\ backend.added[s] # Bad THEN Insert(NameOf[s], backend.added[s])
                                                    ELSE UNCHANGED headers
    /\ toAdd' = toAdd \ {s}
    /\ UNCHANGED <<phase, backend, downstream, todo>>

EndAdd ==
    /\ phase = "add"
    /\ toAdd = {}
    /\ phase' = "remove"
    /\ todo' = backend.remove
    /\ UNCHANGED <<backend, downstream, toAdd, headers>>

RemoveHeader ==
    /\ phase = "remove"
    /\ todo # <<>>
    /\ IF Configurable(Head(todo)) THEN Insert(NameOf[Head(todo)], None) ELSE UNCHANGED headers
    /\ todo' = Tail(todo)
    /\ UNCHANGED <<phase, backend, downstream, toAdd>>

\* Mutant: the trace context is written where the configuration left room.
InjectContext_IfAbsent ==
    /\ phase = "remove"
    /\ todo = <<>>
    /\ \E here \in BOOLEAN :
          headers' = [n \in Name |-> IF here /\ n \in Trace /\ headers[n] = None THEN Span
                                                                            ELSE headers[n]]
    /\ phase' = "sent"
    /\ UNCHANGED <<backend, downstream, todo, toAdd>>

\* inject_current_context: the propagator writes its names, or none of them
\* when there is no active span. The transport then takes the map.
InjectContext ==
    /\ phase = "remove"
    /\ todo = <<>>
    /\ \E here \in BOOLEAN :
          headers' = [n \in Name |-> IF here /\ n \in Trace THEN Span ELSE headers[n]]
    /\ phase' = "sent"
    /\ UNCHANGED <<backend, downstream, todo, toAdd>>

\* apply_header_config and inject_current_context, step by step.
ApplyHeaders ==
    \/ Begin \/ Passthrough \/ ForwardParams
    \/ \E s \in Spelling : AddHeader(s)
    \/ EndAdd \/ RemoveHeader \/ InjectContext

-----------------------------------------------------------------------------
(* Properties *)

\* Every variable keeps the shape the header map and its phases give it.
ForwardingTypeOK ==
    /\ phase \in {"idle", "passthrough", "add", "remove", "sent"}
    /\ backend \in BackendConfig
    /\ downstream \in HeaderMap
    /\ todo \in Seq(Spelling)
    /\ toAdd \subseteq Spelling
    /\ headers \in [Name -> Value \cup {Span, None}]

\* Whatever the configuration names, in whatever spelling and phase, a
\* protected header of the connection has the gateway's own value (Host), the
\* request's (Mcp-Param-*) or none (apply_header_config, is_protected_header).
ProtectedOwnedByGateway ==
    phase = "sent" =>
        /\ headers[Host] = IF backend.authority = Bad THEN None ELSE backend.authority
        /\ \A n \in Param : headers[n] = LastOf(downstream, n)
        /\ \A n \in Reserved : headers[n] = None

Listed(list, n) == \E i \in DOMAIN list : NameOf[list[i]] = n

\* The values the configuration allows for n: more than one only if two
\* spellings of n are added.
Configured(n) ==
    LET added == {backend.added[s] : s \in {t \in Spelling : NameOf[t] = n}} \ {None, Bad} IN
    IF Listed(backend.remove, n) THEN {None}
    ELSE IF added # {} THEN added
    ELSE IF Listed(backend.passthrough, n) THEN {FirstOf(downstream, n)}
    ELSE {None}

\* The headers sent are a function of the configuration and the request,
\* removal before addition before passthrough, in every order of the add_headers
\* map, except that with two spellings of a name either value may be sent. The
\* trace context alone overrides the configuration, and then as a whole: the
\* backend never gets a part of the gateway's context and a part of another
\* (apply_header_config, inject_current_context).
ConfigurationDecides ==
    phase = "sent" =>
        \E traced \in {{}, Trace} :
            \A n \in Free : IF n \in traced THEN headers[n] = Span ELSE headers[n] \in Configured(n)

=============================================================================
