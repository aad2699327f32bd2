--------------------------- MODULE RequestRouting ---------------------------
(***************************************************************************)
(* MCP requests on their way through the HTTP layers and the handlers,     *)
(* while the control plane publishes new configurations for their users.   *)
(*                                                                         *)
(* The user's configuration is read once, by user_config_store_layer, and  *)
(* travels with the request. What the store returns is abstracted to any   *)
(* configuration that was published for the user, which is what            *)
(* UserConfigStore delivers; JwksCache and ToolCall detail the             *)
(* authorization and what a tool call does with its backend.               *)
(*                                                                         *)
(* Code: contextforge-data-plane-lib/src/{lib.rs, layers/, gateway/        *)
(* mcp_call_validator.rs, gateway/mcp_service/}.                           *)
(***************************************************************************)
EXTENDS Naturals

CONSTANTS
    Request,   \* requests
    User,      \* user ids the principals carry
    VHost,     \* virtual host ids
    Backend,   \* backend names
    Name,      \* downstream and upstream names and URIs
    Config,    \* user configurations the control plane may publish
    Input,     \* what a request may carry
    None       \* "not set"

Hooked   == {"call_tool", "get_prompt", "read_resource"}
Complete == {"complete_prompt", "complete_resource"}
Local    == {"catalog", "initialize", "initialize_modern"}

Route == [backend : Backend, upstream : Name]

IsTable(t) == DOMAIN t \subseteq Name /\ \A n \in DOMAIN t : t[n] \in Route

\* A UserConfig maps virtual host ids to backends and four routing tables. A
\* route may name a backend the virtual host does not have.
IsConfig(c) ==
    /\ DOMAIN c \subseteq VHost
    /\ \A v \in DOMAIN c :
          /\ c[v].backends \subseteq Backend
          /\ IsTable(c[v].tools) /\ IsTable(c[v].prompts)
          /\ IsTable(c[v].resources) /\ IsTable(c[v].templates)

ASSUME RoutingAssumption ==
    /\ None \notin Config \cup Route \cup Name \cup VHost \cup Input
    /\ \A c \in Config : IsConfig(c)
    /\ Input \subseteq [limits : BOOLEAN, path : VHost \cup {None}, auth : {"accepted", "unmapped", "rejected"},
                        user : User, method : Hooked \cup Complete \cup Local, name : Name]

VARIABLES
    published,  \* published[u]: the configurations published for u so far
    pc,         \* pc[r]: the layer or handler step r is at
    input,      \* input[r]: what r carries
    config,     \* config[r]: the UserConfig in r's extensions
    target,     \* target[r]: the route chosen for r
    uri,        \* uri[r]: the URI a resource pre hook returned
    conn,       \* conn[r]: r's backend connection
    reply,      \* reply[r]: what the backend answered
    answer      \* answer[r]: the HTTP status or the JSON-RPC outcome

vars == <<published, pc, input, config, target, uri, conn, reply, answer>>

Init ==
    /\ published = [u \in User |-> {}]
    /\ pc = [r \in Request |-> "idle"]
    /\ input = [r \in Request |-> None]
    /\ config = [r \in Request |-> None]
    /\ target = [r \in Request |-> None]
    /\ uri = [r \in Request |-> None]
    /\ conn = [r \in Request |-> "none"]
    /\ reply = [r \in Request |-> "none"]
    /\ answer = [r \in Request |-> "none"]

-----------------------------------------------------------------------------

\* The control plane writes a user's configuration to Redis.
Publish(u, c) ==
    /\ published' = [published EXCEPT ![u] = @ \cup {c}]
    /\ UNCHANGED <<pc, input, config, target, uri, conn, reply, answer>>

Goto(r, l) == pc' = [pc EXCEPT ![r] = l] /\ answer' = answer

Return(r, a) == pc' = [pc EXCEPT ![r] = "done"] /\ answer' = [answer EXCEPT ![r] = a]

\* mcp_header_limits_layer: count, value and total bytes within the budget.
HeaderLimits(in) == in.limits

\* virtual_host_id_layer: the path has the form /servers/{id}/mcp.
VirtualHostId(in) == in.path # None

\* The outer layers of into_router, which nothing awaits between.
Arrive(r, in) ==
    /\ pc[r] = "idle"
    /\ input' = [input EXCEPT ![r] = in]
    /\ IF ~HeaderLimits(in) THEN Return(r, "431")
       ELSE IF ~VirtualHostId(in) THEN Return(r, "400")
       ELSE Goto(r, "claims")
    /\ UNCHANGED <<published, config, target, uri, conn, reply>>

\* claims_layer: no Authorization header, or a token authorize() rejects.
Claims(r) ==
    /\ pc[r] = "claims"
    /\ IF input[r].auth # "rejected" THEN Goto(r, "principal") ELSE Return(r, "401")
    /\ UNCHANGED <<published, input, config, target, uri, conn, reply>>

\* PrincipalExtractorLayer: claims that carry no user or tenant are refused.
Principal(r) ==
    /\ pc[r] = "principal"
    /\ IF input[r].auth = "accepted" THEN Goto(r, "config") ELSE Return(r, "401")
    /\ UNCHANGED <<published, input, config, target, uri, conn, reply>>

\* user_config_store_layer: get_config finds no data (or Redis fails), or
\* cannot decode what it finds.
NoUserConfig(r, status) ==
    /\ pc[r] = "config"
    /\ Return(r, status)
    /\ UNCHANGED <<published, input, config, target, uri, conn, reply>>

\* virtual_host_config_layer
HasVirtualHost(c, in) == in.path \in DOMAIN c

\* user_config_store_layer with a configuration, then virtual_host_config_layer.
UserConfig(r) ==
    /\ pc[r] = "config"
    /\ \E c \in published[input[r].user] :
          /\ config' = [config EXCEPT ![r] = c]
          /\ IF HasVirtualHost(c, input[r]) THEN Goto(r, "dispatch") ELSE Return(r, "404")
    /\ UNCHANGED <<published, input, target, uri, conn, reply>>

\* RMCP refuses the Host, the Origin, the envelope or a header.
RmcpRefuses(r) ==
    /\ pc[r] = "dispatch"
    /\ Return(r, "4xx")
    /\ UNCHANGED <<published, input, config, target, uri, conn, reply>>

\* initialize() answers legacy clients; everything else is an INVALID_REQUEST.
LocalOutcome(method) == IF method = "initialize" THEN "ok" ELSE "invalid_request"

\* Catalog lists, subscriptions and initialize never leave the data plane.
AnswerLocally(r) ==
    /\ pc[r] = "dispatch"
    /\ input[r].method \in Local
    /\ Return(r, LocalOutcome(input[r].method))
    /\ UNCHANGED <<published, input, config, target, uri, conn, reply>>

-----------------------------------------------------------------------------
(* The handlers call_tool, get_prompt, read_resource and complete. *)

\* validate_stateless: the virtual host of the configuration r carries.
VirtualHost(r) == config[r][input[r].path]

\* A completion of a resource prefers the templates.
Table(vh, in) ==
    IF in.method = "call_tool" THEN vh.tools
    ELSE IF in.method \in {"get_prompt", "complete_prompt"} THEN vh.prompts
    ELSE IF in.method = "complete_resource" /\ in.name \in DOMAIN vh.templates THEN vh.templates
    ELSE vh.resources

\* The lookups before the first await. read_resource looks its backend up only
\* after the pre hook; call_tool also checks the Mcp-Param headers, whose
\* verdict is headersOk; complete runs no hooks.
RouteIn(vh, r, headersOk) ==
    LET in == input[r]
        table == Table(vh, in) IN
    /\ pc[r] = "dispatch"
    /\ in.method \in Hooked \cup Complete
    /\ \/ /\ in.name \notin DOMAIN table
          /\ Return(r, "invalid_params")
          /\ UNCHANGED target
       \/ /\ in.name \in DOMAIN table
          /\ target' = [target EXCEPT ![r] = table[in.name]]
          /\ IF in.method # "read_resource" /\ table[in.name].backend \notin vh.backends
                THEN Return(r, "invalid_params")
             ELSE IF in.method = "call_tool" /\ ~headersOk THEN Return(r, "header_mismatch")
             ELSE Goto(r, IF in.method \in Hooked THEN "before" ELSE "connect")
    /\ UNCHANGED <<published, input, config, uri, conn, reply>>

FindRoute(r, headersOk) == RouteIn(VirtualHost(r), r, headersOk)

\* The pre hook denies, or its edit cannot be applied.
BeforeDenies(r) ==
    /\ pc[r] = "before"
    /\ Return(r, "denied")
    /\ UNCHANGED <<published, input, config, target, uri, conn, reply>>

\* before_tool_call and before_get_prompt let the request pass; so does a data
\* plane without plugins. Edited arguments are not modelled.
BeforeAllows(r) ==
    /\ pc[r] = "before"
    /\ input[r].method # "read_resource"
    /\ Goto(r, "connect")
    /\ UNCHANGED <<published, input, config, target, uri, conn, reply>>

\* The routes a rewritten URI may stand for, in the caller's virtual host.
Candidates(vh, u) == {n \in DOMAIN vh.resources : vh.resources[n].upstream = u}

\* Mutant: the first candidate wins.
Ambiguous_FirstWins(vh, u) == FALSE

Ambiguous(vh, u) ==
    \E m, n \in Candidates(vh, u) : vh.resources[m].backend # vh.resources[n].backend

ReadFrom(vh, r, route) ==
    /\ target' = [target EXCEPT ![r] = route]
    /\ IF route.backend \in vh.backends THEN Goto(r, "connect") ELSE Return(r, "invalid_params")

\* before_read_resource returns no URI, the same URI or another one, which must
\* resolve to one backend. The first candidate depends on the HashMap's order.
RewriteIn(vh, r, u) ==
    LET found == Candidates(vh, u) IN
    /\ pc[r] = "before"
    /\ input[r].method = "read_resource"
    /\ uri' = [uri EXCEPT ![r] = u]
    /\ \/ /\ u \in {None, target[r].upstream}
          /\ ReadFrom(vh, r, target[r])
       \/ /\ u \notin {None, target[r].upstream}
          /\ found = {} \/ Ambiguous(vh, u)
          /\ Return(r, "invalid_params")
          /\ UNCHANGED target
       \/ /\ u \notin {None, target[r].upstream}
          /\ ~Ambiguous(vh, u)
          /\ \E n \in found : ReadFrom(vh, r, vh.resources[n])
    /\ UNCHANGED <<published, input, config, conn, reply>>

\* Mutant: the rewritten URI is resolved in the user's configuration of the moment.
BeforeRewrites_ReadsAgain(r, u) ==
    /\ pc[r] = "before"
    /\ \E c \in published[input[r].user] :
          input[r].path \in DOMAIN c /\ RewriteIn(c[input[r].path], r, u)

BeforeRewrites(r, u) == RewriteIn(VirtualHost(r), r, u)

\* connect_backend_for_request
Connect(r) ==
    /\ pc[r] = "connect"
    /\ \/ Goto(r, "await") /\ conn' = [conn EXCEPT ![r] = "open"]
       \/ Return(r, "internal") /\ UNCHANGED conn
    /\ UNCHANGED <<published, input, config, target, uri, reply>>

\* start_tool_call cannot enqueue the request: ? returns, and the connection is
\* dropped instead of closed.
StartFails(r) ==
    /\ pc[r] = "await"
    /\ input[r].method = "call_tool"
    /\ Return(r, "internal")
    /\ conn' = [conn EXCEPT ![r] = "dropped"]
    /\ UNCHANGED <<published, input, config, target, uri, reply>>

\* Mutant: an error returns through ? before the connection is closed.
BackendReplies_EarlyReturn(r, what) ==
    /\ pc[r] = "await"
    /\ reply' = [reply EXCEPT ![r] = what]
    /\ \/ what = "result" /\ Goto(r, "close") /\ UNCHANGED conn
       \/ /\ what # "result"
          /\ Return(r, IF what = "mcp_error" THEN "backend_error" ELSE "internal")
          /\ conn' = [conn EXCEPT ![r] = "dropped"]
    /\ UNCHANGED <<published, input, config, target, uri>>

\* The backend's result, its MCP error, or a failure of the transport, which
\* is also how a cancellation of the request ends the wait.
BackendReplies(r, what) ==
    /\ pc[r] = "await"
    /\ reply' = [reply EXCEPT ![r] = what]
    /\ Goto(r, "close")
    /\ UNCHANGED <<published, input, config, target, uri, conn>>

\* Mutant: the backend's outcome is passed on as it is.
ForwardError_Unmapped(what) == what

\* backend_forward_error: MCP errors pass, the others become internal errors.
ForwardError(what) == IF what = "mcp_error" THEN "backend_error" ELSE "internal"

\* close(), whose failure is only logged; then an error is returned.
Close(r) ==
    /\ pc[r] = "close"
    /\ conn' = [conn EXCEPT ![r] = "closed"]
    /\ IF reply[r] # "result" THEN Return(r, ForwardError(reply[r]))
       ELSE IF input[r].method \in Complete THEN Return(r, "ok")
       ELSE Goto(r, "after")
    /\ UNCHANGED <<published, input, config, target, uri, reply>>

\* The post hook, if the request has hook state, accepts or rejects the result.
After(r) ==
    /\ pc[r] = "after"
    /\ Return(r, "ok") \/ Return(r, "rejected")
    /\ UNCHANGED <<published, input, config, target, uri, conn, reply>>

Next ==
    \/ \E u \in User, c \in Config : Publish(u, c)
    \/ \E r \in Request :
          \/ \E in \in Input : Arrive(r, in)
          \/ Claims(r)
          \/ Principal(r)
          \/ \E status \in {"400", "500"} : NoUserConfig(r, status)
          \/ UserConfig(r)
          \/ RmcpRefuses(r)
          \/ AnswerLocally(r)
          \/ \E headersOk \in BOOLEAN : FindRoute(r, headersOk)
          \/ BeforeDenies(r)
          \/ BeforeAllows(r)
          \/ \E u \in Name \cup {None} : BeforeRewrites(r, u)
          \/ Connect(r)
          \/ StartFails(r)
          \/ \E what \in {"result", "mcp_error", "failed"} : BackendReplies(r, what)
          \/ Close(r)
          \/ After(r)

Spec == Init /\ [][Next]_vars

-----------------------------------------------------------------------------
(* Properties *)

Status == {"431", "400", "401", "404", "500", "4xx"}

Outcome == {"ok", "invalid_request", "invalid_params", "header_mismatch", "denied", "internal",
            "backend_error", "rejected"}

\* Requests and what they carry keep their types.
TypeOK ==
    /\ published \in [User -> SUBSET Config]
    /\ pc \in [Request -> {"idle", "claims", "principal", "config", "dispatch", "before", "connect",
                           "await", "close", "after", "done"}]
    /\ input \in [Request -> Input \cup {None}]
    /\ config \in [Request -> Config \cup {None}]
    /\ target \in [Request -> Route \cup {None}]
    /\ uri \in [Request -> Name \cup {None}]
    /\ conn \in [Request -> {"none", "open", "closed", "dropped"}]
    /\ reply \in [Request -> {"none", "result", "mcp_error", "failed"}]
    /\ answer \in [Request -> Status \cup Outcome \cup {"none"}]

\* c has a route for what r asks for, or for the URI a hook made of it, that
\* leads to the backend and the upstream name r was routed to.
Justifies(c, r) ==
    /\ input[r].path \in DOMAIN c
    /\ LET vh == c[input[r].path]
           table == Table(vh, input[r]) IN
       /\ target[r].backend \in vh.backends
       /\ input[r].name \in DOMAIN table
       /\ \/ target[r] = table[input[r].name]
          \/ /\ target[r].upstream = uri[r]
             /\ \E n \in DOMAIN vh.resources : target[r] = vh.resources[n]

\* A backend is contacted only for an accepted caller, and one configuration
\* published for that caller's user has the virtual host, the route and the
\* backend, whatever was published while the request ran: no mixture of two
\* configurations routes a request (the UserConfig in the extensions,
\* validate_stateless).
RoutedByOneConfig ==
    \A r \in Request : conn[r] # "none" =>
        /\ input[r].auth = "accepted"
        /\ \E c \in published[input[r].user] : Justifies(c, r)

\* Under the same configuration, the same request rewritten the same way goes
\* to the same backend: the iteration order of the resource map, which differs
\* between maps, never decides (the ambiguity check of read_resource).
SameRequestSameTarget ==
    \A q, r \in Request :
        /\ conn[q] # "none" /\ conn[r] # "none"
        /\ input[q] = input[r] /\ config[q] = config[r] /\ uri[q] = uri[r]
        => target[q] = target[r]

\* A request its backend has replied to is answered once its connection is
\* closed, with the error replies too; and one that was refused on its way, by a
\* layer, the routing or a pre hook, has not opened any connection (the order of
\* the steps of the handlers and their early returns).
ConnectionsSettled ==
    \A r \in Request : answer[r] # "none" =>
        /\ conn[r] # "open"
        /\ reply[r] # "none" => conn[r] = "closed"
        /\ answer[r] \in Status \cup {"invalid_request", "invalid_params", "header_mismatch", "denied"}
               => conn[r] = "none"

=============================================================================
