------------------------ MODULE RequestRoutingProofs ------------------------
(***************************************************************************)
(* Proofs about RequestRouting, for any number of requests, users and      *)
(* configurations.                                                         *)
(*                                                                         *)
(* The inductive invariant says, request by request, what the step it is   *)
(* at guarantees: from "dispatch" on it carries a configuration published  *)
(* for its user that has its virtual host; from "before" on its target is  *)
(* the route of what it asked for; from "connect" on the target is that    *)
(* route or the only one a rewritten URI can stand for.                    *)
(***************************************************************************)
EXTENDS RequestRouting, TLAPS

Configured == {"dispatch", "before", "connect", "await", "close", "after"}
Connected  == {"await", "close", "after"}
Refused    == Status \cup {"invalid_request", "invalid_params", "header_mismatch", "denied"}

\* What the layers guarantee of a request that has passed them.
Passed(r) ==
    /\ input[r] # None
    /\ input[r].auth = "accepted"

Carries(r) ==
    /\ config[r] # None
    /\ config[r] \in published[input[r].user]
    /\ input[r].path \in DOMAIN config[r]

\* The route r asked for, and the only routes it may be given.
Asked(r) == Table(VirtualHost(r), input[r])

Routed(r) ==
    /\ input[r].name \in DOMAIN Asked(r)
    /\ target[r] \in Route
    /\ target[r].backend \in VirtualHost(r).backends
    /\ \/ /\ uri[r] \in {None, Asked(r)[input[r].name].upstream}
          /\ target[r] = Asked(r)[input[r].name]
       \/ /\ uri[r] \notin {None, Asked(r)[input[r].name].upstream}
          /\ ~Ambiguous(VirtualHost(r), uri[r])
          /\ target[r].upstream = uri[r]
          /\ \E n \in DOMAIN VirtualHost(r).resources : target[r] = VirtualHost(r).resources[n]

StepInv(r) ==
    /\ pc[r] \in {"claims", "principal"} => input[r] # None
    /\ pc[r] \in Configured \cup {"config"} => Passed(r)
    /\ pc[r] \in Configured => Carries(r)
    /\ pc[r] \in {"idle", "claims", "principal", "config", "dispatch", "before"} => uri[r] = None
    /\ pc[r] = "before" =>
          /\ input[r].name \in DOMAIN Asked(r)
          /\ target[r] = Asked(r)[input[r].name]
          /\ input[r].method # "read_resource" => target[r].backend \in VirtualHost(r).backends
    /\ pc[r] \in {"connect"} \cup Connected => Routed(r)

ConnInv(r) ==
    /\ pc[r] \notin Connected \cup {"done"} => conn[r] = "none"
    /\ pc[r] \in {"await", "close"} => conn[r] = "open"
    /\ pc[r] = "after" => conn[r] = "closed"
    /\ pc[r] = "close" => reply[r] # "none"
    /\ pc[r] \notin {"close", "after", "done"} => reply[r] = "none"
    /\ pc[r] = "done" /\ reply[r] # "none" => conn[r] = "closed"
    /\ pc[r] # "done" <=> answer[r] = "none"
    /\ conn[r] = "open" => pc[r] # "done"
    /\ answer[r] \in Refused => conn[r] = "none"
    /\ conn[r] # "none" => Passed(r) /\ Carries(r) /\ Routed(r)

RoutingInv == TypeOK /\ \A r \in Request : StepInv(r) /\ ConnInv(r)

\* A table of a published virtual host has routes only.
LEMMA TableRoutes ==
    ASSUME NEW c \in Config, NEW v \in DOMAIN c, NEW in
    PROVE  IsTable(Table(c[v], in)) /\ IsTable(c[v].resources)
BY RoutingAssumption DEF IsConfig, Table

\* The initial state satisfies the invariant.
LEMMA RoutingInit == Init => RoutingInv
BY RoutingAssumption
   DEF Init, RoutingInv, TypeOK, StepInv, ConnInv, Configured, Connected, Refused, Status, Outcome

\* What is true of a request stays true while other requests move and
\* configurations are added.
LEMMA OthersUndisturbed ==
    ASSUME NEW r, StepInv(r), ConnInv(r),
           pc'[r] = pc[r], input'[r] = input[r], config'[r] = config[r], target'[r] = target[r],
           uri'[r] = uri[r], conn'[r] = conn[r], reply'[r] = reply[r], answer'[r] = answer[r],
           published[input[r].user] \subseteq published'[input[r].user]
    PROVE  StepInv(r)' /\ ConnInv(r)'
<1>1. VirtualHost(r)' = VirtualHost(r) /\ Asked(r)' = Asked(r)
  BY DEF VirtualHost, Asked
<1>2. (Passed(r) => Passed(r)') /\ (Carries(r) => Carries(r)')
  BY DEF Passed, Carries
<1>3. Routed(r) => Routed(r)'
  BY <1>1 DEF Routed
<1>4. StepInv(r)'
  BY <1>1, <1>2, <1>3 DEF StepInv
<1>5. ConnInv(r)'
  BY <1>2, <1>3 DEF ConnInv
<1>. QED  BY <1>4, <1>5

\* Every step keeps the types.
LEMMA RoutingTypeNext == RoutingInv /\ [Next]_vars => TypeOK'
<1> SUFFICES ASSUME RoutingInv, [Next]_vars PROVE TypeOK'
  OBVIOUS
<1> USE DEF RoutingInv, TypeOK, Goto, Return, Status, Outcome
<1>1. ASSUME NEW u \in User, NEW c \in Config, Publish(u, c) PROVE TypeOK'
  BY <1>1 DEF Publish
<1>2. ASSUME NEW r \in Request, NEW in \in Input, Arrive(r, in) PROVE TypeOK'
  BY <1>2 DEF Arrive
<1>3. ASSUME NEW r \in Request, Claims(r) \/ Principal(r) \/ RmcpRefuses(r) \/ AnswerLocally(r) \/ BeforeDenies(r)
                                \/ BeforeAllows(r) \/ After(r)
      PROVE  TypeOK'
  BY <1>3 DEF Claims, Principal, RmcpRefuses, AnswerLocally, LocalOutcome, BeforeDenies, BeforeAllows, After
<1>4. ASSUME NEW r \in Request, NEW status \in {"400", "500"}, NoUserConfig(r, status) PROVE TypeOK'
  BY <1>4 DEF NoUserConfig
<1>5. ASSUME NEW r \in Request, UserConfig(r) PROVE TypeOK'
  <2>1. input[r].user \in User
    BY <1>5, RoutingAssumption DEF UserConfig, StepInv, Passed
  <2>. QED  BY <1>5, <2>1 DEF UserConfig
<1>6. ASSUME NEW r \in Request, NEW headersOk \in BOOLEAN, FindRoute(r, headersOk) PROVE TypeOK'
  <2>1. config[r] \in Config /\ input[r].path \in DOMAIN config[r]
    BY <1>6 DEF FindRoute, RouteIn, StepInv, Carries, Configured
  <2>2. IsTable(Table(VirtualHost(r), input[r]))
    BY <2>1, TableRoutes DEF VirtualHost
  <2>. QED  BY <1>6, <2>2 DEF FindRoute, RouteIn, IsTable
<1>7. ASSUME NEW r \in Request, NEW u \in Name \cup {None}, BeforeRewrites(r, u) PROVE TypeOK'
  <2>1. config[r] \in Config /\ input[r].path \in DOMAIN config[r]
    BY <1>7 DEF BeforeRewrites, RewriteIn, StepInv, Carries, Configured
  <2>2. IsTable(VirtualHost(r).resources)
    BY <2>1, TableRoutes DEF VirtualHost
  <2>. QED  BY <1>7, <2>2 DEF BeforeRewrites, RewriteIn, ReadFrom, Candidates, IsTable
<1>8. ASSUME NEW r \in Request, Connect(r) \/ StartFails(r) \/ Close(r) PROVE TypeOK'
  BY <1>8 DEF Connect, StartFails, Close, ForwardError
<1>9. ASSUME NEW r \in Request, NEW what \in {"result", "mcp_error", "failed"}, BackendReplies(r, what)
      PROVE  TypeOK'
  BY <1>9 DEF BackendReplies
<1>10. CASE UNCHANGED vars
  BY <1>10 DEF vars
<1>. QED  BY <1>1, <1>2, <1>3, <1>4, <1>5, <1>6, <1>7, <1>8, <1>9, <1>10 DEF Next

\* The step of a request.
Move(r) ==
    \/ \E in \in Input : Arrive(r, in)
    \/ Claims(r)
    \/ Principal(r)
    \/ \E status \in {"400", "500"} : NoUserConfig(r, status)
    \/ UserConfig(r)
    \/ RmcpRefuses(r)
    \/ AnswerLocally(r)
    \/ \E headersOk \in BOOLEAN : FindRoute(r, headersOk)
    \/ BeforeDenies(r)
    \/ BeforeAllows(r)
    \/ \E u \in Name \cup {None} : BeforeRewrites(r, u)
    \/ Connect(r)
    \/ StartFails(r)
    \/ \E what \in {"result", "mcp_error", "failed"} : BackendReplies(r, what)
    \/ Close(r)
    \/ After(r)

\* The step of a request touches nothing of the others.
LEMMA MoveIsLocal ==
    ASSUME TypeOK, NEW r \in Request, Move(r), NEW q \in Request, q # r
    PROVE  /\ pc'[q] = pc[q] /\ input'[q] = input[q] /\ config'[q] = config[q]
           /\ target'[q] = target[q] /\ uri'[q] = uri[q] /\ conn'[q] = conn[q]
           /\ reply'[q] = reply[q] /\ answer'[q] = answer[q] /\ published' = published
<1> USE DEF TypeOK, Goto, Return
<1>1. CASE \E in \in Input : Arrive(r, in)
  BY <1>1 DEF Arrive
<1>2. CASE \/ Claims(r) \/ Principal(r) \/ RmcpRefuses(r) \/ AnswerLocally(r)
           \/ BeforeDenies(r) \/ BeforeAllows(r) \/ After(r)
  BY <1>2 DEF Claims, Principal, RmcpRefuses, AnswerLocally, LocalOutcome, BeforeDenies, BeforeAllows, After
<1>3. CASE UserConfig(r) \/ \E status \in {"400", "500"} : NoUserConfig(r, status)
  BY <1>3 DEF NoUserConfig, UserConfig
<1>4. CASE \E headersOk \in BOOLEAN : FindRoute(r, headersOk)
  BY <1>4 DEF FindRoute, RouteIn
<1>5. CASE \E u \in Name \cup {None} : BeforeRewrites(r, u)
  BY <1>5 DEF BeforeRewrites, RewriteIn, ReadFrom
<1>6. CASE \/ Connect(r) \/ StartFails(r) \/ Close(r)
           \/ \E what \in {"result", "mcp_error", "failed"} : BackendReplies(r, what)
  BY <1>6 DEF Connect, StartFails, Close, BackendReplies
<1>. QED  BY <1>1, <1>2, <1>3, <1>4, <1>5, <1>6 DEF Move

\* The layers: a request is dispatched with a configuration of its own user
\* that has its virtual host.
LEMMA LayersKeep ==
    ASSUME RoutingInv, NEW r \in Request,
           \/ \E in \in Input : Arrive(r, in)
           \/ Claims(r)
           \/ Principal(r)
           \/ \E status \in {"400", "500"} : NoUserConfig(r, status)
           \/ UserConfig(r)
           \/ RmcpRefuses(r)
           \/ AnswerLocally(r)
    PROVE  StepInv(r)' /\ ConnInv(r)'
<1> USE DEF RoutingInv, TypeOK, StepInv, ConnInv, Passed, Configured, Connected, Refused, Status, Goto, Return
<1>1. ASSUME NEW in \in Input, Arrive(r, in) PROVE StepInv(r)' /\ ConnInv(r)'
  <2>1. in # None
    BY RoutingAssumption
  <2>. QED  BY <1>1, <2>1 DEF Arrive
<1>2. CASE Claims(r) \/ Principal(r)
  BY <1>2 DEF Claims, Principal
<1>3. ASSUME NEW status \in {"400", "500"}, NoUserConfig(r, status) PROVE StepInv(r)' /\ ConnInv(r)'
  BY <1>3 DEF NoUserConfig
<1>4. CASE UserConfig(r)
  <2>1. PICK c \in published[input[r].user] :
           /\ config' = [config EXCEPT ![r] = c]
           /\ IF HasVirtualHost(c, input[r]) THEN Goto(r, "dispatch") ELSE Return(r, "404")
    BY <1>4 DEF UserConfig
  <2>2. input[r].user \in User
    BY <1>4, RoutingAssumption DEF UserConfig
  <2>3. c \in Config /\ c # None
    BY <2>2, RoutingAssumption
  <2>4. /\ config'[r] = c
        /\ UNCHANGED <<published, input, target, uri, conn, reply>>
    BY <1>4, <2>1 DEF UserConfig
  <2>. QED  BY <1>4, <2>1, <2>3, <2>4 DEF UserConfig, HasVirtualHost, Carries
<1>5. CASE RmcpRefuses(r)
  BY <1>5 DEF RmcpRefuses
<1>6. CASE AnswerLocally(r)
  BY <1>6 DEF AnswerLocally, LocalOutcome
<1>. QED  BY <1>1, <1>2, <1>3, <1>4, <1>5, <1>6

\* The handlers up to the connection: the target is a route of the virtual host.
LEMMA RoutingKeeps ==
    ASSUME RoutingInv, NEW r \in Request,
           \/ \E headersOk \in BOOLEAN : FindRoute(r, headersOk)
           \/ BeforeDenies(r)
           \/ BeforeAllows(r)
           \/ \E u \in Name \cup {None} : BeforeRewrites(r, u)
    PROVE  StepInv(r)' /\ ConnInv(r)'
<1> USE DEF RoutingInv, Configured, Connected, Refused, Status, Goto, Return
<1>a. /\ Passed(r) /\ Carries(r) /\ uri[r] = None /\ conn[r] = "none" /\ answer[r] = "none"
      /\ UNCHANGED <<published, input, config, conn, reply>>
  BY DEF FindRoute, RouteIn, BeforeDenies, BeforeAllows, BeforeRewrites, RewriteIn, StepInv, ConnInv
<1>b. Passed(r)' /\ Carries(r)' /\ VirtualHost(r)' = VirtualHost(r) /\ Asked(r)' = Asked(r)
  BY <1>a DEF Passed, Carries, VirtualHost, Asked
<1>c. IsTable(Asked(r)) /\ IsTable(VirtualHost(r).resources)
  BY <1>a, TableRoutes DEF TypeOK, Carries, VirtualHost, Asked
<1>1. ASSUME NEW headersOk \in BOOLEAN, FindRoute(r, headersOk) PROVE StepInv(r)' /\ ConnInv(r)'
  <2>1. uri'[r] = None /\ pc'[r] \in {"done", "before", "connect"}
    BY <1>1, <1>a DEF FindRoute, RouteIn, TypeOK
  <2>2. CASE input[r].name \notin DOMAIN Asked(r)
    BY <1>1, <1>a, <1>b, <2>1, <2>2 DEF FindRoute, RouteIn, Asked, TypeOK, StepInv, ConnInv
  <2>3. CASE input[r].name \in DOMAIN Asked(r)
    <3>1. target'[r] = Asked(r)[input[r].name] /\ target'[r] \in Route
      BY <1>1, <1>c, <2>3 DEF FindRoute, RouteIn, Asked, TypeOK, IsTable
    <3>2. /\ pc'[r] # "done" /\ input[r].method # "read_resource" => target'[r].backend \in VirtualHost(r).backends
          /\ pc'[r] = "connect" => input[r].method \in Complete
          /\ pc'[r] # "done" => answer'[r] = "none"
          /\ pc'[r] = "done" => answer'[r] \in {"invalid_params", "header_mismatch"}
      BY <1>1, <1>a, <2>3, <3>1 DEF FindRoute, RouteIn, Asked, TypeOK, Hooked, Complete
    <3>3. pc'[r] = "connect" => Routed(r)'
      BY <1>a, <1>b, <2>1, <2>3, <3>1, <3>2 DEF Routed, Complete
    <3>. QED  BY <1>a, <1>b, <2>1, <2>3, <3>1, <3>2, <3>3 DEF StepInv, ConnInv
  <2>. QED  BY <2>2, <2>3
<1>2. CASE BeforeDenies(r)
  BY <1>2, <1>a, <1>b DEF BeforeDenies, TypeOK, StepInv, ConnInv
<1>3. CASE BeforeAllows(r)
  <2>1. /\ uri'[r] = None /\ target'[r] = target[r] /\ pc'[r] = "connect" /\ answer'[r] = "none"
        /\ input[r].name \in DOMAIN Asked(r) /\ target[r] = Asked(r)[input[r].name]
        /\ target[r].backend \in VirtualHost(r).backends
    BY <1>3, <1>a DEF BeforeAllows, TypeOK, StepInv
  <2>2. Routed(r)'
    BY <1>b, <1>c, <1>a, <2>1 DEF Routed, IsTable
  <2>. QED  BY <1>a, <1>b, <2>1, <2>2 DEF StepInv, ConnInv
<1>4. ASSUME NEW u \in Name \cup {None}, BeforeRewrites(r, u) PROVE StepInv(r)' /\ ConnInv(r)'
  <2>. DEFINE vh == VirtualHost(r)
  <2>1. /\ uri'[r] = u
        /\ input[r].name \in DOMAIN Asked(r)
        /\ target[r] = Asked(r)[input[r].name]
        /\ target[r] \in Route
    BY <1>4, <1>c DEF BeforeRewrites, RewriteIn, TypeOK, StepInv, IsTable
  <2>2. ASSUME NEW route \in Route, ReadFrom(vh, r, route)
        PROVE  /\ target'[r] = route
               /\ pc'[r] \in {"connect", "done"}
               /\ pc'[r] = "connect" => answer'[r] = "none" /\ route.backend \in vh.backends
               /\ pc'[r] = "done" => answer'[r] = "invalid_params"
    BY <1>a, <2>2 DEF ReadFrom, TypeOK
  <2>3. CASE u \in {None, target[r].upstream} /\ ReadFrom(vh, r, target[r])
    <3>1. pc'[r] = "connect" => Routed(r)'
      BY <1>a, <1>b, <2>1, <2>2, <2>3 DEF Routed
    <3>. QED  BY <1>a, <1>b, <2>1, <2>2, <2>3, <3>1 DEF StepInv, ConnInv
  <2>4. CASE u \notin {None, target[r].upstream} /\ Return(r, "invalid_params") /\ UNCHANGED target
    BY <1>a, <1>b, <2>4 DEF TypeOK, StepInv, ConnInv
  <2>5. ASSUME u \notin {None, target[r].upstream}, ~Ambiguous(vh, u),
               NEW n \in Candidates(vh, u), ReadFrom(vh, r, vh.resources[n])
        PROVE  StepInv(r)' /\ ConnInv(r)'
    <3>1. n \in DOMAIN vh.resources /\ vh.resources[n] \in Route /\ vh.resources[n].upstream = u
      BY <1>c, <2>5 DEF Candidates, IsTable
    <3>2. pc'[r] = "connect" => Routed(r)'
      BY <1>a, <1>b, <2>1, <2>2, <2>5, <3>1 DEF Routed
    <3>. QED  BY <1>a, <1>b, <2>1, <2>2, <2>5, <3>1, <3>2 DEF StepInv, ConnInv
  <2>. QED  BY <1>4, <2>3, <2>4, <2>5 DEF BeforeRewrites, RewriteIn
<1>. QED  BY <1>1, <1>2, <1>3, <1>4

\* The handlers from the connection on: what was decided about the route stays.
LEMMA ForwardingKeeps ==
    ASSUME RoutingInv, NEW r \in Request,
           \/ Connect(r)
           \/ StartFails(r)
           \/ \E what \in {"result", "mcp_error", "failed"} : BackendReplies(r, what)
           \/ Close(r)
           \/ After(r)
    PROVE  StepInv(r)' /\ ConnInv(r)'
<1> USE DEF RoutingInv, Configured, Connected, Refused, Status, Goto, Return
<1>a. /\ Passed(r) /\ Carries(r) /\ Routed(r)
      /\ UNCHANGED <<published, input, config, target, uri>>
  BY DEF Connect, StartFails, BackendReplies, Close, After, StepInv
<1>b. Passed(r)' /\ Carries(r)' /\ Routed(r)'
  BY <1>a DEF Passed, Carries, Routed, VirtualHost, Asked
<1>1. CASE Connect(r)
  BY <1>1, <1>b DEF Connect, TypeOK, StepInv, ConnInv
<1>2. ASSUME NEW what \in {"result", "mcp_error", "failed"}, BackendReplies(r, what)
      PROVE  StepInv(r)' /\ ConnInv(r)'
  BY <1>2, <1>b DEF BackendReplies, TypeOK, StepInv, ConnInv
<1>3. CASE Close(r)
  BY <1>3, <1>b DEF Close, ForwardError, TypeOK, StepInv, ConnInv
<1>4. CASE After(r)
  BY <1>4, <1>b DEF After, TypeOK, StepInv, ConnInv
<1>5. CASE StartFails(r)
  BY <1>5, <1>b DEF StartFails, TypeOK, StepInv, ConnInv
<1>. QED  BY <1>1, <1>2, <1>3, <1>4, <1>5

\* Every step keeps the invariant.
LEMMA RoutingNext == RoutingInv /\ [Next]_vars => RoutingInv'
<1> SUFFICES ASSUME RoutingInv, [Next]_vars PROVE RoutingInv'
  OBVIOUS
<1>1. TypeOK'
  BY RoutingTypeNext
<1>2. ASSUME NEW q \in Request PROVE StepInv(q)' /\ ConnInv(q)'
  <2>1. CASE \E u \in User, c \in Config : Publish(u, c)
    BY <2>1, OthersUndisturbed DEF RoutingInv, TypeOK, Publish
  <2>2. ASSUME NEW r \in Request, Move(r) PROVE StepInv(q)' /\ ConnInv(q)'
    <3>1. CASE q = r
      BY <2>2, <3>1, LayersKeep, RoutingKeeps, ForwardingKeeps DEF Move
    <3>2. CASE q # r
      BY <2>2, <3>2, MoveIsLocal, OthersUndisturbed DEF RoutingInv
    <3>. QED  BY <3>1, <3>2
  <2>3. CASE UNCHANGED vars
    BY <2>3, OthersUndisturbed DEF RoutingInv, vars
  <2>. QED  BY <2>1, <2>2, <2>3 DEF Next, Move
<1>. QED  BY <1>1, <1>2 DEF RoutingInv

\* The invariant holds in every reachable state.
LEMMA RoutingInvariant == Spec => []RoutingInv
BY RoutingInit, RoutingNext, PTL DEF Spec

\* Requests and what they carry keep their types.
THEOREM RoutingTypeCorrect == Spec => []TypeOK
<1>1. RoutingInv => TypeOK
  BY DEF RoutingInv
<1>. QED  BY <1>1, RoutingInvariant, PTL

\* A backend is contacted only for an accepted caller, and one configuration
\* published for the caller's user justifies the contact, for any number of
\* requests and whatever is published meanwhile.
THEOREM OneConfigRoutes == Spec => []RoutedByOneConfig
<1>1. RoutingInv => RoutedByOneConfig
  <2> SUFFICES ASSUME RoutingInv, NEW r \in Request, conn[r] # "none"
               PROVE  /\ input[r].auth = "accepted"
                      /\ \E c \in published[input[r].user] : Justifies(c, r)
    BY DEF RoutedByOneConfig
  <2>1. Passed(r) /\ Carries(r) /\ Routed(r)
    BY DEF RoutingInv, ConnInv
  <2>2. Justifies(config[r], r)
    BY <2>1 DEF Justifies, Carries, Routed, VirtualHost, Asked
  <2>. QED  BY <2>1, <2>2 DEF Passed, Carries
<1>. QED  BY <1>1, RoutingInvariant, PTL

\* The order in which read_resource meets the candidates of a rewritten URI
\* never decides which backend is contacted.
THEOREM TargetIsDetermined == Spec => []SameRequestSameTarget
<1>1. RoutingInv => SameRequestSameTarget
  <2> SUFFICES ASSUME RoutingInv, NEW q \in Request, NEW r \in Request,
                      conn[q] # "none", conn[r] # "none",
                      input[q] = input[r], config[q] = config[r], uri[q] = uri[r]
               PROVE  target[q] = target[r]
    BY DEF SameRequestSameTarget
  <2>1. Routed(q) /\ Routed(r)
    BY DEF RoutingInv, ConnInv
  <2>2. VirtualHost(q) = VirtualHost(r) /\ Asked(q) = Asked(r)
    BY DEF VirtualHost, Asked
  <2>3. CASE uri[r] \in {None, Asked(r)[input[r].name].upstream}
    BY <2>1, <2>2, <2>3 DEF Routed
  <2>4. CASE uri[r] \notin {None, Asked(r)[input[r].name].upstream}
    <3>1. target[q].upstream = target[r].upstream
      BY <2>1, <2>2, <2>4 DEF Routed
    <3>2. PICK m, n \in Candidates(VirtualHost(r), uri[r]) :
             target[q] = VirtualHost(r).resources[m] /\ target[r] = VirtualHost(r).resources[n]
      BY <2>1, <2>2, <2>4 DEF Routed, Candidates
    <3>3. target[q].backend = target[r].backend
      BY <2>1, <2>4, <3>2 DEF Routed, Ambiguous
    <3>. QED  BY <2>1, <3>1, <3>3 DEF Routed, Route
  <2>. QED  BY <2>3, <2>4
<1>. QED  BY <1>1, RoutingInvariant, PTL

\* A request whose backend replied has closed its connection when it is
\* answered, and a refused one never opened any.
THEOREM ConnectionsAreSettled == Spec => []ConnectionsSettled
<1>1. RoutingInv => ConnectionsSettled
  BY DEF RoutingInv, ConnectionsSettled, TypeOK, ConnInv, Refused
<1>. QED  BY <1>1, RoutingInvariant, PTL

=============================================================================
