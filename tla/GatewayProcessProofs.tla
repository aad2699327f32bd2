------------------------ MODULE GatewayProcessProofs ------------------------
(***************************************************************************)
(* Invariance proofs for GatewayProcess, for all settings and documents    *)
(* and any number of clients.                                              *)
(***************************************************************************)
EXTENDS GatewayProcess, TLAPS

\* The stages before there are listeners, and those that have a configuration.
Starting == {"settings", "global", "authorization", "plugins", "router"}
HasConfig == {"authorization", "plugins", "router", "serving"}

\* What each stage of main may rely on, having got past the ones before it.
StageInv ==
    /\ stage \in Starting => \A l \in Listener : listener[l] = "off"
    /\ stage \in HasConfig => config # Unset /\ read \in Document \cup {NoDocument, NoAnswer}
    /\ stage \in {"global"} \cup HasConfig /\ settings.redis.mode \in {"Tls", "Mtls"} =>
          settings.redis.bundle = "good"
    /\ stage \in {"plugins", "router", "serving"} => settings.jwks.url # "http"
    /\ stage \in {"router", "serving"} /\ settings.plugins => loaded

\* The configuration is the one that was read, if one was.
ReadInv ==
    stage \in HasConfig /\ read \in Document =>
        /\ read.decodes
        /\ config.hosts = read.hosts
        /\ config.origins = read.origins
        /\ read.limits = "given" => config.limits = "given"

\* A listener that was started has found every check passed; it may have ended.
ListenerInv == \A l \in Listener : listener[l] # "off" => AsConfigured(l)

\* A connection came to a listener that was started, and is in a queue, or
\* served by the TCP listener, only as long as that listener waits for it.
ConnInv ==
    \A c \in Connection :
        /\ conn[c] # "none" => via[c] \in Listener /\ listener[via[c]] # "off"
        /\ conn[c] = "queued" => via[c] \in Listener /\ listener[via[c]] = "open"
        /\ conn[c] = "open" /\ via[c] = "tcp" => listener["tcp"] \in {"open", "draining"}
        /\ conn[c] = "cut" => stage \in Ended

\* Inductive: each property below follows from what the earlier stages have
\* established, and from which listener each connection belongs to.
ProcessInv ==
    /\ TypeOK
    /\ StageInv
    /\ ReadInv
    /\ ConnInv
    /\ ListenerInv
    /\ GracefulTcp

-----------------------------------------------------------------------------
(* The parts of the invariant that depend on few variables *)

\* A step that leaves the start-up state and the listeners' being off alone
\* keeps what the stages established.
LEMMA StartKept ==
    ASSUME ProcessInv, UNCHANGED start,
           stage' = stage \/ stage' \in Ended,
           \A l \in Listener : listener'[l] = "off" <=> listener[l] = "off"
    PROVE  StageInv' /\ ReadInv' /\ ListenerInv'
  <1>1. UNCHANGED <<settings, read, config, loaded>>
    BY DEF start
  <1>2. stage' \in Starting \cup HasConfig => stage' = stage
    BY DEF Starting, HasConfig, Ended
  <1>3. StageInv'
    BY <1>1, <1>2 DEF ProcessInv, StageInv, Starting, HasConfig
  <1>4. ReadInv'
    BY <1>1, <1>2 DEF ProcessInv, ReadInv
  <1>5. ListenerInv'
    BY <1>1 DEF ProcessInv, ListenerInv, AsConfigured, Listener
  <1>6. QED
    BY <1>3, <1>4, <1>5

\* Before there are listeners there are no connections.
LEMMA NoneWhileStarting ==
    ASSUME ProcessInv, stage \in Starting
    PROVE  /\ \A l \in Listener : listener[l] = "off"
           /\ \A c \in Connection : conn[c] = "none"
  BY DEF ProcessInv, StageInv, ConnInv, Starting, Ended, Listener

\* A step of main that moves on, or gives up, before the listeners are there.
LEMMA GotoInv ==
    ASSUME ProcessInv, stage \in Starting, NEW to, Goto(to),
           to \in Starting \cup Ended,
           to \in HasConfig => stage \in HasConfig,
           to \in {"global"} \cup HasConfig =>
              stage \in {"global"} \cup HasConfig \/ RedisConfigured(settings.redis),
           to \in {"plugins", "router"} => stage = "plugins" \/ AuthorizationConfigured(settings.jwks),
           to = "router" /\ settings.plugins => loaded
    PROVE  ProcessInv'
  <1>1. UNCHANGED <<stored, settings, read, config, loaded, handler, listener, watch, via, conn>>
    BY DEF Goto, start, serve
  <1>2. stage' = to /\ to # "serving"
    BY DEF Goto, Starting, Ended
  <1>3. TypeOK'
    BY <1>1, <1>2 DEF ProcessInv, TypeOK, Starting
  <1>4. StageInv'
    BY <1>1, <1>2, NoneWhileStarting
    DEF ProcessInv, StageInv, Starting, HasConfig, Ended, RedisConfigured, AuthorizationConfigured
  <1>5. ReadInv'
    BY <1>1, <1>2 DEF ProcessInv, ReadInv
  <1>6. ConnInv'
    BY <1>1, <1>2, NoneWhileStarting DEF ProcessInv, ConnInv
  <1>7. ListenerInv'
    BY <1>1 DEF ProcessInv, ListenerInv, AsConfigured
  <1>8. GracefulTcp'
    BY <1>1, NoneWhileStarting DEF GracefulTcp
  <1>9. QED
    BY <1>3, <1>4, <1>5, <1>6, <1>7, <1>8 DEF ProcessInv

\* Reading the global configuration establishes it for all later stages
\* (get_global_config, Config::merge and the match in main).
LEMMA GlobalInv ==
    ASSUME ProcessInv, GlobalRead \/ GlobalMissing
    PROVE  ProcessInv'
  <1>0. /\ stage = "global" /\ stage' = "authorization"
        /\ UNCHANGED <<stored, settings, loaded, handler, listener, watch, via, conn>>
    BY DEF GlobalRead, GlobalMissing, serve
  <1>1. /\ config' \in Restrictions
        /\ read' \in Document \cup {NoDocument, NoAnswer}
    <2>1. CASE GlobalRead
      BY <2>1, ProcessAssumption DEF GlobalRead, Merge, Limits, Restrictions
    <2>2. CASE GlobalMissing
      BY <2>2 DEF GlobalMissing, Defaults, Restrictions
    <2>3. QED
      BY <2>1, <2>2
  <1>2. TypeOK'
    BY <1>0, <1>1 DEF ProcessInv, TypeOK
  <1>3. StageInv'
    BY <1>0, <1>1, NoneWhileStarting, ProcessAssumption DEF ProcessInv, StageInv, Starting, HasConfig
  <1>4. ReadInv'
    <2>1. CASE GlobalRead
      BY <2>1, ProcessAssumption DEF GlobalRead, Merge, Limits, ReadInv
    <2>2. CASE GlobalMissing
      BY <2>2, ProcessAssumption DEF GlobalMissing, ReadInv
    <2>3. QED
      BY <2>1, <2>2
  <1>5. ConnInv' /\ GracefulTcp'
    BY <1>0, NoneWhileStarting DEF ConnInv, GracefulTcp, Starting
  <1>6. ListenerInv'
    BY <1>0, NoneWhileStarting DEF ListenerInv, Starting
  <1>7. QED
    BY <1>2, <1>3, <1>4, <1>5, <1>6 DEF ProcessInv

\* The listeners open only with everything the settings ask for (run_gateway).
LEMMA StartListenersInv ==
    ASSUME ProcessInv, StartListeners
    PROVE  ProcessInv'
  <1>0. /\ stage = "router" /\ stage' = "serving"
        /\ UNCHANGED <<stored, settings, read, config, loaded, handler, watch, via, conn>>
    BY DEF StartListeners, start
  <1>1. /\ listener' \in [Listener -> {"off", "binding"}]
        /\ listener'["tcp"] # "off" => settings.tcp
        /\ listener'["tls"] # "off" => settings.tls.address
    BY DEF StartListeners, Listener
  <1>2. TypeOK'
    BY <1>0, <1>1 DEF ProcessInv, TypeOK
  <1>3. StageInv'
    BY <1>0 DEF ProcessInv, StageInv, Starting, HasConfig
  <1>4. ReadInv'
    BY <1>0 DEF ProcessInv, ReadInv, HasConfig
  <1>5. ConnInv' /\ GracefulTcp'
    BY <1>0, NoneWhileStarting DEF ConnInv, GracefulTcp, Starting
  <1>6. ListenerInv'
    <2>1. /\ config # Unset /\ (settings.plugins => loaded)
          /\ settings.redis.mode \in {"Tls", "Mtls"} => settings.redis.bundle = "good"
          /\ settings.jwks.url # "http"
      BY <1>0 DEF ProcessInv, StageInv, HasConfig
    <2>2. /\ settings.upstream.mode \in {"PlainTextOrMTls", "MtlsOnly"} =>
                settings.upstream.certificate = "good" /\ settings.upstream.key = "good"
          /\ settings.tls.address => settings.tls.certificate = "good" /\ settings.tls.key = "good"
      BY DEF StartListeners, ClientConfigured, TlsConfigured
    <2>3. QED
      BY <1>0, <1>1, <2>1, <2>2 DEF ListenerInv, AsConfigured, Listener
  <1>7. QED
    BY <1>2, <1>3, <1>4, <1>5, <1>6 DEF ProcessInv

\* Every step of the start-up keeps the invariant.
LEMMA StartInv ==
    ASSUME ProcessInv, Start
    PROVE  ProcessInv'
  <1>1. CASE Configure
    BY <1>1, GotoInv DEF Configure, Starting, HasConfig, Ended
  <1>2. CASE GlobalRead \/ GlobalMissing
    BY <1>2, GlobalInv
  <1>3. CASE GlobalRefused
    BY <1>3, GotoInv DEF GlobalRefused, Starting, HasConfig, Ended
  <1>4. CASE Authorize
    BY <1>4, GotoInv DEF Authorize, Starting, HasConfig, Ended
  <1>5. CASE InitializePlugins
    <2>1. CASE ~settings.plugins /\ Goto("router")
      BY <1>5, <2>1, GotoInv DEF InitializePlugins, Starting, HasConfig, Ended
    <2>2. CASE settings.plugins /\ Goto("refused")
      BY <1>5, <2>2, GotoInv DEF InitializePlugins, Starting, HasConfig, Ended
    <2>3. CASE /\ stage' = "router" /\ loaded' = TRUE
               /\ UNCHANGED <<stored, settings, read, config, serve>>
      <3>1. stage = "plugins" /\ stage \in Starting
        BY <1>5 DEF InitializePlugins, Starting
      <3>2. UNCHANGED <<stored, settings, read, config, handler, listener, watch, via, conn>>
        BY <2>3 DEF serve
      <3>3. TypeOK'
        BY <2>3, <3>2 DEF ProcessInv, TypeOK
      <3>4. StageInv' /\ ReadInv'
        BY <2>3, <3>1, <3>2 DEF ProcessInv, StageInv, ReadInv, Starting, HasConfig
      <3>5. ConnInv' /\ GracefulTcp' /\ ListenerInv'
        BY <2>3, <3>1, <3>2, NoneWhileStarting DEF ConnInv, GracefulTcp, ListenerInv
      <3>6. QED
        BY <3>3, <3>4, <3>5 DEF ProcessInv
    <2>4. QED
      BY <1>5, <2>1, <2>2, <2>3 DEF InitializePlugins
  <1>6. CASE StartListeners
    BY <1>6, StartListenersInv
  <1>7. CASE GatewayFails
    BY <1>7, GotoInv DEF GatewayFails, Starting, HasConfig, Ended
  <1>8. QED
    BY <1>1, <1>2, <1>3, <1>4, <1>5, <1>6, <1>7 DEF Start

-----------------------------------------------------------------------------
(* Listeners *)

\* Closing a socket loses no connection axum still serves: the TCP listener
\* ends only when it has none, and what was queued is refused, not cut.
LEMMA CloseInv ==
    ASSUME ProcessInv, NEW l \in Listener, NEW to \in {"draining", "ended"}, Close(l, to),
           listener[l] # "off",
           l = "tcp" /\ to = "ended" => \A c \in Connection : via[c] = "tcp" => conn[c] # "open"
    PROVE  ProcessInv'
  <1>0. /\ UNCHANGED <<stage, stored, start, handler, watch, via>>
        /\ listener' = [listener EXCEPT ![l] = to]
    BY DEF Close
  <1>1. \A c \in Connection :
           conn'[c] = IF conn[c] = "queued" /\ via[c] = l THEN "refused" ELSE conn[c]
    BY DEF Close
  <1>2. listener \in [Listener -> {"off", "binding", "open", "draining", "ended"}]
    BY DEF ProcessInv, TypeOK
  <1>3. TypeOK'
    BY <1>0, <1>2 DEF ProcessInv, TypeOK, Close, start
  <1>4. StageInv' /\ ReadInv' /\ ListenerInv'
    BY <1>0, <1>2, StartKept
  <1>5. ConnInv'
    BY <1>0, <1>1, <1>2 DEF ProcessInv, ConnInv, Listener
  <1>6. GracefulTcp'
    BY <1>0, <1>1 DEF ProcessInv, GracefulTcp
  <1>7. QED
    BY <1>3, <1>4, <1>5, <1>6 DEF ProcessInv

\* The end of the process cuts connections of the TCP listener only if it is
\* a signal that nothing waited for.
LEMMA CutOffInv ==
    ASSUME ProcessInv, stage \notin Ended, CutOff, UNCHANGED <<stored, start, handler, watch, via>>,
           \/ stage' = "killed"
           \/ stage' = "exited" /\ AllEnded
    PROVE  ProcessInv'
  <1>1. \A c \in Connection :
           conn'[c] = IF conn[c] \in {"queued", "open"} THEN "cut" ELSE conn[c]
    BY DEF CutOff
  <1>2. \A l \in Listener : listener'[l] = IF listener[l] = "off" THEN "off" ELSE "ended"
    BY DEF CutOff
  <1>3. TypeOK'
    BY DEF ProcessInv, TypeOK, CutOff, start, Ended
  <1>4. StageInv' /\ ReadInv' /\ ListenerInv'
    BY <1>2, StartKept DEF Ended
  <1>5. ConnInv'
    BY <1>1, <1>2 DEF ProcessInv, ConnInv, Ended
  <1>6. GracefulTcp'
    <2>1. ASSUME stage' = "exited", NEW c \in Connection, via[c] = "tcp" PROVE conn'[c] # "cut"
      <3>1. listener["tcp"] \in {"off", "ended"} /\ stage' # "killed"
        BY <2>1 DEF AllEnded, Listener
      <3>2. conn[c] \notin {"queued", "open", "cut"}
        BY <2>1, <3>1 DEF ProcessInv, ConnInv
      <3>3. QED
        BY <1>1, <3>2
    <2>2. QED
      BY <2>1 DEF GracefulTcp
  <1>7. QED
    BY <1>3, <1>4, <1>5, <1>6 DEF ProcessInv

\* A step of a listener or a connection keeps the invariant.
LEMMA ServeInv ==
    ASSUME ProcessInv, Serve \/ \E c \in Connection, l \in Listener : Arrive(c, l)
    PROVE  ProcessInv'
  <1>0. /\ listener \in [Listener -> {"off", "binding", "open", "draining", "ended"}]
        /\ watch \in [Listener -> {"none", "waiting", "notified"}]
        /\ via \in [Connection -> Listener \cup {Unset}]
        /\ conn \in [Connection -> {"none", "queued", "open", "done", "refused", "cut"}]
    BY DEF ProcessInv, TypeOK
  <1>1. ASSUME NEW l \in Listener, Bind(l) \/ BindFails(l) PROVE ProcessInv'
    <2>1. /\ UNCHANGED <<stage, stored, start, handler, watch, via, conn>>
          /\ listener[l] = "binding"
          /\ \E to \in {"open", "ended"} : listener' = [listener EXCEPT ![l] = to]
      BY <1>1 DEF Bind, BindFails
    <2>2. TypeOK'
      BY <2>1 DEF ProcessInv, TypeOK, start
    <2>3. StageInv' /\ ReadInv' /\ ListenerInv'
      BY <1>0, <2>1, StartKept
    <2>4. ConnInv' /\ GracefulTcp'
      BY <1>0, <2>1 DEF ProcessInv, ConnInv, GracefulTcp, Listener
    <2>5. QED
      BY <2>2, <2>3, <2>4 DEF ProcessInv
  <1>2. ASSUME NEW l \in Listener, Watch(l) PROVE ProcessInv'
    <2>1. /\ UNCHANGED <<stage, stored, start, listener, via, conn>>
          /\ handler' = TRUE
          /\ watch' = [watch EXCEPT ![l] = "waiting"]
      BY <1>2 DEF Watch
    <2>2. TypeOK'
      BY <2>1 DEF ProcessInv, TypeOK, start
    <2>3. StageInv' /\ ReadInv' /\ ListenerInv'
      BY <2>1, StartKept
    <2>4. ConnInv' /\ GracefulTcp'
      BY <2>1 DEF ProcessInv, ConnInv, GracefulTcp
    <2>5. QED
      BY <2>2, <2>3, <2>4 DEF ProcessInv
  <1>3. ASSUME NEW c \in Connection, Accept(c) \/ Finish(c) \/ \E l \in Listener : Arrive(c, l)
        PROVE  ProcessInv'
    <2>1. /\ UNCHANGED <<stage, stored, start, handler, listener>>
          /\ watch' \in [Listener -> {"none", "waiting", "notified"}]
          /\ via' \in [Connection -> Listener \cup {Unset}]
          /\ \A d \in Connection \ {c} : conn'[d] = conn[d] /\ via'[d] = via[d]
      BY <1>0, <1>3 DEF Accept, Finish, Arrive, Listener
    <2>2. /\ conn' \in [Connection -> {"none", "queued", "open", "done", "refused", "cut"}]
          /\ \/ conn'[c] = "queued" /\ via'[c] \in Listener /\ listener[via'[c]] = "open"
             \/ conn'[c] = "open" /\ via'[c] = via[c] /\ conn[c] = "queued"
             \/ conn'[c] = "done" /\ via'[c] = via[c] /\ conn[c] = "open"
      BY <1>0, <1>3 DEF Accept, Finish, Arrive
    <2>3. TypeOK'
      BY <2>1, <2>2 DEF ProcessInv, TypeOK, start
    <2>4. StageInv' /\ ReadInv' /\ ListenerInv'
      BY <2>1, StartKept
    <2>5. ConnInv' /\ GracefulTcp'
      BY <2>1, <2>2 DEF ProcessInv, ConnInv, GracefulTcp
    <2>6. QED
      BY <2>3, <2>4, <2>5 DEF ProcessInv
  <1>4. CASE TlsAcceptFails \/ TlsStop
    BY <1>4, CloseInv DEF TlsAcceptFails, TlsStop, Listener
  <1>5. CASE TcpDrain
    BY <1>5, CloseInv DEF TcpDrain, Listener
  <1>6. CASE TcpDrained
    BY <1>6, CloseInv DEF TcpDrained, Listener
  <1>7. CASE Exit
    BY <1>7, CutOffInv DEF Exit, Ended
  <1>8. QED
    BY <1>1, <1>2, <1>3, <1>4, <1>5, <1>6, <1>7 DEF Serve

\* A signal ends a process that has no handler, and else only tells the
\* futures that wait for it (ctrl_c).
LEMMA CtrlCInv ==
    ASSUME ProcessInv, CtrlC
    PROVE  ProcessInv'
  <1>1. CASE ~handler
    BY <1>1, CutOffInv DEF CtrlC
  <1>2. CASE handler
    <2>1. /\ UNCHANGED <<stage, stored, start, handler, listener, via, conn>>
          /\ watch' \in [Listener -> {"none", "waiting", "notified"}]
      BY <1>2 DEF CtrlC, ProcessInv, TypeOK
    <2>2. TypeOK'
      BY <2>1 DEF ProcessInv, TypeOK, start
    <2>3. StageInv' /\ ReadInv' /\ ListenerInv'
      BY <2>1, StartKept
    <2>4. ConnInv' /\ GracefulTcp'
      BY <2>1 DEF ProcessInv, ConnInv, GracefulTcp
    <2>5. QED
      BY <2>2, <2>3, <2>4 DEF ProcessInv
  <1>3. QED
    BY <1>1, <1>2

\* The state of a process that has just started, the first one or a later one.
Fresh ==
    /\ stage = "settings"
    /\ settings \in Settings
    /\ stored \in Document \cup {NoDocument}
    /\ read = Unset
    /\ config = Unset
    /\ loaded = FALSE
    /\ handler = FALSE
    /\ listener = [l \in Listener |-> "off"]
    /\ watch = [l \in Listener |-> "none"]
    /\ via = [c \in Connection |-> Unset]
    /\ conn = [c \in Connection |-> "none"]

\* Nothing is served and nothing is configured in a new process.
LEMMA FreshInv == Fresh => ProcessInv
  <1> SUFFICES ASSUME Fresh PROVE ProcessInv
    OBVIOUS
  <1>1. TypeOK
    BY DEF Fresh, TypeOK
  <1>2. StageInv /\ ReadInv
    BY DEF Fresh, StageInv, ReadInv, HasConfig
  <1>3. ConnInv /\ GracefulTcp /\ ListenerInv
    BY DEF Fresh, ConnInv, GracefulTcp, ListenerInv
  <1>4. QED
    BY <1>1, <1>2, <1>3 DEF ProcessInv

\* Every step keeps the invariant.
LEMMA NextInv == ProcessInv /\ [Next]_vars => ProcessInv'
  <1> SUFFICES ASSUME ProcessInv, [Next]_vars PROVE ProcessInv'
    OBVIOUS
  <1>1. CASE Publish \/ UNCHANGED vars
    <2>1. /\ UNCHANGED <<stage, start, handler, listener, watch, via, conn>>
          /\ stored' \in Document \cup {NoDocument}
      BY <1>1 DEF Publish, vars, serve, ProcessInv, TypeOK
    <2>2. TypeOK'
      BY <2>1 DEF ProcessInv, TypeOK, start
    <2>3. StageInv' /\ ReadInv' /\ ListenerInv'
      BY <2>1, StartKept
    <2>4. ConnInv' /\ GracefulTcp'
      BY <2>1 DEF ProcessInv, ConnInv, GracefulTcp
    <2>5. QED
      BY <2>2, <2>3, <2>4 DEF ProcessInv
  <1>2. CASE Start
    BY <1>2, StartInv
  <1>3. CASE Serve \/ \E c \in Connection, l \in Listener : Arrive(c, l)
    BY <1>3, ServeInv
  <1>4. CASE CtrlC
    BY <1>4, CtrlCInv
  <1>5. CASE Restart
    <2>1. Fresh'
      BY <1>5 DEF Restart, Fresh, ProcessInv, TypeOK
    <2>2. Fresh' => ProcessInv'
      BY FreshInv, PTL
    <2>3. QED
      BY <2>1, <2>2
  <1>6. QED
    BY <1>1, <1>2, <1>3, <1>4, <1>5 DEF Next

\* The invariant holds in every reachable state.
LEMMA ProcessInvAlways == Spec => []ProcessInv
  <1>1. Init => ProcessInv
    BY FreshInv DEF Init, Fresh
  <1>2. QED
    BY <1>1, NextInv, PTL DEF Spec

-----------------------------------------------------------------------------
(* Theorems *)

\* The process's variables keep their types in every reachable state.
THEOREM TypeCorrect == Spec => []TypeOK
  BY ProcessInvAlways, PTL DEF ProcessInv

\* A client gets a connection only in a process whose start-up has passed every
\* check its settings call for: the plugins' first load, Redis and the issuer
\* reached as set, the identity for backends, usable TLS settings; and in clear
\* only if a TCP address was given. A listener may have ended: that both run is
\* not claimed (main, run_gateway).
THEOREM ServesOnlyAsConfigured == Spec => []ServesAsConfigured
  <1>1. ProcessInv => ServesAsConfigured
    BY DEF ProcessInv, ListenerInv, ConnInv, ServesAsConfigured
  <1>2. QED
    BY <1>1, ProcessInvAlways, PTL

\* No document that could not be read lets a process serve without its
\* restrictions, whatever is published meanwhile (get_global_config, main).
THEOREM RestrictionsAlwaysApplied == Spec => []RestrictionsApplied
  <1>1. ProcessInv => RestrictionsApplied
    BY DEF ProcessInv, StageInv, ReadInv, HasConfig, RestrictionsApplied
  <1>2. QED
    BY <1>1, ProcessInvAlways, PTL

\* A process that ends by itself cuts no connection of its TCP listener, in
\* whatever order the listeners end (handle_tcp, join_all).
THEOREM TcpIsGraceful == Spec => []GracefulTcp
  BY ProcessInvAlways, PTL DEF ProcessInv

=============================================================================
