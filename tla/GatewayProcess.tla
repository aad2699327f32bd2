--------------------------- MODULE GatewayProcess ---------------------------
(***************************************************************************)
(* The process: start-up from the command line and the global              *)
(* configuration, the TCP and the TLS listener, and the end by Ctrl-C.     *)
(* Both listeners serve the same router; they differ in how they hear of   *)
(* Ctrl-C and in what they do with the requests they are serving.          *)
(*                                                                         *)
(* Code: contextforge-data-plane/src/main.rs; in contextforge-data-plane-  *)
(* lib/src lib.rs, transports/, common/, config_stores/                    *)
(* global_config_store.rs and authorization/jwks/jwks_authorization.rs.    *)
(***************************************************************************)
EXTENDS Naturals

CONSTANTS
    Settings,    \* the command lines the process may be started with
    Document,    \* global configurations, each with what its bytes contain
    NoDocument,  \* the key is not set
    NoAnswer,    \* GET failed
    Connection,  \* clients
    Unset        \* a field a document does not set, or a value not yet known

\* The path of a file is not given, its content is unusable, or usable.
File == {"absent", "bad", "good"}

Setting ==
    [tcp      : BOOLEAN,
     tls      : [address : BOOLEAN, certificate : File, key : File],
     redis    : [authority : BOOLEAN, mode : {"PlainText", "Tls", "Mtls"},
                 bundle : File, certificate : File, key : File],
     upstream : [mode : {"TlsOnly", "PlainTextOrTls", "PlainTextOrMTls", "MtlsOnly"},
                 bundle : File, certificate : File, key : File],
     jwks     : [url : {"https", "loopback", "http"}, ca : File],
     cel      : File,
     plugins  : BOOLEAN]

\* What the router takes from the global configuration.
Restrictions == [hosts : {Unset, "good"}, origins : {Unset, "given"}, limits : {"default", "given"}]

ASSUME ProcessAssumption ==
    /\ Settings \subseteq Setting
    /\ {NoDocument, NoAnswer, Unset} \cap Document = {}
    /\ Unset \notin Restrictions
    /\ \A d \in Document :
          /\ d.decodes \in BOOLEAN
          /\ d.hosts \in {Unset, "bad", "good"}
          /\ d.origins \in {Unset, "given"}
          /\ d.limits \in {Unset, "zero", "given"}

Listener == {"tcp", "tls"}

VARIABLES
    stage,    \* how far main is; "refused" is a return with an error
    settings, \* CliConfig
    stored,   \* the global configuration in Redis
    read,     \* what GET answered: a document, NoDocument, NoAnswer; Unset before
    config,   \* the restrictions the router is built with; Unset before
    loaded,   \* the first load of the plugins was successful
    handler,  \* tokio's SIGINT handler is installed
    listener, \* what each listener does
    watch,    \* each listener's ctrl_c() future
    via,      \* the listener a connection came to
    conn      \* what became of a connection

start == <<settings, read, config, loaded>>
serve == <<handler, listener, watch, via, conn>>
vars  == <<stage, stored, start, serve>>

Ended == {"refused", "exited", "killed"}

Defaults == [hosts |-> Unset, origins |-> Unset, limits |-> "default"]

TypeOK ==
    /\ stage \in {"settings", "global", "authorization", "plugins", "router", "serving"} \cup Ended
    /\ settings \in Settings
    /\ stored \in Document \cup {NoDocument}
    /\ read \in Document \cup {NoDocument, NoAnswer, Unset}
    /\ config \in {Unset} \cup Restrictions
    /\ loaded \in BOOLEAN
    /\ handler \in BOOLEAN
    /\ listener \in [Listener -> {"off", "binding", "open", "draining", "ended"}]
    /\ watch \in [Listener -> {"none", "waiting", "notified"}]
    /\ via \in [Connection -> Listener \cup {Unset}]
    /\ conn \in [Connection -> {"none", "queued", "open", "done", "refused", "cut"}]

Init ==
    /\ stage = "settings"
    /\ settings \in Settings
    /\ stored \in Document \cup {NoDocument}
    /\ read = Unset
    /\ config = Unset
    /\ loaded = FALSE
    /\ handler = FALSE
    /\ listener = [l \in Listener |-> "off"]
    /\ watch = [l \in Listener |-> "none"]
    /\ via = [c \in Connection |-> Unset]
    /\ conn = [c \in Connection |-> "none"]

-----------------------------------------------------------------------------
(* Start-up *)

\* The control plane replaces or removes the global configuration.
Publish ==
    /\ stored' \in (Document \cup {NoDocument}) \ {stored}
    /\ UNCHANGED <<stage, start, serve>>

\* RedisConfig::try_from, validate_certs, validate_key
RedisConfigured(r) ==
    /\ r.authority
    /\ r.mode \in {"Tls", "Mtls"} => r.bundle = "good"
    /\ r.mode = "Mtls" => r.certificate = "good" /\ r.key = "good"

\* parse_jwks_url, load_ca_certificates
AuthorizationConfigured(j) == j.url # "http" /\ j.ca # "bad"

\* reqwest::Client::try_from, extract_identity
ClientConfigured(u) ==
    /\ u.mode \in {"PlainTextOrMTls", "MtlsOnly"} => u.certificate = "good" /\ u.key = "good"
    /\ u.bundle # "bad"

\* Option::<DownstreamTls>::try_from is not an error.
TlsConfigured(t) == t.address => t.certificate = "good" /\ t.key = "good"

\* main goes on, or returns: an error of run_gateway it only logs.
Goto(to) ==
    /\ stage' = to
    /\ UNCHANGED <<stored, start, serve>>

\* CliConfig::try_parse, Config::try_from, init_tracing_logging; the first and
\* the last may fail whatever the settings are.
Configure ==
    /\ stage = "settings"
    /\ \/ RedisConfigured(settings.redis) /\ Goto("global")
       \/ Goto("refused")

\* configured_or_default of what Config::merge keeps
Limits(d) == IF d.limits = "given" THEN "given" ELSE "default"

\* Mutant: bytes that do not decode are like a key that is not set.
Merge_Undecodable(d) ==
    IF d.decodes
    THEN /\ d.hosts # "bad"
         /\ config' = [hosts |-> d.hosts, origins |-> d.origins, limits |-> Limits(d)]
    ELSE config' = Defaults

\* Config::merge of a document that decodes and names only authorities
Merge(d) ==
    /\ d.decodes
    /\ d.hosts # "bad"
    /\ config' = [hosts |-> d.hosts, origins |-> d.origins, limits |-> Limits(d)]

\* get_global_config is Ok and the document can be merged.
GlobalRead ==
    /\ stage = "global"
    /\ stored \in Document
    /\ Merge(stored)
    /\ read' = stored
    /\ stage' = "authorization"
    /\ UNCHANGED <<stored, settings, loaded, serve>>

\* GET answers nothing or fails: get_config reports NoDataForKey for both.
GlobalMissing ==
    /\ stage = "global"
    /\ read' \in {NoDocument, NoAnswer}
    /\ read' = NoDocument => stored = NoDocument
    /\ config' = Defaults
    /\ stage' = "authorization"
    /\ UNCHANGED <<stored, settings, loaded, serve>>

\* The connection is not made, or the document does not decode or merge.
GlobalRefused ==
    /\ stage = "global"
    /\ Goto("refused")

\* get_authorization_service
Authorize ==
    /\ stage = "authorization"
    /\ IF AuthorizationConfigured(settings.jwks) THEN Goto("plugins") ELSE Goto("refused")

\* Mutant: a failed first load is logged and the process goes on.
InitializePlugins_Lenient ==
    /\ stage = "plugins"
    /\ \/ Goto("router")
       \/ /\ settings.plugins
          /\ stage' = "router"
          /\ loaded' = TRUE
          /\ UNCHANGED <<stored, settings, read, config, serve>>

\* initialize_cpex_runtime; what initialize() does is in PluginRegistry.
InitializePlugins ==
    /\ stage = "plugins"
    /\ \/ ~ settings.plugins /\ Goto("router")
       \/ settings.plugins /\ Goto("refused")
       \/ /\ settings.plugins
          /\ stage' = "router"
          /\ loaded' = TRUE
          /\ UNCHANGED <<stored, settings, read, config, serve>>

\* Mutant: TLS settings that cannot be used leave the TCP listener.
StartListeners_TcpAnyway ==
    /\ stage = "router"
    /\ ClientConfigured(settings.upstream)
    /\ settings.cel # "bad"
    /\ settings.tcp \/ settings.tls.address
    /\ stage' = "serving"
    /\ listener' = [tcp |-> IF settings.tcp THEN "binding" ELSE "off",
                    tls |-> IF settings.tls.address /\ TlsConfigured(settings.tls) THEN "binding" ELSE "off"]
    /\ UNCHANGED <<stored, start, handler, watch, via, conn>>

\* run_gateway builds the router and the listeners the settings ask for.
StartListeners ==
    /\ stage = "router"
    /\ ClientConfigured(settings.upstream)
    /\ settings.cel # "bad"
    /\ TlsConfigured(settings.tls)
    /\ settings.tcp \/ settings.tls.address
    /\ stage' = "serving"
    /\ listener' = [tcp |-> IF settings.tcp THEN "binding" ELSE "off",
                    tls |-> IF settings.tls.address THEN "binding" ELSE "off"]
    /\ UNCHANGED <<stored, start, handler, watch, via, conn>>

\* An error of run_gateway, or no connection to Redis: main returns Ok.
GatewayFails ==
    /\ stage = "router"
    /\ Goto("exited")

-----------------------------------------------------------------------------
(* Listeners *)

\* TcpListener::try_from: bind and listen, from where on the kernel queues.
Bind(l) ==
    /\ listener[l] = "binding"
    /\ listener' = [listener EXCEPT ![l] = "open"]
    /\ UNCHANGED <<stage, stored, start, handler, watch, via, conn>>

\* The address is taken or may not be used: this listener's future ends, and
\* join_all drops its error; the other listener is not told.
BindFails(l) ==
    /\ listener[l] = "binding"
    /\ listener' = [listener EXCEPT ![l] = "ended"]
    /\ UNCHANGED <<stage, stored, start, handler, watch, via, conn>>

\* Mutant: the TLS loop has no branch for Ctrl-C.
Watch_TcpOnly(l) ==
    /\ l = "tcp"
    /\ listener[l] = "open"
    /\ watch[l] = "none"
    /\ watch' = [watch EXCEPT ![l] = "waiting"]
    /\ handler' = TRUE
    /\ UNCHANGED <<stage, stored, start, listener, via, conn>>

\* ctrl_c() is polled for the first time: from here on it hears of signals,
\* and the process no longer dies of them.
Watch(l) ==
    /\ listener[l] = "open"
    /\ watch[l] = "none"
    /\ watch' = [watch EXCEPT ![l] = "waiting"]
    /\ handler' = TRUE
    /\ UNCHANGED <<stage, stored, start, listener, via, conn>>

\* A client connects.
Arrive(c, l) ==
    /\ conn[c] = "none"
    /\ listener[l] = "open"
    /\ conn' = [conn EXCEPT ![c] = "queued"]
    /\ via' = [via EXCEPT ![c] = l]
    /\ UNCHANGED <<stage, stored, start, handler, listener, watch>>

\* Mutant: both listeners wait for Ctrl-C afresh after each connection.
Accept_Afresh(c) ==
    /\ conn[c] = "queued"
    /\ listener[via[c]] = "open"
    /\ conn' = [conn EXCEPT ![c] = "open"]
    /\ watch' = [watch EXCEPT ![via[c]] = "none"]
    /\ UNCHANGED <<stage, stored, start, handler, listener, via>>

\* accept() wins, with or without Ctrl-C pending: axum's signal stays
\* pending, but the TLS loop's select! drops its ctrl_c() with the iteration.
Accept(c) ==
    /\ conn[c] = "queued"
    /\ listener[via[c]] = "open"
    /\ conn' = [conn EXCEPT ![c] = "open"]
    /\ watch' = IF via[c] = "tls" THEN [watch EXCEPT !["tls"] = "none"] ELSE watch
    /\ UNCHANGED <<stage, stored, start, handler, listener, via>>

\* The request is answered, or the connection or its handshake fails.
Finish(c) ==
    /\ conn[c] = "open"
    /\ conn' = [conn EXCEPT ![c] = "done"]
    /\ UNCHANGED <<stage, stored, start, handler, listener, watch, via>>

\* The socket is closed: what was queued on it is refused.
Close(l, to) ==
    /\ listener' = [listener EXCEPT ![l] = to]
    /\ conn' = [c \in Connection |->
                  IF conn[c] = "queued" /\ via[c] = l THEN "refused" ELSE conn[c]]
    /\ UNCHANGED <<stage, stored, start, handler, watch, via>>

\* accept() fails (no file descriptors left): handle_tls returns the error.
TlsAcceptFails ==
    /\ listener["tls"] = "open"
    /\ Close("tls", "ended")

\* axum stops accepting.
TcpDrain ==
    /\ listener["tcp"] = "open"
    /\ watch["tcp"] = "notified"
    /\ Close("tcp", "draining")

\* axum waits for the connections it accepted.
TcpDrained ==
    /\ listener["tcp"] = "draining"
    /\ \A c \in Connection : via[c] = "tcp" => conn[c] # "open"
    /\ Close("tcp", "ended")

\* handle_tls returns; the connections run in tasks of their own.
TlsStop ==
    /\ listener["tls"] = "open"
    /\ watch["tls"] = "notified"
    /\ Close("tls", "ended")

\* The listeners and the tasks that still run end with the process.
CutOff ==
    /\ listener' = [l \in Listener |-> IF listener[l] = "off" THEN "off" ELSE "ended"]
    /\ conn' = [c \in Connection |-> IF conn[c] \in {"queued", "open"} THEN "cut" ELSE conn[c]]

\* The operator or a supervisor sends SIGINT.
CtrlC ==
    /\ stage \notin Ended
    /\ \/ /\ ~ handler
          /\ stage' = "killed"
          /\ CutOff
          /\ UNCHANGED <<stored, start, handler, watch, via>>
       \/ /\ handler
          /\ watch' = [l \in Listener |-> IF watch[l] = "waiting" THEN "notified" ELSE watch[l]]
          /\ UNCHANGED <<stage, stored, start, handler, listener, via, conn>>

\* Mutant: the first listener to end ends the process.
AllEnded_First == \E l \in Listener : listener[l] = "ended"

\* join_all
AllEnded == \A l \in Listener : listener[l] \in {"off", "ended"}

\* run_gateway and main return Ok.
Exit ==
    /\ stage = "serving"
    /\ AllEnded
    /\ stage' = "exited"
    /\ CutOff
    /\ UNCHANGED <<stored, start, handler, watch, via>>

\* A new process; what Redis holds stays.
Restart ==
    /\ stage \in Ended
    /\ stage' = "settings"
    /\ settings' \in Settings
    /\ read' = Unset
    /\ config' = Unset
    /\ loaded' = FALSE
    /\ handler' = FALSE
    /\ listener' = [l \in Listener |-> "off"]
    /\ watch' = [l \in Listener |-> "none"]
    /\ via' = [c \in Connection |-> Unset]
    /\ conn' = [c \in Connection |-> "none"]
    /\ UNCHANGED stored

Start == Configure \/ GlobalRead \/ GlobalMissing \/ GlobalRefused \/ Authorize
            \/ InitializePlugins \/ StartListeners \/ GatewayFails

Serve == \/ \E l \in Listener : Bind(l) \/ BindFails(l) \/ Watch(l)
         \/ \E c \in Connection : Accept(c) \/ Finish(c)
         \/ TlsAcceptFails \/ TcpDrain \/ TcpDrained \/ TlsStop \/ Exit

Next == \/ Publish \/ Start \/ Serve \/ CtrlC \/ Restart
        \/ \E c \in Connection, l \in Listener : Arrive(c, l)

Spec == Init /\ [][Next]_vars

\* Tokio runs the tasks that are ready, clients and backends end their
\* requests or drop them. Nothing is assumed of Ctrl-C.
Fairness ==
    /\ WF_vars(Start)
    /\ \A l \in Listener : WF_vars(Bind(l) \/ BindFails(l)) /\ WF_vars(Watch(l))
    /\ \A c \in Connection : WF_vars(Accept(c)) /\ WF_vars(Finish(c))
    /\ WF_vars(TcpDrain) /\ WF_vars(TcpDrained)
    /\ WF_vars(TlsStop) /\ WF_vars(Exit)

FairSpec == Spec /\ Fairness

-----------------------------------------------------------------------------
(* Properties *)

\* What a client of listener l may rely on.
AsConfigured(l) ==
    /\ config # Unset
    /\ settings.plugins => loaded
    /\ settings.redis.mode \in {"Tls", "Mtls"} => settings.redis.bundle = "good"
    /\ settings.jwks.url # "http"
    /\ settings.upstream.mode \in {"PlainTextOrMTls", "MtlsOnly"} =>
          settings.upstream.certificate = "good" /\ settings.upstream.key = "good"
    /\ settings.tls.address => settings.tls.certificate = "good" /\ settings.tls.key = "good"
    /\ IF l = "tcp" THEN settings.tcp ELSE settings.tls.address

\* A client gets a connection, over TCP or TLS, only when start-up has ended
\* with every check the settings call for: the global configuration is decided,
\* the plugins are loaded, Redis and the issuer are not spoken to in clear
\* against the settings, and there is an identity for backends that want one.
\* TLS settings that cannot be used close TCP too, and a client is served in
\* clear only if a TCP address was given. It does not say that both listeners
\* run: a TLS listener that cannot bind, or whose accept failed, has ended, and
\* TCP goes on alone (main, the match of run_gateway).
ServesAsConfigured ==
    \A c \in Connection : conn[c] # "none" => AsConfigured(via[c])

\* A process serves without the restrictions of a global configuration only
\* if Redis had none or its GET failed, never because the document could
\* not be read (get_global_config and the match in main).
RestrictionsApplied ==
    stage = "serving" /\ read \notin {NoDocument, NoAnswer} =>
        /\ read.decodes
        /\ config.hosts = read.hosts
        /\ config.origins = read.origins
        /\ read.limits = "given" => config.limits = "given"

\* A process that ends by itself has answered every request its TCP listener
\* accepted, also when the TLS listener ended first (handle_tcp, join_all).
GracefulTcp ==
    stage = "exited" => \A c \in Connection : via[c] = "tcp" => conn[c] # "cut"

\* One Ctrl-C is enough for the TCP listener once it waits for it, whatever
\* connections are accepted meanwhile (handle_tcp).
SignalEndsTcp == (watch["tcp"] = "notified") ~> (listener["tcp"] = "ended")

\* The TLS listener may miss a Ctrl-C, but a process that is sent Ctrl-C
\* again and again ends once no more clients come (handle_tls).
RepeatedSignalsEnd == WF_vars(CtrlC) => (stage = "serving" ~> stage \in Ended)

=============================================================================
