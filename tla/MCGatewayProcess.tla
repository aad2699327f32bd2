-------------------------- MODULE MCGatewayProcess --------------------------
(* Every set of listeners, and both listeners with one part of the          *)
(* settings that is wrong or differs from the usual.                        *)
EXTENDS GatewayProcess

TcpAndTls ==
    [tcp      |-> TRUE,
     tls      |-> [address |-> TRUE, certificate |-> "good", key |-> "good"],
     redis    |-> [authority |-> TRUE, mode |-> "PlainText", bundle |-> "absent",
                   certificate |-> "absent", key |-> "absent"],
     upstream |-> [mode |-> "TlsOnly", bundle |-> "absent", certificate |-> "absent", key |-> "absent"],
     jwks     |-> [url |-> "https", ca |-> "absent"],
     cel      |-> "absent",
     plugins  |-> TRUE]

TcpOnly == [TcpAndTls EXCEPT !.tls.address = FALSE, !.plugins = FALSE]
TlsOnly == [TcpAndTls EXCEPT !.tcp = FALSE, !.cel = "good"]

RedisMtls == [authority |-> TRUE, mode |-> "Mtls", bundle |-> "good", certificate |-> "good", key |-> "good"]

MCSettings ==
    {TcpAndTls, TcpOnly, TlsOnly,
     [TcpOnly EXCEPT !.tcp = FALSE],
     [TcpOnly EXCEPT !.jwks.url = "loopback"],
     [TcpAndTls EXCEPT !.tls.key = "bad"],
     [TcpAndTls EXCEPT !.tls.certificate = "absent"],
     [TcpAndTls EXCEPT !.redis.authority = FALSE],
     [TcpAndTls EXCEPT !.redis.mode = "Tls"],
     [TcpAndTls EXCEPT !.redis = [RedisMtls EXCEPT !.key = "bad"]],
     [TcpOnly EXCEPT !.redis = RedisMtls],
     [TcpAndTls EXCEPT !.upstream.mode = "MtlsOnly", !.upstream.certificate = "good"],
     [TcpAndTls EXCEPT !.upstream.bundle = "bad"],
     [TcpAndTls EXCEPT !.jwks.url = "http"],
     [TcpAndTls EXCEPT !.jwks.ca = "bad"],
     [TcpAndTls EXCEPT !.cel = "bad"]}

MCDocument ==
    {[decodes |-> TRUE, hosts |-> "good", origins |-> Unset, limits |-> "given"],
     [decodes |-> TRUE, hosts |-> Unset, origins |-> "given", limits |-> "zero"],
     [decodes |-> TRUE, hosts |-> "bad", origins |-> Unset, limits |-> Unset],
     [decodes |-> FALSE, hosts |-> Unset, origins |-> Unset, limits |-> Unset]}
=============================================================================
