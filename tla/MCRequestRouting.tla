-------------------------- MODULE MCRequestRouting --------------------------
EXTENDS RequestRouting, TLC

CONSTANTS r1, r2, ann, bob, v1, b1, b2, n1, n2, n3

To(b, n) == [backend |-> b, upstream |-> n]

\* In the first configuration n2 and n3 lead to the same URI at two backends;
\* in the second they lead to one backend, and n1 to a backend that is missing.
MCConfig ==
    {v1 :> [backends |-> {b1, b2},
            tools |-> n1 :> To(b1, n1),
            prompts |-> n1 :> To(b2, n2),
            resources |-> (n1 :> To(b1, n1)) @@ (n2 :> To(b1, n3)) @@ (n3 :> To(b2, n3)),
            templates |-> n2 :> To(b2, n1)],
     v1 :> [backends |-> {b2},
            tools |-> n1 :> To(b1, n1),
            prompts |-> <<>>,
            resources |-> (n1 :> To(b1, n2)) @@ (n2 :> To(b2, n3)) @@ (n3 :> To(b2, n3)),
            templates |-> <<>>],
     <<>>}

Asks(user, method, name) ==
    [limits |-> TRUE, path |-> v1, auth |-> "accepted", user |-> user, method |-> method, name |-> name]

Refused ==
    LET ask == Asks(ann, "read_resource", n1) IN
    {[ask EXCEPT !.limits = FALSE], [ask EXCEPT !.path = None],
     [ask EXCEPT !.auth = "unmapped"], [ask EXCEPT !.auth = "rejected"]}

MCInput ==
    Refused \cup {Asks(u, "read_resource", n1) : u \in {ann, bob}}
            \cup {Asks(ann, m, n1) : m \in {"call_tool", "get_prompt", "complete_prompt"} \cup Local}
            \cup {Asks(ann, "complete_resource", n) : n \in {n1, n2}}

RequestSymmetry == Permutations({r1, r2})

=============================================================================
