---------------------------- MODULE MCJwksCache ----------------------------
(* Small instances of JwksCache. *)
EXTENDS JwksCache, TLC

CONSTANTS old, new, next, odd, bad

\* old and new share a key id, next has its own; odd is an encryption key and
\* bad cannot be decoded.
MCJwk   == {old, new, next, odd, bad}
MCKind  == (old :> "rsa") @@ (new :> "rsa") @@ (next :> "rsa") @@ (odd :> "skipped") @@ (bad :> "broken")
MCKid   == {"k1", "k2"}
MCKeyId == (old :> "k1") @@ (new :> "k1") @@ (next :> "k2") @@ (odd :> "k2") @@ (bad :> NoKid)

\* Rotation under the same id, under a new id, removal, and two bad documents.
MCDocument == {{new, odd}, {old, next}, {}, {odd}, {new, bad}}

\* Tokens that name their key, one that names none, and an expired one.
MCToken ==
    {[signer |-> old,  kid |-> "k1",  timely |-> TRUE],
     [signer |-> next, kid |-> "k2",  timely |-> TRUE],
     [signer |-> new,  kid |-> NoKid, timely |-> TRUE],
     [signer |-> new,  kid |-> "k1",  timely |-> FALSE]}

Symmetry == Permutations(Request)
=============================================================================
