-------------------------- MODULE MCPluginRegistry --------------------------
(* Small instances of PluginRegistry. *)
EXTENDS RegistryRefinement, TLC

CONSTANTS both, postonly, broken, junk

\* Runtimes and calls are interchangeable; sound for the safety runs only.
Symmetry == Permutations(Runtime) \cup Permutations(Call)

\* both and postonly disagree on every operation; a broken document decodes but does
\* not build, junk does not decode.
MCDoc       == {both, postonly, broken, junk}
MCDecodable == {both, postonly, broken}
MCBuildable == {both, postonly}

\* One document of each kind, where a second good one adds nothing.
OneGoodDoc       == {both, broken, junk}
OneGoodDecodable == {both, broken}
OneGoodBuildable == {both}

DeclaredHooks(d) ==
    CASE d = both     -> [tool |-> {"pre", "post"}, prompt |-> {"pre"}, resource |-> {}]
      [] d = postonly -> [tool |-> {"post"}, prompt |-> {}, resource |-> {"pre", "post"}]
      [] OTHER        -> [op \in Operation |-> {}]

MCHooks == [d \in Doc |-> DeclaredHooks(d)]
=============================================================================
