------------------------- MODULE MCUserConfigStore -------------------------
(* Small instances of UserConfigStore. *)
EXTENDS UserConfigStore, TLC

\* Requests and configurations are interchangeable.
Symmetry == Permutations(Request) \cup Permutations(Config)
=============================================================================
