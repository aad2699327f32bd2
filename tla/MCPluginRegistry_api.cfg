SPECIFICATION Spec
CONSTANTS
    both = both
    postonly = postonly
    broken = broken
    junk = junk
    Doc <- MCDoc
    Decodable <- MCDecodable
    Buildable <- MCBuildable
    Hooks <- MCHooks
    Runtime = {r1, r2, r3}
    Call = {c1}
    Manual = {m}
    Flaky = TRUE
INVARIANTS
    PinnedRuntimeIntact
    OneConfigPerCall
PROPERTY
    Implements
SYMMETRY Symmetry
