SPECIFICATION FairSpec
CONSTANTS
    both = both
    postonly = postonly
    broken = broken
    junk = junk
    Doc <- OneGoodDoc
    Decodable <- OneGoodDecodable
    Buildable <- OneGoodBuildable
    Hooks <- MCHooks
    Runtime = {r1, r2, r3}
    Call = {c1}
    Manual = {}
    Flaky = FALSE
INVARIANTS
    TypeOK
    WatcherTracksSlot
PROPERTIES
    WatcherConverges
    ReplacedRuntimeStops
    WatcherEnds
    ImplementsFairly
