SPECIFICATION FairSpec
CONSTANTS
    Unset = Unset
    NoDocument = NoDocument
    NoAnswer = NoAnswer
    Connection = {c1, c2}
    Settings <- MCSettings
    Document <- MCDocument
INVARIANTS
    ServesAsConfigured
    RestrictionsApplied
    GracefulTcp
PROPERTIES
    SignalEndsTcp
    RepeatedSignalsEnd
