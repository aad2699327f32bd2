SPECIFICATION FairSpec
CONSTANT Note = {n1, n2}
INVARIANTS
    TypeOK
    EarlyProgressRouted
    NoLostContext
PROPERTIES
    CallReturns
    NotesSettle
CHECK_DEADLOCK FALSE
