SPECIFICATION Spec
CONSTANTS
    root = root
    outer = outer
    inner = inner
    items = items
    item = item
    A = A
    a = a
    B = B
    headerA = headerA
    headerB = headerB
    host = host
    session = session
    auth = auth
    AUTH = AUTH
    parent = parent
    state = state
    Base = 3
    MaxSafe = 16
    MaxI64 = 9
    NoInteger = NoInteger
    Node = {root, outer, inner, items, item}
    Root = root
    Property = {outer, inner, item}
    Parent <- MCParent
    Token = {A, a, B}
    HeaderOf <- MCHeaderOf
    NotToken = NotToken
    NoSchema = NoSchema
    None = None
    Bad = Bad
    Span = Span
    Host = host
    Param = {headerA, headerB}
    Reserved = {session}
    Free = {auth, parent, state}
    Trace = {parent, state}
    Spelling <- MCSpelling
    NameOf <- MCNameOf
    Value <- MCValue
    NeedsBase64 <- MCNeedsBase64
    Call <- MCCall
    Edits <- MCEdits
INVARIANTS
    SchemaFailsClosed
    ForwardedParamsAgree
    OnlyDisagreementRefused
    ProtectedOwnedByGateway
    ConfigurationDecides
