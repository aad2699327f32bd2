SPECIFICATION EditSpec
CONSTANTS
    d1 = d1
    d2 = d2
    other = other
    Data = {d1, d2}
    None = None
    Name = Name
    Backend = Backend
    Id = Id
    Operation = {"tool", "prompt", "resource"}
    Arguments <- AllArguments
    Request <- AllRequests
    Response <- AllResponses
    Edit <- AllEdits
INVARIANT
    EditShownOrFailed
