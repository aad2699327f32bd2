SPECIFICATION Spec
CONSTANTS
    Node <- MCNode
    Root <- MCRoot
    Children <- MCChildren
    Path <- MCPath
    NoLeaf = NoLeaf
    Length = 4
    Pattern = {1, 2, 3}
    Specificity <- MCSpecificity
    Config <- MCConfig
    Payload <- MCPayload
INVARIANTS
    RedactionExact
    BlocksByRegions
    MostSpecificNamed
