SPECIFICATION QuietSpec
CONSTANTS
    Provider = "gcp"
    Match <- MCMatch
    NoIdentity = NoIdentity
    DefaultTTL = 1
    MinTTL = 1
    MaxTTL = 2
    NoTTL = NoTTL
    EmptyTTL = EmptyTTL
    BadTTL = BadTTL
    NoScopes = NoScopes
    None = None
    Namespaces = {"system", "shop"}
    Names = {"app"}
    MCTTLs <- MCNegativeTTLs
    MCScopes = {NoScopes}
    MCIdentities = {"admin"}
    AnnotationSets <- MCAnnotationSets
    RuleLists <- MCTwoLists
INVARIANTS Revoked Provisioned
PROPERTIES SteadyKeepsAccess EventuallyRevoked EventuallyProvisioned
CHECK_DEADLOCK FALSE
