SPECIFICATION RolloutSpec
CONSTANTS
    Provider = "gcp"
    Match <- MCMatch
    NoIdentity = NoIdentity
    DefaultTTL = 1
    MinTTL = 1
    MaxTTL = 2
    NoTTL = NoTTL
    EmptyTTL = EmptyTTL
    BadTTL = BadTTL
    NoScopes = NoScopes
    None = None
    Namespaces = {"system"}
    Names = {"app"}
    MCTTLs = {NoTTL}
    MCScopes = {NoScopes}
    MCIdentities = {"reader", "admin"}
    AnnotationSets <- MCAnnotationSets
    RuleLists <- MCNewLists
    OldRules <- Before
INVARIANTS RolloutInv RevokedInRollout ProvisionedInRollout
PROPERTY KeepsAccessInRollout
