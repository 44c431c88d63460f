SPECIFICATION Spec
CONSTANTS
    Provider = "aws"
    Match <- MCMatch
    NoIdentity = NoIdentity
    DefaultTTL = 1
    MinTTL = 1
    MaxTTL = 2
    NoTTL = NoTTL
    EmptyTTL = EmptyTTL
    BadTTL = BadTTL
    NoScopes = NoScopes
    None = None
    Namespaces = {"system"}
    Names = {"app"}
    MCTTLs = {NoTTL, EmptyTTL, 2}
    MCScopes = {NoScopes}
    MCIdentities = {"reader", "admin"}
    AnnotationSets <- MCAnnotationSets
    RuleLists <- MCRuleLists
INVARIANTS IInv Revoked Provisioned
PROPERTIES SteadyKeepsAccess ImplementsAccess
