SPECIFICATION FairSpec
CONSTANTS
    Provider = "gcp"
    Match <- MCMatch
    NoIdentity = NoIdentity
    DefaultTTL = 1
    MinTTL = 1
    MaxTTL = 2
    NoTTL = NoTTL
    EmptyTTL = EmptyTTL
    BadTTL = BadTTL
    NoScopes = NoScopes
    None = None
    Namespaces = {"system"}
    Names = {"app"}
    MCTTLs = {NoTTL}
    MCScopes = {NoScopes, "cloud"}
    MCIdentities = {"admin"}
    AnnotationSets <- MCAnnotationSets
    RuleLists <- MCRuleLists
PROPERTIES EventuallyProvisioned ImplementsFairAccess
