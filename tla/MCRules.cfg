SPECIFICATION Spec
CONSTANTS
    Provider = "aws"
    Match <- MCMatch
    NoIdentity = NoIdentity
    Patterns <- MCPatterns
    RuleSet <- MCRuleSet
    Namespaces <- MCNamespaces
    Identities <- MCIdentities
    MaxRules = 2
INVARIANT AdmitsExactlyThePermitted
PROPERTY LaterRuleNeverRevokes
CHECK_DEADLOCK FALSE
