SPECIFICATION Spec
CONSTANTS
    None = None
    Operators <- MCOperators
    Unreadable <- MCUnreadable
    ServiceAccounts <- MCServiceAccounts
    Foreign <- MCForeign
    MaxUp = 2
INVARIANTS ClearsOrphans SidecarsUnderstand
PROPERTY DeletesOnlyOwn
