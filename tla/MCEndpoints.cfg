SPECIFICATION ESpec
CONSTANTS
    SecretType = "access_token"
    LoginTTL = 2
    TokenMaxTTL = 2
    CredentialTTL = 2
    MaxWait = 1
    MaxDelay = 0
    Revocable = FALSE
    MaxRebinds = 1
    None = None
INVARIANTS NeverTurnedAway AccountNotOlder
PROPERTY EventuallyTold
