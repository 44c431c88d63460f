SPECIFICATION Spec
CONSTANTS
    SecretType = "service_account_key"
    LoginTTL = 4
    TokenMaxTTL = 6
    CredentialTTL = 7
    MaxWait = 1
    MaxDelay = 1
    Revocable = FALSE
    MaxRebinds = 1
    None = None
INVARIANT RecoversInTime
PROPERTY KeyKeptWhileCalm
