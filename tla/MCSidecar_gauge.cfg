SPECIFICATION Spec
CONSTANTS
    SecretType = "sts"
    LoginTTL = 4
    TokenMaxTTL = 10
    CredentialTTL = 12
    MaxWait = 2
    MaxDelay = 0
    Revocable = FALSE
    MaxRebinds = 0
    None = None
INVARIANT GaugeTellsCredentials
