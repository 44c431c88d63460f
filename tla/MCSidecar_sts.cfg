SPECIFICATION Spec
CONSTANTS
    SecretType = "sts"
    LoginTTL = 4
    TokenMaxTTL = 10
    CredentialTTL = 12
    MaxWait = 2
    MaxDelay = 1
    Revocable = TRUE
    MaxRebinds = 0
    None = None
INVARIANTS TypeOK RInv RecoversInTime TokenEndsOfAge
