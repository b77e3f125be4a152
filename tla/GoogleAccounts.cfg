CONSTANTS
  NumAccounts = 2
  MaxConsent = 2
  MaxFaults = 1
SPECIFICATION AccountsSpec
INVARIANT AccountsTypeOK
INVARIANT SecretsReadable
INVARIANT RowAndSecretAgree
INVARIANT LatestConsentIsStored
