CONSTANTS
  NumAccounts = 2
  MaxConsent = 1
  MaxFaults = 1
  MaxRev = 1
SPECIFICATION Spec
INVARIANT TypeOK
INVARIANT DeletionsReported
PROPERTY SiblingsKeepSyncing
