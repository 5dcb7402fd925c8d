SPECIFICATION FairSpec
CONSTANTS
  MAX_CREDITS = 4
  Deltas = {2}
  Thresholds = {2}
  RETRY_COUNT = 1
INVARIANTS NoMint NoLeak
PROPERTIES CreditServed DoorbellServed
