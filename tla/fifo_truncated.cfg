SPECIFICATION TruncatedSpec
CONSTANTS
  MAX_CREDITS = 4
  MaxWord = 3
  Lengths = {0, 1, 2}
  Payloads = {0, 3}
  ENABLE_AHB_WRITE = TRUE
INVARIANT EmptyIsAligned
