SPECIFICATION CpuWriteSpec
CONSTANTS
  MAX_CREDITS = 4
  MaxWord = 2
  Lengths = {0, 1}
  Payloads = {2}
  ENABLE_AHB_WRITE = FALSE
PROPERTY CommittedWordsStable
