SPECIFICATION Spec
CONSTANTS
  Addr = {0, 4}
  TX_IDLE_GAP = 2
  TX_STALL_TIMEOUT = 4
  MAX_SIDEBAND_BURST = 3
INVARIANTS SentIffAcked AnsweredInTime TimeoutMeansLinkStalled
