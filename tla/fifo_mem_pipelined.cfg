SPECIFICATION PipelinedSpec
CONSTANTS
  Addr = {0, 1, 2}
  Credit = 3
INVARIANT ReadReturnsAddressed
