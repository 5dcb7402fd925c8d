SPECIFICATION FairSpec
CONSTANTS
  Addr = {0, 1, 2}
  Credit = 3
INVARIANTS ReadReturnsAddressed PufReturnsRequested
PROPERTY ReadCompletes
