SPECIFICATION SafeSpec
CONSTANTS
  Nano = 3
  IntHalf = 2
  Wide = 16
  Conns = {c1, c2}
  Capacity = 2
  MaxBatch = 2
  MaxTime = 4
  MaxEvents = 4
  None = None
INVARIANT EndIsStop
