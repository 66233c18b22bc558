SPECIFICATION SafeSpec
CONSTANTS
  Clients = {c1, c2}
  MaxMsgs = 0
  Window = 1
  BufSize = 4
  Faults = {}
  MaxEvents = 2
  Benchmarking = FALSE
  Fds = {3, 4}
  Listener = Listener
  Timer = Timer
  None = None
SYMMETRY ClientSymmetry
INVARIANTS
  NoDanglingLink
