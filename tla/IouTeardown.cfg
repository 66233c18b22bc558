SPECIFICATION SafeSpec
CONSTANTS
  Clients = {c1, c2}
  MaxMsgs = 1
  Window = 1
  BufSize = 4
  Faults = {}
  RingSize = 3
  SqPoll = FALSE
  Benchmarking = FALSE
  Fds = {3, 4}
  AcceptOp = AcceptOp
  TimerOp = TimerOp
  None = None
SYMMETRY ClientSymmetry
INVARIANTS
  GracefulTeardown
