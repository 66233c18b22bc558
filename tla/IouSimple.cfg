SPECIFICATION SafeSpec
CONSTANTS
  Clients = {c1, c2}
  MaxMsgs = 2
  Window = 2
  BufSize = 4
  Faults = {"short", "accept"}
  RingSize = 3
  SqPoll = FALSE
  Benchmarking = TRUE
  Fds = {3, 4}
  AcceptOp = AcceptOp
  TimerOp = TimerOp
  None = None
SYMMETRY ClientSymmetry
INVARIANTS
  TypeOK
  SingleOwner
  DispatchMatches
  FdsOwned
  SubmitsAll
  RingSuffices
  EchoInOrder
  CloseNeverFails
PROPERTIES
  NoEarlyClose
  EchoSafe
