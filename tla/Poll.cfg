SPECIFICATION Spec
CONSTANTS
  Clients = {c1, c2}
  MaxMsgs = 2
  Window = 1
  BufSize = 4
  Faults = {"short", "accept"}
  InitialSize = 2
  Benchmarking = TRUE
  Fds = {3, 4}
  Timer = Timer
  None = None
  Orphan = Orphan

INVARIANTS
  TypeOK
  EventsAhead
  FdsOwned
  DispatchMatches
  NoSpuriousFailure
  GracefulTeardown
PROPERTIES
  EchoLive
  SignalStops
