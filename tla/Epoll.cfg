SPECIFICATION Spec
CONSTANTS
  Clients = {c1, c2}
  MaxMsgs = 2
  Window = 2
  BufSize = 4
  Faults = {"short", "accept"}
  MaxEvents = 2
  Benchmarking = TRUE
  Fds = {3, 4}
  Listener = Listener
  Timer = Timer
  None = None

INVARIANTS
  TypeOK
  NoDanglingEvent
  DispatchMatches
  NoLostEdge
  FdsOwned
  NoSpuriousFailure
PROPERTIES
  EchoLive
  SignalStops
