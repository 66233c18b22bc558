SPECIFICATION Spec
CONSTANTS
  Ops = {AcceptOp, o1, o2}
  AcceptOp = AcceptOp
  RingSizes = {1, 3}
  Word = 16
  ShortEnters = TRUE
  Free = Free
PROPERTIES
  AreQueues
  EntriesTaken
