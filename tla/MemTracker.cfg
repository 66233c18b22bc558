SPECIFICATION Spec
CONSTANTS
  Ops = {o1, o2, o3}
  Nodes = {n1, n2, n3, n4}
  Null = Null
INVARIANTS
  ListLinked
  WalkFinds
PROPERTIES
  Tracks
