------------------------------ MODULE TrackedOps ------------------------------
(***************************************************************************)
(* What the allocation tracker of the io_uring server promises: the        *)
(* cleanup finds every iou_op that is still allocated, each once, in       *)
(* whatever order they were allocated and given back before.  IouServer    *)
(* works with this set (its variable tracked); MemTracker implements it.   *)
(***************************************************************************)
CONSTANT Objects

VARIABLES
  phase,     \* "serving", "closing", "exited", or "failed" in an assertion
  tracked    \* the objects the tracker knows

vars == <<phase, tracked>>

Init == phase = "serving" /\ tracked = {}

Track(o) ==
  /\ phase = "serving" /\ o \notin tracked
  /\ tracked' = tracked \cup {o}
  /\ UNCHANGED phase

Forget(o) ==
  /\ phase = "serving" /\ o \in tracked
  /\ tracked' = tracked \ {o}
  /\ UNCHANGED phase

Stop ==
  /\ phase = "serving"
  /\ phase' = "closing"
  /\ UNCHANGED tracked

Release(o) ==
  /\ phase = "closing" /\ o \in tracked
  /\ tracked' = tracked \ {o}
  /\ UNCHANGED phase

Fail ==
  /\ phase = "closing" /\ tracked # {}
  /\ phase' = "failed"
  /\ UNCHANGED tracked

Exit ==
  /\ phase = "closing" /\ tracked = {}
  /\ phase' = "exited"
  /\ UNCHANGED tracked

Next ==
  \/ \E o \in Objects : Track(o) \/ Forget(o) \/ Release(o)
  \/ Stop \/ Fail \/ Exit

SafeSpec == Init /\ [][Next]_vars

\* Once stopped, the cleanup comes to an end.
Spec == SafeSpec /\ WF_vars((\E o \in Objects : Release(o)) \/ Fail \/ Exit)

=============================================================================
