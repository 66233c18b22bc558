------------------------------- MODULE OpQueues -------------------------------
(***************************************************************************)
(* What the two rings of io_uring promise to the server: first in, first   *)
(* out queues of objects, of which the first refuses an entry only when    *)
(* ring_size are waiting in it.  IouServer works with these queues;        *)
(* IouRings implements them with indices into shared memory.               *)
(***************************************************************************)
EXTENDS Naturals, Sequences

CONSTANT Ops

VARIABLES
  ring_size,
  held,     \* objects that are with the server
  sq,       \* submitted, not taken by the kernel
  kern,     \* taken, not completed
  cq,       \* completed, not reaped
  refused   \* whether an entry was refused, which ends the process

vars == <<ring_size, held, sq, kern, cq, refused>>

Init ==
  /\ ring_size \in Nat \ {0}
  /\ held = Ops /\ sq = <<>> /\ kern = {} /\ cq = <<>> /\ refused = FALSE

Submit(o) ==
  /\ o \in held /\ Len(sq) < ring_size
  /\ held' = held \ {o} /\ sq' = Append(sq, o)
  /\ UNCHANGED <<ring_size, kern, cq, refused>>

Refuse ==
  /\ Len(sq) >= ring_size
  /\ refused' = TRUE
  /\ UNCHANGED <<ring_size, held, sq, kern, cq>>

Take ==
  /\ sq # <<>>
  /\ sq' = Tail(sq) /\ kern' = kern \cup {Head(sq)}
  /\ UNCHANGED <<ring_size, held, cq, refused>>

Complete(o) ==
  /\ o \in kern
  /\ kern' = kern \ {o} /\ cq' = Append(cq, o)
  /\ UNCHANGED <<ring_size, held, sq, refused>>

Reap ==
  /\ cq # <<>>
  /\ cq' = Tail(cq) /\ held' = held \cup {Head(cq)}
  /\ UNCHANGED <<ring_size, sq, kern, refused>>

Next ==
  \/ \E o \in Ops : Submit(o) \/ Complete(o)
  \/ Refuse \/ Take \/ Reap

SafeSpec == Init /\ [][Next]_vars

=============================================================================
