------------------------------ MODULE MemTracker ------------------------------
(***************************************************************************)
(* The allocation tracker of the io_uring server (mem_t_create,            *)
(* mem_t_push_back, mem_t_remove_node of io_uring_server_utils.c) and its  *)
(* three users in main.c: handle_new_client, handle_closing_client and     *)
(* do_service_loop_cleanup.                                                *)
(*                                                                         *)
(* It is a doubly linked list of nodes with a pointer to an iou_op each;   *)
(* the iou_op points back to its node.  Memory that was given back can be  *)
(* handed out again, and keeps what was in it until then.                  *)
(***************************************************************************)
EXTENDS Integers, Sequences, SequencesExt

CONSTANTS
  Ops,     \* addresses an iou_op of a connection can have
  Nodes,   \* addresses an iou_op_mem_tracker_node can have
  Null

ASSUME NullAssumption == Null \notin Ops \cup Nodes

VARIABLES
  phase,         \* the service loop, its cleanup, or the end of the process
  head, tail,    \* mem_allocs_tracker
  next, prev,    \* the links of a node
  allocatedOp,   \* node->allocated_op
  memTracker,    \* op->mem_tracker
  liveNodes,     \* the nodes that are allocated
  liveOps,       \* the objects that are allocated
  cursor,        \* the variable tracker of do_service_loop_cleanup
  order          \* history, not in the code: the live nodes, oldest first

listVars == <<head, tail, next, prev>>
opVars == <<allocatedOp, memTracker>>
heapVars == <<liveNodes, liveOps>>
vars == <<phase, listVars, opVars, heapVars, cursor, order>>

\* mem_t_create; the nodes hold anything
Init ==
  /\ phase = "serving"
  /\ head = Null /\ tail = Null
  /\ next = [n \in Nodes |-> Null] /\ prev = [n \in Nodes |-> Null]
  /\ allocatedOp = [n \in Nodes |-> Null]
  /\ memTracker = [o \in Ops |-> Null]
  /\ liveNodes = {} /\ liveOps = {}
  /\ cursor = Null
  /\ order = <<>>

-----------------------------------------------------------------------------
\* slip: the old tail is not told of its successor (as in the epoll server)
PushBackUnlinked(n) ==
  /\ IF head = Null
     THEN /\ head' = n
          /\ next' = [next EXCEPT ![n] = Null]
          /\ prev' = [prev EXCEPT ![n] = Null]
     ELSE /\ UNCHANGED head
          /\ next' = [next EXCEPT ![n] = Null]
          /\ prev' = [prev EXCEPT ![n] = tail]
  /\ tail' = n

\* mem_t_push_back
PushBack(n) ==
  /\ IF head = Null
     THEN /\ head' = n
          /\ next' = [next EXCEPT ![n] = Null]
          /\ prev' = [prev EXCEPT ![n] = Null]
     ELSE /\ UNCHANGED head
          /\ next' = [next EXCEPT ![n] = Null, ![tail] = n]
          /\ prev' = [prev EXCEPT ![n] = tail]
  /\ tail' = n

\* slip: the tail is not repaired
RemoveNodeKeepTail(n) ==
  /\ prev' = [m \in Nodes |-> IF m = n THEN Null
                              ELSE IF m = next[n] THEN prev[n] ELSE prev[m]]
  /\ next' = [m \in Nodes |-> IF m = n THEN Null
                              ELSE IF m = prev[n] THEN next[n] ELSE next[m]]
  /\ head' = IF n = head THEN next[n] ELSE head
  /\ UNCHANGED tail

\* mem_t_remove_node
RemoveNode(n) ==
  /\ prev' = [m \in Nodes |-> IF m = n THEN Null
                              ELSE IF m = next[n] THEN prev[n] ELSE prev[m]]
  /\ next' = [m \in Nodes |-> IF m = n THEN Null
                              ELSE IF m = prev[n] THEN next[n] ELSE next[m]]
  /\ head' = IF n = head THEN next[n] ELSE head
  /\ tail' = IF n = tail THEN prev[n] ELSE tail

\* handle_new_client: two allocations, linked both ways, and the list entry
NewClient(n, o) ==
  /\ phase = "serving"
  /\ n \in Nodes \ liveNodes /\ o \in Ops \ liveOps
  /\ liveNodes' = liveNodes \cup {n} /\ liveOps' = liveOps \cup {o}
  /\ memTracker' = [memTracker EXCEPT ![o] = n]
  /\ allocatedOp' = [allocatedOp EXCEPT ![n] = o]
  /\ PushBack(n)
  /\ order' = Append(order, n)
  /\ UNCHANGED <<phase, cursor>>

\* handle_closing_client: the node is the one the object points to
ClosingClient(o) ==
  /\ phase = "serving" /\ o \in liveOps
  /\ LET n == memTracker[o] IN
       /\ RemoveNode(n)
       /\ liveNodes' = liveNodes \ {n}
       /\ \E k \in 1..Len(order) :
            order[k] = n /\ order' = RemoveAt(order, k)
  /\ liveOps' = liveOps \ {o}
  /\ UNCHANGED <<phase, opVars, cursor>>

\* the loop ends; the cleanup takes the head of the list
Stop ==
  /\ phase = "serving"
  /\ phase' = "closing" /\ cursor' = head
  /\ UNCHANGED <<listVars, opVars, heapVars, order>>

\* slip: next is read after the node has been given back, and is gone
CloseNodeLate ==
  /\ liveOps' = liveOps \ {allocatedOp[cursor]}
  /\ liveNodes' = liveNodes \ {cursor}
  /\ cursor' = Null
  /\ order' = Tail(order)

\* one round of the loop: close the descriptor, free object and node
CloseNode ==
  /\ liveOps' = liveOps \ {allocatedOp[cursor]}
  /\ liveNodes' = liveNodes \ {cursor}
  /\ cursor' = next[cursor]
  /\ order' = Tail(order)

\* A close(2) that fails ends the process (when it does: IouServer).
CloseOne ==
  /\ phase = "closing" /\ cursor # Null
  /\ \/ CloseNode /\ UNCHANGED phase
     \/ phase' = "failed" /\ UNCHANGED <<heapVars, cursor, order>>
  /\ UNCHANGED <<listVars, opVars>>

CloseDone ==
  /\ phase = "closing" /\ cursor = Null
  /\ phase' = "exited"
  /\ head' = Null /\ tail' = Null
  /\ UNCHANGED <<next, prev, opVars, heapVars, cursor, order>>

Terminating == phase \in {"exited", "failed"} /\ UNCHANGED vars

Next ==
  \/ \E n \in Nodes, o \in Ops : NewClient(n, o)
  \/ \E o \in Ops : ClosingClient(o)
  \/ Stop \/ CloseOne \/ CloseDone
  \/ Terminating

SafeSpec == Init /\ [][Next]_vars

\* The thread runs the cleanup it has begun.
Spec == SafeSpec /\ WF_vars(CloseOne \/ CloseDone)

-----------------------------------------------------------------------------
TypeOK ==
  /\ phase \in {"serving", "closing", "exited", "failed"}
  /\ head \in Nodes \cup {Null} /\ tail \in Nodes \cup {Null}
  /\ next \in [Nodes -> Nodes \cup {Null}]
  /\ prev \in [Nodes -> Nodes \cup {Null}]
  /\ allocatedOp \in [Nodes -> Ops \cup {Null}]
  /\ memTracker \in [Ops -> Nodes \cup {Null}]
  /\ liveNodes \subseteq Nodes /\ liveOps \subseteq Ops
  /\ cursor \in Nodes \cup {Null}
  /\ order \in Seq(Nodes)

\* Each live object and its node point at each other, and there is no other
\* live node: freeing op->mem_tracker, or node->allocated_op, frees the
\* partner and nobody else's memory.
Paired ==
  /\ \A o \in liveOps : memTracker[o] \in liveNodes
                        /\ allocatedOp[memTracker[o]] = o
  /\ \A n \in liveNodes : allocatedOp[n] \in liveOps
                          /\ memTracker[allocatedOp[n]] = n

\* The live nodes, each once.
OrderIsLive ==
  /\ \A k \in 1..Len(order) : order[k] \in liveNodes
  /\ \A n \in liveNodes : \E k \in 1..Len(order) : order[k] = n
  /\ \A j, k \in 1..Len(order) : order[j] = order[k] => j = k

\* What follows the k-th oldest node, and what precedes it.
After(k) == IF k = Len(order) THEN Null ELSE order[k + 1]
Before(k) == IF k = 1 THEN Null ELSE order[k - 1]
Oldest == IF order = <<>> THEN Null ELSE order[1]
Newest == IF order = <<>> THEN Null ELSE order[Len(order)]

\* Whatever order connections come and go in, head, tail and the links are
\* those of the list of live nodes from oldest to newest: none is cut off and
\* no link leads to memory that was given back.  During the cleanup this is
\* still so of the next links, from the cursor on.
ListLinked ==
  /\ OrderIsLive
  /\ phase = "serving" =>
       /\ head = Oldest /\ tail = Newest
       /\ \A k \in 1..Len(order) : prev[order[k]] = Before(k)
  /\ phase # "serving" => cursor = Oldest
  /\ \A k \in 1..Len(order) : next[order[k]] = After(k)

\* The inductive invariant: nothing is left when the process exits.
MInv ==
  /\ TypeOK /\ Paired /\ ListLinked
  /\ phase = "exited" => order = <<>>

-----------------------------------------------------------------------------
\* The nodes a walk along next comes by, from the head or, in the cleanup,
\* from the cursor: the least set with that node that next does not leave.
First == IF phase = "serving" THEN head ELSE cursor

ClosedUnderNext(S) ==
  /\ First # Null => First \in S
  /\ \A n \in S : next[n] # Null => next[n] \in S

Visited == {n \in Nodes : \A S \in SUBSET Nodes : ClosedUnderNext(S) => n \in S}

\* A walk finds exactly the objects that are allocated.
WalkFinds == {allocatedOp[n] : n \in Visited} = liveOps

Set == INSTANCE TrackedOps WITH Objects <- Ops, tracked <- liveOps

\* The list behaves as the set IouServer works with: each object is freed
\* once, the process does not exit before all are, and the cleanup ends.
Tracks == Set!Spec
TracksSafe == Set!SafeSpec

=============================================================================
