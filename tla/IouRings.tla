------------------------------- MODULE IouRings -------------------------------
(***************************************************************************)
(* The two rings of io_uring as the server uses them: io_uring_server_     *)
(* utils.c (iou_acquire_sqe, iou_submit_sqe, iou_get_cqe, iou_enter_or_    *)
(* wake) under the loop of main.c, against the kernel or, in SQPOLL mode,  *)
(* its thread, which runs beside the server.                               *)
(*                                                                         *)
(* Head and tail of a ring are counters modulo Word, a slot is a counter   *)
(* modulo the size of the ring.  What a slot holds once its entry has been *)
(* consumed is never read, and is Free here.  The tail the server stores   *)
(* reaches the kernel later than the server goes on: the flag of the       *)
(* kernel thread is read with memory_order_relaxed.                        *)
(***************************************************************************)
EXTENDS Integers, Sequences

CONSTANTS
  Ops,        \* the objects, by their addresses
  AcceptOp,   \* the one that is submitted again whenever it completes
  RingSizes,  \* what iou_create may be called with
  Word,       \* the counters are unsigned int: 2^32
  ShortEnters, \* whether io_uring_enter may take less than it is told
  Free

\* io_uring_setup rounds the size up to a power of two, which are the divisors
\* of Word, and the completion queue has twice as many entries.
Entries(n) == CHOOSE m \in n..(2 * n - 1) : Word % (2 * m) = 0

CqEntries(n) == 2 * Entries(n)

ASSUME RingAssumption ==
  /\ AcceptOp \in Ops /\ Free \notin Ops
  /\ RingSizes \subseteq Nat \ {0} /\ Word \in Nat
  /\ \A n \in RingSizes :
       /\ \E m \in n..(2 * n - 1) : Word % (2 * m) = 0
       /\ CqEntries(n) < Word
  /\ ShortEnters \in BOOLEAN

VARIABLES
  sqpoll,      \* IORING_SETUP_SQPOLL
  ring_size,
  pc,          \* where the loop of the server is
  todo,        \* what the handler will submit
  parked,      \* objects with no request under way
  cqe_storage, \* the completion that was copied
  io_events_to_submit,
  \* shared memory
  sqes, array, sqHead, sqTail, cqes, cqHead, cqTail, flag,
  \* the kernel
  seenTail,    \* the tail as the kernel sees it
  allow,       \* what io_uring_enter may still take
  thread,      \* of SQPOLL: "running", "checking", or "asleep"
  kern,        \* requests under way
  short        \* whether an io_uring_enter took less than it was told

server == <<pc, todo, parked, cqe_storage, io_events_to_submit>>
sqRing == <<sqes, array, sqHead, sqTail, seenTail>>
cqRing == <<cqes, cqHead, cqTail>>
kernel == <<allow, thread, flag, kern, short>>
vars == <<sqpoll, ring_size, server, sqRing, cqRing, kernel>>

Slots == 0..(Entries(ring_size) - 1)
CqSlots == 0..(CqEntries(ring_size) - 1)

\* ring_mask
SqIndex(i) == i % Entries(ring_size)
CqIndex(i) == i % CqEntries(ring_size)

\* The difference of two unsigned counters.
Minus(i, j) == (i - j) % Word

\* iou_create, up to the accept request before the loop
Init ==
  /\ sqpoll \in BOOLEAN /\ ring_size \in RingSizes
  /\ pc = "handle" /\ todo = <<AcceptOp>> /\ parked = Ops \ {AcceptOp}
  /\ cqe_storage = Free /\ io_events_to_submit = 0
  /\ sqes = [i \in Slots |-> Free] /\ array = [i \in Slots |-> 0]
  /\ sqHead = 0 /\ sqTail = 0 /\ seenTail = 0
  /\ cqes = [i \in CqSlots |-> Free] /\ cqHead = 0 /\ cqTail = 0
  /\ flag = FALSE /\ thread = "running"
  /\ allow = 0 /\ kern = {} /\ short = FALSE

-----------------------------------------------------------------------------
(***************************************************************************)
(* The server.                                                             *)
(***************************************************************************)

\* slip: the entry is given back before it is copied
CopyLate ==
  /\ pc = "loop" /\ cqHead # cqTail
  /\ cqHead' = (cqHead + 1) % Word
  /\ pc' = "consumed"
  /\ UNCHANGED <<sqpoll, ring_size, todo, parked, cqe_storage,
                 io_events_to_submit, sqRing, cqes, cqTail, kernel>>

\* iou_get_cqe: there is a completion, and it is copied
CopyCqe ==
  /\ pc = "loop" /\ cqHead # cqTail
  /\ cqe_storage' = cqes[CqIndex(cqHead)]
  /\ pc' = "consumed"
  /\ UNCHANGED <<sqpoll, ring_size, todo, parked, io_events_to_submit, sqRing,
                 cqRing, kernel>>

NoCqe ==
  /\ pc = "loop" /\ cqHead = cqTail
  /\ pc' = "enter"
  /\ UNCHANGED <<sqpoll, ring_size, todo, parked, cqe_storage,
                 io_events_to_submit, sqRing, cqRing, kernel>>

\* What the handler of a completion submits: accept again, after the first
\* request of a new connection; the next request of a connection; or, after
\* a close and for the timer, nothing.
Followers(o) ==
  IF o = AcceptOp
  THEN {<<p, AcceptOp>> : p \in parked} \cup {<<AcceptOp>>}
  ELSE {<<o>>, <<>>}

InSeq(s) == {s[k] : k \in 1..Len(s)}

\* The entry is announced as consumed, and the handler is called.
ConsumeCqe ==
  /\ pc = "consumed"
  /\ cqHead' = (cqHead + 1) % Word
  /\ cqes' = [cqes EXCEPT ![CqIndex(cqHead)] = Free]
  /\ todo' \in Followers(cqe_storage)
  /\ parked' = (parked \cup {cqe_storage}) \ InSeq(todo')
  /\ cqe_storage' = Free
  /\ pc' = "handle"
  /\ UNCHANGED <<sqpoll, ring_size, io_events_to_submit, sqRing, cqTail,
                 kernel>>

\* slip: the difference is not taken modulo the width of the counters
FullNoWrap == sqTail - sqHead >= ring_size

\* The test of iou_acquire_sqe, against ring_size as it was asked for.
SqFull == Minus(sqTail, sqHead) >= ring_size

AcquireSqe ==
  /\ pc = "handle" /\ todo # <<>>
  /\ IF SqFull
     THEN pc' = "failed" /\ UNCHANGED sqes
     ELSE /\ sqes' = [sqes EXCEPT ![SqIndex(sqTail)] = Head(todo)]
          /\ pc' = "filled"
  /\ UNCHANGED <<sqpoll, ring_size, todo, parked, cqe_storage,
                 io_events_to_submit, array, sqHead, sqTail, seenTail, cqRing,
                 kernel>>

\* iou_submit_sqe: the index, then the tail; and the handler's return value,
\* of which in SQPOLL mode, where it is not used, only that it is not 0
SubmitSqe ==
  /\ pc = "filled"
  /\ array' = [array EXCEPT ![SqIndex(sqTail)] = SqIndex(sqTail)]
  /\ sqTail' = (sqTail + 1) % Word
  /\ todo' = Tail(todo)
  /\ io_events_to_submit' = IF sqpoll THEN 1 ELSE io_events_to_submit + 1
  /\ pc' = "handle"
  /\ UNCHANGED <<sqpoll, ring_size, parked, cqe_storage, sqes, sqHead,
                 seenTail, cqRing, kernel>>

Handled ==
  /\ pc = "handle" /\ todo = <<>>
  /\ pc' = "loop"
  /\ UNCHANGED <<sqpoll, ring_size, todo, parked, cqe_storage,
                 io_events_to_submit, sqRing, cqRing, kernel>>

\* iou_enter_or_wake, simple mode; a system call is a full barrier
Enter ==
  /\ pc = "enter" /\ ~ sqpoll
  /\ allow' = io_events_to_submit /\ io_events_to_submit' = 0
  /\ seenTail' = sqTail
  /\ pc' = "kernel"
  /\ UNCHANGED <<sqpoll, ring_size, todo, parked, cqe_storage, sqes, array,
                 sqHead, sqTail, cqRing, thread, flag, kern, short>>

\* slip: the flag is looked at only after something was submitted
WakeAfterSubmit ==
  /\ pc = "enter" /\ sqpoll
  /\ io_events_to_submit' = 0
  /\ IF flag /\ io_events_to_submit > 0
     THEN thread' = "running" /\ flag' = FALSE /\ seenTail' = sqTail
     ELSE UNCHANGED <<thread, flag, seenTail>>
  /\ pc' = "loop"
  /\ UNCHANGED <<sqpoll, ring_size, todo, parked, cqe_storage, sqes, array,
                 sqHead, sqTail, cqRing, allow, kern, short>>

\* iou_enter_or_wake, SQPOLL: the flag may be read before the tail is seen
Wake ==
  /\ pc = "enter" /\ sqpoll
  /\ io_events_to_submit' = 0
  /\ IF flag
     THEN thread' = "running" /\ flag' = FALSE /\ seenTail' = sqTail
     ELSE UNCHANGED <<thread, flag, seenTail>>
  /\ pc' = "loop"
  /\ UNCHANGED <<sqpoll, ring_size, todo, parked, cqe_storage, sqes, array,
                 sqHead, sqTail, cqRing, allow, kern, short>>

\* io_uring_enter returns when there is a completion; if it took less than it
\* was told, it does not wait.
Return ==
  /\ pc = "kernel"
  /\ \/ (allow = 0 \/ sqHead = seenTail) /\ cqHead # cqTail
        /\ UNCHANGED short
     \/ ShortEnters /\ allow > 0 /\ sqHead # seenTail /\ short' = TRUE
  /\ allow' = 0
  /\ pc' = "loop"
  /\ UNCHANGED <<sqpoll, ring_size, todo, parked, cqe_storage,
                 io_events_to_submit, sqRing, cqRing, thread, flag, kern>>

-----------------------------------------------------------------------------
(***************************************************************************)
(* The kernel.                                                             *)
(***************************************************************************)

\* The stores of the server become visible, in order.
Drain ==
  /\ seenTail # sqTail
  /\ seenTail' = sqTail
  /\ UNCHANGED <<sqpoll, ring_size, server, sqes, array, sqHead, sqTail,
                 cqRing, kernel>>

\* An entry is taken, in io_uring_enter or by the thread.
Take ==
  /\ IF sqpoll THEN thread = "running" ELSE pc = "kernel" /\ allow > 0
  /\ sqHead # seenTail
  /\ LET slot == array[SqIndex(sqHead)] IN
       /\ kern' = kern \cup {sqes[slot]}
       /\ sqes' = [sqes EXCEPT ![slot] = Free]
  /\ sqHead' = (sqHead + 1) % Word
  /\ allow' = IF sqpoll THEN 0 ELSE allow - 1
  /\ UNCHANGED <<sqpoll, ring_size, server, array, sqTail, seenTail, cqRing,
                 thread, flag, short>>

\* A request is done; a completion for which there is no room waits.
Complete(o) ==
  /\ o \in kern /\ pc # "failed"
  /\ Minus(cqTail, cqHead) < CqEntries(ring_size)
  /\ kern' = kern \ {o}
  /\ cqes' = [cqes EXCEPT ![CqIndex(cqTail)] = o]
  /\ cqTail' = (cqTail + 1) % Word
  /\ UNCHANGED <<sqpoll, ring_size, server, sqRing, cqHead, allow, thread,
                 flag, short>>

\* The thread finds nothing for KERNEL_THREAD_IDLE_SLEEP_TIME_MS, sets
\* IORING_SQ_NEED_WAKEUP, looks again, and sleeps.
GoIdle ==
  /\ sqpoll /\ thread = "running" /\ sqHead = seenTail
  /\ thread' = "checking" /\ flag' = TRUE
  /\ UNCHANGED <<sqpoll, ring_size, server, sqRing, cqRing, allow, kern,
                 short>>

LookAgain ==
  /\ thread = "checking"
  /\ IF sqHead # seenTail
     THEN thread' = "running" /\ flag' = FALSE
     ELSE thread' = "asleep" /\ UNCHANGED flag
  /\ UNCHANGED <<sqpoll, ring_size, server, sqRing, cqRing, allow, kern,
                 short>>

-----------------------------------------------------------------------------
\* The process has ended in an assertion, or it waits for ever for a request
\* the kernel has not taken.
Ended == pc = "failed" /\ UNCHANGED vars
Stranded == pc = "kernel" /\ short /\ UNCHANGED vars

ServerStep ==
  \/ CopyCqe \/ NoCqe \/ ConsumeCqe \/ Handled
  \/ AcquireSqe \/ SubmitSqe
  \/ Enter \/ Wake \/ Return

Next ==
  \/ ServerStep
  \/ Drain \/ Take \/ GoIdle \/ LookAgain
  \/ \E o \in Ops : Complete(o)
  \/ Ended \/ Stranded

SafeSpec == Init /\ [][Next]_vars

\* The server runs, stores become visible, the kernel takes what it sees and
\* its thread does not stop between setting the flag and looking again.
\* Nothing is assumed of when requests complete.
Spec ==
  SafeSpec /\ WF_vars(ServerStep) /\ WF_vars(Drain) /\ WF_vars(Take)
           /\ WF_vars(LookAgain)

-----------------------------------------------------------------------------
TypeOK ==
  /\ sqpoll \in BOOLEAN /\ ring_size \in RingSizes
  /\ pc \in {"loop", "consumed", "handle", "filled", "enter", "kernel",
             "failed"}
  /\ todo \in Seq(Ops) /\ parked \subseteq Ops
  /\ cqe_storage \in Ops \cup {Free}
  /\ io_events_to_submit \in Nat /\ allow \in Nat
  /\ sqes \in [Slots -> Ops \cup {Free}] /\ array \in [Slots -> Slots]
  /\ cqes \in [CqSlots -> Ops \cup {Free}]
  /\ {sqHead, sqTail, seenTail, cqHead, cqTail} \subseteq 0..(Word - 1)
  /\ flag \in BOOLEAN /\ short \in BOOLEAN
  /\ thread \in {"running", "checking", "asleep"}
  /\ kern \subseteq Ops

\* The queues the counters and slots stand for.
Submitted ==
  [k \in 1..Minus(sqTail, sqHead) |-> sqes[array[SqIndex(sqHead + k - 1)]]]
Completed ==
  [k \in 1..Minus(cqTail, cqHead) |-> cqes[CqIndex(cqHead + k - 1)]]

Queues == INSTANCE OpQueues WITH
  held <- parked \cup InSeq(todo),
  sq <- Submitted,
  cq <- Completed,
  refused <- pc = "failed"

\* The rings are queues: whatever the counters are when they wrap, however
\* the kernel thread runs beside the server, entries are taken and completions
\* reaped in order, each once and whole, and an entry is refused only when
\* ring_size are waiting.
AreQueues == Queues!SafeSpec

-----------------------------------------------------------------------------
(***************************************************************************)
(* The inductive invariant: counters and slots are consistent.             *)
(***************************************************************************)

SqLen == Minus(sqTail, sqHead)
CqLen == Minus(cqTail, cqHead)

\* No more entries wait than were asked for, the kernel sees no more than
\* there are, and each is whole: its index and its object are there.
SqInv ==
  /\ SqLen <= ring_size /\ Minus(seenTail, sqHead) <= SqLen
  /\ \A k \in 0..(SqLen - 1) :
       LET slot == SqIndex(sqHead + k)
       IN  array[slot] = slot /\ sqes[slot] \in Ops

\* There is room for every completion, and each is whole.
CqInv ==
  /\ CqLen <= CqEntries(ring_size)
  /\ \A k \in 0..(CqLen - 1) : cqes[CqIndex(cqHead + k)] \in Ops

\* What the handler submits: at most a first request and the next accept.
HandlerInv ==
  /\ \/ todo = <<>>
     \/ \E o \in Ops : todo = <<o>>
     \/ \E o \in Ops \ {AcceptOp} : todo = <<o, AcceptOp>>
  /\ AcceptOp \notin parked /\ parked \cap InSeq(todo) = {}
  /\ pc \in {"loop", "consumed", "enter", "kernel"} => todo = <<>>

\* What the server holds between two steps is what is in the ring.
HeldInv ==
  /\ pc = "filled" =>
       todo # <<>> /\ SqLen < ring_size /\ sqes[SqIndex(sqTail)] = Head(todo)
  /\ pc = "consumed" => CqLen > 0 /\ cqe_storage = cqes[CqIndex(cqHead)]

RInv == TypeOK /\ SqInv /\ CqInv /\ HandlerInv /\ HeldInv

\* An entry that was submitted is taken, also by a thread that fell asleep
\* without having seen it, unless an io_uring_enter took less than it was told.
EntriesTaken ==
  \A o \in Ops : o \in InSeq(Submitted) ~>
                   o \notin InSeq(Submitted) \/ short \/ pc = "failed"

=============================================================================
