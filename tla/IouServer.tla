------------------------------ MODULE IouServer ------------------------------
(***************************************************************************)
(* The io_uring echo server (code/c/server/io_uring/main.c), its rings and *)
(* the kernel behind them.                                                 *)
(*                                                                         *)
(* The server is one thread.  It puts requests (SQEs) on the submission    *)
(* queue and takes completions (CQEs) from the completion queue.  Each     *)
(* connection owns one heap object, an iou_op, whose address travels       *)
(* through the kernel as user_data; here the object of client c's          *)
(* connection is c itself.  The accept and the timer request live on the   *)
(* stack of service_loop and are AcceptOp and TimerOp.                     *)
(*                                                                         *)
(* In the simple mode the thread moves SQEs into the kernel itself, in a   *)
(* blocking io_uring_enter; SIGUSR1 is unmasked only there.  In SQPOLL     *)
(* mode a kernel thread takes the SQEs, the server never blocks, and the   *)
(* signal may arrive anywhere.                                             *)
(***************************************************************************)
EXTENDS EchoClients

CONSTANTS
  RingSize,      \* IO_URING_RING_SIZE
  SqPoll,        \* IO_URING_RUN_IN_KERNEL_POLL_MODE
  Benchmarking,  \* DO_SERVER_SIDE_BENCHMARKING: there is a warm-up timer
  Fds,           \* the file descriptors a connection can be given
  AcceptOp, TimerOp, None

LsFd == 0      \* the listening socket
ETIME == 62

StackOps == {AcceptOp} \cup (IF Benchmarking THEN {TimerOp} ELSE {})
AllOps == Clients \cup StackOps

ASSUME IouAssumption ==
  /\ RingSize \in Nat \ {0, 1}
  /\ SqPoll \in BOOLEAN
  /\ Benchmarking \in BOOLEAN
  /\ Fds \subseteq Nat \ {0}
  /\ AcceptOp \notin Clients /\ TimerOp \notin Clients /\ None \notin Clients
  /\ AcceptOp # TimerOp

VARIABLES
  pc,        \* where the server thread is
  running,   \* server_running
  sig,       \* SIGUSR1: "none", "pending", "delivered"
  cause,     \* why an assertion ended the process, "none" if none did
  sq,        \* submission queue: [op, kind, fd]
  toSubmit,  \* io_events_to_submit
  kern,      \* requests the kernel has taken and not completed
  cq,        \* completion queue: [op, kind, res]; the code reads op and res
  sqIdle,    \* IORING_SQ_NEED_WAKEUP: the SQPOLL thread sleeps
  kind,      \* kind[c]: op->op of the object
  fd,        \* fd[c]: op->info_con.fd
  busy,      \* busy[c]: op->info_con.busy
  buf,       \* buf[c]: the message in op->info_con.buf
  heap,      \* heap[c]: "unallocated", "live" or "freed"
  tracked,   \* the objects in the list mem_allocs_tracker
  sock       \* kernel: sock[n] is the client connected to descriptor n

opVars == <<kind, fd, busy, buf, heap, tracked>>
ringVars == <<sq, toSubmit, kern, cq, sqIdle>>
ctlVars == <<pc, running, sig, cause>>
vars == <<ctlVars, ringVars, opVars, sock, clientVars>>

ConKinds == {"recv", "send", "close"}
RingUp == pc \in {"start", "loop", "wait", "cleanup"}
Ended == pc \in {"exited", "failed"}

-----------------------------------------------------------------------------
\* slip: the descriptor of the connection is not filled in
ConSqeNoFd(c, k, n) == [op |-> c, kind |-> k, fd |-> -1]

\* The switch of iou_config_and_submit: kind, fd and user_data of the SQE.
ConSqe(c, k, n) == [op |-> c, kind |-> k, fd |-> n]
AcceptSqe == [op |-> AcceptOp, kind |-> "accept", fd |-> LsFd]
TimerSqe == [op |-> TimerOp, kind |-> "timer", fd |-> LsFd]

\* slip: one entry is never used
RoomForFewer(n) == Len(sq) + n < RingSize

\* iou_acquire_sqe refuses (and the caller's assertion ends the process) when
\* ring_size entries have not been consumed yet.
RoomFor(n) == Len(sq) + n <= RingSize

\* op->op as the dispatch reads it
KindOf(op) ==
  IF op = AcceptOp THEN "accept" ELSE IF op = TimerOp THEN "timer"
  ELSE kind[op]

Init ==
  /\ ClientInit
  /\ pc = "start" /\ running = TRUE /\ sig = "none" /\ cause = "none"
  /\ sq = <<AcceptSqe>> \o (IF Benchmarking THEN <<TimerSqe>> ELSE <<>>)
  /\ toSubmit = IF Benchmarking THEN 2 ELSE 1
  /\ kern = {} /\ cq = <<>> /\ sqIdle = FALSE
  /\ kind = [c \in Clients |-> "recv"]
  /\ fd = [c \in Clients |-> -1]
  /\ busy = [c \in Clients |-> FALSE]
  /\ buf = [c \in Clients |-> 0]
  /\ heap = [c \in Clients |-> "unallocated"]
  /\ tracked = {}
  /\ sock = [n \in Fds |-> None]

-----------------------------------------------------------------------------
(***************************************************************************)
(* Control of the server thread and the stop signal.                       *)
(***************************************************************************)

\* sigprocmask (simple mode only), then the loop
BlockSignals ==
  /\ pc = "start"
  /\ pc' = "loop"
  /\ UNCHANGED <<running, sig, cause, ringVars, opVars, sock, clientVars>>

SendSignal ==
  /\ sig # "pending" /\ ~Ended
  /\ sig' = "pending"
  /\ UNCHANGED <<pc, running, cause, ringVars, opVars, sock, clientVars>>

\* A close runs inline while it is submitted, and a wait for completions is
\* interrupted only while there are none.
Interruptible == cq = <<>> /\ \A r \in kern : r.kind # "close"

\* slip: SIGUSR1 is not blocked outside io_uring_enter
SignalOpenAlways == RingUp

SignalOpen ==
  \/ SqPoll /\ RingUp
  \/ pc = "start"
  \/ pc = "wait" /\ Interruptible

\* slip: the loop does not see the write of the handler
StoppedUnseen == UNCHANGED running

\* server_running = 0, volatile
Stopped == running' = FALSE

\* stop_server_signal_handler; in a wait io_uring_enter then returns -EINTR
DeliverSignal ==
  /\ sig = "pending" /\ SignalOpen
  /\ sig' = "delivered" /\ Stopped
  /\ IF pc = "wait" THEN pc' = "loop" /\ toSubmit' = 0
                    ELSE UNCHANGED <<pc, toSubmit>>
  /\ UNCHANGED <<cause, sq, kern, cq, sqIdle, opVars, sock, clientVars>>

LoopExit ==
  /\ pc = "loop" /\ ~running
  /\ pc' = "cleanup"
  /\ UNCHANGED <<running, sig, cause, ringVars, opVars, sock, clientVars>>

-----------------------------------------------------------------------------
(***************************************************************************)
(* iou_enter_or_wake, called when the completion queue is empty.           *)
(***************************************************************************)

\* How many of the queued entries one io_uring_enter takes.
Taken == IF toSubmit < Len(sq) THEN toSubmit ELSE Len(sq)
FirstOf(s, k) == {s[i] : i \in 1..k}

EnterSubmit ==
  /\ ~SqPoll
  /\ pc = "loop" /\ running /\ cq = <<>>
  /\ pc' = "wait"
  /\ kern' = kern \cup FirstOf(sq, Taken)
  /\ sq' = SubSeq(sq, Taken + 1, Len(sq))
  /\ UNCHANGED <<running, sig, cause, toSubmit, cq, sqIdle, opVars, sock,
                 clientVars>>

EnterReturn ==
  /\ pc = "wait" /\ cq # <<>>
  /\ pc' = "loop" /\ toSubmit' = 0
  /\ UNCHANGED <<running, sig, cause, sq, kern, cq, sqIdle, opVars, sock,
                 clientVars>>

\* SQPOLL: wake the kernel thread if it sleeps, never wait
WakeOrSpin ==
  /\ SqPoll
  /\ pc = "loop" /\ running /\ cq = <<>>
  /\ sqIdle' = FALSE /\ toSubmit' = 0
  /\ UNCHANGED <<ctlVars, sq, kern, cq, opVars, sock, clientVars>>

-----------------------------------------------------------------------------
(***************************************************************************)
(* The kernel.                                                             *)
(***************************************************************************)

KernelConsume ==
  /\ SqPoll /\ RingUp /\ ~sqIdle /\ sq # <<>>
  /\ kern' = kern \cup {Head(sq)}
  /\ sq' = Tail(sq)
  /\ UNCHANGED <<ctlVars, toSubmit, cq, sqIdle, opVars, sock, clientVars>>

KernelIdle ==
  /\ SqPoll /\ RingUp /\ ~sqIdle /\ sq = <<>>
  /\ sqIdle' = TRUE
  /\ UNCHANGED <<ctlVars, sq, toSubmit, kern, cq, opVars, sock, clientVars>>

Complete(r, res) ==
  /\ kern' = kern \ {r}
  /\ cq' = Append(cq, [op |-> r.op, kind |-> r.kind, res |-> res])
  /\ UNCHANGED <<ctlVars, sq, toSubmit, sqIdle>>

FreeFds == {n \in Fds : sock[n] = None}

\* A connection gets the lowest free descriptor; without one, or on another
\* error of accept(2), the result is negative.
KernelAccept(r) ==
  /\ r.kind = "accept"
  /\ \/ \E c \in backlog, n \in FreeFds :
          /\ \A m \in FreeFds : n <= m
          /\ backlog' = backlog \ {c}
          /\ sock' = [sock EXCEPT ![n] = c]
          /\ Complete(r, n)
     \/ /\ backlog # {}
        /\ FreeFds = {} \/ "accept" \in Faults
        /\ Complete(r, -1)
        /\ UNCHANGED <<backlog, sock>>
  /\ UNCHANGED <<opVars, cpc, sent, taken, echoes, got>>

KernelRecv(r) ==
  /\ r.kind = "recv"
  /\ \E res \in RecvResults(sock[r.fd]) :
       /\ TakeMessage(sock[r.fd], res)
       /\ buf' = IF res = BufSize
                 THEN [buf EXCEPT ![r.op] = taken[sock[r.fd]] + 1] ELSE buf
       /\ Complete(r, res)
  /\ UNCHANGED <<kind, fd, busy, heap, tracked, sock,
                 cpc, backlog, sent, echoes, got>>

KernelSend(r) ==
  /\ r.kind = "send"
  /\ \E res \in SendResults(sock[r.fd]) :
       /\ DeliverEcho(sock[r.fd], res, buf[r.op])
       /\ Complete(r, res)
  /\ UNCHANGED <<opVars, sock, cpc, backlog, sent, taken, got>>

KernelClose(r) ==
  /\ r.kind = "close"
  /\ sock' = [sock EXCEPT ![r.fd] = None]
  /\ Complete(r, 0)
  /\ UNCHANGED <<opVars, clientVars>>

KernelTimer(r) ==
  /\ r.kind = "timer"
  /\ Complete(r, -ETIME)
  /\ UNCHANGED <<opVars, sock, clientVars>>

KernelComplete(r) ==
  /\ RingUp
  /\ \/ KernelAccept(r) \/ KernelRecv(r) \/ KernelSend(r)
     \/ KernelClose(r) \/ KernelTimer(r)

-----------------------------------------------------------------------------
(***************************************************************************)
(* service_cqe_events: one completion taken from the queue and handled.    *)
(* The switch is on op->op, read through user_data, not on anything in the *)
(* completion.  A handler is one step: the kernel may take the first of    *)
(* two entries before the second is queued, but RingSize >= 2 makes every  *)
(* such run equal to one where the kernel moves before or after.           *)
(***************************************************************************)

Event == Head(cq)

\* slip: the consumed head is not announced
HandleKeep(k) ==
  /\ pc = "loop" /\ running /\ cq # <<>>
  /\ KindOf(Event.op) = k
  /\ UNCHANGED <<running, sig, kern, cq, sqIdle, sock, clientVars>>

\* iou_get_cqe, then the dispatch
Handle(k) ==
  /\ pc = "loop" /\ running /\ cq # <<>>
  /\ KindOf(Event.op) = k
  /\ cq' = Tail(cq)
  /\ UNCHANGED <<running, sig, kern, sqIdle, sock, clientVars>>

\* A failed assertion ends the process.  The queue and the objects die with it,
\* so what the handler did to them before it failed is not followed.
Abort(why) ==
  /\ pc' = "failed" /\ cause' = why
  /\ UNCHANGED <<sq, toSubmit, opVars>>

\* slip: every handler reports one entry
SubmittedOne(n) == toSubmit' = toSubmit + 1

\* the return value of a handler, added up in service_loop
Submitted(n) == toSubmit' = toSubmit + n

\* slip: the flag is raised and never lowered
LendOnly(c, b) == busy' = [busy EXCEPT ![c] = @ \/ b]

\* info_con.busy
Lend(c, b) == busy' = [busy EXCEPT ![c] = b]

\* slips: op->op is left as it was; the descriptor is given up when the close
\* is queued; the object is freed and nothing closed; a close is queued twice;
\* after an echo the server sends again, or hangs up
ResubmitStale(c, k) ==
  /\ sq' = Append(sq, ConSqe(c, k, fd[c]))
  /\ Submitted(1)
  /\ UNCHANGED <<pc, cause, kind, fd, buf, heap, tracked>>

ResubmitForget(c, k) ==
  /\ kind' = [kind EXCEPT ![c] = k]
  /\ fd' = IF k = "close" THEN [fd EXCEPT ![c] = -1] ELSE fd
  /\ sq' = Append(sq, ConSqe(c, k, fd[c]))
  /\ Submitted(1)
  /\ UNCHANGED <<pc, cause, buf, heap, tracked>>

ResubmitLeak(c, k) ==
  /\ kind' = [kind EXCEPT ![c] = k]
  /\ IF k = "close"
     THEN /\ heap' = [heap EXCEPT ![c] = "freed"] /\ tracked' = tracked \ {c}
          /\ UNCHANGED <<sq, toSubmit>>
     ELSE /\ sq' = Append(sq, ConSqe(c, k, fd[c])) /\ Submitted(1)
          /\ UNCHANGED <<heap, tracked>>
  /\ UNCHANGED <<pc, cause, fd, buf>>

ResubmitTwice(c, k) ==
  /\ kind' = [kind EXCEPT ![c] = k]
  /\ sq' = sq \o [i \in 1..(IF k = "close" THEN 2 ELSE 1) |->
                    ConSqe(c, k, fd[c])]
  /\ Submitted(IF k = "close" THEN 2 ELSE 1)
  /\ UNCHANGED <<pc, cause, fd, buf, heap, tracked>>

ResubmitSend(c, k) ==
  LET again == IF k = "recv" THEN "send" ELSE k IN
    /\ kind' = [kind EXCEPT ![c] = again]
    /\ sq' = Append(sq, ConSqe(c, again, fd[c]))
    /\ Submitted(1)
    /\ UNCHANGED <<pc, cause, fd, buf, heap, tracked>>

ResubmitHangUp(c, k) ==
  LET last == IF k = "recv" THEN "close" ELSE k IN
    /\ kind' = [kind EXCEPT ![c] = last]
    /\ sq' = Append(sq, ConSqe(c, last, fd[c]))
    /\ Submitted(1)
    /\ UNCHANGED <<pc, cause, fd, buf, heap, tracked>>

\* op->op = k, then iou_config_and_submit(op)
Resubmit(c, k) ==
  /\ kind' = [kind EXCEPT ![c] = k]
  /\ sq' = Append(sq, ConSqe(c, k, fd[c]))
  /\ Submitted(1)
  /\ UNCHANGED <<pc, cause, fd, buf, heap, tracked>>

\* handle_new_client: a zeroed iou_op, put on the list, and its first recv
NewClient(c, n) ==
  /\ heap' = [heap EXCEPT ![c] = "live"]
  /\ fd' = [fd EXCEPT ![c] = n]
  /\ kind' = [kind EXCEPT ![c] = "recv"]
  /\ Lend(c, TRUE)
  /\ tracked' = tracked \cup {c}
  /\ UNCHANGED buf

\* The accept goes back on the queue behind the recv of the new client.
HandleAccept ==
  /\ Handle("accept")
  /\ \/ Event.res < 0 /\ Abort("result")
     \/ Event.res >= 0 /\ ~RoomFor(2) /\ Abort("sq_full")
     \/ /\ Event.res >= 0 /\ RoomFor(2)
        /\ LET c == sock[Event.res] IN
             /\ NewClient(c, Event.res)
             /\ sq' = sq \o <<ConSqe(c, "recv", Event.res), AcceptSqe>>
        /\ Submitted(2)
        /\ UNCHANGED <<pc, cause>>

\* slip: a second message behind the first is not noticed
WholeOrMore(res) == res >= BufSize

\* read_bytes is neither more nor less than DEFAULT_BUFFER_SIZE
Whole(res) == res = BufSize

\* 0 bytes: the client left, prep_close_client_req; a message: echo it
HandleRecv ==
  /\ Handle("recv")
  /\ LET c == Event.op IN
       \/ Event.res # 0 /\ ~Whole(Event.res) /\ Abort("result")
       \/ /\ Event.res = 0 \/ Whole(Event.res)
          /\ ~RoomFor(1)
          /\ Abort("sq_full")
       \/ /\ Event.res = 0 /\ RoomFor(1)
          /\ Lend(c, FALSE)
          /\ Resubmit(c, "close")
       \/ /\ Whole(Event.res) /\ RoomFor(1)
          /\ Lend(c, TRUE)
          /\ Resubmit(c, "send")

HandleSend ==
  /\ Handle("send")
  /\ LET c == Event.op IN
       \/ Event.res < BufSize /\ Abort("result")
       \/ Event.res >= BufSize /\ ~RoomFor(1) /\ Abort("sq_full")
       \/ /\ Event.res >= BufSize /\ RoomFor(1)
          /\ Lend(c, TRUE)
          /\ Resubmit(c, "recv")

\* handle_closing_client: mem_t_remove_node and free
ClosingClient(c) ==
  /\ tracked' = tracked \ {c}
  /\ heap' = [heap EXCEPT ![c] = "freed"]

\* The assertion on the result has nothing to catch: every close is of an
\* open descriptor (FdsOwned).
HandleClose ==
  /\ Handle("close")
  /\ fd' = [fd EXCEPT ![Event.op] = -1]
  /\ ClosingClient(Event.op)
  /\ UNCHANGED <<pc, cause, kind, busy, buf, sq, toSubmit>>

HandleTimer ==
  /\ Handle("timer")
  /\ UNCHANGED <<pc, cause, opVars, sq, toSubmit>>

-----------------------------------------------------------------------------
(***************************************************************************)
(* do_service_loop_cleanup and do_exit_cleanup.                            *)
(***************************************************************************)

\* iou_free: whatever the rings and the kernel still hold is dropped.
FreeRing ==
  /\ pc = "cleanup"
  /\ pc' = "closing"
  /\ sq' = <<>> /\ kern' = {} /\ cq' = <<>>
  /\ UNCHANGED <<running, sig, cause, toSubmit, sqIdle, opVars, sock,
                 clientVars>>

\* close(2) on a descriptor that is not open fails, and the assertion on its
\* result ends the process before the rest of the list is freed.
CloseOne(c) ==
  /\ pc = "closing" /\ c \in tracked
  /\ IF sock[fd[c]] = None
     THEN /\ pc' = "failed" /\ cause' = "close"
          /\ UNCHANGED <<opVars, sock>>
     ELSE /\ sock' = [sock EXCEPT ![fd[c]] = None]
          /\ tracked' = tracked \ {c}
          /\ heap' = [heap EXCEPT ![c] = "freed"]
          /\ UNCHANGED <<pc, cause, kind, fd, busy, buf>>
  /\ UNCHANGED <<running, sig, ringVars, clientVars>>

CloseDone ==
  /\ pc = "closing" /\ tracked = {}
  /\ pc' = "exited"
  /\ UNCHANGED <<running, sig, cause, ringVars, opVars, sock, clientVars>>

-----------------------------------------------------------------------------
Terminating == Ended /\ UNCHANGED vars

ClientMove(c) ==
  /\ ~Ended
  /\ ClientStep(c)
  /\ UNCHANGED <<ctlVars, ringVars, opVars, sock>>

ServerStep ==
  \/ BlockSignals \/ LoopExit
  \/ EnterSubmit \/ EnterReturn \/ WakeOrSpin
  \/ HandleAccept \/ HandleRecv \/ HandleSend \/ HandleClose \/ HandleTimer
  \/ FreeRing \/ CloseDone
  \/ \E c \in Clients : CloseOne(c)

KernelStep ==
  \/ KernelConsume \/ KernelIdle
  \/ \E r \in kern : KernelComplete(r)

Next ==
  \/ SendSignal \/ DeliverSignal
  \/ ServerStep \/ KernelStep
  \/ \E c \in Clients : ClientMove(c)
  \/ Terminating

SafeSpec == Init /\ [][Next]_vars

\* The kernel completes each operation that can complete, its SQPOLL thread
\* runs, a deliverable signal is delivered, and the server thread is
\* scheduled.  Nothing is assumed of the clients or of who sends the signal.
CompleteOp(op) == \E r \in kern : r.op = op /\ KernelComplete(r)

Fairness ==
  /\ WF_vars(ServerStep)
  /\ WF_vars(DeliverSignal)
  /\ WF_vars(KernelConsume)
  /\ \A op \in AllOps : WF_vars(CompleteOp(op))

Spec == SafeSpec /\ Fairness

-----------------------------------------------------------------------------
(***************************************************************************)
(* Safety.                                                                 *)
(***************************************************************************)

Live == {c \in Clients : heap[c] = "live"}
Elems(s) == FirstOf(s, Len(s))
Ops(S) == {e.op : e \in S}
NoRepeat(s) == \A i, j \in 1..Len(s) : s[i].op = s[j].op => i = j

\* The requests that exist: queued, in the kernel, or completed.
Queued == Elems(sq)
Done == Elems(cq)
InFlight == Queued \cup kern \cup Done

Sqes == [op : AllOps, kind : ConKinds \cup {"accept", "timer"},
         fd : Fds \cup {LsFd}]
Cqes == [op : AllOps, kind : ConKinds \cup {"accept", "timer"}, res : Int]

CtlTypeOK ==
  /\ pc \in {"start", "loop", "wait", "cleanup", "closing", "exited", "failed"}
  /\ running \in BOOLEAN
  /\ sig \in {"none", "pending", "delivered"}
  /\ cause \in {"none", "result", "sq_full", "close"}

RingTypeOK ==
  /\ sq \in Seq(Sqes) /\ Len(sq) <= RingSize
  /\ toSubmit \in Nat
  /\ kern \subseteq Sqes
  /\ cq \in Seq(Cqes)
  /\ sqIdle \in BOOLEAN

OpTypeOK ==
  /\ kind \in [Clients -> ConKinds]
  /\ fd \in [Clients -> Fds \cup {-1}]
  /\ busy \in [Clients -> BOOLEAN]
  /\ buf \in [Clients -> Nat]
  /\ heap \in [Clients -> {"unallocated", "live", "freed"}]
  /\ tracked \subseteq Clients

\* The type invariant; the queue never holds more than its capacity
\* (iou_acquire_sqe).
TypeOK ==
  /\ ClientTypeOK /\ CtlTypeOK /\ RingTypeOK /\ OpTypeOK
  /\ sock \in [Fds -> Clients \cup {None}]

\* While the rings exist, every allocated iou_op is at exactly one place of
\* submission queue, kernel and completion queue, and no freed one is at any:
\* no request is lost, none is doubled, and no user_data dangles when
\* service_cqe_events dereferences it.  The list mem_allocs_tracker holds
\* exactly the allocated objects.
SingleOwner ==
  /\ tracked = Live
  /\ RingUp =>
       /\ NoRepeat(sq) /\ NoRepeat(cq)
       /\ \A r, q \in kern : r.op = q.op => r = q
       /\ Ops(Queued) \cap Ops(kern) = {}
       /\ Ops(Queued) \cap Ops(Done) = {}
       /\ Ops(kern) \cap Ops(Done) = {}
       /\ Ops(InFlight) \ {TimerOp} = Live \cup {AcceptOp}

\* The switch of service_cqe_events reads op->op at the time of the
\* completion, and the object is repurposed in between: what it reads is
\* still the operation that completed.
DispatchMatches ==
  RingUp => \A e \in InFlight : e.kind = KindOf(e.op)

\* info_con.busy is set exactly while the buffer of the object is lent to the
\* kernel (handle_cqe_recv, handle_cqe_send, prep_close_client_req).
BusyMeansLent ==
  RingUp => \A c \in Live : busy[c] <=> kind[c] \in {"recv", "send"}

\* Until its close has completed, the descriptor an object carries is the one
\* of its own connection, also in the requests already queued or in flight,
\* although the kernel gives closed numbers out again at once.
FdsOwned ==
  RingUp =>
    /\ \A c \in Live : \/ \E e \in Done : e.op = c /\ e.kind = "close"
                       \/ fd[c] \in Fds /\ sock[fd[c]] = c
    /\ \A e \in Queued \cup kern : e.op \in Clients => e.fd = fd[e.op]

\* No connection leaks: one that is open waits in an accept that has not been
\* handled, or is the one its object carries, until the close of that object
\* has completed.  The cleanup loses only the former, so a connection that is
\* open at the end of a process that left main never had an object.
SocketsOwned ==
  \A n \in Fds : sock[n] \in Clients =>
    LET c == sock[n] IN
      /\ RingUp =>
           \/ \E e \in Done : e.kind = "accept" /\ e.res = n
           \/ /\ heap[c] = "live" /\ fd[c] = n
              /\ ~ \E e \in Done : e.kind = "close" /\ e.op = c
      /\ pc = "closing" =>
           \/ heap[c] = "unallocated"
           \/ heap[c] = "live" /\ fd[c] = n
      /\ pc = "exited" => heap[c] = "unallocated"

\* io_events_to_submit is the number of queued entries whenever it is passed
\* to io_uring_enter, so none stays behind while the server sleeps.
SubmitsAll ==
  ~SqPoll => /\ pc \in {"start", "loop"} => toSubmit = Len(sq)
             /\ pc = "wait" => sq = <<>>

\* A ring with an entry for the accept, the timer and each connection is
\* never found full, neither by a handler nor by a completion: the completion
\* queue has two entries for each of the submission queue.
RingSuffices ==
  /\ cause # "sq_full"
  /\ RingUp => Len(cq) <= 2 * RingSize

\* The k-th message a client is sent is the k-th it wrote; nothing that is
\* echoed was not read, and at most one message is inside the server.
EchoInOrder ==
  \A c \in Clients :
    /\ \A k \in 1..Len(echoes[c]) : echoes[c][k] = k
    /\ Len(echoes[c]) <= taken[c] /\ taken[c] <= Len(echoes[c]) + 1
    /\ taken[c] <= sent[c]

\* In the simple mode the synchronous close of do_service_loop_cleanup always
\* succeeds, so the whole list is freed.
CloseNeverFails == cause # "close"

\* A connection is only closed under a client that has left, except by the
\* cleanup: no close reaches another connection through a reused number.
NoEarlyClose ==
  [][\A n \in Fds :
       sock[n] \in Clients /\ sock'[n] # sock[n]
         => cpc[sock[n]] = "gone" \/ pc = "closing"]_vars

\* The README's graceful teardown, "closing all file descriptors and
\* deallocating all the dynamic memory": once the process has left main.
GracefulTeardown ==
  pc = "exited" => Live = {} /\ \A n \in Fds : sock[n] = None

-----------------------------------------------------------------------------
(***************************************************************************)
(* The inductive invariant behind these properties.                        *)
(***************************************************************************)

\* A client that no accept has returned owns nothing; one that an unhandled
\* accept has returned owns its descriptor and no object.
Arrivals ==
  /\ \A c \in Clients :
       /\ cpc[c] = "start" => c \notin backlog
       /\ cpc[c] = "start" \/ c \in backlog =>
            heap[c] = "unallocated" /\ \A n \in Fds : sock[n] # c
  /\ RingUp => \A e \in Done :
       e.kind = "accept" /\ e.res >= 0 =>
         /\ e.res \in Fds
         /\ sock[e.res] \in Clients
         /\ heap[sock[e.res]] = "unallocated"

\* A message is inside the server from the completion of its recv to that of
\* its send, and then it is what the buffer holds.
MessageInside(c, n) ==
  taken[c] = Len(echoes[c]) + n /\ (n = 1 => buf[c] = taken[c])

MessageFlow ==
  /\ \A c \in Clients :
       heap[c] = "unallocated" => taken[c] = 0 /\ echoes[c] = <<>>
  /\ RingUp =>
       /\ \A e \in Queued \cup kern : e.op \in Clients =>
            MessageInside(e.op, IF e.kind = "send" THEN 1 ELSE 0)
       /\ \A e \in Done : e.op \in Clients =>
            /\ e.kind = "send" => e.res <= BufSize
            /\ MessageInside(e.op,
                 IF \/ e.kind = "recv" /\ Whole(e.res)
                    \/ e.kind = "send" /\ ~Whole(e.res) THEN 1 ELSE 0)

\* A close, or the end of file that leads to it, is of a client that has left.
LeftFirst ==
  RingUp =>
    /\ \A e \in InFlight : e.kind = "close" => cpc[e.op] = "gone"
    /\ \A e \in Done : e.kind = "recv" /\ e.res = 0 => cpc[e.op] = "gone"

IInv ==
  /\ TypeOK
  /\ SingleOwner /\ DispatchMatches /\ BusyMeansLent /\ FdsOwned
  /\ Arrivals /\ MessageFlow /\ LeftFirst /\ EchoInOrder

-----------------------------------------------------------------------------
(***************************************************************************)
(* The server implements the echo service.                                 *)
(***************************************************************************)

Presence == [start |-> "away", up |-> "here", gone |-> "left"]
Holding == [unallocated |-> "none", live |-> "held", freed |-> "released"]

Echo == INSTANCE EchoService WITH
  up <- RingUp,
  client <- [c \in Clients |-> Presence[cpc[c]]],
  service <- [c \in Clients |-> Holding[heap[c]]],
  asked <- sent,
  answers <- echoes

\* Every run of the program is a run of EchoService, and with fair scheduling
\* a client that waits is answered or the server stops.
EchoSafe == Echo!SafeSpec
EchoLive == Echo!Spec

\* The phase of the tracker: it serves until iou_free, also when an assertion
\* ended the process before.
TrackerPhase ==
  IF RingUp \/ (pc = "failed" /\ cause # "close") THEN "serving" ELSE pc

Tracker == INSTANCE TrackedOps WITH
  Objects <- Clients, phase <- TrackerPhase

\* The server meets the contract of its tracker.  It never adds an object that
\* is on the list nor takes off one that is not (op->mem_tracker would then be
\* memory that was given back), and what it does to the list is what TrackedOps
\* allows: nothing but the walk touches it once the rings are freed, and the
\* process leaves main only with the list empty.
UsesTracker ==
  /\ Tracker!SafeSpec
  /\ [][/\ HandleAccept /\ heap' # heap => sock[Event.res] \notin tracked
        /\ HandleClose => Event.op \in tracked]_vars

\* SIGUSR1, masked except inside io_uring_enter in the simple mode, ends the
\* process.
SignalStops == sig = "pending" ~> Ended

=============================================================================
