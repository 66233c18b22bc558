# A specification of the three echo servers

This directory describes, in TLA+, the echo servers of this repository: one built on
`poll`, one on `epoll` and one on `io_uring`. All three do the same job in different ways,
so there is one specification of the job, `EchoService`, and one model of each server that
is shown to implement it. Beside them stand models of the parts the servers are built on: the
rings and the allocation tracker of the io_uring server, the server-side benchmark, and the time
arithmetic. TLC checks every model on a small instance; the safety of all of them is also proved
for every instance with TLAPS.

Paths below are relative to `src/code/c`.

## The system

| component | source | state it keeps | operations |
|---|---|---|---|
| clients and TCP | `client/main.c` | the connection, messages sent, echoes read | connect, send, receive, close |
| io_uring server | `server/io_uring/main.c` | `server_running`, `io_events_to_submit`, one `iou_op` per connection | the loop, five completion handlers, the cleanup |
| ring layer | `server/io_uring/io_uring_server_utils.c/.h` | submission and completion ring | acquire and submit an SQE, enter or wake the kernel, reap a CQE |
| allocation tracker | `server/io_uring/io_uring_server_utils.c/.h` | a doubly linked list of nodes, one per `iou_op` | push back, remove, the walk of the cleanup |
| epoll server | `server/epoll/main.c` | the epoll set, `tfd_holder`, list of connections | registration, the batch loop, accept loop, hang-up, data and timer handlers, the cleanup |
| poll server | `server/poll/main.c` | `timer_fd`, the vector | the walk over the vector, accept, hang-up, data and timer handlers, the cleanup |
| pollfd vector | `server/poll/pollfd_vector.c` | `data`, `pd`, `size`, `capacity` | add (with growth), remove (the last entry takes the place) |
| shared server code | `server/server_utils.c` | `server_running` | signal handler, `accept_client`, `read_n_echo`, socket and timer set-up |
| server-side benchmark | `server/server_benchmark.c`, `common/measurements.c` | counters, a container of samples | start, stop, record, save |
| time arithmetic | `common/time_utils.c` | none | conversions, difference, comparison |
| assertion macros, logging | `common/utils.h`, `common/debug.h` | none | end the process, print |

How they interact. A client talks to a server only through a TCP connection. A server is a
single thread; everything concurrent about it is in its dealings with the kernel:

* *io_uring*: requests are put on a ring, taken by the kernel (by the call of the server, or
  in SQPOLL mode by a kernel thread at any time), completed in any order, and put on a second
  ring with the address of the heap object as `user_data`. The handlers reuse that object for
  the next request of the connection.
* *epoll*: everything is edge-triggered; a wait returns a batch of at most 256 events that
  carry raw pointers to the connection objects.
* *poll*: level-triggered; the answer is written into the array that the handlers extend and
  shrink while it is being walked.
* *SIGUSR1* clears `server_running`. It is blocked except inside `ppoll`, `epoll_pwait` and
  `io_uring_enter`; in SQPOLL mode it is not blocked at all.
* A *warm-up timer* exists when the benchmark is compiled in. When it fires, measuring begins;
  its descriptor is closed and its number goes to the next connection.
* A failed assertion or a segmented message ends the process with `EXIT_FAILURE`.

What is hard about it, and what each component has to get right:

* *Ownership.* An object must not be freed while a request, an event or an array entry still
  leads to it, must not be queued twice, and must be freed in the end.
* *Reuse of descriptor numbers.* All three servers tell listening socket, timer and connections
  apart by number or by a field of a reused object.
* *Lost work.* An edge that is not used up, an SQE that is not announced, an entry of the vector
  that is skipped, a kernel thread that sleeps over an entry: the client waits for ever.
* *Order.* One buffer per connection serves read and write; the k-th echo must be the k-th message.
* *Wrap-around.* The counters of the rings are 32 bits wide; the borrow between seconds and
  nanoseconds has boundary cases.
* *Stopping.* The signal may come at any time; the loop must see it and the cleanup must find
  every descriptor and object.

The full list, with the line where each one bites, is `hazards` in `PROJECT.json`.

## Modules

| module | what it is |
|---|---|
| `EchoClients` | clients and what system calls on their connections can return; extended by every server |
| `EchoService` | the abstract specification: accept once, answer the k-th message with itself, release after the client left, stop |
| `IouServer` | io_uring server and kernel, both ring modes, with the rings as queues and the tracker as a set |
| `OpQueues`, `IouRings` | what the rings promise; the rings with counters, slots and the kernel thread |
| `TrackedOps`, `MemTracker` | what the tracker promises; the list with its pointers and the memory it is in |
| `EpollServer` | epoll server and the epoll instance |
| `PollServer` | poll server and its vector |
| `ServerBench` | the benchmark, its container of samples and its callers in the servers |
| `TimeUtils` | the time arithmetic, as operators; used by `ServerBench` |
| `MCIouServer`, `MCEpollServer` | the symmetry sets for TLC |
| `IouServerProofs`, `IouEchoProofs` | the inductive invariant of `IouServer`; its refinement, its ring, its cleanup and its use of the tracker |
| `IouRingsProofs` | inductive invariant and refinement of `IouRings` |
| `EpollProofs`, `PollProofs` | inductive invariant and refinement of `EpollServer` and `PollServer` |
| `EchoClientsProofs` | lemmas the last two share |
| `MemTrackerProofs` | inductive invariant and refinement of `MemTracker` |
| `ServerBenchProofs` | exactness of the time arithmetic and of the samples computed with it |

The composition: `EchoService` is implemented by `IouServer`, `EpollServer` and `PollServer`.
`IouServer` uses `sq`, `kern` and `cq` as `OpQueues` describes them, which `IouRings` implements,
and `tracked` as `TrackedOps` describes it: `MemTracker` implements that for a caller that meets its
contract, and `IouServer` meets it (`UsesTracker`).

Names follow the code. Definitions marked `slip` in a comment are faulty variants of the
definition that follows them; nothing uses them. They document which mistake each property
would catch (`mutants` in `PROJECT.json`).

### Clients and messages (`EchoClients`)

The k-th message of a client is the number k, so the stream is 1, 2, 3, ... and a wrong, lost,
doubled or foreign echo shows in `echoes[c]`. `Window` is the number of unanswered messages a
client allows itself: 1 is the client of the repository, which waits for each echo; 2 lets two
messages meet in the server's buffer, which is why that buffer is one byte larger than a message.
`RecvResults` and `SendResults` give the results a system call can have: a whole message, more
than a message, a part of one (`"short" \in Faults`), 0 at the end of the stream, -1 after a reset.
A connection can be used and left before the server accepts it. `"accept" \in Faults` lets accepts
fail; running out of descriptors (`Fds`) makes them fail as well.

### io_uring (`IouServer`)

* The object of the connection of client c is c. `kind`, `fd`, `busy`, `buf` are the fields of its
  `iou_op`; `heap` says whether it is allocated; `tracked` is the list `mem_allocs_tracker`.
  `AcceptOp` and `TimerOp` are the two requests on the stack of `service_loop`.
* `sq`, `kern` and `cq` are the queue of unconsumed SQEs, the requests inside the kernel, and the
  queue of unreaped CQEs. A CQE carries the operation that completed as well (`kind`), which the
  code does *not* read: `DispatchMatches` compares it with what the dispatch does read.
* `EnterSubmit`/`EnterReturn` is the blocking `io_uring_enter`; `WakeOrSpin` the SQPOLL branch;
  `KernelConsume` and `KernelIdle` the SQPOLL thread; `KernelAccept`, ..., `KernelTimer` the
  completions, in any order.
* `HandleAccept`, ..., `HandleTimer` are `iou_get_cqe`, the dispatch and one handler, in one step.
  In SQPOLL mode the kernel may consume the first of the two entries `HandleAccept` queues before
  the second is there; with a ring of two or more entries that run differs from one of the model
  only in the order of independent steps.
* `IORING_OP_CLOSE` runs inline while it is submitted (`Interruptible`), which is what makes the
  cleanup of the simple mode safe and that of SQPOLL mode unsafe.
* `FreeRing`, `CloseOne`, `CloseDone` are the cleanup. Requests still in the kernel when the ring is
  closed are dropped. Where one is cancelled rather than completed, no memory is touched any more.

Assumed here: `io_uring_enter` takes every entry it is told of (`IouRings` drops this); the timer
completes with `-ETIME` and an asynchronous close of an open descriptor with 0.

### The rings (`IouRings`, `OpQueues`)

* `sqHead`, `sqTail`, `cqHead`, `cqTail` are the counters, modulo `Word`; `sqes`, `array` and `cqes`
  the slots; `ring_size` is what `iou_create` was called with, `Entries` what the kernel makes of it
  (the next power of two, twice that for completions). `SqFull` is the test of `iou_acquire_sqe`.
  `Entries` finds the power of two as the number from `ring_size` on, below its double, of which twice
  divides `Word`; for `Word` = 2^32 the two are the same, and divisibility is what the code relies on
  when counters wrap.
* The server copies a completion (`CopyCqe`), then moves the head (`ConsumeCqe`), then submits what
  the handler asks for (`AcquireSqe`, `SubmitSqe`). Which requests follow on which is nondeterministic:
  the handlers themselves are in `IouServer`.
* `seenTail` is the tail as the kernel sees it: the store of `sqTail` becomes visible with `Drain`, at
  a later time than the server's relaxed read of `IORING_SQ_NEED_WAKEUP` (`Wake`), or with a system
  call. The kernel thread sets the flag (`GoIdle`), looks again and sleeps (`LookAgain`).
* `io_uring_enter` may take fewer entries than it is told (`ShortEnters`). `io_events_to_submit` is
  reset all the same; what such a call leaves behind waits for the next nonzero count, and when the
  server then blocks with nothing else under way it waits for ever (`Stranded`).
* A completion that finds the queue full waits in the kernel (`Complete` is not enabled). In SQPOLL
  mode the number of events to submit only matters as zero or not, and is kept as 0 or 1.

### The tracker (`MemTracker`, `TrackedOps`)

Nodes and objects are addresses; memory that was given back keeps its contents and can be handed out
again. `PushBack` and `RemoveNode` are the assignments of `mem_t_push_back` and `mem_t_remove_node`;
`NewClient`, `ClosingClient` and `CloseOne` are the three users in `main.c`. `order` is a history
variable: the live nodes, oldest first. `CloseOne` can fail, as `IouServer` says when.

### epoll (`EpollServer`)

* `ready` is the ready list of the epoll instance: an arriving message, an end of stream, a new
  connection or the timer puts its source there (`Edge`); `EpollWait` takes at most `MaxEvents`
  sources, in any choice, and *removes* them. A source without anything to report is dropped.
* `evs` is the rest of the batch, each with what was true when the wait returned. The batch is served
  in any order, since nothing fixes the order of the ready list.
* The dispatch compares descriptors (`FdOf`), as the code does through the event's pointer.
* `AcceptClient` is one round of the accept loop: `accept4`, the allocation, `EPOLL_CTL_ADD` (which
  reports what is already there) and the list insertion. `AcceptDone` is `EAGAIN`.
* `ServeData` is the read and `WriteEcho` the write of `read_n_echo`; clients move in between.
* `next`, `prev`, `head`, `tail` are the list links, with exactly the assignments of
  `dll_connect_back` and `dll_remove`; freed objects keep theirs, and no block is allocated twice.

### poll (`PollServer`)

* `data` and `pd` are the two arrays, as sequences of `size` entries; `capacity` grows by the code's
  factor. What lies behind the end is zeroed by `pollfdv_remove_index`, so `Skip` passes over it.
* `Ppoll` fills `revents`; the walk is `i`, `size`, `events`, `serviced`; one action per branch of
  the walk. `StepBack` is `--i` followed by `++i`.
* `ev->revents = 0` after an accept goes through a pointer taken before the vector was extended. When
  it was, the model lets the write be lost. Later passes overwrite `revents`, so nothing depends on it.
* `"accept" \in Faults` also lets `accept_client` return -1, which becomes an entry with an object
  that belongs to no client (`Orphan`; bound: one such entry). The server goes on serving, but the
  cleanup's `close` of that entry fails and ends the process there; `NoSpuriousFailure` says that
  this is the only close that fails.

### Benchmark and time (`ServerBench`, `TimeUtils`)

* `async` tells the two ways the servers call the benchmark apart. poll and epoll count the events of a
  batch when it arrives (`Arrive`) and measure read and echo within one event (`BeginEvent`,
  `EndEvent`). io_uring handles one completion at a time, begins a measurement in one and ends it in
  another, so measurements of several connections overlap, and one may begin before measuring does.
* `do_measure`, `client_no`, `request_no`, `meas_start_time`, `meas_end_time` are the fields of
  `struct server_bench`, `event_latency` is the container, `file` what `sb_save_bench` wrote.
  `began`, `durations` and `stoppedAt` are history variables, in exact nanoseconds, against which
  the samples are compared.
* In poll and epoll the batch that holds the timer was counted before its timer event started the
  measuring, so its other events are measured and not counted: `Uncounted`.
* `TimeUtils` computes with a second of `Nano` nanoseconds, an `int` of 2 * `IntHalf` values and a
  `uint64_t` of `Wide` values; `ToInt` is the narrowing to `int` in `timespec_rebalance`, `Quotient` and
  `Remainder` are those of C. `ServerBench` runs its clock through them.

### Refinement

Each server module instantiates `EchoService`: `up` is "the loop is running", `service[c]` is the
state of the connection's object (`Holding[heap[c]]`), `answers` is what was written to the
connection. `EchoSafe` is the refinement of the safety part, `EchoLive` of the specification with
fairness. A failed assertion and SIGUSR1 are both `Stop`.

`IouRings` instantiates `OpQueues` with the queues its counters stand for: entry k of the submission
queue is the slot that the array has at `sqHead + k - 1`. `MemTracker` instantiates `TrackedOps` with
the set of allocated objects. `IouServer` instantiates it too, with `tracked` and with `TrackerPhase`,
which serves until `iou_free` (an assertion that fails before leaves the list as it is): there
`TrackedOps` is what a caller may ask of the tracker.

## What is checked

| run | instance | question | result |
|---|---|---|---|
| `IouSimple` | 2 clients, 2 messages, window 2, ring of 3, timer, all faults | ownership, dispatch, descriptors, ring, order, cleanup, refinement in the simple mode | holds, 799k states |
| `IouSqpoll` | 2 clients, 1 message, ring of 2, timer, SQPOLL | no connection lost track of, use of the tracker, refinement with the kernel thread, a full ring and an unmasked signal | holds, 912k states |
| `IouLive` | 2 clients, 1 message | clients are answered, connections released, SIGUSR1 ends the process | holds, 36k states |
| `IouRings` | both modes, rings of 1 and 3 entries, counters modulo 16, 3 objects, short enters | are the rings queues, and is every entry taken? | holds, 116k states |
| `MemTracker` | 3 objects, 4 nodes | links, the walk of the cleanup, refinement and end of the cleanup | holds, 103k states |
| `IouTeardown` | simple mode | does the cleanup close everything? | no |
| `IouTeardownSqpoll` | SQPOLL | does the cleanup's `close` always succeed? | no |
| `Epoll` | 2 clients, 2 messages, window 2, batches of 2, timer, 2 descriptors, all faults | lost edges, stale events, dispatch, descriptors, refinement with liveness, SIGUSR1 | holds, 197k states |
| `EpollLinks` | 2 clients | are list neighbours linked after a removal? | no |
| `Poll` | 2 clients, 2 messages, window 1, capacity 2 that grows, timer, 2 descriptors, all faults | the walk over a changing vector, alignment, dispatch, teardown, refinement with liveness, SIGUSR1 | holds, 208k states |
| `ServerBench` | 2 connections, batches of 2, 2 samples, 4 events, clock up to 4, seconds of 3 ns | exactness and counting of samples, the file, one interval | holds, 1.39M states |
| `BenchWindow` | the same | is the saved end time that of the end of measuring? | no |

Bounds. Two clients are the fewest for which a descriptor is reused while another connection lives,
one connection can receive another's message, a batch has two connections and the last entry of the
vector moves into a hole; each client connects once. `MaxMsgs = 2` is the fewest for which the
buffer of a connection is reused. `Window` bounds unanswered messages; the poll run has 1, since the
code in which two messages can meet, `read_n_echo`, is the one the epoll run has with 2.
`RingSize = 3` in `IouServer` is one fewer than the requests there can be (accept, timer, two
connections) and the fewest for which no entry is ever refused; `RingSize = 2` is the smallest the code
works with. `Fds` is the set of descriptors: two, of which the timer holds one at first in the runs
with a timer, so that numbers are reused and accepts can fail for want of one. `MaxEvents = 2` in
`EpollServer` is smaller than the number of sources, so that a batch can leave some behind.
`InitialSize = 2` (16 in the code) makes the vector grow with the first or second client. The signal
can be sent again after it was delivered.

`IouRings`: a ring of 1 makes full and empty adjacent, a ring of 3 has four slots, so that the test
against `ring_size` differs from one against the slots; `Word = 16` is twice the number of completion slots
and makes every counter wrap. `MemTracker`: three objects give head, middle and tail of the list in
any order; the fourth node makes the reuse of memory differ from its order. `ServerBench`: with
`Nano = 3` and the clock up to 4 a measurement can lie within a second, cross its boundary and be a
multiple of it; `Capacity = 2` overflows in `MaxEvents = 4` measurements. `IntHalf` and `Wide` are
as small as those times allow.

Clients are interchangeable, so the runs without liveness use symmetry where it pays; those with
liveness do not.

`SocketsOwned`, in `IouSqpoll`, is the other direction of `FdsOwned`: not only does an object lead to its
own connection, every open connection is led to, by its object or by an accept that waits to be handled.
It says exactly what `IouTeardown` finds open at the end: what an accept had returned and no handler had
seen, and nothing else. It and `UsesTracker` are checked in SQPOLL mode, where the signal can end the
loop anywhere and an assertion the walk of the cleanup; the theorems are about both modes. Ownership
(`SingleOwner`) and descriptors (`FdsOwned`) are checked in the simple mode with all faults, and
proved for both.

What the failing runs show:

* `IouTeardown`: the accept request is still armed when SIGUSR1 ends the wait in `io_uring_enter`. A
  connection the kernel accepts from then until `iou_free` has a completion nothing handles: it is in
  no list and is not closed before the process exits. (The exit of the process closes it; the
  teardown the README describes does not.)
* `IouTeardownSqpoll`: the signal can arrive between an asynchronous close and its handling; the
  cleanup closes the same number again, the assertion fails, and the rest of the list is not freed.
* `EpollLinks`: `dll_connect_back` never sets the `next` of the old tail. When a connection that is
  not the tail leaves, its successor keeps a `prev` to freed memory, and writes to it when it leaves.
  For the same reason the cleanup, which follows `next` from the head, closes at most one connection.
* `BenchWindow`: when the container is full, `sb_record_event` calls `sb_stop`; the end of the loop
  calls it again and overwrites `meas_end_time`, so the saved interval is longer than the one in
  which requests were counted.

### Fairness

The servers' `Spec` assumes weak fairness of the server thread (it is runnable unless it waits, and the
scheduler runs it), of signal delivery (a pending, unblocked signal is delivered), and for io_uring of
each operation inside the kernel and of the SQPOLL thread. Nothing is assumed of the clients, the
timer or the sender of the signal. In `EchoService` this gives: a connection is accepted, a client
that stays is answered, one that left is released, or the server stops.

`IouRings` assumes it of the server, of the visibility of stores, of the kernel taking what it sees
and of the thread's second look; nothing of when requests complete. `EntriesTaken` excepts what a short
`io_uring_enter` left behind. `MemTracker` assumes that a cleanup once begun runs.

`SignalStops` needs that traffic ends: the signal interrupts a wait only when nothing is ready, and
a server that always finds something ready never sees it. In the models `MaxMsgs` bounds the
traffic; the property says that no other step of the program can keep the signal out.

## What is proved

The theorems hold for every value of the constants that satisfies the named assumptions of the
modules, which only say what the constants are: any set of clients, any `MaxMsgs` and `Window`, any
set of descriptors, both ring modes and any ring of at least two entries, any batch size, any initial
size of the vector, with and without timer and faults; any set of objects and nodes; rings of any
size and counters of any width that the sizes of the rings divide; any length of a second and any
capacity.

io_uring server (`IouServerProofs`, `IouEchoProofs`):

| theorem | statement |
|---|---|
| `TypeCorrect` | `TypeOK` always |
| `Ownership` | every live `iou_op` is at exactly one of submission queue, kernel and completion queue, no freed one is at any, the tracker has exactly the live ones |
| `Dispatch` | the handler that is run is that of the operation that completed |
| `BusyFlag` | `busy` is set exactly while the kernel has the buffer |
| `Descriptors` | a request never names a descriptor of another connection |
| `EchoOrder` | every client is sent back its own messages, once each, in order |
| `ServesEcho` | the server implements `EchoService` (safety) |
| `NoCloseUnderClient` | outside the cleanup, only connections that were left are closed |
| `NothingStranded` | `io_events_to_submit` is the number of queued entries at each `io_uring_enter` |
| `RingNeverFull` | with an entry for the accept, the timer and each of finitely many clients, no handler finds the ring full, and no completion the completion queue |
| `CleanupCloses` | in the simple mode the cleanup's `close` never fails |
| `NoConnectionLeaks` | an open connection waits in an unhandled accept or is the one its object carries, until the close of that object has completed; a process that left main leaves open only what no handler had seen |
| `UsesTheTracker` | objects are added to the list and taken off it as the tracker needs it, and only the walk touches it after `iou_free` |

None of the properties is inductive. `IInv` (in `IouServer`) joins them with:

* `Arrivals`: a client that no accept has returned has no object and no descriptor; one that an
  unhandled accept has returned has its descriptor and no object. Needed to see that
  `handle_new_client` allocates for a connection that has nothing yet.
* `MessageFlow`: a message is inside the server exactly from the completion of its receive to that of its
  send, and is then what the buffer holds. This makes a completed send the next `Answer`.
* `LeftFirst`: a close, and the end of stream that leads to it, belongs to a client that has left. This
  makes the handling of a close a `Release`, and gives `NoEarlyClose`.

`InitIInv` and `NextIInv` prove it inductive, one lemma per action; `QuietStep`, `MoveStep`,
`CompleteStep`, `PopStep` and `ResubmitStep` state once what steps of one shape have in common
(nothing moves, an entry moves into the kernel, a request completes, a completion is taken, an object
is queued again). `IouEchoProofs` maps each action to a step of `EchoService` or a stutter.
`RingNeverFull` counts: an object is in the queue once, and not while its completion is handled, nor
before it exists. `NoConnectionLeaks` is inductive together with `IInv`: an accept is announced with the
descriptor it opened, its handler moves the descriptor into the new object (`Arrivals`: the client
had none), and a close takes it out of the kernel before it is taken out of the object. `CleanupCloses` adds `CleanStop`: the signal ends a wait only where neither the
queues nor the kernel have a close, and no handler runs after it.

The rings beneath it (`IouRingsProofs`):

| theorem | statement |
|---|---|
| `RingInvariant` | `RInv` always: counters, slots and what the server holds of them are consistent |
| `TypeCorrect` | `TypeOK` always |
| `RingsAreQueues` | the rings implement `OpQueues`: entries are taken and completions reaped in order, each once and whole; an entry is refused only when `ring_size` wait |

`AreQueues` speaks of queues and the code of two counters and an array of slots; what lies between is `RInv`:

* `SqInv`: at most `ring_size` entries wait, the kernel sees no more than there are, and of each both the
  index and the object are written. That fewer wait than there are slots makes the slot at the
  tail (`AcquireSqe`) different from all that wait; that the kernel sees less than there is makes what
  it takes whole, although stores become visible late.
* `CqInv`: the same of completions. There is always room for one more when one is announced.
* `HandlerInv`: the handler has at most two entries to submit, and none of them is parked or in a ring.
* `HeldInv`: between `AcquireSqe` and `SubmitSqe` the slot at the tail has the entry, and between `CopyCqe`
  and `ConsumeCqe` the slot at the head still has the completion that was copied.

The arithmetic is proved once, from the division theorem: `TailSlot` (the slot at the tail is that of head
plus length, across a wrap, because the number of slots divides `Word`), `StepSlot` (stepping the head
renumbers the slots by one), `SlotsDiffer` (offsets less than the number of slots have different slots),
`Grow` and `Shrink` (length after a step of one counter). `SeqMake`, `OneMore` and `OneLess` turn facts
about slots into `Append` and `Tail` of a queue.

epoll server (`EpollProofs`):

| theorem | statement |
|---|---|
| `TypeCorrect` | `TypeOK` always |
| `NoEventOfFreed` | no event, ready or in the batch, is of a freed connection, and no two events of a batch are of one source |
| `NoEdgeIsLost` | whatever there is to do is on the ready list, in the batch or being done |
| `DescriptorsOwned` | live connections and open descriptors are paired one to one |
| `RightHandler` | the comparison of descriptors finds the kind of the source |
| `NoFailureByMistake` | `read` never finds nothing, `close` never a closed descriptor |
| `ImplementsEcho` | the server implements `EchoService` (safety) |

`EInv` adds `Arrivals` (as above), `TimerOwned` (the timer's number is the timer's as long as the
holder has it), `Batch` (an event of the batch says what still holds, and a client that left after the
wait has a new edge), `MessageFlow` (the buffer is in use between read and write only), and
`Unlinked`: the `next` links are all NULL. The last is the defect `EpollLinks` shows, seen from the
other side: it is why the cleanup's walk never follows a link to freed memory, and why it stops
after one connection.

poll server (`PollProofs`):

| theorem | statement |
|---|---|
| `TypeCorrect` | `TypeOK` always; the vector fits its arrays |
| `AllServiced` | the walk services every event that `ppoll` counted, once |
| `ArraysAligned` | the two arrays pair live connections and open descriptors one to one |
| `RightHandler` | the timer's number counts as the timer only while the timer has it |
| `NoFailureByMistake` | `read` never finds nothing, `close` fails only on the -1 of `accept_client` |
| `Teardown` | a server that exits has closed and freed everything |
| `ImplementsEcho` | the server implements `EchoService` (safety) |

`PInv` adds, to the parts of the same name in `EInv`, `Batch` (entries behind the size of the walk have
no events, those ahead say what still holds), `AtEcho` (between read and write the walk stands at the
connection) and `Closing` (what the cleanup has not passed still has everything that is open). The
heart of `AllServiced` is a count: the events ahead of the walk are those not serviced. The lemmas
`CountPass`, `AddCount` and `RemoveCount` say what a step of the walk, an append and a removal do to
that count; a removal is a renumbering of the entries by which the last one takes the place
of the removed one, and the walk steps back to meet it.

The tracker (`MemTrackerProofs`):

| theorem | statement |
|---|---|
| `ListStaysLinked` | head, tail and the links are those of the list of live nodes |
| `WalkIsComplete` | the walk of the cleanup comes by exactly what is allocated |
| `TracksSafety` | the list implements `TrackedOps` (safety) |

`MInv` joins `ListLinked` with `Paired`: an object and its node point at each other.

Time and benchmark (`ServerBenchProofs`):

| theorem | statement |
|---|---|
| `RebalanceExact` | rebalancing keeps the time and balances it, if the seconds in `nsec` fit an `int` |
| `DeltaExact` | the difference of balanced times is exact and balanced |
| `LtExact` | `timespec_lt` orders balanced times |
| `LatencyExact` | the nanoseconds of a difference of clock values are the difference of their nanoseconds |
| `SamplesExact` | the samples are the exact durations of the first events after the timer that fit |
| `SamplesAreCounted` | every sample was counted, but for those in the batch of the timer |
| `ReportIsWhole` | the file has all samples and counters, and an interval that does not end before it starts |
| `MeasuredOnce` | after measuring has ended no counter moves and no sample is added |

`BInv` adds `Begun` (a start time is the clock's at that time), `Stages` (measuring begins with the timer
and ends when the container is full) and `Counting` (events that can still become samples are counted).
`SamplesExact` rests on `LatencyExact`.

`EchoClientsProofs` has what the epoll and poll proofs share: that a nonempty set of descriptors has a
smallest one (by well-foundedness of strict inclusion on finite sets, since the library's
induction theorems cannot be instantiated here) and what a read can return.

Only model-checked: liveness (`EchoLive`, `SignalStops`, `EntriesTaken`, the end of the cleanup in
`Tracks`), which is outside the prover's reach. The safety part of `EchoLive` and of
`Tracks` is proved. The failing runs are counterexamples of TLC.

## Not modelled

* Socket, timer, ring and signal-mask set-up: single calls whose failure ends the process at the start.
* Allocation failure, which ends the process by assertion.
* How a kernel brings in completions that overflowed: they wait until there is room.
* The firehose and idle modes of the client, which do not compile (`#elif FIREHOSE_MODE` without a value,
  `client/main.c:51`); `Window` covers what a firehose client would do to a server. The Rust benchmark
  (a git submodule, empty here), build files, the logging macros.
* The format of the benchmark's file: `file` is what is in it.
* What happens after a failed assertion: the process is gone.

## Plan

1. done: `EchoClients`, `EchoService`, the three servers and their proofs.
2. done: `MemTracker` and `IouRings` beneath the io_uring server, with the proofs that they are what it
   uses; `ServerBench` on `TimeUtils`.
3. left: what the teardown of the epoll server leaves open, as an invariant like `SocketsOwned`;
   `IouServer` with an `io_uring_enter` that takes fewer entries than it is told, to see which client
   waits for the `Stranded` state of `IouRings`.
