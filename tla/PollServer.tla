------------------------------ MODULE PollServer ------------------------------
(***************************************************************************)
(* The poll echo server (code/c/server/poll/main.c) and its vector of      *)
(* descriptors (pollfd_vector.c).                                          *)
(*                                                                         *)
(* The vector is two parallel arrays: data, which ppoll(2) reads and       *)
(* writes, and pd, the connection objects.  service_events walks data by   *)
(* index while its handlers append to it, move its last entry into the     *)
(* place of a removed one and reallocate it.  Indices count from 1 here.   *)
(* The connection object of client c is c itself.                          *)
(***************************************************************************)
EXTENDS EchoClients, SequencesExt

CONSTANTS
  InitialSize,   \* DATA_INITIAL_SIZE
  Benchmarking,  \* DO_SERVER_SIDE_BENCHMARKING: there is a warm-up timer
  Fds,           \* the descriptors of the timer and of connections
  Timer, None,
  Orphan         \* the connection object of a failed accept

ExtendMult == 2  \* DATA_CAPACITY_EXTEND_MULT
LsFd == 0        \* the listening socket
TimerFd == CHOOSE n \in Fds : \A m \in Fds : n <= m

ASSUME PollAssumption ==
  /\ InitialSize \in Nat \ {0, 1}
  /\ Benchmarking \in BOOLEAN
  /\ Fds \subseteq Nat \ {0} /\ Fds # {}
  /\ {Timer, None, Orphan} \cap Clients = {}
  /\ Timer # None /\ Timer # Orphan /\ None # Orphan

VARIABLES
  pc,        \* where the server thread is
  running,   \* server_running
  sig,       \* SIGUSR1: "none", "pending", "delivered"
  cause,     \* why an assertion ended the process, "none" if none did
  data,      \* pollfdv.data: [fd, revents], pollfdv.size entries
  pd,        \* pollfdv.pd
  capacity,  \* pollfdv.capacity
  i,         \* the index of service_events and of the cleanup
  size,      \* the size of the vector when the walk began
  events,    \* no_events, what ppoll returned
  serviced,  \* no_serviced
  timer,     \* timer_fd
  expired,   \* the timer has expired
  sock,      \* kernel: whose descriptor n is
  buf,       \* buf[c]: the message in con->buf
  heap       \* heap[c]: "unallocated", "live" or "freed"

ctlVars == <<pc, running, sig, cause>>
vecVars == <<data, pd, capacity>>
walkVars == <<i, size, events, serviced>>
timerVars == <<timer, expired>>
conVars == <<sock, buf, heap>>
vars == <<ctlVars, vecVars, walkVars, timerVars, conVars, clientVars>>

Up == pc \in {"start", "loop", "wait", "serve", "echo", "cleanup"}
Ended == pc \in {"exited", "failed"}
Live == {c \in Clients : heap[c] = "live"}
FreeFds == {n \in Fds : sock[n] = None}
OpenFds == Fds \ FreeFds

\* poll_add_fd
Config(n) == [fd |-> n, revents |-> {}]

Init ==
  /\ ClientInit
  /\ pc = "start" /\ running = TRUE /\ sig = "none" /\ cause = "none"
  /\ data = IF Benchmarking THEN <<Config(LsFd), Config(TimerFd)>>
            ELSE <<Config(LsFd)>>
  /\ pd = [k \in DOMAIN data |-> None]
  /\ capacity = InitialSize
  /\ i = 1 /\ size = 0 /\ events = 0 /\ serviced = 0
  /\ timer = IF Benchmarking THEN TimerFd ELSE -1
  /\ expired = FALSE
  /\ sock = [n \in Fds |-> IF Benchmarking /\ n = TimerFd THEN Timer ELSE None]
  /\ buf = [c \in Clients |-> 0]
  /\ heap = [c \in Clients |-> "unallocated"]

-----------------------------------------------------------------------------
(***************************************************************************)
(* Clients, timer and signal.                                              *)
(***************************************************************************)

ClientMove(c) ==
  /\ ~Ended
  /\ ClientStep(c)
  /\ UNCHANGED <<ctlVars, vecVars, walkVars, timerVars, conVars>>

TimerExpires ==
  /\ timer # -1 /\ ~expired /\ Up
  /\ expired' = TRUE
  /\ UNCHANGED <<ctlVars, vecVars, walkVars, timer, conVars, clientVars>>

SendSignal ==
  /\ sig # "pending" /\ ~Ended
  /\ sig' = "pending"
  /\ UNCHANGED <<pc, running, cause, vecVars, walkVars, timerVars, conVars,
                 clientVars>>

\* What ppoll reports of a descriptor now.  The end of the stream is POLLIN; a
\* reset connection is POLLIN, POLLERR and POLLHUP ("hup").  A negative number
\* is skipped.
Revents(n) ==
  CASE n = LsFd -> IF backlog # {} THEN {"in"} ELSE {}
    [] n \in Fds /\ sock[n] = Timer -> IF expired THEN {"in"} ELSE {}
    [] n \in Fds /\ sock[n] \in Clients ->
         LET c == sock[n] IN
           (IF Pending(c) > 0 \/ cpc[c] = "gone" THEN {"in"} ELSE {})
             \cup (IF Reset(c) THEN {"hup"} ELSE {})
    [] OTHER -> {}

\* slip: the last entry is not passed to ppoll
PolledButLast ==
  [k \in DOMAIN data |->
     [fd |-> data[k].fd,
      revents |-> IF k < Len(data) THEN Revents(data[k].fd) ELSE {}]]

\* ppoll(pollfdv.data, pollfdv.size, ...)
Polled == [k \in DOMAIN data |->
             [fd |-> data[k].fd, revents |-> Revents(data[k].fd)]]

HasEvent(d, k) == k \in DOMAIN d /\ d[k].revents # {}
EventsIn(d, K) == Cardinality({k \in K : HasEvent(d, k)})

-----------------------------------------------------------------------------
(***************************************************************************)
(* The loop and the stop signal.                                           *)
(***************************************************************************)

\* ppoll looks for events first: only a wait without any is interrupted
SignalOpen ==
  \/ pc = "start"
  \/ pc = "wait" /\ \A k \in DOMAIN data : ~HasEvent(Polled, k)

\* slip: the loop does not see the write of the handler
StoppedUnseen == UNCHANGED running

\* server_running = 0, volatile
Stopped == running' = FALSE

\* stop_server_signal_handler; ppoll then fails with EINTR
DeliverSignal ==
  /\ sig = "pending" /\ SignalOpen
  /\ sig' = "delivered" /\ Stopped
  /\ pc' = IF pc = "wait" THEN "loop" ELSE pc
  /\ UNCHANGED <<cause, vecVars, walkVars, timerVars, conVars, clientVars>>

\* sigprocmask blocks the signal, the loop begins
Start ==
  /\ pc = "start"
  /\ pc' = "loop"
  /\ UNCHANGED <<running, sig, cause, vecVars, walkVars, timerVars, conVars,
                 clientVars>>

Loop ==
  /\ pc = "loop"
  /\ pc' = IF running THEN "wait" ELSE "cleanup"
  /\ UNCHANGED <<running, sig, cause, vecVars, walkVars, timerVars, conVars,
                 clientVars>>

\* ppoll returns; service_events begins with the size the vector has now
Ppoll ==
  /\ pc = "wait"
  /\ EventsIn(Polled, DOMAIN data) > 0
  /\ pc' = "serve"
  /\ data' = Polled
  /\ events' = EventsIn(Polled, DOMAIN data)
  /\ i' = 1 /\ size' = Len(data) /\ serviced' = 0
  /\ UNCHANGED <<running, sig, cause, pd, capacity, timerVars, conVars,
                 clientVars>>

\* A failed assertion ends the process.
Abort(why) == pc' = "failed" /\ cause' = why

-----------------------------------------------------------------------------
(***************************************************************************)
(* pollfd_vector.c                                                         *)
(***************************************************************************)

\* slip: one entry too late
FullLate == Len(data) > capacity

\* the vector has to be extended before an entry is added
Full == Len(data) >= capacity

\* pollfdv_add: extends the vector, then stores the entry behind the last one
VectorAdd(d, n, con) ==
  /\ capacity' = IF Full THEN capacity * ExtendMult ELSE capacity
  /\ data' = Append(d, Config(n))
  /\ pd' = Append(pd, con)

\* slips: the private data stays; the vector does not shrink
MovedDataOnly(k) ==
  data' = Front([data EXCEPT ![k] = Last(data)]) /\ pd' = Front(pd)

MovedNotShrunk(k) ==
  /\ data' = [data EXCEPT ![k] = Last(data)]
  /\ pd' = [pd EXCEPT ![k] = Last(pd)]

\* the last entry takes the place of entry k
Moved(k) ==
  /\ data' = Front([data EXCEPT ![k] = Last(data)])
  /\ pd' = Front([pd EXCEPT ![k] = Last(pd)])

\* pollfdv_remove_index
VectorRemove(k) ==
  /\ IF data[k].fd = -1 THEN UNCHANGED <<data, pd>> ELSE Moved(k)
  /\ UNCHANGED capacity

-----------------------------------------------------------------------------
(***************************************************************************)
(* service_events: the walk over the vector.                               *)
(***************************************************************************)

InWalk == pc = "serve" /\ i <= size /\ serviced < events
Here == InWalk /\ HasEvent(data, i)

\* slip: the walk goes on although another entry has taken this place
StepBackNot == i' = i + 1

\* --i and the ++i of the loop: the entry that took this place is next
StepBack == i' = i

\* ev->revents = 0 and the ++i of the loop
EntryDone ==
  /\ data' = [data EXCEPT ![i].revents = {}]
  /\ i' = i + 1

\* An entry without events, or a place behind the end, which
\* pollfdv_remove_index has zeroed, is passed over.
Skip ==
  /\ InWalk /\ ~HasEvent(data, i)
  /\ i' = i + 1
  /\ UNCHANGED <<ctlVars, vecVars, size, events, serviced, timerVars, conVars,
                 clientVars>>

\* poll_handle_new_client: accept4, the new connection, its entry.  What
\* accept_client returns is not looked at, a -1 becomes an entry as well
\* (bound: one of them).  The entry of the listening socket is cleared through
\* a pointer taken before the vector was extended: the write may be lost.
ServeListener ==
  /\ Here /\ data[i].fd = LsFd /\ "in" \in data[i].revents
  /\ serviced' = serviced + 1 /\ i' = i + 1
  /\ LET cleared == [data EXCEPT ![i].revents = {}] IN
       \/ \E c \in backlog, n \in FreeFds, d \in {data, cleared} :
            /\ \A m \in FreeFds : n <= m
            /\ d = data => Full
            /\ VectorAdd(d, n, c)
            /\ backlog' = backlog \ {c}
            /\ sock' = [sock EXCEPT ![n] = c]
            /\ heap' = [heap EXCEPT ![c] = "live"]
            /\ UNCHANGED <<pc, cause>>
       \/ \E d \in {data, cleared} :
            /\ "accept" \in Faults /\ Orphan \notin ToSet(pd)
            /\ d = data => Full
            /\ VectorAdd(d, -1, Orphan)
            /\ UNCHANGED <<pc, cause, backlog, sock, heap>>
       \/ /\ FreeFds = {} \/ "accept" \in Faults
          /\ Abort("accept")
          /\ UNCHANGED <<vecVars, backlog, sock, heap>>
  /\ UNCHANGED <<running, sig, size, events, timerVars, buf,
                 cpc, sent, taken, echoes, got>>

\* slip: the number of the closed timer stays
TimerClosedKeep == UNCHANGED timer

\* *timer = -1
TimerClosed == timer' = -1

\* timer_expired, close_timer and the removal of the entry
ServeTimer ==
  /\ Here /\ data[i].fd = timer /\ "in" \in data[i].revents
  /\ sock' = [sock EXCEPT ![timer] = None]
  /\ VectorRemove(i)
  /\ TimerClosed
  /\ StepBack /\ serviced' = serviced + 1
  /\ UNCHANGED <<ctlVars, size, events, expired, buf, heap, clientVars>>

\* free(pollfdv.pd[k])
Free(k) ==
  heap' = IF pd[k] \in Clients THEN [heap EXCEPT ![pd[k]] = "freed"] ELSE heap

\* close_client
CloseClient(k) ==
  IF data[k].fd \notin OpenFds
  THEN Abort("close") /\ UNCHANGED <<vecVars, sock, heap, i>>
  ELSE /\ sock' = [sock EXCEPT ![data[k].fd] = None]
       /\ Free(k)
       /\ VectorRemove(k)
       /\ StepBack
       /\ UNCHANGED <<pc, cause>>

AtClient == Here /\ data[i].fd \notin {LsFd, timer}
Peer == sock[data[i].fd]

\* handle_client_event: POLLHUP or POLLERR
ServeHangup ==
  /\ AtClient /\ "hup" \in data[i].revents
  /\ CloseClient(i)
  /\ serviced' = serviced + 1
  /\ UNCHANGED <<running, sig, size, events, timerVars, buf, clientVars>>

\* slip: a second message behind the first is not noticed
WholeOrMore(res) == res >= BufSize

\* the read is neither more nor less than DEFAULT_BUFFER_SIZE
Whole(res) == res = BufSize

\* handle_client_event: POLLIN; the read of read_n_echo, which takes EAGAIN for
\* an error.  The socket is that of the entry, the buffer that of its object.
ServeData ==
  /\ AtClient /\ "hup" \notin data[i].revents
  /\ serviced' = serviced + 1
  /\ \/ /\ RecvResults(Peer) = {}
        /\ Abort("again")
        /\ UNCHANGED <<vecVars, i, conVars, taken>>
     \/ \E res \in RecvResults(Peer) :
          \/ /\ res # 0 /\ ~Whole(res)
             /\ Abort("result")
             /\ UNCHANGED <<vecVars, i, conVars, taken>>
          \/ /\ res = 0
             /\ CloseClient(i)
             /\ UNCHANGED <<buf, taken>>
          \/ /\ Whole(res)
             /\ pc' = "echo"
             /\ TakeMessage(Peer, res)
             /\ buf' = [buf EXCEPT ![pd[i]] = taken'[Peer]]
             /\ UNCHANGED <<cause, vecVars, i, sock, heap>>
  /\ UNCHANGED <<running, sig, size, events, timerVars,
                 cpc, backlog, sent, echoes, got>>

\* back to the walk
Echoed == pc' = "serve" /\ EntryDone

\* the write of read_n_echo
WriteEcho ==
  /\ pc = "echo"
  /\ \E res \in SendResults(Peer) :
       /\ DeliverEcho(Peer, res, buf[pd[i]])
       /\ \/ Whole(res) /\ Echoed /\ UNCHANGED cause
          \/ ~Whole(res) /\ Abort("result") /\ UNCHANGED <<data, i>>
  /\ UNCHANGED <<running, sig, pd, capacity, size, events, serviced,
                 timerVars, conVars, cpc, backlog, sent, taken, got>>

\* the end of the walk, its assertion, and of its variables
WalkDone ==
  /\ pc = "serve" /\ ~InWalk
  /\ IF serviced = events THEN pc' = "loop" /\ UNCHANGED cause
     ELSE Abort("unserviced")
  /\ i' = 0 /\ size' = 0 /\ events' = 0 /\ serviced' = 0
  /\ UNCHANGED <<running, sig, vecVars, timerVars, conVars, clientVars>>

-----------------------------------------------------------------------------
(***************************************************************************)
(* do_client_connections_cleanup: one entry after the other; the vector    *)
(* itself stays as it is.                                                  *)
(***************************************************************************)

Cleanup ==
  /\ pc = "cleanup"
  /\ pc' = "closing" /\ i' = 1
  /\ UNCHANGED <<running, sig, cause, vecVars, size, events, serviced,
                 timerVars, conVars, clientVars>>

\* slip: the last entry is forgotten
MoreEntriesButLast == i < Len(data)

MoreEntries == i <= Len(data)

CloseOne ==
  /\ pc = "closing" /\ MoreEntries
  /\ LET n == data[i].fd IN
       \/ /\ n = LsFd
          /\ UNCHANGED <<pc, cause, sock, heap>>
       \/ /\ n \in OpenFds
          /\ sock' = [sock EXCEPT ![n] = None]
          /\ Free(i)
          /\ UNCHANGED <<pc, cause>>
       \/ /\ n \notin OpenFds \cup {LsFd}
          /\ Abort("close")
          /\ UNCHANGED <<sock, heap>>
  /\ i' = i + 1
  /\ UNCHANGED <<running, sig, vecVars, size, events, serviced, timerVars, buf,
                 clientVars>>

\* do_exit_cleanup
CloseDone ==
  /\ pc = "closing" /\ ~MoreEntries
  /\ pc' = "exited"
  /\ UNCHANGED <<running, sig, cause, vecVars, walkVars, timerVars, conVars,
                 clientVars>>

Terminating == Ended /\ UNCHANGED vars
-----------------------------------------------------------------------------
ServerStep ==
  \/ Start \/ Loop \/ Ppoll
  \/ Skip \/ ServeListener \/ ServeTimer \/ ServeHangup \/ ServeData
  \/ WriteEcho \/ WalkDone
  \/ Cleanup \/ CloseOne \/ CloseDone

Next ==
  \/ SendSignal \/ DeliverSignal
  \/ ServerStep
  \/ TimerExpires
  \/ \E c \in Clients : ClientMove(c)
  \/ Terminating

SafeSpec == Init /\ [][Next]_vars

\* The server thread is scheduled and a deliverable signal is delivered.
\* Nothing is assumed of the clients, the timer or who sends the signal.
Fairness == WF_vars(ServerStep) /\ WF_vars(DeliverSignal)

Spec == SafeSpec /\ Fairness

-----------------------------------------------------------------------------
(***************************************************************************)
(* Safety.                                                                 *)
(***************************************************************************)

\* Types, and the vector fits into its arrays, which pollfdv_add extends.
TypeOK ==
  /\ ClientTypeOK
  /\ pc \in {"start", "loop", "wait", "serve", "echo", "cleanup", "closing",
             "exited", "failed"}
  /\ running \in BOOLEAN
  /\ sig \in {"none", "pending", "delivered"}
  /\ cause \in {"none", "result", "again", "accept", "close", "unserviced"}
  /\ data \in Seq([fd : Fds \cup {LsFd, -1}, revents : SUBSET {"in", "hup"}])
  /\ pd \in Seq(Clients \cup {None, Orphan})
  /\ Len(pd) = Len(data)
  /\ capacity \in Nat /\ Len(data) <= capacity
  /\ {i, size, events, serviced} \subseteq Nat
  /\ timer \in {TimerFd, -1} /\ expired \in BOOLEAN
  /\ sock \in [Fds -> Clients \cup {Timer, None}]
  /\ buf \in [Clients -> Nat]
  /\ heap \in [Clients -> {"unallocated", "live", "freed"}]

\* Where the events begin that are not serviced yet.
Ahead == IF pc = "echo" THEN i + 1 ELSE i

\* The walk misses no event and sees none twice, although the handlers append
\* entries and move the last one into the place of a removed one: what ppoll
\* counted and is not serviced yet lies ahead, within the size of the start;
\* the assertion "Did not service all requests" never fails.
EventsAhead ==
  /\ pc \in {"serve", "echo"} =>
       events - serviced = EventsIn(data, Ahead..size)
  /\ cause # "unserviced"

\* The entries K: each has the descriptor and the object of one connection,
\* or is the one of the listening socket, the timer or a failed accept; every
\* live connection and every open descriptor is found in one of them.
Own(K) ==
  /\ \A k \in K :
       \/ data[k].fd = LsFd /\ pd[k] = None
       \/ data[k].fd = timer /\ timer \in Fds /\ sock[timer] = Timer
          /\ pd[k] = None
       \/ data[k].fd = -1 /\ pd[k] = Orphan
       \/ pd[k] \in Live /\ data[k].fd \in Fds /\ sock[data[k].fd] = pd[k]
  /\ \A c \in Live : \E k \in K : pd[k] = c
  /\ \A n \in OpenFds : \E k \in K : data[k].fd = n

\* No descriptor and no connection is entered twice.
NoTwins ==
  \A k, l \in DOMAIN data :
    data[k].fd = data[l].fd \/ (pd[k] \in Clients /\ pd[k] = pd[l]) => k = l

\* The two arrays stay aligned, through every append and every move of the
\* last entry: while the server is up they pair live connections and open
\* descriptors one to one.
FdsOwned == Up => Own(DOMAIN data) /\ NoTwins

\* service_events tells the listening socket, the timer and the connections
\* apart by their numbers, which are reused: the number of the timer only
\* counts as the timer while the timer has it.
DispatchMatches ==
  Up => \A n \in Fds : sock[n] # None => (sock[n] = Timer <=> n = timer)

\* read(2) never finds nothing to read, which read_n_echo would take for a
\* failure, and close(2) never a descriptor that is not open, except for the
\* -1 that accept_client returned in place of one.
NoSpuriousFailure ==
  cause # "again" /\ (cause = "close" => Orphan \in ToSet(pd))

\* The README's graceful teardown, "closing all file descriptors and
\* deallocating all the dynamic memory".
GracefulTeardown ==
  pc = "exited" => Live = {} /\ \A n \in Fds : sock[n] = None

-----------------------------------------------------------------------------
(***************************************************************************)
(* The inductive invariant behind these properties.                        *)
(***************************************************************************)

\* A connection has no object before accept4 has returned it.
Arrivals ==
  /\ pc = "start" => Live = {}
  /\ \A c \in backlog : cpc[c] # "start"
  /\ \A c \in Clients :
       cpc[c] = "start" \/ c \in backlog => heap[c] = "unallocated"

\* The timer's descriptor is the timer's as long as it has a number.
TimerOwned ==
  Up => /\ timer # -1 => sock[timer] = Timer
        /\ \A n \in Fds : sock[n] = Timer => n = timer

\* An entry ahead of the walk says what still holds, one that a handler has
\* appended says nothing.
Batch ==
  pc \in {"serve", "echo"} =>
    /\ 1 <= i
    /\ \A k \in DOMAIN data : k > size => data[k].revents = {}
    /\ \A k \in DOMAIN data : Ahead <= k /\ data[k].revents # {} =>
         /\ "in" \in data[k].revents /\ pd[k] # Orphan
         /\ pd[k] \in Clients => Pending(pd[k]) > 0 \/ cpc[pd[k]] = "gone"
         /\ pd[k] \in Clients /\ "hup" \in data[k].revents =>
              cpc[pd[k]] = "gone"

\* Between read and write the walk stands at the entry of the connection.
AtEcho ==
  pc = "echo" => i \in DOMAIN data /\ i <= size /\ pd[i] \in Live

\* The buffer of a connection is used between read and write only, for the
\* next message of its client.
MessageFlow ==
  \A c \in Clients :
    /\ taken[c] <= sent[c]
    /\ Up => IF pc = "echo" /\ c = pd[i]
             THEN taken[c] = Len(echoes[c]) + 1 /\ buf[c] = taken[c]
             ELSE taken[c] = Len(echoes[c])

\* An assertion that fails is the last thing the server does.
Failed == cause # "none" => pc = "failed"

\* The cleanup still has an entry of whatever is not given back.
Closing == pc = "closing" => 1 <= i /\ Own(i..Len(data)) /\ NoTwins

PInv ==
  /\ TypeOK /\ Arrivals /\ TimerOwned /\ FdsOwned /\ Closing /\ Failed
  /\ Batch /\ EventsAhead /\ AtEcho /\ MessageFlow
  /\ NoSpuriousFailure /\ GracefulTeardown

-----------------------------------------------------------------------------
(***************************************************************************)
(* The server implements the echo service.                                 *)
(***************************************************************************)

Presence == [start |-> "away", up |-> "here", gone |-> "left"]
Holding == [unallocated |-> "none", live |-> "held", freed |-> "released"]

Echo == INSTANCE EchoService WITH
  up <- Up,
  client <- [c \in Clients |-> Presence[cpc[c]]],
  service <- [c \in Clients |-> Holding[heap[c]]],
  asked <- sent,
  answers <- echoes

\* Every run of the program is a run of EchoService; with fair scheduling a
\* client that waits is answered, one that leaves is released, or the server
\* stops.
EchoSafe == Echo!SafeSpec
EchoLive == Echo!Spec

\* SIGUSR1, masked except inside ppoll, ends the process.
SignalStops == sig = "pending" ~> Ended

=============================================================================
