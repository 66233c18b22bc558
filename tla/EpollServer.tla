----------------------------- MODULE EpollServer -----------------------------
(***************************************************************************)
(* The epoll echo server (code/c/server/epoll/main.c) and the epoll        *)
(* instance behind it.                                                     *)
(*                                                                         *)
(* Everything is registered edge-triggered, so an event that a handler     *)
(* does not use up is not reported again.  The server is one thread; it    *)
(* waits only in epoll_pwait, which is also the only place where SIGUSR1   *)
(* is unmasked.  The connection object of client c is c itself.            *)
(***************************************************************************)
EXTENDS EchoClients

CONSTANTS
  MaxEvents,     \* EPOLL_WAIT_MAX_EVENTS
  Benchmarking,  \* DO_SERVER_SIDE_BENCHMARKING: there is a warm-up timer
  Fds,           \* the descriptors of the timer and of connections
  Listener, Timer, None

LsFd == 0      \* the listening socket
TimerFd == CHOOSE n \in Fds : \A m \in Fds : n <= m

Sources == Clients \cup {Listener, Timer}

ASSUME EpollAssumption ==
  /\ MaxEvents \in Nat \ {0}
  /\ Benchmarking \in BOOLEAN
  /\ Fds \subseteq Nat \ {0} /\ Fds # {}
  /\ {Listener, Timer, None} \cap Clients = {}
  /\ Listener # Timer /\ Listener # None /\ Timer # None

VARIABLES
  pc,       \* where the server thread is
  running,  \* server_running
  sig,      \* SIGUSR1: "none", "pending", "delivered"
  cause,    \* why an assertion ended the process, "none" if none did
  ready,    \* the ready list of the epoll instance
  evs,      \* events of the current batch not handled yet: [who, in, hup]
  cur,      \* the connection between read and write
  tfd,      \* tfd_holder->fd
  expired,  \* the timer has expired
  sock,     \* kernel: whose descriptor n is
  fd,       \* fd[c]: con->fd
  buf,      \* buf[c]: the message in con->buf
  heap,     \* heap[c]: "unallocated", "live" or "freed"
  next, prev, head, tail,  \* the list of connections, dll_head and dll_tail
  walk      \* p, in do_service_loop_cleanup

ctlVars == <<pc, running, sig, cause>>
timerVars == <<tfd, expired>>
listVars == <<next, prev, head, tail>>
conVars == <<fd, buf, heap, listVars>>
vars == <<ctlVars, ready, evs, cur, timerVars, sock, conVars, walk,
          clientVars>>

Up == pc \in {"start", "loop", "wait", "serve", "accept", "echo", "cleanup"}
Ended == pc \in {"exited", "failed"}
Live == {c \in Clients : heap[c] = "live"}

Init ==
  /\ ClientInit
  /\ pc = "start" /\ running = TRUE /\ sig = "none" /\ cause = "none"
  /\ ready = {} /\ evs = {} /\ cur = None
  /\ tfd = IF Benchmarking THEN TimerFd ELSE -1
  /\ expired = FALSE
  /\ sock = [n \in Fds |-> IF Benchmarking /\ n = TimerFd THEN Timer ELSE None]
  /\ fd = [c \in Clients |-> -1]
  /\ buf = [c \in Clients |-> 0]
  /\ heap = [c \in Clients |-> "unallocated"]
  /\ next = [c \in Clients |-> None] /\ prev = [c \in Clients |-> None]
  /\ head = None /\ tail = None
  /\ walk = None

-----------------------------------------------------------------------------
(***************************************************************************)
(* The epoll instance.                                                     *)
(***************************************************************************)

FreeFds == {n \in Fds : sock[n] = None}

\* What epoll would report of a source now.  A client that has left makes the
\* socket readable (end of file) and sets EPOLLRDHUP.
EventOf(who) ==
  CASE who = Listener -> [who |-> who, in |-> backlog # {}, hup |-> FALSE]
    [] who = Timer -> [who |-> who, in |-> expired, hup |-> FALSE]
    [] OTHER -> [who |-> who, in |-> Pending(who) > 0 \/ cpc[who] = "gone",
                 hup |-> cpc[who] = "gone"]

Reported(S) == {e \in {EventOf(who) : who \in S} : e.in}
Available == Reported(ready)

\* An edge of c puts it on the ready list if it is registered.
Edge(c) == IF c \in Live /\ Up THEN ready \cup {c} ELSE ready

ClientMove(c) ==
  /\ ~Ended
  /\ ClientStep(c)
  /\ ready' = CASE cpc[c] = "start" -> ready \cup {Listener}
                [] sent'[c] # sent[c] \/ cpc'[c] = "gone" -> Edge(c)
                [] OTHER -> ready
  /\ UNCHANGED <<ctlVars, evs, cur, timerVars, sock, conVars, walk>>

TimerExpires ==
  /\ tfd # -1 /\ ~expired /\ Up
  /\ expired' = TRUE
  /\ ready' = ready \cup {Timer}
  /\ UNCHANGED <<ctlVars, evs, cur, tfd, sock, conVars, walk, clientVars>>

-----------------------------------------------------------------------------
(***************************************************************************)
(* The loop and the stop signal.                                           *)
(***************************************************************************)

SendSignal ==
  /\ sig # "pending" /\ ~Ended
  /\ sig' = "pending"
  /\ UNCHANGED <<pc, running, cause, ready, evs, cur, timerVars, sock,
                 conVars, walk, clientVars>>

\* epoll_pwait looks for events first: only a wait without any is interrupted
SignalOpen ==
  \/ pc = "start"
  \/ pc = "wait" /\ Available = {}

\* slip: the loop does not see the write of the handler
StoppedUnseen == UNCHANGED running

\* server_running = 0, volatile
Stopped == running' = FALSE

\* stop_server_signal_handler; epoll_pwait then fails with EINTR
DeliverSignal ==
  /\ sig = "pending" /\ SignalOpen
  /\ sig' = "delivered" /\ Stopped
  /\ pc' = IF pc = "wait" THEN "loop" ELSE pc
  /\ UNCHANGED <<cause, ready, evs, cur, timerVars, sock, conVars, walk,
                 clientVars>>

\* The registrations and sigprocmask, then the loop.  A source that is listed
\* without anything to report is dropped by the next wait.
Register ==
  /\ pc = "start"
  /\ pc' = "loop"
  /\ ready' = {Listener} \cup (IF Benchmarking THEN {Timer} ELSE {})
  /\ UNCHANGED <<running, sig, cause, evs, cur, timerVars, sock, conVars,
                 walk, clientVars>>

Loop ==
  /\ pc = "loop"
  /\ pc' = IF running THEN "wait" ELSE "cleanup"
  /\ UNCHANGED <<running, sig, cause, ready, evs, cur, timerVars, sock,
                 conVars, walk, clientVars>>

\* epoll_pwait returns a batch.  A reported source leaves the ready list (it
\* is edge-triggered), one that has nothing to report any more leaves it too.
EpollWait ==
  /\ pc = "wait"
  /\ pc' = "serve"
  /\ \E S \in SUBSET Available :
       /\ S # {}
       /\ \/ Cardinality(S) = MaxEvents
          \/ S = Available /\ Cardinality(S) < MaxEvents
       /\ evs' = S
       /\ ready' = {e.who : e \in Available \ S}
  /\ UNCHANGED <<running, sig, cause, cur, timerVars, sock, conVars, walk,
                 clientVars>>

ServeDone ==
  /\ pc = "serve" /\ evs = {}
  /\ pc' = "loop"
  /\ UNCHANGED <<running, sig, cause, ready, evs, cur, timerVars, sock,
                 conVars, walk, clientVars>>

-----------------------------------------------------------------------------
(***************************************************************************)
(* service_events.  The handler is chosen by the descriptor behind the     *)
(* event's pointer, so a pointer to the wrong kind of object would be      *)
(* taken for a connection.  The batch is handled in any order.             *)
(***************************************************************************)

FdOf(who) ==
  CASE who = Listener -> LsFd
    [] who = Timer -> tfd
    [] OTHER -> fd[who]

\* slip: the index is stepped back after a client's event
TakeRepeat(e) == evs' = IF e.who \in Clients THEN evs ELSE evs \ {e}

Take(e) == evs' = evs \ {e}

\* A failed assertion ends the process.  Lists and objects die with it.
Abort(why) ==
  /\ pc' = "failed" /\ cause' = why
  /\ UNCHANGED <<ready, sock, conVars>>

ServeListener(e) ==
  /\ pc = "serve" /\ e \in evs /\ FdOf(e.who) = LsFd
  /\ Take(e)
  /\ pc' = "accept"
  /\ UNCHANGED <<running, sig, cause, ready, cur, timerVars, sock, conVars,
                 walk, clientVars>>

\* slips: the descriptor of the closed timer stays in the holder; the holder
\* is cleared to zero
TimerClosedKeep == UNCHANGED tfd
TimerClosedZero == tfd' = 0

\* the end of close_timer
TimerClosed == tfd' = -1

\* timer_expired, close_timer
ServeTimer(e) ==
  /\ pc = "serve" /\ e \in evs /\ FdOf(e.who) = tfd
  /\ Take(e)
  /\ sock' = [sock EXCEPT ![tfd] = None]
  /\ TimerClosed
  /\ UNCHANGED <<ctlVars, ready, cur, expired, conVars, walk, clientVars>>

\* dll_connect_back
ConnectBack(c) ==
  IF head = None
  THEN head' = c /\ tail' = c /\ UNCHANGED <<next, prev>>
  ELSE /\ prev' = [prev EXCEPT ![c] = tail]
       /\ tail' = c
       /\ UNCHANGED <<next, head>>

\* dll_remove, writes through stale links included; no block is allocated
\* twice, and what such a write stores is the NULL that is there already.
Remove(c) ==
  /\ prev' = [d \in Clients |-> IF d = next[c] THEN prev[c] ELSE prev[d]]
  /\ next' = [d \in Clients |-> IF d = prev[c] THEN next[c] ELSE next[d]]
  /\ head' = IF c = head THEN next[c] ELSE head
  /\ tail' = IF c = tail THEN prev[c] ELSE tail

\* accept4, the new connection, EPOLL_CTL_ADD (which reports what is there
\* already) and the list
AcceptClient ==
  /\ pc = "accept" /\ backlog # {}
  /\ \/ \E c \in backlog, n \in FreeFds :
          /\ \A m \in FreeFds : n <= m
          /\ backlog' = backlog \ {c}
          /\ sock' = [sock EXCEPT ![n] = c]
          /\ fd' = [fd EXCEPT ![c] = n]
          /\ heap' = [heap EXCEPT ![c] = "live"]
          /\ ready' = ready \cup {c}
          /\ ConnectBack(c)
          /\ UNCHANGED <<pc, cause, buf>>
     \/ /\ FreeFds = {} \/ "accept" \in Faults
        /\ Abort("accept")
        /\ UNCHANGED backlog
  /\ UNCHANGED <<running, sig, evs, cur, timerVars, walk,
                 cpc, sent, taken, echoes, got>>

\* slip: one connection per event
AcceptMoreOnce == TRUE

\* the loop of epoll_handle_new_clients ends when accept4 says EAGAIN
AcceptMore == backlog = {}

AcceptDone ==
  /\ pc = "accept" /\ AcceptMore
  /\ pc' = "serve"
  /\ UNCHANGED <<running, sig, cause, ready, evs, cur, timerVars, sock,
                 conVars, walk, clientVars>>

\* slip: the descriptor is never closed
CloseClientLeak(c) ==
  /\ Remove(c)
  /\ heap' = [heap EXCEPT ![c] = "freed"]
  /\ ready' = ready \ {c}
  /\ UNCHANGED <<pc, cause, fd, buf, sock>>

\* close_client: off the list, close(2), free.  Closing the descriptor takes
\* it out of the epoll instance.
CloseClient(c) ==
  \/ sock[fd[c]] = None /\ Abort("close")
  \/ /\ sock[fd[c]] # None
     /\ Remove(c)
     /\ sock' = [sock EXCEPT ![fd[c]] = None]
     /\ heap' = [heap EXCEPT ![c] = "freed"]
     /\ ready' = ready \ {c}
     /\ UNCHANGED <<pc, cause, fd, buf>>

\* slip: EPOLLIN is looked at first
HungUpOrData(e) == e.in

\* EPOLLRDHUP is looked at first
HungUp(e) == e.hup

\* handle_client_event: a client that has left
ServeHangup(e) ==
  /\ pc = "serve" /\ e \in evs /\ FdOf(e.who) \notin {LsFd, tfd}
  /\ HungUp(e)
  /\ Take(e)
  /\ CloseClient(e.who)
  /\ UNCHANGED <<running, sig, cur, timerVars, walk, clientVars>>

\* the read is neither more nor less than DEFAULT_BUFFER_SIZE
Whole(res) == res = BufSize

\* handle_client_event: data; the read of read_n_echo, which takes EAGAIN for
\* an error.  The end of file is not a message and not an error: the event
\* that announces it is a hang-up.
ServeData(e) ==
  /\ pc = "serve" /\ e \in evs /\ FdOf(e.who) \notin {LsFd, tfd}
  /\ ~HungUp(e) /\ e.in
  /\ Take(e)
  /\ LET c == e.who IN
       \/ /\ RecvResults(c) = {}
          /\ Abort("again")
          /\ UNCHANGED <<cur, taken>>
       \/ \E res \in RecvResults(c) :
            \/ /\ res # 0 /\ ~Whole(res)
               /\ Abort("result")
               /\ UNCHANGED <<cur, taken>>
            \/ /\ res = 0
               /\ UNCHANGED <<pc, cause, ready, sock, conVars, cur, taken>>
            \/ /\ Whole(res)
               /\ pc' = "echo" /\ cur' = c
               /\ TakeMessage(c, res)
               /\ buf' = [buf EXCEPT ![c] = taken'[c]]
               /\ UNCHANGED <<cause, ready, sock, fd, heap, listVars>>
  /\ UNCHANGED <<running, sig, timerVars, walk,
                 cpc, backlog, sent, echoes, got>>

\* back to the batch
Echoed == pc' = "serve" /\ cur' = None

\* the write of read_n_echo
WriteEcho ==
  /\ pc = "echo"
  /\ \E res \in SendResults(cur) :
       /\ DeliverEcho(cur, res, buf[cur])
       /\ \/ Whole(res) /\ Echoed /\ UNCHANGED cause
          \/ ~Whole(res) /\ pc' = "failed" /\ cause' = "result" /\ cur' = None
  /\ UNCHANGED <<running, sig, ready, evs, timerVars, sock, conVars, walk,
                 cpc, backlog, sent, taken, got>>

-----------------------------------------------------------------------------
(***************************************************************************)
(* do_service_loop_cleanup: the timer, the epoll instance, then one        *)
(* connection after the other from dll_head on.                            *)
(***************************************************************************)

Cleanup ==
  /\ pc = "cleanup"
  /\ pc' = "closing"
  /\ sock' = IF tfd = -1 THEN sock ELSE [sock EXCEPT ![tfd] = None]
  /\ tfd' = -1
  /\ ready' = {} /\ walk' = head
  /\ UNCHANGED <<running, sig, cause, evs, cur, expired, conVars, clientVars>>

CloseOne ==
  /\ pc = "closing" /\ walk # None
  /\ walk' = next[walk]
  /\ CloseClient(walk)
  /\ UNCHANGED <<running, sig, evs, cur, timerVars, clientVars>>

CloseDone ==
  /\ pc = "closing" /\ walk = None
  /\ pc' = "exited"
  /\ UNCHANGED <<running, sig, cause, ready, evs, cur, timerVars, sock,
                 conVars, walk, clientVars>>

Terminating == Ended /\ UNCHANGED vars
-----------------------------------------------------------------------------
ServerStep ==
  \/ Register \/ Loop \/ EpollWait \/ ServeDone
  \/ \E e \in evs : ServeListener(e)
  \/ \E e \in evs : ServeTimer(e)
  \/ \E e \in evs : ServeHangup(e)
  \/ \E e \in evs : ServeData(e)
  \/ AcceptClient \/ AcceptDone \/ WriteEcho
  \/ Cleanup \/ CloseOne \/ CloseDone

Next ==
  \/ SendSignal \/ DeliverSignal
  \/ ServerStep
  \/ TimerExpires
  \/ \E c \in Clients : ClientMove(c)
  \/ Terminating

SafeSpec == Init /\ [][Next]_vars

\* The server thread is scheduled and a deliverable signal is delivered.
\* Nothing is assumed of the clients, the timer or who sends the signal.
Fairness == WF_vars(ServerStep) /\ WF_vars(DeliverSignal)

Spec == SafeSpec /\ Fairness

-----------------------------------------------------------------------------
(***************************************************************************)
(* Safety.                                                                 *)
(***************************************************************************)

TypeOK ==
  /\ ClientTypeOK
  /\ pc \in {"start", "loop", "wait", "serve", "accept", "echo", "cleanup",
             "closing", "exited", "failed"}
  /\ running \in BOOLEAN
  /\ sig \in {"none", "pending", "delivered"}
  /\ cause \in {"none", "result", "again", "accept", "close"}
  /\ ready \subseteq Sources
  /\ evs \subseteq [who : Sources, in : BOOLEAN, hup : BOOLEAN]
  /\ cur \in Clients \cup {None}
  /\ tfd \in {TimerFd, -1} /\ expired \in BOOLEAN
  /\ sock \in [Fds -> Clients \cup {Timer, None}]
  /\ fd \in [Clients -> Fds \cup {-1}]
  /\ buf \in [Clients -> Nat]
  /\ heap \in [Clients -> {"unallocated", "live", "freed"}]
  /\ next \in [Clients -> Clients \cup {None}]
  /\ prev \in [Clients -> Clients \cup {None}]
  /\ {head, tail, walk} \subseteq Clients \cup {None}

\* An event, waiting in the epoll instance or in the batch, of a client is of
\* a connection that still exists: no handler gets a pointer to a freed
\* object, and no two events of the batch are of the same source.
NoDanglingEvent ==
  /\ \A e \in evs : e.who \in Clients => e.who \in Live
  /\ \A c \in ready \cap Clients : c \in Live
  /\ \A e, f \in evs : e.who = f.who => e = f

\* service_events compares descriptors to tell the three kinds of sources
\* apart; numbers are reused, the timer's too, and it still finds the kind
\* the event's pointer has.
DispatchMatches ==
  \A e \in evs : /\ FdOf(e.who) = LsFd <=> e.who = Listener
                 /\ FdOf(e.who) = tfd <=> e.who = Timer

\* Edge-triggered: whatever there is to do for a connection, or on the
\* listening socket, and is not being handled, is on the ready list.
NoLostEdge ==
  Up /\ pc # "start" =>
    /\ \A c \in Live :
         Pending(c) > 0 \/ cpc[c] = "gone" =>
           \/ c \in ready \/ c = cur
           \/ \E e \in evs : e.who = c
    /\ backlog # {} =>
         Listener \in ready \/ pc = "accept" \/ \E e \in evs : e.who = Listener

\* Every live connection, and nothing else, has a descriptor of its own.
FdsOwned ==
  /\ \A c \in Live : fd[c] \in Fds /\ sock[fd[c]] = c
  /\ \A n \in Fds : sock[n] \in Clients =>
                      sock[n] \in Live /\ fd[sock[n]] = n

\* read(2) never finds nothing to read, which read_n_echo would take for a
\* failure, and close(2) never a descriptor that is not open.
NoSpuriousFailure == cause \notin {"again", "close"}

\* The comment on dll_remove, "safely removed and all the neighboring nodes
\* are sticked back together": no link leads to a freed connection.
NoDanglingLink ==
  \A c \in Live : {next[c], prev[c]} \subseteq Live \cup {None}

-----------------------------------------------------------------------------
(***************************************************************************)
(* The inductive invariant behind these properties.                        *)
(***************************************************************************)

\* A connection has no object before accept4 has returned it.
Arrivals ==
  /\ pc = "start" => Live = {}
  /\ \A c \in backlog : cpc[c] # "start"
  /\ \A c \in Clients :
       cpc[c] = "start" \/ c \in backlog => heap[c] = "unallocated"

\* The timer's descriptor is the timer's as long as the holder has it.
TimerOwned ==
  /\ tfd # -1 => sock[tfd] = Timer
  /\ \A n \in Fds : sock[n] = Timer => n = tfd

\* A batch only lives in service_events; an event of a connection says what
\* still holds, and if the client left after the wait returned there is an
\* edge of that.
Batch ==
  /\ evs # {} => pc \in {"serve", "accept", "echo", "failed"}
  /\ cur # None => pc = "echo" /\ cur \in Live /\ \A e \in evs : e.who # cur
  /\ pc = "echo" => cur # None
  /\ pc = "accept" => \A e \in evs : e.who # Listener
  /\ \A e \in evs : e.in
  /\ \A e \in evs : e.who \in Clients =>
       /\ Pending(e.who) > 0 \/ cpc[e.who] = "gone"
       /\ e.hup => cpc[e.who] = "gone"
       /\ Up /\ ~e.hup /\ cpc[e.who] = "gone" => e.who \in ready

\* The buffer of a connection is used between read and write only, for the
\* next message of its client.
MessageFlow ==
  \A c \in Clients :
    /\ taken[c] <= sent[c]
    /\ c = cur => buf[c] = taken[c] /\ taken[c] = Len(echoes[c]) + 1
    /\ c # cur /\ Up => taken[c] = Len(echoes[c])
    /\ c = cur /\ (Pending(c) > 0 \/ cpc[c] = "gone") => c \in ready

\* No next link is ever set; head and the cleanup's p are live or NULL.
Unlinked ==
  /\ \A c \in Clients : next[c] = None
  /\ head \in Live \cup {None}
  /\ walk # None => pc \in {"closing", "failed"}
  /\ pc = "closing" => walk \in Live \cup {None}

EInv ==
  /\ TypeOK /\ Arrivals /\ TimerOwned /\ Batch /\ MessageFlow /\ Unlinked
  /\ NoDanglingEvent /\ NoLostEdge /\ FdsOwned /\ NoSpuriousFailure

-----------------------------------------------------------------------------
(***************************************************************************)
(* The server implements the echo service.                                 *)
(***************************************************************************)

Presence == [start |-> "away", up |-> "here", gone |-> "left"]
Holding == [unallocated |-> "none", live |-> "held", freed |-> "released"]

Echo == INSTANCE EchoService WITH
  up <- Up,
  client <- [c \in Clients |-> Presence[cpc[c]]],
  service <- [c \in Clients |-> Holding[heap[c]]],
  asked <- sent,
  answers <- echoes

\* Every run of the program is a run of EchoService; with fair scheduling a
\* client that waits is answered, one that leaves is released, or the server
\* stops.
EchoSafe == Echo!SafeSpec
EchoLive == Echo!Spec

\* SIGUSR1, masked except inside epoll_pwait, ends the process.
SignalStops == sig = "pending" ~> Ended

=============================================================================
