----------------------------- MODULE EpollProofs -----------------------------
(***************************************************************************)
(* Proofs about EpollServer, for any number of clients, any set of         *)
(* descriptors, any batch size, with and without the warm-up timer and     *)
(* with every fault of EchoClients.                                        *)
(***************************************************************************)
EXTENDS EpollServer, EchoClientsProofs

-----------------------------------------------------------------------------
(***************************************************************************)
(* Helpers.                                                                *)
(***************************************************************************)

\* The timer's descriptor is one.
LEMMA TimerFdType == TimerFd \in Fds
<1>1. Fds \subseteq Nat /\ Fds # {}
  BY EpollAssumption
<1>2. \E n \in Fds : \A m \in Fds : n <= m
  BY <1>1, Smallest
<1> QED BY <1>2 DEF TimerFd

\* The fields of the event of a source.
LEMMA Events ==
  /\ EventOf(Listener).who = Listener /\ EventOf(Timer).who = Timer
  /\ EventOf(Listener).in <=> backlog # {}
  /\ \A c \in Clients :
       /\ EventOf(c).who = c
       /\ EventOf(c).in <=> Pending(c) > 0 \/ cpc[c] = "gone"
       /\ EventOf(c).hup <=> cpc[c] = "gone"
<1>1. /\ EventOf(Listener).who = Listener
      /\ EventOf(Listener).in <=> backlog # {}
  <2>1. EventOf(Listener)
          = [who |-> Listener, in |-> backlog # {}, hup |-> FALSE]
    BY EpollAssumption DEF EventOf
  <2>2. EventOf(Listener).in = (backlog # {})
    BY <2>1
  <2>3. EventOf(Listener).who = Listener
    BY <2>1
  <2> QED BY <2>2, <2>3
<1>2. EventOf(Timer).who = Timer
  BY EpollAssumption DEF EventOf
<1>3. ASSUME NEW c \in Clients
      PROVE  /\ EventOf(c).who = c
             /\ EventOf(c).in <=> Pending(c) > 0 \/ cpc[c] = "gone"
             /\ EventOf(c).hup <=> cpc[c] = "gone"
  BY EpollAssumption DEF EventOf
<1> QED BY <1>1, <1>2, <1>3

\* Every source has an event.
LEMMA EventsType ==
  ASSUME expired \in BOOLEAN, NEW who \in Sources
  PROVE  EventOf(who) \in [who : Sources, in : BOOLEAN, hup : BOOLEAN]
<1>1. \A x \in Sources : \A P, Q \in BOOLEAN :
        [who |-> x, in |-> P, hup |-> Q]
          \in [who : Sources, in : BOOLEAN, hup : BOOLEAN]
  OBVIOUS
<1>2. CASE who = Listener
  BY <1>1, <1>2 DEF EventOf
<1>3. CASE who = Timer
  BY <1>1, <1>3, EpollAssumption DEF EventOf
<1>4. CASE who \in Clients
  BY <1>1, <1>4, EpollAssumption DEF EventOf
<1> QED BY <1>2, <1>3, <1>4 DEF Sources

\* The handler finds the kind of the source the event is of.
LEMMA Dispatch ==
  ASSUME EInv, NEW e \in evs
  PROVE  /\ FdOf(e.who) = LsFd <=> e.who = Listener
         /\ FdOf(e.who) = tfd <=> e.who = Timer
         /\ FdOf(e.who) \notin {LsFd, tfd} <=> e.who \in Clients
<1>1. e.who \in Sources
  BY DEF EInv, TypeOK
<1>2. TimerFd # 0 /\ -1 # 0 /\ \A n \in Fds : n # 0 /\ n # -1
  BY EpollAssumption, TimerFdType
<1>3. CASE e.who = Listener
  BY <1>2, <1>3, EpollAssumption DEF FdOf, LsFd, EInv, TypeOK
<1>4. CASE e.who = Timer
  BY <1>2, <1>4, EpollAssumption DEF FdOf, LsFd, EInv, TypeOK
<1>5. CASE e.who \in Clients
  <2>1. e.who \in Live /\ FdOf(e.who) = fd[e.who]
    BY <1>5, EpollAssumption DEF EInv, NoDanglingEvent, FdOf
  <2>2. fd[e.who] \in Fds /\ sock[fd[e.who]] = e.who
    BY <2>1 DEF EInv, FdsOwned
  <2>3. fd[e.who] # tfd
    BY <1>5, <2>2, EpollAssumption DEF EInv, TimerOwned, TypeOK
  <2> QED BY <1>2, <1>5, <2>1, <2>2, <2>3, EpollAssumption DEF LsFd
<1> QED BY <1>1, <1>3, <1>4, <1>5 DEF Sources

-----------------------------------------------------------------------------
(***************************************************************************)
(* The first state.                                                        *)
(***************************************************************************)

\* Nothing is served before the first connection.
LEMMA InitEInv ==
  ASSUME Init
  PROVE  EInv
<1> USE EpollAssumption, TimerFdType DEF Init, ClientInit
<1>1. ClientTypeOK
  BY DEF ClientTypeOK
<1>11. tfd \in {TimerFd, -1} /\ sock \in [Fds -> Clients \cup {Timer, None}]
  OBVIOUS
<1>12. TypeOK
  BY <1>1, <1>11 DEF TypeOK
<1>2. Arrivals /\ TimerOwned
  BY DEF Arrivals, TimerOwned, Live
<1>3. Batch
  BY DEF Batch
<1>4. MessageFlow /\ Unlinked
  BY DEF MessageFlow, Unlinked, Live
<1>5. NoDanglingEvent /\ NoLostEdge /\ FdsOwned /\ NoSpuriousFailure
  BY DEF NoDanglingEvent, NoLostEdge, FdsOwned, NoSpuriousFailure, Live
<1> QED BY <1>12, <1>2, <1>3, <1>4, <1>5 DEF EInv

-----------------------------------------------------------------------------
(***************************************************************************)
(* The actions, one lemma each.                                            *)
(***************************************************************************)

\* A signal that becomes pending changes nothing else.
LEMMA SendSignalInv ==
  ASSUME EInv, SendSignal
  PROVE  EInv'
<1> USE EpollAssumption
    DEF EInv, SendSignal, ctlVars, timerVars, listVars, conVars,
        clientVars, Up, Ended, Live, Pending
<1>1. TypeOK'
  BY DEF TypeOK, ClientTypeOK, Sources
<1>2. Arrivals' /\ TimerOwned'
  BY DEF Arrivals, TimerOwned
<1>3. Batch'
  BY DEF Batch
<1>4. MessageFlow' /\ Unlinked'
  BY DEF MessageFlow, Unlinked
<1>5. NoDanglingEvent' /\ NoLostEdge'
  BY DEF NoDanglingEvent, NoLostEdge
<1>6. FdsOwned' /\ NoSpuriousFailure'
  BY DEF FdsOwned, NoSpuriousFailure
<1> QED BY <1>1, <1>2, <1>3, <1>4, <1>5, <1>6

\* The signal handler only clears server_running.
LEMMA DeliverSignalInv ==
  ASSUME EInv, DeliverSignal
  PROVE  EInv'
<1> USE EpollAssumption
    DEF EInv, DeliverSignal, Stopped, ctlVars, timerVars, listVars,
        conVars, clientVars, Up, Ended, Live, Pending
<1>1. TypeOK'
  BY DEF TypeOK, ClientTypeOK, Sources
<1>2. Arrivals' /\ TimerOwned'
  BY DEF Arrivals, TimerOwned
<1>3. Batch'
  BY DEF Batch
<1>4. MessageFlow' /\ Unlinked'
  BY DEF MessageFlow, Unlinked
<1>5. NoDanglingEvent' /\ NoLostEdge'
  BY DEF NoDanglingEvent, NoLostEdge
<1>6. FdsOwned' /\ NoSpuriousFailure'
  BY DEF FdsOwned, NoSpuriousFailure
<1> QED BY <1>1, <1>2, <1>3, <1>4, <1>5, <1>6

\* The loop goes on or is left, with nothing in hand.
LEMMA LoopInv ==
  ASSUME EInv, Loop
  PROVE  EInv'
<1> USE EpollAssumption
    DEF EInv, Loop, ctlVars, timerVars, listVars, conVars, clientVars,
        Up, Ended, Live, Pending
<1>1. TypeOK'
  BY DEF TypeOK, ClientTypeOK, Sources
<1>2. Arrivals' /\ TimerOwned'
  BY DEF Arrivals, TimerOwned
<1>3. Batch'
  BY DEF Batch
<1>4. MessageFlow' /\ Unlinked'
  BY DEF MessageFlow, Unlinked
<1>5. NoDanglingEvent' /\ NoLostEdge'
  BY DEF NoDanglingEvent, NoLostEdge
<1>6. FdsOwned' /\ NoSpuriousFailure'
  BY DEF FdsOwned, NoSpuriousFailure
<1> QED BY <1>1, <1>2, <1>3, <1>4, <1>5, <1>6

\* The batch is empty: there is nothing more of it to answer for.
LEMMA ServeDoneInv ==
  ASSUME EInv, ServeDone
  PROVE  EInv'
<1> USE EpollAssumption
    DEF EInv, ServeDone, ctlVars, timerVars, listVars, conVars,
        clientVars, Up, Ended, Live, Pending
<1>1. TypeOK'
  BY DEF TypeOK, ClientTypeOK, Sources
<1>2. Arrivals' /\ TimerOwned'
  BY DEF Arrivals, TimerOwned
<1>3. Batch'
  BY DEF Batch
<1>4. MessageFlow' /\ Unlinked'
  BY DEF MessageFlow, Unlinked
<1>5. NoDanglingEvent' /\ NoLostEdge'
  BY DEF NoDanglingEvent, NoLostEdge
<1>6. FdsOwned' /\ NoSpuriousFailure'
  BY DEF FdsOwned, NoSpuriousFailure
<1> QED BY <1>1, <1>2, <1>3, <1>4, <1>5, <1>6

\* Nothing is connected yet when the listening socket is registered.
LEMMA RegisterInv ==
  ASSUME EInv, Register
  PROVE  EInv'
<1> USE EpollAssumption
    DEF EInv, Register, ctlVars, timerVars, listVars, conVars,
        clientVars, Up, Ended, Live, Pending
<1>1. TypeOK'
  BY DEF TypeOK, ClientTypeOK, Sources
<1>2. Arrivals' /\ TimerOwned'
  BY DEF Arrivals, TimerOwned
<1>3. Batch'
  BY DEF Batch
<1>4. MessageFlow' /\ Unlinked'
  BY DEF MessageFlow, Unlinked, Batch
<1>5. NoDanglingEvent' /\ NoLostEdge'
  BY DEF NoDanglingEvent, NoLostEdge, Batch, Arrivals
<1>6. FdsOwned' /\ NoSpuriousFailure'
  BY DEF FdsOwned, NoSpuriousFailure
<1> QED BY <1>1, <1>2, <1>3, <1>4, <1>5, <1>6

\* accept4 has said EAGAIN: the backlog is empty.
LEMMA AcceptDoneInv ==
  ASSUME EInv, AcceptDone
  PROVE  EInv'
<1> USE EpollAssumption
    DEF EInv, AcceptDone, AcceptMore, ctlVars, timerVars, listVars,
        conVars, clientVars, Up, Ended, Live, Pending
<1>1. TypeOK'
  BY DEF TypeOK, ClientTypeOK, Sources
<1>2. Arrivals' /\ TimerOwned'
  BY DEF Arrivals, TimerOwned
<1>3. Batch'
  BY DEF Batch
<1>4. MessageFlow' /\ Unlinked'
  BY DEF MessageFlow, Unlinked
<1>5. NoDanglingEvent' /\ NoLostEdge'
  BY DEF NoDanglingEvent, NoLostEdge
<1>6. FdsOwned' /\ NoSpuriousFailure'
  BY DEF FdsOwned, NoSpuriousFailure
<1> QED BY <1>1, <1>2, <1>3, <1>4, <1>5, <1>6

\* The list has been walked.
LEMMA CloseDoneInv ==
  ASSUME EInv, CloseDone
  PROVE  EInv'
<1> USE EpollAssumption
    DEF EInv, CloseDone, ctlVars, timerVars, listVars, conVars,
        clientVars, Up, Ended, Live, Pending
<1>1. TypeOK'
  BY DEF TypeOK, ClientTypeOK, Sources
<1>2. Arrivals' /\ TimerOwned'
  BY DEF Arrivals, TimerOwned
<1>3. Batch'
  BY DEF Batch
<1>4. MessageFlow' /\ Unlinked'
  BY DEF MessageFlow, Unlinked
<1>5. NoDanglingEvent' /\ NoLostEdge'
  BY DEF NoDanglingEvent, NoLostEdge
<1>6. FdsOwned' /\ NoSpuriousFailure'
  BY DEF FdsOwned, NoSpuriousFailure
<1> QED BY <1>1, <1>2, <1>3, <1>4, <1>5, <1>6

\* The timer's edge is of no connection.
LEMMA TimerExpiresInv ==
  ASSUME EInv, TimerExpires
  PROVE  EInv'
<1> USE EpollAssumption
    DEF EInv, TimerExpires, ctlVars, timerVars, listVars, conVars,
        clientVars, Up, Ended, Live, Pending
<1>1. TypeOK'
  BY DEF TypeOK, ClientTypeOK, Sources
<1>2. Arrivals' /\ TimerOwned'
  BY DEF Arrivals, TimerOwned
<1>3. Batch'
  BY DEF Batch
<1>4. MessageFlow' /\ Unlinked'
  BY DEF MessageFlow, Unlinked
<1>5. NoDanglingEvent' /\ NoLostEdge'
  BY DEF NoDanglingEvent, NoLostEdge
<1>6. FdsOwned' /\ NoSpuriousFailure'
  BY DEF FdsOwned, NoSpuriousFailure
<1> QED BY <1>1, <1>2, <1>3, <1>4, <1>5, <1>6

\* The batch is of sources on the ready list, tells the truth, and what has
\* something to report is in the batch or still on the list.
LEMMA WaitStep ==
  ASSUME EInv, EpollWait
  PROVE  /\ pc' = "serve" /\ evs = {} /\ cur = None
         /\ ready' \subseteq ready
         /\ \A e \in evs' : e.who \in ready /\ e = EventOf(e.who) /\ e.in
         /\ \A who \in ready :
              EventOf(who).in => who \in ready' \/ EventOf(who) \in evs'
         /\ UNCHANGED <<running, sig, cause, cur, timerVars, sock, conVars,
                        walk, clientVars>>
<1>1. PICK S \in SUBSET Available :
        evs' = S /\ ready' = {e.who : e \in Available \ S}
  BY DEF EpollWait
<1>2. ready \subseteq Clients \cup {Listener, Timer}
  BY DEF EInv, TypeOK, Sources
<1>3. \A who \in ready : EventOf(who).who = who
  BY <1>2, Events
<1>4. \A e \in Available : e.who \in ready /\ e = EventOf(e.who) /\ e.in
  BY <1>3 DEF Available, Reported
<1>5. \A who \in ready :
        EventOf(who).in => EventOf(who) \in Available /\ EventOf(who).who = who
  BY <1>3 DEF Available, Reported
<1>6. ready' \subseteq ready
  BY <1>1, <1>4
<1>7. \A e \in evs' : e.who \in ready /\ e = EventOf(e.who) /\ e.in
  BY <1>1, <1>4
<1>8. \A who \in ready :
        EventOf(who).in => who \in ready' \/ EventOf(who) \in evs'
  BY <1>1, <1>5
<1>9. pc = "wait" /\ pc' = "serve"
  BY DEF EpollWait
<1>10. evs = {} /\ cur = None
  BY <1>9 DEF EInv, Batch
<1> QED BY <1>6, <1>7, <1>8, <1>9, <1>10 DEF EpollWait

\* A batch takes over from the ready list what it reports.
LEMMA EpollWaitInv ==
  ASSUME EInv, EpollWait
  PROVE  EInv'
<1>1. /\ pc = "wait" /\ pc' = "serve" /\ evs = {} /\ cur = None
      /\ ready' \subseteq ready
      /\ \A e \in evs' : e.who \in ready /\ e = EventOf(e.who) /\ e.in
      /\ \A who \in ready :
           EventOf(who).in => who \in ready' \/ EventOf(who) \in evs'
      /\ UNCHANGED <<running, sig, cause, cur, timerVars, sock, conVars,
                     walk, clientVars>>
  BY WaitStep DEF EpollWait
<1> USE DEF timerVars, listVars, conVars, clientVars
<1>2. TypeOK'
  <2>1. evs' \subseteq [who : Sources, in : BOOLEAN, hup : BOOLEAN]
    BY <1>1, EventsType DEF EInv, TypeOK
  <2>2. ClientTypeOK'
    BY <1>1 DEF EInv, TypeOK, ClientTypeOK
  <2> QED BY <1>1, <2>1, <2>2 DEF EInv, TypeOK
<1>3. Arrivals' /\ TimerOwned' /\ FdsOwned' /\ NoSpuriousFailure'
  BY <1>1 DEF EInv, Arrivals, TimerOwned, FdsOwned, NoSpuriousFailure, Live
<1>4. \A e \in evs' : e.who \in Clients =>
        /\ e.who \in Live
        /\ e.in <=> Pending(e.who) > 0 \/ cpc[e.who] = "gone"
        /\ e.hup <=> cpc[e.who] = "gone"
  <2> TAKE e \in evs'
  <2> HAVE e.who \in Clients
  <2>1. e.who \in Live
    BY <1>1 DEF EInv, NoDanglingEvent
  <2>2. /\ e.in <=> Pending(e.who) > 0 \/ cpc[e.who] = "gone"
        /\ e.hup <=> cpc[e.who] = "gone"
    BY <1>1, Events
  <2> QED BY <2>1, <2>2
<1>5. \A e, f \in evs' : e.who = f.who => e = f
  BY <1>1
<1>6. Batch'
  BY <1>1, <1>4, EpollAssumption DEF EInv, Batch, Live, Pending, Up
<1>7. MessageFlow' /\ Unlinked'
  BY <1>1, EpollAssumption
     DEF EInv, MessageFlow, Unlinked, Live, Up, Pending
<1>8. NoDanglingEvent'
  BY <1>1, <1>4, <1>5 DEF EInv, NoDanglingEvent, Live
<1>9. NoLostEdge'
  <2>1. \A c \in Live : Pending(c) > 0 \/ cpc[c] = "gone" =>
          c \in ready' \/ \E e \in evs' : e.who = c
    <3> TAKE c \in Live
    <3> HAVE Pending(c) > 0 \/ cpc[c] = "gone"
    <3>1. c \in ready
      BY <1>1, EpollAssumption DEF EInv, NoLostEdge, Up, Live
    <3>2. EventOf(c).in /\ EventOf(c).who = c
      BY Events DEF Live
    <3> QED BY <1>1, <3>1, <3>2
  <2>2. backlog # {} =>
          Listener \in ready' \/ \E e \in evs' : e.who = Listener
    <3> HAVE backlog # {}
    <3>1. Listener \in ready
      BY <1>1 DEF EInv, NoLostEdge, Up
    <3>2. EventOf(Listener).in /\ EventOf(Listener).who = Listener
      BY Events
    <3> QED BY <1>1, <3>1, <3>2
  <2> QED BY <1>1, <2>1, <2>2 DEF NoLostEdge, Live, Pending
<1> QED BY <1>2, <1>3, <1>6, <1>7, <1>8, <1>9 DEF EInv

\* The event of the listening socket is answered by the accept loop.
LEMMA ServeListenerInv ==
  ASSUME EInv, NEW e \in evs, ServeListener(e)
  PROVE  EInv'
<1>a. e.who = Listener /\ e \in evs
  BY Dispatch DEF ServeListener
<1> USE EpollAssumption
    DEF EInv, ServeListener, Take, TimerClosed, Abort, ctlVars,
        timerVars, listVars, conVars, clientVars, Up, Ended, Live,
        Pending
<1>1. TypeOK'
  BY <1>a DEF TypeOK, ClientTypeOK, Sources
<1>2. Arrivals' /\ TimerOwned'
  BY <1>a DEF Arrivals, TimerOwned
<1>3. Batch'
  BY <1>a DEF Batch, NoDanglingEvent
<1>4. MessageFlow' /\ Unlinked'
  BY <1>a DEF MessageFlow, Unlinked
<1>5. NoDanglingEvent' /\ NoLostEdge'
  BY <1>a DEF NoDanglingEvent, NoLostEdge
<1>6. FdsOwned' /\ NoSpuriousFailure'
  BY <1>a DEF FdsOwned, NoSpuriousFailure
<1> QED BY <1>1, <1>2, <1>3, <1>4, <1>5, <1>6

\* close_timer takes the timer's descriptor from the timer only.
LEMMA ServeTimerInv ==
  ASSUME EInv, NEW e \in evs, ServeTimer(e)
  PROVE  EInv'
<1>a. e.who = Timer /\ e \in evs
  BY Dispatch DEF ServeTimer
<1> USE EpollAssumption
    DEF EInv, ServeTimer, Take, TimerClosed, Abort, ctlVars, timerVars,
        listVars, conVars, clientVars, Up, Ended, Live, Pending
<1>1. TypeOK'
  BY <1>a DEF TypeOK, ClientTypeOK, Sources
<1>2. Arrivals' /\ TimerOwned'
  BY <1>a DEF Arrivals, TimerOwned, TypeOK
<1>3. Batch'
  BY <1>a DEF Batch, NoDanglingEvent
<1>4. MessageFlow' /\ Unlinked'
  BY <1>a DEF MessageFlow, Unlinked
<1>5. NoDanglingEvent' /\ NoLostEdge'
  BY <1>a DEF NoDanglingEvent, NoLostEdge
<1>6. FdsOwned' /\ NoSpuriousFailure'
  BY <1>a DEF FdsOwned, NoSpuriousFailure, TypeOK, TimerOwned
<1> QED BY <1>1, <1>2, <1>3, <1>4, <1>5, <1>6

\* From here on no event is handled any more.
LEMMA CleanupInv ==
  ASSUME EInv, Cleanup
  PROVE  EInv'
<1> USE EpollAssumption
    DEF EInv, Cleanup, Take, TimerClosed, Abort, ctlVars, timerVars,
        listVars, conVars, clientVars, Up, Ended, Live, Pending
<1>1. TypeOK'
  BY DEF TypeOK, ClientTypeOK, Sources
<1>2. Arrivals' /\ TimerOwned'
  BY DEF Arrivals, TimerOwned, TypeOK
<1>3. Batch'
  BY DEF Batch, NoDanglingEvent
<1>4. MessageFlow' /\ Unlinked'
  BY DEF MessageFlow, Unlinked, Batch
<1>5. NoDanglingEvent' /\ NoLostEdge'
  BY DEF NoDanglingEvent, NoLostEdge
<1>6. FdsOwned' /\ NoSpuriousFailure'
  BY DEF FdsOwned, NoSpuriousFailure, TypeOK, TimerOwned
<1> QED BY <1>1, <1>2, <1>3, <1>4, <1>5, <1>6

\* close_client of a live connection: the descriptor is open, and there is
\* nothing behind the connection in the list.
LEMMA CloseStep ==
  ASSUME EInv, NEW c \in Live, CloseClient(c), UNCHANGED tfd
  PROVE  /\ UNCHANGED <<pc, cause, fd, buf, next>>
         /\ c \in Clients /\ fd[c] \in Fds /\ sock[fd[c]] = c
         /\ sock' = [sock EXCEPT ![fd[c]] = None]
         /\ heap' = [heap EXCEPT ![c] = "freed"]
         /\ ready' = ready \ {c}
         /\ prev' \in [Clients -> Clients \cup {None}]
         /\ tail' \in Clients \cup {None}
         /\ head' = IF c = head THEN None ELSE head
         /\ FdsOwned' /\ TimerOwned'
<1>1. c \in Clients /\ fd[c] \in Fds /\ sock[fd[c]] = c /\ c # None
  BY EpollAssumption DEF EInv, FdsOwned, Live
<1>2. /\ Remove(c)
      /\ sock' = [sock EXCEPT ![fd[c]] = None]
      /\ heap' = [heap EXCEPT ![c] = "freed"]
      /\ ready' = ready \ {c}
      /\ UNCHANGED <<pc, cause, fd, buf>>
  BY <1>1 DEF CloseClient
<1>3. \A d \in Clients : next[d] = None
  BY DEF EInv, Unlinked
<1>4. next \in [Clients -> Clients \cup {None}]
      /\ prev \in [Clients -> Clients \cup {None}]
      /\ head \in Clients \cup {None} /\ tail \in Clients \cup {None}
  BY DEF EInv, TypeOK
<1>5. next' = next
  BY <1>1, <1>2, <1>3, <1>4 DEF Remove
<1>6. /\ prev' \in [Clients -> Clients \cup {None}]
      /\ tail' \in Clients \cup {None}
      /\ head' = IF c = head THEN None ELSE head
  BY <1>1, <1>2, <1>3, <1>4 DEF Remove
<1>7. \A d \in Clients : heap'[d] = "live" <=> d # c /\ heap[d] = "live"
  BY <1>1, <1>2 DEF EInv, TypeOK
<1>8. \A n \in Fds : sock'[n] = IF n = fd[c] THEN None ELSE sock[n]
  BY <1>1, <1>2 DEF EInv, TypeOK
<1>9. FdsOwned'
  <2>1. \A d \in Live : fd[d] \in Fds /\ sock[fd[d]] = d
    BY DEF EInv, FdsOwned
  <2>2. \A n \in Fds : sock[n] \in Clients =>
                         sock[n] \in Live /\ fd[sock[n]] = n
    BY DEF EInv, FdsOwned
  <2> QED BY <1>1, <1>2, <1>7, <1>8, <2>1, <2>2, EpollAssumption
          DEF FdsOwned, Live
<1>10. TimerOwned'
  <2>1. tfd \in {TimerFd, -1} /\ sock \in [Fds -> Clients \cup {Timer, None}]
    BY DEF EInv, TypeOK
  <2>2. /\ tfd # -1 => sock[tfd] = Timer
        /\ \A n \in Fds : sock[n] = Timer => n = tfd
    BY DEF EInv, TimerOwned
  <2>3. fd[c] # tfd /\ tfd \in Fds \cup {-1}
    BY <1>1, <2>1, <2>2, EpollAssumption, TimerFdType
  <2> QED BY <1>1, <1>8, <2>1, <2>2, <2>3, EpollAssumption DEF TimerOwned
<1> QED BY <1>1, <1>2, <1>5, <1>6, <1>9, <1>10

\* A connection that is closed leaves no event and no descriptor behind.
LEMMA ServeHangupInv ==
  ASSUME EInv, NEW e \in evs, ServeHangup(e)
  PROVE  EInv'
<1>a. /\ e.who \in Live /\ e.who \in Clients /\ pc = "serve"
      /\ CloseClient(e.who) /\ cpc[e.who] = "gone"
  BY Dispatch DEF ServeHangup, EInv, NoDanglingEvent, Batch, HungUp
<1>b. /\ UNCHANGED <<pc, cause, fd, buf, next>>
      /\ fd[e.who] \in Fds /\ sock[fd[e.who]] = e.who
      /\ sock' = [sock EXCEPT ![fd[e.who]] = None]
      /\ heap' = [heap EXCEPT ![e.who] = "freed"]
      /\ ready' = ready \ {e.who}
      /\ prev' \in [Clients -> Clients \cup {None}]
      /\ tail' \in Clients \cup {None}
      /\ head' = IF e.who = head THEN None ELSE head
  BY <1>a, CloseStep DEF ServeHangup, timerVars
<1>d. FdsOwned' /\ TimerOwned'
  BY <1>a, CloseStep DEF ServeHangup, timerVars
<1> USE EpollAssumption
    DEF EInv, ServeHangup, Take, Live, Pending, Up, ctlVars, timerVars,
        listVars, conVars, clientVars
<1>1. TypeOK'
  BY <1>a, <1>b DEF TypeOK, ClientTypeOK, Sources
<1>2. Arrivals'
  BY <1>a, <1>b DEF Arrivals, TypeOK, ClientTypeOK
<1>3. Batch'
  BY <1>a, <1>b DEF Batch, NoDanglingEvent, TypeOK, ClientTypeOK
<1>4. MessageFlow' /\ Unlinked'
  BY <1>a, <1>b DEF MessageFlow, Unlinked, TypeOK, ClientTypeOK, Batch
<1>5. NoDanglingEvent'
  BY <1>a, <1>b DEF NoDanglingEvent, TypeOK
<1>7. NoLostEdge'
  BY <1>a, <1>b DEF NoLostEdge, TypeOK, Batch
<1>6. NoSpuriousFailure'
  BY <1>a, <1>b DEF NoSpuriousFailure
<1> QED BY <1>1, <1>2, <1>3, <1>4, <1>5, <1>6, <1>7, <1>d

\* The cleanup closes the one connection p points to.
LEMMA CloseOneInv ==
  ASSUME EInv, CloseOne
  PROVE  EInv'
<1>a. /\ walk \in Live /\ walk \in Clients /\ CloseClient(walk)
      /\ pc = "closing"
  BY DEF CloseOne, EInv, Unlinked, Live
<1>b. /\ UNCHANGED <<pc, cause, fd, buf, next>>
      /\ fd[walk] \in Fds /\ sock[fd[walk]] = walk
      /\ sock' = [sock EXCEPT ![fd[walk]] = None]
      /\ heap' = [heap EXCEPT ![walk] = "freed"]
      /\ ready' = ready \ {walk}
      /\ prev' \in [Clients -> Clients \cup {None}]
      /\ tail' \in Clients \cup {None}
      /\ head' = IF walk = head THEN None ELSE head
  BY <1>a, CloseStep DEF CloseOne, timerVars
<1>d. FdsOwned' /\ TimerOwned'
  BY <1>a, CloseStep DEF CloseOne, timerVars
<1>c. next[walk] = None /\ evs = {} /\ cur = None
  BY <1>a DEF EInv, Unlinked, Batch
<1> USE EpollAssumption
    DEF EInv, CloseOne, Live, Pending, Up, ctlVars, timerVars, listVars,
        conVars, clientVars
<1>1. TypeOK'
  BY <1>a, <1>b, <1>c DEF TypeOK, ClientTypeOK, Sources
<1>2. Arrivals'
  BY <1>a, <1>b, <1>c DEF Arrivals, TypeOK, ClientTypeOK
<1>3. Batch'
  BY <1>a, <1>b, <1>c DEF Batch, NoDanglingEvent, TypeOK, ClientTypeOK
<1>4. MessageFlow' /\ Unlinked'
  BY <1>a, <1>b, <1>c DEF MessageFlow, Unlinked, TypeOK, ClientTypeOK, Batch
<1>5. NoDanglingEvent' /\ NoLostEdge'
  BY <1>a, <1>b, <1>c
     DEF NoDanglingEvent, NoLostEdge, TypeOK, ClientTypeOK, Batch
<1>6. NoSpuriousFailure'
  BY <1>a, <1>b, <1>c DEF NoSpuriousFailure
<1> QED BY <1>1, <1>2, <1>3, <1>4, <1>5, <1>6, <1>d

\* accept4 gives the new connection a descriptor that was nobody's.
LEMMA AcceptStep ==
  ASSUME EInv, AcceptClient, NEW c \in backlog, NEW n \in Fds, sock[n] = None,
         backlog' = backlog \ {c}, sock' = [sock EXCEPT ![n] = c],
         fd' = [fd EXCEPT ![c] = n], heap' = [heap EXCEPT ![c] = "live"],
         ready' = ready \cup {c}, ConnectBack(c), UNCHANGED <<pc, cause, buf>>
  PROVE  EInv'
<1>a. /\ c \in Clients /\ heap[c] = "unallocated" /\ cpc[c] # "start"
      /\ pc = "accept" /\ cur = None
      /\ UNCHANGED <<running, sig, evs, cur, tfd, expired, walk, cpc, sent,
                     taken, echoes, got, pc, cause, buf, next>>
      /\ head' \in {head, c} /\ tail' \in Clients \cup {None}
      /\ prev' \in [Clients -> Clients \cup {None}]
  <2>1. c \in Clients
    BY DEF EInv, TypeOK, ClientTypeOK
  <2>2. heap[c] = "unallocated" /\ cpc[c] # "start"
    BY <2>1 DEF EInv, Arrivals
  <2>3. pc = "accept" /\ cur = None
    BY DEF AcceptClient, EInv, Batch
  <2>4. UNCHANGED <<running, sig, evs, cur, tfd, expired, walk, cpc, sent,
                    taken, echoes, got>>
    BY DEF AcceptClient, timerVars
  <2>5. /\ head \in Clients \cup {None} /\ tail \in Clients \cup {None}
        /\ prev \in [Clients -> Clients \cup {None}]
    BY DEF EInv, TypeOK
  <2>6. /\ next' = next
        /\ head' \in {head, c} /\ tail' \in Clients \cup {None}
        /\ prev' \in [Clients -> Clients \cup {None}]
    BY <2>1, <2>5 DEF ConnectBack
  <2> QED BY <2>1, <2>2, <2>3, <2>4, <2>6
<1>b. \A d \in Clients : heap'[d] = "live" <=> d = c \/ heap[d] = "live"
  BY <1>a DEF EInv, TypeOK
<1> USE EpollAssumption DEF EInv, Live, Pending, Up
<1>1. TypeOK'
  <2>1. /\ sock' \in [Fds -> Clients \cup {Timer, None}]
        /\ fd' \in [Clients -> Fds \cup {-1}]
        /\ heap' \in [Clients -> {"unallocated", "live", "freed"}]
        /\ ready' \subseteq Sources /\ backlog' \subseteq Clients
    BY <1>a DEF TypeOK, ClientTypeOK, Sources
  <2>2. ClientTypeOK'
    BY <1>a, <2>1 DEF TypeOK, ClientTypeOK
  <2> QED BY <1>a, <2>1, <2>2 DEF TypeOK
<1>2. Arrivals'
  BY <1>a DEF Arrivals, TypeOK
<1>3. TimerOwned'
  BY <1>a DEF TimerOwned, TypeOK
<1>4. Batch'
  BY <1>a, <1>b DEF Batch
<1>5. MessageFlow' /\ Unlinked'
  BY <1>a, <1>b DEF MessageFlow, Unlinked
<1>6. NoDanglingEvent'
  BY <1>a, <1>b DEF NoDanglingEvent
<1>7. NoLostEdge'
  BY <1>a, <1>b DEF NoLostEdge
<1>8. FdsOwned' /\ NoSpuriousFailure'
  BY <1>a, <1>b DEF FdsOwned, NoSpuriousFailure, TypeOK
<1> QED BY <1>1, <1>2, <1>3, <1>4, <1>5, <1>6, <1>7, <1>8

\* A failed assertion leaves everything as it is.
LEMMA AbortInv ==
  ASSUME EInv, NEW why, why \in {"result", "accept"}, Abort(why), Up,
         cur = None, cur' = cur, evs' \subseteq evs, clientVars' = clientVars,
         UNCHANGED <<running, sig, timerVars, walk>>
  PROVE  EInv'
<1> USE EpollAssumption
    DEF EInv, Abort, Live, Pending, Up, timerVars, listVars, conVars,
        clientVars
<1>1. TypeOK'
  BY DEF TypeOK, ClientTypeOK
<1>2. Arrivals' /\ TimerOwned'
  BY DEF Arrivals, TimerOwned
<1>3. Batch'
  BY DEF Batch
<1>4. MessageFlow' /\ Unlinked'
  BY DEF MessageFlow, Unlinked
<1>5. NoDanglingEvent' /\ NoLostEdge'
  BY DEF NoDanglingEvent, NoLostEdge
<1>6. FdsOwned' /\ NoSpuriousFailure'
  BY DEF FdsOwned, NoSpuriousFailure
<1> QED BY <1>1, <1>2, <1>3, <1>4, <1>5, <1>6

\* The accept loop takes a connection or fails.
LEMMA AcceptClientInv ==
  ASSUME EInv, AcceptClient
  PROVE  EInv'
<1>1. CASE \E c \in backlog, n \in FreeFds :
             /\ \A m \in FreeFds : n <= m
             /\ backlog' = backlog \ {c}
             /\ sock' = [sock EXCEPT ![n] = c]
             /\ fd' = [fd EXCEPT ![c] = n]
             /\ heap' = [heap EXCEPT ![c] = "live"]
             /\ ready' = ready \cup {c}
             /\ ConnectBack(c)
             /\ UNCHANGED <<pc, cause, buf>>
  BY <1>1, AcceptStep DEF FreeFds
<1>2. CASE Abort("accept") /\ UNCHANGED backlog
  <2>1. Up /\ cur = None
    BY DEF AcceptClient, Up, EInv, Batch
  <2> QED BY <1>2, <2>1, AbortInv DEF AcceptClient, clientVars
<1> QED BY <1>1, <1>2 DEF AcceptClient

\* The echo makes up for the message that was read.
LEMMA WriteEchoInv ==
  ASSUME EInv, WriteEcho
  PROVE  EInv'
<1>a. /\ cur \in Clients /\ heap[cur] = "live" /\ pc = "echo"
      /\ taken[cur] = Len(echoes[cur]) + 1 /\ buf[cur] = taken[cur]
  BY DEF WriteEcho, EInv, Batch, Live, MessageFlow
<1>b. /\ cur' = None
      /\ \/ pc' = "serve" /\ UNCHANGED cause
            /\ echoes' = [echoes EXCEPT ![cur] = Append(@, buf[cur])]
         \/ pc' = "failed" /\ cause' = "result" /\ UNCHANGED echoes
      /\ UNCHANGED <<running, sig, ready, evs, timerVars, sock, conVars, walk,
                     cpc, backlog, sent, taken, got>>
  BY DEF WriteEcho, Whole, Echoed, DeliverEcho
<1>c. /\ echoes' \in [Clients -> Seq(Nat)]
      /\ \A c \in Clients : c # cur => echoes'[c] = echoes[c]
      /\ pc' = "serve" => Len(echoes'[cur]) = Len(echoes[cur]) + 1
  <2>1. echoes[cur] \in Seq(Nat) /\ buf[cur] \in Nat
    BY <1>a DEF EInv, TypeOK, ClientTypeOK
  <2>2. /\ Append(echoes[cur], buf[cur]) \in Seq(Nat)
        /\ Len(Append(echoes[cur], buf[cur])) = Len(echoes[cur]) + 1
    BY <2>1
  <2>3. echoes \in [Clients -> Seq(Nat)]
    BY DEF EInv, TypeOK, ClientTypeOK
  <2>4. CASE echoes' = [echoes EXCEPT ![cur] = Append(@, buf[cur])]
    BY <1>a, <2>2, <2>3, <2>4
  <2>5. CASE pc' = "failed" /\ UNCHANGED echoes
    BY <2>3, <2>5
  <2> QED BY <1>b, <2>4, <2>5
<1> USE EpollAssumption
    DEF EInv, Live, Pending, Up, ctlVars, timerVars, listVars, conVars,
        clientVars
<1>1. TypeOK'
  BY <1>a, <1>b, <1>c DEF TypeOK, ClientTypeOK, Sources
<1>2. Arrivals' /\ TimerOwned'
  BY <1>a, <1>b, <1>c DEF Arrivals, TimerOwned, TypeOK, ClientTypeOK
<1>3. Batch'
  BY <1>a, <1>b, <1>c DEF Batch, NoDanglingEvent, TypeOK, ClientTypeOK
<1>4. MessageFlow' /\ Unlinked'
  BY <1>a, <1>b, <1>c DEF MessageFlow, Unlinked, TypeOK, ClientTypeOK, Batch
<1>5. NoDanglingEvent'
  BY <1>a, <1>b, <1>c DEF NoDanglingEvent, TypeOK, Batch
<1>6. NoLostEdge'
  BY <1>a, <1>b, <1>c DEF NoLostEdge, MessageFlow, TypeOK, Batch
<1>7. FdsOwned' /\ NoSpuriousFailure'
  BY <1>a, <1>b, <1>c DEF FdsOwned, NoSpuriousFailure, TypeOK, ClientTypeOK
<1> QED BY <1>1, <1>2, <1>3, <1>4, <1>5, <1>6, <1>7

\* What the read of read_n_echo comes to: it finds a message or the end of the
\* stream, and when it takes a message there is no second one behind it.
LEMMA ServeDataInv ==
  ASSUME EInv, NEW e \in evs, ServeData(e)
  PROVE  EInv'
<1> DEFINE c == e.who
<1>1. /\ c \in Clients /\ c \in Live /\ heap[c] = "live" /\ pc = "serve"
      /\ cur = None /\ evs' = evs \ {e}
      /\ (Pending(c) > 0 \/ cpc[c] = "gone")
      /\ (cpc[c] = "gone" => c \in ready)
      /\ \A d \in evs' : d.who # c
      /\ UNCHANGED <<running, sig, tfd, expired, walk, cpc, backlog, sent,
                     echoes, got>>
  <2>1. c \in Clients /\ pc = "serve" /\ ~e.hup
    BY Dispatch DEF ServeData, HungUp
  <2>2. c \in Live /\ \A d \in evs : d.who = c => d = e
    BY <2>1 DEF EInv, NoDanglingEvent
  <2>3. /\ cur = None /\ (Pending(c) > 0 \/ cpc[c] = "gone")
        /\ (cpc[c] = "gone" => c \in ready)
    BY <2>1 DEF EInv, Batch, Up
  <2> QED BY <2>1, <2>2, <2>3 DEF ServeData, Take, timerVars, Live
<1>2. RecvResults(c) # {} /\ (BufSize \in RecvResults(c) => Pending(c) = 1)
      /\ (0 \in RecvResults(c) => cpc[c] = "gone")
  BY <1>1, ReadResults DEF EInv, TypeOK, MessageFlow
<1>3. CASE Abort("result") /\ UNCHANGED <<cur, taken>>
  <2>1. Up /\ evs' \subseteq evs /\ clientVars' = clientVars
        /\ UNCHANGED <<running, sig, timerVars, walk>>
    BY <1>1, <1>3 DEF Up, clientVars, timerVars
  <2> QED BY <1>1, <1>3, <2>1, AbortInv
<1>4. CASE /\ cpc[c] = "gone"
           /\ UNCHANGED <<pc, cause, ready, sock, conVars, cur, taken>>
  <2> USE EpollAssumption DEF EInv, Live, Pending, Up, listVars, conVars
  <2>1. TypeOK' /\ Arrivals' /\ TimerOwned'
    BY <1>1, <1>4 DEF TypeOK, ClientTypeOK, Arrivals, TimerOwned
  <2>2. Batch' /\ NoDanglingEvent' /\ NoLostEdge'
    BY <1>1, <1>4 DEF Batch, NoDanglingEvent, NoLostEdge
  <2>3. MessageFlow' /\ Unlinked' /\ FdsOwned' /\ NoSpuriousFailure'
    BY <1>1, <1>4 DEF MessageFlow, Unlinked, FdsOwned, NoSpuriousFailure
  <2> QED BY <2>1, <2>2, <2>3
<1>5. CASE /\ BufSize \in RecvResults(c)
           /\ pc' = "echo" /\ cur' = c
           /\ TakeMessage(c, BufSize)
           /\ buf' = [buf EXCEPT ![c] = taken'[c]]
           /\ UNCHANGED <<cause, ready, sock, fd, heap, listVars>>
  <2>1. taken' = [taken EXCEPT ![c] = taken[c] + 1]
    BY <1>5 DEF TakeMessage
  <2>2. /\ taken[c] \in Nat /\ sent[c] \in Nat /\ sent[c] - taken[c] = 1
        /\ taken[c] = Len(echoes[c])
    BY <1>1, <1>2, <1>5, EpollAssumption
       DEF EInv, TypeOK, ClientTypeOK, Pending, MessageFlow, Up
  <2>3. /\ taken' \in [Clients -> Nat] /\ taken'[c] = taken[c] + 1
        /\ \A d \in Clients : d # c => taken'[d] = taken[d] /\ buf'[d] = buf[d]
        /\ buf' \in [Clients -> Nat] /\ buf'[c] = taken'[c]
    BY <1>1, <1>5, <2>1, <2>2 DEF EInv, TypeOK, ClientTypeOK
  <2> USE EpollAssumption DEF EInv, Live, Pending, Up, listVars
  <2>4. TypeOK'
    BY <1>1, <1>5, <2>3 DEF TypeOK, ClientTypeOK
  <2>5. Arrivals' /\ TimerOwned' /\ Unlinked'
    BY <1>1, <1>5 DEF Arrivals, TimerOwned, Unlinked
  <2>6. Batch'
    BY <1>1, <1>5, <2>3 DEF Batch, NoDanglingEvent
  <2>7. MessageFlow'
    BY <1>1, <1>5, <2>2, <2>3 DEF MessageFlow
  <2>8. NoDanglingEvent'
    BY <1>1, <1>5 DEF NoDanglingEvent
  <2>9. NoLostEdge'
    BY <1>1, <1>5, <2>3 DEF NoLostEdge
  <2>10. FdsOwned' /\ NoSpuriousFailure'
    BY <1>1, <1>5 DEF FdsOwned, NoSpuriousFailure
  <2> QED BY <2>4, <2>5, <2>6, <2>7, <2>8, <2>9, <2>10
<1> QED BY <1>2, <1>3, <1>4, <1>5 DEF ServeData, Whole

\* What a client does shows in the ready list at once.
LEMMA ClientMoveInv ==
  ASSUME EInv, NEW c \in Clients, ClientMove(c)
  PROVE  EInv'
<1>1. UNCHANGED <<pc, running, sig, cause, evs, cur, tfd, expired, sock, fd,
                  buf, heap, next, prev, head, tail, walk>>
  BY DEF ClientMove, ctlVars, timerVars, conVars, listVars
<1>a. /\ cpc \in [Clients -> {"start", "up", "gone"}]
      /\ sent \in [Clients -> Nat] /\ got \in [Clients -> Nat]
  BY DEF EInv, TypeOK, ClientTypeOK
<1>6. /\ cpc[c] = "start" => ready' = ready \cup {Listener}
      /\ cpc[c] # "start" /\ (sent'[c] # sent[c] \/ cpc'[c] = "gone") =>
           ready' = Edge(c)
      /\ cpc[c] # "start" /\ sent'[c] = sent[c] /\ cpc'[c] # "gone" =>
           ready' = ready
  <2>1. ready' = CASE cpc[c] = "start" -> ready \cup {Listener}
                   [] sent'[c] # sent[c] \/ cpc'[c] = "gone" -> Edge(c)
                   [] OTHER -> ready
    BY DEF ClientMove
  <2>2. ASSUME cpc[c] = "start"
        PROVE  ~ (sent'[c] # sent[c] \/ cpc'[c] = "gone")
    BY <2>2, <1>a DEF ClientMove, ClientStep, ClientConnect, ClientSend,
                      ClientRecv, ClientClose
  <2> QED BY <2>1, <2>2
<1>2. CASE ClientConnect(c)
  <2>1. /\ cpc[c] = "start" /\ cpc' = [cpc EXCEPT ![c] = "up"]
        /\ backlog' = backlog \cup {c} /\ ready' = ready \cup {Listener}
        /\ UNCHANGED <<sent, taken, echoes, got>>
    BY <1>2, <1>6 DEF ClientConnect
  <2>2. TypeOK'
    <3>1. ClientTypeOK'
      BY <2>1 DEF EInv, TypeOK, ClientTypeOK
    <3>2. ready' \subseteq Sources
      BY <2>1 DEF EInv, TypeOK, Edge, Sources
    <3> QED BY <1>1, <3>1, <3>2 DEF EInv, TypeOK
  <2> USE EpollAssumption DEF EInv, Live, Pending, Up, Edge
  <2>7. Arrivals' /\ TimerOwned' /\ Unlinked'
    BY <1>1, <2>1 DEF Arrivals, TimerOwned, Unlinked, TypeOK, ClientTypeOK
  <2>3. Batch'
    BY <1>1, <2>1 DEF Batch, TypeOK, ClientTypeOK
  <2>4. MessageFlow'
    BY <1>1, <2>1 DEF MessageFlow, TypeOK, ClientTypeOK
  <2>8. NoDanglingEvent'
    BY <1>1, <2>1 DEF NoDanglingEvent
  <2>5. NoLostEdge'
    BY <1>1, <2>1 DEF NoLostEdge, TypeOK, ClientTypeOK
  <2>6. FdsOwned' /\ NoSpuriousFailure'
    BY <1>1, <2>1 DEF FdsOwned, NoSpuriousFailure
  <2> QED BY <2>2, <2>3, <2>4, <2>5, <2>6, <2>7, <2>8
<1>3. CASE ClientSend(c)
  <2>1. /\ cpc[c] = "up" /\ sent' = [sent EXCEPT ![c] = @ + 1]
        /\ sent'[c] # sent[c] /\ sent'[c] = sent[c] + 1
        /\ ready' = Edge(c)
        /\ UNCHANGED <<cpc, backlog, taken, echoes, got>>
    <3>1. /\ cpc[c] = "up" /\ sent' = [sent EXCEPT ![c] = @ + 1]
          /\ UNCHANGED <<cpc, backlog, taken, echoes, got>>
      BY <1>3 DEF ClientSend
    <3>2. sent'[c] = sent[c] + 1 /\ sent[c] \in Nat
      BY <1>a, <3>1
    <3>3. sent'[c] # sent[c]
      BY <3>2
    <3> QED BY <1>6, <3>1, <3>2, <3>3
  <2>2. TypeOK'
    <3>1. ClientTypeOK'
      BY <2>1 DEF EInv, TypeOK, ClientTypeOK
    <3>2. ready' \subseteq Sources
      BY <2>1 DEF EInv, TypeOK, Edge, Sources
    <3> QED BY <1>1, <3>1, <3>2 DEF EInv, TypeOK
  <2> USE EpollAssumption DEF EInv, Live, Pending, Up, Edge
  <2>7. Arrivals' /\ TimerOwned' /\ Unlinked'
    BY <1>1, <2>1 DEF Arrivals, TimerOwned, Unlinked, TypeOK, ClientTypeOK
  <2>3. Batch'
    BY <1>1, <2>1 DEF Batch, TypeOK, ClientTypeOK
  <2>4. MessageFlow'
    BY <1>1, <2>1 DEF MessageFlow, TypeOK, ClientTypeOK, Batch
  <2>8. NoDanglingEvent'
    BY <1>1, <2>1 DEF NoDanglingEvent
  <2>5. NoLostEdge'
    BY <1>1, <2>1 DEF NoLostEdge, TypeOK, ClientTypeOK
  <2>6. FdsOwned' /\ NoSpuriousFailure'
    BY <1>1, <2>1 DEF FdsOwned, NoSpuriousFailure
  <2> QED BY <2>2, <2>3, <2>4, <2>5, <2>6, <2>7, <2>8
<1>4. CASE ClientRecv(c)
  <2>1. UNCHANGED <<cpc, backlog, sent, taken, echoes, ready>>
        /\ got' \in [Clients -> Nat]
    <3>1. /\ cpc[c] = "up" /\ got' = [got EXCEPT ![c] = @ + 1]
          /\ UNCHANGED <<cpc, backlog, sent, taken, echoes>>
      BY <1>4 DEF ClientRecv
    <3>2. got' \in [Clients -> Nat]
      BY <1>a, <3>1
    <3>3. ready' = ready
      BY <1>6, <3>1
    <3> QED BY <3>1, <3>2, <3>3
  <2>2. TypeOK'
    <3>1. ClientTypeOK'
      BY <2>1 DEF EInv, TypeOK, ClientTypeOK
    <3>2. ready' \subseteq Sources
      BY <2>1 DEF EInv, TypeOK, Edge, Sources
    <3> QED BY <1>1, <3>1, <3>2 DEF EInv, TypeOK
  <2> USE EpollAssumption DEF EInv, Live, Pending, Up, Edge
  <2>5. Arrivals' /\ TimerOwned' /\ Unlinked'
    BY <1>1, <2>1 DEF Arrivals, TimerOwned, Unlinked
  <2>3. Batch' /\ MessageFlow' /\ NoDanglingEvent'
    BY <1>1, <2>1 DEF Batch, MessageFlow, NoDanglingEvent
  <2>4. NoLostEdge' /\ FdsOwned' /\ NoSpuriousFailure'
    BY <1>1, <2>1 DEF NoLostEdge, FdsOwned, NoSpuriousFailure
  <2> QED BY <2>2, <2>3, <2>4, <2>5
<1>5. CASE ClientClose(c)
  <2>1. /\ cpc[c] = "up" /\ cpc' = [cpc EXCEPT ![c] = "gone"]
        /\ ready' = Edge(c)
        /\ UNCHANGED <<backlog, sent, taken, echoes, got>>
    <3>1. /\ cpc[c] = "up" /\ cpc' = [cpc EXCEPT ![c] = "gone"]
          /\ UNCHANGED <<backlog, sent, taken, echoes, got>>
      BY <1>5 DEF ClientClose
    <3>2. cpc'[c] = "gone"
      BY <1>a, <3>1
    <3> QED BY <1>6, <3>1, <3>2
  <2>2. TypeOK'
    <3>1. ClientTypeOK'
      BY <2>1 DEF EInv, TypeOK, ClientTypeOK
    <3>2. ready' \subseteq Sources
      BY <2>1 DEF EInv, TypeOK, Edge, Sources
    <3> QED BY <1>1, <3>1, <3>2 DEF EInv, TypeOK
  <2> USE EpollAssumption DEF EInv, Live, Pending, Up, Edge
  <2>7. Arrivals' /\ TimerOwned' /\ Unlinked'
    BY <1>1, <2>1 DEF Arrivals, TimerOwned, Unlinked, TypeOK, ClientTypeOK
  <2>3. Batch'
    BY <1>1, <2>1 DEF Batch, TypeOK, ClientTypeOK, NoDanglingEvent
  <2>4. MessageFlow'
    BY <1>1, <2>1 DEF MessageFlow, TypeOK, ClientTypeOK, Batch
  <2>8. NoDanglingEvent'
    BY <1>1, <2>1 DEF NoDanglingEvent
  <2>5. NoLostEdge'
    BY <1>1, <2>1 DEF NoLostEdge, TypeOK, ClientTypeOK
  <2>6. FdsOwned' /\ NoSpuriousFailure'
    BY <1>1, <2>1 DEF FdsOwned, NoSpuriousFailure
  <2> QED BY <2>2, <2>3, <2>4, <2>5, <2>6, <2>7, <2>8
<1> QED BY <1>2, <1>3, <1>4, <1>5 DEF ClientMove, ClientStep

-----------------------------------------------------------------------------
(***************************************************************************)
(* Every step.                                                             *)
(***************************************************************************)

\* Steps that change no variable keep the invariant.
LEMMA StutterInv ==
  ASSUME EInv, UNCHANGED vars
  PROVE  EInv'
<1> USE DEF EInv, vars, ctlVars, timerVars, listVars, conVars, clientVars,
            Live, Pending, Up
<1>1. TypeOK'
  <2>1. ClientTypeOK'
    BY DEF TypeOK, ClientTypeOK
  <2> QED BY <2>1 DEF TypeOK
<1>4. Arrivals' /\ TimerOwned' /\ Batch'
  BY DEF Arrivals, TimerOwned, Batch
<1>2. MessageFlow' /\ Unlinked' /\ NoDanglingEvent'
  BY DEF MessageFlow, Unlinked, NoDanglingEvent
<1>3. NoLostEdge' /\ FdsOwned' /\ NoSpuriousFailure'
  BY DEF NoLostEdge, FdsOwned, NoSpuriousFailure
<1> QED BY <1>1, <1>2, <1>3, <1>4

\* Every action keeps the invariant.
LEMMA NextEInv ==
  ASSUME EInv, [Next]_vars
  PROVE  EInv'
<1>1. CASE SendSignal \/ DeliverSignal \/ TimerExpires
  BY <1>1, SendSignalInv, DeliverSignalInv, TimerExpiresInv
<1>2. CASE Register \/ Loop \/ EpollWait \/ ServeDone
  BY <1>2, RegisterInv, LoopInv, EpollWaitInv, ServeDoneInv
<1>3. ASSUME NEW e \in evs,
             \/ ServeListener(e) \/ ServeTimer(e)
             \/ ServeHangup(e) \/ ServeData(e)
      PROVE  EInv'
  BY <1>3, ServeListenerInv, ServeTimerInv, ServeHangupInv, ServeDataInv
<1>4. CASE AcceptClient \/ AcceptDone \/ WriteEcho
  BY <1>4, AcceptClientInv, AcceptDoneInv, WriteEchoInv
<1>5. CASE Cleanup \/ CloseOne \/ CloseDone
  BY <1>5, CleanupInv, CloseOneInv, CloseDoneInv
<1>6. ASSUME NEW c \in Clients, ClientMove(c)
      PROVE  EInv'
  BY <1>6, ClientMoveInv
<1>7. CASE Terminating \/ UNCHANGED vars
  BY <1>7, StutterInv DEF Terminating
<1> QED BY <1>1, <1>2, <1>3, <1>4, <1>5, <1>6, <1>7 DEF Next, ServerStep

-----------------------------------------------------------------------------
(***************************************************************************)
(* The theorems.                                                           *)
(***************************************************************************)

\* EInv holds in every state the server, its clients and the kernel reach.
THEOREM Invariance == SafeSpec => []EInv
<1>1. Init => EInv
  BY InitEInv
<1>2. EInv /\ [Next]_vars => EInv'
  BY NextEInv
<1> QED BY <1>1, <1>2, PTL DEF SafeSpec

\* Every variable keeps its type.
THEOREM TypeCorrect == SafeSpec => []TypeOK
<1>1. EInv => TypeOK
  BY DEF EInv
<1> QED BY <1>1, Invariance, PTL

\* No event, on the ready list or in the batch of service_events, is of a
\* connection whose object close_client has freed.
THEOREM NoEventOfFreed == SafeSpec => []NoDanglingEvent
<1>1. EInv => NoDanglingEvent
  BY DEF EInv
<1> QED BY <1>1, Invariance, PTL

\* Edge-triggered registration loses no message, no hang-up and no arrival.
THEOREM NoEdgeIsLost == SafeSpec => []NoLostEdge
<1>1. EInv => NoLostEdge
  BY DEF EInv
<1> QED BY <1>1, Invariance, PTL

\* Connections and descriptors stay paired through every reuse.
THEOREM DescriptorsOwned == SafeSpec => []FdsOwned
<1>1. EInv => FdsOwned
  BY DEF EInv
<1> QED BY <1>1, Invariance, PTL

\* read and close never fail for a reason of the server's own making.
THEOREM NoFailureByMistake == SafeSpec => []NoSpuriousFailure
<1>1. EInv => NoSpuriousFailure
  BY DEF EInv
<1> QED BY <1>1, Invariance, PTL

\* Comparing descriptors finds the handler the event's pointer calls for.
THEOREM RightHandler == SafeSpec => []DispatchMatches
<1>1. EInv => DispatchMatches
  BY Dispatch DEF DispatchMatches
<1> QED BY <1>1, Invariance, PTL

-----------------------------------------------------------------------------
(***************************************************************************)
(* The server implements EchoService.                                      *)
(***************************************************************************)

\* What the states of clients and connections map to.
LEMMA Mapping ==
  /\ Presence["start"] = "away" /\ Presence["up"] = "here"
  /\ Presence["gone"] = "left"
  /\ Holding["unallocated"] = "none" /\ Holding["live"] = "held"
  /\ Holding["freed"] = "released"
  BY DEF Presence, Holding

\* Steps that touch none of the mapped variables are no step of the service.
LEMMA Stutter ==
  ASSUME Up' = Up, UNCHANGED <<cpc, heap, sent, echoes>>
  PROVE  UNCHANGED Echo!vars
  BY DEF Echo!vars

\* Leaving the loop for good, or failing an assertion, is Stop.
LEMMA Stopping ==
  ASSUME Up, ~Up', UNCHANGED <<cpc, heap, sent, echoes>>
  PROVE  Echo!Stop
  BY DEF Echo!Stop

\* Connecting, sending and leaving are the steps of that name.
LEMMA ClientMaps ==
  ASSUME EInv, NEW c \in Clients, ClientMove(c)
  PROVE  [Echo!Next]_Echo!vars
<1>a. Up' = Up /\ heap' = heap
  BY DEF ClientMove, ctlVars, conVars, Up
<1>1. CASE ClientConnect(c)
  <2>1. Echo!Connect(c)
    BY <1>a, <1>1, Mapping
       DEF ClientConnect, Echo!Connect, EInv, TypeOK, ClientTypeOK
  <2> QED BY <2>1 DEF Echo!Next
<1>2. CASE ClientSend(c)
  <2>1. Echo!Ask(c)
    BY <1>a, <1>2, Mapping
       DEF ClientSend, Echo!Ask, EInv, TypeOK, ClientTypeOK
  <2> QED BY <2>1 DEF Echo!Next
<1>3. CASE ClientRecv(c)
  BY <1>a, <1>3, Stutter DEF ClientRecv
<1>4. CASE ClientClose(c)
  <2>1. Echo!Leave(c)
    BY <1>a, <1>4, Mapping
       DEF ClientClose, Echo!Leave, EInv, TypeOK, ClientTypeOK
  <2> QED BY <2>1 DEF Echo!Next
<1> QED BY <1>1, <1>2, <1>3, <1>4 DEF ClientMove, ClientStep

\* accept4 is Accept; without a descriptor to give the process stops.
LEMMA AcceptMaps ==
  ASSUME EInv, AcceptClient
  PROVE  [Echo!Next]_Echo!vars
<1>1. Up /\ UNCHANGED <<cpc, sent, echoes>>
  BY DEF AcceptClient, Up
<1>2. ASSUME NEW c \in backlog, heap' = [heap EXCEPT ![c] = "live"],
             UNCHANGED pc
      PROVE  [Echo!Next]_Echo!vars
  <2>1. c \in Clients /\ heap[c] = "unallocated" /\ cpc[c] \in {"up", "gone"}
    BY DEF EInv, TypeOK, ClientTypeOK, Arrivals
  <2>2. Echo!Accept(c)
    BY <1>1, <1>2, <2>1, Mapping DEF Echo!Accept, EInv, TypeOK, Up
  <2> QED BY <2>1, <2>2 DEF Echo!Next
<1>3. CASE Abort("accept")
  BY <1>1, <1>3, Stopping DEF Abort, conVars, Up, Echo!Next
<1> QED BY <1>2, <1>3 DEF AcceptClient

\* The write of a whole message is Answer: the buffer has the one that is due.
LEMMA WriteMaps ==
  ASSUME EInv, WriteEcho
  PROVE  [Echo!Next]_Echo!vars
<1>1. /\ cur \in Clients /\ heap[cur] = "live" /\ Up
      /\ buf[cur] = Len(echoes[cur]) + 1 /\ taken[cur] <= sent[cur]
      /\ taken[cur] = buf[cur]
      /\ UNCHANGED <<cpc, heap, sent>>
  BY DEF WriteEcho, EInv, Batch, Live, MessageFlow, Up, conVars
<1>2. CASE /\ pc' = "serve"
           /\ echoes' = [echoes EXCEPT ![cur] = Append(@, buf[cur])]
  <2>1. echoes' = [echoes EXCEPT ![cur] = Append(@, Len(@) + 1)]
    BY <1>1, <1>2
  <2>2. Len(echoes[cur]) \in Nat /\ sent[cur] \in Nat
        /\ Len(echoes[cur]) < sent[cur]
    <3>1. echoes[cur] \in Seq(Nat) /\ sent[cur] \in Nat
      BY <1>1 DEF EInv, TypeOK, ClientTypeOK
    <3>2. Len(echoes[cur]) \in Nat
      BY <3>1
    <3> QED BY <1>1, <3>1, <3>2
  <2>3. Up'
    BY <1>2 DEF Up
  <2>4. Echo!Answer(cur)
    BY <1>1, <2>1, <2>2, <2>3, Mapping DEF Echo!Answer
  <2> QED BY <1>1, <2>4 DEF Echo!Next
<1>3. CASE pc' = "failed" /\ echoes' = echoes
  <2>1. ~Up'
    BY <1>3 DEF Up
  <2> QED BY <1>1, <1>3, <2>1, Stopping DEF Echo!Next
<1> QED BY <1>2, <1>3 DEF WriteEcho, Whole, Echoed, DeliverEcho

\* close_client after a hang-up is Release, in the cleanup TearDown.
LEMMA CloseMaps ==
  ASSUME EInv, NEW c \in Live, CloseClient(c), UNCHANGED tfd,
         UNCHANGED <<cpc, sent, echoes>>,
         Up => cpc[c] = "gone"
  PROVE  [Echo!Next]_Echo!vars
<1>1. /\ UNCHANGED pc /\ c \in Clients /\ heap[c] = "live"
      /\ heap' = [heap EXCEPT ![c] = "freed"]
  BY CloseStep DEF Live
<1>2. Up' = Up
  BY <1>1 DEF Up
<1>3. CASE Up
  <2>1. Echo!Release(c)
    BY <1>1, <1>2, <1>3, Mapping DEF Echo!Release, EInv, TypeOK
  <2> QED BY <1>1, <2>1 DEF Echo!Next
<1>4. CASE ~Up
  <2>1. Echo!TearDown(c)
    BY <1>1, <1>2, <1>4, Mapping DEF Echo!TearDown, EInv, TypeOK
  <2> QED BY <1>1, <2>1 DEF Echo!Next
<1> QED BY <1>3, <1>4

\* The steps of service_events.
LEMMA ServeMaps ==
  ASSUME EInv, NEW e \in evs,
         ServeListener(e) \/ ServeTimer(e) \/ ServeHangup(e) \/ ServeData(e)
  PROVE  [Echo!Next]_Echo!vars
<1>1. CASE ServeListener(e) \/ ServeTimer(e)
  <2>1. Up' = Up /\ UNCHANGED <<cpc, heap, sent, echoes>>
    BY <1>1 DEF ServeListener, ServeTimer, ctlVars, conVars, clientVars, Up
  <2> QED BY <2>1, Stutter
<1>2. CASE ServeHangup(e)
  <2>1. e.who \in Live /\ cpc[e.who] = "gone"
    BY <1>2, Dispatch DEF ServeHangup, EInv, NoDanglingEvent, Batch, HungUp
  <2> QED BY <1>2, <2>1, CloseMaps DEF ServeHangup, timerVars, clientVars
<1>3. CASE ServeData(e)
  <2>1. Up /\ UNCHANGED <<cpc, sent, echoes>>
    BY <1>3 DEF ServeData, Up
  <2>2. CASE pc' = "failed" /\ heap' = heap
    BY <2>1, <2>2, Stopping DEF Up, Echo!Next
  <2>3. CASE pc' \in {"serve", "echo"} /\ heap' = heap
    BY <2>1, <2>3, Stutter DEF Up
  <2> QED BY <1>3, <2>2, <2>3 DEF ServeData, Abort, conVars
<1> QED BY <1>1, <1>2, <1>3

\* Every step of the server is a step of the service or none.
LEMMA NextMaps ==
  ASSUME EInv, [Next]_vars
  PROVE  [Echo!Next]_Echo!vars
<1> USE DEF vars, ctlVars, timerVars, conVars, clientVars
<1>1. CASE SendSignal \/ DeliverSignal \/ TimerExpires
  <2>1. Up' = Up /\ UNCHANGED <<cpc, heap, sent, echoes>>
    BY <1>1 DEF SendSignal, DeliverSignal, TimerExpires, SignalOpen, Up
  <2> QED BY <2>1, Stutter
<1>2. CASE Register \/ Loop \/ EpollWait \/ ServeDone \/ AcceptDone
  <2>1. Up' = Up /\ UNCHANGED <<cpc, heap, sent, echoes>>
    BY <1>2 DEF Register, Loop, EpollWait, ServeDone, AcceptDone, Up
  <2> QED BY <2>1, Stutter
<1>3. CASE Cleanup
  <2>1. Up /\ ~Up' /\ UNCHANGED <<cpc, heap, sent, echoes>>
    BY <1>3 DEF Cleanup, Up
  <2> QED BY <2>1, Stopping DEF Echo!Next
<1>4. CASE CloseOne
  <2>1. walk \in Live /\ ~Up
    BY <1>4 DEF CloseOne, EInv, Unlinked, Up
  <2> QED BY <1>4, <2>1, CloseMaps DEF CloseOne
<1>5. CASE CloseDone \/ Terminating \/ UNCHANGED vars
  <2>1. Up' = Up /\ UNCHANGED <<cpc, heap, sent, echoes>>
    BY <1>5 DEF CloseDone, Terminating, Up
  <2> QED BY <2>1, Stutter
<1> QED BY <1>1, <1>2, <1>3, <1>4, <1>5, ServeMaps, AcceptMaps, WriteMaps,
           ClientMaps
        DEF Next, ServerStep

\* The epoll server is an echo service: what EchoService allows is all that
\* its clients and its connections ever see.
THEOREM ImplementsEcho == SafeSpec => EchoSafe
<1>1. Init => Echo!Init
  BY Mapping DEF Init, ClientInit, Echo!Init, Up
<1>2. EInv /\ [Next]_vars => [Echo!Next]_Echo!vars
  BY NextMaps
<1> QED BY <1>1, <1>2, Invariance, PTL DEF SafeSpec, EchoSafe, Echo!SafeSpec

=============================================================================
