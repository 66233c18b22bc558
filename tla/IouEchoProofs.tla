---------------------------- MODULE IouEchoProofs ----------------------------
(***************************************************************************)
(* The io_uring server implements EchoService, for all values of the       *)
(* constants: its initial state maps to the one of the service, and every  *)
(* step to a step of the service or to none.  Also here: the properties of *)
(* IouServer that take more than the invariant of IouServerProofs.         *)
(***************************************************************************)
EXTENDS IouServerProofs, FiniteSetTheorems

-----------------------------------------------------------------------------
(***************************************************************************)
(* The mapping.                                                            *)
(***************************************************************************)

\* What the states of clients and objects map to.
LEMMA Mapping ==
  /\ Presence["start"] = "away" /\ Presence["up"] = "here"
  /\ Presence["gone"] = "left"
  /\ Holding["unallocated"] = "none" /\ Holding["live"] = "held"
  /\ Holding["freed"] = "released"
  BY DEF Presence, Holding

\* Steps that touch none of the mapped variables are no step of the service.
LEMMA Stutter ==
  ASSUME RingUp' = RingUp, UNCHANGED <<cpc, heap, sent, echoes>>
  PROVE  UNCHANGED Echo!vars
  BY DEF Echo!vars

\* Leaving the loop for good, or failing an assertion, is Stop.
LEMMA Stopping ==
  ASSUME RingUp, ~RingUp', UNCHANGED <<cpc, heap, sent, echoes>>
  PROVE  Echo!Stop
  BY DEF Echo!Stop

-----------------------------------------------------------------------------
(***************************************************************************)
(* Clients.                                                                *)
(***************************************************************************)

\* Connecting, sending and leaving are the steps of that name.
LEMMA ClientMaps ==
  ASSUME IInv, NEW c \in Clients, ClientMove(c)
  PROVE  [Echo!Next]_Echo!vars
<1> USE DEF ClientMove, opVars, ctlVars
<1>1. CASE ClientConnect(c)
  <2>1. Echo!Connect(c)
    BY <1>1, Mapping
       DEF ClientConnect, Echo!Connect, IInv, TypeOK, ClientTypeOK, RingUp
  <2> QED BY <2>1 DEF Echo!Next
<1>2. CASE ClientSend(c)
  <2>1. Echo!Ask(c)
    BY <1>2, Mapping
       DEF ClientSend, Echo!Ask, IInv, TypeOK, ClientTypeOK, RingUp
  <2> QED BY <2>1 DEF Echo!Next
<1>3. CASE ClientRecv(c)
  BY <1>3, Stutter DEF ClientRecv, RingUp
<1>4. CASE ClientClose(c)
  <2>1. Echo!Leave(c)
    BY <1>4, Mapping
       DEF ClientClose, Echo!Leave, IInv, TypeOK, ClientTypeOK, RingUp
  <2> QED BY <2>1 DEF Echo!Next
<1> QED BY <1>1, <1>2, <1>3, <1>4 DEF ClientStep

-----------------------------------------------------------------------------
(***************************************************************************)
(* Kernel: only the completion of a whole send is a step, Answer.          *)
(***************************************************************************)

\* A whole send is Answer, because the buffer holds the message that is due.
LEMMA SendMaps ==
  ASSUME IInv, RingUp, NEW r \in kern, KernelSend(r)
  PROVE  [Echo!Next]_Echo!vars
<1>1. r.kind = "send" /\ r.kind \in ConKinds
  BY DEF KernelSend, ConKinds
<1>2. r.op \in Clients /\ heap[r.op] = "live" /\ sock[r.fd] = r.op
  BY <1>1, ConRequest DEF Live
<1>3. PICK c \in Clients : c = r.op
  BY <1>2
<1>5. taken[c] = Len(echoes[c]) + 1 /\ buf[c] = taken[c]
  BY <1>1, <1>2, <1>3 DEF IInv, MessageFlow, MessageInside
<1>6. taken[c] <= sent[c]
  BY DEF IInv, EchoInOrder
<1>7. PICK res \in SendResults(c) :
        DeliverEcho(c, res, buf[c]) /\ Complete(r, res)
  BY <1>2, <1>3 DEF KernelSend
<1>8. UNCHANGED <<pc, heap, cpc, sent>>
  BY DEF KernelSend, Complete, opVars, ctlVars
<1>9. CASE res = BufSize
  <2>1. echoes' = [echoes EXCEPT ![c] = Append(@, Len(@) + 1)]
    BY <1>5, <1>7, <1>9 DEF DeliverEcho
  <2>2. /\ taken[c] \in Nat /\ sent[c] \in Nat /\ Len(echoes[c]) \in Nat
        /\ Len(echoes[c]) < sent[c]
    BY <1>5, <1>6 DEF IInv, TypeOK, ClientTypeOK
  <2>3. Echo!Answer(c)
    BY <1>2, <1>3, <1>8, <2>1, <2>2, Mapping DEF Echo!Answer, RingUp
  <2> QED BY <2>3 DEF Echo!Next
<1>10. CASE res # BufSize
  <2>1. echoes' = echoes
    BY <1>7, <1>10 DEF DeliverEcho
  <2> QED BY <1>8, <2>1, Stutter DEF RingUp
<1> QED BY <1>9, <1>10

\* No other completion shows.
LEMMA KernelMaps ==
  ASSUME IInv, NEW r \in kern, KernelComplete(r)
  PROVE  [Echo!Next]_Echo!vars
<1>1. CASE KernelSend(r)
  BY <1>1, SendMaps DEF KernelComplete
<1>2. CASE KernelAccept(r) \/ KernelRecv(r) \/ KernelClose(r) \/ KernelTimer(r)
  <2>1. UNCHANGED <<pc, heap, cpc, sent, echoes>>
    BY <1>2 DEF KernelAccept, KernelRecv, KernelClose, KernelTimer, Complete,
                opVars, ctlVars, clientVars
  <2> QED BY <2>1, Stutter DEF RingUp
<1> QED BY <1>1, <1>2 DEF KernelComplete

-----------------------------------------------------------------------------
(***************************************************************************)
(* Handlers: an accept is Accept, a close is Release; the others, and what *)
(* they do to objects and queues, the service does not see.                *)
(***************************************************************************)

\* What no handler changes.
LEMMA HandleQuiet ==
  ASSUME IInv, NEW k, Handle(k)
  PROVE  RingUp /\ UNCHANGED <<running, sock, cpc, sent, echoes>>
  BY PopStep

\* A failed assertion in a handler is Stop.
LEMMA AbortMaps ==
  ASSUME IInv, NEW k, Handle(k), NEW why, Abort(why)
  PROVE  [Echo!Next]_Echo!vars
<1>1. /\ RingUp /\ ~RingUp'
      /\ UNCHANGED <<heap, cpc, sent, echoes>>
  BY HandleQuiet DEF Abort, opVars, RingUp
<1> QED BY <1>1, Stopping DEF Echo!Next

\* A handler that keeps every object alive does not show.
LEMMA QuietMaps ==
  ASSUME IInv, NEW k, Handle(k), UNCHANGED <<pc, heap>>
  PROVE  [Echo!Next]_Echo!vars
<1>1. RingUp' = RingUp /\ UNCHANGED <<cpc, heap, sent, echoes>>
  BY HandleQuiet DEF RingUp
<1> QED BY <1>1, Stutter

\* handle_cqe_accept is Accept of a client that is not served yet.
LEMMA AcceptMaps ==
  ASSUME IInv, HandleAccept
  PROVE  [Echo!Next]_Echo!vars
<1>1. Handle("accept")
  BY DEF HandleAccept
<1>2. CASE Abort("result") \/ Abort("sq_full")
  BY <1>1, <1>2, AbortMaps
<1>3. CASE ~(Abort("result") \/ Abort("sq_full"))
  <2>1. PICK c : c = sock[Event.res]
    OBVIOUS
  <2>2. /\ Event.res >= 0 /\ UNCHANGED pc
        /\ heap' = [heap EXCEPT ![c] = "live"]
    BY <1>3, <2>1 DEF HandleAccept, NewClient
  <2>3. RingUp /\ Event \in Done /\ Event.kind = "accept"
    BY <1>1, PopStep
  <2>4. c \in Clients /\ heap[c] = "unallocated" /\ cpc[c] # "start"
    BY <2>1, <2>2, <2>3 DEF IInv, Arrivals
  <2>5. UNCHANGED <<cpc, sent, echoes>>
    BY <1>1, HandleQuiet
  <2>6. cpc[c] \in {"up", "gone"}
    BY <2>4 DEF IInv, TypeOK, ClientTypeOK
  <2>7. Echo!Accept(c)
    BY <2>2, <2>3, <2>4, <2>5, <2>6, Mapping
       DEF Echo!Accept, RingUp, IInv, TypeOK, OpTypeOK
  <2> QED BY <2>4, <2>7 DEF Echo!Next
<1> QED BY <1>2, <1>3

\* handle_cqe_close is Release of a client that has left.
LEMMA CloseMaps ==
  ASSUME IInv, HandleClose
  PROVE  [Echo!Next]_Echo!vars
<1>1. Handle("close") /\ UNCHANGED pc
  BY DEF HandleClose
<1>2. PICK c \in Clients : c = Event.op
  BY <1>1, PopStep DEF ConKinds
<1>3. /\ RingUp /\ heap[c] = "live" /\ cpc[c] = "gone"
      /\ UNCHANGED <<cpc, sent, echoes>>
  BY <1>1, <1>2, PopStep DEF ConKinds, Live, IInv, LeftFirst, InFlight
<1>4. heap' = [heap EXCEPT ![c] = "freed"]
  BY <1>2 DEF HandleClose, ClosingClient
<1>5. Echo!Release(c)
  BY <1>1, <1>3, <1>4, Mapping
     DEF Echo!Release, RingUp, IInv, TypeOK, OpTypeOK
<1> QED BY <1>5 DEF Echo!Next

\* recv, send and timer do not show.
LEMMA ResubmitMaps ==
  ASSUME IInv, HandleRecv \/ HandleSend \/ HandleTimer
  PROVE  [Echo!Next]_Echo!vars
<1>1. PICK k : Handle(k)
  BY DEF HandleRecv, HandleSend, HandleTimer
<1>2. CASE Abort("result") \/ Abort("sq_full")
  BY <1>1, <1>2, AbortMaps
<1>3. CASE ~(Abort("result") \/ Abort("sq_full"))
  <2>1. UNCHANGED <<pc, heap>>
    BY <1>3 DEF HandleRecv, HandleSend, HandleTimer, Resubmit, opVars
  <2> QED BY <1>1, <2>1, QuietMaps
<1> QED BY <1>2, <1>3

-----------------------------------------------------------------------------
(***************************************************************************)
(* The loop and the cleanup: FreeRing is Stop, a close that succeeds is    *)
(* TearDown.                                                               *)
(***************************************************************************)

\* Steps of the loop do not show.
LEMMA ControlMaps ==
  ASSUME IInv,
         \/ BlockSignals \/ SendSignal \/ DeliverSignal \/ LoopExit
         \/ EnterSubmit \/ EnterReturn \/ WakeOrSpin
         \/ KernelConsume \/ KernelIdle \/ CloseDone \/ UNCHANGED vars
  PROVE  [Echo!Next]_Echo!vars
<1>1. RingUp' = RingUp /\ UNCHANGED <<cpc, heap, sent, echoes>>
  BY DEF BlockSignals, SendSignal, DeliverSignal, LoopExit, EnterSubmit,
         EnterReturn, WakeOrSpin, KernelConsume, KernelIdle, CloseDone, vars,
         ctlVars, ringVars, opVars, clientVars, RingUp
<1> QED BY <1>1, Stutter

\* Leaving the loop is Stop.
LEMMA FreeRingMaps ==
  ASSUME IInv, FreeRing
  PROVE  [Echo!Next]_Echo!vars
<1>1. RingUp /\ ~RingUp' /\ UNCHANGED <<cpc, heap, sent, echoes>>
  BY DEF FreeRing, RingUp, opVars, clientVars
<1> QED BY <1>1, Stopping DEF Echo!Next

\* A synchronous close that succeeds is TearDown.
LEMMA CloseOneMaps ==
  ASSUME IInv, NEW c \in Clients, CloseOne(c)
  PROVE  [Echo!Next]_Echo!vars
<1>1. /\ ~RingUp /\ RingUp' = RingUp
      /\ UNCHANGED <<cpc, sent, echoes>>
  BY DEF CloseOne, RingUp, clientVars
<1>2. CASE sock[fd[c]] = None
  <2>1. UNCHANGED heap
    BY <1>2 DEF CloseOne, opVars
  <2> QED BY <1>1, <2>1, Stutter
<1>3. CASE sock[fd[c]] # None
  <2>1. heap' = [heap EXCEPT ![c] = "freed"] /\ heap[c] = "live"
    BY <1>3 DEF CloseOne, IInv, SingleOwner, Live
  <2>2. Echo!TearDown(c)
    BY <1>1, <2>1, Mapping DEF Echo!TearDown, IInv, TypeOK, OpTypeOK
  <2> QED BY <2>2 DEF Echo!Next
<1> QED BY <1>2, <1>3

-----------------------------------------------------------------------------
(***************************************************************************)
(* The theorems.                                                           *)
(***************************************************************************)

\* The initial states correspond.
LEMMA InitMaps == Init => Echo!Init
  BY Mapping DEF Init, ClientInit, Echo!Init, RingUp

\* Every step is a step of the service or a stutter.
LEMMA NextMaps == IInv /\ [Next]_vars => [Echo!Next]_Echo!vars
<1> SUFFICES ASSUME IInv, [Next]_vars PROVE [Echo!Next]_Echo!vars
  OBVIOUS
<1>1. ASSUME NEW r \in kern, KernelComplete(r) PROVE [Echo!Next]_Echo!vars
  BY <1>1, KernelMaps
<1>2. ASSUME NEW c \in Clients, CloseOne(c) PROVE [Echo!Next]_Echo!vars
  BY <1>2, CloseOneMaps
<1>3. ASSUME NEW c \in Clients, ClientMove(c) PROVE [Echo!Next]_Echo!vars
  BY <1>3, ClientMaps
<1> QED
  BY <1>1, <1>2, <1>3, ControlMaps, FreeRingMaps, AcceptMaps, CloseMaps,
     ResubmitMaps
     DEF Next, ServerStep, KernelStep, Terminating

\* Every run of the io_uring server is a run of EchoService: connections are
\* accepted once, messages answered once, in order and with themselves, and
\* resources given back only after the client has left or the server stopped.
THEOREM ServesEcho == SafeSpec => EchoSafe
<1>1. Init => Echo!Init
  BY InitMaps
<1>2. IInv /\ [Next]_vars => [Echo!Next]_Echo!vars
  BY NextMaps
<1> QED BY <1>1, <1>2, Invariance, PTL DEF SafeSpec, EchoSafe, Echo!SafeSpec

-----------------------------------------------------------------------------
(***************************************************************************)
(* Closes in the kernel, and the count of entries to submit.               *)
(***************************************************************************)

\* A descriptor changes hands only by an accept, which takes a free one, by
\* the close of a client that has left, or by the cleanup.
LEMMA SockStep ==
  ASSUME IInv, [Next]_vars, NEW n \in Fds,
         sock[n] \in Clients, sock'[n] # sock[n]
  PROVE  cpc[sock[n]] = "gone" \/ pc = "closing"
<1>1. ASSUME NEW r \in kern, KernelComplete(r)
      PROVE  cpc[sock[n]] = "gone"
  <2>1. CASE KernelClose(r)
    <3>1. r.op \in Clients /\ sock[r.fd] = r.op /\ cpc[r.op] = "gone"
      BY <1>1, <2>1, ConRequest
         DEF KernelComplete, KernelClose, ConKinds, IInv, LeftFirst, InFlight
    <3>2. r.fd = n
      BY <2>1 DEF KernelClose, IInv, TypeOK
    <3> QED BY <3>1, <3>2
  <2>2. CASE KernelAccept(r)
    BY <2>2, IouAssumption DEF KernelAccept, FreeFds, IInv, TypeOK
  <2>3. CASE KernelRecv(r) \/ KernelSend(r) \/ KernelTimer(r)
    BY <2>3 DEF KernelRecv, KernelSend, KernelTimer
  <2> QED BY <1>1, <2>1, <2>2, <2>3 DEF KernelComplete
<1>2. CASE HandleAccept \/ HandleRecv \/ HandleSend \/ HandleClose
           \/ HandleTimer
  BY <1>2 DEF HandleAccept, HandleRecv, HandleSend, HandleClose, HandleTimer,
              Handle
<1>3. CASE \/ BlockSignals \/ SendSignal \/ DeliverSignal \/ LoopExit
           \/ EnterSubmit \/ EnterReturn \/ WakeOrSpin \/ FreeRing
           \/ KernelConsume \/ KernelIdle \/ CloseDone \/ UNCHANGED vars
  BY <1>3 DEF BlockSignals, SendSignal, DeliverSignal, LoopExit, EnterSubmit,
              EnterReturn, WakeOrSpin, FreeRing, KernelConsume, KernelIdle,
              CloseDone, vars
<1>4. ASSUME NEW c \in Clients, CloseOne(c) PROVE pc = "closing"
  BY <1>4 DEF CloseOne
<1>5. ASSUME NEW c \in Clients, ClientMove(c) PROVE FALSE
  BY <1>5 DEF ClientMove
<1> QED BY <1>1, <1>2, <1>3, <1>4, <1>5
        DEF Next, ServerStep, KernelStep, Terminating

\* No close the server submits ever reaches the connection of a client that
\* is still there, however descriptor numbers are reused.
THEOREM NoCloseUnderClient == SafeSpec => NoEarlyClose
<1>1. IInv /\ [Next]_vars
        => [\A n \in Fds : sock[n] \in Clients /\ sock'[n] # sock[n]
              => cpc[sock[n]] = "gone" \/ pc = "closing"]_vars
  BY SockStep
<1> QED BY <1>1, Invariance, PTL DEF SafeSpec, NoEarlyClose

\* The handlers count what they queue, and io_uring_enter takes that many.
LEMMA SubmitsAllStep ==
  IInv /\ SubmitsAll /\ [Next]_vars => SubmitsAll'
<1> SUFFICES ASSUME IInv, SubmitsAll, [Next]_vars, ~SqPoll PROVE SubmitsAll'
  BY DEF SubmitsAll
<1>1. sq \in Seq(Sqes) /\ Len(sq) \in Nat /\ toSubmit \in Nat
  BY DEF IInv, TypeOK, RingTypeOK
<1>2. CASE EnterSubmit
  <2>1. pc' = "wait" /\ sq' = SubSeq(sq, Taken + 1, Len(sq))
    BY <1>2 DEF EnterSubmit
  <2>2. Taken = Len(sq)
    BY <1>1, <1>2 DEF EnterSubmit, Taken, SubmitsAll
  <2>3. Len(sq') = 0
    BY <1>1, <2>1, <2>2
  <2>4. sq' \in Seq(Sqes)
    BY <1>1, <2>1, <2>2
  <2>5. sq' = <<>>
    BY <2>3, <2>4
  <2> QED BY <2>1, <2>5 DEF SubmitsAll
<1>3. CASE \/ BlockSignals \/ SendSignal \/ DeliverSignal \/ LoopExit
           \/ EnterReturn \/ WakeOrSpin \/ FreeRing
           \/ KernelConsume \/ KernelIdle \/ CloseDone \/ UNCHANGED vars
  BY <1>3 DEF BlockSignals, SendSignal, DeliverSignal, LoopExit, EnterReturn,
              WakeOrSpin, FreeRing, KernelConsume, KernelIdle, CloseDone,
              vars, ringVars, ctlVars, SubmitsAll
<1>4. ASSUME NEW r \in kern, KernelComplete(r) PROVE SubmitsAll'
  <2>1. UNCHANGED <<pc, sq, toSubmit>>
    BY <1>4 DEF KernelComplete, KernelAccept, KernelRecv, KernelSend,
                KernelClose, KernelTimer, Complete, ctlVars
  <2> QED BY <2>1 DEF SubmitsAll
<1>5. ASSUME NEW c \in Clients, CloseOne(c) \/ ClientMove(c)
      PROVE  SubmitsAll'
  BY <1>5 DEF CloseOne, ClientMove, ringVars, ctlVars, SubmitsAll
<1>6. ASSUME NEW k, Handle(k), NEW why, Abort(why) PROVE SubmitsAll'
  BY <1>6 DEF Abort, SubmitsAll
<1>7. CASE HandleAccept
  <2>1. CASE Abort("result") \/ Abort("sq_full")
    BY <1>6, <1>7, <2>1 DEF HandleAccept
  <2>2. CASE ~(Abort("result") \/ Abort("sq_full"))
    <3>1. PICK d, e : sq' = sq \o <<d, e>>
      BY <1>7, <2>2 DEF HandleAccept
    <3>2. toSubmit' = toSubmit + 2 /\ UNCHANGED pc
      BY <1>7, <2>2 DEF HandleAccept, Submitted
    <3>3. Len(sq') = Len(sq) + 2
      BY <1>1, <3>1
    <3> QED BY <1>1, <1>7, <3>2, <3>3 DEF HandleAccept, Handle, SubmitsAll
  <2> QED BY <2>1, <2>2
<1>8. CASE HandleRecv \/ HandleSend
  <2>1. CASE Abort("result") \/ Abort("sq_full")
    BY <1>6, <1>8, <2>1 DEF HandleRecv, HandleSend
  <2>2. CASE ~(Abort("result") \/ Abort("sq_full"))
    <3>1. PICK c, k : Resubmit(c, k)
      BY <1>8, <2>2 DEF HandleRecv, HandleSend
    <3>2. toSubmit' = toSubmit + 1 /\ UNCHANGED pc
      BY <3>1 DEF Resubmit, Submitted
    <3>3. Len(sq') = Len(sq) + 1
      BY <1>1, <3>1 DEF Resubmit
    <3> QED BY <1>1, <1>8, <3>2, <3>3
            DEF HandleRecv, HandleSend, Handle, SubmitsAll
  <2> QED BY <2>1, <2>2
<1>9. CASE HandleClose \/ HandleTimer
  BY <1>9 DEF HandleClose, HandleTimer, SubmitsAll
<1> QED BY <1>2, <1>3, <1>4, <1>5, <1>7, <1>8, <1>9
        DEF Next, ServerStep, KernelStep, Terminating

\* In the simple mode no request is left on the queue when the server sleeps:
\* io_events_to_submit counts what the handlers queued.
THEOREM NothingStranded == SafeSpec => []SubmitsAll
<1>1. Init => SubmitsAll
  BY DEF Init, SubmitsAll
<1>2. IInv /\ SubmitsAll /\ [Next]_vars => SubmitsAll'
  BY SubmitsAllStep
<1> QED BY <1>1, <1>2, Invariance, PTL DEF SafeSpec

-----------------------------------------------------------------------------
(***************************************************************************)
(* The capacity of the submission queue.                                   *)
(***************************************************************************)

\* A queue in which no object is twice is no longer than there are objects.
LEMMA QueueShort ==
  ASSUME NEW s, Len(s) \in Nat, NoRepeat(s),
         NEW T, IsFiniteSet(T), Ops(Elems(s)) \subseteq T
  PROVE  Len(s) <= Cardinality(T)
<1> DEFINE f == [i \in 1..Len(s) |-> s[i].op]
<1>1. \A i \in 1..Len(s) : s[i].op \in T
  BY DEF Ops, Elems, FirstOf
<1>2. f \in Injection(1..Len(s), T)
  <2>1. f \in [1..Len(s) -> T]
    BY <1>1
  <2>2. \A i, j \in 1..Len(s) : f[i] = f[j] => i = j
    BY DEF NoRepeat
  <2> QED BY <2>1, <2>2 DEF Injection, IsInjective
<1>3. Cardinality(1..Len(s)) <= Cardinality(T)
  BY <1>2, FS_Injection
<1>4. Cardinality(1..Len(s)) = Len(s)
  <2>1. 1 \in Int /\ Len(s) \in Int /\ Len(s) >= 0
    OBVIOUS
  <2>2. Cardinality(1..Len(s)) = IF 1 > Len(s) THEN 0 ELSE Len(s) - 1 + 1
    BY <2>1, FS_Interval, Zenon
  <2> QED BY <2>1, <2>2
<1> QED BY <1>3, <1>4

\* With finitely many clients there are finitely many objects.
LEMMA OpsFinite ==
  ASSUME IsFiniteSet(Clients)
  PROVE  IsFiniteSet(AllOps)
<1>1. IsFiniteSet(StackOps)
  <2>1. IsFiniteSet({AcceptOp}) /\ IsFiniteSet({AcceptOp} \cup {TimerOp})
    BY FS_Singleton, FS_AddElement
  <2>2. StackOps \in {{AcceptOp}, {AcceptOp} \cup {TimerOp}}
    BY DEF StackOps
  <2> QED BY <2>1, <2>2
<1> QED BY <1>1, FS_Union DEF AllOps

\* While a completion is handled, its object is not queued; and the client an
\* accept returned has no object yet.
LEMMA RoomForAll ==
  ASSUME IsFiniteSet(Clients), RingSize >= Cardinality(AllOps),
         IInv, NEW k, Handle(k)
  PROVE  /\ RoomFor(1)
         /\ k = "accept" /\ Event.res >= 0 => RoomFor(2)
<1>1. IsFiniteSet(AllOps)
  BY OpsFinite
<1>2. /\ RingUp /\ Event \in Done /\ Event.kind = k
      /\ Event.op \notin Ops(Queued) /\ KindOf(Event.op) = k
  BY PopStep
<1>3. /\ Len(sq) \in Nat /\ NoRepeat(sq) /\ RingSize \in Nat
      /\ Ops(Queued) \subseteq AllOps
      /\ Event.op \in AllOps
  <2>1. sq \in Seq(Sqes) /\ NoRepeat(sq)
    BY <1>2 DEF IInv, TypeOK, RingTypeOK, SingleOwner
  <2>2. Queued \subseteq Sqes
    BY <2>1, ElemsIn DEF Queued
  <2>3. Event \in Cqes
    BY PopStep
  <2> QED BY <2>1, <2>2, <2>3, IouAssumption DEF Ops, Sqes, Cqes
<1> DEFINE others == AllOps \ {Event.op}
<1>4. IsFiniteSet(others) /\ Cardinality(others) = Cardinality(AllOps) - 1
  BY <1>1, <1>3, FS_RemoveElement
<1>5. Cardinality(AllOps) \in Nat
  BY <1>1, FS_CardinalityType
<1>6. Ops(Queued) \subseteq others
  BY <1>2, <1>3
<1> HIDE DEF others
<1>7. RoomFor(1)
  <2>1. Len(sq) <= Cardinality(others)
    BY <1>3, <1>4, <1>6, QueueShort DEF Queued
  <2> QED BY <1>3, <1>4, <1>5, <2>1 DEF RoomFor
<1>8. ASSUME k = "accept", Event.res >= 0 PROVE RoomFor(2)
  <2> DEFINE c == sock[Event.res]
  <2>1. c \in Clients /\ c \notin Live
    BY <1>2, <1>8 DEF IInv, Arrivals, Live
  <2>2. Event.op = AcceptOp
    BY <1>2, <1>3, <1>8 DEF AllOps, StackOps, KindOf, IInv, TypeOK, OpTypeOK,
                            ConKinds
  <2>3. c \in others /\ c \notin Ops(Queued)
    BY <1>2, <2>1, <2>2, IouAssumption
       DEF others, AllOps, IInv, SingleOwner, Ops, InFlight
  <2>4. /\ IsFiniteSet(others \ {c})
        /\ Cardinality(others \ {c}) = Cardinality(others) - 1
    BY <1>4, <2>3, FS_RemoveElement
  <2>5. Ops(Queued) \subseteq others \ {c}
    BY <1>6, <2>3
  <2>6. Len(sq) <= Cardinality(others \ {c})
    BY <1>3, <2>4, <2>5, QueueShort DEF Queued
  <2> QED BY <1>3, <1>4, <1>5, <2>4, <2>6 DEF RoomFor
<1> QED BY <1>7, <1>8

\* No step fails for want of an entry.
LEMMA NeverRefused ==
  ASSUME IsFiniteSet(Clients), RingSize >= Cardinality(AllOps),
         IInv, cause # "sq_full", [Next]_vars
  PROVE  cause' # "sq_full"
<1>1. CASE HandleAccept
  <2>1. Handle("accept") /\ (Event.res >= 0 => RoomFor(2))
    BY <1>1, RoomForAll DEF HandleAccept
  <2> QED BY <1>1, <2>1 DEF HandleAccept, Abort
<1>2. CASE HandleRecv \/ HandleSend
  <2>1. RoomFor(1)
    BY <1>2, RoomForAll DEF HandleRecv, HandleSend
  <2>2. Abort("result") \/ UNCHANGED cause
    BY <1>2, <2>1 DEF HandleRecv, HandleSend, Resubmit
  <2> QED BY <2>2 DEF Abort
<1>3. CASE HandleClose \/ HandleTimer
  BY <1>3 DEF HandleClose, HandleTimer
<1>4. CASE \/ BlockSignals \/ SendSignal \/ DeliverSignal \/ LoopExit
           \/ EnterSubmit \/ EnterReturn \/ WakeOrSpin \/ FreeRing
           \/ KernelConsume \/ KernelIdle \/ CloseDone \/ UNCHANGED vars
  BY <1>4 DEF BlockSignals, SendSignal, DeliverSignal, LoopExit, EnterSubmit,
              EnterReturn, WakeOrSpin, FreeRing, KernelConsume, KernelIdle,
              CloseDone, vars, ctlVars
<1>5. ASSUME NEW r \in kern, KernelComplete(r) PROVE cause' # "sq_full"
  BY <1>5 DEF KernelComplete, KernelAccept, KernelRecv, KernelSend,
              KernelClose, KernelTimer, Complete, ctlVars
<1>6. ASSUME NEW c \in Clients, CloseOne(c) \/ ClientMove(c)
      PROVE  cause' # "sq_full"
  BY <1>6 DEF CloseOne, ClientMove, ctlVars
<1> QED BY <1>1, <1>2, <1>3, <1>4, <1>5, <1>6
        DEF Next, ServerStep, KernelStep, Terminating

\* Each completion is of another object, and there are no more than fit.
LEMMA CompletionsFit ==
  ASSUME IsFiniteSet(Clients), RingSize >= Cardinality(AllOps), IInv, RingUp
  PROVE  Len(cq) <= 2 * RingSize
<1>1. IsFiniteSet(AllOps) /\ Cardinality(AllOps) \in Nat
  BY OpsFinite, FS_CardinalityType
<1>2. cq \in Seq(Cqes) /\ NoRepeat(cq) /\ RingSize \in Nat
  BY IouAssumption DEF IInv, TypeOK, RingTypeOK, SingleOwner
<1>3. Ops(Elems(cq)) \subseteq AllOps
  <2>1. Elems(cq) \subseteq Cqes
    BY <1>2, ElemsIn
  <2> QED BY <2>1 DEF Ops, Cqes
<1>4. Len(cq) \in Nat /\ Len(cq) <= Cardinality(AllOps)
  BY <1>1, <1>2, <1>3, QueueShort
<1> QED BY <1>1, <1>2, <1>4

\* A ring with an entry for the accept, the timer and each connection is never
\* found full by a handler, nor its completion queue by a completion, in either
\* mode.
THEOREM RingNeverFull ==
  ASSUME IsFiniteSet(Clients), RingSize >= Cardinality(AllOps)
  PROVE  SafeSpec => []RingSuffices
<1> DEFINE Accepted == cause # "sq_full"
<1>1. Init => Accepted
  BY DEF Init
<1>2. IInv /\ Accepted /\ [Next]_vars => Accepted'
  BY NeverRefused
<1>3. IInv /\ Accepted => RingSuffices
  <2>1. IInv /\ RingUp => Len(cq) <= 2 * RingSize
    BY CompletionsFit
  <2> QED BY <2>1 DEF RingSuffices
<1> HIDE DEF Accepted
<1> QED BY <1>1, <1>2, <1>3, Invariance, PTL DEF SafeSpec

-----------------------------------------------------------------------------
(***************************************************************************)
(* The synchronous close of the cleanup, in the simple mode.               *)
(***************************************************************************)

NoCloseInFlight == \A e \in InFlight : e.kind # "close"

\* The signal ends the loop only where no close is under way, no new one is
\* submitted after it, and so the cleanup finds every descriptor open.
CleanStop ==
  /\ pc \in {"cleanup", "closing"} => ~running
  /\ RingUp /\ (~running \/ pc = "start") => NoCloseInFlight
  /\ pc = "closing" =>
       \A c \in tracked : fd[c] \in Fds /\ sock[fd[c]] = c
  /\ CloseNeverFails

\* The requests at the start are the accept and the timer.
LEMMA InitCleanStop == Init => CleanStop
<1> SUFFICES ASSUME Init PROVE CleanStop
  OBVIOUS
<1>1. \A e \in InFlight : e \in {AcceptSqe, TimerSqe}
  BY DEF Init, InFlight, Queued, Done, Elems, FirstOf
<1>2. NoCloseInFlight
  BY <1>1 DEF NoCloseInFlight, AcceptSqe, TimerSqe
<1> QED BY <1>2 DEF Init, CleanStop, CloseNeverFails

\* A completion is of the kind of the request it completes.
LEMMA CompleteKeepsKinds ==
  ASSUME IInv, NoCloseInFlight, NEW r \in kern, KernelComplete(r)
  PROVE  NoCloseInFlight'
<1>1. PICK res : /\ sq' = sq /\ kern' = kern \ {r}
                 /\ cq' = Append(cq, [op |-> r.op, kind |-> r.kind,
                                      res |-> res])
  BY DEF KernelComplete, KernelAccept, KernelRecv, KernelSend, KernelClose,
         KernelTimer, Complete
<1> DEFINE e == [op |-> r.op, kind |-> r.kind, res |-> res]
<1>2. cq \in Seq(Cqes)
  BY DEF IInv, TypeOK, RingTypeOK
<1>3. \A i \in 1..Len(cq') : cq'[i] \in Done \/ cq'[i] = e
  BY <1>1, <1>2 DEF Done, Elems, FirstOf
<1>4. e.kind # "close"
  BY DEF NoCloseInFlight, InFlight
<1> HIDE DEF e
<1>5. \A d \in Done' : d.kind # "close"
  BY <1>3, <1>4 DEF Done, Elems, FirstOf, NoCloseInFlight, InFlight
<1> QED BY <1>1, <1>5
        DEF NoCloseInFlight, InFlight, Queued, Elems, FirstOf

\* Each step keeps it; the signal that interrupts a wait finds the queues
\* empty and no close inside the kernel.
LEMMA CleanStopStep ==
  ASSUME ~SqPoll, IInv, SubmitsAll, CleanStop, [Next]_vars
  PROVE  CleanStop'
<1> USE DEF opVars, ringVars, ctlVars
<1>1. CASE DeliverSignal
  <2>1. UNCHANGED <<sq, kern, cq, tracked, fd, sock, cause>>
    BY <1>1 DEF DeliverSignal
  <2>2. pc \in {"start", "wait"}
    BY <1>1 DEF DeliverSignal, SignalOpen
  <2>3. NoCloseInFlight
    <3>1. CASE pc = "start"
      BY <3>1 DEF CleanStop, RingUp
    <3>2. CASE pc = "wait"
      <4>1. sq = <<>> /\ cq = <<>> /\ \A r \in kern : r.kind # "close"
        BY <1>1, <3>2
           DEF DeliverSignal, SignalOpen, Interruptible, SubmitsAll
      <4> QED BY <4>1
              DEF NoCloseInFlight, InFlight, Queued, Done, Elems, FirstOf
    <3> QED BY <2>2, <3>1, <3>2
  <2>4. NoCloseInFlight'
    BY <2>1, <2>3
       DEF NoCloseInFlight, InFlight, Queued, Done, Elems, FirstOf
  <2>5. pc' \in {"start", "loop"}
    BY <1>1, <2>2 DEF DeliverSignal
  <2> QED BY <2>1, <2>4, <2>5 DEF CleanStop, CloseNeverFails
<1>2. CASE BlockSignals \/ SendSignal \/ LoopExit \/ UNCHANGED vars
  <2>1. UNCHANGED <<running, sq, kern, cq, tracked, fd, sock, cause>>
    BY <1>2 DEF BlockSignals, SendSignal, LoopExit, vars
  <2>2. NoCloseInFlight' <=> NoCloseInFlight
    BY <2>1 DEF NoCloseInFlight, InFlight, Queued, Done, Elems, FirstOf
  <2>3. \/ pc' = pc
        \/ pc = "start" /\ pc' = "loop"
        \/ pc = "loop" /\ ~running /\ pc' = "cleanup"
    BY <1>2 DEF BlockSignals, SendSignal, LoopExit, vars
  <2> QED BY <2>1, <2>2, <2>3 DEF CleanStop, CloseNeverFails, RingUp
<1>3. CASE EnterSubmit \/ EnterReturn
  <2>1. UNCHANGED <<running, cause>> /\ pc' \in {"loop", "wait"}
    BY <1>3 DEF EnterSubmit, EnterReturn
  <2>2. CASE EnterSubmit
    BY <2>1, <2>2 DEF EnterSubmit, CleanStop, CloseNeverFails
  <2>3. CASE EnterReturn
    <3>1. UNCHANGED <<sq, kern, cq>> /\ pc = "wait"
      BY <2>3 DEF EnterReturn
    <3>2. NoCloseInFlight' <=> NoCloseInFlight
      BY <3>1 DEF NoCloseInFlight, InFlight, Queued, Done, Elems, FirstOf
    <3> QED BY <2>1, <3>1, <3>2 DEF CleanStop, CloseNeverFails, RingUp
  <2> QED BY <1>3, <2>2, <2>3
<1>4. CASE WakeOrSpin \/ KernelConsume \/ KernelIdle
  BY <1>4 DEF WakeOrSpin, KernelConsume, KernelIdle
<1>5. CASE HandleAccept \/ HandleRecv \/ HandleSend \/ HandleClose
           \/ HandleTimer
  <2>1. running' /\ pc' \in {"loop", "failed"} /\ cause' # "close"
    <3>1. PICK k : Handle(k)
      BY <1>5 DEF HandleAccept, HandleRecv, HandleSend, HandleClose,
                  HandleTimer
    <3>2. running' /\ pc = "loop" /\ cause # "close"
      BY <3>1 DEF Handle, CleanStop, CloseNeverFails
    <3>3. \/ UNCHANGED <<pc, cause>>
          \/ pc' = "failed" /\ cause' \in {"result", "sq_full"}
      BY <1>5 DEF HandleAccept, HandleRecv, HandleSend, HandleClose,
                  HandleTimer, Abort, Resubmit
    <3> QED BY <3>2, <3>3
  <2> QED BY <2>1 DEF CleanStop, CloseNeverFails, RingUp
<1>6. CASE FreeRing
  <2>1. NoCloseInFlight /\ ~running /\ RingUp
    BY <1>6 DEF FreeRing, CleanStop, RingUp
  <2>2. tracked = Live
    BY DEF IInv, SingleOwner
  <2>3. \A c \in tracked : fd[c] \in Fds /\ sock[fd[c]] = c
    BY <2>1, <2>2 DEF IInv, FdsOwned, NoCloseInFlight, InFlight
  <2>4. /\ pc' = "closing"
        /\ UNCHANGED <<running, cause, tracked, fd, sock>>
    BY <1>6 DEF FreeRing
  <2> QED BY <2>1, <2>3, <2>4 DEF CleanStop, CloseNeverFails, RingUp
<1>7. CASE CloseDone
  BY <1>7 DEF CloseDone, CleanStop, CloseNeverFails, RingUp
<1>8. ASSUME NEW c \in Clients, CloseOne(c) PROVE CleanStop'
  <2>1. /\ pc = "closing" /\ c \in tracked /\ tracked \subseteq Clients
        /\ \A d \in tracked : fd[d] \in Fds /\ sock[fd[d]] = d
    BY <1>8 DEF CloseOne, CleanStop, IInv, TypeOK, OpTypeOK
  <2>2. sock[fd[c]] # None
    BY <2>1, IouAssumption
  <2>3. /\ sock' = [sock EXCEPT ![fd[c]] = None]
        /\ tracked' = tracked \ {c}
        /\ UNCHANGED <<pc, running, cause, fd>>
    BY <1>8, <2>2 DEF CloseOne
  <2>4. \A d \in tracked' : fd'[d] \in Fds /\ sock'[fd'[d]] = d
    <3> SUFFICES ASSUME NEW d \in tracked' PROVE fd'[d] \in Fds
                                                /\ sock'[fd'[d]] = d
      OBVIOUS
    <3>1. d \in tracked /\ d # c
      BY <2>3
    <3>2. fd[d] # fd[c]
      BY <2>1, <3>1
    <3> QED BY <2>1, <2>3, <3>1, <3>2 DEF IInv, TypeOK
  <2> QED BY <2>1, <2>3, <2>4 DEF CleanStop, CloseNeverFails, RingUp
<1>9. ASSUME NEW r \in kern, KernelComplete(r) PROVE CleanStop'
  <2>1. RingUp /\ UNCHANGED <<pc, running, cause>>
    BY <1>9 DEF KernelComplete, KernelAccept, KernelRecv, KernelSend,
                KernelClose, KernelTimer, Complete
  <2>2. NoCloseInFlight => NoCloseInFlight'
    BY <1>9, CompleteKeepsKinds
  <2> QED BY <2>1, <2>2 DEF CleanStop, CloseNeverFails, RingUp
<1>10. ASSUME NEW c \in Clients, ClientMove(c) PROVE CleanStop'
  <2>1. UNCHANGED <<pc, running, cause, sq, kern, cq, tracked, fd, sock>>
    BY <1>10 DEF ClientMove
  <2>2. NoCloseInFlight' <=> NoCloseInFlight
    BY <2>1 DEF NoCloseInFlight, InFlight, Queued, Done, Elems, FirstOf
  <2> QED BY <2>1, <2>2 DEF CleanStop, CloseNeverFails, RingUp
<1> QED BY <1>1, <1>2, <1>3, <1>4, <1>5, <1>6, <1>7, <1>8, <1>9, <1>10
        DEF Next, ServerStep, KernelStep, Terminating

\* In the simple mode the assertion on close in do_service_loop_cleanup never
\* fails. (In SQPOLL mode it can.)
THEOREM CleanupCloses ==
  ASSUME ~SqPoll
  PROVE  SafeSpec => []CloseNeverFails
<1>1. Init => CleanStop
  BY InitCleanStop
<1>2. IInv /\ SubmitsAll /\ CleanStop /\ [Next]_vars => CleanStop'
  BY CleanStopStep
<1>3. CleanStop => CloseNeverFails
  BY DEF CleanStop
<1> QED BY <1>1, <1>2, <1>3, Invariance, NothingStranded, PTL DEF SafeSpec

-----------------------------------------------------------------------------
(***************************************************************************)
(* No connection leaks, in either mode.                                    *)
(***************************************************************************)

\* A completion adds one entry to the completion queue and touches no object.
LEMMA CompletionAdds ==
  ASSUME IInv, NEW r \in kern, KernelComplete(r)
  PROVE  \E res \in Int :
           /\ Complete(r, res) /\ RingUp
           /\ Done' = Done \cup {[op |-> r.op, kind |-> r.kind, res |-> res]}
           /\ UNCHANGED <<pc, heap, fd>>
           /\ \/ UNCHANGED sock /\ r.kind # "close"
              \/ /\ r.kind = "accept" /\ res \in Fds
                 /\ \E c \in Clients : sock' = [sock EXCEPT ![res] = c]
              \/ r.kind = "close" /\ sock' = [sock EXCEPT ![r.fd] = None]
<1>1. PICK res \in Int :
        /\ Complete(r, res)
        /\ \/ UNCHANGED sock /\ r.kind # "close"
           \/ /\ r.kind = "accept" /\ res \in Fds
              /\ \E c \in Clients : sock' = [sock EXCEPT ![res] = c]
           \/ r.kind = "close" /\ sock' = [sock EXCEPT ![r.fd] = None]
  <2>1. CASE KernelAccept(r)
    BY <2>1, IouAssumption
       DEF KernelAccept, FreeFds, IInv, TypeOK, ClientTypeOK
  <2>2. CASE KernelRecv(r)
    <3>1. PICK c : c = sock[r.fd]
      OBVIOUS
    <3>2. PICK res \in RecvResults(c) : Complete(r, res)
      BY <2>2, <3>1 DEF KernelRecv
    <3>3. r.kind = "recv" /\ r.kind \in ConKinds /\ RingUp
      BY <2>2 DEF KernelRecv, ConKinds, KernelComplete
    <3>4. c \in Clients
      BY <3>1, <3>3, ConRequest
    <3>5. res \in Int
      BY <3>2, <3>4, RecvResultsFacts DEF IInv, TypeOK, EchoInOrder
    <3> QED BY <2>2, <3>2, <3>5 DEF KernelRecv
  <2>3. CASE KernelSend(r)
    <3>1. PICK c : c = sock[r.fd]
      OBVIOUS
    <3>2. PICK res \in SendResults(c) : Complete(r, res)
      BY <2>3, <3>1 DEF KernelSend
    <3>3. res \in Int
      BY <3>2, ClientsAssumption DEF SendResults
    <3> QED BY <2>3, <3>2, <3>3 DEF KernelSend
  <2>4. CASE KernelClose(r)
    BY <2>4 DEF KernelClose
  <2>5. CASE KernelTimer(r)
    <3>1. -ETIME \in Int
      BY DEF ETIME
    <3> QED BY <2>5, <3>1 DEF KernelTimer
  <2> QED BY <2>1, <2>2, <2>3, <2>4, <2>5 DEF KernelComplete
<1>2. RingUp /\ UNCHANGED <<kind, fd, busy, heap, tracked>>
  BY DEF KernelComplete, KernelAccept, KernelRecv, KernelSend, KernelClose,
         KernelTimer, opVars
<1>3. PICK e : e = [op |-> r.op, kind |-> r.kind, res |-> res]
  OBVIOUS
<1>4. Done' = Done \cup {e}
  BY <1>1, <1>2, <1>3, CompleteStep
<1>5. UNCHANGED pc
  BY <1>1 DEF Complete, ctlVars
<1> QED BY <1>1, <1>2, <1>3, <1>4, <1>5

\* A step that takes no completion and frees nothing.
LEMMA OwnedQuiet ==
  ASSUME SocketsOwned, UNCHANGED <<cq, heap, fd, sock>>, RingUp' => RingUp,
         pc' = "closing" => pc = "closing", pc' = "exited" => pc = "exited"
  PROVE  SocketsOwned'
<1>1. Done' = Done
  BY DEF Done, Elems, FirstOf
<1> QED BY <1>1 DEF SocketsOwned

\* A handler that neither opens nor closes, its object stays as it is.
LEMMA OwnedPop ==
  ASSUME IInv, SocketsOwned, NEW k \in {"recv", "send", "timer"}, Handle(k),
         UNCHANGED <<pc, heap, fd>>
  PROVE  SocketsOwned'
<1>1. /\ RingUp /\ Event.kind = k /\ Done = Done' \cup {Event} /\ sock' = sock
  BY PopStep
<1>2. RingUp' /\ pc' # "closing" /\ pc' # "exited"
  BY <1>1 DEF RingUp
<1>3. \A e \in Done : e.kind = "accept" => e \in Done'
  BY <1>1
<1> QED BY <1>1, <1>2, <1>3 DEF SocketsOwned

\* A failed assertion leaves nothing to say.
LEMMA OwnedAbort ==
  ASSUME NEW why, Abort(why)
  PROVE  SocketsOwned'
  BY DEF Abort, SocketsOwned, RingUp

\* The handler of an accept gives the descriptor to the new object.
LEMMA OwnedAccept ==
  ASSUME IInv, SocketsOwned, HandleAccept
  PROVE  SocketsOwned'
<1>1. Handle("accept")
  BY DEF HandleAccept
<1>2. CASE Abort("result") \/ Abort("sq_full")
  BY <1>2, OwnedAbort
<1>3. CASE ~(Abort("result") \/ Abort("sq_full"))
  <2>1. PICK c : c = sock[Event.res]
    OBVIOUS
  <2>2. /\ Event.res >= 0 /\ UNCHANGED pc
        /\ heap' = [heap EXCEPT ![c] = "live"]
        /\ fd' = [fd EXCEPT ![c] = Event.res]
    BY <1>3, <2>1 DEF HandleAccept, NewClient
  <2>3. /\ RingUp /\ Event \in Done /\ Event.kind = "accept"
        /\ Done = Done' \cup {Event} /\ sock' = sock
    BY <1>1, PopStep
  <2>4. c \in Clients /\ heap[c] = "unallocated"
    BY <2>1, <2>2, <2>3 DEF IInv, Arrivals
  <2>5. heap'[c] = "live" /\ fd'[c] = Event.res
        /\ \A d \in Clients : d # c => heap'[d] = heap[d] /\ fd'[d] = fd[d]
    BY <2>2, <2>4 DEF IInv, TypeOK, OpTypeOK
  <2>6. \A e \in Done : e.op # c
    <3>1. c \notin Live /\ c # AcceptOp /\ c # TimerOp
      BY <2>4, IouAssumption DEF Live
    <3> QED BY <2>3, <3>1 DEF IInv, SingleOwner, InFlight, Ops
  <2>7. ASSUME NEW n \in Fds, sock[n] \in Clients
        PROVE  \/ \E e \in Done' : e.kind = "accept" /\ e.res = n
               \/ /\ heap'[sock[n]] = "live" /\ fd'[sock[n]] = n
                  /\ ~ \E e \in Done' : e.kind = "close" /\ e.op = sock[n]
    <3>1. CASE n = Event.res
      BY <2>1, <2>3, <2>5, <2>6, <3>1
    <3>2. CASE \E e \in Done : e.kind = "accept" /\ e.res = n /\ e # Event
      BY <2>3, <3>2
    <3>3. CASE /\ heap[sock[n]] = "live" /\ fd[sock[n]] = n
               /\ ~ \E e \in Done : e.kind = "close" /\ e.op = sock[n]
      BY <2>3, <2>4, <2>5, <2>7, <3>3
    <3> QED BY <2>3, <2>7, <3>1, <3>2, <3>3 DEF SocketsOwned
  <2>8. RingUp' /\ pc' # "closing" /\ pc' # "exited"
    BY <2>2, <2>3 DEF RingUp
  <2> QED BY <2>3, <2>7, <2>8 DEF SocketsOwned
<1> QED BY <1>2, <1>3

\* The handler of a close frees an object whose descriptor is closed.
LEMMA OwnedClose ==
  ASSUME IInv, SocketsOwned, HandleClose
  PROVE  SocketsOwned'
<1>1. Handle("close") /\ UNCHANGED pc
  BY DEF HandleClose
<1>2. PICK c \in Clients : c = Event.op
  BY <1>1, PopStep DEF ConKinds
<1>3. /\ RingUp /\ Event \in Done /\ Event.kind = "close"
      /\ Done = Done' \cup {Event} /\ sock' = sock
  BY <1>1, PopStep
<1>4. \A d \in Clients : d # c => heap'[d] = heap[d] /\ fd'[d] = fd[d]
  BY <1>2 DEF HandleClose, ClosingClient, IInv, TypeOK, OpTypeOK
<1>5. ASSUME NEW n \in Fds, sock[n] \in Clients
      PROVE  \/ \E e \in Done' : e.kind = "accept" /\ e.res = n
             \/ /\ heap'[sock[n]] = "live" /\ fd'[sock[n]] = n
                /\ ~ \E e \in Done' : e.kind = "close" /\ e.op = sock[n]
  <2>1. CASE \E e \in Done : e.kind = "accept" /\ e.res = n
    BY <1>3, <2>1
  <2>2. CASE /\ heap[sock[n]] = "live" /\ fd[sock[n]] = n
             /\ ~ \E e \in Done : e.kind = "close" /\ e.op = sock[n]
    BY <1>2, <1>3, <1>4, <1>5, <2>2
  <2> QED BY <1>3, <1>5, <2>1, <2>2 DEF SocketsOwned
<1>6. RingUp' /\ pc' # "closing" /\ pc' # "exited"
  BY <1>1, <1>3 DEF RingUp
<1> QED BY <1>3, <1>5, <1>6 DEF SocketsOwned

\* Inside the kernel: an accept is announced with its descriptor, a close with
\* the object whose descriptor it closed.
LEMMA OwnedKernel ==
  ASSUME IInv, SocketsOwned, NEW r \in kern, KernelComplete(r)
  PROVE  SocketsOwned'
<1>1. PICK res \in Int :
        /\ RingUp
        /\ Done' = Done \cup {[op |-> r.op, kind |-> r.kind, res |-> res]}
        /\ UNCHANGED <<pc, heap, fd>>
        /\ \/ UNCHANGED sock /\ r.kind # "close"
           \/ /\ r.kind = "accept" /\ res \in Fds
              /\ \E c \in Clients : sock' = [sock EXCEPT ![res] = c]
           \/ r.kind = "close" /\ sock' = [sock EXCEPT ![r.fd] = None]
  BY CompletionAdds
<1>2. PICK e : e = [op |-> r.op, kind |-> r.kind, res |-> res]
  OBVIOUS
<1>3. /\ Done' = Done \cup {e}
      /\ e.op = r.op /\ e.kind = r.kind /\ e.res = res
  BY <1>1, <1>2
<1>4. sock \in [Fds -> Clients \cup {None}] /\ None \notin Clients
  BY IouAssumption DEF IInv, TypeOK
<1>5. RingUp' /\ pc' # "closing" /\ pc' # "exited"
  BY <1>1 DEF RingUp
<1>6. SUFFICES ASSUME NEW n \in Fds, sock'[n] \in Clients
               PROVE  \/ \E d \in Done' : d.kind = "accept" /\ d.res = n
                      \/ /\ heap[sock'[n]] = "live" /\ fd[sock'[n]] = n
                         /\ ~ \E d \in Done' : d.kind = "close"
                                               /\ d.op = sock'[n]
  BY <1>1, <1>5 DEF SocketsOwned
<1>7. ASSUME sock'[n] = sock[n]
      PROVE  \/ \E d \in Done : d.kind = "accept" /\ d.res = n
             \/ /\ heap[sock'[n]] = "live" /\ fd[sock'[n]] = n
                /\ ~ \E d \in Done : d.kind = "close" /\ d.op = sock'[n]
  BY <1>1, <1>6, <1>7 DEF SocketsOwned
<1>8. CASE UNCHANGED sock /\ r.kind # "close"
  BY <1>3, <1>7, <1>8
<1>9. CASE /\ r.kind = "accept" /\ res \in Fds
           /\ \E c \in Clients : sock' = [sock EXCEPT ![res] = c]
  <2>1. CASE n = res
    BY <1>3, <1>9, <2>1
  <2>2. CASE n # res
    <3>1. sock'[n] = sock[n]
      BY <1>4, <1>9, <2>2
    <3> QED BY <1>3, <1>7, <1>9, <3>1
  <2> QED BY <2>1, <2>2
<1>10. CASE r.kind = "close" /\ sock' = [sock EXCEPT ![r.fd] = None]
  <2>1. n # r.fd /\ sock'[n] = sock[n]
    BY <1>4, <1>6, <1>10
  <2>2. r.fd = fd[r.op]
    BY <1>1, <1>10, ConRequest DEF ConKinds
  <2> QED BY <1>3, <1>7, <2>1, <2>2
<1> QED BY <1>1, <1>8, <1>9, <1>10

\* iou_free drops the completions: what an accept returned has no object.
LEMMA OwnedFree ==
  ASSUME IInv, SocketsOwned, FreeRing
  PROVE  SocketsOwned'
<1>1. /\ RingUp /\ pc' = "closing" /\ ~ RingUp'
      /\ UNCHANGED <<heap, fd, sock>>
  BY DEF FreeRing, RingUp, opVars
<1>2. ASSUME NEW n \in Fds, sock[n] \in Clients,
             NEW e \in Done, e.kind = "accept", e.res = n
      PROVE  heap[sock[n]] = "unallocated"
  <2>1. e.res >= 0
    BY <1>2, IouAssumption
  <2> QED BY <1>1, <1>2, <2>1 DEF IInv, Arrivals
<1> QED BY <1>1, <1>2 DEF SocketsOwned

\* The cleanup closes the descriptor of the object it frees.
LEMMA OwnedCloseOne ==
  ASSUME IInv, SocketsOwned, NEW c \in Clients, CloseOne(c)
  PROVE  SocketsOwned'
<1>1. pc = "closing" /\ c \in tracked
  BY DEF CloseOne
<1>2. CASE sock[fd[c]] = None
  BY <1>2 DEF CloseOne, SocketsOwned, RingUp
<1>3. CASE sock[fd[c]] # None
  <2>1. /\ sock' = [sock EXCEPT ![fd[c]] = None]
        /\ heap' = [heap EXCEPT ![c] = "freed"] /\ UNCHANGED <<pc, fd>>
    BY <1>3 DEF CloseOne
  <2>2. /\ sock \in [Fds -> Clients \cup {None}] /\ None \notin Clients
        /\ heap[c] = "live"
        /\ heap \in [Clients -> {"unallocated", "live", "freed"}]
    BY <1>1, IouAssumption DEF IInv, TypeOK, OpTypeOK, SingleOwner, Live
  <2>3. ASSUME NEW n \in Fds, sock'[n] \in Clients
        PROVE  \/ heap'[sock'[n]] = "unallocated"
               \/ heap'[sock'[n]] = "live" /\ fd'[sock'[n]] = n
    <3>1. sock'[n] = sock[n] /\ fd[c] # n
      BY <2>1, <2>2, <2>3
    <3>2. \/ heap[sock[n]] = "unallocated"
          \/ heap[sock[n]] = "live" /\ fd[sock[n]] = n
      BY <1>1, <2>3, <3>1 DEF SocketsOwned
    <3>3. sock[n] # c
      BY <2>2, <3>1, <3>2
    <3> QED BY <2>1, <2>2, <2>3, <3>1, <3>2, <3>3
  <2>4. pc' = "closing" /\ ~ RingUp'
    BY <1>1, <2>1 DEF RingUp
  <2> QED BY <2>3, <2>4 DEF SocketsOwned
<1> QED BY <1>2, <1>3

\* Every step, whoever takes it.
LEMMA OwnedStep == IInv /\ SocketsOwned /\ [Next]_vars => SocketsOwned'
<1> SUFFICES ASSUME IInv, SocketsOwned, [Next]_vars PROVE SocketsOwned'
  OBVIOUS
<1>1. CASE \/ BlockSignals \/ SendSignal \/ DeliverSignal \/ LoopExit
           \/ EnterSubmit \/ EnterReturn \/ WakeOrSpin
           \/ KernelConsume \/ KernelIdle \/ UNCHANGED vars
  <2>1. /\ UNCHANGED <<cq, heap, fd, sock>> /\ (RingUp' => RingUp)
        /\ (pc' = "closing" => pc = "closing")
        /\ (pc' = "exited" => pc = "exited")
    BY <1>1 DEF BlockSignals, SendSignal, DeliverSignal, LoopExit, EnterSubmit,
                EnterReturn, WakeOrSpin, KernelConsume, KernelIdle, vars,
                ctlVars, ringVars, opVars, RingUp
  <2> QED BY <2>1, OwnedQuiet
<1>2. ASSUME NEW c \in Clients, ClientMove(c) PROVE SocketsOwned'
  <2>1. UNCHANGED <<pc, cq, heap, fd, sock>>
    BY <1>2 DEF ClientMove, ctlVars, ringVars, opVars
  <2> QED BY <2>1, OwnedQuiet DEF RingUp
<1>3. ASSUME NEW c \in Clients, CloseOne(c) PROVE SocketsOwned'
  BY <1>3, OwnedCloseOne
<1>4. ASSUME NEW r \in kern, KernelComplete(r) PROVE SocketsOwned'
  BY <1>4, OwnedKernel
<1>5. CASE CloseDone
  <2>1. pc = "closing" /\ pc' = "exited" /\ UNCHANGED <<heap, fd, sock>>
        /\ \A c \in Clients : heap[c] # "live"
    BY <1>5 DEF CloseDone, opVars, IInv, SingleOwner, Live
  <2> QED BY <2>1 DEF SocketsOwned, RingUp
<1>6. CASE HandleRecv \/ HandleSend \/ HandleTimer
  <2>1. CASE Abort("result") \/ Abort("sq_full")
    BY <2>1, OwnedAbort
  <2>2. CASE ~(Abort("result") \/ Abort("sq_full"))
    <3>1. UNCHANGED <<pc, heap, fd>>
      BY <1>6, <2>2 DEF HandleRecv, HandleSend, HandleTimer, Resubmit, opVars
    <3>2. PICK k \in {"recv", "send", "timer"} : Handle(k)
      BY <1>6 DEF HandleRecv, HandleSend, HandleTimer
    <3> QED BY <3>1, <3>2, OwnedPop
  <2> QED BY <2>1, <2>2
<1> QED BY <1>1, <1>2, <1>3, <1>4, <1>5, <1>6, OwnedAccept, OwnedClose,
           OwnedFree
        DEF Next, ServerStep, KernelStep, Terminating

\* No connection is lost track of: each that is open waits in an accept or is
\* the one its object carries, and the cleanup leaves open only those that an
\* accept had returned and no handler had seen.
THEOREM NoConnectionLeaks == SafeSpec => []SocketsOwned
<1>1. Init => SocketsOwned
  BY IouAssumption DEF Init, SocketsOwned
<1>2. IInv /\ SocketsOwned /\ [Next]_vars => SocketsOwned'
  BY OwnedStep
<1> QED BY <1>1, <1>2, Invariance, PTL DEF SafeSpec

-----------------------------------------------------------------------------
(***************************************************************************)
(* The server uses the tracker of its allocations as it is meant: every    *)
(* step maps to a step of TrackedOps or to none.                           *)
(***************************************************************************)

\* The initial states correspond.
LEMMA InitTracks == Init => Tracker!Init
  BY DEF Init, Tracker!Init, TrackerPhase, RingUp

\* A step that keeps the list and the phase does not show.
LEMMA TrackStutter ==
  ASSUME UNCHANGED tracked, TrackerPhase' = TrackerPhase
  PROVE  UNCHANGED Tracker!vars
  BY DEF Tracker!vars

\* Nor does the assertion of a handler: the process dies with its list.
LEMMA TrackAbort ==
  ASSUME IInv, NEW k, Handle(k), Abort("result") \/ Abort("sq_full")
  PROVE  UNCHANGED Tracker!vars
<1>1. RingUp /\ pc' = "failed" /\ cause' # "close" /\ UNCHANGED tracked
  BY HandleQuiet DEF Abort, opVars
<1> QED BY <1>1, TrackStutter DEF TrackerPhase

\* Neither do the steps of the loop, of the kernel and of the clients, as long
\* as they stay in the loop or out of it.
LEMMA TrackQuiet ==
  ASSUME UNCHANGED <<tracked, cause>>, (RingUp /\ RingUp') \/ UNCHANGED pc
  PROVE  UNCHANGED Tracker!vars
<1>1. TrackerPhase' = TrackerPhase
  BY DEF TrackerPhase, RingUp
<1> QED BY <1>1, TrackStutter

\* handle_new_client adds an object that is not on the list.
LEMMA AcceptTracks ==
  ASSUME IInv, HandleAccept
  PROVE  [Tracker!Next]_Tracker!vars
<1>1. Handle("accept")
  BY DEF HandleAccept
<1>2. CASE Abort("result") \/ Abort("sq_full")
  BY <1>1, <1>2, TrackAbort
<1>3. CASE ~(Abort("result") \/ Abort("sq_full"))
  <2>1. PICK c : c = sock[Event.res]
    OBVIOUS
  <2>2. /\ Event.res >= 0 /\ UNCHANGED <<pc, cause>>
        /\ tracked' = tracked \cup {c}
    BY <1>3, <2>1 DEF HandleAccept, NewClient
  <2>3. RingUp /\ Event \in Done /\ Event.kind = "accept"
    BY <1>1, PopStep
  <2>4. c \in Clients /\ c \notin tracked
    BY <2>1, <2>2, <2>3 DEF IInv, Arrivals, SingleOwner, Live
  <2>5. TrackerPhase = "serving" /\ TrackerPhase' = TrackerPhase
    BY <2>2, <2>3 DEF TrackerPhase, RingUp
  <2>6. Tracker!Track(c)
    BY <2>2, <2>4, <2>5 DEF Tracker!Track
  <2> QED BY <2>4, <2>6 DEF Tracker!Next
<1> QED BY <1>2, <1>3

\* handle_closing_client takes one off that is on it.
LEMMA CloseTracks ==
  ASSUME IInv, HandleClose
  PROVE  [Tracker!Next]_Tracker!vars
<1>1. Handle("close") /\ UNCHANGED <<pc, cause>>
  BY DEF HandleClose
<1>2. PICK c \in Clients : c = Event.op
  BY <1>1, PopStep DEF ConKinds
<1>3. RingUp /\ c \in tracked
  BY <1>1, <1>2, PopStep DEF ConKinds, IInv, SingleOwner
<1>4. tracked' = tracked \ {c}
  BY <1>2 DEF HandleClose, ClosingClient
<1>5. TrackerPhase = "serving" /\ TrackerPhase' = TrackerPhase
  BY <1>1, <1>3 DEF TrackerPhase, RingUp
<1>6. Tracker!Forget(c)
  BY <1>3, <1>4, <1>5 DEF Tracker!Forget
<1> QED BY <1>6 DEF Tracker!Next

\* recv, send and timer leave the list alone.
LEMMA ResubmitTracks ==
  ASSUME IInv, HandleRecv \/ HandleSend \/ HandleTimer
  PROVE  UNCHANGED Tracker!vars
<1>1. PICK k : Handle(k)
  BY DEF HandleRecv, HandleSend, HandleTimer
<1>2. CASE Abort("result") \/ Abort("sq_full")
  BY <1>1, <1>2, TrackAbort
<1>3. CASE ~(Abort("result") \/ Abort("sq_full"))
  <2>1. UNCHANGED <<tracked, cause, pc>>
    BY <1>3 DEF HandleRecv, HandleSend, HandleTimer, Resubmit, opVars
  <2> QED BY <2>1, TrackQuiet
<1> QED BY <1>2, <1>3

\* The cleanup: iou_free is Stop, a close that succeeds Release, one that
\* fails Fail, and the end of the walk Exit.
LEMMA CleanupTracks ==
  ASSUME IInv, FreeRing \/ CloseDone \/ \E c \in Clients : CloseOne(c)
  PROVE  [Tracker!Next]_Tracker!vars
<1>1. CASE FreeRing
  <2>1. RingUp /\ pc' = "closing" /\ UNCHANGED tracked
    BY <1>1 DEF FreeRing, RingUp, opVars
  <2>2. Tracker!Stop
    BY <2>1 DEF Tracker!Stop, TrackerPhase, RingUp
  <2> QED BY <2>2 DEF Tracker!Next
<1>2. CASE CloseDone
  <2>1. Tracker!Exit
    BY <1>2 DEF CloseDone, opVars, Tracker!Exit, TrackerPhase, RingUp
  <2> QED BY <2>1 DEF Tracker!Next
<1>3. ASSUME NEW c \in Clients, CloseOne(c)
      PROVE  [Tracker!Next]_Tracker!vars
  <2>1. pc = "closing" /\ c \in tracked /\ TrackerPhase = "closing"
    BY <1>3 DEF CloseOne, TrackerPhase, RingUp
  <2>2. CASE sock[fd[c]] = None
    <3>1. pc' = "failed" /\ cause' = "close" /\ UNCHANGED tracked
      BY <1>3, <2>2 DEF CloseOne, opVars
    <3>2. Tracker!Fail
      BY <2>1, <3>1 DEF Tracker!Fail, TrackerPhase, RingUp
    <3> QED BY <3>2 DEF Tracker!Next
  <2>3. CASE sock[fd[c]] # None
    <3>1. tracked' = tracked \ {c} /\ UNCHANGED pc
      BY <1>3, <2>3 DEF CloseOne
    <3>2. Tracker!Release(c)
      BY <2>1, <3>1 DEF Tracker!Release, TrackerPhase, RingUp
    <3> QED BY <3>2 DEF Tracker!Next
  <2> QED BY <2>2, <2>3
<1> QED BY <1>1, <1>2, <1>3

\* Every step maps to a step of the tracker or to none.
LEMMA NextTracks == IInv /\ [Next]_vars => [Tracker!Next]_Tracker!vars
<1> SUFFICES ASSUME IInv, [Next]_vars PROVE [Tracker!Next]_Tracker!vars
  OBVIOUS
<1>1. CASE \/ BlockSignals \/ SendSignal \/ DeliverSignal \/ LoopExit
           \/ EnterSubmit \/ EnterReturn \/ WakeOrSpin
           \/ KernelConsume \/ KernelIdle \/ UNCHANGED vars
           \/ \E c \in Clients : ClientMove(c)
  <2>1. UNCHANGED <<tracked, cause>>
    BY <1>1 DEF BlockSignals, SendSignal, DeliverSignal, LoopExit, EnterSubmit,
                EnterReturn, WakeOrSpin, KernelConsume, KernelIdle, ClientMove,
                vars, ctlVars, opVars
  <2>2. (RingUp /\ RingUp') \/ UNCHANGED pc
    BY <1>1 DEF BlockSignals, SendSignal, DeliverSignal, LoopExit, EnterSubmit,
                EnterReturn, WakeOrSpin, KernelConsume, KernelIdle, ClientMove,
                vars, ctlVars, RingUp
  <2> QED BY <2>1, <2>2, TrackQuiet
<1>2. ASSUME NEW r \in kern, KernelComplete(r)
      PROVE  UNCHANGED Tracker!vars
  <2>1. UNCHANGED <<tracked, cause, pc>>
    BY <1>2 DEF KernelComplete, KernelAccept, KernelRecv, KernelSend,
                KernelClose, KernelTimer, Complete, ctlVars, opVars
  <2> QED BY <2>1, TrackQuiet
<1> QED BY <1>1, <1>2, AcceptTracks, CloseTracks, ResubmitTracks, CleanupTracks
        DEF Next, ServerStep, KernelStep, Terminating

\* The calls are in order: an accept that makes an object finds it off the
\* list, the handler of a close finds its object on it.
LEMMA CallsInOrder ==
  ASSUME IInv
  PROVE  /\ HandleAccept /\ heap' # heap => sock[Event.res] \notin tracked
         /\ HandleClose => Event.op \in tracked
<1>1. ASSUME HandleAccept, heap' # heap
      PROVE  sock[Event.res] \notin tracked
  <2>1. Handle("accept") /\ Event.res >= 0
    BY <1>1 DEF HandleAccept, Abort, opVars
  <2>2. RingUp /\ Event \in Done /\ Event.kind = "accept"
    BY <2>1, PopStep
  <2> QED BY <2>1, <2>2 DEF IInv, Arrivals, SingleOwner, Live
<1>2. ASSUME HandleClose PROVE Event.op \in tracked
  <2>1. Handle("close")
    BY <1>2 DEF HandleClose
  <2> QED BY <2>1, PopStep DEF ConKinds, IInv, SingleOwner
<1> QED BY <1>1, <1>2

\* The server never adds an object that is on the list of its allocations nor
\* takes off one that is not, and leaves the list alone while the cleanup walks
\* it: what MemTracker is proved to do for such a caller, it does for this one.
THEOREM UsesTheTracker == SafeSpec => UsesTracker
<1> DEFINE Calls ==
      /\ HandleAccept /\ heap' # heap => sock[Event.res] \notin tracked
      /\ HandleClose => Event.op \in tracked
<1>1. Init => Tracker!Init
  BY InitTracks
<1>2. IInv /\ [Next]_vars => [Tracker!Next]_Tracker!vars
  BY NextTracks
<1>3. IInv => Calls
  BY CallsInOrder
<1>4. IInv => [Calls]_vars
  BY <1>3
<1> HIDE DEF Calls
<1>5. SafeSpec => [][Calls]_vars
  BY <1>4, Invariance, PTL DEF SafeSpec
<1>6. SafeSpec => Tracker!SafeSpec
  BY <1>1, <1>2, Invariance, PTL DEF SafeSpec, Tracker!SafeSpec
<1> QED BY <1>5, <1>6 DEF UsesTracker, Calls

=============================================================================
