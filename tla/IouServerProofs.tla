--------------------------- MODULE IouServerProofs ---------------------------
(***************************************************************************)
(* Proofs about IouServer, for any number of clients, any ring size of at  *)
(* least two, both modes of the ring and every fault of EchoClients.       *)
(***************************************************************************)
EXTENDS IouServer, TLAPS

-----------------------------------------------------------------------------
(***************************************************************************)
(* Queues seen as the sets of their entries.                               *)
(***************************************************************************)

\* An entry put at the back is the only new one.
LEMMA ElemsAppend ==
  ASSUME NEW S, NEW s \in Seq(S), NEW e \in S
  PROVE  /\ Append(s, e) \in Seq(S)
         /\ Len(Append(s, e)) = Len(s) + 1
         /\ Elems(Append(s, e)) = Elems(s) \cup {e}
  BY DEF Elems, FirstOf

\* A new entry of another object keeps the owners distinct.
LEMMA NoRepeatAppend ==
  ASSUME NEW S, NEW s \in Seq(S), NEW e \in S,
         NoRepeat(s), e.op \notin Ops(Elems(s))
  PROVE  NoRepeat(Append(s, e))
  BY DEF Elems, FirstOf, Ops, NoRepeat

\* The entries of a queue are of its type.
LEMMA ElemsIn ==
  ASSUME NEW S, NEW s \in Seq(S)
  PROVE  Elems(s) \subseteq S
  BY DEF Elems, FirstOf

\* The accept handler puts two entries at the back.
LEMMA ElemsAppendTwo ==
  ASSUME NEW S, NEW s \in Seq(S), NEW d \in S, NEW e \in S,
         NoRepeat(s), d.op # e.op,
         d.op \notin Ops(Elems(s)), e.op \notin Ops(Elems(s))
  PROVE  /\ s \o <<d, e>> \in Seq(S)
         /\ Len(s \o <<d, e>>) = Len(s) + 2
         /\ Elems(s \o <<d, e>>) = Elems(s) \cup {d, e}
         /\ NoRepeat(s \o <<d, e>>)
<1>1. s \o <<d, e>> = Append(Append(s, d), e)
  OBVIOUS
<1>2. Append(s, d) \in Seq(S) /\ NoRepeat(Append(s, d))
      /\ Len(Append(s, d)) = Len(s) + 1
      /\ Elems(Append(s, d)) = Elems(s) \cup {d}
  BY ElemsAppend, NoRepeatAppend
<1>3. e.op \notin Ops(Elems(Append(s, d)))
  BY <1>2 DEF Ops
<1>4. PICK t : t = Append(s, d)
  OBVIOUS
<1>5. t \in Seq(S) /\ NoRepeat(t) /\ e.op \notin Ops(Elems(t))
  BY <1>2, <1>3, <1>4
<1>6. /\ Append(t, e) \in Seq(S) /\ NoRepeat(Append(t, e))
      /\ Len(Append(t, e)) = Len(t) + 1
      /\ Elems(Append(t, e)) = Elems(t) \cup {e}
  BY <1>5, ElemsAppend, NoRepeatAppend
<1>7. Len(s) \in Nat
  OBVIOUS
<1>8. s \o <<d, e>> = Append(t, e)
  BY <1>1, <1>4
<1>9. Len(t) = Len(s) + 1 /\ Elems(t) = Elems(s) \cup {d}
  BY <1>2, <1>4
<1>10. PICK u : u = s \o <<d, e>>
  OBVIOUS
<1>11. /\ u \in Seq(S) /\ NoRepeat(u)
       /\ Len(u) = Len(t) + 1 /\ Elems(u) = Elems(t) \cup {e}
  BY <1>6, <1>8, <1>10
<1>12. Len(u) = Len(s) + 2 /\ Elems(u) = Elems(s) \cup {d, e}
  BY <1>7, <1>9, <1>11
<1> QED BY ONLY <1>10, <1>11, <1>12

\* Taking the first entry takes its owner out of the queue.
LEMMA ElemsTail ==
  ASSUME NEW S, NEW s \in Seq(S), s # <<>>
  PROVE  /\ Tail(s) \in Seq(S)
         /\ Len(Tail(s)) = Len(s) - 1
         /\ Head(s) \in Elems(s) /\ Head(s) \in S
         /\ Elems(s) = Elems(Tail(s)) \cup {Head(s)}
         /\ NoRepeat(s) => /\ NoRepeat(Tail(s))
                           /\ Head(s).op \notin Ops(Elems(Tail(s)))
<1> DEFINE rest == Tail(s)
<1>1. /\ rest \in Seq(S) /\ Len(rest) = Len(s) - 1 /\ Len(s) \in Nat \ {0}
      /\ Head(s) = s[1] /\ s[1] \in S
      /\ \A i \in 1..Len(rest) : rest[i] = s[i + 1]
  OBVIOUS
<1> HIDE DEF rest
<1>2. Head(s) \in Elems(s)
  BY <1>1 DEF Elems, FirstOf
<1>3. Elems(s) = Elems(rest) \cup {Head(s)}
  <2>1. \A i \in 1..Len(s) :
          i = 1 \/ (i - 1 \in 1..Len(rest) /\ rest[i - 1] = s[i])
    BY <1>1
  <2>2. Elems(s) \subseteq Elems(rest) \cup {Head(s)}
    BY <1>1, <2>1 DEF Elems, FirstOf
  <2>3. Elems(rest) \subseteq Elems(s)
    BY <1>1 DEF Elems, FirstOf
  <2> QED BY <1>2, <2>2, <2>3
<1>4. ASSUME NoRepeat(s)
      PROVE  NoRepeat(rest) /\ Head(s).op \notin Ops(Elems(rest))
  <2>1. NoRepeat(rest)
    BY <1>1, <1>4 DEF NoRepeat
  <2>2. \A i \in 1..Len(rest) : rest[i].op # Head(s).op
    BY <1>1, <1>4 DEF NoRepeat
  <2> QED BY <2>1, <2>2 DEF Ops, Elems, FirstOf
<1> QED BY <1>1, <1>2, <1>3, <1>4 DEF rest

\* io_uring_enter takes the first k entries.
LEMMA ElemsSplit ==
  ASSUME NEW S, NEW s \in Seq(S), NEW k \in 0..Len(s)
  PROVE  LET rest == SubSeq(s, k + 1, Len(s))
         IN /\ rest \in Seq(S)
            /\ Len(rest) = Len(s) - k
            /\ FirstOf(s, k) \subseteq S
            /\ Elems(s) = FirstOf(s, k) \cup Elems(rest)
            /\ NoRepeat(s) =>
                 /\ NoRepeat(rest)
                 /\ Ops(FirstOf(s, k)) \cap Ops(Elems(rest)) = {}
                 /\ \A d, e \in FirstOf(s, k) : d.op = e.op => d = e
<1> DEFINE front == FirstOf(s, k)
           rest == SubSeq(s, k + 1, Len(s))
<1>1. /\ rest \in Seq(S) /\ Len(rest) = Len(s) - k
      /\ \A i \in 1..Len(rest) : rest[i] = s[k + i]
  OBVIOUS
<1> HIDE DEF rest
<1>2. front \subseteq S
  BY DEF FirstOf
<1>3. \A i \in 1..Len(s) : i \in 1..k \/ (i - k \in 1..Len(rest)
                                          /\ rest[i - k] = s[i])
  BY <1>1
<1>4. Elems(s) = front \cup Elems(rest)
  <2>1. Elems(s) \subseteq front \cup Elems(rest)
    BY <1>3 DEF Elems, FirstOf
  <2>2. Elems(rest) \subseteq Elems(s)
    BY <1>1 DEF Elems, FirstOf
  <2>3. front \subseteq Elems(s)
    BY DEF FirstOf, Elems
  <2> QED BY <2>1, <2>2, <2>3
<1>5. ASSUME NoRepeat(s)
      PROVE  /\ NoRepeat(rest)
             /\ Ops(front) \cap Ops(Elems(rest)) = {}
             /\ \A d, e \in front : d.op = e.op => d = e
  <2>1. NoRepeat(rest)
    <3>1. SUFFICES ASSUME NEW i \in 1..Len(rest), NEW j \in 1..Len(rest),
                          rest[i].op = rest[j].op
                   PROVE  i = j
      BY DEF NoRepeat
    <3>2. k + i \in 1..Len(s) /\ k + j \in 1..Len(s)
      BY <1>1
    <3>3. s[k + i].op = s[k + j].op
      BY <1>1, <3>1
    <3>4. k + i = k + j
      BY <1>5, <3>2, <3>3 DEF NoRepeat
    <3> QED BY <3>4
  <2>2. \A i \in 1..k, j \in 1..Len(rest) : s[i].op # rest[j].op
    <3>1. SUFFICES ASSUME NEW i \in 1..k, NEW j \in 1..Len(rest),
                          s[i].op = rest[j].op
                   PROVE  FALSE
      OBVIOUS
    <3>2. i \in 1..Len(s) /\ k + j \in 1..Len(s) /\ i # k + j
      BY <1>1
    <3>3. s[i].op = s[k + j].op
      BY <1>1, <3>1
    <3> QED BY <1>5, <3>2, <3>3 DEF NoRepeat
  <2>3. Ops(front) \cap Ops(Elems(rest)) = {}
    BY <2>2 DEF Ops, Elems, FirstOf
  <2>4. \A d, e \in front : d.op = e.op => d = e
    BY <1>5 DEF NoRepeat, FirstOf
  <2> QED BY <2>1, <2>3, <2>4
<1> QED BY <1>1, <1>2, <1>4, <1>5 DEF rest

-----------------------------------------------------------------------------
(***************************************************************************)
(* The inductive invariant, action by action.  First the steps that move   *)
(* no request and touch no connection, then those that move requests into  *)
(* the kernel, then the completions, the handlers and the cleanup.         *)
(***************************************************************************)

\* main, up to the loop: the accept, and the timer, are queued.
LEMMA InitIInv == Init => IInv
<1> SUFFICES ASSUME Init PROVE IInv
  OBVIOUS
<1> USE ClientsAssumption, IouAssumption DEF Init, ClientInit
<1>1. AcceptSqe \in Sqes /\ (Benchmarking => TimerSqe \in Sqes)
  BY DEF AcceptSqe, TimerSqe, Sqes, AllOps, StackOps, LsFd, ConKinds
<1>2. TypeOK
  <2>1. sq \in Seq(Sqes) /\ Len(sq) <= RingSize
    BY <1>1
  <2>2. ClientTypeOK
    BY DEF ClientTypeOK
  <2>3. /\ cq \in Seq(Cqes)
        /\ kern \subseteq Sqes
        /\ toSubmit \in Nat
    OBVIOUS
  <2>4. /\ kind \in [Clients -> ConKinds]
        /\ fd \in [Clients -> Fds \cup {-1}]
        /\ busy \in [Clients -> BOOLEAN]
        /\ buf \in [Clients -> Nat]
        /\ heap \in [Clients -> {"unallocated", "live", "freed"}]
        /\ sock \in [Fds -> Clients \cup {None}]
    BY DEF ConKinds
  <2> QED BY <2>1, <2>2, <2>3, <2>4 DEF TypeOK, CtlTypeOK, RingTypeOK, OpTypeOK
<1>3. /\ Queued = IF Benchmarking THEN {AcceptSqe, TimerSqe} ELSE {AcceptSqe}
      /\ NoRepeat(sq)
  BY DEF Queued, Elems, FirstOf, NoRepeat, AcceptSqe, TimerSqe
<1>4. Done = {} /\ NoRepeat(cq) /\ Live = {}
  BY DEF Done, Elems, FirstOf, NoRepeat, Live
<1>5. InFlight = Queued
  BY <1>4 DEF InFlight
<1>6. SingleOwner
  BY <1>3, <1>4, <1>5 DEF SingleOwner, Ops, AcceptSqe, TimerSqe
<1>7. DispatchMatches
  BY <1>3, <1>5 DEF DispatchMatches, KindOf, AcceptSqe, TimerSqe
<1>8. BusyMeansLent /\ FdsOwned
  BY <1>3, <1>4 DEF BusyMeansLent, FdsOwned, AcceptSqe, TimerSqe
<1>9. Arrivals
  BY <1>4 DEF Arrivals
<1>10. MessageFlow /\ LeftFirst /\ EchoInOrder
  BY <1>3, <1>4, <1>5
     DEF MessageFlow, LeftFirst, EchoInOrder, AcceptSqe, TimerSqe
<1> QED BY <1>2, <1>6, <1>7, <1>8, <1>9, <1>10 DEF IInv

\* Steps of control: neither requests nor connections change.
LEMMA QuietStep ==
  ASSUME IInv, TypeOK', RingUp' => RingUp,
         UNCHANGED <<sq, kern, cq, opVars, sock, clientVars>>
  PROVE  IInv'
<1> USE DEF opVars, clientVars
<1>1. Queued' = Queued /\ Done' = Done /\ InFlight' = InFlight /\ Live' = Live
  BY DEF Queued, Done, InFlight, Elems, FirstOf, Live
<1>2. NoRepeat(sq)' = NoRepeat(sq) /\ NoRepeat(cq)' = NoRepeat(cq)
  BY DEF NoRepeat
<1>3. SingleOwner'
  BY <1>1, <1>2 DEF IInv, SingleOwner
<1>4. DispatchMatches' /\ BusyMeansLent' /\ FdsOwned'
  BY <1>1 DEF IInv, DispatchMatches, BusyMeansLent, FdsOwned, KindOf
<1>5. Arrivals' /\ MessageFlow' /\ LeftFirst' /\ EchoInOrder'
  BY <1>1 DEF IInv, Arrivals, MessageFlow, MessageInside, LeftFirst, Whole,
              EchoInOrder
<1> QED BY <1>3, <1>4, <1>5 DEF IInv

\* Steps that move the requests F from the queue into the kernel.
LEMMA MoveStep ==
  ASSUME IInv, TypeOK', RingUp, RingUp', NEW F,
         Queued = F \cup Queued', kern' = kern \cup F,
         NoRepeat(sq'), Ops(F) \cap Ops(Queued') = {},
         \A d, e \in F : d.op = e.op => d = e,
         UNCHANGED <<cq, opVars, sock, clientVars>>
  PROVE  IInv'
<1> USE DEF opVars, clientVars
<1>1. Done' = Done /\ InFlight' = InFlight /\ Live' = Live
  BY DEF Queued, Done, InFlight, Elems, FirstOf, Live
<1>2. SingleOwner'
  <2>1. NoRepeat(cq)'
    BY DEF IInv, SingleOwner, NoRepeat
  <2>2. Ops(F) \subseteq Ops(Queued) /\ Ops(Queued') \subseteq Ops(Queued)
        /\ Ops(kern') = Ops(kern) \cup Ops(F)
    BY DEF Ops
  <2>3. \A r, q \in kern' : r.op = q.op => r = q
    <3>1. \A r \in kern, q \in F : r.op # q.op
      BY <2>2 DEF IInv, SingleOwner, Ops
    <3> QED BY <3>1 DEF IInv, SingleOwner
  <2>4. Ops(Queued') \cap Ops(kern') = {}
    BY <2>2 DEF IInv, SingleOwner, Ops
  <2>5. Ops(Queued') \cap Ops(Done') = {} /\ Ops(kern') \cap Ops(Done') = {}
    BY <1>1, <2>2 DEF IInv, SingleOwner
  <2> QED BY <1>1, <2>1, <2>3, <2>4, <2>5 DEF IInv, SingleOwner, Ops
<1>3. DispatchMatches' /\ BusyMeansLent' /\ FdsOwned'
  BY <1>1 DEF IInv, DispatchMatches, BusyMeansLent, FdsOwned, KindOf
<1>4. Queued' \cup kern' = Queued \cup kern
  OBVIOUS
<1>5. Arrivals' /\ LeftFirst' /\ EchoInOrder'
  BY <1>1 DEF IInv, Arrivals, LeftFirst, EchoInOrder
<1>6. MessageFlow'
  BY <1>1, <1>4 DEF IInv, MessageFlow, MessageInside, Whole
<1> QED BY <1>2, <1>3, <1>5, <1>6 DEF IInv

\* Steps of the loop that move neither a request nor an object.
LEMMA ControlSteps ==
  ASSUME IInv,
         \/ BlockSignals \/ SendSignal \/ DeliverSignal \/ LoopExit
         \/ EnterReturn \/ WakeOrSpin \/ KernelIdle \/ CloseDone
         \/ UNCHANGED vars
  PROVE  IInv'
<1> USE DEF opVars, clientVars, ringVars, ctlVars, vars
<1>1. UNCHANGED <<sq, kern, cq, opVars, sock, clientVars>>
  BY DEF BlockSignals, SendSignal, DeliverSignal, LoopExit, EnterReturn,
         WakeOrSpin, KernelIdle, CloseDone
<1>2. ClientTypeOK'
  BY <1>1 DEF IInv, TypeOK, ClientTypeOK
<1>3. CtlTypeOK' /\ toSubmit' \in Nat /\ sqIdle' \in BOOLEAN
      /\ (RingUp' => RingUp)
  <2>0. CtlTypeOK /\ toSubmit \in Nat /\ sqIdle \in BOOLEAN
    BY DEF IInv, TypeOK, RingTypeOK
  <2> USE <2>0 DEF CtlTypeOK, RingUp
  <2>1. CASE BlockSignals
    BY <2>1 DEF BlockSignals
  <2>2. CASE SendSignal
    BY <2>2 DEF SendSignal
  <2>3. CASE DeliverSignal
    <3>1. CASE pc = "wait"
      <4>1. /\ pc' = "loop" /\ toSubmit' = 0
            /\ running' = FALSE /\ sig' = "delivered"
            /\ cause' = cause /\ sqIdle' = sqIdle
        BY <2>3, <3>1 DEF DeliverSignal, Stopped
      <4> QED BY <3>1, <4>1
    <3>2. CASE pc # "wait"
      BY <2>3, <3>2 DEF DeliverSignal, Stopped
    <3> QED BY <3>1, <3>2
  <2>4. CASE LoopExit
    BY <2>4 DEF LoopExit
  <2>5. CASE EnterReturn
    BY <2>5 DEF EnterReturn
  <2>6. CASE WakeOrSpin
    BY <2>6 DEF WakeOrSpin
  <2>7. CASE KernelIdle
    BY <2>7 DEF KernelIdle
  <2>8. CASE CloseDone
    BY <2>8 DEF CloseDone
  <2>9. CASE UNCHANGED vars
    BY <2>9
  <2> QED BY <2>1, <2>2, <2>3, <2>4, <2>5, <2>6, <2>7, <2>8, <2>9
<1>4. TypeOK'
  BY <1>1, <1>2, <1>3 DEF IInv, TypeOK, RingTypeOK, OpTypeOK
<1> QED BY <1>1, <1>3, <1>4, QuietStep

\* io_uring_enter moves queued requests into the kernel.
LEMMA EnterSubmitStep == IInv /\ EnterSubmit => IInv'
<1> SUFFICES ASSUME IInv, EnterSubmit PROVE IInv'
  OBVIOUS
<1> USE DEF opVars, clientVars
<1>1. sq \in Seq(Sqes) /\ Taken \in 0..Len(sq)
  BY DEF IInv, TypeOK, RingTypeOK, Taken
<1> DEFINE F == FirstOf(sq, Taken)
<1>2. NoRepeat(sq) /\ RingUp /\ RingUp'
  BY DEF IInv, SingleOwner, RingUp, EnterSubmit
<1>3. sq' = SubSeq(sq, Taken + 1, Len(sq)) /\ kern' = kern \cup F
  BY DEF EnterSubmit
<1>4. /\ sq' \in Seq(Sqes) /\ Len(sq') = Len(sq) - Taken
      /\ F \subseteq Sqes
      /\ Elems(sq) = F \cup Elems(sq')
      /\ NoRepeat(sq') /\ Ops(F) \cap Ops(Elems(sq')) = {}
      /\ \A d, e \in F : d.op = e.op => d = e
  <2> DEFINE rest == SubSeq(sq, Taken + 1, Len(sq))
  <2>1. /\ rest \in Seq(Sqes) /\ Len(rest) = Len(sq) - Taken
        /\ F \subseteq Sqes
        /\ Elems(sq) = F \cup Elems(rest)
        /\ NoRepeat(sq) => /\ NoRepeat(rest) 
                           /\ Ops(F) \cap Ops(Elems(rest)) = {}
                           /\ \A d, e \in F : d.op = e.op => d = e
    <3> HIDE DEF Taken
    <3> QED BY <1>1, ElemsSplit
  <2>2. sq' = rest
    BY <1>3
  <2> HIDE DEF F, rest
  <2> QED BY <1>2, <2>1, <2>2
<1>5. UNCHANGED <<cq, opVars, sock, clientVars>>
  BY DEF EnterSubmit
<1>6. TypeOK'
  <2>1. ClientTypeOK' /\ CtlTypeOK' /\ OpTypeOK'
    BY <1>5 DEF IInv, TypeOK, ClientTypeOK, CtlTypeOK, OpTypeOK, EnterSubmit
  <2>2. RingTypeOK'
    BY <1>1, <1>3, <1>4, <1>5, IouAssumption
       DEF IInv, TypeOK, RingTypeOK, EnterSubmit
  <2> QED BY <1>5, <2>1, <2>2 DEF IInv, TypeOK
<1> HIDE DEF F
<1> QED BY <1>2, <1>3, <1>4, <1>5, <1>6, MoveStep DEF Queued

\* The SQPOLL thread moves one queued request into the kernel.
LEMMA KernelConsumeStep == IInv /\ KernelConsume => IInv'
<1> SUFFICES ASSUME IInv, KernelConsume PROVE IInv'
  OBVIOUS
<1> USE DEF opVars, clientVars, ctlVars
<1>1. sq \in Seq(Sqes) /\ sq # <<>> /\ NoRepeat(sq) /\ RingUp /\ RingUp'
  BY DEF IInv, TypeOK, RingTypeOK, SingleOwner, RingUp, KernelConsume
<1> DEFINE F == {Head(sq)}
<1>2. sq' = Tail(sq) /\ kern' = kern \cup F
  BY DEF KernelConsume
<1>3. /\ sq' \in Seq(Sqes) /\ Len(sq') = Len(sq) - 1
      /\ F \subseteq Sqes
      /\ Elems(sq) = F \cup Elems(sq')
      /\ NoRepeat(sq') /\ Head(sq).op \notin Ops(Elems(sq'))
  BY <1>1, <1>2, ElemsTail
<1>4. Ops(F) \cap Ops(Elems(sq')) = {}
      /\ \A d, e \in F : d.op = e.op => d = e
  BY <1>3 DEF Ops
<1>5. UNCHANGED <<cq, opVars, sock, clientVars>>
  BY DEF KernelConsume
<1>6. TypeOK'
  <2>1. ClientTypeOK' /\ CtlTypeOK' /\ OpTypeOK'
    BY <1>5 DEF IInv, TypeOK, ClientTypeOK, CtlTypeOK, OpTypeOK, KernelConsume
  <2>2. RingTypeOK'
    BY <1>1, <1>2, <1>3, <1>5, IouAssumption
       DEF IInv, TypeOK, RingTypeOK, KernelConsume
  <2> QED BY <1>5, <2>1, <2>2 DEF IInv, TypeOK
<1> HIDE DEF F
<1> QED BY <1>1, <1>2, <1>3, <1>4, <1>5, <1>6, MoveStep DEF Queued

-----------------------------------------------------------------------------
(***************************************************************************)
(* Completions by the kernel.                                              *)
(***************************************************************************)

\* A request of a connection that the kernel holds is of a live object and
\* carries the descriptor of that object's own connection.
LEMMA ConRequest ==
  ASSUME IInv, RingUp, NEW r \in kern, r.kind \in ConKinds
  PROVE  /\ r.op \in Clients /\ r.op \in Live
         /\ kind[r.op] = r.kind
         /\ r.fd = fd[r.op] /\ r.fd \in Fds /\ sock[r.fd] = r.op
<1>1. r.op \in AllOps /\ r \in InFlight /\ r.kind = KindOf(r.op)
  BY DEF IInv, TypeOK, RingTypeOK, Sqes, InFlight, DispatchMatches
<1>2. r.op \in Clients /\ kind[r.op] = r.kind
  BY <1>1, IouAssumption DEF KindOf, ConKinds, AllOps, StackOps
<1>3. r.op \in Live
  BY <1>1, <1>2, IouAssumption DEF IInv, SingleOwner, Ops
<1>4. r.op \notin Ops(Done)
  BY DEF IInv, SingleOwner, Ops
<1>5. r.fd = fd[r.op]
  BY <1>2 DEF IInv, FdsOwned
<1>6. fd[r.op] \in Fds /\ sock[fd[r.op]] = r.op
  BY <1>3, <1>4 DEF IInv, FdsOwned, Ops
<1> QED BY <1>2, <1>3, <1>5, <1>6

\* What every completion does: the request leaves the kernel and is the one
\* new entry of the completion queue.
LEMMA CompleteStep ==
  ASSUME IInv, RingUp, NEW r \in kern, NEW res \in Int, Complete(r, res),
         UNCHANGED <<kind, fd, busy, heap, tracked>>,
         NEW e, e = [op |-> r.op, kind |-> r.kind, res |-> res]
  PROVE  /\ RingUp'
         /\ Queued' = Queued /\ kern' = kern \ {r} /\ Done' = Done \cup {e}
         /\ Live' = Live
         /\ CtlTypeOK' /\ RingTypeOK'
         /\ SingleOwner' /\ DispatchMatches' /\ BusyMeansLent'
         /\ \A d \in Queued \cup kern' \cup Done : d.op # r.op
         /\ InFlight' \subseteq InFlight \cup {e}
<1> USE DEF ctlVars
<1>1. RingUp' /\ CtlTypeOK'
  BY DEF IInv, TypeOK, CtlTypeOK, RingUp, Complete
<1>2. e \in Cqes /\ cq \in Seq(Cqes) /\ r \in Sqes
  BY DEF IInv, TypeOK, RingTypeOK, Sqes, Cqes
<1>3. cq' = Append(cq, e) /\ kern' = kern \ {r} /\ sq' = sq
  BY DEF Complete
<1>4. /\ cq' \in Seq(Cqes)
      /\ Queued' = Queued /\ Done' = Done \cup {e} /\ Live' = Live
  BY <1>2, <1>3, ElemsAppend DEF Queued, Done, Elems, Live
<1>5. RingTypeOK'
  BY <1>3, <1>4 DEF IInv, TypeOK, RingTypeOK, Complete
<1>6. \A d \in Queued \cup kern' \cup Done : d.op # r.op
  <2>1. /\ \A d, q \in kern : d.op = q.op => d = q
        /\ Ops(Queued) \cap Ops(kern) = {} /\ Ops(kern) \cap Ops(Done) = {}
    BY DEF IInv, SingleOwner
  <2>2. \A d \in Queued : d.op # r.op
    BY <2>1 DEF Ops
  <2>3. \A d \in Done : d.op # r.op
    BY <2>1 DEF Ops
  <2>4. \A d \in kern' : d.op # r.op
    BY <1>3, <2>1
  <2> QED BY <2>2, <2>3, <2>4
<1>7. SingleOwner'
  <2>1. r.op \notin Ops(Done)
    BY <1>6 DEF Ops
  <2>2. NoRepeat(cq')
    BY <1>2, <1>3, <2>1, NoRepeatAppend DEF Done, IInv, SingleOwner
  <2>3. NoRepeat(sq)'
    BY <1>3 DEF IInv, SingleOwner, NoRepeat
  <2>4. /\ Ops(kern') = Ops(kern) \ {r.op}
        /\ Ops(Done') = Ops(Done) \cup {r.op}
    BY <1>3, <1>4, <1>6 DEF Ops
  <2>5. /\ Ops(InFlight) = Ops(Queued) \cup Ops(kern) \cup Ops(Done)
        /\ Ops(InFlight') = Ops(Queued') \cup Ops(kern') \cup Ops(Done')
    BY DEF Ops, InFlight
  <2>6. r.op \in Ops(kern) /\ r.op \notin Ops(Queued)
    BY <1>6 DEF Ops
  <2>7. Ops(InFlight') = Ops(InFlight)
    BY <1>4, <2>4, <2>5, <2>6
  <2>8. \A p, q \in kern' : p.op = q.op => p = q
    BY <1>3 DEF IInv, SingleOwner
  <2>9. /\ Ops(Queued) \cap Ops(kern) = {}
        /\ Ops(Queued) \cap Ops(Done) = {}
        /\ Ops(kern) \cap Ops(Done) = {}
        /\ Ops(InFlight) \ {TimerOp} = Live \cup {AcceptOp}
        /\ tracked = Live
    BY DEF IInv, SingleOwner
  <2>10. /\ Ops(Queued') \cap Ops(kern') = {}
         /\ Ops(Queued') \cap Ops(Done') = {}
         /\ Ops(kern') \cap Ops(Done') = {}
    BY <1>4, <2>4, <2>6, <2>9
  <2>11. Ops(InFlight') \ {TimerOp} = Live' \cup {AcceptOp} /\ tracked' = Live'
    BY <1>4, <2>7, <2>9
  <2> QED BY <2>2, <2>3, <2>8, <2>10, <2>11 DEF SingleOwner
<1>8. DispatchMatches' /\ BusyMeansLent'
  BY <1>1, <1>3, <1>4
     DEF IInv, DispatchMatches, BusyMeansLent, InFlight, KindOf
<1>9. InFlight' \subseteq InFlight \cup {e}
  BY <1>3, <1>4 DEF InFlight
<1> QED BY <1>1, <1>3, <1>4, <1>5, <1>6, <1>7, <1>8, <1>9

\* What read(2) can report of a connection.
LEMMA RecvResultsFacts ==
  ASSUME ClientTypeOK, NEW c \in Clients, taken[c] <= sent[c],
         NEW res \in RecvResults(c)
  PROVE  /\ res \in Int
         /\ res = 0 => cpc[c] = "gone"
         /\ res = BufSize => taken[c] + 1 <= sent[c]
<1>1. BufSize \in Nat \ {0, 1} /\ ServerBufSize = BufSize + 1
  BY ClientsAssumption DEF ServerBufSize
<1>2. taken[c] \in Nat /\ sent[c] \in Nat
  BY DEF ClientTypeOK
<1>3. CASE Pending(c) = 0
  BY <1>1, <1>2, <1>3 DEF RecvResults
<1>4. CASE Pending(c) # 0
  <2>1. res \in {BufSize, ServerBufSize, 1, -1}
    BY <1>4 DEF RecvResults
  <2>2. taken[c] + 1 <= sent[c]
    BY <1>2, <1>4 DEF Pending
  <2> QED BY <1>1, <2>1, <2>2
<1> QED BY <1>3, <1>4

\* A recv completes: a message enters the server, or the end of file shows.
LEMMA KernelRecvStep ==
  ASSUME IInv, RingUp, NEW r \in kern, KernelRecv(r)
  PROVE  IInv'
<1>1. /\ r.op \in Clients /\ r.op \in Live
      /\ r.fd \in Fds /\ sock[r.fd] = r.op
      /\ r.kind = "recv"
  BY ConRequest DEF KernelRecv, ConKinds
<1> DEFINE c == r.op
<1>2. PICK res \in RecvResults(c) :
        /\ TakeMessage(c, res)
        /\ buf' = IF res = BufSize THEN [buf EXCEPT ![c] = taken[c] + 1]
                  ELSE buf
        /\ Complete(r, res)
  BY <1>1 DEF KernelRecv
<1>3. UNCHANGED <<kind, fd, busy, heap, tracked, sock,
                  cpc, backlog, sent, echoes, got>>
  BY DEF KernelRecv
<1>4. /\ ClientTypeOK /\ OpTypeOK
      /\ MessageInside(c, 0)
      /\ taken[c] \in Nat /\ taken[c] <= sent[c]
  BY <1>1 DEF IInv, TypeOK, EchoInOrder, MessageFlow, ClientTypeOK
<1>5. /\ res \in Int
      /\ res = 0 => cpc[c] = "gone"
      /\ res = BufSize => taken[c] + 1 <= sent[c]
  BY <1>1, <1>4, RecvResultsFacts
<1> DEFINE e == [op |-> r.op, kind |-> r.kind, res |-> res]
<1>6. /\ RingUp'
      /\ Queued' = Queued /\ kern' = kern \ {r} /\ Done' = Done \cup {e}
      /\ Live' = Live
      /\ CtlTypeOK' /\ RingTypeOK'
      /\ SingleOwner' /\ DispatchMatches' /\ BusyMeansLent'
      /\ \A d \in Queued \cup kern' \cup Done : d.op # c
      /\ InFlight' \subseteq InFlight \cup {e}
  BY <1>2, <1>3, <1>5, CompleteStep
<1>7. /\ taken' = IF res = BufSize THEN [taken EXCEPT ![c] = @ + 1] ELSE taken
      /\ e.op = c /\ e.kind = "recv" /\ e.res = res
  BY <1>1, <1>2 DEF TakeMessage
<1> HIDE DEF e
<1>8. TypeOK'
  <2>1. ClientTypeOK'
    <3>1. taken' \in [Clients -> Nat]
      BY <1>1, <1>4, <1>7 DEF ClientTypeOK
    <3> QED BY <1>3, <1>4, <3>1 DEF ClientTypeOK
  <2>2. OpTypeOK'
    BY <1>1, <1>2, <1>3, <1>4 DEF OpTypeOK
  <2> QED BY <1>3, <1>6, <2>1, <2>2 DEF IInv, TypeOK
<1>9. FdsOwned'
  BY <1>3, <1>6 DEF IInv, FdsOwned
<1>10. Arrivals'
  BY <1>3, <1>6, <1>7 DEF IInv, Arrivals
<1>11. MessageInside(c, IF Whole(res) THEN 1 ELSE 0)'
  <2>1. CASE res = BufSize
    <3>1. taken'[c] = taken[c] + 1 /\ buf'[c] = taken[c] + 1
      BY <1>1, <1>2, <1>4, <1>7, <2>1 DEF ClientTypeOK, OpTypeOK
    <3> QED BY <1>3, <1>4, <2>1, <3>1 DEF MessageInside, Whole
  <2>2. CASE res # BufSize
    BY <1>2, <1>3, <1>4, <1>7, <2>2 DEF MessageInside, Whole
  <2> QED BY <2>1, <2>2
<1>12. ASSUME NEW d \in Clients, d # c
       PROVE  taken'[d] = taken[d] /\ buf'[d] = buf[d]
  BY <1>2, <1>4, <1>7, <1>12 DEF ClientTypeOK, OpTypeOK
<1>13. MessageFlow'
  <2>1. \A d \in Clients : heap'[d] = "unallocated" =>
          taken'[d] = 0 /\ echoes'[d] = <<>>
    BY <1>1, <1>3, <1>12 DEF IInv, MessageFlow, Live
  <2>2. \A d \in Queued' \cup kern' : d.op \in Clients =>
          MessageInside(d.op, IF d.kind = "send" THEN 1 ELSE 0)'
    BY <1>3, <1>6, <1>12 DEF IInv, MessageFlow, MessageInside
  <2>3. \A d \in Done : d.op \in Clients =>
          /\ d.kind = "send" => d.res <= BufSize
          /\ MessageInside(d.op,
               IF \/ d.kind = "recv" /\ Whole(d.res)
                  \/ d.kind = "send" /\ ~Whole(d.res) THEN 1 ELSE 0)'
    BY <1>3, <1>6, <1>12 DEF IInv, MessageFlow, MessageInside, Whole
  <2> QED BY <1>6, <1>7, <1>11, <2>1, <2>2, <2>3 DEF MessageFlow, Whole
<1>14. LeftFirst'
  BY <1>3, <1>5, <1>6, <1>7 DEF IInv, LeftFirst
<1>15. EchoInOrder'
  <2>1. ASSUME NEW d \in Clients
        PROVE  /\ Len(echoes[d]) <= taken'[d]
               /\ taken'[d] <= Len(echoes[d]) + 1 /\ taken'[d] <= sent[d]
    <3>1. CASE d = c
      BY <1>4, <1>5, <1>7, <3>1 DEF MessageInside, ClientTypeOK
    <3>2. CASE d # c
      BY <1>12, <3>2 DEF IInv, EchoInOrder
    <3> QED BY <3>1, <3>2
  <2> QED BY <1>3, <2>1 DEF IInv, EchoInOrder
<1> QED BY <1>6, <1>8, <1>9, <1>10, <1>13, <1>14, <1>15 DEF IInv

\* A send completes: the message that was in the buffer is echoed.
LEMMA KernelSendStep ==
  ASSUME IInv, RingUp, NEW r \in kern, KernelSend(r)
  PROVE  IInv'
<1>1. /\ r.op \in Clients /\ r.op \in Live
      /\ r.fd \in Fds /\ sock[r.fd] = r.op
      /\ r.kind = "send"
  BY ConRequest DEF KernelSend, ConKinds
<1> DEFINE c == r.op
<1>2. PICK res \in SendResults(c) : DeliverEcho(c, res, buf[c])
                                    /\ Complete(r, res)
  BY <1>1 DEF KernelSend
<1>3. UNCHANGED <<kind, fd, busy, buf, heap, tracked, sock,
                  cpc, backlog, sent, taken, got>>
  BY DEF KernelSend, opVars
<1>4. /\ ClientTypeOK /\ OpTypeOK
      /\ MessageInside(c, 1)
      /\ taken[c] \in Nat /\ echoes[c] \in Seq(Nat) /\ buf[c] \in Nat
  BY <1>1 DEF IInv, TypeOK, MessageFlow, ClientTypeOK, OpTypeOK
<1>5. res \in Int /\ res <= BufSize
  BY ClientsAssumption DEF SendResults
<1> DEFINE e == [op |-> r.op, kind |-> r.kind, res |-> res]
<1>6. /\ RingUp'
      /\ Queued' = Queued /\ kern' = kern \ {r} /\ Done' = Done \cup {e}
      /\ Live' = Live
      /\ CtlTypeOK' /\ RingTypeOK'
      /\ SingleOwner' /\ DispatchMatches' /\ BusyMeansLent'
      /\ \A d \in Queued \cup kern' \cup Done : d.op # c
      /\ InFlight' \subseteq InFlight \cup {e}
  BY <1>2, <1>3, <1>5, CompleteStep
<1>7. /\ echoes' = IF res = BufSize
                   THEN [echoes EXCEPT ![c] = Append(@, buf[c])] ELSE echoes
      /\ e.op = c /\ e.kind = "send" /\ e.res = res
  BY <1>1, <1>2 DEF DeliverEcho
<1> HIDE DEF e
<1>8. echoes'[c] = IF Whole(res) THEN Append(echoes[c], buf[c]) ELSE echoes[c]
  BY <1>1, <1>4, <1>7 DEF ClientTypeOK, Whole
<1>9. ASSUME NEW d \in Clients, d # c
      PROVE  echoes'[d] = echoes[d]
  BY <1>4, <1>7, <1>9 DEF ClientTypeOK
<1>10. TypeOK'
  <2>1. echoes' \in [Clients -> Seq(Nat)]
    <3>1. Append(echoes[c], buf[c]) \in Seq(Nat)
      BY <1>4
    <3> QED BY <1>1, <1>4, <1>7, <3>1 DEF ClientTypeOK
  <2>2. ClientTypeOK'
    BY <1>3, <1>4, <2>1 DEF ClientTypeOK
  <2>3. OpTypeOK'
    BY <1>3, <1>4 DEF OpTypeOK
  <2> QED BY <1>3, <1>6, <2>2, <2>3 DEF IInv, TypeOK
<1>11. FdsOwned'
  BY <1>3, <1>6 DEF IInv, FdsOwned
<1>12. Arrivals'
  BY <1>3, <1>6, <1>7 DEF IInv, Arrivals
<1>13. MessageInside(c, IF ~Whole(res) THEN 1 ELSE 0)'
  <2>1. Len(Append(echoes[c], buf[c])) = Len(echoes[c]) + 1
    BY <1>4
  <2>2. CASE Whole(res)
    BY <1>3, <1>4, <1>8, <2>1, <2>2 DEF MessageInside, Whole
  <2>3. CASE ~Whole(res)
    BY <1>3, <1>4, <1>8, <2>3 DEF MessageInside, Whole
  <2> QED BY <2>2, <2>3
<1>14. MessageFlow'
  <2>1. \A d \in Clients : heap'[d] = "unallocated" =>
          taken'[d] = 0 /\ echoes'[d] = <<>>
    BY <1>1, <1>3, <1>9 DEF IInv, MessageFlow, Live
  <2>2. \A d \in Queued' \cup kern' : d.op \in Clients =>
          MessageInside(d.op, IF d.kind = "send" THEN 1 ELSE 0)'
    BY <1>3, <1>6, <1>9 DEF IInv, MessageFlow, MessageInside
  <2>3. \A d \in Done : d.op \in Clients =>
          /\ d.kind = "send" => d.res <= BufSize
          /\ MessageInside(d.op,
               IF \/ d.kind = "recv" /\ Whole(d.res)
                  \/ d.kind = "send" /\ ~Whole(d.res) THEN 1 ELSE 0)'
    BY <1>3, <1>6, <1>9 DEF IInv, MessageFlow, MessageInside, Whole
  <2> QED
    BY <1>5, <1>6, <1>7, <1>13, <2>1, <2>2, <2>3 DEF MessageFlow, Whole
<1>15. LeftFirst'
  BY <1>3, <1>6, <1>7 DEF IInv, LeftFirst
<1>16. EchoInOrder'
  <2>1. ASSUME NEW d \in Clients
        PROVE  /\ \A k \in 1..Len(echoes'[d]) : echoes'[d][k] = k
               /\ Len(echoes'[d]) <= taken[d]
               /\ taken[d] <= Len(echoes'[d]) + 1 /\ taken[d] <= sent[d]
    <3>1. CASE d = c /\ Whole(res)
      <4>1. echoes'[d] = Append(echoes[c], Len(echoes[c]) + 1)
        BY <1>4, <1>8, <3>1 DEF MessageInside
      <4>2. /\ \A k \in 1..Len(echoes[c]) : echoes[c][k] = k
            /\ taken[d] = Len(echoes[c]) + 1 /\ taken[d] <= sent[d]
        BY <1>4, <3>1 DEF IInv, EchoInOrder, MessageInside
      <4> HIDE DEF c
      <4>3. Len(echoes'[d]) = Len(echoes[c]) + 1
        BY <1>4, <4>1
      <4>4. \A k \in 1..Len(echoes'[d]) : echoes'[d][k] = k
        BY <1>4, <4>1, <4>2, <4>3
      <4> QED BY <4>2, <4>3, <4>4
    <3>2. CASE d # c \/ ~Whole(res)
      BY <1>8, <1>9, <3>2 DEF IInv, EchoInOrder
    <3> QED BY <3>1, <3>2
  <2> QED BY <1>3, <2>1 DEF EchoInOrder
<1> QED BY <1>6, <1>10, <1>11, <1>12, <1>14, <1>15, <1>16 DEF IInv

\* A close frees the descriptor of its own connection and of no other.
LEMMA KernelCloseStep ==
  ASSUME IInv, RingUp, NEW r \in kern, KernelClose(r)
  PROVE  IInv'
<1>1. /\ r.op \in Clients /\ r.op \in Live
      /\ r.fd \in Fds /\ sock[r.fd] = r.op
      /\ r.kind = "close"
  BY ConRequest DEF KernelClose, ConKinds
<1>2. PICK res \in Int : /\ res = 0 /\ Complete(r, res)
                         /\ sock' = [sock EXCEPT ![r.fd] = None]
  BY DEF KernelClose
<1>3. UNCHANGED <<kind, fd, busy, buf, heap, tracked,
                  cpc, backlog, sent, taken, echoes, got>>
  BY DEF KernelClose, opVars, clientVars
<1> DEFINE e == [op |-> r.op, kind |-> r.kind, res |-> res]
<1>4. /\ RingUp'
      /\ Queued' = Queued /\ kern' = kern \ {r} /\ Done' = Done \cup {e}
      /\ Live' = Live
      /\ CtlTypeOK' /\ RingTypeOK'
      /\ SingleOwner' /\ DispatchMatches' /\ BusyMeansLent'
      /\ \A d \in Queued \cup kern' \cup Done : d.op # r.op
      /\ InFlight' \subseteq InFlight \cup {e}
  <2>1. Complete(r, res) /\ UNCHANGED <<kind, fd, busy, heap, tracked>>
    BY <1>2, <1>3
  <2> HIDE DEF e
  <2>2. e = [op |-> r.op, kind |-> r.kind, res |-> res]
    BY DEF e
  <2> QED BY <2>1, <2>2, CompleteStep
<1>5. e.op = r.op /\ e.kind = "close" /\ e.res = 0
  BY <1>1, <1>2
<1> HIDE DEF e
<1>6. sock \in [Fds -> Clients \cup {None}] /\ OpTypeOK
  BY DEF IInv, TypeOK
<1>7. /\ sock' \in [Fds -> Clients \cup {None}]
      /\ sock'[r.fd] = None
      /\ \A n \in Fds : n # r.fd => sock'[n] = sock[n]
  BY <1>1, <1>2, <1>6
<1>8. TypeOK'
  BY <1>3, <1>4, <1>7 DEF IInv, TypeOK, ClientTypeOK, OpTypeOK
<1>9. FdsOwned'
  <2>1. ASSUME NEW c \in Live
        PROVE  \/ \E d \in Done' : d.op = c /\ d.kind = "close"
               \/ fd[c] \in Fds /\ sock'[fd[c]] = c
    <3>1. CASE c = r.op
      BY <1>4, <1>5, <3>1
    <3>2. CASE c # r.op
      BY <1>1, <1>4, <1>7, <3>2 DEF IInv, FdsOwned
    <3> QED BY <3>1, <3>2
  <2> QED BY <1>3, <1>4, <2>1 DEF IInv, FdsOwned
<1>10. Arrivals'
  <2>1. \A c \in Clients, n \in Fds : sock'[n] = c => sock[n] = c
    BY <1>7, IouAssumption
  <2>2. ASSUME NEW d \in Done, d.kind = "accept", d.res >= 0
        PROVE  d.res \in Fds /\ sock'[d.res] \in Clients
               /\ heap[sock'[d.res]] = "unallocated"
    <3>1. /\ d.res \in Fds /\ sock[d.res] \in Clients
          /\ heap[sock[d.res]] = "unallocated"
      BY <2>2 DEF IInv, Arrivals
    <3>2. d.res # r.fd
      BY <1>1, <3>1 DEF Live
    <3> QED BY <1>7, <3>1, <3>2
  <2> QED BY <1>3, <1>4, <1>5, <2>1, <2>2 DEF IInv, Arrivals
<1>11. MessageFlow'
  <2>1. MessageInside(r.op, 0)
    BY <1>1 DEF IInv, MessageFlow
  <2>2. \A c, n : MessageInside(c, n)' <=> MessageInside(c, n)
    BY <1>3 DEF MessageInside
  <2> QED
    BY <1>1, <1>3, <1>4, <1>5, <2>1, <2>2 DEF IInv, MessageFlow, Whole
<1>12. LeftFirst' /\ EchoInOrder'
  BY <1>1, <1>3, <1>4, <1>5 DEF IInv, LeftFirst, EchoInOrder, InFlight
<1> QED BY <1>4, <1>8, <1>9, <1>10, <1>11, <1>12 DEF IInv

\* The warm-up timer expires.
LEMMA KernelTimerStep ==
  ASSUME IInv, RingUp, NEW r \in kern, KernelTimer(r)
  PROVE  IInv'
<1>1. UNCHANGED <<kind, fd, busy, buf, heap, tracked, sock,
                  cpc, backlog, sent, taken, echoes, got>>
  BY DEF KernelTimer, opVars, clientVars
<1>2. r.kind = "timer" /\ Complete(r, -ETIME) /\ -ETIME \in Int
  BY DEF KernelTimer, ETIME
<1> DEFINE e == [op |-> r.op, kind |-> r.kind, res |-> -ETIME]
<1>3. /\ RingUp'
      /\ Queued' = Queued /\ kern' = kern \ {r} /\ Done' = Done \cup {e}
      /\ Live' = Live
      /\ CtlTypeOK' /\ RingTypeOK'
      /\ SingleOwner' /\ DispatchMatches' /\ BusyMeansLent'
      /\ InFlight' \subseteq InFlight \cup {e}
  <2>1. e = [op |-> r.op, kind |-> r.kind, res |-> -ETIME]
    OBVIOUS
  <2> HIDE DEF e
  <2> QED BY <1>1, <1>2, <2>1, CompleteStep
<1>4. e.op = r.op /\ e.kind = "timer" /\ r.op \notin Clients
  <2>1. OpTypeOK /\ r.kind = KindOf(r.op)
    BY DEF IInv, TypeOK, DispatchMatches, InFlight
  <2>2. r.op \notin Clients
    BY <1>2, <2>1, IouAssumption DEF OpTypeOK, KindOf, ConKinds
  <2> QED BY <1>2, <2>2
<1> HIDE DEF e
<1>5. TypeOK'
  BY <1>1, <1>3 DEF IInv, TypeOK, ClientTypeOK, OpTypeOK
<1>6. FdsOwned' /\ Arrivals'
  BY <1>1, <1>3, <1>4 DEF IInv, FdsOwned, Arrivals
<1>7. MessageFlow'
  BY <1>1, <1>3, <1>4 DEF IInv, MessageFlow, MessageInside, Whole
<1>8. LeftFirst' /\ EchoInOrder'
  BY <1>1, <1>3, <1>4 DEF IInv, LeftFirst, EchoInOrder
<1> QED BY <1>3, <1>5, <1>6, <1>7, <1>8 DEF IInv

\* An accept gives a descriptor nobody uses to a client nobody owns.
LEMMA KernelAcceptStep ==
  ASSUME IInv, RingUp, NEW r \in kern, KernelAccept(r)
  PROVE  IInv'
<1>1. r.kind = "accept" /\ UNCHANGED <<opVars, cpc, sent, taken, echoes, got>>
  BY DEF KernelAccept
<1>2. /\ OpTypeOK /\ ClientTypeOK
      /\ sock \in [Fds -> Clients \cup {None}] /\ r.op \in AllOps
      /\ r.kind = KindOf(r.op)
  BY DEF IInv, TypeOK, RingTypeOK, Sqes, DispatchMatches, InFlight
<1>3. r.op \notin Clients
  BY <1>1, <1>2, IouAssumption DEF OpTypeOK, KindOf, ConKinds
<1>4. PICK res \in Int :
        /\ Complete(r, res)
        /\ \/ \E c \in backlog : /\ res \in FreeFds
                                 /\ backlog' = backlog \ {c}
                                 /\ sock' = [sock EXCEPT ![res] = c]
           \/ res = -1 /\ UNCHANGED <<backlog, sock>>
  BY IouAssumption DEF KernelAccept, FreeFds
<1> DEFINE e == [op |-> r.op, kind |-> r.kind, res |-> res]
<1>5. /\ RingUp'
      /\ Queued' = Queued /\ kern' = kern \ {r} /\ Done' = Done \cup {e}
      /\ Live' = Live
      /\ CtlTypeOK' /\ RingTypeOK'
      /\ SingleOwner' /\ DispatchMatches' /\ BusyMeansLent'
      /\ InFlight' \subseteq InFlight \cup {e}
  <2>1. Complete(r, res) /\ UNCHANGED <<kind, fd, busy, heap, tracked>>
    BY <1>1, <1>4 DEF opVars
  <2> HIDE DEF e
  <2>2. e = [op |-> r.op, kind |-> r.kind, res |-> res]
    BY DEF e
  <2> QED BY <2>1, <2>2, CompleteStep
<1>6. e.op \notin Clients /\ e.kind = "accept" /\ e.res = res
  BY <1>1, <1>3
<1> HIDE DEF e
<1>7. UNCHANGED <<kind, fd, busy, buf, heap, tracked, cpc, sent, taken, echoes,
                  got>>
  BY <1>1 DEF opVars
<1>8. MessageFlow'
  <2>1. \A c, n : MessageInside(c, n)' <=> MessageInside(c, n)
    BY <1>7 DEF MessageInside
  <2> QED BY <1>5, <1>6, <1>7, <2>1 DEF IInv, MessageFlow, Whole
<1>9. LeftFirst' /\ EchoInOrder'
  BY <1>5, <1>6, <1>7 DEF IInv, LeftFirst, EchoInOrder
<1>10. OpTypeOK'
  BY <1>2, <1>7 DEF OpTypeOK
<1>11. CASE res = -1 /\ UNCHANGED <<backlog, sock>>
  <2>1. TypeOK'
    BY <1>2, <1>5, <1>7, <1>10, <1>11 DEF TypeOK, ClientTypeOK
  <2>2. FdsOwned' /\ Arrivals'
    BY <1>5, <1>6, <1>7, <1>11 DEF IInv, FdsOwned, Arrivals
  <2> QED BY <1>5, <1>8, <1>9, <2>1, <2>2 DEF IInv
<1>12. ASSUME NEW c \in backlog, res \in FreeFds, backlog' = backlog \ {c},
              sock' = [sock EXCEPT ![res] = c]
       PROVE  IInv'
  <2>1. c \in Clients /\ res \in Fds /\ sock[res] = None
    BY <1>2, <1>12 DEF ClientTypeOK, FreeFds
  <2>2. /\ sock' \in [Fds -> Clients \cup {None}]
        /\ sock'[res] = c
        /\ \A n \in Fds : n # res => sock'[n] = sock[n]
    BY <1>2, <1>12, <2>1
  <2>3. TypeOK'
    BY <1>2, <1>5, <1>7, <1>10, <1>12, <2>2 DEF TypeOK, ClientTypeOK
  <2>4. FdsOwned'
    <3>1. \A d \in Live : sock[fd[d]] = d => fd[d] # res
      BY <2>1, IouAssumption DEF Live
    <3> QED BY <1>5, <1>6, <1>7, <2>2, <3>1 DEF IInv, FdsOwned
  <2>5. Arrivals'
    <3>1. /\ cpc[c] # "start" /\ heap[c] = "unallocated"
          /\ \A n \in Fds : sock[n] # c
      BY <1>12, <2>1 DEF IInv, Arrivals
    <3>2. \A d \in Clients :
            /\ cpc[d] = "start" => d \notin backlog'
            /\ cpc[d] = "start" \/ d \in backlog' =>
                 heap[d] = "unallocated" /\ \A n \in Fds : sock'[n] # d
      <4>1. /\ backlog' \subseteq backlog
            /\ \A n \in Fds : sock'[n] = sock[n] \/ sock'[n] = c
        BY <1>12, <2>2
      <4>2. \A d \in Clients :
              /\ cpc[d] = "start" => d \notin backlog
              /\ cpc[d] = "start" \/ d \in backlog =>
                   heap[d] = "unallocated" /\ \A n \in Fds : sock[n] # d
        BY DEF IInv, Arrivals
      <4>3. \A d \in Clients : cpc[d] = "start" \/ d \in backlog' => d # c
        BY <1>12, <3>1
      <4> QED BY <4>1, <4>2, <4>3
    <3>3. \A d \in Done : d.kind = "accept" /\ d.res >= 0 =>
            /\ d.res \in Fds /\ sock'[d.res] \in Clients
            /\ heap[sock'[d.res]] = "unallocated"
      <4>1. SUFFICES ASSUME NEW d \in Done, d.kind = "accept", d.res >= 0
                     PROVE  /\ d.res \in Fds /\ sock'[d.res] \in Clients
                            /\ heap[sock'[d.res]] = "unallocated"
        OBVIOUS
      <4>2. /\ d.res \in Fds /\ sock[d.res] \in Clients
            /\ heap[sock[d.res]] = "unallocated"
        BY <4>1 DEF IInv, Arrivals
      <4>3. sock'[d.res] \in {sock[d.res], c}
        BY <2>2, <4>2
      <4> QED BY <2>1, <3>1, <4>2, <4>3
    <3> QED BY <1>5, <1>6, <1>7, <2>1, <2>2, <3>1, <3>2, <3>3 DEF Arrivals
  <2> QED BY <1>5, <1>8, <1>9, <2>3, <2>4, <2>5 DEF IInv
<1> QED BY <1>4, <1>11, <1>12

\* Any completion.
LEMMA KernelCompleteStep ==
  ASSUME IInv, NEW r \in kern, KernelComplete(r)
  PROVE  IInv'
BY KernelAcceptStep, KernelRecvStep, KernelSendStep, KernelCloseStep,
   KernelTimerStep DEF KernelComplete

-----------------------------------------------------------------------------
(***************************************************************************)
(* The handlers of completions.                                            *)
(***************************************************************************)

\* The completion a handler works on is of the operation it dispatched on;
\* its object is in no other place, and if it is a connection's, it is live
\* and, unless it was closed, carries its own descriptor.
LEMMA PopStep ==
  ASSUME IInv, NEW k, Handle(k)
  PROVE  /\ RingUp
         /\ Event \in Done /\ Event \in Cqes
         /\ Event.kind = k /\ KindOf(Event.op) = k
         /\ cq' \in Seq(Cqes) /\ NoRepeat(cq') /\ Done = Done' \cup {Event}
         /\ Event.op \notin Ops(Queued) /\ Event.op \notin Ops(kern)
         /\ Event.op \notin Ops(Done')
         /\ UNCHANGED <<running, sig, kern, sqIdle, sock, cpc, backlog, sent,
                        taken, echoes, got>>
         /\ k \in ConKinds =>
              /\ Event.op \in Clients /\ Event.op \in Live
              /\ kind[Event.op] = k
         /\ k \in {"recv", "send"} =>
              fd[Event.op] \in Fds /\ sock[fd[Event.op]] = Event.op
<1>1. /\ RingUp /\ cq # <<>> /\ cq' = Tail(cq) /\ KindOf(Event.op) = k
      /\ UNCHANGED <<running, sig, kern, sqIdle, sock, cpc, backlog, sent,
                     taken, echoes, got>>
  BY DEF Handle, RingUp, clientVars
<1>2. cq \in Seq(Cqes) /\ NoRepeat(cq)
  BY <1>1 DEF IInv, TypeOK, RingTypeOK, SingleOwner
<1>3. /\ Event \in Done /\ Event \in Cqes /\ cq' \in Seq(Cqes)
      /\ NoRepeat(cq') /\ Done = Done' \cup {Event}
      /\ Event.op \notin Ops(Done')
  BY <1>1, <1>2, ElemsTail DEF Done, Event
<1>4. Event.op \notin Ops(Queued) /\ Event.op \notin Ops(kern)
  BY <1>1, <1>3 DEF IInv, SingleOwner, Ops
<1>5. Event.kind = k /\ Event.op \in AllOps
  BY <1>1, <1>3 DEF IInv, DispatchMatches, InFlight, Cqes
<1>6. ASSUME k \in ConKinds
      PROVE  /\ Event.op \in Clients /\ Event.op \in Live
             /\ kind[Event.op] = k
  <2>1. Event.op \in Clients /\ kind[Event.op] = k
    BY <1>1, <1>5, <1>6, IouAssumption DEF KindOf, ConKinds, AllOps, StackOps
  <2> QED BY <1>1, <1>3, <2>1, IouAssumption
          DEF IInv, SingleOwner, Ops, InFlight
<1>7. ASSUME k \in {"recv", "send"}
      PROVE  fd[Event.op] \in Fds /\ sock[fd[Event.op]] = Event.op
  <2>1. Event.op \in Live
    BY <1>6, <1>7 DEF ConKinds
  <2>2. \A e \in Done : e.op = Event.op => e.kind = k
    BY <1>3, <1>5 DEF Ops
  <2> QED BY <1>1, <1>7, <2>1, <2>2 DEF IInv, FdsOwned
<1> QED BY <1>1, <1>3, <1>4, <1>5, <1>6, <1>7

\* A failed assertion ends the process; what is left is what it had.
LEMMA AbortStep ==
  ASSUME IInv, NEW k, Handle(k), Abort("result") \/ Abort("sq_full")
  PROVE  IInv'
<1>1. /\ pc' = "failed" /\ cause' \in {"result", "sq_full"}
      /\ UNCHANGED <<sq, toSubmit, kind, fd, busy, buf, heap, tracked>>
  BY DEF Abort, opVars
<1>2. /\ cq' \in Seq(Cqes)
      /\ UNCHANGED <<running, sig, kern, sqIdle, sock, cpc, backlog, sent,
                     taken, echoes, got>>
  BY PopStep
<1>3. ~RingUp'
  BY <1>1 DEF RingUp
<1>4. TypeOK'
  <2>1. CtlTypeOK'
    BY <1>1, <1>2 DEF IInv, TypeOK, CtlTypeOK
  <2> QED BY <1>1, <1>2, <2>1
          DEF IInv, TypeOK, ClientTypeOK, RingTypeOK, OpTypeOK
<1>5. SingleOwner'
  BY <1>1, <1>3 DEF IInv, SingleOwner, Live
<1> QED BY <1>1, <1>2, <1>3, <1>4, <1>5
        DEF IInv, DispatchMatches, BusyMeansLent, FdsOwned, Arrivals,
            MessageFlow, LeftFirst, EchoInOrder

\* The object of a completed operation is queued again for the next one.
LEMMA ResubmitStep ==
  ASSUME IInv, NEW k \in {"recv", "send"}, Handle(k),
         NEW n \in ConKinds, RoomFor(1), NEW c, c = Event.op,
         Lend(c, n # "close"), Resubmit(c, n),
         MessageInside(c, IF n = "send" THEN 1 ELSE 0),
         n = "close" => cpc[c] = "gone"
  PROVE  IInv'
<1> DEFINE e == ConSqe(c, n, fd[c])
<1>1. /\ RingUp /\ c \in Clients /\ c \in Live
      /\ fd[c] \in Fds /\ sock[fd[c]] = c
      /\ cq' \in Seq(Cqes) /\ NoRepeat(cq') /\ Done = Done' \cup {Event}
      /\ c \notin Ops(Queued) /\ c \notin Ops(kern) /\ c \notin Ops(Done')
      /\ UNCHANGED <<running, sig, kern, sqIdle, sock, cpc, backlog, sent,
                     taken, echoes, got>>
  BY PopStep DEF ConKinds
<1>2. /\ kind' = [kind EXCEPT ![c] = n]
      /\ busy' = [busy EXCEPT ![c] = (n # "close")]
      /\ sq' = Append(sq, e) /\ toSubmit' = toSubmit + 1
      /\ UNCHANGED <<pc, cause, fd, buf, heap, tracked>>
  BY DEF Resubmit, Lend, Submitted
<1>3. e \in Sqes /\ e.op = c /\ e.kind = n /\ e.fd = fd[c]
  BY <1>1 DEF ConSqe, Sqes, AllOps
<1> HIDE DEF e
<1>4. sq \in Seq(Sqes) /\ NoRepeat(sq)
  BY <1>1 DEF IInv, TypeOK, RingTypeOK, SingleOwner
<1>5. /\ sq' \in Seq(Sqes) /\ Len(sq') = Len(sq) + 1
      /\ Queued' = Queued \cup {e} /\ NoRepeat(sq')
  BY <1>1, <1>2, <1>3, <1>4, ElemsAppend, NoRepeatAppend DEF Queued
<1>6. RingUp' /\ Live' = Live
  BY <1>1, <1>2 DEF RingUp, Live
<1>7. TypeOK'
  <2>1. RingTypeOK'
    BY <1>1, <1>2, <1>5, IouAssumption DEF IInv, TypeOK, RingTypeOK, RoomFor
  <2>2. OpTypeOK'
    BY <1>1, <1>2 DEF IInv, TypeOK, OpTypeOK
  <2> QED BY <1>1, <1>2, <2>1, <2>2 DEF IInv, TypeOK, ClientTypeOK, CtlTypeOK
<1>8. SingleOwner'
  <2>1. Ops(Queued') = Ops(Queued) \cup {c} /\ Ops(Done) = Ops(Done') \cup {c}
    BY <1>1, <1>3, <1>5 DEF Ops
  <2>2. /\ Ops(InFlight) = Ops(Queued) \cup Ops(kern) \cup Ops(Done)
        /\ Ops(InFlight') = Ops(Queued') \cup Ops(kern') \cup Ops(Done')
    BY DEF Ops, InFlight
  <2>3. /\ Ops(Queued) \cap Ops(kern) = {}
        /\ Ops(Queued) \cap Ops(Done) = {}
        /\ Ops(kern) \cap Ops(Done) = {}
        /\ Ops(InFlight) \ {TimerOp} = Live \cup {AcceptOp}
        /\ tracked = Live
        /\ \A r, q \in kern : r.op = q.op => r = q
    BY <1>1 DEF IInv, SingleOwner
  <2>4. /\ Ops(Queued') \cap Ops(kern') = {}
        /\ Ops(Queued') \cap Ops(Done') = {}
        /\ Ops(kern') \cap Ops(Done') = {}
    <3>1. /\ Ops(kern') = Ops(kern)
          /\ c \notin Ops(kern) /\ c \notin Ops(Done')
      BY <1>1
    <3> QED BY <2>1, <2>3, <3>1
  <2>5. Ops(InFlight') = Ops(InFlight)
    BY <1>1, <2>1, <2>2
  <2> QED BY <1>1, <1>2, <1>5, <1>6, <2>3, <2>4, <2>5 DEF SingleOwner
<1>9. \A d \in Queued \cup kern' \cup Done' : d \in InFlight /\ d.op # c
  BY <1>1 DEF Ops, InFlight
<1>10. InFlight' = (Queued \cup kern' \cup Done') \cup {e}
  BY <1>5 DEF InFlight
<1>11. kind'[c] = n /\ busy'[c] = (n # "close")
       /\ \A d : d # c => kind'[d] = kind[d] /\ busy'[d] = busy[d]
  BY <1>1, <1>2 DEF IInv, TypeOK, OpTypeOK
<1>12. DispatchMatches'
  <2>1. KindOf(c)' = n /\ \A d : d # c => KindOf(d)' = KindOf(d)
    BY <1>1, <1>11, IouAssumption DEF KindOf
  <2> QED BY <1>1, <1>3, <1>9, <1>10, <2>1 DEF IInv, DispatchMatches
<1>13. BusyMeansLent'
  BY <1>1, <1>6, <1>11 DEF IInv, BusyMeansLent, ConKinds
<1>14. FdsOwned'
  <2>1. \A d \in Live : \/ \E f \in Done' : f.op = d /\ f.kind = "close"
                        \/ fd[d] \in Fds /\ sock[fd[d]] = d
    BY <1>1 DEF IInv, FdsOwned
  <2> QED BY <1>1, <1>2, <1>3, <1>5, <1>6, <2>1 DEF IInv, FdsOwned
<1>15. Arrivals'
  BY <1>1, <1>2 DEF IInv, Arrivals
<1>16. MessageFlow'
  <2>1. \A d, m : MessageInside(d, m)' <=> MessageInside(d, m)
    BY <1>1, <1>2 DEF MessageInside
  <2> QED BY <1>1, <1>2, <1>3, <1>5, <2>1 DEF IInv, MessageFlow, Whole
<1>17. LeftFirst'
  BY <1>1, <1>3, <1>9, <1>10 DEF IInv, LeftFirst
<1>18. EchoInOrder'
  BY <1>1 DEF IInv, EchoInOrder
<1> QED BY <1>7, <1>8, <1>12, <1>13, <1>14, <1>15, <1>16, <1>17, <1>18
        DEF IInv

\* handle_cqe_recv queues a send for a message, a close for the end of file.
LEMMA HandleRecvStep == IInv /\ HandleRecv => IInv'
<1> SUFFICES ASSUME IInv, HandleRecv PROVE IInv'
  OBVIOUS
<1>1. Handle("recv")
  BY DEF HandleRecv
<1>2. PICK c \in Clients : c = Event.op
  BY <1>1, PopStep DEF ConKinds
<1>3. /\ RingUp /\ Event \in Done /\ Event.kind = "recv"
  BY <1>1, PopStep
<1>4. CASE Abort("result") \/ Abort("sq_full")
  BY <1>1, <1>4, AbortStep
<1>5. CASE Event.res = 0 /\ RoomFor(1) /\ Lend(c, FALSE) /\ Resubmit(c, "close")
  <2>1. cpc[c] = "gone"
    BY <1>2, <1>3, <1>5 DEF IInv, LeftFirst
  <2>2. MessageInside(c, 0)
    BY <1>2, <1>3, <1>5, ClientsAssumption DEF IInv, MessageFlow, Whole
  <2> QED BY <1>1, <1>2, <1>5, <2>1, <2>2, ResubmitStep DEF ConKinds
<1>6. CASE /\ Whole(Event.res) /\ RoomFor(1)
           /\ Lend(c, TRUE) /\ Resubmit(c, "send")
  <2>1. MessageInside(c, 1)
    BY <1>2, <1>3, <1>6 DEF IInv, MessageFlow
  <2> QED BY <1>1, <1>2, <1>6, <2>1, ResubmitStep DEF ConKinds
<1> QED BY <1>2, <1>4, <1>5, <1>6 DEF HandleRecv

\* handle_cqe_send queues the next recv.
LEMMA HandleSendStep == IInv /\ HandleSend => IInv'
<1> SUFFICES ASSUME IInv, HandleSend PROVE IInv'
  OBVIOUS
<1>1. Handle("send")
  BY DEF HandleSend
<1>2. PICK c \in Clients : c = Event.op
  BY <1>1, PopStep DEF ConKinds
<1>3. /\ RingUp /\ Event \in Done /\ Event.kind = "send" /\ Event \in Cqes
  BY <1>1, PopStep
<1>4. CASE Abort("result") \/ Abort("sq_full")
  BY <1>1, <1>4, AbortStep
<1>5. CASE /\ Event.res >= BufSize /\ RoomFor(1)
           /\ Lend(c, TRUE) /\ Resubmit(c, "recv")
  <2>1. Event.res \in Int /\ Event.res <= BufSize
    BY <1>2, <1>3 DEF IInv, MessageFlow, Cqes
  <2>2. Whole(Event.res)
    BY <1>5, <2>1, ClientsAssumption DEF Whole
  <2>3. MessageInside(c, 0)
    BY <1>2, <1>3, <2>2 DEF IInv, MessageFlow
  <2> QED BY <1>1, <1>2, <1>5, <2>3, ResubmitStep DEF ConKinds
<1> QED BY <1>2, <1>4, <1>5 DEF HandleSend

\* The object is freed when its last request has completed.
LEMMA HandleCloseStep == IInv /\ HandleClose => IInv'
<1> SUFFICES ASSUME IInv, HandleClose PROVE IInv'
  OBVIOUS
<1>1. Handle("close")
  BY DEF HandleClose, ClosingClient
<1>2. PICK c \in Clients : c = Event.op
  BY <1>1, PopStep DEF ConKinds
<1>3. /\ RingUp /\ c \in Live /\ Event.kind = "close"
      /\ cq' \in Seq(Cqes) /\ NoRepeat(cq') /\ Done = Done' \cup {Event}
      /\ c \notin Ops(Queued) /\ c \notin Ops(kern) /\ c \notin Ops(Done')
      /\ UNCHANGED <<running, sig, kern, sqIdle, sock, cpc, backlog, sent,
                     taken, echoes, got>>
  BY <1>1, <1>2, PopStep DEF ConKinds
<1>4. /\ fd' = [fd EXCEPT ![c] = -1]
      /\ tracked' = tracked \ {c}
      /\ heap' = [heap EXCEPT ![c] = "freed"]
      /\ UNCHANGED <<pc, cause, kind, busy, buf, sq, toSubmit>>
  BY <1>2 DEF HandleClose, ClosingClient
<1>5. /\ heap'[c] = "freed" /\ \A d : d # c => heap'[d] = heap[d]
      /\ \A d : d # c => fd'[d] = fd[d]
  BY <1>2, <1>4 DEF IInv, TypeOK, OpTypeOK
<1>6. RingUp' /\ Live' = Live \ {c} /\ Queued' = Queued
  BY <1>3, <1>4, <1>5 DEF RingUp, Live, Queued, Elems
<1>7. TypeOK'
  BY <1>3, <1>4
     DEF IInv, TypeOK, ClientTypeOK, CtlTypeOK, RingTypeOK, OpTypeOK
<1>8. SingleOwner'
  <2>1. Ops(Done) = Ops(Done') \cup {c}
    BY <1>2, <1>3 DEF Ops
  <2>2. /\ Ops(InFlight) = Ops(Queued) \cup Ops(kern) \cup Ops(Done)
        /\ Ops(InFlight') = Ops(Queued') \cup Ops(kern') \cup Ops(Done')
    BY DEF Ops, InFlight
  <2>3. /\ Ops(Queued) \cap Ops(kern) = {}
        /\ Ops(Queued) \cap Ops(Done) = {}
        /\ Ops(kern) \cap Ops(Done) = {}
        /\ Ops(InFlight) \ {TimerOp} = Live \cup {AcceptOp}
        /\ tracked = Live
        /\ \A r, q \in kern : r.op = q.op => r = q
        /\ NoRepeat(sq)
    BY <1>3 DEF IInv, SingleOwner
  <2>4. Ops(InFlight') = Ops(InFlight) \ {c}
    BY <1>3, <1>6, <2>1, <2>2
  <2>5. Ops(InFlight') \ {TimerOp} = Live' \cup {AcceptOp} /\ tracked' = Live'
    BY <1>2, <1>4, <1>6, <2>3, <2>4, IouAssumption
  <2>6. NoRepeat(sq')
    BY <1>4, <2>3
  <2> QED BY <1>3, <1>6, <2>1, <2>3, <2>5, <2>6 DEF SingleOwner
<1>9. /\ InFlight' \subseteq InFlight
      /\ \A d \in InFlight' : d.op # c
  BY <1>3, <1>6 DEF InFlight, Ops
<1>10. DispatchMatches' /\ BusyMeansLent'
  BY <1>3, <1>4, <1>6, <1>9
     DEF IInv, DispatchMatches, BusyMeansLent, KindOf
<1>11. FdsOwned'
  <2>1. \A d \in Live' : \/ \E f \in Done' : f.op = d /\ f.kind = "close"
                         \/ fd'[d] \in Fds /\ sock[fd'[d]] = d
    BY <1>2, <1>3, <1>5, <1>6 DEF IInv, FdsOwned
  <2>2. \A e \in Queued' \cup kern' : e.op \in Clients => e.fd = fd'[e.op]
    BY <1>3, <1>5, <1>6, <1>9 DEF IInv, FdsOwned, InFlight
  <2> QED BY <1>3, <2>1, <2>2 DEF FdsOwned
<1>12. Arrivals'
  BY <1>3, <1>4, <1>5 DEF IInv, Arrivals, Live
<1>13. MessageFlow'
  <2>1. \A d, m : MessageInside(d, m)' <=> MessageInside(d, m)
    BY <1>3, <1>4 DEF MessageInside
  <2> QED BY <1>3, <1>5, <1>6, <2>1 DEF IInv, MessageFlow, Whole
<1>14. LeftFirst' /\ EchoInOrder'
  BY <1>3, <1>9 DEF IInv, LeftFirst, EchoInOrder
<1> QED BY <1>7, <1>8, <1>10, <1>11, <1>12, <1>13, <1>14 DEF IInv

\* handle_cqe_timer queues nothing.
LEMMA HandleTimerStep == IInv /\ HandleTimer => IInv'
<1> SUFFICES ASSUME IInv, HandleTimer PROVE IInv'
  OBVIOUS
<1>1. Handle("timer")
  BY DEF HandleTimer
<1>2. /\ RingUp /\ KindOf(Event.op) = "timer" /\ Event \in Cqes
      /\ cq' \in Seq(Cqes) /\ NoRepeat(cq') /\ Done = Done' \cup {Event}
      /\ Event.op \notin Ops(Queued) /\ Event.op \notin Ops(kern)
      /\ Event.op \notin Ops(Done') /\ Event.kind = "timer"
      /\ UNCHANGED <<running, sig, kern, sqIdle, sock, cpc, backlog, sent,
                     taken, echoes, got>>
  BY <1>1, PopStep
<1>3. UNCHANGED <<pc, cause, kind, fd, busy, buf, heap, tracked, sq, toSubmit>>
  BY DEF HandleTimer, opVars
<1>4. Event.op = TimerOp
  BY <1>2 DEF KindOf, Cqes, AllOps, StackOps, IInv, TypeOK, OpTypeOK, ConKinds
<1>5. RingUp' /\ Live' = Live /\ Queued' = Queued
  BY <1>2, <1>3 DEF RingUp, Live, Queued, Elems
<1>6. TypeOK'
  BY <1>2, <1>3
     DEF IInv, TypeOK, ClientTypeOK, CtlTypeOK, RingTypeOK, OpTypeOK
<1>7. SingleOwner'
  <2>1. Ops(Done) = Ops(Done') \cup {TimerOp}
    BY <1>2, <1>4 DEF Ops
  <2>2. /\ Ops(InFlight) = Ops(Queued) \cup Ops(kern) \cup Ops(Done)
        /\ Ops(InFlight') = Ops(Queued') \cup Ops(kern') \cup Ops(Done')
    BY DEF Ops, InFlight
  <2>3. /\ Ops(Queued) \cap Ops(kern) = {}
        /\ Ops(Queued) \cap Ops(Done) = {}
        /\ Ops(kern) \cap Ops(Done) = {}
        /\ Ops(InFlight) \ {TimerOp} = Live \cup {AcceptOp}
        /\ tracked = Live
        /\ \A r, q \in kern : r.op = q.op => r = q
        /\ NoRepeat(sq)
    BY <1>2 DEF IInv, SingleOwner
  <2>4. Ops(InFlight') \ {TimerOp} = Live' \cup {AcceptOp} /\ tracked' = Live'
    BY <1>2, <1>3, <1>5, <2>1, <2>2, <2>3
  <2>5. NoRepeat(sq')
    BY <1>3, <2>3
  <2> QED BY <1>2, <1>5, <2>1, <2>3, <2>4, <2>5 DEF SingleOwner
<1>8. InFlight' \subseteq InFlight
  BY <1>2, <1>5 DEF InFlight
<1>9. DispatchMatches' /\ BusyMeansLent'
  BY <1>2, <1>3, <1>5, <1>8
     DEF IInv, DispatchMatches, BusyMeansLent, KindOf
<1>10. FdsOwned'
  BY <1>2, <1>3, <1>5 DEF IInv, FdsOwned
<1>11. Arrivals'
  BY <1>2, <1>3 DEF IInv, Arrivals
<1>12. MessageFlow'
  <2>1. \A d, m : MessageInside(d, m)' <=> MessageInside(d, m)
    BY <1>2, <1>3 DEF MessageInside
  <2> QED BY <1>2, <1>3, <1>5, <2>1 DEF IInv, MessageFlow, Whole
<1>13. LeftFirst' /\ EchoInOrder'
  BY <1>2, <1>8 DEF IInv, LeftFirst, EchoInOrder
<1> QED BY <1>6, <1>7, <1>9, <1>10, <1>11, <1>12, <1>13 DEF IInv

\* The new connection gets a fresh object, and the accept is queued again.
LEMMA NewClientStep ==
  ASSUME IInv, Handle("accept"), Event.res >= 0, RoomFor(2),
         NEW c, c = sock[Event.res],
         heap' = [heap EXCEPT ![c] = "live"],
         fd' = [fd EXCEPT ![c] = Event.res],
         kind' = [kind EXCEPT ![c] = "recv"],
         busy' = [busy EXCEPT ![c] = TRUE],
         tracked' = tracked \cup {c},
         sq' = sq \o <<ConSqe(c, "recv", Event.res), AcceptSqe>>,
         toSubmit' = toSubmit + 2,
         UNCHANGED <<pc, cause, buf>>
  PROVE  IInv'
<1> DEFINE e == ConSqe(c, "recv", Event.res)
           a == AcceptSqe
<1>1. /\ RingUp /\ KindOf(Event.op) = "accept" /\ Event \in Cqes
      /\ cq' \in Seq(Cqes) /\ NoRepeat(cq') /\ Done = Done' \cup {Event}
      /\ Event.op \notin Ops(Queued) /\ Event.op \notin Ops(kern)
      /\ Event.op \notin Ops(Done') /\ Event.kind = "accept"
      /\ UNCHANGED <<running, sig, kern, sqIdle, sock, cpc, backlog, sent,
                     taken, echoes, got>>
  BY PopStep
<1>2. Event.op = AcceptOp
  BY <1>1 DEF KindOf, Cqes, AllOps, StackOps, IInv, TypeOK, OpTypeOK, ConKinds
<1>3. /\ Event.res \in Fds /\ c \in Clients /\ heap[c] = "unallocated"
      /\ c # AcceptOp /\ c # TimerOp
  BY <1>1, IouAssumption DEF IInv, Arrivals
<1>4. /\ e \in Sqes /\ e.op = c /\ e.kind = "recv" /\ e.fd = Event.res
      /\ a \in Sqes /\ a.op = AcceptOp /\ a.kind = "accept"
  BY <1>3 DEF ConSqe, AcceptSqe, Sqes, AllOps, StackOps, ConKinds, LsFd
<1> HIDE DEF e, a
<1>5. /\ kind'[c] = "recv" /\ fd'[c] = Event.res /\ busy'[c] = TRUE
      /\ heap'[c] = "live"
      /\ \A d : d # c => /\ kind'[d] = kind[d] /\ fd'[d] = fd[d]
                         /\ busy'[d] = busy[d] /\ heap'[d] = heap[d]
  BY <1>3 DEF IInv, TypeOK, OpTypeOK
<1>6. RingUp' /\ Live' = Live \cup {c} /\ c \notin Live
  BY <1>1, <1>3, <1>5 DEF RingUp, Live
<1>7. c \notin Ops(Queued) /\ c \notin Ops(kern) /\ c \notin Ops(Done)
  BY <1>1, <1>3, <1>6 DEF IInv, SingleOwner, Ops, InFlight
<1>8. /\ sq' \in Seq(Sqes) /\ Len(sq') = Len(sq) + 2
      /\ Queued' = Queued \cup {e, a} /\ NoRepeat(sq')
  <2>1. sq \in Seq(Sqes) /\ NoRepeat(sq)
    BY <1>1 DEF IInv, TypeOK, RingTypeOK, SingleOwner
  <2>2. sq' = sq \o <<e, a>>
    BY DEF e, a
  <2>3. AcceptOp \notin Ops(Elems(sq)) /\ c \notin Ops(Elems(sq))
    BY <1>1, <1>2, <1>7 DEF Queued
  <2> QED BY <1>3, <1>4, <2>1, <2>2, <2>3, ElemsAppendTwo DEF Queued
<1>9. TypeOK'
  <2>1. RingTypeOK'
    BY <1>1, <1>8, IouAssumption DEF IInv, TypeOK, RingTypeOK, RoomFor
  <2>2. OpTypeOK'
    BY <1>3 DEF IInv, TypeOK, OpTypeOK, ConKinds
  <2> QED BY <1>1, <2>1, <2>2 DEF IInv, TypeOK, ClientTypeOK, CtlTypeOK
<1>10. SingleOwner'
  <2>1. Ops(Queued') = Ops(Queued) \cup {c, AcceptOp}
        /\ Ops(Done) = Ops(Done') \cup {AcceptOp}
    BY <1>1, <1>2, <1>4, <1>8 DEF Ops
  <2>2. /\ Ops(InFlight) = Ops(Queued) \cup Ops(kern) \cup Ops(Done)
        /\ Ops(InFlight') = Ops(Queued') \cup Ops(kern') \cup Ops(Done')
    BY DEF Ops, InFlight
  <2>3. /\ Ops(Queued) \cap Ops(kern) = {}
        /\ Ops(Queued) \cap Ops(Done) = {}
        /\ Ops(kern) \cap Ops(Done) = {}
        /\ Ops(InFlight) \ {TimerOp} = Live \cup {AcceptOp}
        /\ tracked = Live
        /\ \A r, q \in kern : r.op = q.op => r = q
    BY <1>1 DEF IInv, SingleOwner
  <2>4. /\ Ops(kern') = Ops(kern)
        /\ AcceptOp \notin Ops(kern) /\ AcceptOp \notin Ops(Done')
    BY <1>1, <1>2
  <2>5. /\ Ops(Queued') \cap Ops(kern') = {}
        /\ Ops(Queued') \cap Ops(Done') = {}
        /\ Ops(kern') \cap Ops(Done') = {}
    BY <1>7, <2>1, <2>3, <2>4
  <2>6. Ops(InFlight') = Ops(InFlight) \cup {c}
    BY <2>1, <2>2, <2>4
  <2>7. Ops(InFlight') \ {TimerOp} = Live' \cup {AcceptOp} /\ tracked' = Live'
    BY <1>3, <1>6, <2>3, <2>6
  <2> QED BY <1>1, <1>8, <2>3, <2>5, <2>7 DEF SingleOwner
<1>11. \A d \in Queued \cup kern' \cup Done' : d \in InFlight /\ d.op # c
  BY <1>1, <1>7 DEF Ops, InFlight
<1>12. InFlight' = (Queued \cup kern' \cup Done') \cup {e, a}
  BY <1>8 DEF InFlight
<1>13. DispatchMatches'
  <2>1. KindOf(c)' = "recv" /\ KindOf(AcceptOp)' = "accept"
        /\ \A d : d # c => KindOf(d)' = KindOf(d)
    BY <1>3, <1>5 DEF KindOf
  <2> QED BY <1>1, <1>4, <1>11, <1>12, <2>1 DEF IInv, DispatchMatches
<1>14. BusyMeansLent'
  BY <1>1, <1>5, <1>6 DEF IInv, BusyMeansLent
<1>15. FdsOwned'
  <2>1. \A d \in Live' : \/ \E f \in Done' : f.op = d /\ f.kind = "close"
                         \/ fd'[d] \in Fds /\ sock'[fd'[d]] = d
    <3>1. sock'[fd'[c]] = c /\ fd'[c] \in Fds
      BY <1>1, <1>3, <1>5
    <3>2. \A d \in Live : \/ \E f \in Done' : f.op = d /\ f.kind = "close"
                          \/ fd[d] \in Fds /\ sock[fd[d]] = d
      BY <1>1 DEF IInv, FdsOwned
    <3> QED BY <1>1, <1>5, <1>6, <3>1, <3>2
  <2>2. \A d \in Queued' \cup kern' : d.op \in Clients => d.fd = fd'[d.op]
    BY <1>1, <1>4, <1>5, <1>8, <1>11, IouAssumption DEF IInv, FdsOwned
  <2> QED BY <2>1, <2>2 DEF FdsOwned
<1>16. Arrivals'
  <2>1. cpc[c] # "start" /\ c \notin backlog
    BY <1>3 DEF IInv, Arrivals
  <2>2. \A d \in Done' : d.kind # "accept"
    <3>1. \A d \in Done' : d.op # AcceptOp /\ d.kind = KindOf(d.op)
      BY <1>1, <1>2 DEF IInv, DispatchMatches, InFlight, Ops
    <3>2. Done' \subseteq Cqes
      BY <1>1, ElemsIn DEF Done
    <3> QED BY <3>1, <3>2 DEF Cqes, KindOf, AllOps, StackOps, IInv, TypeOK, OpTypeOK,
                        ConKinds
  <2> QED BY <1>1, <1>5, <2>1, <2>2 DEF IInv, Arrivals
<1>17. MessageFlow'
  <2>1. \A d, m : MessageInside(d, m)' <=> MessageInside(d, m)
    BY <1>1 DEF MessageInside
  <2>2. MessageInside(c, 0)
    BY <1>3 DEF IInv, MessageFlow, MessageInside
  <2>3. \A d \in Queued' \cup kern' : d.op \in Clients =>
          MessageInside(d.op, IF d.kind = "send" THEN 1 ELSE 0)
    BY <1>1, <1>4, <1>8, <2>2, IouAssumption DEF IInv, MessageFlow
  <2> QED BY <1>1, <1>5, <2>1, <2>3 DEF IInv, MessageFlow, Whole
<1>18. LeftFirst' /\ EchoInOrder'
  BY <1>1, <1>4, <1>11, <1>12 DEF IInv, LeftFirst, EchoInOrder
<1> QED BY <1>9, <1>10, <1>13, <1>14, <1>15, <1>16, <1>17, <1>18 DEF IInv

\* handle_cqe_accept.
LEMMA HandleAcceptStep == IInv /\ HandleAccept => IInv'
<1> SUFFICES ASSUME IInv, HandleAccept PROVE IInv'
  OBVIOUS
<1>1. Handle("accept")
  BY DEF HandleAccept, NewClient
<1>2. CASE Abort("result") \/ Abort("sq_full")
  BY <1>1, <1>2, AbortStep
<1>3. CASE ~(Abort("result") \/ Abort("sq_full"))
  <2>1. PICK c : c = sock[Event.res]
    OBVIOUS
  <2> QED BY <1>1, <1>3, <2>1, NewClientStep
          DEF HandleAccept, NewClient, Lend, Submitted
<1> QED BY <1>2, <1>3

-----------------------------------------------------------------------------
(***************************************************************************)
(* The clients and the cleanup.                                            *)
(***************************************************************************)

\* What clients do leaves rings and objects alone.
LEMMA ClientMoveStep ==
  ASSUME IInv, NEW c \in Clients, ClientMove(c)
  PROVE  IInv'
<1> USE DEF opVars, ringVars, ctlVars
<1>1. UNCHANGED <<pc, running, sig, cause, sq, toSubmit, kern, cq, sqIdle,
                  kind, fd, busy, buf, heap, tracked, sock, taken, echoes>>
  BY DEF ClientMove, ClientStep, ClientConnect, ClientSend, ClientRecv,
         ClientClose
<1>2. ClientTypeOK
  BY DEF IInv, TypeOK
<1>3. /\ ClientTypeOK'
      /\ \A d \in Clients : sent[d] <= sent'[d]
      /\ \A d \in Clients : cpc[d] = "gone" => cpc'[d] = "gone"
      /\ \A d \in Clients : cpc'[d] = "start" \/ d \in backlog' =>
                              cpc[d] = "start" \/ d \in backlog
      /\ \A d \in Clients :
           (cpc[d] = "start" => d \notin backlog) =>
             (cpc'[d] = "start" => d \notin backlog')
  <2> USE <1>2 DEF ClientTypeOK
  <2>1. CASE ClientConnect(c)
    BY <1>1, <2>1 DEF ClientConnect
  <2>2. CASE ClientSend(c)
    BY <1>1, <2>2 DEF ClientSend
  <2>3. CASE ClientRecv(c)
    BY <1>1, <2>3 DEF ClientRecv
  <2>4. CASE ClientClose(c)
    BY <1>1, <2>4 DEF ClientClose
  <2> QED BY <2>1, <2>2, <2>3, <2>4 DEF ClientMove, ClientStep
<1>4. /\ Queued' = Queued /\ Done' = Done /\ InFlight' = InFlight
      /\ Live' = Live /\ (RingUp' <=> RingUp)
      /\ \A d : KindOf(d)' = KindOf(d)
      /\ \A d, n : MessageInside(d, n)' <=> MessageInside(d, n)
  BY <1>1 DEF Queued, Done, InFlight, Live, RingUp, KindOf, MessageInside
<1>5. TypeOK'
  BY <1>1, <1>3 DEF IInv, TypeOK, CtlTypeOK, RingTypeOK, OpTypeOK
<1>6. SingleOwner' /\ DispatchMatches' /\ BusyMeansLent' /\ FdsOwned'
  BY <1>1, <1>4
     DEF IInv, SingleOwner, DispatchMatches, BusyMeansLent, FdsOwned
<1>7. Arrivals'
  BY <1>1, <1>3, <1>4 DEF IInv, Arrivals
<1>8. MessageFlow'
  BY <1>1, <1>4 DEF IInv, MessageFlow, Whole
<1>9. LeftFirst'
  <2>1. \A e \in InFlight : RingUp /\ e.kind \in ConKinds => e.op \in Clients
    <3>1. \A e \in InFlight : e.op \in AllOps
      <4>1. /\ Queued \subseteq Sqes /\ Done \subseteq Cqes
            /\ kern \subseteq Sqes
        BY ElemsIn DEF IInv, TypeOK, RingTypeOK, Queued, Done
      <4>2. \A e \in Sqes \cup Cqes : e.op \in AllOps
        BY DEF Sqes, Cqes
      <4> QED BY <4>1, <4>2 DEF InFlight
    <3> QED BY <3>1 DEF IInv, DispatchMatches, KindOf, ConKinds, AllOps,
                        StackOps
  <2> QED BY <1>3, <1>4, <2>1 DEF IInv, LeftFirst, ConKinds, InFlight
<1>10. EchoInOrder'
  <2>1. \A d \in Clients : /\ taken[d] \in Nat /\ sent[d] \in Nat
                           /\ sent'[d] \in Nat
    BY <1>2, <1>3 DEF ClientTypeOK
  <2> QED BY <1>1, <1>3, <2>1 DEF IInv, EchoInOrder
<1> QED BY <1>5, <1>6, <1>7, <1>8, <1>9, <1>10 DEF IInv

\* Once the rings are gone only the list of objects is left to look after.
LEMMA AfterRing ==
  ASSUME IInv, ~RingUp', TypeOK', tracked' = Live',
         \A c \in Clients :
           /\ heap'[c] = "unallocated" => heap[c] = "unallocated"
           /\ \A n \in Fds : sock'[n] = c => sock[n] = c,
         \A c \in Clients :
           heap[c] = "unallocated" => heap'[c] = "unallocated",
         UNCHANGED clientVars
  PROVE  IInv'
<1> USE DEF clientVars
<1>1. SingleOwner' /\ DispatchMatches' /\ BusyMeansLent' /\ FdsOwned'
  BY DEF SingleOwner, DispatchMatches, BusyMeansLent, FdsOwned
<1>2. Arrivals' /\ MessageFlow' /\ LeftFirst' /\ EchoInOrder'
  BY DEF IInv, Arrivals, MessageFlow, LeftFirst, EchoInOrder
<1> QED BY <1>1, <1>2 DEF IInv

\* iou_free drops every request.
LEMMA FreeRingStep == IInv /\ FreeRing => IInv'
<1> SUFFICES ASSUME IInv, FreeRing PROVE IInv'
  OBVIOUS
<1> USE DEF opVars, clientVars
<1>1. TypeOK'
  BY IouAssumption
     DEF FreeRing, IInv, TypeOK, ClientTypeOK, CtlTypeOK, RingTypeOK, OpTypeOK
<1>2. ~RingUp' /\ Live' = Live /\ UNCHANGED <<heap, tracked, sock, clientVars>>
  BY DEF FreeRing, RingUp, Live
<1> QED BY <1>1, <1>2, AfterRing DEF IInv, SingleOwner

\* One round of the loop of do_service_loop_cleanup.
LEMMA CloseOneStep ==
  ASSUME IInv, NEW c \in Clients, CloseOne(c)
  PROVE  IInv'
<1> USE DEF opVars, clientVars, ringVars
<1>1. /\ c \in tracked /\ pc = "closing" /\ tracked = Live
      /\ UNCHANGED <<running, sig, sq, toSubmit, kern, cq, sqIdle, clientVars>>
  BY DEF CloseOne, IInv, SingleOwner
<1>2. CASE sock[fd[c]] = None
  <2>1. /\ pc' = "failed" /\ cause' = "close"
        /\ UNCHANGED <<kind, fd, busy, buf, heap, tracked, sock>>
    BY <1>2 DEF CloseOne
  <2>2. TypeOK'
    BY <1>1, <2>1
       DEF IInv, TypeOK, ClientTypeOK, CtlTypeOK, RingTypeOK, OpTypeOK
  <2>3. ~RingUp' /\ Live' = Live
    BY <2>1 DEF RingUp, Live
  <2> QED BY <1>1, <2>1, <2>2, <2>3, AfterRing
<1>3. CASE sock[fd[c]] # None
  <2>1. /\ sock' = [sock EXCEPT ![fd[c]] = None]
        /\ tracked' = tracked \ {c}
        /\ heap' = [heap EXCEPT ![c] = "freed"]
        /\ UNCHANGED <<pc, cause, kind, fd, busy, buf>>
    BY <1>3 DEF CloseOne
  <2>2. /\ sock' \in [Fds -> Clients \cup {None}]
        /\ \A n \in Fds : sock'[n] \in {None, sock[n]}
    BY <2>1 DEF IInv, TypeOK
  <2>3. /\ heap'[c] = "freed" /\ heap[c] = "live"
        /\ \A d \in Clients : d # c => heap'[d] = heap[d]
    BY <1>1, <2>1 DEF IInv, TypeOK, OpTypeOK, Live
  <2>4. TypeOK'
    BY <1>1, <2>1, <2>2
       DEF IInv, TypeOK, ClientTypeOK, CtlTypeOK, RingTypeOK, OpTypeOK
  <2>5. ~RingUp' /\ tracked' = Live'
    BY <1>1, <2>1, <2>3 DEF RingUp, Live
  <2>6. \A d \in Clients : None # d
    BY IouAssumption
  <2>7. \A d \in Clients, n \in Fds : sock'[n] = d => sock[n] = d
    BY <2>2, <2>6
  <2>8. \A d \in Clients : heap'[d] = "unallocated" <=> heap[d] = "unallocated"
    BY <2>3
  <2> QED BY <1>1, <2>4, <2>5, <2>7, <2>8, AfterRing
<1> QED BY <1>2, <1>3

-----------------------------------------------------------------------------
(***************************************************************************)
(* The theorems.                                                           *)
(***************************************************************************)

\* Every step preserves the invariant: one case per action of Next.
LEMMA NextIInv == IInv /\ [Next]_vars => IInv'
<1> SUFFICES ASSUME IInv, [Next]_vars PROVE IInv'
  OBVIOUS
<1>1. CASE \/ BlockSignals \/ SendSignal \/ DeliverSignal \/ LoopExit
           \/ EnterReturn \/ WakeOrSpin \/ KernelIdle \/ CloseDone
           \/ UNCHANGED vars
  BY <1>1, ControlSteps
<1>2. CASE EnterSubmit \/ KernelConsume
  BY <1>2, EnterSubmitStep, KernelConsumeStep
<1>3. ASSUME NEW r \in kern, KernelComplete(r) PROVE IInv'
  BY <1>3, KernelCompleteStep
<1>4. CASE HandleAccept \/ HandleRecv \/ HandleSend \/ HandleClose
           \/ HandleTimer
  BY <1>4, HandleAcceptStep, HandleRecvStep, HandleSendStep, HandleCloseStep,
     HandleTimerStep
<1>5. CASE FreeRing
  BY <1>5, FreeRingStep
<1>6. ASSUME NEW c \in Clients, CloseOne(c) PROVE IInv'
  BY <1>6, CloseOneStep
<1>7. ASSUME NEW c \in Clients, ClientMove(c) PROVE IInv'
  BY <1>7, ClientMoveStep
<1> QED
  BY <1>1, <1>2, <1>3, <1>4, <1>5, <1>6, <1>7
     DEF Next, ServerStep, KernelStep, Terminating

\* IInv, the inductive invariant of the io_uring server, holds in every state
\* of every run.
THEOREM Invariance == SafeSpec => []IInv
<1>1. Init => IInv
  BY InitIInv
<1>2. IInv /\ [Next]_vars => IInv'
  BY NextIInv
<1> QED BY <1>1, <1>2, PTL DEF SafeSpec

\* Every variable keeps its type, and the submission queue its capacity, in
\* every run of the program.
THEOREM TypeCorrect == SafeSpec => []TypeOK
<1>1. IInv => TypeOK
  BY DEF IInv
<1> QED BY <1>1, Invariance, PTL

\* No iou_op is lost, queued twice, freed while the kernel holds its address,
\* or missing from mem_allocs_tracker.
THEOREM Ownership == SafeSpec => []SingleOwner
<1>1. IInv => SingleOwner
  BY DEF IInv
<1> QED BY <1>1, Invariance, PTL

\* The operation service_cqe_events finds in op->op is the one that completed.
THEOREM Dispatch == SafeSpec => []DispatchMatches
<1>1. IInv => DispatchMatches
  BY DEF IInv
<1> QED BY <1>1, Invariance, PTL

\* info_con.busy tells whether the buffer of an object is with the kernel.
THEOREM BusyFlag == SafeSpec => []BusyMeansLent
<1>1. IInv => BusyMeansLent
  BY DEF IInv
<1> QED BY <1>1, Invariance, PTL

\* No request names a descriptor that meanwhile belongs to another client.
THEOREM Descriptors == SafeSpec => []FdsOwned
<1>1. IInv => FdsOwned
  BY DEF IInv
<1> QED BY <1>1, Invariance, PTL

\* Every client is sent its own messages, in order and each once.
THEOREM EchoOrder == SafeSpec => []EchoInOrder
<1>1. IInv => EchoInOrder
  BY DEF IInv
<1> QED BY <1>1, Invariance, PTL

=============================================================================
