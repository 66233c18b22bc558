------------------------------ MODULE PollProofs ------------------------------
(***************************************************************************)
(* Proofs about PollServer, for any number of clients, any set of          *)
(* descriptors, any initial size of the vector, with and without the       *)
(* warm-up timer and with every fault of EchoClients.                      *)
(***************************************************************************)
EXTENDS PollServer, EchoClientsProofs

-----------------------------------------------------------------------------
(***************************************************************************)
(* The two arrays.                                                         *)
(***************************************************************************)

\* An array given entry by entry.
LEMMA SeqMake ==
  ASSUME NEW S, NEW n \in Nat, NEW f \in [1..n -> S]
  PROVE  f \in Seq(S) /\ Len(f) = n /\ DOMAIN f = 1..n
  OBVIOUS

\* The places of an array.
LEMMA SeqPlaces ==
  ASSUME NEW S, NEW s \in Seq(S)
  PROVE  /\ Len(s) \in Nat /\ DOMAIN s = 1..Len(s)
         /\ \A k \in 1..Len(s) : s[k] \in S
  OBVIOUS

\* A place is written.
LEMMA SeqWrite ==
  ASSUME NEW S, NEW s \in Seq(S), NEW k \in 1..Len(s), NEW e \in S
  PROVE  /\ [s EXCEPT ![k] = e] \in Seq(S)
         /\ Len([s EXCEPT ![k] = e]) = Len(s)
         /\ \A j \in 1..Len(s) :
              [s EXCEPT ![k] = e][j] = IF j = k THEN e ELSE s[j]
  OBVIOUS

\* pollfdv_add: the new entry is the last one.
LEMMA SeqAdd ==
  ASSUME NEW S, NEW s \in Seq(S), NEW e \in S
  PROVE  /\ Append(s, e) \in Seq(S)
         /\ Len(Append(s, e)) = Len(s) + 1
         /\ \A j \in 1..Len(s) : Append(s, e)[j] = s[j]
         /\ Append(s, e)[Len(s) + 1] = e
<1>1. Append(s, e) \in Seq(S) /\ Len(Append(s, e)) = Len(s) + 1
  OBVIOUS
<1>2. \A j \in 1..Len(s) : Append(s, e)[j] = s[j]
  OBVIOUS
<1>3. Append(s, e)[Len(s) + 1] = e
  <2>1. PICK n \in Nat : n = Len(s)
    OBVIOUS
  <2>2. n + 1 \in 1..(n + 1) /\ Append(s, e)[n + 1] = e
    BY <2>1
  <2> QED BY <2>1, <2>2
<1> QED BY <1>1, <1>2, <1>3

\* The first entries.
LEMMA SeqTake ==
  ASSUME NEW S, NEW s \in Seq(S), NEW n \in Nat, n <= Len(s)
  PROVE  /\ SubSeq(s, 1, n) \in Seq(S) /\ Len(SubSeq(s, 1, n)) = n
         /\ \A j \in 1..n : SubSeq(s, 1, n)[j] = s[j]
  OBVIOUS

\* pollfdv_remove_index: the last entry takes the place of the removed one.
LEMMA SeqMove ==
  ASSUME NEW S, NEW s \in Seq(S), NEW k \in 1..Len(s)
  PROVE  /\ Front([s EXCEPT ![k] = Last(s)]) \in Seq(S)
         /\ Len(Front([s EXCEPT ![k] = Last(s)])) = Len(s) - 1
         /\ \A j \in 1..(Len(s) - 1) :
              Front([s EXCEPT ![k] = Last(s)])[j]
                = IF j = k THEN s[Len(s)] ELSE s[j]
<1>1. PICK r : r = Front([s EXCEPT ![k] = Last(s)])
  OBVIOUS
<1>2. Len(s) \in Nat /\ Len(s) \in 1..Len(s) /\ s[Len(s)] \in S
  OBVIOUS
<1>3. PICK t : t = [s EXCEPT ![k] = s[Len(s)]]
  OBVIOUS
<1>4. t = [s EXCEPT ![k] = Last(s)]
  BY <1>3 DEF Last
<1>5. /\ t \in Seq(S) /\ Len(t) = Len(s)
      /\ \A j \in 1..Len(s) : t[j] = IF j = k THEN s[Len(s)] ELSE s[j]
  BY <1>2, <1>3, SeqWrite
<1>6. r = SubSeq(t, 1, Len(s) - 1)
  BY <1>1, <1>4, <1>5 DEF Front
<1>7. /\ r \in Seq(S) /\ Len(r) = Len(s) - 1
      /\ \A j \in 1..(Len(s) - 1) : r[j] = t[j]
  <2>1. PICK n : n = Len(s) - 1
    OBVIOUS
  <2>2. n \in Nat /\ n <= Len(s)
    BY <1>2, <2>1
  <2>3. n <= Len(t)
    BY <1>5, <2>2
  <2>4. /\ SubSeq(t, 1, n) \in Seq(S) /\ Len(SubSeq(t, 1, n)) = n
        /\ \A j \in 1..n : SubSeq(t, 1, n)[j] = t[j]
    BY <1>5, <2>2, <2>3, SeqTake
  <2> QED BY <1>6, <2>1, <2>4
<1>8. \A j \in 1..(Len(s) - 1) : j \in 1..Len(s)
  BY <1>2
<1>9. \A j \in 1..(Len(s) - 1) : r[j] = IF j = k THEN s[Len(s)] ELSE s[j]
  BY <1>5, <1>7, <1>8
<1> QED BY <1>1, <1>7, <1>9

-----------------------------------------------------------------------------
(***************************************************************************)
(* Counting events.                                                        *)
(***************************************************************************)

Marked(d, K) == {k \in K : HasEvent(d, k)}

\* There are finitely many events, and none in an empty range.
LEMMA CountType ==
  ASSUME NEW d, NEW a \in Int, NEW b \in Int
  PROVE  /\ IsFiniteSet(Marked(d, a..b)) /\ EventsIn(d, a..b) \in Nat
         /\ EventsIn(d, a..b) = Cardinality(Marked(d, a..b))
         /\ a > b => EventsIn(d, a..b) = 0
<1>1. IsFiniteSet(a..b)
  BY FS_Interval
<1>2. Marked(d, a..b) \in SUBSET (a..b)
  BY DEF Marked
<1>3. IsFiniteSet(Marked(d, a..b)) /\ Cardinality(Marked(d, a..b)) \in Nat
  BY <1>1, <1>2, FS_Subset, FS_CardinalityType
<1>4. a > b => Marked(d, a..b) = {}
  BY DEF Marked
<1> QED BY <1>3, <1>4, FS_EmptySet DEF EventsIn, Marked

\* The same entries are marked: the count is the same.
LEMMA CountSame ==
  ASSUME NEW d, NEW e, NEW K, \A k \in K : HasEvent(d, k) <=> HasEvent(e, k)
  PROVE  EventsIn(d, K) = EventsIn(e, K)
<1>1. {k \in K : HasEvent(d, k)} = {k \in K : HasEvent(e, k)}
  OBVIOUS
<1> QED BY <1>1 DEF EventsIn

\* One mark less.
LEMMA CountLess ==
  ASSUME NEW d, NEW e, NEW a \in Int, NEW b \in Int, NEW c \in Int,
         NEW x \in Marked(d, a..b),
         Marked(e, c..b) = Marked(d, a..b) \ {x}
  PROVE  EventsIn(e, c..b) = EventsIn(d, a..b) - 1
<1>1. /\ IsFiniteSet(Marked(d, a..b))
      /\ EventsIn(d, a..b) = Cardinality(Marked(d, a..b))
      /\ EventsIn(e, c..b) = Cardinality(Marked(e, c..b))
  BY CountType
<1> QED BY <1>1, FS_RemoveElement

\* The walk passes an entry.
LEMMA CountPass ==
  ASSUME NEW d, NEW a \in Int, NEW b \in Int, a <= b
  PROVE  EventsIn(d, (a + 1)..b)
           = IF HasEvent(d, a) THEN EventsIn(d, a..b) - 1 ELSE EventsIn(d, a..b)
<1>1. CASE HasEvent(d, a)
  <2>1. a \in Marked(d, a..b)
    BY <1>1 DEF Marked
  <2>2. Marked(d, (a + 1)..b) = Marked(d, a..b) \ {a}
    BY DEF Marked
  <2> QED BY <1>1, <2>1, <2>2, CountLess
<1>2. CASE ~HasEvent(d, a)
  <2>1. Marked(d, (a + 1)..b) = Marked(d, a..b)
    BY <1>2 DEF Marked
  <2> QED BY <1>2, <2>1, CountType
<1> QED BY <1>1, <1>2

-----------------------------------------------------------------------------
(***************************************************************************)
(* Helpers about the state.                                                *)
(***************************************************************************)

Entry == [fd : Fds \cup {LsFd, -1}, revents : SUBSET {"in", "hup"}]
Object == Clients \cup {None, Orphan}

\* The timer's descriptor is one; the listening socket's and -1 are none.
LEMMA FdTypes ==
  /\ TimerFd \in Fds /\ LsFd = 0 /\ LsFd \notin Fds /\ -1 \notin Fds
  /\ \A n \in Fds : n # LsFd /\ n # -1
<1>1. Fds \subseteq Nat \ {0} /\ Fds # {}
  BY PollAssumption
<1>2. \E n \in Fds : \A m \in Fds : n <= m
  BY <1>1, Smallest
<1>3. TimerFd \in Fds
  BY <1>2 DEF TimerFd
<1> QED BY <1>1, <1>3 DEF LsFd

\* The vector, entry by entry.
LEMMA VectorTypes ==
  ASSUME TypeOK
  PROVE  /\ Len(data) \in Nat /\ Len(pd) = Len(data)
         /\ DOMAIN data = 1..Len(data) /\ DOMAIN pd = 1..Len(data)
         /\ data \in Seq(Entry) /\ pd \in Seq(Object)
         /\ \A k \in 1..Len(data) :
              /\ data[k] \in Entry
              /\ data[k].fd \in Fds \cup {LsFd, -1}
              /\ data[k].revents \subseteq {"in", "hup"}
              /\ pd[k] \in Clients \cup {None, Orphan}
<1>1. data \in Seq(Entry) /\ pd \in Seq(Object)
      /\ Len(pd) = Len(data)
  BY DEF TypeOK, Entry, Object
<1>2. /\ Len(data) \in Nat /\ DOMAIN data = 1..Len(data)
      /\ DOMAIN pd = 1..Len(data)
      /\ \A k \in 1..Len(data) :
           data[k] \in Entry /\ pd[k] \in Object
  BY <1>1, SeqPlaces
<1>3. \A e \in Entry : e.fd \in Fds \cup {LsFd, -1}
                       /\ e.revents \subseteq {"in", "hup"}
  BY DEF Entry
<1>4. \A k \in 1..Len(data) : /\ data[k].fd \in Fds \cup {LsFd, -1}
                              /\ data[k].revents \subseteq {"in", "hup"}
  BY <1>2, <1>3
<1> QED BY <1>1, <1>2, <1>4 DEF Object

\* What ppoll says of a descriptor.
LEMMA ReventsFacts ==
  ASSUME NEW n \in Fds \cup {LsFd, -1}
  PROVE  /\ Revents(n) \subseteq {"in", "hup"}
         /\ Revents(n) # {} => "in" \in Revents(n) /\ n # -1
         /\ n \in Fds /\ sock[n] \in Clients =>
              /\ Revents(n) # {} =>
                   Pending(sock[n]) > 0 \/ cpc[sock[n]] = "gone"
              /\ "hup" \in Revents(n) => cpc[sock[n]] = "gone"
<1>1. CASE n = LsFd
  BY <1>1, FdTypes DEF Revents
<1>2. CASE n \in Fds /\ sock[n] = Timer
  BY <1>2, FdTypes, PollAssumption DEF Revents
<1>3. CASE n \in Fds /\ sock[n] \in Clients
  <2>1. Timer \notin Clients /\ n # LsFd /\ n # -1
    BY <1>3, FdTypes, PollAssumption
  <2>2. Revents(n)
          = (IF Pending(sock[n]) > 0 \/ cpc[sock[n]] = "gone" THEN {"in"}
             ELSE {})
              \cup (IF Reset(sock[n]) THEN {"hup"} ELSE {})
    BY <1>3, <2>1 DEF Revents
  <2> QED BY <1>3, <2>1, <2>2 DEF Reset
<1>4. CASE n # LsFd /\ ~ (n \in Fds /\ sock[n] \in Clients \cup {Timer})
  <2>1. Revents(n) = {}
    BY <1>4 DEF Revents
  <2> QED BY <1>4, <2>1
<1> QED BY <1>1, <1>2, <1>3, <1>4

\* The entry the walk stands at, and what it is of.
LEMMA AtEntry ==
  ASSUME PInv, Here
  PROVE  /\ pc = "serve" /\ i \in 1..Len(data) /\ i \in Nat /\ i <= size
         /\ size \in Nat /\ data[i].revents # {}
         /\ "in" \in data[i].revents /\ data[i].fd # -1
         /\ data[i].fd = LsFd => pd[i] = None
         /\ data[i].fd = timer =>
              /\ timer \in Fds /\ timer # LsFd /\ timer # -1
              /\ pd[i] = None /\ sock[timer] = Timer
         /\ data[i].fd \notin {LsFd, timer} =>
              /\ pd[i] \in Clients /\ pd[i] \in Live
              /\ data[i].fd \in Fds /\ sock[data[i].fd] = pd[i]
              /\ Pending(pd[i]) > 0 \/ cpc[pd[i]] = "gone"
              /\ "hup" \in data[i].revents => cpc[pd[i]] = "gone"
<1>1. /\ pc = "serve" /\ i \in 1..Len(data) /\ i <= size
      /\ i \in Nat /\ size \in Nat /\ data[i].revents # {}
  <2>1. pc = "serve" /\ i <= size /\ i \in DOMAIN data /\ data[i].revents # {}
    BY DEF Here, InWalk, HasEvent
  <2>2. i \in Nat /\ size \in Nat
    BY DEF PInv, TypeOK
  <2> QED BY <2>1, <2>2, VectorTypes DEF PInv
<1>2. /\ "in" \in data[i].revents /\ pd[i] # Orphan
      /\ pd[i] \in Clients => Pending(pd[i]) > 0 \/ cpc[pd[i]] = "gone"
      /\ pd[i] \in Clients /\ "hup" \in data[i].revents =>
           cpc[pd[i]] = "gone"
  BY <1>1, VectorTypes DEF PInv, Batch, Ahead
<1>3. \/ data[i].fd = LsFd /\ pd[i] = None
      \/ data[i].fd = timer /\ timer \in Fds /\ sock[timer] = Timer
         /\ pd[i] = None
      \/ pd[i] \in Live /\ data[i].fd \in Fds /\ sock[data[i].fd] = pd[i]
  BY <1>1, <1>2, VectorTypes DEF PInv, FdsOwned, Up, Own
<1>4. timer \in {TimerFd, -1} /\ Live \subseteq Clients
  BY DEF PInv, TypeOK, Live
<1>5. None \notin Clients /\ Timer \notin Clients /\ Timer # None
  BY PollAssumption
<1>6. timer # -1 => sock[timer] = Timer
  BY <1>1 DEF PInv, TimerOwned, Up
<1>7. data[i].fd # -1
  BY <1>3, FdTypes
<1> QED BY <1>1, <1>2, <1>3, <1>4, <1>5, <1>6, <1>7, FdTypes

-----------------------------------------------------------------------------
(***************************************************************************)
(* The first state.                                                        *)
(***************************************************************************)

\* The vector of the first state.
LEMMA InitVector ==
  ASSUME Init
  PROVE  /\ data \in Seq(Entry) /\ pd \in Seq(Object)
         /\ Len(pd) = Len(data) /\ Len(data) \in {1, 2}
         /\ DOMAIN data = 1..Len(data)
         /\ \A k \in 1..Len(data) : pd[k] = None /\ data[k].revents = {}
         /\ data[1].fd = LsFd
         /\ Len(data) = 2 <=> Benchmarking
         /\ Benchmarking => data[2].fd = TimerFd
<1>1. Config(LsFd) \in Entry /\ Config(TimerFd) \in Entry
  BY FdTypes DEF Config, Entry
<1>2. CASE Benchmarking
  <2>1. data = <<Config(LsFd), Config(TimerFd)>>
    BY <1>2 DEF Init
  <2>2. /\ data \in Seq(Entry) /\ Len(data) = 2 /\ DOMAIN data = 1..2
        /\ data[1] = Config(LsFd) /\ data[2] = Config(TimerFd)
    BY <1>1, <2>1
  <2>3. pd \in [1..2 -> Object] /\ \A k \in 1..2 : pd[k] = None
    BY <2>2 DEF Init, Object
  <2>4. pd \in Seq(Object) /\ Len(pd) = 2
    BY <2>3, SeqMake
  <2> QED BY <1>2, <2>2, <2>3, <2>4 DEF Config
<1>3. CASE ~Benchmarking
  <2>1. data = <<Config(LsFd)>>
    BY <1>3 DEF Init
  <2>2. /\ data \in Seq(Entry) /\ Len(data) = 1 /\ DOMAIN data = 1..1
        /\ data[1] = Config(LsFd)
    BY <1>1, <2>1
  <2>3. pd \in [1..1 -> Object] /\ \A k \in 1..1 : pd[k] = None
    BY <2>2 DEF Init, Object
  <2>4. pd \in Seq(Object) /\ Len(pd) = 1
    BY <2>3, SeqMake
  <2> QED BY <1>3, <2>2, <2>3, <2>4 DEF Config
<1> QED BY <1>2, <1>3

\* Nothing is connected; the vector has the listening socket and the timer.
LEMMA InitPInv ==
  ASSUME Init
  PROVE  PInv
<1> USE PollAssumption, FdTypes
<1>1. ClientTypeOK
  BY DEF Init, ClientInit, ClientTypeOK
<1>2. /\ timer = (IF Benchmarking THEN TimerFd ELSE -1)
      /\ sock \in [Fds -> {Timer, None}]
      /\ \A n \in Fds : sock[n] = Timer <=> n = timer
      /\ \A c \in Clients : heap[c] = "unallocated"
      /\ heap \in [Clients -> {"unallocated"}] /\ buf \in [Clients -> {0}]
      /\ capacity = InitialSize
  BY DEF Init
<1>3. pc = "start" /\ cause = "none" /\ Live = {} /\ OpenFds = {timer} \cap Fds
  BY <1>2 DEF Init, Live, OpenFds, FreeFds
<1>4. TypeOK
  <2>1. data \in Seq(Entry) /\ pd \in Seq(Object)
        /\ Len(pd) = Len(data) /\ Len(data) \in {1, 2}
    BY InitVector
  <2>2. capacity \in Nat /\ Len(data) <= capacity
    <3>1. PICK n : n = InitialSize
      OBVIOUS
    <3>2. n \in Nat /\ 1 <= n /\ 2 <= n
      BY <3>1
    <3> QED BY <1>2, <2>1, <3>1, <3>2
  <2>3. {i, size, events, serviced} \subseteq Nat
        /\ timer \in {TimerFd, -1} /\ expired \in BOOLEAN
        /\ pc = "start" /\ running \in BOOLEAN /\ sig = "none"
        /\ cause = "none"
    <3>1. i = 1 /\ size = 0 /\ events = 0 /\ serviced = 0
      BY DEF Init
    <3>2. expired \in BOOLEAN /\ running \in BOOLEAN
      BY DEF Init
    <3>3. pc = "start" /\ sig = "none" /\ cause = "none"
      BY DEF Init
    <3>4. timer \in {TimerFd, -1}
      BY <1>2
    <3> QED BY <3>1, <3>2, <3>3, <3>4
  <2>4. /\ sock \in [Fds -> Clients \cup {Timer, None}]
        /\ buf \in [Clients -> Nat]
        /\ heap \in [Clients -> {"unallocated", "live", "freed"}]
    <3>1. sock \in [Fds -> Clients \cup {Timer, None}]
      BY <1>2
    <3>2. buf \in [Clients -> Nat]
      BY <1>2
    <3>3. heap \in [Clients -> {"unallocated", "live", "freed"}]
      BY <1>2
    <3> QED BY <3>1, <3>2, <3>3
  <2> QED BY <1>1, <2>1, <2>2, <2>3, <2>4 DEF TypeOK, Entry, Object
<1>5. Arrivals /\ TimerOwned
  BY <1>2, <1>3 DEF Arrivals, TimerOwned, Init, ClientInit
<1>6. Own(DOMAIN data) /\ NoTwins
  <2>1. /\ Len(data) \in {1, 2} /\ DOMAIN data = 1..Len(data)
        /\ \A k \in 1..Len(data) : pd[k] = None
        /\ data[1].fd = LsFd /\ timer # LsFd
        /\ Len(data) = 2 <=> timer \in Fds
        /\ Len(data) = 2 => data[2].fd = timer
    BY <1>2, InitVector
  <2>2. \A k \in 1..Len(data) : k = 1 \/ (k = 2 /\ Len(data) = 2)
    <3>1. \A n \in {1, 2} : \A k \in 1..n : k = 1 \/ (k = 2 /\ n = 2)
      <4>1. \A k \in 1..1 : k = 1
        OBVIOUS
      <4>2. \A k \in 1..2 : k = 1 \/ k = 2
        OBVIOUS
      <4> QED BY <4>1, <4>2
    <3> QED BY <2>1, <3>1
  <2>3. Own(DOMAIN data)
    <3>1. /\ 1 \in 1..Len(data)
          /\ timer \in Fds => 2 \in 1..Len(data) /\ sock[timer] = Timer
      BY <1>2, <2>1
    <3>2. \A k \in 1..Len(data) :
            \/ data[k].fd = LsFd /\ pd[k] = None
            \/ data[k].fd = timer /\ timer \in Fds /\ sock[timer] = Timer
               /\ pd[k] = None
      BY <2>1, <2>2, <3>1
    <3>3. \A n \in OpenFds : \E k \in 1..Len(data) : data[k].fd = n
      BY <1>3, <2>1, <3>1
    <3> QED BY <1>3, <2>1, <3>2, <3>3 DEF Own
  <2>4. \A k, l \in 1..Len(data) : data[k].fd = data[l].fd => k = l
    <3> TAKE k, l \in 1..Len(data)
    <3>1. CASE k = 1 /\ l = 1
      BY <3>1
    <3>2. CASE k = 2 /\ l = 2
      BY <3>2
    <3>3. CASE Len(data) = 2 /\ k # l
      BY <2>1, <2>2, <3>3
    <3> QED BY <2>2, <3>1, <3>2, <3>3
  <2>5. NoTwins
    BY <2>1, <2>4 DEF NoTwins
  <2> QED BY <2>3, <2>5
<1>7. MessageFlow
  BY <1>3 DEF MessageFlow, Init, ClientInit
<1>8. FdsOwned /\ Closing /\ Failed /\ Batch /\ EventsAhead /\ AtEcho
      /\ NoSpuriousFailure /\ GracefulTeardown
  BY <1>3, <1>6 DEF FdsOwned, Closing, Failed, Batch, EventsAhead, AtEcho,
                    NoSpuriousFailure, GracefulTeardown
<1> QED BY <1>4, <1>5, <1>6, <1>7, <1>8 DEF PInv

-----------------------------------------------------------------------------
(***************************************************************************)
(* Steps that leave the vector and the connections alone.                  *)
(***************************************************************************)

\* The signal, the timer and the steps between the handlers.
LEMMA QuietInv ==
  ASSUME PInv,
         UNCHANGED <<cause, vecVars, walkVars, timer, conVars, clientVars>>,
         running' \in BOOLEAN, expired' \in BOOLEAN,
         sig' \in {"none", "pending", "delivered"},
         \/ pc' = pc
         \/ pc \in {"start", "loop", "wait"} /\ pc' \in {"loop", "wait", "cleanup"}
  PROVE  PInv'
<1>1. /\ UNCHANGED <<cause, data, pd, capacity, i, size, events, serviced, timer,
                     sock, buf, heap, cpc, backlog, sent, taken, echoes, got>>
      /\ Live' = Live /\ OpenFds' = OpenFds /\ Up' = Up
      /\ pc' \in {"serve", "echo", "closing", "exited", "failed", "start"}
           => pc' = pc
  BY DEF vecVars, walkVars, conVars, clientVars, Live, OpenFds, FreeFds, Up
<1>2. TypeOK'
  <2>1. ClientTypeOK'
    BY <1>1 DEF PInv, TypeOK, ClientTypeOK
  <2> QED BY <1>1, <2>1 DEF PInv, TypeOK
<1>3. Arrivals' /\ TimerOwned' /\ Failed'
  <2>1. Failed'
    BY <1>1 DEF PInv, Failed
  <2> QED BY <1>1, <2>1 DEF PInv, Arrivals, TimerOwned
<1>4. Own(DOMAIN data)' = Own(DOMAIN data) /\ NoTwins' = NoTwins
      /\ Own(i..Len(data))' = Own(i..Len(data))
  BY <1>1 DEF Own, NoTwins
<1>5. FdsOwned' /\ Closing'
  BY <1>1, <1>4 DEF PInv, FdsOwned, Closing
<1>6. Batch' /\ AtEcho'
  BY <1>1 DEF PInv, Batch, AtEcho, Ahead, Pending
<1>7. EventsAhead'
  BY <1>1 DEF PInv, EventsAhead, Ahead, EventsIn, HasEvent
<1>8. MessageFlow' /\ NoSpuriousFailure' /\ GracefulTeardown'
  <2>1. MessageFlow'
    <3>1. pc' = "echo" <=> pc = "echo"
      BY <1>1
    <3> QED BY <1>1, <3>1 DEF PInv, MessageFlow
  <2> QED BY <1>1, <2>1 DEF PInv, NoSpuriousFailure, GracefulTeardown
<1> QED BY <1>2, <1>3, <1>5, <1>6, <1>7, <1>8 DEF PInv

\* The process ends by an assertion.
LEMMA AbortInv ==
  ASSUME PInv, pc' = "failed",
         cause' \in {"result", "accept"},
         UNCHANGED <<running, sig, vecVars, timerVars, conVars, clientVars>>,
         i' \in Nat, size' \in Nat, events' \in Nat, serviced' \in Nat
  PROVE  PInv'
<1>1. /\ UNCHANGED <<running, sig, data, pd, capacity, timer, expired,
                     sock, buf, heap, cpc, backlog, sent, taken, echoes, got>>
      /\ Live' = Live /\ ~Up'
  BY DEF vecVars, timerVars, conVars, clientVars, Live, Up
<1>2. TypeOK'
  <2>1. ClientTypeOK'
    BY <1>1 DEF PInv, TypeOK, ClientTypeOK
  <2> QED BY <1>1, <2>1 DEF PInv, TypeOK
<1>3. Arrivals' /\ TimerOwned' /\ Failed'
  BY <1>1 DEF PInv, Arrivals, TimerOwned, Failed
<1>4. FdsOwned' /\ Closing' /\ Batch' /\ AtEcho' /\ EventsAhead'
  BY <1>1 DEF FdsOwned, Closing, Batch, AtEcho, EventsAhead
<1>5. MessageFlow' /\ NoSpuriousFailure' /\ GracefulTeardown'
  BY <1>1 DEF PInv, MessageFlow, NoSpuriousFailure, GracefulTeardown
<1> QED BY <1>2, <1>3, <1>4, <1>5 DEF PInv

\* A client connects, sends, reads or leaves: what an entry ahead of the walk
\* says of it still holds.
LEMMA ClientMoveInv ==
  ASSUME PInv, NEW c \in Clients, ClientMove(c)
  PROVE  PInv'
<1>1. /\ UNCHANGED <<pc, running, sig, cause, data, pd, capacity, i, size, events,
                     serviced, timer, expired, sock, buf, heap>>
      /\ Live' = Live /\ OpenFds' = OpenFds /\ Up' = Up
      /\ pc # "failed" /\ ClientStep(c)
  BY DEF ClientMove, ctlVars, vecVars, walkVars, timerVars, conVars, Live,
         OpenFds, FreeFds, Up, Ended
<1>2. /\ ClientTypeOK' /\ UNCHANGED <<taken, echoes>>
      /\ \A d \in Clients :
           /\ sent[d] <= sent'[d]
           /\ cpc[d] = "gone" => cpc'[d] = "gone"
           /\ cpc'[d] = "start" => cpc[d] = "start"
           /\ d \in backlog' => d \in backlog \/ cpc[d] = "start"
      /\ \A d \in backlog' : cpc'[d] # "start"
  <2>1. /\ ClientTypeOK /\ \A d \in backlog : cpc[d] # "start"
        /\ \A d \in Clients : sent[d] \in Nat /\ got[d] \in Nat
    BY DEF PInv, Arrivals, TypeOK, ClientTypeOK
  <2>2. CASE ClientConnect(c)
    BY <2>1, <2>2 DEF ClientConnect, ClientTypeOK
  <2>3. CASE ClientSend(c)
    BY <2>1, <2>3 DEF ClientSend, ClientTypeOK
  <2>4. CASE ClientRecv(c)
    BY <2>1, <2>4 DEF ClientRecv, ClientTypeOK
  <2>5. CASE ClientClose(c)
    BY <2>1, <2>5 DEF ClientClose, ClientTypeOK
  <2> QED BY <1>1, <2>2, <2>3, <2>4, <2>5 DEF ClientStep
<1>3. TypeOK'
  BY <1>1, <1>2 DEF PInv, TypeOK
<1>4. Arrivals' /\ TimerOwned' /\ Failed'
  <2>1. Failed' /\ TimerOwned'
    BY <1>1 DEF PInv, Failed, TimerOwned
  <2> QED BY <1>1, <1>2, <2>1 DEF PInv, Arrivals
<1>5. Own(DOMAIN data)' = Own(DOMAIN data) /\ NoTwins' = NoTwins
      /\ Own(i..Len(data))' = Own(i..Len(data))
  BY <1>1 DEF Own, NoTwins
<1>6. FdsOwned' /\ Closing'
  BY <1>1, <1>5 DEF PInv, FdsOwned, Closing
<1>7. Batch'
  <2>1. \A d \in Clients : Pending(d) > 0 => Pending(d)' > 0
    <3>1. \A d \in Clients :
            taken[d] \in Nat /\ sent[d] \in Nat /\ sent'[d] \in Nat
      BY <1>2 DEF PInv, TypeOK, ClientTypeOK
    <3> QED BY <1>2, <3>1 DEF Pending
  <2> QED BY <1>1, <1>2, <2>1 DEF PInv, Batch, Ahead
<1>8. AtEcho' /\ EventsAhead'
  BY <1>1 DEF PInv, AtEcho, EventsAhead, Ahead, EventsIn, HasEvent
<1>9. MessageFlow'
  <2>1. \A d \in Clients :
          taken[d] \in Nat /\ sent[d] \in Nat /\ sent'[d] \in Nat
    BY <1>2 DEF PInv, TypeOK, ClientTypeOK
  <2> QED BY <1>1, <1>2, <2>1 DEF PInv, MessageFlow
<1>10. NoSpuriousFailure' /\ GracefulTeardown'
  BY <1>1 DEF PInv, NoSpuriousFailure, GracefulTeardown
<1> QED BY <1>3, <1>4, <1>6, <1>7, <1>8, <1>9, <1>10 DEF PInv

-----------------------------------------------------------------------------
(***************************************************************************)
(* The walk.                                                               *)
(***************************************************************************)

\* ppoll writes what it finds into the vector.
LEMMA PpollStep ==
  ASSUME PInv, Ppoll
  PROVE  /\ data' \in Seq(Entry) /\ Len(data') = Len(data)
         /\ \A k \in 1..Len(data) : /\ data'[k].fd = data[k].fd
                                    /\ data'[k].revents = Revents(data[k].fd)
<1>1. \A n \in Fds \cup {LsFd, -1} :
        [fd |-> n, revents |-> Revents(n)] \in Entry
  BY ReventsFacts DEF Entry
<1>2. PICK f \in [1..Len(data) -> Entry] :
        f = [k \in 1..Len(data) |->
               [fd |-> data[k].fd, revents |-> Revents(data[k].fd)]]
  BY <1>1, VectorTypes DEF PInv
<1>3. data' = f
  BY <1>2, VectorTypes DEF PInv, Ppoll, Polled
<1>4. Len(data) \in Nat
  BY VectorTypes DEF PInv
<1>5. f \in Seq(Entry) /\ Len(f) = Len(data)
  BY <1>4, SeqMake
<1>6. \A k \in 1..Len(data) : /\ f[k].fd = data[k].fd
                              /\ f[k].revents = Revents(data[k].fd)
  BY <1>2
<1> QED BY <1>3, <1>5, <1>6

\* The walk begins: all that is counted lies ahead of it, and is true.
LEMMA PpollInv ==
  ASSUME PInv, Ppoll
  PROVE  PInv'
<1>1. /\ UNCHANGED <<running, sig, cause, pd, capacity, timer, expired,
                     sock, buf, heap, cpc, backlog, sent, taken, echoes, got>>
      /\ Live' = Live /\ OpenFds' = OpenFds /\ Up /\ Up'
      /\ pc = "wait" /\ pc' = "serve"
      /\ i' = 1 /\ size' = Len(data) /\ serviced' = 0
  BY DEF Ppoll, timerVars, conVars, clientVars, Live, OpenFds, FreeFds, Up
<1>2. /\ data' \in Seq(Entry) /\ Len(data') = Len(data)
      /\ DOMAIN data' = 1..Len(data)
      /\ \A k \in 1..Len(data) : /\ data'[k].fd = data[k].fd
                                 /\ data'[k].revents = Revents(data[k].fd)
  BY PpollStep, SeqPlaces
<1>3. /\ events' \in Nat /\ events' = EventsIn(data', 1..Len(data))
  <2>1. events' = EventsIn(data', 1..Len(data))
    BY VectorTypes DEF PInv, Ppoll
  <2> QED BY <2>1, CountType, VectorTypes DEF PInv
<1>4. TypeOK'
  <2>1. ClientTypeOK'
    BY <1>1 DEF PInv, TypeOK, ClientTypeOK
  <2>2. Len(data) \in Nat /\ 1 \in Nat
    BY VectorTypes DEF PInv
  <2> QED BY <1>1, <1>2, <1>3, <2>1, <2>2 DEF PInv, TypeOK, Entry, Object
<1>5. Arrivals' /\ TimerOwned' /\ Failed' /\ Closing' /\ AtEcho'
  BY <1>1 DEF PInv, Arrivals, TimerOwned, Failed, Closing, AtEcho
<1>6. FdsOwned'
  <2>1. Own(1..Len(data)) /\ NoTwins
    BY <1>1, VectorTypes DEF PInv, FdsOwned
  <2>2. Own(1..Len(data))'
    BY <1>1, <1>2, <2>1 DEF Own
  <2>3. NoTwins'
    BY <1>1, <1>2, <2>1, VectorTypes DEF NoTwins, PInv
  <2> QED BY <1>1, <1>2, <2>2, <2>3 DEF FdsOwned
<1>7. Batch'
  <2>1. ASSUME NEW k \in 1..Len(data), Revents(data[k].fd) # {}
        PROVE  /\ "in" \in Revents(data[k].fd) /\ pd[k] # Orphan
               /\ pd[k] \in Clients => Pending(pd[k]) > 0 \/ cpc[pd[k]] = "gone"
               /\ pd[k] \in Clients /\ "hup" \in Revents(data[k].fd) =>
                    cpc[pd[k]] = "gone"
    <3>1. /\ "in" \in Revents(data[k].fd) /\ data[k].fd # -1
          /\ data[k].fd \in Fds /\ sock[data[k].fd] \in Clients =>
               /\ Pending(sock[data[k].fd]) > 0
                    \/ cpc[sock[data[k].fd]] = "gone"
               /\ "hup" \in Revents(data[k].fd) =>
                    cpc[sock[data[k].fd]] = "gone"
      BY <2>1, ReventsFacts, VectorTypes DEF PInv
    <3>2. \/ data[k].fd # -1 /\ pd[k] = None
          \/ data[k].fd = -1 /\ pd[k] = Orphan
          \/ pd[k] \in Live /\ data[k].fd \in Fds /\ sock[data[k].fd] = pd[k]
      BY <1>1, <3>1, VectorTypes DEF PInv, FdsOwned, Own
    <3>3. Live \subseteq Clients /\ None \notin Clients /\ Orphan \notin Clients
          /\ None # Orphan
      BY PollAssumption DEF Live
    <3> QED BY <3>1, <3>2, <3>3
  <2>2. Ahead' = 1 /\ 1 <= i' /\ \A d \in Clients : Pending(d)' = Pending(d)
    BY <1>1 DEF Ahead, Pending
  <2>3. \A k \in 1..Len(data) : ~(k > size')
    BY <1>1, VectorTypes DEF PInv
  <2> QED BY <1>1, <1>2, <2>1, <2>2, <2>3 DEF Batch
<1>8. EventsAhead'
  <2>1. EventsIn(data, Ahead..size)' = EventsIn(data', 1..Len(data))
    BY <1>1 DEF Ahead, EventsIn, HasEvent
  <2> QED BY <1>1, <1>3, <2>1 DEF PInv, EventsAhead
<1>9. MessageFlow' /\ NoSpuriousFailure' /\ GracefulTeardown'
  BY <1>1 DEF PInv, MessageFlow, NoSpuriousFailure, GracefulTeardown
<1> QED BY <1>4, <1>5, <1>6, <1>7, <1>8, <1>9 DEF PInv

\* An entry without events counts for nothing.
LEMMA SkipInv ==
  ASSUME PInv, Skip
  PROVE  PInv'
<1>1. /\ UNCHANGED <<pc, running, sig, cause, data, pd, capacity, size, events,
                     serviced, timer, expired, sock, buf, heap,
                     cpc, backlog, sent, taken, echoes, got>>
      /\ Live' = Live /\ OpenFds' = OpenFds /\ Up' = Up
      /\ pc = "serve" /\ i' = i + 1 /\ i <= size /\ ~HasEvent(data, i)
  BY DEF Skip, InWalk, ctlVars, vecVars, timerVars, conVars, clientVars, Live,
         OpenFds, FreeFds, Up
<1>2. i \in Nat /\ size \in Nat /\ i' \in Nat /\ 1 <= i /\ 1 <= i'
      /\ \A k \in Nat : i' <= k => i <= k
  BY <1>1 DEF PInv, TypeOK, Batch
<1>3. TypeOK'
  <2>1. ClientTypeOK'
    BY <1>1 DEF PInv, TypeOK, ClientTypeOK
  <2> QED BY <1>1, <1>2, <2>1 DEF PInv, TypeOK
<1>4. Arrivals' /\ TimerOwned' /\ Failed' /\ Closing' /\ AtEcho'
  BY <1>1 DEF PInv, Arrivals, TimerOwned, Failed, Closing, AtEcho
<1>5. FdsOwned'
  <2>1. Own(DOMAIN data)' = Own(DOMAIN data) /\ NoTwins' = NoTwins
    BY <1>1 DEF Own, NoTwins
  <2> QED BY <1>1, <2>1 DEF PInv, FdsOwned
<1>6. Batch'
  <2>1. Ahead = i /\ Ahead' = i' /\ \A d \in Clients : Pending(d)' = Pending(d)
    BY <1>1 DEF Ahead, Pending
  <2>2. \A k \in DOMAIN data : k \in Nat
    BY VectorTypes DEF PInv
  <2> QED BY <1>1, <1>2, <2>1, <2>2 DEF PInv, Batch
<1>7. EventsAhead'
  <2>1. EventsIn(data, (i + 1)..size) = EventsIn(data, i..size)
    BY <1>1, <1>2, CountPass
  <2>2. EventsIn(data, Ahead..size) = EventsIn(data, i..size)
        /\ EventsIn(data, Ahead..size)' = EventsIn(data, (i + 1)..size)
    BY <1>1 DEF Ahead, EventsIn, HasEvent
  <2> QED BY <1>1, <2>1, <2>2 DEF PInv, EventsAhead
<1>8. MessageFlow' /\ NoSpuriousFailure' /\ GracefulTeardown'
  BY <1>1 DEF PInv, MessageFlow, NoSpuriousFailure, GracefulTeardown
<1> QED BY <1>3, <1>4, <1>5, <1>6, <1>7, <1>8 DEF PInv

-----------------------------------------------------------------------------
(***************************************************************************)
(* The vector under the handlers.                                          *)
(***************************************************************************)

\* ev->revents = 0: only the mark of the entry changes.
LEMMA ClearStep ==
  ASSUME PInv, i \in 1..Len(data)
  PROVE  /\ [data EXCEPT ![i].revents = {}] \in Seq(Entry)
         /\ Len([data EXCEPT ![i].revents = {}]) = Len(data)
         /\ \A k \in 1..Len(data) :
              /\ [data EXCEPT ![i].revents = {}][k].fd = data[k].fd
              /\ k # i => [data EXCEPT ![i].revents = {}][k] = data[k]
         /\ [data EXCEPT ![i].revents = {}][i].revents = {}
<1>1. data \in Seq(Entry) /\ data[i] \in Entry
      /\ \A k \in 1..Len(data) : data[k] \in Entry
  BY VectorTypes DEF PInv
<1>2. PICK e : e = [data[i] EXCEPT !.revents = {}]
  OBVIOUS
<1>3. e \in Entry /\ e.fd = data[i].fd /\ e.revents = {}
  BY <1>1, <1>2 DEF Entry
<1>4. [data EXCEPT ![i].revents = {}] = [data EXCEPT ![i] = e]
  BY <1>1, <1>2
<1>5. /\ [data EXCEPT ![i] = e] \in Seq(Entry)
      /\ Len([data EXCEPT ![i] = e]) = Len(data)
      /\ \A k \in 1..Len(data) :
           [data EXCEPT ![i] = e][k] = IF k = i THEN e ELSE data[k]
  BY <1>1, <1>3, SeqWrite
<1> QED BY <1>3, <1>4, <1>5

\* A new entry comes behind the last one, unmarked; the walk stands behind the
\* entry of the listening socket, whether its mark was cleared or not.
LEMMA AddStep ==
  ASSUME PInv, Here, NEW n \in Fds \cup {-1}, NEW con \in Clients \cup {Orphan},
         NEW d \in {data, [data EXCEPT ![i].revents = {}]},
         VectorAdd(d, n, con)
  PROVE  /\ data' \in Seq(Entry) /\ pd' \in Seq(Object)
         /\ Len(data') = Len(data) + 1 /\ Len(pd') = Len(data) + 1
         /\ DOMAIN data' = 1..(Len(data) + 1)
         /\ capacity' \in Nat /\ Len(data') <= capacity'
         /\ \A k \in 1..Len(data) :
              /\ data'[k].fd = data[k].fd /\ pd'[k] = pd[k]
              /\ k # i => data'[k] = data[k]
         /\ data'[Len(data) + 1].fd = n /\ data'[Len(data) + 1].revents = {}
         /\ pd'[Len(data) + 1] = con
<1>1. /\ data \in Seq(Entry) /\ pd \in Seq(Object)
      /\ Len(pd) = Len(data) /\ Len(data) \in Nat /\ i \in 1..Len(data)
  BY VectorTypes, AtEntry DEF PInv
<1>2. /\ d \in Seq(Entry) /\ Len(d) = Len(data)
      /\ \A k \in 1..Len(data) : /\ d[k].fd = data[k].fd
                                 /\ k # i => d[k] = data[k]
  BY <1>1, ClearStep
<1>3. /\ Config(n) \in Entry /\ Config(n).fd = n /\ Config(n).revents = {}
      /\ con \in Object
  BY DEF Config, Entry, Object
<1>4. data' = Append(d, Config(n)) /\ pd' = Append(pd, con)
  BY DEF VectorAdd
<1>5. /\ data' \in Seq(Entry) /\ Len(data') = Len(data) + 1
      /\ \A k \in 1..Len(data) : data'[k] = d[k]
      /\ data'[Len(data) + 1] = Config(n)
  BY <1>2, <1>3, <1>4, SeqAdd, SMTT(30)
<1>6. /\ pd' \in Seq(Object) /\ Len(pd') = Len(data) + 1
      /\ \A k \in 1..Len(data) : pd'[k] = pd[k]
      /\ pd'[Len(data) + 1] = con
  BY <1>1, <1>3, <1>4, SeqAdd, SMTT(30)
<1>7. capacity' \in Nat /\ Len(data) + 1 <= capacity'
  <2>1. /\ capacity \in Nat /\ Len(data) <= capacity
        /\ capacity' = IF Len(data) >= capacity THEN capacity * 2 ELSE capacity
    BY DEF PInv, TypeOK, VectorAdd, Full, ExtendMult
  <2>2. PICK l : l = Len(data)
    OBVIOUS
  <2>3. l \in Nat /\ 1 <= l
    BY <1>1, <2>2
  <2> QED BY <2>1, <2>2, <2>3
<1>8. DOMAIN data' = 1..(Len(data) + 1)
  BY <1>5, SeqPlaces
<1> QED BY <1>2, <1>3, <1>5, <1>6, <1>7, <1>8

\* What the walk has still to do is one entry less.
LEMMA AddCount ==
  ASSUME PInv, Here,
         DOMAIN data' = 1..(Len(data) + 1),
         \A k \in 1..Len(data) : k # i => data'[k] = data[k],
         data'[Len(data) + 1].revents = {}
  PROVE  EventsIn(data', (i + 1)..size) = EventsIn(data, i..size) - 1
<1>1. i \in Nat /\ size \in Nat /\ i <= size /\ HasEvent(data, i)
      /\ Len(data) \in Nat /\ DOMAIN data = 1..Len(data) /\ i \in 1..Len(data)
  BY AtEntry, VectorTypes DEF PInv, Here
<1>2. EventsIn(data, (i + 1)..size) = EventsIn(data, i..size) - 1
  BY <1>1, CountPass
<1>3. \A k \in (i + 1)..size : HasEvent(data', k) <=> HasEvent(data, k)
  <2> TAKE k \in (i + 1)..size
  <2>1. k \in Nat /\ k # i /\ 1 <= k
    BY <1>1
  <2>2. CASE k \in 1..Len(data)
    <3>1. k \in 1..(Len(data) + 1)
      BY <1>1, <2>2
    <3> QED BY <1>1, <2>1, <2>2, <3>1 DEF HasEvent
  <2>3. CASE k = Len(data) + 1
    <3>1. k \notin 1..Len(data)
      BY <1>1, <2>3
    <3> QED BY <1>1, <2>3, <3>1 DEF HasEvent
  <2>4. CASE k \notin 1..(Len(data) + 1)
    <3>1. k \notin 1..Len(data)
      BY <1>1, <2>4
    <3> QED BY <1>1, <2>4, <3>1 DEF HasEvent
  <2> QED BY <1>1, <2>1, <2>2, <2>3, <2>4
<1>4. EventsIn(data', (i + 1)..size) = EventsIn(data, (i + 1)..size)
  BY <1>3, CountSame, ZenonT(60)
<1> QED BY <1>2, <1>4

\* The last entry takes the place of the removed one.
LEMMA RemoveStep ==
  ASSUME PInv, Here, VectorRemove(i)
  PROVE  /\ data' \in Seq(Entry) /\ pd' \in Seq(Object)
         /\ Len(data') = Len(data) - 1 /\ Len(pd') = Len(data) - 1
         /\ DOMAIN data' = 1..(Len(data) - 1)
         /\ capacity' = capacity
         /\ \A k \in 1..(Len(data) - 1) :
              /\ data'[k] = IF k = i THEN data[Len(data)] ELSE data[k]
              /\ pd'[k] = IF k = i THEN pd[Len(data)] ELSE pd[k]
<1>1. /\ data \in Seq(Entry) /\ pd \in Seq(Object)
      /\ Len(pd) = Len(data) /\ Len(data) \in Nat /\ i \in 1..Len(data)
      /\ data[i].fd # -1
  BY VectorTypes, AtEntry DEF PInv
<1>2. /\ data' = Front([data EXCEPT ![i] = Last(data)])
      /\ pd' = Front([pd EXCEPT ![i] = Last(pd)])
      /\ capacity' = capacity
  BY <1>1 DEF VectorRemove, Moved
<1>3. /\ data' \in Seq(Entry) /\ Len(data') = Len(data) - 1
      /\ \A k \in 1..(Len(data) - 1) :
           data'[k] = IF k = i THEN data[Len(data)] ELSE data[k]
  <2>1. PICK d : d = data'
    OBVIOUS
  <2>2. d = Front([data EXCEPT ![i] = Last(data)])
    BY <1>2, <2>1
  <2>3. /\ d \in Seq(Entry) /\ Len(d) = Len(data) - 1
        /\ \A k \in 1..(Len(data) - 1) :
             d[k] = IF k = i THEN data[Len(data)] ELSE data[k]
    BY <1>1, <2>2, SeqMove
  <2> QED BY <2>1, <2>3
<1>4. /\ pd' \in Seq(Object) /\ Len(pd') = Len(data) - 1
      /\ \A k \in 1..(Len(data) - 1) :
           pd'[k] = IF k = i THEN pd[Len(data)] ELSE pd[k]
  <2>1. PICK p : p = pd'
    OBVIOUS
  <2>2. p = Front([pd EXCEPT ![i] = Last(pd)]) /\ i \in 1..Len(pd)
    BY <1>1, <1>2, <2>1
  <2>3. /\ p \in Seq(Object) /\ Len(p) = Len(pd) - 1
        /\ \A k \in 1..(Len(pd) - 1) :
             p[k] = IF k = i THEN pd[Len(pd)] ELSE pd[k]
    BY <1>1, <2>2, SeqMove
  <2> QED BY <1>1, <2>1, <2>3
<1>5. DOMAIN data' = 1..(Len(data) - 1)
  BY <1>3, SeqPlaces
<1> QED BY <1>2, <1>3, <1>4, <1>5

\* The walk stands at the entry that moved; one less is to be served.
LEMMA RemoveCount ==
  ASSUME PInv, Here,
         DOMAIN data' = 1..(Len(data) - 1),
         \A k \in 1..(Len(data) - 1) :
           data'[k] = IF k = i THEN data[Len(data)] ELSE data[k]
  PROVE  EventsIn(data', i..size) = EventsIn(data, i..size) - 1
<1>1. PICK L : L = Len(data)
  OBVIOUS
<1>2. /\ i \in Nat /\ size \in Nat /\ i <= size /\ HasEvent(data, i)
      /\ L \in Nat /\ DOMAIN data = 1..L /\ 1 <= i /\ i <= L
  BY <1>1, AtEntry, VectorTypes DEF PInv, Here
<1>3. /\ DOMAIN data' = 1..(L - 1)
      /\ \A k \in 1..(L - 1) : data'[k] = IF k = i THEN data[L] ELSE data[k]
  BY <1>1
<1>4. HasEvent(data, L) => L <= size
  <2>1. L \in DOMAIN data
    BY <1>2
  <2>2. L > size => data[L].revents = {}
    BY <2>1 DEF PInv, Batch, Here, InWalk
  <2> QED BY <1>2, <2>2 DEF HasEvent
<1>5. PICK x : x = IF HasEvent(data, L) THEN L ELSE i
  OBVIOUS
<1>6. x \in Marked(data, i..size)
  BY <1>2, <1>4, <1>5 DEF Marked
<1>7. Marked(data', i..size) = Marked(data, i..size) \ {x}
  <2>1. ASSUME NEW k \in i..size
        PROVE  HasEvent(data', k) <=> HasEvent(data, k) /\ k # x
    <3>1. /\ k \in Nat /\ i <= k /\ 1 <= k
          /\ k \in DOMAIN data <=> k <= L
          /\ k \in DOMAIN data' <=> k < L
      <4>1. k \in Nat /\ i <= k /\ 1 <= k
        BY <1>2
      <4>2. k \in 1..L <=> k <= L
        BY <1>2, <4>1
      <4>3. k \in 1..(L - 1) <=> k < L
        BY <1>2, <4>1
      <4> QED BY <1>2, <1>3, <4>1, <4>2, <4>3
    <3>2. k < L => data'[k] = IF k = i THEN data[L] ELSE data[k]
      BY <1>3, <3>1
    <3>3. k < L => L \in DOMAIN data
      BY <1>2
    <3>4. CASE k > L
      BY <1>2, <3>1, <3>4 DEF HasEvent
    <3>5. CASE k = L
      BY <1>2, <1>5, <3>1, <3>5 DEF HasEvent
    <3>6. CASE k < L /\ k = i
      <4>1. HasEvent(data', k) <=> HasEvent(data, L)
        BY <3>1, <3>2, <3>3, <3>6 DEF HasEvent
      <4> QED BY <1>2, <1>5, <3>6, <4>1
    <3>7. CASE k < L /\ k # i
      <4>1. HasEvent(data', k) <=> HasEvent(data, k)
        BY <1>2, <3>1, <3>2, <3>7 DEF HasEvent
      <4> QED BY <1>2, <1>5, <3>1, <3>7, <4>1
    <3> QED BY <1>2, <3>1, <3>4, <3>5, <3>6, <3>7
  <2> QED BY <2>1 DEF Marked
<1> QED BY <1>2, <1>6, <1>7, CountLess

-----------------------------------------------------------------------------
(***************************************************************************)
(* The handlers.                                                           *)
(***************************************************************************)

\* A new entry, of the connection that accept4 has returned or of none.
LEMMA AddInv ==
  ASSUME PInv, Here, NEW n \in Fds \cup {-1}, NEW con \in Clients \cup {Orphan},
         NEW d \in {data, [data EXCEPT ![i].revents = {}]},
         VectorAdd(d, n, con),
         \/ /\ con \in backlog /\ n \in FreeFds
            /\ backlog' = backlog \ {con}
            /\ sock' = [sock EXCEPT ![n] = con]
            /\ heap' = [heap EXCEPT ![con] = "live"]
         \/ /\ con = Orphan /\ n = -1 /\ Orphan \notin ToSet(pd)
            /\ UNCHANGED <<backlog, sock, heap>>,
         serviced' = serviced + 1, i' = i + 1,
         UNCHANGED <<pc, cause, running, sig, size, events, timerVars, buf,
                     cpc, sent, taken, echoes, got>>
  PROVE  PInv'
<1>1. PICK L \in Nat :
        /\ L = Len(data) /\ DOMAIN data = 1..L /\ DOMAIN pd = 1..L
        /\ i \in 1..L /\ i <= size /\ pc = "serve" /\ i \in Nat /\ size \in Nat
        /\ 1 <= i
  BY AtEntry, VectorTypes DEF PInv
<1>2. /\ data' \in Seq(Entry) /\ pd' \in Seq(Object)
      /\ Len(data') = L + 1 /\ Len(pd') = L + 1 /\ DOMAIN data' = 1..(L + 1)
      /\ capacity' \in Nat /\ Len(data') <= capacity'
      /\ \A k \in 1..L : /\ data'[k].fd = data[k].fd /\ pd'[k] = pd[k]
                         /\ k # i => data'[k] = data[k]
      /\ data'[L + 1].fd = n /\ data'[L + 1].revents = {}
      /\ pd'[L + 1] = con
  <2>1. /\ data' \in Seq(Entry) /\ pd' \in Seq(Object)
        /\ Len(data') = Len(data) + 1 /\ Len(pd') = Len(data) + 1
        /\ DOMAIN data' = 1..(Len(data) + 1)
        /\ capacity' \in Nat /\ Len(data') <= capacity'
        /\ \A k \in 1..Len(data) :
             /\ data'[k].fd = data[k].fd /\ pd'[k] = pd[k]
             /\ k # i => data'[k] = data[k]
        /\ data'[Len(data) + 1].fd = n /\ data'[Len(data) + 1].revents = {}
        /\ pd'[Len(data) + 1] = con
    BY AddStep, ZenonT(60)
  <2> QED BY <1>1, <2>1
<1>3. /\ \A k \in 1..(L + 1) : k \in 1..L \/ k = L + 1
      /\ L + 1 \in 1..(L + 1) /\ \A k \in 1..L : k \in 1..(L + 1)
      /\ i + 1 \in Nat /\ 1 <= i + 1
      /\ \A k \in Nat : i + 1 <= k => k # i /\ i <= k
  BY <1>1
<1>4. /\ Own(1..L) /\ NoTwins /\ Up /\ Up' /\ cause = "none"
      /\ ClientTypeOK /\ Live \subseteq Clients
      /\ timer' = timer /\ expired' = expired
  BY <1>1 DEF PInv, FdsOwned, Up, Failed, TypeOK, Live, timerVars
<1>5. /\ Timer \notin Clients /\ None \notin Clients /\ Orphan \notin Clients
      /\ Timer # None /\ Timer # Orphan /\ None # Orphan
  BY PollAssumption
<1>6. \/ /\ con \in Clients /\ n \in Fds /\ sock[n] = None
         /\ con \notin Live /\ cpc[con] # "start" /\ Live' = Live \cup {con}
         /\ OpenFds' = OpenFds \cup {n} /\ sock'[n] = con /\ heap'[con] = "live"
         /\ sock' \in [Fds -> Clients \cup {Timer, None}]
         /\ heap' \in [Clients -> {"unallocated", "live", "freed"}]
         /\ \A m \in Fds \ {n} : sock'[m] = sock[m]
         /\ \A c \in Clients \ {con} : heap'[c] = heap[c]
         /\ backlog' = backlog \ {con}
      \/ /\ con = Orphan /\ n = -1 /\ \A k \in 1..L : pd[k] # Orphan
         /\ Live' = Live /\ OpenFds' = OpenFds
         /\ UNCHANGED <<backlog, sock, heap>>
  <2>1. CASE /\ con \in backlog /\ n \in FreeFds
             /\ backlog' = backlog \ {con}
             /\ sock' = [sock EXCEPT ![n] = con]
             /\ heap' = [heap EXCEPT ![con] = "live"]
    <3>1. /\ con \in Clients /\ n \in Fds /\ sock[n] = None
          /\ heap[con] = "unallocated" /\ cpc[con] # "start"
      BY <1>4, <2>1 DEF FreeFds, PInv, Arrivals, ClientTypeOK
    <3>2. /\ sock' \in [Fds -> Clients \cup {Timer, None}]
          /\ heap' \in [Clients -> {"unallocated", "live", "freed"}]
          /\ sock'[n] = con /\ heap'[con] = "live"
          /\ \A m \in Fds \ {n} : sock'[m] = sock[m]
          /\ \A c \in Clients \ {con} : heap'[c] = heap[c]
      BY <2>1, <3>1 DEF PInv, TypeOK
    <3>3. Live' = Live \cup {con} /\ con \notin Live
      BY <3>1, <3>2 DEF Live
    <3>4. OpenFds' = OpenFds \cup {n}
      BY <1>5, <3>1, <3>2 DEF OpenFds, FreeFds
    <3> QED BY <2>1, <3>1, <3>2, <3>3, <3>4
  <2>2. CASE /\ con = Orphan /\ n = -1 /\ Orphan \notin ToSet(pd)
             /\ UNCHANGED <<backlog, sock, heap>>
    <3>1. Live' = Live /\ OpenFds' = OpenFds
      BY <2>2 DEF Live, OpenFds, FreeFds
    <3>2. \A k \in 1..L : pd[k] # Orphan
      BY <1>1, <2>2 DEF ToSet
    <3> QED BY <2>2, <3>1, <3>2
  <2> QED BY <2>1, <2>2
<1>7. TypeOK'
  <2>1. ClientTypeOK'
    BY <1>4, <1>6 DEF ClientTypeOK
  <2>2. /\ sock' \in [Fds -> Clients \cup {Timer, None}]
        /\ heap' \in [Clients -> {"unallocated", "live", "freed"}]
    BY <1>6 DEF PInv, TypeOK
  <2>3. /\ pc' \in {"start", "loop", "wait", "serve", "echo", "cleanup",
                    "closing", "exited", "failed"}
        /\ running' \in BOOLEAN /\ sig' \in {"none", "pending", "delivered"}
        /\ cause' = "none" /\ timer' \in {TimerFd, -1} /\ expired' \in BOOLEAN
        /\ buf' \in [Clients -> Nat]
    BY <1>4 DEF PInv, TypeOK
  <2>4. {i, size, events, serviced}' \subseteq Nat
    <3>1. i' \in Nat /\ size' \in Nat
      BY <1>1, <1>3
    <3>2. events' \in Nat /\ serviced' \in Nat
      BY DEF PInv, TypeOK
    <3> QED BY <3>1, <3>2
  <2> QED BY <1>2, <2>1, <2>2, <2>3, <2>4 DEF TypeOK, Entry, Object
<1>8. Arrivals'
  <2>1. \A c \in Clients : cpc[c] = "start" \/ c \in backlog =>
          heap[c] = "unallocated"
    BY DEF PInv, Arrivals
  <2>2. \A c \in backlog : cpc[c] # "start"
    BY DEF PInv, Arrivals
  <2>3. \A c \in Clients : cpc[c] = "start" \/ c \in backlog' =>
          heap'[c] = "unallocated"
    BY <1>6, <2>1
  <2> QED BY <1>1, <1>6, <2>2, <2>3 DEF Arrivals
<1>9. TimerOwned'
  <2>1. /\ timer # -1 => sock[timer] = Timer
        /\ \A m \in Fds : sock[m] = Timer => m = timer
        /\ timer \in Fds \cup {-1}
    BY <1>4, FdTypes DEF PInv, TimerOwned, TypeOK
  <2>2. /\ timer # -1 => sock'[timer] = Timer
        /\ \A m \in Fds : sock'[m] = Timer => m = timer
    BY <1>5, <1>6, <2>1
  <2> QED BY <1>4, <2>2 DEF TimerOwned
<1>10. FdsOwned'
  <2>1. ASSUME NEW k \in 1..L
        PROVE  /\ \/ data[k].fd = LsFd /\ pd[k] = None
                  \/ data[k].fd = timer /\ timer \in Fds
                     /\ sock'[timer] = Timer /\ pd[k] = None
                  \/ data[k].fd = -1 /\ pd[k] = Orphan
                  \/ pd[k] \in Live' /\ data[k].fd \in Fds
                     /\ sock'[data[k].fd] = pd[k]
               /\ data[k].fd # n /\ pd[k] # con
    <3>1. \/ data[k].fd = LsFd /\ pd[k] = None
          \/ data[k].fd = timer /\ timer \in Fds /\ sock[timer] = Timer
             /\ pd[k] = None
          \/ data[k].fd = -1 /\ pd[k] = Orphan
          \/ pd[k] \in Live /\ data[k].fd \in Fds /\ sock[data[k].fd] = pd[k]
      BY <1>4 DEF Own
    <3> QED BY <1>4, <1>5, <1>6, <3>1, FdTypes
  <2>2. Own(1..(L + 1))'
    <3>1. \A k \in 1..(L + 1) :
            \/ data'[k].fd = LsFd /\ pd'[k] = None
            \/ data'[k].fd = timer /\ timer \in Fds /\ sock'[timer] = Timer
               /\ pd'[k] = None
            \/ data'[k].fd = -1 /\ pd'[k] = Orphan
            \/ pd'[k] \in Live' /\ data'[k].fd \in Fds
               /\ sock'[data'[k].fd] = pd'[k]
      BY <1>2, <1>3, <1>6, <2>1
    <3>2. \A c \in Live' : \E k \in 1..(L + 1) : pd'[k] = c
      <4>1. \A c \in Live : \E k \in 1..L : pd[k] = c
        BY <1>4 DEF Own
      <4> QED BY <1>2, <1>3, <1>6, <4>1
    <3>3. \A m \in OpenFds' : \E k \in 1..(L + 1) : data'[k].fd = m
      <4>1. \A m \in OpenFds : \E k \in 1..L : data[k].fd = m
        BY <1>4 DEF Own
      <4> QED BY <1>2, <1>3, <1>6, <4>1
    <3> QED BY <1>4, <3>1, <3>2, <3>3 DEF Own
  <2>3. NoTwins'
    <3>1. \A k, l \in 1..L :
            data[k].fd = data[l].fd \/ (pd[k] \in Clients /\ pd[k] = pd[l])
              => k = l
      BY <1>1, <1>4 DEF NoTwins
    <3>2. \A k, l \in 1..(L + 1) :
            data'[k].fd = data'[l].fd \/ (pd'[k] \in Clients /\ pd'[k] = pd'[l])
              => k = l
      BY <1>2, <1>3, <2>1, <3>1
    <3> QED BY <1>2, <3>2 DEF NoTwins
  <2> QED BY <1>2, <2>2, <2>3 DEF FdsOwned
<1>11. Batch'
  <2>1. Ahead = i /\ Ahead' = i + 1
        /\ \A c \in Clients : Pending(c)' = Pending(c)
    BY <1>1 DEF Ahead, Pending
  <2>2. \A k \in 1..L : k > size => data[k].revents = {}
    BY <1>1 DEF PInv, Batch
  <2>3. \A k \in 1..L : i <= k /\ data[k].revents # {} =>
          /\ "in" \in data[k].revents /\ pd[k] # Orphan
          /\ pd[k] \in Clients => Pending(pd[k]) > 0 \/ cpc[pd[k]] = "gone"
          /\ pd[k] \in Clients /\ "hup" \in data[k].revents =>
               cpc[pd[k]] = "gone"
    BY <1>1, <2>1 DEF PInv, Batch
  <2>4. \A k \in 1..L : k \in Nat
    OBVIOUS
  <2>5. \A k \in 1..(L + 1) : k > size => data'[k].revents = {}
    <3>1. ~(i > size)
      BY <1>1
    <3> QED BY <1>2, <1>3, <2>2, <3>1
  <2>6. \A k \in 1..(L + 1) : i + 1 <= k /\ data'[k].revents # {} =>
          /\ "in" \in data'[k].revents /\ pd'[k] # Orphan
          /\ pd'[k] \in Clients => Pending(pd'[k]) > 0 \/ cpc[pd'[k]] = "gone"
          /\ pd'[k] \in Clients /\ "hup" \in data'[k].revents =>
               cpc[pd'[k]] = "gone"
    <3> TAKE k \in 1..(L + 1)
    <3> HAVE i + 1 <= k /\ data'[k].revents # {}
    <3>1. k \in 1..L /\ k # i /\ i <= k
      BY <1>2, <1>3, <2>4
    <3> QED BY <1>2, <2>3, <3>1
  <2> QED BY <1>1, <1>2, <1>3, <2>1, <2>5, <2>6 DEF Batch
<1>12. EventsAhead'
  <2>1. EventsIn(data', (i + 1)..size) = EventsIn(data, i..size) - 1
    BY <1>1, <1>2, AddCount
  <2>2. events - serviced = EventsIn(data, i..size)
    BY <1>1 DEF PInv, EventsAhead, Ahead
  <2>3. EventsIn(data, Ahead..size)' = EventsIn(data', (i + 1)..size)
    BY <1>1 DEF Ahead, EventsIn, HasEvent
  <2>4. events' - serviced' = EventsIn(data, i..size) - 1
    <3>1. events \in Nat /\ serviced \in Nat
      BY DEF PInv, TypeOK
    <3> QED BY <2>2, <3>1
  <2> QED BY <1>4, <2>1, <2>3, <2>4 DEF EventsAhead
<1>13. MessageFlow' /\ AtEcho' /\ Closing' /\ Failed'
  BY <1>1, <1>4 DEF PInv, MessageFlow, AtEcho, Closing, Failed, Up
<1>14. NoSpuriousFailure' /\ GracefulTeardown'
  BY <1>1, <1>4 DEF NoSpuriousFailure, GracefulTeardown
<1> QED BY <1>7, <1>8, <1>9, <1>10, <1>11, <1>12, <1>13, <1>14 DEF PInv

\* accept4 returns a connection, fails, or ends the process.
LEMMA ServeListenerInv ==
  ASSUME PInv, ServeListener
  PROVE  PInv'
<1>1. /\ Here /\ serviced' = serviced + 1 /\ i' = i + 1
      /\ UNCHANGED <<running, sig, size, events, timerVars, buf,
                     cpc, sent, taken, echoes, got>>
  BY DEF ServeListener
<1>2. ASSUME NEW c \in backlog, NEW n \in FreeFds,
             NEW d \in {data, [data EXCEPT ![i].revents = {}]},
             VectorAdd(d, n, c), backlog' = backlog \ {c},
             sock' = [sock EXCEPT ![n] = c], heap' = [heap EXCEPT ![c] = "live"],
             UNCHANGED <<pc, cause>>
      PROVE  PInv'
  <2>1. c \in Clients /\ n \in Fds
    BY DEF PInv, TypeOK, ClientTypeOK, FreeFds
  <2> QED BY <1>1, <1>2, <2>1, AddInv
<1>3. ASSUME NEW d \in {data, [data EXCEPT ![i].revents = {}]},
             VectorAdd(d, -1, Orphan), Orphan \notin ToSet(pd),
             UNCHANGED <<pc, cause, backlog, sock, heap>>
      PROVE  PInv'
  BY <1>1, <1>3, AddInv
<1>4. CASE Abort("accept") /\ UNCHANGED <<vecVars, backlog, sock, heap>>
  <2>1. i' \in Nat /\ size' \in Nat /\ events' \in Nat /\ serviced' \in Nat
    BY <1>1 DEF PInv, TypeOK
  <2> QED BY <1>1, <1>4, <2>1, AbortInv DEF Abort, conVars, clientVars
<1> QED BY <1>2, <1>3, <1>4 DEF ServeListener

\* A connection, or the timer, is closed and its entry removed.
LEMMA RemoveInv ==
  ASSUME PInv, Here, data[i].fd \in Fds, VectorRemove(i),
         sock' = [sock EXCEPT ![data[i].fd] = None],
         heap' = IF pd[i] \in Clients THEN [heap EXCEPT ![pd[i]] = "freed"]
                 ELSE heap,
         timer' = IF data[i].fd = timer THEN -1 ELSE timer,
         serviced' = serviced + 1, i' = i,
         UNCHANGED <<pc, cause, running, sig, size, events, expired, buf,
                     clientVars>>
  PROVE  PInv'
<1>1. PICK L \in Nat :
        /\ L = Len(data) /\ DOMAIN data = 1..L /\ DOMAIN pd = 1..L
        /\ i \in 1..L /\ i <= size /\ pc = "serve" /\ i \in Nat /\ size \in Nat
        /\ 1 <= i /\ L \in 1..L
  <2>1. PICK L : L = Len(data)
    OBVIOUS
  <2>2. /\ L \in Nat /\ DOMAIN data = 1..L /\ DOMAIN pd = 1..L
        /\ i \in 1..L /\ i <= size /\ pc = "serve" /\ i \in Nat /\ size \in Nat
    BY <2>1, AtEntry, VectorTypes DEF PInv
  <2>3. 1 <= i /\ L \in 1..L
    BY <2>2
  <2> QED BY <2>1, <2>2, <2>3
<1>2. /\ data' \in Seq(Entry) /\ pd' \in Seq(Object)
      /\ Len(data') = L - 1 /\ Len(pd') = L - 1 /\ DOMAIN data' = 1..(L - 1)
      /\ capacity' = capacity
      /\ \A k \in 1..(L - 1) :
           /\ data'[k] = IF k = i THEN data[L] ELSE data[k]
           /\ pd'[k] = IF k = i THEN pd[L] ELSE pd[k]
  <2>1. /\ data' \in Seq(Entry) /\ pd' \in Seq(Object)
        /\ Len(data') = Len(data) - 1 /\ Len(pd') = Len(data) - 1
        /\ DOMAIN data' = 1..(Len(data) - 1)
        /\ capacity' = capacity
        /\ \A k \in 1..(Len(data) - 1) :
             /\ data'[k] = IF k = i THEN data[Len(data)] ELSE data[k]
             /\ pd'[k] = IF k = i THEN pd[Len(data)] ELSE pd[k]
    BY RemoveStep
  <2> QED BY <1>1, <2>1
<1>3. PICK src \in [1..(L - 1) -> (1..L) \ {i}] :
        /\ \A k \in 1..(L - 1) : /\ data'[k] = data[src[k]]
                                 /\ pd'[k] = pd[src[k]]
                                 /\ src[k] # k => k = i /\ src[k] = L
        /\ \A k, l \in 1..(L - 1) : src[k] = src[l] => k = l
        /\ \A j \in (1..L) \ {i} : \E k \in 1..(L - 1) : src[k] = j
  <2>1. \A k \in 1..(L - 1) : /\ (IF k = i THEN L ELSE k) \in (1..L) \ {i}
                              /\ k # L
    BY <1>1
  <2>2. PICK src \in [1..(L - 1) -> (1..L) \ {i}] :
          src = [k \in 1..(L - 1) |-> IF k = i THEN L ELSE k]
    BY <2>1
  <2>3. \A k \in 1..(L - 1) : src[k] = IF k = i THEN L ELSE k
    BY <2>2
  <2>4. \A k, l \in 1..(L - 1) : src[k] = src[l] => k = l
    BY <2>1, <2>3
  <2>5. \A j \in (1..L) \ {i} : \E k \in 1..(L - 1) : src[k] = j
    <3> TAKE j \in (1..L) \ {i}
    <3>1. CASE j = L
      <4>1. i \in 1..(L - 1)
        BY <1>1, <3>1
      <4> QED BY <2>3, <3>1, <4>1
    <3>2. CASE j # L
      <4>1. j \in 1..(L - 1)
        BY <1>1, <3>2
      <4> QED BY <2>3, <4>1
    <3> QED BY <3>1, <3>2
  <2>6. \A k \in 1..(L - 1) : /\ data'[k] = data[src[k]]
                              /\ pd'[k] = pd[src[k]]
                              /\ src[k] # k => k = i /\ src[k] = L
    BY <1>2, <2>3
  <2> QED BY <2>4, <2>5, <2>6
<1>4. /\ Own(1..L) /\ NoTwins /\ Up /\ Up' /\ cause = "none"
      /\ ClientTypeOK /\ Live \subseteq Clients /\ ClientTypeOK'
      /\ UNCHANGED <<cpc, backlog, sent, taken, echoes, got>>
  BY <1>1 DEF PInv, FdsOwned, Up, Failed, TypeOK, Live, clientVars, ClientTypeOK
<1>5. /\ Timer \notin Clients /\ None \notin Clients /\ Orphan \notin Clients
      /\ Timer # None /\ Timer # Orphan /\ None # Orphan
  BY PollAssumption
<1>6. \A k \in (1..L) \ {i} :
        /\ data[k].fd # data[i].fd
        /\ pd[k] \in Clients => pd[k] # pd[i]
  BY <1>1, <1>4 DEF NoTwins
<1>7. /\ sock' \in [Fds -> Clients \cup {Timer, None}]
      /\ heap' \in [Clients -> {"unallocated", "live", "freed"}]
      /\ sock'[data[i].fd] = None
      /\ \A m \in Fds : m # data[i].fd => sock'[m] = sock[m]
      /\ \A c \in Clients : heap'[c] = IF c = pd[i] THEN "freed" ELSE heap[c]
  BY DEF PInv, TypeOK
<1>8. Live' = Live \ {pd[i]}
  BY <1>7 DEF Live
<1>9. OpenFds' = OpenFds \ {data[i].fd}
  BY <1>7 DEF OpenFds, FreeFds
<1>10. TypeOK'
  <2>1. /\ pc' \in {"start", "loop", "wait", "serve", "echo", "cleanup",
                    "closing", "exited", "failed"}
        /\ running' \in BOOLEAN /\ sig' \in {"none", "pending", "delivered"}
        /\ cause' = "none" /\ expired' \in BOOLEAN /\ buf' \in [Clients -> Nat]
    BY <1>4 DEF PInv, TypeOK
  <2>2. timer' \in {TimerFd, -1}
    BY DEF PInv, TypeOK
  <2>3. {i, size, events, serviced}' \subseteq Nat
    BY DEF PInv, TypeOK
  <2>4. capacity' \in Nat /\ Len(data') <= capacity'
    <3>1. capacity \in Nat /\ L <= capacity
      BY <1>1 DEF PInv, TypeOK
    <3> QED BY <1>1, <1>2, <3>1
  <2> QED BY <1>2, <1>4, <1>7, <2>1, <2>2, <2>3, <2>4 DEF TypeOK, Entry, Object
<1>11. Arrivals'
  <2>1. /\ \A c \in backlog : cpc[c] # "start"
        /\ \A c \in Clients : cpc[c] = "start" \/ c \in backlog =>
             heap[c] = "unallocated"
    BY DEF PInv, Arrivals
  <2>2. pd[i] \in Clients => heap[pd[i]] = "live"
    BY <1>1, <1>4, <1>5 DEF Own, Live
  <2>3. \A c \in Clients : cpc[c] = "start" \/ c \in backlog =>
          heap'[c] = "unallocated"
    BY <1>7, <2>1, <2>2
  <2> QED BY <1>1, <1>4, <2>1, <2>3 DEF Arrivals
<1>12. TimerOwned'
  <2>1. /\ timer # -1 => sock[timer] = Timer
        /\ \A m \in Fds : sock[m] = Timer => m = timer
        /\ timer \in Fds \cup {-1}
    BY <1>4, FdTypes DEF PInv, TimerOwned, TypeOK
  <2>2. /\ timer' # -1 => sock'[timer'] = Timer
        /\ \A m \in Fds : sock'[m] = Timer => m = timer'
    BY <1>5, <1>7, <2>1
  <2> QED BY <2>2 DEF TimerOwned
<1>13. FdsOwned'
  <2>1. ASSUME NEW k \in (1..L) \ {i}
        PROVE  \/ data[k].fd = LsFd /\ pd[k] = None
               \/ data[k].fd = timer' /\ timer' \in Fds
                  /\ sock'[timer'] = Timer /\ pd[k] = None
               \/ data[k].fd = -1 /\ pd[k] = Orphan
               \/ pd[k] \in Live' /\ data[k].fd \in Fds
                  /\ sock'[data[k].fd] = pd[k]
    <3>1. \/ data[k].fd = LsFd /\ pd[k] = None
          \/ data[k].fd = timer /\ timer \in Fds /\ sock[timer] = Timer
             /\ pd[k] = None
          \/ data[k].fd = -1 /\ pd[k] = Orphan
          \/ pd[k] \in Live /\ data[k].fd \in Fds /\ sock[data[k].fd] = pd[k]
      BY <1>4 DEF Own
    <3> QED BY <1>4, <1>6, <1>7, <1>8, <3>1
  <2>2. \A c \in Live' : \E k \in 1..(L - 1) : pd'[k] = c
    <3> TAKE c \in Live'
    <3>1. PICK j \in 1..L : pd[j] = c
      BY <1>4, <1>8 DEF Own
    <3>2. j \in (1..L) \ {i}
      BY <1>8, <3>1
    <3> QED BY <1>3, <3>1, <3>2
  <2>3. \A m \in OpenFds' : \E k \in 1..(L - 1) : data'[k].fd = m
    <3> TAKE m \in OpenFds'
    <3>1. PICK j \in 1..L : data[j].fd = m
      BY <1>4, <1>9 DEF Own
    <3>2. j \in (1..L) \ {i}
      BY <1>9, <3>1
    <3> QED BY <1>3, <3>1, <3>2
  <2>4. Own(1..(L - 1))'
    <3>1. \A k \in 1..(L - 1) :
            \/ data'[k].fd = LsFd /\ pd'[k] = None
            \/ data'[k].fd = timer' /\ timer' \in Fds
               /\ sock'[timer'] = Timer /\ pd'[k] = None
            \/ data'[k].fd = -1 /\ pd'[k] = Orphan
            \/ pd'[k] \in Live' /\ data'[k].fd \in Fds
               /\ sock'[data'[k].fd] = pd'[k]
      <4> TAKE k \in 1..(L - 1)
      <4>1. PICK j \in (1..L) \ {i} : data'[k] = data[j] /\ pd'[k] = pd[j]
        BY <1>3
      <4> QED BY <2>1, <4>1
    <3> QED BY <2>2, <2>3, <3>1 DEF Own
  <2>5. NoTwins'
    <3>1. \A k, l \in 1..L :
            data[k].fd = data[l].fd \/ (pd[k] \in Clients /\ pd[k] = pd[l])
              => k = l
      BY <1>1, <1>4 DEF NoTwins
    <3>2. \A k, l \in 1..(L - 1) :
            data'[k].fd = data'[l].fd \/ (pd'[k] \in Clients /\ pd'[k] = pd'[l])
              => k = l
      <4> TAKE k, l \in 1..(L - 1)
      <4>1. src[k] \in 1..L /\ src[l] \in 1..L
        BY <1>3
      <4> QED BY <1>3, <3>1, <4>1
    <3> QED BY <1>2, <3>2 DEF NoTwins
  <2> QED BY <1>2, <2>4, <2>5 DEF FdsOwned
<1>14. Batch'
  <2>1. Ahead = i /\ Ahead' = i /\ \A c \in Clients : Pending(c)' = Pending(c)
    BY <1>1, <1>4 DEF Ahead, Pending
  <2>2. \A k \in 1..L : k > size => data[k].revents = {}
    BY <1>1 DEF PInv, Batch
  <2>3. \A k \in 1..L : i <= k /\ data[k].revents # {} =>
          /\ "in" \in data[k].revents /\ pd[k] # Orphan
          /\ pd[k] \in Clients => Pending(pd[k]) > 0 \/ cpc[pd[k]] = "gone"
          /\ pd[k] \in Clients /\ "hup" \in data[k].revents =>
               cpc[pd[k]] = "gone"
    BY <1>1, <2>1 DEF PInv, Batch
  <2>4. \A k \in 1..(L - 1) :
          /\ src[k] \in 1..L
          /\ i <= k => i <= src[k]
          /\ k > size => src[k] = k
    BY <1>1, <1>3
  <2>5. \A k \in 1..(L - 1) : k > size => data'[k].revents = {}
    BY <1>3, <2>2, <2>4
  <2>6. \A k \in 1..(L - 1) : i <= k /\ data'[k].revents # {} =>
          /\ "in" \in data'[k].revents /\ pd'[k] # Orphan
          /\ pd'[k] \in Clients => Pending(pd'[k]) > 0 \/ cpc[pd'[k]] = "gone"
          /\ pd'[k] \in Clients /\ "hup" \in data'[k].revents =>
               cpc[pd'[k]] = "gone"
    <3> TAKE k \in 1..(L - 1)
    <3>1. PICK j \in 1..L : /\ data'[k] = data[j] /\ pd'[k] = pd[j]
                            /\ i <= k => i <= j
      BY <1>3, <2>4
    <3> QED BY <2>3, <3>1
  <2> QED BY <1>1, <1>2, <1>4, <2>1, <2>5, <2>6 DEF Batch
<1>15. EventsAhead'
  <2>1. EventsIn(data', i..size) = EventsIn(data, i..size) - 1
    BY <1>1, <1>2, RemoveCount
  <2>2. events - serviced = EventsIn(data, i..size)
    BY <1>1 DEF PInv, EventsAhead, Ahead
  <2>3. EventsIn(data, Ahead..size)' = EventsIn(data', i..size)
    BY <1>1 DEF Ahead, EventsIn, HasEvent
  <2>4. events' - serviced' = EventsIn(data, i..size) - 1
    <3>1. events \in Nat /\ serviced \in Nat
      BY DEF PInv, TypeOK
    <3> QED BY <2>2, <3>1
  <2> QED BY <1>4, <2>1, <2>3, <2>4 DEF EventsAhead
<1>16. MessageFlow' /\ AtEcho' /\ Closing' /\ Failed'
  BY <1>1, <1>4 DEF PInv, MessageFlow, AtEcho, Closing, Failed, Up
<1>17. NoSpuriousFailure' /\ GracefulTeardown'
  BY <1>1, <1>4 DEF NoSpuriousFailure, GracefulTeardown
<1> QED BY <1>10, <1>11, <1>12, <1>13, <1>14, <1>15, <1>16, <1>17, Zenon DEF PInv

\* The timer has expired: its entry and its number go.
LEMMA ServeTimerInv ==
  ASSUME PInv, ServeTimer
  PROVE  PInv'
<1>1. /\ Here /\ data[i].fd = timer /\ VectorRemove(i)
      /\ sock' = [sock EXCEPT ![timer] = None] /\ timer' = -1
      /\ i' = i /\ serviced' = serviced + 1
      /\ UNCHANGED <<pc, cause, running, sig, size, events, expired, buf, heap,
                     clientVars>>
  BY DEF ServeTimer, TimerClosed, StepBack, ctlVars
<1>2. timer \in Fds /\ pd[i] = None /\ None \notin Clients
  BY <1>1, AtEntry, PollAssumption
<1> QED BY <1>1, <1>2, RemoveInv

\* close_client, inside the walk, does not fail.
LEMMA CloseClientStep ==
  ASSUME PInv, AtClient, CloseClient(i)
  PROVE  /\ Here /\ data[i].fd \in Fds /\ data[i].fd # timer
         /\ pd[i] \in Live /\ pd[i] \in Clients
         /\ VectorRemove(i)
         /\ sock' = [sock EXCEPT ![data[i].fd] = None]
         /\ heap' = [heap EXCEPT ![pd[i]] = "freed"]
         /\ i' = i /\ UNCHANGED <<pc, cause>>
<1>1. /\ Here /\ data[i].fd \in Fds /\ data[i].fd # timer
      /\ pd[i] \in Live /\ pd[i] \in Clients /\ sock[data[i].fd] = pd[i]
  BY AtEntry DEF AtClient
<1>2. data[i].fd \in OpenFds
  BY <1>1, PollAssumption DEF OpenFds, FreeFds
<1> QED BY <1>1, <1>2 DEF CloseClient, Free, StepBack

\* A reset connection is closed.
LEMMA ServeHangupInv ==
  ASSUME PInv, ServeHangup
  PROVE  PInv'
<1>1. /\ AtClient /\ CloseClient(i) /\ serviced' = serviced + 1
      /\ UNCHANGED <<running, sig, size, events, timer, expired, buf, clientVars>>
  BY DEF ServeHangup, timerVars
<1> QED BY <1>1, CloseClientStep, RemoveInv

\* A whole message is taken, the last of the stream closes the connection, and
\* there is something to read.
LEMMA ServeDataInv ==
  ASSUME PInv, ServeData
  PROVE  PInv'
<1>1. PICK c \in Clients :
        /\ Here /\ i \in 1..Len(data) /\ pc = "serve" /\ i <= size
        /\ i \in Nat /\ size \in Nat
        /\ c = pd[i] /\ c = Peer /\ c \in Live /\ AtClient
        /\ Pending(c) > 0 \/ cpc[c] = "gone"
  BY AtEntry DEF ServeData, AtClient, Peer
<1>2. /\ serviced' = serviced + 1
      /\ UNCHANGED <<running, sig, size, events, timer, expired,
                     cpc, backlog, sent, echoes, got>>
  BY DEF ServeData, timerVars
<1>3. /\ ClientTypeOK /\ taken[c] \in Nat /\ sent[c] \in Nat
      /\ taken[c] <= sent[c] /\ taken[c] = Len(echoes[c])
      /\ Up /\ Own(DOMAIN data) /\ NoTwins /\ cause = "none"
      /\ DOMAIN data = 1..Len(data)
  BY <1>1, VectorTypes
     DEF PInv, TypeOK, ClientTypeOK, MessageFlow, Up, FdsOwned, Failed
<1>4. RecvResults(c) # {}
  BY <1>1, <1>3, ReadResults
<1>5. CASE Abort("result") /\ UNCHANGED <<vecVars, i, conVars, taken>>
  <2>1. i' \in Nat /\ size' \in Nat /\ events' \in Nat /\ serviced' \in Nat
    BY <1>2, <1>5 DEF PInv, TypeOK
  <2> QED BY <1>2, <1>5, <2>1, AbortInv DEF Abort, timerVars, clientVars
<1>6. CASE CloseClient(i) /\ UNCHANGED <<buf, taken>>
  <2>1. UNCHANGED <<running, sig, size, events, timer, expired, buf, clientVars>>
    BY <1>2, <1>6 DEF clientVars
  <2> QED BY <1>1, <1>2, <1>6, <2>1, CloseClientStep, RemoveInv
<1>7. ASSUME NEW res \in RecvResults(c), Whole(res), pc' = "echo",
             TakeMessage(c, res), buf' = [buf EXCEPT ![c] = taken'[c]],
             UNCHANGED <<cause, vecVars, i, sock, heap>>
      PROVE  PInv'
  <2>1. /\ Pending(c) = 1 /\ taken' = [taken EXCEPT ![c] = @ + 1]
        /\ UNCHANGED <<cause, data, pd, capacity, i, sock, heap>>
    BY <1>3, <1>7, ReadResults DEF Whole, TakeMessage, vecVars
  <2>2. /\ taken' \in [Clients -> Nat] /\ buf' \in [Clients -> Nat]
        /\ taken'[c] = taken[c] + 1 /\ buf'[c] = taken'[c]
        /\ \A d \in Clients : d # c => taken'[d] = taken[d]
        /\ taken'[c] <= sent[c]
    <3>1. taken' \in [Clients -> Nat] /\ taken'[c] = taken[c] + 1
          /\ \A d \in Clients : d # c => taken'[d] = taken[d]
      BY <1>3, <2>1 DEF ClientTypeOK
    <3>2. buf' \in [Clients -> Nat] /\ buf'[c] = taken'[c]
      BY <1>7, <3>1 DEF PInv, TypeOK
    <3>3. taken[c] + 1 <= sent[c]
      BY <1>3, <2>1 DEF Pending
    <3> QED BY <3>1, <3>2, <3>3
  <2>3. Live' = Live /\ OpenFds' = OpenFds /\ Up'
    BY <1>7, <2>1 DEF Live, OpenFds, FreeFds, Up
  <2>4. TypeOK'
    <3>1. ClientTypeOK'
      BY <1>2, <1>3, <2>2 DEF ClientTypeOK
    <3>2. serviced' \in Nat
      BY <1>2 DEF PInv, TypeOK
    <3> QED BY <1>2, <1>7, <2>1, <2>2, <3>1, <3>2 DEF PInv, TypeOK
  <2>5. Arrivals' /\ TimerOwned' /\ Failed' /\ Closing'
    BY <1>2, <1>3, <1>7, <2>1, <2>3
       DEF PInv, Arrivals, TimerOwned, Failed, Closing
  <2>6. FdsOwned'
    <3>1. Own(DOMAIN data)' = Own(DOMAIN data) /\ NoTwins' = NoTwins
      BY <1>2, <2>1, <2>3 DEF Own, NoTwins
    <3> QED BY <1>3, <3>1 DEF FdsOwned
  <2>7. Batch'
    <3>1. Ahead = i /\ Ahead' = i + 1 /\ 1 <= i
      BY <1>1, <1>7, <2>1 DEF Ahead, PInv, Batch
    <3>2. \A k \in DOMAIN data : i + 1 <= k => i <= k /\ k # i
      BY <1>1, <1>3
    <3>3. \A k \in DOMAIN data : i + 1 <= k /\ pd[k] \in Clients =>
            pd[k] # c /\ Pending(pd[k])' = Pending(pd[k])
      <4>1. \A k \in DOMAIN data : k # i /\ pd[k] \in Clients => pd[k] # c
        BY <1>1, <1>3 DEF NoTwins
      <4>2. \A k \in DOMAIN data : pd[k] \in Clients /\ pd[k] # c =>
              Pending(pd[k])' = Pending(pd[k])
        BY <1>2, <2>1, <2>2 DEF Pending
      <4> QED BY <3>2, <4>1, <4>2
    <3>4. /\ \A k \in DOMAIN data : k > size => data[k].revents = {}
          /\ \A k \in DOMAIN data : i <= k /\ data[k].revents # {} =>
               /\ "in" \in data[k].revents /\ pd[k] # Orphan
               /\ pd[k] \in Clients => Pending(pd[k]) > 0 \/ cpc[pd[k]] = "gone"
               /\ pd[k] \in Clients /\ "hup" \in data[k].revents =>
                    cpc[pd[k]] = "gone"
      BY <1>1, <3>1 DEF PInv, Batch
    <3>5. \A k \in DOMAIN data : i + 1 <= k /\ data[k].revents # {} =>
               /\ "in" \in data[k].revents /\ pd[k] # Orphan
               /\ pd[k] \in Clients =>
                    Pending(pd[k])' > 0 \/ cpc[pd[k]] = "gone"
               /\ pd[k] \in Clients /\ "hup" \in data[k].revents =>
                    cpc[pd[k]] = "gone"
      BY <3>2, <3>3, <3>4
    <3> QED BY <1>2, <2>1, <3>1, <3>4, <3>5 DEF Batch
  <2>8. EventsAhead'
    <3>1. EventsIn(data, (i + 1)..size) = EventsIn(data, i..size) - 1
      BY <1>1, CountPass DEF Here
    <3>2. events - serviced = EventsIn(data, i..size)
      BY <1>1 DEF PInv, EventsAhead, Ahead
    <3>3. EventsIn(data, Ahead..size)' = EventsIn(data, (i + 1)..size)
      BY <1>2, <1>7, <2>1 DEF Ahead, EventsIn, HasEvent
    <3>4. events' - serviced' = EventsIn(data, i..size) - 1
      <4>1. events \in Nat /\ serviced \in Nat
        BY DEF PInv, TypeOK
      <4> QED BY <1>2, <3>2, <4>1
    <3> QED BY <1>3, <2>1, <3>1, <3>3, <3>4 DEF EventsAhead
  <2>9. AtEcho'
    BY <1>1, <1>2, <1>3, <2>1, <2>3 DEF AtEcho
  <2>10. MessageFlow'
    <3>1. \A d \in Clients : taken[d] <= sent[d] /\ taken[d] = Len(echoes[d])
      BY <1>1, <1>3 DEF PInv, MessageFlow
    <3> QED BY <1>1, <1>2, <1>3, <1>7, <2>1, <2>2, <3>1 DEF MessageFlow
  <2>11. NoSpuriousFailure' /\ GracefulTeardown'
    BY <1>3, <1>7, <2>1 DEF NoSpuriousFailure, GracefulTeardown
  <2> QED BY <2>4, <2>5, <2>6, <2>7, <2>8, <2>9, <2>10, <2>11, Zenon DEF PInv
<1> QED BY <1>1, <1>4, <1>5, <1>6, <1>7 DEF ServeData, conVars

\* The connection between read and write is the one of the entry.
LEMMA EchoPeer ==
  ASSUME PInv, pc = "echo"
  PROVE  /\ i \in 1..Len(data) /\ i \in Nat /\ i <= size /\ size \in Nat
         /\ Peer = pd[i] /\ Peer \in Clients /\ Peer \in Live
         /\ taken[Peer] = Len(echoes[Peer]) + 1 /\ buf[Peer] = taken[Peer]
         /\ taken[Peer] <= sent[Peer]
<1>1. i \in 1..Len(data) /\ i <= size /\ pd[i] \in Live /\ pd[i] \in Clients
  BY VectorTypes DEF PInv, AtEcho, Live
<1>2. i \in Nat /\ size \in Nat
  BY DEF PInv, TypeOK
<1>3. Peer = pd[i]
  <2>1. Own(1..Len(data))
    BY VectorTypes DEF PInv, FdsOwned, Up
  <2>2. pd[i] # None /\ pd[i] # Orphan
    BY <1>1, PollAssumption
  <2> QED BY <1>1, <2>1, <2>2 DEF Own, Peer
<1> QED BY <1>1, <1>2, <1>3 DEF PInv, MessageFlow, Up

\* The echo is written and the mark of the entry cleared.
LEMMA WriteEchoInv ==
  ASSUME PInv, WriteEcho
  PROVE  PInv'
<1>1. PICK c \in Clients :
        /\ i \in 1..Len(data) /\ i \in Nat /\ i <= size /\ size \in Nat
        /\ c = pd[i] /\ c = Peer /\ c \in Live /\ pc = "echo"
        /\ taken[c] = Len(echoes[c]) + 1 /\ buf[c] = taken[c]
        /\ taken[c] <= sent[c]
  BY EchoPeer DEF WriteEcho
<1>2. UNCHANGED <<running, sig, pd, capacity, size, events, serviced, timer,
                  expired, sock, buf, heap, cpc, backlog, sent, taken, got>>
  BY DEF WriteEcho, timerVars, conVars
<1>3. /\ ClientTypeOK /\ echoes[c] \in Seq(Nat) /\ Len(echoes[c]) \in Nat
      /\ buf[c] \in Nat /\ Up /\ Own(1..Len(data)) /\ NoTwins /\ cause = "none"
      /\ DOMAIN data = 1..Len(data) /\ Len(data) \in Nat /\ 1 <= i
  <2>1. ClientTypeOK /\ echoes[c] \in Seq(Nat) /\ buf[c] \in Nat
    BY DEF PInv, TypeOK, ClientTypeOK
  <2>2. Len(echoes[c]) \in Nat
    BY <2>1
  <2>3. Up /\ cause = "none" /\ 1 <= i
    BY <1>1 DEF PInv, Up, Failed, Batch
  <2>4. DOMAIN data = 1..Len(data) /\ Len(data) \in Nat
    BY VectorTypes DEF PInv
  <2>5. Own(1..Len(data)) /\ NoTwins
    BY <2>3, <2>4 DEF PInv, FdsOwned
  <2> QED BY <2>1, <2>2, <2>3, <2>4, <2>5
<1>4. CASE Abort("result") /\ UNCHANGED <<data, i, echoes>>
  <2>1. i' \in Nat /\ size' \in Nat /\ events' \in Nat /\ serviced' \in Nat
    BY <1>2, <1>4 DEF PInv, TypeOK
  <2> QED BY <1>2, <1>4, <2>1, AbortInv
          DEF Abort, vecVars, timerVars, conVars, clientVars
<1>5. CASE /\ echoes' = [echoes EXCEPT ![c] = Append(@, buf[c])]
           /\ Echoed /\ UNCHANGED cause
  <2>1. /\ pc' = "serve" /\ i' = i + 1 /\ cause' = cause
        /\ data' \in Seq(Entry) /\ Len(data') = Len(data)
        /\ DOMAIN data' = 1..Len(data)
        /\ \A k \in 1..Len(data) : /\ data'[k].fd = data[k].fd
                                   /\ k # i => data'[k] = data[k]
    <3>1. pc' = "serve" /\ i' = i + 1 /\ cause' = cause
          /\ data' = [data EXCEPT ![i].revents = {}]
      BY <1>5 DEF Echoed, EntryDone
    <3>2. /\ data' \in Seq(Entry) /\ Len(data') = Len(data)
          /\ \A k \in 1..Len(data) : /\ data'[k].fd = data[k].fd
                                     /\ k # i => data'[k] = data[k]
      BY <1>1, <3>1, ClearStep
    <3> QED BY <3>1, <3>2, SeqPlaces
  <2>2. /\ echoes' \in [Clients -> Seq(Nat)]
        /\ Len(echoes'[c]) = Len(echoes[c]) + 1
        /\ \A d \in Clients : d # c => echoes'[d] = echoes[d]
    <3>1. PICK s : s = Append(echoes[c], buf[c])
      OBVIOUS
    <3>2. s \in Seq(Nat) /\ Len(s) = Len(echoes[c]) + 1
      BY <1>3, <3>1, SeqAdd
    <3>3. echoes' = [echoes EXCEPT ![c] = s]
      BY <1>5, <3>1
    <3> QED BY <1>3, <3>2, <3>3 DEF ClientTypeOK
  <2>3. Live' = Live /\ OpenFds' = OpenFds /\ Up'
    BY <1>2, <2>1 DEF Live, OpenFds, FreeFds, Up
  <2>4. TypeOK'
    <3>1. ClientTypeOK'
      BY <1>2, <1>3, <2>2 DEF ClientTypeOK
    <3>2. i' \in Nat
      BY <1>1, <2>1
    <3>3. data' \in Seq([fd : Fds \cup {LsFd, -1}, revents : SUBSET {"in", "hup"}])
      BY <2>1 DEF Entry
    <3>4. /\ Len(pd') = Len(data') /\ Len(data') <= capacity'
          /\ {i, size, events, serviced}' \subseteq Nat
      BY <1>2, <2>1, <3>2 DEF PInv, TypeOK
    <3> QED BY <1>2, <2>1, <3>1, <3>3, <3>4 DEF PInv, TypeOK
  <2>5. Arrivals' /\ TimerOwned' /\ Failed' /\ Closing' /\ AtEcho'
    <3>1. Failed' /\ Closing' /\ AtEcho'
      BY <1>3, <2>1 DEF Failed, Closing, AtEcho
    <3>2. Arrivals'
      BY <1>2, <2>1, <2>3 DEF PInv, Arrivals
    <3>3. TimerOwned'
      BY <1>2, <1>3 DEF PInv, TimerOwned
    <3> QED BY <3>1, <3>2, <3>3
  <2>6. FdsOwned'
    <3>1. Own(1..Len(data))'
      BY <1>2, <1>3, <2>1, <2>3 DEF Own
    <3>2. NoTwins'
      BY <1>2, <1>3, <2>1 DEF NoTwins
    <3> QED BY <2>1, <3>1, <3>2 DEF FdsOwned
  <2>7. Batch'
    <3>1. Ahead = i + 1 /\ Ahead' = i + 1 /\ 1 <= i'
          /\ \A d \in Clients : Pending(d)' = Pending(d)
      BY <1>1, <1>2, <1>3, <2>1 DEF Ahead, Pending
    <3>2. \A k \in 1..Len(data) : (i + 1 <= k => k # i) /\ (k > size => k # i)
      BY <1>1
    <3> QED BY <1>1, <1>2, <1>3, <2>1, <3>1, <3>2 DEF PInv, Batch
  <2>8. EventsAhead'
    <3>1. \A k \in (i + 1)..size : HasEvent(data', k) <=> HasEvent(data, k)
      BY <1>1, <1>3, <2>1 DEF HasEvent
    <3>2. EventsIn(data', (i + 1)..size) = EventsIn(data, (i + 1)..size)
      BY <3>1, CountSame
    <3>3. EventsIn(data, Ahead..size) = EventsIn(data, (i + 1)..size)
          /\ EventsIn(data, Ahead..size)' = EventsIn(data', (i + 1)..size)
      BY <1>1, <1>2, <2>1 DEF Ahead, EventsIn, HasEvent
    <3> QED BY <1>1, <1>2, <1>3, <2>1, <3>2, <3>3 DEF PInv, EventsAhead
  <2>9. MessageFlow'
    <3>1. \A d \in Clients : /\ taken[d] <= sent[d]
                             /\ d # c => taken[d] = Len(echoes[d])
      BY <1>1, <1>3 DEF PInv, MessageFlow
    <3> QED BY <1>1, <1>2, <1>3, <2>1, <2>2, <3>1 DEF MessageFlow
  <2>10. NoSpuriousFailure' /\ GracefulTeardown'
    BY <1>3, <2>1 DEF NoSpuriousFailure, GracefulTeardown
  <2> QED BY <2>4, <2>5, <2>6, <2>7, <2>8, <2>9, <2>10, Zenon DEF PInv
<1> QED BY <1>1, <1>4, <1>5 DEF WriteEcho, Whole, DeliverEcho

\* Where the walk ends, all that ppoll counted is serviced.
LEMMA WalkDoneInv ==
  ASSUME PInv, WalkDone
  PROVE  PInv'
<1>1. /\ pc = "serve" /\ ~InWalk
      /\ i' = 0 /\ size' = 0 /\ events' = 0 /\ serviced' = 0
      /\ UNCHANGED <<running, sig, data, pd, capacity, timer, expired, sock, buf,
                     heap, cpc, backlog, sent, taken, echoes, got>>
  BY DEF WalkDone, vecVars, timerVars, conVars, clientVars
<1>2. serviced = events
  <2>1. /\ i \in Nat /\ size \in Nat /\ events \in Nat /\ serviced \in Nat
        /\ events - serviced = EventsIn(data, i..size)
    BY <1>1 DEF PInv, TypeOK, EventsAhead, Ahead
  <2>2. /\ EventsIn(data, i..size) \in Nat
        /\ i > size => EventsIn(data, i..size) = 0
    BY <2>1, CountType
  <2>3. i > size \/ serviced >= events
    BY <1>1, <2>1 DEF InWalk
  <2>4. PICK n : n = EventsIn(data, i..size)
    OBVIOUS
  <2>5. n \in Nat /\ (i > size => n = 0) /\ events - serviced = n
    BY <2>1, <2>2, <2>4
  <2> QED BY <2>1, <2>3, <2>5
<1>3. /\ pc' = "loop" /\ cause' = cause /\ Up /\ Up' /\ cause = "none"
      /\ Live' = Live /\ OpenFds' = OpenFds
  BY <1>1, <1>2 DEF WalkDone, Up, PInv, Failed, Live, OpenFds, FreeFds
<1>4. TypeOK'
  <2>1. ClientTypeOK'
    BY <1>1 DEF PInv, TypeOK, ClientTypeOK
  <2> QED BY <1>1, <1>3, <2>1 DEF PInv, TypeOK
<1>5. Arrivals' /\ TimerOwned' /\ Failed' /\ Closing' /\ Batch' /\ AtEcho'
  BY <1>1, <1>3
     DEF PInv, Arrivals, TimerOwned, Failed, Closing, Batch, AtEcho
<1>6. FdsOwned'
  <2>1. Own(DOMAIN data)' = Own(DOMAIN data) /\ NoTwins' = NoTwins
    BY <1>1, <1>3 DEF Own, NoTwins
  <2> QED BY <1>3, <2>1 DEF PInv, FdsOwned
<1>7. EventsAhead' /\ NoSpuriousFailure' /\ GracefulTeardown'
  BY <1>3 DEF EventsAhead, NoSpuriousFailure, GracefulTeardown
<1>8. MessageFlow'
  BY <1>1, <1>3 DEF PInv, MessageFlow
<1> QED BY <1>4, <1>5, <1>6, <1>7, <1>8 DEF PInv

\* The cleanup begins with every entry still to be closed.
LEMMA CleanupInv ==
  ASSUME PInv, Cleanup
  PROVE  PInv'
<1>1. /\ pc = "cleanup" /\ pc' = "closing" /\ i' = 1 /\ ~Up'
      /\ UNCHANGED <<running, sig, cause, data, pd, capacity, size, events,
                     serviced, timer, expired, sock, buf,
                     heap, cpc, backlog, sent, taken, echoes, got>>
      /\ Live' = Live /\ OpenFds' = OpenFds
  BY DEF Cleanup, vecVars, timerVars, conVars, clientVars, Live, OpenFds,
         FreeFds, Up
<1>2. TypeOK'
  <2>1. ClientTypeOK'
    BY <1>1 DEF PInv, TypeOK, ClientTypeOK
  <2> QED BY <1>1, <2>1 DEF PInv, TypeOK
<1>3. Arrivals' /\ TimerOwned' /\ Failed' /\ FdsOwned' /\ Batch' /\ AtEcho'
  BY <1>1 DEF PInv, Arrivals, TimerOwned, Failed, FdsOwned, Batch, AtEcho
<1>4. Closing'
  <2>1. Own(1..Len(data)) /\ NoTwins
    BY <1>1, VectorTypes DEF PInv, FdsOwned, Up
  <2>2. Own(1..Len(data))' /\ NoTwins'
    BY <1>1, <2>1 DEF Own, NoTwins
  <2> QED BY <1>1, <2>2 DEF Closing
<1>5. MessageFlow' /\ EventsAhead' /\ NoSpuriousFailure' /\ GracefulTeardown'
  BY <1>1 DEF PInv, MessageFlow, EventsAhead, NoSpuriousFailure,
              GracefulTeardown
<1> QED BY <1>2, <1>3, <1>4, <1>5 DEF PInv

\* What closing entry k leaves for the entries behind it.
LEMMA CloseOneStep ==
  ASSUME PInv, CloseOne
  PROVE  /\ i \in 1..Len(data) /\ i \in Nat /\ pc = "closing" /\ cause = "none"
         /\ \/ /\ data[i].fd = LsFd /\ pd[i] = None
               /\ UNCHANGED <<pc, cause, sock, heap>>
            \/ /\ data[i].fd \in OpenFds /\ pd[i] \in Live \cup {None}
               /\ sock' = [sock EXCEPT ![data[i].fd] = None]
               /\ heap' = IF pd[i] \in Clients
                          THEN [heap EXCEPT ![pd[i]] = "freed"] ELSE heap
               /\ UNCHANGED <<pc, cause>>
            \/ /\ Orphan \in ToSet(pd) /\ pc' = "failed" /\ cause' = "close"
               /\ UNCHANGED <<sock, heap>>
<1>1. i \in 1..Len(data) /\ i \in Nat /\ pc = "closing" /\ cause = "none"
  BY VectorTypes DEF CloseOne, MoreEntries, PInv, TypeOK, Closing, Failed
<1>2. i \in i..Len(data) /\ i \in DOMAIN pd
  BY <1>1, VectorTypes DEF PInv
<1>3. \/ data[i].fd = LsFd /\ pd[i] = None
      \/ data[i].fd = timer /\ timer \in Fds /\ sock[timer] = Timer
         /\ pd[i] = None
      \/ data[i].fd = -1 /\ pd[i] = Orphan
      \/ pd[i] \in Live /\ data[i].fd \in Fds /\ sock[data[i].fd] = pd[i]
  BY <1>1, <1>2 DEF PInv, Closing, Own
<1>4. /\ Timer # None /\ None \notin Clients /\ Live \subseteq Clients
      /\ OpenFds = {n \in Fds : sock[n] # None}
  BY PollAssumption DEF Live, OpenFds, FreeFds
<1>5. \/ data[i].fd = LsFd /\ pd[i] = None
      \/ data[i].fd \in OpenFds /\ pd[i] \in Live \cup {None}
      \/ data[i].fd = -1 /\ pd[i] = Orphan
  BY <1>3, <1>4
<1>6. pd[i] = Orphan => Orphan \in ToSet(pd)
  BY <1>2 DEF ToSet
<1>7. LsFd \notin OpenFds /\ -1 \notin OpenFds /\ LsFd # -1
  BY FdTypes DEF OpenFds
<1> QED BY <1>1, <1>5, <1>6, <1>7 DEF CloseOne, Free, Abort

\* One entry less has to be closed.
LEMMA CloseOneInv ==
  ASSUME PInv, CloseOne
  PROVE  PInv'
<1>1. /\ i \in 1..Len(data) /\ i \in Nat /\ pc = "closing" /\ cause = "none"
      /\ \/ /\ data[i].fd = LsFd /\ pd[i] = None
            /\ UNCHANGED <<pc, cause, sock, heap>>
         \/ /\ data[i].fd \in OpenFds /\ pd[i] \in Live \cup {None}
            /\ sock' = [sock EXCEPT ![data[i].fd] = None]
            /\ heap' = IF pd[i] \in Clients
                       THEN [heap EXCEPT ![pd[i]] = "freed"] ELSE heap
            /\ UNCHANGED <<pc, cause>>
         \/ /\ Orphan \in ToSet(pd) /\ pc' = "failed" /\ cause' = "close"
            /\ UNCHANGED <<sock, heap>>
  BY CloseOneStep
<1>2. /\ i' = i + 1
      /\ UNCHANGED <<running, sig, data, pd, capacity, size, events, serviced,
                     timer, expired, buf, cpc, backlog, sent, taken, echoes, got>>
  BY DEF CloseOne, vecVars, timerVars, clientVars
<1>3. /\ ~Up /\ ~Up' /\ Len(data) \in Nat /\ DOMAIN data = 1..Len(data)
      /\ Own(i..Len(data)) /\ NoTwins /\ i \in i..Len(data)
      /\ \A k \in (i + 1)..Len(data) : /\ k \in 1..Len(data) /\ k # i
                                       /\ k \in i..Len(data)
      /\ \A k \in i..Len(data) : k # i => k \in (i + 1)..Len(data)
  <2>1. ~Up /\ ~Up' /\ Own(i..Len(data)) /\ NoTwins
    BY <1>1 DEF Up, PInv, Closing
  <2>2. Len(data) \in Nat /\ DOMAIN data = 1..Len(data)
    BY VectorTypes DEF PInv
  <2> QED BY <1>1, <2>1, <2>2
<1>4. /\ Timer # None /\ None \notin Clients /\ Live \subseteq Clients
      /\ Orphan \notin Clients /\ Timer \notin Clients
  BY PollAssumption DEF Live
<1>5. \/ data[i].fd \notin Fds /\ Live' = Live /\ OpenFds' = OpenFds
         /\ UNCHANGED <<sock, heap>> /\ pd[i] \notin Clients
      \/ pc' = "failed" /\ UNCHANGED <<sock, heap>>
      \/ /\ data[i].fd \in Fds
         /\ sock' \in [Fds -> Clients \cup {Timer, None}]
         /\ heap' \in [Clients -> {"unallocated", "live", "freed"}]
         /\ Live' = Live \ {pd[i]} /\ OpenFds' = OpenFds \ {data[i].fd}
         /\ \A n \in Fds : n # data[i].fd => sock'[n] = sock[n]
         /\ \A c \in Clients :
              heap'[c] = heap[c] \/ (heap[c] = "live" /\ heap'[c] = "freed")
  <2>1. CASE data[i].fd = LsFd /\ pd[i] = None /\ UNCHANGED <<pc, cause, sock, heap>>
    BY <1>4, <2>1, FdTypes DEF Live, OpenFds, FreeFds
  <2>2. CASE /\ data[i].fd \in OpenFds /\ pd[i] \in Live \cup {None}
             /\ sock' = [sock EXCEPT ![data[i].fd] = None]
             /\ heap' = IF pd[i] \in Clients
                        THEN [heap EXCEPT ![pd[i]] = "freed"] ELSE heap
    <3>1. /\ data[i].fd \in Fds
          /\ sock' \in [Fds -> Clients \cup {Timer, None}]
          /\ sock'[data[i].fd] = None
          /\ \A n \in Fds : n # data[i].fd => sock'[n] = sock[n]
      BY <2>2 DEF OpenFds, PInv, TypeOK
    <3>2. /\ heap' \in [Clients -> {"unallocated", "live", "freed"}]
          /\ \A c \in Clients : heap'[c] = IF c = pd[i] THEN "freed" ELSE heap[c]
      BY <2>2 DEF PInv, TypeOK
    <3>3. pd[i] \in Clients => heap[pd[i]] = "live"
      BY <1>4, <2>2 DEF Live
    <3>4. Live' = Live \ {pd[i]}
      BY <3>2 DEF Live
    <3>5. OpenFds' = OpenFds \ {data[i].fd}
      BY <3>1 DEF OpenFds, FreeFds
    <3> QED BY <3>1, <3>2, <3>3, <3>4, <3>5
  <2> QED BY <1>1, <2>1, <2>2
<1>6. TypeOK'
  <2>1. ClientTypeOK'
    BY <1>2 DEF PInv, TypeOK, ClientTypeOK
  <2>2. /\ sock' \in [Fds -> Clients \cup {Timer, None}]
        /\ heap' \in [Clients -> {"unallocated", "live", "freed"}]
    BY <1>5 DEF PInv, TypeOK
  <2>3. pc' \in {"closing", "failed"} /\ cause' \in {"none", "close"} /\ i' \in Nat
    BY <1>1, <1>2
  <2> QED BY <1>2, <2>1, <2>2, <2>3 DEF PInv, TypeOK
<1>7. Arrivals'
  <2>1. pc' # "start"
    BY <1>1
  <2> QED BY <1>2, <1>5, <2>1 DEF PInv, Arrivals
<1>8. Closing'
  <2>1. CASE pc' = "failed"
    BY <2>1 DEF Closing
  <2>2. CASE /\ data[i].fd \notin Fds /\ Live' = Live /\ OpenFds' = OpenFds
             /\ UNCHANGED <<sock, heap>> /\ pd[i] \notin Clients
    <3>1. Own(i..Len(data))' /\ 1 <= i'
      <4>1. \A c \in Live' : \E k \in (i + 1)..Len(data) : pd'[k] = c
        BY <1>2, <1>3, <1>4, <2>2 DEF Own
      <4>2. \A n \in OpenFds' : \E k \in (i + 1)..Len(data) : data'[k].fd = n
        BY <1>2, <1>3, <2>2 DEF Own, OpenFds
      <4>3. \A k \in (i + 1)..Len(data) :
              \/ data[k].fd = LsFd /\ pd[k] = None
              \/ data[k].fd = timer /\ timer \in Fds /\ sock[timer] = Timer
                 /\ pd[k] = None
              \/ data[k].fd = -1 /\ pd[k] = Orphan
              \/ pd[k] \in Live /\ data[k].fd \in Fds
                 /\ sock[data[k].fd] = pd[k]
        BY <1>3 DEF Own
      <4> QED BY <1>1, <1>2, <2>2, <4>1, <4>2, <4>3 DEF Own
    <3>2. NoTwins'
      BY <1>2, <1>3 DEF NoTwins
    <3> QED BY <3>1, <3>2 DEF Closing
  <2>3. CASE /\ data[i].fd \in Fds
             /\ Live' = Live \ {pd[i]} /\ OpenFds' = OpenFds \ {data[i].fd}
             /\ \A n \in Fds : n # data[i].fd => sock'[n] = sock[n]
    <3>1. \A k \in (i + 1)..Len(data) :
            data[k].fd # data[i].fd /\ (pd[k] \in Clients => pd[k] # pd[i])
      BY <1>1, <1>3 DEF NoTwins
    <3>2. Own(i..Len(data))' /\ 1 <= i'
      <4>1. \A c \in Live' : \E k \in (i + 1)..Len(data) : pd'[k] = c
        BY <1>2, <1>3, <2>3 DEF Own
      <4>2. \A n \in OpenFds' : \E k \in (i + 1)..Len(data) : data'[k].fd = n
        BY <1>2, <1>3, <2>3 DEF Own
      <4>3. \A k \in (i + 1)..Len(data) :
              \/ data[k].fd = LsFd /\ pd[k] = None
              \/ data[k].fd = timer /\ timer \in Fds /\ sock'[timer] = Timer
                 /\ pd[k] = None
              \/ data[k].fd = -1 /\ pd[k] = Orphan
              \/ pd[k] \in Live' /\ data[k].fd \in Fds
                 /\ sock'[data[k].fd] = pd[k]
        <5> TAKE k \in (i + 1)..Len(data)
        <5>1. \/ data[k].fd = LsFd /\ pd[k] = None
              \/ data[k].fd = timer /\ timer \in Fds /\ sock[timer] = Timer
                 /\ pd[k] = None
              \/ data[k].fd = -1 /\ pd[k] = Orphan
              \/ pd[k] \in Live /\ data[k].fd \in Fds /\ sock[data[k].fd] = pd[k]
          BY <1>3 DEF Own
        <5> QED BY <1>4, <2>3, <3>1, <5>1
      <4> QED BY <1>1, <1>2, <4>1, <4>2, <4>3 DEF Own
    <3>3. NoTwins'
      BY <1>2, <1>3 DEF NoTwins
    <3> QED BY <3>2, <3>3 DEF Closing
  <2> QED BY <1>5, <2>1, <2>2, <2>3
<1>9. FdsOwned' /\ TimerOwned' /\ Batch' /\ AtEcho' /\ Failed'
      /\ EventsAhead' /\ GracefulTeardown'
  BY <1>1, <1>3 DEF FdsOwned, TimerOwned, Batch, AtEcho, Failed, EventsAhead,
                    GracefulTeardown
<1>10. MessageFlow' /\ NoSpuriousFailure'
  BY <1>1, <1>2, <1>3 DEF PInv, MessageFlow, NoSpuriousFailure
<1> QED BY <1>6, <1>7, <1>8, <1>9, <1>10 DEF PInv

\* The process exits when every entry has been closed.
LEMMA CloseDoneInv ==
  ASSUME PInv, CloseDone
  PROVE  PInv'
<1>1. /\ pc = "closing" /\ pc' = "exited" /\ ~Up' /\ ~ (i <= Len(data))
      /\ UNCHANGED <<running, sig, cause, data, pd, capacity, i, size, events,
                     serviced, timer, expired, sock, buf,
                     heap, cpc, backlog, sent, taken, echoes, got>>
      /\ Live' = Live /\ OpenFds' = OpenFds
  BY DEF CloseDone, MoreEntries, vecVars, walkVars, timerVars, conVars,
         clientVars, Live, OpenFds, FreeFds, Up
<1>2. TypeOK'
  <2>1. ClientTypeOK'
    BY <1>1 DEF PInv, TypeOK, ClientTypeOK
  <2> QED BY <1>1, <2>1 DEF PInv, TypeOK
<1>3. Arrivals' /\ TimerOwned' /\ Failed' /\ FdsOwned' /\ Batch' /\ AtEcho'
  BY <1>1 DEF PInv, Arrivals, TimerOwned, Failed, FdsOwned, Batch, AtEcho
<1>4. GracefulTeardown'
  <2>1. Own(i..Len(data)) /\ i \in Nat /\ Len(data) \in Nat
    BY <1>1, VectorTypes DEF PInv, Closing, TypeOK
  <2>2. \A k \in i..Len(data) : FALSE
    BY <1>1, <2>1
  <2>3. Live = {} /\ OpenFds = {}
    BY <2>1, <2>2 DEF Own
  <2> QED BY <1>1, <2>3 DEF GracefulTeardown, OpenFds, FreeFds
<1>5. MessageFlow' /\ EventsAhead' /\ NoSpuriousFailure' /\ Closing'
  BY <1>1 DEF PInv, MessageFlow, EventsAhead, NoSpuriousFailure, Closing
<1> QED BY <1>2, <1>3, <1>4, <1>5 DEF PInv

-----------------------------------------------------------------------------
(***************************************************************************)
(* Every step.                                                             *)
(***************************************************************************)

\* The steps of QuietInv.
LEMMA QuietSteps ==
  ASSUME PInv,
         \/ SendSignal \/ DeliverSignal \/ Start \/ Loop \/ TimerExpires
         \/ Terminating \/ UNCHANGED vars
  PROVE  PInv'
<1>1. /\ running \in BOOLEAN /\ expired \in BOOLEAN
      /\ sig \in {"none", "pending", "delivered"}
  BY DEF PInv, TypeOK
<1>2. CASE SendSignal
  BY <1>1, <1>2, QuietInv DEF SendSignal, timerVars
<1>3. CASE DeliverSignal
  BY <1>1, <1>3, QuietInv DEF DeliverSignal, Stopped, SignalOpen, timerVars
<1>4. CASE Start \/ Loop
  BY <1>1, <1>4, QuietInv DEF Start, Loop, timerVars
<1>5. CASE TimerExpires
  BY <1>1, <1>5, QuietInv DEF TimerExpires, ctlVars
<1>6. CASE Terminating \/ UNCHANGED vars
  BY <1>1, <1>6, QuietInv DEF Terminating, vars, ctlVars, timerVars
<1> QED BY <1>2, <1>3, <1>4, <1>5, <1>6

\* Every action keeps the invariant.
LEMMA NextPInv ==
  ASSUME PInv, [Next]_vars
  PROVE  PInv'
<1>1. CASE \/ SendSignal \/ DeliverSignal \/ Start \/ Loop \/ TimerExpires
           \/ Terminating \/ UNCHANGED vars
  BY <1>1, QuietSteps
<1>2. CASE Ppoll \/ Skip \/ WalkDone
  BY <1>2, PpollInv, SkipInv, WalkDoneInv
<1>3. CASE ServeListener \/ ServeTimer \/ ServeHangup \/ ServeData
  BY <1>3, ServeListenerInv, ServeTimerInv, ServeHangupInv, ServeDataInv
<1>4. CASE WriteEcho \/ Cleanup \/ CloseOne \/ CloseDone
  BY <1>4, WriteEchoInv, CleanupInv, CloseOneInv, CloseDoneInv
<1>5. ASSUME NEW c \in Clients, ClientMove(c)
      PROVE  PInv'
  BY <1>5, ClientMoveInv
<1> QED BY <1>1, <1>2, <1>3, <1>4, <1>5 DEF Next, ServerStep

-----------------------------------------------------------------------------
(***************************************************************************)
(* The theorems.                                                           *)
(***************************************************************************)

\* PInv holds in every state the server, its clients and the kernel reach.
THEOREM Invariance == SafeSpec => []PInv
<1>1. Init => PInv
  BY InitPInv
<1>2. PInv /\ [Next]_vars => PInv'
  BY NextPInv
<1> QED BY <1>1, <1>2, PTL DEF SafeSpec

\* Every variable keeps its type; the vector fits into its arrays.
THEOREM TypeCorrect == SafeSpec => []TypeOK
<1>1. PInv => TypeOK
  BY DEF PInv
<1> QED BY <1>1, Invariance, PTL

\* The walk over the changing vector services every event exactly once: the
\* assertion at its end never fails.
THEOREM AllServiced == SafeSpec => []EventsAhead
<1>1. PInv => EventsAhead
  BY DEF PInv
<1> QED BY <1>1, Invariance, PTL

\* The two arrays stay aligned through every append and every removal.
THEOREM ArraysAligned == SafeSpec => []FdsOwned
<1>1. PInv => FdsOwned
  BY DEF PInv
<1> QED BY <1>1, Invariance, PTL

\* The number of the timer is the timer's, so the right handler is called.
THEOREM RightHandler == SafeSpec => []DispatchMatches
<1>1. PInv => DispatchMatches
  <2> SUFFICES ASSUME PInv, Up, NEW n \in Fds, sock[n] # None
               PROVE  sock[n] = Timer <=> n = timer
    BY DEF DispatchMatches
  <2>1. /\ timer # -1 => sock[timer] = Timer
        /\ \A m \in Fds : sock[m] = Timer => m = timer
    BY DEF PInv, TimerOwned
  <2> QED BY <2>1, FdTypes
<1> QED BY <1>1, Invariance, PTL

\* read and close fail for no reason of the server's own making, but for the
\* descriptor that accept_client did not get.
THEOREM NoFailureByMistake == SafeSpec => []NoSpuriousFailure
<1>1. PInv => NoSpuriousFailure
  BY DEF PInv
<1> QED BY <1>1, Invariance, PTL

\* A server that exits has closed every descriptor and freed every connection.
THEOREM Teardown == SafeSpec => []GracefulTeardown
<1>1. PInv => GracefulTeardown
  BY DEF PInv
<1> QED BY <1>1, Invariance, PTL

-----------------------------------------------------------------------------
(***************************************************************************)
(* The server implements EchoService.                                      *)
(***************************************************************************)

\* What the states of clients and connections map to.
LEMMA Mapping ==
  /\ Presence["start"] = "away" /\ Presence["up"] = "here"
  /\ Presence["gone"] = "left"
  /\ Holding["unallocated"] = "none" /\ Holding["live"] = "held"
  /\ Holding["freed"] = "released"
  BY DEF Presence, Holding

\* Steps that touch none of the mapped variables are no step of the service.
LEMMA Stutter ==
  ASSUME Up' = Up, UNCHANGED <<cpc, heap, sent, echoes>>
  PROVE  UNCHANGED Echo!vars
  BY DEF Echo!vars

\* Leaving the loop for good, or failing an assertion, is Stop.
LEMMA Stopping ==
  ASSUME Up, ~Up', UNCHANGED <<cpc, heap, sent, echoes>>
  PROVE  Echo!Stop
  BY DEF Echo!Stop

\* Connecting, sending and leaving are the steps of that name.
LEMMA ClientMaps ==
  ASSUME PInv, NEW c \in Clients, ClientMove(c)
  PROVE  [Echo!Next]_Echo!vars
<1>a. Up' = Up /\ heap' = heap
  BY DEF ClientMove, ctlVars, conVars, Up
<1>1. CASE ClientConnect(c)
  <2>1. Echo!Connect(c)
    BY <1>a, <1>1, Mapping
       DEF ClientConnect, Echo!Connect, PInv, TypeOK, ClientTypeOK
  <2> QED BY <2>1 DEF Echo!Next
<1>2. CASE ClientSend(c)
  <2>1. Echo!Ask(c)
    BY <1>a, <1>2, Mapping
       DEF ClientSend, Echo!Ask, PInv, TypeOK, ClientTypeOK
  <2> QED BY <2>1 DEF Echo!Next
<1>3. CASE ClientRecv(c)
  BY <1>a, <1>3, Stutter DEF ClientRecv
<1>4. CASE ClientClose(c)
  <2>1. Echo!Leave(c)
    BY <1>a, <1>4, Mapping
       DEF ClientClose, Echo!Leave, PInv, TypeOK, ClientTypeOK
  <2> QED BY <2>1 DEF Echo!Next
<1> QED BY <1>1, <1>2, <1>3, <1>4 DEF ClientMove, ClientStep

\* accept4 is Accept, if it returns a connection.
LEMMA ListenerMaps ==
  ASSUME PInv, ServeListener
  PROVE  [Echo!Next]_Echo!vars
<1>1. Up /\ UNCHANGED <<cpc, sent, echoes>>
  BY DEF ServeListener, Here, InWalk, Up
<1>2. ASSUME NEW c \in backlog, heap' = [heap EXCEPT ![c] = "live"],
             UNCHANGED pc
      PROVE  [Echo!Next]_Echo!vars
  <2>1. c \in Clients /\ heap[c] = "unallocated" /\ cpc[c] \in {"up", "gone"}
    BY DEF PInv, TypeOK, ClientTypeOK, Arrivals
  <2>2. Echo!Accept(c)
    BY <1>1, <1>2, <2>1, Mapping DEF Echo!Accept, PInv, TypeOK, Up
  <2> QED BY <2>1, <2>2 DEF Echo!Next
<1>3. CASE UNCHANGED <<pc, heap>>
  BY <1>1, <1>3, Stutter DEF Up
<1>4. CASE Abort("accept") /\ UNCHANGED heap
  BY <1>1, <1>4, Stopping DEF Abort, Up, Echo!Next
<1> QED BY <1>2, <1>3, <1>4 DEF ServeListener

\* close_client inside the walk is Release: the client has left.
LEMMA CloseMaps ==
  ASSUME PInv, AtClient, CloseClient(i), UNCHANGED <<cpc, sent, echoes>>,
         cpc[pd[i]] = "gone"
  PROVE  [Echo!Next]_Echo!vars
<1>1. PICK c \in Clients : c = pd[i]
  BY CloseClientStep
<1>2. /\ heap[c] = "live" /\ Up' = Up /\ Up /\ cpc[c] = "gone"
      /\ heap' = [heap EXCEPT ![c] = "freed"]
  BY <1>1, CloseClientStep DEF Live, Up, AtClient, Here, InWalk
<1>3. Echo!Release(c)
  BY <1>2, Mapping DEF Echo!Release, PInv, TypeOK
<1> QED BY <1>3 DEF Echo!Next

\* The handlers of a connection's events.
LEMMA ServeMaps ==
  ASSUME PInv, ServeHangup \/ ServeData
  PROVE  [Echo!Next]_Echo!vars
<1>1. CASE ServeHangup
  <2>1. AtClient /\ cpc[pd[i]] = "gone"
    BY <1>1, AtEntry DEF ServeHangup, AtClient
  <2> QED BY <1>1, <2>1, CloseMaps DEF ServeHangup, clientVars
<1>2. CASE ServeData
  <2>1. /\ Up /\ UNCHANGED <<cpc, sent, echoes>> /\ AtClient
        /\ pd[i] \in Clients /\ Peer = pd[i] /\ ClientTypeOK
        /\ taken[Peer] <= sent[Peer]
    BY <1>2, AtEntry
       DEF ServeData, AtClient, Here, InWalk, Up, Peer, PInv, TypeOK, MessageFlow
  <2>2. CASE pc' = "failed" /\ heap' = heap
    BY <2>1, <2>2, Stopping DEF Up, Echo!Next
  <2>3. CASE pc' = "echo" /\ heap' = heap
    BY <2>1, <2>3, Stutter DEF Up
  <2>4. CASE 0 \in RecvResults(Peer) /\ CloseClient(i)
    BY <2>1, <2>4, ReadResults, CloseMaps
  <2> QED BY <1>2, <2>2, <2>3, <2>4 DEF ServeData, Abort, conVars
<1> QED BY <1>1, <1>2

\* The write of a whole message is Answer: the buffer has the one that is due.
LEMMA WriteMaps ==
  ASSUME PInv, WriteEcho
  PROVE  [Echo!Next]_Echo!vars
<1>1. PICK c \in Clients :
        /\ c = Peer /\ c = pd[i] /\ heap[c] = "live" /\ Up
        /\ buf[c] = Len(echoes[c]) + 1 /\ taken[c] <= sent[c]
        /\ taken[c] = buf[c]
        /\ UNCHANGED <<cpc, heap, sent>>
  BY EchoPeer DEF WriteEcho, Live, Up, conVars
<1>2. CASE /\ pc' = "serve"
           /\ echoes' = [echoes EXCEPT ![c] = Append(@, buf[c])]
  <2>1. echoes' = [echoes EXCEPT ![c] = Append(@, Len(@) + 1)]
    BY <1>1, <1>2
  <2>2. Len(echoes[c]) < sent[c]
    <3>1. echoes[c] \in Seq(Nat) /\ sent[c] \in Nat
      BY DEF PInv, TypeOK, ClientTypeOK
    <3>2. Len(echoes[c]) \in Nat
      BY <3>1
    <3> QED BY <1>1, <3>1, <3>2
  <2>3. Up'
    BY <1>2 DEF Up
  <2>4. Echo!Answer(c)
    BY <1>1, <2>1, <2>2, <2>3, Mapping DEF Echo!Answer
  <2> QED BY <2>4 DEF Echo!Next
<1>3. CASE pc' = "failed" /\ echoes' = echoes
  <2>1. ~Up'
    BY <1>3 DEF Up
  <2> QED BY <1>1, <1>3, <2>1, Stopping DEF Echo!Next
<1> QED BY <1>1, <1>2, <1>3 DEF WriteEcho, Whole, Echoed, DeliverEcho, Abort

\* Closing the entry of a connection in the cleanup is TearDown.
LEMMA CleanupMaps ==
  ASSUME PInv, CloseOne
  PROVE  [Echo!Next]_Echo!vars
<1>1. ~Up /\ Up' = Up /\ UNCHANGED <<cpc, sent, echoes>>
  <2>1. pc = "closing" /\ pc' \in {"closing", "failed"}
    BY DEF CloseOne, Abort
  <2>2. UNCHANGED <<cpc, sent, echoes>>
    BY DEF CloseOne, clientVars
  <2> QED BY <2>1, <2>2 DEF Up
<1>2. CASE heap' = heap
  BY <1>1, <1>2, Stutter
<1>3. ASSUME NEW c \in Clients, c \in Live, heap' = [heap EXCEPT ![c] = "freed"]
      PROVE  [Echo!Next]_Echo!vars
  <2>1. Echo!TearDown(c)
    BY <1>1, <1>3, Mapping DEF Echo!TearDown, PInv, TypeOK, Live
  <2> QED BY <2>1 DEF Echo!Next
<1>4. \/ heap' = heap
      \/ \E c \in Clients : c \in Live /\ heap' = [heap EXCEPT ![c] = "freed"]
  <2>1. None \notin Clients /\ Live \subseteq Clients
    BY PollAssumption DEF Live
  <2>2. \/ heap' = heap
        \/ pd[i] \in Live /\ heap' = [heap EXCEPT ![pd[i]] = "freed"]
    BY <2>1, CloseOneStep
  <2> QED BY <2>1, <2>2
<1> QED BY <1>2, <1>3, <1>4

\* Every step of the server is a step of the service or none.
LEMMA NextMaps ==
  ASSUME PInv, [Next]_vars
  PROVE  [Echo!Next]_Echo!vars
<1> USE DEF vars, ctlVars, timerVars, conVars, clientVars
<1>1. CASE SendSignal \/ DeliverSignal \/ TimerExpires
  <2>1. Up' = Up /\ UNCHANGED <<cpc, heap, sent, echoes>>
    BY <1>1 DEF SendSignal, DeliverSignal, TimerExpires, SignalOpen, Up
  <2> QED BY <2>1, Stutter
<1>2. CASE Start \/ Loop \/ Ppoll \/ Skip \/ ServeTimer
  <2>1. Up' = Up /\ UNCHANGED <<cpc, heap, sent, echoes>>
    BY <1>2 DEF Start, Loop, Ppoll, Skip, ServeTimer, Up
  <2> QED BY <2>1, Stutter
<1>3. CASE WalkDone
  <2>1. Up /\ UNCHANGED <<cpc, heap, sent, echoes>>
    BY <1>3 DEF WalkDone, Up
  <2>2. Up' \/ ~Up'
    OBVIOUS
  <2> QED BY <2>1, <2>2, Stutter, Stopping DEF Echo!Next, Up
<1>4. CASE Cleanup
  <2>1. Up /\ ~Up' /\ UNCHANGED <<cpc, heap, sent, echoes>>
    BY <1>4 DEF Cleanup, Up
  <2> QED BY <2>1, Stopping DEF Echo!Next
<1>5. CASE CloseDone \/ Terminating \/ UNCHANGED vars
  <2>1. Up' = Up /\ UNCHANGED <<cpc, heap, sent, echoes>>
    BY <1>5 DEF CloseDone, Terminating, Up
  <2> QED BY <2>1, Stutter
<1> QED BY <1>1, <1>2, <1>3, <1>4, <1>5, ListenerMaps, ServeMaps, WriteMaps,
           CleanupMaps, ClientMaps
        DEF Next, ServerStep

\* The poll server is an echo service: what EchoService allows is all that
\* its clients and its connections ever see.
THEOREM ImplementsEcho == SafeSpec => EchoSafe
<1>1. Init => Echo!Init
  BY Mapping DEF Init, ClientInit, Echo!Init, Up
<1>2. PInv /\ [Next]_vars => [Echo!Next]_Echo!vars
  BY NextMaps
<1> QED BY <1>1, <1>2, Invariance, PTL DEF SafeSpec, EchoSafe, Echo!SafeSpec

=============================================================================
