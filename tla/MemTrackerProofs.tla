--------------------------- MODULE MemTrackerProofs ---------------------------
(***************************************************************************)
(* Proofs about MemTracker, for any numbers of objects and nodes: the      *)
(* links stay those of a list, a walk finds every live object, and the     *)
(* list behaves as the set of TrackedOps.                                  *)
(***************************************************************************)
EXTENDS MemTracker, SequenceTheorems, WellFoundedInduction, TLAPS

-----------------------------------------------------------------------------
\* What is left of a sequence when one element is taken out.
LEMMA RemoveAtProperties ==
  ASSUME NEW S, NEW s \in Seq(S), NEW k \in 1..Len(s)
  PROVE  /\ RemoveAt(s, k) \in Seq(S)
         /\ Len(RemoveAt(s, k)) = Len(s) - 1
         /\ \A j \in 1..(Len(s) - 1) :
              RemoveAt(s, k)[j] = IF j < k THEN s[j] ELSE s[j + 1]
<1> DEFINE a == SubSeq(s, 1, k - 1)
           b == SubSeq(s, k + 1, Len(s))
<1>1. Len(s) \in Nat /\ \A j \in 1..Len(s) : s[j] \in S
  OBVIOUS
<1>2. /\ a \in Seq(S) /\ Len(a) = k - 1
      /\ \A j \in 1..(k - 1) : a[j] = s[j]
  <2>1. \A j \in 1..(k - 1) : s[j] \in S
    BY <1>1
  <2>2. 1 \in Int /\ k - 1 \in Int
    BY <1>1
  <2>3. /\ a \in Seq(S) /\ Len(a) = (IF 1 <= k - 1 THEN k - 1 - 1 + 1 ELSE 0)
        /\ \A j \in 1..(k - 1 - 1 + 1) : a[j] = s[1 + j - 1]
    BY <2>1, <2>2, SubSeqProperties
  <2>4. QED
    BY <1>1, <2>3
<1>3. /\ b \in Seq(S) /\ Len(b) = Len(s) - k
      /\ \A j \in 1..(Len(s) - k) : b[j] = s[k + j]
  <2>1. \A j \in (k + 1)..Len(s) : s[j] \in S
    BY <1>1
  <2>2. k + 1 \in Int /\ Len(s) \in Int
    BY <1>1
  <2>3. /\ b \in Seq(S)
        /\ Len(b) = (IF k + 1 <= Len(s) THEN Len(s) - (k + 1) + 1 ELSE 0)
        /\ \A j \in 1..(Len(s) - (k + 1) + 1) : b[j] = s[k + 1 + j - 1]
    BY <2>1, <2>2, SubSeqProperties
  <2>4. QED
    BY <1>1, <2>3
<1>4. /\ a \o b \in Seq(S) /\ Len(a \o b) = Len(a) + Len(b)
      /\ \A j \in 1..(Len(a) + Len(b)) :
           (a \o b)[j] = IF j <= Len(a) THEN a[j] ELSE b[j - Len(a)]
  BY <1>2, <1>3, ConcatProperties
<1>5. RemoveAt(s, k) = a \o b
  BY DEF RemoveAt
<1> HIDE DEF a, b
<1>6. Len(a \o b) = Len(s) - 1
  BY <1>1, <1>2, <1>3, <1>4
<1>7. ASSUME NEW j \in 1..(Len(s) - 1)
      PROVE  (a \o b)[j] = IF j < k THEN s[j] ELSE s[j + 1]
  <2> DEFINE c == a \o b
  <2>1. j \in 1..(Len(a) + Len(b)) /\ Len(a) = k - 1
    BY <1>1, <1>2, <1>3
  <2>2. c[j] = IF j <= Len(a) THEN a[j] ELSE b[j - Len(a)]
    BY <1>4, <2>1
  <2> HIDE DEF c
  <2>3. ASSUME j < k PROVE c[j] = s[j]
    BY <1>1, <1>2, <2>1, <2>2, <2>3
  <2>4. ASSUME ~ (j < k) PROVE c[j] = s[j + 1]
    <3> DEFINE i == j - (k - 1)
    <3>1. c[j] = b[i]
      BY <1>1, <2>1, <2>2, <2>4
    <3>2. i \in 1..(Len(s) - k) /\ k + i = j + 1
      BY <1>1, <2>4
    <3> HIDE DEF i
    <3>3. b[i] = s[k + i]
      BY <1>3, <3>2
    <3>4. QED
      BY <3>1, <3>2, <3>3
  <2>5. c[j] = IF j < k THEN s[j] ELSE s[j + 1]
    BY <2>3, <2>4
  <2>6. QED
    BY <2>5 DEF c
<1>8. QED
  BY <1>4, <1>5, <1>6, <1>7

-----------------------------------------------------------------------------
(***************************************************************************)
(* The invariant.                                                          *)
(***************************************************************************)

\* The empty list satisfies the invariant.
LEMMA InitMInv == Init => MInv
  BY NullAssumption
  DEF Init, MInv, TypeOK, Paired, ListLinked, OrderIsLive, Oldest, Newest

\* A new node and its object: neither was live.
LEMMA NewClientMInv ==
  ASSUME MInv, NEW n \in Nodes, NEW o \in Ops, NewClient(n, o)
  PROVE  MInv'
<1> DEFINE L == Len(order)
<1>1. /\ order \in Seq(Nodes) /\ L \in Nat
      /\ \A k \in 1..L : order[k] \in Nodes /\ order[k] \in liveNodes
      /\ n \notin liveNodes
  BY DEF MInv, TypeOK, ListLinked, OrderIsLive, NewClient
<1>2. /\ order' \in Seq(Nodes) /\ Len(order') = L + 1
      /\ \A k \in 1..L : order'[k] = order[k]
      /\ order'[L + 1] = n
  BY <1>1, AppendProperties DEF NewClient
<1>3. \A j, k \in 1..L : order[j] = order[k] => j = k
  BY DEF MInv, ListLinked, OrderIsLive
<1>4. /\ phase = "serving" /\ phase' = "serving"
      /\ head = Oldest /\ tail = Newest
      /\ \A k \in 1..L : prev[order[k]] = Before(k) /\ next[order[k]] = After(k)
  BY DEF MInv, ListLinked, NewClient
<1>5. head = Null <=> L = 0
  BY <1>1, <1>4, NullAssumption, EmptySeq DEF Oldest
<1>6. L # 0 => tail = order[L] /\ head = order[1] /\ head # Null
  BY <1>1, <1>4, <1>5 DEF Newest, Oldest
<1>7. TypeOK'
  <2>1. /\ TypeOK /\ phase' = phase /\ cursor' = cursor
        /\ allocatedOp' = [allocatedOp EXCEPT ![n] = o]
        /\ memTracker' = [memTracker EXCEPT ![o] = n]
        /\ liveNodes' = liveNodes \cup {n} /\ liveOps' = liveOps \cup {o}
    BY DEF MInv, NewClient
  <2>2. head' \in Nodes \cup {Null} /\ tail' \in Nodes \cup {Null}
    BY <2>1 DEF NewClient, PushBack, TypeOK
  <2>3. next' \in [Nodes -> Nodes \cup {Null}]
    BY <2>1 DEF NewClient, PushBack, TypeOK
  <2>4. prev' \in [Nodes -> Nodes \cup {Null}]
    BY <2>1 DEF NewClient, PushBack, TypeOK
  <2>5. QED
    BY <1>2, <2>1, <2>2, <2>3, <2>4 DEF TypeOK
<1>8. Paired'
  BY DEF MInv, TypeOK, Paired, NewClient
<1>9. OrderIsLive'
  <2>1. \A k \in 1..Len(order') : order'[k] \in liveNodes'
    BY <1>1, <1>2 DEF NewClient
  <2>2. \A m \in liveNodes' : \E k \in 1..Len(order') : order'[k] = m
    BY <1>1, <1>2 DEF NewClient, MInv, ListLinked, OrderIsLive
  <2>3. \A j, k \in 1..Len(order') : order'[j] = order'[k] => j = k
    BY <1>1, <1>2, <1>3
  <2>4. QED
    BY <2>1, <2>2, <2>3 DEF OrderIsLive
<1>10. (head = Oldest /\ tail = Newest)'
  <2>1. order' # <<>>
    BY <1>1, <1>2
  <2>2. head' = order'[1]
    BY <1>1, <1>2, <1>5, <1>6 DEF NewClient, PushBack
  <2>3. tail' = order'[L + 1]
    BY <1>2 DEF NewClient, PushBack
  <2>4. QED
    BY <1>2, <2>1, <2>2, <2>3 DEF Oldest, Newest
<1>11. \A k \in 1..Len(order') : prev'[order'[k]] = Before(k)'
  <2>1. SUFFICES ASSUME NEW k \in 1..(L + 1)
                 PROVE  prev'[order'[k]] = IF k = 1 THEN Null ELSE order'[k - 1]
    BY <1>2 DEF Before
  <2>2. CASE k = L + 1
    BY <1>1, <1>2, <1>5, <1>6, <2>2 DEF NewClient, PushBack, MInv, TypeOK
  <2>3. CASE k # L + 1
    <3>1. k \in 1..L /\ order'[k] = order[k] /\ order[k] # n
          /\ (k # 1 => order'[k - 1] = order[k - 1])
      BY <1>1, <1>2, <2>3
    <3>2. prev'[order[k]] = prev[order[k]]
      BY <1>1, <3>1 DEF NewClient, PushBack, MInv, TypeOK
    <3>3. QED
      BY <1>4, <3>1, <3>2 DEF Before
  <2>4. QED
    BY <2>2, <2>3
<1>12. \A k \in 1..Len(order') : next'[order'[k]] = After(k)'
  <2>1. SUFFICES ASSUME NEW k \in 1..(L + 1)
                 PROVE  next'[order'[k]]
                          = IF k = L + 1 THEN Null ELSE order'[k + 1]
    BY <1>2 DEF After
  <2>2. CASE k = L + 1
    <3>1. n # tail \/ head = Null
      BY <1>1, <1>5, <1>6
    <3>2. QED
      BY <1>2, <2>2, <3>1 DEF NewClient, PushBack, MInv, TypeOK
  <2>3. CASE k = L
    BY <1>1, <1>2, <1>5, <1>6, <2>3 DEF NewClient, PushBack, MInv, TypeOK
  <2>4. CASE k # L + 1 /\ k # L
    <3>1. k \in 1..L /\ L \in 1..L /\ order'[k] = order[k] /\ order[k] # n
          /\ order'[k + 1] = order[k + 1] /\ L # 0
      BY <1>1, <1>2, <2>4
    <3>2. order[k] # tail
      BY <1>3, <1>6, <2>4, <3>1
    <3>3. next'[order[k]] = next[order[k]]
      BY <1>1, <3>1, <3>2 DEF NewClient, PushBack, MInv, TypeOK
    <3>4. QED
      BY <1>4, <2>4, <3>1, <3>3 DEF After
  <2>5. QED
    BY <2>2, <2>3, <2>4
<1>13. QED
  BY <1>4, <1>7, <1>8, <1>9, <1>10, <1>11, <1>12 DEF MInv, ListLinked

\* The node of a closing client leaves the list, wherever it stands in it.
LEMMA ClosingClientMInv ==
  ASSUME MInv, NEW o \in Ops, ClosingClient(o)
  PROVE  MInv'
<1> DEFINE L == Len(order)
           n == memTracker[o]
<1>1. /\ order \in Seq(Nodes) /\ L \in Nat
      /\ \A k \in 1..L : order[k] \in Nodes /\ order[k] \in liveNodes
      /\ \A i, j \in 1..L : order[i] = order[j] => i = j
      /\ n \in Nodes /\ n \in liveNodes /\ Null \notin Nodes
  BY NullAssumption
  DEF MInv, TypeOK, ListLinked, OrderIsLive, Paired, ClosingClient
<1>2. PICK k \in 1..L : order[k] = n /\ order' = RemoveAt(order, k)
  BY DEF ClosingClient
<1>3. /\ order' \in Seq(Nodes) /\ Len(order') = L - 1 /\ L - 1 \in Nat
      /\ \A j \in 1..(L - 1) : order'[j] = IF j < k THEN order[j] ELSE order[j + 1]
  <2>1. PICK s \in Seq(Nodes) : s = RemoveAt(order, k)
    BY <1>1, RemoveAtProperties
  <2>2. /\ Len(s) = L - 1
        /\ \A j \in 1..(L - 1) : s[j] = IF j < k THEN order[j] ELSE order[j + 1]
    BY <1>1, <2>1, RemoveAtProperties
  <2>3. order' = s
    BY <1>2, <2>1
  <2>4. QED
    BY <1>1, <2>2, <2>3
<1>4. /\ phase = "serving" /\ phase' = "serving"
      /\ head = order[1] /\ tail = order[L]
      /\ \A j \in 1..L : /\ prev[order[j]] = (IF j = 1 THEN Null ELSE order[j - 1])
                         /\ next[order[j]] = (IF j = L THEN Null ELSE order[j + 1])
  BY <1>1, <1>2
  DEF MInv, ListLinked, ClosingClient, Oldest, Newest, Before, After
<1>5. /\ prev[n] = (IF k = 1 THEN Null ELSE order[k - 1])
      /\ next[n] = (IF k = L THEN Null ELSE order[k + 1])
  BY <1>2, <1>4
<1>6. /\ prev' = [m \in Nodes |-> IF m = n THEN Null
                                  ELSE IF m = next[n] THEN prev[n] ELSE prev[m]]
      /\ next' = [m \in Nodes |-> IF m = n THEN Null
                                  ELSE IF m = prev[n] THEN next[n] ELSE next[m]]
      /\ head' = (IF n = head THEN next[n] ELSE head)
      /\ tail' = (IF n = tail THEN prev[n] ELSE tail)
      /\ liveNodes' = liveNodes \ {n} /\ liveOps' = liveOps \ {o}
  BY DEF ClosingClient, RemoveNode
<1>7. TypeOK'
  <2>1. TypeOK /\ opVars' = opVars /\ cursor' = cursor
    BY DEF MInv, ClosingClient
  <2>2. prev[n] \in Nodes \cup {Null} /\ next[n] \in Nodes \cup {Null}
    BY <1>1, <2>1 DEF TypeOK
  <2>3. head' \in Nodes \cup {Null} /\ tail' \in Nodes \cup {Null}
    BY <1>6, <2>1, <2>2 DEF TypeOK
  <2>4. next' \in [Nodes -> Nodes \cup {Null}] /\ prev' \in [Nodes -> Nodes \cup {Null}]
    BY <1>6, <2>1, <2>2 DEF TypeOK
  <2>5. QED
    BY <1>3, <1>4, <1>6, <2>1, <2>3, <2>4 DEF TypeOK, opVars
<1>8. Paired'
  <2>1. /\ Paired /\ o \in liveOps
        /\ allocatedOp' = allocatedOp /\ memTracker' = memTracker
    BY DEF MInv, ClosingClient, opVars
  <2>2. QED
    BY <1>6, <2>1 DEF Paired
<1> HIDE DEF n
<1>9. OrderIsLive'
  <2>1. \A j \in 1..(L - 1) : order'[j] \in liveNodes'
    BY <1>1, <1>2, <1>3, <1>6
  <2>2. \A m \in liveNodes' : \E j \in 1..(L - 1) : order'[j] = m
    <3>1. SUFFICES ASSUME NEW m \in liveNodes, m # n
                   PROVE  \E j \in 1..(L - 1) : order'[j] = m
      BY <1>6
    <3>2. PICK i \in 1..L : order[i] = m
      BY DEF MInv, ListLinked, OrderIsLive
    <3>3. CASE i < k
      BY <1>1, <1>3, <3>2, <3>3
    <3>4. CASE i > k
      <4>1. i - 1 \in 1..(L - 1) /\ order'[i - 1] = order[i]
        BY <1>1, <1>3, <3>4
      <4>2. QED
        BY <3>2, <4>1
    <3>5. QED
      BY <1>1, <1>2, <3>1, <3>2, <3>3, <3>4
  <2>3. \A i, j \in 1..(L - 1) : order'[i] = order'[j] => i = j
    BY <1>1, <1>3
  <2>4. QED
    BY <1>3, <2>1, <2>2, <2>3 DEF OrderIsLive
<1>10. (head = Oldest /\ tail = Newest)'
  <2>1. CASE L = 1
    <3>1. k = 1 /\ order' = <<>>
      BY <1>1, <1>3, <2>1, EmptySeq
    <3>2. head' = Null /\ tail' = Null
      BY <1>1, <1>2, <1>4, <1>5, <1>6, <2>1, <3>1
    <3>3. QED
      BY <3>1, <3>2 DEF Oldest, Newest
  <2>2. CASE L # 1
    <3>1. L - 1 \in 1..(L - 1) /\ 1 \in 1..(L - 1) /\ order' # <<>>
      BY <1>1, <1>3, <2>2
    <3>2. head' = order'[1]
      BY <1>1, <1>2, <1>3, <1>4, <1>5, <1>6, <2>2, <3>1
    <3>3. tail' = order'[L - 1]
      BY <1>1, <1>2, <1>3, <1>4, <1>5, <1>6, <2>2, <3>1
    <3>4. QED
      BY <1>3, <3>1, <3>2, <3>3 DEF Oldest, Newest
  <2>3. QED
    BY <2>1, <2>2
<1>11. \A j \in 1..Len(order') : prev'[order'[j]] = Before(j)'
  <2>1. SUFFICES ASSUME NEW j \in 1..(L - 1)
                 PROVE  prev'[order'[j]] = IF j = 1 THEN Null ELSE order'[j - 1]
    BY <1>3 DEF Before
  <2>2. CASE j < k
    <3>1. j \in 1..L /\ order'[j] = order[j] /\ order[j] # n
          /\ (j # 1 => order'[j - 1] = order[j - 1])
      BY <1>1, <1>2, <1>3, <2>2
    <3>2. order[j] # next[n]
      BY <1>1, <1>5, <2>2, <3>1
    <3>3. QED
      BY <1>1, <1>4, <1>6, <3>1, <3>2
  <2>3. CASE j >= k
    <3>1. j + 1 \in 1..L /\ order'[j] = order[j + 1] /\ order[j + 1] # n
      BY <1>1, <1>2, <1>3, <2>3
    <3>2. CASE j = k
      <4>1. order[j + 1] = next[n]
        BY <1>1, <1>5, <3>1, <3>2
      <4>2. prev'[order'[j]] = prev[n]
        BY <1>1, <1>6, <3>1, <4>1
      <4>3. k # 1 => order'[k - 1] = order[k - 1]
        BY <1>1, <1>3, <3>2
      <4>4. QED
        BY <1>5, <3>2, <4>2, <4>3
    <3>3. CASE j # k
      <4>1. order[j + 1] # next[n]
        BY <1>1, <1>5, <2>3, <3>1, <3>3
      <4>2. prev'[order'[j]] = prev[order[j + 1]]
        BY <1>1, <1>6, <3>1, <4>1
      <4>3. prev[order[j + 1]] = order[j]
        BY <1>4, <3>1, <3>3, <2>3
      <4>4. j # 1 /\ j - 1 \in 1..(L - 1) /\ ~(j - 1 < k) /\ (j - 1) + 1 = j
        BY <1>1, <2>3, <3>3
      <4>5. order'[j - 1] = order[j]
        BY <1>3, <4>4
      <4>6. QED
        BY <4>2, <4>3, <4>4, <4>5
    <3>4. QED
      BY <3>2, <3>3
  <2>4. QED
    BY <1>1, <2>2, <2>3
<1>12. \A j \in 1..Len(order') : next'[order'[j]] = After(j)'
  <2>1. SUFFICES ASSUME NEW j \in 1..(L - 1)
                 PROVE  next'[order'[j]]
                          = IF j = L - 1 THEN Null ELSE order'[j + 1]
    BY <1>3 DEF After
  <2>2. CASE j >= k
    <3>1. j + 1 \in 1..L /\ order'[j] = order[j + 1] /\ order[j + 1] # n
          /\ (j # L - 1 => order'[j + 1] = order[j + 2])
      <4>1. j + 1 \in 1..L /\ order'[j] = order[j + 1] /\ order[j + 1] # n
        BY <1>1, <1>2, <1>3, <2>2
      <4>2. ASSUME j # L - 1 PROVE order'[j + 1] = order[j + 2]
        <5>1. j + 1 \in 1..(L - 1) /\ ~(j + 1 < k) /\ (j + 1) + 1 = j + 2
          BY <1>1, <2>2, <4>2
        <5> QED BY <1>3, <5>1
      <4> QED BY <4>1, <4>2
    <3>2. order[j + 1] # prev[n]
      BY <1>1, <1>5, <2>2, <3>1
    <3>3. QED
      BY <1>1, <1>4, <1>6, <3>1, <3>2
  <2>3. CASE j < k
    <3>1. j \in 1..L /\ order'[j] = order[j] /\ order[j] # n
      BY <1>1, <1>2, <1>3, <2>3
    <3>2. CASE j + 1 = k
      <4>1. order[j] = prev[n]
        BY <1>1, <1>5, <3>1, <3>2
      <4>2. next'[order'[j]] = next[n]
        BY <1>1, <1>6, <3>1, <4>1
      <4>3. j # L - 1 => order'[j + 1] = order[k + 1]
        BY <1>1, <1>3, <3>2
      <4>4. j = L - 1 <=> k = L
        BY <1>1, <3>2
      <4>5. QED
        BY <1>5, <4>2, <4>3, <4>4
    <3>3. CASE j + 1 # k
      <4>1. order[j] # prev[n]
        BY <1>1, <1>5, <2>3, <3>1, <3>3
      <4>2. next'[order'[j]] = next[order[j]]
        BY <1>1, <1>6, <3>1, <4>1
      <4>3. j # L /\ j # L - 1
        BY <1>1, <2>3, <3>3
      <4>4. order'[j + 1] = order[j + 1]
        BY <1>1, <1>3, <2>3, <3>3, <4>3
      <4>5. QED
        BY <1>4, <3>1, <4>2, <4>3, <4>4
    <3>4. QED
      BY <3>2, <3>3
  <2>4. QED
    BY <1>1, <2>2, <2>3
<1>13. QED
  BY <1>4, <1>7, <1>8, <1>9, <1>10, <1>11, <1>12 DEF MInv, ListLinked

\* The cleanup gives back the oldest node and goes to the one after it.
LEMMA CloseOneMInv ==
  ASSUME MInv, CloseOne
  PROVE  MInv'
<1> DEFINE L == Len(order)
<1>1. /\ order \in Seq(Nodes) /\ L \in Nat
      /\ \A k \in 1..L : order[k] \in liveNodes
      /\ \A i, j \in 1..L : order[i] = order[j] => i = j
      /\ \A n \in liveNodes : \E k \in 1..L : order[k] = n
      /\ \A k \in 1..L : next[order[k]] = After(k)
  BY DEF MInv, TypeOK, ListLinked, OrderIsLive
<1>2. /\ phase = "closing" /\ cursor # Null /\ cursor = Oldest
      /\ next' = next /\ prev' = prev /\ head' = head /\ tail' = tail
      /\ allocatedOp' = allocatedOp /\ memTracker' = memTracker
  BY DEF MInv, ListLinked, CloseOne, listVars, opVars
<1>3. order # <<>> /\ cursor = order[1] /\ L # 0 /\ 1 \in 1..L
  BY <1>1, <1>2, EmptySeq DEF Oldest
<1>4. cursor \in liveNodes /\ cursor \in Nodes
  BY <1>1, <1>3 DEF MInv, TypeOK
<1>5. CASE CloseNode /\ UNCHANGED phase
  <2>1. /\ order' \in Seq(Nodes) /\ Len(order') = L - 1
        /\ \A k \in 1..(L - 1) : order'[k] = order[k + 1]
    BY <1>1, <1>3, <1>5, HeadTailProperties DEF CloseNode
  <2>2. /\ liveNodes' = liveNodes \ {cursor}
        /\ liveOps' = liveOps \ {allocatedOp[cursor]}
        /\ cursor' = next[cursor] /\ phase' = "closing"
    BY <1>2, <1>5 DEF CloseNode
  <2>3. TypeOK'
    BY <1>2, <1>4, <2>1, <2>2 DEF MInv, TypeOK
  <2>4. Paired'
    BY <1>2, <1>4, <2>2 DEF MInv, Paired
  <2>5. OrderIsLive'
    <3>1. \A k \in 1..(L - 1) : order'[k] \in liveNodes'
      BY <1>1, <1>3, <2>1, <2>2
    <3>2. ASSUME NEW n \in liveNodes'
          PROVE  \E k \in 1..(L - 1) : order'[k] = n
      <4>1. PICK k \in 1..L : order[k] = n
        BY <1>1, <2>2
      <4>2. k # 1
        BY <1>3, <2>2, <4>1
      <4>3. k - 1 \in 1..(L - 1) /\ order'[k - 1] = order[k]
        BY <1>1, <2>1, <4>2
      <4>4. QED
        BY <4>1, <4>3
    <3>3. \A i, j \in 1..(L - 1) : order'[i] = order'[j] => i = j
      BY <1>1, <2>1
    <3>4. QED
      BY <2>1, <3>1, <3>2, <3>3 DEF OrderIsLive
  <2>6. cursor' = Oldest'
    <3>1. cursor' = IF L = 1 THEN Null ELSE order[2]
      <4>1. next[order[1]] = After(1)
        BY <1>1, <1>3
      <4>2. After(1) = IF L = 1 THEN Null ELSE order[2]
        BY <1>1 DEF After
      <4>3. QED
        BY <1>3, <2>2, <4>1, <4>2
    <3>2. order' = <<>> <=> Len(order') = 0
      BY <2>1, EmptySeq
    <3> HIDE DEF L
    <3>3. L # 1 => order'[1] = order[2]
      BY <1>1, <1>3, <2>1
    <3>4. Len(order') = 0 <=> L = 1
      BY <1>1, <2>1
    <3>5. QED
      BY <3>1, <3>2, <3>3, <3>4 DEF Oldest
  <2>7. \A k \in 1..Len(order') : next'[order'[k]] = After(k)'
    <3>1. SUFFICES ASSUME NEW k \in 1..(L - 1)
                   PROVE  next'[order'[k]]
                            = IF k = L - 1 THEN Null ELSE order'[k + 1]
      BY <2>1 DEF After
    <3>2. k + 1 \in 1..L /\ order'[k] = order[k + 1]
      BY <1>1, <2>1
    <3>3. next[order[k + 1]] = IF k + 1 = L THEN Null ELSE order[k + 1 + 1]
      BY <1>1, <3>2 DEF After
    <3>4. k # L - 1 => order'[k + 1] = order[k + 1 + 1]
      BY <1>1, <2>1
    <3>5. QED
      BY <1>1, <1>2, <3>2, <3>3, <3>4
  <2>8. QED
    BY <2>2, <2>3, <2>4, <2>5, <2>6, <2>7 DEF MInv, ListLinked
<1>6. CASE phase' = "failed" /\ UNCHANGED <<heapVars, cursor, order>>
  BY <1>2, <1>6
  DEF MInv, TypeOK, Paired, ListLinked, OrderIsLive, Oldest, After, heapVars
<1>7. QED
  BY <1>5, <1>6 DEF CloseOne

\* Every step preserves it: one lemma per action.
LEMMA StepMInv == MInv /\ [Next]_vars => MInv'
<1>1. SUFFICES ASSUME MInv, [Next]_vars PROVE MInv'
  OBVIOUS
<1>2. ASSUME NEW n \in Nodes, NEW o \in Ops, NewClient(n, o) PROVE MInv'
  BY <1>1, <1>2, NewClientMInv
<1>3. ASSUME NEW o \in Ops, ClosingClient(o) PROVE MInv'
  BY <1>1, <1>3, ClosingClientMInv
<1>4. CASE Stop
  BY <1>1, <1>4
  DEF Stop, MInv, TypeOK, Paired, ListLinked, OrderIsLive, Oldest, After,
      listVars, opVars, heapVars
<1>5. CASE CloseOne
  BY <1>1, <1>5, CloseOneMInv
<1>6. CASE CloseDone
  <2>1. order = <<>> /\ cursor = Null
    <3>1. \A k \in 1..Len(order) : order[k] \in Nodes
      BY <1>1 DEF MInv, TypeOK
    <3>2. cursor = Null /\ cursor = Oldest
      BY <1>1, <1>6 DEF MInv, ListLinked, CloseDone
    <3>3. Len(order) = 0 \/ 1 \in 1..Len(order)
      BY <1>1 DEF MInv, TypeOK
    <3>4. QED
      BY <1>1, <3>1, <3>2, <3>3, NullAssumption, EmptySeq DEF Oldest, MInv, TypeOK
  <2>2. QED
    BY <1>1, <1>6, <2>1
    DEF CloseDone, MInv, TypeOK, Paired, ListLinked, OrderIsLive, Oldest,
        After, opVars, heapVars
<1>7. CASE UNCHANGED vars
  BY <1>1, <1>7
  DEF vars, listVars, opVars, heapVars, MInv, TypeOK, Paired, ListLinked,
      OrderIsLive, Oldest, Newest, Before, After
<1>8. QED
  BY <1>1, <1>2, <1>3, <1>4, <1>5, <1>6, <1>7 DEF Next, Terminating

\* The inductive invariant holds in every reachable state.
THEOREM Invariance == SafeSpec => []MInv
<1>1. QED
  BY InitMInv, StepMInv, PTL DEF SafeSpec

\* Every variable keeps its type.
THEOREM TypeCorrect == SafeSpec => []TypeOK
<1>1. MInv => TypeOK
  BY DEF MInv
<1>2. QED
  BY <1>1, Invariance, PTL

\* mem_t_push_back and mem_t_remove_node keep head, tail and all links
\* those of the list of the live nodes, from oldest to newest.
THEOREM ListStaysLinked == SafeSpec => []ListLinked
<1>1. MInv => ListLinked
  BY DEF MInv
<1>2. QED
  BY <1>1, Invariance, PTL

-----------------------------------------------------------------------------
(***************************************************************************)
(* The walk of the cleanup.                                                *)
(***************************************************************************)

\* A set of positions that is not empty has a least one.
LEMMA LeastPosition ==
  ASSUME NEW T, T \subseteq Nat, T # {}
  PROVE  \E k \in T : \A j \in T : ~ (j < k)
<1> DEFINE R == {ss \in Nat \X Nat : ss[1] < ss[2]}
<1>1. IsWellFoundedOn(R, Nat)
  BY NatLessThanWellFounded, Zenon DEF OpToRel
<1>2. \A j, k \in T : j < k => <<j, k>> \in R
  OBVIOUS
<1> HIDE DEF R
<1>3. PICK k \in T : \A j \in T : ~ (<<j, k>> \in R)
  BY <1>1, WFMin
<1>4. QED
  BY <1>2, <1>3

\* The walk stays among the live nodes, and what is closed under next holds
\* them all: the first that it did not hold would follow one that it does.
LEMMA VisitedIsLive ==
  ASSUME MInv
  PROVE  Visited = liveNodes
<1> DEFINE L == Len(order)
<1>1. /\ order \in Seq(Nodes) /\ L \in Nat /\ liveNodes \subseteq Nodes
      /\ \A k \in 1..L : order[k] \in liveNodes /\ order[k] # Null
      /\ \A n \in liveNodes : \E k \in 1..L : order[k] = n
      /\ \A k \in 1..L : next[order[k]] = After(k)
      /\ First = Oldest
  BY NullAssumption DEF MInv, TypeOK, ListLinked, OrderIsLive, First
<1>2. order = <<>> <=> L = 0
  BY <1>1, EmptySeq
<1>3. ClosedUnderNext(liveNodes)
  <2>1. First # Null => First \in liveNodes
    BY <1>1, <1>2 DEF Oldest
  <2>2. ASSUME NEW n \in liveNodes, next[n] # Null PROVE next[n] \in liveNodes
    <3>1. PICK k \in 1..L : order[k] = n
      BY <1>1
    <3>2. next[n] = order[k + 1] /\ k # L
      BY <1>1, <2>2, <3>1 DEF After
    <3>3. QED
      BY <1>1, <3>2
  <2>3. QED
    BY <2>1, <2>2 DEF ClosedUnderNext
<1>4. ASSUME NEW S \in SUBSET Nodes, ClosedUnderNext(S)
      PROVE  liveNodes \subseteq S
  <2> DEFINE T == {k \in 1..L : order[k] \notin S}
  <2>1. SUFFICES ASSUME T # {} PROVE FALSE
    BY <1>1
  <2>2. T \subseteq Nat
    BY <1>1
  <2>3. PICK k \in T : \A j \in T : ~ (j < k)
    <3> HIDE DEF T
    <3>1. QED
      BY <2>1, <2>2, LeastPosition
  <2>4. k \in 1..L /\ order[k] \notin S
    BY <2>3
  <2>5. k # 1
    BY <1>1, <1>2, <1>4, <2>4 DEF Oldest, ClosedUnderNext
  <2>6. k - 1 \in 1..L /\ k - 1 \notin T /\ k - 1 # L
    BY <1>1, <2>3, <2>4, <2>5
  <2>7. order[k - 1] \in S
    BY <2>6
  <2>8. next[order[k - 1]] = order[k]
    <3>1. k - 1 + 1 = k
      BY <2>4
    <3>2. QED
      BY <1>1, <2>6, <3>1 DEF After
  <2>9. QED
    BY <1>1, <1>4, <2>4, <2>7, <2>8 DEF ClosedUnderNext
<1>5. QED
  BY <1>1, <1>3, <1>4 DEF Visited

\* do_service_loop_cleanup finds every iou_op that is still allocated, each
\* through a node of its own.
THEOREM WalkIsComplete == SafeSpec => []WalkFinds
<1>1. ASSUME MInv PROVE WalkFinds
  <2>1. Visited = liveNodes
    BY <1>1, VisitedIsLive
  <2>2. QED
    BY <1>1, <2>1 DEF WalkFinds, MInv, Paired
<1>2. QED
  BY <1>1, Invariance, PTL

-----------------------------------------------------------------------------
(***************************************************************************)
(* The refinement.                                                         *)
(***************************************************************************)

\* Every step of the list is a step of the set, or none of it.
LEMMA StepTracks ==
  ASSUME MInv, [Next]_vars
  PROVE  [Set!Next]_(Set!vars)
<1>1. /\ Paired
      /\ phase = "closing" => /\ cursor = Null => liveOps = {}
                              /\ cursor # Null => /\ allocatedOp[cursor] \in Ops
                                                  /\ allocatedOp[cursor] \in liveOps
  <2>1. Paired /\ order \in Seq(Nodes) /\ liveOps \subseteq Ops
    BY DEF MInv, TypeOK
  <2>2. ASSUME phase = "closing", cursor = Null PROVE liveOps = {}
    <3>1. \A k \in 1..Len(order) : order[k] \in Nodes
      BY <2>1
    <3>2. cursor = Oldest
      BY <2>2 DEF MInv, ListLinked
    <3>3. order = <<>>
      BY <2>1, <2>2, <3>1, <3>2, NullAssumption, EmptySeq DEF Oldest
    <3>4. liveNodes = {}
      BY <3>3 DEF MInv, ListLinked, OrderIsLive
    <3>5. QED
      BY <2>1, <3>4 DEF Paired
  <2>3. ASSUME phase = "closing", cursor # Null
        PROVE  allocatedOp[cursor] \in liveOps
    <3>1. cursor = order[1] /\ order # <<>>
      BY <2>3 DEF MInv, ListLinked, Oldest
    <3>2. 1 \in 1..Len(order)
      BY <2>1, <3>1, EmptySeq
    <3>3. cursor \in liveNodes
      BY <3>1, <3>2 DEF MInv, ListLinked, OrderIsLive
    <3>4. QED
      BY <2>1, <3>3 DEF Paired
  <2>4. QED
    BY <2>1, <2>2, <2>3
<1>2. ASSUME NEW n \in Nodes, NEW o \in Ops, NewClient(n, o)
      PROVE  Set!Next
  BY <1>2 DEF NewClient, Set!Next, Set!Track
<1>3. ASSUME NEW o \in Ops, ClosingClient(o)
      PROVE  Set!Next
  BY <1>3 DEF ClosingClient, Set!Next, Set!Forget
<1>4. CASE Stop
  BY <1>4 DEF Stop, heapVars, Set!Next, Set!Stop
<1>5. CASE CloseOne
  <2>1. CASE CloseNode /\ UNCHANGED phase
    BY <1>1, <1>5, <2>1 DEF CloseOne, CloseNode, Set!Next, Set!Release
  <2>2. CASE phase' = "failed" /\ UNCHANGED <<heapVars, cursor, order>>
    BY <1>1, <1>5, <2>2 DEF CloseOne, heapVars, Set!Next, Set!Fail
  <2>3. QED
    BY <1>5, <2>1, <2>2 DEF CloseOne
<1>6. CASE CloseDone
  BY <1>1, <1>6 DEF CloseDone, heapVars, Set!Next, Set!Exit
<1>7. CASE UNCHANGED vars
  BY <1>7 DEF vars, heapVars, Set!vars
<1>8. QED
  BY <1>2, <1>3, <1>4, <1>5, <1>6, <1>7 DEF Next, Terminating

\* The tracker is the set of live objects: an object is tracked when it is
\* allocated, given back once, and the process exits with none left.
THEOREM TracksSafety == SafeSpec => TracksSafe
<1>1. Init => Set!Init
  BY DEF Init, Set!Init
<1>2. MInv /\ [Next]_vars => [Set!Next]_(Set!vars)
  BY StepTracks
<1>3. QED
  BY <1>1, <1>2, Invariance, PTL DEF SafeSpec, TracksSafe, Set!SafeSpec

=============================================================================
