-------------------------- MODULE EchoClientsProofs --------------------------
(***************************************************************************)
(* What the proofs about the epoll and the poll server share: facts about  *)
(* descriptors and about what a read can return.                           *)
(***************************************************************************)
EXTENDS EchoClients, TLAPS, FiniteSetTheorems, WellFoundedInduction

\* A set of descriptors has a smallest one.
LEMMA Smallest ==
  ASSUME NEW S, S \subseteq Nat, S # {}
  PROVE  \E n \in S : \A m \in S : n <= m
<1> DEFINE Below(n) == {k \in S : k <= n}
           R == StrictSubsetOrdering(Nat)
           T == {Below(n) : n \in S}
<1>1. \A n \in S : Below(n) \in FiniteSubsetsOf(Nat)
  BY FS_BoundedSetOfNaturals DEF FiniteSubsetsOf
<1>2. T \subseteq FiniteSubsetsOf(Nat) /\ T # {}
  BY <1>1
<1>3. IsWellFoundedOn(R, FiniteSubsetsOf(Nat))
  BY FS_StrictSubsetOrderingWellFounded
<1>4. \E x \in T : \A y \in T : <<y, x>> \notin R
  <2> HIDE DEF T, R
  <2> QED BY <1>2, <1>3, WFMin
<1>5. PICK n \in S : \A m \in S : <<Below(m), Below(n)>> \notin R
  BY <1>4
<1>6. ASSUME NEW m \in S, ~ (n <= m)
      PROVE  FALSE
  <2>1. n \in S /\ n \in Nat /\ m \in Nat
    BY <1>5, <1>6
  <2>2. m < n /\ n <= n /\ \A k \in Nat : k <= m => k <= n
    BY <2>1, <1>6
  <2>3. \A k \in S : k \in Nat
    OBVIOUS
  <2>4. n \notin Below(m) /\ n \in Below(n)
    BY <2>1, <2>2, <1>6
  <2>5. Below(m) \subseteq Below(n)
    BY <2>2, <2>3
  <2>6. Below(m) \subseteq Nat /\ Below(n) \subseteq Nat
    BY <2>3
  <2>7. <<Below(m), Below(n)>> \in R
    <3> HIDE DEF Below
    <3> QED BY <2>4, <2>5, <2>6 DEF StrictSubsetOrdering
  <2> QED BY <2>7, <1>5
<1> QED BY <1>6

\* How many messages wait is a number.
LEMMA PendingType ==
  ASSUME ClientTypeOK, NEW c \in Clients
  PROVE  /\ sent[c] \in Nat /\ taken[c] \in Nat /\ Pending(c) \in Int
         /\ Pending(c) = sent[c] - taken[c]
  BY DEF ClientTypeOK, Pending

\* What a read finds: a whole message is the only one that waits, and it is
\* only refused when there is neither a message nor the end of the stream.
LEMMA ReadResults ==
  ASSUME ClientTypeOK, NEW c \in Clients, taken[c] <= sent[c]
  PROVE  /\ BufSize \in RecvResults(c) => Pending(c) = 1
         /\ 0 \in RecvResults(c) => cpc[c] = "gone"
         /\ Pending(c) > 0 \/ cpc[c] = "gone" => RecvResults(c) # {}
<1>1. Pending(c) \in Nat
  BY PendingType
<1>2. BufSize \in Nat \ {0, 1} /\ ServerBufSize = BufSize + 1
  BY ClientsAssumption DEF ServerBufSize
<1> QED BY <1>1, <1>2 DEF RecvResults

=============================================================================
