-------------------------- MODULE ServerBenchProofs --------------------------
(***************************************************************************)
(* Proofs about TimeUtils, for every unit and all widths, and about        *)
(* ServerBench, for any capacity, any size of batches, any number of       *)
(* connections and any times that fit 64 bits.                             *)
(***************************************************************************)
EXTENDS ServerBench, TLAPS

-----------------------------------------------------------------------------
(***************************************************************************)
(* The time arithmetic.                                                    *)
(***************************************************************************)

\* A long splits into whole seconds and a rest of its own sign.
LEMMA Split ==
  ASSUME NEW a \in Int
  PROVE  /\ Quotient(a) \in Int /\ Remainder(a) \in Int
         /\ a = Quotient(a) * Nano + Remainder(a)
         /\ -Nano < Remainder(a) /\ Remainder(a) < Nano
         /\ a >= 0 => Remainder(a) >= 0
         /\ a <= 0 => Remainder(a) <= 0
<1>1. Nano \in Int /\ Nano > 0
  BY UnitAssumption
<1>2. ASSUME NEW b \in Nat
      PROVE  /\ b \div Nano \in Int /\ b % Nano \in Int
             /\ b = (b \div Nano) * Nano + (b % Nano)
             /\ 0 <= b % Nano /\ b % Nano < Nano
  BY <1>1
<1>3. CASE a >= 0
  <2>1. a \in Nat
    BY <1>3
  <2>2. QED
    BY <1>1, <1>2, <1>3, <2>1 DEF Quotient, Remainder
<1>4. CASE a < 0
  <2>1. PICK b \in Nat : b = -a
    BY <1>4
  <2>2. PICK q \in Int, r \in Int :
          /\ q = b \div Nano /\ r = b % Nano
          /\ b = q * Nano + r /\ 0 <= r /\ r < Nano
    BY <1>2
  <2>3. Quotient(a) = -q /\ Remainder(a) = -r
    BY <1>4, <2>1, <2>2 DEF Quotient, Remainder
  <2>4. (-q) * Nano = -(q * Nano)
    BY <1>1
  <2>5. a = -b
    BY <2>1
  <2>6. QED
    BY <1>1, <1>4, <2>2, <2>3, <2>4, <2>5
<1>5. QED
  BY <1>3, <1>4

\* A quotient that fits an int keeps its value.
LEMMA ToIntExact ==
  ASSUME NEW q \in Int, -IntHalf <= q, q < IntHalf
  PROVE  ToInt(q) = q
<1>1. IntHalf \in Int /\ IntHalf > 1
  BY UnitAssumption
<1>2. PICK m \in Int, w \in Int :
        m = q + IntHalf /\ w = 2 * IntHalf /\ 0 <= m /\ m < w
  BY <1>1
<1>3. m % w = m
  BY <1>2
<1>4. QED
  BY <1>1, <1>2, <1>3 DEF ToInt

\* timespec_rebalance keeps the time and balances it, when the seconds in
\* nsec fit an int.
THEOREM RebalanceExact ==
  ASSUME NEW ts \in Timespec,
         -IntHalf <= Quotient(ts.nsec), Quotient(ts.nsec) < IntHalf
  PROVE  /\ timespec_rebalance(ts) \in Timespec
         /\ Value(timespec_rebalance(ts)) = Value(ts)
         /\ Balanced(timespec_rebalance(ts))
<1> DEFINE q == Quotient(ts.nsec)
           r == Remainder(ts.nsec)
           s == ts.sec + q
<1>1. Nano \in Int /\ Nano > 0 /\ ts.sec \in Int /\ ts.nsec \in Int
  BY UnitAssumption DEF Timespec
<1>2. /\ q \in Int /\ r \in Int /\ ts.nsec = q * Nano + r
      /\ -Nano < r /\ r < Nano /\ ToInt(q) = q /\ s \in Int
  <2>1. /\ q \in Int /\ r \in Int /\ ts.nsec = q * Nano + r
        /\ -Nano < r /\ r < Nano
    BY <1>1, Split
  <2>2. ToInt(q) = q
    BY <2>1, ToIntExact
  <2>3. QED
    BY <1>1, <2>1, <2>2
<1>3. Value(ts) = s * Nano + r
  <2>1. s * Nano = ts.sec * Nano + q * Nano
    BY <1>1, <1>2
  <2>2. QED
    BY <1>1, <1>2, <2>1 DEF Value
<1>4. (s - 1) * Nano = s * Nano - Nano /\ (s + 1) * Nano = s * Nano + Nano
  BY <1>1, <1>2
<1>5. timespec_rebalance(ts) =
        IF s = 0 \/ r = 0 \/ ((s < 0) <=> (r < 0))
        THEN [sec |-> s, nsec |-> r]
        ELSE IF r < 0 THEN [sec |-> s - 1, nsec |-> r + Nano]
                      ELSE [sec |-> s + 1, nsec |-> r - Nano]
  BY <1>2 DEF timespec_rebalance
<1> HIDE DEF q, r, s
<1>6. QED
  BY <1>1, <1>2, <1>3, <1>4, <1>5 DEF Value, Balanced, Timespec

\* The difference of two balanced times is exact and balanced: the narrowing
\* to int loses nothing, and no second is lost at a boundary.
THEOREM DeltaExact ==
  ASSUME NEW a \in Timespec, NEW b \in Timespec, Balanced(a), Balanced(b)
  PROVE  /\ time_delta(a, b) \in Timespec
         /\ Value(time_delta(a, b)) = Value(a) - Value(b)
         /\ Balanced(time_delta(a, b))
<1> DEFINE d == [sec |-> a.sec - b.sec, nsec |-> a.nsec - b.nsec]
           q == Quotient(d.nsec)
<1>1. /\ Nano \in Int /\ Nano > 0 /\ IntHalf \in Int /\ IntHalf > 1
      /\ a.sec \in Int /\ a.nsec \in Int /\ b.sec \in Int /\ b.nsec \in Int
  BY UnitAssumption DEF Timespec
<1>2. d \in Timespec /\ d.nsec \in Int /\ d.sec = a.sec - b.sec
      /\ d.nsec = a.nsec - b.nsec
  BY <1>1 DEF Timespec
<1>3. Value(d) = Value(a) - Value(b)
  <2>1. (a.sec - b.sec) * Nano = a.sec * Nano - b.sec * Nano
    BY <1>1
  <2>2. QED
    BY <1>1, <1>2, <2>1 DEF Value
<1>4. -IntHalf <= q /\ q < IntHalf
  <2>1. /\ q \in Int /\ Remainder(d.nsec) \in Int
        /\ d.nsec = q * Nano + Remainder(d.nsec)
        /\ -Nano < Remainder(d.nsec) /\ Remainder(d.nsec) < Nano
        /\ d.nsec >= 0 => Remainder(d.nsec) >= 0
        /\ d.nsec <= 0 => Remainder(d.nsec) <= 0
    BY <1>2, Split
  <2>2. -(2 * Nano) < d.nsec /\ d.nsec < 2 * Nano
    BY <1>1, <1>2 DEF Balanced
  <2>3. -(2 * Nano) < q * Nano /\ q * Nano < 2 * Nano
    BY <1>1, <1>2, <2>1, <2>2
  <2>4. q < 2
    <3>1. SUFFICES ASSUME q >= 2 PROVE FALSE
      BY <2>1
    <3>2. (q - 2) * Nano >= 0 /\ (q - 2) * Nano = q * Nano - 2 * Nano
      BY <1>1, <2>1, <3>1
    <3>3. QED
      BY <1>1, <2>1, <2>3, <3>2
  <2>5. q > -2
    <3>1. SUFFICES ASSUME q <= -2 PROVE FALSE
      BY <2>1
    <3>2. (-2 - q) * Nano >= 0 /\ (-2 - q) * Nano = -(2 * Nano) - q * Nano
      BY <1>1, <2>1, <3>1
    <3>3. QED
      BY <1>1, <2>1, <2>3, <3>2
  <2>6. QED
    BY <1>1, <2>1, <2>4, <2>5
<1>5. time_delta(a, b) = timespec_rebalance(d)
  BY DEF time_delta
<1> HIDE DEF d, q
<1>6. QED
  <2>1. -IntHalf <= Quotient(d.nsec) /\ Quotient(d.nsec) < IntHalf
    BY <1>4 DEF q
  <2>2. QED
    BY <1>2, <1>3, <1>5, <2>1, RebalanceExact

\* timespec_lt orders balanced times, of either sign, as they are.
THEOREM LtExact ==
  ASSUME NEW a \in Timespec, NEW b \in Timespec, Balanced(a), Balanced(b)
  PROVE  timespec_lt(a, b) <=> Value(a) < Value(b)
<1>1. /\ Nano \in Int /\ Nano > 0
      /\ a.sec \in Int /\ a.nsec \in Int /\ b.sec \in Int /\ b.nsec \in Int
  BY UnitAssumption DEF Timespec
<1>2. ASSUME NEW c \in Timespec, NEW d \in Timespec,
             Balanced(c), Balanced(d), c.sec < d.sec
      PROVE  Value(c) < Value(d)
  <2>1. c.sec \in Int /\ c.nsec \in Int /\ d.sec \in Int /\ d.nsec \in Int
    BY DEF Timespec
  <2>2. PICK k \in Int : k = d.sec - c.sec - 1 /\ k >= 0
    BY <1>2, <2>1
  <2>3. d.sec * Nano = c.sec * Nano + Nano + k * Nano /\ k * Nano >= 0
    <3>1. d.sec = c.sec + 1 + k
      BY <2>1, <2>2
    <3>2. (c.sec + 1 + k) * Nano = c.sec * Nano + Nano + k * Nano
      BY <1>1, <2>1
    <3>3. k * Nano >= 0
      BY <1>1, <2>2
    <3>4. QED
      BY <3>1, <3>2, <3>3
  <2>4. c.nsec < d.nsec + Nano
    BY <1>1, <1>2, <2>1 DEF Balanced
  <2>5. QED
    BY <1>1, <2>1, <2>2, <2>3, <2>4 DEF Value
<1>3. CASE a.sec = b.sec
  BY <1>1, <1>3 DEF timespec_lt, Value
<1>4. CASE a.sec < b.sec
  <2>1. Value(a) < Value(b)
    BY <1>2, <1>4
  <2>2. QED
    BY <1>1, <1>4, <2>1 DEF timespec_lt
<1>5. CASE b.sec < a.sec
  <2>1. Value(b) < Value(a)
    BY <1>2, <1>5
  <2>2. Value(a) \in Int /\ Value(b) \in Int
    BY <1>1 DEF Value
  <2>3. QED
    BY <1>1, <1>5, <2>1, <2>2 DEF timespec_lt
<1>6. QED
  BY <1>1, <1>3, <1>4, <1>5

\* The clock reads a balanced time, and reading it back is exact.
LEMMA FromNsExact ==
  ASSUME NEW ns \in Nat
  PROVE  /\ ns_to_timespec(ns) \in Timespec
         /\ Value(ns_to_timespec(ns)) = ns
         /\ Balanced(ns_to_timespec(ns))
<1>1. Nano \in Int /\ Nano > 0
  BY UnitAssumption
<1>2. PICK q \in Int, r \in Int :
        /\ q = ns \div Nano /\ r = ns % Nano
        /\ ns = q * Nano + r /\ 0 <= r /\ r < Nano
  BY <1>1
<1>3. q >= 0
  <2>1. SUFFICES ASSUME q <= -1 PROVE FALSE
    BY <1>2
  <2>2. (-1 - q) * Nano >= 0 /\ (-1 - q) * Nano = -Nano - q * Nano
    BY <1>1, <1>2, <2>1
  <2>3. QED
    BY <1>1, <1>2, <2>2
<1>4. ns_to_timespec(ns) = [sec |-> q, nsec |-> r]
  BY <1>2 DEF ns_to_timespec
<1> DEFINE ts == ns_to_timespec(ns)
<1>5. ts \in Timespec /\ ts.sec = q /\ ts.nsec = r
  BY <1>4 DEF Timespec
<1> HIDE DEF ts
<1>6. ts \in Timespec /\ Value(ts) = ns /\ Balanced(ts)
  BY <1>1, <1>2, <1>3, <1>5 DEF Value, Balanced
<1>7. QED
  BY <1>6 DEF ts

\* The latency of an event that ended after it began is the exact number of
\* nanoseconds, as long as that fits the 64 bits.
THEOREM LatencyExact ==
  ASSUME NEW from \in Nat, NEW to \in Nat, from <= to, to < Wide
  PROVE  timespec_to_ns(time_delta(ns_to_timespec(to), ns_to_timespec(from)))
           = to - from
<1> DEFINE d == time_delta(ns_to_timespec(to), ns_to_timespec(from))
<1>1. d \in Timespec /\ Value(d) = to - from
  BY FromNsExact, DeltaExact
<1>2. timespec_to_ns(d) = (to - from) % Wide
  <2> HIDE DEF d
  <2>1. timespec_to_ns(d) = (d.sec * Nano + d.nsec) % Wide
    BY DEF timespec_to_ns
  <2>2. d.sec * Nano + d.nsec = to - from
    BY <1>1 DEF Value
  <2>3. QED
    BY <2>1, <2>2
<1>3. (to - from) % Wide = to - from
  <2>1. PICK n \in Nat : n = to - from /\ n < Wide /\ Wide \in Nat
    BY UnitAssumption
  <2>2. n % Wide = n
    BY <2>1
  <2>3. QED
    BY <2>1, <2>2
<1>4. QED
  BY <1>1, <1>2, <1>3

-----------------------------------------------------------------------------
(***************************************************************************)
(* The benchmark.                                                          *)
(***************************************************************************)

\* sb_create establishes the invariant.
LEMMA InitBInv == Init => BInv
<1>1. SUFFICES ASSUME Init PROVE BInv
  OBVIOUS
<1>2. Zero \in Timespec
  BY DEF Zero, Timespec
<1>3. ns_to_timespec(0) = Zero
  BY UnitAssumption DEF ns_to_timespec, Zero
<1>4. TypeOK
  <2>1. MaxTime \in Nat /\ 0 \in 0..MaxTime /\ <<>> \in Seq(Nat)
    BY BenchAssumption
  <2>2. /\ start \in [Conns -> Timespec \cup {None}]
        /\ began \in [Conns -> 0..MaxTime]
    BY <1>1, <2>1 DEF Init
  <2>3. /\ time \in 0..MaxTime /\ left \in Nat /\ client_no \in Nat
        /\ request_no \in Nat /\ event_latency \in Seq(Nat)
        /\ durations \in Seq(Nat) /\ do_measure \in BOOLEAN
        /\ async \in BOOLEAN
    BY <1>1, <2>1 DEF Init
  <2>4. QED
    BY <1>1, <1>2, <2>2, <2>3 DEF Init, TypeOK
<1>5. Begun
  BY <1>1, <1>3 DEF Init, Begun
<1>6. Stages /\ Counting /\ FirstSamples /\ ReportWhole
  BY <1>1, BenchAssumption DEF Init, Stages, Counting, FirstSamples, FirstOfAll, ReportWhole
<1>7. SamplesCounted /\ left <= (IF async THEN 1 ELSE MaxBatch)
  BY <1>1, BenchAssumption DEF Init, SamplesCounted, Uncounted
<1>8. QED
  BY <1>4, <1>5, <1>6, <1>7 DEF BInv

\* What an action leaves alone.
LEMMA UnchangedBInv == BInv /\ UNCHANGED vars => BInv'
  BY DEF BInv, TypeOK, Begun, Stages, Counting, FirstSamples, FirstOfAll,
         SamplesCounted, Uncounted, ReportWhole, Idle, vars, server, counters,
         times, history

\* A batch is counted before its events are serviced.
LEMMA ArriveBInv ==
  ASSUME BInv, NEW n \in 1..MaxBatch, Arrive(n)
  PROVE  BInv'
<1>1. TypeOK'
  BY BenchAssumption
  DEF BInv, TypeOK, Arrive, sb_requests_performed, times, history
<1>2. Begun'
  BY DEF BInv, Begun, Arrive, times, history
<1>3. Stages' /\ FirstSamples' /\ ReportWhole'
  BY DEF BInv, Stages, FirstSamples, FirstOfAll, ReportWhole, Arrive, times, history
<1>4. Counting' /\ SamplesCounted' /\ (left <= (IF async THEN 1 ELSE MaxBatch))'
  <2>1. /\ Len(event_latency) \in Nat /\ request_no \in Nat /\ Uncounted \in Int
        /\ n \in Nat /\ MaxBatch \in Nat
    BY BenchAssumption DEF BInv, TypeOK, Uncounted
  <2>2. /\ left = 0 /\ left' = n /\ n <= (IF async THEN 1 ELSE MaxBatch)
        /\ request_no' = (IF do_measure THEN request_no + n ELSE request_no)
        /\ event_latency' = event_latency /\ do_measure' = do_measure
        /\ Idle /\ Idle' /\ async' = async /\ Uncounted' = Uncounted
    BY DEF Arrive, sb_requests_performed, Idle, Uncounted
  <2>3. QED
    BY <2>1, <2>2 DEF BInv, Counting, SamplesCounted
<1>5. QED
  BY <1>1, <1>2, <1>3, <1>4 DEF BInv

\* The timer starts the measuring; the rest of its batch is not counted.
LEMMA TimerExpiredBInv ==
  ASSUME BInv, TimerExpired
  PROVE  BInv'
<1>1. /\ phase = "serving" /\ phase' = "serving" /\ async' = async
      /\ Idle /\ Idle' /\ left > 0 /\ left' = left - 1
      /\ timer = "armed" /\ timer' = "expired" /\ ~ do_measure /\ do_measure'
      /\ meas_start_time' = ns_to_timespec(time) /\ time' = time
      /\ start' = start /\ began' = began
      /\ UNCHANGED <<client_no, request_no, meas_end_time, event_latency, file,
                     durations, stoppedAt>>
  BY DEF BInv, Stages, TimerExpired, Service, sb_start, now_monotonic, Idle, history
<1>2. time \in Nat /\ time \in 0..MaxTime /\ left \in Nat
      /\ ns_to_timespec(time) \in Timespec
  BY FromNsExact, BenchAssumption DEF BInv, TypeOK
<1>3. TypeOK'
  BY <1>1, <1>2 DEF BInv, TypeOK
<1>4. Begun'
  BY <1>1, <1>2 DEF BInv, Begun
<1>5. durations = <<>> /\ event_latency \in Seq(Nat) /\ Len(event_latency) = 0
      /\ stoppedAt = None
  BY <1>1, BenchAssumption DEF BInv, TypeOK, Stages, FirstSamples, FirstOfAll
<1>6. Stages'
  BY <1>1, <1>5, BenchAssumption DEF BInv, Stages
<1>7. FirstSamples' /\ ReportWhole'
  BY <1>1 DEF BInv, FirstSamples, FirstOfAll, ReportWhole
<1>8. Counting' /\ SamplesCounted' /\ (left <= (IF async THEN 1 ELSE MaxBatch))'
  <2>1. Uncounted' = Uncounted /\ request_no \in Nat /\ MaxBatch \in Nat
    BY <1>1, BenchAssumption DEF BInv, TypeOK, Uncounted
  <2>2. QED
    BY <1>1, <1>2, <1>5, <2>1 DEF BInv, Counting, SamplesCounted, Uncounted
<1>9. QED
  BY <1>3, <1>4, <1>6, <1>7, <1>8 DEF BInv

\* An event without a measurement uses up one that was counted.
LEMMA ServeOtherBInv ==
  ASSUME BInv, ServeOther
  PROVE  BInv'
<1>1. /\ phase = "serving" /\ phase' = "serving" /\ async' = async
      /\ Idle /\ Idle' /\ left > 0 /\ left' = left - 1
      /\ client_no' \in Nat
      /\ UNCHANGED <<timer, time, start, do_measure, request_no,
                     meas_start_time, meas_end_time, event_latency, file,
                     began, durations, stoppedAt>>
  BY BenchAssumption
  DEF BInv, TypeOK, ServeOther, Service, Idle, times, history
<1>2. TypeOK'
  BY <1>1 DEF BInv, TypeOK
<1>3. Begun' /\ Stages' /\ FirstSamples' /\ ReportWhole'
  BY <1>1 DEF BInv, Begun, Stages, FirstSamples, FirstOfAll, ReportWhole
<1>4. Counting' /\ SamplesCounted' /\ (left <= (IF async THEN 1 ELSE MaxBatch))'
  <2>1. /\ Uncounted' = Uncounted /\ request_no \in Nat /\ MaxBatch \in Nat
        /\ left \in Nat /\ Len(event_latency) \in Nat /\ Uncounted \in Int
    BY <1>1, BenchAssumption DEF BInv, TypeOK, Uncounted
  <2>2. QED
    BY <1>1, <2>1 DEF BInv, Counting, SamplesCounted
<1>5. QED
  BY <1>2, <1>3, <1>4 DEF BInv

\* The start of a measurement is the clock's.
LEMMA BeginEventBInv ==
  ASSUME BInv, NEW c \in Conns, BeginEvent(c)
  PROVE  BInv'
<1>1. /\ phase = "serving" /\ phase' = "serving" /\ async' = async
      /\ Idle /\ left > 0 /\ left' = left - 1 /\ start[c] = None
      /\ start' = [start EXCEPT ![c] = ns_to_timespec(time)]
      /\ began' = [began EXCEPT ![c] = time]
      /\ UNCHANGED <<timer, time, do_measure, client_no, request_no,
                     meas_start_time, meas_end_time, event_latency, file,
                     durations, stoppedAt>>
  BY DEF BeginEvent, Service, now_monotonic, counters, times
<1>2. time \in Nat /\ time \in 0..MaxTime /\ left \in Nat
      /\ ns_to_timespec(time) \in Timespec
  BY FromNsExact, BenchAssumption DEF BInv, TypeOK
<1>3. TypeOK'
  BY <1>1, <1>2 DEF BInv, TypeOK
<1>4. Begun'
  <2>1. \A d \in Conns : start'[d] # None =>
          start'[d] = ns_to_timespec(began'[d]) /\ began'[d] <= time'
    BY <1>1, <1>2 DEF BInv, TypeOK, Begun
  <2>2. ~ async' => \A d, e \in Conns :
                      start'[d] # None /\ start'[e] # None => d = e
    BY <1>1 DEF BInv, TypeOK, Idle
  <2>3. QED
    BY <1>1, <2>1, <2>2 DEF BInv, Begun
<1>5. Stages' /\ FirstSamples' /\ ReportWhole'
  BY <1>1 DEF BInv, Stages, FirstSamples, FirstOfAll, ReportWhole
<1>6. Counting' /\ SamplesCounted' /\ (left <= (IF async THEN 1 ELSE MaxBatch))'
  <2>1. /\ Uncounted' = Uncounted /\ request_no \in Nat /\ MaxBatch \in Nat
        /\ left \in Nat /\ Len(event_latency) \in Nat /\ Uncounted \in Int
    BY <1>1, BenchAssumption DEF BInv, TypeOK, Uncounted
  <2>2. QED
    BY <1>1, <2>1 DEF BInv, Counting, SamplesCounted
<1>7. QED
  BY <1>3, <1>4, <1>5, <1>6 DEF BInv

\* The sample that is stored is the one the history has.
LEMMA EndEventBInv ==
  ASSUME BInv, NEW c \in Conns, EndEvent(c)
  PROVE  BInv'
<1> DEFINE took == time - began[c]
           n == Len(event_latency)
<1>1. /\ phase = "serving" /\ phase' = "serving" /\ async' = async
      /\ start[c] # None /\ start' = [start EXCEPT ![c] = None]
      /\ left' = (IF async THEN left - 1 ELSE left) /\ (async => left > 0)
      /\ durations' = (IF timer = "armed" THEN durations
                       ELSE Append(durations, took))
      /\ sb_record_event(start[c], ns_to_timespec(time))
      /\ UNCHANGED <<timer, time, client_no, request_no, meas_start_time, file,
                     began>>
  BY DEF EndEvent, Service, now_monotonic
<1>2. /\ time \in Nat /\ time \in 0..MaxTime /\ left \in Nat /\ n \in Nat
      /\ event_latency \in Seq(Nat) /\ durations \in Seq(Nat)
      /\ began[c] \in Nat /\ began[c] <= time /\ took \in Nat
      /\ start[c] = ns_to_timespec(began[c]) /\ time < Wide
      /\ request_no \in Nat /\ MaxBatch \in Nat /\ Capacity \in Nat
      /\ Uncounted \in Int /\ Uncounted' = Uncounted
  <2>1. /\ MaxTime \in Nat /\ MaxTime < Wide /\ Wide \in Nat
        /\ MaxBatch \in Nat /\ Capacity \in Nat
    BY BenchAssumption, UnitAssumption
  <2>2. /\ time \in 0..MaxTime /\ began[c] \in 0..MaxTime /\ left \in Nat
        /\ event_latency \in Seq(Nat) /\ durations \in Seq(Nat)
        /\ request_no \in Nat
    BY DEF BInv, TypeOK
  <2>3. start[c] = ns_to_timespec(began[c]) /\ began[c] <= time
    BY <1>1 DEF BInv, Begun
  <2>4. took \in Nat /\ began[c] \in Nat /\ time \in Nat /\ time < Wide
    BY <2>1, <2>2, <2>3
  <2>5. Uncounted \in Int /\ Uncounted' = Uncounted
    BY <1>1, <2>1 DEF Uncounted
  <2>6. QED
    BY <2>1, <2>2, <2>3, <2>4, <2>5
<1>3. timespec_to_ns(time_delta(ns_to_timespec(time), start[c])) = took
  BY <1>2, LatencyExact
<1> HIDE DEF took
<1>4. /\ Len(Append(durations, took)) = Len(durations) + 1
      /\ Append(durations, took) \in Seq(Nat)
      /\ \A k \in 1..Len(durations) : Append(durations, took)[k] = durations[k]
      /\ Append(durations, took)[Len(durations) + 1] = took
      /\ Len(durations) \in Nat
  BY <1>2
<1>5. start' \in [Conns -> Timespec \cup {None}] /\ Begun'
  BY <1>1 DEF BInv, TypeOK, Begun
<1>6. /\ Len(event_latency) = IF Len(durations) <= Capacity THEN Len(durations)
                              ELSE Capacity
      /\ \A k \in 1..n : event_latency[k] = durations[k]
  BY <1>1 DEF BInv, FirstSamples, FirstOfAll
<1>7. CASE ~ do_measure
  <2>1. UNCHANGED <<do_measure, meas_end_time, stoppedAt, event_latency>>
    BY <1>1, <1>7 DEF sb_record_event
  <2>2. TypeOK'
    BY <1>1, <1>2, <1>4, <1>5, <2>1 DEF BInv, TypeOK
  <2>3. Stages'
    BY <1>1, <1>2, <1>4, <1>7, <2>1 DEF BInv, Stages
  <2>4. FirstSamples'
    <3>1. CASE timer = "armed"
      BY <1>1, <1>6, <2>1, <3>1 DEF FirstSamples, FirstOfAll
    <3>2. CASE timer # "armed"
      <4>1. Len(durations) > Capacity
        BY <1>1, <1>7, <3>2 DEF BInv, TypeOK, Stages
      <4>2. QED
        BY <1>1, <1>2, <1>4, <1>6, <2>1, <3>2, <4>1 DEF FirstSamples, FirstOfAll
    <3>3. QED
      BY <3>1, <3>2
  <2>5. Counting' /\ SamplesCounted' /\ ReportWhole'
        /\ (left <= (IF async THEN 1 ELSE MaxBatch))'
    <3>1. Counting' /\ ReportWhole'
      BY <1>1, <1>7, <2>1 DEF Counting, ReportWhole
    <3>2. SamplesCounted'
      BY <1>1, <1>2, <2>1 DEF BInv, SamplesCounted
    <3>3. (left <= (IF async THEN 1 ELSE MaxBatch))'
      BY <1>1, <1>2 DEF BInv
    <3>4. QED
      BY <3>1, <3>2, <3>3
  <2>6. QED
    BY <1>5, <2>2, <2>3, <2>4, <2>5 DEF BInv
<1>8. ASSUME do_measure
      PROVE  /\ timer = "expired" /\ durations' = Append(durations, took)
             /\ Len(durations) <= Capacity /\ n = Len(durations)
             /\ stoppedAt = None
             /\ n + left + (IF Idle THEN 0 ELSE 1) <= request_no + Uncounted
  BY <1>1, <1>6, <1>8 DEF BInv, TypeOK, Stages, Counting
<1>9. CASE do_measure /\ Stored(took)
           /\ UNCHANGED <<do_measure, meas_end_time, stoppedAt>>
  <2>1. /\ n < Capacity /\ event_latency' = Append(event_latency, took)
        /\ Len(event_latency') = n + 1 /\ event_latency' \in Seq(Nat)
        /\ \A k \in 1..n : event_latency'[k] = event_latency[k]
        /\ event_latency'[n + 1] = took
    BY <1>2, <1>9 DEF Stored
  <2>2. TypeOK'
    BY <1>1, <1>2, <1>4, <1>5, <1>8, <1>9, <2>1 DEF BInv, TypeOK
  <2>3. Stages'
    BY <1>1, <1>2, <1>4, <1>8, <1>9, <2>1 DEF BInv, Stages
  <2>4. FirstSamples'
    BY <1>1, <1>2, <1>4, <1>6, <1>8, <1>9, <2>1 DEF FirstSamples, FirstOfAll
  <2>5. Counting' /\ (left <= (IF async THEN 1 ELSE MaxBatch))'
    <3>1. CASE async
      BY <1>1, <1>2, <1>8, <1>9, <2>1, <3>1 DEF BInv, Counting, Idle
    <3>2. CASE ~ async
      <4>1. ~ Idle
        BY <1>1, <3>2 DEF Idle
      <4>2. Idle'
        BY <1>1, <3>2 DEF BInv, TypeOK, Begun, Idle
      <4>3. QED
        BY <1>1, <1>2, <1>8, <1>9, <2>1, <3>2, <4>1, <4>2 DEF BInv, Counting
    <3>3. QED
      BY <3>1, <3>2
  <2>6. SamplesCounted'
    BY <1>1, <1>2, <1>8, <1>9, <2>1 DEF SamplesCounted, Idle
  <2>7. ReportWhole'
    BY <1>1 DEF ReportWhole
  <2>8. QED
    BY <1>5, <2>2, <2>3, <2>4, <2>5, <2>6, <2>7 DEF BInv
<1>10. CASE do_measure /\ n = Capacity /\ sb_stop /\ UNCHANGED event_latency
  <2>1. /\ ~ do_measure' /\ meas_end_time' = ns_to_timespec(time)
        /\ stoppedAt' = time /\ ns_to_timespec(time) \in Timespec
        /\ do_measure' \in BOOLEAN
    BY <1>2, <1>10, FromNsExact DEF sb_stop, now_monotonic
  <2>2. TypeOK'
    BY <1>1, <1>2, <1>4, <1>5, <1>8, <1>10, <2>1 DEF BInv, TypeOK
  <2>3. Stages'
    BY <1>1, <1>2, <1>4, <1>8, <1>10, <2>1 DEF BInv, Stages
  <2>4. FirstSamples'
    BY <1>1, <1>2, <1>4, <1>6, <1>8, <1>10 DEF FirstSamples, FirstOfAll
  <2>5. Counting' /\ SamplesCounted' /\ ReportWhole'
        /\ (left <= (IF async THEN 1 ELSE MaxBatch))'
    <3>1. Counting' /\ ReportWhole'
      BY <1>1, <2>1 DEF Counting, ReportWhole
    <3>2. SamplesCounted'
      BY <1>1, <1>2, <1>10 DEF BInv, SamplesCounted
    <3>3. (left <= (IF async THEN 1 ELSE MaxBatch))'
      BY <1>1, <1>2 DEF BInv
    <3>4. QED
      BY <3>1, <3>2, <3>3
  <2>6. QED
    BY <1>5, <2>2, <2>3, <2>4, <2>5 DEF BInv
<1>11. QED
  BY <1>1, <1>3, <1>7, <1>9, <1>10 DEF sb_record_event

\* Time passes; starts stay in the past.
LEMMA TickBInv ==
  ASSUME BInv, Tick
  PROVE  BInv'
<1>1. /\ phase' = phase /\ phase = "serving" /\ time' = time + 1
      /\ time < MaxTime /\ time \in 0..MaxTime
      /\ UNCHANGED <<async, timer, left, start, do_measure, client_no,
                     request_no, meas_start_time, meas_end_time, event_latency,
                     file, began, durations, stoppedAt>>
  BY DEF BInv, TypeOK, Tick, counters, times, history
<1>2. TypeOK'
  BY <1>1, BenchAssumption DEF BInv, TypeOK
<1>3. Begun'
  BY <1>1, BenchAssumption DEF BInv, TypeOK, Begun
<1>4. Stages' /\ FirstSamples' /\ ReportWhole'
  BY <1>1 DEF BInv, Stages, FirstSamples, FirstOfAll, ReportWhole
<1>5. Counting' /\ SamplesCounted' /\ (left <= (IF async THEN 1 ELSE MaxBatch))'
  BY <1>1 DEF BInv, Counting, SamplesCounted, Uncounted, Idle
<1>6. QED
  BY <1>2, <1>3, <1>4, <1>5 DEF BInv

\* The file is written, for sb_stop comes first, and with times in order.
LEMMA EndLoopBInv ==
  ASSUME BInv, EndLoop
  PROVE  BInv'
<1>1. /\ phase = "serving" /\ phase' = "saved" /\ ~ do_measure'
      /\ do_measure' \in BOOLEAN
      /\ meas_end_time' = ns_to_timespec(time)
      /\ stoppedAt' = (IF do_measure THEN time ELSE stoppedAt)
      /\ file' = [meas_start_time |-> timespec_to_ns(meas_start_time),
                  meas_end_time |-> timespec_to_ns(ns_to_timespec(time)),
                  client_no |-> client_no, request_no |-> request_no,
                  event_latency |-> event_latency]
      /\ UNCHANGED <<async, timer, time, left, start, client_no, request_no,
                     meas_start_time, event_latency, began, durations>>
  BY DEF EndLoop, sb_stop, Saved, now_monotonic
<1>2. PICK t \in 0..time : meas_start_time = ns_to_timespec(t)
  BY DEF BInv, Begun
<1>3. time \in 0..MaxTime /\ time \in Nat /\ time < Wide /\ t \in Nat /\ t <= time
      /\ t < Wide
  <2>1. MaxTime \in Nat /\ MaxTime < Wide /\ Wide \in Nat
    BY BenchAssumption, UnitAssumption
  <2>2. time \in 0..MaxTime
    BY DEF BInv, TypeOK
  <2>3. QED
    BY <2>1, <2>2
<1>4. ASSUME NEW s \in Nat, s < Wide
      PROVE  timespec_to_ns(ns_to_timespec(s)) = s
  <2>1. ns_to_timespec(s) \in Timespec /\ Value(ns_to_timespec(s)) = s
    BY FromNsExact
  <2>2. timespec_to_ns(ns_to_timespec(s)) = s % Wide
    BY <2>1 DEF timespec_to_ns, Value
  <2>3. s % Wide = s
    BY <1>4, UnitAssumption
  <2>4. QED
    BY <2>2, <2>3
<1>5. timespec_to_ns(meas_start_time) = t
      /\ timespec_to_ns(ns_to_timespec(time)) = time
  BY <1>2, <1>3, <1>4
<1>6. file' \in Report /\ file' # None
      /\ file'.event_latency = event_latency /\ file'.request_no = request_no
      /\ file'.client_no = client_no
      /\ file'.meas_start_time <= file'.meas_end_time
  BY <1>1, <1>3, <1>5, NoneAssumption DEF BInv, TypeOK, Report
<1>7. ns_to_timespec(time) \in Timespec
  BY <1>3, FromNsExact
<1>8. TypeOK'
  BY <1>1, <1>3, <1>6, <1>7 DEF BInv, TypeOK
<1>9. Begun'
  BY <1>1 DEF BInv, Begun
<1>10. Stages'
  BY <1>1 DEF BInv, TypeOK, Stages
<1>11. FirstSamples' /\ ReportWhole'
  BY <1>1, <1>6 DEF BInv, FirstSamples, FirstOfAll, ReportWhole
<1>12. Counting' /\ SamplesCounted' /\ (left <= (IF async THEN 1 ELSE MaxBatch))'
  BY <1>1 DEF BInv, Counting, SamplesCounted, Uncounted
<1>13. QED
  BY <1>8, <1>9, <1>10, <1>11, <1>12 DEF BInv

\* The process exits, or an assertion fails.
LEMMA EndBInv ==
  ASSUME BInv, Exit \/ Abort
  PROVE  BInv'
<1>1. CASE Exit
  <2>1. /\ phase = "saved" /\ phase' = "exited" /\ event_latency' = <<>>
        /\ ~ do_measure
        /\ UNCHANGED <<async, timer, time, left, start, do_measure, client_no,
                       request_no, meas_start_time, meas_end_time, file, began,
                       durations, stoppedAt>>
    BY <1>1 DEF BInv, Stages, Exit, counters, times, history
  <2>2. TypeOK'
    BY <2>1 DEF BInv, TypeOK
  <2>3. Begun' /\ Stages' /\ FirstSamples' /\ ReportWhole' /\ Counting'
    BY <2>1
    DEF BInv, Begun, Stages, FirstSamples, ReportWhole, FirstOfAll, Counting
  <2>4. SamplesCounted' /\ (left <= (IF async THEN 1 ELSE MaxBatch))'
    BY <2>1, BenchAssumption DEF BInv, TypeOK, SamplesCounted, Uncounted
  <2>5. QED
    BY <2>2, <2>3, <2>4 DEF BInv
<1>2. CASE Abort
  <2>1. /\ phase \in {"serving", "saved"} /\ phase' = "failed"
        /\ UNCHANGED <<async, timer, time, left, start, do_measure, client_no,
                       request_no, meas_start_time, meas_end_time,
                       event_latency, file, began, durations, stoppedAt>>
    BY <1>2 DEF Abort, counters, times, history
  <2>2. TypeOK'
    BY <2>1 DEF BInv, TypeOK
  <2>3. Begun' /\ Stages' /\ FirstSamples' /\ ReportWhole' /\ Counting'
    BY <2>1
    DEF BInv, Begun, Stages, FirstSamples, ReportWhole, Counting, Idle, Uncounted
  <2>4. SamplesCounted' /\ (left <= (IF async THEN 1 ELSE MaxBatch))'
    BY <2>1 DEF BInv, SamplesCounted, Uncounted
  <2>5. QED
    BY <2>2, <2>3, <2>4 DEF BInv
<1>3. QED
  BY <1>1, <1>2

\* Every step preserves the invariant: one lemma per action.
LEMMA StepBInv == BInv /\ [Next]_vars => BInv'
  BY ArriveBInv, TimerExpiredBInv, ServeOtherBInv, BeginEventBInv, EndEventBInv,
     TickBInv, EndLoopBInv, EndBInv, UnchangedBInv
  DEF Next, Terminating

\* The inductive invariant holds in every reachable state.
THEOREM Invariance == SafeSpec => []BInv
<1>1. QED
  BY InitBInv, StepBInv, PTL DEF SafeSpec

\* The container holds the exact latencies of the first Capacity events that
\* ended after the warm-up.
THEOREM SamplesExact == SafeSpec => []FirstSamples
<1>1. BInv => FirstSamples
  BY DEF BInv
<1>2. QED
  BY <1>1, Invariance, PTL

\* At most the rest of the timer's batch is measured without being counted;
\* in the io_uring server nothing is.
THEOREM SamplesAreCounted == SafeSpec => []SamplesCounted
<1>1. BInv => SamplesCounted
  BY DEF BInv
<1>2. QED
  BY <1>1, Invariance, PTL

\* A server that stops gracefully leaves a complete file.
THEOREM ReportIsWhole == SafeSpec => []ReportWhole
<1>1. BInv => ReportWhole
  BY DEF BInv
<1>2. QED
  BY <1>1, Invariance, PTL

\* A measurement that could not be stored ends the measuring for good.
THEOREM MeasuredOnce == SafeSpec => MeasuresOnce
<1> DEFINE Over == stoppedAt # None =>
             /\ do_measure' = FALSE /\ request_no' = request_no
             /\ phase' # "exited" => event_latency' = event_latency
<1>1. BInv /\ [Next]_vars => [Over]_vars
  <2>1. SUFFICES ASSUME BInv, Next, stoppedAt # None
                 PROVE  /\ do_measure' = FALSE /\ request_no' = request_no
                        /\ phase' # "exited" => event_latency' = event_latency
    OBVIOUS
  <2>2. do_measure = FALSE /\ timer = "expired"
    BY <2>1 DEF BInv, TypeOK, Stages
  <2>3. ASSUME NEW n \in 1..MaxBatch, Arrive(n)
        PROVE  /\ do_measure' = FALSE /\ request_no' = request_no
               /\ event_latency' = event_latency
    BY <2>2, <2>3 DEF Arrive, sb_requests_performed
  <2>4. ~ TimerExpired
    BY <2>2 DEF TimerExpired
  <2>5. ASSUME NEW c \in Conns, BeginEvent(c) \/ EndEvent(c)
        PROVE  /\ do_measure' = FALSE /\ request_no' = request_no
               /\ event_latency' = event_latency
    BY <2>2, <2>5 DEF BeginEvent, EndEvent, sb_record_event, counters
  <2>6. CASE ServeOther \/ Tick \/ EndLoop \/ Exit \/ Abort \/ Terminating
    BY <2>2, <2>6
    DEF ServeOther, Tick, EndLoop, sb_stop, Exit, Abort, Terminating, vars,
        counters
  <2>7. QED
    BY <2>1, <2>3, <2>4, <2>5, <2>6 DEF Next
<1>2. QED
  BY <1>1, Invariance, PTL DEF SafeSpec, MeasuresOnce

=============================================================================
