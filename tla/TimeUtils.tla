------------------------------ MODULE TimeUtils ------------------------------
(***************************************************************************)
(* The arithmetic of common/time_utils.c.  A struct timespec is a record   *)
(* of seconds and nanoseconds; both fields are long and signed.            *)
(***************************************************************************)
EXTENDS Integers

CONSTANTS
  Nano,      \* NUMBER_10E9: nanoseconds in a second
  IntHalf,   \* an int is in -IntHalf .. IntHalf - 1
  Wide       \* a uint64_t is in 0 .. Wide - 1

ASSUME UnitAssumption ==
  /\ Nano \in Nat \ {0}
  /\ IntHalf \in Nat /\ IntHalf > 1
  /\ Wide \in Nat \ {0}

Timespec == [sec : Int, nsec : Int]

\* The time a timespec stands for, and the form the comments call balanced:
\* less than a second in nsec, and no two different signs.
Value(ts) == ts.sec * Nano + ts.nsec

Balanced(ts) ==
  /\ -Nano < ts.nsec /\ ts.nsec < Nano
  /\ ~ (ts.sec > 0 /\ ts.nsec < 0)
  /\ ~ (ts.sec < 0 /\ ts.nsec > 0)

-----------------------------------------------------------------------------
\* C rounds a quotient towards zero; the remainder has the dividend's sign.
Quotient(a) == IF a >= 0 THEN a \div Nano ELSE -((-a) \div Nano)
Remainder(a) == IF a >= 0 THEN a % Nano ELSE -((-a) % Nano)

\* int hole_parts = a long
ToInt(a) == ((a + IntHalf) % (2 * IntHalf)) - IntHalf

\* slip: the borrowed second is not taken from sec
RebalanceNoBorrow(ts) ==
  LET sec == ts.sec + ToInt(Quotient(ts.nsec))
      nsec == Remainder(ts.nsec)
  IN  IF sec > 0 /\ nsec < 0
      THEN [sec |-> sec, nsec |-> nsec + Nano]
      ELSE [sec |-> sec, nsec |-> nsec]

timespec_rebalance(ts) ==
  LET hole_parts == ToInt(Quotient(ts.nsec))
      sec == ts.sec + hole_parts
      nsec == Remainder(ts.nsec)
  IN  IF sec = 0 \/ nsec = 0 \/ ((sec < 0) <=> (nsec < 0))
      THEN [sec |-> sec, nsec |-> nsec]
      ELSE IF nsec < 0
           THEN [sec |-> sec - 1, nsec |-> nsec + Nano]
           ELSE [sec |-> sec + 1, nsec |-> nsec - Nano]

time_delta(minuend, subtrahend) ==
  timespec_rebalance([sec |-> minuend.sec - subtrahend.sec,
                      nsec |-> minuend.nsec - subtrahend.nsec])

timespec_to_ns(ts) == (ts.sec * Nano + ts.nsec) % Wide

ns_to_timespec(ns) == [sec |-> ns \div Nano, nsec |-> ns % Nano]

timespec_lt(ts_1, ts_2) ==
  IF ts_1.sec = ts_2.sec THEN ts_1.nsec < ts_2.nsec ELSE ts_1.sec < ts_2.sec

=============================================================================
