----------------------------- MODULE ServerBench -----------------------------
(***************************************************************************)
(* The server-side benchmark: server_benchmark.c, the container of         *)
(* measurements.c it fills, and the places where the servers call it.      *)
(*                                                                         *)
(* poll and epoll servers count the events of a batch when it arrives and  *)
(* measure a read with its echo within one event.  The io_uring server     *)
(* gets one completion at a time, starts a measurement in the completion   *)
(* of a recv and ends it in that of the send, so several overlap.          *)
(***************************************************************************)
EXTENDS TimeUtils, Sequences

CONSTANTS
  Conns,       \* connections
  Capacity,    \* BENCH_EXPECTED_MESSAGES
  MaxBatch,    \* events epoll_pwait or ppoll return at once
  MaxTime,     \* bound on the clock
  MaxEvents,   \* bound on the measurements and on the requests
  None

ASSUME BenchAssumption ==
  /\ Capacity \in Nat \ {0} /\ MaxBatch \in Nat \ {0}
  /\ MaxTime \in Nat /\ MaxTime < Wide
  /\ MaxEvents \in Nat

\* What sb_save_bench writes.
Report == [meas_start_time : Nat, meas_end_time : Nat, client_no : Nat,
           request_no : Nat, event_latency : Seq(Nat)]

ASSUME NoneAssumption == None \notin Report

VARIABLES
  async,       \* whether this is the io_uring server
  phase,       \* "serving", "saved", "exited", or "failed" in an assertion
  timer,       \* the warm-up timer: "armed" or "expired"
  time,        \* the monotonic clock, in nanoseconds
  left,        \* events of the batch that are not serviced yet
  start,       \* bench_start_send, or the local start, of a connection
  do_measure, client_no, request_no,       \* struct server_bench
  meas_start_time, meas_end_time, event_latency,
  file,        \* what sb_save_bench wrote
  \* history, not in the code:
  began,       \* when the measurement of a connection began
  durations,   \* of all that ended since the timer expired
  stoppedAt    \* when measuring ended

server == <<async, phase, timer, time, left, start>>
counters == <<do_measure, client_no, request_no>>
times == <<meas_start_time, meas_end_time>>
history == <<began, durations, stoppedAt>>
vars == <<server, counters, times, event_latency, file, history>>

Zero == [sec |-> 0, nsec |-> 0]

\* clock_gettime(CLOCK_MONOTONIC)
now_monotonic == ns_to_timespec(time)

\* sb_create
Init ==
  /\ async \in BOOLEAN
  /\ phase = "serving" /\ timer = "armed" /\ time = 0 /\ left = 0
  /\ start = [c \in Conns |-> None]
  /\ do_measure = FALSE /\ client_no = 0 /\ request_no = 0
  /\ meas_start_time = Zero /\ meas_end_time = Zero
  /\ event_latency = <<>> /\ file = None
  /\ began = [c \in Conns |-> 0] /\ durations = <<>> /\ stoppedAt = None

-----------------------------------------------------------------------------
\* No measurement is under way that keeps the thread.
Idle == async \/ \A c \in Conns : start[c] = None

sb_start ==
  IF do_measure THEN UNCHANGED <<do_measure, meas_start_time>>
  ELSE do_measure' = TRUE /\ meas_start_time' = now_monotonic

\* slip: = instead of +=
CountLastBatch(count) ==
  request_no' = IF do_measure THEN count ELSE request_no

sb_requests_performed(count) ==
  request_no' = IF do_measure THEN request_no + count ELSE request_no

\* slip: nothing stops the measuring
StopNothing == UNCHANGED <<do_measure, meas_end_time, stoppedAt>>

sb_stop ==
  /\ do_measure' = FALSE
  /\ meas_end_time' = now_monotonic
  /\ stoppedAt' = IF do_measure THEN time ELSE stoppedAt

\* meas_pcontainer_store: whether there is room
Stored(value) ==
  /\ Len(event_latency) < Capacity
  /\ event_latency' = Append(event_latency, value)

sb_record_event(from, to) ==
  IF ~ do_measure
  THEN UNCHANGED <<do_measure, meas_end_time, stoppedAt, event_latency>>
  ELSE \/ /\ Stored(timespec_to_ns(time_delta(to, from)))
          /\ UNCHANGED <<do_measure, meas_end_time, stoppedAt>>
       \/ /\ Len(event_latency) = Capacity
          /\ sb_stop
          /\ UNCHANGED event_latency

-----------------------------------------------------------------------------
\* epoll_pwait or ppoll return, or iou_get_cqe finds a completion.
Arrive(n) ==
  /\ phase = "serving" /\ left = 0 /\ Idle
  /\ n <= (IF async THEN 1 ELSE MaxBatch) /\ request_no + n <= MaxEvents
  /\ left' = n
  /\ sb_requests_performed(n)
  /\ UNCHANGED <<async, phase, timer, time, start, do_measure, client_no,
                 times, event_latency, file, history>>

Service == left > 0 /\ left' = left - 1

\* slip: the timer is not closed, and expires again
TimerStaysArmed ==
  /\ phase = "serving" /\ Idle /\ Service
  /\ timer' = "expired"
  /\ sb_start
  /\ UNCHANGED <<async, phase, time, start, client_no, request_no,
                 meas_end_time, event_latency, file, history>>

\* timer_expired, handle_cqe_timer: the timer is closed, or has no interval
TimerExpired ==
  /\ phase = "serving" /\ Idle /\ Service
  /\ timer = "armed" /\ timer' = "expired"
  /\ sb_start
  /\ UNCHANGED <<async, phase, time, start, client_no, request_no,
                 meas_end_time, event_latency, file, history>>

\* The event of the listening socket, on which the epoll server accepts all
\* that is pending and the poll and io_uring servers accept one connection, or
\* an event the benchmark has no part in. The synchronous servers share this
\* action: it allows poll more accepts in one event than its code makes.
ServeOther ==
  /\ phase = "serving" /\ Idle /\ Service
  /\ \E k \in 0..(IF async THEN 1 ELSE MaxEvents) :
       client_no + k <= MaxEvents /\ client_no' = client_no + k
  /\ UNCHANGED <<async, phase, timer, time, start, do_measure, request_no,
                 times, event_latency, file, history>>

BeginEvent(c) ==
  /\ phase = "serving" /\ Idle /\ Service
  /\ start[c] = None
  /\ start' = [start EXCEPT ![c] = now_monotonic]
  /\ began' = [began EXCEPT ![c] = time]
  /\ UNCHANGED <<async, phase, timer, time, counters, times, event_latency,
                 file, durations, stoppedAt>>

\* After read_n_echo, or in handle_cqe_send, an event of its own.
EndEvent(c) ==
  /\ phase = "serving" /\ start[c] # None /\ Len(durations) < MaxEvents
  /\ IF async THEN Service ELSE UNCHANGED left
  /\ sb_record_event(start[c], now_monotonic)
  /\ start' = [start EXCEPT ![c] = None]
  /\ durations' = IF timer = "armed" THEN durations
                  ELSE Append(durations, time - began[c])
  /\ UNCHANGED <<async, phase, timer, time, client_no, request_no,
                 meas_start_time, file, began>>

Tick ==
  /\ phase = "serving" /\ time < MaxTime
  /\ time' = time + 1
  /\ UNCHANGED <<async, phase, timer, left, start, counters, times,
                 event_latency, file, history>>

\* sb_save_bench
Saved ==
  file' = IF do_measure' THEN file
          ELSE [meas_start_time |-> timespec_to_ns(meas_start_time),
                meas_end_time |-> timespec_to_ns(meas_end_time'),
                client_no |-> client_no, request_no |-> request_no,
                event_latency |-> event_latency]

\* SIGUSR1 has been seen: the end of service_loop.
EndLoop ==
  /\ phase = "serving" /\ left = 0 /\ Idle
  /\ phase' = "saved"
  /\ sb_stop
  /\ Saved
  /\ UNCHANGED <<async, timer, time, left, start, client_no, request_no,
                 meas_start_time, event_latency, began, durations>>

\* sb_free, at the end of do_exit_cleanup
Exit ==
  /\ phase = "saved" /\ phase' = "exited"
  /\ event_latency' = <<>>
  /\ UNCHANGED <<async, timer, time, left, start, counters, times, file,
                 history>>

\* An assertion of the server ends the process; nothing is saved.
Abort ==
  /\ phase \in {"serving", "saved"} /\ phase' = "failed"
  /\ UNCHANGED <<async, timer, time, left, start, counters, times,
                 event_latency, file, history>>

Terminating == phase \in {"exited", "failed"} /\ UNCHANGED vars

Next ==
  \/ \E n \in 1..MaxBatch : Arrive(n)
  \/ TimerExpired \/ ServeOther
  \/ \E c \in Conns : BeginEvent(c) \/ EndEvent(c)
  \/ Tick \/ EndLoop \/ Exit \/ Abort
  \/ Terminating

SafeSpec == Init /\ [][Next]_vars

-----------------------------------------------------------------------------
TypeOK ==
  /\ async \in BOOLEAN /\ phase \in {"serving", "saved", "exited", "failed"}
  /\ timer \in {"armed", "expired"}
  /\ time \in 0..MaxTime /\ left \in Nat
  /\ start \in [Conns -> Timespec \cup {None}]
  /\ do_measure \in BOOLEAN /\ client_no \in Nat /\ request_no \in Nat
  /\ meas_start_time \in Timespec /\ meas_end_time \in Timespec
  /\ event_latency \in Seq(Nat)
  /\ began \in [Conns -> 0..MaxTime] /\ durations \in Seq(Nat)
  /\ stoppedAt \in Nat \cup {None}
  /\ file \in Report \cup {None}

\* Whether these are the measurements that fit, of those that ended since the
\* timer expired.
FirstOfAll(samples) ==
  /\ Len(samples) = IF Len(durations) <= Capacity THEN Len(durations)
                    ELSE Capacity
  /\ \A k \in 1..Len(samples) : samples[k] = durations[k]

\* sb_record_event stores the exact time from start to end, whatever second
\* boundaries lie between, for the first Capacity events after the timer, and
\* none is overwritten or left out.
FirstSamples == phase \in {"serving", "saved"} => FirstOfAll(event_latency)

\* Every sample was counted as a request, except those that were in the same
\* batch as the timer: the batch is counted before its events are serviced.
Uncounted == IF async THEN 0 ELSE MaxBatch - 1

SamplesCounted == Len(event_latency) <= request_no + Uncounted

\* The file has all the samples, and the times it names are in order.
ReportWhole ==
  phase \in {"saved", "exited"} =>
    /\ file # None
    /\ FirstOfAll(file.event_latency)
    /\ file.request_no = request_no /\ file.client_no = client_no
    /\ file.meas_start_time <= file.meas_end_time

\* Once measuring has ended it does not begin again: no counter moves and no
\* sample is added until the container is freed.
MeasuresOnce ==
  [][stoppedAt # None =>
       /\ do_measure' = FALSE /\ request_no' = request_no
       /\ phase' # "exited" => event_latency' = event_latency]_vars

\* meas_end_time, "measuring end time" in server_benchmark.h, is the time at
\* which do_measure was reset.
EndIsStop ==
  file # None /\ stoppedAt # None => file.meas_end_time = stoppedAt

-----------------------------------------------------------------------------
(***************************************************************************)
(* The inductive invariant behind these properties.                        *)
(***************************************************************************)

\* What was begun is remembered by its time; a poll or epoll server has one
\* measurement under way at most.
Begun ==
  /\ \A c \in Conns : start[c] # None =>
       start[c] = ns_to_timespec(began[c]) /\ began[c] <= time
  /\ ~ async => \A c, d \in Conns :
                  start[c] # None /\ start[d] # None => c = d
  /\ \E t \in 0..time : meas_start_time = ns_to_timespec(t)

\* Measuring begins with the timer and ends when the container is full.
Stages ==
  /\ timer = "armed" =>
       ~ do_measure /\ stoppedAt = None /\ durations = <<>>
  /\ do_measure => /\ phase \in {"serving", "failed"}
                   /\ stoppedAt = None /\ Len(durations) <= Capacity
  /\ stoppedAt # None => timer = "expired"
  /\ phase = "serving" /\ timer = "expired" /\ ~ do_measure =>
       Len(durations) > Capacity
  /\ phase = "exited" => event_latency = <<>>

\* While measuring, the events that can still become samples are counted.
Counting ==
  do_measure => Len(event_latency) + left + (IF Idle THEN 0 ELSE 1)
                  <= request_no + Uncounted

BInv ==
  /\ TypeOK /\ Begun /\ Stages /\ Counting
  /\ left <= (IF async THEN 1 ELSE MaxBatch)
  /\ FirstSamples /\ SamplesCounted /\ ReportWhole

=============================================================================
