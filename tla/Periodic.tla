------------------------------ MODULE Periodic -------------------------------
(***************************************************************************)
(* The clock of the main loop (port_main.c:356-372, 387-394): the seconds  *)
(* since start-up, computed from FreeRTOS' tick counter once in a pass,    *)
(* and the two pieces of work that compare them with the second they last  *)
(* ran in.  The counter has 32 bits and wraps around; the seconds of the   *)
(* pass are used after the events have been processed, which takes time.   *)
(***************************************************************************)
EXTENDS Integers

CONSTANTS
  TickModulus,  \* 2^32: the range of the tick counter
  Second,       \* 1000: ticks in a second
  MaxWait,      \* bound: ticks from the periodic work to the next look at the clock
  MaxWork       \* bound: ticks the events of a pass take

ASSUME PeriodicAssumption ==
  /\ TickModulus \in Nat \ {0}
  /\ Second \in Nat \ {0}
  /\ MaxWait \in Nat /\ MaxWork \in Nat

VARIABLES
  at,                  \* "clock": before the clock is read; "work": after
  ticks,               \* FreeRTOS' counter
  sec_cnt,             \* the seconds of this pass
  timestamp,           \* when the ten-second work last ran
  periodic_timestamp,  \* when the one-second work last ran
  wrapped,             \* history: the counter has wrapped around
  reports              \* history: calls of wish_time_report_periodic

clockVars == <<at, ticks, sec_cnt, timestamp, periodic_timestamp, wrapped, reports>>

MaxSeconds == (TickModulus - 1) \div Second

ClockTypeOK ==
  /\ at \in {"clock", "work"}
  /\ ticks \in 0 .. TickModulus - 1
  /\ sec_cnt \in 0 .. MaxSeconds
  /\ timestamp \in 0 .. MaxSeconds
  /\ periodic_timestamp \in 0 .. MaxSeconds
  /\ wrapped \in BOOLEAN
  /\ reports \in 0 .. MaxSeconds

ClockInit ==
  /\ at = "clock"
  /\ ticks = 0 /\ sec_cnt = 0
  /\ timestamp = 0 /\ periodic_timestamp = 0
  /\ wrapped = FALSE /\ reports = 0

(* Mutant: the counter is taken to have more bits than it has. *)
TimePassesUnbounded(d) ==
  /\ ticks < 2 * TickModulus
  /\ ticks' = ticks + d
  /\ wrapped' = (wrapped \/ ticks + d >= TickModulus)

TimePasses(d) ==
  /\ ticks' = (ticks + d) % TickModulus
  /\ wrapped' = (wrapped \/ ticks + d >= TickModulus)

(* select() has returned and its sockets have been served. *)
ReadClock(d) ==
  /\ at = "clock"
  /\ TimePasses(d)
  /\ sec_cnt' = ticks' \div Second
  /\ timestamp' = IF sec_cnt' > timestamp + 10 THEN sec_cnt' ELSE timestamp
  /\ at' = "work"
  /\ UNCHANGED <<periodic_timestamp, reports>>

(* Mutant: the second is noted as that after the events, not that compared. *)
PeriodicWorkReadsAgain(d) ==
  /\ at = "work"
  /\ TimePasses(d)
  /\ \/ /\ sec_cnt > periodic_timestamp
        /\ periodic_timestamp' = ticks' \div Second
        /\ reports' = reports + 1
     \/ /\ sec_cnt <= periodic_timestamp
        /\ UNCHANGED <<periodic_timestamp, reports>>
  /\ at' = "clock"
  /\ UNCHANGED <<sec_cnt, timestamp>>

(* The events have been processed; then the one-second work is due or not. *)
PeriodicWork(d) ==
  /\ at = "work"
  /\ TimePasses(d)
  /\ \/ /\ sec_cnt > periodic_timestamp
        /\ periodic_timestamp' = sec_cnt
        /\ reports' = reports + 1
     \/ /\ sec_cnt <= periodic_timestamp
        /\ UNCHANGED <<periodic_timestamp, reports>>
  /\ at' = "clock"
  /\ UNCHANGED <<sec_cnt, timestamp>>

ClockNext ==
  \/ \E d \in 0 .. MaxWait : ReadClock(d)
  \/ \E d \in 0 .. MaxWork : PeriodicWork(d)

ClockSpec == ClockInit /\ [][ClockNext]_clockVars

(* The loop goes on, and time passes in it. *)
ClockLiveSpec == ClockSpec /\ WF_clockVars(ClockNext) /\ WF_clockVars(ClockNext /\ ticks' # ticks)

-----------------------------------------------------------------------------

(***************************************************************************)
(* wish_time_report_periodic is the core's clock: until the tick counter   *)
(* wraps it has been called once for every second, provided that the clock *)
(* is read at least once in every second, although the events processed    *)
(* between the look at the clock and the call take time                    *)
(* (port_main.c:358, 387-391).                                             *)
(***************************************************************************)
CountsSeconds ==
  ~wrapped => /\ at = "clock" => reports = sec_cnt
              /\ at = "work" => reports \in {sec_cnt - 1, sec_cnt}

(***************************************************************************)
(* "1-second periodic interval" (port_main.c:389): the one-second work is  *)
(* done again and again.                                                   *)
(***************************************************************************)
PeriodicGoesOn == []<>(at = "work" /\ sec_cnt > periodic_timestamp)
=============================================================================
