\* The clock goes on after the tick counter has wrapped.
SPECIFICATION ClockLiveSpec
CONSTANTS
  TickModulus = 40
  Second = 3
  MaxWait = 2
  MaxWork = 1
PROPERTIES PeriodicGoesOn
