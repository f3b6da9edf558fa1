\* The clock is read at least once in every second.
SPECIFICATION ClockSpec
CONSTANTS
  TickModulus = 40
  Second = 3
  MaxWait = 2
  MaxWork = 1
INVARIANTS ClockTypeOK CountsSeconds
