SPECIFICATION DateSpec
CONSTANTS
  Threads = {t1, t2}
  Second = 3
  MaxClock = 10
INVARIANTS
  DateIsRecent
  DatesInOrder
CHECK_DEADLOCK FALSE
