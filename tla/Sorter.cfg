\* Digits in base 3, so that the clock wraps every 81 ticks; two events and a
\* quota of one, so that a level can be left with an event to move; events are
\* sent for dates beyond the next carry of the last digit.
CONSTANTS
  Events = {e1, e2}
  Base = 3
  Quota = 1
  Reach = 4
SPECIFICATION FairSpec
INVARIANT IInv
PROPERTIES IsASchedule Released
