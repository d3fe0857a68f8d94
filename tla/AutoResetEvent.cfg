SPECIFICATION UnsignaledEventSpec
CONSTANTS
  Thread = {t1, t2}
  Resetter = {}
  Manual = FALSE
  MaxNotifies = 3
  MaxCalls = 2
PROPERTY UnsignaledAfterWait
CHECK_DEADLOCK FALSE
