CONSTANTS
  Auths = {a1, a2}
  Overlapping = FALSE
  TabsStayOpen = FALSE
  Tasks = {t1, t2}
  MaxPages = 2
  MaxQueue = 3
  None = None
SPECIFICATION FairSpec
INVARIANTS ServedOnce RaiseRevocable
PROPERTIES Answered HangingShown
CHECK_DEADLOCK FALSE
