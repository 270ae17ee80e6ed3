CONSTANTS
  Threads = {t1, t2, t3}
  Timed = {}
  None = None
  Depth = 1
  Ops = {"rdlock", "tryrdlock", "wrlock", "trywrlock", "unlock", "destroy"}
SPECIFICATION LiveSpec
INVARIANTS
  TypeOK
  EntriesAlive
  Exclusive
  NoLostWakeup
  DestroySafe
PROPERTY
  Returns
CHECK_DEADLOCK FALSE
