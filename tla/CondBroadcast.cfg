SPECIFICATION LiveSpec
CONSTANTS
  Threads = {c1, c2, p1}
  Consumers = {c1, c2}
  Timed = {c1}
  None = None
  Notify = "broadcast"
  MaxWork = 3
INVARIANTS
  EntriesAlive
PROPERTY
  NoneLeftWaiting
CHECK_DEADLOCK FALSE
