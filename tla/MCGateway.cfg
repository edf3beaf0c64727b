SPECIFICATION Spec
CONSTANTS
  Conns = {c1, c2}
  Traders = {t1, t2}
  Fds = {0, 1}
  MaxMsgs = 2
  QueueSlots = 8
  None = None
INVARIANTS TypeOK SessionsCurrent RequestsInOrder NothingLost
CHECK_DEADLOCK FALSE
