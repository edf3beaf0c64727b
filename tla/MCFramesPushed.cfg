SPECIFICATION Spec
CONSTANTS
  Conns = {c1, c2}
  Traders = {t1, t2}
  Fds = {0, 1}
  MaxMsgs = 1
  QueueSlots = 8
  None = None
INVARIANT FramesPushed
CHECK_DEADLOCK FALSE
