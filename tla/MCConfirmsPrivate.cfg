SPECIFICATION DeliverySpec
CONSTANTS
  Conns = {c1, c2}
  Traders = {t1, t2}
  Fds = {0, 1}
  MaxMsgs = 1
  QueueSlots = 1
  None = None
INVARIANT ConfirmsPrivate
CHECK_DEADLOCK FALSE
