SPECIFICATION DeliveryFairSpec
CONSTANTS
  Conns = {c1, c2}
  Traders = {t1, t2}
  Fds = {0}
  MaxMsgs = 1
  QueueSlots = 1
  None = None
INVARIANT LookupCurrent
PROPERTIES PushesReturn RequestsArrive DescriptorsReleased
CHECK_DEADLOCK FALSE
