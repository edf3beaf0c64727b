SPECIFICATION FairSpec
CONSTANTS
  HeaderSize = 2
  LoginSize = 3
  Sizes = {2, 3, 4, 5}
  MAX_RAW_MSG_SIZE = 4
  BufSize = 4
  MaxMsgs = 3
INVARIANTS TypeOK WholeMessages NoneHeldBack
PROPERTY AllFramed
CHECK_DEADLOCK FALSE
