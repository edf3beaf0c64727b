SPECIFICATION LifeFairSpec
CONSTANT Slots = 2
PROPERTY ShutdownCompletes
CHECK_DEADLOCK FALSE
