SPECIFICATION FairSpec
CONSTANTS
    None = None
    origin = origin
    Off = Off
CHECK_DEADLOCK FALSE
PROPERTIES
    BegunWorkEnds
