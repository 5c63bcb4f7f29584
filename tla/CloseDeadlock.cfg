SPECIFICATION Spec
CONSTANTS
    Setups <- CloseSetups
    Loops = {1, 2}
    MaxShared = 4
PROPERTIES
    EventuallyDestroyed
CHECK_DEADLOCK FALSE
