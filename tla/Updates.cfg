\* The end of a subscription, on a runtime with several threads.
SPECIFICATION Spec
CONSTANTS
    Capacity = 2
    MaxUpdates = 4
    MaxCalls = 4
PROPERTY NoneWhenDrained
CHECK_DEADLOCK FALSE
