\* Two connections of one device.
SPECIFICATION Spec
CONSTANTS
    None = None
    Device = {d1}
    Limits = {2}
    Unlimited = 2
    MaxConn = 2
    MaxKicks = 0
PROPERTIES
    DisconnectedRemoved
CHECK_DEADLOCK FALSE
