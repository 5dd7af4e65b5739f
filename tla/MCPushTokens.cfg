SPECIFICATION PushSpec
CONSTANTS
    Devices = {d1, d2, d3}
    MaxDevices = 2
    Sessions = {n1, n2}
    Activities = {a1, a2}
    Holds410 = {a1}
    NoToken = NoToken
    MaxPushes = 3
INVARIANT PushTypeOK
PROPERTIES
    ValidDeviceKept
    LostToOwnPush
