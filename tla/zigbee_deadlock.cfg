SPECIFICATION Spec
CONSTANTS
    Zigbee = zigbee
    Matter = matter
    Task = {zigbee, matter}
    NoTask = NoTask
    Light = {l1, l2}
INVARIANT NoCircularWait
