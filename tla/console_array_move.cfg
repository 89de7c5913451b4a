SPECIFICATION Spec
CONSTANTS
    Handle = {h1, h2, h3, h4, h5}
    MaxEndpoints = 4
    Images <- OneImage
    Upgrades <- NoUpgrade
    LegacyMin <- OldFirmware
    Faults = {}
    IdBound = 4
    NotFound = NotFound
    AggregatorCount = 1
    Types = {light}
    Supported <- AllSupported
    NoHandle = NoHandle
    ResetWhen = "never"
SYMMETRY Symmetry
INVARIANT ArrayMoveKeepsDevices
