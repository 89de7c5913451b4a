SPECIFICATION Spec
CONSTANTS
    Handle = {h1, h2, h3, h4}
    MaxEndpoints = 4
    Images <- OneImage
    Upgrades <- NoUpgrade
    LegacyMin <- OldFirmware
    Faults = {"open", "set"}
    IdBound = 3
    NotFound = NotFound
    AggregatorCount = 1
    Types = {light}
    Supported <- AllSupported
    NoHandle = NoHandle
    ResetWhen = "idle"
SYMMETRY Symmetry
INVARIANT NoOrphans
INVARIANT UniqueIds
