SPECIFICATION Spec
CONSTANTS
    Handle = {h1, h2, h3, h4, h5}
    MaxEndpoints = 4
    Images <- OneImage
    Upgrades <- NoUpgrade
    LegacyMin <- NoLegacy
    Faults = {}
    IdBound = 4
    NotFound = NotFound
    AggregatorCount = 1
    Types = {"light", "unknown"}
    Supported <- OnlyLights
    ResetWhen = "idle"
    NoHandle = NoHandle
    Addr = {a1, a2}
SYMMETRY Symmetry
INVARIANT ErasesOnlyRemoved
