SPECIFICATION Spec
CONSTANTS
    Handle = {h1, h2, h3, h4, h5}
    MaxEndpoints = 4
    Images <- TwoImages
    Upgrades <- ThereAndBack
    LegacyMin <- NoLegacy
    Faults = {}
    IdBound = 5
    NotFound = NotFound
    AggregatorCount = 1
    Types = {light}
    Supported <- AllSupported
    NoHandle = NoHandle
    ResetWhen = "any"
SYMMETRY Symmetry
INVARIANT ConsoleTypeOK
INVARIANT ArrayHasInfo
INVARIANT AckedPersisted
INVARIANT AckedComesBack
INVARIANT RecordsAgree
INVARIANT GoneStaysGone
INVARIANT ErasesOnlyRemoved
INVARIANT WithinLimit
INVARIANT ParentWalkEnds
PROPERTY IdsNeverReissued
