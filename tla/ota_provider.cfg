SPECIFICATION FairSpec
CONSTANTS
    light = light
    light1 = light1
    light2 = light2
    Node = {light1, light2}
    Managed = {light1}
    Product = {light}
    Query <- MCQuery
    Dcl <- MCDcl
    Url <- MCUrl
    MaxCandidates = 2
    QueueLen = 1
    MaxLife = 1
    ImageLen = 3
    BlockLen = 2
    HttpFaults = FALSE
    AllowedDefault = TRUE
    Backends = {"ok", "noqueue"}
    UpdateAll = UpdateAll
    NoUrl = NoUrl
    NoNode = NoNode
    None = None
INVARIANT OneRecordPerProduct
INVARIANT BlocksAreImage
INVARIANT NeverBothWait
INVARIANT OfferFits
INVARIANT FilledBeforeOffered
INVARIANT DownloadIsOffer
PROPERTY ImplementsService
PROPERTY TransferEnds
