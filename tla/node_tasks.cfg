SPECIFICATION FairSpec
CONSTANTS
    Main = main
    Matter = matter
    Task = {main, matter, a1}
    NoTask = NoTask
    Early = {}
    Holding = {"create", "resume", "destroy", "update"}
    InitResults = {"ok", "static"}
    Handle = {h1, h2, h3, h4}
    ListHead = ListHead
    Nil = Nil
    Static <- RootNode
    MaxEndpoints = 2
    IdBound = 3
    NotFound = NotFound
INVARIANT NoDangling
INVARIANT InitOnce
PROPERTY ImplementsTable
PROPERTY StartReturns
PROPERTY CallsReturn
