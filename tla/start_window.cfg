SPECIFICATION Spec
CONSTANTS
    Main = main
    Matter = matter
    Task = {main, matter, a1}
    NoTask = NoTask
    Early = {a1}
    Holding = {"create", "resume", "destroy", "update"}
    InitResults = {"ok"}
    Handle = {h1, h2, h3, h4}
    ListHead = ListHead
    Nil = Nil
    Static <- RootNode
    MaxEndpoints = 3
    IdBound = 3
    NotFound = NotFound
INVARIANT UniqueInList
