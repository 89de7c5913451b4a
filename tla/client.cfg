SPECIFICATION FairSpec
CONSTANTS
    Peer = {p1, p2}
    Handle = {r1}
    Command = {c1, c2}
    Shared = Shared
    NoPeer = NoPeer
    NoHandle = NoHandle
    MaxRetries = 1
    MaxInvokes = 1
INVARIANT CommandOwned
INVARIANT EndIsTold
INVARIANT RetriesBounded
PROPERTY CommandsSettle
