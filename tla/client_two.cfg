SPECIFICATION Spec
CONSTANTS
    Peer = {p1, p2}
    Handle = {r1, r2}
    Command = {c1}
    Shared = Shared
    NoPeer = NoPeer
    NoHandle = NoHandle
    MaxRetries = 1
    MaxInvokes = 1
INVARIANT CalledWhenConnected
