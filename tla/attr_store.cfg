SPECIFICATION FairSpec
CONSTANTS
    level = level
    label = label
    Addr = {a1, a2}
    Path = {level, label}
    Strings = {label}
    Nonvolatile = {level}
    Deferrable = {level}
    Bounds <- MCBounds
    Default <- MCDefault
    MaxSize <- MCMaxSize
    Inputs <- MCInputs
    Legacy <- MCLegacy
    Garbage <- MCGarbage
    MaxDepth = 2
    Null = Null
    NoVal = NoVal
INVARIANT AttrTypeOK
INVARIANT WithinBounds
INVARIANT StoredComesBack
INVARIANT DriverMatches
PROPERTY EventuallyStored
