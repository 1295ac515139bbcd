\* Authors edit the map and the contracts, releases go through the gate, a service publishes
\* under one release and resolves under another.
SPECIFICATION Spec
CONSTANTS
    Root = ss
    Plus = plus
    a = a
    b = b
    x = x
    y = y
    empty = empty
    reading = reading
    state = state
    Literals <- MCLiterals
    Placeholders <- MCPlaceholders
    OtherValues = {}
    BadLevels <- MCBadLevels
    Authored <- MCAuthored
    Overrides <- MCOverrides
    Registered <- MCRegistered
    Declarations <- Rebound
    NoTopic = NoTopic
    Services = {s1}
    MaxMessages = 1
    NoMap = NoMap
    Unusable = Unusable
INVARIANTS
    TypeOK
    ReleasedUnambiguous
    OverlapIsReal
    RoutedRight
    BoundTopicsStable
