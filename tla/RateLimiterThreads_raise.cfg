\* A client is evicted between get and move_to_end.
SPECIFICATION Spec
CONSTANTS
    Unit = 1
    Threads = {t1, t2}
    Keys = {k1, k2}
    Objects = {o1, o2, o3, o4, o5}
    MaxClients = 1
    MaxTime = 0
    NoKey = NoKey
    NoObject = NoObject
    NoBucket = NoBucket
    NoView = NoView
    Rate <- OnePerSecond
INVARIANTS
    ChecksAnswer
