\* Two threads log while the service reconfigures and stops logging.
SPECIFICATION FairSpec
CONSTANTS
    Threads = {t1, t2}
    MaxRecords = 2
    MaxConfigs = 2
    MaxLines = 1
    Sentinel = Sentinel
    RawLine = RawLine
INVARIANTS
    ThreadOrder
PROPERTIES
    DrainedWhenStopped
    QuietAfterStop
    StopReturns
