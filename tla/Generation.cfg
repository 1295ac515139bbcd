\* Edits, runs, kills and failing writers over two contracts, a topic map and one format.
SPECIFICATION Spec
CONSTANTS
    reading = reading
    state = state
    readingPy = readingPy
    statePy = statePy
    TopicMap = topicMapPy
    Package = initPy
    Ids = {reading, state}
    Modules <- MCModules
    ModuleOf <- MCModuleOf
    Formats = {proto}
    MaxRevision = 2
    MaxTopics = 1
    Unready <- MCUnready
    Failing <- MCFailing
INVARIANTS
    TypeOK
    CompletedIsCurrent
    OutputsOfOneTree
