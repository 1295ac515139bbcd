\* Three layers, two loads by a process or its child, one edit at any time.
SPECIFICATION Spec
CONSTANTS
    A = A
    B = B
    AppEnv = AppEnv
    x = x
    y = y
    dev = dev
    prod = prod
    root = root
    local = local
    Bare = Bare
    Malformed = Malformed
    Absent = Absent
    Names <- NamesValue
    Atoms = {x, y, dev, prod}
    DefaultName <- DefaultNameValue
    PackageNames <- PackageNamesValue
    RootFiles <- RootFilesValue
    Environments <- EnvironmentsValue
    Contents <- ContentsValue
    FirstFiles <- FirstFilesValue
    MaxLines = 2
    MaxLoads = 2
    MaxEdits = 1
INVARIANTS
    LoadAllOrNothing
PROPERTIES
    LoadMeansLayers
    ReloadKeeps
