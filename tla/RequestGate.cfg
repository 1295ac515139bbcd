\* Two requests under way, with and without the key, room for two of three clients; rates and
\* settings change at any moment.
SPECIFICATION GateSpec
CONSTANTS
    Unit = 2
    h1 = h1
    h2 = h2
    key = key
    UNKNOWN_CLIENT = UNKNOWN_CLIENT
    NoBucket = NoBucket
    NoHost = NoHost
    NoKey = NoKey
    Keys <- KeysValue
    Secrets = {key}
    Settings <- SettingsValue
    Request <- RequestValue
    MaxClients = 2
    Rates <- RatesValue
    MaxTime = 2
    NoCall = NoCall
    Calls = {c1, c2}
SYMMETRY Same
INVARIANTS
    TypeOK
    TableIsMostRecent
    GrantBound
    TableOfVouched
PROPERTIES
    RefusedOnlyWhenSpent
