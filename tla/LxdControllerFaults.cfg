CONSTANTS
    k1 = k1
    k2 = k2
    k3 = k3
    r1 = r1
    NoConfig = NoConfig
    Configs <- TwoConfigs
    Resources <- OneResource
    Refs <- RefsOfK1
    BootOptions <- AllOptions
    MaxBusyRetries = 1
    ReadMayFail = TRUE
    WriteMayFail = TRUE
SPECIFICATION Spec
INVARIANTS
    LastGoodStarted
    ReportsTheCore
    NoResurrection
PROPERTIES
    ProtectedResources
