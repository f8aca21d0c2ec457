CONSTANTS
    k1 = k1
    k2 = k2
    k3 = k3
    r1 = r1
    NoConfig = NoConfig
    Configs <- ThreeConfigs
    Resources <- NoResource
    Refs <- NoRefs
    BootOptions <- AllOptions
    MaxBusyRetries = 1
    ReadMayFail = FALSE
    WriteMayFail = FALSE
SPECIFICATION FairSpec
INVARIANTS
    StopSticks
    InterruptedReported
PROPERTIES
    TerminationEnds
    RunComesBack
    HookContract
