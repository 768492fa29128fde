SPECIFICATION FairSpec
CONSTANTS
    Places <- TwoPlaces
    Flags <- BothFlags
    CliEnv <- Shell
    ServiceEnv <- Systemd
    SystemDirs <- SiteDirs
    SystemDefaults <- System
    UserFiles <- Users
    EnforcedFiles <- Enforced
    Split <- DottedKeys
    Declared <- Secrets
    Loadable <- Backend
    Registered <- Names
    Machines <- ThreeMachines
    MaxEvents = 3
INVARIANTS
    TypeOK
    EnforcedStands
    FlagsStand
    DoctorForetells
PROPERTIES
    RepairedComesUp
CHECK_DEADLOCK FALSE
