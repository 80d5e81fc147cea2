SPECIFICATION FairSpec
CONSTANTS
    Fields <- MCFields
    Default <- MCDefault
    Flag <- MCFlag
    Stoi <- MCStoi
    IntSpan = 16
    Arguments <- MCArguments
    FileSystems <- MCFileSystems
    FdLimit = 11
    PortSpan = 7
    OtherPorts = {1, 3, 5}
INVARIANTS
    TypeOK
    LastSettingWins
    LoopsOutliveThreads
    ReturnsClean
    LoopsShareThePort
PROPERTIES
    ShutdownCompletes
CHECK_DEADLOCK FALSE
