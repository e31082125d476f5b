CONSTANTS
    MaxNumberOfNodes = 145
    FreeAPISlots = 2
    NodeCountChoices <- MC_NodeCountChoices
    RedundancyChoices <- MC_RedundancyChoices
    SqlChoices <- MC_SqlWithZero
    CfgValues <- MC_CfgValues
    InitialSpec <- MC_InitialSpec
    CustomSecret = FALSE
    MaxGeneration = 2
    MaxFailures = 0
    NoConfig = NoConfig
    NdbNodeTypeAPIStartNodeId = 129
    MaxCrashes = 1
    MaxEvictions = 0

SPECIFICATION Spec

PROPERTY OperatorStopsOnlyWithPeersRunning
