CONSTANTS
    MaxNumberOfNodes = 145
    FreeAPISlots = 2
    NodeCountChoices <- MC_NodeCountChoices
    RedundancyChoices <- MC_RedundancyChoices
    SqlChoices <- MC_SqlNoZero
    CfgValues <- MC_CfgValues
    InitialSpec <- MC_InitialSpec
    CustomSecret = TRUE
    MaxGeneration = 2
    MaxFailures = 0
    NoConfig = NoConfig
    NdbNodeTypeAPIStartNodeId = 129
    MaxCrashes = 1
    MaxEvictions = 1

SPECIFICATION FairSpec

PROPERTY EventuallyInSync
