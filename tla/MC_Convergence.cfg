CONSTANTS
    MaxNumberOfNodes = 145
    FreeAPISlots = 2
    NodeCountChoices <- MC_NodeCountChoices
    RedundancyChoices <- MC_RedundancyChoices
    SqlChoices <- MC_SqlWithZero
    CfgValues <- MC_CfgValues
    InitialSpec <- MC_InitialSpec
    CustomSecret = TRUE
    MaxGeneration = 2
    MaxFailures = 1
    NoConfig = NoConfig
    NdbNodeTypeAPIStartNodeId = 129
    MaxCrashes = 0
    MaxEvictions = 0

SPECIFICATION FairSpec

PROPERTY EventuallyInSync
