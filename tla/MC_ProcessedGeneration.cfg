CONSTANTS
    MaxNumberOfNodes = 145
    FreeAPISlots = 2
    NodeCountChoices <- MC_NodeCountChoices
    RedundancyChoices <- MC_RedundancyChoices
    SqlChoices <- MC_SqlNoZero
    CfgValues <- MC_CfgValues
    InitialSpec <- MC_InitialSpec
    CustomSecret = FALSE
    MaxGeneration = 3
    MaxFailures = 1
    NoConfig = NoConfig
    NdbNodeTypeAPIStartNodeId = 129
    MaxCrashes = 0
    MaxEvictions = 0

SPECIFICATION Spec

INVARIANT ProcessedGenerationWasApplied
