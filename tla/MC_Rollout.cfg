CONSTANTS
    MaxNumberOfNodes = 145
    FreeAPISlots = 2
    NodeCountChoices <- MC_NodeCountChoicesR3
    RedundancyChoices <- MC_RedundancyChoicesR3
    SqlChoices <- MC_SqlNoZero
    CfgValues <- MC_CfgValues
    InitialSpec <- MC_InitialSpecR3
    CustomSecret = FALSE
    MaxGeneration = 3
    MaxFailures = 1
    NoConfig = NoConfig
    NdbNodeTypeAPIStartNodeId = 129
    MaxCrashes = 0
    MaxEvictions = 0

SPECIFICATION Spec

INVARIANT TypeOK
INVARIANT OneNodePerNodeGroupDown
INVARIANT OneMgmdDown
PROPERTY DataStopAfterMgmdRollout
INVARIANT SqlPodsWithinApiSections
