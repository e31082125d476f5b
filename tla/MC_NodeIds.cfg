CONSTANTS
    MaxNumberOfNodes = 145
    FreeAPISlots = 2
    NodeCountChoices <- MC_NodeCountChoices
    RedundancyChoices <- MC_RedundancyChoices
    SqlChoices <- MC_SqlChoices
    CfgValues <- MC_CfgValues
    NdbNodeTypeAPIStartNodeId = 129

SPECIFICATION Spec

INVARIANT NodeIdsMatchReference
