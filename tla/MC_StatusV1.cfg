CONSTANTS
    ApiVersion = "v1"
    MaxGeneration = 3

SPECIFICATION FairSpec

INVARIANT ProcessedGenerationWasApplied
PROPERTY ReportsLiveGenerationInfinitelyOften
