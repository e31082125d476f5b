CONSTANTS
    ApiVersion = "v1alpha1"
    MaxGeneration = 3

SPECIFICATION Spec

INVARIANT ProcessedGenerationWasApplied
