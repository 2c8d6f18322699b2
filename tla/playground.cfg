SPECIFICATION Spec
CONSTANTS
    MaxKey = 4
INVARIANTS OwnText UnfinishedHasRequest
PROPERTIES GenerationEnds
