SPECIFICATION FairSpec

CONSTANTS
    anna = anna
    ben = ben
    Operators <- TwoOperators
    MaxLoops = 2
    Posting = TRUE
    SameSecond = FALSE
    Crashes = TRUE
    MaxSecond = 2
    MaxTrainings = 2

INVARIANTS
    OneJobAtATime
    RegistryNamesSavedModel
    OneTrainingLoop

PROPERTIES
    StopsEnd
