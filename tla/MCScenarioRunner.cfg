SPECIFICATION FairSpec
CONSTANTS
    Scenarios <- SmallScenarios
    PipeCapacity = 1
    MaxLines = 3
    None = None
INVARIANTS TypeOK WholeOutputJudged
PROPERTY RunEnds
