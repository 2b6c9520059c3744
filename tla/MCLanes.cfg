SPECIFICATION Spec
CONSTANTS
    Tasks = {1, 2, 3, 4, 5, 6}
    Keys = {"a", "b", "c"}
    Key <- MCKey
    MaxConcurrent = 2
INVARIANTS
    TypeOK
    LaneExclusive
    NoLaneForgotten
PROPERTY
    EveryTaskStarts
