SPECIFICATION FairSpec
CONSTANTS
    Instances = {i1, i2}
    Masters = {{i1}, {i2}}
    Workers = {w1, w2}
    Boxes = {b1, b2, b3}
    NoBox = NoBox
    NoPoint = NoPoint
    BatchSize = 2
    Capacity = 2
    MaxPoints = 4
CHECK_DEADLOCK FALSE
INVARIANTS PointOnce BatchesExact
PROPERTIES ClosedIsQuiet CloseTerminates
