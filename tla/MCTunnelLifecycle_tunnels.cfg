SPECIFICATION Spec
CONSTANTS
    Instances = {i1}
    NoInst = NoInst
    RowIds = {r1, r2}
    NoRow = NoRow
    Workers = {w1, w2}
    Calls = {c1}
    QueueSize = 1
    Recounting = TRUE
    Stimuli = {"start", "end"}
    Ops = {"create", "stop", "batch", "url", "deleteId", "deleteInst", "refresh", "regroup"}
SYMMETRY Symmetry
INVARIANTS CountCovered
