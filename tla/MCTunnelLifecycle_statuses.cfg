SPECIFICATION FairSpec
CONSTANTS
    Instances = {i1}
    NoInst = NoInst
    RowIds = {r1}
    NoRow = NoRow
    Workers = {w1, w2}
    Calls = {c1}
    QueueSize = 1
    Recounting = FALSE
    Stimuli = {"start", "delete", "report", "end", "offline"}
    Ops = {"restart", "refresh", "url", "deleteInst"}
PROPERTIES StatusFollows RefreshHeals
