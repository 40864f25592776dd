SPECIFICATION FairSpec
CONSTANTS
    SystemTopics = {e1}
    TunnelTopics = {}
    Clients = {c1, c2}
    QueueSize = 1
    SendSize = 1
CHECK_DEADLOCK FALSE
INVARIANTS TypeOK MembersOpen NotForgotten
PROPERTIES MonitorsFollow
