SPECIFICATION Spec
CONSTANTS
    Endpoints = {e1}
    Configs = {c1}
    Conns = {o1, o2}
    Listeners = {g1, g2}
    NoConn = NoConn
    NoListener = NoListener
    Stimuli = {"reconnect", "disconnect", "create", "delete", "updateConfig", "close"}
    BootPasses = 0
    MaxCalls = 1
CHECK_DEADLOCK FALSE
SYMMETRY Symmetry
VIEW View
INVARIANTS TypeOK LiveIsCurrent ConnectedHasListener EntriesNotManual
