SPECIFICATION Spec
CONSTANTS
    Endpoints = {e1}
    Configs = {c1}
    Conns = {o1, o2}
    Listeners = {g1, g2}
    NoConn = NoConn
    NoListener = NoListener
    Stimuli = {"disconnect"}
    BootPasses = 2
    MaxCalls = 1
PROPERTIES DaemonAddsNoEntry
