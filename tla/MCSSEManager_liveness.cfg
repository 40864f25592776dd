SPECIFICATION FairSpec
CONSTANTS
    Endpoints = {e1}
    Configs = {c1}
    Conns = {o1}
    Listeners = {g1, g2}
    NoConn = NoConn
    NoListener = NoListener
    Stimuli = {"shutdown"}
    BootPasses = 1
    MaxCalls = 0
PROPERTIES Reconnects OfflineIsResolved
