SPECIFICATION FairSpec
CONSTANTS
    Tabs = {t1}
    NoTab = NoTab
    Tokens = {k1, k2}
    NoToken = NoToken
    MaxHandlers = 1
    MaxCalls = 1
INVARIANTS TypeOK KickedStaysOut
PROPERTIES RefusedTabLeaves SpinnerEnds PageFitsUser
