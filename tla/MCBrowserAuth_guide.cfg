SPECIFICATION Spec
CONSTANTS
    Tabs = {t1}
    NoTab = NoTab
    Tokens = {k1, k2}
    NoToken = NoToken
    MaxHandlers = 1
    MaxCalls = 1
PROPERTIES GuideKeepsSession
