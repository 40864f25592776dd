CONSTANTS
    x = x
    y = y
    Ids = {x, y}
    NoId = NoId
    NoTimer = NoTimer
    NoData = NoData
    MaxPending = 2
    MaxFiles = 2
    Services <- MCServices
    NoService = NoService
    MaxRefresh = 2
    Texts = {none, a, b}
    NoText = none
    Views = {first, other}
    FirstView = first
    MaxFetches = 2
    MaxDrags = 2
    MaxLists = 2
    MaxRounds = 2
    Tests = 2
    MaxSequences = 2
    MaxPings = 2
    Crossing = {"services", "endpoints"}
    MaxBlank = 1
    MaxRules = 2
    MaxAsked = 2
    MaxSent = 2
SPECIFICATION Spec
INVARIANTS TypeOK BusyMeansPending LiveLinesGo ChartsFollow OneSubmission RequestsComplete ThemesAgree
PROPERTIES FilterIsNewestInput LastDragStays KeyResetReconnects SubmitsWhatIsShown
