SPECIFICATION FairSpec
CONSTANTS
    Ids = {a, b}
    NoId = NoId
    Sockets = {s1, s2, s3}
    NoSocket = NoSocket
    NoSample = NoSample
    MaxTime = 2
    HistoryLimit = 2
INVARIANTS ConnectedMeansOpen ChartOfOneStream
PROPERTIES KeepsFeed ConnectingEnds
