SPECIFICATION MonitorSpec
CONSTANTS
    Words <- MCWords
    Texts = {}
    Batches = {}
    Loads <- MCLoads
    MaxUpdates = 0
    MaxLoads = 9
    Callers = {"first", "second"}
    Requests <- MCRequests
    MainFiles <- MCMainFiles
    CriticalFiles <- MCCriticalFiles
    StopFiles <- MCStopFiles
    RemoteMain <- MCRemoteMain
    RemoteStop <- MCRemoteStop
    RemoteWords <- MCRemoteWords
    Tags <- MCTags
    MaxVersion = 2
    MaxFailures = 2
INVARIANTS
    MonitorTypeOK
    OneDictionary
    MonitorsTrail
PROPERTIES
    ReloadIsWhole
    InitialReturns
    EveryChangeSettles
CHECK_DEADLOCK FALSE
