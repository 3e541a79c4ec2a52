SPECIFICATION MonitorSpec
CONSTANTS
    Words <- MCWords
    Texts = {}
    Batches = {}
    Loads <- MCLoads
    MaxUpdates = 0
    MaxLoads = 9
    Callers = {"first", "second"}
    Requests <- MCRequests
    MainFiles <- MCMainFiles
    CriticalFiles <- MCCriticalFiles
    StopFiles <- MCStopFiles
    RemoteMain <- MCRemoteMain
    RemoteStop <- MCRemoteStop
    RemoteWords <- MCRemoteWords
    Tags <- MCTags
    MaxVersion = 2
    MaxFailures = 1
PROPERTIES
    EveryChangeArrives
CHECK_DEADLOCK FALSE
