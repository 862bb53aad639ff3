SPECIFICATION Spec
CONSTANTS Null = Null
 MaxTabs = 3
 MaxCalls = 3
 MaxRequests = 4
 MaxFaults = 0
 Name = {"h", "p"}
 LocalDirs <- MCLocalDirs
 RemoteDirs <- MCRemoteDirs
 Home <- MCHome
 Site <- MCSite
INVARIANTS PathsAreOwn RowsAreOfPath SyncedAtRest NoOrphanLoading
CHECK_DEADLOCK FALSE
