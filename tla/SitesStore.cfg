SPECIFICATION Spec
CONSTANTS Null = 0
 Id = {1, 2, 3}
 Logon = {"normal", "key", "ask", "cloud"}
 Saved <- MCSaved
 MaxRequests = 6
 MaxFaults = 1
INVARIANTS SecretsAreOwn DataIsOwn 
CHECK_DEADLOCK FALSE
