SPECIFICATION OpsSpec
CONSTANTS Conn = {1, 2}
 Cloud = {2}
 Local = 0
 Dirs <- MCDirs
 Links <- MCLinks
 Word <- MCWord
 Concurrency = 2
 Policy = {"ask", "overwrite", "rename", "resume"}
 Saved <- MCSaved
 Comparison <- MCComparison
 Content <- MCContent
 MaxFaults = 1
 MaxOps = 2
 MaxSwitches = 1
INVARIANTS FilesFollowFolders FreshTargets DeletionTold
PROPERTIES FoldersFinish
CHECK_DEADLOCK FALSE
