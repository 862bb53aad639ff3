SPECIFICATION Spec
CONSTANTS Tasks = {t1, t2}
 Conns = {c1, c2, c3, c4}
 Sessions = {s1, s2, s3, s4}
 None = None
 MaxOps = 3
 MaxFaults = 2
PROPERTIES RepliesBelong StreamsRunOn OperationsEnd
CHECK_DEADLOCK FALSE
