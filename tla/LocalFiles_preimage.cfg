SPECIFICATION Spec
CONSTANTS
    Procs = {p1, p2}
    Running = {u}
    Profiles = {a, b}
    None = None
    Partial = Partial
    MaxFaults = 3
    Installers = {i1, i2}
    v1 = v1
    v2 = v2
    Versions = {v1, v2}
    CommandLines <- MCCommandLines
    Absent = Absent
    MaxForeign = 1
    Callers = {c1, c2}
    MaxCalls = 1
    MaxAuditFaults = 2
    Windows = {w1, w2}
    MaxGenerations = 2
    MaxKeyFaults = 2
    NoKey = NoKey
    Theirs = Theirs
INVARIANTS PreimageIsWhole
CHECK_DEADLOCK FALSE
