SPECIFICATION MCSpec
CONSTANTS
 None = None
 Nothing = Nothing
 Clients = {k1}
 Calls = {c1, c2}
 Lead = c1
 PairGen = 1
 MaxGen = 2
 MaxRev = 4
 Sessions = {s1, s2}
 Displays = {0}
 Capacity = 1
 Requests = {r1, r2}
 Idle = 0
 Regimes <- MCRegimes
 MaxAge = 1
INVARIANTS
 PoolSafety
 ViewSafety
PROPERTIES
 ClosingIsTimely
 TakeoverSafety
CHECK_DEADLOCK FALSE
