SPECIFICATION MCSpec
CONSTANTS
 Callers = {c1, c2}
 Batch <- MCBatch
 Hosts = {"h1", "h2"}
 Catalogs <- MCCatalogs
 Site <- MCSite
 MaxPosts = 2
 MaxRestarts = 1
 Threads = {t1, t2}
 MaxRevision = 3
 Openers = {p1, p2}
 Runs = {r1, r2}
 Columns = {k1, k2}
 Altered = {k2}
 MaxDeaths = 1
 Workers = {w1, w2}
 Sessions = {s1}
 MaxHistory = 5
 MaxPauses = 1
 MaxControls = 1
 MaxFaults = 1
INVARIANTS
 IntakeSafety
 PlanningSafety
 SchemaSafety
 RecoverySafety
CHECK_DEADLOCK FALSE
