SPECIFICATION MCSpec
SYMMETRY Symmetry
CONSTANTS
 c1 = c1
 c2 = c2
 home = home
 about = about
 Callers = {c1, c2}
 Urls = {home, about}
 Home = home
 Baseline = {home}
 Covering = {about}
 Links <- MCLinks
 Policies = {{home, about}, {home}}
 TTL = 1
 MaxClock = 1
 MaxFaults = 1
 MaxDeploys = 1
 Order <- MCOrder
 Selections = {"none", "groq"}
 TotalSeconds = 2
 ProviderSeconds = 2
 MaxProviders = 2
 Cooldown = 2
 MaxSteps = 2
 DecisionClock = 3
 MaxTotal = 3
 Walks = {w1, w2}
 Runs = {r1}
 Webs <- MCWebs
 Invented <- MCInvented
 RouteKind <- MCRoutes
 Shared <- MCShared
 Adapters <- MCAdapters
 Attempts = 2
 MaxBuilds = 2
 Workers = {w1, w2}
 Sessions = {s1, s2}
 MaxGeneration = 1
 Addresses = {a, b}
 MaxSession = 1
 MaxPromotions = 2
 Generations = 2
 MaxProbes = 3
INVARIANTS
 ResearchSafety
 DecisionSafety
 BindingSafety
 ProofSafety
PROPERTIES
 MemoryOutlivesCrash
CHECK_DEADLOCK FALSE
