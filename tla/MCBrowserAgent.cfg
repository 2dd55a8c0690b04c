SPECIFICATION MCSpec
CONSTANTS
 Controls = {"a", "b", "r", "l", "t"}
 Posts = {"p", "q"}
 Kind <- MCKind
 Pages <- MCPages
 MaxActions = 2
 MaxModelCalls = 3
 MaxNoProgress = 3
 MaxDenials = 2
 MaxDecisionFailures = 2
 MaxActionFailures = 2
 MaxMoves = 1
 Screens <- MCScreens
 Checkpoints = 2
 Creation = {2}
 Unprovable = {2}
 MaxSteps = 2
 MaxRepeated = 1
 MaxModelFails = 2
 MaxActFails = 2
 MaxHandoffs = 1
 MaxDrives = 2
 MaxShifts = 1
 Sheets <- MCSheets
 EntryPaths = {1}
 Policies = {"none", "email_first", "dom_detected"}
 Handoff = TRUE
 MaxPauses = 2
 MaxSignups = 3
 Markup <- MCMarkup
 Views <- MCViews
 Signals = {"create"}
 FinalWords = {"delete"}
 SecretWords = {"secret"}
 Refs <- MCRefs
 Approved = {"r1", "r2", "r3"}
 GotoUrls <- MCGotoUrls
 MaxCandidates = 7
 MaxRefs = 2
 MaxValues = 4
 MaxPerKind = 3
INVARIANTS
 LoopSafety
 TraceSafety
 SignupSafety
PROPERTIES
 AgentReturns
CHECK_DEADLOCK FALSE
