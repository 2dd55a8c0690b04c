SPECIFICATION Spec
SYMMETRY Symmetry
CONSTANTS
 w1 = w1
 w2 = w2
 w3 = w3
 Workers = {w1, w2, w3}
 NoWorker = NoWorker
 Regimes <- WalkAndRivals
 CaptchaBudget = 1
 VerificationBudget = 1
 ValidationBudget = 1
 Generations = 2
INVARIANTS
 RivalsSafety
PROPERTIES
 WalkSafety
CHECK_DEADLOCK FALSE
