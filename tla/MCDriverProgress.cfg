SPECIFICATION HalvesSpec
CONSTANTS
 w1 = w1
 w2 = w2
 w3 = w3
 Workers = {w1}
 NoWorker = NoWorker
 Regimes <- EitherHalf
 CaptchaBudget = 1
 VerificationBudget = 1
 ValidationBudget = 2
 Generations = 2
INVARIANTS
 MintSafety
PROPERTIES
 DriverIsLive
CHECK_DEADLOCK FALSE
