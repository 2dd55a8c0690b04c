SPECIFICATION Spec
CONSTANTS
 w1 = w1
 w2 = w2
 w3 = w3
 Workers = {w1}
 NoWorker = NoWorker
 Regimes <- Race
 CaptchaBudget = 1
 VerificationBudget = 1
 ValidationBudget = 1
 Generations = 1
PROPERTIES
 TerminalIsFinal
CHECK_DEADLOCK FALSE
