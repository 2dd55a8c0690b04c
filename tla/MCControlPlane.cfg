SPECIFICATION MCSpec
CONSTANTS
 Threads = {t1, t2}
 MaxAttempt = 2
 MaxRefuseRev = 1
 Regimes <- MCRegimes
 MaxCalls = 4
 MaxOperation = 2
 MaxPayload = 2
 Runs = {"a", "b"}
 MaxPairs = 3
 LoginRegimes <- MCLoginRegimes
INVARIANTS
 RuntimeSafety
 ManagedRunSafety
 SecretsSafety
PROPERTIES
 LateStepsAreHarmless
 BrowsersAreReleased
CHECK_DEADLOCK FALSE
