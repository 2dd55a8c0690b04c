SPECIFICATION MCSpec
CONSTANTS
 w1 = w1
 w2 = w2
 r1 = r1
 r2 = r2
 Workers = {w1, w2}
 Runs = {r1}
 NoWorker = NoWorker
 TTL = 3
 RenewInterval = 1
 Horizon = 1
 Backoff = 2
 MaxStep = 1
 MaxClaims = 4
 PairBackoff = 1
 PairClaims = 2
 SlowStep = 2
 SlowClaims = 2
INVARIANTS
 OneLiveWalk
 OwnerActs
PROPERTIES
 ImplementsFencedLease
 QueueIsServed
