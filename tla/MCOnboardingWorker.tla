------------------------- MODULE MCOnboardingWorker -------------------------
(***************************************************************************)
(* The pump in one model of three instances: two workers and one run, for  *)
(* ownership, fencing and progress; one worker and two runs, for the       *)
(* progress of each; two workers and one run whose steps may outlast their *)
(* lease.  A behaviour is one of the three; the others stay where they     *)
(* start, and a pump without a run enables none of its fair steps.         *)
(*                                                                         *)
(* TTL 3 and an interval of 1 are the smallest timings that LeaseTimings   *)
(* accepts; with MaxStep 1 no step outlives its lease (an interval and     *)
(* three steps fit), with SlowStep 2 one does.  There a worker whose lease *)
(* ran out is overtaken again and again: SlowClaims bounds the tokens.     *)
(***************************************************************************)
EXTENDS OnboardingWorker, TLC

CONSTANTS w1, w2, r1, r2, PairBackoff, PairClaims, SlowStep, SlowClaims

VARIABLES
    part, please, pqueue, plife, pwalk, plapsed, slease, squeue, slife, swalk, slapsed

here == <<vars, lapsed>>
pair == <<please, pqueue, plife, pwalk, plapsed>>
slow == <<slease, squeue, slife, swalk, slapsed>>

PairRuns == {r1, r2}
PairWorkers == {w1}
P == INSTANCE OnboardingWorker WITH
        Workers <- PairWorkers, Runs <- PairRuns, Backoff <- PairBackoff, MaxClaims <- PairClaims,
        lease <- please, queue <- pqueue, life <- plife, walk <- pwalk,
        lapsed <- plapsed
S == INSTANCE OnboardingWorker WITH
        MaxStep <- SlowStep, MaxClaims <- SlowClaims, lease <- slease, queue <- squeue,
        life <- slife, walk <- swalk, lapsed <- slapsed

MCInit ==
    /\ part \in {"workers", "pair", "slow"}
    /\ Init /\ P!Init /\ S!Init

MCNext ==
    /\ UNCHANGED part
    /\ \/ part = "workers" /\ Next /\ Watch /\ UNCHANGED <<pair, slow>>
       \/ part = "pair" /\ P!Next /\ P!Watch /\ UNCHANGED <<here, slow>>
       \/ part = "slow" /\ S!Next /\ S!Watch /\ UNCHANGED <<here, pair>>
          /\ \A r \in Runs : slease'[r].token <= SlowClaims + 1

MCSpec ==
    /\ MCInit /\ [][MCNext]_<<part, here, pair, slow>>
    /\ Fairness /\ P!Fairness

-----------------------------------------------------------------------------
\* The queue serves: an unfinished run keeps its row whatever a late settlement saw,
\* a finished run leaves it, and a run that is due is walked, however often the other
\* one is deferred or crashes.  Where steps outlast leases, a walk within its deadline
\* is still the only one and the owner, and only an outlived run may lose its row.
QueueIsServed ==
    /\ [](TypeOK /\ UnfinishedRunStaysQueued) /\ FinishedRunLeavesQueue /\ P!DueRunIsWalked
    /\ [](S!OneLiveWalk /\ S!OwnerActs /\ S!UnfinishedRunStaysQueued)
=============================================================================
