----------------------------- MODULE FencedLease ----------------------------
(* What exclusive, fenced ownership of a run promises (the POST conditions of *)
(* ops/onboarding/lease.py, LeaseStore): at any instant one worker at most    *)
(* holds a run, ownership passes to another worker only under a larger token, *)
(* and whatever happens under a token is the doing of the worker it was       *)
(* granted to.                                                                *)
EXTENDS Integers

CONSTANTS Runs, Workers, NoWorker

VARIABLES
    grantee,    \* grantee[r]: the worker the current token was granted to
    epoch,      \* epoch[r]: the fencing token
    live        \* live[r]: the grant has neither lapsed nor been released

vars == <<grantee, epoch, live>>

Init ==
    /\ grantee = [r \in Runs |-> NoWorker]
    /\ epoch = [r \in Runs |-> 0]
    /\ live = [r \in Runs |-> FALSE]

\* A new owner, possible only while nobody owns the run.
Grant(r, w) ==
    /\ ~live[r]
    /\ grantee' = [grantee EXCEPT ![r] = w]
    /\ epoch' = [epoch EXCEPT ![r] = @ + 1]
    /\ live' = [live EXCEPT ![r] = TRUE]

\* Released, or still assigned with its deadline past.
Forgo(r) ==
    /\ grantee' \in [Runs -> Workers \cup {NoWorker}]
    /\ \A s \in Runs \ {r} : grantee'[s] = grantee[s]
    /\ grantee'[r] \in {grantee[r], NoWorker}
    /\ live' = [live EXCEPT ![r] = FALSE]
    /\ UNCHANGED epoch

\* A renewal after the deadline: the token decides, not the clock.
Revive(r) ==
    /\ grantee[r] # NoWorker
    /\ live' = [live EXCEPT ![r] = TRUE]
    /\ UNCHANGED <<grantee, epoch>>

\* Time passes for every run at once.
Lapse ==
    /\ live' \in [Runs -> BOOLEAN]
    /\ \A r \in Runs : live'[r] => live[r]
    /\ UNCHANGED <<grantee, epoch>>

Next ==
    \/ \E r \in Runs : (\E w \in Workers : Grant(r, w)) \/ Forgo(r) \/ Revive(r)
    \/ Lapse

Spec == Init /\ [][Next]_vars

=============================================================================
