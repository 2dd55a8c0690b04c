--------------------------- MODULE MCControlPlane ---------------------------
(***************************************************************************)
(* The control plane's run-scoped modules in one model: a behaviour is one *)
(* of a browser run, of a managed run, of a run's secret grants, or of the *)
(* login vault of an app; the others stay where they start, and a          *)
(* component that stays there enables none of its fair steps.              *)
(***************************************************************************)
EXTENDS CanonicalRuntime, SecretStore, TLC

VARIABLE part

MCLoginRegimes == [race: BOOLEAN, human: BOOLEAN]

\* Sweeps with and without a crash, a replayed create on its own, and a process
\* that has just started.
MCRegimes == {[replay |-> FALSE, crash |-> FALSE, sweeps |-> TRUE, boot |-> FALSE],
              [replay |-> FALSE, crash |-> TRUE, sweeps |-> TRUE, boot |-> FALSE],
              [replay |-> TRUE, crash |-> FALSE, sweeps |-> FALSE, boot |-> FALSE],
              [replay |-> FALSE, crash |-> TRUE, sweeps |-> FALSE, boot |-> TRUE]}

\* A component that stays at rest has one initial state, and no call waiting.
Resting ==
    /\ row = [status |-> "route_selected", phase |-> "browser_pending", att |-> 0,
              sess |-> 0, key |-> NoKey, rev |-> 1, plan |-> 1]
    /\ capture = "absent" /\ submit = "absent" /\ keys = {} /\ live = {} /\ mints = 0
    /\ recorded = FALSE /\ lost = FALSE /\ lock = "free" /\ sweep = NoSweep
    /\ thread = [t \in Threads |-> Idle]
    /\ mode = CHOOSE m \in Regimes : TRUE

MCInit ==
    /\ part \in {"run", "managed", "grants", "login"}
    /\ IF part = "run" THEN RInit ELSE Resting
    /\ MInit /\ (part # "managed" => mrow.route = "managed_auth")
    /\ GInit
    /\ LInit /\ (part # "login" => ~regime.race /\ ~regime.human /\ pairs = 0)

MCNext ==
    /\ UNCHANGED part
    /\ \/ part = "run" /\ RNext /\ UNCHANGED <<managedVars, grantVars, loginVars>>
       \/ part = "managed" /\ MNext /\ UNCHANGED <<runtimeVars, grantVars, loginVars>>
       \/ part = "grants" /\ GNext /\ UNCHANGED <<runtimeVars, managedVars, loginVars>>
       \/ part = "login" /\ LNext /\ UNCHANGED <<runtimeVars, managedVars, grantVars>>

MCSpec == MCInit /\ [][MCNext]_<<part, runtimeVars, managedVars, grantVars, loginVars>> /\ RFairness

-----------------------------------------------------------------------------
\* A browser run's capture, retried after an unknown outcome, a crash or a sweep,
\* mints one key.
RuntimeSafety == part = "run" => RTypeOK /\ OneMint

\* No browser is left behind: a session no run is bound to is released in the end, and
\* a parked run is swept.
BrowsersAreReleased == StrayBrowserIsReleased /\ ParkedRunIsSwept

\* A run's secrets: a capture whose answer was lost leaves one vault row, a payload
\* nobody dispatched is discarded, the identity of a live run is not released, and a
\* pair is reusable only after a protected page accepted it.
SecretsSafety ==
    /\ part = "grants" => GrantsSafety
    /\ part = "login" => VaultSafety

\* What comes late changes only what is still its own: a thread projects the attempt it
\* was started for, a sweep does not pause over the owner's open window, a stopped run's
\* broker hands out nothing, and a release spares the pair that was promoted.
LateStepsAreHarmless ==
    /\ ProjectsOwnAttempt /\ OwnerWindowHolds
    /\ StoppedRunReleasesNothing /\ PromotedIsKept
=============================================================================
