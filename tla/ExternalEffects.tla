-------------------------- MODULE ExternalEffects ---------------------------
(* The handlers that perform a provider-visible effect under the effect       *)
(* ledger, running concurrently over the same keys:                           *)
(*                                                                            *)
(*   signup_submit        ops/browser/signup.py        SignupPhaseHandler     *)
(*   create_dev_app       ops/onboarding/driver.py     drive_developer_app    *)
(*   generate_credential  ops/onboarding/credentials.py _stored_reference     *)
(*   send, reply          ops/gmail/worker.py          send_outreach, reply   *)
(*   start_session        ops/workflow/graph.py        _browser_start         *)
(*                                                                            *)
(* They share one shape: reserve the key; if the ledger says so, dispatch the *)
(* request to the provider; then close the row (completed, outcome_unknown or *)
(* failed) or leave it open.  They differ in what each outcome does to the    *)
(* row, and that is what the actions below keep apart.                        *)
(*                                                                            *)
(* A caller is a worker process or a request thread.  Two callers may work on *)
(* one key at once: a lease that expires mid-step lets a second worker in     *)
(* while the first is still running (see OnboardingWorker).  A caller may die  *)
(* between any two steps, and a request already on the wire outlives it.      *)
EXTENDS EffectLedger, Naturals

CONSTANTS
    Keys,           \* (provider, action, idempotency key) triples
    KindOf,         \* the handler each key belongs to
    Callers         \* worker processes and request threads

Kinds == {"signup_submit", "create_dev_app", "generate_credential",
          "send", "start_session"}

ASSUME KindAssumption == KindOf \in [Keys -> Kinds]

VARIABLES
    row,        \* the external_effects table
    pc,         \* where each caller is in its handler
    key,        \* the key a caller is working on
    answer,     \* what the provider answered the caller's own request
    step,       \* what the caller's last handler call reported to the driver
    wire,       \* requests dispatched and not yet decided by the provider
    effects     \* how many times the provider performed each key's effect

vars == <<row, pc, key, answer, step, wire, effects>>

Requests == [key : Keys, from : Callers]

LoopSteps == {"none", "advance", "pause", "captcha_paused", "raised"}

TypeOK ==
    /\ row \in [Keys -> Row]
    /\ pc \in [Callers -> {"idle", "reserved", "dispatched"}]
    /\ key \in [Callers -> Keys]
    /\ answer \in [Callers -> {"none", "took", "refused"}]
    /\ step \in [Callers -> LoopSteps]
    /\ wire \in SUBSET Requests
    /\ effects \in [Keys -> Nat]

Init ==
    /\ row = [k \in Keys |-> NoRow]
    /\ pc = [c \in Callers |-> "idle"]
    /\ key \in [Callers -> Keys]
    /\ answer = [c \in Callers |-> "none"]
    /\ step = [c \in Callers |-> "none"]
    /\ wire = {}
    /\ effects = [k \in Keys |-> 0]

-----------------------------------------------------------------------------
(* Entering a handler.  The reservation and its result are one transaction.   *)

Enter(c, k) ==
    /\ pc[c] = "idle"
    /\ key' = [key EXCEPT ![c] = k]
    /\ row' = [row EXCEPT ![k] = ReserveRow(@)]
    /\ answer' = [answer EXCEPT ![c] = "none"]
    /\ UNCHANGED <<wire, effects>>

\* disposition "execute": this caller may dispatch.
EnterExecute(c, k) ==
    /\ Enter(c, k)
    /\ PlanEffect(row[k]) = "execute"
    /\ pc' = [pc EXCEPT ![c] = "reserved"]
    /\ step' = [step EXCEPT ![c] = "none"]

\* disposition "skip": adopt the recorded receipt and move on.
EnterSkip(c, k) ==
    /\ Enter(c, k)
    /\ PlanEffect(row[k]) = "skip"
    /\ step' = [step EXCEPT ![c] = "advance"]
    /\ UNCHANGED pc

\* disposition "reconcile": an earlier attempt may have reached the provider.
\* The onboarding handlers pause with outcome_unknown, Gmail raises
\* reconciliation_required, and the graph reports outcome unknown; none of
\* them dispatches, and none of them reads the provider.
EnterReconcile(c, k) ==
    /\ Enter(c, k)
    /\ PlanEffect(row[k]) = "reconcile"
    /\ step' = [step EXCEPT ![c] =
                  IF KindOf[k] = "send" THEN "raised" ELSE "pause"]
    /\ UNCHANGED pc

-----------------------------------------------------------------------------
(* The provider and the network: not code of this repository.                 *)

\* Mutant: a transport error is retried in place.
DispatchAgain(c) ==
    /\ pc[c] \in {"reserved", "dispatched"}
    /\ pc' = [pc EXCEPT ![c] = "dispatched"]
    /\ wire' = wire \cup {[key |-> key[c], from |-> c]}
    /\ UNCHANGED <<row, key, answer, step, effects>>

Dispatch(c) ==
    /\ pc[c] = "reserved"
    /\ pc' = [pc EXCEPT ![c] = "dispatched"]
    /\ wire' = wire \cup {[key |-> key[c], from |-> c]}
    /\ UNCHANGED <<row, key, answer, step, effects>>

\* A decision reaches the caller only while it is still waiting on that key.
Answered(r, a) ==
    answer' = IF pc[r.from] = "dispatched" /\ key[r.from] = r.key
              THEN [answer EXCEPT ![r.from] = a]
              ELSE answer

ProviderPerforms(r) ==
    /\ wire' = wire \ {r}
    /\ effects' = [effects EXCEPT ![r.key] = @ + 1]
    /\ Answered(r, "took")
    /\ UNCHANGED <<row, pc, key, step>>

ProviderRefuses(r) ==
    /\ wire' = wire \ {r}
    /\ Answered(r, "refused")
    /\ UNCHANGED <<row, pc, key, step, effects>>

-----------------------------------------------------------------------------
(* Leaving a handler: what happens to the row, and the step it earned.        *)

Leave(c, r, s) ==
    /\ row' = [row EXCEPT ![key[c]] = r]
    /\ pc' = [pc EXCEPT ![c] = "idle"]
    /\ step' = [step EXCEPT ![c] = s]
    /\ answer' = [answer EXCEPT ![c] = "none"]
    /\ UNCHANGED <<key, wire, effects>>

Doing(c, kind) == pc[c] # "idle" /\ KindOf[key[c]] = kind

Mine(c) == row[key[c]]

\* complete_effect raises when the row is no longer pending (and holds another
\* receipt); the exception leaves the handler.
Completes(c, s) ==
    \E receipt \in Receipts :
        Leave(c, CompleteRow(Mine(c), receipt),
              IF CompleteAccepted(Mine(c), receipt) THEN s ELSE "raised")

MarksUnknown(c, s) ==
    Leave(c, MarkOutcomeUnknownRow(Mine(c)),
          IF MarkAccepted(Mine(c), "outcome_unknown") THEN s ELSE "raised")

MarksFailed(c, s) ==
    Leave(c, MarkFailedRow(Mine(c)),
          IF MarkAccepted(Mine(c), "failed") THEN s ELSE "raised")

LeavesOpen(c, s) == Leave(c, Mine(c), s)

\* Mutant: the phase advances before the completion is written.
SignupAdvancesFirst(c) ==
    /\ Doing(c, "signup_submit")
    /\ answer[c] # "none"
    /\ LeavesOpen(c, "advance")

\* An account was created, or the provider answered that it already exists:
\* both complete the row before the phase advances.  An unmet postcondition
\* pauses a run whose effect is complete.
SignupAnswered(c) ==
    /\ Doing(c, "signup_submit")
    /\ \/ answer[c] = "took" /\ \E s \in {"advance", "pause"} : Completes(c, s)
       \/ answer[c] = "refused" /\ Completes(c, "advance")

\* A human gate leaves the reservation open: a CAPTCHA pauses for the operator,
\* anything else pauses the run.
SignupHumanGate(c) ==
    /\ Doing(c, "signup_submit")
    /\ \E s \in {"captcha_paused", "pause"} : LeavesOpen(c, s)

\* "failed" is the submitter's report that nothing reached the provider.
SignupFailed(c) ==
    /\ Doing(c, "signup_submit")
    /\ pc[c] = "reserved"
    /\ MarksFailed(c, "pause")

SignupUnknown(c) ==
    /\ Doing(c, "signup_submit")
    /\ MarksUnknown(c, "pause")

\* The action loop reported done: the page shows the application, either the
\* one this request created or one that already carried the requested name.
\* An id that cannot be recorded is an ambiguous outcome.
DevAppDone(c) ==
    /\ Doing(c, "create_dev_app")
    /\ pc[c] = "dispatched" => answer[c] # "none"
    /\ Completes(c, "advance") \/ MarksUnknown(c, "pause")

\* A phase that stopped short, a CAPTCHA and a failed decision leave the
\* reservation open.
DevAppStoppedShort(c) ==
    /\ Doing(c, "create_dev_app")
    /\ \E s \in {"captcha_paused", "pause"} : LeavesOpen(c, s)

\* The surface cannot be armed: nothing was dispatched, and the row stays open.
CredentialUnarmed(c) ==
    /\ Doing(c, "generate_credential")
    /\ pc[c] = "reserved"
    /\ LeavesOpen(c, "pause")

CredentialCaptured(c) ==
    /\ Doing(c, "generate_credential")
    /\ answer[c] = "took"
    /\ Completes(c, "advance")

\* The capture raised, or returned a reference outside the run's namespace.
CredentialAmbiguous(c) ==
    /\ Doing(c, "generate_credential")
    /\ MarksUnknown(c, "pause")

\* Connecting failed before GMAIL_SEND_EMAIL was dispatched.
SendNotConnected(c) ==
    /\ Doing(c, "send")
    /\ pc[c] = "reserved"
    /\ MarksFailed(c, "raised")

\* A contract error, an operation error, any other exception, and a response
\* without identifiers all force reconciliation.
SendAmbiguous(c) ==
    /\ Doing(c, "send")
    /\ pc[c] = "dispatched"
    /\ MarksUnknown(c, "raised")

\* The receipt is recorded; if that write fails the row is marked unknown.
SendAccepted(c) ==
    /\ Doing(c, "send")
    /\ answer[c] = "took"
    /\ Completes(c, "advance") \/ MarksUnknown(c, "raised")

BrowserStarted(c) ==
    /\ Doing(c, "start_session")
    /\ answer[c] = "took"
    /\ Completes(c, "advance")

\* ProviderOperationError: the session may or may not exist.
BrowserStartAmbiguous(c) ==
    /\ Doing(c, "start_session")
    /\ MarksUnknown(c, "pause")

\* PhaseUnavailableError: reported, and the reservation is left pending.
BrowserUnavailable(c) ==
    /\ Doing(c, "start_session")
    /\ LeavesOpen(c, "pause")

\* The process dies, or an exception no handler catches leaves it.
Dies(c) ==
    /\ pc[c] # "idle"
    /\ LeavesOpen(c, "raised")

-----------------------------------------------------------------------------
Settle(c) ==
    \/ SignupAnswered(c) \/ SignupHumanGate(c) \/ SignupFailed(c) \/ SignupUnknown(c)
    \/ DevAppDone(c) \/ DevAppStoppedShort(c)
    \/ CredentialUnarmed(c) \/ CredentialCaptured(c) \/ CredentialAmbiguous(c)
    \/ SendNotConnected(c) \/ SendAmbiguous(c) \/ SendAccepted(c)
    \/ BrowserStarted(c) \/ BrowserStartAmbiguous(c) \/ BrowserUnavailable(c)

CallerStep(c) ==
    \/ \E k \in Keys : EnterExecute(c, k) \/ EnterSkip(c, k) \/ EnterReconcile(c, k)
    \/ Dispatch(c)
    \/ Settle(c)
    \/ Dies(c)

ProviderStep == \E r \in wire : ProviderPerforms(r) \/ ProviderRefuses(r)

Next == (\E c \in Callers : CallerStep(c)) \/ ProviderStep

Spec == Init /\ [][Next]_vars

-----------------------------------------------------------------------------
(* Properties.                                                                *)

\* The provider performs one key's effect at most once, whatever callers race,
\* die, time out or retry ("refuse blind resend after ambiguous outcomes").
AtMostOnce == \A k \in Keys : effects[k] <= 1

\* A handler that reports "advance" has the completion on record: a later
\* arrival in the phase skips instead of acting again (drive_developer_app Q2,
\* SignupPhaseHandler: "the effect completion was recorded first").
AdvanceIsRecorded ==
    \A c \in Callers : step[c] = "advance" => row[key[c]].status = "completed"

\* "failed" is only ever written about a key the provider never acted on and
\* whose request can no longer reach it: the one status that authorizes a
\* second dispatch is a proof, not a guess.
FailedProvesUntouched ==
    \A k \in Keys :
        row[k].status \in {"absent", "failed"} =>
            effects[k] = 0 /\ \A r \in wire : r.key # k

\* What the ledger says of an effect is what happened to it: a handler advances
\* only behind a recorded completion, and a row given back as failed proves that
\* no request of its key can take hold.
RecordsAreTrue == TypeOK /\ AdvanceIsRecorded /\ FailedProvesUntouched

\* A completed row keeps its receipt for ever: nothing reopens or rewrites it.
CompletedIsFinal ==
    [][\A k \in Keys : row[k].status = "completed" => row'[k] = row[k]]_vars

\* The ledger implements its promise.
Once == INSTANCE EffectOnce WITH
          performed <- effects,
          recorded  <- {k \in Keys : row[k].status = "completed"}

ImplementsEffectOnce == Once!Spec

=============================================================================
