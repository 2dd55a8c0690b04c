---------------------------- MODULE RunRecovery -----------------------------
(* What a run's workers may do after one of them died: the boundary that      *)
(* reserves its phase's effect in one transaction                             *)
(* (SQLitePhaseHistoryStore.commit_phase_with_reservation and the verbs that  *)
(* settle it), recover_run, the CAPTCHA pause and its resume, and the         *)
(* operator pause that settles what is in flight                              *)
(* (ops/onboarding/driver.py, ops/runs/resume.py, ops/core/storage.py).       *)
(*                                                                            *)
(* A worker recovers, then drives the phase its plan names.  Workers are not  *)
(* ordered by the lease here: the store never reads it, so a fenced worker    *)
(* may still be anywhere in its walk when the next one recovers.              *)
EXTENDS OnboardingPhase

CONSTANTS
    Workers,
    Sessions,       \* browser session ids
    MaxHistory,     \* bound: committed boundaries
    MaxPauses,      \* CaptchaBudget.max_pauses
    MaxControls,    \* bound: operator controls
    MaxFaults       \* bound: worker deaths, and sessions lost to the janitor or a
                    \* browser crash

RecoveryAssumption ==
    /\ IsFiniteSet(Workers) /\ Workers # {}
    /\ MaxHistory \in Nat /\ MaxPauses \in Nat
    /\ MaxControls \in Nat /\ MaxFaults \in Nat

VARIABLES
    history,     \* onboarding_phase_history
    intent,      \* side_effect_intents: the ledger status of each effect's key
    row,         \* onboarding_effect_reservations: the standing view of each key
    pause,       \* onboarding_run_state: phase_at_pause and captcha_prompts
    session,     \* each session: what it is at the provider
    worker,      \* each worker: pc, the phase and attempt it drives, its session
    operator,    \* the control under way: the boundary it will commit, and the
                 \* keys a pause has still to settle
    sent,        \* ghost: submissions of each effect
    faults       \* controls given and faults so far

recoveryVars ==
    <<history, intent, row, pause, session, worker, operator, sent, faults>>

Effects == {"developer_app", "credential_generation"}

NoRow == [phase |-> "none", disposition |-> "none", receipt |-> FALSE]

Idle == [pc |-> "idle", phase |-> "research", attempt |-> 0, to |-> "research",
         bound |-> "none", planned |-> {}, disposition |-> "none"]

AuthenticatedSessionPhases == {"authenticated", "developer_app", "credential_generation"}

Captchable == SessionBearing \ {"captcha_paused"}

-----------------------------------------------------------------------------
(* The reservation of an effect                                               *)

\* Mutant: a row that is merely pending authorizes another attempt.
PlanForRowStatusPending(status) ==
    CASE status = "completed" -> "skip"
      [] status = "outcome_unknown" -> "reconcile"
      [] OTHER -> "execute"

\* plan_for_row_status
PlanForRowStatus(status) ==
    CASE status = "completed" -> "skip"
      [] status \in {"pending", "outcome_unknown"} -> "reconcile"
      [] OTHER -> "execute"

\* INSERT OR IGNORE, then a failed row is re-opened
Reserved(status) == IF status \in {"none", "failed"} THEN "pending" ELSE status

\* record_effect_reservation_in_transaction: an absent receipt leaves the old one
Upsert(old, phase, disposition, receipt) ==
    [phase |-> phase, disposition |-> disposition, receipt |-> receipt \/ old.receipt]

\* _standing_plan: what the row already authorizes for a key
StandingPlan(e) == PlanForRowStatus(intent[e])

\* commit_phase_with_reservation: a replay reserves nothing and reports the
\* standing disposition; otherwise the history row, the ledger's intent and the
\* reservation row are written together.
CommitWithReservation(w, b) ==
    LET e == b.to  replay == Replayed(history, b)
        plan == StandingPlan(e)
    IN  /\ history' = CommitPhase(history, b)
        /\ IF replay
           THEN UNCHANGED <<intent, row>>
           ELSE /\ intent' = [intent EXCEPT ![e] = Reserved(@)]
                /\ row' = [row EXCEPT ![e] = Upsert(@, e, plan, FALSE)]
        /\ worker' = [worker EXCEPT ![w].pc = "effect", ![w].phase = e,
                                    ![w].disposition = plan]

\* _reserved_row: only a key with a reservation is settled
CompleteEffect(e) ==
    /\ row[e] # NoRow
    /\ intent' = [intent EXCEPT ![e] = "completed"]
    /\ row' = [row EXCEPT ![e] = Upsert(@, @.phase, "skip", TRUE)]

MarkOutcomeUnknown(e) ==
    /\ row[e] # NoRow
    /\ intent' = [intent EXCEPT ![e] = "outcome_unknown"]
    /\ row' = [row EXCEPT ![e] = Upsert(@, @.phase, "pause_outcome_unknown", FALSE)]

\* submission_count
SubmissionCount(e) ==
    IF intent[e] \in {"pending", "completed", "outcome_unknown"} THEN 1 ELSE 0

-----------------------------------------------------------------------------
(* recover_run                                                                *)

RecoveryInit ==
    \* a run routed to its own login
    /\ history = << Crossing("research", "vault_check", 0, "research", "step"),
                    Crossing("vault_check", "route_selected_login", 0, "vault_check", "step") >>
    /\ intent = [e \in Effects |-> "none"]
    /\ row = [e \in Effects |-> NoRow]
    /\ pause = [phase |-> "none", prompts |-> 0]
    /\ session = [s \in Sessions |-> "unused"]
    /\ worker = [w \in Workers |-> Idle]
    /\ operator = [pc |-> "idle", keys |-> {}, plan |-> Crossing("research", "research", 0,
                                                             "research", "step")]
    /\ sent = [e \in Effects |-> 0]
    /\ faults = [controls |-> 0, lost |-> 0]

Live(s) == session[s] \in {"anonymous", "authenticated"}

\* One read of the history says where the run stands.  A finished run is
\* reported as terminal and left alone; a run that has no profile is not modelled
\* here (restart_research reuses nothing).
RecoverReads(w) ==
    /\ worker[w].pc = "idle"
    /\ LET phase == ResumptionPhase(history)
       IN  /\ phase \notin Terminal
           /\ worker' = [worker EXCEPT
                ![w] = [Idle EXCEPT !.pc = "effects", !.phase = phase,
                                    !.attempt = ResumptionAttempt(history)]]
    /\ UNCHANGED <<history, intent, row, pause, session, operator, sent, faults>>

\* list_effect_reservations, of one phase
StandingDispositions(phase) == {row[e].disposition : e \in {e \in Effects : row[e].phase = phase}}

\* _recovery_effect_plans: the reservations the resumption phase owns
RecoverReadsEffects(w) ==
    /\ worker[w].pc = "effects"
    /\ worker' = [worker EXCEPT
        ![w].planned = StandingDispositions(worker[w].phase),
        ![w].pc = IF worker[w].phase \in SessionBearing THEN "reattach" ELSE "decide"]
    /\ UNCHANGED <<history, intent, row, pause, session, operator, sent, faults>>

\* reattach_bound_session: the run's live session, or none.
RecoverReattaches(w) ==
    /\ worker[w].pc = "reattach"
    /\ \/ \E s \in Sessions : Live(s) /\ worker' = [worker EXCEPT ![w].pc = "decide",
                                                                   ![w].bound = s]
       \/ (\A s \in Sessions : ~Live(s)) /\ worker' = [worker EXCEPT ![w].pc = "decide"]
    /\ UNCHANGED <<history, intent, row, pause, session, operator, sent, faults>>

\* An effect of unknown outcome pauses the run before a session is created for
\* it; an authenticated phase without its session pauses too.
MustPause(w) ==
    \/ "pause_outcome_unknown" \in worker[w].planned
    \/ worker[w].phase \in AuthenticatedSessionPhases /\ worker[w].bound = "none"

NeedsSession(w) == worker[w].phase \in SessionBearing /\ worker[w].bound = "none"

\* The pause is the one boundary the plan names; the caller commits it.
RecoverPauses(w) ==
    /\ worker[w].pc = "decide"
    /\ MustPause(w)
    /\ worker' = [worker EXCEPT ![w].pc = "commit", ![w].to = "paused"]
    /\ UNCHANGED <<history, intent, row, pause, session, operator, sent, faults>>

\* create_session: a new session is at the provider's front door.  None may be
\* had, and then the plan pauses.
RecoverCreates(w) ==
    /\ worker[w].pc = "decide"
    /\ ~MustPause(w)
    /\ NeedsSession(w)
    /\ \/ \E s \in Sessions :
            /\ session[s] = "unused"
            /\ session' = [session EXCEPT ![s] = "anonymous"]
            /\ worker' = [worker EXCEPT ![w].pc = "drive", ![w].bound = s]
       \/ /\ worker' = [worker EXCEPT ![w].pc = "commit", ![w].to = "paused"]
          /\ UNCHANGED session
    /\ UNCHANGED <<history, intent, row, pause, operator, sent, faults>>

RecoverContinues(w) ==
    /\ worker[w].pc = "decide"
    /\ ~MustPause(w)
    /\ ~NeedsSession(w)
    /\ worker' = [worker EXCEPT ![w].pc = "drive"]
    /\ UNCHANGED <<history, intent, row, pause, session, operator, sent, faults>>

-----------------------------------------------------------------------------
(* Driving the phase the plan names.  A waiting phase ends the turn.          *)

DriveStops(w) ==
    /\ worker[w].pc = "drive"
    /\ worker[w].phase \notin DOMAIN PhaseSuccessors
    /\ worker' = [worker EXCEPT ![w] = Idle]
    /\ UNCHANGED <<history, intent, row, pause, session, operator, sent, faults>>

\* The loop proved the phase done.  Leaving a login phase leaves the session
\* authenticated; an authenticated phase is only done on such a session.
DriveAdvances(w) ==
    LET k == worker[w]
    IN  /\ k.pc = "drive"
        /\ k.phase \in DOMAIN PhaseSuccessors
        /\ Live(k.bound)
        /\ k.phase \in AuthenticatedSessionPhases => session[k.bound] = "authenticated"
        /\ session' = [session EXCEPT ![k.bound] = "authenticated"]
        /\ worker' = [worker EXCEPT ![w].pc = "commit", ![w].to = PhaseSuccessors[k.phase]]
        /\ UNCHANGED <<history, intent, row, pause, operator, sent, faults>>

\* The session was lost under the loop, or its page gave nothing: the phase pauses.
DriveFails(w) ==
    /\ worker[w].pc = "drive"
    /\ worker[w].phase \in DOMAIN PhaseSuccessors
    /\ worker' = [worker EXCEPT ![w].pc = "commit", ![w].to = "paused"]
    /\ UNCHANGED <<history, intent, row, pause, session, operator, sent, faults>>

\* record_captcha_pause: one statement records the phase and counts the prompt
RecordsPause(phase) == [phase |-> phase, prompts |-> pause.prompts + 1]

\* pause_for_captcha compares the count with the budget; past it the run pauses
\* plainly and records nothing
DriveMeetsCaptcha(w) ==
    /\ worker[w].pc = "drive"
    /\ worker[w].phase \in Captchable
    /\ Live(worker[w].bound)
    /\ worker' = IF pause.prompts >= MaxPauses
                 THEN [worker EXCEPT ![w].pc = "commit", ![w].to = "paused"]
                 ELSE [worker EXCEPT ![w].pc = "captcha"]
    /\ UNCHANGED <<history, intent, row, pause, session, operator, sent, faults>>

\* ... and records the pause in a transaction of its own, which compares nothing:
\* a rival may have counted its prompt in between.
DriveRecordsPause(w) ==
    /\ worker[w].pc = "captcha"
    /\ pause' = RecordsPause(worker[w].phase)
    /\ worker' = [worker EXCEPT ![w].pc = "commit", ![w].to = "captcha_paused"]
    /\ UNCHANGED <<history, intent, row, session, operator, sent, faults>>

\* The boundary the walk takes: with its phase's effect reserved where it has one.
WalkCommits(w) ==
    LET k == worker[w]  b == Crossing(k.phase, k.to, k.attempt, k.phase, "step")
    IN  /\ k.pc = "commit"
        /\ Legal(k.phase, k.to)
        /\ Len(history) < MaxHistory
        /\ IF k.to \in Effects
           THEN CommitWithReservation(w, b)
           ELSE /\ history' = CommitPhase(history, b)
                /\ worker' = [worker EXCEPT ![w] = Idle]
                /\ UNCHANGED <<intent, row>>
        /\ UNCHANGED <<pause, session, operator, sent, faults>>

\* What the disposition authorizes: a submission, or a look at the provider.
Submits(w) ==
    LET e == worker[w].phase
    IN  /\ worker[w].pc = "effect" /\ worker[w].disposition = "execute"
        /\ sent' = [sent EXCEPT ![e] = @ + 1]
        /\ worker' = [worker EXCEPT ![w].pc = "settle"]
        /\ UNCHANGED <<history, intent, row, pause, session, operator, faults>>

\* The provider answered, or nothing settles it: the receipt, or unknown.  No
\* verb of the store proves a failure.
Settles(w) ==
    LET e == worker[w].phase
    IN  /\ \/ worker[w].pc = "settle"
           \/ worker[w].pc = "effect" /\ worker[w].disposition = "reconcile"
        /\ \/ sent[e] > 0 /\ CompleteEffect(e)
           \/ MarkOutcomeUnknown(e)
        /\ worker' = [worker EXCEPT ![w] = Idle]
        /\ UNCHANGED <<history, pause, session, operator, sent, faults>>

\* A completed effect is adopted by its receipt.
Adopts(w) ==
    /\ worker[w].pc = "effect" /\ worker[w].disposition = "skip"
    /\ worker' = [worker EXCEPT ![w] = Idle]
    /\ UNCHANGED <<history, intent, row, pause, session, operator, sent, faults>>

-----------------------------------------------------------------------------
(* The operator, crashes and expiries                                         *)

Controls(boundary, keys) ==
    /\ operator.pc = "idle" /\ faults.controls < MaxControls
    /\ operator' = [pc |-> "busy", keys |-> keys, plan |-> boundary]
    /\ faults' = [faults EXCEPT !.controls = @ + 1]

Last == LastBoundary(history)

\* resume_from_captcha, completed: the recorded phase, under the next attempt.
ResumeFromCaptcha ==
    /\ Last.to = "captcha_paused" /\ pause.phase # "none"
    /\ Controls(Crossing("captcha_paused", pause.phase, Last.attempt + 1,
                         "captcha_paused", "step"), {})
    /\ UNCHANGED <<history, intent, row, pause, session, worker, sent>>

\* ... cancelled
CancelAtCaptcha ==
    /\ Last.to = "captcha_paused"
    /\ Controls(Crossing("captcha_paused", "cancelled", Last.attempt,
                         "captcha_paused", "step"), {})
    /\ UNCHANGED <<history, intent, row, pause, session, worker, sent>>

\* request_pause: the boundary and the keys in flight, as read before the first
\* of them is settled.
RequestPause ==
    /\ Last.to \notin Terminal \cup {"paused"}
    /\ Controls(Crossing(Last.to, "paused", Last.attempt + PauseCount(history),
                         "paused", "step"),
                {e \in Effects : row[e].disposition \in {"execute", "reconcile"}})
    /\ UNCHANGED <<history, intent, row, pause, session, worker, sent>>

\* _settle_reserved_effects, one key: completed where the probe saw the outcome,
\* else unknown.
PauseSettles ==
    /\ operator.pc = "busy"
    /\ \E e \in operator.keys :
        /\ \/ sent[e] > 0 /\ CompleteEffect(e)
           \/ MarkOutcomeUnknown(e)
        /\ operator' = [operator EXCEPT !.keys = @ \ {e}]
    /\ UNCHANGED <<history, pause, session, worker, sent, faults>>

\* The control's boundary; a pause the table refuses is only a request.
ControlCommits ==
    /\ operator.pc = "busy" /\ operator.keys = {}
    /\ Len(history) < MaxHistory
    /\ history' = IF Legal(operator.plan.from, operator.plan.to)
                  THEN CommitPhase(history, operator.plan) ELSE history
    /\ operator' = [operator EXCEPT
            !.pc = IF operator.plan.to = "cancelled" THEN "release" ELSE "idle"]
    /\ UNCHANGED <<intent, row, pause, session, worker, sent, faults>>

\* A cancelled run gives its session back once the boundary is durable.
CancelReleases ==
    /\ operator.pc = "release"
    /\ session' = [s \in Sessions |-> IF Live(s) THEN "gone" ELSE session[s]]
    /\ operator' = [operator EXCEPT !.pc = "idle"]
    /\ UNCHANGED <<history, intent, row, pause, worker, sent, faults>>

WorkerCrashes(w) ==
    /\ faults.lost < MaxFaults
    /\ worker[w].pc # "idle"
    /\ worker' = [worker EXCEPT ![w] = Idle]
    /\ faults' = [faults EXCEPT !.lost = @ + 1]
    /\ UNCHANGED <<history, intent, row, pause, session, operator, sent>>

SessionExpires(s) ==
    /\ faults.lost < MaxFaults
    /\ Live(s)
    /\ session' = [session EXCEPT ![s] = "gone"]
    /\ faults' = [faults EXCEPT !.lost = @ + 1]
    /\ UNCHANGED <<history, intent, row, pause, worker, operator, sent>>

WorkerStep(w) ==
    \/ RecoverReads(w) \/ RecoverReadsEffects(w) \/ RecoverReattaches(w)
    \/ RecoverPauses(w) \/ RecoverCreates(w) \/ RecoverContinues(w)
    \/ DriveStops(w) \/ DriveAdvances(w) \/ DriveFails(w) \/ DriveMeetsCaptcha(w)
    \/ DriveRecordsPause(w)
    \/ WalkCommits(w) \/ Submits(w) \/ Settles(w) \/ Adopts(w)

RecoveryNext ==
    \/ \E w \in Workers : WorkerStep(w) \/ WorkerCrashes(w)
    \/ ResumeFromCaptcha \/ CancelAtCaptcha
    \/ RequestPause \/ PauseSettles \/ ControlCommits \/ CancelReleases
    \/ \E s \in Sessions : SessionExpires(s)

RecoverySpec == RecoveryInit /\ [][RecoveryNext]_recoveryVars

-----------------------------------------------------------------------------
(* Properties                                                                 *)

\* Every worker but one may have compared the count before it reached the budget.
RecoveryTypeOK ==
    /\ \A i \in DOMAIN history : history[i] \in Boundary
    /\ intent \in [Effects -> {"none", "pending", "completed", "outcome_unknown", "failed"}]
    /\ pause.prompts \in 0..MaxPauses + Cardinality(Workers) - 1
    /\ \A w \in Workers : worker[w].phase \in Phases

\* An effect is submitted at most once, whatever was replayed, crashed, settled
\* by a pause or resumed in between
\* ("no path here can hand out a second submission for the same key").
SubmittedOnce == \A e \in Effects : sent[e] <= 1

\* ... and submission_count never reports less than what was really sent.
CountCoversSent == \A e \in Effects : sent[e] > 0 => SubmissionCount(e) = 1

\* The phase of a reservation was committed: an effect never lacks its owner.
ReservationHasPhase ==
    \A e \in Effects :
        row[e] # NoRow => \E i \in DOMAIN history : history[i].to = row[e].phase

\* A worker that drives an authenticated phase does so on a session that was
\* authenticated: "re-entering developer_app on an anonymous session would drive
\* a logged-out console".
DrivesSignedIn ==
    \A w \in Workers :
        (worker[w].pc = "drive" /\ worker[w].phase \in AuthenticatedSessionPhases)
            => session[worker[w].bound] # "anonymous"

=============================================================================
