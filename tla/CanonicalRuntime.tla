-------------------------- MODULE CanonicalRuntime --------------------------
(***************************************************************************)
(* The canonical runtime's browser runs (ops/workflow/                     *)
(* canonical_runtime.py): one run row, the browser sessions its attempts   *)
(* open, the run-scoped capture effect, and everybody who writes the row:  *)
(* the create call, replays of it, operator retries, resumes, the drive    *)
(* threads, the stale sweep and the takeover's stop.  Worker calls are     *)
(* steps of their own; what happens under the per-run lock is one step.    *)
(* Audit events and the phase history are left out, except for the one     *)
(* fact that a credential's references are on record.                      *)
(***************************************************************************)
EXTENDS Integers, FiniteSets

CONSTANTS
    Threads,        \* calls and drive threads of one process
    MaxAttempt,     \* bound: attempts of the run
    MaxRefuseRev,   \* bound: a start is refused before its reservation up to here
    Regimes         \* records [replay, crash, sweeps, boot]: which hazards happen

ASSUME RuntimeAssumption ==
    /\ "free" \notin Threads /\ IsFiniteSet(Threads)
    /\ MaxAttempt \in Nat \ {0} /\ MaxRefuseRev \in Nat
    /\ Regimes \subseteq [replay: BOOLEAN, crash: BOOLEAN, sweeps: BOOLEAN, boot: BOOLEAN]

VARIABLES
    row,        \* the run's row
    capture,    \* the ledger row credential-capture:v1
    submit,     \* the ledger row owner-credential-submit:v1
    keys,       \* the reserved start and resume operation keys
    live,       \* browser sessions the browser service holds for the run
    mints,      \* how often the vendor issued a key
    recorded,   \* the references of the vaulted key are in the run's audit
    lost,       \* a projection that carried references was refused
    lock,       \* the holder of the per-run lock across worker.start
    thread,     \* the calls and drive threads
    sweep,      \* the sweeps: what they read, and what they have to release
    mode        \* the regime

rowVars == <<row, capture, submit, keys>>
worldVars == <<live, mints>>
auditVars == <<recorded, lost>>
runtimeVars == <<rowVars, worldVars, auditVars, lock, thread, sweep, mode>>

NoKey == [kind |-> "none", n |-> 0]
Key(kind, n) == [kind |-> kind, n |-> n]
CaptureKey == Key("capture", 1)

Statuses == {"route_selected", "browser_running", "waiting_for_hitl", "failed",
             "configuration_required", "completed", "credentials_ready", "blocked"}
Driving == {"browser_running", "waiting_for_hitl"}
Stopped == {"completed", "failed", "blocked", "configuration_required", "credentials_ready"}

\* AWAITING_OWNER_PHASES and RETRY_DENIED_PHASES.
AwaitingOwner == {"credential_ready", "entry_reached"}
RetryDenied == {"blocked", "completed"} \cup AwaitingOwner

OwnerWindow == row.status = "browser_running" /\ row.phase \in AwaitingOwner

Idle == [pc |-> "idle", sess |-> 0, key |-> NoKey, rev |-> 0, att |-> 0,
         out |-> "none", refs |-> FALSE]
NoSweep == [pc |-> "idle", rev |-> 0, sess |-> 0]

Phases == {"browser_pending", "browser_starting", "running", "challenge_pending",
           "target_probe_pending", "capture_reserved", "effect_reconciliation",
           "recoverable", "submission_reserved", "session_lost", "failed", "blocked", "completed"} \cup AwaitingOwner

Outcomes == {"none", "gate", "blocked", "diverged", "host", "failed", "unknown", "probe", "entry",
             "ready", "stale", "grantless", "reserved", "lost", "empty", "unfinal",
             "invalid", "completed"}

RTypeOK ==
    /\ row \in [status: Statuses, phase: Phases, att: 0..MaxAttempt, sess: 0..MaxAttempt,
                key: [kind: {"none", "start", "resume", "capture", "submit"}, n: 0..MaxAttempt], rev: Nat, plan: 1..2]
    /\ capture \in {"absent", "pending", "failed", "unknown", "empty", "vaulted"}
    /\ submit \in {"absent", "pending", "failed", "completed"}
    /\ keys \subseteq [kind: {"start", "resume"}, n: 1..MaxAttempt]
    /\ live \subseteq 1..MaxAttempt
    /\ mints \in Nat /\ recorded \in BOOLEAN /\ lost \in BOOLEAN
    /\ lock \in Threads \cup {"free"}
    /\ \A t \in Threads : /\ thread[t].out \in Outcomes \cup AwaitingOwner /\ thread[t].sess \in 0..MaxAttempt
                          /\ (thread[t].pc = "idle") = (thread[t] = Idle)
    /\ sweep.sess \in 0..MaxAttempt /\ sweep.pc \in {"idle", "stale", "stop", "stranded", "gone", "release"}
    /\ mode \in Regimes

\* create_run commits the row before it dispatches anything.
RInit ==
    /\ row = [status |-> "route_selected", phase |-> "browser_pending", att |-> 0,
              sess |-> 0, key |-> NoKey, rev |-> 1, plan |-> 1]
    /\ capture = "absent" /\ submit = "absent" /\ keys = {} /\ live = {} /\ mints = 0
    /\ recorded = FALSE /\ lost = FALSE /\ lock = "free"
    /\ mode \in Regimes
    /\ thread = [t \in Threads |-> IF t = CHOOSE u \in Threads : TRUE
                                   THEN [Idle EXCEPT !.pc = "reserve"] ELSE Idle]
    /\ sweep = NoSweep

Goes(t, state) == thread' = [thread EXCEPT ![t] = state]
\* Slots carry no meaning: a call takes the first that is free.
Free(t) ==
    /\ thread[t].pc = "idle"
    /\ t = CHOOSE u \in Threads : thread[u].pc = "idle"

\* _record_provider_failure: it asks nothing of the row it writes.
Record(status, phase) ==
    row' = [row EXCEPT !.status = status, !.phase = phase, !.rev = @ + 1]

\* _bound_browser_record_locked
Bound(t, statuses, key, rev) ==
    /\ row.sess = thread[t].sess /\ row.status \in statuses
    /\ key # NoKey => row.key = key
    /\ rev # 0 => row.rev = rev

----------------------------------------------------------------------------
(* Starting an attempt.  The create call starts without the lock and names *)
(* no attempt; replays and retries hold the lock until the session is      *)
(* bound.                                                                  *)
Holds(t) == IF lock = t THEN "free" ELSE lock

\* _continue_pristine_playwright_run, under the lock of a replay or a retry:
\* any evidence of a start is an unknown outcome.
Pristine ==
    row.att = 0 /\ row.key = NoKey /\ row.phase = "browser_pending"

ContinuePristine(t) ==
    /\ row.status = "route_selected"
    /\ \/ /\ Pristine /\ MaxAttempt > 0
          /\ lock' = t /\ Goes(t, [Idle EXCEPT !.pc = "reserve", !.att = 1])
          /\ UNCHANGED row
       \/ /\ ~Pristine
          /\ Record("configuration_required", "effect_reconciliation")
          /\ UNCHANGED <<lock, thread>>
       \/ /\ Pristine   \* no login, no vault, another account
          /\ Record("configuration_required", "recoverable")
          /\ UNCHANGED <<lock, thread>>
    /\ UNCHANGED <<capture, submit, keys, worldVars, auditVars, sweep, mode>>

\* create_run again with the same idempotency key, or an operator's retry.
ReplayCreate(t) == Free(t) /\ mode.replay /\ lock = "free" /\ ContinuePristine(t)

\* recover_pristine_browser_pending: the startup sweep takes the lock or leaves
\* the run alone; it may find a create of this process still starting.
RecoverPristine(t) == Free(t) /\ mode.replay /\ lock = "free" /\ ContinuePristine(t)

\* _reconcile_capture_effect: what the ledger says of the capture.
ReconcileCaptureEffect ==
    CASE capture = "vaulted" -> "owner"
      [] capture \in {"pending", "unknown"} -> "refuse"
      [] OTHER -> "restart"

\* _reconcile_vaulted_capture: the owner's window, under no session.
OpensOwnerWindow ==
    row' = [row EXCEPT !.status = "browser_running", !.phase = "credential_ready",
                       !.sess = 0, !.rev = @ + 1]

RetryBrowserRun(t) ==
    /\ Free(t) /\ lock = "free"
    /\ row.status \in {"failed", "configuration_required"}
    /\ row.phase \notin RetryDenied
    /\ LET answer == IF row.phase = "effect_reconciliation"
                     THEN ReconcileCaptureEffect ELSE "restart"
       IN  \/ /\ answer = "owner" /\ OpensOwnerWindow
              /\ UNCHANGED <<lock, thread>>
           \/ /\ answer = "restart" /\ row.att < MaxAttempt
              /\ lock' = t
              /\ Goes(t, [Idle EXCEPT !.pc = "reserve", !.att = row.att + 1])
              /\ UNCHANGED row
    /\ UNCHANGED <<capture, submit, keys, worldVars, auditVars, sweep, mode>>

\* _start_playwright up to its reservation, which writes the row whether or not
\* it won the key; a plan or a worker that is missing stops it before.
ReserveStart(t) ==
    /\ thread[t].pc = "reserve"
    /\ LET att == IF thread[t].att = 0 THEN row.att + 1 ELSE thread[t].att
           key == Key("start", att)
           taken == [row EXCEPT !.phase = "browser_starting", !.key = key,
                                !.att = att, !.rev = @ + 1]
       IN  \/ /\ att <= MaxAttempt /\ key \notin keys
              /\ row' = taken /\ keys' = keys \cup {key}
              /\ Goes(t, [thread[t] EXCEPT !.pc = "starting", !.att = att, !.key = key])
              /\ UNCHANGED lock
           \/ /\ key \in keys
              /\ row' = taken
              /\ Goes(t, [thread[t] EXCEPT !.pc = "refused"])
              /\ UNCHANGED <<keys, lock>>
           \/ /\ row.rev <= MaxRefuseRev
              /\ Record("configuration_required", "recoverable")
              /\ Goes(t, Idle) /\ lock' = Holds(t)
              /\ UNCHANGED keys
    /\ UNCHANGED <<capture, submit, worldVars, auditVars, sweep, mode>>

\* A start whose key was taken reports so in a transaction of its own.
RefuseStart(t) ==
    /\ thread[t].pc = "refused"
    /\ Record("configuration_required", "effect_reconciliation")
    /\ Goes(t, Idle) /\ lock' = Holds(t)
    /\ UNCHANGED <<capture, submit, keys, worldVars, auditVars, sweep, mode>>

\* worker.start opens the session; the answer may be lost.
SessionOpens(t) ==
    /\ thread[t].pc = "starting" /\ thread[t].sess = 0
    /\ live' = live \cup {thread[t].att}
    /\ Goes(t, [thread[t] EXCEPT !.sess = thread[t].att])
    /\ UNCHANGED <<rowVars, mints, auditVars, lock, sweep, mode>>

\* The row is written without asking who wrote it last.
BindSession(t) ==
    /\ thread[t].pc = "starting" /\ thread[t].sess # 0
    /\ row' = [row EXCEPT !.status = "browser_running", !.phase = "running",
                          !.sess = thread[t].sess, !.rev = @ + 1]
    /\ Goes(t, [thread[t] EXCEPT !.pc = "launching"])
    /\ UNCHANGED <<capture, submit, keys, worldVars, auditVars, lock, sweep, mode>>

\* The drive thread starts, and the call that started it returns.
ThreadStarts(t) ==
    /\ thread[t].pc = "launching"
    /\ Goes(t, [thread[t] EXCEPT !.pc = "bound"]) /\ lock' = Holds(t)
    /\ UNCHANGED <<rowVars, worldVars, auditVars, sweep, mode>>

\* The start fails, or the thread does once the session is bound; a context that
\* did arrive is released first.
StartFails(t) ==
    /\ \/ /\ thread[t].pc = "starting"
          /\ \E status \in {"failed", "configuration_required"} : Record(status, "recoverable")
       \/ /\ thread[t].pc = "launching"
          /\ Record("failed", "recoverable")
    /\ live' = live \ {thread[t].sess}
    /\ Goes(t, Idle) /\ lock' = Holds(t)
    /\ UNCHANGED <<capture, submit, keys, mints, auditVars, sweep, mode>>

----------------------------------------------------------------------------
(* Driving: _drive_browser_bound, and resume_run's reservation.            *)
DriveBrowser(t) ==
    /\ thread[t].pc = "bound" /\ lock = "free"
    /\ IF Bound(t, {"browser_running"}, NoKey, 0) /\ row.phase = "running"
       THEN Goes(t, [thread[t] EXCEPT !.pc = "calling", !.key = row.key])
       ELSE Goes(t, Idle)
    /\ UNCHANGED <<rowVars, worldVars, auditVars, lock, sweep, mode>>

\* A run that waits has a session, and its worker stays configured.
ResumeRun(t) ==
    /\ Free(t) /\ lock = "free" /\ row.status = "waiting_for_hitl" /\ row.att < MaxAttempt
    /\ LET key == Key("resume", row.att + 1)
       IN  /\ row' = [row EXCEPT !.status = "browser_running", !.att = @ + 1,
                                 !.phase = "target_probe_pending", !.key = key, !.rev = @ + 1]
           /\ keys' = keys \cup {key}
           /\ Goes(t, [Idle EXCEPT !.pc = "calling", !.sess = row.sess,
                                   !.key = key, !.att = row.att + 1])
    /\ UNCHANGED <<capture, submit, worldVars, auditVars, lock, sweep, mode>>

\* What navigate_onboarding and resume_after_hitl answer; a call that raises
\* is a failure, and a resume that is refused before it acts is the same gate.
Answers(t) ==
    {"gate", "blocked", "host", "failed", "probe", "entry", "ready"} \cup
    (IF thread[t].key.kind = "resume" THEN {"unknown"} ELSE {})

(* _apply_browser_observation, as soon as the call has returned: the exact *)
(* session and effect must still own the run; its revision is what the     *)
(* projection will compare.                                                *)
ApplyObservation(t, out) ==
    /\ thread[t].pc = "calling" /\ out \in Answers(t) /\ lock = "free"
    /\ IF Bound(t, Driving, thread[t].key, 0)
       THEN Goes(t, [thread[t] EXCEPT !.pc = "adhere", !.rev = row.rev, !.out = out])
       ELSE Goes(t, Idle)
    /\ UNCHANGED <<rowVars, worldVars, auditVars, lock, sweep, mode>>

\* decide_adherence on what the page turned out to be: proceed, one
\* replacement plan, then no further.
DecideAdherence ==
    {"proceed", "pause"} \cup (IF row.plan = 1 THEN {"replan"} ELSE {})

\* The answer goes on under revision rev, as it is or as a divergence.
Adheres(t, rev, action) ==
    Goes(t, [thread[t] EXCEPT !.rev = rev,
                !.pc = IF action = "proceed" /\ thread[t].out = "ready" THEN "resolve" ELSE "project",
                !.out = CASE action = "proceed" -> @
                          [] action # "proceed" /\ @ \in {"ready", "entry"} -> "diverged"
                          [] OTHER -> "blocked"])

\* replan_run_route: the replacement is committed if the operation that saw the
\* divergence still owns the row, and the page is then compared with it.
ReplanRunRoute(t) ==
    IF row.status = "browser_running" /\ row.rev = thread[t].rev /\ row.key = thread[t].key
    THEN \/ /\ row' = [row EXCEPT !.plan = 2, !.rev = @ + 1]
            /\ \E action \in {"proceed", "pause"} : Adheres(t, thread[t].rev + 1, action)
         \/ Adheres(t, thread[t].rev, "pause") /\ UNCHANGED row   \* no valid replacement
    ELSE Goes(t, Idle) /\ UNCHANGED row

\* _route_adherence_override; a page that failed or has no plan goes on.
AdhereToRoute(t) ==
    /\ thread[t].pc = "adhere" /\ lock = "free"
    /\ \E action \in DecideAdherence :
          IF action = "replan" THEN ReplanRunRoute(t)
          ELSE Adheres(t, thread[t].rev, action) /\ UNCHANGED row
    /\ UNCHANGED <<capture, submit, keys, worldVars, auditVars, lock, sweep, mode>>

Recycled == {"absent", "failed", "unknown"}

\* The states of the run-scoped row that a capture may reserve: none yet, or
\* one that failed before the browser was asked to do anything.
Reservable == {"absent", "failed"}

\* _resolve_browser_outcome at the credential page.  The recipe may leave the
\* page to the owner; an automatic capture reserves its effect and its grants.
ReserveCapture(t) ==
    /\ thread[t].pc = "resolve" /\ lock = "free"
    /\ \/ /\ Goes(t, [thread[t] EXCEPT !.pc = "project"])
          /\ UNCHANGED <<row, capture>>
       \/ /\ ~Bound(t, Driving, thread[t].key, thread[t].rev)
          /\ Goes(t, [thread[t] EXCEPT !.pc = "project", !.out = "stale"])
          /\ UNCHANGED <<row, capture>>
       \/ /\ Bound(t, Driving, thread[t].key, thread[t].rev)
          /\ row' = [row EXCEPT !.status = "browser_running", !.phase = "capture_reserved",
                                !.key = CaptureKey, !.rev = @ + 1]
          /\ LET holding == [thread[t] EXCEPT !.key = CaptureKey, !.rev = @ + 1]
             IN  \/ /\ capture \in Reservable /\ capture' = "pending"
                    /\ Goes(t, [holding EXCEPT !.pc = "capturing"])
                 \/ /\ capture \in Reservable /\ capture' = "failed"
                    /\ Goes(t, [holding EXCEPT !.pc = "project", !.out = "grantless"])
                 \/ /\ capture \notin Reservable
                    /\ Goes(t, [holding EXCEPT !.pc = "project", !.out = "reserved"])
                    /\ UNCHANGED capture
    /\ UNCHANGED <<submit, keys, worldVars, auditVars, lock, sweep, mode>>

\* The worker presses Create and vaults what the vendor issued.
WorkerMints(t) ==
    /\ thread[t].pc = "capturing" /\ ~thread[t].refs
    /\ mints' = mints + 1
    /\ Goes(t, [thread[t] EXCEPT !.refs = TRUE])
    /\ UNCHANGED <<rowVars, live, auditVars, lock, sweep, mode>>

\* finalize_captured_credentials: it raises, the values are refused or could not be
\* checked, or they are valid.  The references are in the vault whichever it is.
FinalizeCaptured == {"unfinal", "invalid", "completed"}

\* auto_capture_credentials answers or raises; then the finalization.
CaptureReturns(t, out) ==
    /\ thread[t].pc = "capturing"
    /\ out \in {"lost"} \cup (IF thread[t].refs THEN FinalizeCaptured ELSE {"empty"})
    /\ capture' = CASE out = "lost" -> "unknown" [] out = "empty" -> "empty" [] OTHER -> "vaulted"
    /\ Goes(t, [thread[t] EXCEPT !.pc = "project", !.out = out,
                                 !.refs = out \in FinalizeCaptured])
    /\ UNCHANGED <<row, submit, keys, worldVars, auditVars, lock, sweep, mode>>

\* _AppliedBrowserOutcome: the status and phase each outcome projects.
Projected(out) ==
    CASE out = "gate" -> <<"waiting_for_hitl", "challenge_pending">>
      [] out \in {"blocked", "diverged"} -> <<"blocked", "blocked">>
      [] out = "host" -> <<"configuration_required", "recoverable">>
      [] out = "failed" -> <<"failed", "failed">>
      [] out = "probe" -> <<"browser_running", "target_probe_pending">>
      [] out = "entry" -> <<"browser_running", "entry_reached">>
      [] out \in {"ready", "empty"} -> <<"browser_running", "credential_ready">>
      [] out = "completed" -> <<"completed", "completed">>
      [] out \in {"unfinal", "invalid"} -> <<"configuration_required", "recoverable">>
      [] out \in {"unknown", "stale", "grantless", "reserved", "lost"} ->
            <<"configuration_required", "effect_reconciliation">>

\* What can have become of a page seen as credential_page_ready or
\* developer_console_ready.
PageReached == {"ready", "entry", "diverged", "stale", "grantless", "reserved",
                "lost", "empty", "unfinal", "invalid", "completed"}

\* The projection.  The check under the lock answers before the transaction's
\* own, so the discard that keeps custody of references is never reached.  A
\* login that cannot be promoted replaces whatever came of a page that was reached.
Project(t) ==
    /\ thread[t].pc = "project" /\ lock = "free"
    /\ IF ~Bound(t, Driving, thread[t].key, thread[t].rev)
       THEN /\ Goes(t, Idle) /\ lost' = (lost \/ thread[t].refs)
            /\ UNCHANGED <<row, recorded>>
       ELSE /\ \E to \in {Projected(thread[t].out)} \cup
                         (IF thread[t].out \in PageReached
                          THEN {<<"configuration_required", "recoverable">>} ELSE {}) :
                 /\ row' = [row EXCEPT !.status = to[1], !.phase = to[2], !.rev = @ + 1]
                 /\ IF to[1] \in Stopped
                    THEN Goes(t, [Idle EXCEPT !.pc = "release", !.sess = thread[t].sess])
                    ELSE Goes(t, Idle)
            /\ recorded' = (recorded \/ (thread[t].refs /\ thread[t].out # "unfinal"))
            /\ UNCHANGED lost
    /\ UNCHANGED <<capture, submit, keys, worldVars, lock, sweep, mode>>

ReleaseSession(t) ==
    /\ thread[t].pc = "release"
    /\ live' = live \ {thread[t].sess} /\ Goes(t, Idle)
    /\ UNCHANGED <<rowVars, mints, auditVars, lock, sweep, mode>>

----------------------------------------------------------------------------
(* The sweeps read the row, and write it only as they read it; the two     *)
(* that reconcile look at its status alone, and take no lock.              *)
Parked == row.status = "browser_running" /\ row.phase \notin AwaitingOwner

Unattended == \A t \in Threads : thread[t].pc = "idle"

\* sweep_stale_runs on a parked run, its row unwritten for longer than a call takes
\* to start a thread; the takeover on one that waits at a gate.
SweepReads ==
    /\ sweep.pc = "idle" /\ mode.sweeps
    /\ \/ /\ Parked /\ \A t \in Threads : thread[t].pc # "launching"
          /\ sweep' = [pc |-> "stale", rev |-> row.rev, sess |-> 0]
       \/ /\ row.status = "waiting_for_hitl"
          /\ sweep' = [pc |-> "stop", rev |-> row.rev, sess |-> 0]
    /\ UNCHANGED <<rowVars, worldVars, auditVars, lock, thread, mode>>

\* reconcile_idle_browser_runs: idle for longer than any operation takes.
ReconcileIdle ==
    /\ sweep.pc = "idle" /\ mode.sweeps /\ Parked /\ Unattended
    /\ sweep' = [NoSweep EXCEPT !.pc = "stranded"]
    /\ UNCHANGED <<rowVars, worldVars, auditVars, lock, thread, mode>>

\* reconcile_stranded_runs, some time after a start of the process: whatever
\* runs, and what waits for a browser that the service says is gone.
ReconcileStranded ==
    /\ sweep.pc = "idle" /\ mode.boot
    /\ \/ /\ row.status = "browser_running"
          /\ sweep' = [NoSweep EXCEPT !.pc = "stranded"]
       \/ /\ row.status = "waiting_for_hitl" /\ row.sess \notin live
          /\ sweep' = [NoSweep EXCEPT !.pc = "gone"]
    /\ UNCHANGED <<rowVars, worldVars, auditVars, lock, thread, mode>>

Stops(status, phase, current) ==
    /\ IF current
       THEN /\ Record(status, phase)
            /\ sweep' = [pc |-> "release", rev |-> 0, sess |-> row.sess]
       ELSE sweep' = NoSweep /\ UNCHANGED row
    /\ UNCHANGED <<capture, submit, keys, worldVars, auditVars, lock, thread, mode>>

PauseStaleRunAsRead ==
    /\ sweep.pc = "stale" /\ lock = "free"
    /\ Stops("failed", "failed", row.status = "browser_running")

\* pause_stale_run: an unchanged row that nobody is asked to act on.
PauseStaleRun ==
    /\ sweep.pc = "stale" /\ lock = "free"
    /\ Stops("failed", "failed", Parked /\ row.rev = sweep.rev)

\* _stop_canonical_browser for pause_after_takeover.
StopCanonicalBrowser ==
    /\ sweep.pc = "stop" /\ lock = "free"
    /\ Stops("configuration_required", "recoverable",
             row.status = "waiting_for_hitl" /\ row.rev = sweep.rev)

\* reconcile_one_stranded
ReconcileOneStranded ==
    /\ sweep.pc \in {"stranded", "gone"}
    /\ Stops("configuration_required", "session_lost",
             row.status = IF sweep.pc = "gone" THEN "waiting_for_hitl" ELSE "browser_running")

SweepForgets ==
    /\ sweep.pc = "release" /\ sweep' = NoSweep
    /\ UNCHANGED <<rowVars, worldVars, auditVars, lock, thread, mode>>

SweepReleases ==
    /\ sweep.pc = "release"
    /\ live' = live \ {sweep.sess} /\ sweep' = NoSweep
    /\ UNCHANGED <<rowVars, mints, auditVars, lock, thread, mode>>

(* RunCredentialService.submit_owner_credentials: under the lock from the  *)
(* first check to the last write.  The row is written even when the        *)
(* run-scoped key was taken by an earlier submission, whatever became of   *)
(* that one.                                                               *)
OwnerSubmits(t) ==
    /\ Free(t) /\ lock = "free" /\ OwnerWindow
    /\ row' = [row EXCEPT !.phase = "submission_reserved", !.key = Key("submit", 1), !.rev = @ + 1]
    /\ IF submit = "absent"
       THEN /\ submit' = "pending" /\ lock' = t
            /\ Goes(t, [Idle EXCEPT !.pc = "submitting", !.out = row.phase])
       ELSE UNCHANGED <<submit, lock, thread>>
    /\ UNCHANGED <<capture, keys, worldVars, auditVars, sweep, mode>>

\* The vault refuses; the validator is not configured; or the key is judged.
SubmissionEnds(t) ==
    /\ thread[t].pc = "submitting"
    /\ lock' = "free"
    /\ \/ /\ submit' = "failed" /\ Goes(t, Idle)
          /\ UNCHANGED row
       \/ /\ submit' = "failed" /\ Goes(t, Idle)
          /\ row' = [row EXCEPT !.phase = thread[t].out, !.rev = @ + 1]
       \/ /\ submit' = "completed"
          /\ \E to \in {<<"credentials_ready", "credential_ready">>, <<"completed", "completed">>,
                        <<"configuration_required", "recoverable">>} : Record(to[1], to[2])
          /\ Goes(t, [Idle EXCEPT !.pc = "release", !.sess = row.sess])
    /\ UNCHANGED <<capture, keys, worldVars, auditVars, sweep, mode>>

\* The process dies; rows and browser sessions stay.
ProcessDies ==
    /\ mode.crash
    /\ thread' = [t \in Threads |-> Idle] /\ lock' = "free" /\ sweep' = NoSweep
    /\ UNCHANGED <<rowVars, worldVars, auditVars, mode>>

ThreadStep(t) ==
    \/ ReserveStart(t) \/ RefuseStart(t) \/ SessionOpens(t) \/ BindSession(t)
    \/ ThreadStarts(t) \/ StartFails(t)
    \/ DriveBrowser(t) \/ AdhereToRoute(t) \/ ReserveCapture(t)
    \/ Project(t) \/ ReleaseSession(t) \/ SubmissionEnds(t)
    \/ \E out \in Outcomes : ApplyObservation(t, out) \/ CaptureReturns(t, out)

SweepBegins == SweepReads \/ ReconcileIdle \/ ReconcileStranded

SweepStep == PauseStaleRun \/ StopCanonicalBrowser \/ ReconcileOneStranded \/ SweepReleases

RNext ==
    \/ \E t \in Threads :
          \/ ThreadStep(t) \/ WorkerMints(t)
          \/ ReplayCreate(t) \/ RecoverPristine(t) \/ RetryBrowserRun(t) \/ ResumeRun(t)
          \/ OwnerSubmits(t)
    \/ SweepBegins \/ SweepStep \/ ProcessDies

\* Calls have timeouts, so every thread and every sweep that has begun goes on,
\* and the sweeps are timers; what people do is assumed of nobody.
RFairness ==
    /\ WF_runtimeVars(SweepStep) /\ WF_runtimeVars(SweepReads)
    /\ \A t \in Threads : WF_runtimeVars(ThreadStep(t))

RSpec == RInit /\ [][RNext]_runtimeVars /\ RFairness

----------------------------------------------------------------------------
\* The vendor is made to issue at most one key per run, whatever crashes,
\* sweeps, retries and lost answers happen around the capture.
OneMint == mints <= 1

\* A late worker answer is projected only by the attempt that the row is in.
\* (A replay of a create that is still starting breaks it: see README.)
ProjectsOwnAttempt ==
    [][\A t \in Threads :
          thread[t].pc = "project" /\ thread'[t] # thread[t] /\ row' # row
             => mode.replay \/ thread[t].att = row.att]_runtimeVars

\* A run that waits for its owner is moved by the owner alone (or by a create
\* that is replayed while it starts, or by the sweep of a process that has just
\* started: see README).
OwnerWindowHolds ==
    [][OwnerWindow /\ ~mode.replay /\ ~mode.boot /\ row' # row
          => \E t \in Threads : OwnerSubmits(t)]_runtimeVars

\* A run that the row calls running, with no owner to wait for, does not stay so:
\* a thread takes it on, or a sweep gives the row and its browser back.
ParkedRunIsSwept == Parked /\ mode.sweeps /\ ~mode.crash ~> ~Parked

\* "reconciling it to configuration_required would revoke exactly the
\* browser_running/credential_ready pair that makes the owner's submission
\* acceptable": no sweep moves a run that waits for its owner.
SweepsSpareTheOwner ==
    [][OwnerWindow /\ sweep' # sweep => row' = row]_runtimeVars

\* A browser that the run is not bound to is bound or released in the end.
\* (Replays of a create that is still starting, and a process that dies between
\* the row and the release, leave one behind: see README.)
Stray == \E s \in live : row.sess # s \/ row.status \notin Driving

StrayBrowserIsReleased == Stray /\ ~mode.replay /\ ~mode.crash ~> ~Stray

\* "browser_running plus credential_ready is exactly the pair
\* RunCredentialService.submit_owner_credentials accepts".
OpenWindowAccepts == OwnerWindow => submit = "absent"

\* _record_discarded_credential_custody: "The custody event, always."
CustodyIsKept == lost => recorded

(***************************************************************************)
(* The runtime's runs without a browser: a managed connection, an owner's  *)
(* key published to Composio, and a gated outreach mail.  Each handler     *)
(* holds the per-run lock from its first check to its last write; its      *)
(* provider call is a step of its own, which the process may not survive.  *)
(* The providers replay by effect identity (ManagedAuth, ExternalEffects). *)
(***************************************************************************)

CONSTANTS MaxCalls      \* bound: handler calls

ASSUME ManagedRunAssumption == MaxCalls \in Nat

VARIABLES
    mrow,       \* the run's row: its route, status, phase, connection request
    publish,    \* the ledger row managed-key-publish:v1
    refs,       \* vault references written for the run
    account,    \* Composio: the connected account
    sent,       \* controlled outreach mails sent, and keys published
    handler,    \* the call that holds the lock, and how far it is
    calls

managedVars == <<mrow, publish, refs, account, sent, handler, calls>>

Routes == {"managed_auth", "managed_key", "gated"}

\* create_run for each route kind.
Opening(route) ==
    CASE route = "managed_auth" -> <<"connection_required", "connection_required">>
      [] route = "managed_key" -> <<"route_selected", "key_submission_required">>
      [] route = "gated" -> <<"route_selected", "outreach_review">>

MTypeOK ==
    /\ mrow.route \in Routes /\ mrow.request \in BOOLEAN /\ mrow.bundle \in BOOLEAN
    /\ mrow.status \in {"connection_required", "route_selected", "waiting_for_reply",
                        "completed", "failed", "configuration_required"}
    /\ publish \in {"absent", "pending", "failed", "completed"}
    /\ refs \in 0..1 /\ sent \in 0..1 /\ calls \in 0..MaxCalls
    /\ account \in {"none", "pending", "active", "terminal"}
    /\ handler \in {"none", "connecting", "polling", "vaulting", "publishing", "published",
                   "settling", "sending"}
    /\ handler \notin {"none", "settling"} => mrow.status \notin {"completed", "failed"}

MInit ==
    /\ \E route \in Routes :
          mrow = [route |-> route, status |-> Opening(route)[1], phase |-> Opening(route)[2],
                  request |-> FALSE, bundle |-> FALSE]
    /\ publish = "absent" /\ refs = 0 /\ account = "none" /\ sent = 0
    /\ handler = "none" /\ calls = 0

Begins(route, step) ==
    /\ handler = "none" /\ calls < MaxCalls /\ mrow.route = route
    /\ calls' = calls + 1 /\ handler' = step

Row(status, phase) == mrow' = [mrow EXCEPT !.status = status, !.phase = phase]

----------------------------------------------------------------------------
ConnectManagedRun ==
    /\ Begins("managed_auth", "connecting") /\ mrow.status = "connection_required"
    /\ Row(mrow.status, "connection_starting")
    /\ UNCHANGED <<publish, refs, account, sent>>

\* start_connection: one account per effect identity, replayed when it exists.
ComposioLinks ==
    /\ handler = "connecting" /\ account = "none" /\ account' = "pending"
    /\ UNCHANGED <<mrow, publish, refs, sent, handler, calls>>

ConnectionStarted ==
    /\ handler = "connecting" /\ handler' = "none"
    /\ \/ /\ account # "none"
          /\ mrow' = [mrow EXCEPT !.phase = "waiting_for_connection", !.request = TRUE]
       \/ Row("connection_required", "connection_start_failed")
    /\ UNCHANGED <<publish, refs, account, sent, calls>>

\* The user answers at the vendor, or the request lapses.
UserAuthorizes(to) ==
    /\ account = "pending" /\ account' = to
    /\ UNCHANGED <<mrow, publish, refs, sent, handler, calls>>

PollManagedConnection ==
    /\ Begins("managed_auth", "polling") /\ mrow.status = "connection_required" /\ mrow.request
    /\ UNCHANGED <<mrow, publish, refs, account, sent>>

PolledRow ==
    CASE account = "active" -> <<"completed", "completed">>
      [] account = "terminal" -> <<"failed", "connection_failed">>
      [] OTHER -> <<"connection_required", "waiting_for_connection">>

ConnectionPolled ==
    /\ handler = "polling" /\ handler' = "none"
    /\ \/ mrow' = [mrow EXCEPT !.status = PolledRow[1], !.phase = PolledRow[2],
                               !.bundle = (PolledRow[1] = "completed")]
       \/ Row("connection_required", "connection_poll_failed")
    /\ UNCHANGED <<publish, refs, account, sent, calls>>

----------------------------------------------------------------------------
SubmitManagedKeyAgain ==
    /\ Begins("managed_key", "vaulting") /\ mrow.status = "route_selected"
    /\ publish' = "pending" /\ Row(mrow.status, "key_publish_reserved")
    /\ UNCHANGED <<refs, account, sent>>

\* submit_managed_key up to its reservation: the phase is left by the first
\* submission, and a taken key refuses the second.
SubmitManagedKey ==
    /\ Begins("managed_key", "vaulting") /\ mrow.phase = "key_submission_required"
    /\ publish = "absent" /\ publish' = "pending"
    /\ Row(mrow.status, "key_publish_reserved")
    /\ UNCHANGED <<refs, account, sent>>

KeyVaulted ==
    /\ handler = "vaulting"
    /\ \/ refs' = 1 /\ handler' = "publishing" /\ UNCHANGED publish
       \/ publish' = "failed" /\ handler' = "none" /\ UNCHANGED refs
    /\ UNCHANGED <<mrow, account, sent, calls>>

ComposioPublishes(to) ==
    /\ handler = "publishing" /\ sent' = sent + 1 /\ account' = to
    /\ handler' = "published"
    /\ UNCHANGED <<mrow, publish, refs, calls>>

\* The call raises whether or not Composio has acted; an answer completes the
\* run only when it says ACTIVE.  The effect's row follows in its own transaction.
KeyPublished ==
    /\ handler \in {"publishing", "published"}
    /\ \/ Row("configuration_required", "key_publish_failed") /\ handler' = "none"
       \/ /\ handler = "published" /\ handler' = "settling"
          /\ IF account = "active"
             THEN mrow' = [mrow EXCEPT !.status = "completed", !.phase = "completed", !.bundle = TRUE]
             ELSE Row("configuration_required", "key_publish_incomplete")
    /\ UNCHANGED <<publish, refs, account, sent, calls>>

PublishSettled ==
    /\ handler = "settling" /\ handler' = "none" /\ publish' = "completed"
    /\ UNCHANGED <<mrow, refs, account, sent, calls>>

----------------------------------------------------------------------------
SendGatedOutreach ==
    /\ Begins("gated", "sending") /\ mrow.status = "route_selected"
    /\ Row(mrow.status, "outreach_sending")
    /\ UNCHANGED <<publish, refs, account, sent>>

\* GatedRoute.send_outreach under the run's effect identity.
GmailSends ==
    /\ handler = "sending" /\ sent = 0 /\ sent' = 1
    /\ UNCHANGED <<mrow, publish, refs, account, handler, calls>>

OutreachSent ==
    /\ handler = "sending" /\ handler' = "none"
    /\ \/ sent = 1 /\ Row("waiting_for_reply", "waiting_for_reply")
       \/ Row("configuration_required", "outreach_send_failed")
    /\ UNCHANGED <<publish, refs, account, sent, calls>>

HandlerDies ==
    /\ handler # "none" /\ handler' = "none"
    /\ UNCHANGED <<mrow, publish, refs, account, sent, calls>>

MNext ==
    \/ ConnectManagedRun \/ ComposioLinks \/ ConnectionStarted
    \/ PollManagedConnection \/ ConnectionPolled
    \/ SubmitManagedKey \/ KeyVaulted \/ KeyPublished \/ PublishSettled
    \/ \E to \in {"active", "terminal"} : UserAuthorizes(to) \/ ComposioPublishes(to)
    \/ SendGatedOutreach \/ GmailSends \/ OutreachSent \/ HandlerDies

MSpec == MInit /\ [][MNext]_managedVars

----------------------------------------------------------------------------
\* A run is completed, and carries a bundle, exactly when its account is one
\* that Composio reported ACTIVE; a published key is one the vault holds.
CompletedIsConnected ==
    /\ mrow.bundle = (mrow.status = "completed")
    /\ mrow.bundle => account = "active"
    /\ mrow.route = "managed_key" /\ sent = 1 => refs = 1

\* A process that dies in a handler, and an owner who submits again, publish
\* no second key.
KeyPublishedOnce == mrow.route = "managed_key" => sent <= 1

\* A managed run is completed only on an ACTIVE account of its own, and its key is
\* published once, whatever dies around the call.
ManagedRunSafety == MTypeOK /\ CompletedIsConnected /\ KeyPublishedOnce
===============================================================================
