# A TLA+ verification of the toolkit-onboarding agent

The repository holds an agent that takes an application from "somebody asked for
it" to "its credential is captured, stored, validated and published". It
researches the application, decides whether to log in or to sign up, drives a
browser through the provider's pages, creates a developer application, mints a
credential and records how autonomous it was. It runs as several processes (an
API, workers, a browser service, sweeper threads) over one SQLite ledger and one
vault, and almost everything that is hard about it is hard because a process may
die, a lease may lapse, a person may act, or a provider may answer late, between
any two transactions.

This directory models the system in TLA+, checks it with TLC on small instances
and proves parts of it with TLAPS for every instance. `PROJECT.json` lists the
components, the runs, the source lines behind every definition, the finding, the
hazards and the theorems.

Contents: 1 Inventory, 2 Modules, 3 Runs, 4 Proofs, 5 Divergences,
6 Not modelled, 7 Plan.

## 1. Inventory

### The parts, what they keep and how they meet

| Part | State | Operations | Meets |
|---|---|---|---|
| effect ledger (`ops/core/effect_ledger.py`, `ops/onboarding/effects.py`) | table `external_effects`: key, status, receipt | `reserve`, `complete`, `mark_outcome_unknown`, `mark_failed`, `reconcile_completed`; planning over a reservation | every handler with a provider-visible effect |
| effect-bearing handlers (`ops/browser/signup.py`, `drive_developer_app`, `_stored_reference`, `ops/gmail/worker.py`, `ops/workflow/graph.py`) | the ledger row | reserve, dispatch, close the row or leave it open | ledger, provider, driver |
| managed auth (`ops/providers/composio_managed_auth.py`) | ledger rows of a toolkit's config and of each connection | `start_connection`, `create_api_key_connection`, recovery by alias, adoption | ledger, Composio |
| leases and queue (`ops/onboarding/lease.py`, `lease_store.py`) | tables `onboarding_leases`, `onboarding_queue` | claim, renew, release, enqueue, defer, remove | worker, run creation, takeover |
| onboarding worker (`ops/onboarding/worker.py`) | the turn a thread is in | `claim_and_drive`, `_drive`, `_settle` | leases, queue, driver |
| phase machine, driver and recovery (`ops/onboarding/phase.py`, `driver.py`, `handlers.py`, `recovery.py`) | phase history, run counters, admission decision, reservations, pause requests, autonomy outcome | `drive_run`, one handler per phase, `recover_run`, pause settlement | nearly everything |
| credential phases (`ops/onboarding/credentials.py`, `publishers.py`, `capture_specs.py`, `ops/credentials/validator.py`) | generation and attempt counters, `credential_status`, connection request | capture, store, probe, supersede, publish | driver, vault, managed auth |
| account and recipient (`ops/onboarding/admission.py`, `publishers.py`, `account_binding.py`) | account reference, staged pair, recorded recipient | probe, stage, promote, adopt, bind | vault, signup, verification |
| session binding (`ops/onboarding/browser_session.py`, `ops/browser/service_client.py`) | `runs.browser_session_id` | open, reattach, observe, act, capture | worker, browser service |
| action loop, trace drive, signup form (`ops/onboarding/action_loop.py`, `ops/playwright/worker.py`, `ops/browser/signup.py`) | budgets, session record, form state | observe/decide/act/verify; walk a reviewed trace; fill and send a form | browser service, model, people |
| model decisions and memory (`ops/core/inference.py`, `ops/onboarding/scratchpad.py`, `composition.py`) | breakers, scratchpad documents | ask the chain, record, save, load, reset | action loop |
| verification mailbox (`ops/gmail/worker.py`, `verification_provider.py`, `ops/runs/verification.py`) | two claim ledgers on messages | search, claim, bind, read, type, release | driver, canonical runtime |
| outreach replies (`ops/runs/email.py`) | ingestion claims, follow-up effects, run status | poll, claim, classify, follow up, commit | Gmail, vault |
| gate advancer (`ops/runs/advance.py`) | `run_gate_attempts`, escalation rows | sweep, spend, attempt, escalate | canonical runtime |
| takeover (`ops/runs/takeover.py`, `ops/browser/takeover.py`) | suppressed revisions | poll, decide, continue, pause | browser service, canonical runtime |
| secret store, grants, login vault (`ops/core/secret_store.py`, `api/browser_secret_broker.py`, `ops/runs/login_secrets.py`) | one-time rows, grants, staged and reusable pairs | store, grant, consume, capture, stage, promote, release | canonical runtime, browser service |
| browser service (`browser_service/`) | session registry, slots, displays, relays, HITL generation | create, operate, view, take control, capture, close, janitor | everybody who drives a page |
| canonical runtime (`ops/workflow/canonical_runtime.py`, `ops/runs/reconciliation.py`) | the run row with its revision, capture and submit effects | create, start, project, resume, retry, submit, capture, publish, sweep | API, browser service, vault |
| run intake (`api/service.py`, `ops/recipes/signup_overlay.py`, `ops/research/signup_agent.py`) | idempotency rows, overlays, queue rows | create one run or a batch, replay | canonical runtime |
| planner (`ops/planner`, `ops/runs/service.py`) | `onboarding_run_plans` | plan, validate, adhere, replan | canonical runtime |
| run ledger (`ops/core/storage.py`) | the schema | create, migrate | everybody |
| profiles and research (`ops/providers/profile_*.py`, `ops/research`) | profiles, bindings, research cache | discover, fetch, extract, corroborate, bind; cached enrichment | driver, catalog |
| API, web console, deployment | none they own | authentication, validation, rendering, rollout | services above |

Calls are synchronous within a process. Between processes the only channels are
the SQLite tables (every verb one `BEGIN IMMEDIATE` transaction), HTTP to the
browser service, its broker callback into the API, and the providers. The browser
service is one event loop: what happens between two awaits is atomic there.

### What is hard about it

* *Two callers, one key.* The ledger has no owner column; the browser request of
  a dead or superseded worker may still reach the provider.
* *A lease checked once per phase.* A phase may run for minutes under a lease of
  60 seconds.
* *Decisions taken from what was read.* A walk reads the history once, a sweep
  reads a row and acts on it later, the takeover reads a page and continues a run;
  people and other processes write in between.
* *Several transactions per step.* Counter, effect, boundary, vault row and
  outcome are written separately; a crash falls between any two of them.
* *Answers lost on the way back.* The effect happened, and the caller is told that
  it did not get through: captures, connections, mails, sessions, grants.
* *Replays.* The unique key of the history, the idempotency rows and the effect
  identities turn a second commit into a no-op, which is right after a crash and
  wrong in a loop.
* *Ladders and budgets* that span turns, and are compared before or after they
  are counted.
* *People in the same browser.* A person may take the page between any two steps
  of the agent, and a credential may be on it.

### What makes each part correct

* Ledger and handlers: a key's effect takes hold at most once; the one status that
  authorizes a second dispatch proves that the first did nothing; a phase advances
  only behind a recorded completion.
* Managed auth: one config per toolkit, one connection per identity, receipts that
  name what exists, and what was created is recorded in the end.
* Leases, queue, worker: fenced ownership; effects only by the owner; an unfinished
  run stays queued, and a due run is walked.
* Driver: the operator is asked once; nothing is created without an agreement;
  every prompt is counted; no transition leaves the table; an end is final and gets
  its outcome; a stored credential is not lost to a crash.
* Browser service: slots and displays come back exactly once, no two sessions share
  a display, agent and person never drive together, nobody watches a capture.
* Canonical runtime and vault: one mint per run, late threads and sweeps write
  nothing that is no longer theirs, strays are released, a lost answer leaves one
  vault row, a live run's identity is not given away.
* Mail: a code is used once and for the run it was sent to, a reply is applied and
  answered once, nothing that waits is forgotten.
* Agent loops: no click on a page not read since the last one, "done" only on
  postconditions met on one reading, a form sent once, terms accepted by a person.
* Intake, planner, ledger: one run per member of a replayed batch, a promised run
  is queued, plans form one line, a migration killed midway loses no run.
* Research and evidence: an answer is paid for once, what is served passes the
  policy in force, a profile rests on two texts, a session is driven only after its
  id is durable, a credential's value goes to its vendor and the vault only.

## 2. Modules

| Module | Models |
|---|---|
| `EffectLedger` | the ledger's verbs as operators on one row, and the planner |
| `EffectOnce` | abstract: an effect is performed at most once and stays recorded |
| `ExternalEffects` | five kinds of handler, any number of callers, provider and wire |
| `ManagedAuth` | a managed-auth call, one step per ledger verb or provider request |
| `FencedLease` | abstract: a run changes hands only while free and under a larger token |
| `OnboardingWorker` | the verbs of lease store and queue as operators on one row, with relative time; the worker's turn with `LeaseGuard`; what a phase does is how its step ends |
| `OnboardingPhase` | the transition table and operators on one run's history |
| `OnboardingDriver` | `drive_run`, every phase handler, operators; a behaviour is exposed to one of several regimes (who works, whether a phase may outlast its lease, when operators act) |
| `RunRecovery` | `recover_run`: reservations with their phase, pauses and their settlement, session reattachment, operator reset, rival workers |
| `CredentialProof` | mint, vault, probe, supersede, publish, with two workers in the phase |
| `RunBindings` | the vault probe, the staged pair, its promotion and adoption, the recorded recipient across redeploys and reattachments |
| `SessionBinding` | `ServiceLoopSessionFactory`, `ServiceLoopSession` and `BrowserServiceClient` over a wire that loses requests and answers |
| `ActionLoop` | `run_action_loop` against the page and `_execute_candidate` |
| `ActionCandidates` | one round on a page: what is offered and in which order, what an action is resolved to on the page as it is by then, what the verification concludes |
| `TraceLoop` | `navigate_onboarding`, `resume_after_hitl`, `_drive_action_loop` with the deterministic sign-in |
| `SignupForm` | `drive_signup` and its three drivers, each a chain of find, fill, check and click, over a session's calls |
| `ModelDecision` | `JsonInference.generate` with breakers and budget, and the scratchpad of a run that several workers may walk at once |
| `VerificationMailbox` | one inbox, runs of both engines, two claim schemes |
| `OutreachReplies` | the poller thread, an operator, the intake of one reply |
| `GateAdvance` | the advancer's sweep with its durable budget and escalation |
| `BrowserSessions` | registry, display pool, closers, janitor, worker start and stop |
| `LiveView` | one session's verbs, relays, grants, capture boundary, screenshots |
| `Takeover` | the sweep's probe and decision; extends `LiveView` |
| `CanonicalRuntime` | one browser run: create, replay, retry, resume, drive threads, capture, sweeps, restart; one run without a browser: managed connection, published key, gated mail |
| `SecretStore` | the vault: one-time rows, consume and capture grants, broker, client; staged, supplied and reusable pairs of one app under two runs |
| `RunIntake` | batch creation, replay, overlays, hint and queue rows, restarts |
| `RunPlanning` | plan at admission, validation, adherence, replan |
| `LedgerSchema` | `initialize`: creation and migration of tables, columns and the index of `runs` by several openers, killed anywhere |
| `ProviderResearch` | discovery, election of a domain, fetching, claims, store, binding |
| `Enrichment` | the cached stages of a record's enrichment with key locks and policy |
| `OutsideWorldProofs` | theorems of effects, mailbox, replies and gates |
| `ManagedAuthProofs` | theorems of managed auth |
| `AgentProofs` | theorems of leases and worker, the action loop and its rounds, the trace drive, the signup form |
| `OnboardingDriverProofs` | theorems of the walk of a run |
| `BrowserServiceProofs` | theorems of the session registry, the live view and the takeover |
| `ControlPlaneProofs` | theorems of the canonical runtime, managed runs, grants and login vault, and of their sum |
| `IntakeProofs` | theorems of intake, planning, schema and recovery |
| `EvidenceProofs` | theorems of the session in hand, the run's identity, the credential's proof, enrichment, research and decisions |
| `MC*` | instances for TLC; `MCOutsideWorld` serves `external_effects`, `outreach` |

Actions carry the code's names where the code has one: `ClaimNext` is
`claim_next`, `Settle` is `_settle` with the `except` branch of `_drive`,
`CommitStep` is the driver's single `commit_phase` call, `BeginGmailIngestion` is
`begin_gmail_message_ingestion`, `DecideTakeover` is `decide_takeover`. The `map`
of `PROJECT.json` gives the lines of each. An operator whose comment says
"Mutant", or whose name says what goes wrong (`ClaimableAlways`,
`TimedOutForgiving`), is not part of a specification: it is the plausible bug that
a property must notice when it takes the place of the definition after it.

**How the modules fit.** `ExternalEffects` lets any callers meet on a key, because
`OnboardingWorker` shows that they can when a step outlasts its lease.
`OnboardingDriver`, `CredentialProof`, `SessionBinding` and `RunBindings` abstract
the lease to "another worker may be in the same phase". The driver's `effects`
variable is what `ExternalEffects` proves a row stands for; the managed runs of
`CanonicalRuntime` and `CredentialProof` use managed auth as `ManagedAuth` shows it, replaying by
identity. `Takeover` extends `LiveView`, whose session is one of `BrowserSessions`;
it writes the row that `CanonicalRuntime` owns, which models its stop as a sweep.
`ActionLoop`, `TraceLoop` and `SignupForm` are what the driver's and the runtime's
steps do inside, and `ActionCandidates` is one round of the first two; the driver keeps of them how they end.

**Abstractions.** Keys, receipts, addresses, hosts and identities are model values.
Time is what is left until a deadline, or what has passed within a window. The stale sweep
reads a browser run only once its row is older than its window (30 s at least,
`ops/core/config.py:550`), so `SweepReads` waits for a call that is between binding a
session and starting its thread. A page
is what the inspections can tell of it (`Screens`, `Pages`, `Sheets`); a model's
answer is any answer; mails are who they are for and what they say. External
behaviour (provider, network, model, people) is marked `external` in the map: a
request may land, be refused, be lost, or land after its caller is gone.

**Bounds.** Every bound is a constant used in a guard and named where it is
declared with the word "bound": claims, controls, faults, deaths, drives, replies,
attempts, clocks. Budgets of the code (`LoopBudget`, `DecisionBudget`,
`CredentialBudgets`, `max_autonomous_advances`) are constants of their own.

## 3. Runs

Twelve runs. A run that covers several components is a *sum*: the variable `part`
is chosen in the initial state and never changes, the component it names takes the
steps, the others rest in one of their initial states. A behaviour of the sum is
thus a behaviour of one component, its states are the sum of theirs (not the
product), and a property guarded by `part = ...` says of that component exactly
what it would say alone. Components in a sum share no variable; what they owe each
other is stated above.

| Run | Parts and instance | Properties |
|---|---|---|
| `external_effects` | effects: 2 callers, a key of each of 5 kinds, at most 2 in use; mailbox: 4 runs with 5 resolvers, 2 messages | `AtMostOnce`, `RecordsAreTrue`, `CompletedIsFinal`, refines `EffectOnce` (`ImplementsEffectOnce`); `MailboxSafety` |
| `managed_recovery` | 2 callers, 2 identities, fair | `ManagedSafety`, `ConnectionIsRecorded` |
| `onboarding_worker` | 2 workers, 1 run, TTL 3, interval 1, steps of 1, 4 claims; 1 worker, 2 runs; the first again with steps of 2, which outlast the lease, and 2 claims; fair | `OneLiveWalk`, `OwnerActs`, refines `FencedLease` (`ImplementsFencedLease`), `QueueIsServed` |
| `driver_rivals` | 2 generations; `WholeWalk` (1 worker, all phases, a control between turns, crashes), `Twice` (2 controls, of fewer kinds or over fewer phases) and `Rivals` (2 workers at once up to the account, a control between any two steps) | `WalkSafety`, `RivalsSafety` |
| `driver_progress` | 1 worker, both halves of the walk, 2 generations, 2 controls, fair | `MintSafety`, `DriverIsLive` |
| `browser_service` | registry: 2 sessions, 1 slot, 1 display, 2 requests, janitor; session: a client and a call, 2 gates; the same with two calls, 1 gate; takeover over it, 4 row writes; fair | `PoolSafety`, `ClosingIsTimely`, `ViewSafety`, `TakeoverSafety` |
| `control_plane` | run: 2 threads, 2 attempts, four regimes of replay, crash, sweeps, restart; managed: 4 calls; grants: 2 operations, 2 payloads; login: 2 runs, 3 pairs; sweeps fair | `RuntimeSafety`, `BrowsersAreReleased`, `ManagedRunSafety`, `SecretsSafety`, `LateStepsAreHarmless` |
| `outreach` | replies: 2 runs, 2 replies, 1 round, 1 death; gates: 5 gates, 3 raised, budget 1; fair | `RepliesSafety`, `AdvanceSafety`, `WaitingIsServed` |
| `browser_agent` | loop: 5 controls, 6 pages, 2 postconditions; round: the candidates of a page of up to 10 controls, at most 7 offered, 2 refs, 4 values, 3 of a kind; trace: 7 screens, 2 checkpoints, 2 drives; signup: 13 pages, 3 calls, 3 policies; loops fair | `LoopSafety`, `TraceSafety`, `SignupSafety`, `AgentReturns` |
| `intake` | intake: 2 callers, a batch of 2, 1 restart; planning: 2 threads, 2 recipes; schema: 2 openers, 2 runs, 2 columns, one of them added by ALTER only, 1 death; recovery: 2 workers, 5 boundaries | `IntakeSafety`, `PlanningSafety`, `SchemaSafety`, `RecoverySafety` |
| `evidence` | enrichment: 2 callers, 2 pages, 2 policies; decision: 2 walks of a run, 2 providers, a window of 2 of at most 3 steps; research: 2 walks, 4 pages; session, identity, proof: 2 workers each | `ResearchSafety`, `DecisionSafety`, `BindingSafety`, `ProofSafety`, `MemoryOutlivesCrash` |
| `terminal_race` (violation) | 1 worker, a cancel during a step | `TerminalIsFinal`: a step in flight reopens a cancelled run |

The grouped properties are conjunctions of named ones; each conjunct, with its
statement, stands in the component's module:

* `RecordsAreTrue`: `AdvanceIsRecorded`, `FailedProvesUntouched`.
* `ManagedSafety`: `OneConnectionPerEffect`, `OneConfig`, `ReceiptNamesConnection`,
  `CreatorIsNotRefused`.
* `MailboxSafety`: `CodeIsUsedOnce`, `LeaseIsPinned`, `VerifiedByOwnMessage`, and
  `EmptyHandedMeansClaimed`, an action property.
* `QueueIsServed`: `UnfinishedRunStaysQueued`, `FinishedRunLeavesQueue`,
  `DueRunIsWalked`.
* `WalkSafety`: `SignupIsAuthorized` where nobody extends the standing authorization;
  where one worker walks at a time and operators come between its turns (`Sequential`),
  `CaptchaWithinBudget`, `StoredIsResumedAtValidation`, `KeepsItsEnd`. `RivalsSafety`:
  `AdmissionAskedOnce`, `CountedBeforeAsked`, `NoRefusedStep`,
  `EffectsFollowBoundaries`. `MintSafety`: `MintsWithinBudget`,
  `CompletedIsMinted`, `OutcomeIsCommitted`. `DriverIsLive`: `DecisionIsActedOn`,
  `EndIsRecorded`.
* `PoolSafety`: `CapacityExact`, `DisplaysPartition`, `DisplayIsPrivate`.
  `ClosingIsTimely`: `TimelyActionsAreSpared`, `ClosesInTime`. `ViewSafety`:
  `AgentXorHuman`, `CaptureIsUnwatched`, `DebtIsCurrent`. `TakeoverSafety`:
  `ContinuesWhatWasRead`, `LostSessionIsPaused`.
* `RuntimeSafety`: `OneMint`. `BrowsersAreReleased`: `StrayBrowserIsReleased`,
  `ParkedRunIsSwept`. `ManagedRunSafety`: `CompletedIsConnected`,
  `KeyPublishedOnce`. `SecretsSafety`: `CaptureLeavesOneRow`,
  `UndispatchedIsDiscarded`, `LiveRunKeepsIdentity`, `ReusableWasAccepted`.
  `LateStepsAreHarmless`: `ProjectsOwnAttempt`, `OwnerWindowHolds`,
  `StoppedRunReleasesNothing`, `PromotedIsKept`.
* `RepliesSafety`: `FollowUpsAreBounded`, `CredentialsStoredOnce`, `AppliedOnce`.
  `AdvanceSafety`: `BudgetHolds`, `EscalatedOnce`, `HandBackIsStated`.
  `WaitingIsServed`: `AnsweredRunIsRead`, `TakenUp`.
* `LoopSafety`: `NoBlindClick`, `DoneMeansMet`; of a round `KindsAreServed`,
  `NeedIsServed`, `ActsOnOwnElement`, `SecretsAreNotTyped`. `TraceSafety`:
  `CheckpointsAreProven`, `PlansOffTheWall`. `SignupSafety`: `SubmitsOnce`,
  `HumanSubmitStands`, `AcceptanceIsHuman`. `AgentReturns`: `PhaseEnds`,
  `DriveEnds`.
* `IntakeSafety`: `OneRunPerMember`, `PromisedIsQueued`, `QueuedIsHinted`,
  `RouteIsReviewed`, `AnsweredIsOpen`. `PlanningSafety`: `PlansAreLinear`,
  `StartsOnReviewedRoute`, `ShownIsOnRoute`. `SchemaSafety`: `NoRowIsDestroyed`,
  `OperationsFindTheSchema`. `RecoverySafety`: `SubmittedOnce`,
  `CountCoversSent`, `ReservationHasPhase`.
* `ResearchSafety`: `PaidOnce`, `LocksAreReleased`, `ServedRoutesAreTrusted`,
  `BoundaryNamesProfile`, `ProfileIsCorroborated`. `DecisionSafety`:
  `DecisionFitsBudget`, `WindowIsLatest`. `BindingSafety`: `DrivenIsRecorded`,
  `DrivenIsConfined`, `HandleWasRecorded`, `AccountIsHeld`, `BoundIsComplete`.
  `ProofSafety`: `OneConnectionPerRun`, `CompletedIsPublished`, `ValuesStayHome`.

Each safety group also holds its module's type invariant.

**Why the bounds are enough.** Two actors suffice wherever a row is the only thing
actors share (ledger keys, leases, plans, sessions, messages): a third behaves like
one of the two. Two keys, identities, messages or runs show an actor that moves on
while its old request is on the wire, or that is refused for the other's. TTL 3,
interval 1, step 1 is the tightest schedule that `TimelySteps` admits, so a renewal
that is due, one that fails and one that is forgiven all happen; a step of 2 is the
shortest that can outlast the lease. Four claims of one
run allow a crash, a takeover, a fenced predecessor and a clean turn; two, with the one
the bound still lets through, a takeover under a walk that is still inside its step. Budgets of one
or two are met and would be passed. One slot and one display under two sessions
make every create a contended one. Two attempts of a canonical run are the first
and a retry of it; the regimes separate hazards whose product is out of reach. One
fault falls between any two steps; in `evidence` a behaviour of the enrichment or
the decisions meets one kind of disturbance (a fault, the passing of a TTL, or a
redeployment; a fault, or the whole budget's time): the bounds of the other kinds
are used up before it begins. A window of two of three remembered steps can lose one, swap two
or skip one. Two workers over the whole walk are out of reach, so
they race up to the account; liveness and the budget of mints run on
two halves, the second of which starts from `SignedIn`, the shortest history the
login route leaves. Deadlock is checked in
`onboarding_worker` and `managed_recovery`; elsewhere `CHECK_DEADLOCK FALSE` stands
because a single run that is parked, finished or out of bounds really stops, and so
does a component whose requests are used up.

**Fairness.** The worker polls, so claims and the worker's own code are weakly
fair, and time passes. Strong fairness is assumed where a crash or a failing call
can intervene any number of times but not every time: composing dependencies
(`BeginDrive`), ending a walk (`StepEnds`: the phase table is finite and every
ladder in it bounded), and the driver's claim-to-commit chain. In `ManagedAuth` the
caller keeps asking under the same identity (the connect button and the publication
do) and a lookup succeeds if retried for ever. The janitor, the stale sweep, the
mail poller, the advancer and the takeover are timer threads that call their sweep
for ever, so their steps are weakly fair; a step inside an event-loop handler or a
lock is fair because nothing else can hold it up. The action loop and the trace
drive are fair because every await in them has a deadline. Nothing is assumed of
operators, owners, vendors or pages.

**Mutants.** Every property has one in `PROJECT.json`: a plausible bug in one
mapped definition under which TLC finds it violated. For a property that is a
conjunction of an invariant and an action or liveness part (`MailboxSafety`,
`WalkSafety`, `QueueIsServed`) the mutant breaks the latter.

## 4. Proofs

TLAPS checks the theorems below for every value of the constants that satisfies the
modules' assumptions. These are what the settings validators, the CHECK constraints
and the generation of ids guarantee: that what stands for "nothing" is none of the
things (`ReceiptAssumption`, `RunAssumption`, `NoneAssumption`, `VaultAssumption`,
`RuntimeAssumption`, ...), that bounds and timings are numbers (`WorkerAssumption`,
`MailboxAssumption`, `AdvanceAssumption`, `RepliesAssumption`, `WindowsAssumption`,
`GrantsAssumption`, `ManagedRunAssumption`), that a lease outlasts its renewal interval
(`LeaseAssumption`), that a canonical and an onboarding run are two runs, that a batch
names its apps once and is not empty (`IntakeAssumption`, `api/models.py:410`), and that
the parts of the intake sum have finitely many openers and workers, one at least
(`IntakePartsAssumption`), that there are finitely many workers to prove a credential
(`ProofAssumption`), that the configured providers and adapters are sequences, that a
search result is finite and there is a run to research (`DecisionAssumption`,
`ResearchAssumption`), that a decision's clock moves (`EvidencePartsAssumption`), that the
budgets of a loop are positive and it may ask the model as often as it may act
(`LoopBudgetAssumption`), that pages are made of the controls there are
(`PagesAssumption`, `BrowserAgentAssumption`), and that a deployment has finitely many
workers and positive credential budgets (`DriverAssumption`). Where a constant names the
hazards of an instance (`MailRegimes`, `Regimes`, `LoginRegimes`),
the theorem holds for any set of them, the empty one and all of them included.

A proof module EXTENDS the component's module. Each first states the *inductive
invariant*, as a conjunction of named parts with a sentence each; then one lemma per
action says that the step preserves it; the theorem puts them together.

**Effects** (`OutsideWorldProofs`, about `ExternalEffects`)

* `EffectSafety`, `RecordsStandForEffects`: at most one dispatch takes hold per key; a
  phase advances only behind a recorded completion; `failed` proves that nothing was
  done. `EffectInv` adds that at most one caller is inside a handler of a key
  (`OneAuthorized`), that its row is pending meanwhile (`ActiveIsPending`, which makes
  every close succeed), that nothing was dispatched before the reservation was used
  (`ReservedIsUntouched`) and that a request on the wire is the key's first
  (`WireIsFirst`). Every settling action is one of four ways to leave a handler
  (`SettleIsLeave`), so the induction has five cases.
* `CompletedRowsAreFinal` and `EffectsImplementOnce` (the refinement of `EffectOnce`)
  follow from the same invariant, step by step.

**Messages, replies, gates** (`OutsideWorldProofs`)

* `MailboxIsSafe`: a code is used once and under one run's lease, a verified run was
  verified by its own message, a reader leaves empty-handed only if everything was
  claimed. The heart of `MailInv` is that a reader between claim and end holds the
  claim (`HoldersHold`, `OneHolder`) and that what can be claimed, or is about to be
  given back, was not used (`ClaimableIsUnused`). Parts that a lost answer or a shared
  address breaks are conditional on the regime, as the property is.
* `RepliesAreSafe`: follow-ups stay within the rounds, a reply's credentials are stored
  once, a reply is applied once. `ReplyInv`: a run is in one poller's hands
  (`RunLock`), who works on a reply does so under its live claim (`ClaimedWork`), a
  follow-up that may be sent was not sent (`SentOnce`), the vault row comes with the
  first claim (`StoredWithClaim`).
* `AdvancerIsSafe`: no gate is resumed beyond its budget, a gate is escalated once per
  reason, what was handed back is stated. `AdvanceInv` follows the order of the writes:
  charge before attempt (`ChargedBefore`), marker before row (`MarkedBefore`), and
  without a fault nothing falls between marker and row (`StatedOrAboutTo`).

**Managed auth** (`ManagedAuthProofs`)

* `ManagedAuthSafety`: one config per toolkit, one connection per identity, receipts
  that name what exists. The call that reserved an effect is the only one that may
  send the link request or give the reservation back, and it gives it back only when
  nothing was sent or the provider refused (`LinkInv`, `ConfigInv`).

**Leases and worker** (`AgentProofs`)

* `OwnershipSafety`: no two walks of a run both have time left, long steps included.
  A walk under the stored token holds the row with the stored deadline
  (`CurrentHolds`); one under an older token has outlived its own (`SupersededLapsed`).
* `WalksAreExclusive`, for any timings: while a walk's deadline lies ahead, what it does
  it does as the stored owner, and an unfinished run leaves the queue only if a walk of
  that run outlived its lease (`lapsed`, a history that nothing but the properties reads;
  `Watched` ties it to the walks). `OwnerActs` also says that under `TimelySteps` no walk
  ever does: `AgeBounded` bounds the age of the lease by where the walk is and how many
  renewals failed. The deployment does not guarantee `TimelySteps`: see `OneDriver` below.
* `LeasesAreFenced`: the lease rows refine `FencedLease`, with no assumption on the
  length of steps.

**Browser service** (`BrowserServiceProofs`, about `BrowserSessions`, `LiveView`, `Takeover`)

* `PoolIsSafe`: slots are counted exactly, a display is free or leased to one session,
  and (with one closer at a time) no two Chromiums share one. What is neither obvious nor tested is that `PoolInv`
  must know that nobody closes or lists a session that is still launching
  (`LaunchIsPrivate`), that the operation counter is the number of requests inside
  (`OperationsAreCounted`), and to whom a running Chromium belongs while it is being
  taken down (`ChromeIsHosted`).
* `ActionsAreSpared`: where operations end within the drain, the worker forgets a
  session only with no operation in flight.
* `ViewIsSafe`, for any number of calls open at once: agent and person never drive a
  page together and nobody watches a capture, unless the call in question was crossed by
  a second one that put the gate up, or the pixels back, while it was open. A driving
  call has revoked the gate before it drains, and people, grants and the sweep cannot
  raise it (`RevokesGate`); from the boundary on pixels are off and after it nobody is
  attached (`RevokesPixels`). `crossed` is a history that nothing but the properties
  reads; with one call at a time, which is how the control plane uses the service, it
  stays empty, and the theorem says that too. The service does not enforce it, see
  section 5. The types and `DebtIsCurrent` hold in every case (`ViewInv`).
* `ContinuesTheObservedPause`: `ContinuesWhatWasRead` for any number of calls; the
  revision compared under the lock and the generation named in the resume carry it,
  and whoever decides has a report (`ReportIsThere`).

**Control plane** (`ControlPlaneProofs`)

* `ManagedRunIsSafe`: a completed managed run is connected, a pasted key is published
  once (`OnItsRoute`, `VaultedBefore`).
* `GrantsAreSafe`, `StoppedRunsAreSilent`: one capture leaves one vault row whatever
  answer is lost; a secret that was not dispatched is discarded; a stopped run releases
  nothing more to a browser. Until its dispatch a payload is in nobody's hands
  (`UndispatchedIsNew`), then in those of one operation (`DispatchedOnce`).
* `VaultIsSafe`, `PromotedStays`: a live run's staged identity is not given away, a
  reusable pair was accepted by the vendor, a promoted pair is kept. A claimant has not
  begun (`ClaimantIsNew`), and without the race the holder it examined is still
  finished when its pair is released (`HolderStaysFinished`).
* `OneKeyIsMinted`: a browser run creates at most one key, with replays, crashes,
  sweeps and restarts (`CaptureIsHeld`).
* `AnswersFindTheirAttempt`: without replays, a thread writes what it saw only into the
  attempt it saw it in. `AttemptInv`: one thread starts (`OneStarter`), one drives an
  attempt (`OneDriver`), nobody writes the row beside a starter (`Starts`), nor beside a
  thread that is being started for a bound session (`StartsBesideLaunch`), and the row
  names an operation of its own attempt (`RowIsItsAttempt`).
* `OwnersAreWaitedFor`: without replays and restarts, the window of an owner is not
  revoked under them (`WindowInv`: no thread's answer is one that the parked row would
  take, and the sweep only acts on a parked run that nobody attends or whose row was
  bound long ago, `SweptIsOld`).
* `RuntimeIsSafe`, `SecretsAreSafe`, `LateStepsDoNoHarm`: the properties of the run
  `control_plane`, for its own specification. A behaviour of the sum is projected onto
  each part's specification (`PartsOfControlPlane`), where the theorems above apply.

**Intake, plans, schema, recovery** (`IntakeProofs`, about the sum `MCIntake`)

Each part of the sum has an invariant of its own, and the theorem says that a behaviour
whose `part` it is keeps it.

* `IntakeIsSafe`: a batch leaves one run per member however it is replayed or raced, a
  promised run is queued and carries its hint. `IntakeInvariant`: a request names a run
  that exists (`RunsExist`), a route about to be committed passed the overlay under the
  catalog in force (`RoutesInHand`), the hint is written before the queue row
  (`HintPrecedesQueue`), and until a restart a run without its opening boundary has the
  create that owes it (`OpenIsOwed`).
* `PlanningIsSafe`: one line of at most two plans, a session only starts on a plan the
  recipe in force admits, a page is shown as on the way only if it is on a host of the
  plan it was held against. The plan is read again for each question, without a lock;
  what makes that safe is that every plan after the first comes with a new revision of
  the run, so while a thread's revision is the run's, the active plan is the one it
  compares with (`Stands`, `StandsStill`). `ReviewedRoute` shows that the fallback names
  a surface at least, from `NthOfSet`, the n-th element of a set of naturals. The recipes, pages and
  model answers are those of the instance.
* `SchemaIsSafe`: no row of a rebuilt table is destroyed, wherever an opener is killed
  (it may end up in the renamed predecessor, see `RowsArePreserved` in section 5); none is
  let through before the columns and the CHECK are there, or with a table of the old
  form; a rebuilt table or the index is missing only behind another opener that is
  between taking it away and putting it back, or died there (`TablesStand`,
  `IndexStands`). `SeenIsThere` is why a snapshot of the columns taken outside any
  transaction may be used: columns are only ever added.
* `RecoveryIsSafe`: one submission per effect for any number of rival workers. A worker
  is told to submit by the transaction that found no reservation, so there is one of
  them per effect and nothing was sent (`OneAuthority`), and a phase that bears an effect
  is entered only with the effect reserved, by history, pause, worker and operator alike
  (`EffectsAreKnown`). `PromptsAreBounded` says how far the count of CAPTCHA prompts can
  pass its budget: by one less than there are workers.

**Sessions, identity, proof, research, decisions** (`EvidenceProofs`, about the sum `MCEvidence`)

Six invariants, one for each part. A lemma per action moves one actor to a place that
stands (`Drives`, `Signs`, `Publishes`, `Enriches`, `Researches`, `Decides`) over a
ledger that stands, and the theorem is again that a behaviour keeps its part's.

* `BindingIsSafe`: a browser session is driven only after its id was made durable, under
  an allow-list the service confirmed, and a handle is of a session that was recorded;
  an account is registered with the pair its run has staged; the login route binds
  complete pairs. `SessionInvariant` relates what a worker has in hand to what it
  recorded and to what the row holds: the worker that reattaches read the id from the
  row (`Drives`, `Kept`). `IdentityInvariant` needs that a staged pair is never
  replaced while an account hangs on it (`Signs`).
* `ProofIsSafe`: one connection per run, a completed run's is published, a credential is
  sent to its vendor's endpoint and to the vault only. All generations publish under one
  effect identity; `Publishes` says that the worker at the link is the only one there
  (the reservation lets one in), that the one past it has a connection to record, and
  that every generation on the way was proven by a probe. `CompletedIsPublished` follows
  from the order of the three writes (`ProofLedger`).
* `ResearchIsSafe`: an answer is paid for once, no key is left locked, a served route was
  grounded under the policy in force, a profile at the boundary is the bound one, and its
  fields rest on enough different texts. `EnrichmentInvariant` says which keys a caller
  holds at each place (`Holds`: the outcome's from its second look on, an inner one while
  it asks), so a lock is its caller's and is given back on every way out, and that who
  asks missed the cache under the lock. `ResearchInvariant` counts the texts over all
  pages ever served, which only grow (`Backed`). Callers, keys, policies,
  walks, runs, adapters and the pages the web serves are any.
* `DecisionIsSafe`, `MemorySurvivesCrash`: a decision ends by its deadline for any chain,
  slices and number of runs that share the breakers: a slice is cut to what is left, and
  time does not pass a wait that is over (`Decides`). The window of the phase memory is
  its latest steps, whichever of the run's walks saved it (`Latest`, `WithStepIsLatest`).
  What is stored never exceeds what a walk remembers that could read it and has had no
  rival (`Remembers`), so its save only adds: the memory shrinks by an operator's reset, by
  a walk that began without reading it, or by one of two that overlapped, and in no other
  way. The last is what the code allows, see section 5.

**Page agents** (`AgentProofs`, about the sum `MCBrowserAgent`)

* `LoopIsSafe`: nothing is clicked on a page that was not read since the last touch, and
  "done" means postconditions met on one reading. `LoopInvariant` says at each place of the
  loop what it relies on (`Relies`: the page of its last reading, a budget for what it is
  about to spend) and that a loop that goes on has a refusal, a decision and an action
  left to fail (`GoesOn`). Of a round, `RoundInvariant` and lemmas on the ranking of
  candidates: the n-th of a set of naturals (`NthOfSet`), every kind's first candidate
  is within the offer (`FirstsAreServed`, `EveryKindIsServed`), as long as an
  input is empty, filling an empty one is on offer (`EveryNeedIsServed`), and what a
  candidate is resolved to is shown on the page by then, an element that is still shown
  finding itself (`Resolution`).
* `TraceIsSafe`: a checkpoint is only reached on the page that proves it, and a plan is
  made off the login wall. `TraceInvariant`: what was typed was typed by the drive that
  goes on, and what is planned on is the page unless it moved by itself.
* `SignupIsSafe`: a form goes out once, one that a person sends is left to them, terms
  are accepted by a person. `SignupInvariant`: every step that went out is remembered by
  the session as sent (`Remembered`), and a call is only about to submit a step that has
  not gone out and that nobody was asked to send (`MaySend`).

**The walk** (`OnboardingDriverProofs`, about `OnboardingDriver`)

Any number of workers, any budgets, any set of regimes, and operators, crashes and
raising handlers at any place the regime lets them.

* `RivalsAreSafe`, in every regime: the owner is asked once per prompt recorded, every
  CAPTCHA pause is counted before it is asked, no commit is refused by the transition
  table, no effect runs ahead of its boundary. `DriverInvariant`: a step that waits for its
  commit is one the table admits, as is an operator's (`InPlace`, `PlanShape`); who walks a
  phase was led there by a durable boundary (`Reached`); and the pauses in the history
  and those about to be committed (`Asking`) are together no more than the counter says.
* `MintIsSafe`, where a phase does not outlast its lease: minted credentials stay within
  their generations, a completed run was minted, the outcome names a phase it reached.
  `SoleInvariant`: whoever is not at rest is the owner, hence alone (`AloneAtWork`), and
  the generation in its hands is the one in the counters (`Settled`, `Budgeted`). Stated
  of `HalvesSpec`, whose further initial states cover those of `Spec`.
* `SignupNeedsDecision`: where nobody extends the standing authorization, an account is
  only made on a recorded decision. `RouteInvariant` follows that agreement through
  history, walks and the operator's plan (`Agrees`).
* `EndIsFinal`: where operators come between a worker's turns, a run keeps its end. A
  request stands only while nobody walks and the run has not ended (`EndInvariant`).
  `terminal_race` shows that the hypothesis is needed.
* `WalkIsSafe`: the whole of `WalkSafety`, for any number of generations.
  `LineInvariant`: within an attempt a history goes to later phases (`Rank`, `Ordered`),
  and a walk is where its run stands or replays storage boundaries (`Follows`, `Paired`).
  `StoredIsResumedAtValidation` speaks of the first credential, the one whose storage
  boundaries are new rows of the history; a later generation finds them there and its
  replay leaves the resumption where it was (section 5).

The theorems about `MCIntake`, `MCEvidence`, `MCBrowserAgent` and those that end the
control plane are about a sum; all others are about the component's own specification, and
the runs check the same definitions as parts of a sum.

**Only model-checked.** Liveness (`ConnectionIsRecorded`, `QueueIsServed`,
`ClosesInTime`, `LostSessionIsPaused`, `BrowsersAreReleased`, `WaitingIsServed`,
`AgentReturns`, `DriverIsLive`), since fairness and ENABLED are beyond the prover. Every
other property of a passing run is stated by a theorem.

What the proofs changed in the models: the registry's invariant fails for a maximal age
of zero, which the service's settings refuse, so `WindowsAssumption` asks for one; a
launch that outlasts the inactivity window would be closed under its starter, so `Tick`
states the bound; `ManagedAuth` starts from any set of earlier connections instead of
none; a poll takes the oldest waiting runs of any set of runs; `RunRecovery` records a
CAPTCHA pause in a step after the one that compares the count, as the code does;
`RecipeRoutePlan`, and in `ActionCandidates` the orders of what is offered, are stated by
the places of their elements, since what a recursive selection or a library sort returns
cannot be proved; the guards of a proof's steps exclude each other; the sites, pages and
texts of the page agents and of the research are constants with their assumptions instead
of definitions of the instance, and `Stated` takes any set of them; the regimes of
`OnboardingDriver` are a variable chosen in the initial state instead of constants, so one
run has both and the theorems hold for any set of them.

## 5. Divergences

Where a comment, a docstring or a requirement says more than the code does. One is
kept as a run, `terminal_race`. The others are formulas of the modules that no cfg
names; each is violated when added to the cfg of the run that holds its component
(as `INVARIANT` or `PROPERTY`; through the alias in the MC module where there is
one, otherwise with a one-line alias `X == I!X`), under the constants given there
unless others are named.

| Formula | Where | What the text says | What happens |
|---|---|---|---|
| `OneDriver` (`OnboardingWorker`, `MaxStep = 5`) | `lease.py:3`, `action_loop.py:122` | "a run is driven by exactly one worker at a time" | a phase outlasts its lease; the second worker claims while the first is inside it |
| `RefusedLinkIsReleased` (`ManagedAuth`) | `composio_managed_auth.py:686`, `:700` | "Leaving it pending is the trap this arm exists to avoid" | a failed re-read in the adoption leaves the row pending |
| `AutonomousMeansUnprompted` (`OnboardingDriver`) | `driver.py:2512`, `:2641` | a run that needed a CAPTCHA pause is operator-assisted | the verdict reads this turn's prompts only |
| `AdvancedIsVerified` (`VerificationMailbox`) | `driver.py:3057` | "this run already consumed the message on an earlier attempt" | another run of the address consumed it |
| `ReleasedIsUnused` (`VerificationMailbox`) | `ops/runs/verification.py:376` | the failures "happen before the browser accepts the one-time value" | the answer is lost after the code was typed; it is typed again |
| `AgentXorHuman`, `CaptureIsUnwatched` (`LiveView`), over all `Calls` instead of those not in `crossed` | `browser_service/main.py:494` | "the agent is driving" and "a person is driving" are never true at the same moment | the gate is revoked once, before the drain; a second open call that meets a gate raises it again while the first still runs |
| `FrameIsCurrent` (`LiveView`) | `ops/playwright/worker.py:3230` | never "a STALE frame from a previous page" | the frame is taken before the page moves and served after |
| `ClearedRunIsContinued` (`Takeover`) | `ops/runs/takeover.py:186` | continues "the ones a human has cleared" | a probe's suppression outlives the clearance |
| `JanitorSparesActions`, `ClosingSessionCloses` (`BrowserSessions`) | `session_manager.py`, `main.py` | the janitor never closes a session in the middle of an action; a failed closer is retried | the drain is bounded, an operation may outlast it; a failing operation erases the retry's mark |
| `SweepsSpareTheOwner`, `OpenWindowAccepts`, `CustodyIsKept` (`CanonicalRuntime`) | `canonical_runtime.py:318`, `:1968` | no sweep revokes the owner's window; the window accepts a submission; custody is always recorded | a retried submission is refused by its own reservation; the custody row's write may fail with the projection |
| `IdentityIsExclusive`, `ReusableIsProven`, `AccountIsReachable` (`SecretStore`) | `login_secrets.py:219`, `canonical_runtime.py:2978` | a live run keeps its identity; a pair is promoted on positive evidence | status and release are separate transactions; an owner who signs in by hand promotes a pair that was never accepted |
| `UnreviewedGateWaits`, `LostRowIsRecovered` (`GateAdvance`) | `advance.py:5`, `:495` | an unreviewed gate never advances; a lost escalation row is re-derived | the gate changes between classification and attempt; the marker is spent before the row |
| `ActsOnNewRepliesOnly`, `OldestFirstDrains` (`OutreachReplies`; `PollBudget = 1`) | `ops/runs/email.py:271`, `:296` | acts on new replies only; oldest first drains | commit and completion are two writes; a run that keeps failing holds its place |
| `ActsOnPlannedPage` (`ActionLoop`) | `ops/playwright/worker.py:2152` | an action runs on the page it was planned on | the recheck and the click are two awaits |
| `ClicksAreReversible` (`ActionCandidates`) | `ops/browser/candidates.py:123` | "Intents a bot must never perform autonomously" are not performed | the ref is resolved again before the click, by weaker tiers that ignore the role; what it lands on is not asked for its risk |
| `FillsCount` (`ActionCandidates`) | `ops/browser/candidates.py:465` | "the form finishes in ceil(n / share) iterations" | a `fill` has no postcondition and leaves path and names alone, so every successful one counts as a failed action |
| `MatcherNeverSeesLogin` (`TraceLoop`) | `ops/playwright/worker.py:1236` | the matcher is never asked to interpret a login page | it is when secrets are in hand or the page moved |
| `CompletionIsProven` (`SignupForm`) | `ops/browser/signup.py:1849` | completed once the page advanced or a gate showed | a missing form counts as well |
| `OperationsFindTheSchema` (`LedgerSchema`), without `Renaming` and `Indexing` | `storage.py:261`, `:615`, `:2095` | "Safe to run on every open" | an opener that looked at the tables early renames or drops again what another one uses: "no such table" until it has put it back |
| `MemoryOutlivesCrash` (`ModelDecision`), without `shared` | `scratchpad.py:84`, `:230`, `storage.py:3733` | "A restart therefore resumes the phase's REASONING" | a save replaces the document under no lease and no revision; a walk whose lease lapsed puts an older memory over its successor's |
| `RowsArePreserved` (`LedgerSchema`) | `storage.py:261`, `:611` | "Safe to run on every open", "Rows are preserved exactly" | two openers, or a kill between rename and copy, leave rows in the renamed table |
| `FallbackIsAdmissible`, `PlannedIsDeclared` (`RunPlanning`) | `decide.py:307`, `validator.py:1` | the reviewed route is admissible; every planned surface is declared | the recipe's and the plan's validators disagree; hosts and paths are compared apart |
| `DrivesSignedIn` (`RunRecovery`) | `driver.py:4689` | no authenticated phase on an anonymous session | a session that expires between reattachment and drive |
| `ServedEvidenceIsTrusted` (`Enrichment`) | `operational_research.py:799` | "newly off-policy rows are misses" | the cached outcome's documents are not compared with the policy |
| `ReattachesRecorded`, `UnreachedIsUntouched`, `CapturesProvenPage` (`SessionBinding`) | `browser_session.py:313`, `:410`, `service_client.py:972` | a second worker reattaches; "Nothing was attempted"; an arming describes the page it was proven against | both workers read an empty row; the answer was lost, not the request; the page moved after the arming |
| `VerifiesOwnAddress`, `RebindsSameReferences` (`RunBindings`) | `publishers.py:650`, `:330` | a rotated alias does not retarget a run; a re-driven re-route promotes nothing | a signup driven again records the new alias; two workers both promote |
| `RetiredIsNotPublished`, `MintsWithinGenerations` (`CredentialProof`) | `credentials.py:899` | a superseded credential is never published; generations are budgeted | a rival retires what the first worker is about to publish; both move the counter |

Formulas over the driver and the worker that can be added to their modules in the
same way:

* *An open effect is never reconciled* (`ExternalEffects`). `drive_developer_app`
  says of an open reservation "so the next arrival reconciles"; the next arrival
  pauses. With fair callers and provider,
  `(effects[k] = 1 /\ row[k].status # "completed") ~> row[k].status = "completed"`
  fails for a developer application.
* *A late settlement drops an open run* (`OnboardingWorker`, steps that outlast the lease):
  `UnfinishedRunStaysQueued` over all `Runs`, not only those outside `lapsed`, fails;
  `_settle` removes the row under no lease.
* *The operator's resume leaves the deferral* (`OnboardingWorker`):
  `[][\A r \in Runs : life[r] = "waiting" /\ life'[r] = "open" /\ walk' = walk => Due(queue'[r])]_vars`
  fails: only the takeover enqueues, although `worker.py` says both do.
* *A pause request does not stop a walk* (`OnboardingDriver`, a regime that is
  `concurrent` with control `pause`): `[][\A w \in Workers : walk[w].pc = "top" /\ pauseOpen => walk'[w].pc # "drive"]_vars`
  fails: `pause_requested` has no caller.
* *A second generation's storage boundaries are replays* (`Generations = 2`):
  `StoredIsResumedAtValidation` without `walk[w].gen = 0` fails. The boundaries of a
  replacement are already in the history, so a worker that dies after storing it is not
  resumed at its validation.
* *Signup against the recorded decision* (a regime with controls `decide`, `reset`,
  `authorize`): `SignupIsAuthorized` fails because `VaultCheckPhaseHandler` takes its route from
  its probe and ignores the row that won.
* *A re-routed login without references* (control `retry`):
  `[][\A w \in Workers : At(w, "route_selected_login") /\ walk'[w].pc = "commit" => login']_vars`.
* *A duplicate account waits for a mail*:
  `\A w \in Workers : At(w, "email_verification") => effects.signup # "duplicate"`.
* *A CAPTCHA pause with an open effect*:
  `ResumptionPhase(hist) = "captcha_paused" => effects.signup # "open"`.
* *The CAPTCHA bound under two workers* (a regime with `longSteps`): `CaptchaWithinBudget`; count
  and comparison are two transactions (`driver.py:4018`, `:4031`), although the comment
  between them says that "the count cannot creep past the bound". `RunRecovery` has the
  same two steps, and the bound that does hold is proved (`PromptsAreBounded`).

Read in the code while modelling, and visible in a model as a behaviour but in no
formula:

* Canonical runtime: a managed or gated run that crashes between its row and its
  opening boundary never gets a history; a create that is still starting and its
  replay can open two browsers; a crash between a row write and a release leaves a
  browser to the janitor; a key-publication crash leaves `key_publish_reserved`;
  a failed finalisation projects no references.
* Browser service: concurrent closers of one session can free a display twice over
  a running Chromium (`DisplayIsPrivate` is stated for one closer at a time); the
  janitor lists expired ids once per sweep; an owner's resume that is refused
  before its action parks the run under generation 0.
* Vault and mail: a re-promotion by an older run can revert a rotated pair; the two
  claim ledgers do not see each other, so a canonical and an onboarding run can use
  one message; a broker failure completes a claim whose code was never typed; only
  the latest reply of a thread is read; a follow-up without a configured recipient
  raises on every poll.
* Agent: a 504 of `act` is reported as blocked though the click may have landed;
  captcha pauses are not counted against login handoffs; two branches of the signup
  form's `human_submit_pending` are unreachable.
* Research and models: a pinned run builds its own breakers at each walk; an
  unreadable scratchpad is replaced by a fresh one; an outage of the contents stage
  and a failed extraction are cached for the TTL.
* Recovery: a pause that settles a stale reading can turn a completed reservation
  back to `outcome_unknown`; a replayed boundary over a failed row reports
  `execute`; `recover_run`, `retain_session`, `release_run` and `LoginRouteHandler`
  have no production caller at this commit.

## 6. Not modelled

Listed in `PROJECT.json` with reasons. In short:

* page reading, host policy, recipes, access routing and field matching are (but for
  the candidates of a page) pure functions from a DOM or a table to an input of `ActionLoop`, `TraceLoop`,
  `SignupForm` and `CanonicalRuntime`; they keep no state;
* HTTP clients, egress, process isolation, token signing and encryption are I/O and
  cryptography; redaction is text filtering;
* the legacy execution path (`runs/creation.create_run`'s body, `resume_run`,
  `browser_execution`, `graph`, `run_m6_credentials`) is not reached from the API
  of this commit; only the graph's reservation is modelled;
* the projection of a phase onto the coarse run status, audit rows, telemetry,
  listings and paging are written and not read by the control;
* the web console and the deployment scripts keep no state of the system.

## 7. Plan

Done: the ledger and its handlers, leases and worker, driver and recovery, managed
auth; browser service, live view, takeover; canonical runtime, managed runs,
grants, login vault; mailbox, replies, advancer; action loop, trace drive, signup
form; intake, planner, schema; research, decisions, bindings, credential proof.
Proved: the safety of each of them.

Next theorems:

1. Where a run is resumed whose second credential was stored: `StoredIsResumedAtValidation`
   for later generations needs storage boundaries that carry their generation.
2. The driver's `effects` as a refinement of what `ExternalEffects` proves of a row.
3. Bounds for the divergences of section 5, as `PromptsAreBounded` is one: how far a rival
   can pass the budgets of CAPTCHA pauses and generations.

Next models: the API's authentication state (enrolment and sessions), and backup and
restore of the ledger and the vault against a running deployment.
