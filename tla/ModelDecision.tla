--------------------------- MODULE ModelDecision ---------------------------
(***************************************************************************)
(* What a walk asks a model, and what it remembers of the answers.         *)
(*                                                                         *)
(* One decision is JsonInference.generate (ops/core/inference.py): the     *)
(* providers are asked in order, each for its slice of the decision's      *)
(* budget, and a provider that failed twice is skipped while its breaker   *)
(* is open.  Runs on the deployment's chain share its breakers; a run with *)
(* a pinned model builds a chain, and breakers, of its own each time its   *)
(* walk is composed (ops/onboarding/composition.py deps_for).  The steps   *)
(* of a phase are kept in a scratchpad (ops/onboarding/scratchpad.py) that *)
(* is saved after each one and loaded by the next walk.  A run whose lease *)
(* lapsed is walked by two workers at once: each has its own memory, and   *)
(* each save replaces the whole document.                                  *)
(*                                                                         *)
(* Time passes only while providers are being waited for.  Walks may die   *)
(* between any two steps, a ledger write or read may fail, and an operator *)
(* may reset a run while its walk goes on.                                 *)
(***************************************************************************)
EXTENDS Integers, Sequences, SequencesExt

CONSTANTS
    Runs,           \* the runs being walked
    Workers,        \* who walks them
    Order,          \* the configured providers, in the fixed order
    Selections,     \* what a run's model selection may name: a provider or "none"
    TotalSeconds,   \* DecisionBudget.total_seconds
    ProviderSeconds,\* DecisionBudget.provider_seconds
    MaxProviders,   \* DecisionBudget.max_providers
    Cooldown,       \* how long a tripped breaker stays open
    MaxSteps,       \* MAX_STEPS, the scratchpad's window
    MaxClock,       \* bound: how long a behaviour lasts
    MaxTotal,       \* bound: steps remembered in a phase
    MaxFaults       \* bound: deaths, lapsed leases, failed reads and writes, resets

Providers == ToSet(Order)

DecisionAssumption ==
    /\ {TotalSeconds, ProviderSeconds, MaxProviders, Cooldown, MaxSteps} \subseteq Nat \ {0}
    /\ {MaxClock, MaxTotal, MaxFaults} \subseteq Nat
    /\ Order \in Seq({Order[i] : i \in DOMAIN Order})
    /\ Selections \subseteq Providers \cup {"none"}

Threshold == 2                      \* record_failure's threshold

VARIABLES
    clock,      \* time.monotonic()
    breaker,    \* _breakers: per chain and provider
    walk,       \* per worker: the run it walks, its decision and its memory
    stored,     \* onboarding_phase_scratchpads: one document per run
    pinned,     \* model_selection: fixed when the run is created
    faults      \* faults so far

decisionVars == <<clock, breaker, walk, stored, pinned, faults>>

\* A run without a selection asks the deployment's chain, a pinned one the chain
\* its walk composed.
Chains == Workers \cup {"deployment"}
ChainOf(w) == IF pinned[walk[w].run] = "none" THEN "deployment" ELSE w

\* build_json_inference: a pinned provider goes to the front of the fixed order.
Backends(r) ==
    IF pinned[r] = "none" THEN Order
    ELSE <<pinned[r]>> \o SelectSeq(Order, LAMBDA p : p # pinned[r])

Closed == [failures |-> 0, openUntil |-> 0]
Fresh == [total |-> 0, steps |-> <<>>]           \* PhaseScratchpad.for_goal
Away == [pc |-> "away", run |-> "none", next |-> 1, attempted |-> 0, deadline |-> 0,
         due |-> 0, memory |-> Fresh, blind |-> FALSE, shared |-> FALSE]

Memories == {m \in [total: 0..MaxTotal, steps: SeqOf(1..MaxTotal, MaxSteps)] : Len(m.steps) <= m.total}

DecisionInit ==
    /\ clock = 0 /\ faults = 0 /\ pinned \in [Runs -> Selections]
    /\ breaker = [c \in Chains |-> [p \in Providers |-> Closed]]
    /\ walk = [w \in Workers |-> Away]
    /\ stored = [r \in Runs |-> Fresh]

Fails(n) == faults + n <= MaxFaults /\ faults' = faults + n

----------------------------------------------------------------------------
(***************************************************************************)
(* The scratchpad.                                                         *)
(***************************************************************************)

\* The last MaxSteps of a window.
Window(steps) == IF Len(steps) > MaxSteps THEN SubSeq(steps, Len(steps) - MaxSteps + 1, Len(steps)) ELSE steps

\* with_step: the step takes the next index and pushes out the oldest.
WithStep(m) ==
    [total |-> m.total + 1, steps |-> Window(Append(m.steps, m.total + 1))]

\* The ledger's verbs: one document per run and phase, replaced as a whole.
ReadPhaseScratchpad(r) == stored[r]
SavePhaseScratchpad(r, m) == stored' = [stored EXCEPT ![r] = m]
ClearPhaseScratchpads(r) == stored' = [stored EXCEPT ![r] = Fresh]

\* from_document bounds the window again and never counts fewer steps than it
\* holds.
FromDocument(m) ==
    [total |-> IF m.total < Len(m.steps) THEN Len(m.steps) ELSE m.total, steps |-> Window(m.steps)]

\* load_scratchpad: a row that was never written, or cannot be read, is a fresh
\* scratchpad.
LoadForgets(r, readable) == Fresh
LoadScratchpad(r, readable) == IF readable THEN FromDocument(ReadPhaseScratchpad(r)) ELSE Fresh

\* The other walks of a run: a lease that lapsed lets a second worker in while the
\* first goes on.
Rivals(w, r) == {v \in Workers \ {w} : walk[v].run = r}

\* deps_for and the loop's opening: the walk composes its chain, whose breakers are
\* closed, and loads what was last saved.  "shared" keeps for the properties that a walk had a rival.
StartWalk(w) ==
    /\ walk[w].pc = "away"
    /\ \E r \in Runs, readable \in BOOLEAN :
         /\ Fails((IF readable THEN 0 ELSE 1) + (IF Rivals(w, r) = {} THEN 0 ELSE 1))
         /\ walk' = [v \in Workers |->
                       IF v = w
                       THEN [Away EXCEPT !.pc = "think", !.run = r, !.blind = ~readable,
                                         !.shared = Rivals(w, r) # {},
                                         !.memory = LoadScratchpad(r, readable)]
                       ELSE IF v \in Rivals(w, r) THEN [walk[v] EXCEPT !.shared = TRUE]
                       ELSE walk[v]]
    /\ UNCHANGED <<clock, breaker, stored>>

\* A walk that ends takes its memory and the chain it composed with it.
EndWalk(w) ==
    /\ walk' = [walk EXCEPT ![w] = Away]
    /\ breaker' = [breaker EXCEPT ![w] = [p \in Providers |-> Closed]]

\* remember and save_scratchpad: the step is added to the walk's memory, and
\* the whole document replaces the stored one, whoever saved that, unless the
\* write fails.
Remember(w) ==
    /\ walk[w].pc = "act" /\ walk[w].memory.total < MaxTotal
    /\ LET m == WithStep(walk[w].memory)
       IN  \E lands \in BOOLEAN :
             /\ Fails(IF lands THEN 0 ELSE 1)
             /\ walk' = [walk EXCEPT ![w].memory = m, ![w].pc = "think"]
             /\ IF lands THEN SavePhaseScratchpad(walk[w].run, m) ELSE UNCHANGED stored
    /\ UNCHANGED <<clock, breaker>>

\* A loop whose postconditions hold, or whose budget is spent, returns.
PhaseOver(w) ==
    /\ walk[w].pc = "think"
    /\ EndWalk(w)
    /\ UNCHANGED <<clock, stored, faults>>

\* reset_run clears the memory and does not wait for the walk.
ResetRun(r) ==
    /\ Fails(1)
    /\ ClearPhaseScratchpads(r)
    /\ UNCHANGED <<clock, breaker, walk>>

WalkDies(w) ==
    /\ walk[w].pc # "away" /\ Fails(1)
    /\ EndWalk(w)
    /\ UNCHANGED <<clock, stored>>

----------------------------------------------------------------------------
(***************************************************************************)
(* One decision.                                                           *)
(***************************************************************************)

\* _Breaker
IsOpen(b) == clock < b.openUntil
RecordFailure(b) ==
    IF b.failures + 1 >= Threshold THEN [failures |-> 0, openUntil |-> clock + Cooldown]
    ELSE [b EXCEPT !.failures = @ + 1]

\* choose hands the prompt over: a new decision, with its own deadline.
Decide(w) ==
    /\ walk[w].pc = "think"
    /\ walk' = [walk EXCEPT ![w].pc = "next", ![w].next = 1, ![w].attempted = 0,
                            ![w].deadline = clock + TotalSeconds]
    /\ UNCHANGED <<clock, breaker, stored, faults>>

\* Over(w, pc): generate has returned or raised; the decision's own state ends.
Over(w, pc) ==
    walk' = [walk EXCEPT ![w].pc = pc, ![w].deadline = 0, ![w].due = 0, ![w].next = 1, ![w].attempted = 0]

\* DecisionFailed with the last reason, or a ledger error: it costs the loop a
\* no-progress rung, and the loop thinks again until its budget is spent.
Undecided(w) == Over(w, "think")

\* The head of generate's loop: the chain or the budget is used up, the next
\* provider is cooling down, or it is asked for what is left of its slice.
PerAttemptUncapped(w) == ProviderSeconds
PerAttempt(w) ==
    IF walk[w].deadline - clock < ProviderSeconds THEN walk[w].deadline - clock ELSE ProviderSeconds

NextProvider(w) ==
    /\ walk[w].pc = "next"
    /\ LET a == walk[w]
           p == Backends(a.run)[a.next]
       IN  \/ /\ a.next > Len(Order) \/ a.attempted >= MaxProviders
              /\ Undecided(w)
           \/ /\ a.next <= Len(Order) /\ a.attempted < MaxProviders /\ clock >= a.deadline
              /\ Undecided(w)
           \/ /\ a.next <= Len(Order) /\ a.attempted < MaxProviders /\ clock < a.deadline
              /\ IF IsOpen(breaker[ChainOf(w)][p])
                 THEN walk' = [walk EXCEPT ![w].next = @ + 1]
                 ELSE walk' = [walk EXCEPT ![w].pc = "calling", ![w].attempted = @ + 1,
                                           ![w].due = clock + PerAttempt(w)]
    /\ UNCHANGED <<clock, breaker, stored, faults>>

Asked(w) == Backends(walk[w].run)[walk[w].next]
Note(w, b) == [breaker EXCEPT ![ChainOf(w)][Asked(w)] = b]

\* _record: one row per attempt, which the ledger may refuse.
RecordAttempt(lands) == Fails(IF lands THEN 0 ELSE 1)

\* The except branch of generate: the row is written first, so a ledger that
\* refuses it ends the decision before the breaker hears of the failure.
AttemptFailed(w) ==
    \/ /\ breaker' = Note(w, RecordFailure(breaker[ChainOf(w)][Asked(w)]))
       /\ walk' = [walk EXCEPT ![w].pc = "next", ![w].next = @ + 1, ![w].due = 0]
       /\ RecordAttempt(TRUE)
    \/ /\ RecordAttempt(FALSE)
       /\ Undecided(w)
       /\ breaker' = breaker

\* A provider is rate limited, refuses the key, or answers with what is no JSON
\* object, in plain JSON mode too where its strict mode was refused.
ProviderFails(w) ==
    /\ walk[w].pc = "calling"
    /\ AttemptFailed(w)
    /\ UNCHANGED <<clock, stored>>

\* _call_with_timeout stops waiting; a late reply is abandoned.
ProviderTimesOut(w) ==
    /\ walk[w].pc = "calling" /\ clock = walk[w].due
    /\ AttemptFailed(w)
    /\ UNCHANGED <<clock, stored>>

\* A usable answer closes the breaker and is recorded; a row that cannot be
\* written makes the answer a failure of its provider, and that failure's row
\* may be refused as well.
ProviderAnswers(w) ==
    /\ walk[w].pc = "calling"
    /\ \/ /\ breaker' = Note(w, Closed)
          /\ Over(w, "act")
          /\ RecordAttempt(TRUE)
       \/ /\ RecordAttempt(FALSE)
          /\ breaker' = Note(w, RecordFailure(Closed))
          /\ walk' = [walk EXCEPT ![w].pc = "next", ![w].next = @ + 1, ![w].due = 0]
       \/ /\ RecordAttempt(FALSE)
          /\ breaker' = Note(w, Closed)
          /\ Undecided(w)
    /\ UNCHANGED <<clock, stored>>

\* Time passes while every walk is away, thinking or waiting, up to the first
\* moment somebody stops waiting.
Tick ==
    /\ clock < MaxClock
    /\ \A w \in Workers : /\ walk[w].pc # "next"
                          /\ walk[w].pc = "calling" => clock < walk[w].due
    /\ clock' = clock + 1
    /\ UNCHANGED <<breaker, walk, stored, faults>>

WalkStep(w) ==
    \/ StartWalk(w) \/ Decide(w) \/ NextProvider(w) \/ ProviderFails(w)
    \/ ProviderTimesOut(w) \/ ProviderAnswers(w) \/ Remember(w) \/ PhaseOver(w)

\* Runs of the deployment's chain that are not followed here: one of them
\* heard from a provider.  Where every run is pinned nobody here would notice.
OtherRuns ==
    /\ \E r \in Runs : pinned[r] = "none"
    /\ \E p \in Providers : \E b \in {Closed, RecordFailure(breaker["deployment"][p])} :
         breaker' = [breaker EXCEPT !["deployment"][p] = b]
    /\ UNCHANGED <<clock, walk, stored, faults>>

DecisionNext ==
    /\ \/ \E w \in Workers : WalkStep(w) \/ WalkDies(w)
       \/ \E r \in Runs : ResetRun(r)
       \/ OtherRuns \/ Tick
    /\ UNCHANGED pinned

DecisionSpec == DecisionInit /\ [][DecisionNext]_decisionVars

----------------------------------------------------------------------------
DecisionTypeOK ==
    /\ clock \in 0..MaxClock /\ faults \in 0..MaxFaults /\ pinned \in [Runs -> Selections]
    /\ breaker \in [Chains -> [Providers -> [failures: 0..(Threshold - 1), openUntil: 0..(MaxClock + Cooldown)]]]
    /\ stored \in [Runs -> Memories]
    /\ \A w \in Workers :
         /\ walk[w].pc \in {"away", "think", "next", "calling", "act"}
         /\ walk[w].run \in IF walk[w].pc = "away" THEN {"none"} ELSE Runs
         /\ walk[w].next \in 1..(Len(Order) + 1) /\ walk[w].attempted \in 0..MaxProviders
         /\ walk[w].memory \in Memories

\* No decision is still being made after its deadline, whichever providers were
\* slow and whenever they were asked (DecisionBudget: "one decision can never
\* consume the browser-loop budget").
DecisionFitsBudget ==
    \A w \in Workers : walk[w].pc \in {"next", "calling"} => clock <= walk[w].deadline

\* What a phase remembers only grows, through deaths and failed writes, while the
\* run has one walk at a time: the stored total shrinks by an operator's reset, or
\* by the save of a walk that could not read the document when it began or that
\* overlapped another walk of the run.  The last two do lose steps: a save compares
\* neither the lease nor the revision it replaces.
MemoryOutlivesCrash ==
    [][\A r \in Runs : stored'[r].total < stored[r].total =>
          \/ stored'[r] = Fresh
          \/ \E w \in Workers : /\ walk[w].run = r /\ walk[w].pc = "act"
                                /\ stored'[r] = WithStep(walk[w].memory)
                                /\ walk[w].blind \/ walk[w].shared]_decisionVars

\* The stored window is the phase's latest steps, in order and without a gap,
\* whichever walk saved it.
WindowIsLatest ==
    \A r \in Runs : \A i \in DOMAIN stored[r].steps :
        stored[r].steps[i] = stored[r].total - Len(stored[r].steps) + i

=============================================================================
