---------------------------- MODULE GateAdvance ----------------------------
(***************************************************************************)
(* The autonomous advancer (ops/runs/advance.py): one thread that sweeps   *)
(* the runs paused at a gate and resumes the ones that need no person,     *)
(* within a durable budget per gate, and records once that it handed a     *)
(* gate back.  One run is followed, with the gates it meets, its owner,    *)
(* the operator's retry, and a process that dies between two steps.        *)
(***************************************************************************)
EXTENDS Integers, FiniteSets

CONSTANTS
    Budget,         \* max_autonomous_advances
    MaxRaised,      \* bound: gates raised in a behaviour
    Grounds,        \* what may be on record when the run starts
    Faults          \* subsets of {"crash", "write", "retry"}: what goes wrong

ASSUME AdvanceAssumption ==
    /\ Budget \in Nat \ {0} /\ MaxRaised \in Nat
    /\ Faults \subseteq SUBSET {"crash", "write", "retry"}
    /\ Grounds \subseteq
         [login: BOOLEAN, recipe: BOOLEAN, url: {"none", "inside", "outside"},
          admitted: {"none", "profile", "other"}, route: {"signup", "login"}, by: {"operator", "system"}]

VARIABLES
    paused,     \* the gate the run waits at, or why it does not wait
    authority,  \* what is on record: a reusable login, the recipe's word on
                \* terms, the admission decision, where the gate was seen
    spent,      \* run_gate_attempts under advance:<gate>
    marked,     \* run_gate_attempts under advance_escalated:<reason>:<gate>
    audit,      \* escalation rows of this budget, by gate and reason
    tried,      \* resumes made within this budget
    sweeper,    \* the advancer's thread
    raised,     \* gates raised so far
    fault       \* what may go wrong in this behaviour

advanceVars == <<paused, authority, spent, marked, audit, tried, sweeper, raised, fault>>

\* _AUTONOMOUS_RESOLUTION, and one gate of HUMAN_ONLY_GATES.
Resolution == [login_required |-> "reusable_login", email_otp |-> "emailed_verification",
               legal_acceptance |-> "recipe_declared", signup_authorization |-> "profile_declared",
               captcha |-> "human_only"]
Gates == DOMAIN Resolution
ProfileDeclarable == {"legal_acceptance", "signup_authorization"}
Reasons == {"attempt_budget_exhausted", "reusable_login_unavailable"}

\* _profile_authority and _profile_authorizes: a person admitted the run to sign
\* up on this very profile, and the gate was seen inside its domain.
ProfileAuthorizes ==
    /\ authority.url = "inside" /\ authority.admitted = "profile"
    /\ authority.route = "signup" /\ authority.by # "system"

\* resolve_gate
ResolveGate(gate) ==
    CASE gate \in ProfileDeclarable ->
            IF gate = "legal_acceptance" /\ authority.recipe THEN "recipe_declared"
            ELSE IF ProfileAuthorizes THEN "profile_declared" ELSE "human_only"
      [] OTHER -> Resolution[gate]

Rested == [pc |-> "idle", gate |-> "captcha", why |-> "none", old |-> FALSE]
Steps == {"idle", "spend", "exhaust", "attempt", "mark", "record"}

AdvanceTypeOK ==
    /\ paused \in Gates \cup {"running", "failed"}
    /\ authority \in {[g EXCEPT !.login = l] : g \in Grounds, l \in BOOLEAN}
    /\ spent \in [Gates -> 0..(Budget + 1)] /\ tried \in [Gates -> Nat]
    /\ marked \subseteq Gates \X Reasons /\ audit \in [Gates \X Reasons -> 0..2]
    /\ sweeper \in [pc: Steps, gate: Gates, why: Reasons \cup {"none"}, old: BOOLEAN]
    /\ raised \in 0..MaxRaised /\ fault \in Faults

NothingSpent ==
    /\ spent' = [g \in Gates |-> 0] /\ tried' = [g \in Gates |-> 0]
    /\ marked' = {} /\ audit' = [e \in Gates \X Reasons |-> 0]

AdvanceInit ==
    /\ paused = "running" /\ authority \in Grounds
    /\ spent = [g \in Gates |-> 0] /\ tried = [g \in Gates |-> 0]
    /\ marked = {} /\ audit = [e \in Gates \X Reasons |-> 0]
    /\ sweeper = Rested /\ raised = 0 /\ fault \in Faults

----------------------------------------------------------------------------
(* What the run and its people do.                                         *)
GateRaised(gate) ==
    /\ paused = "running" /\ raised < MaxRaised
    /\ paused' = gate /\ raised' = raised + 1
    /\ UNCHANGED <<authority, spent, marked, audit, tried, sweeper, fault>>

\* An owner resumes the run, with the login it was asked for.
OwnerResumes ==
    /\ paused \in Gates /\ paused' = "running"
    /\ authority' = [authority EXCEPT !.login = @ \/ paused = "login_required"]
    /\ UNCHANGED <<spent, marked, audit, tried, sweeper, raised, fault>>

RunFails ==
    /\ paused \in Gates \cup {"running"} /\ "retry" \in fault /\ paused' = "failed"
    /\ UNCHANGED <<authority, spent, marked, audit, tried, sweeper, raised, fault>>

\* clear_gate_attempts: an operator's retry refunds every budget.
OperatorRetries ==
    /\ paused = "failed" /\ paused' = "running" /\ NothingSpent
    /\ sweeper' = [sweeper EXCEPT !.old = sweeper.pc # "idle"]
    /\ UNCHANGED <<authority, raised, fault>>

----------------------------------------------------------------------------
(* The sweep.  The listed row and the attempts are read once; everything   *)
(* after is a statement of its own.                                        *)
At(pc, why) == sweeper' = [sweeper EXCEPT !.pc = pc, !.why = why, !.gate = paused, !.old = FALSE]

AdvanceReads ==
    /\ sweeper.pc = "idle" /\ paused \in Gates
    /\ ResolveGate(paused) # "human_only" /\ spent[paused] <= Budget
    /\ IF spent[paused] = Budget THEN At("exhaust", "attempt_budget_exhausted")
       ELSE IF ResolveGate(paused) = "reusable_login" /\ ~authority.login
       THEN At("mark", "reusable_login_unavailable") ELSE At("spend", "none")
    /\ UNCHANGED <<paused, authority, spent, marked, audit, tried, raised, fault>>

\* spend_gate_attempt, before the attempt or before the hand-back.
SpendGateAttempt ==
    /\ sweeper.pc \in {"spend", "exhaust"}
    /\ spent' = [spent EXCEPT ![sweeper.gate] = @ + 1]
    /\ sweeper' = [sweeper EXCEPT !.pc = IF @ = "spend" THEN "attempt" ELSE "mark"]
    /\ UNCHANGED <<paused, authority, marked, audit, tried, raised, fault>>

\* _attempt: the run is resumed at the gate it waits at by now; another writer,
\* or a run that moved on, ends the attempt.
Attempt ==
    /\ sweeper.pc = "attempt" /\ sweeper' = Rested
    /\ \/ /\ paused \in Gates
          /\ Resolution[sweeper.gate] = "emailed_verification" => paused = "email_otp"
          /\ paused' = "running"
          /\ tried' = IF sweeper.old THEN tried ELSE [tried EXCEPT ![sweeper.gate] = @ + 1]
       \/ UNCHANGED <<paused, tried>>
    /\ UNCHANGED <<authority, spent, marked, audit, raised, fault>>

MarkEveryTime ==
    /\ sweeper.pc = "mark"
    /\ marked' = marked \cup {<<sweeper.gate, sweeper.why>>}
    /\ sweeper' = [sweeper EXCEPT !.pc = "record"]
    /\ UNCHANGED <<paused, authority, spent, audit, tried, raised, fault>>

\* _record_escalation: the marker's first spend, then the row.
Mark ==
    /\ sweeper.pc = "mark"
    /\ marked' = marked \cup {<<sweeper.gate, sweeper.why>>}
    /\ sweeper' = IF <<sweeper.gate, sweeper.why>> \in marked THEN Rested
                  ELSE [sweeper EXCEPT !.pc = "record"]
    /\ UNCHANGED <<paused, authority, spent, audit, tried, raised, fault>>

RecordEscalation ==
    /\ sweeper.pc = "record" /\ sweeper' = Rested
    /\ \/ audit' = IF sweeper.old THEN audit ELSE [audit EXCEPT ![<<sweeper.gate, sweeper.why>>] = @ + 1]
       \/ "write" \in fault /\ UNCHANGED audit   \* logged, and not raised
    /\ UNCHANGED <<paused, authority, spent, marked, tried, raised, fault>>

AdvancerDies ==
    /\ "crash" \in fault /\ sweeper.pc # "idle" /\ sweeper' = Rested
    /\ UNCHANGED <<paused, authority, spent, marked, audit, tried, raised, fault>>

AdvancerStep == AdvanceReads \/ SpendGateAttempt \/ Attempt \/ Mark \/ RecordEscalation

AdvanceNext ==
    \/ \E g \in Gates : GateRaised(g)
    \/ OwnerResumes \/ RunFails \/ OperatorRetries \/ AdvancerStep \/ AdvancerDies

\* The advancer is a timer's thread that survives every exception.
AdvanceFairness == WF_advanceVars(AdvancerStep)

AdvanceSpec == AdvanceInit /\ [][AdvanceNext]_advanceVars /\ AdvanceFairness

----------------------------------------------------------------------------
\* A gate is resumed without a person at most Budget times between two retries,
\* whatever dies between the charge and the attempt.
BudgetHolds == \A g \in Gates : tried[g] <= Budget

\* A gate that is handed back is on record at most once per reason, however
\* often the sweep derives the same condition again.
EscalatedOnce == \A e \in Gates \X Reasons : audit[e] <= 1

\* An exhausted gate is on record as handed back as soon as the sweep rests
\* (unless the process died, or the write failed, in between).
HandBackIsStated ==
    sweeper.pc = "idle" /\ fault = {} =>
        \A g \in Gates : spent[g] > Budget => audit[<<g, "attempt_budget_exhausted">>] = 1

\* The advancer never resumes a gate past its durable budget, records a hand-back
\* once, and leaves no exhausted gate unrecorded.
AdvanceSafety == AdvanceTypeOK /\ BudgetHolds /\ EscalatedOnce /\ HandBackIsStated

\* A gate no person is needed for does not stay untouched: the run goes on, or
\* its owner can read that it was handed back.
TakenUp(g) ==
    paused = g /\ ResolveGate(g) # "human_only" /\ fault = {}
        ~> paused # g \/ \E why \in Reasons : audit[<<g, why>>] = 1

\* "Anything the policy does not explicitly classify stays paused for an owner,
\* so an unreviewed gate can never advance a run."
UnreviewedGateWaits ==
    [][Attempt /\ paused \in Gates /\ ResolveGate(paused) = "human_only"
          => paused' = paused]_advanceVars

\* "losing one escalation row is recoverable, and the next pass re-derives the
\* same condition"
LostRowIsRecovered ==
    \A e \in Gates \X Reasons : e \in marked /\ fault # {} ~> audit[e] = 1 \/ e \notin marked
=============================================================================
