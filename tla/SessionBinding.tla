-------------------------- MODULE SessionBinding --------------------------
(***************************************************************************)
(* How a worker process comes by the browser session of a run and drives   *)
(* it over the wire: ServiceLoopSessionFactory and ServiceLoopSession      *)
(* (ops/onboarding/browser_session.py) on BrowserServiceClient             *)
(* (ops/browser/service_client.py).                                        *)
(*                                                                         *)
(* One run, several worker processes: a lease that lapsed lets a second    *)
(* one in while the first is inside a call.  A request may be lost on the  *)
(* way out (nothing happens) or its answer on the way back (it happened,   *)
(* and the caller is told that the service is unreachable); a worker may   *)
(* die between any two steps.  The service side is what the client sees of *)
(* it: a session is active or gone, its page has a generation, it enforces *)
(* the allow-list or, an older service, ignores it.                        *)
(***************************************************************************)
EXTENDS Naturals, FiniteSets

CONSTANTS
    Workers,        \* worker processes that may drive the run
    Sessions,       \* session ids the service may issue
    MaxGeneration,  \* bound on the page's DOM generation
    MaxFaults       \* bound on lost messages, refused lists, lost profiles and deaths

None == "none"

BindingAssumption ==
    /\ None \notin Sessions
    /\ MaxGeneration \in Nat \ {0} /\ MaxFaults \in Nat

VARIABLES
    row,        \* runs.browser_session_id
    session,    \* the service: per id its state, page, confinement and arming
    walk,       \* per worker: step, session in hand, _bound, the reading
    recorded,   \* history: every id the row has held
    driven,     \* history: sessions whose page a loop has read or changed
    captured,   \* credential references the vault has received
    faults

bindingVars == <<row, session, walk, recorded, driven, captured, faults>>

Unborn == [state |-> "unborn", page |-> 0, confined |-> FALSE, armed |-> 0]

\* ServiceLoopSession: a new handle has observed nothing.
Away == [pc |-> "away", at |-> None, bound |-> None, seen |-> 0, told |-> "nothing"]

BindingInit ==
    /\ row = None /\ session = [s \in Sessions |-> Unborn]
    /\ walk = [w \in Workers |-> Away]
    /\ recorded = {} /\ driven = {} /\ captured = {} /\ faults = 0

Goes(w, changed) == walk' = [walk EXCEPT ![w] = changed]
Active(s) == s # None /\ session[s].state = "active"
Fault == faults < MaxFaults /\ faults' = faults + 1

\* The phase raises out of the loop: the worker gives the run up for now and
\* keeps its handle (forget is called when it is done with the run).
Raises(w) == Goes(w, [walk[w] EXCEPT !.pc = "away", !.at = None, !.told = "raised"])

----------------------------------------------------------------------------
(***************************************************************************)
(* ServiceLoopSessionFactory: the run's session, reattached or started.    *)
(***************************************************************************)

\* session_for: every phase of the walk asks for the session anew, the one
\* before having ended with the handle in hand, or raised.
SessionFor(w) ==
    /\ walk[w].pc \in {"away", "ready", "planned", "armed"}
    /\ Goes(w, [walk[w] EXCEPT !.pc = IF walk[w].bound # None THEN "recall" ELSE "bind",
                               !.at = walk[w].bound, !.told = "nothing"])
    /\ UNCHANGED <<row, session, recorded, driven, captured, faults>>

\* session_status: live is an ACTIVE lifecycle, and nothing else; a request
\* that got no answer is not live either.
Answers(w, s, live) ==
    \/ live = Active(s) /\ UNCHANGED faults
    \/ live = FALSE /\ Fault

\* _is_live of the handle in _bound.
Recall(w) ==
    /\ walk[w].pc = "recall"
    /\ \E live \in BOOLEAN :
          /\ Answers(w, walk[w].at, live)
          /\ IF live THEN Goes(w, [walk[w] EXCEPT !.pc = "ready"])
             ELSE Goes(w, [walk[w] EXCEPT !.pc = "bind", !.at = None, !.bound = None, !.seen = 0])
    /\ UNCHANGED <<row, session, recorded, driven, captured>>

\* _bind reads the row once; the probe and the start come later.  A run whose
\* profile cannot be read is refused.
ReadRow(w) ==
    /\ walk[w].pc = "bind"
    /\ \/ /\ Goes(w, [walk[w] EXCEPT !.pc = IF row # None THEN "probe" ELSE "start", !.at = row])
          /\ UNCHANGED faults
       \/ Fault /\ Raises(w)
    /\ UNCHANGED <<row, session, recorded, driven, captured>>

Probe(w) ==
    /\ walk[w].pc = "probe"
    /\ \E live \in BOOLEAN :
          /\ Answers(w, walk[w].at, live)
          /\ IF live THEN Goes(w, [walk[w] EXCEPT !.pc = "ready", !.bound = walk[w].at, !.seen = 0])
             ELSE Goes(w, [walk[w] EXCEPT !.pc = "start", !.at = None])
    /\ UNCHANGED <<row, session, recorded, driven, captured>>

\* BrowserServiceClient.start: the service opens a session; its answer names
\* the list it will enforce, or is lost with the id in it.
Start(w) ==
    /\ walk[w].pc = "start"
    /\ \/ \E s \in Sessions, confined \in BOOLEAN :
             /\ session[s].state = "unborn"
             /\ session' = [session EXCEPT ![s] = [Unborn EXCEPT !.state = "active",
                                                                 !.confined = confined]]
             /\ \/ /\ confined /\ Goes(w, [walk[w] EXCEPT !.pc = "record", !.at = s])
                   /\ UNCHANGED faults
                \/ ~confined /\ Fault /\ Goes(w, [walk[w] EXCEPT !.pc = "refuse", !.at = s])
                \/ Fault /\ Raises(w)
       \/ Fault /\ Raises(w) /\ UNCHANGED session
    /\ UNCHANGED <<row, recorded, driven, captured>>

\* _abandon_session: best effort, then the typed error.
AbandonSession(w) ==
    /\ walk[w].pc = "refuse"
    /\ \/ session' = [session EXCEPT ![walk[w].at].state = "gone"] /\ UNCHANGED faults
       \/ Fault /\ UNCHANGED session
    /\ Raises(w)
    /\ UNCHANGED <<row, recorded, driven, captured>>

\* a bug the runs must notice: the id is kept in the process only
RecordSessionLocally(w) ==
    /\ walk[w].pc = "record"
    /\ Goes(w, [walk[w] EXCEPT !.pc = "ready", !.bound = walk[w].at, !.seen = 0])
    /\ UNCHANGED <<row, session, recorded, driven, captured, faults>>

\* The id is on the row before the session is handed to a phase.
RecordSession(w) ==
    /\ walk[w].pc = "record"
    /\ row' = walk[w].at /\ recorded' = recorded \cup {walk[w].at}
    /\ Goes(w, [walk[w] EXCEPT !.pc = "ready", !.bound = walk[w].at, !.seen = 0])
    /\ UNCHANGED <<session, driven, captured, faults>>

----------------------------------------------------------------------------
(***************************************************************************)
(* ServiceLoopSession: one reading, one action, one capture at a time.     *)
(***************************************************************************)

Here(w) == session[walk[w].at]

\* ServiceLoopSession.observe keeps what the next plan is made against.
Keeps(w, page) == Goes(w, [walk[w] EXCEPT !.pc = "planned", !.seen = page + 1])

\* observe_session: raises unless it really read the page.
Observe(w) ==
    /\ walk[w].pc \in {"ready", "planned"}
    /\ \/ /\ Active(walk[w].at)
          /\ Keeps(w, Here(w).page)
          /\ driven' = driven \cup {walk[w].at} /\ UNCHANGED faults
       \/ ~Active(walk[w].at) /\ Raises(w) /\ UNCHANGED <<driven, faults>>
       \/ Fault /\ Raises(w) /\ UNCHANGED driven
    /\ UNCHANGED <<row, session, recorded, captured>>

\* ServiceLoopSession.act: whatever came of it is an outcome, and never raises.
Outcome(w, told) == Goes(w, [walk[w] EXCEPT !.pc = "ready", !.told = told])

\* The service compares the plan's reading with the page's, and acts; the
\* arming stays what it was, whatever page the action leads to.
Acts(w) == session' = [session EXCEPT ![walk[w].at].page = @ + 1]

\* act_on_session: executed; failed, the page touched or not; stale; refused;
\* or unanswered, which is "failed" with reached_service false, whether or not
\* the page was touched.
Act(w) ==
    /\ walk[w].pc = "planned" /\ Here(w).page < MaxGeneration
    /\ \/ /\ Active(walk[w].at) /\ walk[w].seen = Here(w).page + 1
          /\ \/ Acts(w) /\ \E told \in {"executed", "failed"} : Outcome(w, told) /\ UNCHANGED faults
             \/ Acts(w) /\ Fault /\ Outcome(w, "unreached")
             \/ Outcome(w, "failed") /\ UNCHANGED <<session, faults>>
       \/ /\ Active(walk[w].at) /\ walk[w].seen # Here(w).page + 1
          /\ Outcome(w, "stale") /\ UNCHANGED <<session, faults>>
       \/ /\ ~Active(walk[w].at)
          /\ Outcome(w, "blocked") /\ UNCHANGED <<session, faults>>
       \/ Fault /\ Outcome(w, "unreached") /\ UNCHANGED session
    /\ UNCHANGED <<row, recorded, driven, captured>>

\* ServiceLoopSession.arm_credential_surface: armed, and the service said so.
Arms(w) == Goes(w, [walk[w] EXCEPT !.pc = "armed"])

\* arm_credential_surface: the service proves the page; every unknown answer
\* is "not armed", and "not yet" changes nothing.
ArmCredentialSurface(w) ==
    /\ walk[w].pc = "planned"
    /\ \/ /\ Active(walk[w].at)
          /\ session' = [session EXCEPT ![walk[w].at].armed = Here(w).page + 1]
          /\ \/ Arms(w) /\ UNCHANGED faults
             \/ Fault /\ UNCHANGED walk
       \/ Fault /\ UNCHANGED <<session, walk>>
    /\ UNCHANGED <<row, recorded, driven, captured>>

\* ServiceLoopSession.capture_credential: a reference, and the phase is over.
Captures(w) == Goes(w, [walk[w] EXCEPT !.pc = "away", !.at = None, !.told = "captured"])

\* auto_capture_credentials: a reference, or the phase raises; the vault may
\* hold what the lost answer named.
CaptureCredential(w) ==
    /\ walk[w].pc = "armed"
    /\ \/ /\ Active(walk[w].at) /\ Here(w).armed > 0
          /\ captured' = captured \cup {walk[w].at}
          /\ \/ Captures(w) /\ UNCHANGED faults
             \/ Fault /\ Raises(w)
       \/ /\ ~(Active(walk[w].at) /\ Here(w).armed > 0)
          /\ Raises(w) /\ UNCHANGED <<captured, faults>>
       \/ Fault /\ Raises(w) /\ UNCHANGED captured
    /\ UNCHANGED <<row, session, recorded, driven>>

\* forget: the handle is dropped, the session is not released.
Forget(w) ==
    /\ walk[w].pc \in {"away", "ready", "planned", "armed"} /\ walk[w].bound # None
    /\ Goes(w, Away)
    /\ UNCHANGED <<row, session, recorded, driven, captured, faults>>

WorkerDies(w) ==
    /\ walk[w] # Away /\ Fault /\ Goes(w, Away)
    /\ UNCHANGED <<row, session, recorded, driven, captured>>

----------------------------------------------------------------------------
(***************************************************************************)
(* Other callers of the service.                                           *)
(***************************************************************************)

\* stop: the control plane ends the session the row names; a refused, lost or
\* failed teardown is logged and left.
Stop ==
    /\ Active(row)
    /\ session' = [session EXCEPT ![row].state = "gone"]
    /\ UNCHANGED <<row, walk, recorded, driven, captured, faults>>

\* navigate and resume drive the same page in one call (_drive).
Drive ==
    /\ Active(row) /\ session[row].page < MaxGeneration
    /\ session' = [session EXCEPT ![row].page = @ + 1]
    /\ driven' = driven \cup {row}
    /\ UNCHANGED <<row, walk, recorded, captured, faults>>

\* The service's janitor, by the idle clock or the maximum age; no worker
\* calls retain_session.
Expire(s) ==
    /\ session[s].state = "active"
    /\ session' = [session EXCEPT ![s].state = "gone"]
    /\ UNCHANGED <<row, walk, recorded, driven, captured, faults>>

WorkerStep(w) ==
    \/ SessionFor(w) \/ Recall(w) \/ ReadRow(w) \/ Probe(w) \/ Start(w)
    \/ AbandonSession(w) \/ RecordSession(w) \/ Observe(w) \/ Act(w)
    \/ ArmCredentialSurface(w) \/ CaptureCredential(w) \/ Forget(w) \/ WorkerDies(w)

BindingNext ==
    \/ \E w \in Workers : WorkerStep(w)
    \/ Stop \/ Drive
    \/ \E s \in Sessions : Expire(s)

BindingSpec == BindingInit /\ [][BindingNext]_bindingVars

----------------------------------------------------------------------------
(***************************************************************************)
(* Properties.                                                             *)
(***************************************************************************)

BindingTypeOK ==
    /\ row \in Sessions \cup {None} /\ faults \in 0..MaxFaults
    /\ session \in [Sessions -> [state : {"unborn", "active", "gone"}, page : 0..MaxGeneration,
                                 confined : BOOLEAN, armed : 0..(MaxGeneration + 1)]]
    /\ walk \in [Workers ->
          [pc : {"away", "recall", "bind", "probe", "start", "refuse", "record", "ready",
                 "planned", "armed"},
           at : Sessions \cup {None}, bound : Sessions \cup {None}, seen : 0..(MaxGeneration + 1),
           told : {"nothing", "raised", "executed", "failed", "stale", "blocked", "unreached",
                   "captured"}]]
    /\ recorded \subseteq Sessions /\ driven \subseteq Sessions /\ captured \subseteq Sessions

\* A page is driven only in a session the run's row has named: whatever dies
\* after the first action, the ledger knows which browser was signed in
\* (_bind writes the id before it hands the session out).
DrivenIsRecorded == driven \cup captured \subseteq recorded

\* A page is driven only in a session the service confirmed it confines to the
\* run's allow-list; an older service that ignores the list is never driven,
\* by the worker that started the session or by one that finds it later.
DrivenIsConfined == \A s \in driven \cup captured : session[s].confined

\* What is handed to a phase is the session of the row, or of a row that a
\* later worker has replaced; a handle never outlives what was recorded.
HandleWasRecorded == \A w \in Workers : walk[w].bound # None => walk[w].bound \in recorded

\* "A worker that picks the run up afterwards must reattach to that session
\* and not open a second one against the same account" (SessionBindingLedger).
ReattachesRecorded == Cardinality({s \in recorded : session[s].state = "active"}) <= 1

\* "Nothing was attempted" (ServiceLoopSession.act on an unreached service):
\* the page is where the plan saw it.
UnreachedIsUntouched ==
    [][\A w \in Workers :
          walk'[w].told = "unreached" /\ walk[w].told # "unreached"
              => session'[walk[w].at].page = session[walk[w].at].page]_bindingVars

\* "An arming describes the page it was proven against, not the session"
\* (release_credential_surface): a capture reads that page.
CapturesProvenPage ==
    [][\A w \in Workers :
          CaptureCredential(w) /\ captured' # captured
              => Here(w).armed = Here(w).page + 1]_bindingVars

============================================================================
