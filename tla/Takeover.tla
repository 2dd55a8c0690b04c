------------------------------ MODULE Takeover ------------------------------
(***************************************************************************)
(* The autonomous takeover: the control plane's sweep (ops/runs/           *)
(* takeover.py) polls the session of a parked canonical run, decides       *)
(* (ops/browser/takeover.py) and continues or pauses the run through the   *)
(* canonical runtime.  The session is LiveView's; the page read is two     *)
(* steps because it awaits (browser_service/clearance.py), and its answer  *)
(* may be lost (ops/browser/service_client.py).                            *)
(***************************************************************************)
EXTENDS LiveView

CONSTANTS MaxRev    \* bound: how often the run row is written

VARIABLES
    run,        \* the run row: status, the projected hitl_generation, revision
    watch,      \* _stopped_observations: the revision whose polling is stopped
    probe       \* the sweep's read of the session

takeoverVars == <<run, watch, probe>>
allVars == <<viewVars, takeoverVars>>

NoProbe == [pc |-> "idle", rev |-> 0, attached |-> FALSE, gen |-> 0, owed |-> FALSE,
            seen |-> Nothing, pending |-> FALSE, alive |-> TRUE]

(* What a read may report: the page without and with the gate, nothing (an *)
(* operation held the lock, the read failed), or that there is no session. *)
Sightings == {"clear", "gate", "unread", "gone", "aged"}

ASSUME TakeoverAssumption == MaxRev \in Nat /\ Nothing \notin Sightings

TakeoverTypeOK ==
    /\ run \in [status: {"driving", "parked", "paused", "ended"}, gen: 0..MaxGen, rev: 0..MaxRev]
    /\ watch \in (0..MaxRev) \cup {Nothing}
    /\ probe \in [pc: {"idle", "read", "report"}, rev: 0..MaxRev, attached: BOOLEAN,
                  gen: 0..MaxGen, owed: BOOLEAN, seen: Sightings \cup {Nothing},
                  pending: BOOLEAN, alive: BOOLEAN]

TakeoverInit ==
    /\ ViewInit
    /\ run = [status |-> "driving", gen |-> 0, rev |-> 0]
    /\ watch = Nothing /\ probe = NoProbe

Write(status, gen) ==
    /\ run.rev < MaxRev
    /\ run' = [status |-> status, gen |-> gen, rev |-> run.rev + 1]

----------------------------------------------------------------------------
(* The run's own calls: one navigation, and what its end does to the row.  *)
RunNavigates(c) ==
    /\ run.status = "driving" /\ run.rev = 0 /\ run.rev < MaxRev
    /\ Navigate(c)
    /\ run' = [run EXCEPT !.rev = 1]
    /\ UNCHANGED <<watch, probe>>

RunDriveEnds(c, outcome) ==
    /\ run.status = "driving" /\ DriveEnds(c, outcome)
    /\ IF outcome = "gate" THEN Write("parked", hitl'.gen) ELSE Write("ended", 0)
    /\ UNCHANGED <<watch, probe>>

(* An owner's resume names no generation.  A service that refuses it       *)
(* before any action, or whose answer is lost, leaves a row that is parked *)
(* under generation 0, or one that failed.                                 *)
OwnerResumes(c) ==
    /\ run.status = "parked" /\ Resume(c, Nothing)
    /\ Write("driving", 0)
    /\ UNCHANGED <<watch, probe>>

ResumeRefused(c) ==
    /\ run.status = "driving" /\ ResumeRefusedBeforeAction(c)
    /\ Write("parked", 0)
    /\ UNCHANGED <<watch, probe>>

RunDrained(c) ==
    /\ ControlDrained(c) /\ UNCHANGED takeoverVars

(* browser_live_drain_timeout: the gate is restored, the run has failed.   *)
RunDrainFails(c) ==
    /\ ControlDrainFails(c) /\ Write("ended", 0)
    /\ UNCHANGED <<watch, probe>>

----------------------------------------------------------------------------
(* A page may also move on by itself.                                      *)
PageMoves ==
    /\ life = "ACTIVE" /\ page = "gate" /\ page' = "plain"
    /\ UNCHANGED <<life, hitl, pix, cam, op, pixelVars, takeoverVars>>

(* sweep(), _apply(), _probe() and the first half of                       *)
(* observe_gate_clearance(): a session that is gone is told at once, and a *)
(* session that waits for nobody is reported without a read.               *)
Suppressed == watch = run.rev

SweepProbes ==
    /\ run.rev < MaxRev /\ probe.pc = "idle" /\ run.status = "parked" /\ ~Suppressed
    /\ probe' = [pc |-> IF life = "ACTIVE" /\ hitl.pending THEN "read" ELSE "report",
                 rev |-> run.rev, attached |-> Attached, gen |-> hitl.gen,
                 owed |-> hitl.pending /\ hitl.owed = hitl.gen,
                 seen |-> CASE life = "aged" -> "aged" [] life = "closed" -> "gone"
                            [] OTHER -> "unread",
                 pending |-> hitl.pending, alive |-> TRUE]
    /\ watch' = Nothing
    /\ UNCHANGED <<viewVars, run>>

(* The second half: what was read, unless the generation moved meanwhile.  *)
(* The one look owed after the last detach is spent by a read that         *)
(* succeeded.                                                              *)
ReportAfter(sight) ==
    LET moved == hitl.gen # probe.gen
        owed == probe.owed /\ hitl.pending /\ hitl.owed = probe.gen
    IN  [probe EXCEPT !.pc = "report", !.gen = hitl.gen, !.owed = owed /\ ~moved,
                      !.seen = IF moved THEN "unread" ELSE sight,
                      !.pending = hitl.pending, !.alive = (life = "ACTIVE")]

SpendsDebt(sight) ==
    IF /\ ~probe.attached /\ sight # "unread"
       /\ hitl.gen = probe.gen /\ hitl.owed = probe.gen
    THEN [hitl EXCEPT !.owed = 0] ELSE hitl

ProbeReads ==
    LET sight == IF page = "gate" THEN "gate" ELSE "clear" IN
    /\ probe.pc = "read" /\ ~Locked /\ life = "ACTIVE"
    /\ probe' = ReportAfter(sight) /\ hitl' = SpendsDebt(sight)
    /\ UNCHANGED <<life, pix, page, cam, op, pixelVars, run, watch>>

ProbeReadsNothing ==
    /\ probe.pc = "read" /\ probe' = ReportAfter("unread") /\ hitl' = SpendsDebt("unread")
    /\ UNCHANGED <<life, pix, page, cam, op, pixelVars, run, watch>>

(* _unread_clearance(): the answer never came; nobody is said to be there. *)
ReportLost ==
    /\ probe.pc = "report"
    /\ probe.seen # "unread" \/ probe.attached \/ probe.owed \/ ~probe.pending \/ ~probe.alive
    /\ probe' = [probe EXCEPT !.seen = "unread", !.attached = FALSE, !.owed = FALSE,
                              !.pending = TRUE, !.alive = TRUE]
    /\ UNCHANGED <<viewVars, run, watch>>

----------------------------------------------------------------------------

(* decide_takeover(): the rules in their order.                            *)
DecideTakeoverUnasked(r) ==
    CASE r.seen \in {"aged", "gone"} \/ ~r.alive -> "pause"
      [] ~r.pending -> "stop"
      [] r.seen = "clear" -> "continue"
      [] r.attached -> "wait"
      [] r.owed /\ r.seen = "unread" -> "wait"
      [] OTHER -> "stop"

DecideTakeover(r) ==
    LET asked == r.attached \/ r.owed IN
    CASE r.seen \in {"aged", "gone"} -> "pause"
      [] ~r.alive -> "pause"
      [] ~r.pending -> "stop"
      [] r.seen = "unread" -> IF asked THEN "wait" ELSE "stop"
      [] r.seen = "gate" -> IF r.attached THEN "wait" ELSE "stop"
      [] r.seen = "clear" -> IF asked THEN "continue" ELSE "stop"

(* A read of another generation authorises and ends nothing.               *)
OtherGeneration(r) == r.seen \in {"clear", "gate"} /\ r.gen # run.gen

(* The row must still be the one that was observed.                        *)
RowUnmoved(rev) == run.status = "parked" /\ run.rev = rev

SweepStops ==
    /\ probe.pc = "report"
    /\ OtherGeneration(probe) \/ DecideTakeover(probe) = "stop"
    /\ watch' = probe.rev /\ probe' = NoProbe
    /\ UNCHANGED <<viewVars, run>>

SweepWaits ==
    /\ probe.pc = "report" /\ ~OtherGeneration(probe) /\ DecideTakeover(probe) = "wait"
    /\ probe' = NoProbe /\ UNCHANGED <<viewVars, run, watch>>

SweepPauses ==
    /\ probe.pc = "report" /\ DecideTakeover(probe) = "pause"
    /\ probe' = NoProbe
    /\ IF RowUnmoved(probe.rev) THEN Write("paused", 0) ELSE UNCHANGED run
    /\ UNCHANGED <<viewVars, watch>>

(* resume_after_takeover(): the row is compared and moved under its lock;  *)
(* then the session is asked to resume the generation that was projected,  *)
(* and a session that refuses it parks the run again.                      *)
SweepContinues(c) ==
    /\ probe.pc = "report" /\ ~OtherGeneration(probe) /\ DecideTakeover(probe) = "continue"
    /\ probe' = NoProbe /\ UNCHANGED watch
    /\ \/ /\ RowUnmoved(probe.rev) /\ run.gen # 0 /\ Resume(c, run.gen) /\ Write("driving", 0)
       \/ /\ RowUnmoved(probe.rev) /\ (run.gen = 0 \/ ~ResumeAccepted(run.gen))
          /\ Write("parked", 0) /\ UNCHANGED viewVars
       \/ /\ ~RowUnmoved(probe.rev) /\ UNCHANGED <<viewVars, run>>

TakeoverNext ==
    \/ \E c \in Calls :
          \/ RunNavigates(c) \/ OwnerResumes(c) \/ ResumeRefused(c)
          \/ RunDrained(c) \/ RunDrainFails(c) \/ SweepContinues(c)
          \/ \E outcome \in {"gate", "elsewhere", "error"} : RunDriveEnds(c, outcome)
    \/ PageMoves \/ SweepProbes \/ ProbeReads \/ ProbeReadsNothing \/ ReportLost
    \/ SweepStops \/ SweepWaits \/ SweepPauses
    \/ /\ \/ IssueGrant
          \/ \E k \in Clients : \/ Detach(k) \/ HumanActs(k)
                                \/ \E g \in grants : Attach(k, g)
          \/ \E why \in {"aged", "closed"} : Close(why)
       /\ UNCHANGED takeoverVars

(* The sweep's thread comes round, its reads do not fail for ever.         *)
TakeoverFairness ==
    /\ WF_allVars(SweepProbes) /\ SF_allVars(ProbeReads) /\ WF_allVars(ProbeReadsNothing)
    /\ WF_allVars(SweepStops) /\ WF_allVars(SweepWaits) /\ WF_allVars(SweepPauses)
    /\ WF_allVars(\E c \in Calls : SweepContinues(c))

TakeoverSpec == TakeoverInit /\ [][TakeoverNext /\ Watch]_<<allVars, crossed>> /\ TakeoverFairness

----------------------------------------------------------------------------
(* PROPERTIES *)

\* "Continue only the exact canonical CAPTCHA pause that was observed": when the
\* sweep takes the browser back, the session is at the gate whose cleared page was
\* read, whatever the owner and the people at the live view did in between, and
\* somebody was there or had just left: a gate that goes away by itself continues
\* nothing.
ContinuesWhatWasRead ==
    [][run.status = "parked" /\ run'.status = "driving" /\ probe.pc = "report" /\ probe'.pc = "idle"
        => /\ probe.seen = "clear" /\ probe.gen = hitl.gen /\ probe.rev = run.rev
           /\ probe.attached \/ probe.owed]_allVars

\* A parked run whose session is gone is paused with its cause, unless its
\* polling was stopped before.
LostSessionIsPaused ==
    (run.status = "parked" /\ life # "ACTIVE" /\ ~Suppressed)
        ~> (run.status # "parked" \/ Suppressed \/ run.rev = MaxRev)

\* "Poll paused runs for clearance and continue the ones a human has cleared": a
\* run does not stay parked for ever before a cleared page with a human at it.
ClearedRunIsContinued ==
    ~<>[](/\ run.status = "parked" /\ run.rev < MaxRev /\ life = "ACTIVE"
          /\ hitl.pending /\ hitl.gen = run.gen /\ page = "plain"
          /\ \E k \in Clients : relay[k] = "control")
=============================================================================
