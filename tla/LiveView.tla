------------------------------ MODULE LiveView ------------------------------
(***************************************************************************)
(* One browser session as its routes share it (browser_service/main.py):   *)
(* the verbs that drive or read the page, the live-view relays of people   *)
(* (novnc.py, ops/browser/live_view.py), the secret-capture boundary, the  *)
(* screenshot route and the gate-clearance read (clearance.py), with the   *)
(* worker's side of each (ops/playwright/worker.py).  The service runs on  *)
(* one event loop: a step is what happens between two awaits.              *)
(*                                                                         *)
(* A page is only told apart by what it shows: nothing of note, the human  *)
(* gate, or credential content.                                            *)
(***************************************************************************)
EXTENDS Integers, FiniteSets

CONSTANTS
    Clients,    \* noVNC clients
    Calls,      \* RPCs of the control plane that can be open at once
    MaxGen,     \* bound: how many human gates a session meets
    Nothing     \* no relay, no frame, no verb, no generation

Pages == {"plain", "gate", "secret"}
Access == {"view", "control"}
Moving == {"navigate", "resume", "act"}
Reading == {"observe", "arm", "release", "capture"}

ASSUME ViewAssumption ==
    MaxGen \in Nat /\ Nothing \notin Access \cup Pages \cup Moving \cup Reading \cup Nat

VARIABLES
    life,       \* lifecycle, with the closure ring's reason once closed
    hitl,       \* hitl_pending, hitl_generation, takeover_final_probe_generation
    pix,        \* live_view_allowed, credential_surface_ready, boundary entered
    page,       \* what Chromium shows
    cam,        \* the worker's screenshots_disabled and its last frame
    grants,     \* signed grants out in the world: access and generation
    relay,      \* live_attachments: the access of a client's relay
    op,         \* the open RPCs
    shot,       \* the screenshot route: idle, or waiting for the worker
    crossed     \* history: the open calls during which another one put the
                \* gate up, and those during which another gave pixels back

sessionVars == <<life, hitl, pix, page, cam, op>>
pixelVars == <<grants, relay, shot>>
viewVars == <<sessionVars, pixelVars>>

Frames == Pages \cup {Nothing}
Grants == [access: Access, gen: 0..MaxGen]

ViewTypeOK ==
    /\ life \in {"ACTIVE", "aged", "closed"}
    /\ hitl \in [pending: BOOLEAN, gen: 0..MaxGen, owed: 0..MaxGen]
    /\ pix \in [allowed: BOOLEAN, surface: BOOLEAN, boundary: BOOLEAN]
    /\ page \in Pages /\ cam \in [off: BOOLEAN, frame: Frames]
    /\ grants \subseteq Grants /\ relay \in [Clients -> Access \cup {Nothing}]
    /\ op \in [Calls -> [verb: Moving \cup Reading \cup {Nothing},
                         pc: {"idle", "drain", "run", "boundary", "capture"},
                         was: BOOLEAN]]
    /\ shot \in {"idle", "wait"}
    /\ crossed \in [gate: SUBSET Calls, pixels: SUBSET Calls]

NoCall == [verb |-> Nothing, pc |-> "idle", was |-> FALSE]
OpAt(c, pc) == op[c].pc = pc
Verb(c) == op[c].verb
Ends(c) == op' = [op EXCEPT ![c] = NoCall]
Attached == \E k \in Clients : relay[k] # Nothing
Controlled == \E k \in Clients : relay[k] = "control"
Locked == \E c \in Calls : op[c].pc \in {"run", "capture"}
Uncrossed == [gate |-> {}, pixels |-> {}]
MayCall(c) == life = "ACTIVE" /\ OpAt(c, "idle")

ViewInit ==
    /\ life = "ACTIVE" /\ hitl = [pending |-> FALSE, gen |-> 0, owed |-> 0]
    /\ pix = [allowed |-> TRUE, surface |-> FALSE, boundary |-> FALSE]
    /\ page = "plain" /\ cam = [off |-> FALSE, frame |-> Nothing]
    /\ grants = {} /\ relay = [k \in Clients |-> Nothing]
    /\ op = [c \in Calls |-> NoCall]
    /\ shot = "idle" /\ crossed = Uncrossed

(* _set_hitl_pending(): crossing a boundary forgets the owed probe, and a  *)
(* new gate is a new generation.                                           *)
SetHitlPending(h, to) ==
    IF to = h.pending THEN h
    ELSE [pending |-> to, gen |-> IF to THEN h.gen + 1 ELSE h.gen, owed |-> 0]

----------------------------------------------------------------------------
TakesControlDrainFirst(c, verb) ==
    /\ UNCHANGED hitl
    /\ op' = [op EXCEPT ![c] = [verb |-> verb, pc |-> "drain", was |-> hitl.pending]]

(* A driving verb takes exclusive control: revoke first, then drain.  A    *)
(* resume is refused unless a gate is pending and, when the caller names a *)
(* generation, it is the gate's.                                           *)
TakesControl(c, verb) ==
    /\ hitl' = SetHitlPending(hitl, FALSE)
    /\ op' = [op EXCEPT ![c] = [verb |-> verb, pc |-> "drain", was |-> hitl.pending]]

Navigate(c) ==
    /\ MayCall(c) /\ TakesControl(c, "navigate")
    /\ UNCHANGED <<life, pix, page, cam, pixelVars>>

Act(c) ==
    /\ MayCall(c) /\ TakesControl(c, "act")
    /\ UNCHANGED <<life, pix, page, cam, pixelVars>>

ResumeAccepted(expected) == expected \in {Nothing, hitl.gen} /\ hitl.pending

Resume(c, expected) ==
    /\ MayCall(c) /\ ResumeAccepted(expected) /\ TakesControl(c, "resume")
    /\ UNCHANGED <<life, pix, page, cam, pixelVars>>

(* _drain_live_attachments(access="control"): the relays that can send     *)
(* input are closed.  A view relay stays.                                  *)
ControlDrained(c) ==
    /\ OpAt(c, "drain")
    /\ relay' = [k \in Clients |-> IF relay[k] = "control" THEN Nothing ELSE relay[k]]
    /\ op' = [op EXCEPT ![c].pc = "run"]
    /\ UNCHANGED <<life, hitl, pix, page, cam, grants, shot>>

(* A relay would not close: the gate is restored, under a new generation.  *)
ControlDrainFails(c) ==
    /\ OpAt(c, "drain") /\ Controlled
    /\ op[c].was => hitl.gen < MaxGen
    /\ hitl' = IF op[c].was THEN SetHitlPending(hitl, TRUE) ELSE hitl
    /\ Ends(c)
    /\ UNCHANGED <<life, pix, page, cam, pixelVars>>

(* _enter_secret_capture_boundary(): every pixel capability is revoked     *)
(* before the first await.  The pixel mask is installed in every session   *)
(* that create_session returns, so its check never refuses here.           *)
EntersBoundary(c) ==
    /\ pix' = [pix EXCEPT !.allowed = FALSE, !.surface = TRUE]
    /\ hitl' = SetHitlPending(hitl, FALSE)
    /\ op' = [op EXCEPT ![c].pc = "boundary"]

(* _drive() and the rest of navigate and resume, by how the worker's loop  *)
(* ended: at a gate, on the proven credential page, elsewhere, or in an    *)
(* error after which the page may be anything.                             *)
DriveEnds(c, outcome) ==
    /\ OpAt(c, "run") /\ Verb(c) \in {"navigate", "resume"}
    /\ \/ /\ outcome = "gate" /\ hitl.gen < MaxGen
          /\ page' = "gate" /\ hitl' = SetHitlPending(hitl, TRUE)
          /\ Ends(c) /\ UNCHANGED <<pix, cam>>
       \/ /\ outcome = "ready"
          /\ page' = "secret" /\ cam' = [off |-> TRUE, frame |-> Nothing]
          /\ EntersBoundary(c)
       \/ /\ outcome = "elsewhere"
          /\ page' \in Pages /\ hitl' = SetHitlPending(hitl, FALSE)
          /\ Ends(c) /\ UNCHANGED pix
          /\ cam' = IF page' = "secret" THEN [off |-> TRUE, frame |-> Nothing] ELSE cam
       \/ /\ outcome = "error" /\ page' \in Pages
          /\ Ends(c) /\ UNCHANGED <<hitl, pix, cam>>
    /\ UNCHANGED <<life, pixelVars>>

(* A resume that failed before any browser action restores its gate.       *)
ResumeRefusedBeforeAction(c) ==
    /\ OpAt(c, "run") /\ Verb(c) = "resume" /\ hitl.gen < MaxGen
    /\ hitl' = SetHitlPending(hitl, TRUE) /\ Ends(c)
    /\ UNCHANGED <<life, pix, page, cam, pixelVars>>

(* act: one candidate, whatever its result; it reports no gate.            *)
ActEnds(c) ==
    /\ OpAt(c, "run") /\ Verb(c) = "act"
    /\ page' \in Pages /\ Ends(c)
    /\ UNCHANGED <<life, hitl, pix, cam, pixelVars>>

(* The reading verbs take a lease and no control.                          *)
Read(c, verb) ==
    /\ MayCall(c)
    /\ op' = [op EXCEPT ![c] = [verb |-> verb, pc |-> "run", was |-> FALSE]]
    /\ UNCHANGED <<life, hitl, pix, page, cam, pixelVars>>

ObserveEnds(c) ==
    /\ OpAt(c, "run") /\ Verb(c) = "observe" /\ Ends(c)
    /\ UNCHANGED <<life, hitl, pix, page, cam, pixelVars>>

(* arm_credential_surface(): the recipe's predicate on a fresh reading.     *)
SurfaceProven == page = "secret"

(* release_credential_surface(): pixels come back, and no frame with them.  *)
PixelsBack == ~SurfaceProven /\ cam' = [off |-> FALSE, frame |-> Nothing]

(* arm: only the proven credential page arms, and arming enters the        *)
(* boundary before it answers.                                             *)
ArmEnds(c) ==
    /\ OpAt(c, "run") /\ Verb(c) = "arm"
    /\ IF SurfaceProven
       THEN EntersBoundary(c) /\ cam' = [off |-> TRUE, frame |-> Nothing]
       ELSE Ends(c) /\ UNCHANGED <<hitl, pix, cam>>
    /\ UNCHANGED <<life, page, pixelVars>>

(* release: a page proven free of credential content gives pixels back.    *)
ReleaseEnds(c) ==
    /\ OpAt(c, "run") /\ Verb(c) = "release" /\ Ends(c)
    /\ \/ /\ PixelsBack
          /\ pix' = [allowed |-> TRUE, surface |-> FALSE, boundary |-> FALSE]
       \/ SurfaceProven /\ UNCHANGED <<pix, cam>>
    /\ UNCHANGED <<life, hitl, page, pixelVars>>

(* capture-credentials: refused until the surface is ready, then through   *)
(* the boundary again.                                                     *)
Capture(c) ==
    /\ MayCall(c) /\ pix.surface
    /\ pix' = [pix EXCEPT !.allowed = FALSE]
    /\ hitl' = SetHitlPending(hitl, FALSE)
    /\ op' = [op EXCEPT ![c] = [verb |-> "capture", pc |-> "boundary", was |-> FALSE]]
    /\ UNCHANGED <<life, page, cam, pixelVars>>

(* The boundary's drain closes every relay, viewers included.              *)
BoundaryEntered(c) ==
    /\ OpAt(c, "boundary")
    /\ relay' = [k \in Clients |-> Nothing]
    /\ pix' = [pix EXCEPT !.boundary = TRUE]
    /\ IF Verb(c) = "capture" THEN op' = [op EXCEPT ![c].pc = "capture"] ELSE Ends(c)
    /\ UNCHANGED <<life, hitl, page, cam, grants, shot>>

BoundaryFails(c) ==
    /\ OpAt(c, "boundary") /\ Attached /\ Ends(c)
    /\ UNCHANGED <<life, hitl, pix, page, cam, pixelVars>>

(* auto_capture_credentials(): the reveal happens here.                    *)
CaptureEnds(c) ==
    /\ OpAt(c, "capture") /\ page' \in {page, "secret"} /\ Ends(c)
    /\ UNCHANGED <<life, hitl, pix, cam, pixelVars>>

----------------------------------------------------------------------------
(* live_view(): a grant for what the session is doing now.                 *)
IssueGrant ==
    /\ life = "ACTIVE" /\ pix.allowed
    /\ grants' = grants \cup {[access |-> IF hitl.pending THEN "control" ELSE "view",
                               gen |-> hitl.gen]}
    /\ grants' # grants
    /\ UNCHANGED <<sessionVars, relay, shot>>

(* authorize_live_view(): the signed grant against the live session.       *)
Authorized(g) ==
    /\ life = "ACTIVE" /\ pix.allowed
    /\ g.gen = hitl.gen
    /\ g.access = "control" => hitl.pending

(* novnc_relay(): authorized and registered without an await between.      *)
Attach(k, g) ==
    /\ relay[k] = Nothing /\ g \in grants /\ Authorized(g)
    /\ relay' = [relay EXCEPT ![k] = g.access]
    /\ UNCHANGED <<sessionVars, grants, shot>>

(* The last client that leaves a gate owes it one more look.               *)
Detach(k) ==
    /\ relay[k] # Nothing
    /\ relay' = [relay EXCEPT ![k] = Nothing]
    /\ hitl' = IF hitl.pending /\ \A j \in Clients \ {k} : relay[j] = Nothing
               THEN [hitl EXCEPT !.owed = hitl.gen] ELSE hitl
    /\ UNCHANGED <<life, pix, page, cam, op, grants, shot>>

HumanActs(k) ==
    /\ relay[k] = "control" /\ page' \in Pages \ {page}
    /\ UNCHANGED <<life, hitl, pix, cam, op, pixelVars>>

----------------------------------------------------------------------------
(* screenshot: the flag and screenshots_disabled are read before the       *)
(* worker's lock is awaited.                                               *)
ScreenshotAsked ==
    /\ shot = "idle" /\ life = "ACTIVE" /\ pix.allowed
    /\ IF cam.off
       THEN cam' = [cam EXCEPT !.frame = Nothing] /\ UNCHANGED shot
       ELSE shot' = "wait" /\ UNCHANGED cam
    /\ UNCHANGED <<life, hitl, pix, page, op, grants, relay>>

(* refresh_live_view() stores a new frame or, when the page bears secrets  *)
(* or the capture fails, keeps the old one; the old one is then served.    *)
ScreenshotTaken(ok) ==
    /\ shot = "wait" /\ ~Locked
    /\ cam' = IF ok /\ page # "secret" THEN [cam EXCEPT !.frame = page] ELSE cam
    /\ shot' = "idle"
    /\ UNCHANGED <<life, hitl, pix, page, op, grants, relay>>

(* close(): the grants die with the flag, the relays are drained, Chromium *)
(* goes.  The drain has waited for the open calls.                         *)
Close(why) ==
    /\ life = "ACTIVE" /\ \A c \in Calls : OpAt(c, "idle")
    /\ life' = why /\ hitl' = SetHitlPending(hitl, FALSE)
    /\ relay' = [k \in Clients |-> Nothing] /\ shot' = "idle"
    /\ UNCHANGED <<pix, page, cam, op, grants>>

CallStep(c) ==
    \/ Navigate(c) \/ Act(c) \/ Capture(c)
    \/ \E verb \in Reading \ {"capture"} : Read(c, verb)
    \/ ControlDrained(c) \/ ControlDrainFails(c) \/ BoundaryEntered(c) \/ BoundaryFails(c)
    \/ \E outcome \in {"gate", "ready", "elsewhere", "error"} : DriveEnds(c, outcome)
    \/ ResumeRefusedBeforeAction(c)
    \/ ActEnds(c) \/ ObserveEnds(c) \/ ArmEnds(c) \/ ReleaseEnds(c) \/ CaptureEnds(c)

PeopleStep ==
    \/ IssueGrant \/ ScreenshotAsked
    \/ \E ok \in BOOLEAN : ScreenshotTaken(ok)
    \/ \E k \in Clients : \/ Detach(k) \/ HumanActs(k)
                          \/ \E g \in grants : Attach(k, g)

ViewNext ==
    \/ \E c \in Calls : CallStep(c) \/ \E g \in (1..MaxGen) \cup {Nothing} : Resume(c, g)
    \/ PeopleStep
    \/ \E why \in {"aged", "closed"} : Close(why)

(* The service keeps no such account: nothing reads crossed but the        *)
(* properties.  A call that puts the gate up itself, or gives the pixels   *)
(* back, ends in that step.                                                *)
StillOpen(calls, event) == {c \in Calls : op'[c].pc # "idle" /\ (c \in calls \/ event)}

Watch ==
    crossed' = [gate |-> StillOpen(crossed.gate, hitl'.pending /\ ~hitl.pending),
                pixels |-> StillOpen(crossed.pixels, pix'.allowed /\ ~pix.allowed)]

ViewSpec == ViewInit /\ [][ViewNext /\ Watch]_<<viewVars, crossed>>

----------------------------------------------------------------------------
(* PROPERTIES *)

\* "The agent is driving and a person is driving must never be true at the same
\* moment": a call that moves the page runs only while no relay can send input, unless
\* a second call put the gate up in the meantime.
AgentXorHuman ==
    \A c \in Calls \ crossed.gate : OpAt(c, "run") /\ Verb(c) \in Moving => ~Controlled

\* No stream carries a revealed credential: while a capture reads the page no
\* relay is open, viewers included, and no grant could open one, unless a second
\* call released the pixels in the meantime.
CaptureIsUnwatched ==
    \A c \in Calls \ crossed.pixels : OpAt(c, "capture") =>
        ~Attached /\ \A g \in grants : ~Authorized(g)

\* The probe owed after the last client left belongs to the gate that client
\* left: it never outlives the gate, nor passes to the next one.
DebtIsCurrent == hitl.owed # 0 => hitl.pending /\ hitl.owed = hitl.gen

\* A served frame shows the page as it is ("rather than serving a STALE frame
\* from a previous page").
FrameIsCurrent ==
    [][shot = "wait" /\ shot' = "idle" /\ life' = life => cam'.frame \in {Nothing, page}]_viewVars
=============================================================================
