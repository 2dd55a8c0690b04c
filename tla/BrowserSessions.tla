-------------------------- MODULE BrowserSessions --------------------------
(***************************************************************************)
(* The browser service's session registry (browser_service/                *)
(* session_manager.py), its display pool (display_pool.py), the closer and *)
(* the create and delete routes (main.py), and the worker's start and stop *)
(* (ops/playwright/worker.py).  The service runs on one event loop, so a   *)
(* step here is what happens between two awaits.  A close awaits three     *)
(* times (drain, live attachments, Chromium), a launch once; a request, an *)
(* operation and the janitor interleave at each of them.                   *)
(*                                                                         *)
(* Time is what has passed since the last touch and since the creation,    *)
(* counted in ticks and not told apart beyond the windows.                 *)
(***************************************************************************)
EXTENDS Integers, FiniteSets, FiniteSetsExt

CONSTANTS
    Sessions,       \* session ids; an id is used once, as a uuid is
    Displays,       \* indexes of the display slots, {} when headless
    Capacity,       \* max_sessions
    Requests,       \* HTTP requests of the control plane
    Idle,           \* inactivity window, in ticks
    MaxAge,         \* maximum age, in ticks
    Regimes,        \* the timing regimes a behaviour may run under
    None

Janitor == "janitor"
Actors == Requests \cup {Janitor}

\* What a behaviour may assume of its surroundings.  timely: an operation ends
\* within the drain; clean: Chromium is gone when its shutdown returns; single:
\* nobody asks to close a session that somebody is closing.
AnyRegime == [timely: BOOLEAN, clean: BOOLEAN, single: BOOLEAN]

ASSUME CapacityAssumption == Capacity \in Nat \ {0}
ASSUME DisplaysAssumption == Displays \subseteq Nat
\* The service's settings refuse a window or an age of nothing.
ASSUME WindowsAssumption == Idle \in Nat /\ MaxAge \in Nat \ {0}
ASSUME RegimesAssumption == Regimes \subseteq AnyRegime
ASSUME ActorsAssumption == IsFiniteSet(Requests) /\ Janitor \notin Requests
ASSUME NoneAssumption == None \notin Sessions /\ None \notin Displays

VARIABLES
    sess,       \* the ManagedSession of an id
    held,       \* _held_slots: the ids that hold a capacity slot
    free,       \* the display slots nobody leases
    accepting,  \* _accepting_new_sessions
    actor,      \* where a request, or the janitor, stands
    todo,       \* the ids the current sweep has still to close
    pool,       \* the worker's own registry
    chrome,     \* <<id, display>>: a Chromium process that really runs
    regime

vars == <<sess, held, free, accepting, actor, todo, pool, chrome, regime>>

Unborn == [life |-> "none", failed |-> FALSE, ops |-> 0, idle |-> 0, age |-> 0,
           human |-> FALSE, slot |-> None, context |-> FALSE]

ManagedSession ==
    [life: {"none", "ACTIVE", "CLOSING", "CLOSED"},
     failed: BOOLEAN,        \* reason_code ends in :teardown_failed
     ops: 0..Cardinality(Requests),
     idle: 0..Idle + 1, age: 0..MaxAge,
     human: BOOLEAN,         \* gate pending and client attached
     slot: Displays \cup {None},
     context: BOOLEAN]       \* worker_context is set

Place == [pc: {"idle", "launch", "op", "drain", "detach", "stop"}, on: Sessions \cup {None}]

TypeOK ==
    /\ sess \in [Sessions -> ManagedSession]
    /\ held \subseteq Sessions /\ free \subseteq Displays /\ accepting \in BOOLEAN
    /\ actor \in [Actors -> Place]
    /\ todo \subseteq Sessions /\ pool \subseteq Sessions
    /\ chrome \subseteq Sessions \X (Displays \cup {None})
    /\ regime \in Regimes

Live(s) == sess[s].life \in {"ACTIVE", "CLOSING"}
Rest == [pc |-> "idle", on |-> None]
At(a, pc) == actor[a].pc = pc
Closing(s) == \E a \in Actors : actor[a].on = s /\ actor[a].pc \in {"drain", "detach", "stop"}

Init ==
    /\ sess = [s \in Sessions |-> Unborn]
    /\ held = {} /\ free = Displays /\ accepting = TRUE
    /\ actor = [a \in Actors |-> Rest]
    /\ todo = {} /\ pool = {} /\ chrome = {}
    /\ regime \in Regimes

----------------------------------------------------------------------------
(* close(): the session is CLOSING before the first await, whatever state  *)
(* it was in; the reason of an earlier attempt is overwritten.             *)
MarkClosing(rec) == [rec EXCEPT !.life = "CLOSING", !.failed = FALSE]

(* The end of close(): the slot of a session is released once, because the *)
(* session forgets its display and held is a set.                          *)
FinishClose(a, s) ==
    /\ sess' = [sess EXCEPT ![s].life = "CLOSED", ![s].context = FALSE,
                            ![s].slot = None, ![s].human = FALSE]
    /\ free' = free \cup (Displays \cap {sess[s].slot})
    /\ held' = held \ {s}
    /\ actor' = [actor EXCEPT ![a] = Rest]

(* POST /sessions: admission, the registry entry and the display are taken *)
(* without an await; without a display the session is closed again.        *)
Create(r, s) ==
    /\ At(r, "idle") /\ sess[s].life = "none"
    /\ accepting /\ Cardinality(held) < Capacity
    /\ held' = held \cup {s}
    /\ LET born == [Unborn EXCEPT !.life = "ACTIVE"]
           given == IF free = {} THEN None ELSE Min(free)
       IN  IF Displays # {} /\ free = {}
           THEN /\ sess' = [sess EXCEPT ![s] = MarkClosing(born)]
                /\ actor' = [actor EXCEPT ![r] = [pc |-> "drain", on |-> s]]
                /\ UNCHANGED free
           ELSE /\ sess' = [sess EXCEPT ![s] = [born EXCEPT !.slot = given]]
                /\ actor' = [actor EXCEPT ![r] = [pc |-> "launch", on |-> s]]
                /\ free' = free \ {given}
    /\ UNCHANGED <<accepting, todo, pool, chrome, regime>>

(* worker.start() returned and the live pixel mask is installed.           *)
Launched(r) ==
    LET s == actor[r].on IN
    /\ At(r, "launch")
    /\ pool' = pool \cup {s} /\ chrome' = chrome \cup {<<s, sess[s].slot>>}
    /\ sess' = [sess EXCEPT ![s].context = TRUE]
    /\ actor' = [actor EXCEPT ![r] = Rest]
    /\ UNCHANGED <<held, free, accepting, todo, regime>>

(* worker.start() raised, which leaves no Chromium, or the mask could not  *)
(* be installed, which leaves one; either way the session is closed.       *)
LaunchFails(r, started) ==
    LET s == actor[r].on IN
    /\ At(r, "launch")
    /\ pool' = IF started THEN pool \cup {s} ELSE pool
    /\ chrome' = IF started THEN chrome \cup {<<s, sess[s].slot>>} ELSE chrome
    /\ sess' = [sess EXCEPT ![s] = [MarkClosing(@) EXCEPT !.context = started]]
    /\ actor' = [actor EXCEPT ![r].pc = "drain"]
    /\ UNCHANGED <<held, free, accepting, todo, regime>>

(* DELETE /sessions/{id}: the caller learnt the id from the create.        *)
Delete(r, s) ==
    /\ At(r, "idle") /\ Live(s)
    /\ \A q \in Requests : ~(At(q, "launch") /\ actor[q].on = s)
    /\ regime.single => ~Closing(s)
    /\ sess' = [sess EXCEPT ![s] = MarkClosing(@)]
    /\ actor' = [actor EXCEPT ![r] = [pc |-> "drain", on |-> s]]
    /\ UNCHANGED <<held, free, accepting, todo, pool, chrome, regime>>

DrainedAtOnce(a) ==
    LET s == actor[a].on IN
    /\ At(a, "drain")
    /\ sess' = [sess EXCEPT ![s].human = FALSE]
    /\ actor' = [actor EXCEPT ![a].pc = "detach"]
    /\ UNCHANGED <<held, free, accepting, todo, pool, chrome, regime>>

(* The bounded drain: it ends when no operation is in flight, or when its  *)
(* time is up.  The closer starts at once and revokes the human's control. *)
Drained(a) ==
    LET s == actor[a].on IN
    /\ At(a, "drain")
    /\ regime.timely => sess[s].ops = 0
    /\ sess' = [sess EXCEPT ![s].human = FALSE]
    /\ actor' = [actor EXCEPT ![a].pc = "detach"]
    /\ UNCHANGED <<held, free, accepting, todo, pool, chrome, regime>>

DetachedReleasesFirst(a) ==
    /\ At(a, "detach") /\ FinishClose(a, actor[a].on)
    /\ UNCHANGED <<accepting, todo, pool, chrome, regime>>

(* No relay is left: worker.stop() takes the session out of the worker's   *)
(* registry and awaits its teardown.  A second closer finds it gone there  *)
(* and goes on without waiting.                                            *)
Detached(a) ==
    LET s == actor[a].on IN
    /\ At(a, "detach")
    /\ IF sess[s].context /\ s \in pool
       THEN /\ pool' = pool \ {s}
            /\ actor' = [actor EXCEPT ![a].pc = "stop"]
            /\ UNCHANGED <<sess, held, free>>
       ELSE FinishClose(a, s) /\ UNCHANGED pool
    /\ UNCHANGED <<accepting, todo, chrome, regime>>

(* A relay survived: the session stays CLOSING, marked for a retry.        *)
DetachFails(a) ==
    LET s == actor[a].on IN
    /\ At(a, "detach")
    /\ sess' = [sess EXCEPT ![s].failed = TRUE]
    /\ actor' = [actor EXCEPT ![a] = Rest]
    /\ UNCHANGED <<held, free, accepting, todo, pool, chrome, regime>>

(* _teardown(): a shutdown that fails or outlasts its minute is swallowed. *)
TornDown(a, gone) ==
    LET s == actor[a].on IN
    /\ At(a, "stop")
    /\ regime.clean => gone
    /\ chrome' = IF gone THEN {p \in chrome : p[1] # s} ELSE chrome
    /\ FinishClose(a, s)
    /\ UNCHANGED <<accepting, todo, pool, regime>>

----------------------------------------------------------------------------
(* lease(): granted while ACTIVE, and it touches the session.              *)
Lease(r, s) ==
    /\ At(r, "idle") /\ sess[s].life = "ACTIVE" /\ sess[s].context
    /\ sess' = [sess EXCEPT ![s].ops = @ + 1, ![s].idle = 0]
    /\ actor' = [actor EXCEPT ![r] = [pc |-> "op", on |-> s]]
    /\ UNCHANGED <<held, free, accepting, todo, pool, chrome, regime>>

(* The operation ends.  One that failed writes its own reason_code over    *)
(* whatever stood there.                                                   *)
OperationEnds(r, fails) ==
    LET s == actor[r].on IN
    /\ At(r, "op")
    /\ sess' = [sess EXCEPT ![s].ops = Max({0, @ - 1}), ![s].idle = 0,
                            ![s].failed = IF fails THEN FALSE ELSE @]
    /\ actor' = [actor EXCEPT ![r] = Rest]
    /\ UNCHANGED <<held, free, accepting, todo, pool, chrome, regime>>

(* retain(): a continuity event that means progress restarts the idle      *)
(* clock; a live-view client that leaves does not.                         *)
Retain(s) ==
    /\ sess[s].life = "ACTIVE" /\ sess[s].idle > 0
    /\ sess' = [sess EXCEPT ![s].idle = 0]
    /\ UNCHANGED <<held, free, accepting, actor, todo, pool, chrome, regime>>

(* A client attaches to, or leaves, a session that waits for a human.      *)
HumanAttaches(s) ==
    /\ sess[s].life = "ACTIVE" /\ sess[s].context /\ sess[s].ops = 0
    /\ sess' = [sess EXCEPT ![s].human = ~@]
    /\ UNCHANGED <<held, free, accepting, actor, todo, pool, chrome, regime>>

(* begin_drain() and undrain(): the admission gate.                        *)
DrainGate ==
    /\ accepting' = ~accepting
    /\ UNCHANGED <<sess, held, free, actor, todo, pool, chrome, regime>>

----------------------------------------------------------------------------
(* session_expiry(): the age is absolute, the idle window spares a human.  *)
SessionExpiry(rec) ==
    \/ rec.age >= MaxAge
    \/ ~rec.human /\ rec.idle > Idle

(* expired_session_ids()                                                   *)
ExpiredSessionIds ==
    {s \in Sessions :
        /\ sess[s].ops = 0
        /\ \/ sess[s].life = "CLOSING" /\ sess[s].failed
           \/ sess[s].life = "ACTIVE" /\ SessionExpiry(sess[s])}

(* sweep() takes its list once ...                                         *)
Sweep ==
    /\ At(Janitor, "idle") /\ todo = {} /\ ExpiredSessionIds # {}
    /\ todo' = ExpiredSessionIds
    /\ UNCHANGED <<sess, held, free, accepting, actor, pool, chrome, regime>>

(* ... and closes the listed sessions one after the other, each close with *)
(* its awaits, without looking at them again.                              *)
SweepCloses(s) ==
    /\ At(Janitor, "idle") /\ s \in todo
    /\ todo' = todo \ {s}
    /\ IF Live(s) /\ (regime.single => ~Closing(s))
       THEN /\ sess' = [sess EXCEPT ![s] = MarkClosing(@)]
            /\ actor' = [actor EXCEPT ![Janitor] = [pc |-> "drain", on |-> s]]
       ELSE UNCHANGED <<sess, actor>>
    /\ UNCHANGED <<held, free, accepting, pool, chrome, regime>>

(* A launch is bounded far below the inactivity window, and an operation   *)
(* and a close move no clock.                                              *)
Tick ==
    /\ \A r \in Requests : ~At(r, "launch")
    /\ sess' = [s \in Sessions |->
                    IF sess[s].life = "ACTIVE"
                    THEN [sess[s] EXCEPT !.idle = Min({@ + 1, Idle + 1}),
                                         !.age = Min({@ + 1, MaxAge})]
                    ELSE sess[s]]
    /\ sess' # sess
    /\ UNCHANGED <<held, free, accepting, actor, todo, pool, chrome, regime>>

CloseStep(a) ==
    \/ Drained(a) \/ Detached(a) \/ DetachFails(a)
    \/ \E gone \in BOOLEAN : TornDown(a, gone)

RequestStep(r) ==
    \/ \E s \in Sessions : Create(r, s) \/ Delete(r, s) \/ Lease(r, s)
    \/ Launched(r)
    \/ \E b \in BOOLEAN : LaunchFails(r, b) \/ OperationEnds(r, b)

Next ==
    \/ \E r \in Requests : RequestStep(r)
    \/ \E a \in Actors : CloseStep(a)
    \/ Sweep \/ Tick \/ DrainGate
    \/ \E s \in Sessions : SweepCloses(s) \/ Retain(s) \/ HumanAttaches(s)

(* The janitor's loop and every request run; relays do not survive for     *)
(* ever, so a detach that is tried again and again succeeds.               *)
Fairness ==
    /\ WF_vars(Sweep)
    /\ \A s \in Sessions : WF_vars(SweepCloses(s))
    /\ \A a \in Actors : /\ WF_vars(Drained(a)) /\ SF_vars(Detached(a))
                         /\ WF_vars(\E gone \in BOOLEAN : TornDown(a, gone))
    /\ \A r \in Requests : WF_vars(\E b \in BOOLEAN : OperationEnds(r, b))

Spec == Init /\ [][Next]_vars /\ Fairness

----------------------------------------------------------------------------
(* PROPERTIES *)

\* "Capacity is released exactly once": the slots in use are those of the
\* sessions in the registry, through failed launches, retried and concurrent
\* closes, and there are never more of them than max_sessions.
CapacityExact ==
    /\ held = {s \in Sessions : Live(s)}
    /\ Cardinality(held) <= Capacity

\* A display is free or leased by exactly one session of the registry: none is
\* lost when a launch fails, and a retried or doubled close frees only its own.
DisplaysPartition ==
    /\ \A d \in Displays : (d \in free) <=> (\A s \in Sessions : sess[s].slot # d)
    /\ \A s, t \in Sessions : s # t /\ sess[s].slot # None => sess[s].slot # sess[t].slot

\* A display shows at most one Chromium, and never one whose session is gone.
OneBrowserPerDisplay ==
    \A p, q \in chrome : p # q /\ p[2] # None => p[2] # q[2]

\* ... while nobody closes a session twice at once and a shutdown is what it says.
DisplayIsPrivate ==
    regime.single /\ regime.clean =>
        /\ OneBrowserPerDisplay
        /\ \A p \in chrome : Live(p[1])

\* The pool, with callers that close one session twice and operations that outlast
\* the drain: slots and displays are given back exactly once, and no two live
\* sessions show one display.
PoolSafety == TypeOK /\ CapacityExact /\ DisplaysPartition /\ DisplayIsPrivate

\* "The janitor never closes a session in the middle of an action": no Chromium
\* is stopped while a leased operation runs on it ...
JanitorSparesActions ==
    [][\A s \in Sessions :
          (\E d \in Displays \cup {None} : <<s, d>> \in chrome \ chrome')
              => sess[s].ops = 0]_vars

\* ... as long as operations end within the drain.
TimelyActionsAreSpared ==
    [][regime.timely =>
       \A s \in Sessions : s \in pool \ pool' => sess[s].ops = 0]_vars

\* "Retry one failed closer on the next bounded janitor sweep": a session that
\* is being closed is closed in the end, and its slot and display come back.
ClosingSessionCloses ==
    \A s \in Sessions : sess[s].life = "CLOSING" ~> sess[s].life = "CLOSED"

ClosesInTime(s) ==
    (regime.timely /\ sess[s].life = "CLOSING") ~> sess[s].life = "CLOSED"
============================================================================
