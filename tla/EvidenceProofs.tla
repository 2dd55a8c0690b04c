--------------------------- MODULE EvidenceProofs ---------------------------
(* Proofs about what a walk learns, holds and proves (MCEvidence): the browser *)
(* session in hand (SessionBinding), the run's identity (RunBindings), the     *)
(* proof of a credential (CredentialProof), the enrichment of a record         *)
(* (Enrichment), the provider's profile (ProviderResearch) and the model's     *)
(* decisions (ModelDecision).  Each has an inductive invariant of its own; a   *)
(* behaviour of MCSpec is one of the six.                                      *)
EXTENDS MCEvidence, TLAPS, FiniteSetTheorems, FunctionTheorems, SequenceTheorems

-----------------------------------------------------------------------------
(* SessionBinding                                                             *)

SessionRows == [state : {"unborn", "active", "gone"}, page : 0..MaxGeneration,
                confined : BOOLEAN, armed : 0..(MaxGeneration + 1)]

Tellings == {"nothing", "raised", "executed", "failed", "stale", "blocked", "unreached",
             "captured"}

Drivers == [pc : {"away", "recall", "bind", "probe", "start", "refuse", "record", "ready",
                  "planned", "armed"},
            at : Sessions \cup {S!None}, bound : Sessions \cup {S!None},
            seen : 0..(MaxGeneration + 1), told : Tellings]

SessionTypes ==
    /\ row \in Sessions \cup {S!None} /\ bindingFaults \in 0..MaxFaults
    /\ session \in [Sessions -> SessionRows] /\ driver \in [Workers -> Drivers]
    /\ recorded \subseteq Sessions /\ driven \subseteq Sessions /\ captured \subseteq Sessions

\* A session the row has named exists and is confined, and so is one about to be named.
Kept(s) == session[s].confined /\ session[s].state # "unborn"

\* What a worker holds: a handle on a recorded session, which is the one it is at
\* while it drives; the session the row named when it read it; or a fresh one.
Drives(d) ==
    /\ d.bound # S!None => d.bound \in recorded
    /\ d.pc \in {"recall", "ready", "planned", "armed"} => d.at = d.bound /\ d.at # S!None
    /\ d.pc = "probe" => d.at \in recorded
    /\ d.pc = "record" => d.at \in Sessions /\ Kept(d.at)
    /\ d.pc = "refuse" => d.at \in Sessions

SessionInvariant ==
    /\ SessionTypes
    /\ row # S!None => row \in recorded
    /\ \A s \in recorded : Kept(s)
    /\ driven \cup captured \subseteq recorded
    /\ \A w \in Workers : Drives(driver[w])

LEMMA SessionBounds ==
    /\ S!None \notin Sessions /\ MaxGeneration \in Nat /\ MaxFaults \in Nat
    /\ 0 \in 0..(MaxGeneration + 1)
  BY EvidencePartsAssumption
     DEF EvidencePartsAssumption, S!BindingAssumption

LEMMA SessionInitially ==
    ASSUME S!BindingInit PROVE SessionInvariant
  <1>1. S!Unborn \in SessionRows
    BY SessionBounds DEF S!Unborn, SessionRows
  <1>2. S!Away \in Drivers /\ Drives(S!Away)
    BY SessionBounds DEF S!Away, Drivers, Drives, S!None, Tellings
  <1>3. SessionTypes
    BY <1>1, <1>2, SessionBounds DEF S!BindingInit, SessionTypes
  <1>4. \A w \in Workers : Drives(driver[w])
    BY <1>2 DEF S!BindingInit
  <1> QED  BY <1>3, <1>4 DEF S!BindingInit, SessionInvariant

\* What the service does to a session loses neither its confinement nor its life.
Kindly == \A s \in Sessions : Kept(s) => session'[s].confined /\ session'[s].state # "unborn"

\* A step of one worker: what it holds afterwards stands, and the rest goes on standing.
LEMMA DriverMoves ==
    ASSUME SessionInvariant, NEW w \in Workers, NEW to \in Drivers, S!Goes(w, to),
           session' \in [Sessions -> SessionRows], Kindly, bindingFaults' \in 0..MaxFaults,
           row' \in Sessions \cup {S!None}, row' # S!None => row' \in recorded',
           recorded \subseteq recorded', recorded' \subseteq Sessions,
           \A s \in recorded' \ recorded : Kept(s)',
           driven' \cup captured' \subseteq recorded', Drives(to)'
    PROVE  SessionInvariant'
  <1>1. /\ driver' \in [Workers -> Drivers] /\ driver'[w] = to
        /\ \A v \in Workers \ {w} : driver'[v] = driver[v]
    BY DEF SessionInvariant, SessionTypes, S!Goes
  <1>2. SessionTypes'
    BY <1>1 DEF SessionTypes
  <1>3. \A s \in Sessions : Kept(s) => Kept(s)'
    BY DEF Kindly, Kept
  <1>4. \A s \in recorded' : Kept(s)'
    BY <1>3 DEF SessionInvariant
  <1>5. ASSUME NEW v \in Workers PROVE Drives(driver[v])'
    <2>1. CASE v = w
      BY <1>1, <2>1 DEF Drives
    <2>2. CASE v # w
      <3>1. driver'[v] = driver[v] /\ Drives(driver[v]) /\ driver[v] \in Drivers
        BY <1>1, <2>2 DEF SessionInvariant, SessionTypes
      <3> QED  BY <1>3, <3>1 DEF Drives
    <2> QED  BY <2>1, <2>2
  <1> QED  BY <1>2, <1>4, <1>5 DEF SessionInvariant

\* A step of one worker that changes nothing but what it holds.
LEMMA DriverTurns ==
    ASSUME SessionInvariant, NEW w \in Workers, NEW to \in Drivers, S!Goes(w, to),
           UNCHANGED <<row, session, recorded, driven, captured>>,
           bindingFaults' \in 0..MaxFaults, Drives(to)
    PROVE  SessionInvariant'
  <1>1. Kindly /\ Drives(to)'
    BY DEF Kindly, Kept, Drives
  <1> QED  BY <1>1, DriverMoves DEF SessionInvariant, SessionTypes

LEMMA Faulted ==
    ASSUME SessionInvariant, S!Fault PROVE bindingFaults' \in 0..MaxFaults
  BY SessionBounds DEF SessionInvariant, SessionTypes, S!Fault

\* A phase that raises: its worker keeps the handle it had.
LEMMA RaisedStands ==
    ASSUME SessionInvariant, NEW w \in Workers, S!Raises(w)
    PROVE  \E to \in Drivers :
              /\ S!Goes(w, to) /\ to.pc = "away" /\ to.bound = driver[w].bound
              /\ to.bound # S!None => to.bound \in recorded
  <1>1. PICK to : to = [driver[w] EXCEPT !.pc = "away", !.at = S!None, !.told = "raised"]
    OBVIOUS
  <1>2. driver[w] \in Drivers /\ Drives(driver[w])
    BY DEF SessionInvariant, SessionTypes
  <1>3. to \in Drivers /\ to.pc = "away" /\ to.bound = driver[w].bound
    BY <1>1, <1>2 DEF Drivers, Tellings
  <1> QED  BY <1>1, <1>2, <1>3 DEF S!Raises, Drives

\* ... and whatever it had done at the service stays true of it.
LEMMA RaisesMoves ==
    ASSUME SessionInvariant, NEW w \in Workers, S!Raises(w),
           session' \in [Sessions -> SessionRows], Kindly, bindingFaults' \in 0..MaxFaults,
           UNCHANGED <<row, recorded>>, driven' \cup captured' \subseteq recorded
    PROVE  SessionInvariant'
  <1>1. PICK to \in Drivers :
           /\ S!Goes(w, to) /\ to.pc = "away" /\ to.bound = driver[w].bound
           /\ to.bound # S!None => to.bound \in recorded
    BY RaisedStands
  <1>2. Drives(to)'
    BY <1>1 DEF Drives
  <1> QED  BY <1>1, <1>2, DriverMoves DEF SessionInvariant, SessionTypes

LEMMA KindlyStill ==
    ASSUME UNCHANGED session PROVE Kindly
  BY DEF Kindly, Kept

LEMMA SessionForStep ==
    ASSUME SessionInvariant, NEW w \in Workers, S!SessionFor(w) PROVE SessionInvariant'
  <1>1. PICK to : to = [driver[w] EXCEPT !.pc = IF driver[w].bound # S!None THEN "recall" ELSE "bind",
                                         !.at = driver[w].bound, !.told = "nothing"]
    OBVIOUS
  <1>2. driver[w] \in Drivers /\ Drives(driver[w])
    BY DEF SessionInvariant, SessionTypes
  <1>3. to \in Drivers
    BY <1>1, <1>2 DEF Drivers, Tellings
  <1>4. to.bound = driver[w].bound /\ to.at = driver[w].bound
        /\ to.pc = IF driver[w].bound # S!None THEN "recall" ELSE "bind"
    BY <1>1, <1>2 DEF Drivers
  <1>5. Drives(to)
    BY <1>2, <1>4 DEF Drives
  <1>6. S!Goes(w, to) /\ UNCHANGED <<row, session, recorded, driven, captured, bindingFaults>>
    BY <1>1 DEF S!SessionFor
  <1> QED  BY <1>3, <1>5, <1>6, DriverTurns DEF SessionInvariant, SessionTypes

LEMMA Answered ==
    ASSUME SessionInvariant, NEW w, NEW s, NEW live, S!Answers(w, s, live)
    PROVE  bindingFaults' \in 0..MaxFaults
  BY Faulted DEF S!Answers, SessionInvariant, SessionTypes

LEMMA RecallStep ==
    ASSUME SessionInvariant, NEW w \in Workers, S!Recall(w) PROVE SessionInvariant'
  <1>1. driver[w] \in Drivers /\ Drives(driver[w]) /\ driver[w].pc = "recall"
    BY DEF SessionInvariant, SessionTypes, S!Recall
  <1>2. UNCHANGED <<row, session, recorded, driven, captured>> /\ bindingFaults' \in 0..MaxFaults
    BY Answered DEF S!Recall
  <1>3. CASE S!Goes(w, [driver[w] EXCEPT !.pc = "ready"])
    <2>1. PICK to : to = [driver[w] EXCEPT !.pc = "ready"]
      OBVIOUS
    <2>2. to \in Drivers /\ to.pc = "ready" /\ to.bound = driver[w].bound /\ to.at = driver[w].at
      BY <1>1, <2>1 DEF Drivers
    <2>3. Drives(to)
      BY <1>1, <2>2 DEF Drives
    <2> QED  BY <1>2, <1>3, <2>1, <2>2, <2>3, DriverTurns
  <1>4. CASE S!Goes(w, [driver[w] EXCEPT !.pc = "bind", !.at = S!None, !.bound = S!None, !.seen = 0])
    <2>1. PICK to : to = [driver[w] EXCEPT !.pc = "bind", !.at = S!None, !.bound = S!None, !.seen = 0]
      OBVIOUS
    <2>2. to \in Drivers /\ to.pc = "bind" /\ to.bound = S!None
      BY <1>1, <2>1, SessionBounds DEF Drivers
    <2>3. Drives(to)
      BY <2>2 DEF Drives
    <2> QED  BY <1>2, <1>4, <2>1, <2>2, <2>3, DriverTurns
  <1> QED  BY <1>3, <1>4 DEF S!Recall

LEMMA ReadRowStep ==
    ASSUME SessionInvariant, NEW w \in Workers, S!ReadRow(w) PROVE SessionInvariant'
  <1>1. UNCHANGED <<row, session, recorded, driven, captured>>
    BY DEF S!ReadRow
  <1>2. CASE S!Goes(w, [driver[w] EXCEPT !.pc = IF row # S!None THEN "probe" ELSE "start", !.at = row])
             /\ UNCHANGED bindingFaults
    <2>1. PICK to : to = [driver[w] EXCEPT !.pc = IF row # S!None THEN "probe" ELSE "start", !.at = row]
      OBVIOUS
    <2>2. driver[w] \in Drivers /\ Drives(driver[w]) /\ row \in Sessions \cup {S!None}
      BY DEF SessionInvariant, SessionTypes
    <2>3. to \in Drivers
      BY <2>1, <2>2 DEF Drivers
    <2>4. to.bound = driver[w].bound /\ to.at = row /\ to.pc = IF row # S!None THEN "probe" ELSE "start"
      BY <2>1, <2>2 DEF Drivers
    <2>5. Drives(to)
      BY <2>2, <2>4 DEF Drives, SessionInvariant
    <2> QED  BY <1>1, <1>2, <2>1, <2>3, <2>5, DriverTurns DEF SessionInvariant, SessionTypes
  <1>3. CASE S!Fault /\ S!Raises(w)
    BY <1>1, <1>3, Faulted, KindlyStill, RaisesMoves DEF SessionInvariant, SessionTypes
  <1> QED  BY <1>2, <1>3 DEF S!ReadRow

LEMMA ProbeStep ==
    ASSUME SessionInvariant, NEW w \in Workers, S!Probe(w) PROVE SessionInvariant'
  <1>1. driver[w] \in Drivers /\ Drives(driver[w]) /\ driver[w].pc = "probe"
    BY DEF SessionInvariant, SessionTypes, S!Probe
  <1>2. UNCHANGED <<row, session, recorded, driven, captured>> /\ bindingFaults' \in 0..MaxFaults
    BY Answered DEF S!Probe
  <1>3. CASE S!Goes(w, [driver[w] EXCEPT !.pc = "ready", !.bound = driver[w].at, !.seen = 0])
    <2>1. PICK to : to = [driver[w] EXCEPT !.pc = "ready", !.bound = driver[w].at, !.seen = 0]
      OBVIOUS
    <2>2. to \in Drivers
      BY <1>1, <2>1, SessionBounds DEF Drivers
    <2>3. to.pc = "ready" /\ to.bound = driver[w].at /\ to.at = driver[w].at
      BY <1>1, <2>1 DEF Drivers
    <2>4. driver[w].at \in recorded /\ driver[w].at # S!None
      BY <1>1, SessionBounds DEF Drives, SessionInvariant, SessionTypes
    <2>5. Drives(to)
      BY <2>3, <2>4 DEF Drives
    <2> QED  BY <1>2, <1>3, <2>1, <2>2, <2>5, DriverTurns
  <1>4. CASE S!Goes(w, [driver[w] EXCEPT !.pc = "start", !.at = S!None])
    <2>1. PICK to : to = [driver[w] EXCEPT !.pc = "start", !.at = S!None]
      OBVIOUS
    <2>2. to \in Drivers /\ to.pc = "start" /\ to.bound = driver[w].bound
      BY <1>1, <2>1 DEF Drivers
    <2>3. Drives(to)
      BY <1>1, <2>2 DEF Drives
    <2> QED  BY <1>2, <1>4, <2>1, <2>2, <2>3, DriverTurns
  <1> QED  BY <1>3, <1>4 DEF S!Probe

\* What an action of the service writes of a session.
LEMMA RowWritten ==
    ASSUME SessionInvariant, NEW s \in Sessions, NEW to \in SessionRows,
           session' = [session EXCEPT ![s] = to],
           Kept(s) => to.confined /\ to.state # "unborn"
    PROVE  /\ session' \in [Sessions -> SessionRows] /\ Kindly
           /\ session'[s] = to /\ \A t \in Sessions \ {s} : session'[t] = session[t]
  BY DEF SessionInvariant, SessionTypes, Kindly, Kept

\* A step of the service alone.
LEMMA ServiceMoves ==
    ASSUME SessionInvariant, session' \in [Sessions -> SessionRows], Kindly,
           UNCHANGED <<row, driver, recorded, captured, bindingFaults>>,
           driven' \subseteq recorded
    PROVE  SessionInvariant'
  <1>1. \A s \in Sessions : Kept(s) => Kept(s)'
    BY DEF Kindly, Kept
  <1>2. SessionTypes'
    BY DEF SessionInvariant, SessionTypes
  <1>3. ASSUME NEW v \in Workers PROVE Drives(driver[v])'
    <2>1. driver'[v] = driver[v] /\ Drives(driver[v])
      BY DEF SessionInvariant
    <2> QED  BY <1>1, <2>1 DEF Drives
  <1> QED  BY <1>1, <1>2, <1>3 DEF SessionInvariant, SessionTypes

LEMMA StartStep ==
    ASSUME SessionInvariant, NEW w \in Workers, S!Start(w) PROVE SessionInvariant'
  <1>1. UNCHANGED <<row, recorded, driven, captured>>
        /\ driver[w] \in Drivers /\ Drives(driver[w]) /\ driver[w].pc = "start"
    BY DEF SessionInvariant, SessionTypes, S!Start
  <1>2. ASSUME NEW s \in Sessions, NEW confined \in BOOLEAN, session[s].state = "unborn",
               session' = [session EXCEPT ![s] = [S!Unborn EXCEPT !.state = "active", !.confined = confined]],
               \/ /\ confined /\ S!Goes(w, [driver[w] EXCEPT !.pc = "record", !.at = s])
                  /\ UNCHANGED bindingFaults
               \/ /\ ~confined /\ S!Fault
                  /\ S!Goes(w, [driver[w] EXCEPT !.pc = "refuse", !.at = s])
               \/ S!Fault /\ S!Raises(w)
        PROVE  SessionInvariant'
    <2>1. PICK new : new = [S!Unborn EXCEPT !.state = "active", !.confined = confined]
      OBVIOUS
    <2>2. S!Unborn \in SessionRows
      BY SessionBounds DEF S!Unborn, SessionRows
    <2>3. new \in SessionRows /\ new.state = "active" /\ new.confined = confined
      <3>1. new \in SessionRows
        BY <2>1, <2>2 DEF SessionRows
      <3>2. new.state = "active"
        BY <2>1, <2>2 DEF SessionRows
      <3>3. new.confined = confined
        BY <2>1, <2>2 DEF SessionRows
      <3> QED  BY <3>1, <3>2, <3>3
    <2>4. ~Kept(s)
      BY <1>2 DEF Kept
    <2>5. /\ session' \in [Sessions -> SessionRows] /\ Kindly /\ session'[s] = new
      BY <1>2, <2>1, <2>3, <2>4, RowWritten
    <2>6. CASE confined /\ S!Goes(w, [driver[w] EXCEPT !.pc = "record", !.at = s]) /\ UNCHANGED bindingFaults
      <3>1. PICK to : to = [driver[w] EXCEPT !.pc = "record", !.at = s]
        OBVIOUS
      <3>2. to \in Drivers /\ to.pc = "record" /\ to.at = s /\ to.bound = driver[w].bound
        BY <1>1, <3>1 DEF Drivers
      <3>3. Drives(to)'
        BY <1>1, <2>3, <2>5, <2>6, <3>2 DEF Drives, Kept
      <3> QED  BY <1>1, <2>5, <2>6, <3>1, <3>2, <3>3, DriverMoves DEF SessionInvariant, SessionTypes
    <2>7. CASE S!Fault /\ S!Goes(w, [driver[w] EXCEPT !.pc = "refuse", !.at = s])
      <3>1. PICK to : to = [driver[w] EXCEPT !.pc = "refuse", !.at = s]
        OBVIOUS
      <3>2. to \in Drivers /\ to.pc = "refuse" /\ to.at = s /\ to.bound = driver[w].bound
        BY <1>1, <3>1 DEF Drivers
      <3>3. Drives(to)'
        BY <1>1, <3>2 DEF Drives
      <3>4. bindingFaults' \in 0..MaxFaults
        BY <2>7, Faulted
      <3> QED  BY <1>1, <2>5, <2>7, <3>1, <3>2, <3>3, <3>4, DriverMoves DEF SessionInvariant, SessionTypes
    <2>8. CASE S!Fault /\ S!Raises(w)
      BY <1>1, <2>5, <2>8, Faulted, RaisesMoves DEF SessionInvariant
    <2> QED  BY <1>2, <2>6, <2>7, <2>8
  <1>3. CASE S!Fault /\ S!Raises(w) /\ UNCHANGED session
    BY <1>1, <1>3, Faulted, KindlyStill, RaisesMoves DEF SessionInvariant, SessionTypes
  <1> QED  BY <1>2, <1>3 DEF S!Start

\* Ending a session, whoever does it.
LEMMA GoneWritten ==
    ASSUME SessionInvariant, NEW s \in Sessions, session' = [session EXCEPT ![s].state = "gone"]
    PROVE  session' \in [Sessions -> SessionRows] /\ Kindly
  <1>1. PICK new : new = [session[s] EXCEPT !.state = "gone"]
    OBVIOUS
  <1>2. session[s] \in SessionRows
    BY DEF SessionInvariant, SessionTypes
  <1>3. new \in SessionRows /\ new.state = "gone" /\ new.confined = session[s].confined
    BY <1>1, <1>2 DEF SessionRows
  <1>4. session' = [session EXCEPT ![s] = new]
    BY <1>1
  <1> QED  BY <1>3, <1>4, RowWritten DEF Kept

LEMMA AbandonSessionStep ==
    ASSUME SessionInvariant, NEW w \in Workers, S!AbandonSession(w) PROVE SessionInvariant'
  <1>1. /\ S!Raises(w) /\ UNCHANGED <<row, recorded, driven, captured>>
        /\ driver[w].at \in Sessions
    BY DEF S!AbandonSession, SessionInvariant, Drives
  <1>2. CASE session' = [session EXCEPT ![driver[w].at].state = "gone"] /\ UNCHANGED bindingFaults
    <2>1. session' \in [Sessions -> SessionRows] /\ Kindly
      BY <1>1, <1>2, GoneWritten
    <2> QED  BY <1>1, <1>2, <2>1, RaisesMoves DEF SessionInvariant, SessionTypes
  <1>3. CASE S!Fault /\ UNCHANGED session
    BY <1>1, <1>3, Faulted, KindlyStill, RaisesMoves DEF SessionInvariant, SessionTypes
  <1> QED  BY <1>2, <1>3 DEF S!AbandonSession

LEMMA RecordSessionStep ==
    ASSUME SessionInvariant, NEW w \in Workers, S!RecordSession(w) PROVE SessionInvariant'
  <1>1. /\ driver[w] \in Drivers /\ Drives(driver[w]) /\ driver[w].pc = "record"
        /\ UNCHANGED <<session, driven, captured, bindingFaults>>
        /\ row' = driver[w].at /\ recorded' = recorded \cup {driver[w].at}
    BY DEF SessionInvariant, SessionTypes, S!RecordSession
  <1>2. driver[w].at \in Sessions /\ Kept(driver[w].at)
    BY <1>1 DEF Drives
  <1>3. PICK s \in Sessions : s = driver[w].at
    BY <1>2
  <1>4. PICK to : to = [driver[w] EXCEPT !.pc = "ready", !.bound = driver[w].at, !.seen = 0]
    OBVIOUS
  <1>5. to \in Drivers
    BY <1>1, <1>4, SessionBounds DEF Drivers
  <1>6. to.pc = "ready" /\ to.bound = s /\ to.at = s
    BY <1>1, <1>3, <1>4 DEF Drivers
  <1>7. recorded' = recorded \cup {s} /\ row' = s /\ Kept(s)'
    BY <1>1, <1>2, <1>3 DEF Kept
  <1>8. Drives(to)'
    BY <1>6, <1>7, SessionBounds DEF Drives
  <1>9. S!Goes(w, to)
    BY <1>4 DEF S!RecordSession
  <1>10. Kindly
    BY <1>1, KindlyStill
  <1>11. /\ recorded' \subseteq Sessions /\ driven' \cup captured' \subseteq recorded'
         /\ bindingFaults' \in 0..MaxFaults /\ session' \in [Sessions -> SessionRows]
         /\ row' \in Sessions \cup {S!None}
         /\ \A t \in recorded' \ recorded : Kept(t)'
    BY <1>1, <1>7 DEF SessionInvariant, SessionTypes
  <1> QED  BY <1>5, <1>7, <1>8, <1>9, <1>10, <1>11, DriverMoves

LEMMA ObserveStep ==
    ASSUME SessionInvariant, NEW w \in Workers, S!Observe(w) PROVE SessionInvariant'
  <1>1. /\ driver[w] \in Drivers /\ Drives(driver[w]) /\ driver[w].pc \in {"ready", "planned"}
        /\ UNCHANGED <<row, session, recorded, captured>>
    BY DEF SessionInvariant, SessionTypes, S!Observe
  <1>2. driver[w].at \in recorded
    BY <1>1 DEF Drives
  <1>3. CASE /\ S!Keeps(w, S!Here(w).page) /\ driven' = driven \cup {driver[w].at}
             /\ UNCHANGED bindingFaults
    <2>1. PICK to : to = [driver[w] EXCEPT !.pc = "planned", !.seen = session[driver[w].at].page + 1]
      OBVIOUS
    <2>2. session[driver[w].at].page \in 0..MaxGeneration
      BY <1>2 DEF SessionInvariant, SessionTypes, SessionRows
    <2>3. session[driver[w].at].page + 1 \in 0..(MaxGeneration + 1)
      BY <2>2, SessionBounds
    <2>4. to \in Drivers
      BY <1>1, <2>1, <2>3 DEF Drivers
    <2>5. to.pc = "planned" /\ to.bound = driver[w].bound /\ to.at = driver[w].at
      BY <1>1, <2>1 DEF Drivers
    <2>6. Drives(to)'
      BY <1>1, <2>5 DEF Drives
    <2>7. S!Goes(w, to) /\ Kindly
      BY <1>1, <1>3, <2>1, KindlyStill DEF S!Keeps, S!Here
    <2>8. driven' \cup captured' \subseteq recorded'
      BY <1>1, <1>2, <1>3 DEF SessionInvariant
    <2> QED  BY <1>1, <1>3, <2>4, <2>6, <2>7, <2>8, DriverMoves DEF SessionInvariant, SessionTypes
  <1>4. CASE S!Raises(w) /\ UNCHANGED <<driven, bindingFaults>>
    BY <1>1, <1>4, KindlyStill, RaisesMoves DEF SessionInvariant, SessionTypes
  <1>5. CASE S!Fault /\ S!Raises(w) /\ UNCHANGED driven
    BY <1>1, <1>5, Faulted, KindlyStill, RaisesMoves DEF SessionInvariant, SessionTypes
  <1> QED  BY <1>3, <1>4, <1>5 DEF S!Observe

\* A page that moved: one more generation of a session that had some left.
LEMMA PageWritten ==
    ASSUME SessionInvariant, NEW s \in Sessions, session[s].page < MaxGeneration,
           session' = [session EXCEPT ![s].page = @ + 1]
    PROVE  session' \in [Sessions -> SessionRows] /\ Kindly
  <1>1. PICK new : new = [session[s] EXCEPT !.page = session[s].page + 1]
    OBVIOUS
  <1>2. session[s] \in SessionRows /\ session[s].page \in 0..MaxGeneration
    BY DEF SessionInvariant, SessionTypes, SessionRows
  <1>3. session[s].page + 1 \in 0..MaxGeneration
    BY <1>2, SessionBounds
  <1>4. new \in SessionRows
    BY <1>1, <1>2, <1>3 DEF SessionRows
  <1>5. new.state = session[s].state /\ new.confined = session[s].confined
    BY <1>1, <1>2 DEF SessionRows
  <1>6. session' = [session EXCEPT ![s] = new]
    BY <1>1
  <1> QED  BY <1>4, <1>5, <1>6, RowWritten DEF Kept

LEMMA ActStep ==
    ASSUME SessionInvariant, NEW w \in Workers, S!Act(w) PROVE SessionInvariant'
  <1>1. /\ driver[w] \in Drivers /\ Drives(driver[w]) /\ driver[w].pc = "planned"
        /\ UNCHANGED <<row, recorded, driven, captured>>
        /\ session[driver[w].at].page < MaxGeneration
    BY DEF SessionInvariant, SessionTypes, S!Act, S!Here
  <1>2. driver[w].at \in recorded /\ driver[w].at \in Sessions
    BY <1>1 DEF Drives, SessionInvariant, SessionTypes
  <1>3. bindingFaults' \in 0..MaxFaults
    BY Faulted DEF S!Act, SessionInvariant, SessionTypes
  <1>4. session' \in [Sessions -> SessionRows] /\ Kindly
    <2>1. CASE S!Acts(w)
      BY <1>1, <1>2, <2>1, PageWritten DEF S!Acts
    <2>2. CASE UNCHANGED session
      BY <2>2, KindlyStill DEF SessionInvariant, SessionTypes
    <2> QED  BY <2>1, <2>2 DEF S!Act
  <1>5. PICK told \in Tellings : S!Outcome(w, told)
    BY DEF S!Act, Tellings
  <1>6. PICK to : to = [driver[w] EXCEPT !.pc = "ready", !.told = told]
    OBVIOUS
  <1>7. to \in Drivers
    BY <1>1, <1>5, <1>6 DEF Drivers
  <1>8. to.pc = "ready" /\ to.bound = driver[w].bound /\ to.at = driver[w].at
    BY <1>1, <1>6 DEF Drivers
  <1>9. Drives(to)'
    BY <1>1, <1>8 DEF Drives
  <1>10. S!Goes(w, to)
    BY <1>5, <1>6 DEF S!Outcome
  <1> QED  BY <1>1, <1>3, <1>4, <1>7, <1>9, <1>10, DriverMoves DEF SessionInvariant, SessionTypes

LEMMA ArmCredentialSurfaceStep ==
    ASSUME SessionInvariant, NEW w \in Workers, S!ArmCredentialSurface(w) PROVE SessionInvariant'
  <1>1. /\ driver[w] \in Drivers /\ Drives(driver[w]) /\ driver[w].pc = "planned"
        /\ UNCHANGED <<row, recorded, driven, captured>>
    BY DEF SessionInvariant, SessionTypes, S!ArmCredentialSurface
  <1>2. driver[w].at \in recorded /\ driver[w].at \in Sessions
    BY <1>1 DEF Drives, SessionInvariant, SessionTypes
  <1>3. bindingFaults' \in 0..MaxFaults
    BY Faulted DEF S!ArmCredentialSurface, SessionInvariant, SessionTypes
  <1>4. session' \in [Sessions -> SessionRows] /\ Kindly
    <2>1. CASE session' = [session EXCEPT ![driver[w].at].armed = session[driver[w].at].page + 1]
      <3>1. PICK s \in Sessions : s = driver[w].at
        BY <1>2
      <3>2. PICK new : new = [session[s] EXCEPT !.armed = session[s].page + 1]
        OBVIOUS
      <3>3. session[s] \in SessionRows /\ session[s].page \in 0..MaxGeneration
        BY DEF SessionInvariant, SessionTypes, SessionRows
      <3>4. session[s].page + 1 \in 0..(MaxGeneration + 1)
        BY <3>3, SessionBounds
      <3>5. new \in SessionRows
        BY <3>2, <3>3, <3>4 DEF SessionRows
      <3>6. new.state = session[s].state /\ new.confined = session[s].confined
        BY <3>2, <3>3 DEF SessionRows
      <3>7. session' = [session EXCEPT ![s] = new]
        BY <2>1, <3>1, <3>2
      <3> QED  BY <3>5, <3>6, <3>7, RowWritten DEF Kept
    <2>2. CASE UNCHANGED session
      BY <2>2, KindlyStill DEF SessionInvariant, SessionTypes
    <2> QED  BY <2>1, <2>2 DEF S!ArmCredentialSurface, S!Here
  <1>5. CASE S!Arms(w)
    <2>1. PICK to : to = [driver[w] EXCEPT !.pc = "armed"]
      OBVIOUS
    <2>2. to \in Drivers
      BY <1>1, <2>1 DEF Drivers
    <2>3. to.pc = "armed" /\ to.bound = driver[w].bound /\ to.at = driver[w].at
      BY <1>1, <2>1 DEF Drivers
    <2>4. Drives(to)' /\ S!Goes(w, to)
      BY <1>1, <1>5, <2>1, <2>3 DEF Drives, S!Arms
    <2> QED  BY <1>1, <1>3, <1>4, <2>2, <2>4, DriverMoves DEF SessionInvariant, SessionTypes
  <1>6. CASE UNCHANGED driver
    <2>1. PICK to : to = driver[w]
      OBVIOUS
    <2>2. Drives(to)' /\ to \in Drivers
      BY <1>1, <2>1 DEF Drives
    <2>3. S!Goes(w, to)
      BY <1>6, <2>1 DEF S!Goes, SessionInvariant, SessionTypes
    <2> QED  BY <1>1, <1>3, <1>4, <2>2, <2>3, DriverMoves DEF SessionInvariant, SessionTypes
  <1> QED  BY <1>5, <1>6 DEF S!ArmCredentialSurface

LEMMA CaptureCredentialStep ==
    ASSUME SessionInvariant, NEW w \in Workers, S!CaptureCredential(w) PROVE SessionInvariant'
  <1>1. /\ driver[w] \in Drivers /\ Drives(driver[w]) /\ driver[w].pc = "armed"
        /\ UNCHANGED <<row, session, recorded, driven>>
    BY DEF SessionInvariant, SessionTypes, S!CaptureCredential
  <1>2. driver[w].at \in recorded
    BY <1>1 DEF Drives
  <1>3. bindingFaults' \in 0..MaxFaults
    BY Faulted DEF S!CaptureCredential, SessionInvariant, SessionTypes
  <1>4. captured' = captured \cup {driver[w].at} \/ UNCHANGED captured
    BY DEF S!CaptureCredential
  <1>5. driven' \cup captured' \subseteq recorded'
    BY <1>1, <1>2, <1>4 DEF SessionInvariant
  <1>6. session' \in [Sessions -> SessionRows] /\ Kindly
    BY <1>1, KindlyStill DEF SessionInvariant, SessionTypes
  <1>7. CASE S!Captures(w)
    <2>1. PICK to : to = [driver[w] EXCEPT !.pc = "away", !.at = S!None, !.told = "captured"]
      OBVIOUS
    <2>2. to \in Drivers
      BY <1>1, <2>1 DEF Drivers, Tellings
    <2>3. to.pc = "away" /\ to.bound = driver[w].bound
      BY <1>1, <2>1 DEF Drivers
    <2>4. Drives(to)' /\ S!Goes(w, to)
      BY <1>1, <1>7, <2>1, <2>3 DEF Drives, S!Captures
    <2> QED  BY <1>1, <1>3, <1>5, <1>6, <2>2, <2>4, DriverMoves DEF SessionInvariant, SessionTypes
  <1>8. CASE S!Raises(w)
    BY <1>1, <1>3, <1>5, <1>6, <1>8, RaisesMoves
  <1> QED  BY <1>7, <1>8 DEF S!CaptureCredential

LEMMA ForgetStep ==
    ASSUME SessionInvariant, NEW w \in Workers, S!Forget(w) \/ S!WorkerDies(w)
    PROVE  SessionInvariant'
  <1>1. S!Away \in Drivers /\ Drives(S!Away)
    BY SessionBounds DEF S!Away, Drivers, Drives, S!None, Tellings
  <1>2. /\ S!Goes(w, S!Away) /\ UNCHANGED <<row, session, recorded, driven, captured>>
        /\ bindingFaults' \in 0..MaxFaults
    BY Faulted DEF S!Forget, S!WorkerDies, SessionInvariant, SessionTypes
  <1>3. PICK to : to = S!Away
    OBVIOUS
  <1> QED  BY <1>1, <1>2, <1>3, DriverTurns

LEMMA StopStep ==
    ASSUME SessionInvariant, S!Stop PROVE SessionInvariant'
  <1>1. row \in Sessions
    BY DEF S!Stop, S!Active, SessionInvariant, SessionTypes
  <1>2. session' \in [Sessions -> SessionRows] /\ Kindly
    BY <1>1, GoneWritten DEF S!Stop
  <1> QED  BY <1>2, ServiceMoves DEF S!Stop, SessionInvariant

LEMMA DriveStep ==
    ASSUME SessionInvariant, S!Drive PROVE SessionInvariant'
  <1>1. row \in Sessions /\ row \in recorded
    BY DEF S!Drive, S!Active, SessionInvariant, SessionTypes
  <1>2. session' \in [Sessions -> SessionRows] /\ Kindly
    BY <1>1, PageWritten DEF S!Drive
  <1>3. driven' \subseteq recorded
    BY <1>1 DEF S!Drive, SessionInvariant
  <1> QED  BY <1>2, <1>3, ServiceMoves DEF S!Drive

LEMMA ExpireStep ==
    ASSUME SessionInvariant, NEW s \in Sessions, S!Expire(s) PROVE SessionInvariant'
  <1>1. session' \in [Sessions -> SessionRows] /\ Kindly
    BY GoneWritten DEF S!Expire
  <1> QED  BY <1>1, ServiceMoves DEF S!Expire, SessionInvariant

LEMMA SessionSteps ==
    ASSUME SessionInvariant, S!BindingNext PROVE SessionInvariant'
  <1>1. ASSUME NEW w \in Workers, S!WorkerStep(w) PROVE SessionInvariant'
    BY <1>1, SessionForStep, RecallStep, ReadRowStep, ProbeStep, StartStep, AbandonSessionStep,
       RecordSessionStep, ObserveStep, ActStep, ArmCredentialSurfaceStep, CaptureCredentialStep,
       ForgetStep
       DEF S!WorkerStep
  <1> QED  BY <1>1, StopStep, DriveStep, ExpireStep DEF S!BindingNext

LEMMA SessionSafe ==
    ASSUME SessionInvariant
    PROVE  S!BindingTypeOK /\ S!DrivenIsRecorded /\ S!DrivenIsConfined /\ S!HandleWasRecorded
  <1>1. S!BindingTypeOK
    BY DEF SessionInvariant, SessionTypes, SessionRows, Drivers, Tellings, S!BindingTypeOK
  <1> QED  BY <1>1
     DEF SessionInvariant, Kept, Drives, S!DrivenIsRecorded, S!DrivenIsConfined,
         S!HandleWasRecorded

-----------------------------------------------------------------------------
(* RunBindings                                                                *)

Ends == {"login", "signup", "verification", "paused"}

Signers == [pc : {"away", "stage", "reserve", "recipient", "submit", "promote", "commit",
                  "adopt", "reread"},
            address : Addresses \cup {B!None}, session : 0 .. MaxSession,
            to : Ends \cup {"none", "skip", "execute", "reconcile"}]

\* A worker stages for the address it read, and reports one of the run's ways on.
Signs(d) ==
    /\ d.pc = "stage" => d.address \in Addresses
    /\ d.pc \in {"promote", "commit"} => d.to \in Ends

IdentityInvariant ==
    /\ B!BindingsTypeOK /\ signer \in [Workers -> Signers]
    /\ \A w \in Workers : Signs(signer[w])
    /\ B!AccountIsHeld /\ B!BoundIsComplete

LEMMA IdentityBounds ==
    /\ B!None \notin Addresses /\ MaxSession \in Nat /\ MaxDeploys \in Nat
    /\ MaxPromotions \in Nat /\ MaxFaults \in Nat
    /\ 0 \in 0 .. MaxSession /\ 0 \in 0 .. MaxPromotions
  BY EvidencePartsAssumption
     DEF EvidencePartsAssumption, B!BindingsAssumption

LEMMA SignerAway ==
    B!Away \in Signers /\ Signs(B!Away)
  BY IdentityBounds DEF B!Away, B!None, Signers, Signs, Ends

LEMMA IdentityInitially ==
    ASSUME B!BindingsInit PROVE IdentityInvariant
  <1>1. signer \in [Workers -> Signers] /\ \A w \in Workers : Signs(signer[w])
    BY SignerAway DEF B!BindingsInit
  <1>2. B!BindingsTypeOK
    BY IdentityBounds DEF B!BindingsInit, B!BindingsTypeOK, B!NoRecipient, B!Fields
  <1> QED  BY <1>1, <1>2 DEF B!BindingsInit, IdentityInvariant, B!AccountIsHeld, B!BoundIsComplete

\* A step of one worker: its new place stands, and what it wrote stands.
LEMMA SignerMoves ==
    ASSUME IdentityInvariant, NEW w \in Workers, NEW to \in Signers, Signs(to),
           B!Goes(w, to), B!BindingsTypeOK', B!AccountIsHeld', B!BoundIsComplete'
    PROVE  IdentityInvariant'
  <1>1. /\ signer' \in [Workers -> Signers] /\ signer'[w] = to
        /\ \A v \in Workers \ {w} : signer'[v] = signer[v]
    BY DEF IdentityInvariant, B!Goes
  <1>2. \A v \in Workers : Signs(signer'[v])
    BY <1>1 DEF IdentityInvariant
  <1>3. ASSUME NEW v \in Workers PROVE Signs(signer[v])'
    BY <1>2 DEF Signs
  <1> QED  BY <1>1, <1>3 DEF IdentityInvariant

\* The durable facts a step leaves alone go on being true.
LEMMA FactsStand ==
    ASSUME IdentityInvariant,
           UNCHANGED <<address, columns, staged, pair, account, bindings, redeploys>>,
           stage' \in {"vault_check", "signup", "paused", "verification", "login"},
           submit' \in {"absent", "pending", "failed", "outcome_unknown", "completed"},
           recipient' \in [address : Addresses \cup {B!None}, session : 0 .. MaxSession],
           searched' \subseteq Addresses \cup {B!None}, signFaults' \in 0 .. MaxFaults
    PROVE  B!BindingsTypeOK' /\ B!AccountIsHeld' /\ B!BoundIsComplete'
  BY DEF IdentityInvariant, B!BindingsTypeOK, B!AccountIsHeld, B!BoundIsComplete

LEMMA SignFaulted ==
    ASSUME IdentityInvariant, B!Fault PROVE signFaults' \in 0 .. MaxFaults
  BY IdentityBounds DEF IdentityInvariant, B!BindingsTypeOK, B!Fault

\* Reporting where the run goes.
LEMMA Reported ==
    ASSUME IdentityInvariant, NEW w \in Workers, NEW end \in Ends
    PROVE  [signer[w] EXCEPT !.pc = "commit", !.to = end] \in Signers
           /\ Signs([signer[w] EXCEPT !.pc = "commit", !.to = end])
  <1>1. signer[w] \in Signers
    BY DEF IdentityInvariant
  <1>2. PICK to : to = [signer[w] EXCEPT !.pc = "commit", !.to = end]
    OBVIOUS
  <1>3. to \in Signers /\ to.pc = "commit" /\ to.to = end
    BY <1>1, <1>2 DEF Signers
  <1>4. Signs(to)
    BY <1>3 DEF Signs
  <1> QED  BY <1>2, <1>3, <1>4

\* What the vault holds completely is the run's own.
LEMMA CompleteIsOwned ==
    ASSUME B!IsComplete(B!References)
    PROVE  columns.account /\ pair.fields = B!Fields
  <1>1. B!Fields # {}
    BY DEF B!Fields
  <1> QED  BY <1>1 DEF B!IsComplete, B!References

\* Binding the pair that was read complete.
LEMMA BoundFactsStand ==
    ASSUME IdentityInvariant, B!IsComplete(B!References), bindings' = bindings \cup {pair},
           UNCHANGED <<address, columns, staged, pair, submit, account, recipient, stage,
                       searched, redeploys, signFaults>>
    PROVE  B!BindingsTypeOK' /\ B!AccountIsHeld' /\ B!BoundIsComplete'
  <1>1. B!BindingsTypeOK' /\ B!AccountIsHeld'
    BY DEF IdentityInvariant, B!BindingsTypeOK, B!AccountIsHeld
  <1>2. columns.account /\ pair.fields = B!Fields
    BY CompleteIsOwned
  <1> QED  BY <1>1, <1>2 DEF IdentityInvariant, B!BoundIsComplete

LEMMA AdmitFromVaultStep ==
    ASSUME IdentityInvariant, NEW w \in Workers, B!AdmitFromVault(w)
    PROVE  IdentityInvariant'
  <1>1. UNCHANGED <<address, columns, staged, pair, submit, account, recipient, stage,
                    searched, redeploys, signFaults>>
    BY DEF B!AdmitFromVault
  <1>2. CASE B!IsComplete(B!References)
    <2>1. PICK to : to = [signer[w] EXCEPT !.pc = "commit", !.to = "login"]
      OBVIOUS
    <2>2. to \in Signers /\ Signs(to)
      BY <2>1, Reported DEF Ends
    <2>3. B!Goes(w, to) /\ bindings' = bindings \cup {pair}
      BY <1>2, <2>1 DEF B!AdmitFromVault, B!Reports
    <2> QED  BY <1>1, <1>2, <2>2, <2>3, BoundFactsStand, SignerMoves
  <1>3. CASE ~B!IsComplete(B!References)
    <2>1. PICK to : to = [signer[w] EXCEPT !.pc = "commit", !.to = "signup"]
      OBVIOUS
    <2>2. to \in Signers /\ Signs(to)
      BY <2>1, Reported DEF Ends
    <2>3. B!Goes(w, to) /\ UNCHANGED bindings
      BY <1>3, <2>1 DEF B!AdmitFromVault, B!Reports
    <2>4. B!BindingsTypeOK' /\ B!AccountIsHeld' /\ B!BoundIsComplete'
      BY <1>1, <2>3, FactsStand DEF IdentityInvariant, B!BindingsTypeOK
    <2> QED  BY <2>2, <2>3, <2>4, SignerMoves
  <1> QED  BY <1>2, <1>3

LEMMA SignupIdentityStep ==
    ASSUME IdentityInvariant, NEW w \in Workers, B!SignupIdentity(w)
    PROVE  IdentityInvariant'
  <1>1. PICK to : to = [B!Away EXCEPT !.pc = "stage", !.address = address, !.session = columns.session]
    OBVIOUS
  <1>2. address \in Addresses /\ columns.session \in 0 .. MaxSession
    BY DEF IdentityInvariant, B!BindingsTypeOK
  <1>3. to \in Signers
    BY <1>1, <1>2, SignerAway DEF Signers
  <1>4. Signs(to)
    BY <1>1, <1>2, SignerAway DEF Signers, Signs
  <1>5. B!BindingsTypeOK' /\ B!AccountIsHeld' /\ B!BoundIsComplete'
    BY FactsStand DEF B!SignupIdentity, IdentityInvariant, B!BindingsTypeOK
  <1>6. B!Goes(w, to)
    BY <1>1 DEF B!SignupIdentity
  <1> QED  BY <1>3, <1>4, <1>5, <1>6, SignerMoves

\* A worker that only moves on to another step.
LEMMA SteppedStands ==
    ASSUME IdentityInvariant, NEW w \in Workers,
           NEW pc \in {"reserve", "submit", "adopt", "reread"}, B!Steps(w, pc),
           B!BindingsTypeOK', B!AccountIsHeld', B!BoundIsComplete'
    PROVE  IdentityInvariant'
  <1>1. PICK to : to = [signer[w] EXCEPT !.pc = pc]
    OBVIOUS
  <1>2. signer[w] \in Signers
    BY DEF IdentityInvariant
  <1>3. to \in Signers /\ to.pc = pc
    BY <1>1, <1>2 DEF Signers
  <1>4. Signs(to) /\ B!Goes(w, to)
    BY <1>1, <1>3 DEF Signs, B!Steps
  <1> QED  BY <1>3, <1>4, SignerMoves

\* A pair is staged once; the account, if there is one, was made with it.
LEMMA StageSignupCredentialsStep ==
    ASSUME IdentityInvariant, NEW w \in Workers, B!StageSignupCredentials(w)
    PROVE  IdentityInvariant'
  <1>1. signer[w].address \in Addresses
    BY DEF IdentityInvariant, Signs, B!StageSignupCredentials
  <1>2. staged' = (IF staged # B!None THEN staged ELSE signer[w].address)
    BY DEF B!StageSignupCredentials, B!StagedPair
  <1>3. B!BindingsTypeOK' /\ B!AccountIsHeld' /\ B!BoundIsComplete'
    BY <1>1, <1>2
       DEF B!StageSignupCredentials, IdentityInvariant, B!BindingsTypeOK, B!AccountIsHeld,
           B!BoundIsComplete
  <1> QED  BY <1>3, SteppedStands DEF B!StageSignupCredentials

LEMMA ReserveSubmissionStep ==
    ASSUME IdentityInvariant, NEW w \in Workers, B!ReserveSubmission(w)
    PROVE  IdentityInvariant'
  <1>1. PICK plan : plan = IF submit = "completed" THEN "skip"
                           ELSE IF submit \in {"absent", "failed"} THEN "execute"
                           ELSE "reconcile"
    OBVIOUS
  <1>2. PICK to : to = [signer[w] EXCEPT !.pc = "recipient", !.to = plan]
    OBVIOUS
  <1>3. signer[w] \in Signers /\ plan \in {"skip", "execute", "reconcile"}
    BY <1>1 DEF IdentityInvariant
  <1>4. to \in Signers /\ to.pc = "recipient"
    BY <1>2, <1>3 DEF Signers
  <1>5. Signs(to) /\ B!Goes(w, to)
    BY <1>1, <1>2, <1>4 DEF Signs, B!ReserveSubmission
  <1>6. B!BindingsTypeOK' /\ B!AccountIsHeld' /\ B!BoundIsComplete'
    BY FactsStand DEF B!ReserveSubmission, IdentityInvariant, B!BindingsTypeOK
  <1> QED  BY <1>4, <1>5, <1>6, SignerMoves

LEMMA BindVerificationRecipientStep ==
    ASSUME IdentityInvariant, NEW w \in Workers, B!BindVerificationRecipient(w)
    PROVE  IdentityInvariant'
  <1>1. signer[w] \in Signers
    BY DEF IdentityInvariant
  <1>2. recipient' \in [address : Addresses \cup {B!None}, session : 0 .. MaxSession]
    BY <1>1 DEF Signers, B!BindVerificationRecipient
  <1>3. B!BindingsTypeOK' /\ B!AccountIsHeld' /\ B!BoundIsComplete'
    BY <1>2, FactsStand DEF B!BindVerificationRecipient, IdentityInvariant, B!BindingsTypeOK
  <1>4. CASE B!Goes(w, [signer[w] EXCEPT !.pc = "promote", !.to = "verification"])
    <2>1. PICK to : to = [signer[w] EXCEPT !.pc = "promote", !.to = "verification"]
      OBVIOUS
    <2>2. to \in Signers /\ to.to = "verification"
      BY <1>1, <2>1 DEF Signers, Ends
    <2>3. to.pc = "promote"
      BY <1>1, <2>1 DEF Signers
    <2>4. Signs(to)
      BY <2>2, <2>3 DEF Signs, Ends
    <2> QED  BY <1>3, <1>4, <2>1, <2>2, <2>4, SignerMoves
  <1>5. CASE B!Steps(w, "submit")
    BY <1>3, <1>5, SteppedStands
  <1>6. CASE B!Reports(w, "paused")
    <2>1. PICK to : to = [signer[w] EXCEPT !.pc = "commit", !.to = "paused"]
      OBVIOUS
    <2>2. to \in Signers /\ Signs(to)
      BY <2>1, Reported DEF Ends
    <2> QED  BY <1>3, <1>6, <2>1, <2>2, SignerMoves DEF B!Reports
  <1> QED  BY <1>4, <1>5, <1>6 DEF B!BindVerificationRecipient

\* Whatever comes of the submission, the account is the one the staged pair names.
LEMMA SubmitSignupStep ==
    ASSUME IdentityInvariant, NEW w \in Workers, B!SubmitSignup(w)
    PROVE  IdentityInvariant'
  <1>1. account' = staged \/ account' = account
    BY DEF B!SubmitSignup
  <1>2. signFaults' \in 0 .. MaxFaults
    BY SignFaulted DEF B!SubmitSignup, IdentityInvariant, B!BindingsTypeOK
  <1>3. submit' \in {"absent", "pending", "failed", "outcome_unknown", "completed"}
    BY DEF B!SubmitSignup, IdentityInvariant, B!BindingsTypeOK
  <1>4. UNCHANGED <<address, columns, staged, pair, recipient, stage, searched, bindings, redeploys>>
    BY DEF B!SubmitSignup
  <1>5. B!BindingsTypeOK' /\ B!AccountIsHeld' /\ B!BoundIsComplete'
    BY <1>1, <1>2, <1>3, <1>4
       DEF IdentityInvariant, B!BindingsTypeOK, B!AccountIsHeld, B!BoundIsComplete
  <1>6. ASSUME NEW end \in Ends, B!Goes(w, [signer[w] EXCEPT !.pc = "promote", !.to = end])
        PROVE  IdentityInvariant'
    <2>1. PICK to : to = [signer[w] EXCEPT !.pc = "promote", !.to = end]
      OBVIOUS
    <2>2. signer[w] \in Signers
      BY DEF IdentityInvariant
    <2>3. to \in Signers /\ to.to = end
      BY <2>1, <2>2 DEF Signers
    <2>4. Signs(to)
      BY <2>1, <2>2, <2>3 DEF Signs, Signers
    <2> QED  BY <1>5, <1>6, <2>1, <2>3, <2>4, SignerMoves
  <1>7. CASE B!Reports(w, "paused")
    <2>1. PICK to : to = [signer[w] EXCEPT !.pc = "commit", !.to = "paused"]
      OBVIOUS
    <2>2. to \in Signers /\ Signs(to)
      BY <2>1, Reported DEF Ends
    <2> QED  BY <1>5, <1>7, <2>1, <2>2, SignerMoves DEF B!Reports
  <1>8. \/ \E end \in Ends : B!Goes(w, [signer[w] EXCEPT !.pc = "promote", !.to = end])
        \/ B!Reports(w, "paused")
    BY DEF B!SubmitSignup, Ends
  <1> QED  BY <1>6, <1>7, <1>8

\* A promotion: new rows for both fields, of the next insertion.
LEMMA PromotedStands ==
    ASSUME IdentityInvariant, pair.ids < MaxPromotions
    PROVE  B!Promoted \in [fields : SUBSET B!Fields, ids : 0 .. MaxPromotions]
  <1>1. pair.ids \in 0 .. MaxPromotions
    BY DEF IdentityInvariant, B!BindingsTypeOK
  <1>2. pair.ids + 1 \in 0 .. MaxPromotions
    BY <1>1, IdentityBounds
  <1> QED  BY <1>2 DEF B!Promoted

LEMMA PromoteStep ==
    ASSUME IdentityInvariant, NEW w \in Workers, B!Promote(w)
    PROVE  IdentityInvariant'
  <1>1. pair' \in [fields : SUBSET B!Fields, ids : 0 .. MaxPromotions]
    BY PromotedStands DEF B!Promote, IdentityInvariant, B!BindingsTypeOK
  <1>2. signFaults' \in 0 .. MaxFaults
    BY SignFaulted DEF B!Promote, IdentityInvariant, B!BindingsTypeOK
  <1>3. B!BindingsTypeOK' /\ B!AccountIsHeld' /\ B!BoundIsComplete'
    BY <1>1, <1>2
       DEF B!Promote, IdentityInvariant, B!BindingsTypeOK, B!AccountIsHeld, B!BoundIsComplete
  <1>4. PICK end \in Ends : end = signer[w].to
    BY DEF B!Promote, IdentityInvariant, Signs
  <1>5. PICK to : to = [signer[w] EXCEPT !.pc = "commit", !.to = end]
    OBVIOUS
  <1>6. to \in Signers /\ Signs(to) /\ B!Goes(w, to)
    BY <1>4, <1>5, Reported DEF B!Promote, B!Reports
  <1> QED  BY <1>3, <1>6, SignerMoves

\* A worker that is done with the phase, or dead.
LEMMA SignerGoesAway ==
    ASSUME IdentityInvariant, NEW w \in Workers, B!Goes(w, B!Away),
           B!BindingsTypeOK', B!AccountIsHeld', B!BoundIsComplete'
    PROVE  IdentityInvariant'
  <1>1. PICK to : to = B!Away
    OBVIOUS
  <1> QED  BY <1>1, SignerAway, SignerMoves

LEMMA CommitStep ==
    ASSUME IdentityInvariant, NEW w \in Workers, B!Commit(w)
    PROVE  IdentityInvariant'
  <1>1. signer[w].to \in Ends
    BY DEF B!Commit, IdentityInvariant, Signs
  <1>2. stage' \in {"vault_check", "signup", "paused", "verification", "login"}
    BY <1>1 DEF B!Commit, Ends, IdentityInvariant, B!BindingsTypeOK
  <1>3. B!BindingsTypeOK' /\ B!AccountIsHeld' /\ B!BoundIsComplete'
    BY <1>2, FactsStand DEF B!Commit, IdentityInvariant, B!BindingsTypeOK
  <1> QED  BY <1>3, SignerGoesAway DEF B!Commit

\* A step that moves no worker.
LEMMA SignersStand ==
    ASSUME IdentityInvariant, UNCHANGED signer,
           B!BindingsTypeOK', B!AccountIsHeld', B!BoundIsComplete'
    PROVE  IdentityInvariant'
  <1>1. \A w \in Workers : Signs(signer[w])'
    BY DEF IdentityInvariant, Signs
  <1> QED  BY <1>1 DEF IdentityInvariant

LEMMA VerificationContextStep ==
    ASSUME IdentityInvariant, NEW w \in Workers, B!VerificationContext(w)
    PROVE  IdentityInvariant'
  <1>1. searched' \subseteq Addresses \cup {B!None}
    BY DEF B!VerificationContext, IdentityInvariant, B!BindingsTypeOK
  <1>2. B!BindingsTypeOK' /\ B!AccountIsHeld' /\ B!BoundIsComplete'
    BY <1>1, FactsStand DEF B!VerificationContext, IdentityInvariant, B!BindingsTypeOK
  <1> QED  BY <1>2, SignersStand DEF B!VerificationContext

LEMMA AdoptStoredStep ==
    ASSUME IdentityInvariant, NEW w \in Workers, B!AdoptStored(w)
    PROVE  IdentityInvariant'
  <1>1. UNCHANGED <<address, columns, staged, pair, submit, account, recipient, stage,
                    searched, redeploys, signFaults>>
    BY DEF B!AdoptStored
  <1>2. CASE B!IsComplete(B!References)
    BY <1>1, <1>2, BoundFactsStand, SignersStand DEF B!AdoptStored
  <1>3. CASE ~B!IsComplete(B!References)
    <2>1. B!Steps(w, "adopt") /\ UNCHANGED bindings
      BY <1>3 DEF B!AdoptStored
    <2>2. B!BindingsTypeOK' /\ B!AccountIsHeld' /\ B!BoundIsComplete'
      BY <1>1, <2>1, FactsStand DEF IdentityInvariant, B!BindingsTypeOK
    <2> QED  BY <2>1, <2>2, SteppedStands
  <1> QED  BY <1>2, <1>3

LEMMA AdoptPromotesStep ==
    ASSUME IdentityInvariant, NEW w \in Workers, B!AdoptPromotes(w)
    PROVE  IdentityInvariant'
  <1>1. pair' \in [fields : SUBSET B!Fields, ids : 0 .. MaxPromotions]
    BY PromotedStands DEF B!AdoptPromotes, IdentityInvariant, B!BindingsTypeOK
  <1>2. B!BindingsTypeOK' /\ B!AccountIsHeld' /\ B!BoundIsComplete'
    BY <1>1
       DEF B!AdoptPromotes, IdentityInvariant, B!BindingsTypeOK, B!AccountIsHeld, B!BoundIsComplete
  <1> QED  BY <1>2, SteppedStands, SignerGoesAway DEF B!AdoptPromotes

LEMMA AdoptRereadsStep ==
    ASSUME IdentityInvariant, NEW w \in Workers, B!AdoptRereads(w)
    PROVE  IdentityInvariant'
  <1>1. UNCHANGED <<address, columns, staged, pair, submit, account, recipient, stage,
                    searched, redeploys, signFaults>>
    BY DEF B!AdoptRereads
  <1>2. B!BindingsTypeOK' /\ B!AccountIsHeld' /\ B!BoundIsComplete'
    <2>1. CASE B!IsComplete(B!References)
      BY <1>1, <2>1, BoundFactsStand DEF B!AdoptRereads
    <2>2. CASE ~B!IsComplete(B!References)
      BY <1>1, <2>2, FactsStand DEF B!AdoptRereads, IdentityInvariant, B!BindingsTypeOK
    <2> QED  BY <2>1, <2>2
  <1> QED  BY <1>2, SignerGoesAway DEF B!AdoptRereads

LEMMA SignerDiesStep ==
    ASSUME IdentityInvariant, NEW w \in Workers, B!WalkDies(w)
    PROVE  IdentityInvariant'
  <1>1. signFaults' \in 0 .. MaxFaults
    BY SignFaulted DEF B!WalkDies
  <1>2. B!BindingsTypeOK' /\ B!AccountIsHeld' /\ B!BoundIsComplete'
    BY <1>1, FactsStand DEF B!WalkDies, IdentityInvariant, B!BindingsTypeOK
  <1> QED  BY <1>2, SignerGoesAway DEF B!WalkDies

LEMMA IdentityResumeStep ==
    ASSUME IdentityInvariant, B!Resume PROVE IdentityInvariant'
  <1>1. B!BindingsTypeOK' /\ B!AccountIsHeld' /\ B!BoundIsComplete'
    BY FactsStand DEF B!Resume, IdentityInvariant, B!BindingsTypeOK
  <1> QED  BY <1>1, SignersStand DEF B!Resume

LEMMA IdentityRedeployStep ==
    ASSUME IdentityInvariant, B!Redeploy PROVE IdentityInvariant'
  <1>1. redeploys \in 0 .. MaxDeploys /\ redeploys < MaxDeploys /\ redeploys' = redeploys + 1
    BY DEF B!Redeploy, IdentityInvariant, B!BindingsTypeOK
  <1>2. redeploys' \in 0 .. MaxDeploys
    BY <1>1, IdentityBounds
  <1>3. B!BindingsTypeOK' /\ B!AccountIsHeld' /\ B!BoundIsComplete'
    BY <1>2
       DEF B!Redeploy, IdentityInvariant, B!BindingsTypeOK, B!AccountIsHeld, B!BoundIsComplete
  <1>4. signer' = [w \in Workers |-> B!Away]
    BY DEF B!Redeploy
  <1>5. signer' \in [Workers -> Signers] /\ \A w \in Workers : signer'[w] = B!Away
    BY <1>4, SignerAway
  <1>6. \A w \in Workers : Signs(signer[w])'
    BY <1>5 DEF Signs, B!Away
  <1> QED  BY <1>3, <1>5, <1>6 DEF IdentityInvariant

LEMMA IdentityReattachStep ==
    ASSUME IdentityInvariant, B!Reattach PROVE IdentityInvariant'
  <1>1. columns \in [account : BOOLEAN, session : 0 .. MaxSession]
        /\ columns' = [columns EXCEPT !.session = columns.session + 1]
        /\ columns.session < MaxSession
    BY DEF B!Reattach, IdentityInvariant, B!BindingsTypeOK
  <1>2. columns.session + 1 \in 0 .. MaxSession
    BY <1>1, IdentityBounds
  <1>3. columns' \in [account : BOOLEAN, session : 0 .. MaxSession]
    BY <1>1, <1>2
  <1>4. columns.account => columns'.account
    BY <1>1
  <1>5. B!BindingsTypeOK'
    BY <1>3 DEF B!Reattach, IdentityInvariant, B!BindingsTypeOK
  <1>6. B!AccountIsHeld' /\ B!BoundIsComplete'
    BY <1>4 DEF B!Reattach, IdentityInvariant, B!AccountIsHeld, B!BoundIsComplete
  <1> QED  BY <1>5, <1>6, SignersStand DEF B!Reattach

LEMMA IdentitySteps ==
    ASSUME IdentityInvariant, B!BindingsNext PROVE IdentityInvariant'
  BY IdentityResumeStep, IdentityRedeployStep, IdentityReattachStep, AdmitFromVaultStep,
     SignupIdentityStep, StageSignupCredentialsStep, ReserveSubmissionStep,
     BindVerificationRecipientStep, SubmitSignupStep, PromoteStep, CommitStep,
     VerificationContextStep, AdoptStoredStep, AdoptPromotesStep, AdoptRereadsStep,
     SignerDiesStep
     DEF B!BindingsNext

-----------------------------------------------------------------------------
(* CredentialProof                                                            *)

ProofPlaces == {"away", "store", "capture", "captured", "count", "probe", "publish", "link",
                "complete", "record", "announce", "earned", "retire", "regenerate"}
Provers == [pc : ProofPlaces, gen : C!Mints, used : 0 .. MaxProbes]
Linked == {"complete", "record", "announce", "earned"}

\* A worker past the first step has an endpoint to probe; one on its way to
\* publish holds a proven generation; one at the link is the first to be there,
\* and one past it has a connection to record; who announces has recorded it.
Publishes(p) ==
    /\ p.pc # "away" => C!ValidationPolicy(fact) # C!None
    /\ p.pc \in {"publish", "link"} \cup Linked => p.gen \in proven
    /\ p.pc = "link" => link[0] # "absent" /\ linked[0] = 0
    /\ p.pc \in Linked => linked[0] = 1
    /\ p.pc \in {"announce", "earned"} => request = {0}
    /\ p.pc = "earned" => timeline # {}

\* What the ledger, the vault and Composio hold, whatever the workers do.
ProofLedger ==
    /\ fact \in C!Facts /\ phase \in {"driving", "paused", "completed"}
    /\ mint \in [C!Mints -> {"absent", "pending", "outcome_unknown", "completed"}]
    /\ vault \in [C!Mints -> {"absent", "active", "superseded", "unusable"}]
    /\ generation \in C!Mints /\ attempts \in 0 .. MaxProbes
    /\ link \in [C!Mints -> {"absent", "pending", "outcome_unknown", "completed"}]
    /\ linked \in [C!Mints -> 0 .. 1]
    /\ request \subseteq {0} /\ timeline \subseteq proven /\ proven \subseteq C!Mints
    /\ proofFaults \in 0 .. MaxFaults
    /\ \A i \in C!Mints \ {0} : linked[i] = 0
    /\ linked[0] = 1 => Workers # {}
    /\ link[0] = "absent" => linked[0] = 0
    /\ link[0] = "completed" => linked[0] = 1
    /\ phase = "completed" => timeline # {} /\ request = {0} /\ linked[0] = 1
    /\ C!ValuesStayHome

ProofInvariant ==
    /\ ProofLedger
    /\ prover \in [Workers -> Provers]
    /\ \A w \in Workers : Publishes(prover[w])
    /\ \A v, w \in Workers : prover[v].pc = "link" /\ prover[w].pc = "link" => v = w

LEMMA WorkersAreCounted == C!Cardinality(Workers) = Cardinality(Workers)
  BY DEF C!Cardinality, Cardinality

LEMMA ProofBounds ==
    /\ MaxProbes \in Nat /\ MaxFaults \in Nat /\ Generations \in Nat /\ Attempts \in Nat
    /\ 0 \in C!Mints /\ 0 \in 0 .. MaxProbes /\ 0 \in 0 .. MaxFaults
    /\ C!Away \in Provers /\ C!Away.pc = "away"
    /\ IsFiniteSet(Workers) /\ C!Mints \subseteq Nat
  <1>1. /\ MaxProbes \in Nat /\ MaxFaults \in Nat /\ Generations \in Nat /\ Attempts \in Nat
        /\ IsFiniteSet(Workers)
    BY EvidencePartsAssumption DEF EvidencePartsAssumption, C!ProofAssumption, C!IsFiniteSet, IsFiniteSet
  <1>2. C!Cardinality(Workers) \in Nat
    BY <1>1, FS_CardinalityType, WorkersAreCounted
  <1>3. 0 \in C!Mints /\ 0 \in 0 .. MaxProbes /\ 0 \in 0 .. MaxFaults /\ C!Mints \subseteq Nat
    BY <1>1, <1>2 DEF C!Mints
  <1> QED  BY <1>1, <1>3 DEF C!Away, Provers, ProofPlaces

LEMMA ProofInitially ==
    ASSUME C!ProofInit PROVE ProofInvariant
  <1>1. ProofLedger
    BY ProofBounds DEF C!ProofInit, ProofLedger, C!ValuesStayHome
  <1>2. Publishes(C!Away)
    BY ProofBounds DEF Publishes, Linked
  <1> QED  BY <1>1, <1>2, ProofBounds DEF C!ProofInit, ProofInvariant

\* What a step of one worker leaves true for the others: nothing proven, linked,
\* recorded or announced is taken back.
OthersStand(w) ==
    /\ fact' = fact /\ proven \subseteq proven' /\ timeline \subseteq timeline'
    /\ request = {0} => request' = {0}
    /\ linked[0] = 1 => linked'[0] = 1
    /\ linked[0] = 0 /\ prover[w].pc # "link" => linked'[0] = 0
    /\ link[0] # "absent" => link'[0] # "absent"

\* A step of one worker: its new place stands, what it wrote stands, and it is at
\* the link only if nobody ever was.
LEMMA ProverMoves ==
    ASSUME ProofInvariant, NEW w \in Workers, NEW to \in Provers, Publishes(to)',
           prover' = [prover EXCEPT ![w] = to], ProofLedger', OthersStand(w),
           to.pc = "link" => link[0] = "absent"
    PROVE  ProofInvariant'
  <1>1. /\ prover' \in [Workers -> Provers] /\ prover'[w] = to
        /\ \A v \in Workers \ {w} : prover'[v] = prover[v]
    BY DEF ProofInvariant
  <1>2. linked[0] \in 0 .. 1
    BY ProofBounds DEF ProofInvariant, ProofLedger
  <1>3. ASSUME NEW v \in Workers \ {w} PROVE Publishes(prover[v])'
    <2>1. Publishes(prover[v]) /\ prover'[v] = prover[v]
      BY <1>1 DEF ProofInvariant
    <2>2. prover[v].pc = "link" => prover[w].pc # "link"
      BY DEF ProofInvariant
    <2>3. C!ValidationPolicy(fact)' = C!ValidationPolicy(fact)
      BY DEF OthersStand, C!ValidationPolicy, C!AdmittedValidationEndpoint
    <2> QED  BY <2>1, <2>2, <2>3, <1>2 DEF Publishes, OthersStand, Linked
  <1>4. ASSUME NEW v \in Workers PROVE Publishes(prover[v])'
    <2>1. CASE v = w
      BY <2>1, <1>1 DEF Publishes
    <2> QED  BY <2>1, <1>3
  <1>5. ASSUME NEW u \in Workers, NEW v \in Workers,
               prover'[u].pc = "link", prover'[v].pc = "link"
        PROVE  u = v
    <2>1. link[0] = "absent" => \A x \in Workers : prover[x].pc # "link"
      BY DEF ProofInvariant, Publishes
    <2> QED  BY <2>1, <1>1, <1>5 DEF ProofInvariant
  <1> QED  BY <1>1, <1>4, <1>5 DEF ProofInvariant

\* A worker that leaves the run.
LEMMA ProverLeaves ==
    ASSUME ProofInvariant, NEW w \in Workers, C!Goes(w, C!Away), ProofLedger', OthersStand(w)
    PROVE  ProofInvariant'
  <1>1. PICK to : to = C!Away
    OBVIOUS
  <1>2. to \in Provers /\ to.pc = "away" /\ prover' = [prover EXCEPT ![w] = to]
    BY <1>1, ProofBounds DEF C!Goes
  <1>3. Publishes(to)'
    BY <1>2 DEF Publishes, Linked
  <1> QED  BY <1>2, <1>3, ProverMoves

\* A worker that only moves on to another step of the run.
LEMMA ProverSteps ==
    ASSUME ProofInvariant, NEW w \in Workers, NEW pc \in ProofPlaces \ {"away"}, C!Steps(w, pc),
           prover[w].pc # "away", ProofLedger', OthersStand(w),
           pc \in {"publish", "link"} \cup Linked => prover[w].gen \in proven',
           pc = "link" => link[0] = "absent" /\ link'[0] # "absent" /\ linked'[0] = 0,
           pc \in Linked => linked'[0] = 1,
           pc \in {"announce", "earned"} => request' = {0},
           pc = "earned" => timeline' # {}
    PROVE  ProofInvariant'
  <1>1. PICK to : to = [prover[w] EXCEPT !.pc = pc]
    OBVIOUS
  <1>2. prover[w] \in Provers
    BY DEF ProofInvariant
  <1>3. to \in Provers
    BY <1>1, <1>2 DEF Provers
  <1>4. to.pc = pc /\ to.gen = prover[w].gen
    BY <1>1, <1>2 DEF Provers
  <1>5. C!ValidationPolicy(fact)' # C!None
    BY DEF ProofInvariant, Publishes, OthersStand, C!ValidationPolicy, C!AdmittedValidationEndpoint
  <1>6. Publishes(to)'
    BY <1>4, <1>5 DEF Publishes
  <1>7. prover' = [prover EXCEPT ![w] = to]
    BY <1>1 DEF C!Steps, C!Goes
  <1> QED  BY <1>3, <1>4, <1>6, <1>7, ProverMoves

\* The ledger after a step that changed none of it, but may have paused the run.
LEMMA ProofLedgerStands ==
    ASSUME ProofInvariant, NEW w \in Workers,
           UNCHANGED <<fact, vault, generation, link, linked, request, timeline, proven, sent>>,
           mint' \in [C!Mints -> {"absent", "pending", "outcome_unknown", "completed"}],
           attempts' \in 0 .. MaxProbes, proofFaults' \in 0 .. MaxFaults,
           phase' \in {phase, "driving", "paused"}
    PROVE  ProofLedger' /\ OthersStand(w)
  BY DEF ProofInvariant, ProofLedger, OthersStand, C!ValuesStayHome

LEMMA ProofFaulted ==
    ASSUME ProofInvariant, C!Fault PROVE proofFaults' \in 0 .. MaxFaults
  BY ProofBounds DEF ProofInvariant, ProofLedger, C!Fault

LEMMA EnterStep ==
    ASSUME ProofInvariant, NEW w \in Workers, C!Enter(w) PROVE ProofInvariant'
  <1>1. phase' \in {phase, "driving", "paused"}
    BY DEF C!Enter, C!Pauses
  <1>2. ProofLedger' /\ OthersStand(w)
    BY <1>1, ProofLedgerStands DEF C!Enter, ProofInvariant, ProofLedger
  <1>3. CASE C!ValidationPolicy(fact) = C!None
    BY <1>2, <1>3, ProverLeaves DEF C!Enter, C!Pauses
  <1>4. CASE C!ValidationPolicy(fact) # C!None
    <2>1. PICK to : to = [C!Away EXCEPT !.pc = "store", !.gen = generation]
      OBVIOUS
    <2>2. to \in Provers /\ to.pc = "store"
      BY <2>1, ProofBounds DEF Provers, ProofPlaces, C!Away, ProofInvariant, ProofLedger
    <2>3. Publishes(to)'
      BY <2>2, <1>4, <1>2
         DEF Publishes, Linked, OthersStand, C!ValidationPolicy, C!AdmittedValidationEndpoint
    <2>4. prover' = [prover EXCEPT ![w] = to]
      BY <1>4, <2>1 DEF C!Enter, C!Goes
    <2> QED  BY <1>2, <2>2, <2>3, <2>4, ProverMoves
  <1> QED  BY <1>3, <1>4

LEMMA RetryStep ==
    ASSUME ProofInvariant, C!Retry PROVE ProofInvariant'
  <1>1. ProofLedger'
    BY DEF C!Retry, ProofInvariant, ProofLedger, C!ValuesStayHome
  <1>2. \A w \in Workers : Publishes(prover[w])'
    BY DEF C!Retry, ProofInvariant, Publishes, C!ValidationPolicy, C!AdmittedValidationEndpoint
  <1> QED  BY <1>1, <1>2 DEF C!Retry, ProofInvariant

LEMMA StoredReferenceStep ==
    ASSUME ProofInvariant, NEW w \in Workers, C!StoredReference(w) PROVE ProofInvariant'
  <1>1. prover[w] \in Provers /\ prover[w].pc = "store"
    BY DEF ProofInvariant, C!StoredReference
  <1>2. mint' \in [C!Mints -> {"absent", "pending", "outcome_unknown", "completed"}]
    BY <1>1 DEF C!StoredReference, C!Reserved, ProofInvariant, ProofLedger, Provers
  <1>3. phase' \in {phase, "driving", "paused"}
    BY DEF C!StoredReference, C!Pauses
  <1>4. ProofLedger' /\ OthersStand(w)
    BY <1>2, <1>3, ProofLedgerStands DEF C!StoredReference, ProofInvariant, ProofLedger
  <1>5. C!Steps(w, "count") \/ C!Steps(w, "capture") \/ C!Goes(w, C!Away)
    BY DEF C!StoredReference, C!Pauses
  <1>6. CASE C!Steps(w, "count")
    BY <1>1, <1>4, <1>6, ProverSteps DEF ProofPlaces, Linked
  <1>7. CASE C!Steps(w, "capture")
    BY <1>1, <1>4, <1>7, ProverSteps DEF ProofPlaces, Linked
  <1> QED  BY <1>4, <1>5, <1>6, <1>7, ProverLeaves

LEMMA UnarmedStep ==
    ASSUME ProofInvariant, NEW w \in Workers, C!Unarmed(w) PROVE ProofInvariant'
  <1>1. phase' \in {phase, "driving", "paused"} /\ proofFaults' \in 0 .. MaxFaults
    BY ProofFaulted DEF C!Unarmed, C!Pauses
  <1>2. ProofLedger' /\ OthersStand(w)
    BY <1>1, ProofLedgerStands DEF C!Unarmed, ProofInvariant, ProofLedger
  <1> QED  BY <1>2, ProverLeaves DEF C!Unarmed, C!Pauses

LEMMA CaptureStep ==
    ASSUME ProofInvariant, NEW w \in Workers, C!Capture(w) PROVE ProofInvariant'
  <1>1. prover[w] \in Provers /\ prover[w].pc = "capture"
    BY DEF ProofInvariant, C!Capture
  <1>2. vault' \in [C!Mints -> {"absent", "active", "superseded", "unusable"}]
    BY <1>1 DEF C!Capture, ProofInvariant, ProofLedger, Provers
  <1>3. ProofLedger' /\ OthersStand(w)
    BY <1>2 DEF C!Capture, ProofInvariant, ProofLedger, C!ValuesStayHome, OthersStand
  <1> QED  BY <1>1, <1>3, ProverSteps DEF C!Capture, ProofPlaces, Linked

LEMMA CaptureFailsStep ==
    ASSUME ProofInvariant, NEW w \in Workers, C!CaptureFails(w) PROVE ProofInvariant'
  <1>1. prover[w] \in Provers
    BY DEF ProofInvariant
  <1>2. PICK kept : kept = IF mint[prover[w].gen] = "pending" THEN "outcome_unknown"
                           ELSE mint[prover[w].gen]
    OBVIOUS
  <1>3. kept \in {"absent", "pending", "outcome_unknown", "completed"}
    BY <1>1, <1>2 DEF ProofInvariant, ProofLedger, Provers
  <1>4. mint' = [mint EXCEPT ![prover[w].gen] = kept]
    BY <1>2 DEF C!CaptureFails
  <1>5. mint' \in [C!Mints -> {"absent", "pending", "outcome_unknown", "completed"}]
    BY <1>3, <1>4 DEF ProofInvariant, ProofLedger
  <1>6. proofFaults' \in 0 .. MaxFaults
    BY ProofFaulted DEF C!CaptureFails, ProofInvariant, ProofLedger
  <1>7. phase' \in {phase, "driving", "paused"}
    BY DEF C!CaptureFails, C!Pauses
  <1>8. ProofLedger' /\ OthersStand(w)
    BY <1>5, <1>6, <1>7, ProofLedgerStands DEF C!CaptureFails, ProofInvariant, ProofLedger
  <1> QED  BY <1>8, ProverLeaves DEF C!CaptureFails, C!Pauses

LEMMA CompleteCaptureStep ==
    ASSUME ProofInvariant, NEW w \in Workers, C!CompleteCapture(w) PROVE ProofInvariant'
  <1>1. prover[w] \in Provers /\ prover[w].pc = "captured"
    BY DEF ProofInvariant, C!CompleteCapture
  <1>2. mint' \in [C!Mints -> {"absent", "pending", "outcome_unknown", "completed"}]
    BY <1>1 DEF C!CompleteCapture, ProofInvariant, ProofLedger, Provers
  <1>3. ProofLedger' /\ OthersStand(w)
    BY <1>2, ProofLedgerStands DEF C!CompleteCapture, ProofInvariant, ProofLedger
  <1> QED  BY <1>1, <1>3, ProverSteps DEF C!CompleteCapture, ProofPlaces, Linked

LEMMA NextValidationAttemptStep ==
    ASSUME ProofInvariant, NEW w \in Workers, C!NextValidationAttempt(w) PROVE ProofInvariant'
  <1>1. prover[w] \in Provers /\ prover[w].pc = "count"
    BY DEF ProofInvariant, C!NextValidationAttempt
  <1>2. attempts + 1 \in 0 .. MaxProbes
    BY ProofBounds DEF C!NextValidationAttempt, ProofInvariant, ProofLedger
  <1>3. ProofLedger' /\ OthersStand(w)
    BY <1>2, ProofLedgerStands DEF C!NextValidationAttempt, ProofInvariant, ProofLedger
  <1>4. PICK to : to = [prover[w] EXCEPT !.pc = "probe", !.used = attempts + 1]
    OBVIOUS
  <1>5. to \in Provers /\ to.pc = "probe"
    BY <1>1, <1>2, <1>4 DEF Provers, ProofPlaces
  <1>6. Publishes(to)'
    BY <1>1, <1>3, <1>5
       DEF ProofInvariant, Publishes, Linked, OthersStand, C!ValidationPolicy,
           C!AdmittedValidationEndpoint
  <1>7. prover' = [prover EXCEPT ![w] = to]
    BY <1>4 DEF C!NextValidationAttempt, C!Goes
  <1> QED  BY <1>3, <1>5, <1>6, <1>7, ProverMoves

\* A value goes only to the endpoint the policy admitted, which is the vendor's.
LEMMA EndpointIsVendors ==
    ASSUME ProofInvariant, C!ValidationPolicy(fact) # C!None
    PROVE  C!ValidationPolicy(fact) \in {"reviewed", "vendor"}
  BY DEF C!ValidationPolicy, C!AdmittedValidationEndpoint, C!None

LEMMA ValidateStep ==
    ASSUME ProofInvariant, NEW w \in Workers, C!Validate(w) PROVE ProofInvariant'
  <1>1. prover[w] \in Provers /\ prover[w].pc = "probe"
    BY DEF ProofInvariant, C!Validate
  <1>2. C!ValidationPolicy(fact) # C!None /\ C!ValidationPolicy(fact) \in {"reviewed", "vendor"}
    BY <1>1, EndpointIsVendors DEF ProofInvariant, Publishes
  <1>3. PICK verdict \in {"valid", "invalid", "unavailable", "failed"} :
            /\ C!AfterVerdict(w, verdict)
            /\ proven' = IF verdict = "valid" THEN proven \cup {prover[w].gen} ELSE proven
    BY DEF C!Validate, C!Verdict
  <1>4. C!ValuesStayHome'
    BY <1>2 DEF C!Validate, C!Resolves, C!ValuesStayHome, ProofInvariant, ProofLedger
  <1>5. phase' \in {phase, "paused"} /\ (phase' = "completed" => phase = "completed")
    BY <1>3 DEF C!AfterVerdict, C!Pauses
  <1>6. proven \subseteq proven' /\ proven' \subseteq C!Mints
    BY <1>1, <1>3 DEF ProofInvariant, ProofLedger, Provers
  <1>7. ProofLedger' /\ OthersStand(w)
    BY <1>4, <1>5, <1>6 DEF C!Validate, ProofInvariant, ProofLedger, OthersStand
  <1>8. CASE verdict = "valid"
    <2>1. C!Steps(w, "publish") /\ prover[w].gen \in proven'
      BY <1>3, <1>8 DEF C!AfterVerdict
    <2> QED  BY <1>1, <1>7, <2>1, ProverSteps DEF ProofPlaces, Linked
  <1>9. CASE verdict = "invalid"
    <2>1. C!Steps(w, "retire")
      BY <1>3, <1>9 DEF C!AfterVerdict
    <2> QED  BY <1>1, <1>7, <2>1, ProverSteps DEF ProofPlaces, Linked
  <1>10. CASE verdict \in {"unavailable", "failed"}
    <2>1. C!Goes(w, C!Away)
      BY <1>3, <1>10 DEF C!AfterVerdict, C!Pauses
    <2> QED  BY <1>7, <2>1, ProverLeaves
  <1> QED  BY <1>8, <1>9, <1>10

\* The ledger after a step on the way to the connection.
LEMMA LinkLedgerStands ==
    ASSUME ProofInvariant, NEW w \in Workers,
           UNCHANGED <<fact, phase, mint, vault, generation, attempts, proven, sent, linked>>,
           link' \in [C!Mints -> {"absent", "pending", "outcome_unknown", "completed"}],
           link[0] # "absent" => link'[0] # "absent",
           link'[0] = "absent" => link[0] = "absent",
           link'[0] = "completed" => linked[0] = 1,
           request' \in {request, {0}},
           timeline \subseteq timeline', timeline' \subseteq proven,
           proofFaults' \in 0 .. MaxFaults
    PROVE  ProofLedger' /\ OthersStand(w)
  BY DEF ProofInvariant, ProofLedger, OthersStand, C!ValuesStayHome

LEMMA StartConnectionStep ==
    ASSUME ProofInvariant, NEW w \in Workers, C!StartConnection(w) PROVE ProofInvariant'
  <1>1. /\ prover[w] \in Provers /\ prover[w].pc = "publish" /\ prover[w].gen \in proven
        /\ link[0] \in {"absent", "pending", "outcome_unknown", "completed"}
        /\ linked[0] \in 0 .. 1
    BY ProofBounds DEF ProofInvariant, C!StartConnection, Publishes, ProofLedger
  <1>2. CASE link[0] = "completed"
    <2>1. C!Steps(w, "record") /\ UNCHANGED link
      BY <1>1, <1>2 DEF C!StartConnection, C!Plan, C!PublicationEffectIdentity
    <2>2. ProofLedger' /\ OthersStand(w) /\ linked'[0] = 1
      BY <1>2, <2>1, LinkLedgerStands DEF C!StartConnection, ProofInvariant, ProofLedger
    <2> QED  BY <1>1, <2>1, <2>2, ProverSteps DEF ProofPlaces, Linked, OthersStand
  <1>3. CASE link[0] = "absent"
    <2>1. C!Steps(w, "link") /\ link' = [link EXCEPT ![0] = "pending"]
      BY <1>1, <1>3 DEF C!StartConnection, C!Plan, C!PublicationEffectIdentity
    <2>2. /\ link' \in [C!Mints -> {"absent", "pending", "outcome_unknown", "completed"}]
          /\ link'[0] = "pending"
      BY <2>1, ProofBounds DEF ProofInvariant, ProofLedger
    <2>3. ProofLedger' /\ OthersStand(w) /\ linked'[0] = 0
      BY <1>3, <2>2, LinkLedgerStands DEF C!StartConnection, ProofInvariant, ProofLedger
    <2> QED  BY <1>1, <1>3, <2>1, <2>2, <2>3, ProverSteps DEF ProofPlaces, Linked, OthersStand
  <1>4. CASE link[0] \notin {"absent", "completed"} /\ linked[0] > 0
    <2>1. C!Steps(w, "record") /\ link' = [link EXCEPT ![0] = "completed"]
      BY <1>1, <1>4 DEF C!StartConnection, C!Plan, C!PublicationEffectIdentity
    <2>2. /\ link' \in [C!Mints -> {"absent", "pending", "outcome_unknown", "completed"}]
          /\ link'[0] = "completed" /\ linked[0] = 1
      BY <1>1, <1>4, <2>1, ProofBounds DEF ProofInvariant, ProofLedger
    <2>3. ProofLedger' /\ OthersStand(w) /\ linked'[0] = 1
      BY <2>2, LinkLedgerStands DEF C!StartConnection, ProofInvariant, ProofLedger
    <2> QED  BY <1>1, <2>1, <2>3, ProverSteps DEF ProofPlaces, Linked, OthersStand
  <1>5. CASE link[0] \notin {"absent", "completed"} /\ ~(linked[0] > 0)
    <2>1. C!Goes(w, C!Away) /\ UNCHANGED link
      BY <1>1, <1>5 DEF C!StartConnection, C!Plan, C!PublicationEffectIdentity, C!Raises
    <2>2. ProofLedger' /\ OthersStand(w)
      BY <1>5, <2>1, LinkLedgerStands DEF C!StartConnection, ProofInvariant, ProofLedger
    <2> QED  BY <2>1, <2>2, ProverLeaves
  <1> QED  BY <1>1, <1>2, <1>3, <1>4, <1>5

\* The one call that reaches Composio: the worker at the link is the only one.
LEMMA LinkStep ==
    ASSUME ProofInvariant, NEW w \in Workers, C!Link(w) PROVE ProofInvariant'
  <1>1. /\ prover[w] \in Provers /\ prover[w].pc = "link" /\ prover[w].gen \in proven
        /\ link[0] # "absent" /\ linked[0] = 0
    BY DEF ProofInvariant, C!Link, Publishes
  <1>2. linked' = [linked EXCEPT ![0] = linked[0] + 1]
    BY DEF C!Link, C!PublicationEffectIdentity
  <1>3. /\ linked' \in [C!Mints -> 0 .. 1] /\ linked'[0] = 1
        /\ \A i \in C!Mints \ {0} : linked'[i] = 0
    BY <1>1, <1>2, ProofBounds DEF ProofInvariant, ProofLedger
  <1>4. PICK kept : kept = IF link[0] = "pending" THEN "outcome_unknown" ELSE link[0]
    OBVIOUS
  <1>5. link' \in {link, [link EXCEPT ![0] = kept]} /\ proofFaults' \in 0 .. MaxFaults
    BY <1>4, ProofFaulted
       DEF C!Link, C!PublicationEffectIdentity, ProofInvariant, ProofLedger
  <1>6. kept \in {"pending", "outcome_unknown", "completed"}
    BY <1>1, <1>4, ProofBounds DEF ProofInvariant, ProofLedger
  <1>7. /\ link' \in [C!Mints -> {"absent", "pending", "outcome_unknown", "completed"}]
        /\ link'[0] # "absent"
    BY <1>1, <1>5, <1>6, ProofBounds DEF ProofInvariant, ProofLedger
  <1>8. UNCHANGED <<fact, phase, mint, vault, generation, attempts, request, timeline, proven, sent>>
    BY DEF C!Link
  <1>9. ProofLedger' /\ OthersStand(w)
    BY <1>1, <1>3, <1>5, <1>7, <1>8
       DEF ProofInvariant, ProofLedger, OthersStand, C!ValuesStayHome
  <1>10. C!Steps(w, "complete") \/ C!Goes(w, C!Away)
    BY DEF C!Link, C!Raises
  <1>11. CASE C!Steps(w, "complete")
    BY <1>1, <1>3, <1>8, <1>9, <1>11, ProverSteps DEF ProofPlaces, Linked
  <1> QED  BY <1>9, <1>10, <1>11, ProverLeaves

LEMMA CompleteLinkStep ==
    ASSUME ProofInvariant, NEW w \in Workers, C!CompleteLink(w) PROVE ProofInvariant'
  <1>1. /\ prover[w].pc = "complete" /\ prover[w].gen \in proven /\ linked[0] = 1
    BY DEF ProofInvariant, C!CompleteLink, Publishes, Linked
  <1>2. /\ link' \in [C!Mints -> {"absent", "pending", "outcome_unknown", "completed"}]
        /\ link'[0] = "completed"
    BY ProofBounds DEF C!CompleteLink, C!PublicationEffectIdentity, ProofInvariant, ProofLedger
  <1>3. ProofLedger' /\ OthersStand(w) /\ linked'[0] = 1
    BY <1>1, <1>2, LinkLedgerStands DEF C!CompleteLink, ProofInvariant, ProofLedger
  <1> QED  BY <1>1, <1>3, ProverSteps DEF C!CompleteLink, ProofPlaces, Linked, OthersStand

LEMMA RecordConnectionStep ==
    ASSUME ProofInvariant, NEW w \in Workers, C!RecordConnection(w) PROVE ProofInvariant'
  <1>1. /\ prover[w].pc = "record" /\ prover[w].gen \in proven /\ linked[0] = 1
    BY DEF ProofInvariant, C!RecordConnection, Publishes, Linked
  <1>2. request' = {0}
    BY DEF C!RecordConnection, C!PublicationEffectIdentity
  <1>3. ProofLedger' /\ OthersStand(w) /\ linked'[0] = 1
    BY <1>1, <1>2, LinkLedgerStands DEF C!RecordConnection, ProofInvariant, ProofLedger
  <1> QED  BY <1>1, <1>2, <1>3, ProverSteps DEF C!RecordConnection, ProofPlaces, Linked, OthersStand

LEMMA AnnouncePublishedStep ==
    ASSUME ProofInvariant, NEW w \in Workers, C!AnnouncePublished(w) PROVE ProofInvariant'
  <1>1. /\ prover[w].pc = "announce" /\ prover[w].gen \in proven /\ linked[0] = 1
        /\ request = {0}
    BY DEF ProofInvariant, C!AnnouncePublished, Publishes, Linked
  <1>2. timeline' = timeline \cup {prover[w].gen}
    BY DEF C!AnnouncePublished
  <1>3. ProofLedger' /\ OthersStand(w) /\ linked'[0] = 1
    BY <1>1, <1>2, LinkLedgerStands DEF C!AnnouncePublished, ProofInvariant, ProofLedger
  <1>4. request' = {0} /\ timeline' # {} /\ prover[w].gen \in proven'
    BY <1>1, <1>2 DEF C!AnnouncePublished
  <1> QED  BY <1>1, <1>3, <1>4, ProverSteps DEF C!AnnouncePublished, ProofPlaces, Linked

LEMMA CompletesStep ==
    ASSUME ProofInvariant, NEW w \in Workers, C!Completes(w) PROVE ProofInvariant'
  <1>1. timeline # {} /\ request = {0} /\ linked[0] = 1
    BY DEF ProofInvariant, C!Completes, Publishes, Linked
  <1>2. ProofLedger' /\ OthersStand(w)
    BY <1>1 DEF C!Completes, ProofInvariant, ProofLedger, OthersStand, C!ValuesStayHome
  <1> QED  BY <1>2, ProverLeaves DEF C!Completes

LEMMA RetireStep ==
    ASSUME ProofInvariant, NEW w \in Workers, C!Retire(w) PROVE ProofInvariant'
  <1>1. prover[w] \in Provers /\ prover[w].pc = "retire"
    BY DEF ProofInvariant, C!Retire
  <1>2. vault' \in [C!Mints -> {"absent", "active", "superseded", "unusable"}]
    BY <1>1 DEF C!Retire, ProofInvariant, ProofLedger, Provers
  <1>3. phase' \in {phase, "paused"}
    BY DEF C!Retire, C!Pauses
  <1>4. ProofLedger' /\ OthersStand(w)
    BY <1>2, <1>3 DEF C!Retire, ProofInvariant, ProofLedger, OthersStand, C!ValuesStayHome
  <1>5. C!Steps(w, "regenerate") \/ C!Goes(w, C!Away)
    BY DEF C!Retire, C!Pauses, C!Raises
  <1>6. CASE C!Steps(w, "regenerate")
    BY <1>1, <1>4, <1>6, ProverSteps DEF ProofPlaces, Linked
  <1> QED  BY <1>4, <1>5, <1>6, ProverLeaves

LEMMA NextGenerationStep ==
    ASSUME ProofInvariant, NEW w \in Workers, C!NextGeneration(w) PROVE ProofInvariant'
  <1>1. ProofLedger' /\ OthersStand(w)
    BY DEF C!NextGeneration, ProofInvariant, ProofLedger, OthersStand, C!ValuesStayHome
  <1> QED  BY <1>1, ProverLeaves DEF C!NextGeneration

LEMMA ProofWalkDiesStep ==
    ASSUME ProofInvariant, NEW w \in Workers, C!WalkDies(w) PROVE ProofInvariant'
  <1>1. ProofLedger' /\ OthersStand(w)
    BY ProofFaulted, ProofLedgerStands DEF C!WalkDies, ProofInvariant, ProofLedger
  <1> QED  BY <1>1, ProverLeaves DEF C!WalkDies

LEMMA ProofSteps ==
    ASSUME ProofInvariant, C!ProofNext PROVE ProofInvariant'
  BY RetryStep, EnterStep, StoredReferenceStep, UnarmedStep, CaptureStep, CaptureFailsStep,
     CompleteCaptureStep, NextValidationAttemptStep, ValidateStep, StartConnectionStep, LinkStep,
     CompleteLinkStep, RecordConnectionStep, AnnouncePublishedStep, CompletesStep, RetireStep,
     NextGenerationStep, ProofWalkDiesStep
     DEF C!ProofNext

LEMMA ProofSafe ==
    ASSUME ProofInvariant
    PROVE  C!ProofTypeOK /\ C!OneConnectionPerRun /\ C!CompletedIsPublished /\ C!ValuesStayHome
  <1>1. linked \in [C!Mints -> 0 .. C!Cardinality(Workers) + MaxFaults]
    \* Only a worker links: without one the bound is zero, and so is every count.
    <2>1. C!Cardinality(Workers) \in Nat /\ MaxFaults \in Nat
      BY ProofBounds, FS_CardinalityType, WorkersAreCounted
    <2>2. Workers # {} => C!Cardinality(Workers) # 0
      BY ProofBounds, FS_EmptySet, WorkersAreCounted
    <2>3. /\ linked \in [C!Mints -> 0 .. 1]
          /\ \A i \in C!Mints : linked[i] # 0 => Workers # {}
      BY ProofBounds DEF ProofInvariant, ProofLedger
    <2>4. ASSUME NEW i \in C!Mints PROVE linked[i] \in 0 .. C!Cardinality(Workers) + MaxFaults
      BY <2>1, <2>2, <2>3
    <2> QED  BY <2>3, <2>4
  <1>2. \A w \in Workers : prover[w].gen \in C!Mints /\ prover[w].used \in 0 .. MaxProbes
    BY DEF ProofInvariant, Provers
  <1>3. C!ProofTypeOK
    BY <1>1, <1>2, ProofBounds DEF ProofInvariant, ProofLedger, C!ProofTypeOK
  <1>4. C!OneConnectionPerRun
    BY ProofBounds DEF ProofInvariant, ProofLedger, C!OneConnectionPerRun
  <1>5. C!CompletedIsPublished
    BY DEF ProofInvariant, ProofLedger, C!CompletedIsPublished
  <1> QED  BY <1>3, <1>4, <1>5 DEF ProofInvariant, ProofLedger

-----------------------------------------------------------------------------
(* Enrichment                                                                 *)

OutcomeKey == <<"outcome", {}>>
Inner == {"search", "research", "contents"}
Calls == [stage : Stages, at : {None, "look", "lock", "again", "ask", "put", "raised"},
          found : SUBSET Urls, docs : SUBSET Urls, routes : SUBSET Urls]

\* KeyOf and the locks of a caller, by its record: the outcome's from its second
\* look on, an inner one from the second look at its row to the answer.
KeyAt(d) == <<d.stage, IF d.stage = "contents" THEN CandidateUrls(d.found) ELSE {}>>
Inside(d) ==
    \/ d.stage \in Inner \cup {"legacy", "http", "extract"}
    \/ d.stage = "outcome" /\ d.at \in {"again", "put"}
AtInner(d) == d.stage \in Inner /\ d.at \in {"again", "ask"}
Holds(d, k) == IF k = OutcomeKey THEN Inside(d) ELSE AtInner(d) /\ KeyAt(d) = k

\* A caller is at a step its stage has, has pages to fetch when it fetches, and
\* returns or stores routes that are grounded.
Enriches(d) ==
    /\ d.stage \in {"idle", "done"} => d.at \in {None, "raised"}
    /\ d.stage = "outcome" => d.at \in {"look", "lock", "again", "put"}
    /\ d.stage \in Inner => d.at \in {"look", "lock", "again", "ask"}
    /\ d.stage \in {"legacy", "http", "extract"} => d.at = "ask"
    /\ d.stage = "contents" => CandidateUrls(d.found) # {}
    /\ d.stage = "done" \/ d.at = "put" => \A r \in d.routes : Grounded(r, d.docs)

EnrichmentTypes ==
    /\ policy \in Policies /\ cache \in [Keys -> Rows]
    /\ holder \in [Keys -> Callers \cup {None}]
    /\ clock \in 0 .. MaxClock /\ deploys \in 0 .. MaxDeploys /\ faults \in 0 .. MaxFaults

EnrichmentInvariant ==
    /\ EnrichmentTypes /\ call \in [Callers -> Calls]
    /\ \A c \in Callers : Enriches(call[c])
    /\ \A c \in Callers : \A k \in Keys : holder[k] = c <=> Holds(call[c], k)
    /\ \A c \in Callers :
          call[c].at = "ask" /\ call[c].stage \in Inner => ~Hit(KeyAt(call[c]))

LEMMA EnrichmentBounds ==
    /\ MaxClock \in Nat /\ MaxDeploys \in Nat /\ MaxFaults \in Nat /\ TTL \in Nat \ {0}
    /\ 0 \in 0 .. MaxClock /\ 0 \in 0 .. MaxDeploys /\ 0 \in 0 .. MaxFaults
    /\ MaxClock \in 0 .. MaxClock /\ MaxDeploys \in 0 .. MaxDeploys
    /\ MaxFaults \in 0 .. MaxFaults
    /\ None \notin Callers /\ Baseline \subseteq Urls /\ Home \in Urls
    /\ \A p \in Policies : p \subseteq Urls
    /\ NoRow \in Rows /\ Idle \in Calls /\ Enriches(Idle)
    /\ OutcomeKey \in Keys /\ \A k \in Keys : ~Holds(Idle, k)
  <1>1. /\ MaxClock \in Nat /\ MaxDeploys \in Nat /\ MaxFaults \in Nat /\ TTL \in Nat \ {0}
        /\ None \notin Callers /\ Baseline \subseteq Urls /\ Home \in Urls
        /\ \A p \in Policies : p \subseteq Urls
    BY EnrichmentAssumption DEF EnrichmentAssumption
  <1>2. 0 \in 0 .. (MaxClock + TTL)
    BY <1>1
  <1>3. NoRow \in Rows
    BY <1>2 DEF NoRow, Rows
  <1>4. Idle \in Calls
    BY DEF Idle, Calls, Stages, None
  <1>5. Enriches(Idle) /\ \A k \in Keys : ~Holds(Idle, k)
    BY DEF Idle, Enriches, Holds, Inside, AtInner, Inner, None
  <1> QED  BY <1>1, <1>3, <1>4, <1>5 DEF OutcomeKey, Keys

\* Every key a caller locks is a key, and an inner one is not the outcome's.
LEMMA KeysAreKeys ==
    ASSUME EnrichmentInvariant, NEW d \in Calls, Enriches(d), d.stage \in Inner \cup {"outcome"}
    PROVE  /\ KeyAt(d) \in Keys /\ KeyAt(d)[1] = d.stage
           /\ d.stage = "outcome" => KeyAt(d) = OutcomeKey
           /\ d.stage \in Inner => KeyAt(d) # OutcomeKey
  <1>1. policy \subseteq Urls
    BY EnrichmentBounds DEF EnrichmentInvariant, EnrichmentTypes
  <1>2. CandidateUrls(d.found) \in SUBSET Urls
    BY <1>1 DEF CandidateUrls, OnPolicy
  <1>3. KeyAt(d)[1] = d.stage
    BY DEF KeyAt
  <1>4. CASE d.stage = "contents"
    <2>1. KeyAt(d) = <<"contents", CandidateUrls(d.found)>> /\ CandidateUrls(d.found) # {}
      BY <1>4 DEF KeyAt, Enriches
    <2> QED  BY <1>2, <1>3, <1>4, <2>1 DEF Keys, OutcomeKey
  <1>5. CASE d.stage \in {"outcome", "search", "research"}
    <2>1. KeyAt(d) = <<d.stage, {}>>
      BY <1>5 DEF KeyAt
    <2> QED  BY <1>3, <1>5, <2>1 DEF Keys, OutcomeKey, Inner
  <1> QED  BY <1>4, <1>5 DEF Inner

LEMMA EnrichmentInitially ==
    ASSUME MCEnrichmentInit PROVE EnrichmentInvariant
  <1>1. EnrichmentTypes
    <2>1. policy \in Policies
      BY EnrichmentBounds DEF MCEnrichmentInit
    <2> QED  BY <2>1, EnrichmentBounds DEF MCEnrichmentInit, EnrichmentTypes
  <1>2. \A c \in Callers : call[c] = Idle
    BY DEF MCEnrichmentInit
  <1>3. \A c \in Callers : \A k \in Keys : holder[k] = c <=> Holds(call[c], k)
    BY <1>2, EnrichmentBounds DEF MCEnrichmentInit
  <1>4. call \in [Callers -> Calls]
    BY EnrichmentBounds DEF MCEnrichmentInit
  <1>5. \A c \in Callers : Enriches(call[c])
    BY <1>2, EnrichmentBounds
  <1> QED  BY <1>1, <1>2, <1>3, <1>4, <1>5 DEF EnrichmentInvariant, Idle, Inner

\* A step of one caller: its new place stands, it holds the locks it should and
\* no lock of another's changed, and it gave no other caller's key an answer.
LEMMA CallerMoves ==
    ASSUME EnrichmentInvariant, NEW c \in Callers, NEW to \in Calls, Enriches(to),
           call' = [call EXCEPT ![c] = to], UNCHANGED policy, EnrichmentTypes',
           \A k \in Keys : holder'[k] = c <=> Holds(to, k),
           \A k \in Keys : holder'[k] # holder[k] =>
               holder[k] \in {c, None} /\ holder'[k] \in {c, None},
           \A k \in Keys : Hit(k)' => Hit(k) \/ holder[k] = c,
           to.at = "ask" /\ to.stage \in Inner => ~Hit(KeyAt(to))'
    PROVE  EnrichmentInvariant'
  <1>1. /\ call' \in [Callers -> Calls] /\ call'[c] = to
        /\ \A v \in Callers \ {c} : call'[v] = call[v]
    BY DEF EnrichmentInvariant
  <1>2. /\ \A d \in Calls : Enriches(d)' <=> Enriches(d)
        /\ \A d \in Calls, k \in Keys : Holds(d, k)' <=> Holds(d, k)
        /\ \A d \in Calls : KeyAt(d)' = KeyAt(d)
    BY DEF Enriches, Grounded, CandidateUrls, OnPolicy, Holds, Inside, AtInner, KeyAt
  <1>3. ASSUME NEW v \in Callers PROVE Enriches(call[v])'
    <2>1. Enriches(call'[v])
      BY <1>1 DEF EnrichmentInvariant
    <2> QED  BY <1>1, <1>2, <2>1 DEF Enriches, Grounded, CandidateUrls, OnPolicy
  <1>4. ASSUME NEW v \in Callers, NEW k \in Keys PROVE holder'[k] = v <=> Holds(call'[v], k)
    <2>1. CASE v = c
      BY <1>1, <2>1
    <2>2. CASE v # c
      <3>1. holder'[k] = v <=> holder[k] = v
        BY <2>2, EnrichmentBounds
      <3> QED  BY <1>1, <2>2, <3>1 DEF EnrichmentInvariant
    <2> QED  BY <2>1, <2>2
  <1>5. ASSUME NEW v \in Callers, NEW k \in Keys PROVE (holder[k] = v <=> Holds(call[v], k))'
    BY <1>4 DEF Holds, Inside, AtInner, KeyAt, CandidateUrls, OnPolicy
  <1>6. ASSUME NEW v \in Callers, call'[v].at = "ask", call'[v].stage \in Inner
        PROVE  ~Hit(KeyAt(call[v]))'
    <2>1. CASE v = c
      BY <1>1, <1>6, <2>1 DEF KeyAt, Hit, CandidateUrls, OnPolicy
    <2>2. CASE v # c
      <3>1. PICK k : k = KeyAt(call[v])
        OBVIOUS
      <3>2. call'[v] = call[v] /\ call[v] \in Calls /\ Enriches(call[v])
        BY <1>1, <2>2 DEF EnrichmentInvariant
      <3>3. k \in Keys /\ k # OutcomeKey
        BY <1>6, <3>1, <3>2, KeysAreKeys
      <3>4. Holds(call[v], k)
        BY <1>6, <3>1, <3>2, <3>3 DEF Holds, AtInner
      <3>5. holder[k] = v /\ ~Hit(k)
        BY <1>6, <3>1, <3>2, <3>3, <3>4 DEF EnrichmentInvariant
      <3>6. ~Hit(k)'
        BY <2>2, <3>3, <3>5
      <3>7. KeyAt(call[v])' = k
        BY <3>1, <3>2 DEF KeyAt, CandidateUrls, OnPolicy
      <3> QED  BY <3>6, <3>7 DEF Hit
    <2> QED  BY <2>1, <2>2
  <1> QED  BY <1>1, <1>3, <1>5, <1>6 DEF EnrichmentInvariant

\* What the cache's reads and writes leave: no other key gets an answer.
LEMMA DropsAnswersNothing ==
    ASSUME EnrichmentInvariant, NEW k \in Keys, Drops(k), UNCHANGED <<policy, clock>>
    PROVE  cache' \in [Keys -> Rows] /\ \A j \in Keys : Hit(j)' => Hit(j)
  <1>1. cache' = cache \/ (~Live(cache[k]) /\ cache' = [cache EXCEPT ![k] = NoRow])
    BY DEF Drops
  <1>2. clock \in Nat
    BY EnrichmentBounds DEF EnrichmentInvariant, EnrichmentTypes
  <1>3. CASE cache' = cache
    BY <1>3 DEF EnrichmentInvariant, EnrichmentTypes, Hit, Live, Readable, OnPolicy, Grounded
  <1>4. CASE ~Live(cache[k]) /\ cache' = [cache EXCEPT ![k] = NoRow]
    <2>1. cache' \in [Keys -> Rows] /\ cache'[k] = NoRow /\ \A j \in Keys \ {k} : cache'[j] = cache[j]
      BY <1>4, EnrichmentBounds DEF EnrichmentInvariant, EnrichmentTypes
    <2>2. ~Hit(k)'
      BY <1>2, <2>1 DEF Hit, Live, NoRow
    <2>3. \A j \in Keys \ {k} : Hit(j)' => Hit(j)
      BY <2>1 DEF Hit, Live, Readable, OnPolicy, Grounded
    <2> QED  BY <2>1, <2>2, <2>3
  <1> QED  BY <1>1, <1>3, <1>4

LEMMA CacheWritten ==
    ASSUME EnrichmentInvariant, NEW k \in Keys, NEW pages \in SUBSET Urls, NEW routes \in SUBSET Urls,
           cache' = [cache EXCEPT ![k] = [pages |-> pages, routes |-> routes, expires |-> clock + TTL]],
           UNCHANGED <<policy, clock>>
    PROVE  cache' \in [Keys -> Rows] /\ \A j \in Keys \ {k} : Hit(j)' => Hit(j)
  <1>1. clock + TTL \in 0 .. (MaxClock + TTL)
    BY EnrichmentBounds DEF EnrichmentInvariant, EnrichmentTypes
  <1>2. [pages |-> pages, routes |-> routes, expires |-> clock + TTL] \in Rows
    BY <1>1 DEF Rows
  <1>3. cache' \in [Keys -> Rows] /\ \A j \in Keys \ {k} : cache'[j] = cache[j]
    BY <1>2 DEF EnrichmentInvariant, EnrichmentTypes
  <1> QED  BY <1>3 DEF Hit, Live, Readable, OnPolicy, Grounded

LEMMA CacheKept ==
    ASSUME EnrichmentInvariant, UNCHANGED <<cache, policy, clock>>
    PROVE  cache' \in [Keys -> Rows] /\ \A j \in Keys : Hit(j)' => Hit(j)
  BY DEF EnrichmentInvariant, EnrichmentTypes, Hit, Live, Readable, OnPolicy, Grounded

\* Where a stage that returned leaves its caller: outside every inner lock, and
\* still inside the outcome's unless it was the outcome that returned.
After(from, to) ==
    /\ to \in Calls /\ Enriches(to) /\ ~AtInner(to)
    /\ to.stage \in Inner => to.at = "look"
    /\ IF from = "outcome" THEN to.stage = "done" ELSE to.stage \in Inner \cup {"legacy", "http"}

LEMMA WherePagesLead ==
    ASSUME EnrichmentInvariant, NEW found \in SUBSET Urls, NEW docs \in SUBSET Urls,
           NEW next \in {AfterDiscovery(found), AfterSearch(found), AfterLegacy(found),
                         [stage |-> "http", at |-> "ask"]}
    PROVE  After("search", [stage |-> next.stage, at |-> next.at, found |-> found,
                            docs |-> docs, routes |-> {}])
  <1>1. \/ next = [stage |-> "http", at |-> "ask"]
        \/ next = [stage |-> "legacy", at |-> "ask"]
        \/ next = [stage |-> "research", at |-> "look"]
        \/ next = [stage |-> "contents", at |-> "look"] /\ CandidateUrls(found) # {}
    BY DEF AfterDiscovery, AfterSearch, AfterLegacy, Enter
  <1>2. PICK to : to = [stage |-> next.stage, at |-> next.at, found |-> found, docs |-> docs,
                        routes |-> {}]
    OBVIOUS
  <1>3. to \in Calls
    BY <1>1, <1>2 DEF Calls, Stages
  <1>4. Enriches(to)
    BY <1>1, <1>2 DEF Enriches, Inner
  <1> QED  BY <1>1, <1>2, <1>3, <1>4 DEF After, AtInner, Inner

LEMMA ReturnsSomewhere ==
    ASSUME EnrichmentInvariant, NEW c \in Callers, NEW pages \in SUBSET Urls, NEW routes \in SUBSET Urls,
           call[c].stage \in Inner \cup {"outcome"}, Returns(c, pages, routes),
           call[c].stage = "outcome" => \A r \in routes : Grounded(r, pages)
    PROVE  \E to : After(call[c].stage, to) /\ call' = [call EXCEPT ![c] = to]
  <1>1. call[c] \in Calls /\ (call[c].found \cup pages) \in SUBSET Urls /\ call[c].found \in SUBSET Urls
    BY DEF EnrichmentInvariant, Calls
  <1>2. CASE call[c].stage = "search"
    <2>1. PICK found : found = call[c].found \cup pages
      OBVIOUS
    <2>2. PICK next : next = AfterSearch(found)
      OBVIOUS
    <2>3. call' = [call EXCEPT ![c] = [stage |-> next.stage, at |-> next.at, found |-> found,
                                       docs |-> {}, routes |-> {}]]
      BY <1>2, <2>1, <2>2 DEF Returns, Onto
    <2> QED  BY <1>1, <1>2, <2>1, <2>2, <2>3, WherePagesLead DEF After
  <1>3. CASE call[c].stage = "research"
    <2>1. PICK found : found = call[c].found \cup pages
      OBVIOUS
    <2>2. PICK next : next = AfterDiscovery(found)
      OBVIOUS
    <2>3. call' = [call EXCEPT ![c] = [stage |-> next.stage, at |-> next.at, found |-> found,
                                       docs |-> {}, routes |-> {}]]
      BY <1>3, <2>1, <2>2 DEF Returns, Onto
    <2> QED  BY <1>1, <1>3, <2>1, <2>2, <2>3, WherePagesLead DEF After
  <1>4. CASE call[c].stage = "contents"
    <2>1. PICK found : found = call[c].found
      OBVIOUS
    <2>2. PICK next : next = [stage |-> "http", at |-> "ask"]
      OBVIOUS
    <2>3. call' = [call EXCEPT ![c] = [stage |-> next.stage, at |-> next.at, found |-> found,
                                       docs |-> pages, routes |-> {}]]
      BY <1>4, <2>1, <2>2 DEF Returns, Onto
    <2> QED  BY <1>1, <1>4, <2>1, <2>2, <2>3, WherePagesLead DEF After
  <1>5. CASE call[c].stage = "outcome"
    <2>1. PICK to : to = [stage |-> "done", at |-> None, found |-> {}, docs |-> pages, routes |-> routes]
      OBVIOUS
    <2>2. call' = [call EXCEPT ![c] = to]
      BY <1>5, <2>1 DEF Returns, Onto
    <2>3. to \in Calls /\ to.stage = "done" /\ to.at = None /\ to.routes = routes /\ to.docs = pages
      BY <2>1 DEF Calls, Stages
    <2>4. Enriches(to)
      BY <1>5, <2>3 DEF Enriches, Inner, None
    <2> QED  BY <1>5, <2>2, <2>3, <2>4 DEF After, AtInner, Inner
  <1> QED  BY <1>2, <1>3, <1>4, <1>5 DEF Inner

\* A stage returns under its lock, and the lock is released with it.
LEMMA ReturnsUnderLock ==
    ASSUME EnrichmentInvariant, NEW c \in Callers, NEW pages \in SUBSET Urls, NEW routes \in SUBSET Urls,
           AtInner(call[c]) \/ (call[c].stage = "outcome" /\ call[c].at \in {"again", "put"}),
           Returns(c, pages, routes), holder' = Free(c, KeyOf(c)),
           call[c].stage = "outcome" => \A r \in routes : Grounded(r, pages),
           UNCHANGED <<policy, clock, deploys>>, faults' \in 0 .. MaxFaults,
           cache' \in [Keys -> Rows], \A k \in Keys \ {KeyAt(call[c])} : Hit(k)' => Hit(k)
    PROVE  EnrichmentInvariant'
  <1>1. call[c] \in Calls /\ Enriches(call[c]) /\ call[c].stage \in Inner \cup {"outcome"}
    BY DEF EnrichmentInvariant, AtInner
  <1>2. PICK to : After(call[c].stage, to) /\ call' = [call EXCEPT ![c] = to]
    BY <1>1, ReturnsSomewhere
  <1>3. PICK key : key = KeyAt(call[c])
    OBVIOUS
  <1>4. /\ key \in Keys /\ KeyOf(c) = key
        /\ call[c].stage = "outcome" => key = OutcomeKey
        /\ call[c].stage \in Inner => key # OutcomeKey
    BY <1>1, <1>3, KeysAreKeys DEF KeyAt, KeyOf
  <1>5. holder[key] = c
    <2>1. Holds(call[c], key)
      <3>1. CASE AtInner(call[c])
        BY <1>3, <1>4, <3>1 DEF Holds, AtInner
      <3>2. CASE call[c].stage = "outcome" /\ call[c].at \in {"again", "put"}
        BY <1>4, <3>2 DEF Holds, Inside
      <3> QED  BY <3>1, <3>2
    <2> QED  BY <1>4, <2>1 DEF EnrichmentInvariant
  <1>6. holder' = [holder EXCEPT ![key] = None]
    BY <1>4, <1>5 DEF Free
  <1>7. /\ holder' \in [Keys -> Callers \cup {None}] /\ holder'[key] = None
        /\ \A k \in Keys \ {key} : holder'[k] = holder[k]
    BY <1>4, <1>6 DEF EnrichmentInvariant, EnrichmentTypes
  <1>8. \A k \in Keys : holder[k] = c <=> Holds(call[c], k)
    BY DEF EnrichmentInvariant
  <1>9. ASSUME NEW k \in Keys PROVE holder'[k] = c <=> Holds(to, k)
    <2>1. CASE k = key
      BY <1>1, <1>2, <1>4, <1>7, <2>1, EnrichmentBounds DEF Holds, After, Inside, Inner
    <2>2. CASE k # key /\ k = OutcomeKey
      <3>1. holder'[k] = holder[k] /\ call[c].stage \in Inner
        BY <1>1, <1>4, <1>7, <2>2
      <3> QED  BY <1>2, <1>8, <2>2, <3>1 DEF Holds, After, Inside, Inner
    <2>3. CASE k # key /\ k # OutcomeKey
      BY <1>2, <1>3, <1>7, <1>8, <2>3 DEF Holds, After
    <2> QED  BY <2>1, <2>2, <2>3
  <1>10. EnrichmentTypes'
    BY <1>7 DEF EnrichmentInvariant, EnrichmentTypes
  <1>11. to \in Calls /\ Enriches(to) /\ ~(to.at = "ask" /\ to.stage \in Inner)
    BY <1>2 DEF After
  <1>12. \A k \in Keys : holder'[k] # holder[k] => holder[k] \in {c, None} /\ holder'[k] \in {c, None}
    BY <1>5, <1>7
  <1>13. \A k \in Keys : Hit(k)' => Hit(k) \/ holder[k] = c
    BY <1>3, <1>5
  <1> QED  BY <1>2, <1>9, <1>10, <1>11, <1>12, <1>13, CallerMoves

\* A caller that raised holds nothing and returns the baseline.
LEMMA CallRaises ==
    ASSUME EnrichmentInvariant, NEW c \in Callers, Raised(c),
           UNCHANGED <<policy, cache, clock, deploys>>, faults' \in 0 .. MaxFaults
    PROVE  EnrichmentInvariant'
  <1>1. PICK to : to = [stage |-> "done", at |-> "raised", found |-> {}, docs |-> {}, routes |-> Baseline]
    OBVIOUS
  <1>2. call' = [call EXCEPT ![c] = to]
    BY <1>1 DEF Raised, Onto
  <1>3. to \in Calls
    BY <1>1, EnrichmentBounds DEF Calls, Stages
  <1>4. to.stage = "done" /\ to.at = "raised" /\ to.routes = Baseline
    BY <1>1
  <1>5. Enriches(to) /\ \A k \in Keys : ~Holds(to, k)
    BY <1>4 DEF Enriches, Grounded, Holds, Inside, AtInner, Inner
  <1>6. /\ holder' \in [Keys -> Callers \cup {None}]
        /\ \A k \in Keys : holder'[k] = IF holder[k] = c THEN None ELSE holder[k]
    BY DEF Raised, EnrichmentInvariant, EnrichmentTypes
  <1>7. EnrichmentTypes'
    BY <1>6 DEF EnrichmentInvariant, EnrichmentTypes
  <1>8. \A k \in Keys : Hit(k)' => Hit(k)
    BY CacheKept
  <1>9. \A k \in Keys : holder'[k] = c <=> Holds(to, k)
    BY <1>5, <1>6, EnrichmentBounds
  <1>10. \A k \in Keys : holder'[k] # holder[k] => holder[k] \in {c, None} /\ holder'[k] \in {c, None}
    BY <1>6
  <1> QED  BY <1>2, <1>3, <1>4, <1>5, <1>7, <1>8, <1>9, <1>10, CallerMoves

\* A step of a caller that changes no lock and no row, to a place with the same locks.
LEMMA CallerGoesOn ==
    ASSUME EnrichmentInvariant, NEW c \in Callers, NEW to \in Calls, Enriches(to),
           call' = [call EXCEPT ![c] = to], UNCHANGED <<policy, holder, clock, deploys>>,
           cache' \in [Keys -> Rows], \A k \in Keys : Hit(k)' => Hit(k),
           faults' \in 0 .. MaxFaults, Inside(to) <=> Inside(call[c]),
           ~AtInner(to), ~AtInner(call[c])
    PROVE  EnrichmentInvariant'
  <1>1. EnrichmentTypes'
    BY DEF EnrichmentInvariant, EnrichmentTypes
  <1>2. \A k \in Keys : Holds(to, k) <=> Holds(call[c], k)
    BY DEF Holds
  <1>3. \A k \in Keys : holder'[k] = c <=> Holds(to, k)
    BY <1>2 DEF EnrichmentInvariant
  <1> QED  BY <1>1, <1>3, CallerMoves DEF AtInner

LEMMA BeginEnrichStep ==
    ASSUME EnrichmentInvariant, NEW c \in Callers, BeginEnrich(c) PROVE EnrichmentInvariant'
  <1>1. PICK to : to = [stage |-> "outcome", at |-> "look", found |-> {}, docs |-> {}, routes |-> {}]
    OBVIOUS
  <1>2. to \in Calls /\ to.stage = "outcome" /\ to.at = "look"
    BY <1>1 DEF Calls, Stages
  <1>3. Enriches(to) /\ ~Inside(to) /\ ~AtInner(to)
    BY <1>2 DEF Enriches, Inside, AtInner, Inner
  <1>4. ~Inside(call[c]) /\ ~AtInner(call[c])
    BY DEF BeginEnrich, Inside, AtInner, Inner
  <1>5. call' = [call EXCEPT ![c] = to]
    BY <1>1 DEF BeginEnrich, Onto, Enter
  <1>6. UNCHANGED <<policy, cache, holder, clock, deploys, faults>>
    BY DEF BeginEnrich
  <1>7. cache' \in [Keys -> Rows] /\ (\A k \in Keys : Hit(k)' => Hit(k)) /\ faults' \in 0 .. MaxFaults
    BY <1>6, CacheKept DEF EnrichmentInvariant, EnrichmentTypes
  <1> QED  BY <1>2, <1>3, <1>4, <1>5, <1>6, <1>7, CallerGoesOn

\* What the caller reads of a row it hits.
LEMMA RowRead ==
    ASSUME EnrichmentInvariant, NEW c \in Callers, call[c].at \in {"look", "again"},
           NEW key, key = KeyOf(c)
    PROVE  /\ call[c] \in Calls /\ Enriches(call[c]) /\ call[c].stage \in Inner \cup {"outcome"}
           /\ key = KeyAt(call[c]) /\ key \in Keys /\ key[1] = call[c].stage
           /\ ReadPages(key[1], cache[key]) \in SUBSET Urls /\ cache[key].routes \in SUBSET Urls
           /\ Hit(key) /\ call[c].stage = "outcome" =>
                  \A r \in cache[key].routes : Grounded(r, ReadPages(key[1], cache[key]))
  <1>1. call[c] \in Calls /\ Enriches(call[c])
    BY DEF EnrichmentInvariant
  <1>2. call[c].stage \in Inner \cup {"outcome"}
    BY <1>1 DEF Calls, Stages, Enriches, Inner, None
  <1>3. key = KeyAt(call[c]) /\ key \in Keys /\ key[1] = call[c].stage
    BY <1>1, <1>2, KeysAreKeys DEF KeyAt, KeyOf
  <1>4. cache[key] \in Rows
    BY <1>3 DEF EnrichmentInvariant, EnrichmentTypes
  <1>5. ReadPages(key[1], cache[key]) \in SUBSET Urls /\ cache[key].routes \in SUBSET Urls
    BY <1>4 DEF Rows, ReadPages, OnPolicy
  <1>6. ASSUME Hit(key), call[c].stage = "outcome"
        PROVE  \A r \in cache[key].routes : Grounded(r, ReadPages(key[1], cache[key]))
    BY <1>3, <1>6 DEF Hit, Readable, ReadPages
  <1> QED  BY <1>1, <1>2, <1>3, <1>5, <1>6

LEMMA LookStep ==
    ASSUME EnrichmentInvariant, NEW c \in Callers, Look(c) PROVE EnrichmentInvariant'
  <1>1. PICK key : key = KeyOf(c)
    OBVIOUS
  <1>2. call[c].at = "look" /\ Drops(key) /\ UNCHANGED <<policy, holder, clock, deploys, faults>>
    BY <1>1 DEF Look
  <1>3. /\ call[c] \in Calls /\ Enriches(call[c]) /\ call[c].stage \in Inner \cup {"outcome"}
        /\ key = KeyAt(call[c]) /\ key \in Keys /\ key[1] = call[c].stage
        /\ ReadPages(key[1], cache[key]) \in SUBSET Urls /\ cache[key].routes \in SUBSET Urls
        /\ Hit(key) /\ call[c].stage = "outcome" =>
              \A r \in cache[key].routes : Grounded(r, ReadPages(key[1], cache[key]))
    BY <1>1, <1>2, RowRead
  <1>4. cache' \in [Keys -> Rows] /\ (\A k \in Keys : Hit(k)' => Hit(k)) /\ faults' \in 0 .. MaxFaults
    BY <1>2, <1>3, DropsAnswersNothing DEF EnrichmentInvariant, EnrichmentTypes
  <1>5. ~AtInner(call[c]) /\ (Inside(call[c]) <=> call[c].stage \in Inner)
    BY <1>2, <1>3 DEF AtInner, Inside, Inner
  <1>6. CASE Hit(key)
    <2>1. PICK pages \in SUBSET Urls : pages = ReadPages(key[1], cache[key])
      BY <1>3
    <2>2. PICK routes \in SUBSET Urls : routes = cache[key].routes
      BY <1>3
    <2>3. Returns(c, pages, routes)
      BY <1>1, <1>6, <2>1, <2>2 DEF Look
    <2>4. call[c].stage = "outcome" => \A r \in routes : Grounded(r, pages)
      BY <1>3, <1>6, <2>1, <2>2
    <2>5. PICK to : After(call[c].stage, to) /\ call' = [call EXCEPT ![c] = to]
      BY <1>3, <2>3, <2>4, ReturnsSomewhere
    <2>6. to \in Calls /\ Enriches(to) /\ ~AtInner(to) /\ (Inside(to) <=> Inside(call[c]))
      BY <1>3, <1>5, <2>5 DEF After, Inside, Inner
    <2> QED  BY <1>2, <1>4, <1>5, <2>5, <2>6, CallerGoesOn
  <1>7. CASE ~Hit(key)
    <2>1. PICK to : to = [call[c] EXCEPT !.at = "lock"]
      OBVIOUS
    <2>2. to \in Calls /\ to.at = "lock" /\ to.stage = call[c].stage /\ to.found = call[c].found
      BY <1>3, <2>1 DEF Calls
    <2>3. Enriches(to)
      BY <1>3, <2>2 DEF Enriches, Inner
    <2>4. ~AtInner(to) /\ (Inside(to) <=> Inside(call[c]))
      BY <1>3, <1>5, <2>2 DEF AtInner, Inside, Inner
    <2>5. call' = [call EXCEPT ![c] = to]
      BY <1>1, <1>7, <2>1 DEF Look
    <2> QED  BY <1>2, <1>4, <1>5, <2>2, <2>3, <2>4, <2>5, CallerGoesOn
  <1> QED  BY <1>6, <1>7

LEMMA ReadFailsStep ==
    ASSUME EnrichmentInvariant, NEW c \in Callers, ReadFails(c) PROVE EnrichmentInvariant'
  <1>1. faults' \in 0 .. MaxFaults
    BY EnrichmentBounds DEF ReadFails, EnrichmentInvariant, EnrichmentTypes
  <1> QED  BY <1>1, CallRaises DEF ReadFails

LEMMA LockForStep ==
    ASSUME EnrichmentInvariant, NEW c \in Callers, LockFor(c) PROVE EnrichmentInvariant'
  <1>1. call[c] \in Calls /\ Enriches(call[c]) /\ call[c].at = "lock"
    BY DEF EnrichmentInvariant, LockFor
  <1>2. call[c].stage \in Inner \cup {"outcome"}
    BY <1>1 DEF Calls, Stages, Enriches, Inner, None
  <1>3. PICK key : key = KeyAt(call[c])
    OBVIOUS
  <1>4. /\ key \in Keys /\ KeyOf(c) = key
        /\ call[c].stage = "outcome" => key = OutcomeKey
        /\ call[c].stage \in Inner => key # OutcomeKey
    BY <1>1, <1>2, <1>3, KeysAreKeys DEF KeyAt, KeyOf
  <1>5. holder[key] = None /\ holder' = [holder EXCEPT ![key] = c]
    BY <1>4 DEF LockFor
  <1>6. /\ holder' \in [Keys -> Callers \cup {None}] /\ holder'[key] = c
        /\ \A k \in Keys \ {key} : holder'[k] = holder[k]
    BY <1>4, <1>5 DEF EnrichmentInvariant, EnrichmentTypes
  <1>7. PICK to : to = [call[c] EXCEPT !.at = "again"]
    OBVIOUS
  <1>8. to \in Calls /\ to.at = "again" /\ to.stage = call[c].stage /\ to.found = call[c].found
    BY <1>1, <1>7 DEF Calls
  <1>9. Enriches(to) /\ KeyAt(to) = key
    BY <1>1, <1>2, <1>3, <1>8 DEF Enriches, Inner, KeyAt
  <1>10. call' = [call EXCEPT ![c] = to]
    BY <1>7 DEF LockFor
  <1>11. ASSUME NEW k \in Keys PROVE holder'[k] = c <=> Holds(to, k)
    <2>1. CASE k = key
      BY <1>2, <1>4, <1>6, <1>8, <1>9, <2>1 DEF Holds, Inside, AtInner, Inner
    <2>2. CASE k # key
      <3>1. holder'[k] = c <=> Holds(call[c], k)
        BY <1>6, <2>2 DEF EnrichmentInvariant
      <3> QED  BY <1>1, <1>2, <1>4, <1>8, <1>9, <2>2, <3>1 DEF Holds, Inside, AtInner, Inner
    <2> QED  BY <2>1, <2>2
  <1>12. UNCHANGED <<policy, cache, clock, deploys, faults>>
    BY DEF LockFor
  <1>13. EnrichmentTypes'
    BY <1>6, <1>12 DEF EnrichmentInvariant, EnrichmentTypes
  <1>14. \A k \in Keys : Hit(k)' => Hit(k)
    BY <1>12, CacheKept
  <1>15. \A k \in Keys : holder'[k] # holder[k] => holder[k] \in {c, None} /\ holder'[k] \in {c, None}
    BY <1>5, <1>6
  <1> QED  BY <1>8, <1>9, <1>10, <1>11, <1>12, <1>13, <1>14, <1>15, CallerMoves

LEMMA LookAgainStep ==
    ASSUME EnrichmentInvariant, NEW c \in Callers, LookAgain(c) PROVE EnrichmentInvariant'
  <1>1. PICK key : key = KeyOf(c)
    OBVIOUS
  <1>2. call[c].at = "again" /\ Drops(key) /\ UNCHANGED <<policy, clock, deploys, faults>>
    BY <1>1 DEF LookAgain
  <1>3. /\ call[c] \in Calls /\ Enriches(call[c]) /\ call[c].stage \in Inner \cup {"outcome"}
        /\ key = KeyAt(call[c]) /\ key \in Keys /\ key[1] = call[c].stage
        /\ ReadPages(key[1], cache[key]) \in SUBSET Urls /\ cache[key].routes \in SUBSET Urls
        /\ Hit(key) /\ call[c].stage = "outcome" =>
              \A r \in cache[key].routes : Grounded(r, ReadPages(key[1], cache[key]))
    BY <1>1, <1>2, RowRead
  <1>4. cache' \in [Keys -> Rows] /\ (\A k \in Keys : Hit(k)' => Hit(k)) /\ faults' \in 0 .. MaxFaults
    BY <1>2, <1>3, DropsAnswersNothing DEF EnrichmentInvariant, EnrichmentTypes
  <1>5. AtInner(call[c]) \/ (call[c].stage = "outcome" /\ call[c].at \in {"again", "put"})
    BY <1>2, <1>3 DEF AtInner
  <1>6. CASE Hit(key)
    <2>1. PICK pages \in SUBSET Urls : pages = ReadPages(key[1], cache[key])
      BY <1>3
    <2>2. PICK routes \in SUBSET Urls : routes = cache[key].routes
      BY <1>3
    <2>3. Returns(c, pages, routes) /\ holder' = Free(c, KeyOf(c))
      BY <1>1, <1>6, <2>1, <2>2 DEF LookAgain
    <2>4. call[c].stage = "outcome" => \A r \in routes : Grounded(r, pages)
      BY <1>3, <1>6, <2>1, <2>2
    <2> QED  BY <1>2, <1>4, <1>5, <2>3, <2>4, ReturnsUnderLock
  <1>7. CASE ~Hit(key) /\ call[c].stage = "outcome"
    <2>1. PICK to : to = [stage |-> "search", at |-> "look", found |-> {}, docs |-> {}, routes |-> {}]
      OBVIOUS
    <2>2. to \in Calls /\ to.stage = "search" /\ to.at = "look"
      BY <2>1 DEF Calls, Stages
    <2>3. Enriches(to) /\ ~AtInner(to) /\ Inside(to)
      BY <2>2 DEF Enriches, AtInner, Inside, Inner
    <2>4. ~AtInner(call[c]) /\ Inside(call[c])
      BY <1>2, <1>7 DEF AtInner, Inside, Inner
    <2>5. call' = [call EXCEPT ![c] = to] /\ UNCHANGED holder
      BY <1>1, <1>3, <1>7, <2>1 DEF LookAgain, Onto, Enter
    <2> QED  BY <1>2, <1>4, <2>2, <2>3, <2>4, <2>5, CallerGoesOn
  <1>8. CASE ~Hit(key) /\ call[c].stage \in Inner
    <2>1. PICK to : to = [call[c] EXCEPT !.at = "ask"]
      OBVIOUS
    <2>2. to \in Calls /\ to.at = "ask" /\ to.stage = call[c].stage /\ to.found = call[c].found
      BY <1>3, <2>1 DEF Calls
    <2>3. Enriches(to) /\ KeyAt(to) = key
      BY <1>3, <1>8, <2>2 DEF Enriches, Inner, KeyAt
    <2>4. call' = [call EXCEPT ![c] = to] /\ UNCHANGED holder
      BY <1>1, <1>3, <1>8, <2>1 DEF LookAgain, Inner
    <2>5. \A k \in Keys : Holds(to, k) <=> Holds(call[c], k)
      BY <1>2, <1>3, <1>8, <2>2, <2>3 DEF Holds, Inside, AtInner, Inner
    <2>6. \A k \in Keys : holder'[k] = c <=> Holds(to, k)
      BY <2>4, <2>5 DEF EnrichmentInvariant
    <2>7. ~Hit(KeyAt(to))'
      <3>1. ~Hit(key)'
        BY <1>3, <1>4, <1>8
      <3>2. KeyAt(to)' = KeyAt(to)
        BY <1>2 DEF KeyAt, CandidateUrls, OnPolicy
      <3> QED  BY <2>3, <3>1, <3>2 DEF Hit
    <2>8. EnrichmentTypes'
      BY <1>2, <1>4, <2>4 DEF EnrichmentInvariant, EnrichmentTypes
    <2> QED  BY <1>2, <1>4, <2>2, <2>3, <2>4, <2>6, <2>7, <2>8, CallerMoves
  <1> QED  BY <1>3, <1>6, <1>7, <1>8

\* A provider was asked under its key's lock: what it answered is stored, or not.
LEMMA StoresStands ==
    ASSUME EnrichmentInvariant, NEW c \in Callers, NEW pages \in SUBSET Urls, NEW routes \in SUBSET Urls,
           AtInner(call[c]) \/ (call[c].stage = "outcome" /\ call[c].at \in {"again", "put"}),
           Returns(c, pages, routes), holder' = Free(c, KeyOf(c)),
           call[c].stage = "outcome" => \A r \in routes : Grounded(r, pages),
           UNCHANGED <<policy, clock, deploys>>, faults' \in 0 .. MaxFaults,
           \/ cache' = [cache EXCEPT ![KeyOf(c)] = [pages |-> pages, routes |-> routes,
                                                    expires |-> clock + TTL]]
           \/ UNCHANGED cache
    PROVE  EnrichmentInvariant'
  <1>1. call[c] \in Calls /\ Enriches(call[c]) /\ call[c].stage \in Inner \cup {"outcome"}
    BY DEF EnrichmentInvariant, AtInner
  <1>2. PICK key \in Keys : key = KeyAt(call[c]) /\ KeyOf(c) = key
    BY <1>1, KeysAreKeys DEF KeyAt, KeyOf
  <1>3. cache' \in [Keys -> Rows] /\ \A k \in Keys \ {key} : Hit(k)' => Hit(k)
    <2>1. CASE UNCHANGED cache
      BY <2>1, CacheKept
    <2>2. CASE cache' = [cache EXCEPT ![key] = [pages |-> pages, routes |-> routes,
                                                expires |-> clock + TTL]]
      BY <1>2, <2>2, CacheWritten
    <2> QED  BY <1>2, <2>1, <2>2
  <1> QED  BY <1>2, <1>3, ReturnsUnderLock

LEMMA EnrichmentFaulted ==
    ASSUME EnrichmentInvariant, faults < MaxFaults, faults' = faults + 1
    PROVE  faults' \in 0 .. MaxFaults
  BY EnrichmentBounds DEF EnrichmentInvariant, EnrichmentTypes

LEMMA AskStep ==
    ASSUME EnrichmentInvariant, NEW c \in Callers, call[c].at = "ask", call[c].stage \in Inner,
           UNCHANGED <<policy, clock, deploys>>,
           \/ \E pages \in SUBSET Urls : Stores(c, pages, {})
           \/ faults' \in 0 .. MaxFaults /\ StoresNothing(c, {}, {})
    PROVE  EnrichmentInvariant'
  <1>1. AtInner(call[c]) /\ call[c].stage # "outcome"
    BY DEF AtInner, Inner
  <1>2. CASE faults' \in 0 .. MaxFaults /\ StoresNothing(c, {}, {})
    BY <1>1, <1>2, StoresStands DEF StoresNothing
  <1>3. ASSUME NEW pages \in SUBSET Urls, Stores(c, pages, {}) PROVE EnrichmentInvariant'
    <2>1. faults' \in 0 .. MaxFaults
      BY <1>3, EnrichmentFaulted DEF Stores, EnrichmentInvariant, EnrichmentTypes
    <2>2. Returns(c, pages, {}) /\ holder' = Free(c, KeyOf(c))
      BY <1>3 DEF Stores
    <2>3. \/ cache' = [cache EXCEPT ![KeyOf(c)] = [pages |-> pages, routes |-> {},
                                                   expires |-> clock + TTL]]
          \/ UNCHANGED cache
      BY <1>3 DEF Stores
    <2> QED  BY <1>1, <2>1, <2>2, <2>3, StoresStands
  <1> QED  BY <1>2, <1>3

LEMMA AskSearchStep ==
    ASSUME EnrichmentInvariant, NEW c \in Callers, AskSearch(c) PROVE EnrichmentInvariant'
  <1>1. call[c].at = "ask" /\ call[c].stage \in Inner /\ UNCHANGED <<policy, clock, deploys>>
    BY DEF AskSearch, Asking, Inner
  <1>2. ASSUME NEW answer \in SUBSET Urls, Stores(c, OnPolicy(answer), {})
        PROVE  \E pages \in SUBSET Urls : Stores(c, pages, {})
    <2>1. OnPolicy(answer) \in SUBSET Urls
      BY DEF OnPolicy
    <2> QED  BY <1>2, <2>1
  <1>3. \/ \E pages \in SUBSET Urls : Stores(c, pages, {})
        \/ faults' \in 0 .. MaxFaults /\ StoresNothing(c, {}, {})
    BY <1>2, EnrichmentFaulted DEF AskSearch, Outage
  <1> QED  BY <1>1, <1>3, AskStep

LEMMA AskResearchStep ==
    ASSUME EnrichmentInvariant, NEW c \in Callers, AskResearch(c) PROVE EnrichmentInvariant'
  <1>1. call[c].at = "ask" /\ call[c].stage \in Inner /\ UNCHANGED <<policy, clock, deploys>>
    BY DEF AskResearch, Asking, Inner
  <1>2. ASSUME NEW answer \in SUBSET Urls, Stores(c, OnPolicy(answer), {})
        PROVE  \E pages \in SUBSET Urls : Stores(c, pages, {})
    <2>1. OnPolicy(answer) \in SUBSET Urls
      BY DEF OnPolicy
    <2> QED  BY <1>2, <2>1
  <1>3. \/ \E pages \in SUBSET Urls : Stores(c, pages, {})
        \/ faults' \in 0 .. MaxFaults /\ StoresNothing(c, {}, {})
    BY <1>2, EnrichmentFaulted DEF AskResearch, Outage, EnrichmentInvariant, EnrichmentTypes
  <1> QED  BY <1>1, <1>3, AskStep

LEMMA AskContentsStep ==
    ASSUME EnrichmentInvariant, NEW c \in Callers, AskContents(c) PROVE EnrichmentInvariant'
  <1>1. call[c].at = "ask" /\ call[c].stage = "contents" /\ UNCHANGED <<policy, clock, deploys>>
    BY DEF AskContents, Asking
  <1>2. CASE \E answer \in SUBSET Urls : Stores(c, OnPolicy(answer), {})
    <2>1. PICK answer \in SUBSET Urls : Stores(c, OnPolicy(answer), {})
      BY <1>2
    <2>2. OnPolicy(answer) \in SUBSET Urls
      BY DEF OnPolicy
    <2>3. \E pages \in SUBSET Urls : Stores(c, pages, {})
      BY <2>1, <2>2
    <2> QED  BY <1>1, <2>3, AskStep DEF Inner
  <1>3. CASE ~(\E answer \in SUBSET Urls : Stores(c, OnPolicy(answer), {}))
    <2>1. /\ faults' \in 0 .. MaxFaults /\ Returns(c, {}, {}) /\ holder' = Free(c, KeyOf(c))
          /\ cache' = [cache EXCEPT ![KeyOf(c)] = [pages |-> {}, routes |-> {},
                                                   expires |-> clock + TTL]]
      BY <1>3, EnrichmentFaulted DEF AskContents, Outage
    <2>2. AtInner(call[c]) /\ call[c].stage # "outcome"
      BY <1>1 DEF AtInner, Inner
    <2> QED  BY <1>1, <2>1, <2>2, StoresStands
  <1> QED  BY <1>2, <1>3

LEMMA AskLegacyStep ==
    ASSUME EnrichmentInvariant, NEW c \in Callers, AskLegacy(c) PROVE EnrichmentInvariant'
  <1>1. /\ call[c] \in Calls /\ call[c].stage = "legacy"
        /\ UNCHANGED <<policy, cache, clock, deploys>>
    BY DEF AskLegacy, Asking, EnrichmentInvariant
  <1>2. CASE Outage /\ Raised(c)
    BY <1>1, <1>2, EnrichmentFaulted, CallRaises DEF Outage
  <1>3. CASE ~(Outage /\ Raised(c))
    <2>1. PICK answer \in Discovered :
              /\ Onto(c, AfterLegacy(call[c].found \cup OnPolicy(answer)),
                      call[c].found \cup OnPolicy(answer), {}, {})
              /\ UNCHANGED <<holder, faults>>
      BY <1>3 DEF AskLegacy
    <2>2. PICK found \in SUBSET Urls : found = call[c].found \cup OnPolicy(answer)
      BY <1>1 DEF Calls, Discovered, OnPolicy
    <2>3. PICK next : next = AfterLegacy(found)
      OBVIOUS
    <2>4. PICK to : to = [stage |-> next.stage, at |-> next.at, found |-> found, docs |-> {},
                          routes |-> {}]
      OBVIOUS
    <2>5. After("search", to)
      BY <2>3, <2>4, WherePagesLead
    <2>6. to \in Calls /\ Enriches(to) /\ ~AtInner(to) /\ Inside(to)
      BY <2>5 DEF After, Inside, Inner
    <2>7. ~AtInner(call[c]) /\ Inside(call[c])
      BY <1>1 DEF AtInner, Inside, Inner
    <2>8. call' = [call EXCEPT ![c] = to]
      BY <2>1, <2>2, <2>3, <2>4 DEF Onto
    <2>9. cache' \in [Keys -> Rows] /\ (\A k \in Keys : Hit(k)' => Hit(k)) /\ faults' \in 0 .. MaxFaults
      BY <1>1, <2>1, CacheKept DEF EnrichmentInvariant, EnrichmentTypes
    <2> QED  BY <1>1, <2>1, <2>6, <2>7, <2>8, <2>9, CallerGoesOn
  <1> QED  BY <1>2, <1>3

LEMMA AskHttpStep ==
    ASSUME EnrichmentInvariant, NEW c \in Callers, AskHttp(c) PROVE EnrichmentInvariant'
  <1>1. /\ call[c] \in Calls /\ call[c].stage = "http" /\ call[c].at = "ask"
        /\ UNCHANGED <<policy, cache, clock, deploys, faults>>
    BY DEF AskHttp, Asking, EnrichmentInvariant
  <1>2. PICK docs \in SUBSET Urls :
            \/ /\ docs = {} /\ holder' = Free(c, OutcomeKey)
               /\ Onto(c, [stage |-> "done", at |-> None], {}, {}, Baseline)
            \/ /\ Onto(c, [stage |-> "extract", at |-> "ask"], call[c].found, docs, {})
               /\ UNCHANGED holder
    <2>1. policy \subseteq Urls
      BY EnrichmentBounds DEF EnrichmentInvariant, EnrichmentTypes
    <2>2. PICK fetched \in SUBSET policy :
              LET docs == call[c].docs \cup fetched
              IN \/ /\ docs = {} /\ holder' = Free(c, OutcomeKey)
                    /\ Onto(c, [stage |-> "done", at |-> None], {}, {}, Baseline)
                 \/ /\ Onto(c, [stage |-> "extract", at |-> "ask"], call[c].found, docs, {})
                    /\ UNCHANGED holder
      BY DEF AskHttp, Fetchable, OutcomeKey
    <2>3. (call[c].docs \cup fetched) \in SUBSET Urls
      BY <1>1, <2>1 DEF Calls
    <2> QED  BY <2>2, <2>3
  <1>3. cache' \in [Keys -> Rows] /\ (\A k \in Keys : Hit(k)' => Hit(k)) /\ faults' \in 0 .. MaxFaults
    BY <1>1, CacheKept DEF EnrichmentInvariant, EnrichmentTypes
  <1>4. ~AtInner(call[c]) /\ Inside(call[c])
    BY <1>1 DEF AtInner, Inside, Inner
  <1>5. CASE /\ Onto(c, [stage |-> "extract", at |-> "ask"], call[c].found, docs, {})
             /\ UNCHANGED holder
    <2>1. PICK to : to = [stage |-> "extract", at |-> "ask", found |-> call[c].found, docs |-> docs,
                          routes |-> {}]
      OBVIOUS
    <2>2. to \in Calls
      BY <1>1, <2>1 DEF Calls, Stages
    <2>3. to.stage = "extract" /\ to.at = "ask"
      BY <2>1
    <2>4. Enriches(to) /\ ~AtInner(to) /\ Inside(to)
      BY <2>3 DEF Enriches, AtInner, Inside, Inner
    <2>5. call' = [call EXCEPT ![c] = to]
      BY <1>5, <2>1 DEF Onto
    <2> QED  BY <1>1, <1>3, <1>4, <1>5, <2>2, <2>4, <2>5, CallerGoesOn
  <1>6. CASE /\ docs = {} /\ holder' = Free(c, OutcomeKey)
             /\ Onto(c, [stage |-> "done", at |-> None], {}, {}, Baseline)
    <2>1. PICK to : to = [stage |-> "done", at |-> None, found |-> {}, docs |-> {}, routes |-> Baseline]
      OBVIOUS
    <2>2. to \in Calls
      BY <2>1, EnrichmentBounds DEF Calls, Stages
    <2>3. to.stage = "done" /\ to.at = None /\ to.routes = Baseline
      BY <2>1
    <2>4. Enriches(to) /\ \A k \in Keys : ~Holds(to, k)
      BY <2>3 DEF Enriches, Grounded, Holds, Inside, AtInner, Inner, None
    <2>5. call' = [call EXCEPT ![c] = to]
      BY <1>6, <2>1 DEF Onto
    <2>6. holder[OutcomeKey] = c /\ \A k \in Keys : holder[k] = c => k = OutcomeKey
      BY <1>4, EnrichmentBounds DEF EnrichmentInvariant, Holds
    <2>7. holder' = [holder EXCEPT ![OutcomeKey] = None]
      BY <1>6, <2>6 DEF Free
    <2>8. /\ holder' \in [Keys -> Callers \cup {None}] /\ holder'[OutcomeKey] = None
          /\ \A k \in Keys \ {OutcomeKey} : holder'[k] = holder[k]
      BY <2>7, EnrichmentBounds DEF EnrichmentInvariant, EnrichmentTypes
    <2>9. EnrichmentTypes'
      BY <1>1, <1>3, <2>8 DEF EnrichmentInvariant, EnrichmentTypes
    <2>10. \A k \in Keys : holder'[k] = c <=> Holds(to, k)
      BY <2>4, <2>6, <2>8, EnrichmentBounds
    <2>11. \A k \in Keys : holder'[k] # holder[k] => holder[k] \in {c, None} /\ holder'[k] \in {c, None}
      BY <2>6, <2>8
    <2> QED  BY <1>1, <1>3, <2>2, <2>3, <2>4, <2>5, <2>9, <2>10, <2>11, CallerMoves DEF None
  <1> QED  BY <1>2, <1>5, <1>6

\* What extraction keeps, and what discovery adds to it, is grounded.
LEMMA MergedIsGrounded ==
    ASSUME EnrichmentInvariant, NEW found \in SUBSET Urls, NEW docs \in SUBSET Urls,
           NEW kept \in {Retained(e, docs) : e \in SUBSET Urls} \cup {Baseline}
    PROVE  /\ Merged(kept, found, docs) \in SUBSET Urls
           /\ \A r \in Merged(kept, found, docs) : Grounded(r, docs)
  BY EnrichmentBounds DEF Merged, Retained, Grounded, OnPolicy

LEMMA AskExtractorStep ==
    ASSUME EnrichmentInvariant, NEW c \in Callers, AskExtractor(c) PROVE EnrichmentInvariant'
  <1>1. /\ call[c] \in Calls /\ call[c].stage = "extract"
        /\ UNCHANGED <<policy, cache, clock, deploys>>
    BY DEF AskExtractor, Asking, EnrichmentInvariant
  <1>2. CASE Outage /\ Raised(c)
    BY <1>1, <1>2, EnrichmentFaulted, CallRaises DEF Outage
  <1>3. CASE ~(Outage /\ Raised(c))
    <2>1. PICK kept \in {Retained(e, call[c].docs) : e \in SUBSET Urls} \cup {Baseline} :
              /\ Onto(c, [stage |-> "outcome", at |-> "put"], call[c].found, call[c].docs,
                      Merged(kept, call[c].found, call[c].docs))
              /\ UNCHANGED <<holder, faults>>
      BY <1>3 DEF AskExtractor
    <2>2. call[c].found \in SUBSET Urls /\ call[c].docs \in SUBSET Urls
      BY <1>1 DEF Calls
    <2>3. PICK routes : routes = Merged(kept, call[c].found, call[c].docs)
      OBVIOUS
    <2>4. routes \in SUBSET Urls /\ \A r \in routes : Grounded(r, call[c].docs)
      BY <2>2, <2>3, MergedIsGrounded
    <2>5. PICK to : to = [stage |-> "outcome", at |-> "put", found |-> call[c].found,
                          docs |-> call[c].docs, routes |-> routes]
      OBVIOUS
    <2>6. to \in Calls
      BY <2>2, <2>4, <2>5 DEF Calls, Stages
    <2>7. /\ to.stage = "outcome" /\ to.at = "put" /\ to.routes = routes
          /\ to.docs = call[c].docs
      BY <2>5
    <2>8. Enriches(to) /\ ~AtInner(to) /\ Inside(to)
      BY <2>4, <2>7 DEF Enriches, AtInner, Inside, Inner
    <2>9. ~AtInner(call[c]) /\ Inside(call[c])
      BY <1>1 DEF AtInner, Inside, Inner
    <2>10. call' = [call EXCEPT ![c] = to]
      BY <2>1, <2>3, <2>5 DEF Onto
    <2>11. cache' \in [Keys -> Rows] /\ (\A k \in Keys : Hit(k)' => Hit(k)) /\ faults' \in 0 .. MaxFaults
      BY <1>1, <2>1, CacheKept DEF EnrichmentInvariant, EnrichmentTypes
    <2> QED  BY <1>1, <2>1, <2>6, <2>8, <2>9, <2>10, <2>11, CallerGoesOn
  <1> QED  BY <1>2, <1>3

LEMMA StoreOutcomeStep ==
    ASSUME EnrichmentInvariant, NEW c \in Callers, StoreOutcome(c) PROVE EnrichmentInvariant'
  <1>1. /\ call[c] \in Calls /\ Enriches(call[c])
        /\ call[c].stage = "outcome" /\ call[c].at = "put"
    BY DEF StoreOutcome, EnrichmentInvariant
  <1>2. PICK pages \in SUBSET Urls, routes \in SUBSET Urls : pages = call[c].docs /\ routes = call[c].routes
    BY <1>1 DEF Calls
  <1>3. \A r \in routes : Grounded(r, pages)
    BY <1>1, <1>2 DEF Enriches
  <1>4. Stores(c, pages, routes) /\ UNCHANGED <<policy, clock, deploys>>
    BY <1>2 DEF StoreOutcome
  <1>5. faults' \in 0 .. MaxFaults
    BY <1>4, EnrichmentFaulted DEF Stores, EnrichmentInvariant, EnrichmentTypes
  <1>6. Returns(c, pages, routes) /\ holder' = Free(c, KeyOf(c))
    BY <1>4 DEF Stores
  <1>7. \/ cache' = [cache EXCEPT ![KeyOf(c)] = [pages |-> pages, routes |-> routes,
                                                 expires |-> clock + TTL]]
        \/ UNCHANGED cache
    BY <1>4 DEF Stores
  <1> QED  BY <1>1, <1>3, <1>4, <1>5, <1>6, <1>7, StoresStands

\* Time only takes answers away.
LEMMA EnrichmentTickStep ==
    ASSUME EnrichmentInvariant, Tick PROVE EnrichmentInvariant'
  <1>1. EnrichmentTypes'
    BY EnrichmentBounds DEF Tick, EnrichmentInvariant, EnrichmentTypes
  <1>2. \A k \in Keys : Hit(k)' => Hit(k)
    <2>1. ASSUME NEW k \in Keys, Live(cache[k])' PROVE Live(cache[k])
      <3>1. cache[k].expires \in Nat /\ clock \in Nat
        BY EnrichmentBounds DEF EnrichmentInvariant, EnrichmentTypes, Rows
      <3> QED  BY <2>1, <3>1 DEF Tick, Live
    <2> QED  BY <2>1 DEF Tick, Hit, Readable, OnPolicy, Grounded
  <1>3. \A c \in Callers : Enriches(call[c])'
    BY DEF Tick, EnrichmentInvariant, Enriches, Grounded, CandidateUrls, OnPolicy
  <1>4. \A c \in Callers : \A k \in Keys : (holder[k] = c <=> Holds(call[c], k))'
    BY DEF Tick, EnrichmentInvariant, Holds, Inside, AtInner, KeyAt, CandidateUrls, OnPolicy
  <1>5. ASSUME NEW c \in Callers, call[c].at = "ask", call[c].stage \in Inner
        PROVE  ~Hit(KeyAt(call[c]))'
    <2>1. PICK key : key = KeyAt(call[c])
      OBVIOUS
    <2>2. key \in Keys /\ ~Hit(key)
      BY <1>5, <2>1, KeysAreKeys DEF EnrichmentInvariant
    <2>3. KeyAt(call[c])' = key
      BY <2>1 DEF Tick, KeyAt, CandidateUrls, OnPolicy
    <2> QED  BY <1>2, <2>2, <2>3 DEF Hit
  <1> QED  BY <1>1, <1>3, <1>4, <1>5 DEF Tick, EnrichmentInvariant

LEMMA RedeployStep ==
    ASSUME EnrichmentInvariant, Redeploy PROVE EnrichmentInvariant'
  <1>1. EnrichmentTypes'
    BY EnrichmentBounds DEF Redeploy, EnrichmentInvariant, EnrichmentTypes
  <1>2. call' \in [Callers -> Calls] /\ \A c \in Callers : call'[c] = Idle
    BY EnrichmentBounds DEF Redeploy
  <1>3. \A c \in Callers : Enriches(call[c])'
    BY <1>2 DEF Enriches, Idle, None, Inner
  <1>4. \A c \in Callers : \A k \in Keys : (holder[k] = c <=> Holds(call[c], k))'
    BY <1>2, EnrichmentBounds DEF Redeploy, Holds, Inside, AtInner, Inner, Idle
  <1> QED  BY <1>1, <1>2, <1>3, <1>4 DEF EnrichmentInvariant, Idle, Inner

LEMMA EnrichmentSteps ==
    ASSUME EnrichmentInvariant, EnrichmentNext PROVE EnrichmentInvariant'
  BY BeginEnrichStep, LookStep, ReadFailsStep, LockForStep, LookAgainStep, AskSearchStep,
     AskLegacyStep, AskResearchStep, AskContentsStep, AskHttpStep, AskExtractorStep,
     StoreOutcomeStep, EnrichmentTickStep, RedeployStep
     DEF EnrichmentNext, EnrichStep

LEMMA EnrichmentSafe ==
    ASSUME EnrichmentInvariant
    PROVE  EnrichmentTypeOK /\ PaidOnce /\ LocksAreReleased /\ ServedRoutesAreTrusted
  <1>1. EnrichmentTypeOK
    BY DEF EnrichmentInvariant, EnrichmentTypes, EnrichmentTypeOK, Calls
  <1>2. \A c \in Callers : KeyOf(c) = KeyAt(call[c])
    BY DEF KeyOf, KeyAt
  <1>3. PaidOnce
    BY <1>2 DEF EnrichmentInvariant, PaidOnce, Inner
  <1>4. LocksAreReleased
    <2>1. ASSUME NEW k \in Keys, holder[k] # None
          PROVE  LET c == call[holder[k]]
                 IN IF k[1] = "outcome"
                    THEN /\ c.stage \notin {"idle", "done"}
                         /\ c.stage = "outcome" => c.at \in {"again", "put"}
                    ELSE KeyOf(holder[k]) = k /\ c.at \in {"again", "ask"}
      <3>1. PICK c \in Callers : holder[k] = c
        BY <2>1 DEF EnrichmentInvariant, EnrichmentTypes
      <3>2. Holds(call[c], k) /\ call[c] \in Calls
        BY <3>1 DEF EnrichmentInvariant
      <3>3. k[1] = "outcome" <=> k = OutcomeKey
        BY DEF Keys, OutcomeKey
      <3>4. CASE k = OutcomeKey
        <4>1. Inside(call[c])
          BY <3>2, <3>4 DEF Holds
        <4> QED  BY <3>1, <3>3, <3>4, <4>1 DEF Inside, Inner
      <3>5. CASE k # OutcomeKey
        <4>1. AtInner(call[c]) /\ KeyAt(call[c]) = k
          BY <3>2, <3>5 DEF Holds
        <4> QED  BY <1>2, <3>1, <3>3, <3>5, <4>1 DEF AtInner
      <3> QED  BY <3>4, <3>5
    <2> QED  BY <2>1 DEF LocksAreReleased
  <1>5. ServedRoutesAreTrusted
    BY DEF EnrichmentInvariant, Enriches, ServedRoutesAreTrusted
  <1> QED  BY <1>1, <1>3, <1>4, <1>5

-----------------------------------------------------------------------------
(* ProviderResearch                                                           *)

Claims == UNION {P!Stated(p, p.says \cup Invented) : p \in P!Pages}
Evidence == {[field |-> c.field, value |-> c.value] : c \in Claims}
Bodies == [domain : {c.value.domain : c \in Claims} \cup {"none"}, fields : SUBSET Evidence]

Builders == [pc : {"away", "discover", "extract", "build", "put", "advance"}, run : Runs,
             next : 1 .. (Len(Adapters) + 1), tries : 0 .. (Attempts - 1),
             urls : SUBSET P!WebUrls, docs : SUBSET P!Pages, claims : SUBSET Claims,
             built : Bodies]

\* The texts of the served pages that state a value, and how many it takes.
TextsOf(e) == {p.text : p \in {q \in served : e \in q.says}}
Needed(f) == IF f \in P!AnchorFields THEN 2 ELSE 1

\* A body whose every value is the domain's, and stated by enough of the pages
\* that were served.
Backed(body) ==
    \A e \in body.fields : /\ e.value.domain = body.domain
                           /\ Cardinality(TextsOf(e)) >= Needed(e.field)

\* A walk's documents were served together; its claims are what they state; its
\* profile is backed, and at the boundary it is the one its run is bound to.
Researches(b) ==
    /\ b.docs \subseteq served /\ \E v \in Webs : b.docs \subseteq v
    /\ b.pc = "build" => b.claims \subseteq P!Verified(b.claims, b.docs)
    /\ b.pc \in {"put", "advance"} => b.built # P!None /\ Backed(b.built)
    /\ b.pc = "advance" => bound[b.run] = b.built

ResearchStore ==
    /\ web \in Webs /\ builds \in 0 .. MaxBuilds /\ served \subseteq P!Pages
    /\ profiles \subseteq Bodies /\ P!None \notin profiles
    /\ bound \in [Runs -> profiles \cup {P!None}]
    /\ committed \in [Runs -> SUBSET Bodies]
    /\ \A r \in Runs : committed[r] \subseteq {bound[r]} /\ P!None \notin committed[r]
    /\ \A body \in profiles : Backed(body)

ResearchInvariant ==
    /\ ResearchStore /\ builder \in [Walks -> Builders]
    /\ \A w \in Walks : Researches(builder[w])

LEMMA CountsAgree ==
    ASSUME NEW set PROVE P!Cardinality(set) = Cardinality(set)
  BY DEF P!Cardinality, Cardinality

LEMMA ResearchBounds ==
    /\ Attempts \in Nat \ {0} /\ MaxBuilds \in Nat /\ Len(Adapters) \in Nat
    /\ 0 \in 0 .. (Attempts - 1) /\ 1 \in 1 .. (Len(Adapters) + 1) /\ 0 \in 0 .. MaxBuilds
    /\ \A v \in Webs : v \subseteq P!Pages /\ \A p, q \in v : p.url = q.url => p = q
    /\ IsFiniteSet(P!Pages)
    /\ P!None \in Bodies /\ (CHOOSE r \in Runs : TRUE) \in Runs
    /\ P!Rest \in Builders /\ P!Rest.pc = "away" /\ P!Rest.docs = {}
  <1>1. /\ Attempts \in Nat \ {0} /\ MaxBuilds \in Nat /\ Runs # {}
        /\ Adapters \in Seq({Adapters[i] : i \in DOMAIN Adapters})
        /\ \A v \in Webs : \A p, q \in v : p.url = q.url => p = q
    BY EvidencePartsAssumption DEF EvidencePartsAssumption, P!ResearchAssumption
  <1>2. IsFiniteSet(P!Pages)
    BY EvidencePartsAssumption
       DEF EvidencePartsAssumption, P!ResearchAssumption, P!IsFiniteSet, IsFiniteSet, P!Pages
  <1>3. Len(Adapters) \in Nat
    BY <1>1
  <1>4. 0 \in 0 .. (Attempts - 1) /\ 1 \in 1 .. (Len(Adapters) + 1) /\ 0 \in 0 .. MaxBuilds
    BY <1>1, <1>3
  <1>5. P!None \in Bodies
    BY DEF P!None, Bodies
  <1>6. (CHOOSE r \in Runs : TRUE) \in Runs
    BY <1>1
  <1>7. P!Rest \in Builders
    BY <1>4, <1>5, <1>6 DEF P!Rest, Builders
  <1> QED  BY <1>1, <1>2, <1>3, <1>4, <1>5, <1>6, <1>7 DEF P!Pages, P!Rest

LEMMA ResearchInitially ==
    ASSUME P!ResearchInit PROVE ResearchInvariant
  <1>1. ResearchStore
    BY ResearchBounds DEF P!ResearchInit, ResearchStore
  <1>2. Researches(P!Rest)
    BY <1>1, ResearchBounds DEF Researches, ResearchStore
  <1> QED  BY <1>1, <1>2, ResearchBounds DEF P!ResearchInit, ResearchInvariant

\* The texts of the served pages are finitely many, so a set of them has a size.
LEMMA TextsAreFinite ==
    ASSUME NEW pages \in SUBSET P!Pages
    PROVE  IsFiniteSet({p.text : p \in pages})
  <1> DEFINE texts == {p.text : p \in pages}
             text == [p \in pages |-> p.text]
  <1>1. IsFiniteSet(pages)
    BY ResearchBounds, FS_Subset
  <1>2. text \in [pages -> texts] /\ \A t \in texts : \E p \in pages : text[p] = t
    OBVIOUS
  <1>3. text \in Surjection(pages, texts)
    BY <1>2, Fun_IsSurj
  <1> HIDE DEF text, texts
  <1>4. IsFiniteSet(texts)
    BY <1>1, <1>3, FS_Surjection
  <1> QED  BY <1>4 DEF texts

\* What was backed once stays backed: pages are only added to those served.
LEMMA BackedStays ==
    ASSUME ResearchInvariant, NEW body, Backed(body), served \subseteq served', served' \subseteq P!Pages
    PROVE  Backed(body)'
  <1>1. ASSUME NEW e \in body.fields PROVE Cardinality(TextsOf(e)') >= Needed(e.field)
    <2>1. PICK old : old = TextsOf(e)
      OBVIOUS
    <2>2. PICK new : new = {p.text : p \in {q \in served' : e \in q.says}}
      OBVIOUS
    <2>3. {q \in served' : e \in q.says} \in SUBSET P!Pages
      OBVIOUS
    <2>4. IsFiniteSet(new)
      BY <2>2, <2>3, TextsAreFinite
    <2>5. old \in SUBSET new
      BY <2>1, <2>2 DEF TextsOf
    <2>6. IsFiniteSet(old) /\ Cardinality(old) <= Cardinality(new)
      BY <2>4, <2>5, FS_Subset
    <2>7. Cardinality(old) \in Nat /\ Cardinality(new) \in Nat /\ Cardinality(old) >= Needed(e.field)
      BY <2>1, <2>4, <2>6, FS_CardinalityType DEF Backed
    <2>8. Cardinality(new) >= Needed(e.field)
      BY <2>6, <2>7 DEF Needed
    <2> QED  BY <2>2, <2>8 DEF TextsOf
  <1> QED  BY <1>1 DEF Backed, Needed, TextsOf

\* A step of one walk: its new place stands, and so does what it stored.
LEMMA BuilderMoves ==
    ASSUME ResearchInvariant, NEW w \in Walks, NEW to \in Builders, Researches(to)',
           builder' = [builder EXCEPT ![w] = to], ResearchStore', served \subseteq served',
           \A r \in Runs : bound[r] # P!None => bound'[r] = bound[r]
    PROVE  ResearchInvariant'
  <1>1. /\ builder' \in [Walks -> Builders] /\ builder'[w] = to
        /\ \A v \in Walks \ {w} : builder'[v] = builder[v]
    BY DEF ResearchInvariant
  <1>2. ASSUME NEW v \in Walks \ {w} PROVE Researches(builder[v])'
    <2>1. PICK b \in Builders : b = builder[v] /\ builder'[v] = b /\ Researches(b)
      BY <1>1 DEF ResearchInvariant
    <2>2. b.docs \subseteq served' /\ \E x \in Webs : b.docs \subseteq x
      BY <2>1 DEF Researches
    <2>3. b.pc = "build" => b.claims \subseteq P!Verified(b.claims, b.docs)
      BY <2>1 DEF Researches
    <2>4. b.pc \in {"put", "advance"} => b.built # P!None /\ Backed(b.built)'
      BY <2>1, BackedStays DEF Researches, ResearchStore
    <2>5. b.pc = "advance" => bound'[b.run] = b.built
      BY <2>1 DEF Researches, Builders
    <2>6. Researches(b)'
      BY <2>2, <2>3, <2>4, <2>5 DEF Researches, P!Verified
    <2> QED  BY <2>1, <2>6 DEF Researches, Backed, TextsOf, P!Verified
  <1>3. ASSUME NEW v \in Walks PROVE Researches(builder[v])'
    <2>1. CASE v = w
      BY <1>1, <2>1 DEF Researches, Backed, TextsOf, P!Verified
    <2> QED  BY <2>1, <1>2
  <1> QED  BY <1>1, <1>3 DEF ResearchInvariant

\* The store after a step that wrote none of it, but may have been served pages.
LEMMA ResearchStoreStands ==
    ASSUME ResearchInvariant, UNCHANGED <<profiles, bound, committed>>, web' \in Webs,
           builds' \in 0 .. MaxBuilds, served \subseteq served', served' \subseteq P!Pages
    PROVE  ResearchStore'
  <1>1. \A body \in profiles : Backed(body)'
    BY BackedStays DEF ResearchInvariant, ResearchStore
  <1> QED  BY <1>1 DEF ResearchInvariant, ResearchStore, Backed, TextsOf

LEMMA StoreUntouched ==
    ASSUME ResearchInvariant, UNCHANGED <<web, profiles, bound, committed, served, builds>>
    PROVE  ResearchStore'
  BY ResearchStoreStands DEF ResearchInvariant, ResearchStore

\* A walk that is done with its run for now.
LEMMA WalkRests ==
    ASSUME ResearchInvariant, NEW w \in Walks, P!Goes(w, P!Rest), ResearchStore',
           served \subseteq served', \A r \in Runs : bound[r] # P!None => bound'[r] = bound[r]
    PROVE  ResearchInvariant'
  <1>1. PICK to : to = P!Rest
    OBVIOUS
  <1>2. to \in Builders /\ to.pc = "away" /\ to.docs = {}
    BY <1>1, ResearchBounds
  <1>3. \E v \in Webs : {} \subseteq v
    BY DEF ResearchInvariant, ResearchStore
  <1>4. Researches(to)'
    BY <1>2, <1>3 DEF Researches
  <1>5. builder' = [builder EXCEPT ![w] = to]
    BY <1>1 DEF P!Goes
  <1> QED  BY <1>2, <1>4, <1>5, BuilderMoves

LEMMA BeginResearchStep ==
    ASSUME ResearchInvariant, NEW w \in Walks, NEW r \in Runs, P!BeginResearch(w, r)
    PROVE  ResearchInvariant'
  <1>1. UNCHANGED <<web, profiles, bound, committed, served>>
    BY DEF P!BeginResearch
  <1>2. builds' \in 0 .. MaxBuilds
    BY ResearchBounds DEF P!BeginResearch, ResearchInvariant, ResearchStore
  <1>3. ResearchStore'
    BY <1>1, <1>2, ResearchStoreStands DEF ResearchInvariant, ResearchStore
  <1>4. \E v \in Webs : {} \subseteq v
    BY DEF ResearchInvariant, ResearchStore
  <1>5. CASE /\ bound[r] # P!None
             /\ P!Goes(w, [P!Rest EXCEPT !.pc = "advance", !.run = r, !.built = bound[r]])
    <2>1. PICK to : to = [P!Rest EXCEPT !.pc = "advance", !.run = r, !.built = bound[r]]
      OBVIOUS
    <2>2. bound[r] \in Bodies /\ bound[r] \in profiles
      BY <1>5, ResearchBounds DEF ResearchInvariant, ResearchStore
    <2>3. to \in Builders
      BY <2>1, <2>2, ResearchBounds DEF Builders
    <2>4. to.pc = "advance" /\ to.run = r /\ to.built = bound[r] /\ to.docs = {}
      BY <2>1, ResearchBounds DEF P!Rest
    <2>5. Backed(bound[r])
      BY <2>2 DEF ResearchInvariant, ResearchStore
    <2>6. Researches(to)
      BY <1>4, <1>5, <2>4, <2>5 DEF Researches
    <2>7. Researches(to)'
      BY <1>1, <2>6 DEF Researches, Backed, TextsOf, P!Verified
    <2>8. builder' = [builder EXCEPT ![w] = to]
      BY <1>5, <2>1 DEF P!Goes
    <2> QED  BY <1>1, <1>3, <2>3, <2>7, <2>8, BuilderMoves
  <1>6. CASE P!Goes(w, [P!Rest EXCEPT !.pc = "discover", !.run = r])
    <2>1. PICK to : to = [P!Rest EXCEPT !.pc = "discover", !.run = r]
      OBVIOUS
    <2>2. to \in Builders
      BY <2>1, ResearchBounds DEF Builders
    <2>3. to.pc = "discover" /\ to.docs = {}
      BY <2>1, ResearchBounds DEF P!Rest
    <2>4. Researches(to)'
      BY <1>4, <2>3 DEF Researches
    <2>5. builder' = [builder EXCEPT ![w] = to]
      BY <1>6, <2>1 DEF P!Goes
    <2> QED  BY <1>1, <1>3, <2>2, <2>4, <2>5, BuilderMoves
  <1> QED  BY <1>5, <1>6 DEF P!BeginResearch

\* A step within discovery changes only the walk's tries, place and pages found.
LEMMA DiscoveryGoesOn ==
    ASSUME ResearchInvariant, NEW w \in Walks, builder[w].pc = "discover", NEW to \in Builders,
           to.pc = "discover", to.docs = builder[w].docs,
           builder' = [builder EXCEPT ![w] = to],
           UNCHANGED <<web, profiles, bound, committed, served, builds>>
    PROVE  ResearchInvariant'
  <1>1. Researches(builder[w]) /\ ResearchStore'
    BY StoreUntouched DEF ResearchInvariant
  <1>2. Researches(to)'
    BY <1>1 DEF Researches
  <1> QED  BY <1>1, <1>2, BuilderMoves

LEMMA AdapterFailsStep ==
    ASSUME ResearchInvariant, NEW w \in Walks, P!AdapterFails(w) PROVE ResearchInvariant'
  <1>1. /\ builder[w] \in Builders /\ builder[w].pc = "discover"
        /\ builder[w].next <= Len(Adapters)
        /\ UNCHANGED <<web, profiles, bound, committed, served, builds>>
    BY DEF P!AdapterFails, ResearchInvariant
  <1>2. builder[w].tries \in 0 .. (Attempts - 1) /\ builder[w].next \in 1 .. (Len(Adapters) + 1)
    BY <1>1 DEF Builders
  <1>3. CASE builder[w].tries + 1 < Attempts
    <2>1. PICK to : to = [builder[w] EXCEPT !.tries = builder[w].tries + 1]
      OBVIOUS
    <2>2. builder[w].tries + 1 \in 0 .. (Attempts - 1)
      BY <1>2, <1>3, ResearchBounds
    <2>3. to \in Builders /\ to.pc = "discover" /\ to.docs = builder[w].docs
      BY <1>1, <2>1, <2>2 DEF Builders
    <2>4. builder' = [builder EXCEPT ![w] = to]
      BY <1>3, <2>1 DEF P!AdapterFails, P!Goes
    <2> QED  BY <1>1, <2>3, <2>4, DiscoveryGoesOn
  <1>4. CASE ~(builder[w].tries + 1 < Attempts)
    <2>1. PICK to : to = [builder[w] EXCEPT !.tries = 0, !.next = builder[w].next + 1]
      OBVIOUS
    <2>2. builder[w].next + 1 \in 1 .. (Len(Adapters) + 1)
      BY <1>1, <1>2, ResearchBounds
    <2>3. to \in Builders /\ to.pc = "discover" /\ to.docs = builder[w].docs
      BY <1>1, <2>1, <2>2, ResearchBounds DEF Builders
    <2>4. builder' = [builder EXCEPT ![w] = to]
      BY <1>4, <2>1 DEF P!AdapterFails, P!Goes
    <2> QED  BY <1>1, <2>3, <2>4, DiscoveryGoesOn
  <1> QED  BY <1>3, <1>4

LEMMA AdapterAnswersStep ==
    ASSUME ResearchInvariant, NEW w \in Walks, P!AdapterAnswers(w) PROVE ResearchInvariant'
  <1>1. /\ builder[w] \in Builders /\ builder[w].pc = "discover"
        /\ builder[w].next <= Len(Adapters) /\ web \in Webs
        /\ UNCHANGED <<web, profiles, bound, committed, served, builds>>
    BY DEF P!AdapterAnswers, ResearchInvariant, ResearchStore
  <1>2. PICK found \in {{p.url : p \in {q \in web : q.by = Adapters[builder[w].next]}}, {}} :
            P!Goes(w, [builder[w] EXCEPT !.tries = 0, !.next = @ + 1, !.urls = @ \cup found])
    BY DEF P!AdapterAnswers
  <1>3. found \in SUBSET P!WebUrls
    BY <1>1, <1>2 DEF P!WebUrls
  <1>4. PICK to : to = [builder[w] EXCEPT !.tries = 0, !.next = builder[w].next + 1,
                                          !.urls = builder[w].urls \cup found]
    OBVIOUS
  <1>5. builder[w].next + 1 \in 1 .. (Len(Adapters) + 1) /\ builder[w].urls \cup found \in SUBSET P!WebUrls
    BY <1>1, <1>3, ResearchBounds DEF Builders
  <1>6. to \in Builders /\ to.pc = "discover" /\ to.docs = builder[w].docs
    BY <1>1, <1>4, <1>5, ResearchBounds DEF Builders
  <1>7. builder' = [builder EXCEPT ![w] = to]
    BY <1>2, <1>4 DEF P!Goes
  <1> QED  BY <1>1, <1>6, <1>7, DiscoveryGoesOn

LEMMA FetchManyStep ==
    ASSUME ResearchInvariant, NEW w \in Walks, P!FetchMany(w) PROVE ResearchInvariant'
  <1>1. /\ builder[w] \in Builders /\ builder[w].pc = "discover" /\ web \in Webs
        /\ UNCHANGED <<web, profiles, bound, committed, builds>>
    BY DEF P!FetchMany, ResearchInvariant, ResearchStore
  <1>2. PICK docs \in SUBSET web :
            /\ served' = served \cup docs
            /\ IF docs = {} THEN P!ResearchRetry(w)
               ELSE P!Goes(w, [builder[w] EXCEPT !.pc = "extract", !.docs = docs])
    BY DEF P!FetchMany
  <1>3. docs \in SUBSET P!Pages
    BY <1>1, <1>2, ResearchBounds
  <1>4. served \subseteq served' /\ docs \subseteq served' /\ served' \subseteq P!Pages
    BY <1>2, <1>3 DEF ResearchInvariant, ResearchStore
  <1>5. ResearchStore'
    BY <1>1, <1>4, ResearchStoreStands DEF ResearchInvariant, ResearchStore
  <1>6. CASE docs = {}
    BY <1>1, <1>2, <1>4, <1>5, <1>6, WalkRests DEF P!ResearchRetry
  <1>7. CASE docs # {}
    <2>1. PICK to : to = [builder[w] EXCEPT !.pc = "extract", !.docs = docs]
      OBVIOUS
    <2>2. to \in Builders /\ to.pc = "extract" /\ to.docs = docs
      BY <1>1, <1>3, <2>1 DEF Builders
    <2>3. Researches(to)'
      BY <1>1, <1>4, <2>2 DEF Researches
    <2>4. builder' = [builder EXCEPT ![w] = to]
      BY <1>2, <1>7, <2>1 DEF P!Goes
    <2> QED  BY <1>1, <1>4, <1>5, <2>2, <2>3, <2>4, BuilderMoves
  <1> QED  BY <1>6, <1>7

LEMMA ExtractStep ==
    ASSUME ResearchInvariant, NEW w \in Walks, P!Extract(w) PROVE ResearchInvariant'
  <1>1. /\ builder[w] \in Builders /\ Researches(builder[w]) /\ builder[w].pc = "extract"
        /\ UNCHANGED <<web, profiles, bound, committed, served, builds>>
    BY DEF P!Extract, ResearchInvariant
  <1>2. PICK heard \in SUBSET builder[w].docs, made \in SUBSET Invented :
            LET all == UNION {P!Stated(p, p.says \cup made) : p \in heard}
            IN  P!Goes(w, [builder[w] EXCEPT !.pc = "build",
                                             !.claims = P!Verified(all, builder[w].docs)])
    BY DEF P!Extract
  <1>3. PICK all : all = UNION {P!Stated(p, p.says \cup made) : p \in heard}
    OBVIOUS
  <1>4. heard \subseteq P!Pages
    BY <1>1, <1>2 DEF Builders
  <1>5. all \subseteq Claims
    <2>1. ASSUME NEW p \in heard PROVE P!Stated(p, p.says \cup made) \subseteq P!Stated(p, p.says \cup Invented)
      BY <1>2 DEF P!Stated
    <2> QED  BY <1>3, <1>4, <2>1 DEF Claims
  <1>6. PICK claims : claims = P!Verified(all, builder[w].docs)
    OBVIOUS
  <1>7. claims \in SUBSET Claims /\ claims \subseteq P!Verified(claims, builder[w].docs)
    BY <1>5, <1>6 DEF P!Verified
  <1>8. PICK to : to = [builder[w] EXCEPT !.pc = "build", !.claims = claims]
    OBVIOUS
  <1>9. /\ to \in Builders /\ to.pc = "build" /\ to.docs = builder[w].docs
        /\ to.claims = claims
    BY <1>1, <1>7, <1>8 DEF Builders
  <1>10. Researches(to)'
    BY <1>1, <1>7, <1>9 DEF Researches, P!Verified
  <1>11. builder' = [builder EXCEPT ![w] = to]
    BY <1>2, <1>3, <1>6, <1>8 DEF P!Goes
  <1>12. ResearchStore'
    BY <1>1, StoreUntouched
  <1> QED  BY <1>1, <1>9, <1>10, <1>11, <1>12, BuilderMoves

\* A text cited by a claim is the text of the one served page that states it.
LEMMA CitedIsServed ==
    ASSUME ResearchInvariant, NEW docs, docs \subseteq served, NEW v \in Webs, docs \subseteq v,
           NEW c, c \in P!Verified({c}, docs)
    PROVE  P!TextOf(docs, c.cites) \in TextsOf([field |-> c.field, value |-> c.value])
  <1>1. PICK p \in docs : p.url = c.cites /\ [field |-> c.field, value |-> c.value] \in p.says
    BY DEF P!Verified
  <1>2. \A q \in docs : q.url = c.cites => q = p
    BY <1>1, ResearchBounds
  <1>3. (CHOOSE q \in docs : q.url = c.cites) = p
    BY <1>1, <1>2
  <1> QED  BY <1>1, <1>3 DEF P!TextOf, TextsOf

\* What enough of the walk's documents support, enough of the served pages state.
LEMMA SupportIsServed ==
    ASSUME ResearchInvariant, NEW docs, docs \subseteq served, NEW v \in Webs, docs \subseteq v,
           NEW claims, claims \subseteq P!Verified(claims, docs), NEW d,
           NEW e \in P!Corroborated(P!Admitted(claims, d), docs)
    PROVE  e.value.domain = d /\ Cardinality(TextsOf(e)) >= Needed(e.field)
  <1> DEFINE admitted == P!Admitted(claims, d)
             support == P!Support(admitted, docs, e.field, e.value)
             texts == TextsOf(e)
  <1>1. /\ \E c \in admitted : e = [field |-> c.field, value |-> c.value]
        /\ Cardinality(support) >= Needed(e.field)
    BY CountsAgree DEF P!Corroborated, Needed, P!MinCorroborations
  <1>2. \A c \in admitted : c \in claims /\ c.value.domain = d
    BY DEF P!Admitted
  <1>3. support \subseteq texts
    <2>1. ASSUME NEW c \in admitted, c.field = e.field, c.value = e.value
          PROVE  P!TextOf(docs, c.cites) \in texts
      <3>1. c \in P!Verified({c}, docs)
        BY <1>2 DEF P!Verified
      <3>2. e = [field |-> c.field, value |-> c.value]
        BY <1>1, <2>1
      <3> QED  BY <3>1, <3>2, CitedIsServed
    <2> QED  BY <2>1 DEF P!Support
  <1>4. {q \in served : e \in q.says} \in SUBSET P!Pages
    BY DEF ResearchInvariant, ResearchStore
  <1>5. IsFiniteSet(texts)
    BY <1>4, TextsAreFinite DEF TextsOf
  <1> HIDE DEF texts, support, admitted
  <1>6. support \in SUBSET texts
    BY <1>3
  <1>7. IsFiniteSet(support) /\ Cardinality(support) <= Cardinality(texts)
    BY <1>5, <1>6, FS_Subset
  <1>8. Cardinality(support) \in Nat /\ Cardinality(texts) \in Nat
    BY <1>5, <1>7, FS_CardinalityType
  <1>9. Cardinality(texts) >= Needed(e.field)
    BY <1>1, <1>7, <1>8 DEF Needed
  <1>10. e.value.domain = d
    BY <1>1, <1>2
  <1> QED  BY <1>9, <1>10 DEF texts

LEMMA BuildProfileStep ==
    ASSUME ResearchInvariant, NEW w \in Walks, P!BuildProfile(w) PROVE ResearchInvariant'
  <1>1. /\ builder[w] \in Builders /\ Researches(builder[w]) /\ builder[w].pc = "build"
        /\ UNCHANGED <<web, profiles, bound, committed, served, builds>>
    BY DEF P!BuildProfile, ResearchInvariant
  <1>2. ResearchStore'
    BY <1>1, StoreUntouched
  <1>3. CASE P!Goes(w, P!Rest)
    BY <1>1, <1>2, <1>3, WalkRests
  <1>4. CASE ~P!Goes(w, P!Rest)
    <2>1. PICK claims \in SUBSET Claims, docs \in SUBSET P!Pages :
              claims = builder[w].claims /\ docs = builder[w].docs
      BY <1>1 DEF Builders
    <2>2. /\ docs \subseteq served /\ claims \subseteq P!Verified(claims, docs)
          /\ \E v \in Webs : docs \subseteq v
      BY <1>1, <2>1 DEF Researches
    <2>3. P!Cardinality(P!ClaimedDomains(claims)) = 1
      BY <1>4, <2>1 DEF P!BuildProfile, P!ResearchRetry
    <2>4. PICK d : d = CHOOSE x \in P!ClaimedDomains(claims) : TRUE
      OBVIOUS
    <2>5. d \in P!ClaimedDomains(claims)
      <3>1. P!ClaimedDomains(claims) # {}
        <4>1. Cardinality(P!ClaimedDomains(claims)) = 1
          BY <2>3, CountsAgree
        <4> QED  BY <4>1, FS_EmptySet
      <3> QED  BY <2>4, <3>1
    <2>6. PICK chosen \in P!BestPerField(P!Corroborated(P!Admitted(claims, d), docs),
                                         P!Admitted(claims, d), docs) :
              /\ P!RequiredFields(RouteKind[builder[w].run]) \subseteq {e.field : e \in chosen}
              /\ P!Goes(w, [builder[w] EXCEPT !.pc = "put", !.claims = {}, !.urls = {}, !.docs = {},
                                              !.built = [domain |-> d, fields |-> chosen]])
      BY <1>4, <2>1, <2>3, <2>4 DEF P!BuildProfile, P!ResearchRetry
    <2>7. chosen \subseteq P!Corroborated(P!Admitted(claims, d), docs)
      BY <2>6 DEF P!BestPerField
    <2>8. chosen # {}
      BY <2>6 DEF P!RequiredFields
    <2>9. PICK body : body = [domain |-> d, fields |-> chosen]
      OBVIOUS
    <2>10. body.fields = chosen /\ body.domain = d /\ body # P!None
      BY <2>8, <2>9 DEF P!None
    <2>11. body \in Bodies
      <3>1. d \in {c.value.domain : c \in Claims}
        BY <2>1, <2>5 DEF P!ClaimedDomains
      <3>2. chosen \subseteq Evidence
        BY <2>1, <2>7 DEF P!Corroborated, P!Admitted, Evidence
      <3> QED  BY <2>9, <3>1, <3>2 DEF Bodies
    <2>12. Backed(body)
      <3>1. PICK v \in Webs : docs \subseteq v
        BY <2>2
      <3>2. \A e \in chosen : e.value.domain = d /\ Cardinality(TextsOf(e)) >= Needed(e.field)
        BY <2>2, <2>7, <3>1, SupportIsServed
      <3> QED  BY <2>10, <3>2 DEF Backed
    <2>13. PICK to : to = [builder[w] EXCEPT !.pc = "put", !.claims = {}, !.urls = {}, !.docs = {},
                                             !.built = body]
      OBVIOUS
    <2>14. to \in Builders
      BY <1>1, <2>11, <2>13 DEF Builders
    <2>15. to.pc = "put" /\ to.docs = {} /\ to.built = body
      BY <1>1, <2>13 DEF Builders
    <2>16. Researches(to)
      BY <2>2, <2>10, <2>12, <2>15 DEF Researches
    <2>17. Researches(to)'
      BY <1>1, <2>15, <2>16 DEF Researches, Backed, TextsOf
    <2>18. builder' = [builder EXCEPT ![w] = to]
      BY <2>6, <2>9, <2>13 DEF P!Goes
    <2> QED  BY <1>1, <1>2, <2>14, <2>17, <2>18, BuilderMoves
  <1> QED  BY <1>3, <1>4

LEMMA PutStep ==
    ASSUME ResearchInvariant, NEW w \in Walks, P!Put(w) PROVE ResearchInvariant'
  <1>1. /\ builder[w] \in Builders /\ Researches(builder[w]) /\ builder[w].pc = "put"
        /\ UNCHANGED <<web, committed, served, builds>>
    BY DEF P!Put, ResearchInvariant
  <1>2. PICK r \in Runs, body \in Bodies : r = builder[w].run /\ body = builder[w].built
    BY <1>1 DEF Builders
  <1>3. body # P!None /\ Backed(body)
    BY <1>1, <1>2 DEF Researches
  <1>4. CASE ~P!Bindable(r, body)
    <2>1. P!Goes(w, P!Rest) /\ UNCHANGED <<profiles, bound>>
      BY <1>2, <1>4 DEF P!Put, P!ResearchRetry
    <2> QED  BY <1>1, <2>1, StoreUntouched, WalkRests
  <1>5. CASE P!Bindable(r, body)
    <2>1. /\ profiles' = profiles \cup {body} /\ bound' = [bound EXCEPT ![r] = body]
          /\ P!Goes(w, [builder[w] EXCEPT !.pc = "advance"])
      BY <1>2, <1>5 DEF P!Put
    <2>2. bound[r] \in {P!None, body}
      BY <1>5 DEF P!Bindable
    <2>3. /\ bound' \in [Runs -> profiles' \cup {P!None}] /\ bound'[r] = body
          /\ \A q \in Runs \ {r} : bound'[q] = bound[q]
      BY <2>1 DEF ResearchInvariant, ResearchStore
    <2>4. \A q \in Runs : committed[q] \subseteq {bound[q]} /\ P!None \notin committed[q]
      BY DEF ResearchInvariant, ResearchStore
    <2>5. \A q \in Runs : committed[q] \subseteq {bound'[q]}
      BY <2>2, <2>3, <2>4
    <2>6. \A b \in profiles' : Backed(b)
      BY <1>3, <2>1 DEF ResearchInvariant, ResearchStore
    <2>7. ResearchStore'
      BY <1>1, <1>3, <2>1, <2>3, <2>4, <2>5, <2>6
         DEF ResearchInvariant, ResearchStore, Backed, TextsOf
    <2>8. PICK to : to = [builder[w] EXCEPT !.pc = "advance"]
      OBVIOUS
    <2>9. /\ to \in Builders /\ to.pc = "advance" /\ to.built = body /\ to.run = r
          /\ to.docs = builder[w].docs
      BY <1>1, <1>2, <2>8 DEF Builders
    <2>10. Researches(to)'
      BY <1>1, <1>3, <2>3, <2>9 DEF Researches, Backed, TextsOf
    <2>11. builder' = [builder EXCEPT ![w] = to]
      BY <2>1, <2>8 DEF P!Goes
    <2>12. \A q \in Runs : bound[q] # P!None => bound'[q] = bound[q]
      BY <2>2, <2>3
    <2> QED  BY <1>1, <2>7, <2>9, <2>10, <2>11, <2>12, BuilderMoves
  <1> QED  BY <1>4, <1>5

LEMMA AdvanceStep ==
    ASSUME ResearchInvariant, NEW w \in Walks, P!Advance(w) PROVE ResearchInvariant'
  <1>1. /\ builder[w] \in Builders /\ Researches(builder[w]) /\ builder[w].pc = "advance"
        /\ UNCHANGED <<web, profiles, bound, served, builds>>
    BY DEF P!Advance, ResearchInvariant
  <1>2. PICK r \in Runs, body \in Bodies : r = builder[w].run /\ body = builder[w].built
    BY <1>1 DEF Builders
  <1>3. body # P!None /\ bound[r] = body
    BY <1>1, <1>2 DEF Researches
  <1>4. committed' = [committed EXCEPT ![r] = committed[r] \cup {body}]
    BY <1>2 DEF P!Advance
  <1>5. /\ committed' \in [Runs -> SUBSET Bodies] /\ committed'[r] = committed[r] \cup {body}
        /\ \A q \in Runs \ {r} : committed'[q] = committed[q]
    BY <1>4 DEF ResearchInvariant, ResearchStore
  <1>6. \A q \in Runs : committed'[q] \subseteq {bound[q]} /\ P!None \notin committed'[q]
    BY <1>3, <1>5 DEF ResearchInvariant, ResearchStore
  <1>7. ResearchStore'
    BY <1>1, <1>5, <1>6 DEF ResearchInvariant, ResearchStore, Backed, TextsOf
  <1> QED  BY <1>1, <1>7, WalkRests DEF P!Advance

LEMMA ResearchSteps ==
    ASSUME ResearchInvariant, P!ResearchNext PROVE ResearchInvariant'
  <1>1. ASSUME NEW w \in Walks, P!WalkDies(w) PROVE ResearchInvariant'
    BY <1>1, StoreUntouched, WalkRests DEF P!WalkDies
  <1>2. ASSUME P!WebChanges PROVE ResearchInvariant'
    <2>1. ResearchStore'
      BY <1>2, ResearchStoreStands DEF P!WebChanges, ResearchInvariant, ResearchStore
    <2> QED  BY <1>2, <2>1
             DEF P!WebChanges, ResearchInvariant, Researches, Backed, TextsOf, P!Verified
  <1> QED  BY <1>1, <1>2, BeginResearchStep, AdapterFailsStep, AdapterAnswersStep, FetchManyStep,
              ExtractStep, BuildProfileStep, PutStep, AdvanceStep
           DEF P!ResearchNext

LEMMA ResearchSafe ==
    ASSUME ResearchInvariant
    PROVE  P!ResearchTypeOK /\ P!BoundaryNamesProfile /\ P!ProfileIsCorroborated
  <1>1. P!ResearchTypeOK
    BY DEF ResearchInvariant, ResearchStore, Researches, Builders, P!ResearchTypeOK
  <1>2. P!BoundaryNamesProfile
    BY DEF ResearchInvariant, ResearchStore, P!BoundaryNamesProfile
  <1>3. ASSUME NEW body \in profiles, NEW e \in body.fields
        PROVE  /\ e.value.domain = body.domain
               /\ P!Cardinality({p.text : p \in {q \in served : e \in q.says}})
                     >= IF e.field \in P!AnchorFields THEN P!MinCorroborations ELSE 1
    <2>1. Backed(body)
      BY DEF ResearchInvariant, ResearchStore
    <2>2. PICK texts : texts = {p.text : p \in {q \in served : e \in q.says}}
      OBVIOUS
    <2>3. e.value.domain = body.domain /\ Cardinality(texts) >= Needed(e.field)
      BY <2>1, <2>2 DEF Backed, TextsOf
    <2>4. P!Cardinality(texts) = Cardinality(texts)
      BY CountsAgree
    <2> QED  BY <2>2, <2>3, <2>4 DEF Needed, P!MinCorroborations
  <1> QED  BY <1>1, <1>2, <1>3 DEF P!ProfileIsCorroborated

-----------------------------------------------------------------------------
(* ModelDecision                                                              *)

Tripping == [failures : 0 .. 1, openUntil : 0 .. (DecisionClock + Cooldown)]
Deciders == [pc : {"away", "think", "next", "calling", "act"}, run : Runs \cup {"none"},
             next : 1 .. (Len(Order) + 1), attempted : 0 .. MaxProviders,
             deadline : Nat, due : Nat, memory : D!Memories,
             blind : BOOLEAN, shared : BOOLEAN]

\* A window of the latest steps.
Latest(m) == \A i \in DOMAIN m.steps : m.steps[i] = m.total - Len(m.steps) + i

\* A decision is made before its deadline, and nobody is waited for past it.
Decides(d) ==
    /\ Latest(d.memory)
    /\ d.run \in IF d.pc = "away" THEN {"none"} ELSE Runs
    /\ d.pc \in {"next", "calling"} => time <= d.deadline
    /\ d.pc = "calling" => /\ d.next <= Len(Order)
                           /\ time <= d.due /\ d.due <= d.deadline

\* A walk that read what was stored, and had no rival, has forgotten none of it.
Remembers(w) ==
    decider[w].pc # "away" /\ ~decider[w].blind /\ ~decider[w].shared
        => stored[decider[w].run].total <= decider[w].memory.total

\* Two walks of one run know of each other.
Meet(v, w) ==
    v # w /\ decider[v].pc # "away" /\ decider[w].pc # "away" /\ decider[v].run = decider[w].run
        => decider[v].shared /\ decider[w].shared

DecisionStore ==
    /\ time \in 0 .. DecisionClock /\ decisionFaults \in 0 .. MaxFaults
    /\ pinned \in [Runs -> Selections]
    /\ breaker \in [D!Chains -> [D!Providers -> Tripping]]
    /\ stored \in [Runs -> D!Memories] /\ \A r \in Runs : Latest(stored[r])

DecisionInvariant ==
    /\ DecisionStore /\ decider \in [Workers -> Deciders]
    /\ \A w \in Workers : Decides(decider[w]) /\ Remembers(w)
    /\ \A v, w \in Workers : Meet(v, w)

LEMMA DecisionBounds ==
    /\ TotalSeconds \in Nat \ {0} /\ ProviderSeconds \in Nat \ {0} /\ MaxProviders \in Nat \ {0}
    /\ Cooldown \in Nat \ {0} /\ MaxSteps \in Nat \ {0}
    /\ DecisionClock \in Nat /\ MaxTotal \in Nat /\ MaxFaults \in Nat
    /\ Order \in Seq({Order[i] : i \in DOMAIN Order}) /\ Len(Order) \in Nat
    /\ 0 \in 0 .. DecisionClock /\ DecisionClock - 1 \in 0 .. DecisionClock
    /\ 0 \in 0 .. MaxTotal /\ 0 \in 0 .. MaxFaults /\ MaxFaults \in 0 .. MaxFaults
    /\ 0 \in 0 .. MaxProviders /\ 1 \in 1 .. (Len(Order) + 1)
    /\ 0 \in 0 .. (DecisionClock + Cooldown)
  <1>1. /\ TotalSeconds \in Nat \ {0} /\ ProviderSeconds \in Nat \ {0}
        /\ MaxProviders \in Nat \ {0} /\ Cooldown \in Nat \ {0} /\ MaxSteps \in Nat \ {0}
        /\ DecisionClock \in Nat /\ MaxTotal \in Nat /\ MaxFaults \in Nat
        /\ Order \in Seq({Order[i] : i \in DOMAIN Order}) /\ DecisionClock # 0
    BY EvidencePartsAssumption DEF EvidencePartsAssumption, D!DecisionAssumption
  <1>2. Len(Order) \in Nat
    BY <1>1
  <1> QED  BY <1>1, <1>2

\* What a scratchpad is made of.
LEMMA MemoryShape ==
    ASSUME NEW m \in D!Memories
    PROVE  /\ m.total \in 0 .. MaxTotal /\ m.steps \in Seq(1 .. MaxTotal)
           /\ Len(m.steps) \in 0 .. MaxSteps /\ Len(m.steps) <= m.total
           /\ DOMAIN m.steps = 1 .. Len(m.steps)
           /\ m = [total |-> m.total, steps |-> m.steps]
  <1>1. /\ m.total \in 0 .. MaxTotal /\ m.steps \in D!SeqOf(1 .. MaxTotal, MaxSteps)
        /\ Len(m.steps) <= m.total /\ m = [total |-> m.total, steps |-> m.steps]
    BY DEF D!Memories
  <1>2. PICK n \in 0 .. MaxSteps : m.steps \in [1 .. n -> 1 .. MaxTotal]
    BY <1>1 DEF D!SeqOf
  <1>3. n \in Nat
    BY <1>2, DecisionBounds
  <1>4. m.steps \in Seq(1 .. MaxTotal)
    BY <1>2, <1>3, SeqDef
  <1>5. Len(m.steps) = n /\ DOMAIN m.steps = 1 .. n
    BY <1>2, <1>3
  <1> QED  BY <1>1, <1>2, <1>4, <1>5

LEMMA MemoryMade ==
    ASSUME NEW total \in 0 .. MaxTotal, NEW steps \in Seq(1 .. MaxTotal),
           Len(steps) <= MaxSteps, Len(steps) <= total
    PROVE  [total |-> total, steps |-> steps] \in D!Memories
  <1>1. Len(steps) \in 0 .. MaxSteps /\ steps \in [1 .. Len(steps) -> 1 .. MaxTotal]
    BY DecisionBounds
  <1>2. steps \in D!SeqOf(1 .. MaxTotal, MaxSteps)
    BY <1>1 DEF D!SeqOf
  <1> QED  BY <1>2 DEF D!Memories

LEMMA FreshStands ==
    D!Fresh \in D!Memories /\ Latest(D!Fresh) /\ D!Fresh.total = 0
  <1>1. PICK s : s = <<>>
    OBVIOUS
  <1>2. s \in Seq(1 .. MaxTotal) /\ Len(s) = 0 /\ DOMAIN s = {}
    BY <1>1
  <1>3. Len(s) <= MaxSteps /\ Len(s) <= 0
    BY <1>2, DecisionBounds
  <1>4. [total |-> 0, steps |-> s] \in D!Memories
    BY <1>2, <1>3, DecisionBounds, MemoryMade
  <1>5. D!Fresh = [total |-> 0, steps |-> s]
    BY <1>1 DEF D!Fresh
  <1> QED  BY <1>2, <1>4, <1>5 DEF Latest

LEMMA DeciderAway ==
    /\ D!Away \in Deciders /\ D!Away.pc = "away" /\ D!Away.run = "none" /\ Latest(D!Away.memory)
    /\ D!Closed \in Tripping
  BY FreshStands, DecisionBounds DEF D!Away, D!Closed, Deciders, Tripping

LEMMA DecisionInitially ==
    ASSUME MCDecisionInit PROVE DecisionInvariant
  <1>1. DecisionStore
    BY FreshStands, DeciderAway, DecisionBounds DEF MCDecisionInit, DecisionStore
  <1>2. ASSUME NEW w \in Workers PROVE Decides(decider[w]) /\ Remembers(w)
    BY DeciderAway DEF MCDecisionInit, Decides, Remembers
  <1>3. ASSUME NEW v \in Workers, NEW w \in Workers PROVE Meet(v, w)
    BY DeciderAway DEF MCDecisionInit, Meet
  <1> QED  BY <1>1, <1>2, <1>3, DeciderAway DEF MCDecisionInit, DecisionInvariant

\* The bounded window of one step more is the window of the latest steps.
LEMMA WithStepIsLatest ==
    ASSUME NEW m \in D!Memories, Latest(m), m.total < MaxTotal
    PROVE  /\ D!WithStep(m) \in D!Memories /\ Latest(D!WithStep(m))
           /\ D!WithStep(m).total = m.total + 1
  <1>1. PICK t \in 0 .. MaxTotal, s \in Seq(1 .. MaxTotal), n \in 0 .. MaxSteps :
            /\ t = m.total /\ s = m.steps /\ n = Len(s) /\ n <= t /\ DOMAIN s = 1 .. n
    BY MemoryShape
  <1>2. t + 1 \in 1 .. MaxTotal /\ t + 1 \in 0 .. MaxTotal
    BY <1>1, DecisionBounds
  <1>0. t \in Nat /\ n \in Nat /\ MaxSteps \in Nat \ {0} /\ n <= MaxSteps
    BY <1>1, DecisionBounds
  <1>3. PICK more : more = Append(s, t + 1)
    OBVIOUS
  <1>4. more \in Seq(1 .. MaxTotal) /\ Len(more) = n + 1
    BY <1>1, <1>2, <1>3
  <1>5. \A i \in 1 .. (n + 1) : more[i] = t - n + i
    <2>1. \A i \in 1 .. n : s[i] = t - n + i
      BY <1>1 DEF Latest
    <2>2. ASSUME NEW i \in 1 .. (n + 1) PROVE more[i] = t - n + i
      <3>1. CASE i = n + 1
        <4>1. more[n + 1] = t + 1
          BY <1>1, <1>3
        <4> QED  BY <1>0, <3>1, <4>1
      <3>2. CASE i # n + 1
        <4>1. i \in 1 .. n
          BY <1>1, <3>2, DecisionBounds
        <4>2. more[i] = s[i]
          BY <1>1, <1>2, <1>3, <4>1
        <4> QED  BY <2>1, <4>1, <4>2
      <3> QED  BY <3>1, <3>2
    <2> QED  BY <2>2
  <1>6. PICK kept : kept = D!Window(more)
    OBVIOUS
  <1>7. D!WithStep(m) = [total |-> t + 1, steps |-> kept]
    BY <1>1, <1>3, <1>6 DEF D!WithStep
  <1>8. CASE n + 1 <= MaxSteps
    <2>1. kept = more
      BY <1>1, <1>4, <1>6, <1>8, DecisionBounds DEF D!Window
    <2>2. [total |-> t + 1, steps |-> kept] \in D!Memories
      BY <1>1, <1>2, <1>4, <1>8, <2>1, MemoryMade
    <2>3. DOMAIN kept = 1 .. (n + 1) /\ Len(kept) = n + 1
      BY <1>4, <2>1
    <2>4. \A i \in 1 .. (n + 1) : kept[i] = (t + 1) - (n + 1) + i
      BY <1>0, <1>5, <2>1
    <2> QED  BY <1>1, <1>7, <2>2, <2>3, <2>4 DEF Latest
  <1>9. CASE n + 1 > MaxSteps
    <2>1. n = MaxSteps
      BY <1>1, <1>9, DecisionBounds
    <2>2. kept = SubSeq(more, 2, n + 1)
      BY <1>1, <1>4, <1>6, <1>9, <2>1, DecisionBounds DEF D!Window
    <2>3. kept \in Seq(1 .. MaxTotal) /\ Len(kept) = n /\ \A i \in 1 .. n : kept[i] = more[i + 1]
      <3>1. /\ 2 \in Int /\ n + 1 \in Int /\ 2 <= n + 1
        BY <1>0, <2>1
      <3>2. ASSUME NEW i \in 2 .. (n + 1) PROVE more[i] \in 1 .. MaxTotal
        <4>1. i \in 1 .. Len(more)
          BY <1>0, <1>4
        <4> QED  BY <1>4, <4>1, ElementOfSeq
      <3>3. /\ kept \in Seq(1 .. MaxTotal) /\ Len(kept) = (IF 2 <= n + 1 THEN (n + 1) - 2 + 1 ELSE 0)
            /\ \A i \in 1 .. ((n + 1) - 2 + 1) : kept[i] = more[2 + i - 1]
        BY <2>2, <3>1, <3>2, SubSeqProperties
      <3> QED  BY <1>0, <3>1, <3>3
    <2>4. [total |-> t + 1, steps |-> kept] \in D!Memories
      <3>1. Len(kept) <= MaxSteps /\ Len(kept) <= t + 1
        BY <1>1, <1>0, <2>3
      <3> QED  BY <1>2, <2>3, <3>1, MemoryMade
    <2>5. \A i \in 1 .. n : kept[i] = (t + 1) - n + i
      <3>1. ASSUME NEW i \in 1 .. n PROVE kept[i] = (t + 1) - n + i
        <4>1. i + 1 \in 1 .. (n + 1)
          BY <1>1, DecisionBounds
        <4>2. kept[i] = t - n + (i + 1)
          BY <1>5, <2>3, <4>1
        <4> QED  BY <1>0, <4>2
      <3> QED  BY <3>1
    <2>6. DOMAIN kept = 1 .. n
      BY <1>1, <2>3, DecisionBounds
    <2> QED  BY <1>1, <1>7, <2>3, <2>4, <2>5, <2>6 DEF Latest
  <1> QED  BY <1>1, <1>8, <1>9, DecisionBounds

\* A stored document is read back as it was written.
LEMMA ReadBack ==
    ASSUME NEW m \in D!Memories PROVE D!FromDocument(m) = m
  <1>1. /\ m.total \in 0 .. MaxTotal /\ m.steps \in Seq(1 .. MaxTotal)
        /\ Len(m.steps) \in 0 .. MaxSteps /\ Len(m.steps) <= m.total
        /\ m = [total |-> m.total, steps |-> m.steps]
    BY MemoryShape
  <1>2. D!Window(m.steps) = m.steps
    BY <1>1, DecisionBounds DEF D!Window
  <1>3. ~(m.total < Len(m.steps))
    BY <1>1, DecisionBounds
  <1> QED  BY <1>1, <1>2, <1>3 DEF D!FromDocument

LEMMA DecisionFaulted ==
    ASSUME DecisionInvariant, NEW n \in {0, 1}, D!Fails(n) PROVE decisionFaults' \in 0 .. MaxFaults
  BY DecisionBounds DEF DecisionInvariant, DecisionStore, D!Fails

LEMMA EitherFaulted ==
    ASSUME DecisionInvariant, NEW n, n \in {0, 1}, D!Fails(n) \/ UNCHANGED decisionFaults
    PROVE  decisionFaults' \in 0 .. MaxFaults
  BY DecisionFaulted DEF DecisionInvariant, DecisionStore

\* A step of one walk that goes on, or ends: its new place stands, it remembers what is
\* stored, and it adds to no run's document but its own.
LEMMA DeciderMoves ==
    ASSUME DecisionInvariant, NEW w \in Workers, NEW to \in Deciders, Decides(to),
           decider' = [decider EXCEPT ![w] = to],
           stored' \in [Runs -> D!Memories], \A r \in Runs : Latest(stored'[r]),
           to.pc # "away" => /\ decider[w].pc # "away" /\ to.run = decider[w].run
                             /\ to.shared = decider[w].shared,
           to.pc # "away" /\ ~to.blind /\ ~to.shared => stored'[to.run].total <= to.memory.total,
           \A r \in Runs : \/ stored'[r].total <= stored[r].total
                           \/ decider[w].pc # "away" /\ decider[w].run = r,
           UNCHANGED <<time, pinned>>, decisionFaults' \in 0 .. MaxFaults,
           breaker' \in [D!Chains -> [D!Providers -> Tripping]]
    PROVE  DecisionInvariant'
  <1>1. /\ decider' \in [Workers -> Deciders] /\ decider'[w] = to
        /\ \A v \in Workers \ {w} : decider'[v] = decider[v]
    BY DEF DecisionInvariant
  <1>2. DecisionStore'
    BY DEF DecisionInvariant, DecisionStore, Latest
  <1>3. ASSUME NEW v \in Workers PROVE Decides(decider[v])'
    BY <1>1 DEF DecisionInvariant, Decides, Latest
  <1>4. ASSUME NEW v \in Workers PROVE Remembers(v)'
    <2>1. CASE v = w
      BY <1>1, <2>1 DEF Remembers
    <2>2. CASE v # w /\ decider[v].pc # "away" /\ ~decider[v].blind /\ ~decider[v].shared
      <3>1. PICK r \in Runs : r = decider[v].run
        BY <2>2 DEF DecisionInvariant, Decides
      <3>2. ~(decider[w].pc # "away" /\ decider[w].run = r)
        BY <2>2, <3>1 DEF DecisionInvariant, Meet
      <3>3. stored'[r].total <= stored[r].total /\ stored[r].total <= decider[v].memory.total
        BY <2>2, <3>1, <3>2 DEF DecisionInvariant, Remembers
      <3>4. /\ stored'[r].total \in Nat /\ stored[r].total \in Nat
            /\ decider[v].memory.total \in Nat
        BY MemoryShape DEF DecisionInvariant, DecisionStore, Deciders
      <3>5. stored'[r].total <= decider[v].memory.total
        BY <3>3, <3>4
      <3> QED  BY <1>1, <2>2, <3>1, <3>5 DEF Remembers
    <2>3. CASE v # w /\ ~(decider[v].pc # "away" /\ ~decider[v].blind /\ ~decider[v].shared)
      BY <1>1, <2>3 DEF Remembers
    <2> QED  BY <2>1, <2>2, <2>3
  <1>5. ASSUME NEW v \in Workers, NEW u \in Workers PROVE Meet(v, u)'
    BY <1>1 DEF DecisionInvariant, Meet
  <1> QED  BY <1>1, <1>2, <1>3, <1>4, <1>5 DEF DecisionInvariant

\* A step of a walk that saves nothing and forgets nothing.
LEMMA DeciderTurns ==
    ASSUME DecisionInvariant, NEW w \in Workers, NEW to \in Deciders, Decides(to),
           decider' = [decider EXCEPT ![w] = to], UNCHANGED <<time, pinned, stored>>,
           \/ to.pc = "away"
           \/ /\ decider[w].pc # "away" /\ to.memory = decider[w].memory
              /\ to.blind = decider[w].blind /\ to.run = decider[w].run
              /\ to.shared = decider[w].shared,
           decisionFaults' \in 0 .. MaxFaults,
           breaker' \in [D!Chains -> [D!Providers -> Tripping]]
    PROVE  DecisionInvariant'
  <1>1. stored' \in [Runs -> D!Memories] /\ \A r \in Runs : Latest(stored'[r])
    BY DEF DecisionInvariant, DecisionStore
  <1>2. ASSUME NEW r \in Runs PROVE stored'[r].total <= stored[r].total
    BY MemoryShape DEF DecisionInvariant, DecisionStore
  <1>3. to.pc # "away" /\ ~to.blind /\ ~to.shared => stored'[to.run].total <= to.memory.total
    BY DEF DecisionInvariant, Remembers
  <1> QED  BY <1>1, <1>2, <1>3, DeciderMoves

LEMMA ChainIsAChain ==
    ASSUME NEW w \in Workers PROVE D!ChainOf(w) \in D!Chains /\ w \in D!Chains
  BY DEF D!ChainOf, D!Chains

\* A breaker heard of an answer or of a failure.
LEMMA BreakerTyped ==
    ASSUME DecisionInvariant, NEW b \in Tripping
    PROVE  D!RecordFailure(b) \in Tripping
  <1>1. time + Cooldown \in 0 .. (DecisionClock + Cooldown)
    BY DecisionBounds DEF DecisionInvariant, DecisionStore
  <1>2. CASE b.failures + 1 >= D!Threshold
    BY <1>1, <1>2, DeciderAway DEF D!RecordFailure, Tripping
  <1>3. CASE ~(b.failures + 1 >= D!Threshold)
    <2>1. b.failures + 1 \in 0 .. 1
      BY <1>3 DEF Tripping, D!Threshold
    <2>2. D!RecordFailure(b) = [b EXCEPT !.failures = b.failures + 1]
      BY <1>3 DEF D!RecordFailure
    <2> QED  BY <2>1, <2>2 DEF Tripping
  <1> QED  BY <1>2, <1>3

LEMMA NotedTyped ==
    ASSUME DecisionInvariant, NEW w \in Workers, NEW b,
           D!Asked(w) \in D!Providers => b \in Tripping, breaker' = D!Note(w, b)
    PROVE  breaker' \in [D!Chains -> [D!Providers -> Tripping]]
  <1>1. PICK c \in D!Chains : c = D!ChainOf(w)
    BY ChainIsAChain
  <1>2. PICK p : p = D!Asked(w)
    OBVIOUS
  <1>3. PICK row_ \in [D!Providers -> Tripping] : row_ = [breaker[c] EXCEPT ![p] = b]
    BY <1>1, <1>2 DEF DecisionInvariant, DecisionStore
  <1>4. breaker' = [breaker EXCEPT ![c] = row_]
    BY <1>1, <1>2, <1>3 DEF D!Note, DecisionInvariant, DecisionStore
  <1> QED  BY <1>1, <1>3, <1>4 DEF DecisionInvariant, DecisionStore

\* A walk that begins reads what is stored; where the run has a walk already, both are
\* known to share it.
LEMMA StartWalkStep ==
    ASSUME DecisionInvariant, NEW w \in Workers, D!StartWalk(w), UNCHANGED pinned
    PROVE  DecisionInvariant'
  <1>1. PICK r \in Runs, readable \in BOOLEAN :
            /\ D!Fails((IF readable THEN 0 ELSE 1) + (IF D!Rivals(w, r) = {} THEN 0 ELSE 1))
            /\ decider' = [v \in Workers |->
                  IF v = w
                  THEN [D!Away EXCEPT !.pc = "think", !.run = r, !.blind = ~readable,
                                      !.shared = D!Rivals(w, r) # {},
                                      !.memory = D!LoadScratchpad(r, readable)]
                  ELSE IF v \in D!Rivals(w, r) THEN [decider[v] EXCEPT !.shared = TRUE]
                  ELSE decider[v]]
    BY DEF D!StartWalk
  <1>2. PICK m \in D!Memories : m = stored[r] /\ Latest(m)
    BY DEF DecisionInvariant, DecisionStore
  <1>3. PICK read : read = D!LoadScratchpad(r, readable)
    OBVIOUS
  <1>4. read \in D!Memories /\ Latest(read) /\ (readable => read = m)
    BY <1>2, <1>3, ReadBack, FreshStands DEF D!LoadScratchpad, D!ReadPhaseScratchpad
  <1>5. PICK shared_ \in BOOLEAN : shared_ = (D!Rivals(w, r) # {})
    OBVIOUS
  <1>6. PICK to : to = [D!Away EXCEPT !.pc = "think", !.run = r, !.blind = ~readable,
                                      !.shared = shared_, !.memory = read]
    OBVIOUS
  <1>7. to \in Deciders
    BY <1>4, <1>6, DeciderAway, Zenon DEF Deciders, D!Away
  <1>8. /\ to.pc = "think" /\ to.run = r /\ to.memory = read /\ to.blind = ~readable
        /\ to.shared = shared_
    BY <1>6 DEF D!Away
  <1>9. decider'[w] = to
    BY <1>1, <1>3, <1>5, <1>6
  <1>10. ASSUME NEW v \in Workers \ {w}
         PROVE  /\ decider'[v] \in Deciders
                /\ \A f \in {"pc", "run", "next", "attempted", "deadline", "due", "memory", "blind"} :
                       decider'[v][f] = decider[v][f]
                /\ decider'[v].shared = (decider[v].shared \/ v \in D!Rivals(w, r))
    <2>1. decider[v] \in Deciders
      BY DEF DecisionInvariant
    <2>2. CASE v \in D!Rivals(w, r)
      <3>1. decider'[v] = [decider[v] EXCEPT !.shared = TRUE]
        BY <1>1, <2>2
      <3> QED  BY <2>1, <2>2, <3>1 DEF Deciders
    <2>3. CASE v \notin D!Rivals(w, r)
      <3>1. decider'[v] = decider[v]
        BY <1>1, <2>3
      <3> QED  BY <2>1, <2>3, <3>1 DEF Deciders
    <2> QED  BY <2>2, <2>3
  <1>11. ASSUME NEW v \in Workers \ {w}
         PROVE  /\ decider'[v].pc = decider[v].pc /\ decider'[v].run = decider[v].run
                /\ decider'[v].next = decider[v].next /\ decider'[v].due = decider[v].due
                /\ decider'[v].deadline = decider[v].deadline
                /\ decider'[v].memory = decider[v].memory /\ decider'[v].blind = decider[v].blind
                /\ decider[v].shared => decider'[v].shared
                /\ decider[v].run = r => decider'[v].shared
    BY <1>10 DEF D!Rivals
  <1>12. decider' \in [Workers -> Deciders]
    BY <1>1, <1>7, <1>9, <1>10
  <1>13. /\ decisionFaults' \in 0 .. MaxFaults
         /\ time' = time /\ breaker' = breaker /\ stored' = stored /\ pinned' = pinned
    <2>0. PICK n : n = (IF readable THEN 0 ELSE 1) + (IF D!Rivals(w, r) = {} THEN 0 ELSE 1)
      OBVIOUS
    <2>1. n \in Nat /\ D!Fails(n)
      <3>1. D!Fails(n)
        BY <1>1, <2>0, Zenon
      <3>2. n \in Nat
        BY <2>0
      <3> QED  BY <3>1, <3>2
    <2>2. decisionFaults \in Nat /\ MaxFaults \in Nat
      BY DecisionBounds DEF DecisionInvariant, DecisionStore
    <2>3. decisionFaults' \in 0 .. MaxFaults
      BY <2>1, <2>2 DEF D!Fails
    <2> QED  BY <2>3 DEF D!StartWalk
  <1>14. DecisionStore'
    BY <1>13 DEF DecisionInvariant, DecisionStore, Latest
  <1>15. ASSUME NEW v \in Workers PROVE Decides(decider[v])' /\ Remembers(v)'
    <2>1. CASE v = w
      <3>1. stored[r].total \in Nat
        BY <1>2, MemoryShape
      <3>2. Decides(decider[w])'
        BY <1>4, <1>8, <1>9 DEF Decides, Latest
      <3>3. ~to.blind => stored'[r].total <= to.memory.total
        <4>1. ~to.blind => readable
          BY <1>8
        <4>2. ~to.blind => to.memory = stored[r]
          BY <1>2, <1>4, <1>8, <4>1
        <4>3. stored'[r] = stored[r] /\ stored[r].total <= stored[r].total
          BY <1>13, <3>1
        <4> QED  BY <4>2, <4>3
      <3>4. Remembers(w)'
        BY <1>8, <1>9, <3>3 DEF Remembers
      <3> QED  BY <2>1, <3>2, <3>4
    <2>2. CASE v # w
      <3>1. Decides(decider[v]) /\ Remembers(v)
        BY DEF DecisionInvariant
      <3>2. PICK old, new : old = decider[v] /\ new = decider'[v]
        OBVIOUS
      <3>3. /\ new.pc = old.pc /\ new.run = old.run /\ new.next = old.next /\ new.due = old.due
            /\ new.deadline = old.deadline /\ new.memory = old.memory /\ new.blind = old.blind
            /\ ~new.shared => ~old.shared
        BY <1>11, <2>2, <3>2
      <3>4. Decides(decider[v])'
        BY <1>13, <3>1, <3>2, <3>3 DEF Decides, Latest
      <3>5. Remembers(v)'
        BY <1>13, <3>1, <3>2, <3>3 DEF Remembers
      <3> QED  BY <3>4, <3>5
    <2> QED  BY <2>1, <2>2
  <1>16. ASSUME NEW v \in Workers, NEW u \in Workers PROVE Meet(v, u)'
    <2>1. CASE v # w /\ u # w
      <3>1. Meet(v, u)
        BY DEF DecisionInvariant
      <3>2. /\ decider'[v].pc = decider[v].pc /\ decider'[v].run = decider[v].run
            /\ decider'[u].pc = decider[u].pc /\ decider'[u].run = decider[u].run
            /\ decider[v].shared => decider'[v].shared
            /\ decider[u].shared => decider'[u].shared
        BY <1>11, <2>1
      <3> QED  BY <3>1, <3>2, Zenon DEF Meet
    <2>2. ASSUME NEW x \in Workers \ {w}, decider'[x].run = r
          PROVE  decider'[x].shared /\ decider'[w].shared
      <3>1. decider[x].run = r /\ x \in D!Rivals(w, r)
        BY <1>11, <2>2 DEF D!Rivals
      <3> QED  BY <1>5, <1>8, <1>9, <1>11, <3>1
    <2>3. CASE v = w /\ u # w
      BY <1>8, <1>9, <2>2, <2>3 DEF Meet
    <2>4. CASE u = w /\ v # w
      BY <1>8, <1>9, <2>2, <2>4 DEF Meet
    <2>5. CASE v = u
      BY <2>5 DEF Meet
    <2> QED  BY <2>1, <2>3, <2>4, <2>5
  <1> QED  BY <1>12, <1>14, <1>15, <1>16 DEF DecisionInvariant

\* A walk that saves what it did remembers one step more than it saved before.
LEMMA RememberStep ==
    ASSUME DecisionInvariant, NEW w \in Workers, D!Remember(w), UNCHANGED pinned
    PROVE  DecisionInvariant'
  <1>1. /\ decider[w] \in Deciders /\ Decides(decider[w]) /\ decider[w].pc = "act"
        /\ decider[w].memory \in D!Memories /\ decider[w].memory.total < MaxTotal
        /\ UNCHANGED <<time, breaker>>
    BY DEF D!Remember, DecisionInvariant, Deciders
  <1>2. PICK old \in D!Memories, r \in Runs : old = decider[w].memory /\ r = decider[w].run
    BY <1>1 DEF Decides
  <1>3. PICK m \in D!Memories : m = D!WithStep(old) /\ Latest(m) /\ m.total = old.total + 1
    BY <1>1, <1>2, WithStepIsLatest DEF Decides
  <1>4. PICK lands \in BOOLEAN :
            /\ D!Fails(IF lands THEN 0 ELSE 1)
            /\ decider' = [decider EXCEPT ![w].memory = m, ![w].pc = "think"]
            /\ IF lands THEN stored' = [stored EXCEPT ![r] = m] ELSE UNCHANGED stored
    BY <1>2, <1>3 DEF D!Remember, D!SavePhaseScratchpad
  <1>5. PICK to : to = [decider[w] EXCEPT !.memory = m, !.pc = "think"]
    OBVIOUS
  <1>6. to \in Deciders
    BY <1>1, <1>5, Zenon DEF Deciders
  <1>7. /\ to.pc = "think" /\ to.memory = m /\ to.blind = decider[w].blind
        /\ to.run = r /\ to.shared = decider[w].shared
    BY <1>1, <1>2, <1>5 DEF Deciders
  <1>8. Decides(to)
    BY <1>3, <1>7 DEF Decides
  <1>9. decider' = [decider EXCEPT ![w] = to]
    BY <1>4, <1>5 DEF DecisionInvariant
  <1>10. decisionFaults' \in 0 .. MaxFaults
    BY <1>4, DecisionFaulted
  <1>11. m.total \in Nat /\ old.total \in Nat /\ stored[r].total \in Nat
    BY MemoryShape DEF DecisionInvariant, DecisionStore
  <1>12. breaker' \in [D!Chains -> [D!Providers -> Tripping]]
    BY <1>1 DEF DecisionInvariant, DecisionStore
  <1>13. stored' \in [Runs -> D!Memories] /\ \A q \in Runs : Latest(stored'[q])
    BY <1>3, <1>4 DEF DecisionInvariant, DecisionStore
  <1>14. ASSUME NEW q \in Runs
         PROVE  \/ stored'[q].total <= stored[q].total
                \/ decider[w].pc # "away" /\ decider[w].run = q
    <2>1. CASE q = r
      BY <1>1, <1>2, <2>1
    <2>2. CASE q # r
      <3>1. stored'[q] = stored[q] /\ stored[q].total \in Nat
        BY <1>4, <2>2, MemoryShape DEF DecisionInvariant, DecisionStore
      <3> QED  BY <3>1
    <2> QED  BY <2>1, <2>2
  <1>15. ~to.blind /\ ~to.shared => stored'[r].total <= m.total
    <2>1. CASE lands
      BY <1>4, <1>11, <2>1 DEF DecisionInvariant, DecisionStore
    <2>2. CASE ~lands
      <3>1. ~to.blind /\ ~to.shared => stored[r].total <= old.total
        BY <1>1, <1>2, <1>7 DEF DecisionInvariant, Remembers
      <3> QED  BY <1>3, <1>4, <1>11, <2>2, <3>1
    <2> QED  BY <2>1, <2>2
  <1>16. to.pc # "away" /\ ~to.blind /\ ~to.shared => stored'[to.run].total <= to.memory.total
    BY <1>7, <1>15
  <1>17. /\ decider[w].pc # "away" /\ to.run = decider[w].run /\ to.shared = decider[w].shared
    BY <1>1, <1>2, <1>7
  <1> QED
    BY <1>1, <1>6, <1>8, <1>9, <1>10, <1>12, <1>13, <1>14, <1>16, <1>17, DeciderMoves

LEMMA DecideStep ==
    ASSUME DecisionInvariant, NEW w \in Workers, D!Decide(w), UNCHANGED pinned
    PROVE  DecisionInvariant'
  <1>1. /\ decider[w] \in Deciders /\ Decides(decider[w]) /\ decider[w].pc = "think"
        /\ UNCHANGED <<time, breaker, stored, decisionFaults>>
    BY DEF D!Decide, DecisionInvariant
  <1>2. time \in Nat /\ time + TotalSeconds \in Nat /\ time <= time + TotalSeconds
    BY DecisionBounds DEF DecisionInvariant, DecisionStore
  <1>3. PICK to : to = [decider[w] EXCEPT !.pc = "next", !.next = 1, !.attempted = 0,
                                          !.deadline = time + TotalSeconds]
    OBVIOUS
  <1>4. to \in Deciders
    BY <1>1, <1>2, <1>3, DecisionBounds, Zenon DEF Deciders
  <1>5. /\ to.pc = "next" /\ to.deadline = time + TotalSeconds
        /\ to.memory = decider[w].memory /\ to.blind = decider[w].blind
        /\ to.run = decider[w].run /\ to.shared = decider[w].shared
    BY <1>1, <1>3 DEF Deciders
  <1>6. Decides(to)
    BY <1>1, <1>2, <1>5 DEF Decides
  <1>7. decider' = [decider EXCEPT ![w] = to]
    BY <1>3 DEF D!Decide, DecisionInvariant
  <1>8. decisionFaults' \in 0 .. MaxFaults /\ breaker' \in [D!Chains -> [D!Providers -> Tripping]]
    BY <1>1 DEF DecisionInvariant, DecisionStore
  <1> QED  BY <1>1, <1>4, <1>5, <1>6, <1>7, <1>8, DeciderTurns

\* The decision's own state ends.
LEMMA OverStands ==
    ASSUME DecisionInvariant, NEW w \in Workers, NEW pc \in {"think", "act"}, D!Over(w, pc),
           decider[w].pc # "away", UNCHANGED <<time, pinned, stored>>,
           decisionFaults' \in 0 .. MaxFaults,
           breaker' \in [D!Chains -> [D!Providers -> Tripping]]
    PROVE  DecisionInvariant'
  <1>1. decider[w] \in Deciders /\ Decides(decider[w])
    BY DEF DecisionInvariant
  <1>2. PICK to : to = [decider[w] EXCEPT !.pc = pc, !.deadline = 0, !.due = 0, !.next = 1,
                                          !.attempted = 0]
    OBVIOUS
  <1>3. to \in Deciders
    BY <1>1, <1>2, DecisionBounds, Zenon DEF Deciders
  <1>4. /\ to.pc = pc /\ to.memory = decider[w].memory /\ to.blind = decider[w].blind
        /\ to.run = decider[w].run /\ to.shared = decider[w].shared
    BY <1>1, <1>2 DEF Deciders
  <1>5. Decides(to)
    BY <1>1, <1>4 DEF Decides
  <1>6. decider' = [decider EXCEPT ![w] = to]
    BY <1>2 DEF D!Over, DecisionInvariant
  <1> QED  BY <1>3, <1>4, <1>5, <1>6, DeciderTurns

LEMMA DeciderIs ==
    ASSUME DecisionInvariant, NEW w \in Workers
    PROVE  /\ decider[w] \in Deciders /\ Decides(decider[w]) /\ Remembers(w)
           /\ time \in Nat /\ decisionFaults \in 0 .. MaxFaults
           /\ breaker \in [D!Chains -> [D!Providers -> Tripping]]
  BY DecisionBounds DEF DecisionInvariant, DecisionStore

\* A loop that returns, and a walk that dies, take their memory and their chain along.
LEMMA LeavesStep ==
    ASSUME DecisionInvariant, NEW w \in Workers, D!PhaseOver(w) \/ D!WalkDies(w), UNCHANGED pinned
    PROVE  DecisionInvariant'
  <1>1. PICK to : to = D!Away
    OBVIOUS
  <1>2. to \in Deciders /\ to.pc = "away" /\ Decides(to)
    BY <1>1, DeciderAway DEF Decides
  <1>3. /\ decider' = [decider EXCEPT ![w] = to] /\ UNCHANGED <<time, stored>>
        /\ breaker' = [breaker EXCEPT ![w] = [p \in D!Providers |-> D!Closed]]
        /\ D!Fails(1) \/ UNCHANGED decisionFaults
    BY <1>1 DEF D!PhaseOver, D!WalkDies, D!EndWalk
  <1>4. breaker' \in [D!Chains -> [D!Providers -> Tripping]]
    BY <1>3, DeciderAway, DeciderIs
  <1>5. decisionFaults' \in 0 .. MaxFaults
    BY <1>3, EitherFaulted
  <1> QED  BY <1>2, <1>3, <1>4, <1>5, DeciderTurns

\* An operator's reset: whatever the walks go on to remember, they forgot nothing.
LEMMA ResetRunStep ==
    ASSUME DecisionInvariant, NEW r \in Runs, D!ResetRun(r), UNCHANGED pinned
    PROVE  DecisionInvariant'
  <1>1. PICK m \in D!Memories : m = D!Fresh /\ Latest(m) /\ m.total = 0
    BY FreshStands
  <1>2. stored' = [stored EXCEPT ![r] = m] /\ UNCHANGED <<time, breaker, decider>>
    BY <1>1 DEF D!ResetRun, D!ClearPhaseScratchpads
  <1>3. decisionFaults' \in 0 .. MaxFaults
    BY DecisionFaulted DEF D!ResetRun
  <1>4. stored' \in [Runs -> D!Memories] /\ \A q \in Runs : Latest(stored'[q])
    BY <1>1, <1>2 DEF DecisionInvariant, DecisionStore
  <1>5. DecisionStore'
    BY <1>2, <1>3, <1>4 DEF DecisionInvariant, DecisionStore, Latest
  <1>6. ASSUME NEW w \in Workers PROVE Decides(decider[w])' /\ Remembers(w)'
    <2>0. decider' = decider /\ time' = time
      BY <1>2
    <2>1. decider[w].memory.total \in Nat /\ 0 <= decider[w].memory.total
      BY MemoryShape DEF DecisionInvariant, Deciders
    <2>2. stored'[decider[w].run] = m \/ stored'[decider[w].run] = stored[decider[w].run]
      BY <1>2 DEF DecisionInvariant, DecisionStore
    <2>3. Decides(decider[w])'
      BY <1>2 DEF DecisionInvariant, Decides, Latest
    <2>4. CASE stored'[decider[w].run] = m
      <3>1. stored'[decider[w].run].total <= decider[w].memory.total
        BY <1>1, <2>1, <2>4
      <3> QED  BY <2>0, <2>3, <3>1 DEF Remembers
    <2>5. CASE stored'[decider[w].run] = stored[decider[w].run]
      <3>1. Remembers(w)
        BY DEF DecisionInvariant
      <3> QED  BY <2>0, <2>3, <2>5, <3>1 DEF Remembers
    <2> QED  BY <2>2, <2>3, <2>4, <2>5
  <1> QED  BY <1>2, <1>5, <1>6 DEF DecisionInvariant, Meet

\* The next provider is passed over, or asked for what is left of its slice.
LEMMA NextProviderStep ==
    ASSUME DecisionInvariant, NEW w \in Workers, D!NextProvider(w), UNCHANGED pinned
    PROVE  DecisionInvariant'
  <1>1. /\ decider[w] \in Deciders /\ Decides(decider[w]) /\ decider[w].pc = "next"
        /\ UNCHANGED <<time, breaker, stored, decisionFaults>>
    BY DeciderIs DEF D!NextProvider
  <1>2. decisionFaults' \in 0 .. MaxFaults /\ breaker' \in [D!Chains -> [D!Providers -> Tripping]]
    BY <1>1, DeciderIs
  <1>3. CASE D!Undecided(w)
    BY <1>1, <1>2, <1>3, OverStands DEF D!Undecided
  <1>4. PICK next \in Nat, attempted \in Nat, deadline \in Nat, len \in Nat :
            /\ next = decider[w].next /\ attempted = decider[w].attempted
            /\ deadline = decider[w].deadline /\ len = Len(Order)
            /\ next \in 1 .. (len + 1) /\ attempted <= MaxProviders
    BY <1>1, DecisionBounds DEF Deciders
  <1>5. CASE /\ next <= len
             /\ decider' = [decider EXCEPT ![w].next = @ + 1]
    <2>1. PICK to : to = [decider[w] EXCEPT !.next = next + 1]
      OBVIOUS
    <2>2. next + 1 \in 1 .. (Len(Order) + 1)
      BY <1>4, <1>5
    <2>3. to \in Deciders
      BY <1>1, <2>1, <2>2, Zenon DEF Deciders
    <2>4. /\ to.pc = "next" /\ to.memory = decider[w].memory /\ to.blind = decider[w].blind
          /\ to.run = decider[w].run /\ to.shared = decider[w].shared
          /\ to.deadline = decider[w].deadline
      BY <1>1, <2>1 DEF Deciders
    <2>5. Decides(to)
      BY <1>1, <2>4 DEF Decides
    <2>6. decider' = [decider EXCEPT ![w] = to]
      BY <1>4, <1>5, <2>1 DEF DecisionInvariant
    <2> QED  BY <1>1, <1>2, <2>3, <2>4, <2>5, <2>6, DeciderTurns
  <1>6. CASE /\ next <= len /\ attempted < MaxProviders /\ time < deadline
             /\ decider' = [decider EXCEPT ![w].pc = "calling", ![w].attempted = @ + 1,
                                           ![w].due = time + D!PerAttempt(w)]
    <2>1. PICK due : due = time + D!PerAttempt(w)
      OBVIOUS
    <2>2. time \in Nat /\ ProviderSeconds \in Nat /\ MaxProviders \in Nat
      BY DeciderIs, DecisionBounds
    <2>3. D!PerAttempt(w) = IF deadline - time < ProviderSeconds THEN deadline - time ELSE ProviderSeconds
      BY <1>4 DEF D!PerAttempt
    <2>4. due \in Nat /\ time <= due /\ due <= deadline
      BY <1>4, <1>6, <2>1, <2>2, <2>3
    <2>5. attempted + 1 \in 0 .. MaxProviders
      BY <1>4, <1>6, <2>2
    <2>6. PICK to : to = [decider[w] EXCEPT !.pc = "calling", !.attempted = attempted + 1, !.due = due]
      OBVIOUS
    <2>7. to \in Deciders
      BY <1>1, <2>4, <2>5, <2>6, Zenon DEF Deciders
    <2>8. /\ to.pc = "calling" /\ to.memory = decider[w].memory /\ to.blind = decider[w].blind
          /\ to.run = decider[w].run /\ to.shared = decider[w].shared
          /\ to.due = due /\ to.next = next /\ to.deadline = deadline
      BY <1>1, <1>4, <2>6 DEF Deciders
    <2>9. time <= deadline
      BY <1>4, <1>6, <2>2
    <2>10. Decides(to)
      BY <1>1, <1>4, <1>6, <2>4, <2>8, <2>9 DEF Decides
    <2>11. decider' = [decider EXCEPT ![w] = to]
      BY <1>4, <1>6, <2>1, <2>6 DEF DecisionInvariant
    <2> QED  BY <1>1, <1>2, <2>7, <2>8, <2>10, <2>11, DeciderTurns
  <1> QED  BY <1>1, <1>3, <1>4, <1>5, <1>6 DEF D!NextProvider

\* An attempt is over: the decision ends, or goes on to the next provider.
LEMMA AttemptOver ==
    ASSUME DecisionInvariant, NEW w \in Workers, decider[w].pc = "calling",
           UNCHANGED <<time, pinned, stored>>, decisionFaults' \in 0 .. MaxFaults,
           breaker' \in [D!Chains -> [D!Providers -> Tripping]],
           \/ D!Undecided(w) \/ D!Over(w, "act")
           \/ decider' = [decider EXCEPT ![w].pc = "next", ![w].next = @ + 1, ![w].due = 0]
    PROVE  DecisionInvariant'
  <1>1. decider[w] \in Deciders /\ Decides(decider[w])
    BY DeciderIs
  <1>2. CASE D!Undecided(w) \/ D!Over(w, "act")
    BY <1>2, OverStands DEF D!Undecided
  <1>3. CASE decider' = [decider EXCEPT ![w].pc = "next", ![w].next = @ + 1, ![w].due = 0]
    <2>0. PICK len \in Nat : len = Len(Order)
      BY DecisionBounds
    <2>1. PICK next \in 1 .. (len + 1) : next = decider[w].next
      BY <1>1, <2>0 DEF Deciders
    <2>8. next <= len
      BY <1>1, <2>0, <2>1 DEF Decides
    <2>2. next + 1 \in 1 .. (Len(Order) + 1)
      BY <2>0, <2>1, <2>8
    <2>3. PICK to : to = [decider[w] EXCEPT !.pc = "next", !.next = next + 1, !.due = 0]
      OBVIOUS
    <2>4. to \in Deciders
      BY <1>1, <2>2, <2>3, Zenon DEF Deciders
    <2>5. /\ to.pc = "next" /\ to.memory = decider[w].memory /\ to.blind = decider[w].blind
          /\ to.run = decider[w].run /\ to.shared = decider[w].shared
          /\ to.deadline = decider[w].deadline
      BY <1>1, <2>3 DEF Deciders
    <2>6. Decides(to)
      BY <1>1, <2>5 DEF Decides
    <2>7. decider' = [decider EXCEPT ![w] = to]
      BY <1>3, <2>1, <2>3 DEF DecisionInvariant
    <2> QED  BY <2>4, <2>5, <2>6, <2>7, DeciderTurns
  <1> QED  BY <1>2, <1>3

\* The breaker of the provider that was asked.
LEMMA AskedTyped ==
    ASSUME DecisionInvariant, NEW w \in Workers, D!Asked(w) \in D!Providers
    PROVE  D!RecordFailure(breaker[D!ChainOf(w)][D!Asked(w)]) \in Tripping
  BY DeciderIs, ChainIsAChain, BreakerTyped

LEMMA ProviderFailsStep ==
    ASSUME DecisionInvariant, NEW w \in Workers, D!ProviderFails(w) \/ D!ProviderTimesOut(w),
           UNCHANGED pinned
    PROVE  DecisionInvariant'
  <1>1. decider[w].pc = "calling" /\ D!AttemptFailed(w) /\ UNCHANGED <<time, stored>>
    BY DEF D!ProviderFails, D!ProviderTimesOut
  <1>2. CASE /\ breaker' = D!Note(w, D!RecordFailure(breaker[D!ChainOf(w)][D!Asked(w)]))
             /\ decider' = [decider EXCEPT ![w].pc = "next", ![w].next = @ + 1, ![w].due = 0]
             /\ D!RecordAttempt(TRUE)
    <2>1. breaker' \in [D!Chains -> [D!Providers -> Tripping]]
      BY <1>2, AskedTyped, NotedTyped
    <2>2. decisionFaults' \in 0 .. MaxFaults
      BY <1>2, DecisionFaulted DEF D!RecordAttempt
    <2> QED  BY <1>1, <1>2, <2>1, <2>2, AttemptOver
  <1>3. CASE D!RecordAttempt(FALSE) /\ D!Undecided(w) /\ breaker' = breaker
    <2>1. breaker' \in [D!Chains -> [D!Providers -> Tripping]]
      BY <1>3, DeciderIs
    <2>2. decisionFaults' \in 0 .. MaxFaults
      BY <1>3, DecisionFaulted DEF D!RecordAttempt
    <2> QED  BY <1>1, <1>3, <2>1, <2>2, AttemptOver
  <1> QED  BY <1>1, <1>2, <1>3 DEF D!AttemptFailed

LEMMA ProviderAnswersStep ==
    ASSUME DecisionInvariant, NEW w \in Workers, D!ProviderAnswers(w), UNCHANGED pinned
    PROVE  DecisionInvariant'
  <1>1. decider[w].pc = "calling" /\ UNCHANGED <<time, stored>>
    BY DEF D!ProviderAnswers
  <1>2. D!Closed \in Tripping /\ D!RecordFailure(D!Closed) \in Tripping
    BY DeciderAway, BreakerTyped
  <1>3. PICK b \in Tripping : breaker' = D!Note(w, b)
    BY <1>2 DEF D!ProviderAnswers
  <1>4. breaker' \in [D!Chains -> [D!Providers -> Tripping]]
    BY <1>3, NotedTyped
  <1>5. PICK lands \in BOOLEAN : D!RecordAttempt(lands)
    BY DEF D!ProviderAnswers
  <1>6. decisionFaults' \in 0 .. MaxFaults
    BY <1>5, DecisionFaulted DEF D!RecordAttempt
  <1>7. \/ D!Undecided(w) \/ D!Over(w, "act")
        \/ decider' = [decider EXCEPT ![w].pc = "next", ![w].next = @ + 1, ![w].due = 0]
    BY DEF D!ProviderAnswers
  <1> QED  BY <1>1, <1>4, <1>6, <1>7, AttemptOver

\* Time passes only up to the first moment somebody stops waiting.
LEMMA DecisionTickStep ==
    ASSUME DecisionInvariant, D!Tick, UNCHANGED pinned PROVE DecisionInvariant'
  <1>1. /\ time < DecisionClock /\ time' = time + 1
        /\ UNCHANGED <<breaker, decider, stored, decisionFaults>>
    BY DEF D!Tick
  <1>2. time' \in 0 .. DecisionClock
    BY <1>1, DecisionBounds DEF DecisionInvariant, DecisionStore
  <1>3. DecisionStore'
    BY <1>1, <1>2 DEF DecisionInvariant, DecisionStore, Latest
  <1>4. ASSUME NEW w \in Workers PROVE Decides(decider[w])' /\ Remembers(w)'
    <2>1. /\ decider[w] \in Deciders /\ Decides(decider[w]) /\ time \in Nat
          /\ decider[w].pc # "next" /\ (decider[w].pc = "calling" => time < decider[w].due)
      BY DeciderIs DEF D!Tick
    <2>2. CASE decider[w].pc = "calling"
      <3>1. PICK due \in Nat, deadline \in Nat :
                /\ due = decider[w].due /\ deadline = decider[w].deadline
                /\ time < due /\ due <= deadline
        BY <2>1, <2>2 DEF Deciders, Decides
      <3>2. time + 1 <= due /\ time + 1 <= deadline
        BY <2>1, <3>1
      <3> QED  BY <1>1, <2>1, <2>2, <3>1, <3>2, DeciderIs DEF Decides, Latest, Remembers
    <2>3. CASE decider[w].pc # "calling"
      BY <1>1, <2>1, <2>3, DeciderIs DEF Decides, Latest, Remembers
    <2> QED  BY <2>2, <2>3
  <1> QED  BY <1>1, <1>3, <1>4 DEF DecisionInvariant, Meet

LEMMA OtherRunsStep ==
    ASSUME DecisionInvariant, D!OtherRuns, UNCHANGED pinned PROVE DecisionInvariant'
  <1>1. PICK p \in D!Providers : \E b \in {D!Closed, D!RecordFailure(breaker["deployment"][p])} :
            breaker' = [breaker EXCEPT !["deployment"][p] = b]
    BY DEF D!OtherRuns
  <1>2. /\ UNCHANGED <<time, decider, stored, decisionFaults>> /\ "deployment" \in D!Chains
        /\ breaker \in [D!Chains -> [D!Providers -> Tripping]]
    BY DEF D!OtherRuns, D!Chains, DecisionInvariant, DecisionStore
  <1>3. breaker["deployment"][p] \in Tripping
    BY <1>1, <1>2
  <1>4. D!Closed \in Tripping /\ D!RecordFailure(breaker["deployment"][p]) \in Tripping
    BY <1>3, DeciderAway, BreakerTyped
  <1>5. PICK b \in Tripping : breaker' = [breaker EXCEPT !["deployment"][p] = b]
    BY <1>1, <1>4
  <1>6. breaker' \in [D!Chains -> [D!Providers -> Tripping]]
    <2>1. PICK row_ : row_ = [breaker["deployment"] EXCEPT ![p] = b]
      OBVIOUS
    <2>2. row_ \in [D!Providers -> Tripping]
      BY <1>2, <2>1
    <2>3. breaker' = [breaker EXCEPT !["deployment"] = row_]
      BY <1>2, <1>5, <2>1
    <2> QED  BY <1>2, <2>2, <2>3
  <1>7. DecisionStore'
    BY <1>2, <1>6 DEF DecisionInvariant, DecisionStore, Latest
  <1> QED  BY <1>2, <1>7 DEF DecisionInvariant, Decides, Latest, Remembers, Meet

LEMMA DecisionSteps ==
    ASSUME DecisionInvariant, D!DecisionNext PROVE DecisionInvariant'
  <1>1. UNCHANGED pinned
    BY DEF D!DecisionNext
  <1>2. ASSUME NEW w \in Workers, D!WalkStep(w) \/ D!WalkDies(w) PROVE DecisionInvariant'
    BY <1>1, <1>2, StartWalkStep, DecideStep, NextProviderStep, ProviderFailsStep,
       ProviderAnswersStep, RememberStep, LeavesStep
       DEF D!WalkStep
  <1>3. ASSUME NEW r \in Runs, D!ResetRun(r) PROVE DecisionInvariant'
    BY <1>1, <1>3, ResetRunStep
  <1>4. CASE D!OtherRuns \/ D!Tick
    BY <1>1, <1>4, OtherRunsStep, DecisionTickStep
  <1> QED  BY <1>2, <1>3, <1>4 DEF D!DecisionNext

LEMMA DecisionSafe ==
    ASSUME DecisionInvariant
    PROVE  D!DecisionTypeOK /\ D!DecisionFitsBudget /\ D!WindowIsLatest
  <1>1. D!DecisionTypeOK
    BY DEF DecisionInvariant, DecisionStore, D!DecisionTypeOK, Deciders, Decides, Tripping, D!Threshold
  <1>2. D!DecisionFitsBudget
    BY DEF DecisionInvariant, Decides, D!DecisionFitsBudget
  <1>3. D!WindowIsLatest
    BY DEF DecisionInvariant, DecisionStore, Latest, D!WindowIsLatest
  <1> QED  BY <1>1, <1>2, <1>3

\* What is stored of a phase shrinks by a reset, or at the hand of a walk that began
\* without being able to read it or that had a rival.
Forgets(r) ==
    \E w \in Workers : /\ decider[w].run = r /\ decider[w].pc = "act"
                       /\ stored'[r] = D!WithStep(decider[w].memory)
                       /\ decider[w].blind \/ decider[w].shared

LEMMA DecisionForgets ==
    ASSUME DecisionInvariant, [D!DecisionNext]_(D!decisionVars), NEW r \in Runs,
           stored'[r].total < stored[r].total
    PROVE  stored'[r] = D!Fresh \/ Forgets(r)
  <1>1. stored[r] \in D!Memories /\ stored[r].total \in Nat
    BY MemoryShape DEF DecisionInvariant, DecisionStore
  <1>2. stored' # stored
    BY <1>1
  <1>3. \/ \E q \in Runs : D!ResetRun(q)
        \/ \E w \in Workers : D!Remember(w)
    BY <1>2 DEF D!decisionVars, D!DecisionNext, D!WalkStep, D!StartWalk, D!Decide, D!NextProvider,
       D!ProviderFails, D!ProviderTimesOut, D!ProviderAnswers, D!PhaseOver, D!WalkDies,
       D!OtherRuns, D!Tick
  <1>4. ASSUME NEW q \in Runs, D!ResetRun(q) PROVE stored'[r] = D!Fresh
    BY <1>1, <1>4 DEF D!ResetRun, D!ClearPhaseScratchpads, DecisionInvariant, DecisionStore
  <1>5. ASSUME NEW w \in Workers, D!Remember(w) PROVE Forgets(r)
    <2>1. PICK old \in D!Memories, q \in Runs :
              /\ old = decider[w].memory /\ q = decider[w].run /\ decider[w].pc = "act"
              /\ Latest(old) /\ old.total < MaxTotal
      BY <1>5, DeciderIs DEF D!Remember, Deciders, Decides
    <2>2. PICK m \in D!Memories : m = D!WithStep(old) /\ m.total = old.total + 1
      BY <2>1, WithStepIsLatest
    <2>3. stored' = [stored EXCEPT ![q] = m] \/ stored' = stored
      BY <1>5, <2>1, <2>2 DEF D!Remember, D!SavePhaseScratchpad
    <2>4. q = r /\ stored'[r] = m
      BY <1>1, <1>2, <2>3 DEF DecisionInvariant, DecisionStore
    <2>5. old.total \in Nat /\ stored[r].total > old.total + 1
      BY <1>1, <2>1, <2>2, <2>4, MemoryShape
    <2>6. ~(stored[r].total <= old.total)
      BY <1>1, <2>5
    <2>7. decider[w].blind \/ decider[w].shared
      BY <2>1, <2>4, <2>6 DEF DecisionInvariant, Remembers
    <2> QED  BY <2>1, <2>2, <2>4, <2>7 DEF Forgets
  <1> QED  BY <1>3, <1>4, <1>5

-----------------------------------------------------------------------------
(* A step of another part leaves each part as it was.                         *)

LEMMA ProofStutters ==
    ASSUME ProofInvariant, UNCHANGED proved PROVE ProofInvariant'
  <1>1. ProofLedger'
    BY DEF proved, ProofInvariant, ProofLedger, C!ValuesStayHome
  <1> QED  BY <1>1 DEF proved, ProofInvariant, Publishes, C!ValidationPolicy

LEMMA EnrichmentStutters ==
    ASSUME EnrichmentInvariant, UNCHANGED enrichmentVars PROVE EnrichmentInvariant'
  <1>1. UNCHANGED <<policy, cache, holder, call, clock, deploys, faults>>
    BY DEF enrichmentVars
  <1>2. EnrichmentTypes' /\ (call \in [Callers -> Calls])'
    BY <1>1 DEF EnrichmentInvariant, EnrichmentTypes
  <1>3. ASSUME NEW c \in Callers PROVE Enriches(call[c])'
    BY <1>1 DEF EnrichmentInvariant, Enriches, Grounded, CandidateUrls, OnPolicy
  <1>4. ASSUME NEW c \in Callers, NEW k \in Keys PROVE (holder[k] = c <=> Holds(call[c], k))'
    BY <1>1 DEF EnrichmentInvariant, Holds, KeyAt, CandidateUrls, OnPolicy
  <1>5. ASSUME NEW c \in Callers
        PROVE  (call[c].at = "ask" /\ call[c].stage \in Inner => ~Hit(KeyAt(call[c])))'
    BY <1>1 DEF EnrichmentInvariant, Hit, Live, Readable, Grounded, KeyAt, CandidateUrls, OnPolicy
  <1> QED  BY <1>2, <1>3, <1>4, <1>5 DEF EnrichmentInvariant

LEMMA ResearchStutters ==
    ASSUME ResearchInvariant, UNCHANGED researched PROVE ResearchInvariant'
  <1>1. UNCHANGED <<builder, web, profiles, bound, committed, served, builds>>
    BY DEF researched
  <1>2. ASSUME NEW body PROVE Backed(body)' <=> Backed(body)
    BY <1>1 DEF Backed, TextsOf
  <1>3. ResearchStore'
    BY <1>1, <1>2 DEF ResearchInvariant, ResearchStore
  <1>4. ASSUME NEW w \in Walks PROVE Researches(builder[w])'
    BY <1>1, <1>2 DEF ResearchInvariant, Researches
  <1> QED  BY <1>1, <1>3, <1>4 DEF ResearchInvariant

LEMMA DecisionStutters ==
    ASSUME DecisionInvariant, UNCHANGED decided PROVE DecisionInvariant'
  <1>1. UNCHANGED <<time, breaker, decider, stored, pinned, decisionFaults>>
    BY DEF decided
  <1>2. DecisionStore'
    BY <1>1 DEF DecisionInvariant, DecisionStore, Latest
  <1> QED  BY <1>1, <1>2 DEF DecisionInvariant, Decides, Latest, Remembers, Meet

-----------------------------------------------------------------------------
(* The theorems: a behaviour of MCSpec keeps the invariant of its part.       *)

\* What a run holds is what it acts with (ops/onboarding/browser_session.py,
\* ops/onboarding/publishers.py): with any number of workers, lost messages, deaths,
\* reattached sessions and redeploys, a session is driven only after its id is durable
\* and only inside the allow-list the service confirmed, an account is registered with
\* the pair that is staged for it, and the login route binds complete pairs only.
THEOREM BindingIsSafe == MCSpec => []BindingSafety
  <1> DEFINE allVars == <<part, enrichmentVars, decided, researched, bound_, signed, proved>>
             Inv == /\ part = "session" => SessionInvariant
                    /\ part = "identity" => IdentityInvariant
  <1>1. MCInit => Inv
    BY SessionInitially, IdentityInitially DEF MCInit
  <1>2. Inv /\ [MCNext]_allVars => Inv'
    <2>1. ASSUME Inv, [MCNext]_allVars, part' = "session" PROVE SessionInvariant'
      <3>1. part = "session" /\ SessionInvariant
        BY <2>1 DEF MCNext
      <3>2. S!BindingNext \/ UNCHANGED bound_
        BY <2>1, <3>1 DEF MCNext
      <3>3. CASE S!BindingNext
        BY <3>1, <3>3, SessionSteps
      <3>4. CASE UNCHANGED bound_
        BY <3>1, <3>4 DEF bound_, SessionInvariant, SessionTypes, Kept, Drives
      <3> QED  BY <3>2, <3>3, <3>4
    <2>2. ASSUME Inv, [MCNext]_allVars, part' = "identity" PROVE IdentityInvariant'
      <3>1. part = "identity" /\ IdentityInvariant
        BY <2>2 DEF MCNext
      <3>2. B!BindingsNext \/ UNCHANGED signed
        BY <2>2, <3>1 DEF MCNext
      <3>3. CASE B!BindingsNext
        BY <3>1, <3>3, IdentitySteps
      <3>4. CASE UNCHANGED signed
        BY <3>1, <3>4
           DEF signed, IdentityInvariant, B!BindingsTypeOK, Signs, B!AccountIsHeld,
               B!BoundIsComplete
      <3> QED  BY <3>2, <3>3, <3>4
    <2> QED  BY <2>1, <2>2
  <1>3. Inv => BindingSafety
    BY SessionSafe DEF BindingSafety, IdentityInvariant
  <1> QED  BY <1>1, <1>2, <1>3, PTL DEF MCSpec


\* A credential's proof (ops/onboarding/credentials.py, ops/onboarding/publishers.py):
\* with any number of workers, deaths, superseded generations and lost answers, a run
\* owns one connection, a completed run's connection is published, and a value is
\* sent to its vendor and to the vault and nowhere else.
THEOREM ProofIsSafe == MCSpec => []ProofSafety
  <1> DEFINE allVars == <<part, enrichmentVars, decided, researched, bound_, signed, proved>>
             Inv == part = "proof" => ProofInvariant
  <1>1. MCInit => Inv
    BY ProofInitially DEF MCInit
  <1>2. Inv /\ [MCNext]_allVars => Inv'
    <2>1. ASSUME Inv, [MCNext]_allVars, part' = "proof" PROVE ProofInvariant'
      <3>1. part = "proof" /\ ProofInvariant
        BY <2>1 DEF MCNext
      <3>2. C!ProofNext \/ UNCHANGED proved
        BY <2>1, <3>1 DEF MCNext
      <3>3. CASE C!ProofNext
        BY <3>1, <3>3, ProofSteps
      <3>4. CASE UNCHANGED proved
        BY <3>1, <3>4, ProofStutters
      <3> QED  BY <3>2, <3>3, <3>4
    <2> QED  BY <2>1
  <1>3. Inv => ProofSafety
    BY ProofSafe DEF ProofSafety
  <1> QED  BY <1>1, <1>2, <1>3, PTL DEF MCSpec

\* What research hands on (ops/research/operational_research.py, ops/providers/profile_builder.py):
\* with any number of callers of any keys, and of walks of any runs, an answer is paid
\* for once, no key stays locked, a served route is grounded in the policy in force,
\* and a stored profile's fields lie on one domain and were stated by pages that were
\* really served, the anchors by two different texts.
THEOREM ResearchIsSafe == MCSpec => []ResearchSafety
  <1> DEFINE allVars == <<part, enrichmentVars, decided, researched, bound_, signed, proved>>
             Inv == /\ part = "enrichment" => EnrichmentInvariant
                    /\ part = "research" => ResearchInvariant
  <1>1. MCInit => Inv
    BY EnrichmentInitially, ResearchInitially DEF MCInit
  <1>2. Inv /\ [MCNext]_allVars => Inv'
    <2>1. ASSUME Inv, [MCNext]_allVars, part' = "enrichment" PROVE EnrichmentInvariant'
      <3>1. part = "enrichment" /\ EnrichmentInvariant
        BY <2>1 DEF MCNext
      <3>2. EnrichmentNext \/ UNCHANGED enrichmentVars
        BY <2>1, <3>1 DEF MCNext
      <3>3. CASE EnrichmentNext
        BY <3>1, <3>3, EnrichmentSteps
      <3>4. CASE UNCHANGED enrichmentVars
        BY <3>1, <3>4, EnrichmentStutters
      <3> QED  BY <3>2, <3>3, <3>4
    <2>2. ASSUME Inv, [MCNext]_allVars, part' = "research" PROVE ResearchInvariant'
      <3>1. part = "research" /\ ResearchInvariant
        BY <2>2 DEF MCNext
      <3>2. P!ResearchNext \/ UNCHANGED researched
        BY <2>2, <3>1 DEF MCNext
      <3>3. CASE P!ResearchNext
        BY <3>1, <3>3, ResearchSteps
      <3>4. CASE UNCHANGED researched
        BY <3>1, <3>4, ResearchStutters
      <3> QED  BY <3>2, <3>3, <3>4
    <2> QED  BY <2>1, <2>2
  <1>3. Inv => ResearchSafety
    BY EnrichmentSafe, ResearchSafe DEF ResearchSafety
  <1> QED  BY <1>1, <1>2, <1>3, PTL DEF MCSpec

\* One decision (JsonInference.generate) ends within its budget, with any chain of
\* providers, any slices and any breakers, and the window of a phase's memory
\* (ops/onboarding/scratchpad.py) is its latest steps.
THEOREM DecisionIsSafe == MCSpec => []DecisionSafety
  <1> DEFINE allVars == <<part, enrichmentVars, decided, researched, bound_, signed, proved>>
  <1>1. MCInit => DecisionInvariant
    BY DecisionInitially DEF MCInit
  <1>2. DecisionInvariant /\ [MCNext]_allVars => DecisionInvariant'
    <2>1. ASSUME DecisionInvariant, [MCNext]_allVars PROVE DecisionInvariant'
      <3>1. D!DecisionNext \/ UNCHANGED decided
        BY <2>1, Zenon DEF MCNext
      <3>3. CASE D!DecisionNext
        BY <2>1, <3>3, DecisionSteps
      <3>4. CASE UNCHANGED decided
        BY <2>1, <3>4, DecisionStutters
      <3> QED  BY <3>1, <3>3, <3>4
    <2> QED  BY <2>1
  <1>3. DecisionInvariant => DecisionSafety
    BY DecisionSafe DEF DecisionSafety
  <1> QED  BY <1>1, <1>2, <1>3, PTL DEF MCSpec

\* What a phase remembers survives every worker's death (ops/onboarding/scratchpad.py
\* load_scratchpad, save_scratchpad), with any number of workers, two of them walking
\* one run included: the stored memory shrinks by an operator's reset, or by the save
\* of a walk that could not read it when it began or that overlapped another walk of
\* its run.  A run that is walked by one worker at a time loses nothing to a death.
THEOREM MemorySurvivesCrash == MCSpec => MemoryOutlivesCrash
  <1> DEFINE allVars == <<part, enrichmentVars, decided, researched, bound_, signed, proved>>
             Shrinks == \A r \in Runs :
                 stored'[r].total < stored[r].total =>
                    \/ stored'[r] = D!Fresh
                    \/ \E w \in Workers : /\ decider[w].run = r /\ decider[w].pc = "act"
                                          /\ stored'[r] = D!WithStep(decider[w].memory)
                                          /\ decider[w].blind \/ decider[w].shared
  <1>1. MCInit => DecisionInvariant
    BY DecisionInitially DEF MCInit
  <1>2. DecisionInvariant /\ [MCNext]_allVars => DecisionInvariant' /\ [Shrinks]_(D!decisionVars)
    <2>1. ASSUME DecisionInvariant, [MCNext]_allVars
          PROVE  DecisionInvariant' /\ [Shrinks]_(D!decisionVars)
      <3>1. D!DecisionNext \/ UNCHANGED decided
        BY <2>1, Zenon DEF MCNext
      <3>3. CASE D!DecisionNext
        BY <2>1, <3>3, DecisionSteps, DecisionForgets DEF Forgets
      <3>4. CASE UNCHANGED decided
        BY <2>1, <3>4, DecisionStutters DEF decided, D!decisionVars
      <3> QED  BY <3>1, <3>3, <3>4
    <2> QED  BY <2>1
  <1> QED  BY <1>1, <1>2, PTL DEF MCSpec, MemoryOutlivesCrash, D!MemoryOutlivesCrash

=============================================================================
