------------------------ MODULE BrowserServiceProofs ------------------------
(* The browser service: slots and displays come back exactly once, for any    *)
(* sessions, displays, requests and timings (BrowserSessions); agent and       *)
(* person never drive a page together and nobody watches a capture (LiveView); *)
(* the takeover continues only the pause it read (Takeover).                   *)
EXTENDS MCBrowserService, TLAPS, FiniteSetTheorems, WellFoundedInduction

-----------------------------------------------------------------------------
(* The inductive invariant.                                                   *)

Closes(a, s) == actor[a].on = s /\ actor[a].pc \in {"drain", "detach", "stop"}
Busy(s) == {r \in Requests : actor[r].pc = "op" /\ actor[r].on = s}

\* Who is at work is at work on a session that exists; only requests launch and
\* operate, and a session somebody closes is never active again.
ActorsStand ==
    \A a \in Actors :
        /\ actor[a].pc = "idle" => actor[a].on = None
        /\ actor[a].pc # "idle" => actor[a].on \in Sessions /\ sess[actor[a].on].life # "none"
        /\ actor[a].pc \in {"launch", "op"} => a \in Requests
        /\ actor[a].pc \in {"drain", "detach", "stop"} => sess[actor[a].on].life \in {"CLOSING", "CLOSED"}

\* An id that is not in the registry leases no display.
UnlistedIsBare ==
    \A s \in Sessions :
        /\ sess[s].life \in {"none", "CLOSED"} => sess[s].slot = None
        /\ sess[s].life = "none" => ~sess[s].context /\ s \notin todo

\* A session that is being launched is nobody else's business: no time passes, so
\* the janitor does not list it, and it has no context to be leased.
LaunchIsPrivate ==
    \A r \in Requests : \A s \in Sessions : actor[r] = [pc |-> "launch", on |-> s] =>
        /\ sess[s].life = "ACTIVE" /\ ~sess[s].context /\ s \notin todo
        /\ sess[s].idle = 0 /\ sess[s].age = 0
        /\ \A a \in Actors : a # r => actor[a].on # s

OperationsAreCounted == \A s \in Sessions : sess[s].ops = Cardinality(Busy(s))

SlotsAreHeld == IsFiniteSet(held) /\ CapacityExact

OneCloser ==
    regime.single =>
        \A a, b \in Actors : \A s \in Sessions : Closes(a, s) /\ Closes(b, s) => a = b

\* A running Chromium belongs to a session of the registry, on its own display, and
\* to the worker's registry or to the one who is taking it down.
ChromeIsHosted ==
    regime.single /\ regime.clean =>
        \A p \in chrome :
            /\ Live(p[1]) /\ sess[p[1]].context /\ p[2] = sess[p[1]].slot
            /\ p[1] \in pool \/ \E a \in Actors : actor[a] = [pc |-> "stop", on |-> p[1]]

\* Within the drain's time a closer leaves it with no operation in flight.
DetachIsQuiet ==
    regime.timely =>
        \A a \in Actors : \A s \in Sessions : actor[a] = [pc |-> "detach", on |-> s] => sess[s].ops = 0

PoolInv ==
    /\ TypeOK /\ SlotsAreHeld /\ DisplaysPartition /\ ActorsStand /\ UnlistedIsBare
    /\ LaunchIsPrivate /\ OperationsAreCounted /\ OneCloser /\ ChromeIsHosted /\ DetachIsQuiet

-----------------------------------------------------------------------------
(* Helpers.                                                                   *)

\* The display a create is given is a free one.
LEMMA MinIsFree ==
  ASSUME NEW S, S \subseteq Nat, S # {}
  PROVE  Min(S) \in S
<1>1. PICK x \in S : \A y \in S : ~(<<y, x>> \in OpToRel(<, Nat))
  BY WFMin, NatLessThanWellFounded
<1>2. \A y \in S : x =< y
  <2> SUFFICES ASSUME NEW y \in S PROVE x =< y
    OBVIOUS
  <2>1. x \in Nat /\ y \in Nat
    OBVIOUS
  <2>2. ~(y < x)
    BY <1>1, <2>1 DEF OpToRel
  <2> QED BY <2>1, <2>2
<1> QED BY <1>2 DEF Min

LEMMA MinOfTwo ==
  ASSUME NEW m \in Int, NEW n \in Int
  PROVE  Min({m, n}) = IF m <= n THEN m ELSE n
<1>1. \E x \in {m, n} : \A y \in {m, n} : x =< y
  OBVIOUS
<1>2. Min({m, n}) \in {m, n} /\ \A y \in {m, n} : Min({m, n}) =< y
  BY <1>1 DEF Min
<1> QED BY <1>2

LEMMA MaxOfTwo ==
  ASSUME NEW m \in Int, NEW n \in Int
  PROVE  Max({m, n}) = IF m >= n THEN m ELSE n
<1>1. \E x \in {m, n} : \A y \in {m, n} : x >= y
  OBVIOUS
<1>2. Max({m, n}) \in {m, n} /\ \A y \in {m, n} : Max({m, n}) >= y
  BY <1>1 DEF Max
<1> QED BY <1>2

\* The requests at work on a session are finitely many.
LEMMA SomeRequests ==
  ASSUME NEW S \in SUBSET Requests
  PROVE  IsFiniteSet(S) /\ Cardinality(S) \in 0..Cardinality(Requests)
<1>1. IsFiniteSet(Requests)
  BY ActorsAssumption
<1>2. IsFiniteSet(S) /\ Cardinality(S) <= Cardinality(Requests)
  BY <1>1, FS_Subset
<1> QED BY <1>1, <1>2, FS_CardinalityType

\* Closing a session makes it no other kind of record.
LEMMA MarkedIsSession ==
  ASSUME NEW rec \in ManagedSession, NEW b \in BOOLEAN
  PROVE  /\ MarkClosing(rec) \in ManagedSession
         /\ [MarkClosing(rec) EXCEPT !.context = b] \in ManagedSession
         /\ MarkClosing(rec).life = "CLOSING" /\ MarkClosing(rec).slot = rec.slot
         /\ MarkClosing(rec).ops = rec.ops /\ MarkClosing(rec).context = rec.context
         /\ [MarkClosing(rec) EXCEPT !.context = b].life = "CLOSING"
         /\ [MarkClosing(rec) EXCEPT !.context = b].slot = rec.slot
         /\ [MarkClosing(rec) EXCEPT !.context = b].ops = rec.ops
         /\ [MarkClosing(rec) EXCEPT !.context = b].context = b
BY DEF ManagedSession, MarkClosing

LEMMA FieldsOfSession ==
  ASSUME NEW rec \in ManagedSession, NEW b \in BOOLEAN
  PROVE  /\ [rec EXCEPT !.human = b] \in ManagedSession
         /\ [rec EXCEPT !.failed = b] \in ManagedSession
         /\ [rec EXCEPT !.context = b] \in ManagedSession
BY DEF ManagedSession

LEMMA RestIsPlace ==
  /\ Rest \in Place
  /\ \A s \in Sessions : \A pc \in {"idle", "launch", "op", "drain", "detach", "stop"} :
        [pc |-> pc, on |-> s] \in Place
  /\ \A p \in Place : \A pc \in {"idle", "launch", "op", "drain", "detach", "stop"} :
        [p EXCEPT !.pc = pc] \in Place
BY DEF Rest, Place

LEMMA RetainKeeps ==
  ASSUME PoolInv, NEW s \in Sessions, Retain(s)
  PROVE  PoolInv'
<1> USE DEF PoolInv, Actors, Retain
<1>1. TypeOK'
  BY WindowsAssumption DEF TypeOK, ManagedSession, Place
<1>2. SlotsAreHeld'
  BY DEF TypeOK, ManagedSession, Place, SlotsAreHeld, CapacityExact, Live, ActorsStand
<1>3. DisplaysPartition'
  BY DEF TypeOK, ManagedSession, Place, DisplaysPartition, ActorsStand
<1>4. ActorsStand'
  BY DEF TypeOK, ManagedSession, Place, ActorsStand
<1>5. UnlistedIsBare'
  BY DEF TypeOK, ManagedSession, Place, UnlistedIsBare, ActorsStand
<1>6. LaunchIsPrivate'
  BY DEF TypeOK, ManagedSession, Place, LaunchIsPrivate, ActorsStand
<1>7. OperationsAreCounted'
  BY DEF TypeOK, ManagedSession, Place, OperationsAreCounted, Busy, ActorsStand
<1>8. OneCloser'
  BY DEF TypeOK, ManagedSession, Place, OneCloser, Closes, ActorsStand
<1>9. ChromeIsHosted'
  BY DEF TypeOK, ManagedSession, Place, ChromeIsHosted, Live, ActorsStand
<1>10. DetachIsQuiet'
  BY DEF TypeOK, ManagedSession, Place, DetachIsQuiet, ActorsStand
<1> QED BY <1>1, <1>2, <1>3, <1>4, <1>5, <1>6, <1>7, <1>8, <1>9, <1>10

LEMMA HumanAttachesKeeps ==
  ASSUME PoolInv, NEW s \in Sessions, HumanAttaches(s)
  PROVE  PoolInv'
<1> USE DEF PoolInv, Actors, HumanAttaches
<1>1. TypeOK'
  <2>1. sess[s] \in ManagedSession /\ (~sess[s].human) \in BOOLEAN
    BY DEF TypeOK
  <2>2. sess' \in [Sessions -> ManagedSession]
    BY <2>1, FieldsOfSession DEF TypeOK
  <2> QED BY <2>2 DEF TypeOK
<1>2. SlotsAreHeld'
  BY DEF TypeOK, ManagedSession, Place, SlotsAreHeld, CapacityExact, Live, ActorsStand
<1>3. DisplaysPartition'
  BY DEF TypeOK, ManagedSession, Place, DisplaysPartition, ActorsStand
<1>4. ActorsStand'
  BY DEF TypeOK, ManagedSession, Place, ActorsStand
<1>5. UnlistedIsBare'
  BY DEF TypeOK, ManagedSession, Place, UnlistedIsBare, ActorsStand
<1>6. LaunchIsPrivate'
  BY DEF TypeOK, ManagedSession, Place, LaunchIsPrivate, ActorsStand
<1>7. OperationsAreCounted'
  BY DEF TypeOK, ManagedSession, Place, OperationsAreCounted, Busy, ActorsStand
<1>8. OneCloser'
  BY DEF TypeOK, ManagedSession, Place, OneCloser, Closes, ActorsStand
<1>9. ChromeIsHosted'
  BY DEF TypeOK, ManagedSession, Place, ChromeIsHosted, Live, ActorsStand
<1>10. DetachIsQuiet'
  BY DEF TypeOK, ManagedSession, Place, DetachIsQuiet, ActorsStand
<1> QED BY <1>1, <1>2, <1>3, <1>4, <1>5, <1>6, <1>7, <1>8, <1>9, <1>10

LEMMA DrainGateKeeps ==
  ASSUME PoolInv, DrainGate
  PROVE  PoolInv'
<1> USE DEF PoolInv, Actors, DrainGate
<1>1. TypeOK'
  BY WindowsAssumption DEF TypeOK, ManagedSession, Place
<1>2. SlotsAreHeld'
  BY DEF TypeOK, ManagedSession, Place, SlotsAreHeld, CapacityExact, Live, ActorsStand
<1>3. DisplaysPartition'
  BY DEF TypeOK, ManagedSession, Place, DisplaysPartition, ActorsStand
<1>4. ActorsStand'
  BY DEF TypeOK, ManagedSession, Place, ActorsStand
<1>5. UnlistedIsBare'
  BY DEF TypeOK, ManagedSession, Place, UnlistedIsBare, ActorsStand
<1>6. LaunchIsPrivate'
  BY DEF TypeOK, ManagedSession, Place, LaunchIsPrivate, ActorsStand
<1>7. OperationsAreCounted'
  BY DEF TypeOK, ManagedSession, Place, OperationsAreCounted, Busy, ActorsStand
<1>8. OneCloser'
  BY DEF TypeOK, ManagedSession, Place, OneCloser, Closes, ActorsStand
<1>9. ChromeIsHosted'
  BY DEF TypeOK, ManagedSession, Place, ChromeIsHosted, Live, ActorsStand
<1>10. DetachIsQuiet'
  BY DEF TypeOK, ManagedSession, Place, DetachIsQuiet, ActorsStand
<1> QED BY <1>1, <1>2, <1>3, <1>4, <1>5, <1>6, <1>7, <1>8, <1>9, <1>10

LEMMA DrainedKeeps ==
  ASSUME PoolInv, NEW a \in Actors, Drained(a)
  PROVE  PoolInv'
<1> USE DEF PoolInv, Actors, Drained, At
<1>1. TypeOK'
  <2>1. actor[a].on \in Sessions /\ sess[actor[a].on] \in ManagedSession
    BY DEF TypeOK, ActorsStand
  <2>2. sess' \in [Sessions -> ManagedSession]
    BY <2>1, FieldsOfSession DEF TypeOK
  <2>3. actor' \in [Actors -> Place]
    BY <2>1, RestIsPlace DEF TypeOK
  <2> QED BY <2>2, <2>3 DEF TypeOK
<1>2. SlotsAreHeld'
  BY DEF TypeOK, ManagedSession, Place, SlotsAreHeld, CapacityExact, Live, ActorsStand
<1>3. DisplaysPartition'
  BY DEF TypeOK, ManagedSession, Place, DisplaysPartition, ActorsStand
<1>4. ActorsStand'
  BY DEF TypeOK, ManagedSession, Place, ActorsStand
<1>5. UnlistedIsBare'
  BY DEF TypeOK, ManagedSession, Place, UnlistedIsBare, ActorsStand
<1>6. LaunchIsPrivate'
  BY DEF TypeOK, ManagedSession, Place, LaunchIsPrivate, ActorsStand
<1>7. OperationsAreCounted'
  BY DEF TypeOK, ManagedSession, Place, OperationsAreCounted, Busy, ActorsStand
<1>8. OneCloser'
  BY DEF TypeOK, ManagedSession, Place, OneCloser, Closes, ActorsStand
<1>9. ChromeIsHosted'
  BY DEF TypeOK, ManagedSession, Place, ChromeIsHosted, Live, ActorsStand
<1>10. DetachIsQuiet'
  BY DEF TypeOK, ManagedSession, Place, DetachIsQuiet, ActorsStand
<1> QED BY <1>1, <1>2, <1>3, <1>4, <1>5, <1>6, <1>7, <1>8, <1>9, <1>10

LEMMA DetachFailsKeeps ==
  ASSUME PoolInv, NEW a \in Actors, DetachFails(a)
  PROVE  PoolInv'
<1> USE DEF PoolInv, Actors, DetachFails, At, Rest
<1>1. TypeOK'
  <2>1. actor[a].on \in Sessions /\ sess[actor[a].on] \in ManagedSession
    BY DEF TypeOK, ActorsStand
  <2>2. sess' \in [Sessions -> ManagedSession]
    BY <2>1, FieldsOfSession DEF TypeOK
  <2>3. actor' \in [Actors -> Place]
    BY <2>1, RestIsPlace DEF TypeOK
  <2> QED BY <2>2, <2>3 DEF TypeOK
<1>2. SlotsAreHeld'
  BY DEF TypeOK, ManagedSession, Place, SlotsAreHeld, CapacityExact, Live, ActorsStand
<1>3. DisplaysPartition'
  BY DEF TypeOK, ManagedSession, Place, DisplaysPartition, ActorsStand
<1>4. ActorsStand'
  BY DEF TypeOK, ManagedSession, Place, ActorsStand
<1>5. UnlistedIsBare'
  BY DEF TypeOK, ManagedSession, Place, UnlistedIsBare, ActorsStand
<1>6. LaunchIsPrivate'
  <2> SUFFICES ASSUME NEW r \in Requests, NEW s \in Sessions, actor'[r] = [pc |-> "launch", on |-> s]
              PROVE  LaunchIsPrivate!(r)!(s)!2'
    BY DEF LaunchIsPrivate
  <2>1. r # a /\ actor[r] = [pc |-> "launch", on |-> s]
    BY DEF TypeOK
  <2>2. actor[a].on # s
    BY <2>1 DEF LaunchIsPrivate
  <2>3. sess'[s] = sess[s] /\ UNCHANGED todo
    BY <2>2 DEF TypeOK
  <2>4. \A b \in Actors : b # r => actor'[b].on # s
    BY <2>1, NoneAssumption DEF LaunchIsPrivate, TypeOK
  <2> QED BY <2>1, <2>3, <2>4 DEF LaunchIsPrivate
<1>7. OperationsAreCounted'
  BY DEF TypeOK, ManagedSession, Place, OperationsAreCounted, Busy, ActorsStand
<1>8. OneCloser'
  BY DEF TypeOK, ManagedSession, Place, OneCloser, Closes, ActorsStand
<1>9. ChromeIsHosted'
  BY DEF TypeOK, ManagedSession, Place, ChromeIsHosted, Live, ActorsStand
<1>10. DetachIsQuiet'
  BY DEF TypeOK, ManagedSession, Place, DetachIsQuiet, ActorsStand
<1> QED BY <1>1, <1>2, <1>3, <1>4, <1>5, <1>6, <1>7, <1>8, <1>9, <1>10

LEMMA DeleteKeeps ==
  ASSUME PoolInv, NEW r \in Requests, NEW s \in Sessions, Delete(r, s)
  PROVE  PoolInv'
<1> USE DEF PoolInv, Actors, Delete, At, MarkClosing, Live
<1>1. TypeOK'
  <2>1. s \in Sessions /\ sess[s] \in ManagedSession
    BY DEF TypeOK, ActorsStand
  <2>2. sess' \in [Sessions -> ManagedSession]
    BY <2>1, MarkedIsSession DEF TypeOK
  <2>3. actor' \in [Actors -> Place]
    BY <2>1, RestIsPlace DEF TypeOK
  <2> QED BY <2>2, <2>3 DEF TypeOK
<1>2. SlotsAreHeld'
  BY DEF TypeOK, ManagedSession, Place, SlotsAreHeld, CapacityExact, Live, ActorsStand
<1>3. DisplaysPartition'
  BY DEF TypeOK, ManagedSession, Place, DisplaysPartition, ActorsStand
<1>4. ActorsStand'
  BY DEF TypeOK, ManagedSession, Place, ActorsStand
<1>5. UnlistedIsBare'
  BY DEF TypeOK, ManagedSession, Place, UnlistedIsBare, ActorsStand
<1>6. LaunchIsPrivate'
  BY DEF TypeOK, ManagedSession, Place, LaunchIsPrivate, ActorsStand
<1>7. OperationsAreCounted'
  BY DEF TypeOK, ManagedSession, Place, OperationsAreCounted, Busy, ActorsStand
<1>8. OneCloser'
  BY DEF OneCloser, Closes, Closing, TypeOK, Place
<1>9. ChromeIsHosted'
  BY DEF TypeOK, ManagedSession, Place, ChromeIsHosted, Live, ActorsStand
<1>10. DetachIsQuiet'
  BY DEF TypeOK, ManagedSession, Place, DetachIsQuiet, ActorsStand
<1> QED BY <1>1, <1>2, <1>3, <1>4, <1>5, <1>6, <1>7, <1>8, <1>9, <1>10

LEMMA SweepKeeps ==
  ASSUME PoolInv, Sweep
  PROVE  PoolInv'
<1> USE DEF PoolInv, Actors, Sweep, At
<1>1. TypeOK'
  BY DEF TypeOK, ExpiredSessionIds
<1>2. SlotsAreHeld'
  BY DEF TypeOK, ManagedSession, Place, SlotsAreHeld, CapacityExact, Live, ActorsStand
<1>3. DisplaysPartition'
  BY DEF TypeOK, ManagedSession, Place, DisplaysPartition, ActorsStand
<1>4. ActorsStand'
  BY DEF TypeOK, ManagedSession, Place, ActorsStand
<1>5. UnlistedIsBare'
  BY DEF UnlistedIsBare, ExpiredSessionIds
<1>6. LaunchIsPrivate'
  BY WindowsAssumption DEF LaunchIsPrivate, ExpiredSessionIds, SessionExpiry, TypeOK, ManagedSession
<1>7. OperationsAreCounted'
  BY DEF TypeOK, ManagedSession, Place, OperationsAreCounted, Busy, ActorsStand
<1>8. OneCloser'
  BY DEF TypeOK, ManagedSession, Place, OneCloser, Closes, ActorsStand
<1>9. ChromeIsHosted'
  BY DEF TypeOK, ManagedSession, Place, ChromeIsHosted, Live, ActorsStand
<1>10. DetachIsQuiet'
  BY DEF TypeOK, ManagedSession, Place, DetachIsQuiet, ActorsStand
<1> QED BY <1>1, <1>2, <1>3, <1>4, <1>5, <1>6, <1>7, <1>8, <1>9, <1>10

LEMMA LaunchedKeeps ==
  ASSUME PoolInv, NEW r \in Requests, Launched(r)
  PROVE  PoolInv'
<1> USE DEF PoolInv, Actors, Launched, At, Rest
<1>1. TypeOK'
  <2>1. actor[r].on \in Sessions /\ sess[actor[r].on] \in ManagedSession
    BY DEF TypeOK, ActorsStand
  <2>2. sess' \in [Sessions -> ManagedSession]
    BY <2>1, FieldsOfSession DEF TypeOK
  <2>3. actor' \in [Actors -> Place]
    BY <2>1, RestIsPlace DEF TypeOK
  <2>4. sess[actor[r].on].slot \in Displays \cup {None}
    BY <2>1 DEF ManagedSession
  <2> QED BY <2>1, <2>2, <2>3, <2>4 DEF TypeOK
<1>2. SlotsAreHeld'
  BY DEF TypeOK, ManagedSession, Place, SlotsAreHeld, CapacityExact, Live, ActorsStand
<1>3. DisplaysPartition'
  BY DEF TypeOK, ManagedSession, Place, DisplaysPartition, ActorsStand
<1>4. ActorsStand'
  BY DEF TypeOK, ManagedSession, Place, ActorsStand
<1>5. UnlistedIsBare'
  BY DEF TypeOK, ManagedSession, Place, UnlistedIsBare, ActorsStand
<1>6. LaunchIsPrivate'
  <2> SUFFICES ASSUME NEW q \in Requests, NEW s \in Sessions, actor'[q] = [pc |-> "launch", on |-> s]
              PROVE  LaunchIsPrivate!(q)!(s)!2'
    BY DEF LaunchIsPrivate
  <2>1. q # r /\ actor[q] = [pc |-> "launch", on |-> s]
    BY DEF TypeOK
  <2>2. actor[r].on # s
    BY <2>1 DEF LaunchIsPrivate
  <2>3. sess'[s] = sess[s] /\ UNCHANGED todo
    BY <2>2 DEF TypeOK
  <2>4. \A b \in Actors : b # q => actor'[b].on # s
    BY <2>1, NoneAssumption DEF LaunchIsPrivate, TypeOK
  <2> QED BY <2>1, <2>3, <2>4 DEF LaunchIsPrivate
<1>7. OperationsAreCounted'
  BY DEF TypeOK, ManagedSession, Place, OperationsAreCounted, Busy, ActorsStand
<1>8. OneCloser'
  BY DEF TypeOK, ManagedSession, Place, OneCloser, Closes, ActorsStand
<1>9. ChromeIsHosted'
  <2> SUFFICES ASSUME regime.single /\ regime.clean, NEW p \in chrome'
              PROVE  ChromeIsHosted!2!(p)'
    BY DEF ChromeIsHosted
  <2> DEFINE s == actor[r].on
  <2>1. s \in Sessions /\ sess[s].life = "ACTIVE" /\ ~sess[s].context
    BY DEF ActorsStand, LaunchIsPrivate, TypeOK, Place
  <2>2. CASE p = <<s, sess[s].slot>>
    BY <2>1, <2>2 DEF TypeOK, ManagedSession, Live
  <2>3. CASE p \in chrome
    <3>1. /\ Live(p[1]) /\ sess[p[1]].context /\ p[2] = sess[p[1]].slot
          /\ p[1] \in pool \/ \E a \in Actors : actor[a] = [pc |-> "stop", on |-> p[1]]
      BY <2>3 DEF ChromeIsHosted
    <3>2. p[1] # s /\ p[1] \in Sessions
      BY <2>1, <2>3, <3>1 DEF TypeOK
    <3>3. sess'[p[1]] = sess[p[1]] /\ pool \subseteq pool'
      BY <3>2 DEF TypeOK
    <3>4. \A a \in Actors : actor[a].pc = "stop" => actor'[a] = actor[a]
      BY DEF TypeOK
    <3> QED BY <3>1, <3>3, <3>4 DEF Live
  <2> QED BY <2>2, <2>3
<1>10. DetachIsQuiet'
  BY DEF TypeOK, ManagedSession, Place, DetachIsQuiet, ActorsStand
<1> QED BY <1>1, <1>2, <1>3, <1>4, <1>5, <1>6, <1>7, <1>8, <1>9, <1>10

LEMMA LaunchFailsKeeps ==
  ASSUME PoolInv, NEW r \in Requests, NEW started \in BOOLEAN, LaunchFails(r, started)
  PROVE  PoolInv'
<1> USE DEF PoolInv, Actors, LaunchFails, At, MarkClosing
<1>1. TypeOK'
  <2>1. actor[r].on \in Sessions /\ sess[actor[r].on] \in ManagedSession
    BY DEF TypeOK, ActorsStand
  <2>2. sess' \in [Sessions -> ManagedSession]
    BY <2>1, MarkedIsSession DEF TypeOK
  <2>3. actor' \in [Actors -> Place]
    BY <2>1, RestIsPlace DEF TypeOK
  <2>4. sess[actor[r].on].slot \in Displays \cup {None}
    BY <2>1 DEF ManagedSession
  <2> QED BY <2>1, <2>2, <2>3, <2>4 DEF TypeOK
<1>2. SlotsAreHeld'
  <2> DEFINE s == actor[r].on
  <2>1. s \in Sessions /\ sess[s].life = "ACTIVE"
    BY DEF ActorsStand, LaunchIsPrivate, TypeOK, Place
  <2>2. \A t \in Sessions : Live(t)' <=> Live(t)
    BY <2>1 DEF TypeOK, ManagedSession, Live
  <2> QED BY <2>2 DEF SlotsAreHeld, CapacityExact
<1>3. DisplaysPartition'
  BY DEF TypeOK, ManagedSession, Place, DisplaysPartition, ActorsStand
<1>4. ActorsStand'
  BY DEF TypeOK, ManagedSession, Place, ActorsStand
<1>5. UnlistedIsBare'
  BY DEF TypeOK, ManagedSession, Place, UnlistedIsBare, ActorsStand
<1>6. LaunchIsPrivate'
  BY DEF TypeOK, ManagedSession, Place, LaunchIsPrivate, ActorsStand
<1>7. OperationsAreCounted'
  BY DEF TypeOK, ManagedSession, Place, OperationsAreCounted, Busy, ActorsStand
<1>8. OneCloser'
  <2> DEFINE s == actor[r].on
  <2>1. s \in Sessions /\ \A b \in Actors : b # r => actor[b].on # s
    BY DEF ActorsStand, LaunchIsPrivate, TypeOK, Place
  <2>2. \A b \in Actors : b # r => actor'[b] = actor[b]
    BY DEF TypeOK
  <2>3. actor'[r].on = s
    BY DEF TypeOK, Place
  <2> QED BY <2>1, <2>2, <2>3 DEF OneCloser, Closes
<1>9. ChromeIsHosted'
  <2> SUFFICES ASSUME regime.single /\ regime.clean, NEW p \in chrome'
              PROVE  ChromeIsHosted!2!(p)'
    BY DEF ChromeIsHosted
  <2> DEFINE s == actor[r].on
  <2>1. s \in Sessions /\ sess[s].life = "ACTIVE" /\ ~sess[s].context /\ sess[s] \in ManagedSession
    BY DEF ActorsStand, LaunchIsPrivate, TypeOK, Place
  <2>2. CASE started /\ p = <<s, sess[s].slot>>
    <3>1. sess'[s] = [MarkClosing(sess[s]) EXCEPT !.context = TRUE] /\ s \in pool'
      BY <2>1, <2>2 DEF TypeOK
    <3>2. sess'[s].life = "CLOSING" /\ sess'[s].context /\ sess'[s].slot = sess[s].slot
      <4> HIDE DEF MarkClosing, LaunchFails
      <4>1. TRUE \in BOOLEAN
        OBVIOUS
      <4>2. /\ [MarkClosing(sess[s]) EXCEPT !.context = TRUE].life = "CLOSING"
            /\ [MarkClosing(sess[s]) EXCEPT !.context = TRUE].context = TRUE
            /\ [MarkClosing(sess[s]) EXCEPT !.context = TRUE].slot = sess[s].slot
        BY <2>1, <4>1, MarkedIsSession
      <4> QED BY <3>1, <4>2
    <3> QED BY <2>2, <3>1, <3>2 DEF Live
  <2>3. CASE p \in chrome
    <3>1. /\ Live(p[1]) /\ sess[p[1]].context /\ p[2] = sess[p[1]].slot
          /\ p[1] \in pool \/ \E a \in Actors : actor[a] = [pc |-> "stop", on |-> p[1]]
      BY <2>3 DEF ChromeIsHosted
    <3>2. p[1] # s /\ p[1] \in Sessions
      BY <2>1, <2>3, <3>1 DEF TypeOK
    <3>3. sess'[p[1]] = sess[p[1]] /\ pool \subseteq pool'
      BY <3>2 DEF TypeOK
    <3>4. \A a \in Actors : actor[a].pc = "stop" => actor'[a] = actor[a]
      BY DEF TypeOK
    <3>5. Live(p[1])' /\ sess'[p[1]].context /\ p[2] = sess'[p[1]].slot
      BY <3>1, <3>3 DEF Live
    <3>6. CASE p[1] \in pool
      BY <3>3, <3>5, <3>6
    <3>7. CASE \E a \in Actors : actor[a] = [pc |-> "stop", on |-> p[1]]
      <4>1. PICK a \in Actors : actor[a] = [pc |-> "stop", on |-> p[1]]
        BY <3>7
      <4>2. actor'[a] = [pc |-> "stop", on |-> p[1]]
        BY <3>4, <4>1
      <4> QED BY <3>5, <4>2
    <3> QED BY <3>1, <3>6, <3>7
  <2>4. chrome' \subseteq chrome \cup (IF started THEN {<<s, sess[s].slot>>} ELSE {})
    OBVIOUS
  <2> QED BY <2>2, <2>3, <2>4
<1>10. DetachIsQuiet'
  BY DEF TypeOK, ManagedSession, Place, DetachIsQuiet, ActorsStand
<1> QED BY <1>1, <1>2, <1>3, <1>4, <1>5, <1>6, <1>7, <1>8, <1>9, <1>10

LEMMA FinishCloseKeeps ==
  ASSUME PoolInv, NEW a \in Actors, NEW s \in Sessions, Closes(a, s), FinishClose(a, s),
         UNCHANGED <<accepting, todo, pool, regime>>, chrome' \subseteq chrome,
         regime.single /\ regime.clean => \A p \in chrome' : p[1] # s
  PROVE  PoolInv'
<1> USE DEF PoolInv, Actors, FinishClose, Rest, Closes
<1>1. TypeOK'
  <2>1. sess[s] \in ManagedSession
    BY DEF TypeOK
  <2>2. [sess[s] EXCEPT !.life = "CLOSED", !.context = FALSE, !.slot = None, !.human = FALSE] \in ManagedSession
    BY <2>1 DEF ManagedSession
  <2>3. sess' \in [Sessions -> ManagedSession]
    BY <2>2 DEF TypeOK
  <2>4. actor' \in [Actors -> Place]
    BY RestIsPlace DEF TypeOK
  <2> QED BY <2>3, <2>4 DEF TypeOK
<1>2. SlotsAreHeld'
  <2>1. \A t \in Sessions : Live(t)' <=> Live(t) /\ t # s
    BY DEF TypeOK, ManagedSession, Live
  <2>2. held' = {t \in Sessions : Live(t)'}
    BY <2>1 DEF SlotsAreHeld, CapacityExact
  <2>3. IsFiniteSet(held') /\ Cardinality(held') <= Cardinality(held)
    <3>1. IsFiniteSet(held)
      BY DEF SlotsAreHeld
    <3>2. IsFiniteSet(held \ {s}) /\ Cardinality(held \ {s}) = IF s \in held THEN Cardinality(held) - 1 ELSE Cardinality(held)
      BY <3>1, FS_RemoveElement
    <3>3. Cardinality(held) \in Nat
      BY <3>1, FS_CardinalityType
    <3> QED BY <3>2, <3>3
  <2> QED BY <2>2, <2>3, FS_CardinalityType, CapacityAssumption DEF SlotsAreHeld, CapacityExact
<1>3. DisplaysPartition'
  <2>1. \A t \in Sessions : sess'[t].slot = IF t = s THEN None ELSE sess[t].slot
    BY DEF TypeOK, ManagedSession
  <2>2. sess[s].slot \in Displays \cup {None}
    BY DEF TypeOK, ManagedSession
  <2> QED BY <2>1, <2>2, NoneAssumption DEF DisplaysPartition, TypeOK
<1>4. ActorsStand'
  <2>1. \A t \in Sessions : sess'[t].life = IF t = s THEN "CLOSED" ELSE sess[t].life
    BY DEF TypeOK, ManagedSession
  <2>2. \A b \in Actors : actor'[b] = IF b = a THEN [pc |-> "idle", on |-> None] ELSE actor[b]
    BY DEF TypeOK
  <2> SUFFICES ASSUME NEW b \in Actors
              PROVE  ActorsStand!(b)'
    BY DEF ActorsStand
  <2>3. CASE b = a
    BY <2>2, <2>3
  <2>4. CASE b # a
    <3>1. actor'[b] = actor[b]
      BY <2>2, <2>4
    <3>2. ActorsStand!(b)
      BY DEF ActorsStand
    <3>3. CASE actor[b].pc = "idle"
      BY <3>1, <3>2, <3>3
    <3>4. CASE actor[b].pc # "idle"
      <4>1. actor[b].on \in Sessions
        BY <3>2, <3>4
      <4>2. sess'[actor[b].on].life = "CLOSED" \/ sess'[actor[b].on].life = sess[actor[b].on].life
        BY <2>1, <4>1
      <4> QED BY <3>1, <3>2, <3>4, <4>1, <4>2
    <3> QED BY <3>3, <3>4
  <2> QED BY <2>3, <2>4
<1>5. UnlistedIsBare'
  BY DEF TypeOK, ManagedSession, Place, UnlistedIsBare, ActorsStand
<1>6. LaunchIsPrivate'
  <2> SUFFICES ASSUME NEW q \in Requests, NEW t \in Sessions, actor'[q] = [pc |-> "launch", on |-> t]
              PROVE  LaunchIsPrivate!(q)!(t)!2'
    BY DEF LaunchIsPrivate
  <2>1. q # a /\ actor[q] = [pc |-> "launch", on |-> t]
    BY DEF TypeOK
  <2>2. actor[a].on # t
    BY <2>1 DEF LaunchIsPrivate
  <2>3. sess'[t] = sess[t] /\ UNCHANGED todo
    BY <2>2 DEF TypeOK
  <2>4. \A b \in Actors : b # q => actor'[b].on # t
    BY <2>1, <2>2, NoneAssumption DEF LaunchIsPrivate, TypeOK, Place
  <2> QED BY <2>1, <2>3, <2>4 DEF LaunchIsPrivate
<1>7. OperationsAreCounted'
  <2>1. \A t \in Sessions : sess'[t].ops = sess[t].ops
    BY DEF TypeOK, ManagedSession
  <2>2. \A b \in Actors : actor'[b] = IF b = a THEN [pc |-> "idle", on |-> None] ELSE actor[b]
    BY DEF TypeOK
  <2>3. \A t \in Sessions : Busy(t)' = Busy(t)
    BY <2>2 DEF Busy
  <2> QED BY <2>1, <2>3 DEF OperationsAreCounted
<1>8. OneCloser'
  <2>1. \A b \in Actors : actor'[b] = IF b = a THEN [pc |-> "idle", on |-> None] ELSE actor[b]
    BY DEF TypeOK
  <2> QED BY <2>1 DEF OneCloser
<1>9. ChromeIsHosted'
  <2> SUFFICES ASSUME regime.single /\ regime.clean, NEW p \in chrome'
              PROVE  ChromeIsHosted!2!(p)'
    BY DEF ChromeIsHosted
  <2>1. /\ Live(p[1]) /\ sess[p[1]].context /\ p[2] = sess[p[1]].slot
        /\ p[1] \in pool \/ \E b \in Actors : actor[b] = [pc |-> "stop", on |-> p[1]]
    BY DEF ChromeIsHosted
  <2>2. p[1] # s /\ p[1] \in Sessions
    BY DEF TypeOK
  <2>3. sess'[p[1]] = sess[p[1]]
    BY <2>2 DEF TypeOK
  <2>4. \A b \in Actors : actor[b] = [pc |-> "stop", on |-> p[1]] => actor'[b] = actor[b]
    BY <2>2 DEF TypeOK
  <2> QED BY <2>1, <2>3, <2>4 DEF Live
<1>10. DetachIsQuiet'
  <2>1. \A t \in Sessions : sess'[t].ops = sess[t].ops
    BY DEF TypeOK, ManagedSession
  <2>2. \A b \in Actors : actor'[b] = IF b = a THEN [pc |-> "idle", on |-> None] ELSE actor[b]
    BY DEF TypeOK
  <2>3. \A b \in Actors : \A t \in Sessions :
           actor'[b] = [pc |-> "detach", on |-> t] => actor[b] = [pc |-> "detach", on |-> t]
    BY <2>2
  <2> SUFFICES ASSUME regime.timely, NEW b \in Actors, NEW t \in Sessions,
                      actor'[b] = [pc |-> "detach", on |-> t]
              PROVE  sess'[t].ops = 0
    BY DEF DetachIsQuiet
  <2>4. sess[t].ops = 0
    BY <2>3 DEF DetachIsQuiet
  <2> QED BY <2>1, <2>4
<1> QED BY <1>1, <1>2, <1>3, <1>4, <1>5, <1>6, <1>7, <1>8, <1>9, <1>10

-----------------------------------------------------------------------------
(* The steps that begin and end a session.                                    *)

\* What the registry holds for a session that has just been admitted.
IsBorn(rec, born, slot) ==
    /\ rec \in ManagedSession /\ rec.life = born /\ rec.slot = slot
    /\ rec.ops = 0 /\ rec.idle = 0 /\ rec.age = 0 /\ ~rec.context

LEMMA BornFromUnborn ==
  ASSUME NEW g \in Displays \cup {None}
  PROVE  /\ IsBorn([[Unborn EXCEPT !.life = "ACTIVE"] EXCEPT !.slot = g], "ACTIVE", g)
         /\ IsBorn(MarkClosing([Unborn EXCEPT !.life = "ACTIVE"]), "CLOSING", None)
<1>1. Cardinality(Requests) \in Nat
  BY ActorsAssumption, FS_CardinalityType
<1>2. IsBorn(Unborn, "none", None)
  BY <1>1, WindowsAssumption DEF IsBorn, ManagedSession, Unborn
<1> HIDE DEF Unborn
<1>3. IsBorn([Unborn EXCEPT !.life = "ACTIVE"], "ACTIVE", None)
  BY <1>2 DEF IsBorn, ManagedSession
<1> DEFINE born == [Unborn EXCEPT !.life = "ACTIVE"]
<1> HIDE DEF born
<1>4. IsBorn(born, "ACTIVE", None)
  BY <1>3 DEF born
<1>5. IsBorn([born EXCEPT !.slot = g], "ACTIVE", g) /\ IsBorn(MarkClosing(born), "CLOSING", None)
  BY <1>4 DEF IsBorn, ManagedSession, MarkClosing
<1> QED BY <1>5 DEF born

\* A create launches the session on a display that was free, or closes it again.
LEMMA CreateDoes ==
  ASSUME TypeOK, NEW r \in Requests, NEW s \in Sessions, Create(r, s)
  PROVE  \E g \in Displays \cup {None}, pc \in {"launch", "drain"}, rec \in ManagedSession :
            /\ IsBorn(rec, IF pc = "launch" THEN "ACTIVE" ELSE "CLOSING", g)
            /\ sess' = [sess EXCEPT ![s] = rec]
            /\ actor' = [actor EXCEPT ![r] = [pc |-> pc, on |-> s]]
            /\ g = None => free' = free
            /\ g # None => g \in free /\ free' = free \ {g}
<1> DEFINE born == [Unborn EXCEPT !.life = "ACTIVE"]
           given == IF free = {} THEN None ELSE Min(free)
           opened == [born EXCEPT !.slot = given]
           closed == MarkClosing(born)
<1>0. given \in Displays \cup {None} /\ (free # {} => given \in free)
  BY MinIsFree, DisplaysAssumption DEF TypeOK
<1>1. IsBorn(opened, "ACTIVE", given) /\ IsBorn(closed, "CLOSING", None)
  BY <1>0, BornFromUnborn
<1>2. CASE Displays # {} /\ free = {}
  <2>1. /\ sess' = [sess EXCEPT ![s] = closed]
        /\ actor' = [actor EXCEPT ![r] = [pc |-> "drain", on |-> s]] /\ free' = free
    BY <1>2 DEF Create
  <2> HIDE DEF closed
  <2>2. closed \in ManagedSession
    BY <1>1 DEF IsBorn
  <2> QED BY <1>1, <2>1, <2>2
<1>3. CASE ~(Displays # {} /\ free = {})
  <2>1. /\ sess' = [sess EXCEPT ![s] = opened]
        /\ actor' = [actor EXCEPT ![r] = [pc |-> "launch", on |-> s]] /\ free' = free \ {given}
    BY <1>3 DEF Create
  <2>2. (given = None => free' = free) /\ (given # None => given \in free)
    BY <1>0, <2>1, NoneAssumption DEF TypeOK
  <2> HIDE DEF opened, given
  <2>3. opened \in ManagedSession
    BY <1>1 DEF IsBorn
  <2> QED BY <1>0, <1>1, <2>1, <2>2, <2>3
<1> QED BY <1>2, <1>3

LEMMA CreateKeeps ==
  ASSUME PoolInv, NEW r \in Requests, NEW s \in Sessions, Create(r, s)
  PROVE  PoolInv'
<1> PICK g \in Displays \cup {None}, pc \in {"launch", "drain"}, rec \in ManagedSession :
            /\ IsBorn(rec, IF pc = "launch" THEN "ACTIVE" ELSE "CLOSING", g)
            /\ sess' = [sess EXCEPT ![s] = rec]
            /\ actor' = [actor EXCEPT ![r] = [pc |-> pc, on |-> s]]
            /\ g = None => free' = free
            /\ g # None => g \in free /\ free' = free \ {g}
  BY CreateDoes DEF PoolInv
<1> DEFINE born == IF pc = "launch" THEN "ACTIVE" ELSE "CLOSING"
<1>a. /\ actor[r].pc = "idle" /\ sess[s].life = "none" /\ Cardinality(held) < Capacity
      /\ held' = held \cup {s} /\ UNCHANGED <<accepting, todo, pool, chrome, regime>>
  BY DEF Create, At
<1>b. /\ TypeOK /\ SlotsAreHeld /\ DisplaysPartition /\ ActorsStand /\ UnlistedIsBare
      /\ LaunchIsPrivate /\ OperationsAreCounted /\ OneCloser /\ ChromeIsHosted /\ DetachIsQuiet
  BY DEF PoolInv
<1>c. r \in Actors /\ (\A a \in Actors : a = r \/ actor'[a] = actor[a]) /\ actor'[r] = [pc |-> pc, on |-> s]
  BY <1>b DEF TypeOK, Actors
<1>d. (\A t \in Sessions : t = s \/ sess'[t] = sess[t]) /\ sess'[s] = rec
  BY <1>b DEF TypeOK
<1>e. \A a \in Actors : actor[a].on # s
  BY <1>a, <1>b, NoneAssumption DEF ActorsStand
<1>f. /\ sess'[s].life = born /\ sess'[s].ops = 0 /\ sess'[s].slot = g /\ ~sess'[s].context
      /\ sess'[s].idle = 0 /\ sess'[s].age = 0
  BY <1>d DEF IsBorn
<1>g. born \in {"ACTIVE", "CLOSING"} /\ (pc = "launch" => born = "ACTIVE") /\ (pc = "drain" => born = "CLOSING")
  OBVIOUS
<1> HIDE DEF born
<1>1. TypeOK'
  <2>3. [pc |-> pc, on |-> s] \in Place
    BY DEF Place
  <2>4. sess' \in [Sessions -> ManagedSession]
    BY <1>b DEF TypeOK
  <2>5. actor' \in [Actors -> Place] /\ free' \subseteq Displays
    BY <1>b, <2>3 DEF TypeOK
  <2> QED BY <1>a, <1>b, <2>4, <2>5 DEF TypeOK
<1>2. SlotsAreHeld'
  <2>1. \A t \in Sessions : Live(t)' <=> Live(t) \/ t = s
    BY <1>d, <1>f, <1>g DEF Live
  <2>2. held' = {t \in Sessions : Live(t)'}
    BY <1>a, <1>b, <2>1 DEF SlotsAreHeld, CapacityExact
  <2>3. IsFiniteSet(held) /\ s \notin held
    BY <1>a, <1>b DEF SlotsAreHeld, CapacityExact, Live
  <2>4. IsFiniteSet(held') /\ Cardinality(held') = Cardinality(held) + 1
    BY <1>a, <2>3, FS_AddElement
  <2>5. Cardinality(held) \in Nat
    BY <2>3, FS_CardinalityType
  <2>6. Cardinality(held') <= Capacity
    BY <1>a, <2>4, <2>5, CapacityAssumption
  <2> QED BY <2>2, <2>4, <2>6 DEF SlotsAreHeld, CapacityExact
<1>3. DisplaysPartition'
  <2>1. \A t \in Sessions : sess'[t].slot = IF t = s THEN g ELSE sess[t].slot
    BY <1>d, <1>f
  <2>2. sess[s].slot = None /\ free \subseteq Displays
    BY <1>a, <1>b DEF UnlistedIsBare, TypeOK
  <2> QED BY <1>b, <2>1, <2>2, NoneAssumption DEF DisplaysPartition
<1>4. ActorsStand'
  <2> SUFFICES ASSUME NEW a \in Actors PROVE ActorsStand!(a)'
    BY DEF ActorsStand
  <2>1. CASE a = r
    BY <1>c, <1>f, <1>g, <2>1
  <2>2. CASE a # r
    <3>1. actor'[a] = actor[a] /\ ActorsStand!(a)
      BY <1>b, <1>c, <2>2 DEF ActorsStand
    <3>2. actor[a].on \in Sessions => sess'[actor[a].on] = sess[actor[a].on]
      BY <1>d, <1>e
    <3> QED BY <3>1, <3>2
  <2> QED BY <2>1, <2>2
<1>5. UnlistedIsBare'
  BY <1>a, <1>b, <1>d, <1>f, <1>g DEF UnlistedIsBare
<1>6. LaunchIsPrivate'
  <2> SUFFICES ASSUME NEW q \in Requests, NEW t \in Sessions, actor'[q] = [pc |-> "launch", on |-> t]
              PROVE  LaunchIsPrivate!(q)!(t)!2'
    BY DEF LaunchIsPrivate
  <2>1. CASE q = r
    <3>1. t = s /\ pc = "launch"
      BY <1>c, <2>1
    <3>2. \A a \in Actors : a # q => actor'[a].on # t
      BY <1>c, <1>e, <2>1, <3>1
    <3> QED BY <1>a, <1>b, <1>f, <1>g, <3>1, <3>2 DEF UnlistedIsBare
  <2>2. CASE q # r
    <3>1. q \in Actors /\ actor[q] = [pc |-> "launch", on |-> t]
      BY <1>c, <2>2 DEF Actors
    <3>2. t # s /\ LaunchIsPrivate!(q)!(t)!2
      BY <1>b, <1>e, <3>1 DEF LaunchIsPrivate
    <3>3. \A a \in Actors : a # q => actor'[a].on # t
      BY <1>c, <3>2
    <3> QED BY <1>a, <1>d, <3>2, <3>3
  <2> QED BY <2>1, <2>2
<1>7. OperationsAreCounted'
  <2>1. \A t \in Sessions : Busy(t)' = Busy(t)
    BY <1>a, <1>c DEF Busy, Actors
  <2>2. Busy(s) = {}
    BY <1>e DEF Busy, Actors
  <2> QED BY <1>b, <1>d, <1>f, <2>1, <2>2, FS_EmptySet DEF OperationsAreCounted
<1>8. OneCloser'
  BY <1>a, <1>b, <1>c, <1>e DEF OneCloser, Closes
<1>9. ChromeIsHosted'
  <2> SUFFICES ASSUME regime.single /\ regime.clean, NEW p \in chrome
              PROVE  ChromeIsHosted!2!(p)'
    BY <1>a DEF ChromeIsHosted
  <2>1. p[1] \in Sessions /\ ChromeIsHosted!2!(p)
    BY <1>b DEF ChromeIsHosted, TypeOK
  <2>2. p[1] # s
    BY <1>a, <2>1 DEF Live
  <2>3. \A a \in Actors : actor[a] = [pc |-> "stop", on |-> p[1]] => actor'[a] = actor[a]
    BY <1>a, <1>c
  <2> QED BY <1>a, <1>d, <2>1, <2>2, <2>3 DEF Live
<1>10. DetachIsQuiet'
  BY <1>a, <1>b, <1>c, <1>d, <1>f DEF DetachIsQuiet
<1> QED BY <1>1, <1>2, <1>3, <1>4, <1>5, <1>6, <1>7, <1>8, <1>9, <1>10 DEF PoolInv

-----------------------------------------------------------------------------
(* The two awaits after the relays are gone.                                  *)

LEMMA TornDownKeeps ==
  ASSUME PoolInv, NEW a \in Actors, NEW gone \in BOOLEAN, TornDown(a, gone)
  PROVE  PoolInv'
<1> DEFINE s == actor[a].on
<1>1. s \in Sessions /\ Closes(a, s)
  BY DEF PoolInv, ActorsStand, TornDown, At, Closes
<1>2. FinishClose(a, s) /\ UNCHANGED <<accepting, todo, pool, regime>> /\ chrome' \subseteq chrome
  BY DEF TornDown
<1>3. regime.single /\ regime.clean => \A p \in chrome' : p[1] # s
  BY DEF TornDown
<1> HIDE DEF s
<1> QED BY <1>1, <1>2, <1>3, FinishCloseKeeps

LEMMA DetachedKeeps ==
  ASSUME PoolInv, NEW a \in Actors, Detached(a)
  PROVE  PoolInv'
<1> DEFINE s == actor[a].on
<1>b. /\ TypeOK /\ SlotsAreHeld /\ DisplaysPartition /\ ActorsStand /\ UnlistedIsBare
      /\ LaunchIsPrivate /\ OperationsAreCounted /\ OneCloser /\ ChromeIsHosted /\ DetachIsQuiet
  BY DEF PoolInv
<1>a. actor[a].pc = "detach" /\ UNCHANGED <<accepting, todo, chrome, regime>>
  BY DEF Detached, At
<1>c. s \in Sessions /\ Closes(a, s)
  BY <1>a, <1>b DEF ActorsStand, Closes
<1>1. CASE ~(sess[s].context /\ s \in pool)
  <2>1. FinishClose(a, s) /\ UNCHANGED pool
    BY <1>1 DEF Detached
  <2>2. ASSUME regime.single, regime.clean, NEW p \in chrome
        PROVE  p[1] # s
    <3> SUFFICES ASSUME p[1] = s PROVE FALSE
      OBVIOUS
    <3>1. sess[s].context /\ (s \in pool \/ \E b \in Actors : actor[b] = [pc |-> "stop", on |-> s])
      BY <1>b, <2>2 DEF ChromeIsHosted
    <3>2. PICK b \in Actors : actor[b] = [pc |-> "stop", on |-> s]
      BY <1>1, <3>1
    <3>3. Closes(b, s)
      BY <3>2 DEF Closes
    <3>4. b = a
      BY <1>b, <1>c, <2>2, <3>3 DEF OneCloser
    <3> QED BY <1>a, <3>2, <3>4
  <2> HIDE DEF s
  <2> QED BY <1>a, <1>c, <2>1, <2>2, FinishCloseKeeps
<1>2. CASE sess[s].context /\ s \in pool
  <2>a. pool' = pool \ {s} /\ actor' = [actor EXCEPT ![a].pc = "stop"] /\ UNCHANGED <<sess, held, free>>
    BY <1>2 DEF Detached
  <2>b. \A b \in Actors : actor'[b] = IF b = a THEN [pc |-> "stop", on |-> s] ELSE actor[b]
    BY <1>b, <2>a DEF TypeOK, Place
  <2>1. TypeOK'
    <3>1. actor' \in [Actors -> Place]
      BY <1>b, <2>a, RestIsPlace DEF TypeOK
    <3> QED BY <1>a, <1>b, <2>a, <3>1 DEF TypeOK
  <2>2. SlotsAreHeld' /\ DisplaysPartition' /\ UnlistedIsBare'
    BY <1>a, <1>b, <2>a DEF SlotsAreHeld, CapacityExact, Live, DisplaysPartition, UnlistedIsBare
  <2>3. ActorsStand'
    BY <1>a, <1>b, <1>c, <2>a, <2>b DEF ActorsStand
  <2>4. LaunchIsPrivate'
    BY <1>a, <1>b, <2>a, <2>b DEF LaunchIsPrivate, Actors
  <2>5. OperationsAreCounted'
    <3>1. \A t \in Sessions : Busy(t)' = Busy(t)
      BY <1>a, <2>b DEF Busy, Actors
    <3> QED BY <1>b, <2>a, <3>1 DEF OperationsAreCounted
  <2>6. OneCloser'
    <3>1. \A b \in Actors, t \in Sessions : Closes(b, t)' => Closes(b, t)
      BY <1>c, <2>b DEF Closes
    <3> QED BY <1>a, <1>b, <3>1 DEF OneCloser
  <2>7. ChromeIsHosted'
    <3> SUFFICES ASSUME regime.single /\ regime.clean, NEW p \in chrome
                PROVE  ChromeIsHosted!2!(p)'
      BY <1>a DEF ChromeIsHosted
    <3>1. ChromeIsHosted!2!(p)
      BY <1>b DEF ChromeIsHosted
    <3>2. Live(p[1])' /\ sess'[p[1]].context /\ p[2] = sess'[p[1]].slot
      BY <2>a, <3>1 DEF Live
    <3>3. CASE p[1] = s
      <4>1. actor'[a] = [pc |-> "stop", on |-> p[1]]
        BY <2>b, <3>3
      <4> QED BY <3>2, <4>1
    <3>4. CASE p[1] # s /\ p[1] \in pool
      BY <2>a, <3>2, <3>4
    <3>5. CASE \E b \in Actors : actor[b] = [pc |-> "stop", on |-> p[1]]
      <4>1. PICK b \in Actors : actor[b] = [pc |-> "stop", on |-> p[1]]
        BY <3>5
      <4>2. actor'[b] = [pc |-> "stop", on |-> p[1]]
        BY <1>a, <2>b, <4>1
      <4> QED BY <3>2, <4>2
    <3> QED BY <3>1, <3>3, <3>4, <3>5
  <2>8. DetachIsQuiet'
    BY <1>a, <1>b, <2>a, <2>b DEF DetachIsQuiet
  <2> QED BY <2>1, <2>2, <2>3, <2>4, <2>5, <2>6, <2>7, <2>8 DEF PoolInv
<1> QED BY <1>1, <1>2

-----------------------------------------------------------------------------
(* The steps that count operations, the sweep's closes and the clock.         *)

LEMMA TouchedIsSession ==
  ASSUME NEW rec \in ManagedSession, NEW n \in 0..Cardinality(Requests), NEW b \in BOOLEAN
  PROVE  /\ [rec EXCEPT !.ops = n, !.idle = 0] \in ManagedSession
         /\ [rec EXCEPT !.ops = n, !.idle = 0, !.failed = b] \in ManagedSession
<1>1. 0 \in 0..Idle + 1
  BY WindowsAssumption
<1> DEFINE I == 0..Idle + 1
           O == 0..Cardinality(Requests)
<1> HIDE DEF I, O
<1> QED BY <1>1 DEF ManagedSession, I, O

LEMMA LeaseKeeps ==
  ASSUME PoolInv, NEW r \in Requests, NEW s \in Sessions, Lease(r, s)
  PROVE  PoolInv'
<1>b. /\ TypeOK /\ SlotsAreHeld /\ DisplaysPartition /\ ActorsStand /\ UnlistedIsBare
      /\ LaunchIsPrivate /\ OperationsAreCounted /\ OneCloser /\ ChromeIsHosted /\ DetachIsQuiet
  BY DEF PoolInv
<1>a. /\ actor[r].pc = "idle" /\ sess[s].life = "ACTIVE" /\ sess[s].context
      /\ sess' = [sess EXCEPT ![s].ops = @ + 1, ![s].idle = 0]
      /\ actor' = [actor EXCEPT ![r] = [pc |-> "op", on |-> s]]
      /\ UNCHANGED <<held, free, accepting, todo, pool, chrome, regime>>
  BY DEF Lease, At
<1>c. r \in Actors /\ \A a \in Actors : actor'[a] = IF a = r THEN [pc |-> "op", on |-> s] ELSE actor[a]
  BY <1>a, <1>b DEF TypeOK, Actors
<1>d. /\ sess'[s] = [sess[s] EXCEPT !.ops = @ + 1, !.idle = 0] /\ sess[s] \in ManagedSession
      /\ \A t \in Sessions : t = s \/ sess'[t] = sess[t]
  BY <1>a, <1>b DEF TypeOK
<1>e. /\ sess'[s].life = sess[s].life /\ sess'[s].slot = sess[s].slot /\ sess'[s].context = sess[s].context
      /\ sess'[s].ops = sess[s].ops + 1
  BY <1>d DEF ManagedSession
<1>f. \A t \in Sessions : Busy(t)' = IF t = s THEN Busy(t) \cup {r} ELSE Busy(t)
  BY <1>a, <1>c DEF Busy, Actors
<1>g. /\ IsFiniteSet(Busy(s)) /\ r \notin Busy(s) /\ Cardinality(Busy(s) \cup {r}) = Cardinality(Busy(s)) + 1
      /\ Cardinality(Busy(s) \cup {r}) \in 0..Cardinality(Requests)
  <2>1. Busy(s) \in SUBSET Requests /\ Busy(s) \cup {r} \in SUBSET Requests /\ r \notin Busy(s)
    BY <1>a DEF Busy
  <2> QED BY <2>1, SomeRequests, FS_AddElement
<1>1. TypeOK'
  <2>1. sess[s].ops + 1 \in 0..Cardinality(Requests)
    BY <1>b, <1>g DEF OperationsAreCounted
  <2>2. sess'[s] \in ManagedSession
    BY <1>d, <2>1, TouchedIsSession
  <2>3. sess' \in [Sessions -> ManagedSession]
    BY <1>a, <1>b, <1>d, <2>2 DEF TypeOK
  <2>4. actor' \in [Actors -> Place]
    BY <1>a, <1>b, RestIsPlace DEF TypeOK
  <2> QED BY <1>a, <1>b, <2>3, <2>4 DEF TypeOK
<1>2. SlotsAreHeld'
  <2>1. \A t \in Sessions : Live(t)' <=> Live(t)
    BY <1>d, <1>e DEF Live
  <2> QED BY <1>a, <1>b, <2>1 DEF SlotsAreHeld, CapacityExact
<1>3. DisplaysPartition' /\ UnlistedIsBare'
  <2>1. \A t \in Sessions : /\ sess'[t].slot = sess[t].slot /\ sess'[t].life = sess[t].life
                            /\ sess'[t].context = sess[t].context
    BY <1>d, <1>e
  <2>2. DisplaysPartition'
    <3>1. UNCHANGED free
      BY <1>a
    <3> QED BY <1>b, <2>1, <3>1 DEF DisplaysPartition
  <2>3. UnlistedIsBare'
    BY <1>a, <1>b, <2>1 DEF UnlistedIsBare
  <2> QED BY <2>2, <2>3
<1>4. ActorsStand'
  <2> SUFFICES ASSUME NEW a \in Actors PROVE ActorsStand!(a)'
    BY DEF ActorsStand
  <2>1. CASE a = r
    BY <1>a, <1>c, <1>e, <2>1
  <2>2. CASE a # r
    <3>1. actor'[a] = actor[a] /\ ActorsStand!(a)
      BY <1>b, <1>c, <2>2 DEF ActorsStand
    <3>2. \A t \in Sessions : sess'[t].life = sess[t].life
      BY <1>d, <1>e
    <3>3. actor[a].pc \in {"drain", "detach", "stop"} => actor[a].pc # "idle"
      OBVIOUS
    <3> QED BY <3>1, <3>2, <3>3
  <2> QED BY <2>1, <2>2
<1>5. LaunchIsPrivate'
  <2> SUFFICES ASSUME NEW q \in Requests, NEW t \in Sessions, actor'[q] = [pc |-> "launch", on |-> t]
              PROVE  LaunchIsPrivate!(q)!(t)!2'
    BY DEF LaunchIsPrivate
  <2>1. q # r /\ q \in Actors /\ actor[q] = [pc |-> "launch", on |-> t]
    BY <1>c DEF Actors
  <2>2. t # s /\ LaunchIsPrivate!(q)!(t)!2
    BY <1>a, <1>b, <2>1 DEF LaunchIsPrivate
  <2>3. \A a \in Actors : a # q => actor'[a].on # t
    BY <1>c, <2>2
  <2> QED BY <1>a, <1>d, <2>2, <2>3
<1>6. OperationsAreCounted'
  BY <1>b, <1>d, <1>e, <1>f, <1>g DEF OperationsAreCounted
<1>7. OneCloser'
  <2>1. \A b \in Actors, t \in Sessions : Closes(b, t)' => Closes(b, t)
    BY <1>c DEF Closes
  <2> QED BY <1>a, <1>b, <2>1 DEF OneCloser
<1>8. ChromeIsHosted'
  <2> SUFFICES ASSUME regime.single /\ regime.clean, NEW p \in chrome
              PROVE  ChromeIsHosted!2!(p)'
    BY <1>a DEF ChromeIsHosted
  <2>1. p[1] \in Sessions /\ ChromeIsHosted!2!(p)
    BY <1>b DEF ChromeIsHosted, TypeOK
  <2>2. \A a \in Actors : actor[a] = [pc |-> "stop", on |-> p[1]] => actor'[a] = actor[a]
    BY <1>a, <1>c
  <2>3. /\ sess'[p[1]].slot = sess[p[1]].slot /\ sess'[p[1]].life = sess[p[1]].life
        /\ sess'[p[1]].context = sess[p[1]].context
    BY <1>d, <1>e, <2>1
  <2>4. CASE p[1] \in pool
    BY <1>a, <2>1, <2>3, <2>4 DEF Live
  <2>5. CASE \E a \in Actors : actor[a] = [pc |-> "stop", on |-> p[1]]
    <3>1. \E a \in Actors : actor'[a] = [pc |-> "stop", on |-> p[1]]
      BY <2>2, <2>5
    <3> QED BY <2>1, <2>3, <3>1 DEF Live
  <2> QED BY <2>1, <2>4, <2>5
<1>9. DetachIsQuiet'
  <2> SUFFICES ASSUME regime.timely, NEW a \in Actors, NEW t \in Sessions, actor'[a] = [pc |-> "detach", on |-> t]
              PROVE  sess'[t].ops = 0
    BY <1>a DEF DetachIsQuiet
  <2>1. actor[a] = [pc |-> "detach", on |-> t]
    BY <1>c
  <2>2. sess[t].life \in {"CLOSING", "CLOSED"} /\ sess[t].ops = 0
    BY <1>b, <2>1 DEF ActorsStand, DetachIsQuiet
  <2> QED BY <1>a, <1>d, <2>2
<1> QED BY <1>1, <1>2, <1>3, <1>4, <1>5, <1>6, <1>7, <1>8, <1>9 DEF PoolInv

LEMMA OperationEndsKeeps ==
  ASSUME PoolInv, NEW r \in Requests, NEW fails \in BOOLEAN, OperationEnds(r, fails)
  PROVE  PoolInv'
<1> DEFINE s == actor[r].on
<1>b. /\ TypeOK /\ SlotsAreHeld /\ DisplaysPartition /\ ActorsStand /\ UnlistedIsBare
      /\ LaunchIsPrivate /\ OperationsAreCounted /\ OneCloser /\ ChromeIsHosted /\ DetachIsQuiet
  BY DEF PoolInv
<1>a. /\ actor[r].pc = "op"
      /\ sess' = [sess EXCEPT ![s].ops = Max({0, @ - 1}), ![s].idle = 0,
                              ![s].failed = IF fails THEN FALSE ELSE @]
      /\ actor' = [actor EXCEPT ![r] = Rest]
      /\ UNCHANGED <<held, free, accepting, todo, pool, chrome, regime>>
  BY DEF OperationEnds, At
<1>s. r \in Actors /\ s \in Sessions
  BY <1>a, <1>b DEF ActorsStand, Actors
<1>c. \A a \in Actors : actor'[a] = IF a = r THEN [pc |-> "idle", on |-> None] ELSE actor[a]
  BY <1>a, <1>b DEF TypeOK, Rest
<1>f. \A t \in Sessions : Busy(t)' = IF t = s THEN Busy(t) \ {r} ELSE Busy(t)
  BY <1>a, <1>c DEF Busy, Actors
<1>g. /\ r \in Busy(s) /\ Cardinality(Busy(s) \ {r}) = Cardinality(Busy(s)) - 1
      /\ Cardinality(Busy(s) \ {r}) \in 0..Cardinality(Requests)
      /\ Cardinality(Busy(s)) \in 0..Cardinality(Requests)
  <2>1. Busy(s) \in SUBSET Requests /\ Busy(s) \ {r} \in SUBSET Requests /\ r \in Busy(s)
    BY <1>a DEF Busy
  <2>2. IsFiniteSet(Busy(s))
    BY <2>1, SomeRequests
  <2> QED BY <2>1, <2>2, SomeRequests, FS_RemoveElement
<1>h. sess[s].ops = Cardinality(Busy(s)) /\ Max({0, sess[s].ops - 1}) = sess[s].ops - 1
  <2>1. sess[s].ops = Cardinality(Busy(s))
    BY <1>b, <1>s DEF OperationsAreCounted
  <2>2. sess[s].ops \in Int /\ sess[s].ops - 1 >= 0 /\ Cardinality(Requests) \in Nat
    <3>1. Cardinality(Requests) \in Nat
      BY ActorsAssumption, FS_CardinalityType
    <3> QED BY <1>g, <2>1, <3>1
  <2>3. Max({0, sess[s].ops - 1}) = IF 0 >= sess[s].ops - 1 THEN 0 ELSE sess[s].ops - 1
    BY <2>2, MaxOfTwo
  <2> QED BY <2>1, <2>2, <2>3
<1> DEFINE mark == IF fails THEN FALSE ELSE sess[s].failed
<1>d. /\ sess'[s] = [sess[s] EXCEPT !.ops = sess[s].ops - 1, !.idle = 0, !.failed = mark]
      /\ sess[s] \in ManagedSession /\ mark \in BOOLEAN
      /\ \A t \in Sessions : t = s \/ sess'[t] = sess[t]
  BY <1>a, <1>b, <1>h, <1>s DEF TypeOK, ManagedSession
<1> HIDE DEF s, mark
<1>e. /\ sess'[s].life = sess[s].life /\ sess'[s].slot = sess[s].slot /\ sess'[s].context = sess[s].context
      /\ sess'[s].ops = sess[s].ops - 1
  BY <1>d DEF ManagedSession
<1>1. TypeOK'
  <2>1. sess[s].ops - 1 \in 0..Cardinality(Requests)
    BY <1>g, <1>h
  <2>2. sess'[s] \in ManagedSession
    <3> DEFINE n == sess[s].ops - 1
    <3> HIDE DEF n
    <3>1. n \in 0..Cardinality(Requests)
      BY <2>1 DEF n
    <3>2. sess'[s] = [sess[s] EXCEPT !.ops = n, !.idle = 0, !.failed = mark]
      BY <1>d DEF n
    <3>3. [sess[s] EXCEPT !.ops = n, !.idle = 0, !.failed = mark] \in ManagedSession
      BY <1>d, <3>1, TouchedIsSession
    <3> QED BY <3>2, <3>3
  <2>3. sess' \in [Sessions -> ManagedSession]
    BY <1>a, <1>b, <1>d, <1>s, <2>2 DEF TypeOK
  <2>4. actor' \in [Actors -> Place]
    BY <1>a, <1>b, RestIsPlace DEF TypeOK
  <2> QED BY <1>a, <1>b, <2>3, <2>4 DEF TypeOK
<1>2. SlotsAreHeld'
  <2>1. \A t \in Sessions : Live(t)' <=> Live(t)
    BY <1>d, <1>e DEF Live
  <2> QED BY <1>a, <1>b, <2>1 DEF SlotsAreHeld, CapacityExact
<1>3. DisplaysPartition' /\ UnlistedIsBare'
  <2>1. \A t \in Sessions : /\ sess'[t].slot = sess[t].slot /\ sess'[t].life = sess[t].life
                            /\ sess'[t].context = sess[t].context
    BY <1>d, <1>e
  <2>2. DisplaysPartition'
    <3>1. UNCHANGED free
      BY <1>a
    <3> QED BY <1>b, <2>1, <3>1 DEF DisplaysPartition
  <2>3. UnlistedIsBare'
    BY <1>a, <1>b, <2>1 DEF UnlistedIsBare
  <2> QED BY <2>2, <2>3
<1>4. ActorsStand'
  <2> SUFFICES ASSUME NEW a \in Actors PROVE ActorsStand!(a)'
    BY DEF ActorsStand
  <2>1. CASE a = r
    BY <1>c, <2>1
  <2>2. CASE a # r
    <3>1. actor'[a] = actor[a] /\ ActorsStand!(a)
      BY <1>b, <1>c, <2>2 DEF ActorsStand
    <3>2. \A t \in Sessions : sess'[t].life = sess[t].life
      BY <1>d, <1>e
    <3>3. actor[a].pc \in {"drain", "detach", "stop"} => actor[a].pc # "idle"
      OBVIOUS
    <3> QED BY <3>1, <3>2, <3>3
  <2> QED BY <2>1, <2>2
<1>5. LaunchIsPrivate'
  <2> SUFFICES ASSUME NEW q \in Requests, NEW t \in Sessions, actor'[q] = [pc |-> "launch", on |-> t]
              PROVE  LaunchIsPrivate!(q)!(t)!2'
    BY DEF LaunchIsPrivate
  <2>1. q # r /\ q \in Actors /\ actor[q] = [pc |-> "launch", on |-> t]
    BY <1>c DEF Actors
  <2>2. t # s /\ LaunchIsPrivate!(q)!(t)!2
    BY <1>b, <1>s, <2>1 DEF LaunchIsPrivate, s
  <2>3. \A a \in Actors : a # q => actor'[a].on # t
    BY <1>c, <2>2, NoneAssumption
  <2> QED BY <1>a, <1>d, <2>2, <2>3
<1>6. OperationsAreCounted'
  BY <1>b, <1>d, <1>e, <1>f, <1>g, <1>h DEF OperationsAreCounted
<1>7. OneCloser'
  <2>1. \A b \in Actors, t \in Sessions : Closes(b, t)' => Closes(b, t)
    BY <1>c DEF Closes
  <2> QED BY <1>a, <1>b, <2>1 DEF OneCloser
<1>8. ChromeIsHosted'
  <2> SUFFICES ASSUME regime.single /\ regime.clean, NEW p \in chrome
              PROVE  ChromeIsHosted!2!(p)'
    BY <1>a DEF ChromeIsHosted
  <2>1. p[1] \in Sessions /\ ChromeIsHosted!2!(p)
    BY <1>b DEF ChromeIsHosted, TypeOK
  <2>2. \A a \in Actors : actor[a] = [pc |-> "stop", on |-> p[1]] => actor'[a] = actor[a]
    BY <1>a, <1>c
  <2>3. /\ sess'[p[1]].slot = sess[p[1]].slot /\ sess'[p[1]].life = sess[p[1]].life
        /\ sess'[p[1]].context = sess[p[1]].context
    BY <1>d, <1>e, <2>1
  <2>4. CASE p[1] \in pool
    BY <1>a, <2>1, <2>3, <2>4 DEF Live
  <2>5. CASE \E a \in Actors : actor[a] = [pc |-> "stop", on |-> p[1]]
    <3>1. \E a \in Actors : actor'[a] = [pc |-> "stop", on |-> p[1]]
      BY <2>2, <2>5
    <3> QED BY <2>1, <2>3, <3>1 DEF Live
  <2> QED BY <2>1, <2>4, <2>5
<1>9. DetachIsQuiet'
  <2> SUFFICES ASSUME regime.timely, NEW a \in Actors, NEW t \in Sessions, actor'[a] = [pc |-> "detach", on |-> t]
              PROVE  sess'[t].ops = 0
    BY <1>a DEF DetachIsQuiet
  <2>1. actor[a] = [pc |-> "detach", on |-> t]
    BY <1>c
  <2>2. sess[t].ops = 0
    BY <1>b, <2>1 DEF DetachIsQuiet
  <2>3. t # s
    <3>1. Cardinality(Requests) \in Nat
      BY ActorsAssumption, FS_CardinalityType
    <3> QED BY <1>g, <1>h, <2>2, <3>1
  <2> QED BY <1>d, <2>2, <2>3
<1> QED BY <1>1, <1>2, <1>3, <1>4, <1>5, <1>6, <1>7, <1>8, <1>9 DEF PoolInv

LEMMA SweepClosesKeeps ==
  ASSUME PoolInv, NEW s \in Sessions, SweepCloses(s)
  PROVE  PoolInv'
<1>b. /\ TypeOK /\ SlotsAreHeld /\ DisplaysPartition /\ ActorsStand /\ UnlistedIsBare
      /\ LaunchIsPrivate /\ OperationsAreCounted /\ OneCloser /\ ChromeIsHosted /\ DetachIsQuiet
  BY DEF PoolInv
<1>a. /\ actor[Janitor].pc = "idle" /\ s \in todo /\ todo' = todo \ {s}
      /\ UNCHANGED <<held, free, accepting, pool, chrome, regime>>
  BY DEF SweepCloses, At
<1>1. CASE UNCHANGED <<sess, actor>>
  <2>1. TypeOK' /\ SlotsAreHeld' /\ DisplaysPartition'
    BY <1>a, <1>b, <1>1 DEF TypeOK, SlotsAreHeld, CapacityExact, Live, DisplaysPartition
  <2>2. ActorsStand' /\ UnlistedIsBare' /\ LaunchIsPrivate' /\ OperationsAreCounted'
    BY <1>a, <1>b, <1>1 DEF ActorsStand, UnlistedIsBare, LaunchIsPrivate, OperationsAreCounted, Busy
  <2>3. OneCloser' /\ DetachIsQuiet'
    BY <1>a, <1>b, <1>1 DEF OneCloser, Closes, DetachIsQuiet
  <2>4. ChromeIsHosted'
    BY <1>a, <1>b, <1>1 DEF ChromeIsHosted, Live
  <2> QED BY <2>1, <2>2, <2>3, <2>4 DEF PoolInv
<1>2. CASE ~UNCHANGED <<sess, actor>>
  <2>a. /\ Live(s) /\ (regime.single => ~Closing(s))
        /\ sess' = [sess EXCEPT ![s] = MarkClosing(@)]
        /\ actor' = [actor EXCEPT ![Janitor] = [pc |-> "drain", on |-> s]]
    BY <1>2 DEF SweepCloses
  <2>c. Janitor \in Actors /\ \A a \in Actors : actor'[a] = IF a = Janitor THEN [pc |-> "drain", on |-> s] ELSE actor[a]
    BY <1>b, <2>a DEF TypeOK, Actors
  <2>d. /\ sess'[s] = MarkClosing(sess[s]) /\ sess[s] \in ManagedSession
        /\ \A t \in Sessions : t = s \/ sess'[t] = sess[t]
    BY <1>b, <2>a DEF TypeOK
  <2>e. /\ sess'[s].life = "CLOSING" /\ sess'[s].slot = sess[s].slot /\ sess'[s].context = sess[s].context
        /\ sess'[s].ops = sess[s].ops /\ sess'[s] \in ManagedSession
    <3>1. TRUE \in BOOLEAN
      OBVIOUS
    <3>2. sess[s] \in ManagedSession /\ sess'[s] = MarkClosing(sess[s])
      BY <2>d
    <3>3. /\ MarkClosing(sess[s]) \in ManagedSession /\ MarkClosing(sess[s]).life = "CLOSING"
          /\ MarkClosing(sess[s]).slot = sess[s].slot /\ MarkClosing(sess[s]).ops = sess[s].ops
          /\ MarkClosing(sess[s]).context = sess[s].context
      BY <3>1, <3>2, MarkedIsSession
    <3> QED BY <3>2, <3>3
  <2>u. UNCHANGED free /\ UNCHANGED held /\ UNCHANGED chrome /\ UNCHANGED pool /\ UNCHANGED regime
    BY <1>a
  <2>1. TypeOK'
    <3>1. sess' \in [Sessions -> ManagedSession]
      BY <1>b, <2>a, <2>d, <2>e DEF TypeOK
    <3>2. actor' \in [Actors -> Place]
      BY <1>b, <2>a, RestIsPlace DEF TypeOK
    <3> QED BY <1>a, <1>b, <3>1, <3>2 DEF TypeOK
  <2>2. SlotsAreHeld'
    <3>1. \A t \in Sessions : Live(t)' <=> Live(t)
      BY <2>a, <2>d, <2>e DEF Live
    <3> QED BY <1>b, <2>u, <3>1 DEF SlotsAreHeld, CapacityExact
  <2>3. DisplaysPartition'
    <3>1. \A t \in Sessions : sess'[t].slot = sess[t].slot
      BY <2>d, <2>e
    <3> QED BY <1>b, <2>u, <3>1 DEF DisplaysPartition
  <2>4. UnlistedIsBare'
    BY <1>a, <1>b, <2>d, <2>e DEF UnlistedIsBare
  <2>5. ActorsStand'
    <3> SUFFICES ASSUME NEW a \in Actors PROVE ActorsStand!(a)'
      BY DEF ActorsStand
    <3>1. CASE a = Janitor
      BY <2>c, <2>e, <3>1
    <3>2. CASE a # Janitor
      <4>1. actor'[a] = actor[a] /\ ActorsStand!(a)
        BY <1>b, <2>c, <3>2 DEF ActorsStand
      <4>2. \A t \in Sessions : sess'[t].life = "CLOSING" \/ sess'[t].life = sess[t].life
        BY <2>d, <2>e
      <4>3. actor[a].pc \in {"drain", "detach", "stop"} => actor[a].pc # "idle"
        OBVIOUS
      <4> QED BY <4>1, <4>2, <4>3
    <3> QED BY <3>1, <3>2
  <2>6. LaunchIsPrivate'
    <3> SUFFICES ASSUME NEW q \in Requests, NEW t \in Sessions, actor'[q] = [pc |-> "launch", on |-> t]
                PROVE  LaunchIsPrivate!(q)!(t)!2'
      BY DEF LaunchIsPrivate
    <3>1. q # Janitor /\ q \in Actors /\ actor[q] = [pc |-> "launch", on |-> t]
      BY <2>c DEF Actors
    <3>2. t # s /\ LaunchIsPrivate!(q)!(t)!2
      BY <1>a, <1>b, <3>1 DEF LaunchIsPrivate
    <3>3. \A a \in Actors : a # q => actor'[a].on # t
      BY <2>c, <3>2
    <3> QED BY <1>a, <2>d, <3>2, <3>3
  <2>7. OperationsAreCounted'
    <3>1. \A t \in Sessions : Busy(t)' = Busy(t)
      BY ActorsAssumption, <2>c DEF Busy, Actors
    <3> QED BY <1>b, <2>d, <2>e, <3>1 DEF OperationsAreCounted
  <2>8. OneCloser'
    <3>1. regime.single => \A b \in Actors : ~Closes(b, s)
      BY <2>a DEF Closing, Closes
    <3>2. \A b \in Actors, t \in Sessions : Closes(b, t)' => (b = Janitor /\ t = s) \/ (b # Janitor /\ Closes(b, t))
      BY <2>c DEF Closes
    <3> QED BY <1>b, <2>u, <3>1, <3>2 DEF OneCloser
  <2>9. ChromeIsHosted'
    <3> SUFFICES ASSUME regime.single /\ regime.clean, NEW p \in chrome
                PROVE  ChromeIsHosted!2!(p)'
      BY <2>u DEF ChromeIsHosted
    <3>1. p[1] \in Sessions /\ ChromeIsHosted!2!(p)
      BY <1>b DEF ChromeIsHosted, TypeOK
    <3>2. Live(p[1])' /\ sess'[p[1]].slot = sess[p[1]].slot /\ sess'[p[1]].context = sess[p[1]].context
      BY <2>d, <2>e, <3>1 DEF Live
    <3>3. \A a \in Actors : actor[a] = [pc |-> "stop", on |-> p[1]] => actor'[a] = actor[a]
      BY <1>a, <2>c
    <3> QED BY <2>u, <3>1, <3>2, <3>3
  <2>10. DetachIsQuiet'
    <3> SUFFICES ASSUME regime.timely, NEW a \in Actors, NEW t \in Sessions, actor'[a] = [pc |-> "detach", on |-> t]
                PROVE  sess'[t].ops = 0
      BY <2>u DEF DetachIsQuiet
    <3>1. actor[a] = [pc |-> "detach", on |-> t]
      BY <2>c
    <3>2. sess[t].ops = 0
      BY <1>b, <3>1 DEF DetachIsQuiet
    <3> QED BY <2>d, <2>e, <3>2
  <2> QED BY <2>1, <2>2, <2>3, <2>4, <2>5, <2>6, <2>7, <2>8, <2>9, <2>10 DEF PoolInv
<1> QED BY <1>1, <1>2

LEMMA TickKeeps ==
  ASSUME PoolInv, Tick
  PROVE  PoolInv'
<1>b. /\ TypeOK /\ SlotsAreHeld /\ DisplaysPartition /\ ActorsStand /\ UnlistedIsBare
      /\ LaunchIsPrivate /\ OperationsAreCounted /\ OneCloser /\ ChromeIsHosted /\ DetachIsQuiet
  BY DEF PoolInv
<1>a. /\ \A r \in Requests : actor[r].pc # "launch"
      /\ sess' \in [Sessions -> ManagedSession]
      /\ \A t \in Sessions : /\ sess'[t].life = sess[t].life /\ sess'[t].slot = sess[t].slot
                             /\ sess'[t].context = sess[t].context /\ sess'[t].ops = sess[t].ops
  <2>1. ASSUME NEW t \in Sessions
        PROVE  LET new == IF sess[t].life = "ACTIVE"
                          THEN [sess[t] EXCEPT !.idle = Min({@ + 1, Idle + 1}), !.age = Min({@ + 1, MaxAge})]
                          ELSE sess[t]
               IN  /\ new \in ManagedSession /\ new.life = sess[t].life /\ new.slot = sess[t].slot
                   /\ new.context = sess[t].context /\ new.ops = sess[t].ops
    <3> DEFINE i == Min({sess[t].idle + 1, Idle + 1})
               g == Min({sess[t].age + 1, MaxAge})
    <3>1. sess[t] \in ManagedSession
      BY <1>b DEF TypeOK
    <3>2. sess[t].idle \in 0..Idle + 1 /\ sess[t].age \in 0..MaxAge
      BY <3>1 DEF ManagedSession
    <3>3. i \in 0..Idle + 1
      BY <3>2, WindowsAssumption, MinOfTwo
    <3>4. g \in 0..MaxAge
      BY <3>2, WindowsAssumption, MinOfTwo
    <3> HIDE DEF i, g
    <3>5. /\ [sess[t] EXCEPT !.idle = i, !.age = g] \in ManagedSession
          /\ [sess[t] EXCEPT !.idle = i, !.age = g].life = sess[t].life
          /\ [sess[t] EXCEPT !.idle = i, !.age = g].slot = sess[t].slot
          /\ [sess[t] EXCEPT !.idle = i, !.age = g].context = sess[t].context
          /\ [sess[t] EXCEPT !.idle = i, !.age = g].ops = sess[t].ops
      BY <3>1, <3>3, <3>4 DEF ManagedSession
    <3> QED BY <3>1, <3>5 DEF i, g
  <2> QED BY <2>1 DEF Tick, At
<1>c. UNCHANGED held /\ UNCHANGED free /\ UNCHANGED accepting /\ UNCHANGED actor /\ UNCHANGED todo
      /\ UNCHANGED pool /\ UNCHANGED chrome /\ UNCHANGED regime
  BY DEF Tick
<1>1. TypeOK'
  BY <1>a, <1>b, <1>c DEF TypeOK
<1>2. SlotsAreHeld' /\ DisplaysPartition'
  BY <1>a, <1>b, <1>c DEF SlotsAreHeld, CapacityExact, Live, DisplaysPartition
<1>3. ActorsStand'
  <2> SUFFICES ASSUME NEW a \in Actors PROVE ActorsStand!(a)'
    BY DEF ActorsStand
  <2>1. ActorsStand!(a)
    BY <1>b DEF ActorsStand
  <2>2. actor[a].pc \in {"drain", "detach", "stop"} => actor[a].pc # "idle"
    OBVIOUS
  <2> QED BY <1>a, <1>c, <2>1, <2>2
<1>4. UnlistedIsBare' /\ LaunchIsPrivate'
  BY <1>a, <1>b, <1>c DEF UnlistedIsBare, LaunchIsPrivate
<1>5. OperationsAreCounted' /\ OneCloser'
  BY <1>a, <1>b, <1>c DEF OperationsAreCounted, Busy, OneCloser, Closes
<1>6. ChromeIsHosted'
  <2> SUFFICES ASSUME regime.single /\ regime.clean, NEW p \in chrome
              PROVE  ChromeIsHosted!2!(p)'
    BY <1>c DEF ChromeIsHosted
  <2>1. p[1] \in Sessions /\ ChromeIsHosted!2!(p)
    BY <1>b DEF ChromeIsHosted, TypeOK
  <2> QED BY <1>a, <1>c, <2>1 DEF Live
<1>7. DetachIsQuiet'
  BY <1>a, <1>b, <1>c DEF DetachIsQuiet
<1> QED BY <1>1, <1>2, <1>3, <1>4, <1>5, <1>6, <1>7 DEF PoolInv

-----------------------------------------------------------------------------
(* The theorems.                                                              *)

LEMMA InitEstablishes ==
  ASSUME Init
  PROVE  PoolInv
<1> USE DEF Init
<1>a. \A s \in Sessions : sess[s] = Unborn
  OBVIOUS
<1>b. Unborn.life = "none" /\ Unborn.slot = None /\ Unborn.ops = 0 /\ ~Unborn.context
  BY DEF Unborn
<1>c. \A a \in Actors : actor[a].pc = "idle" /\ actor[a].on = None
  BY DEF Rest
<1>1. TypeOK
  <2>1. Cardinality(Requests) \in Nat
    BY ActorsAssumption, FS_CardinalityType
  <2>2. Unborn \in ManagedSession
    BY <2>1, WindowsAssumption DEF Unborn, ManagedSession
  <2> QED BY <2>2, RestIsPlace DEF TypeOK
<1>2. SlotsAreHeld
  BY <1>a, <1>b, FS_EmptySet, CapacityAssumption DEF SlotsAreHeld, CapacityExact, Live
<1>3. DisplaysPartition
  BY <1>a, <1>b, NoneAssumption DEF DisplaysPartition
<1>4. ActorsStand /\ UnlistedIsBare /\ LaunchIsPrivate
  <2>1. ActorsStand
    BY <1>c DEF ActorsStand
  <2>2. UnlistedIsBare
    BY <1>a, <1>b DEF UnlistedIsBare
  <2>3. LaunchIsPrivate
    BY <1>c DEF LaunchIsPrivate, Actors
  <2> QED BY <2>1, <2>2, <2>3
<1>5. OperationsAreCounted
  <2>1. \A s \in Sessions : Busy(s) = {}
    BY <1>c DEF Busy, Actors
  <2> QED BY <1>a, <1>b, <2>1, FS_EmptySet DEF OperationsAreCounted
<1>6. OneCloser /\ ChromeIsHosted /\ DetachIsQuiet
  BY <1>c DEF OneCloser, Closes, ChromeIsHosted, DetachIsQuiet
<1> QED BY <1>1, <1>2, <1>3, <1>4, <1>5, <1>6 DEF PoolInv

LEMMA StepKeeps ==
  ASSUME PoolInv, [Next]_vars
  PROVE  PoolInv'
<1>1. ASSUME NEW r \in Requests, RequestStep(r)
      PROVE  PoolInv'
  <2>1. CASE \E s \in Sessions : Create(r, s) \/ Delete(r, s) \/ Lease(r, s)
    BY <2>1, CreateKeeps, DeleteKeeps, LeaseKeeps
  <2>2. CASE Launched(r)
    BY <2>2, LaunchedKeeps
  <2>3. CASE \E b \in BOOLEAN : LaunchFails(r, b) \/ OperationEnds(r, b)
    BY <2>3, LaunchFailsKeeps, OperationEndsKeeps
  <2> QED BY <1>1, <2>1, <2>2, <2>3 DEF RequestStep
<1>2. ASSUME NEW a \in Actors, CloseStep(a)
      PROVE  PoolInv'
  BY <1>2, DrainedKeeps, DetachedKeeps, DetachFailsKeeps, TornDownKeeps DEF CloseStep
<1>3. CASE Sweep \/ Tick \/ DrainGate
  BY <1>3, SweepKeeps, TickKeeps, DrainGateKeeps
<1>4. ASSUME NEW s \in Sessions, SweepCloses(s) \/ Retain(s) \/ HumanAttaches(s)
      PROVE  PoolInv'
  BY <1>4, SweepClosesKeeps, RetainKeeps, HumanAttachesKeeps
<1>5. CASE UNCHANGED vars
  <2> USE <1>5 DEF vars, PoolInv
  <2>1. TypeOK' /\ SlotsAreHeld' /\ DisplaysPartition'
    BY DEF TypeOK, SlotsAreHeld, CapacityExact, Live, DisplaysPartition
  <2>2. ActorsStand' /\ UnlistedIsBare' /\ LaunchIsPrivate' /\ OperationsAreCounted'
    BY DEF ActorsStand, UnlistedIsBare, LaunchIsPrivate, OperationsAreCounted, Busy
  <2>3. OneCloser' /\ ChromeIsHosted' /\ DetachIsQuiet'
    BY DEF OneCloser, Closes, ChromeIsHosted, Live, DetachIsQuiet
  <2> QED BY <2>1, <2>2, <2>3
<1> QED BY <1>1, <1>2, <1>3, <1>4, <1>5 DEF Next

\* What the invariant says of displays: two browsers on one display would belong to
\* two sessions that lease it.
LEMMA HostedIsPrivate ==
  ASSUME PoolInv
  PROVE  PoolSafety
<1>b. TypeOK /\ SlotsAreHeld /\ DisplaysPartition /\ ChromeIsHosted
  BY DEF PoolInv
<1>1. ASSUME regime.single, regime.clean
      PROVE  OneBrowserPerDisplay /\ \A p \in chrome : Live(p[1])
  <2>1. \A p \in chrome : p = <<p[1], p[2]>> /\ p[1] \in Sessions /\ Live(p[1]) /\ p[2] = sess[p[1]].slot
    <3> SUFFICES ASSUME NEW p \in chrome
                PROVE  p = <<p[1], p[2]>> /\ p[1] \in Sessions /\ Live(p[1]) /\ p[2] = sess[p[1]].slot
      OBVIOUS
    <3>1. p \in Sessions \X (Displays \cup {None})
      BY <1>b DEF TypeOK
    <3>2. p = <<p[1], p[2]>> /\ p[1] \in Sessions
      BY <3>1
    <3>3. Live(p[1]) /\ p[2] = sess[p[1]].slot
      BY <1>b, <1>1 DEF ChromeIsHosted
    <3> QED BY <3>2, <3>3
  <2>2. ASSUME NEW p \in chrome, NEW q \in chrome, p # q, p[2] # None
        PROVE  p[2] # q[2]
    <3>1. p[1] = q[1] => p[2] = q[2]
      BY <2>1
    <3>2. p[1] # q[1]
      BY <2>1, <2>2, <3>1
    <3> QED BY <1>b, <2>1, <2>2, <3>2 DEF DisplaysPartition
  <2> QED BY <2>1, <2>2 DEF OneBrowserPerDisplay
<1> QED BY <1>b, <1>1 DEF PoolSafety, SlotsAreHeld, DisplayIsPrivate

\* The registry of the browser service (BrowserSessionManager.create, close, sweep and
\* DisplayPool): through failed launches, retried and doubled closes and operations that
\* outlast the drain, the slots in use are those of the listed sessions and never more
\* than max_sessions, each display is free or leased by one session, and, while nobody
\* closes a session twice at once and a shutdown is what it says, it shows one browser.
THEOREM PoolIsSafe == Spec => []PoolSafety
<1>1. Init => PoolInv
  BY InitEstablishes
<1>2. PoolInv /\ [Next]_vars => PoolInv'
  BY StepKeeps
<1>3. PoolInv => PoolSafety
  BY HostedIsPrivate
<1> QED BY <1>1, <1>2, <1>3, PTL DEF Spec

\* worker.stop() is reached from a drain that is over, so a session leaves the worker's
\* registry with no leased operation on it as long as operations end within the drain.
THEOREM ActionsAreSpared == Spec => TimelyActionsAreSpared
<1> DEFINE Spared == regime.timely => \A s \in Sessions : s \in pool \ pool' => sess[s].ops = 0
<1>1. PoolInv /\ [Next]_vars => [Spared]_vars
  <2> SUFFICES ASSUME PoolInv, Next, regime.timely, NEW s \in Sessions, s \in pool, s \notin pool'
              PROVE  sess[s].ops = 0
    OBVIOUS
  <2>1. \E a \in Actors : Detached(a)
    <3>1. ASSUME NEW r \in Requests, RequestStep(r)
          PROVE  pool \subseteq pool'
      BY <3>1 DEF RequestStep, Create, Delete, Lease, Launched, LaunchFails, OperationEnds
    <3>2. ASSUME NEW a \in Actors, CloseStep(a)
          PROVE  Detached(a) \/ pool \subseteq pool'
      BY <3>2 DEF CloseStep, Drained, DetachFails, TornDown
    <3>3. ASSUME NEW t \in Sessions, SweepCloses(t) \/ Retain(t) \/ HumanAttaches(t)
          PROVE  pool \subseteq pool'
      BY <3>3 DEF SweepCloses, Retain, HumanAttaches
    <3>4. Sweep \/ Tick \/ DrainGate => pool \subseteq pool'
      BY DEF Sweep, Tick, DrainGate
    <3> QED BY <3>1, <3>2, <3>3, <3>4 DEF Next
  <2>2. PICK a \in Actors : Detached(a)
    BY <2>1
  <2>3. actor[a].pc = "detach" /\ actor[a].on = s
    BY <2>2 DEF Detached, At
  <2>4. actor[a] = [pc |-> "detach", on |-> s]
    BY <2>3 DEF PoolInv, TypeOK, Place
  <2> QED BY <2>4 DEF PoolInv, DetachIsQuiet
<1>2. Init => PoolInv
  BY InitEstablishes
<1>3. PoolInv /\ [Next]_vars => PoolInv'
  BY StepKeeps
<1> QED BY <1>1, <1>2, <1>3, PTL DEF Spec, TimelyActionsAreSpared

-----------------------------------------------------------------------------
(* LiveView and Takeover: the inductive invariants.                           *)

Gate == [pending: BOOLEAN, gen: 0..MaxGen, owed: 0..MaxGen]
Pixels == [allowed: BOOLEAN, surface: BOOLEAN, boundary: BOOLEAN]
Crossing == [gate: SUBSET Calls, pixels: SUBSET Calls]
Camera == [off: BOOLEAN, frame: Frames]
Rpc == [verb: Moving \cup Reading \cup {Nothing},
        pc: {"idle", "drain", "run", "boundary", "capture"}, was: BOOLEAN]
RunRow == [status: {"driving", "parked", "paused", "ended"}, gen: 0..MaxGen, rev: 0..MaxRev]
Clearance == [pc: {"idle", "read", "report"}, rev: 0..MaxRev, attached: BOOLEAN,
              gen: 0..MaxGen, owed: BOOLEAN, seen: Sightings \cup {Nothing},
              pending: BOOLEAN, alive: BOOLEAN]

\* A call that moves the page has revoked the gate before it drains, so that no
\* control relay is left when it runs and none can be opened until it ends or another
\* call puts the gate up.
RevokesGate(c) ==
    /\ OpAt(c, "drain") => Verb(c) \in Moving /\ ~hitl.pending
    /\ OpAt(c, "run") /\ Verb(c) \in Moving => ~hitl.pending /\ ~Controlled

\* From the boundary on no pixel leaves the session, and nobody is attached once the
\* boundary was entered, until another call releases them.
RevokesPixels(c) ==
    /\ OpAt(c, "boundary") => ~pix.allowed
    /\ OpAt(c, "capture") => ~pix.allowed /\ ~Attached

DriverIsAlone ==
    /\ \A c \in Calls \ crossed.gate : RevokesGate(c)
    /\ \A c \in Calls \ crossed.pixels : RevokesPixels(c)

ViewInv == ViewTypeOK /\ DebtIsCurrent /\ DriverIsAlone

LEMMA ViewTypesAre ==
    ViewTypeOK <=>
        /\ life \in {"ACTIVE", "aged", "closed"} /\ hitl \in Gate /\ pix \in Pixels
        /\ page \in Pages /\ cam \in Camera /\ grants \subseteq Grants
        /\ relay \in [Clients -> Access \cup {Nothing}] /\ op \in [Calls -> Rpc]
        /\ shot \in {"idle", "wait"} /\ crossed \in Crossing
BY DEF ViewTypeOK, Gate, Pixels, Camera, Rpc, Crossing

\* ViewTypeOK without the history, which Watch keeps in its type.
ViewTypeOKButHistory ==
    /\ life \in {"ACTIVE", "aged", "closed"} /\ hitl \in Gate /\ pix \in Pixels
    /\ page \in Pages /\ cam \in Camera /\ grants \subseteq Grants
    /\ relay \in [Clients -> Access \cup {Nothing}] /\ op \in [Calls -> Rpc]
    /\ shot \in {"idle", "wait"}

\* A call of its own: what one RPC does to op.
LEMMA OneRpcMoves ==
  ASSUME ViewTypeOK, NEW c \in Calls, NEW rec \in Rpc, op' = [op EXCEPT ![c] = rec]
  PROVE  op' \in [Calls -> Rpc] /\ op'[c] = rec /\ \A d \in Calls : d # c => op'[d] = op[d]
<1>1. op \in [Calls -> Rpc]
  BY ViewTypesAre
<1> QED BY <1>1

LEMMA RpcGoesTo ==
  ASSUME ViewTypeOK, NEW c \in Calls, NEW p \in {"idle", "drain", "run", "boundary", "capture"},
         op' = [op EXCEPT ![c].pc = p]
  PROVE  /\ op' \in [Calls -> Rpc] /\ op'[c].pc = p /\ op'[c].verb = op[c].verb
         /\ \A d \in Calls : d # c => op'[d] = op[d]
<1>1. op \in [Calls -> Rpc]
  BY ViewTypesAre
<1>2. PICK rec : rec = [op[c] EXCEPT !.pc = p]
  OBVIOUS
<1>3. rec \in Rpc /\ rec.pc = p /\ rec.verb = op[c].verb
  BY <1>1, <1>2 DEF Rpc
<1>4. op' = [op EXCEPT ![c] = rec]
  BY <1>2
<1> QED BY <1>1, <1>3, <1>4

LEMMA RpcStarts ==
  ASSUME ViewTypeOK, NEW c \in Calls, NEW verb \in Moving \cup Reading, NEW was \in BOOLEAN,
         NEW p \in {"drain", "run", "boundary"}, op' = [op EXCEPT ![c] = [verb |-> verb, pc |-> p, was |-> was]]
  PROVE  /\ op' \in [Calls -> Rpc] /\ op'[c].pc = p /\ op'[c].verb = verb
         /\ \A d \in Calls : d # c => op'[d] = op[d]
<1>1. PICK rec : rec = [verb |-> verb, pc |-> p, was |-> was]
  OBVIOUS
<1>2. rec \in Rpc /\ rec.pc = p /\ rec.verb = verb
  BY <1>1 DEF Rpc
<1> QED BY <1>1, <1>2, OneRpcMoves

LEMMA RpcEnds ==
  ASSUME ViewTypeOK, NEW c \in Calls, Ends(c)
  PROVE  /\ op' \in [Calls -> Rpc] /\ op'[c].pc = "idle"
         /\ \A d \in Calls : d # c => op'[d] = op[d]
<1>1. NoCall \in Rpc /\ NoCall.pc = "idle"
  BY DEF NoCall, Rpc
<1> QED BY <1>1, OneRpcMoves DEF Ends

\* _set_hitl_pending: the debt goes with its gate.
LEMMA GateSet ==
  ASSUME ViewTypeOK, DebtIsCurrent, NEW to \in BOOLEAN, to /\ ~hitl.pending => hitl.gen < MaxGen,
         hitl' = SetHitlPending(hitl, to)
  PROVE  hitl' \in Gate /\ hitl'.pending = to /\ DebtIsCurrent'
<1>1. hitl \in Gate /\ MaxGen \in Nat
  BY ViewTypesAre, ViewAssumption
<1>2. CASE to = hitl.pending
  BY <1>1, <1>2 DEF SetHitlPending, DebtIsCurrent
<1>3. CASE to # hitl.pending
  <2>1. PICK n : n = IF to THEN hitl.gen + 1 ELSE hitl.gen
    OBVIOUS
  <2>2. n \in 0..MaxGen
    BY <1>1, <1>3, <2>1 DEF Gate
  <2>3. hitl' = [pending |-> to, gen |-> n, owed |-> 0]
    BY <1>3, <2>1 DEF SetHitlPending
  <2> QED BY <1>1, <2>2, <2>3 DEF Gate, DebtIsCurrent
<1> QED BY <1>2, <1>3

LEMMA GateStays ==
  ASSUME ViewTypeOK, DebtIsCurrent, hitl' = hitl
  PROVE  hitl' \in Gate /\ DebtIsCurrent'
BY ViewTypesAre DEF DebtIsCurrent

\* The history takes the calls that are still open, all of them if the gate goes up or
\* the pixels come back.
LEMMA Crosses ==
  ASSUME ViewInv, op' \in [Calls -> Rpc], hitl' \in Gate, pix' \in Pixels, Watch
  PROVE  /\ crossed' \in Crossing
         /\ \A d \in Calls : op'[d].pc = "idle" => d \notin crossed'.gate /\ d \notin crossed'.pixels
         /\ \A d \in Calls \ crossed'.gate : op'[d].pc # "idle" =>
               d \notin crossed.gate /\ (hitl'.pending => hitl.pending)
         /\ \A d \in Calls \ crossed'.pixels : op'[d].pc # "idle" =>
               d \notin crossed.pixels /\ (pix'.allowed => pix.allowed)
<1>1. PICK up \in BOOLEAN, back \in BOOLEAN :
        /\ up = (hitl'.pending /\ ~hitl.pending) /\ back = (pix'.allowed /\ ~pix.allowed)
  OBVIOUS
<1>2. crossed' = [gate |-> StillOpen(crossed.gate, up), pixels |-> StillOpen(crossed.pixels, back)]
  BY <1>1 DEF Watch
<1>3. /\ crossed'.gate = StillOpen(crossed.gate, up) /\ crossed'.pixels = StillOpen(crossed.pixels, back)
      /\ crossed' \in Crossing
  BY <1>2 DEF StillOpen, Crossing
<1>4. hitl.pending \in BOOLEAN /\ hitl'.pending \in BOOLEAN
      /\ pix.allowed \in BOOLEAN /\ pix'.allowed \in BOOLEAN
  BY ViewTypesAre DEF ViewInv, Gate, Pixels
<1> QED BY <1>1, <1>3, <1>4, Zenon DEF StillOpen

\* A step keeps the invariant if it opens relays only at a gate and while pixels are
\* allowed, and leaves the call that takes it as it should be: the others notice no more
\* than what the history records.
LEMMA OthersKeep ==
  ASSUME ViewInv, NEW S \in SUBSET Calls, hitl' \in Gate, pix' \in Pixels, op' \in [Calls -> Rpc], Watch,
         life' \in {"ACTIVE", "aged", "closed"}, page' \in Pages, cam' \in Camera, grants' \subseteq Grants,
         relay' \in [Clients -> Access \cup {Nothing}], shot' \in {"idle", "wait"}, DebtIsCurrent',
         \A d \in Calls \ S : op'[d] = op[d],
         \A c \in S : /\ (c \notin crossed.gate => RevokesGate(c))'
                       /\ (c \notin crossed.pixels => RevokesPixels(c))',
         \A k \in Clients : relay'[k] = "control" => relay[k] = "control" \/ hitl.pending,
         \A k \in Clients : relay'[k] # Nothing => relay[k] # Nothing \/ pix.allowed
  PROVE  ViewInv'
<1>1. crossed' \in Crossing
  BY Crosses
<1>2. ViewTypeOK'
  BY <1>1 DEF ViewTypeOK, Gate, Pixels, Camera, Rpc, Crossing
<1>3. hitl.pending \in BOOLEAN /\ hitl'.pending \in BOOLEAN
      /\ pix.allowed \in BOOLEAN /\ pix'.allowed \in BOOLEAN
  BY ViewTypesAre DEF ViewInv, Gate, Pixels
<1>4. ASSUME NEW d \in Calls \ S, d \notin crossed'.gate
      PROVE  RevokesGate(d)'
  <2>1. CASE op'[d].pc = "idle"
    BY <2>1 DEF RevokesGate, OpAt
  <2>2. CASE op'[d].pc # "idle"
    <3>1. op'[d] = op[d] /\ d \notin crossed.gate /\ (hitl'.pending => hitl.pending)
      BY <1>4, <2>2, Crosses
    <3>2. RevokesGate(d)
      BY <1>4, <3>1 DEF ViewInv, DriverIsAlone
    <3> QED BY <1>3, <3>1, <3>2, Zenon DEF RevokesGate, OpAt, Verb, Controlled
  <2> QED BY <2>1, <2>2
<1>5. ASSUME NEW d \in Calls \ S, d \notin crossed'.pixels
      PROVE  RevokesPixels(d)'
  <2>1. CASE op'[d].pc = "idle"
    BY <2>1 DEF RevokesPixels, OpAt
  <2>2. CASE op'[d].pc # "idle"
    <3>1. op'[d] = op[d] /\ d \notin crossed.pixels /\ (pix'.allowed => pix.allowed)
      BY <1>5, <2>2, Crosses
    <3>2. RevokesPixels(d)
      BY <1>5, <3>1 DEF ViewInv, DriverIsAlone
    <3> QED BY <1>3, <3>1, <3>2, Zenon DEF RevokesPixels, OpAt, Attached
  <2> QED BY <2>1, <2>2
<1>6. DriverIsAlone'
  <2>1. ASSUME NEW c \in Calls, c \notin crossed'.gate PROVE RevokesGate(c)'
    BY <1>4, <2>1
  <2>2. ASSUME NEW c \in Calls, c \notin crossed'.pixels PROVE RevokesPixels(c)'
    BY <1>5, <2>2
  <2> QED BY <2>1, <2>2 DEF DriverIsAlone
<1> QED BY <1>2, <1>6 DEF ViewInv

\* What call c does, it does to op[c]; relays it closes, if any.
LEMMA CallKeeps ==
  ASSUME ViewInv, NEW c \in Calls, Watch, op' \in [Calls -> Rpc], \A d \in Calls : d # c => op'[d] = op[d],
         hitl' \in Gate, pix' \in Pixels, cam' \in Camera, page' \in Pages, DebtIsCurrent',
         UNCHANGED <<life, grants, shot>>, relay' \in [Clients -> Access \cup {Nothing}],
         \A k \in Clients : relay'[k] \in {relay[k], Nothing},
         (c \notin crossed.gate => RevokesGate(c))', (c \notin crossed.pixels => RevokesPixels(c))'
  PROVE  ViewInv'
<1>1. /\ life \in {"ACTIVE", "aged", "closed"} /\ grants \subseteq Grants /\ shot \in {"idle", "wait"}
  BY ViewTypesAre DEF ViewInv
<1>2. Nothing # "control"
  BY ViewAssumption DEF Access
<1>3. {c} \in SUBSET Calls /\ \A d \in Calls \ {c} : op'[d] = op[d]
  OBVIOUS
<1>4. \A d \in {c} : /\ (d \notin crossed.gate => RevokesGate(d))'
                     /\ (d \notin crossed.pixels => RevokesPixels(d))'
  OBVIOUS
<1> QED BY <1>1, <1>2, <1>3, <1>4, OthersKeep

\* A step of people, the screenshot route or the takeover moves no call.
LEMMA PeopleKeep ==
  ASSUME ViewInv, Watch, ViewTypeOKButHistory', DebtIsCurrent', op' = op,
         \A k \in Clients : relay'[k] = "control" => relay[k] = "control" \/ hitl.pending,
         \A k \in Clients : relay'[k] # Nothing => relay[k] # Nothing \/ pix.allowed
  PROVE  ViewInv'
<1>1. {} \in SUBSET Calls
  OBVIOUS
<1> QED BY <1>1, OthersKeep DEF ViewTypeOKButHistory

LEMMA TakesControlKeeps ==
  ASSUME ViewInv, Watch, NEW c \in Calls, NEW verb \in Moving, TakesControl(c, verb),
         UNCHANGED <<life, pix, page, cam, pixelVars>>
  PROVE  ViewInv'
<1>1. hitl' \in Gate /\ hitl'.pending = FALSE /\ DebtIsCurrent'
  BY GateSet DEF ViewInv, TakesControl
<1>2. hitl.pending \in BOOLEAN
  BY ViewTypesAre DEF ViewInv, Gate
<1>3. /\ op' \in [Calls -> Rpc] /\ op'[c].pc = "drain" /\ op'[c].verb = verb
      /\ \A d \in Calls : d # c => op'[d] = op[d]
  BY <1>2, RpcStarts DEF ViewInv, TakesControl
<1>4. /\ pix' \in Pixels /\ cam' \in Camera /\ page' \in Pages
      /\ relay' \in [Clients -> Access \cup {Nothing}] /\ relay' = relay /\ UNCHANGED <<life, grants, shot>>
  BY ViewTypesAre DEF ViewInv, pixelVars
<1>5. RevokesGate(c)' /\ RevokesPixels(c)'
  BY <1>1, <1>3 DEF RevokesGate, RevokesPixels, OpAt, Verb
<1> QED BY <1>1, <1>3, <1>4, <1>5, CallKeeps

LEMMA ControlDrainedKeeps ==
  ASSUME ViewInv, Watch, NEW c \in Calls, ControlDrained(c)
  PROVE  ViewInv'
<1>1. /\ op' \in [Calls -> Rpc] /\ op'[c].pc = "run" /\ op'[c].verb = op[c].verb
      /\ \A d \in Calls : d # c => op'[d] = op[d]
  BY RpcGoesTo DEF ViewInv, ControlDrained
<1>2. hitl' \in Gate /\ DebtIsCurrent'
  BY GateStays DEF ViewInv, ControlDrained
<1>3. relay' \in [Clients -> Access \cup {Nothing}] /\ \A k \in Clients : relay'[k] \in {relay[k], Nothing}
  BY ViewTypesAre DEF ViewInv, ControlDrained
<1>4. pix' \in Pixels /\ cam' \in Camera /\ page' \in Pages /\ UNCHANGED <<life, grants, shot>>
  BY ViewTypesAre DEF ViewInv, ControlDrained
<1>5. \A k \in Clients : relay'[k] # "control"
  BY ViewAssumption DEF ControlDrained, Access
<1>6. c \notin crossed'.gate => c \notin crossed.gate
  BY <1>1, <1>2, <1>4, Crosses
<1>7. (c \notin crossed.gate => RevokesGate(c))' /\ RevokesPixels(c)'
  BY <1>1, <1>5, <1>6 DEF ViewInv, DriverIsAlone, RevokesGate, RevokesPixels, OpAt, Verb, Controlled, ControlDrained
<1> QED BY <1>1, <1>2, <1>3, <1>4, <1>7, CallKeeps

\* A call that has ended owes nothing more.
LEMMA EndedKeeps ==
  ASSUME ViewInv, Watch, NEW c \in Calls, Ends(c), DebtIsCurrent',
         hitl' \in Gate, pix' \in Pixels, page' \in Pages, cam' \in Camera,
         UNCHANGED <<life, pixelVars>>
  PROVE  ViewInv'
<1>1. op' \in [Calls -> Rpc] /\ op'[c].pc = "idle" /\ \A d \in Calls : d # c => op'[d] = op[d]
  BY RpcEnds DEF ViewInv
<1>2. relay' \in [Clients -> Access \cup {Nothing}] /\ relay' = relay /\ UNCHANGED <<life, grants, shot>>
  BY ViewTypesAre DEF ViewInv, pixelVars
<1>3. RevokesGate(c)' /\ RevokesPixels(c)'
  BY <1>1 DEF RevokesGate, RevokesPixels, OpAt
<1> QED BY <1>1, <1>2, <1>3, CallKeeps

LEMMA Blank ==
    ViewTypeOK => /\ \A b \in BOOLEAN : [off |-> b, frame |-> Nothing] \in Camera
                  /\ [pix EXCEPT !.allowed = FALSE] \in Pixels /\ [pix EXCEPT !.allowed = FALSE].allowed = FALSE
                  /\ [pix EXCEPT !.allowed = FALSE, !.surface = TRUE] \in Pixels
                  /\ [pix EXCEPT !.allowed = FALSE, !.surface = TRUE].allowed = FALSE
                  /\ [pix EXCEPT !.boundary = TRUE] \in Pixels
                  /\ [pix EXCEPT !.boundary = TRUE].allowed = pix.allowed
                  /\ [allowed |-> TRUE, surface |-> FALSE, boundary |-> FALSE] \in Pixels
BY DEF ViewTypeOK, Camera, Pixels, Frames

LEMMA EntersBoundaryKeeps ==
  ASSUME ViewInv, Watch, NEW c \in Calls, EntersBoundary(c), page' \in Pages, cam' \in Camera,
         UNCHANGED <<life, pixelVars>>
  PROVE  ViewInv'
<1>1. hitl' \in Gate /\ DebtIsCurrent'
  BY GateSet DEF ViewInv, EntersBoundary
<1>2. op' \in [Calls -> Rpc] /\ op'[c].pc = "boundary" /\ \A d \in Calls : d # c => op'[d] = op[d]
  BY RpcGoesTo DEF ViewInv, EntersBoundary
<1>3. pix' \in Pixels /\ ~pix'.allowed
  BY Blank DEF ViewInv, EntersBoundary
<1>4. relay' \in [Clients -> Access \cup {Nothing}] /\ relay' = relay /\ UNCHANGED <<life, grants, shot>>
  BY ViewTypesAre DEF ViewInv, pixelVars
<1>5. RevokesGate(c)' /\ RevokesPixels(c)'
  BY <1>2, <1>3 DEF RevokesGate, RevokesPixels, OpAt
<1> QED BY <1>1, <1>2, <1>3, <1>4, <1>5, CallKeeps

LEMMA DriveEndsKeeps ==
  ASSUME ViewInv, Watch, NEW c \in Calls, NEW outcome, DriveEnds(c, outcome)
  PROVE  ViewInv'
<1>1. /\ page \in Pages /\ pix \in Pixels /\ cam \in Camera /\ hitl \in Gate
      /\ UNCHANGED <<life, pixelVars>>
  BY ViewTypesAre DEF ViewInv, DriveEnds
<1>2. CASE hitl.gen < MaxGen /\ page' = "gate" /\ hitl' = SetHitlPending(hitl, TRUE)
           /\ Ends(c) /\ UNCHANGED <<pix, cam>>
  <2>1. hitl' \in Gate /\ DebtIsCurrent'
    BY <1>2, GateSet DEF ViewInv
  <2> QED BY <1>1, <1>2, <2>1, EndedKeeps DEF Pages
<1>3. CASE page' = "secret" /\ cam' = [off |-> TRUE, frame |-> Nothing] /\ EntersBoundary(c)
  BY <1>1, <1>3, Blank, EntersBoundaryKeeps DEF ViewInv, Pages
<1>4. CASE page' \in Pages /\ hitl' = SetHitlPending(hitl, FALSE) /\ Ends(c) /\ UNCHANGED pix
           /\ cam' = IF page' = "secret" THEN [off |-> TRUE, frame |-> Nothing] ELSE cam
  <2>1. hitl' \in Gate /\ DebtIsCurrent'
    BY <1>4, GateSet DEF ViewInv
  <2>2. cam' \in Camera
    BY <1>1, <1>4, Blank DEF ViewInv
  <2> QED BY <1>1, <1>4, <2>1, <2>2, EndedKeeps
<1>5. CASE page' \in Pages /\ Ends(c) /\ UNCHANGED <<hitl, pix, cam>>
  <2>1. DebtIsCurrent'
    BY <1>5, GateStays DEF ViewInv
  <2> QED BY <1>1, <1>5, <2>1, EndedKeeps
<1> QED BY <1>2, <1>3, <1>4, <1>5 DEF DriveEnds

LEMMA CallStepKeeps ==
  ASSUME ViewInv, Watch, NEW c \in Calls, CallStep(c) \/ \E g \in (1..MaxGen) \cup {Nothing} : Resume(c, g)
  PROVE  ViewInv'
<1>1. /\ page \in Pages /\ pix \in Pixels /\ cam \in Camera /\ hitl \in Gate /\ op \in [Calls -> Rpc]
      /\ life \in {"ACTIVE", "aged", "closed"} /\ grants \subseteq Grants
      /\ relay \in [Clients -> Access \cup {Nothing}] /\ shot \in {"idle", "wait"}
  BY ViewTypesAre DEF ViewInv
<1>2. CASE Navigate(c) \/ Act(c) \/ \E g \in (1..MaxGen) \cup {Nothing} : Resume(c, g)
  <2>1. PICK verb \in Moving : TakesControl(c, verb) /\ UNCHANGED <<life, pix, page, cam, pixelVars>>
    BY <1>2 DEF Navigate, Act, Resume, Moving
  <2> QED BY <2>1, TakesControlKeeps
<1>3. CASE Capture(c)
  <2>1. hitl' \in Gate /\ DebtIsCurrent'
    BY <1>3, GateSet DEF ViewInv, Capture
  <2>2. op' \in [Calls -> Rpc] /\ op'[c].pc = "boundary" /\ \A d \in Calls : d # c => op'[d] = op[d]
    BY <1>3, RpcStarts DEF ViewInv, Capture, Reading
  <2>3. pix' \in Pixels /\ ~pix'.allowed
    BY <1>3, Blank DEF ViewInv, Capture
  <2>4. /\ cam' \in Camera /\ page' \in Pages /\ UNCHANGED <<life, grants, shot>> /\ relay' = relay
        /\ relay' \in [Clients -> Access \cup {Nothing}]
    BY <1>1, <1>3 DEF Capture, pixelVars
  <2>5. RevokesGate(c)' /\ RevokesPixels(c)'
    BY <2>2, <2>3 DEF RevokesGate, RevokesPixels, OpAt
  <2> QED BY <2>1, <2>2, <2>3, <2>4, <2>5, CallKeeps
<1>4. CASE \E verb \in Reading \ {"capture"} : Read(c, verb)
  <2>1. PICK verb \in Reading \ {"capture"} : Read(c, verb)
    BY <1>4
  <2>2. /\ op' \in [Calls -> Rpc] /\ op'[c].pc = "run" /\ op'[c].verb = verb
        /\ \A d \in Calls : d # c => op'[d] = op[d]
    BY <2>1, RpcStarts DEF ViewInv, Read
  <2>3. DebtIsCurrent'
    BY <2>1, GateStays DEF ViewInv, Read
  <2>4. /\ hitl' \in Gate /\ pix' \in Pixels /\ cam' \in Camera /\ page' \in Pages
        /\ UNCHANGED <<life, grants, shot>> /\ relay' = relay
        /\ relay' \in [Clients -> Access \cup {Nothing}]
    BY <1>1, <2>1 DEF Read, pixelVars
  <2>5. RevokesGate(c)' /\ RevokesPixels(c)'
    BY <2>2 DEF RevokesGate, RevokesPixels, OpAt, Verb, Moving, Reading
  <2> QED BY <2>2, <2>3, <2>4, <2>5, CallKeeps
<1>5. CASE ControlDrained(c)
  BY <1>5, ControlDrainedKeeps
<1>6. CASE ControlDrainFails(c)
  <2>1. DebtIsCurrent' /\ hitl' \in Gate
    <3>1. CASE op[c].was /\ hitl.gen < MaxGen /\ hitl' = SetHitlPending(hitl, TRUE)
      BY <3>1, GateSet DEF ViewInv
    <3>2. CASE hitl' = hitl
      BY <3>2, GateStays DEF ViewInv
    <3> QED BY <1>6, <3>1, <3>2 DEF ControlDrainFails
  <2> QED BY <1>1, <1>6, <2>1, EndedKeeps DEF ControlDrainFails
<1>7. CASE BoundaryEntered(c)
  <2>1. pix' \in Pixels /\ pix'.allowed = pix.allowed
    BY <1>7, Blank DEF ViewInv, BoundaryEntered
  <2>2. hitl' \in Gate /\ DebtIsCurrent'
    BY <1>7, GateStays DEF ViewInv, BoundaryEntered
  <2>3. /\ op' \in [Calls -> Rpc] /\ op'[c].pc \in {"idle", "capture"}
        /\ \A d \in Calls : d # c => op'[d] = op[d]
    BY <1>7, RpcGoesTo, RpcEnds DEF ViewInv, BoundaryEntered
  <2>4. relay' \in [Clients -> Access \cup {Nothing}] /\ \A k \in Clients : relay'[k] = Nothing
    BY <1>7 DEF BoundaryEntered
  <2>5. /\ cam' \in Camera /\ page' \in Pages /\ UNCHANGED <<life, grants, shot>>
        /\ \A k \in Clients : relay'[k] \in {relay[k], Nothing}
    BY <1>1, <1>7, <2>4 DEF BoundaryEntered
  <2>6. (c \notin crossed'.pixels /\ op'[c].pc # "idle") => c \notin crossed.pixels
    BY <2>1, <2>2, <2>3, Crosses
  <2>7. RevokesGate(c)' /\ (c \notin crossed.pixels => RevokesPixels(c))'
    BY <1>7, <2>1, <2>3, <2>4, <2>6 DEF ViewInv, DriverIsAlone, BoundaryEntered, RevokesGate, RevokesPixels,
       OpAt, Attached
  <2> QED BY <2>1, <2>2, <2>3, <2>4, <2>5, <2>7, CallKeeps
<1>8. CASE \E outcome \in {"gate", "ready", "elsewhere", "error"} : DriveEnds(c, outcome)
  BY <1>8, DriveEndsKeeps
<1>9. CASE ResumeRefusedBeforeAction(c)
  <2>1. hitl' \in Gate /\ DebtIsCurrent'
    BY <1>9, GateSet DEF ViewInv, ResumeRefusedBeforeAction
  <2> QED BY <1>1, <1>9, <2>1, EndedKeeps DEF ResumeRefusedBeforeAction
<1>10. CASE BoundaryFails(c) \/ ActEnds(c) \/ ObserveEnds(c) \/ CaptureEnds(c)
  <2>1. /\ hitl' = hitl /\ pix' = pix /\ cam' = cam /\ page' \in Pages
        /\ Ends(c) /\ UNCHANGED <<life, pixelVars>>
    BY <1>1, <1>10 DEF BoundaryFails, ActEnds, ObserveEnds, CaptureEnds, Pages
  <2>2. DebtIsCurrent'
    BY <2>1, GateStays DEF ViewInv
  <2> QED BY <1>1, <2>1, <2>2, EndedKeeps
<1>11. CASE ArmEnds(c)
  <2>1. CASE SurfaceProven
    BY <1>1, <1>11, <2>1, Blank, EntersBoundaryKeeps DEF ViewInv, ArmEnds
  <2>2. CASE ~SurfaceProven
    <3>1. DebtIsCurrent'
      BY <1>11, <2>2, GateStays DEF ViewInv, ArmEnds
    <3> QED BY <1>1, <1>11, <2>2, <3>1, EndedKeeps DEF ArmEnds
  <2> QED BY <2>1, <2>2
<1>12. CASE ReleaseEnds(c)
  <2>1. DebtIsCurrent'
    BY <1>12, GateStays DEF ViewInv, ReleaseEnds
  <2>2. pix' \in Pixels /\ cam' \in Camera
    BY <1>1, <1>12, Blank DEF ViewInv, ReleaseEnds, PixelsBack
  <2> QED BY <1>1, <1>12, <2>1, <2>2, EndedKeeps DEF ReleaseEnds
<1> QED BY <1>2, <1>3, <1>4, <1>5, <1>6, <1>7, <1>8, <1>9, <1>10, <1>11, <1>12 DEF CallStep

\* A person may open a control relay only at a gate, and any relay only while pixels
\* are allowed.
LEMMA PeopleStepKeeps ==
  ASSUME ViewInv, Watch, PeopleStep
  PROVE  ViewInv'
<1>1. /\ page \in Pages /\ pix \in Pixels /\ cam \in Camera /\ hitl \in Gate /\ op \in [Calls -> Rpc]
      /\ life \in {"ACTIVE", "aged", "closed"} /\ grants \subseteq Grants
      /\ relay \in [Clients -> Access \cup {Nothing}] /\ shot \in {"idle", "wait"}
  BY ViewTypesAre DEF ViewInv
<1> DEFINE Quiet == op' = op /\ hitl' = hitl /\ pix' = pix /\ DebtIsCurrent'
<1>2. CASE IssueGrant
  <2>1. Quiet /\ relay' = relay
    BY <1>2, GateStays DEF ViewInv, IssueGrant, sessionVars
  <2>2. PICK g : g = [access |-> IF hitl.pending THEN "control" ELSE "view", gen |-> hitl.gen]
    OBVIOUS
  <2>3. grants' = grants \cup {g} /\ g \in Grants
    BY <1>1, <1>2, <2>2 DEF IssueGrant, Grants, Gate, Access
  <2>4. ViewTypeOKButHistory'
    BY <1>1, <1>2, <2>3 DEF IssueGrant, sessionVars, ViewTypeOKButHistory
  <2> QED BY <2>1, <2>4, PeopleKeep
<1>3. CASE ScreenshotAsked \/ \E ok \in BOOLEAN : ScreenshotTaken(ok)
  <2>1. Quiet /\ relay' = relay /\ UNCHANGED <<life, page, grants>>
    BY <1>3, GateStays DEF ViewInv, ScreenshotAsked, ScreenshotTaken
  <2>2. cam' \in Camera /\ shot' \in {"idle", "wait"}
    BY <1>1, <1>3 DEF ScreenshotAsked, ScreenshotTaken, Camera, Frames
  <2>3. ViewTypeOKButHistory'
    BY <1>1, <2>1, <2>2 DEF ViewTypeOKButHistory
  <2> QED BY <2>1, <2>3, PeopleKeep
<1>4. CASE \E k \in Clients : Detach(k)
  <2>1. PICK k \in Clients : Detach(k)
    BY <1>4
  <2>2. hitl' = hitl \/ (hitl.pending /\ hitl' = [hitl EXCEPT !.owed = hitl.gen])
    BY <2>1 DEF Detach
  <2>3. hitl' \in Gate /\ hitl'.pending = hitl.pending /\ DebtIsCurrent'
    BY <1>1, <2>2 DEF ViewInv, Gate, DebtIsCurrent
  <2>4. relay' \in [Clients -> Access \cup {Nothing}]
        /\ \A j \in Clients : relay'[j] \in {relay[j], Nothing}
    BY <1>1, <2>1 DEF Detach
  <2>5. ViewTypeOKButHistory'
    BY <1>1, <2>1, <2>3, <2>4 DEF Detach, ViewTypeOKButHistory
  <2>6. Nothing # "control"
    BY ViewAssumption DEF Access
  <2> QED BY <2>1, <2>3, <2>4, <2>5, <2>6, PeopleKeep DEF Detach
<1>5. CASE \E k \in Clients : HumanActs(k)
  <2>1. Quiet /\ relay' = relay /\ UNCHANGED <<life, cam, grants, shot>> /\ page' \in Pages
    BY <1>5, GateStays DEF ViewInv, HumanActs, pixelVars
  <2>2. ViewTypeOKButHistory'
    BY <1>1, <2>1 DEF ViewTypeOKButHistory
  <2> QED BY <2>1, <2>2, PeopleKeep
<1>6. CASE \E k \in Clients : \E g \in grants : Attach(k, g)
  <2>1. PICK k \in Clients, g \in grants : Attach(k, g)
    BY <1>6
  <2>2. Quiet /\ UNCHANGED <<life, page, cam, grants, shot>> /\ pix.allowed
        /\ (g.access = "control" => hitl.pending) /\ relay' = [relay EXCEPT ![k] = g.access]
    BY <2>1, GateStays DEF ViewInv, Attach, Authorized, sessionVars
  <2>3. g.access \in Access
    BY <1>1 DEF Grants
  <2>4. relay' \in [Clients -> Access \cup {Nothing}]
        /\ relay'[k] = g.access /\ \A j \in Clients : j # k => relay'[j] = relay[j]
    BY <1>1, <2>2, <2>3
  <2>5. ViewTypeOKButHistory'
    BY <1>1, <2>2, <2>4 DEF ViewTypeOKButHistory
  <2> QED BY <2>2, <2>4, <2>5, PeopleKeep
<1> QED BY <1>2, <1>3, <1>4, <1>5, <1>6 DEF PeopleStep

LEMMA CloseKeeps ==
  ASSUME ViewInv, Watch, NEW why \in {"aged", "closed"}, Close(why)
  PROVE  ViewInv'
<1>1. /\ page \in Pages /\ pix \in Pixels /\ cam \in Camera /\ hitl \in Gate /\ op \in [Calls -> Rpc]
      /\ grants \subseteq Grants
  BY ViewTypesAre DEF ViewInv
<1>2. hitl' \in Gate /\ hitl'.pending = FALSE /\ DebtIsCurrent'
  BY GateSet DEF ViewInv, Close
<1>3. relay' \in [Clients -> Access \cup {Nothing}] /\ \A k \in Clients : relay'[k] = Nothing
  BY DEF Close
<1>4. ViewTypeOKButHistory'
  BY <1>1, <1>2, <1>3 DEF Close, ViewTypeOKButHistory
<1>5. Nothing # "control"
  BY ViewAssumption DEF Access
<1> QED BY <1>2, <1>3, <1>4, <1>5, PeopleKeep DEF Close

LEMMA ViewInitEstablishes == ViewInit => ViewInv
<1> SUFFICES ASSUME ViewInit PROVE ViewInv
  OBVIOUS
<1>1. op \in [Calls -> Rpc] /\ \A c \in Calls : op[c].pc = "idle"
  BY DEF ViewInit, NoCall, Rpc
<1>2. ViewTypeOK
  BY <1>1, ViewAssumption DEF ViewInit, ViewTypeOK, Rpc, Pages, Frames, Uncrossed
<1> QED BY <1>1, <1>2 DEF ViewInit, ViewInv, DebtIsCurrent, DriverIsAlone, RevokesGate, RevokesPixels, OpAt

LEMMA ViewStays == ViewInv /\ UNCHANGED <<viewVars, crossed>> => ViewInv'
BY DEF ViewInv, viewVars, sessionVars, pixelVars, ViewTypeOK, DebtIsCurrent, DriverIsAlone,
   RevokesGate, RevokesPixels, OpAt, Verb, Controlled, Attached

\* Nothing happens to the session: the history stays the same as well.
LEMMA ViewRests == ViewInv /\ UNCHANGED viewVars /\ Watch => ViewInv'
<1> SUFFICES ASSUME ViewInv, UNCHANGED viewVars, Watch PROVE ViewInv'
  OBVIOUS
<1>1. ViewTypeOKButHistory' /\ DebtIsCurrent'
  BY ViewTypesAre DEF ViewInv, viewVars, sessionVars, pixelVars, ViewTypeOKButHistory, DebtIsCurrent
<1>2. op' = op /\ relay' = relay
  BY DEF viewVars, sessionVars, pixelVars
<1> QED BY <1>1, <1>2, PeopleKeep

LEMMA ViewStepKeeps == ViewInv /\ [ViewNext /\ Watch]_<<viewVars, crossed>> => ViewInv'
<1> SUFFICES ASSUME ViewInv, [ViewNext /\ Watch]_<<viewVars, crossed>> PROVE ViewInv'
  OBVIOUS
<1>1. CASE UNCHANGED <<viewVars, crossed>>
  BY <1>1, ViewStays
<1>2. CASE ViewNext /\ Watch
  BY <1>2, CallStepKeeps, PeopleStepKeeps, CloseKeeps DEF ViewNext
<1> QED BY <1>1, <1>2

\* The row's and the probe's own steps.
LEMMA WriteTyped ==
  ASSUME TakeoverTypeOK, NEW status \in {"driving", "parked", "paused", "ended"}, NEW gen \in 0..MaxGen,
         Write(status, gen)
  PROVE  run' \in RunRow /\ run'.status = status
<1>1. run.rev \in 0..MaxRev /\ run.rev < MaxRev /\ MaxRev \in Nat
  BY TakeoverAssumption DEF TakeoverTypeOK, Write
<1>2. run.rev + 1 \in 0..MaxRev
  BY <1>1
<1> QED BY <1>2 DEF Write, RunRow

LEMMA TakeoverTypesAre ==
    TakeoverTypeOK <=>
        run \in RunRow /\ watch \in (0..MaxRev) \cup {Nothing} /\ probe \in Clearance
BY DEF TakeoverTypeOK, RunRow, Clearance

LEMMA ProbesTyped == NoProbe \in Clearance /\ NoProbe.pc = "idle"
BY ViewAssumption, TakeoverAssumption DEF NoProbe, Clearance

LEMMA ReportTyped ==
  ASSUME ViewInv, TakeoverTypeOK, NEW sight \in Sightings
  PROVE  ReportAfter(sight) \in Clearance
<1>1. hitl \in Gate /\ probe \in Clearance
  BY ViewTypesAre, TakeoverTypesAre DEF ViewInv
<1>2. PICK owed : owed = (probe.owed /\ hitl.pending /\ hitl.owed = probe.gen)
  OBVIOUS
<1>3. PICK moved : moved = (hitl.gen # probe.gen)
  OBVIOUS
<1>4. PICK seen : seen = IF moved THEN "unread" ELSE sight
  OBVIOUS
<1>5. PICK alive : alive = (life = "ACTIVE")
  OBVIOUS
<1>6. PICK due : due = (owed /\ ~moved)
  OBVIOUS
<1>7. /\ due \in BOOLEAN /\ alive \in BOOLEAN /\ seen \in Sightings
      /\ hitl.gen \in 0..MaxGen /\ hitl.pending \in BOOLEAN
  BY <1>1, <1>2, <1>3, <1>4, <1>5, <1>6 DEF Gate, Sightings
<1>8. ReportAfter(sight) = [probe EXCEPT !.pc = "report", !.gen = hitl.gen, !.owed = due, !.seen = seen,
                                         !.pending = hitl.pending, !.alive = alive]
  BY <1>2, <1>3, <1>4, <1>5, <1>6 DEF ReportAfter
<1> QED BY <1>1, <1>7, <1>8 DEF Clearance

\* A read that spends the debt leaves the gate as it was.
LEMMA DebtSpent ==
  ASSUME ViewInv, NEW sight, hitl' = SpendsDebt(sight)
  PROVE  hitl' \in Gate /\ hitl'.pending = hitl.pending /\ DebtIsCurrent'
<1>1. hitl \in Gate /\ MaxGen \in Nat
  BY ViewTypesAre, ViewAssumption DEF ViewInv
<1> QED BY <1>1 DEF ViewInv, SpendsDebt, Gate, DebtIsCurrent

\* What a step of the takeover does to the session is one of the session's own steps, a
\* page that moves on, or a read that spends the debt.
LEMMA TakeoverLeavesView ==
  ASSUME ViewInv, Watch, TakeoverNext
  PROVE  ViewInv'
<1>1. CASE \E c \in Calls :
             \/ RunNavigates(c) \/ OwnerResumes(c) \/ ResumeRefused(c)
             \/ RunDrained(c) \/ RunDrainFails(c)
             \/ \E outcome \in {"gate", "elsewhere", "error"} : RunDriveEnds(c, outcome)
  <2>1. PICK c \in Calls : \/ Navigate(c) \/ Resume(c, Nothing) \/ ResumeRefusedBeforeAction(c)
                           \/ ControlDrained(c) \/ ControlDrainFails(c)
                           \/ \E outcome \in {"gate", "ready", "elsewhere", "error"} : DriveEnds(c, outcome)
    BY <1>1 DEF RunNavigates, OwnerResumes, ResumeRefused, RunDrained, RunDrainFails, RunDriveEnds
  <2> QED BY <2>1, CallStepKeeps DEF CallStep
<1>2. CASE \E c \in Calls : SweepContinues(c)
  <2>1. PICK c \in Calls : SweepContinues(c)
    BY <1>2
  <2>2. CASE Resume(c, run.gen)
    <3>1. \E verb \in Moving : TakesControl(c, verb) /\ UNCHANGED <<life, pix, page, cam, pixelVars>>
      BY <2>2 DEF Resume, Moving
    <3> QED BY <3>1, TakesControlKeeps
  <2>3. CASE UNCHANGED viewVars
    BY <2>3, ViewRests
  <2> QED BY <2>1, <2>2, <2>3 DEF SweepContinues
<1>3. CASE PageMoves
  <2>1. /\ op' = op /\ hitl' = hitl /\ pix' = pix /\ relay' = relay /\ page' \in Pages
        /\ UNCHANGED <<life, cam, grants, shot>>
    BY <1>3 DEF PageMoves, pixelVars, Pages
  <2>2. ViewTypeOKButHistory' /\ DebtIsCurrent'
    BY <2>1, ViewTypesAre DEF ViewInv, ViewTypeOKButHistory, DebtIsCurrent
  <2> QED BY <2>1, <2>2, PeopleKeep
<1>4. CASE ProbeReads \/ ProbeReadsNothing
  <2>1. PICK sight : hitl' = SpendsDebt(sight)
    BY <1>4 DEF ProbeReads, ProbeReadsNothing
  <2>2. hitl' \in Gate /\ hitl'.pending = hitl.pending /\ DebtIsCurrent'
    BY <2>1, DebtSpent
  <2>3. UNCHANGED <<life, pix, page, cam, op, pixelVars>>
    BY <1>4 DEF ProbeReads, ProbeReadsNothing
  <2>4. ViewTypeOKButHistory'
    BY <2>2, <2>3, ViewTypesAre DEF ViewInv, ViewTypeOKButHistory, pixelVars
  <2> QED BY <2>2, <2>3, <2>4, PeopleKeep DEF pixelVars
<1>5. CASE SweepProbes \/ ReportLost \/ SweepStops \/ SweepWaits \/ SweepPauses
  <2>1. UNCHANGED viewVars
    BY <1>5 DEF SweepProbes, ReportLost, SweepStops, SweepWaits, SweepPauses
  <2> QED BY <2>1, ViewRests
<1>6. CASE \/ IssueGrant
           \/ \E k \in Clients : Detach(k) \/ HumanActs(k) \/ \E g \in grants : Attach(k, g)
           \/ \E why \in {"aged", "closed"} : Close(why)
  BY <1>6, PeopleStepKeeps, CloseKeeps DEF PeopleStep
<1> QED BY <1>1, <1>2, <1>3, <1>4, <1>5, <1>6 DEF TakeoverNext

LEMMA TakeoverStaysTyped ==
  ASSUME ViewInv, Watch, TakeoverTypeOK, TakeoverNext
  PROVE  TakeoverTypeOK'
<1>1. /\ run \in RunRow /\ watch \in (0..MaxRev) \cup {Nothing} /\ probe \in Clearance
      /\ hitl \in Gate /\ MaxGen \in Nat /\ 0 \in 0..MaxGen
  BY TakeoverTypesAre, ViewTypesAre, ViewAssumption DEF ViewInv
<1>2. ViewInv'
  BY TakeoverLeavesView
<1>3. hitl'.gen \in 0..MaxGen
  BY <1>2, ViewTypesAre DEF ViewInv, ViewTypeOK
<1>4. CASE \E c \in Calls : RunNavigates(c)
  <2>1. run.rev = 0 /\ run.rev < MaxRev /\ run' = [run EXCEPT !.rev = 1] /\ UNCHANGED <<watch, probe>>
    BY <1>4 DEF RunNavigates
  <2>2. 1 \in 0..MaxRev
    BY <2>1, TakeoverAssumption
  <2> QED BY <1>1, <2>1, <2>2, TakeoverTypesAre DEF RunRow, TakeoverTypeOK
<1>5. CASE \E c \in Calls :
             \/ OwnerResumes(c) \/ ResumeRefused(c) \/ RunDrainFails(c)
             \/ \E outcome \in {"gate", "elsewhere", "error"} : RunDriveEnds(c, outcome)
  <2>1. UNCHANGED <<watch, probe>> /\ \E status \in {"driving", "parked", "ended"}, gen \in 0..MaxGen : Write(status, gen)
    BY <1>1, <1>3, <1>5 DEF OwnerResumes, ResumeRefused, RunDrainFails, RunDriveEnds
  <2>2. run' \in RunRow
    BY <2>1, WriteTyped
  <2> QED BY <1>1, <2>1, <2>2 DEF TakeoverTypeOK, RunRow, Clearance
<1>6. CASE \E c \in Calls : SweepContinues(c)
  <2>1. UNCHANGED watch /\ probe' = NoProbe
        /\ (run' = run \/ \E status \in {"driving", "parked"} : Write(status, 0))
    BY <1>6 DEF SweepContinues
  <2>2. run' \in RunRow
    BY <1>1, <2>1, WriteTyped
  <2> QED BY <1>1, <2>1, <2>2, ProbesTyped DEF TakeoverTypeOK, RunRow, Clearance
<1>7. CASE SweepProbes
  <2>1. PICK attached : attached = Attached
    OBVIOUS
  <2>2. PICK owed : owed = (hitl.pending /\ hitl.owed = hitl.gen)
    OBVIOUS
  <2>3. PICK pc : pc = IF life = "ACTIVE" /\ hitl.pending THEN "read" ELSE "report"
    OBVIOUS
  <2>4. PICK seen : seen = CASE life = "aged" -> "aged" [] life = "closed" -> "gone" [] OTHER -> "unread"
    OBVIOUS
  <2>5. /\ attached \in BOOLEAN /\ owed \in BOOLEAN /\ pc \in {"read", "report"} /\ seen \in Sightings
        /\ run.rev \in 0..MaxRev /\ hitl.gen \in 0..MaxGen /\ hitl.pending \in BOOLEAN
    BY <1>1, <2>1, <2>2, <2>3, <2>4 DEF Attached, Sightings, Gate, RunRow
  <2>6. probe' = [pc |-> pc, rev |-> run.rev, attached |-> attached, gen |-> hitl.gen, owed |-> owed,
                  seen |-> seen, pending |-> hitl.pending, alive |-> TRUE]
    BY <1>7, <2>1, <2>2, <2>3, <2>4 DEF SweepProbes
  <2>7. probe' \in Clearance
    BY <2>5, <2>6 DEF Clearance
  <2> QED BY <1>1, <1>7, <2>7 DEF SweepProbes, TakeoverTypeOK, RunRow, Clearance
<1>8. CASE ProbeReads \/ ProbeReadsNothing
  <2>1. UNCHANGED <<run, watch>> /\ \E sight \in Sightings : probe' = ReportAfter(sight)
    BY <1>8 DEF ProbeReads, ProbeReadsNothing, Sightings
  <2>2. probe' \in Clearance
    BY <2>1, ReportTyped
  <2> QED BY <1>1, <2>1, <2>2 DEF TakeoverTypeOK, RunRow, Clearance
<1>9. CASE ReportLost
  <2>1. probe' \in Clearance
    BY <1>1, <1>9 DEF ReportLost, Clearance, Sightings
  <2> QED BY <1>1, <1>9, <2>1 DEF ReportLost, viewVars, TakeoverTypeOK, RunRow, Clearance
<1>10. CASE SweepStops \/ SweepWaits \/ SweepPauses
  <2>1. /\ probe' = NoProbe /\ watch' \in {watch, probe.rev}
        /\ run' = run \/ Write("paused", 0)
    BY <1>10 DEF SweepStops, SweepWaits, SweepPauses
  <2>2. run' \in RunRow
    BY <1>1, <2>1, WriteTyped
  <2>3. watch' \in (0..MaxRev) \cup {Nothing}
    BY <1>1, <2>1 DEF Clearance
  <2> QED BY <2>1, <2>2, <2>3, ProbesTyped DEF TakeoverTypeOK, RunRow, Clearance
<1>11. CASE UNCHANGED takeoverVars
  BY <1>1, <1>11 DEF takeoverVars, TakeoverTypeOK, RunRow, Clearance
<1> QED BY <1>4, <1>5, <1>6, <1>7, <1>8, <1>9, <1>10, <1>11 DEF TakeoverNext, RunDrained, PageMoves

\* Whoever decides has a report.
ReportIsThere == probe.pc # "idle" => probe.seen # Nothing

LEMMA ReportStaysThere ==
  ASSUME ReportIsThere, TakeoverNext
  PROVE  ReportIsThere'
<1>1. Nothing \notin Sightings
  BY TakeoverAssumption
<1>2. CASE SweepProbes
  BY <1>1, <1>2 DEF SweepProbes, ReportIsThere, Sightings
<1>3. CASE ProbeReads \/ ProbeReadsNothing
  <2>1. PICK sight \in Sightings : probe' = ReportAfter(sight)
    BY <1>3 DEF ProbeReads, ProbeReadsNothing, Sightings
  <2>2. PICK moved : moved = (hitl.gen # probe.gen)
    OBVIOUS
  <2>3. probe.pc # "idle"
    BY <1>3 DEF ProbeReads, ProbeReadsNothing
  <2>4. probe'.seen # Nothing \/ probe'.seen = probe.seen
    BY <1>1, <2>1, <2>2 DEF ReportAfter, Sightings
  <2> QED BY <2>3, <2>4 DEF ReportIsThere
<1>4. CASE ReportLost
  BY <1>1, <1>4 DEF ReportLost, ReportIsThere, Sightings
<1>5. CASE probe' = NoProbe \/ probe' = probe
  BY <1>5, ProbesTyped DEF ReportIsThere
<1>6. probe' = NoProbe \/ probe' = probe \/ SweepProbes \/ ProbeReads \/ ProbeReadsNothing \/ ReportLost
  BY DEF TakeoverNext, RunNavigates, OwnerResumes, ResumeRefused, RunDrained, RunDrainFails, RunDriveEnds,
     SweepContinues, PageMoves, SweepStops, SweepWaits, SweepPauses, takeoverVars
<1> QED BY <1>2, <1>3, <1>4, <1>5, <1>6

SessionInv == ViewInv /\ TakeoverTypeOK /\ ReportIsThere

LEMMA TakeoverInitEstablishes == TakeoverInit => SessionInv
<1> SUFFICES ASSUME TakeoverInit PROVE SessionInv
  OBVIOUS
<1>1. 0 \in 0..MaxGen /\ 0 \in 0..MaxRev
  BY ViewAssumption, TakeoverAssumption
<1>2. TakeoverTypeOK
  BY <1>1, ProbesTyped, TakeoverTypesAre DEF TakeoverInit, RunRow
<1>3. ReportIsThere
  BY ProbesTyped DEF TakeoverInit, ReportIsThere
<1> QED BY <1>2, <1>3, ViewInitEstablishes DEF TakeoverInit, SessionInv

LEMMA TakeoverStepKeeps == SessionInv /\ [TakeoverNext /\ Watch]_<<allVars, crossed>> => SessionInv'
<1> SUFFICES ASSUME SessionInv, [TakeoverNext /\ Watch]_<<allVars, crossed>> PROVE SessionInv'
  OBVIOUS
<1>1. CASE TakeoverNext /\ Watch
  BY <1>1, TakeoverLeavesView, TakeoverStaysTyped, ReportStaysThere DEF SessionInv
<1>2. CASE UNCHANGED <<allVars, crossed>>
  <2>1. TakeoverTypeOK' /\ ReportIsThere'
    BY <1>2 DEF SessionInv, allVars, takeoverVars, TakeoverTypeOK, ReportIsThere
  <2>2. ViewInv'
    BY <1>2, ViewStays DEF SessionInv, allVars
  <2> QED BY <2>1, <2>2 DEF SessionInv
<1> QED BY <1>1, <1>2

\* At a boundary nobody is authorized, because no pixel is.
LEMMA UncrossedIsUnwatched ==
  ASSUME ViewInv
  PROVE  AgentXorHuman /\ CaptureIsUnwatched
BY DEF ViewInv, DriverIsAlone, RevokesGate, RevokesPixels, AgentXorHuman, CaptureIsUnwatched, Authorized

\* The pause the sweep continues is the one it read: the row was compared with the
\* revision that was observed, the gate with the generation that was projected
\* (RunTakeoverService._apply, resume_after_takeover), whoever else is at the session and
\* however many calls are open.
THEOREM ContinuesTheObservedPause == TakeoverSpec => ContinuesWhatWasRead
<1> DEFINE Continued ==
      run.status = "parked" /\ run'.status = "driving" /\ probe.pc = "report" /\ probe'.pc = "idle"
        => /\ probe.seen = "clear" /\ probe.gen = hitl.gen /\ probe.rev = run.rev
           /\ probe.attached \/ probe.owed
<1>1. SessionInv /\ [TakeoverNext /\ Watch]_<<allVars, crossed>> => [Continued]_allVars
  <2> SUFFICES ASSUME SessionInv, TakeoverNext /\ Watch, run.status = "parked", run'.status = "driving",
                      probe.pc = "report", probe'.pc = "idle"
               PROVE  /\ probe.seen = "clear" /\ probe.gen = hitl.gen /\ probe.rev = run.rev
                      /\ probe.attached \/ probe.owed
    BY DEF allVars
  <2>1. probe \in Clearance /\ run \in RunRow
    BY TakeoverTypesAre DEF SessionInv
  <2>2. \E c \in Calls : SweepContinues(c)
    <3>1. UNCHANGED probe => FALSE
      OBVIOUS
    <3>2. UNCHANGED run => FALSE
      OBVIOUS
    <3>3. ~SweepPauses
      BY DEF SweepPauses, Write
    <3> QED BY <3>1, <3>2, <3>3 DEF TakeoverNext, RunNavigates, OwnerResumes, ResumeRefused, RunDrained,
       RunDrainFails, RunDriveEnds, PageMoves, SweepProbes, ProbeReads, ProbeReadsNothing, ReportLost,
       SweepStops, SweepWaits, takeoverVars
  <2>3. PICK c \in Calls : SweepContinues(c)
    BY <2>2
  <2>4. /\ ~OtherGeneration(probe) /\ DecideTakeover(probe) = "continue"
        /\ RowUnmoved(probe.rev) /\ run.gen # 0 /\ Resume(c, run.gen)
    BY <2>3 DEF SweepContinues, Write
  <2>5. probe.seen = "clear" /\ (probe.attached \/ probe.owed)
    <3>1. probe.seen \in Sightings
      BY <2>1 DEF SessionInv, ReportIsThere, Clearance
    <3> QED BY <2>1, <2>4, <3>1 DEF DecideTakeover, Clearance, Sightings
  <2>6. probe.gen = run.gen /\ probe.rev = run.rev
    BY <2>4, <2>5 DEF OtherGeneration, RowUnmoved
  <2>7. run.gen # Nothing
    BY <2>1, ViewAssumption DEF RunRow
  <2> QED BY <2>4, <2>5, <2>6, <2>7 DEF Resume, ResumeAccepted
<1> QED BY <1>1, TakeoverInitEstablishes, TakeoverStepKeeps, PTL DEF TakeoverSpec, ContinuesWhatWasRead

-----------------------------------------------------------------------------
(* The run of the browser service: its parts are projected on their own       *)
(* specifications.                                                            *)

SessionPartInv == part # "registry" => SessionInv
RegistryPartInv == part = "registry" => PoolInv

\* Where the control plane makes one call at a time, it is never crossed.
LoneCall == (\A c \in Calls \ {Lead} : op[c].pc = "idle") /\ crossed = Uncrossed
LonePartInv == part = "session" => LoneCall

PartsInv == SessionPartInv /\ RegistryPartInv /\ LonePartInv

LEMMA PartsInit == MCInit => PartsInv
<1> SUFFICES ASSUME MCInit PROVE PartsInv
  OBVIOUS
<1>1. SessionPartInv /\ RegistryPartInv
  BY InitEstablishes, TakeoverInitEstablishes DEF MCInit, SessionPartInv, RegistryPartInv
<1>2. LonePartInv
  BY DEF MCInit, TakeoverInit, ViewInit, NoCall, LonePartInv, LoneCall
<1> QED BY <1>1, <1>2 DEF PartsInv

\* Only a call that ends puts the gate up or gives the pixels back.
LEMMA RaiserEnds ==
  ASSUME ViewInv, ViewNext, (hitl'.pending /\ ~hitl.pending) \/ (pix'.allowed /\ ~pix.allowed)
  PROVE  \E c \in Calls : op[c].pc # "idle" /\ op'[c].pc = "idle"
<1>1. /\ hitl \in Gate /\ pix \in Pixels /\ \A c \in Calls : Ends(c) => op'[c].pc = "idle"
      /\ [pix EXCEPT !.allowed = FALSE].allowed = FALSE
      /\ [pix EXCEPT !.allowed = FALSE, !.surface = TRUE].allowed = FALSE
      /\ [pix EXCEPT !.boundary = TRUE].allowed = pix.allowed
  BY ViewTypesAre, RpcEnds, Blank DEF ViewInv
<1>2. SetHitlPending(hitl, FALSE).pending = FALSE
  BY <1>1 DEF SetHitlPending, Gate
<1>3. ASSUME hitl' = SetHitlPending(hitl, FALSE) \/ hitl' = hitl,
             pix' = pix \/ pix'.allowed = FALSE \/ pix'.allowed = pix.allowed
      PROVE  FALSE
  BY <1>1, <1>2, <1>3 DEF Gate, Pixels
<1>4. CASE \E c \in Calls : CallStep(c) \/ \E g \in (1..MaxGen) \cup {Nothing} : Resume(c, g)
  <2>1. PICK c \in Calls : CallStep(c) \/ \E g \in (1..MaxGen) \cup {Nothing} : Resume(c, g)
    BY <1>4
  <2>2. CASE Ends(c) /\ op[c].pc # "idle"
    BY <1>1, <2>2
  <2>3. CASE \/ Navigate(c) \/ Act(c) \/ Capture(c) \/ ControlDrained(c) \/ BoundaryEntered(c)
             \/ \E verb \in Reading \ {"capture"} : Read(c, verb)
             \/ \E g \in (1..MaxGen) \cup {Nothing} : Resume(c, g)
    BY <1>1, <1>3, <2>3 DEF Navigate, Act, Capture, ControlDrained, BoundaryEntered, Read, Resume, TakesControl
  <2>4. CASE \E outcome \in {"gate", "ready", "elsewhere", "error"} : DriveEnds(c, outcome)
    <3>1. PICK outcome : DriveEnds(c, outcome)
      BY <2>4
    <3>2. op[c].pc # "idle" /\ (Ends(c) \/ EntersBoundary(c))
      BY <3>1 DEF DriveEnds, OpAt
    <3>3. CASE EntersBoundary(c)
      BY <1>1, <1>3, <3>3 DEF EntersBoundary
    <3> QED BY <2>2, <3>2, <3>3
  <2>5. CASE ArmEnds(c)
    <3>1. CASE EntersBoundary(c)
      BY <1>1, <1>3, <3>1 DEF EntersBoundary
    <3>2. CASE Ends(c)
      BY <2>2, <2>5, <3>2 DEF ArmEnds, OpAt
    <3> QED BY <2>5, <3>1, <3>2 DEF ArmEnds
  <2>6. CASE \/ ControlDrainFails(c) \/ BoundaryFails(c) \/ ResumeRefusedBeforeAction(c)
             \/ ActEnds(c) \/ ObserveEnds(c) \/ ReleaseEnds(c) \/ CaptureEnds(c)
    BY <2>2, <2>6 DEF ControlDrainFails, BoundaryFails, ResumeRefusedBeforeAction, ActEnds, ObserveEnds,
       ReleaseEnds, CaptureEnds, OpAt
  <2> QED BY <2>1, <2>3, <2>4, <2>5, <2>6 DEF CallStep
<1>5. CASE PeopleStep
  <2>1. pix' = pix /\ hitl'.pending = hitl.pending
    BY <1>1, <1>5 DEF PeopleStep, IssueGrant, ScreenshotAsked, ScreenshotTaken, Detach, HumanActs, Attach,
       sessionVars, Gate
  <2> QED BY <2>1
<1>6. CASE \E why \in {"aged", "closed"} : Close(why)
  BY <1>3, <1>6 DEF Close
<1> QED BY <1>4, <1>5, <1>6 DEF ViewNext

LEMMA LoneStep ==
  ASSUME ViewInv, LoneCall, ViewNext, Watch, \A c \in Calls \ {Lead} : op'[c].pc = "idle"
  PROVE  LoneCall'
<1>1. crossed.gate = {} /\ crossed.pixels = {}
  BY DEF LoneCall, Uncrossed
<1>2. ((hitl'.pending /\ ~hitl.pending) \/ (pix'.allowed /\ ~pix.allowed))
        => \A c \in Calls : op'[c].pc = "idle"
  BY RaiserEnds DEF LoneCall
<1>3. /\ StillOpen(crossed.gate, hitl'.pending /\ ~hitl.pending) = {}
      /\ StillOpen(crossed.pixels, pix'.allowed /\ ~pix.allowed) = {}
  BY <1>1, <1>2, Zenon DEF StillOpen
<1>4. crossed' = Uncrossed
  BY <1>3 DEF Watch, Uncrossed
<1> QED BY <1>4 DEF LoneCall

LEMMA PartsStep ==
  PartsInv /\ [MCNext]_<<part, vars, viewVars, crossed, takeoverVars>> => PartsInv'
<1> SUFFICES ASSUME PartsInv, [MCNext]_<<part, vars, viewVars, crossed, takeoverVars>>
             PROVE  PartsInv'
  OBVIOUS
<1> USE DEF PartsInv
<1>1. part' = part
  BY DEF MCNext
<1>2. part = "registry" => [Next]_vars
  BY DEF MCNext
<1>3. part \in {"session", "calls"} => [ViewNext /\ Watch]_<<viewVars, crossed>> /\ UNCHANGED takeoverVars
  BY DEF MCNext
<1>4. part \notin {"registry", "session", "calls"} => [TakeoverNext /\ Watch]_<<allVars, crossed>>
  BY DEF MCNext, allVars
<1>5. RegistryPartInv'
  BY <1>1, <1>2, StepKeeps DEF RegistryPartInv
<1>6. SessionPartInv'
  <2>1. CASE part \in {"session", "calls"}
    <3>1. ViewInv' /\ TakeoverTypeOK' /\ ReportIsThere'
      BY <1>3, <2>1, ViewStepKeeps DEF SessionPartInv, SessionInv, takeoverVars, TakeoverTypeOK, ReportIsThere
    <3> QED BY <3>1 DEF SessionPartInv, SessionInv
  <2>2. CASE part \notin {"session", "calls"}
    BY <1>1, <1>4, <2>2, TakeoverStepKeeps DEF SessionPartInv
  <2> QED BY <2>1, <2>2
<1>7. LonePartInv'
  <2> SUFFICES ASSUME part = "session" PROVE LoneCall'
    BY <1>1 DEF LonePartInv
  <2>1. ViewInv /\ LoneCall
    BY DEF SessionPartInv, SessionInv, LonePartInv
  <2>2. CASE ViewNext /\ Watch /\ \A c \in Calls \ {Lead} : op'[c].pc = "idle"
    BY <2>1, <2>2, LoneStep
  <2>3. CASE UNCHANGED <<viewVars, crossed>>
    BY <2>1, <2>3 DEF LoneCall, viewVars, sessionVars
  <2> QED BY <2>2, <2>3 DEF MCNext
<1> QED BY <1>5, <1>6, <1>7

\* "The agent is driving" and "a person is driving" are never true together
\* (_take_exclusive_browser_control), and nobody watches a capture
\* (_enter_secret_capture_boundary), for any people at the live view, any grants and
\* gates, any number of calls open at once and with the takeover's reads in between: a
\* call can lose its page to a person or a viewer only after another call, open beside
\* it, put the gate up or gave the pixels back, and a call made alone never does.
THEOREM ViewIsSafe == MCSpec => []ViewSafety
<1>1. PartsInv => ViewSafety
  BY UncrossedIsUnwatched DEF PartsInv, SessionPartInv, LonePartInv, LoneCall, SessionInv, ViewInv, ViewSafety
<1> QED BY <1>1, PartsInit, PartsStep, PTL DEF MCSpec
=============================================================================
