------------------------- MODULE OutsideWorldProofs --------------------------
(* What a run does to the outside world and what it waits for from it: the    *)
(* effects (ExternalEffects), the verification messages (VerificationMailbox),*)
(* a vendor's replies (OutreachReplies) and the gates (GateAdvance).  Their   *)
(* safety holds for any keys, callers, runs, readers and bounds.              *)
EXTENDS ExternalEffects, VerificationMailbox, OutreachReplies, GateAdvance, TLAPS,
        FiniteSetTheorems, WellFoundedInduction

-----------------------------------------------------------------------------
(* ExternalEffects: at most one dispatch per authorization.                   *)

Active(c) == pc[c] # "idle"

(* The provider has not performed k's effect and no request for k is left.    *)
Untouched(k) == effects[k] = 0 /\ \A r \in wire : r.key # k

(* Only one caller at a time is inside a handler for a key, because only a    *)
(* caller inside one can move the row away from pending.                      *)
OneAuthorized ==
    \A c, d \in Callers : Active(c) /\ Active(d) /\ key[c] = key[d] => c = d

ActiveIsPending ==
    \A c \in Callers : Active(c) => row[key[c]].status = "pending"

ReservedIsUntouched ==
    \A c \in Callers : pc[c] = "reserved" => Untouched(key[c])

\* At most one request per key is on the wire, and only before the effect.
WireIsFirst ==
    /\ \A r \in wire : effects[r.key] = 0
    /\ \A r, s \in wire : r.key = s.key => r = s

EffectInv ==
    /\ TypeOK
    /\ OneAuthorized
    /\ ActiveIsPending
    /\ ReservedIsUntouched
    /\ WireIsFirst
    /\ FailedProvesUntouched
    /\ AtMostOnce
    /\ AdvanceIsRecorded

-----------------------------------------------------------------------------
(* Whatever a handler does when it leaves, it is a Leave step that writes     *)
(* "failed" only when nothing was dispatched, and reports "advance" only when *)
(* it wrote "completed".                                                      *)
LeaveRow(c, r, s) ==
    /\ r \in Row /\ s \in LoopSteps
    /\ s = "advance" => r.status = "completed"
    /\ \/ r.status \in {"pending", "completed", "outcome_unknown"}
       \/ r.status = "failed" /\ pc[c] = "reserved"

\* What the four ways to close a row write, given that the row is pending: a
\* row of the table, and "failed" only by mark_failed.
LEMMA PendingRowClosings ==
    ASSUME NEW r \in Row, r.status = "pending", NEW receipt \in Receipts
    PROVE  /\ CompleteRow(r, receipt) \in Row
           /\ CompleteRow(r, receipt).status = "completed"
           /\ MarkOutcomeUnknownRow(r) \in Row
           /\ MarkOutcomeUnknownRow(r).status = "outcome_unknown"
           /\ MarkFailedRow(r) \in Row
           /\ MarkFailedRow(r).status = "failed"
BY DEF CompleteRow, MarkOutcomeUnknownRow, MarkFailedRow, TransitionRow,
       TransitionAccepted, Row, RowStatus

\* The same two rows without a receipt in scope.
LEMMA PendingRowMarks ==
    ASSUME NEW r \in Row, r.status = "pending"
    PROVE  /\ MarkOutcomeUnknownRow(r) \in Row
           /\ MarkOutcomeUnknownRow(r).status = "outcome_unknown"
           /\ MarkFailedRow(r) \in Row
           /\ MarkFailedRow(r).status = "failed"
BY DEF MarkOutcomeUnknownRow, MarkFailedRow, TransitionRow,
       TransitionAccepted, Row, RowStatus

\* Every settling action of every handler, and a crash, is a Leave step that
\* keeps to LeaveRow.
LEMMA SettleIsLeave ==
    ASSUME EffectInv, NEW c \in Callers, Settle(c) \/ Dies(c)
    PROVE  /\ Active(c)
           /\ \E r, s : LeaveRow(c, r, s) /\ Leave(c, r, s)
<1>1. Active(c)
  BY DEF Settle, Dies, Active, SignupAnswered, SignupHumanGate, SignupFailed, SignupUnknown,
         DevAppDone, DevAppStoppedShort, CredentialUnarmed, CredentialCaptured,
         CredentialAmbiguous, SendNotConnected, SendAmbiguous, SendAccepted,
         BrowserStarted, BrowserStartAmbiguous, BrowserUnavailable, Doing
<1>2. Mine(c) \in Row /\ Mine(c).status = "pending"
  BY <1>1 DEF EffectInv, TypeOK, ActiveIsPending, Mine
<1>3. ASSUME NEW s \in LoopSteps, Completes(c, s)
      PROVE  \E r, t : LeaveRow(c, r, t) /\ Leave(c, r, t)
  <2>1. PICK receipt \in Receipts :
          Leave(c, CompleteRow(Mine(c), receipt),
                IF CompleteAccepted(Mine(c), receipt) THEN s ELSE "raised")
    BY <1>3 DEF Completes
  <2>2. LeaveRow(c, CompleteRow(Mine(c), receipt),
                 IF CompleteAccepted(Mine(c), receipt) THEN s ELSE "raised")
    BY <1>2, PendingRowClosings DEF LeaveRow, LoopSteps
  <2> QED BY <2>1, <2>2
<1>4. ASSUME NEW s \in LoopSteps \ {"advance"}, MarksUnknown(c, s)
      PROVE  \E r, t : LeaveRow(c, r, t) /\ Leave(c, r, t)
  <2>1. \A t \in {s, "raised"} : LeaveRow(c, MarkOutcomeUnknownRow(Mine(c)), t)
    BY <1>2, <1>4, PendingRowMarks DEF LeaveRow, LoopSteps
  <2> QED BY <1>4, <2>1 DEF MarksUnknown
<1>5. ASSUME NEW s \in LoopSteps \ {"advance"}, MarksFailed(c, s), pc[c] = "reserved"
      PROVE  \E r, t : LeaveRow(c, r, t) /\ Leave(c, r, t)
  <2>1. \A t \in {s, "raised"} : LeaveRow(c, MarkFailedRow(Mine(c)), t)
    BY <1>2, <1>5, PendingRowMarks DEF LeaveRow, LoopSteps
  <2> QED BY <1>5, <2>1 DEF MarksFailed
<1>6. ASSUME NEW s \in LoopSteps \ {"advance"}, LeavesOpen(c, s)
      PROVE  \E r, t : LeaveRow(c, r, t) /\ Leave(c, r, t)
  <2>1. LeaveRow(c, Mine(c), s)
    BY <1>2, <1>6 DEF LeaveRow
  <2> QED BY <1>6, <2>1 DEF LeavesOpen
<1>7. \/ \E s \in LoopSteps : Completes(c, s)
      \/ \E s \in LoopSteps \ {"advance"} : MarksUnknown(c, s) \/ LeavesOpen(c, s)
      \/ \E s \in LoopSteps \ {"advance"} : MarksFailed(c, s) /\ pc[c] = "reserved"
  <2>1. CASE Dies(c)
    BY <2>1 DEF Dies, LoopSteps
  <2>2. CASE SignupAnswered(c) \/ SignupHumanGate(c) \/ SignupFailed(c) \/ SignupUnknown(c)
    BY <2>2 DEF SignupAnswered, SignupHumanGate, SignupFailed, SignupUnknown, LoopSteps
  <2>3. CASE DevAppDone(c) \/ DevAppStoppedShort(c)
    BY <2>3 DEF DevAppDone, DevAppStoppedShort, LoopSteps
  <2>4. CASE CredentialUnarmed(c) \/ CredentialCaptured(c) \/ CredentialAmbiguous(c)
    BY <2>4 DEF CredentialUnarmed, CredentialCaptured, CredentialAmbiguous, LoopSteps
  <2>5. CASE SendNotConnected(c) \/ SendAmbiguous(c) \/ SendAccepted(c)
    BY <2>5 DEF SendNotConnected, SendAmbiguous, SendAccepted, LoopSteps
  <2>6. CASE BrowserStarted(c) \/ BrowserStartAmbiguous(c) \/ BrowserUnavailable(c)
    BY <2>6 DEF BrowserStarted, BrowserStartAmbiguous, BrowserUnavailable, LoopSteps
  <2> QED BY <2>1, <2>2, <2>3, <2>4, <2>5, <2>6 DEF Settle
<1> QED BY <1>1, <1>3, <1>4, <1>5, <1>6, <1>7

-----------------------------------------------------------------------------
\* The inductive invariant holds initially.
LEMMA EffectInvInit == Init => EffectInv
<1> SUFFICES ASSUME Init PROVE EffectInv
  OBVIOUS
<1>1. TypeOK
  BY DEF Init, TypeOK, NoRow, Row, RowStatus, LoopSteps
<1>2. OneAuthorized /\ ActiveIsPending /\ ReservedIsUntouched /\ WireIsFirst
  BY DEF Init, OneAuthorized, ActiveIsPending, ReservedIsUntouched, WireIsFirst, Active
<1>3. FailedProvesUntouched /\ AtMostOnce /\ AdvanceIsRecorded
  BY DEF Init, FailedProvesUntouched, AtMostOnce, AdvanceIsRecorded
<1> QED BY <1>1, <1>2, <1>3 DEF EffectInv

\* Entering a handler authorizes a caller only on an untouched key that no
\* other caller is working on.
LEMMA EnterPreserves ==
    ASSUME EffectInv, NEW c \in Callers, NEW k \in Keys,
           EnterExecute(c, k) \/ EnterSkip(c, k) \/ EnterReconcile(c, k)
    PROVE  EffectInv'
<1> USE DEF EffectInv
<1>0. Enter(c, k)
  BY DEF EnterExecute, EnterSkip, EnterReconcile
<1>1. ReserveRow(row[k]) \in Row
  BY DEF TypeOK, ReserveRow, Row, RowStatus
<1>2. TypeOK'
  BY <1>0, <1>1 DEF TypeOK, Enter, EnterExecute, EnterSkip, EnterReconcile, LoopSteps
<1>3. CASE PlanEffect(row[k]) = "execute" /\ EnterExecute(c, k)
  <2>1. row[k].status \in {"absent", "failed"}
    BY <1>3 DEF PlanEffect, PlanForReservation, ReserveStatus
  <2>2. Untouched(k)
    BY <2>1 DEF FailedProvesUntouched, Untouched
  <2>3. \A d \in Callers : Active(d) => key[d] # k
    BY <2>1 DEF ActiveIsPending
  <2>4. row'[k].status = "pending" /\ \A j \in Keys : j # k => row'[j] = row[j]
    BY <1>0, <2>1 DEF Enter, ReserveRow, TypeOK
  <2>5. /\ pc' = [pc EXCEPT ![c] = "reserved"] /\ key' = [key EXCEPT ![c] = k]
        /\ UNCHANGED <<wire, effects>>
    BY <1>0, <1>3 DEF Enter, EnterExecute
  <2>6. OneAuthorized'
    BY <2>3, <2>5, <1>2 DEF OneAuthorized, Active, TypeOK
  <2>7. ActiveIsPending'
    BY <2>3, <2>4, <2>5 DEF ActiveIsPending, Active, TypeOK
  <2>8. ReservedIsUntouched'
    BY <2>2, <2>5 DEF ReservedIsUntouched, Untouched, TypeOK
  <2>9. WireIsFirst' /\ FailedProvesUntouched' /\ AtMostOnce'
    BY <2>4, <2>5 DEF WireIsFirst, FailedProvesUntouched, AtMostOnce
  <2>10. AdvanceIsRecorded'
    BY <1>0, <1>3, <2>1, <2>4, <2>5 DEF AdvanceIsRecorded, EnterExecute, TypeOK
  <2> QED BY <1>2, <2>6, <2>7, <2>8, <2>9, <2>10
<1>4. CASE PlanEffect(row[k]) # "execute" /\ (EnterSkip(c, k) \/ EnterReconcile(c, k))
  <2>1. row[k].status \notin {"absent", "failed"}
    BY <1>4 DEF PlanEffect, PlanForReservation, ReserveStatus
  <2>2. row' = row
    BY <1>0, <2>1 DEF Enter, ReserveRow, TypeOK
  <2>3. /\ pc' = pc /\ key' = [key EXCEPT ![c] = k] /\ pc[c] = "idle"
        /\ UNCHANGED <<wire, effects>>
    BY <1>0, <1>4 DEF Enter, EnterSkip, EnterReconcile
  <2>4. \A d \in Callers : d # c => key'[d] = key[d]
    BY <2>3 DEF TypeOK
  <2>5. OneAuthorized' /\ ActiveIsPending' /\ ReservedIsUntouched'
    BY <2>2, <2>3, <2>4 DEF OneAuthorized, ActiveIsPending, ReservedIsUntouched,
                            Active, Untouched, TypeOK
  <2>6. WireIsFirst' /\ FailedProvesUntouched' /\ AtMostOnce'
    BY <2>2, <2>3 DEF WireIsFirst, FailedProvesUntouched, AtMostOnce
  <2>7. step'[c] = "advance" => row[k].status = "completed"
    BY <1>4 DEF EnterSkip, EnterReconcile, PlanEffect, PlanForReservation, ReserveStatus, TypeOK
  <2>8. \A d \in Callers : d # c => step'[d] = step[d]
    BY <1>4 DEF EnterSkip, EnterReconcile, TypeOK
  <2>9. AdvanceIsRecorded'
    BY <2>2, <2>3, <2>4, <2>7, <2>8 DEF AdvanceIsRecorded, TypeOK
  <2> QED BY <1>2, <2>5, <2>6, <2>9
<1> QED BY <1>3, <1>4 DEF EnterExecute, EnterSkip, EnterReconcile

\* Dispatching puts the first request for the key on the wire.
LEMMA DispatchPreserves ==
    ASSUME EffectInv, NEW c \in Callers, Dispatch(c)
    PROVE  EffectInv'
<1> USE DEF EffectInv
<1> DEFINE q == [key |-> key[c], from |-> c]
<1>1. /\ pc[c] = "reserved" /\ pc' = [pc EXCEPT ![c] = "dispatched"]
      /\ wire' = wire \cup {q} /\ UNCHANGED <<row, key, answer, step, effects>>
  BY DEF Dispatch
<1>2. q \in Requests /\ q.key = key[c] /\ key[c] \in Keys
  BY DEF TypeOK, Requests
<1>3. Untouched(key[c])
  BY <1>1 DEF ReservedIsUntouched
<1>4. TypeOK'
  BY <1>1, <1>2 DEF TypeOK
<1>5. OneAuthorized' /\ ActiveIsPending'
  BY <1>1 DEF OneAuthorized, ActiveIsPending, Active, TypeOK
<1>6. \A d \in Callers : d # c /\ pc[d] = "reserved" => key[d] # key[c]
  BY <1>1 DEF OneAuthorized, Active
<1>7. ReservedIsUntouched'
  BY <1>1, <1>2, <1>6 DEF ReservedIsUntouched, Untouched, TypeOK
<1>8. WireIsFirst'
  BY <1>1, <1>2, <1>3 DEF WireIsFirst, Untouched
<1>9. row[key[c]].status = "pending"
  BY <1>1 DEF ActiveIsPending, Active
<1>10. FailedProvesUntouched'
  BY <1>1, <1>2, <1>9 DEF FailedProvesUntouched
<1>11. AtMostOnce' /\ AdvanceIsRecorded'
  BY <1>1 DEF AtMostOnce, AdvanceIsRecorded
<1> QED BY <1>4, <1>5, <1>7, <1>8, <1>10, <1>11

\* The provider decides a request: the first and only one for its key.
LEMMA ProviderPreserves ==
    ASSUME EffectInv, NEW r \in wire, ProviderPerforms(r) \/ ProviderRefuses(r)
    PROVE  EffectInv'
<1> USE DEF EffectInv
<1>1. r \in Requests /\ r.key \in Keys /\ r.from \in Callers /\ effects[r.key] = 0
  BY DEF TypeOK, Requests, WireIsFirst
<1>2. /\ wire' = wire \ {r} /\ UNCHANGED <<row, pc, key, step>>
      /\ effects' = [effects EXCEPT ![r.key] = 1] \/ effects' = effects
  BY <1>1 DEF ProviderPerforms, ProviderRefuses, TypeOK
<1>3. answer' \in [Callers -> {"none", "took", "refused"}]
  BY DEF ProviderPerforms, ProviderRefuses, Answered, TypeOK
<1>4. TypeOK'
  BY <1>1, <1>2, <1>3 DEF TypeOK
<1>5. OneAuthorized' /\ ActiveIsPending'
  BY <1>2 DEF OneAuthorized, ActiveIsPending, Active
<1>6. \A k \in Keys : Untouched(k) => k # r.key /\ Untouched(k)'
  BY <1>1, <1>2 DEF Untouched, TypeOK
<1>7. ReservedIsUntouched'
  <2> SUFFICES ASSUME NEW d \in Callers, pc'[d] = "reserved"
               PROVE  Untouched(key[d])'
    BY <1>2 DEF ReservedIsUntouched, Untouched
  <2> QED BY <1>2, <1>6 DEF ReservedIsUntouched, TypeOK
<1>8. FailedProvesUntouched'
  BY <1>2, <1>6 DEF FailedProvesUntouched, Untouched
<1>9. \A s \in wire' : s \in wire /\ s.key # r.key /\ s.key \in Keys
  BY <1>2 DEF WireIsFirst, TypeOK, Requests
<1>10. WireIsFirst'
  BY <1>1, <1>2, <1>9 DEF WireIsFirst, TypeOK
<1>11. AtMostOnce' /\ AdvanceIsRecorded'
  BY <1>1, <1>2 DEF AtMostOnce, AdvanceIsRecorded, TypeOK
<1> QED BY <1>4, <1>5, <1>7, <1>8, <1>10, <1>11

\* Leaving a handler keeps the invariant: only a caller that dispatched
\* nothing writes "failed".
LEMMA LeavePreserves ==
    ASSUME EffectInv, NEW c \in Callers, Active(c), NEW r, NEW s,
           LeaveRow(c, r, s), Leave(c, r, s)
    PROVE  EffectInv'
<1> USE DEF EffectInv
<1>1. /\ row' = [row EXCEPT ![key[c]] = r] /\ pc' = [pc EXCEPT ![c] = "idle"]
      /\ UNCHANGED <<key, wire, effects>>
  BY DEF Leave
<1>2. r \in Row /\ s \in LoopSteps /\ key[c] \in Keys
  BY DEF LeaveRow, TypeOK
<1>3. TypeOK'
  BY <1>1, <1>2 DEF TypeOK, Leave
<1>4. \A d \in Callers : Active(d)' => d # c /\ Active(d) /\ key[d] # key[c] /\ pc'[d] = pc[d]
  BY <1>1 DEF Active, OneAuthorized, TypeOK
<1>5. OneAuthorized'
  BY <1>1, <1>4 DEF OneAuthorized
<1>6. ActiveIsPending'
  BY <1>1, <1>4 DEF ActiveIsPending, TypeOK
<1>7. ReservedIsUntouched'
  BY <1>1, <1>4 DEF ReservedIsUntouched, Untouched, Active
<1>8. WireIsFirst' /\ AtMostOnce'
  BY <1>1 DEF WireIsFirst, AtMostOnce
<1>9. r.status \in {"absent", "failed"} => Untouched(key[c])
  BY DEF LeaveRow, ReservedIsUntouched
<1>10. FailedProvesUntouched'
  BY <1>1, <1>2, <1>9 DEF FailedProvesUntouched, Untouched, TypeOK
<1>11. row[key[c]].status = "pending"
  BY DEF ActiveIsPending
<1>12. AdvanceIsRecorded'
  BY <1>1, <1>2, <1>11 DEF AdvanceIsRecorded, Leave, LeaveRow, TypeOK
<1> QED BY <1>3, <1>5, <1>6, <1>7, <1>8, <1>10, <1>12

\* Every step of the specification preserves the invariant.
LEMMA EffectInvNext == EffectInv /\ [Next]_vars => EffectInv'
<1> SUFFICES ASSUME EffectInv, [Next]_vars PROVE EffectInv'
  OBVIOUS
<1>1. CASE UNCHANGED vars
  BY <1>1 DEF vars, EffectInv, TypeOK, OneAuthorized, ActiveIsPending, ReservedIsUntouched,
              WireIsFirst, FailedProvesUntouched, AtMostOnce, AdvanceIsRecorded,
              Active, Untouched
<1>2. CASE ProviderStep
  BY <1>2, ProviderPreserves DEF ProviderStep
<1>3. ASSUME NEW c \in Callers, CallerStep(c) PROVE EffectInv'
  <2>1. CASE \E k \in Keys : EnterExecute(c, k) \/ EnterSkip(c, k) \/ EnterReconcile(c, k)
    BY <2>1, EnterPreserves
  <2>2. CASE Dispatch(c)
    BY <2>2, DispatchPreserves
  <2>3. CASE Settle(c) \/ Dies(c)
    BY <2>3, SettleIsLeave, LeavePreserves
  <2> QED BY <1>3, <2>1, <2>2, <2>3 DEF CallerStep
<1> QED BY <1>1, <1>2, <1>3 DEF Next

\* Every part of the invariant that a run checks.
LEMMA EffectInvImplies == EffectInv => AtMostOnce /\ RecordsAreTrue
BY DEF EffectInv, RecordsAreTrue

\* For every set of keys and callers, the provider performs each key's effect
\* at most once, however answers are lost, requests delayed and callers killed.
THEOREM EffectSafety == Spec => []AtMostOnce
BY EffectInvImplies, EffectInvInit, EffectInvNext, PTL DEF Spec

\* For every set of keys and callers: the status that authorizes a second
\* dispatch proves that no first one can take hold, a completed row stands for
\* an effect that happened, and a handler advances its run only behind it.
THEOREM RecordsStandForEffects == Spec => []RecordsAreTrue
BY EffectInvImplies, EffectInvInit, EffectInvNext, PTL DEF Spec

-----------------------------------------------------------------------------
\* What one step may do to the table and to the provider: it leaves both, it
\* performs one effect for the first time, or it rewrites one row that was not
\* completed.
LEMMA StepEffect ==
    ASSUME EffectInv, [Next]_vars
    PROVE  \/ UNCHANGED <<row, effects>>
           \/ \E k \in Keys : /\ effects[k] = 0
                              /\ effects' = [effects EXCEPT ![k] = 1]
                              /\ row' = row
           \/ \E k \in Keys : /\ row[k].status # "completed"
                              /\ \E r \in Row : row' = [row EXCEPT ![k] = r]
                              /\ effects' = effects
<1> USE DEF EffectInv
<1>1. CASE UNCHANGED vars
  BY <1>1 DEF vars
<1>2. CASE ProviderStep
  <2>1. PICK r \in wire : ProviderPerforms(r) \/ ProviderRefuses(r)
    BY <1>2 DEF ProviderStep
  <2>2. r.key \in Keys /\ effects[r.key] = 0
    BY DEF TypeOK, Requests, WireIsFirst
  <2> QED BY <2>1, <2>2 DEF ProviderPerforms, ProviderRefuses, TypeOK
<1>3. ASSUME NEW c \in Callers, CallerStep(c)
      PROVE  \/ UNCHANGED <<row, effects>>
             \/ \E k \in Keys : /\ row[k].status # "completed"
                                /\ \E r \in Row : row' = [row EXCEPT ![k] = r]
                                /\ effects' = effects
  <2>1. ASSUME NEW k \in Keys, Enter(c, k)
        PROVE  \/ UNCHANGED <<row, effects>>
               \/ /\ row[k].status # "completed"
                  /\ \E r \in Row : row' = [row EXCEPT ![k] = r]
                  /\ effects' = effects
    <3>1. CASE row[k].status \in {"absent", "failed"}
      <4>1. ReserveRow(row[k]) \in Row
        BY DEF ReserveRow, Row, RowStatus, TypeOK
      <4> QED BY <2>1, <3>1, <4>1 DEF Enter
    <3>2. CASE row[k].status \notin {"absent", "failed"}
      BY <2>1, <3>2 DEF Enter, ReserveRow, TypeOK
    <3> QED BY <3>1, <3>2
  <2>2. CASE \E k \in Keys : EnterExecute(c, k) \/ EnterSkip(c, k) \/ EnterReconcile(c, k)
    BY <2>1, <2>2 DEF EnterExecute, EnterSkip, EnterReconcile
  <2>3. CASE Dispatch(c)
    BY <2>3 DEF Dispatch
  <2>4. CASE Settle(c) \/ Dies(c)
    <3>1. Active(c)
      BY <2>4, SettleIsLeave
    <3>2. PICK r, s : LeaveRow(c, r, s) /\ Leave(c, r, s)
      BY <2>4, SettleIsLeave
    <3>3. key[c] \in Keys /\ row[key[c]].status = "pending"
      BY <3>1 DEF ActiveIsPending, TypeOK
    <3> QED BY <3>2, <3>3 DEF Leave, LeaveRow
  <2> QED BY <1>3, <2>2, <2>3, <2>4 DEF CallerStep
<1> QED BY <1>1, <1>2, <1>3 DEF Next

\* A completed row is never reopened or rewritten, for every set of callers.
THEOREM CompletedRowsAreFinal == Spec => CompletedIsFinal
<1>1. ASSUME EffectInv, [Next]_vars
      PROVE  \A k \in Keys : row[k].status = "completed" => row'[k] = row[k]
  <2> SUFFICES ASSUME NEW k \in Keys, row[k].status = "completed"
               PROVE  row'[k] = row[k]
    OBVIOUS
  <2> QED BY <1>1, StepEffect DEF EffectInv, TypeOK
<1> QED BY <1>1, EffectInvInit, EffectInvNext, PTL DEF Spec, CompletedIsFinal

\* The callers, the ledger and the provider together implement the abstract
\* promise: each effect is performed at most once and recorded for good.
THEOREM EffectsImplementOnce == Spec => ImplementsEffectOnce
<1>1. Init => Once!Init
  BY DEF Init, Once!Init, NoRow
<1>2. ASSUME EffectInv, [Next]_vars
      PROVE  [Once!Next]_(Once!vars)
  <2> DEFINE Done == {k \in Keys : row[k].status = "completed"}
  <2>1. CASE UNCHANGED <<row, effects>>
    BY <2>1 DEF Once!vars
  <2>2. CASE \E k \in Keys : effects[k] = 0 /\ effects' = [effects EXCEPT ![k] = 1] /\ row' = row
    BY <2>2 DEF Once!vars, Once!Next, Once!Perform
  <2>3. ASSUME NEW k \in Keys, NEW r \in Row, row[k].status # "completed",
               row' = [row EXCEPT ![k] = r], effects' = effects
        PROVE  [Once!Next]_(Once!vars)
    <3>1. \A j \in Keys : row'[j] = IF j = k THEN r ELSE row[j]
      BY <1>2, <2>3 DEF EffectInv, TypeOK
    <3>2. Done' = IF r.status = "completed" THEN Done \cup {k} ELSE Done
      BY <2>3, <3>1
    <3> QED BY <2>3, <3>2 DEF Once!vars, Once!Next, Once!Record
  <2> QED BY <1>2, <2>1, <2>2, <2>3, StepEffect
<1> QED BY <1>1, <1>2, EffectInvInit, EffectInvNext, PTL DEF Spec, ImplementsEffectOnce, Once!Spec

-----------------------------------------------------------------------------
(* VerificationMailbox: the inductive invariant.                              *)

Reader == [pc : {"idle", "claim", "use", "end"}, msg : 0..MaxMail, seen : 0..MaxMail,
           skipped : SUBSET Mail, end : {"none", "complete", "release", "unknown"}]

Lease == [owner : VRuns \cup {Nobody}, st : {"none", "processing", "completed"},
          live : BOOLEAN]

MailTypes ==
    /\ inbox \in Seq([for : VRuns, binds : BOOLEAN]) /\ Len(inbox) <= MaxMail
    /\ vrun \in [VRuns -> [st : RunSt, since : 0..MaxMail]]
    /\ reader \in [Resolvers -> Reader] /\ lease \in [Mail -> Lease]
    /\ \A c \in Resolvers : reader[c].seen <= Len(inbox)
    /\ ledger \in [Mail -> {"absent", "pending", "failed", "completed", "outcome_unknown"}]
    /\ typed \in [Mail \X VRuns -> Nat] /\ accepted \subseteq Mail \X VRuns
    /\ mail \in MailRegimes

\* Resolver c is between the claim of message m and the end of that claim.
Holds(c, m) == reader[c].pc \in {"use", "end"} /\ reader[c].msg = m

\* Who holds a message holds its claim, and knows how it will end it.
HoldersHold ==
    \A c \in Resolvers : \A m \in 0..MaxMail : Holds(c, m) =>
        /\ m \in Mail
        /\ c.engine = "canonical" => ledger[m] = "pending"
        /\ c.engine = "onboarding" =>
             lease[m].owner = c.run /\ lease[m].st = "processing" /\ lease[m].live
        /\ reader[c].pc = "end" =>
             \/ reader[c].end \in {"complete", "release"}
             \/ reader[c].end = "unknown" /\ c.engine = "canonical"

OneHolder ==
    \A c, d \in Resolvers : \A m \in 0..MaxMail :
        Holds(c, m) /\ Holds(d, m) /\ c.engine = d.engine => c = d

\* No canonical run was given message m.
Unused(m) == \A r \in CanonicalRuns : typed[<<m, r>>] = 0

\* A claim that can be taken, or is about to be given back, was not used.
ClaimableIsUnused ==
    ~mail.lost =>
        /\ \A m \in Mail : ledger[m] \in {"absent", "failed"} => Unused(m)
        /\ \A c \in Resolvers : \A m \in Mail :
             Holds(c, m) /\ c.engine = "canonical"
             /\ (reader[c].pc = "use" \/ reader[c].end = "release") => Unused(m)

UsedByOne ==
    ~mail.lost => \A m \in Mail : \A r, s \in CanonicalRuns :
        /\ typed[<<m, r>>] <= 1
        /\ typed[<<m, r>>] > 0 /\ typed[<<m, s>>] > 0 => r = s

\* An onboarding run was given only messages leased to it, for good.
LeasedBeforeUse ==
    /\ \A m \in Mail : lease[m].st = "none" <=> lease[m].owner = Nobody
    /\ \A m \in Mail, r \in OnboardingRuns : typed[<<m, r>>] > 0 => lease[m].owner = r

\* With an address each, a lease is with the run the message is for, and is
\* settled only after its page accepted the message.
OwnMessages ==
    ~mail.shared =>
        /\ \A m \in Mail : lease[m].st # "none" =>
             m <= Len(inbox) /\ inbox[m].for = lease[m].owner
        /\ \A m \in Mail : lease[m].st = "completed" => <<m, lease[m].owner>> \in accepted
        /\ \A c \in Resolvers : \A m \in Mail :
             Holds(c, m) /\ c.engine = "onboarding" /\ reader[c].pc = "end"
             /\ reader[c].end = "complete" => <<m, c.run>> \in accepted
        /\ \A r \in OnboardingRuns : vrun[r].st = "verified" =>
             \E m \in Mail : <<m, r>> \in accepted

\* What a canonical read passed over was claimed by somebody.
SkippedIsClaimed ==
    \A c \in Resolvers : \A m \in Mail :
        m \in reader[c].skipped => ledger[m] # "absent"

MailInv ==
    /\ MailTypes /\ HoldersHold /\ OneHolder /\ ClaimableIsUnused /\ UsedByOne
    /\ LeasedBeforeUse /\ OwnMessages /\ SkippedIsClaimed

-----------------------------------------------------------------------------
\* _order_newest_first has a first element.
LEMMA NewestIsOne ==
    ASSUME NEW n \in Nat, NEW S \in SUBSET (1..n), S # {}
    PROVE  Newest(S) \in S
<1> DEFINE T == {n - m : m \in S}
<1>1. T \subseteq Nat /\ T # {}
  <2>1. \A m \in S : n - m \in Nat
    OBVIOUS
  <2>2. PICK m \in S : TRUE
    OBVIOUS
  <2>3. n - m \in T
    OBVIOUS
  <2>4. \A x \in T : x \in Nat
    BY <2>1, Zenon
  <2> QED BY <2>3, <2>4, Zenon
<1>2. PICK x \in T : \A y \in T : ~(<<y, x>> \in OpToRel(<, Nat))
  <2> HIDE DEF T
  <2> QED BY <1>1, WFMin, NatLessThanWellFounded
<1>3. \A y \in T : ~(y < x)
  <2> SUFFICES ASSUME NEW y \in T PROVE ~(y < x)
    OBVIOUS
  <2>1. x \in Nat /\ y \in Nat
    BY <1>1
  <2>2. <<y, x>> \notin OpToRel(<, Nat)
    BY <1>2
  <2> QED BY <2>1, <2>2 DEF OpToRel
<1>4. PICK m \in S : x = n - m
  BY <1>2
<1>5. \A k \in S : k <= m
  BY <1>3, <1>4
<1> QED BY <1>4, <1>5 DEF Newest

\* A run is a canonical or an onboarding run as its resolvers are.
LEMMA EngineOfRun ==
    ASSUME NEW c \in Resolvers
    PROVE  /\ c.run \in VRuns /\ c.run # Nobody
           /\ c.engine \in {"canonical", "onboarding"}
           /\ c.engine = "canonical" => c.run \in CanonicalRuns /\ c.run \notin OnboardingRuns
           /\ c.engine = "onboarding" => c.run \in OnboardingRuns /\ c.run \notin CanonicalRuns
BY MailboxAssumption DEF VRuns, OnboardingRuns, CanonicalRuns

\* The two kinds of run are runs.
LEMMA RunKinds == CanonicalRuns \subseteq VRuns /\ OnboardingRuns \subseteq VRuns
                  /\ CanonicalRuns \cap OnboardingRuns = {} /\ Nobody \notin VRuns
BY MailboxAssumption DEF VRuns, OnboardingRuns, CanonicalRuns

\* What a reader may choose is a message it has seen.
LEMMA SelectableSeenMail ==
    ASSUME MailTypes, NEW c \in Resolvers, Selectable(c) # {}
    PROVE  /\ Newest(Selectable(c)) \in Selectable(c)
           /\ Newest(Selectable(c)) \in Mail /\ Newest(Selectable(c)) <= Len(inbox)
           /\ BindRecipient(c.run, Newest(Selectable(c)))
<1>1. reader[c].seen \in Nat /\ reader[c].seen <= Len(inbox) /\ reader[c].seen <= MaxMail
      /\ Len(inbox) \in Nat /\ MaxMail \in Nat
  BY MailboxAssumption DEF MailTypes, Reader
<1>2. Selectable(c) \in SUBSET (1..reader[c].seen)
  BY DEF Selectable
<1>3. Newest(Selectable(c)) \in Selectable(c)
  BY <1>1, <1>2, NewestIsOne
<1> QED BY <1>1, <1>2, <1>3 DEF Selectable, Mail

-----------------------------------------------------------------------------
\* An empty inbox, no claim and nobody reading: all of it holds.
LEMMA MailInvInit == VInit => MailInv
<1> SUFFICES ASSUME VInit PROVE MailInv
  OBVIOUS
<1>1. MailTypes
  BY MailboxAssumption
  DEF VInit, MailTypes, Reader, Lease, AtRest, NoLease, RunSt, Mail
<1>2. \A c \in Resolvers : reader[c].pc = "idle" /\ reader[c].skipped = {}
  BY DEF VInit, AtRest
<1>3. \A m \in Mail, r \in VRuns : typed[<<m, r>>] = 0
  BY DEF VInit
<1>4. HoldersHold /\ OneHolder /\ SkippedIsClaimed
  BY <1>2 DEF HoldersHold, OneHolder, SkippedIsClaimed, Holds
<1>5. ClaimableIsUnused /\ UsedByOne
  BY <1>2, <1>3, RunKinds DEF ClaimableIsUnused, UsedByOne, Unused, Holds
<1>6. LeasedBeforeUse
  BY <1>3, RunKinds DEF LeasedBeforeUse, VInit, NoLease
<1>7. OwnMessages
  BY <1>2, RunKinds DEF OwnMessages, VInit, NoLease, Holds
<1> QED BY <1>1, <1>4, <1>5, <1>6, <1>7 DEF MailInv

\* A reader that holds nothing afterwards, and writes nothing but its run's gate.
LEMMA ReaderMoves ==
    ASSUME MailInv, NEW c \in Resolvers, reader' \in [Resolvers -> Reader],
           \A d \in Resolvers : d # c => reader'[d] = reader[d],
           reader'[c].pc \in {"idle", "claim"}, reader'[c].seen <= Len(inbox),
           \A m \in Mail : m \in reader'[c].skipped => ledger[m] # "absent",
           UNCHANGED <<inbox, ledger, lease, typed, accepted, mail>>,
           vrun' \in [VRuns -> [st : RunSt, since : 0..MaxMail]],
           ~mail.shared => \A r \in OnboardingRuns : vrun'[r].st = "verified" =>
                               vrun[r].st = "verified" \/ \E m \in Mail : <<m, r>> \in accepted
    PROVE  MailInv'
<1> USE DEF MailInv
<1>1. MailTypes'
  BY DEF MailTypes
<1>2. \A d \in Resolvers : \A m \in 0..MaxMail :
          Holds(d, m)' => d # c /\ Holds(d, m) /\ reader'[d] = reader[d]
  BY DEF Holds
<1>3. HoldersHold' /\ OneHolder'
  BY <1>2 DEF HoldersHold, OneHolder
<1>4. \A m \in Mail : m \in 0..MaxMail /\ (Unused(m)' <=> Unused(m))
  BY MailboxAssumption DEF Mail, Unused
<1>5. ClaimableIsUnused'
  BY <1>2, <1>4 DEF ClaimableIsUnused
<1>6. UsedByOne' /\ LeasedBeforeUse'
  BY DEF UsedByOne, LeasedBeforeUse
<1>7. OwnMessages'
  BY <1>2, <1>4 DEF OwnMessages
<1>8. SkippedIsClaimed'
  BY DEF SkippedIsClaimed
<1> QED BY <1>1, <1>3, <1>5, <1>6, <1>7, <1>8

\* A run reaches its gate, or a message arrives.
LEMMA ChallengePreserves ==
    ASSUME MailInv, NEW r \in VRuns, Challenge(r) \/ Delivered(r)
    PROVE  MailInv'
<1> USE DEF MailInv
<1>1. UNCHANGED <<reader, ledger, lease, typed, accepted, mail>>
  BY DEF Challenge, Delivered
<1>2. /\ HoldersHold' /\ OneHolder' /\ ClaimableIsUnused' /\ UsedByOne' /\ LeasedBeforeUse'
      /\ SkippedIsClaimed'
  BY <1>1 DEF HoldersHold, OneHolder, ClaimableIsUnused, UsedByOne, LeasedBeforeUse,
              SkippedIsClaimed, Holds, Unused
<1>3. CASE Challenge(r)
  <2>1. inbox' = inbox /\ vrun' = [vrun EXCEPT ![r] = [st |-> "waiting", since |-> Len(inbox)]]
    BY <1>3 DEF Challenge
  <2>2. Len(inbox) \in 0..MaxMail
    BY MailboxAssumption DEF MailTypes
  <2>3. MailTypes'
    BY <1>1, <2>1, <2>2 DEF MailTypes, RunSt
  <2>4. \A q \in VRuns : vrun'[q].st = "verified" => vrun[q].st = "verified"
    BY <2>1 DEF MailTypes
  <2>5. OwnMessages'
    BY <1>1, <2>1, <2>4, RunKinds DEF OwnMessages, Holds
  <2> QED BY <1>2, <2>3, <2>5
<1>4. CASE Delivered(r)
  <2>1. PICK b \in BOOLEAN : inbox' = Append(inbox, [for |-> r, binds |-> b])
    BY <1>4 DEF Delivered
  <2>2. vrun' = vrun /\ Len(inbox) < MaxMail
    BY <1>4 DEF Delivered
  <2>3. /\ inbox' \in Seq([for : VRuns, binds : BOOLEAN]) /\ Len(inbox') = Len(inbox) + 1
        /\ \A m \in 1..Len(inbox) : inbox'[m] = inbox[m]
    BY <2>1 DEF MailTypes
  <2>4. MailTypes'
    BY <1>1, <2>2, <2>3, MailboxAssumption DEF MailTypes, Reader
  <2>5. \A m \in Mail : m <= Len(inbox) => m <= Len(inbox') /\ inbox'[m] = inbox[m]
    BY <2>3, MailboxAssumption DEF Mail, MailTypes
  <2>6. OwnMessages'
    BY <1>1, <2>2, <2>5, RunKinds DEF OwnMessages, Holds
  <2> QED BY <1>2, <2>4, <2>6
<1> QED BY <1>3, <1>4

\* A reader at rest, and one that has just read the inbox.
LEMMA RestingReader ==
    AtRest \in Reader /\ AtRest.pc = "idle" /\ AtRest.seen = 0 /\ AtRest.skipped = {}
BY MailboxAssumption DEF AtRest, Reader

\* A reader that has just read the inbox holds nothing and has passed over nothing.
LEMMA BegunReader ==
    ASSUME NEW n \in 0..MaxMail
    PROVE  LET k == [AtRest EXCEPT !.pc = "claim", !.seen = n] IN
           k \in Reader /\ k.pc = "claim" /\ k.seen = n /\ k.skipped = {}
BY RestingReader DEF Reader

\* A read of the inbox begins, or its process dies.
LEMMA ReadPreserves ==
    ASSUME MailInv, NEW c \in Resolvers, BeginRead(c) \/ ReaderDies(c)
    PROVE  MailInv'
<1>1. UNCHANGED <<inbox, vrun, ledger, lease, typed, accepted, mail>>
  BY DEF BeginRead, ReaderDies
<1>2. Len(inbox) \in 0..MaxMail /\ MaxMail \in Nat /\ Len(inbox) \in Nat
  BY MailboxAssumption DEF MailInv, MailTypes
<1>3. PICK k \in {AtRest, [AtRest EXCEPT !.pc = "claim", !.seen = Len(inbox)]} :
          reader' = [reader EXCEPT ![c] = k]
  BY DEF BeginRead, ReaderDies
<1>4. /\ k \in Reader /\ k.pc \in {"idle", "claim"} /\ k.seen <= Len(inbox)
      /\ k.skipped = {}
  <2>1. CASE k = AtRest
    BY <1>2, <2>1, RestingReader
  <2>2. CASE k = [AtRest EXCEPT !.pc = "claim", !.seen = Len(inbox)]
    <3>1. k \in Reader /\ k.pc = "claim" /\ k.seen = Len(inbox) /\ k.skipped = {}
      BY <1>2, <2>2, BegunReader, Zenon
    <3> QED BY <1>2, <3>1
  <2> QED BY <1>3, <2>1, <2>2
<1>5. /\ reader' \in [Resolvers -> Reader] /\ reader'[c] = k
      /\ \A d \in Resolvers : d # c => reader'[d] = reader[d]
  BY <1>3, <1>4 DEF MailInv, MailTypes
<1>6. vrun' \in [VRuns -> [st : RunSt, since : 0..MaxMail]]
  BY <1>1 DEF MailInv, MailTypes
<1> QED BY <1>1, <1>4, <1>5, <1>6, ReaderMoves

\* A canonical reader claims a message that nobody was given, or passes on.
LEMMA ClaimPreserves ==
    ASSUME MailInv, NEW c \in Resolvers, ClaimVerification(c)
    PROVE  MailInv'
<1>1. /\ c.engine = "canonical" /\ reader[c].pc = "claim"
      /\ UNCHANGED <<inbox, vrun, lease, typed, accepted, mail>>
  BY DEF ClaimVerification
<1>2. vrun' \in [VRuns -> [st : RunSt, since : 0..MaxMail]]
  BY <1>1 DEF MailInv, MailTypes
<1>3. reader[c] \in Reader /\ reader[c].seen <= Len(inbox)
  BY DEF MailInv, MailTypes
<1>4. CASE reader' = [reader EXCEPT ![c] = AtRest] /\ UNCHANGED ledger
  <2>1. /\ AtRest \in Reader /\ AtRest.pc = "idle" /\ AtRest.seen = 0 /\ AtRest.skipped = {}
        /\ 0 <= Len(inbox)
    BY RestingReader DEF MailInv, MailTypes
  <2>2. /\ reader' \in [Resolvers -> Reader] /\ reader'[c] = AtRest
        /\ \A d \in Resolvers : d # c => reader'[d] = reader[d]
    BY <1>4, <2>1 DEF MailInv, MailTypes
  <2> QED BY <1>1, <1>2, <1>4, <2>1, <2>2, ReaderMoves
<1> DEFINE m == Newest(Selectable(c))
<1>5. CASE Selectable(c) # {} /\ ~Claimable(ledger[m]) /\ UNCHANGED ledger
           /\ reader' = [reader EXCEPT ![c].skipped = @ \cup {m}]
  <2>1. m \in Mail
    BY <1>5, SelectableSeenMail DEF MailInv
  <2> DEFINE k == [reader[c] EXCEPT !.skipped = @ \cup {m}]
  <2>2. /\ k \in Reader /\ k.pc = "claim" /\ k.seen = reader[c].seen
        /\ k.skipped = reader[c].skipped \cup {m}
    BY <1>1, <1>3, <2>1 DEF Reader
  <2>3. reader' = [reader EXCEPT ![c] = k]
    BY <1>5
  <2>4. \A n \in Mail : n \in k.skipped => ledger[n] # "absent"
    BY <1>5, <2>2 DEF MailInv, SkippedIsClaimed, Claimable
  <2> HIDE DEF k, m
  <2>5. /\ reader' \in [Resolvers -> Reader] /\ reader'[c] = k
        /\ \A d \in Resolvers : d # c => reader'[d] = reader[d]
    BY <2>2, <2>3 DEF MailInv, MailTypes
  <2> QED BY <1>1, <1>2, <1>3, <1>5, <2>2, <2>4, <2>5, ReaderMoves
<1>6. CASE Selectable(c) # {} /\ Claimable(ledger[m])
           /\ ledger' = [ledger EXCEPT ![m] = "pending"]
           /\ reader' = [reader EXCEPT ![c].pc = "use", ![c].msg = m]
  <2>1. m \in Mail /\ m \in 0..MaxMail
    BY <1>6, SelectableSeenMail, MailboxAssumption DEF MailInv, Mail
  <2> DEFINE k == [reader[c] EXCEPT !.pc = "use", !.msg = m]
  <2>2. /\ k \in Reader /\ k.pc = "use" /\ k.msg = m /\ k.seen = reader[c].seen
        /\ k.skipped = reader[c].skipped
    BY <1>3, <2>1 DEF Reader
  <2>3. reader' = [reader EXCEPT ![c] = k]
    BY <1>6
  <2> HIDE DEF k, m
  <2>4. /\ reader' \in [Resolvers -> Reader] /\ reader'[c] = k
        /\ \A d \in Resolvers : d # c => reader'[d] = reader[d]
    BY <2>2, <2>3 DEF MailInv, MailTypes
  <2>5. /\ ledger'[m] = "pending" /\ ledger[m] \in {"absent", "failed"}
        /\ \A n \in Mail : n # m => ledger'[n] = ledger[n]
    BY <1>6, <2>1 DEF MailInv, MailTypes, Claimable
  <2>6. MailTypes'
    BY <1>1, <1>3, <1>6, <2>1, <2>2, <2>4 DEF MailInv, MailTypes
  <2>7. \A d \in Resolvers : \A n \in 0..MaxMail : Holds(d, n)' =>
            \/ d = c /\ n = m
            \/ d # c /\ Holds(d, n) /\ reader'[d] = reader[d]
    BY <2>2, <2>4 DEF Holds
  <2>8. \A d \in Resolvers : Holds(d, m) => d.engine = "onboarding"
    <3>1. \A d \in Resolvers : Holds(d, m) /\ d.engine = "canonical" => FALSE
      BY <2>1, <2>5 DEF MailInv, HoldersHold
    <3> QED BY <3>1, EngineOfRun
  <2>9. HoldersHold'
    BY <1>1, <2>1, <2>2, <2>4, <2>5, <2>7, <2>8 DEF MailInv, HoldersHold
  <2>10. OneHolder'
    BY <1>1, <2>7, <2>8 DEF MailInv, OneHolder
  <2>11. ~mail.lost => Unused(m)
    BY <2>1, <2>5 DEF MailInv, ClaimableIsUnused
  <2>12. \A n \in Mail : n \in 0..MaxMail /\ (Unused(n)' <=> Unused(n))
    BY <1>1, MailboxAssumption DEF Mail, Unused
  <2>13. ClaimableIsUnused'
    BY <1>1, <2>5, <2>7, <2>11, <2>12 DEF MailInv, ClaimableIsUnused
  <2>14. UsedByOne' /\ LeasedBeforeUse'
    BY <1>1 DEF MailInv, UsedByOne, LeasedBeforeUse
  <2>15. OwnMessages'
    BY <1>1, <2>2, <2>4, <2>7, <2>12 DEF MailInv, OwnMessages
  <2>16. SkippedIsClaimed'
    BY <2>2, <2>4, <2>5 DEF MailInv, SkippedIsClaimed
  <2> QED BY <2>6, <2>9, <2>10, <2>13, <2>14, <2>15, <2>16 DEF MailInv
<1> QED BY <1>4, <1>5, <1>6 DEF ClaimVerification

\* What Ends and Types do, for a reader that holds message m.
LEMMA EndsAndTypes ==
    ASSUME MailInv, NEW c \in Resolvers, reader[c].pc = "use"
    PROVE  /\ reader[c].msg \in Mail /\ reader[c].msg \in 0..MaxMail
           /\ Holds(c, reader[c].msg) /\ c.run \in VRuns
           /\ \A how \in {"complete", "release", "unknown"} : Ends(c, how) =>
                /\ reader' \in [Resolvers -> Reader]
                /\ \A d \in Resolvers : d # c => reader'[d] = reader[d]
                /\ reader'[c].pc = "end" /\ reader'[c].end = how
                /\ reader'[c].msg = reader[c].msg /\ reader'[c].seen = reader[c].seen
                /\ reader'[c].skipped = reader[c].skipped
           /\ Types(c) =>
                /\ typed' \in [Mail \X VRuns -> Nat]
                /\ typed'[<<reader[c].msg, c.run>>] = typed[<<reader[c].msg, c.run>>] + 1
                /\ \A m \in Mail, r \in VRuns : m # reader[c].msg \/ r # c.run =>
                        typed'[<<m, r>>] = typed[<<m, r>>]
<1>1. reader[c] \in Reader
  BY DEF MailInv, MailTypes
<1>2. reader[c].msg \in 0..MaxMail /\ Holds(c, reader[c].msg)
  BY <1>1 DEF Reader, Holds
<1>3. reader[c].msg \in Mail
  BY <1>2 DEF MailInv, HoldersHold
<1>4. c.run \in VRuns
  BY EngineOfRun
<1>5. ASSUME NEW how \in {"complete", "release", "unknown"}, Ends(c, how)
      PROVE  /\ reader' \in [Resolvers -> Reader]
             /\ \A d \in Resolvers : d # c => reader'[d] = reader[d]
             /\ reader'[c].pc = "end" /\ reader'[c].end = how
             /\ reader'[c].msg = reader[c].msg /\ reader'[c].seen = reader[c].seen
             /\ reader'[c].skipped = reader[c].skipped
  <2> DEFINE k == [reader[c] EXCEPT !.pc = "end", !.end = how]
  <2>1. /\ k \in Reader /\ k.pc = "end" /\ k.end = how /\ k.msg = reader[c].msg
        /\ k.seen = reader[c].seen /\ k.skipped = reader[c].skipped
    BY <1>1 DEF Reader
  <2>2. reader' = [reader EXCEPT ![c] = k]
    BY <1>5 DEF Ends
  <2> HIDE DEF k
  <2> QED BY <2>1, <2>2 DEF MailInv, MailTypes
<1>6. ASSUME Types(c)
      PROVE  /\ typed' \in [Mail \X VRuns -> Nat]
             /\ typed'[<<reader[c].msg, c.run>>] = typed[<<reader[c].msg, c.run>>] + 1
             /\ \A m \in Mail, r \in VRuns : m # reader[c].msg \/ r # c.run =>
                     typed'[<<m, r>>] = typed[<<m, r>>]
  BY <1>3, <1>4, <1>6 DEF Types, MailInv, MailTypes
<1> QED BY <1>2, <1>3, <1>4, <1>5, <1>6

\* A canonical run is given the message it claimed, or not.
LEMMA UsePreserves ==
    ASSUME MailInv, NEW c \in Resolvers, UseVerification(c)
    PROVE  MailInv'
<1> DEFINE m == reader[c].msg
<1>1. /\ c.engine = "canonical" /\ reader[c].pc = "use"
      /\ UNCHANGED <<inbox, ledger, lease, accepted, mail>>
  BY DEF UseVerification
<1>2. m \in Mail /\ m \in 0..MaxMail /\ Holds(c, m) /\ c.run \in VRuns
  BY <1>1, EndsAndTypes
<1>3. c.run \in CanonicalRuns /\ c.run \notin OnboardingRuns
  BY <1>1, EngineOfRun
<1>4. PICK how \in {"complete", "release", "unknown"} :
          Ends(c, how) /\ ((Types(c) /\ (how = "release" => mail.lost)) \/ UNCHANGED typed)
  BY DEF UseVerification, Resumed, ResumeRefused, ResumeMissed, ResumeRaised, ResumeDiscarded
<1>5. vrun' \in [VRuns -> [st : RunSt, since : 0..MaxMail]]
      /\ \A r \in OnboardingRuns : vrun'[r] = vrun[r]
  <2>1. vrun' = vrun \/ vrun' = [vrun EXCEPT ![c.run].st = "resumed"]
    BY DEF UseVerification, Resumed, ResumeRefused, ResumeMissed, ResumeRaised, ResumeDiscarded
  <2>2. vrun \in [VRuns -> [st : RunSt, since : 0..MaxMail]]
    BY DEF MailInv, MailTypes
  <2> QED BY <1>2, <1>3, <2>1, <2>2, RunKinds DEF RunSt
<1>6. /\ reader' \in [Resolvers -> Reader]
      /\ \A d \in Resolvers : d # c => reader'[d] = reader[d]
      /\ reader'[c].pc = "end" /\ reader'[c].end = how
      /\ reader'[c].msg = m /\ reader'[c].seen = reader[c].seen
      /\ reader'[c].skipped = reader[c].skipped
  BY <1>1, <1>4, EndsAndTypes
<1>7. /\ typed' \in [Mail \X VRuns -> Nat]
      /\ \A n \in Mail, r \in VRuns : n # m \/ r # c.run => typed'[<<n, r>>] = typed[<<n, r>>]
      /\ \/ typed' = typed
         \/ /\ how = "release" => mail.lost
            /\ typed'[<<m, c.run>>] = typed[<<m, c.run>>] + 1
  BY <1>1, <1>4, EndsAndTypes DEF MailInv, MailTypes
<1>8. MailTypes'
  BY <1>1, <1>5, <1>6, <1>7 DEF MailInv, MailTypes
<1>9. \A d \in Resolvers : \A n \in 0..MaxMail : Holds(d, n)' <=> Holds(d, n)
  BY <1>1, <1>6 DEF Holds
<1>10. HoldersHold' /\ OneHolder'
  BY <1>1, <1>6, <1>9 DEF MailInv, HoldersHold, OneHolder
<1>11. \A n \in Mail : n \in 0..MaxMail /\ (n # m => (Unused(n)' <=> Unused(n)))
  BY <1>7, RunKinds, MailboxAssumption DEF Mail, Unused
<1>12. \A d \in Resolvers : Holds(d, m) /\ d.engine = "canonical" => d = c
  BY <1>1, <1>2 DEF MailInv, OneHolder
<1>13. ledger[m] = "pending"
  BY <1>1, <1>2 DEF MailInv, HoldersHold
<1>14. ~mail.lost => Unused(m)
  BY <1>1, <1>2 DEF MailInv, ClaimableIsUnused
<1>15. ClaimableIsUnused'
  <2> SUFFICES ASSUME ~mail.lost PROVE ClaimableIsUnused'
    BY <1>1 DEF ClaimableIsUnused
  <2>1. \A n \in Mail : ledger'[n] \in {"absent", "failed"} => Unused(n)'
    BY <1>1, <1>11, <1>13 DEF MailInv, ClaimableIsUnused
  <2>2. how = "release" => Unused(m)'
    <3> SUFFICES ASSUME how = "release" PROVE Unused(m)'
      OBVIOUS
    <3>1. typed' = typed
      BY <1>7
    <3>2. \A r \in CanonicalRuns : typed[<<m, r>>] = 0
      BY <1>14 DEF Unused
    <3>3. m' = m
      BY <1>6
    <3> QED BY <3>1, <3>2, <3>3 DEF Unused
  <2>3. ASSUME NEW d \in Resolvers, NEW n \in Mail, Holds(d, n)', d.engine = "canonical",
               reader'[d].pc = "use" \/ reader'[d].end = "release"
        PROVE  Unused(n)'
    <3>1. Holds(d, n)
      BY <1>9, <1>11, <2>3
    <3>2. CASE d = c
      BY <1>6, <2>2, <2>3, <3>1, <3>2 DEF Holds
    <3>3. CASE d # c
      BY <1>6, <1>11, <1>12, <2>3, <3>1, <3>3 DEF MailInv, ClaimableIsUnused
    <3> QED BY <3>2, <3>3
  <2> QED BY <2>1, <2>3 DEF ClaimableIsUnused
<1>16. UsedByOne'
  <2> SUFFICES ASSUME ~mail.lost, NEW n \in Mail, NEW r \in CanonicalRuns, NEW t \in CanonicalRuns
               PROVE  /\ typed'[<<n, r>>] <= 1
                      /\ typed'[<<n, r>>] > 0 /\ typed'[<<n, t>>] > 0 => r = t
    BY <1>1 DEF UsedByOne
  <2>1. CASE n # m \/ typed' = typed
    BY <1>7, <2>1, RunKinds DEF MailInv, UsedByOne
  <2>2. CASE n = m /\ typed' # typed
    <3>1. typed[<<m, r>>] = 0 /\ typed[<<m, t>>] = 0
      BY <1>14 DEF Unused
    <3> QED BY <1>7, <2>2, <3>1, RunKinds
  <2> QED BY <2>1, <2>2
<1>17. LeasedBeforeUse'
  BY <1>1, <1>3, <1>7, RunKinds DEF MailInv, LeasedBeforeUse
<1>18. OwnMessages'
  BY <1>1, <1>5, <1>6, <1>9, <1>11 DEF MailInv, OwnMessages
<1>19. SkippedIsClaimed'
  BY <1>1, <1>6 DEF MailInv, SkippedIsClaimed
<1> QED BY <1>8, <1>10, <1>15, <1>16, <1>17, <1>18, <1>19 DEF MailInv

\* A reader that comes to rest.
LEMMA ComesToRest ==
    ASSUME MailInv, NEW c \in Resolvers, reader' = [reader EXCEPT ![c] = AtRest]
    PROVE  /\ reader' \in [Resolvers -> Reader] /\ reader'[c].pc = "idle"
           /\ reader'[c].seen = 0 /\ reader'[c].skipped = {} /\ 0 <= Len(inbox)
           /\ \A d \in Resolvers : d # c => reader'[d] = reader[d]
BY RestingReader DEF MailInv, MailTypes

\* complete, release and unknown: the claim is settled by the one who holds it.
LEMMA EndClaimPreserves ==
    ASSUME MailInv, NEW c \in Resolvers, EndClaim(c)
    PROVE  MailInv'
<1>1. /\ c.engine = "canonical" /\ reader[c].pc = "end"
      /\ reader' = [reader EXCEPT ![c] = AtRest]
      /\ UNCHANGED <<inbox, vrun, lease, typed, accepted, mail>>
  BY DEF EndClaim
<1>2. reader[c] \in Reader
  BY DEF MailInv, MailTypes
<1>3. PICK m \in 0..MaxMail : m = reader[c].msg /\ Holds(c, m)
  BY <1>1, <1>2 DEF Reader, Holds
<1>4. m \in Mail /\ ledger[m] = "pending" /\ reader[c].end \in {"complete", "release", "unknown"}
  BY <1>1, <1>3 DEF MailInv, HoldersHold
<1>5. PICK st \in {"completed", "failed", "outcome_unknown"} :
          ledger' = [ledger EXCEPT ![m] = st] /\ (st = "failed" => reader[c].end = "release")
  BY <1>3, <1>4 DEF EndClaim
<1>6. /\ ledger' \in [Mail -> {"absent", "pending", "failed", "completed", "outcome_unknown"}]
      /\ ledger'[m] = st /\ \A n \in Mail : n # m => ledger'[n] = ledger[n]
  BY <1>4, <1>5 DEF MailInv, MailTypes
<1>7. /\ reader' \in [Resolvers -> Reader] /\ reader'[c].pc = "idle"
      /\ reader'[c].seen = 0 /\ reader'[c].skipped = {} /\ 0 <= Len(inbox)
      /\ \A d \in Resolvers : d # c => reader'[d] = reader[d]
  BY <1>1, ComesToRest
<1>8. MailTypes'
  BY <1>1, <1>6, <1>7 DEF MailInv, MailTypes
<1>9. \A d \in Resolvers : \A n \in 0..MaxMail : Holds(d, n)' =>
          d # c /\ Holds(d, n) /\ reader'[d] = reader[d] /\ (d.engine = "canonical" => n # m)
  BY <1>1, <1>3, <1>7 DEF Holds, MailInv, OneHolder
<1>10. HoldersHold' /\ OneHolder'
  BY <1>1, <1>6, <1>9 DEF MailInv, HoldersHold, OneHolder
<1>11. \A n \in Mail : n \in 0..MaxMail /\ (Unused(n)' <=> Unused(n))
  BY <1>1, MailboxAssumption DEF Mail, Unused
<1>12. ~mail.lost /\ st = "failed" => Unused(m)
  BY <1>1, <1>3, <1>4, <1>5 DEF MailInv, ClaimableIsUnused
<1>13. ClaimableIsUnused'
  BY <1>1, <1>5, <1>6, <1>9, <1>11, <1>12 DEF MailInv, ClaimableIsUnused
<1>14. UsedByOne' /\ LeasedBeforeUse'
  BY <1>1 DEF MailInv, UsedByOne, LeasedBeforeUse
<1>15. OwnMessages'
  BY <1>1, <1>9, <1>11 DEF MailInv, OwnMessages
<1>16. SkippedIsClaimed'
  BY <1>5, <1>6, <1>7 DEF MailInv, SkippedIsClaimed
<1> QED BY <1>8, <1>10, <1>13, <1>14, <1>15, <1>16 DEF MailInv

\* An onboarding reader takes the lease of a message that is free, or its own again;
\* a message it finds settled advances its run.
LEMMA AwaitPreserves ==
    ASSUME MailInv, NEW c \in Resolvers, AwaitClaims(c)
    PROVE  MailInv'
<1>1. /\ c.engine = "onboarding" /\ reader[c].pc = "claim"
      /\ UNCHANGED <<inbox, ledger, typed, accepted, mail>>
  BY DEF AwaitClaims
<1>2. reader[c] \in Reader /\ vrun \in [VRuns -> [st : RunSt, since : 0..MaxMail]]
      /\ c.run \in VRuns /\ c.run \in OnboardingRuns /\ c.run # Nobody
  BY <1>1, EngineOfRun DEF MailInv, MailTypes
<1>3. CASE Selectable(c) = {}
  <2>1. reader' = [reader EXCEPT ![c] = AtRest] /\ UNCHANGED <<lease, vrun>>
    BY <1>3 DEF AwaitClaims
  <2>2. /\ reader' \in [Resolvers -> Reader] /\ reader'[c].pc = "idle"
        /\ reader'[c].seen = 0 /\ reader'[c].skipped = {} /\ 0 <= Len(inbox)
        /\ \A d \in Resolvers : d # c => reader'[d] = reader[d]
    BY <2>1, ComesToRest
  <2> QED BY <1>1, <1>2, <2>1, <2>2, ReaderMoves
<1>4. CASE Selectable(c) # {}
  <2>1. PICK m \in Mail : m = Newest(Selectable(c)) /\ m <= Len(inbox) /\ BindRecipient(c.run, m)
    BY <1>4, SelectableSeenMail DEF MailInv
  <2> DEFINE verdict == BeginGmailIngestion(m, c.run)
  <2>2. m \in 0..MaxMail /\ lease[m] \in Lease
    BY MailboxAssumption DEF Mail, MailInv, MailTypes
  <2>3. CASE verdict # "acquired"
    <3>1. /\ reader' = [reader EXCEPT ![c] = AtRest] /\ UNCHANGED lease
          /\ vrun' = IF Advances(verdict) THEN [vrun EXCEPT ![c.run].st = "verified"] ELSE vrun
      BY <1>4, <2>1, <2>3 DEF AwaitClaims
    <3>2. vrun' \in [VRuns -> [st : RunSt, since : 0..MaxMail]]
          /\ \A r \in OnboardingRuns : vrun'[r].st = "verified" =>
                vrun[r].st = "verified" \/ (r = c.run /\ Advances(verdict))
      BY <1>2, <3>1, RunKinds DEF RunSt
    <3>3. ~mail.shared /\ Advances(verdict) => \E n \in Mail : <<n, c.run>> \in accepted
      <4> SUFFICES ASSUME ~mail.shared, verdict = "completed"
                   PROVE  \E n \in Mail : <<n, c.run>> \in accepted
        BY DEF Advances
      <4>1. lease[m].st # "none" /\ (lease[m].st = "completed" \/ lease[m].owner # c.run)
        BY DEF BeginGmailIngestion
      <4>2. inbox[m].for = c.run
        BY <2>1 DEF BindRecipient
      <4>3. lease[m].owner = c.run
        BY <4>1, <4>2 DEF MailInv, OwnMessages
      <4> QED BY <4>1, <4>3 DEF MailInv, OwnMessages
    <3>4. /\ reader' \in [Resolvers -> Reader] /\ reader'[c].pc = "idle"
          /\ reader'[c].seen = 0 /\ reader'[c].skipped = {} /\ 0 <= Len(inbox)
          /\ \A d \in Resolvers : d # c => reader'[d] = reader[d]
      BY <3>1, ComesToRest
    <3>5. ~mail.shared => \A r \in OnboardingRuns : vrun'[r].st = "verified" =>
                 vrun[r].st = "verified" \/ \E n \in Mail : <<n, r>> \in accepted
      BY <3>2, <3>3
    <3> QED BY <1>1, <3>1, <3>2, <3>4, <3>5, ReaderMoves
  <2>4. CASE verdict = "acquired"
    <3>1. /\ lease' = [lease EXCEPT ![m] = [owner |-> c.run, st |-> "processing", live |-> TRUE]]
          /\ reader' = [reader EXCEPT ![c].pc = "use", ![c].msg = m] /\ UNCHANGED vrun
      BY <1>4, <2>1, <2>4 DEF AwaitClaims
    <3>2. lease[m].st = "none" \/ (lease[m].owner = c.run /\ ~lease[m].live)
      BY <2>4 DEF BeginGmailIngestion
    <3> DEFINE k == [reader[c] EXCEPT !.pc = "use", !.msg = m]
    <3>3. /\ k \in Reader /\ k.pc = "use" /\ k.msg = m /\ k.seen = reader[c].seen
          /\ k.skipped = reader[c].skipped
      BY <1>2, <2>2 DEF Reader
    <3>4. reader' = [reader EXCEPT ![c] = k]
      BY <3>1
    <3> HIDE DEF k
    <3>5. /\ reader' \in [Resolvers -> Reader] /\ reader'[c] = k
          /\ \A d \in Resolvers : d # c => reader'[d] = reader[d]
      BY <3>3, <3>4 DEF MailInv, MailTypes
    <3>6. /\ lease' \in [Mail -> Lease]
          /\ lease'[m].owner = c.run /\ lease'[m].st = "processing" /\ lease'[m].live
          /\ \A n \in Mail : n # m => lease'[n] = lease[n]
      BY <1>2, <3>1 DEF MailInv, MailTypes, Lease
    <3>7. MailTypes'
      BY <1>1, <3>1, <3>3, <3>5, <3>6 DEF MailInv, MailTypes
    <3>8. \A d \in Resolvers : \A n \in 0..MaxMail : Holds(d, n)' =>
              \/ d = c /\ n = m
              \/ d # c /\ Holds(d, n) /\ reader'[d] = reader[d]
      BY <3>3, <3>5 DEF Holds
    <3>9. \A d \in Resolvers : Holds(d, m) => d.engine = "canonical"
      <4>1. \A d \in Resolvers : Holds(d, m) /\ d.engine = "onboarding" => FALSE
        BY <2>2, <3>2 DEF MailInv, HoldersHold
      <4> QED BY <4>1, EngineOfRun
    <3>10. HoldersHold'
      BY <1>1, <3>3, <3>5, <3>6, <3>8, <3>9 DEF MailInv, HoldersHold
    <3>11. OneHolder'
      BY <1>1, <3>8, <3>9 DEF MailInv, OneHolder
    <3>12. \A n \in Mail : n \in 0..MaxMail /\ (Unused(n)' <=> Unused(n))
      BY <1>1, MailboxAssumption DEF Mail, Unused
    <3>13. ClaimableIsUnused'
      BY <1>1, <3>3, <3>5, <3>8, <3>12 DEF MailInv, ClaimableIsUnused
    <3>14. UsedByOne'
      BY <1>1 DEF MailInv, UsedByOne
    <3>15. \A r \in OnboardingRuns : typed[<<m, r>>] > 0 => r = c.run
      BY <3>2, RunKinds DEF MailInv, LeasedBeforeUse
    <3>16. LeasedBeforeUse'
      BY <1>1, <1>2, <3>6, <3>15 DEF MailInv, LeasedBeforeUse
    <3>17. OwnMessages'
      BY ZenonT(60), <1>1, <2>1, <3>1, <3>3, <3>5, <3>6, <3>8, <3>12 DEF MailInv, OwnMessages, BindRecipient
    <3>18. SkippedIsClaimed'
      BY <1>1, <3>3, <3>5 DEF MailInv, SkippedIsClaimed
    <3> QED BY <3>7, <3>10, <3>11, <3>13, <3>14, <3>16, <3>17, <3>18 DEF MailInv
  <2> QED BY <2>3, <2>4
<1> QED BY <1>3, <1>4

\* An onboarding run's browser is given the message the run has leased; whatever it
\* answers, no canonical run's message is used.
LEMMA InjectPreserves ==
    ASSUME MailInv, NEW c \in Resolvers, InjectVerification(c)
    PROVE  MailInv'
<1>1. /\ c.engine = "onboarding" /\ reader[c].pc = "use"
      /\ UNCHANGED <<inbox, ledger, lease, mail>>
  BY DEF InjectVerification
<1>2. PICK m \in Mail : m = reader[c].msg /\ m \in 0..MaxMail /\ Holds(c, m)
  BY <1>1, EndsAndTypes
<1>3. c.run \in VRuns /\ c.run \in OnboardingRuns /\ c.run \notin CanonicalRuns
  BY <1>1, EngineOfRun
<1>4. lease[m].owner = c.run
  BY <1>1, <1>2 DEF MailInv, HoldersHold
<1>5. /\ typed' \in [Mail \X VRuns -> Nat]
      /\ \A n \in Mail, r \in VRuns : n # m \/ r # c.run => typed'[<<n, r>>] = typed[<<n, r>>]
  <2>1. Types(c) \/ typed' = typed
    BY DEF InjectVerification
  <2>2. CASE Types(c)
    BY ZenonT(60), <1>1, <1>2, <2>2, EndsAndTypes
  <2>3. CASE typed' = typed
    BY <2>3 DEF MailInv, MailTypes
  <2> QED BY <2>1, <2>2, <2>3
<1>6. /\ vrun' \in [VRuns -> [st : RunSt, since : 0..MaxMail]]
      /\ \A r \in VRuns : vrun'[r].st = "verified" => vrun[r].st = "verified"
  <2>1. vrun' = vrun \/ vrun' = [vrun EXCEPT ![c.run].st = "paused"]
    BY DEF InjectVerification
  <2>2. vrun \in [VRuns -> [st : RunSt, since : 0..MaxMail]]
    BY DEF MailInv, MailTypes
  <2> QED BY <1>3, <2>1, <2>2 DEF RunSt
<1>7. accepted' = accepted \/ accepted' = accepted \cup {<<m, c.run>>}
  BY <1>2 DEF InjectVerification
<1>8. \/ reader' = [reader EXCEPT ![c] = AtRest]
      \/ \E how \in {"complete", "release"} :
            Ends(c, how) /\ (how = "complete" => <<m, c.run>> \in accepted')
  BY <1>2 DEF InjectVerification
<1>9. /\ reader' \in [Resolvers -> Reader]
      /\ \A d \in Resolvers : d # c => reader'[d] = reader[d]
      /\ reader'[c].seen <= Len(inbox) /\ reader'[c].skipped \subseteq reader[c].skipped
      /\ \/ reader'[c].pc = "idle"
         \/ /\ reader'[c].pc = "end" /\ reader'[c].end \in {"complete", "release"}
            /\ reader'[c].msg = m
            /\ reader'[c].end = "complete" => <<m, c.run>> \in accepted'
  <2>1. CASE reader' = [reader EXCEPT ![c] = AtRest]
    BY <2>1, ComesToRest
  <2>2. CASE \E how \in {"complete", "release"} :
               Ends(c, how) /\ (how = "complete" => <<m, c.run>> \in accepted')
    <3>1. PICK how \in {"complete", "release"} :
               Ends(c, how) /\ (how = "complete" => <<m, c.run>> \in accepted')
      BY <2>2
    <3>2. /\ reader' \in [Resolvers -> Reader]
          /\ \A d \in Resolvers : d # c => reader'[d] = reader[d]
          /\ reader'[c].pc = "end" /\ reader'[c].end = how
          /\ reader'[c].msg = reader[c].msg /\ reader'[c].seen = reader[c].seen
          /\ reader'[c].skipped = reader[c].skipped
      BY <1>1, <3>1, EndsAndTypes
    <3>3. reader[c].seen <= Len(inbox)
      BY DEF MailInv, MailTypes
    <3> QED BY <1>2, <3>1, <3>2, <3>3
  <2> QED BY <1>8, <2>1, <2>2
<1>10. MailTypes'
  <2>1. accepted' \subseteq Mail \X VRuns
    BY <1>3, <1>7 DEF MailInv, MailTypes
  <2>2. \A d \in Resolvers : reader'[d].seen <= Len(inbox)
    BY <1>9 DEF MailInv, MailTypes
  <2> QED BY <1>1, <1>5, <1>6, <1>9, <2>1, <2>2 DEF MailInv, MailTypes
<1>11. \A d \in Resolvers : \A n \in 0..MaxMail : Holds(d, n)' =>
          /\ Holds(d, n)
          /\ d # c => reader'[d] = reader[d]
          /\ d = c => n = m /\ reader'[c].pc = "end"
  BY <1>1, <1>2, <1>9 DEF Holds
<1>12. HoldersHold' /\ OneHolder'
  BY <1>1, <1>9, <1>11 DEF MailInv, HoldersHold, OneHolder
<1>13. \A n \in Mail : n \in 0..MaxMail /\ (Unused(n)' <=> Unused(n))
  BY <1>3, <1>5, RunKinds, MailboxAssumption DEF Mail, Unused
<1>14. ClaimableIsUnused'
  BY <1>1, <1>11, <1>13 DEF MailInv, ClaimableIsUnused
<1>15. UsedByOne'
  BY <1>1, <1>3, <1>5, RunKinds DEF MailInv, UsedByOne
<1>16. LeasedBeforeUse'
  BY <1>1, <1>4, <1>5, RunKinds DEF MailInv, LeasedBeforeUse
<1>17. OwnMessages'
  BY <1>1, <1>6, <1>7, <1>9, <1>11, <1>13, RunKinds DEF MailInv, OwnMessages
<1>18. SkippedIsClaimed'
  BY <1>1, <1>9 DEF MailInv, SkippedIsClaimed
<1> QED BY <1>10, <1>12, <1>14, <1>15, <1>16, <1>17, <1>18 DEF MailInv

\* The lease is settled or given back by its holder, or lapses when nobody uses it;
\* its owner stays.
LEMMA LeasePreserves ==
    ASSUME MailInv, NEW m \in Mail, UNCHANGED <<inbox, ledger, typed, accepted, mail>>,
           lease' \in [Mail -> Lease], lease'[m].owner = lease[m].owner,
           lease'[m].st = "none" <=> lease[m].st = "none",
           lease'[m].st = "completed" /\ ~mail.shared => <<m, lease[m].owner>> \in accepted,
           \A n \in Mail : n # m => lease'[n] = lease[n],
           reader' \in [Resolvers -> Reader],
           \A c \in Resolvers : reader'[c] = reader[c]
               \/ (reader'[c].pc = "idle" /\ reader'[c].seen = 0 /\ reader'[c].skipped = {}),
           \A c \in Resolvers : c.engine = "onboarding" => ~Holds(c, m)',
           vrun' \in [VRuns -> [st : RunSt, since : 0..MaxMail]],
           ~mail.shared => \A r \in OnboardingRuns : vrun'[r].st = "verified" =>
                               vrun[r].st = "verified" \/ \E n \in Mail : <<n, r>> \in accepted
    PROVE  MailInv'
<1>1. MailTypes'
  <2>1. \A d \in Resolvers : reader'[d].seen <= Len(inbox)
    <3>1. Len(inbox) \in Nat /\ \A d \in Resolvers : reader[d].seen <= Len(inbox)
      BY DEF MailInv, MailTypes
    <3> QED BY <3>1
  <2> QED BY <2>1 DEF MailInv, MailTypes
<1>2. \A d \in Resolvers : \A n \in 0..MaxMail :
          Holds(d, n)' => Holds(d, n) /\ reader'[d] = reader[d]
  BY DEF Holds
<1>3. HoldersHold' /\ OneHolder'
  BY <1>2 DEF MailInv, HoldersHold, OneHolder
<1>4. \A n \in Mail : n \in 0..MaxMail /\ (Unused(n)' <=> Unused(n))
  BY MailboxAssumption DEF Mail, Unused
<1>5. ClaimableIsUnused'
  BY <1>2, <1>4 DEF MailInv, ClaimableIsUnused
<1>6. UsedByOne' /\ LeasedBeforeUse'
  BY DEF MailInv, UsedByOne, LeasedBeforeUse
<1>7. OwnMessages'
  BY <1>2, <1>4 DEF MailInv, OwnMessages
<1>8. SkippedIsClaimed'
  BY DEF MailInv, SkippedIsClaimed
<1> QED BY <1>1, <1>3, <1>5, <1>6, <1>7, <1>8 DEF MailInv

\* An onboarding run settles its lease, or releases it, and comes to rest.
LEMMA SettlePreserves ==
    ASSUME MailInv, NEW c \in Resolvers, SettleVerification(c)
    PROVE  MailInv'
<1>1. /\ c.engine = "onboarding" /\ reader[c].pc = "end"
      /\ reader' = [reader EXCEPT ![c] = AtRest]
      /\ UNCHANGED <<inbox, ledger, typed, accepted, mail>>
  BY DEF SettleVerification
<1>2. reader[c] \in Reader
  BY DEF MailInv, MailTypes
<1>3. PICK m \in 0..MaxMail : m = reader[c].msg /\ Holds(c, m)
  BY <1>1, <1>2 DEF Reader, Holds
<1>4. m \in Mail /\ lease[m].owner = c.run /\ lease[m].st = "processing" /\ lease[m] \in Lease
  BY <1>1, <1>3 DEF MailInv, HoldersHold, MailTypes
<1>5. c.run \in VRuns /\ c.run \in OnboardingRuns
      /\ vrun \in [VRuns -> [st : RunSt, since : 0..MaxMail]]
  BY <1>1, EngineOfRun DEF MailInv, MailTypes
<1>6. /\ reader' \in [Resolvers -> Reader] /\ reader'[c].pc = "idle"
      /\ reader'[c].seen = 0 /\ reader'[c].skipped = {}
      /\ \A d \in Resolvers : d # c => reader'[d] = reader[d]
  BY <1>1, ComesToRest
<1>7. \A d \in Resolvers : d.engine = "onboarding" => ~Holds(d, m)'
  BY <1>1, <1>3, <1>6 DEF Holds, MailInv, OneHolder
<1>8. CASE /\ reader[c].end = "complete"
           /\ lease' = [lease EXCEPT ![m].st = "completed", ![m].live = FALSE]
           /\ vrun' = [vrun EXCEPT ![c.run].st = "verified"]
  <2> DEFINE k == [lease[m] EXCEPT !.st = "completed", !.live = FALSE]
  <2>1. k \in Lease /\ k.owner = lease[m].owner /\ k.st = "completed"
    BY <1>4 DEF Lease
  <2>2. lease' = [lease EXCEPT ![m] = k]
    BY <1>8
  <2> HIDE DEF k
  <2>3. /\ lease' \in [Mail -> Lease] /\ lease'[m] = k
        /\ \A n \in Mail : n # m => lease'[n] = lease[n]
    BY <1>4, <2>1, <2>2 DEF MailInv, MailTypes
  <2>4. ~mail.shared => <<m, c.run>> \in accepted
    BY <1>1, <1>3, <1>4, <1>8 DEF MailInv, OwnMessages
  <2>5. /\ vrun' \in [VRuns -> [st : RunSt, since : 0..MaxMail]]
        /\ \A r \in OnboardingRuns : vrun'[r].st = "verified" => vrun[r].st = "verified" \/ r = c.run
    BY <1>5, <1>8, RunKinds DEF RunSt
  <2>6. ~mail.shared => \A r \in OnboardingRuns : vrun'[r].st = "verified" =>
            vrun[r].st = "verified" \/ \E n \in Mail : <<n, r>> \in accepted
    BY <1>4, <2>4, <2>5
  <2> QED BY <1>1, <1>4, <1>6, <1>7, <2>1, <2>3, <2>4, <2>5, <2>6, LeasePreserves
<1>9. CASE lease' = [lease EXCEPT ![m].live = FALSE] /\ UNCHANGED vrun
  <2> DEFINE k == [lease[m] EXCEPT !.live = FALSE]
  <2>1. k \in Lease /\ k.owner = lease[m].owner /\ k.st = "processing"
    BY <1>4 DEF Lease
  <2>2. lease' = [lease EXCEPT ![m] = k]
    BY <1>9
  <2> HIDE DEF k
  <2>3. /\ lease' \in [Mail -> Lease] /\ lease'[m] = k
        /\ \A n \in Mail : n # m => lease'[n] = lease[n]
    BY <1>4, <2>1, <2>2 DEF MailInv, MailTypes
  <2> QED BY <1>1, <1>4, <1>5, <1>6, <1>7, <1>9, <2>1, <2>3, LeasePreserves
<1> QED BY <1>3, <1>8, <1>9 DEF SettleVerification

\* A lease nobody works under runs out: its row stays with its run.
LEMMA LapsePreserves ==
    ASSUME MailInv, NEW m \in Mail, LeaseLapses(m)
    PROVE  MailInv'
<1>1. /\ UNCHANGED <<inbox, vrun, reader, ledger, typed, accepted, mail>>
      /\ \A c \in Resolvers : ~Holds(c, m)'
  BY DEF LeaseLapses, Holds
<1> DEFINE k == [lease[m] EXCEPT !.live = FALSE]
<1>2. k \in Lease /\ k.owner = lease[m].owner /\ k.st = lease[m].st
  BY DEF Lease, MailInv, MailTypes
<1>3. lease' = [lease EXCEPT ![m] = k]
  BY DEF LeaseLapses
<1> HIDE DEF k
<1>4. /\ lease' \in [Mail -> Lease] /\ lease'[m] = k
      /\ \A n \in Mail : n # m => lease'[n] = lease[n]
  BY <1>2, <1>3 DEF MailInv, MailTypes
<1>5. ~mail.shared /\ lease[m].st = "completed" => <<m, lease[m].owner>> \in accepted
  BY DEF MailInv, OwnMessages
<1>6. reader' \in [Resolvers -> Reader]
      /\ vrun' \in [VRuns -> [st : RunSt, since : 0..MaxMail]]
  BY <1>1 DEF MailInv, MailTypes
<1> QED BY <1>1, <1>2, <1>4, <1>5, <1>6, LeasePreserves

\* The inductive step, one case per action.
LEMMA MailInvNext == MailInv /\ [VNext]_mailboxVars => MailInv'
<1> SUFFICES ASSUME MailInv, [VNext]_mailboxVars PROVE MailInv'
  OBVIOUS
<1>1. CASE UNCHANGED mailboxVars
  <2>1. UNCHANGED <<inbox, vrun, reader, ledger, lease, typed, accepted, mail>>
    BY <1>1 DEF mailboxVars
  <2>2. MailTypes' /\ UsedByOne' /\ LeasedBeforeUse' /\ SkippedIsClaimed'
    BY <2>1 DEF MailInv, MailTypes, UsedByOne, LeasedBeforeUse, SkippedIsClaimed
  <2>3. HoldersHold' /\ OneHolder'
    BY <2>1 DEF MailInv, HoldersHold, OneHolder, Holds
  <2>4. ClaimableIsUnused' /\ OwnMessages'
    BY <2>1 DEF MailInv, ClaimableIsUnused, Unused, OwnMessages, Holds
  <2> QED BY <2>2, <2>3, <2>4 DEF MailInv
<1>2. ASSUME NEW r \in VRuns, Challenge(r) \/ Delivered(r) PROVE MailInv'
  BY <1>2, ChallengePreserves
<1>3. ASSUME NEW c \in Resolvers, BeginRead(c) \/ ReaderDies(c) PROVE MailInv'
  BY <1>3, ReadPreserves
<1>4. ASSUME NEW c \in Resolvers, ClaimVerification(c) PROVE MailInv'
  BY <1>4, ClaimPreserves
<1>5. ASSUME NEW c \in Resolvers, UseVerification(c) PROVE MailInv'
  BY <1>5, UsePreserves
<1>6. ASSUME NEW c \in Resolvers, EndClaim(c) PROVE MailInv'
  BY <1>6, EndClaimPreserves
<1>7. ASSUME NEW c \in Resolvers, AwaitClaims(c) PROVE MailInv'
  BY <1>7, AwaitPreserves
<1>8. ASSUME NEW c \in Resolvers, InjectVerification(c) PROVE MailInv'
  BY <1>8, InjectPreserves
<1>9. ASSUME NEW c \in Resolvers, SettleVerification(c) PROVE MailInv'
  BY <1>9, SettlePreserves
<1>10. ASSUME NEW m \in Mail, LeaseLapses(m) PROVE MailInv'
  BY <1>10, LapsePreserves
<1> QED
  BY <1>1, <1>2, <1>3, <1>4, <1>5, <1>6, <1>7, <1>8, <1>9, <1>10 DEF VNext

\* A set whose members are all equal has at most one.
LEMMA AtMostOneMember ==
    ASSUME NEW S, \A x, y \in S : x = y
    PROVE  Cardinality(S) <= 1
<1>1. CASE S = {}
  BY <1>1, FS_EmptySet
<1>2. CASE S # {}
  <2>1. PICK x \in S : TRUE
    BY <1>2
  <2>2. S = {x}
    BY <2>1
  <2> QED BY <2>2, FS_Singleton
<1> QED BY <1>1, <1>2

\* The inductive invariant gives the invariants of MailboxSafety.
LEMMA MailInvImplies ==
    MailInv => VTypeOK /\ CodeIsUsedOnce /\ LeaseIsPinned /\ VerifiedByOwnMessage
<1> SUFFICES ASSUME MailInv
             PROVE  VTypeOK /\ CodeIsUsedOnce /\ LeaseIsPinned /\ VerifiedByOwnMessage
  OBVIOUS
<1>1. VTypeOK
  <2>1. ASSUME NEW c \in Resolvers
        PROVE  /\ reader[c].pc \in {"idle", "claim", "use", "end"} /\ reader[c].msg \in 0..MaxMail
               /\ reader[c].skipped \subseteq Mail
               /\ reader[c].end \in {"none", "complete", "release", "unknown"}
    BY DEF MailInv, MailTypes, Reader
  <2>2. ASSUME NEW c \in Resolvers, reader[c].pc \in {"use", "end"}
        PROVE  IF c.engine = "canonical" THEN ledger[reader[c].msg] = "pending"
               ELSE lease[reader[c].msg].owner = c.run /\ lease[reader[c].msg].st = "processing"
    BY <2>1, <2>2, EngineOfRun DEF MailInv, HoldersHold, Holds
  <2>3. \A m \in Mail : lease[m].owner \in VRuns \cup {Nobody}
    BY DEF MailInv, MailTypes, Lease
  <2> QED BY <2>1, <2>2, <2>3 DEF VTypeOK, MailInv, MailTypes
<1>2. CodeIsUsedOnce
  <2> SUFFICES ASSUME ~mail.lost, NEW m \in Mail
               PROVE  /\ Cardinality(CanonicalUses(m)) <= 1
                      /\ \A r \in CanonicalRuns : typed[<<m, r>>] <= 1
    BY DEF CodeIsUsedOnce
  <2>1. \A r, s \in CanonicalUses(m) : r = s
    BY DEF CanonicalUses, MailInv, UsedByOne
  <2> QED BY <2>1, AtMostOneMember DEF MailInv, UsedByOne
<1>3. LeaseIsPinned
  <2> SUFFICES ASSUME NEW m \in Mail
               PROVE  Cardinality({r \in OnboardingRuns : typed[<<m, r>>] > 0}) <= 1
    BY DEF LeaseIsPinned
  <2> DEFINE S == {r \in OnboardingRuns : typed[<<m, r>>] > 0}
  <2>1. \A r, s \in S : r = s
    BY DEF MailInv, LeasedBeforeUse
  <2> QED BY <2>1, AtMostOneMember
<1>4. VerifiedByOwnMessage
  BY DEF MailInv, OwnMessages, VerifiedByOwnMessage
<1> QED BY <1>1, <1>2, <1>3, <1>4

\* A canonical reader that leaves without a message has passed over every message it
\* could use, and each of those was claimed.
LEMMA EmptyHandedStep ==
    ASSUME MailInv, [VNext]_mailboxVars, NEW c \in Resolvers, c.engine = "canonical",
           reader[c].pc = "claim", reader'[c].pc = "idle", ~mail.faults
    PROVE  \A m \in SelectableSeen(c) : ledger[m] \notin {"absent"}
<1>1. reader \in [Resolvers -> Reader]
  BY DEF MailInv, MailTypes
<1>2. reader' # reader
  OBVIOUS
<1>3. PICK d \in Resolvers : \/ BeginRead(d) \/ ClaimVerification(d) \/ UseVerification(d)
                            \/ EndClaim(d) \/ AwaitClaims(d) \/ InjectVerification(d)
                            \/ SettleVerification(d)
  BY <1>2 DEF VNext, mailboxVars, Challenge, Delivered, LeaseLapses, ReaderDies
<1>4. d = c
  <2>1. d # c => reader'[c] = reader[c]
    BY <1>1, <1>3 DEF BeginRead, ClaimVerification, UseVerification, EndClaim, AwaitClaims,
       InjectVerification, SettleVerification, Ends, Resumed, ResumeRefused, ResumeMissed,
       ResumeRaised, ResumeDiscarded
  <2> QED BY <2>1
<1>5. ClaimVerification(c)
  BY <1>3, <1>4 DEF BeginRead, UseVerification, EndClaim, AwaitClaims, InjectVerification,
     SettleVerification
<1>6. Selectable(c) = {}
  <2> SUFFICES ASSUME Selectable(c) # {} PROVE FALSE
    OBVIOUS
  <2>1. PICK m : \/ reader' = [reader EXCEPT ![c].pc = "use", ![c].msg = m]
                  \/ reader' = [reader EXCEPT ![c].skipped = @ \cup {m}]
    BY <1>5 DEF ClaimVerification
  <2>2. reader[c] \in Reader
    BY <1>1
  <2>3. reader'[c].pc \in {"use", "claim"}
    BY <1>1, <2>1, <2>2 DEF Reader
  <2> QED BY <2>3
<1>7. \A m \in SelectableSeen(c) : m \in reader[c].skipped
  BY <1>6 DEF Selectable, SelectableSeen
<1>8. reader[c].skipped \subseteq Mail
  BY <1>1 DEF Reader
<1> QED BY <1>7, <1>8 DEF MailInv, SkippedIsClaimed

\* However many runs read one mailbox, whoever dies between a claim and its use: a
\* code is typed once, a lease stays with its run, a run verified by a message was
\* sent it, and who leaves empty-handed has left every message to a claim.
THEOREM MailboxIsSafe == VSpec => MailboxSafety
<1>1. VSpec => []MailInv
  BY MailInvInit, MailInvNext, PTL DEF VSpec
<1>2. MailInv /\ [VNext]_mailboxVars =>
        [\A c \in Resolvers :
          c.engine = "canonical" /\ reader[c].pc = "claim" /\ reader'[c].pc = "idle" /\ ~mail.faults
          => \A m \in SelectableSeen(c) : ledger[m] \notin {"absent"}]_mailboxVars
  BY EmptyHandedStep
<1> QED
  BY <1>1, <1>2, MailInvImplies, PTL DEF VSpec, MailboxSafety, EmptyHandedMeansClaimed
-----------------------------------------------------------------------------
(* GateAdvance: the inductive invariant.                                      *)

\* Every resume was charged before; what is about to be charged is within the
\* budget, also when the budget was refunded while the sweep was on its way.
ChargedBefore ==
    /\ \A g \in Gates : tried[g] <= spent[g] /\ tried[g] <= Budget
    /\ sweeper.pc = "spend" /\ ~sweeper.old => spent[sweeper.gate] < Budget
    /\ sweeper.pc = "exhaust" /\ ~sweeper.old => spent[sweeper.gate] = Budget
    /\ sweeper.pc \in {"spend", "exhaust"} /\ sweeper.old => spent[sweeper.gate] = 0
    /\ sweeper.pc = "attempt" /\ ~sweeper.old =>
         tried[sweeper.gate] < spent[sweeper.gate] /\ tried[sweeper.gate] < Budget

\* A row is written only after its marker, and by the sweep that set it.
MarkedBefore ==
    /\ sweeper.pc = "exhaust" => sweeper.why = "attempt_budget_exhausted"
    /\ sweeper.pc \in {"mark", "record"} => sweeper.why \in Reasons
    /\ \A e \in Gates \X Reasons : audit[e] <= 1 /\ (audit[e] = 1 => e \in marked)
    /\ sweeper.pc = "record" /\ ~sweeper.old =>
         <<sweeper.gate, sweeper.why>> \in marked /\ audit[<<sweeper.gate, sweeper.why>>] = 0

\* While nothing goes wrong, a marker has its row or its sweep is about to write
\* it, and an exhausted gate its marker or a sweep on its way to it.
StatedOrAboutTo ==
    fault = {} =>
        /\ paused # "failed" /\ ~sweeper.old
        /\ \A e \in marked : audit[e] = 1 \/ (sweeper.pc = "record" /\ e = <<sweeper.gate, sweeper.why>>)
        /\ \A g \in Gates : spent[g] > Budget =>
             \/ <<g, "attempt_budget_exhausted">> \in marked
             \/ /\ sweeper.pc = "mark" /\ sweeper.gate = g
                /\ sweeper.why = "attempt_budget_exhausted"

AdvanceInv == AdvanceTypeOK /\ ChargedBefore /\ MarkedBefore /\ StatedOrAboutTo

Sweeper == [pc : Steps, gate : Gates, why : Reasons \cup {"none"}, old : BOOLEAN]

\* A thread at rest is a thread.
LEMMA RestedSweeper ==
    Rested \in Sweeper /\ Rested.pc = "idle" /\ Rested.old = FALSE
BY DEF Rested, Sweeper, Gates, Resolution, Steps, Reasons

\* Nothing is charged, marked or on record at first.
LEMMA AdvanceInvInit == AdvanceInit => AdvanceInv
<1> SUFFICES ASSUME AdvanceInit PROVE AdvanceInv
  OBVIOUS
<1>1. authority \in {[g EXCEPT !.login = l] : g \in Grounds, l \in BOOLEAN}
  <2>1. authority \in Grounds /\ authority.login \in BOOLEAN
    BY AdvanceAssumption DEF AdvanceInit
  <2>2. authority = [authority EXCEPT !.login = authority.login]
    BY <2>1, AdvanceAssumption
  <2> QED BY <2>1, <2>2
<1>2. AdvanceTypeOK
  BY <1>1, RestedSweeper, AdvanceAssumption DEF AdvanceInit, AdvanceTypeOK, Sweeper
<1>3. sweeper.pc = "idle" /\ sweeper.old = FALSE
  BY RestedSweeper DEF AdvanceInit
<1>4. ChargedBefore /\ MarkedBefore /\ StatedOrAboutTo
  BY <1>3, AdvanceAssumption DEF AdvanceInit, ChargedBefore, MarkedBefore, StatedOrAboutTo
<1> QED BY <1>2, <1>4 DEF AdvanceInv

\* A gate is raised, its owner answers it, or the run fails: the sweep's state and
\* its rows are untouched.
LEMMA RunStepPreserves ==
    ASSUME AdvanceInv, (\E g \in Gates : GateRaised(g)) \/ OwnerResumes \/ RunFails
    PROVE  AdvanceInv'
<1>1. UNCHANGED <<spent, marked, audit, tried, sweeper, fault>>
  BY DEF GateRaised, OwnerResumes, RunFails
<1>2. paused' \in Gates \cup {"running", "failed"} /\ raised' \in 0..MaxRaised
      /\ (paused' = "failed" => "retry" \in fault)
  <2>1. \A g \in Gates : g # "failed"
    BY DEF Gates, Resolution
  <2> QED BY <2>1, AdvanceAssumption DEF GateRaised, OwnerResumes, RunFails, AdvanceInv, AdvanceTypeOK
<1>3. authority' \in {[g EXCEPT !.login = l] : g \in Grounds, l \in BOOLEAN}
  <2>1. PICK g \in Grounds, l \in BOOLEAN : authority = [g EXCEPT !.login = l]
    BY DEF AdvanceInv, AdvanceTypeOK
  <2>2. PICK k \in BOOLEAN : authority' = [authority EXCEPT !.login = k] \/ authority' = authority
    BY DEF GateRaised, OwnerResumes, RunFails
  <2>3. [authority EXCEPT !.login = k] = [g EXCEPT !.login = k]
    BY <2>1, AdvanceAssumption
  <2> QED BY <2>1, <2>2, <2>3
<1>4. AdvanceTypeOK'
  BY <1>1, <1>2, <1>3 DEF AdvanceInv, AdvanceTypeOK
<1>5. ChargedBefore' /\ MarkedBefore'
  BY <1>1 DEF AdvanceInv, ChargedBefore, MarkedBefore
<1>6. StatedOrAboutTo'
  BY <1>1, <1>2 DEF AdvanceInv, StatedOrAboutTo
<1> QED BY <1>4, <1>5, <1>6 DEF AdvanceInv

\* A retry refunds every budget, and marks a sweep on its way as one of before.
LEMMA RetryPreserves ==
    ASSUME AdvanceInv, OperatorRetries
    PROVE  AdvanceInv'
<1>1. sweeper \in Sweeper
  BY DEF AdvanceInv, AdvanceTypeOK, Sweeper
<1>2. /\ sweeper' \in Sweeper /\ sweeper'.pc = sweeper.pc /\ sweeper'.gate = sweeper.gate
      /\ sweeper'.why = sweeper.why /\ (sweeper'.pc # "idle" => sweeper'.old)
  BY <1>1 DEF OperatorRetries, Sweeper
<1>3. AdvanceTypeOK'
  BY <1>2, AdvanceAssumption DEF AdvanceInv, AdvanceTypeOK, OperatorRetries, NothingSpent, Sweeper
<1>4. ChargedBefore'
  BY <1>2, AdvanceAssumption DEF AdvanceInv, ChargedBefore, OperatorRetries, NothingSpent, Sweeper
<1>5. MarkedBefore'
  BY <1>2 DEF AdvanceInv, MarkedBefore, OperatorRetries, NothingSpent
<1>6. StatedOrAboutTo'
  BY DEF AdvanceInv, StatedOrAboutTo, OperatorRetries
<1> QED BY <1>3, <1>4, <1>5, <1>6 DEF AdvanceInv

\* The sweep reads a gate and what was spent on it.
LEMMA ReadsPreserves ==
    ASSUME AdvanceInv, AdvanceReads
    PROVE  AdvanceInv'
<1>1. sweeper \in Sweeper /\ paused \in Gates /\ spent \in [Gates -> 0..(Budget + 1)]
      /\ Budget \in Nat
  BY AdvanceAssumption DEF AdvanceInv, AdvanceTypeOK, AdvanceReads, Sweeper
<1>2. PICK to \in {"exhaust", "mark", "spend"}, why \in Reasons \cup {"none"} :
         /\ At(to, why)
         /\ to = "exhaust" => spent[paused] = Budget /\ why = "attempt_budget_exhausted"
         /\ to = "mark" => why = "reusable_login_unavailable"
         /\ to = "spend" => spent[paused] < Budget
  <2>1. spent[paused] = Budget => At("exhaust", "attempt_budget_exhausted")
    BY DEF AdvanceReads
  <2>2. spent[paused] # Budget => spent[paused] < Budget
    BY <1>1 DEF AdvanceReads
  <2>3. spent[paused] # Budget => At("mark", "reusable_login_unavailable") \/ At("spend", "none")
    BY DEF AdvanceReads
  <2> QED BY <2>1, <2>2, <2>3 DEF Reasons
<1>3. /\ sweeper' \in Sweeper /\ sweeper'.pc = to /\ sweeper'.gate = paused
      /\ sweeper'.why = why /\ sweeper'.old = FALSE
  BY <1>1, <1>2 DEF At, Sweeper, Steps
<1>4. UNCHANGED <<paused, authority, spent, marked, audit, tried, raised, fault>>
      /\ sweeper.pc = "idle"
  BY DEF AdvanceReads
<1>5. AdvanceTypeOK'
  BY <1>3, <1>4 DEF AdvanceInv, AdvanceTypeOK, Sweeper
<1>6. ChargedBefore'
  BY <1>2, <1>3, <1>4 DEF AdvanceInv, ChargedBefore
<1>7. MarkedBefore'
  BY <1>2, <1>3, <1>4 DEF AdvanceInv, MarkedBefore, Reasons
<1>8. StatedOrAboutTo'
  BY <1>3, <1>4 DEF AdvanceInv, StatedOrAboutTo
<1> QED BY <1>5, <1>6, <1>7, <1>8 DEF AdvanceInv

\* spend_gate_attempt, before the attempt or the hand-back.
LEMMA SpendPreserves ==
    ASSUME AdvanceInv, SpendGateAttempt
    PROVE  AdvanceInv'
<1>1. sweeper \in Sweeper /\ spent \in [Gates -> 0..(Budget + 1)] /\ Budget \in Nat \ {0}
      /\ tried \in [Gates -> Nat]
  BY AdvanceAssumption DEF AdvanceInv, AdvanceTypeOK, Sweeper
<1>2. sweeper.gate \in Gates
  BY <1>1 DEF Sweeper
<1>3. /\ sweeper' \in Sweeper /\ sweeper'.gate = sweeper.gate /\ sweeper'.why = sweeper.why
      /\ sweeper'.old = sweeper.old
      /\ sweeper'.pc = IF sweeper.pc = "spend" THEN "attempt" ELSE "mark"
  BY <1>1 DEF SpendGateAttempt, Sweeper, Steps
<1>4. UNCHANGED <<paused, authority, marked, audit, tried, raised, fault>>
      /\ sweeper.pc \in {"spend", "exhaust"}
      /\ spent' = [spent EXCEPT ![sweeper.gate] = spent[sweeper.gate] + 1]
  BY DEF SpendGateAttempt
<1>5. spent[sweeper.gate] <= Budget
  BY <1>1, <1>4 DEF AdvanceInv, ChargedBefore, Sweeper
<1>6. /\ spent' \in [Gates -> 0..(Budget + 1)]
      /\ spent'[sweeper.gate] = spent[sweeper.gate] + 1
      /\ \A g \in Gates : g # sweeper.gate => spent'[g] = spent[g]
  BY <1>1, <1>2, <1>4, <1>5
<1>7. AdvanceTypeOK'
  BY <1>3, <1>4, <1>6 DEF AdvanceInv, AdvanceTypeOK, Sweeper
<1>8. ChargedBefore'
  <2>1. \A g \in Gates : tried'[g] <= spent'[g] /\ tried'[g] <= Budget
    BY <1>1, <1>4, <1>6 DEF AdvanceInv, ChargedBefore
  <2>2. sweeper'.pc = "attempt" /\ ~sweeper'.old =>
           tried'[sweeper.gate] < spent'[sweeper.gate] /\ tried'[sweeper.gate] < Budget
    BY <1>1, <1>2, <1>3, <1>4, <1>6 DEF AdvanceInv, ChargedBefore
  <2> QED BY <1>3, <1>4, <2>1, <2>2 DEF ChargedBefore
<1>9. MarkedBefore'
  BY <1>3, <1>4 DEF AdvanceInv, MarkedBefore, Reasons
<1>10. StatedOrAboutTo'
  <2> SUFFICES ASSUME fault = {} PROVE StatedOrAboutTo'
    BY <1>4 DEF StatedOrAboutTo
  <2>1. paused' # "failed" /\ ~sweeper'.old
        /\ \A e \in marked' : audit'[e] = 1
    BY <1>3, <1>4 DEF AdvanceInv, StatedOrAboutTo
  <2>2. ASSUME NEW g \in Gates, spent'[g] > Budget,
               <<g, "attempt_budget_exhausted">> \notin marked
        PROVE  sweeper'.pc = "mark" /\ sweeper'.gate = g
               /\ sweeper'.why = "attempt_budget_exhausted"
    <3>1. ~(spent[g] > Budget)
      BY <1>4, <2>2 DEF AdvanceInv, StatedOrAboutTo
    <3>2. g = sweeper.gate
      BY <1>6, <2>2, <3>1
    <3>3. sweeper.pc = "exhaust"
      BY <1>1, <1>2, <1>4, <1>6, <2>1, <1>3, <2>2, <3>2 DEF AdvanceInv, ChargedBefore
    <3> QED BY <1>3, <3>2, <3>3 DEF AdvanceInv, MarkedBefore
  <2> QED BY <1>4, <2>1, <2>2 DEF StatedOrAboutTo
<1> QED BY <1>7, <1>8, <1>9, <1>10 DEF AdvanceInv

\* The run is resumed, or the attempt comes too late, or the process dies.
LEMMA AttemptPreserves ==
    ASSUME AdvanceInv, Attempt \/ AdvancerDies
    PROVE  AdvanceInv'
<1>1. sweeper \in Sweeper /\ spent \in [Gates -> 0..(Budget + 1)] /\ Budget \in Nat \ {0}
      /\ tried \in [Gates -> Nat]
  BY AdvanceAssumption DEF AdvanceInv, AdvanceTypeOK, Sweeper
<1>2. sweeper.gate \in Gates
  BY <1>1 DEF Sweeper
<1>3. /\ sweeper' \in Sweeper /\ sweeper'.pc = "idle" /\ sweeper'.old = FALSE
      /\ UNCHANGED <<authority, spent, marked, audit, raised, fault>>
      /\ paused' \in {paused, "running"}
  BY RestedSweeper DEF Attempt, AdvancerDies
<1>4. \/ tried' = tried
      \/ /\ sweeper.pc = "attempt" /\ ~sweeper.old
         /\ tried' = [tried EXCEPT ![sweeper.gate] = tried[sweeper.gate] + 1]
  BY DEF Attempt, AdvancerDies
<1>5. tried' \in [Gates -> Nat]
      /\ \A g \in Gates : tried'[g] <= spent'[g] /\ tried'[g] <= Budget
  BY <1>1, <1>2, <1>3, <1>4 DEF AdvanceInv, ChargedBefore
<1>6. AdvanceTypeOK'
  BY <1>3, <1>5 DEF AdvanceInv, AdvanceTypeOK, Sweeper
<1>7. ChargedBefore' /\ MarkedBefore'
  BY <1>3, <1>5 DEF AdvanceInv, ChargedBefore, MarkedBefore
<1>8. StatedOrAboutTo'
  <2>1. fault = {} => sweeper.pc = "attempt"
    BY DEF Attempt, AdvancerDies
  <2> QED BY <1>3, <2>1 DEF AdvanceInv, StatedOrAboutTo
<1> QED BY <1>6, <1>7, <1>8 DEF AdvanceInv

\* The marker is set, by the one sweep that will write the row.
LEMMA MarkPreserves ==
    ASSUME AdvanceInv, Mark
    PROVE  AdvanceInv'
<1>1. sweeper \in Sweeper /\ sweeper.pc = "mark" /\ sweeper.why \in Reasons
      /\ audit \in [Gates \X Reasons -> 0..2]
  BY DEF AdvanceInv, AdvanceTypeOK, Sweeper, Mark, MarkedBefore
<1>2. PICK e \in Gates \X Reasons : e = <<sweeper.gate, sweeper.why>>
  BY <1>1 DEF Sweeper
<1>3. marked' = marked \cup {e} /\ UNCHANGED <<paused, authority, spent, audit, tried, raised, fault>>
  BY <1>2 DEF Mark
<1>4. CASE e \in marked
  <2>1. sweeper' \in Sweeper /\ sweeper'.pc = "idle" /\ sweeper'.old = FALSE
    BY <1>2, <1>4, RestedSweeper DEF Mark
  <2>2. AdvanceTypeOK'
    BY <1>3, <2>1 DEF AdvanceInv, AdvanceTypeOK, Sweeper
  <2>3. ChargedBefore' /\ MarkedBefore'
    BY <1>3, <2>1 DEF AdvanceInv, ChargedBefore, MarkedBefore
  <2>4. StatedOrAboutTo'
    BY <1>1, <1>2, <1>3, <1>4, <2>1 DEF AdvanceInv, StatedOrAboutTo
  <2> QED BY <2>2, <2>3, <2>4 DEF AdvanceInv
<1>5. CASE e \notin marked
  <2>1. sweeper' \in Sweeper /\ sweeper'.pc = "record" /\ sweeper'.old = sweeper.old
        /\ sweeper'.gate = sweeper.gate /\ sweeper'.why = sweeper.why
    BY <1>1, <1>2, <1>5 DEF Mark, Sweeper, Steps
  <2>2. AdvanceTypeOK'
    BY <1>3, <2>1 DEF AdvanceInv, AdvanceTypeOK, Sweeper
  <2>3. audit[e] = 0
    BY <1>1, <1>5 DEF AdvanceInv, MarkedBefore
  <2>4. ChargedBefore'
    BY <1>3, <2>1 DEF AdvanceInv, ChargedBefore
  <2>5. MarkedBefore'
    BY <1>1, <1>2, <1>3, <2>1, <2>3 DEF AdvanceInv, MarkedBefore
  <2>6. StatedOrAboutTo'
    BY <1>1, <1>2, <1>3, <2>1 DEF AdvanceInv, StatedOrAboutTo
  <2> QED BY <2>2, <2>4, <2>5, <2>6 DEF AdvanceInv
<1> QED BY <1>4, <1>5

\* The row is written, or its write fails and the sweep goes on.
LEMMA RecordPreserves ==
    ASSUME AdvanceInv, RecordEscalation
    PROVE  AdvanceInv'
<1>1. sweeper \in Sweeper /\ sweeper.pc = "record" /\ sweeper.why \in Reasons
      /\ audit \in [Gates \X Reasons -> 0..2]
  BY DEF AdvanceInv, AdvanceTypeOK, Sweeper, RecordEscalation, MarkedBefore
<1>2. PICK e \in Gates \X Reasons : e = <<sweeper.gate, sweeper.why>>
  BY <1>1 DEF Sweeper
<1>3. /\ sweeper' \in Sweeper /\ sweeper'.pc = "idle" /\ sweeper'.old = FALSE
      /\ UNCHANGED <<paused, authority, spent, marked, tried, raised, fault>>
  BY RestedSweeper DEF RecordEscalation
<1>4. \/ ~sweeper.old /\ audit' = [audit EXCEPT ![e] = audit[e] + 1]
      \/ (sweeper.old \/ "write" \in fault) /\ audit' = audit
  BY <1>2 DEF RecordEscalation
<1>5. ~sweeper.old => e \in marked /\ audit[e] = 0
  BY <1>1, <1>2 DEF AdvanceInv, MarkedBefore
<1>6. /\ audit' \in [Gates \X Reasons -> 0..2]
      /\ \A d \in Gates \X Reasons : audit'[d] <= 1 /\ (audit'[d] = 1 => d \in marked)
      /\ \A d \in Gates \X Reasons : audit[d] = 1 => audit'[d] = 1
      /\ fault = {} => audit'[e] = 1
  BY <1>1, <1>4, <1>5 DEF AdvanceInv, MarkedBefore, StatedOrAboutTo
<1>7. AdvanceTypeOK'
  BY <1>3, <1>6 DEF AdvanceInv, AdvanceTypeOK, Sweeper
<1>8. ChargedBefore' /\ MarkedBefore'
  BY <1>3, <1>6 DEF AdvanceInv, ChargedBefore, MarkedBefore
<1>9. StatedOrAboutTo'
  <2>1. marked \subseteq Gates \X Reasons
    BY DEF AdvanceInv, AdvanceTypeOK
  <2> QED BY <1>1, <1>2, <1>3, <1>6, <2>1 DEF AdvanceInv, StatedOrAboutTo
<1> QED BY <1>7, <1>8, <1>9 DEF AdvanceInv

\* The inductive step, one case per action.
LEMMA AdvanceInvNext == AdvanceInv /\ [AdvanceNext]_advanceVars => AdvanceInv'
<1> SUFFICES ASSUME AdvanceInv, [AdvanceNext]_advanceVars PROVE AdvanceInv'
  OBVIOUS
<1>1. CASE UNCHANGED advanceVars
  BY <1>1 DEF advanceVars, AdvanceInv, AdvanceTypeOK, ChargedBefore, MarkedBefore, StatedOrAboutTo
<1>2. CASE (\E g \in Gates : GateRaised(g)) \/ OwnerResumes \/ RunFails
  BY <1>2, RunStepPreserves
<1>3. CASE OperatorRetries
  BY <1>3, RetryPreserves
<1>4. CASE AdvanceReads
  BY <1>4, ReadsPreserves
<1>5. CASE SpendGateAttempt
  BY <1>5, SpendPreserves
<1>6. CASE Attempt \/ AdvancerDies
  BY <1>6, AttemptPreserves
<1>7. CASE Mark
  BY <1>7, MarkPreserves
<1>8. CASE RecordEscalation
  BY <1>8, RecordPreserves
<1> QED
  BY <1>1, <1>2, <1>3, <1>4, <1>5, <1>6, <1>7, <1>8 DEF AdvanceNext, AdvancerStep

\* The inductive invariant gives what the run checks.
LEMMA AdvanceInvImplies == AdvanceInv => AdvanceSafety
<1> SUFFICES ASSUME AdvanceInv PROVE AdvanceSafety
  OBVIOUS
<1>1. AdvanceTypeOK /\ BudgetHolds /\ EscalatedOnce
  BY DEF AdvanceInv, ChargedBefore, MarkedBefore, BudgetHolds, EscalatedOnce
<1>2. HandBackIsStated
  <2> SUFFICES ASSUME sweeper.pc = "idle", fault = {}, NEW g \in Gates, spent[g] > Budget
               PROVE  audit[<<g, "attempt_budget_exhausted">>] = 1
    BY DEF HandBackIsStated
  <2>1. <<g, "attempt_budget_exhausted">> \in marked
    BY DEF AdvanceInv, StatedOrAboutTo
  <2> QED BY <2>1 DEF AdvanceInv, StatedOrAboutTo
<1> QED BY <1>1, <1>2 DEF AdvanceSafety

\* For any budget, any gates and any death between two statements: the advancer
\* resumes no gate past its durable budget, records a hand-back once, and leaves no
\* exhausted gate unrecorded.
THEOREM AdvancerIsSafe == AdvanceSpec => []AdvanceSafety
<1>1. AdvanceSpec => []AdvanceInv
  BY AdvanceInvInit, AdvanceInvNext, PTL DEF AdvanceSpec
<1> QED BY <1>1, AdvanceInvImplies, PTL
-----------------------------------------------------------------------------
(* OutreachReplies: the inductive invariant.                                  *)

Ingestion == [st : {"none", "processing", "completed"}, live : BOOLEAN]
Progress == [pc : {"idle", "read", "follow", "commit", "complete"},
             run : Outreach \cup {0}, msg : 0..MaxReplies]
Working == {"follow", "commit", "complete"}

ReplyTypes ==
    /\ orun \in [Outreach -> {"waiting_for_reply", "completed", "blocked"}]
    /\ thread \in [Outreach -> Seq(Says)] /\ \A r \in Outreach : Len(thread[r]) <= MaxReplies
    /\ claims \in [Letters -> Ingestion] /\ intake \in [Pollers -> Progress]
    /\ cycle \subseteq Outreach
    /\ follow \in [Letters -> {"absent", "pending", "completed", "failed", "outcome_unknown"}]
    /\ sends \in [Letters -> Nat] /\ stored \in [Letters -> Nat] /\ applied \in [Letters -> Nat]
    /\ deaths \in 0..MaxDeaths /\ replies \in ReplyRegimes

\* The run lock: whoever is not idle has a run that is nobody else's.
RunLock ==
    /\ \A p \in Pollers : intake[p].pc # "idle" <=> intake[p].run \in Outreach
    /\ \A p, q \in Pollers : intake[p].pc # "idle" /\ intake[p].run = intake[q].run => p = q

\* Whoever works on a reply works on one of the thread, under its claim.
ClaimedWork ==
    \A p \in Pollers : intake[p].pc \in Working =>
        /\ intake[p].msg \in 1..Len(thread[intake[p].run])
        /\ claims[Letter(p)].st = "processing" /\ claims[Letter(p)].live

\* A follow-up that may be sent was not, and one that was is within the rounds.
SentOnce ==
    \A l \in Letters :
        /\ follow[l] \in {"absent", "failed"} => sends[l] = 0
        /\ sends[l] <= 1 /\ (sends[l] = 1 => l[2] <= MaxRounds)

\* A reply's credentials are in the vault from its first claim on.
StoredWithClaim ==
    /\ \A l \in Letters : stored[l] = IF claims[l].st = "none" THEN 0 ELSE 1
    /\ \A r \in Outreach : orun[r] = "completed" =>
          \E i \in 1..Len(thread[r]) : thread[r][i] = "credentials" /\ stored[<<r, i>>] = 1

\* While nothing fails, a reply that was applied is completed or about to be.
AppliedIsCompleted ==
    ~replies.faults => \A l \in Letters :
        /\ applied[l] <= 1
        /\ applied[l] = 1 =>
             \/ claims[l].st = "completed"
             \/ \E p \in Pollers : intake[p].pc = "complete" /\ Letter(p) = l

ReplyInv ==
    /\ ReplyTypes /\ RunLock /\ ClaimedWork /\ SentOnce /\ StoredWithClaim
    /\ AppliedIsCompleted

\* An idle poller is one.
LEMMA FreePoller ==
    Free \in Progress /\ Free.pc = "idle" /\ Free.run = 0 /\ Free.msg = 0 /\ 0 \notin Outreach
BY RepliesAssumption DEF Free, Progress

\* No mail, no claim, nobody at work: all of it holds.
LEMMA ReplyInvInit == OInit => ReplyInv
<1> SUFFICES ASSUME OInit PROVE ReplyInv
  OBVIOUS
<1>1. \A p \in Pollers : intake[p] = Free
  BY DEF OInit
<1>2. \A l \in Letters : claims[l] = NoIngestion
  BY DEF OInit
<1>3. NoIngestion \in Ingestion /\ NoIngestion.st = "none"
  BY DEF NoIngestion, Ingestion
<1>4. ReplyTypes
  <2>1. \A r \in Outreach : thread[r] = <<>>
    BY DEF OInit
  <2>2. <<>> \in Seq(Says) /\ Len(<<>>) = 0
    OBVIOUS
  <2>3. thread \in [Outreach -> Seq(Says)] /\ \A r \in Outreach : Len(thread[r]) <= MaxReplies
    BY <2>1, <2>2, RepliesAssumption DEF OInit
  <2>4. claims \in [Letters -> Ingestion] /\ intake \in [Pollers -> Progress]
    BY <1>3, FreePoller DEF OInit
  <2> QED BY <2>3, <2>4, RepliesAssumption DEF OInit, ReplyTypes
<1>5. RunLock /\ ClaimedWork
  BY <1>1, FreePoller DEF RunLock, ClaimedWork, Working
<1>6. SentOnce
  BY DEF OInit, SentOnce
<1>7. StoredWithClaim
  BY <1>2, <1>3 DEF OInit, StoredWithClaim
<1>8. AppliedIsCompleted
  BY DEF OInit, AppliedIsCompleted
<1> QED BY <1>4, <1>5, <1>6, <1>7, <1>8 DEF ReplyInv

\* The reply a poller works on is a letter of its run's thread, under its claim.
LEMMA WorkedLetter ==
    ASSUME ReplyInv, NEW p \in Pollers, intake[p].pc \in Working
    PROVE  /\ intake[p].run \in Outreach /\ intake[p].msg \in 1..MaxReplies
           /\ intake[p].msg \in 1..Len(thread[intake[p].run])
           /\ Letter(p) \in Letters
           /\ claims[Letter(p)].st = "processing" /\ claims[Letter(p)].live
<1>1. intake[p].run \in Outreach
  BY DEF ReplyInv, RunLock, Working
<1>2. /\ intake[p].msg \in 1..Len(thread[intake[p].run])
      /\ claims[Letter(p)].st = "processing" /\ claims[Letter(p)].live
  BY DEF ReplyInv, ClaimedWork
<1>3. Len(thread[intake[p].run]) \in Nat /\ Len(thread[intake[p].run]) <= MaxReplies
  BY <1>1 DEF ReplyInv, ReplyTypes
<1>4. intake[p].msg \in 1..MaxReplies
  BY <1>2, <1>3, RepliesAssumption
<1> QED BY <1>1, <1>2, <1>4 DEF Letter, Letters

\* Two pollers never work on one reply.
LEMMA WorksAlone ==
    ASSUME ReplyInv, NEW p \in Pollers, NEW q \in Pollers,
           intake[p].pc \in Working, Letter(p) = Letter(q)
    PROVE  p = q
BY DEF ReplyInv, RunLock, Letter, Working

\* A poller that leaves its run leaves the lock of the others as it is.
LEMMA LeavesLock ==
    ASSUME ReplyInv, NEW p \in Pollers, Leaves(p)
    PROVE  /\ intake' \in [Pollers -> Progress] /\ RunLock' /\ intake'[p].pc = "idle"
           /\ \A q \in Pollers : q # p => intake'[q] = intake[q]
<1>1. intake \in [Pollers -> Progress]
  BY DEF ReplyInv, ReplyTypes
<1>2. /\ intake' \in [Pollers -> Progress] /\ intake'[p] = Free
      /\ \A q \in Pollers : q # p => intake'[q] = intake[q]
  BY <1>1, FreePoller DEF Leaves
<1>3. RunLock'
  BY <1>2, FreePoller DEF ReplyInv, RunLock
<1> QED BY <1>2, <1>3, FreePoller

\* A poller that goes on with its run keeps its lock.
LEMMA KeepsLock ==
    ASSUME ReplyInv, NEW p \in Pollers, NEW k \in Progress, intake[p].pc # "idle",
           k.pc # "idle", k.run = intake[p].run, intake' = [intake EXCEPT ![p] = k]
    PROVE  /\ intake' \in [Pollers -> Progress] /\ RunLock' /\ intake'[p] = k
           /\ \A q \in Pollers : q # p => intake'[q] = intake[q]
<1>1. intake \in [Pollers -> Progress]
  BY DEF ReplyInv, ReplyTypes
<1>2. /\ intake' \in [Pollers -> Progress] /\ intake'[p] = k
      /\ \A q \in Pollers : q # p => intake'[q] = intake[q]
  BY <1>1
<1>3. RunLock'
  BY <1>2 DEF ReplyInv, RunLock
<1> QED BY <1>2, <1>3

\* A reply arrives at the end of a thread that still has room.
LEMMA VendorPreserves ==
    ASSUME ReplyInv, NEW r \in Outreach, VendorReplies(r)
    PROVE  ReplyInv'
<1>1. /\ thread \in [Outreach -> Seq(Says)] /\ \A q \in Outreach : Len(thread[q]) <= MaxReplies
      /\ MaxReplies \in Nat
  BY RepliesAssumption DEF ReplyInv, ReplyTypes
<1>2. PICK s \in Says : thread' = [thread EXCEPT ![r] = Append(thread[r], s)]
  BY DEF VendorReplies
<1>3. UNCHANGED <<orun, claims, intake, cycle, follow, sends, stored, applied, deaths, replies>>
  BY DEF VendorReplies
<1>4. Len(thread[r]) < MaxReplies
  <2> DEFINE S == 1..Len(thread[r])
             T == {l \in Letters : l[2] <= Len(thread[l[1]])}
             f == [i \in S |-> <<r, i>>]
  <2>1. Len(thread[r]) \in Nat /\ Len(thread[r]) <= MaxReplies
    BY <1>1
  <2>2. IsFiniteSet(Letters)
    <3>1. IsFiniteSet(1..MaxReplies) /\ IsFiniteSet(Outreach)
      BY <1>1, FS_Interval, RepliesAssumption
    <3>2. IsFiniteSet(Outreach \X (1..MaxReplies))
      BY <3>1, FS_Product
    <3> QED BY <3>2 DEF Letters
  <2>3. IsFiniteSet(T)
    BY <2>2, FS_Subset
  <2>4. \A i \in S : <<r, i>> \in T
    BY <2>1, <1>1 DEF Letters
  <2>5. f \in Injection(S, T)
    BY <2>4 DEF Injection, IsInjective
  <2>6. Cardinality(S) <= Cardinality(T)
    <3> HIDE DEF S, T, f
    <3> QED BY <2>3, <2>5, FS_Injection
  <2>7. Cardinality(S) = Len(thread[r])
    BY <2>1, FS_Interval
  <2>8. Cardinality(T) \in Nat /\ Cardinality(T) < MaxReplies
    BY <2>3, FS_CardinalityType DEF VendorReplies
  <2> QED BY <1>1, <2>1, <2>6, <2>7, <2>8
<1>5. /\ Append(thread[r], s) \in Seq(Says) /\ Len(Append(thread[r], s)) = Len(thread[r]) + 1
      /\ \A i \in 1..Len(thread[r]) : Append(thread[r], s)[i] = thread[r][i]
  BY <1>1
<1>6. /\ thread' \in [Outreach -> Seq(Says)]
      /\ \A q \in Outreach : /\ Len(thread'[q]) <= MaxReplies /\ Len(thread'[q]) >= Len(thread[q])
                             /\ \A i \in 1..Len(thread[q]) : thread'[q][i] = thread[q][i]
  BY <1>1, <1>2, <1>4, <1>5
<1>7. ReplyTypes'
  BY <1>3, <1>6 DEF ReplyInv, ReplyTypes
<1>8. ClaimedWork'
  <2> SUFFICES ASSUME NEW p \in Pollers, intake[p].pc \in Working
               PROVE  intake[p].msg \in 1..Len(thread'[intake[p].run])
    BY <1>3, WorkedLetter DEF ClaimedWork, Letter
  <2>1. intake[p].run \in Outreach /\ intake[p].msg \in 1..Len(thread[intake[p].run])
    BY WorkedLetter
  <2>2. Len(thread[intake[p].run]) \in Nat /\ Len(thread'[intake[p].run]) \in Nat
        /\ Len(thread'[intake[p].run]) >= Len(thread[intake[p].run])
    BY <1>1, <1>6, <2>1
  <2> QED BY <2>1, <2>2
<1>9. StoredWithClaim'
  <2>1. ASSUME NEW q \in Outreach, orun[q] = "completed"
        PROVE  \E i \in 1..Len(thread'[q]) : thread'[q][i] = "credentials" /\ stored[<<q, i>>] = 1
    <3>1. PICK i \in 1..Len(thread[q]) : thread[q][i] = "credentials" /\ stored[<<q, i>>] = 1
      BY <2>1 DEF ReplyInv, StoredWithClaim
    <3>2. Len(thread[q]) \in Nat /\ Len(thread'[q]) \in Nat /\ Len(thread'[q]) >= Len(thread[q])
      BY <1>1, <1>6
    <3>3. i \in 1..Len(thread'[q]) /\ thread'[q][i] = thread[q][i]
      BY <1>6, <3>2
    <3> QED BY <3>1, <3>3
  <2> QED BY <1>3, <2>1 DEF ReplyInv, StoredWithClaim
<1>10. RunLock' /\ SentOnce' /\ AppliedIsCompleted'
  BY <1>3 DEF ReplyInv, RunLock, SentOnce, AppliedIsCompleted, Letter
<1> QED BY <1>7, <1>8, <1>9, <1>10 DEF ReplyInv

\* A poller takes a run nobody else has, or passes on to the next.
LEMMA TakesPreserves ==
    ASSUME ReplyInv, NEW p \in Pollers, NEW r \in Outreach, intake[p].pc = "idle", Takes(p, r),
           cycle' \subseteq Outreach,
           UNCHANGED <<orun, thread, claims, follow, sends, stored, applied, deaths, replies>>
    PROVE  ReplyInv'
<1>1. intake \in [Pollers -> Progress]
  BY DEF ReplyInv, ReplyTypes
<1> DEFINE k == [Free EXCEPT !.pc = "read", !.run = r]
<1>2. k \in Progress /\ k.pc = "read" /\ k.run = r
  BY FreePoller DEF Progress
<1>3. \/ intake' = intake
      \/ (\A q \in Pollers : q # p => intake[q].run # r) /\ intake' = [intake EXCEPT ![p] = k]
  BY DEF Takes
<1> HIDE DEF k
<1>4. /\ intake' \in [Pollers -> Progress]
      /\ \A q \in Pollers : q # p => intake'[q] = intake[q]
      /\ \/ intake'[p] = intake[p]
         \/ intake'[p] = k /\ \A q \in Pollers : q # p => intake[q].run # r
  BY <1>1, <1>2, <1>3
<1>5. ReplyTypes'
  BY <1>4 DEF ReplyInv, ReplyTypes
<1>6. RunLock'
  BY <1>2, <1>4 DEF ReplyInv, RunLock
<1>7. \A q \in Pollers : intake'[q].pc \in Working => intake'[q] = intake[q]
  BY <1>2, <1>4 DEF Working
<1>8. ClaimedWork'
  BY <1>7 DEF ReplyInv, ClaimedWork, Letter
<1>9. AppliedIsCompleted'
  <2>1. \A q \in Pollers : intake[q].pc = "complete" => intake'[q] = intake[q]
    BY <1>4
  <2> QED BY <2>1 DEF ReplyInv, AppliedIsCompleted, Letter
<1>10. SentOnce' /\ StoredWithClaim'
  BY DEF ReplyInv, SentOnce, StoredWithClaim
<1> QED BY <1>5, <1>6, <1>8, <1>9, <1>10 DEF ReplyInv

\* The pass begins with the oldest waiting runs.
LEMMA CyclePreserves ==
    ASSUME ReplyInv, BeginCycle
    PROVE  ReplyInv'
<1>1. UNCHANGED <<orun, thread, claims, intake, follow, sends, stored, applied, deaths, replies>>
      /\ cycle' \subseteq Outreach
  BY DEF BeginCycle, Oldest, Waiting
<1>2. ReplyTypes' /\ RunLock' /\ ClaimedWork'
  BY <1>1 DEF ReplyInv, ReplyTypes, RunLock, ClaimedWork, Letter
<1>3. SentOnce' /\ StoredWithClaim' /\ AppliedIsCompleted'
  BY <1>1 DEF ReplyInv, SentOnce, StoredWithClaim, AppliedIsCompleted, Letter
<1> QED BY <1>2, <1>3 DEF ReplyInv


\* A reply is claimed, with its credentials the first time; or the poll ends here.
LEMMA ClaimReplyPreserves ==
    ASSUME ReplyInv, NEW p \in Pollers, ClaimReply(p)
    PROVE  ReplyInv'
<1>1. /\ intake[p].pc = "read" /\ intake[p] \in Progress /\ intake[p].run \in Outreach
      /\ UNCHANGED <<orun, thread, cycle, follow, sends, applied, deaths, replies>>
  BY DEF ClaimReply, ReplyInv, ReplyTypes, RunLock
<1>2. PICK r \in Outreach : r = intake[p].run
  BY <1>1
<1>3. thread[r] \in Seq(Says) /\ Len(thread[r]) \in Nat /\ Len(thread[r]) <= MaxReplies
  BY DEF ReplyInv, ReplyTypes
<1>4. SentOnce'
  BY <1>1 DEF ReplyInv, SentOnce
<1>5. CASE Leaves(p) /\ UNCHANGED <<claims, stored>>
  <2>1. /\ intake' \in [Pollers -> Progress] /\ RunLock' /\ intake'[p].pc = "idle"
        /\ \A q \in Pollers : q # p => intake'[q] = intake[q]
    BY <1>5, LeavesLock
  <2>2. ReplyTypes'
    BY <1>1, <1>5, <2>1 DEF ReplyInv, ReplyTypes
  <2>3. ClaimedWork'
    BY <1>1, <1>5, <2>1 DEF ReplyInv, ClaimedWork, Letter, Working
  <2>4. StoredWithClaim'
    BY <1>1, <1>5 DEF ReplyInv, StoredWithClaim
  <2>5. AppliedIsCompleted'
    <3>1. \A q \in Pollers : intake[q].pc = "complete" => intake'[q] = intake[q]
      BY <1>1, <2>1
    <3> QED BY <1>1, <1>5, <3>1 DEF ReplyInv, AppliedIsCompleted, Letter
  <2> QED BY <1>4, <2>1, <2>2, <2>3, <2>4, <2>5 DEF ReplyInv
<1>6. CASE /\ Len(thread[r]) # 0 /\ Acquirable(<<r, Len(thread[r])>>)
           /\ claims' = [claims EXCEPT ![<<r, Len(thread[r])>>] = [st |-> "processing", live |-> TRUE]]
           /\ stored' = Stores(<<r, Len(thread[r])>>)
           /\ intake' = [intake EXCEPT ![p].pc = "follow", ![p].msg = Len(thread[r])]
  <2>1. PICK n \in 1..MaxReplies : n = Len(thread[r])
    BY <1>3, <1>6, RepliesAssumption
  <2>2. PICK l \in Letters : l = <<r, n>>
    BY DEF Letters
  <2> DEFINE k == [intake[p] EXCEPT !.pc = "follow", !.msg = n]
  <2>3. k \in Progress /\ k.pc = "follow" /\ k.msg = n /\ k.run = r
    <3>1. n \in 0..MaxReplies
      BY <2>1, RepliesAssumption
    <3> QED BY <1>1, <1>2, <3>1 DEF Progress
  <2>4. intake' = [intake EXCEPT ![p] = k]
    BY <1>6, <2>1
  <2> HIDE DEF k
  <2>5. /\ intake' \in [Pollers -> Progress] /\ RunLock' /\ intake'[p] = k
        /\ \A q \in Pollers : q # p => intake'[q] = intake[q]
    BY <1>1, <1>2, <2>3, <2>4, KeepsLock
  <2> DEFINE c == [st |-> "processing", live |-> TRUE]
  <2>6. c \in Ingestion /\ c.st = "processing" /\ c.live
    BY DEF Ingestion
  <2>7. claims' = [claims EXCEPT ![l] = c] /\ stored' = Stores(l) /\ Acquirable(l)
    BY <1>6, <2>1, <2>2
  <2> HIDE DEF c
  <2>8. /\ claims' \in [Letters -> Ingestion] /\ claims'[l] = c
        /\ \A x \in Letters : x # l => claims'[x] = claims[x]
    BY <2>6, <2>7 DEF ReplyInv, ReplyTypes
  <2>9. /\ stored' \in [Letters -> Nat] /\ stored'[l] = 1
        /\ \A x \in Letters : x # l => stored'[x] = stored[x]
    BY <2>7 DEF ReplyInv, ReplyTypes, StoredWithClaim, Stores
  <2>10. \A q \in Pollers : q # p /\ intake[q].pc \in Working => Letter(q) \in Letters /\ Letter(q) # l
    <3> SUFFICES ASSUME NEW q \in Pollers, q # p, intake[q].pc \in Working
                 PROVE  Letter(q) \in Letters /\ Letter(q) # l
      OBVIOUS
    <3>1. Letter(q) \in Letters
      BY WorkedLetter
    <3>2. intake[q].run # r
      BY <1>1, <1>2 DEF ReplyInv, RunLock, Working
    <3> QED BY <2>2, <3>1, <3>2 DEF Letter
  <2>11. ReplyTypes'
    BY <1>1, <2>5, <2>8, <2>9 DEF ReplyInv, ReplyTypes
  <2>12. ClaimedWork'
    <3> SUFFICES ASSUME NEW q \in Pollers, intake'[q].pc \in Working
                 PROVE  /\ intake'[q].msg \in 1..Len(thread[intake'[q].run])
                        /\ claims'[Letter(q)'].st = "processing" /\ claims'[Letter(q)'].live
      BY <1>1 DEF ClaimedWork
    <3>1. CASE q = p
      <4>1. Letter(p)' = l
        BY <2>2, <2>3, <2>5 DEF Letter
      <4> QED BY <1>3, <2>1, <2>3, <2>5, <2>6, <2>8, <3>1, <4>1
    <3>2. CASE q # p
      <4>1. intake'[q] = intake[q] /\ intake[q].pc \in Working
        BY <2>5, <3>2
      <4>2. Letter(q)' = Letter(q) /\ Letter(q) \in Letters /\ Letter(q) # l
        BY <2>10, <3>2, <4>1 DEF Letter
      <4> QED BY <2>8, <4>1, <4>2, WorkedLetter
    <3> QED BY <3>1, <3>2
  <2>13. StoredWithClaim'
    <3>1. \A x \in Letters : stored'[x] = IF claims'[x].st = "none" THEN 0 ELSE 1
      BY <2>6, <2>8, <2>9 DEF ReplyInv, StoredWithClaim
    <3>2. ASSUME NEW q \in Outreach, orun[q] = "completed"
          PROVE  \E i \in 1..Len(thread[q]) : thread[q][i] = "credentials" /\ stored'[<<q, i>>] = 1
      <4>1. PICK i \in 1..Len(thread[q]) : thread[q][i] = "credentials" /\ stored[<<q, i>>] = 1
        BY <3>2 DEF ReplyInv, StoredWithClaim
      <4>2. Len(thread[q]) \in Nat /\ Len(thread[q]) <= MaxReplies
        BY DEF ReplyInv, ReplyTypes
      <4>3. <<q, i>> \in Letters
        BY <4>2, RepliesAssumption DEF Letters
      <4> QED BY <2>9, <4>1, <4>3
    <3> QED BY <1>1, <3>1, <3>2 DEF StoredWithClaim
  <2>14. AppliedIsCompleted'
    <3> SUFFICES ASSUME ~replies.faults, NEW x \in Letters
                 PROVE  /\ applied[x] <= 1
                        /\ applied[x] = 1 =>
                             \/ claims'[x].st = "completed"
                             \/ \E q \in Pollers : intake'[q].pc = "complete" /\ Letter(q)' = x
      BY <1>1 DEF AppliedIsCompleted
    <3>1. applied[x] <= 1
      BY DEF ReplyInv, AppliedIsCompleted
    <3>2. ASSUME applied[x] = 1
          PROVE  \/ claims'[x].st = "completed"
                 \/ \E q \in Pollers : intake'[q].pc = "complete" /\ Letter(q)' = x
      <4>1. CASE claims[x].st = "completed"
        <5>1. x # l
          BY <2>7, <4>1 DEF Acquirable
        <5> QED BY <2>8, <4>1, <5>1
      <4>2. ASSUME NEW q \in Pollers, intake[q].pc = "complete", Letter(q) = x
            PROVE  intake'[q].pc = "complete" /\ Letter(q)' = x
        <5>1. q # p
          BY <1>1, <4>2
        <5> QED BY <2>5, <4>2, <5>1 DEF Letter
      <4> QED BY <3>2, <4>1, <4>2 DEF ReplyInv, AppliedIsCompleted
    <3> QED BY <3>1, <3>2
  <2> QED BY <1>4, <2>5, <2>11, <2>12, <2>13, <2>14 DEF ReplyInv
<1> QED BY <1>2, <1>5, <1>6 DEF ClaimReply

\* A follow-up is sent once, or its failure is on record, or none is due.
LEMMA FollowUpPreserves ==
    ASSUME ReplyInv, NEW p \in Pollers, FollowUp(p)
    PROVE  ReplyInv'
<1>1. /\ intake[p].pc = "follow" /\ intake[p] \in Progress
      /\ UNCHANGED <<orun, thread, claims, cycle, stored, applied, deaths, replies>>
      /\ intake' = [intake EXCEPT ![p].pc = "commit"]
  BY DEF FollowUp, ReplyInv, ReplyTypes
<1>2. PICK l \in Letters : l = Letter(p) /\ l[2] = intake[p].msg
  BY <1>1, WorkedLetter DEF Working, Letter
<1>3. /\ follow \in [Letters -> {"absent", "pending", "completed", "failed", "outcome_unknown"}]
      /\ sends \in [Letters -> Nat]
  BY DEF ReplyInv, ReplyTypes
<1>4. \/ UNCHANGED <<follow, sends>>
      \/ /\ follow[l] \in {"absent", "failed"} /\ l[2] <= MaxRounds
         /\ \E f \in {"completed", "failed", "outcome_unknown"} :
              /\ follow' = [follow EXCEPT ![l] = f]
              /\ \/ sends' = sends
                 \/ f # "failed" /\ sends' = [sends EXCEPT ![l] = sends[l] + 1]
  BY <1>2 DEF FollowUp, Sendable, Asks
<1>5. /\ follow' \in [Letters -> {"absent", "pending", "completed", "failed", "outcome_unknown"}]
      /\ sends' \in [Letters -> Nat] /\ SentOnce'
  BY <1>3, <1>4 DEF ReplyInv, SentOnce
<1> DEFINE k == [intake[p] EXCEPT !.pc = "commit"]
<1>6. /\ k \in Progress /\ k.pc = "commit" /\ k.run = intake[p].run /\ k.msg = intake[p].msg
      /\ intake' = [intake EXCEPT ![p] = k]
  BY <1>1 DEF Progress
<1> HIDE DEF k
<1>7. /\ intake' \in [Pollers -> Progress] /\ RunLock' /\ intake'[p] = k
      /\ \A q \in Pollers : q # p => intake'[q] = intake[q]
  BY <1>1, <1>6, KeepsLock
<1>8. ReplyTypes'
  BY <1>1, <1>5, <1>7 DEF ReplyInv, ReplyTypes
<1>9. \A q \in Pollers : Letter(q)' = Letter(q) /\ intake'[q].run = intake[q].run
        /\ intake'[q].msg = intake[q].msg
        /\ (intake'[q].pc \in Working => intake[q].pc \in Working)
        /\ (intake[q].pc = "complete" => intake'[q].pc = "complete")
  BY <1>1, <1>6, <1>7 DEF Letter, Working
<1>10. ClaimedWork'
  BY <1>1, <1>9 DEF ReplyInv, ClaimedWork
<1>11. StoredWithClaim' /\ AppliedIsCompleted'
  BY <1>1, <1>9 DEF ReplyInv, StoredWithClaim, AppliedIsCompleted
<1> QED BY <1>5, <1>7, <1>8, <1>10, <1>11 DEF ReplyInv

\* The run's status and the event are committed, for a reply of its own thread.
LEMMA CommitPreserves ==
    ASSUME ReplyInv, NEW p \in Pollers, CommitReply(p)
    PROVE  ReplyInv'
<1>1. /\ intake[p].pc = "commit" /\ intake[p] \in Progress
      /\ UNCHANGED <<thread, claims, cycle, follow, sends, stored, deaths, replies>>
      /\ intake' = [intake EXCEPT ![p].pc = "complete"]
  BY DEF CommitReply, ReplyInv, ReplyTypes
<1>2. /\ intake[p].run \in Outreach /\ intake[p].msg \in 1..Len(thread[intake[p].run])
      /\ Letter(p) \in Letters /\ claims[Letter(p)].st = "processing"
  BY <1>1, WorkedLetter DEF Working
<1>3. PICK r \in Outreach, l \in Letters : r = intake[p].run /\ l = Letter(p)
  BY <1>2
<1>4. stored[l] = 1
  BY <1>2, <1>3 DEF ReplyInv, StoredWithClaim
<1>5. orun \in [Outreach -> {"waiting_for_reply", "completed", "blocked"}]
      /\ applied \in [Letters -> Nat]
  BY DEF ReplyInv, ReplyTypes
<1>6. /\ orun' = [orun EXCEPT ![r] = NextStatus(Said(p))]
      /\ applied' = [applied EXCEPT ![l] = IF applied[l] < 2 THEN applied[l] + 1 ELSE applied[l]]
  BY <1>3 DEF CommitReply
<1>7. NextStatus(Said(p)) \in {"waiting_for_reply", "completed", "blocked"}
      /\ (NextStatus(Said(p)) = "completed" => Said(p) = "credentials")
  BY DEF NextStatus
<1>8. /\ orun' \in [Outreach -> {"waiting_for_reply", "completed", "blocked"}]
      /\ orun'[r] = "completed" => Said(p) = "credentials"
      /\ \A q \in Outreach : q # r => orun'[q] = orun[q]
  BY <1>5, <1>6, <1>7
<1>9. /\ applied' \in [Letters -> Nat]
      /\ applied'[l] = IF applied[l] < 2 THEN applied[l] + 1 ELSE applied[l]
      /\ \A x \in Letters : x # l => applied'[x] = applied[x]
  BY <1>5, <1>6
<1> DEFINE k == [intake[p] EXCEPT !.pc = "complete"]
<1>10. /\ k \in Progress /\ k.pc = "complete" /\ k.run = intake[p].run /\ k.msg = intake[p].msg
       /\ intake' = [intake EXCEPT ![p] = k]
  BY <1>1 DEF Progress
<1> HIDE DEF k
<1>11. /\ intake' \in [Pollers -> Progress] /\ RunLock' /\ intake'[p] = k
       /\ \A q \in Pollers : q # p => intake'[q] = intake[q]
  BY <1>1, <1>10, KeepsLock
<1>12. ReplyTypes'
  BY <1>1, <1>8, <1>9, <1>11 DEF ReplyInv, ReplyTypes
<1>13. \A q \in Pollers : Letter(q)' = Letter(q) /\ intake'[q].run = intake[q].run
         /\ intake'[q].msg = intake[q].msg
         /\ (intake'[q].pc \in Working => intake[q].pc \in Working)
         /\ (intake[q].pc = "complete" => intake'[q].pc = "complete")
  BY <1>1, <1>10, <1>11 DEF Letter, Working
<1>14. ClaimedWork'
  BY <1>1, <1>13 DEF ReplyInv, ClaimedWork
<1>15. SentOnce'
  BY <1>1 DEF ReplyInv, SentOnce
<1>16. StoredWithClaim'
  <2>1. ASSUME orun'[r] = "completed"
        PROVE  \E i \in 1..Len(thread[r]) : thread[r][i] = "credentials" /\ stored[<<r, i>>] = 1
    <3>1. intake[p].msg \in 1..Len(thread[r]) /\ thread[r][intake[p].msg] = "credentials"
      BY <1>2, <1>3, <1>8, <2>1 DEF Said
    <3>2. stored[<<r, intake[p].msg>>] = 1
      BY <1>3, <1>4 DEF Letter
    <3> QED BY <3>1, <3>2
  <2>2. \A q \in Outreach : orun'[q] = "completed" =>
          \E i \in 1..Len(thread[q]) : thread[q][i] = "credentials" /\ stored[<<q, i>>] = 1
    BY <1>8, <2>1 DEF ReplyInv, StoredWithClaim
  <2> QED BY <1>1, <2>2 DEF ReplyInv, StoredWithClaim
<1>17. AppliedIsCompleted'
  <2> SUFFICES ASSUME ~replies.faults, NEW x \in Letters
               PROVE  /\ applied'[x] <= 1
                      /\ applied'[x] = 1 =>
                           \/ claims[x].st = "completed"
                           \/ \E q \in Pollers : intake'[q].pc = "complete" /\ Letter(q)' = x
    BY <1>1 DEF AppliedIsCompleted
  <2>1. CASE x = l
    <3>1. applied[l] # 1
      <4> SUFFICES ASSUME applied[l] = 1 PROVE FALSE
        OBVIOUS
      <4>1. PICK q \in Pollers : intake[q].pc = "complete" /\ Letter(q) = l
        BY <1>2, <1>3 DEF ReplyInv, AppliedIsCompleted
      <4>2. q = p
        BY <1>3, <4>1, WorksAlone DEF Working
      <4> QED BY <1>1, <4>1, <4>2
    <3>2. applied[l] = 0
      BY <1>5, <3>1 DEF ReplyInv, AppliedIsCompleted
    <3>3. intake'[p].pc = "complete" /\ Letter(p)' = l
      BY <1>3, <1>10, <1>11, <1>13
    <3> QED BY <1>9, <2>1, <3>2, <3>3
  <2>2. CASE x # l
    BY <1>9, <1>13, <2>2 DEF ReplyInv, AppliedIsCompleted
  <2> QED BY <2>1, <2>2
<1> QED BY <1>11, <1>12, <1>14, <1>15, <1>16, <1>17 DEF ReplyInv

\* A poller ends its work and its claim: completed, given back, or left as it is.
LEMMA EndPreserves ==
    ASSUME ReplyInv, NEW p \in Pollers, IntakeFails(p) \/ CompleteReply(p)
    PROVE  ReplyInv'
<1>1. /\ intake[p].pc \in Working /\ Leaves(p)
      /\ UNCHANGED <<orun, thread, cycle, follow, sends, stored, applied, deaths, replies>>
  BY DEF IntakeFails, CompleteReply, Working
<1>2. PICK l \in Letters : l = Letter(p) /\ claims[l].st = "processing"
  BY <1>1, WorkedLetter
<1>3. /\ intake' \in [Pollers -> Progress] /\ RunLock' /\ intake'[p].pc = "idle"
      /\ \A q \in Pollers : q # p => intake'[q] = intake[q]
  BY <1>1, LeavesLock
<1>4. claims \in [Letters -> Ingestion] /\ claims[l] \in Ingestion
  BY DEF ReplyInv, ReplyTypes
<1>5. PICK c \in Ingestion :
         /\ claims' = [claims EXCEPT ![l] = c] /\ c.st \in {"processing", "completed"}
         /\ c.st = "completed" \/ replies.faults
  <2>1. CASE claims' = [claims EXCEPT ![l] = [st |-> "completed", live |-> FALSE]]
    <3> DEFINE d == [st |-> "completed", live |-> FALSE]
    <3>1. d \in Ingestion /\ d.st = "completed" /\ claims' = [claims EXCEPT ![l] = d]
      BY <2>1 DEF Ingestion
    <3> QED BY <3>1
  <2>2. CASE replies.faults /\ UNCHANGED claims
    <3>1. claims' = [claims EXCEPT ![l] = claims[l]]
      BY <1>4, <2>2
    <3> QED BY <1>2, <1>4, <2>2, <3>1
  <2>3. CASE replies.faults /\ claims' = [claims EXCEPT ![l].live = FALSE]
    <3> DEFINE d == [claims[l] EXCEPT !.live = FALSE]
    <3>1. d \in Ingestion /\ d.st = "processing" /\ claims' = [claims EXCEPT ![l] = d]
      BY <1>2, <1>4, <2>3 DEF Ingestion
    <3> QED BY <2>3, <3>1
  <2> QED BY <1>2, <2>1, <2>2, <2>3 DEF IntakeFails, CompleteReply
<1>6. /\ claims' \in [Letters -> Ingestion] /\ claims'[l] = c
      /\ \A x \in Letters : x # l => claims'[x] = claims[x]
  <2>1. claims' = [claims EXCEPT ![l] = c]
    BY <1>5
  <2> QED BY <1>4, <2>1
<1>7. ReplyTypes'
  BY <1>1, <1>3, <1>6 DEF ReplyInv, ReplyTypes
<1>8. ClaimedWork'
  <2> SUFFICES ASSUME NEW q \in Pollers, intake'[q].pc \in Working
               PROVE  /\ intake'[q].msg \in 1..Len(thread[intake'[q].run])
                      /\ claims'[Letter(q)'].st = "processing" /\ claims'[Letter(q)'].live
    BY <1>1 DEF ClaimedWork
  <2>1. q # p
    BY <1>3 DEF Working
  <2>2. intake'[q] = intake[q] /\ intake[q].pc \in Working /\ Letter(q)' = Letter(q)
    BY <1>3, <2>1 DEF Letter
  <2>3. Letter(q) \in Letters /\ Letter(q) # l
    BY <1>1, <1>2, <2>1, <2>2, WorkedLetter, WorksAlone
  <2> QED BY <1>6, <2>2, <2>3, WorkedLetter
<1>9. SentOnce'
  BY <1>1 DEF ReplyInv, SentOnce
<1>10. StoredWithClaim'
  <2>1. \A x \in Letters : stored[x] = IF claims'[x].st = "none" THEN 0 ELSE 1
    <3>1. \A x \in Letters : claims'[x].st = "none" <=> claims[x].st = "none"
      <4>1. c.st # "none"
        BY <1>5
      <4> QED BY <1>2, <1>6, <4>1
    <3> QED BY <3>1 DEF ReplyInv, StoredWithClaim
  <2> QED BY <1>1, <2>1 DEF ReplyInv, StoredWithClaim
<1>11. AppliedIsCompleted'
  <2> SUFFICES ASSUME ~replies.faults, NEW x \in Letters
               PROVE  /\ applied[x] <= 1
                      /\ applied[x] = 1 =>
                           \/ claims'[x].st = "completed"
                           \/ \E q \in Pollers : intake'[q].pc = "complete" /\ Letter(q)' = x
    BY <1>1 DEF AppliedIsCompleted
  <2>1. CASE x = l
    BY <1>5, <1>6, <2>1 DEF ReplyInv, AppliedIsCompleted
  <2>2. CASE x # l
    <3>1. \A q \in Pollers : Letter(q) = x => q # p
      BY <1>2, <2>2
    <3>2. \A q \in Pollers : Letter(q) = x => intake'[q] = intake[q] /\ Letter(q)' = x
      BY <1>3, <3>1 DEF Letter
    <3> QED BY <1>6, <2>2, <3>2 DEF ReplyInv, AppliedIsCompleted
  <2> QED BY <2>1, <2>2
<1> QED BY <1>3, <1>7, <1>8, <1>9, <1>10, <1>11 DEF ReplyInv

\* A claim nobody works under runs out.
LEMMA IngestionLapsePreserves ==
    ASSUME ReplyInv, NEW l \in Letters, IngestionLapses(l)
    PROVE  ReplyInv'
<1>1. /\ UNCHANGED <<orun, thread, intake, cycle, follow, sends, stored, applied, deaths, replies>>
      /\ \A p \in Pollers : intake[p].pc \in {"idle", "read"} \/ Letter(p) # l
  BY DEF IngestionLapses
<1> DEFINE c == [claims[l] EXCEPT !.live = FALSE]
<1>2. claims \in [Letters -> Ingestion] /\ claims[l] \in Ingestion
  BY DEF ReplyInv, ReplyTypes
<1>3. c \in Ingestion /\ c.st = claims[l].st /\ claims' = [claims EXCEPT ![l] = c]
  BY <1>2 DEF Ingestion, IngestionLapses
<1> HIDE DEF c
<1>4. /\ claims' \in [Letters -> Ingestion]
      /\ \A x \in Letters : claims'[x].st = claims[x].st
      /\ \A x \in Letters : x # l => claims'[x] = claims[x]
  BY <1>2, <1>3
<1>5. ReplyTypes' /\ RunLock'
  BY <1>1, <1>4 DEF ReplyInv, ReplyTypes, RunLock
<1>6. ClaimedWork'
  <2> SUFFICES ASSUME NEW q \in Pollers, intake[q].pc \in Working
               PROVE  /\ intake[q].msg \in 1..Len(thread[intake[q].run])
                      /\ claims'[Letter(q)].st = "processing" /\ claims'[Letter(q)].live
    BY <1>1 DEF ClaimedWork, Letter
  <2>1. Letter(q) \in Letters /\ Letter(q) # l
    BY <1>1, WorkedLetter DEF Working
  <2> QED BY <1>4, <2>1, WorkedLetter
<1>7. SentOnce' /\ StoredWithClaim'
  BY <1>1, <1>4 DEF ReplyInv, SentOnce, StoredWithClaim
<1>8. AppliedIsCompleted'
  BY <1>1, <1>4 DEF ReplyInv, AppliedIsCompleted, Letter
<1> QED BY <1>5, <1>6, <1>7, <1>8 DEF ReplyInv

\* The process dies, also between a send and its receipt: nobody works any more.
LEMMA DeathPreserves ==
    ASSUME ReplyInv, ApiDies
    PROVE  ReplyInv'
<1>1. /\ replies.faults /\ \A p \in Pollers : intake'[p] = Free
      /\ intake' = [p \in Pollers |-> Free] /\ cycle' = {}
      /\ UNCHANGED <<orun, thread, claims, stored, applied, replies>>
  BY DEF ApiDies
<1>2. deaths' \in 0..MaxDeaths
  BY RepliesAssumption DEF ApiDies, ReplyInv, ReplyTypes
<1>3. intake' \in [Pollers -> Progress]
  BY <1>1, FreePoller
<1>4. /\ follow \in [Letters -> {"absent", "pending", "completed", "failed", "outcome_unknown"}]
      /\ sends \in [Letters -> Nat]
  BY DEF ReplyInv, ReplyTypes
<1>5. /\ follow' \in [Letters -> {"absent", "pending", "completed", "failed", "outcome_unknown"}]
      /\ sends' \in [Letters -> Nat] /\ SentOnce'
  <2>1. CASE UNCHANGED <<follow, sends>>
    BY <1>4, <2>1 DEF ReplyInv, SentOnce
  <2>2. ASSUME NEW p \in Pollers, intake[p].pc = "follow", Asks(p), Sendable(follow[Letter(p)]),
               follow' = [follow EXCEPT ![Letter(p)] = "pending"],
               sends' \in {sends, [sends EXCEPT ![Letter(p)] = @ + 1]}
        PROVE  /\ follow' \in [Letters -> {"absent", "pending", "completed", "failed", "outcome_unknown"}]
               /\ sends' \in [Letters -> Nat] /\ SentOnce'
    <3>1. PICK l \in Letters : l = Letter(p) /\ l[2] = intake[p].msg
      BY <2>2, WorkedLetter DEF Working, Letter
    <3>2. follow[l] \in {"absent", "failed"} /\ l[2] <= MaxRounds
      BY <2>2, <3>1 DEF Asks, Sendable
    <3>3. follow' = [follow EXCEPT ![l] = "pending"]
          /\ (sends' = sends \/ sends' = [sends EXCEPT ![l] = sends[l] + 1])
      BY <2>2, <3>1
    <3> QED BY <1>4, <3>2, <3>3 DEF ReplyInv, SentOnce
  <2> QED BY <2>1, <2>2 DEF ApiDies
<1>6. ReplyTypes'
  BY <1>1, <1>2, <1>3, <1>5 DEF ReplyInv, ReplyTypes
<1>7. RunLock' /\ ClaimedWork'
  BY <1>1, FreePoller DEF RunLock, ClaimedWork, Working
<1>8. StoredWithClaim' /\ AppliedIsCompleted'
  BY <1>1 DEF ReplyInv, StoredWithClaim, AppliedIsCompleted
<1> QED BY <1>5, <1>6, <1>7, <1>8 DEF ReplyInv

\* The inductive step, one case per action.
LEMMA ReplyInvNext == ReplyInv /\ [ONext]_replyVars => ReplyInv'
<1> SUFFICES ASSUME ReplyInv, [ONext]_replyVars PROVE ReplyInv'
  OBVIOUS
<1>1. CASE UNCHANGED replyVars
  <2>1. UNCHANGED <<orun, thread, claims, intake, cycle, follow, sends, stored, applied, deaths, replies>>
    BY <1>1 DEF replyVars
  <2>2. ReplyTypes' /\ RunLock' /\ ClaimedWork'
    BY <2>1 DEF ReplyInv, ReplyTypes, RunLock, ClaimedWork, Letter
  <2>3. SentOnce' /\ StoredWithClaim' /\ AppliedIsCompleted'
    BY <2>1 DEF ReplyInv, SentOnce, StoredWithClaim, AppliedIsCompleted, Letter
  <2> QED BY <2>2, <2>3 DEF ReplyInv
<1>2. ASSUME NEW r \in Outreach, VendorReplies(r) PROVE ReplyInv'
  BY <1>2, VendorPreserves
<1>3. ASSUME NEW r \in Outreach, OperatorPolls(r) PROVE ReplyInv'
  <2>1. "operator" \in Pollers /\ cycle' \subseteq Outreach
    BY <1>3 DEF Pollers, OperatorPolls, ReplyInv, ReplyTypes
  <2> QED BY <1>3, <2>1, TakesPreserves DEF OperatorPolls
<1>4. CASE CycleNext
  <2>1. PICK r \in cycle : Takes("poller", r) /\ cycle' = cycle \ {r}
    BY <1>4 DEF CycleNext
  <2>2. "poller" \in Pollers /\ r \in Outreach /\ cycle' \subseteq Outreach
    BY <2>1 DEF Pollers, ReplyInv, ReplyTypes
  <2> QED BY <1>4, <2>1, <2>2, TakesPreserves DEF CycleNext
<1>5. CASE BeginCycle
  BY <1>5, CyclePreserves
<1>6. CASE ApiDies
  BY <1>6, DeathPreserves
<1>7. ASSUME NEW p \in Pollers, Intake(p) PROVE ReplyInv'
  BY <1>7, ClaimReplyPreserves, FollowUpPreserves, CommitPreserves, EndPreserves DEF Intake
<1>8. ASSUME NEW l \in Letters, IngestionLapses(l) PROVE ReplyInv'
  BY <1>8, IngestionLapsePreserves
<1> QED BY <1>1, <1>2, <1>3, <1>4, <1>5, <1>6, <1>7, <1>8 DEF ONext

\* The inductive invariant gives what the run checks.
LEMMA ReplyInvImplies == ReplyInv => RepliesSafety
<1> SUFFICES ASSUME ReplyInv PROVE RepliesSafety
  OBVIOUS
<1>1. OTypeOK
  <2>1. ASSUME NEW p \in Pollers
        PROVE  /\ intake[p].pc \in {"idle", "read", "follow", "commit", "complete"}
               /\ intake[p].pc # "idle" => \A q \in Pollers \ {p} : intake[q].run # intake[p].run
               /\ intake[p].pc \in {"follow", "commit", "complete"} =>
                    claims[<<intake[p].run, intake[p].msg>>].st = "processing"
    <3>1. intake[p].pc \in {"idle", "read", "follow", "commit", "complete"}
      BY DEF ReplyInv, ReplyTypes, Progress
    <3>2. intake[p].pc # "idle" => \A q \in Pollers \ {p} : intake[q].run # intake[p].run
      BY DEF ReplyInv, RunLock
    <3>3. intake[p].pc \in {"follow", "commit", "complete"} =>
             claims[<<intake[p].run, intake[p].msg>>].st = "processing"
      BY DEF ReplyInv, ClaimedWork, Letter, Working
    <3> QED BY <3>1, <3>2, <3>3
  <2> QED BY <2>1 DEF OTypeOK, ReplyInv, ReplyTypes
<1>2. FollowUpsAreBounded
  <2>1. \A l \in Letters : sends[l] <= 1 /\ (sends[l] = 1 => l[2] <= MaxRounds)
    BY DEF ReplyInv, SentOnce
  <2>2. ASSUME NEW r \in Outreach
        PROVE  Cardinality({l \in Letters : l[1] = r /\ sends[l] > 0}) <= MaxRounds
    <3> DEFINE S == {l \in Letters : l[1] = r /\ sends[l] > 0}
               f == [l \in S |-> l[2]]
    <3>1. \A l \in S : l[2] \in 1..MaxRounds
      <4> SUFFICES ASSUME NEW l \in Letters, sends[l] > 0 PROVE l[2] \in 1..MaxRounds
        OBVIOUS
      <4>1. sends[l] \in Nat /\ l[2] \in 1..MaxReplies
        BY DEF ReplyInv, ReplyTypes, Letters
      <4> QED BY <2>1, <4>1, RepliesAssumption
    <3>2. \A l, m \in S : l[2] = m[2] => l = m
      BY DEF Letters
    <3>3. f \in Injection(S, 1..MaxRounds)
      BY <3>1, <3>2 DEF Injection, IsInjective
    <3>4. IsFiniteSet(1..MaxRounds) /\ Cardinality(1..MaxRounds) = MaxRounds
      BY FS_Interval, RepliesAssumption
    <3>5. Cardinality(S) <= Cardinality(1..MaxRounds)
      <4> HIDE DEF S, f
      <4> QED BY <3>3, <3>4, FS_Injection
    <3> QED BY <3>4, <3>5
  <2> QED BY <2>1, <2>2 DEF FollowUpsAreBounded
<1>3. CredentialsStoredOnce
  <2>1. \A l \in Letters : stored[l] <= 1
    BY DEF ReplyInv, StoredWithClaim
  <2>2. \A r \in Outreach : orun[r] = "completed" =>
          \E i \in 1..Len(thread[r]) : thread[r][i] = "credentials" /\ stored[<<r, i>>] = 1
    BY DEF ReplyInv, StoredWithClaim
  <2> QED BY <2>1, <2>2 DEF CredentialsStoredOnce
<1>4. AppliedOnce
  BY DEF ReplyInv, AppliedIsCompleted, AppliedOnce
<1> QED BY <1>1, <1>2, <1>3, <1>4 DEF RepliesSafety

\* For any number of waiting runs and replies, any rounds and any death: a question
\* is followed up once and within the rounds, a reply's credentials are vaulted
\* once, and before a run completes on them, and a reply is applied once.
THEOREM RepliesAreSafe == OSpec => []RepliesSafety
<1>1. OSpec => []ReplyInv
  BY ReplyInvInit, ReplyInvNext, PTL DEF OSpec
<1> QED BY <1>1, ReplyInvImplies, PTL
=============================================================================
