---------------------------- MODULE EffectLedger ----------------------------
(* The reservation ledger for external side effects                           *)
(* (ops/core/effect_ledger.py, SQLiteEffectStore), and the planner that reads *)
(* it (ops/onboarding/effects.py).                                            *)
(*                                                                            *)
(* The ledger is one SQLite table, effect_key -> (status, receipt_json).      *)
(* Every verb is one BEGIN IMMEDIATE transaction on one row, so a verb is     *)
(* modelled as an operator from the row before to the row after, and a step   *)
(* of a caller applies exactly one of them atomically.  A verb that raises    *)
(* RuntimeError rolls back and leaves the row alone.                          *)
(*                                                                            *)
(* There is no owner column: the ledger cannot tell one caller from another.  *)

CONSTANTS
    Receipts,       \* sanitized receipts a caller may record
    NoReceipt       \* receipt_json IS NULL

ASSUME ReceiptAssumption == NoReceipt \notin Receipts

\* The CHECK constraint on external_effects.status, plus "absent" for no row.
RowStatus == {"absent", "pending", "completed", "outcome_unknown", "failed"}

Row == [status : RowStatus, receipt : Receipts \cup {NoReceipt}]

NoRow == [status |-> "absent", receipt |-> NoReceipt]

-----------------------------------------------------------------------------
(* reserve: what the caller is told, and what the row becomes.                *)

\* Mutants: an ambiguous row is handed out for a resend; a settled row is
\* re-armed.
ReserveStatusResends(r) ==
    IF r.status = "completed" THEN "completed"
    ELSE IF r.status = "pending" THEN "reconcile_required"
    ELSE "reserved"

ReserveRowRearms(r) ==
    IF r.status # "pending" THEN [status |-> "pending", receipt |-> NoReceipt] ELSE r

ReserveStatus(r) ==
    IF r.status \in {"absent", "failed"} THEN "reserved"
    ELSE IF r.status = "completed" THEN "completed"
    ELSE "reconcile_required"

ReserveRow(r) ==
    IF r.status \in {"absent", "failed"}
    THEN [status |-> "pending", receipt |-> NoReceipt]
    ELSE r

-----------------------------------------------------------------------------
(* _transition: the compare-and-set under complete, mark_outcome_unknown and  *)
(* mark_failed.  Repeating a transition that already took effect is accepted. *)

TransitionAccepted(r, from, to, receipt) ==
    \/ r.status = to /\ r.receipt = receipt
    \/ r.status = from

TransitionRow(r, from, to, receipt) ==
    IF TransitionAccepted(r, from, to, receipt)
    THEN [status |-> to, receipt |-> receipt]
    ELSE r

CompleteAccepted(r, receipt) == TransitionAccepted(r, "pending", "completed", receipt)
CompleteRow(r, receipt) == TransitionRow(r, "pending", "completed", receipt)

MarkAccepted(r, to) == TransitionAccepted(r, "pending", to, NoReceipt)
MarkOutcomeUnknownRow(r) == TransitionRow(r, "pending", "outcome_unknown", NoReceipt)
MarkFailedRow(r) == TransitionRow(r, "pending", "failed", NoReceipt)

\* Mutant: an ambiguous outcome cannot be reconciled.
ReconcileAcceptedPending(r, receipt) ==
    r.status = "pending" \/ (r.status = "completed" /\ r.receipt = receipt)

(* reconcile_completed also closes an outcome_unknown row. *)
ReconcileAccepted(r, receipt) ==
    \/ r.status = "completed" /\ r.receipt = receipt
    \/ r.status \in {"pending", "outcome_unknown"}

ReconcileCompletedRow(r, receipt) ==
    IF ReconcileAccepted(r, receipt)
    THEN [status |-> "completed", receipt |-> receipt]
    ELSE r

-----------------------------------------------------------------------------
(* plan_for_reservation: the disposition a reservation result authorizes.     *)
PlanForReservation(status) ==
    IF status = "completed" THEN "skip"
    ELSE IF status = "reconcile_required" THEN "reconcile"
    ELSE "execute"

PlanEffect(r) == PlanForReservation(ReserveStatus(r))
=============================================================================
