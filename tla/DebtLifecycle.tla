--------------------------- MODULE DebtLifecycle ---------------------------
(***************************************************************************)
(* One debt row as app/debt/contracts.py (DebtAggregate) lets it evolve:   *)
(* the columns of the row, the posted total of its payment ledger, and one *)
(* action per transition method.  Who calls a transition, in which         *)
(* transaction and with which locks is left to the modules that implement  *)
(* this one; a transition whose caller captured its instant before it took *)
(* the row lock has that instant as a parameter, so it may be stale.       *)
(*                                                                         *)
(* The checks the aggregate makes on the value it has just built           *)
(* (__post_init__ and the _validate_* methods) are not guards here: the    *)
(* invariants LedgerCoherent and RowLoads show that no lawful              *)
(* sequence of transitions can be refused by them.                         *)
(***************************************************************************)
EXTENDS Integers

CONSTANTS
    OriginalAmount,    \* original_amount_uzs, owed once the debt is overdue
    DiscountedAmount,  \* discounted_amount_uzs, owed until then
    DueDate,           \* due_date, a business date
    PendingTTL,        \* PENDING_DEBT_TTL, in instants
    MaxNow,            \* bound: the clock stops there
    MaxRevision,       \* bound: no payment or void beyond this revision
    BusinessDate(_)    \* tashkent_business_date: instant -> business date

Instants == 0..(MaxNow + PendingTTL)

Unset == -1

ASSUME AmountAssumption ==
    /\ OriginalAmount \in Nat \ {0}
    /\ DiscountedAmount \in 1..OriginalAmount

\* A business date is some function of the instant that never runs backwards.
ASSUME ClockAssumption ==
    /\ MaxNow \in Nat
    /\ PendingTTL \in Nat \ {0}
    /\ MaxRevision \in Nat
    /\ DueDate \in Nat
    /\ \A t \in Instants : BusinessDate(t) \in Nat
    /\ \A s, t \in Instants : s <= t => BusinessDate(s) <= BusinessDate(t)

VARIABLES
    now,                 \* the server clock
    status, revision,
    posted,              \* sum of the non-voided payments of the debt
    createdAt, updatedAt, acceptedAt, paidAt,
    overdueAt, overdueRevision,
    writtenOffAt, writtenOffRevision,
    settledAt, settledRevision

marks == <<acceptedAt, overdueAt, overdueRevision, writtenOffAt, writtenOffRevision>>
closing == <<paidAt, settledAt, settledRevision>>
vars == <<now, status, revision, posted, createdAt, updatedAt, marks, closing>>

Statuses == {"pending", "active", "rejected", "cancelled", "expired", "paid",
             "overdue", "written_off", "written_off_settled"}

Init ==
    /\ now = 0
    /\ status = "absent"
    /\ revision = 0
    /\ posted = 0
    /\ createdAt = Unset
    /\ updatedAt = Unset
    /\ acceptedAt = Unset
    /\ paidAt = Unset
    /\ overdueAt = Unset
    /\ overdueRevision = Unset
    /\ writtenOffAt = Unset
    /\ writtenOffRevision = Unset
    /\ settledAt = Unset
    /\ settledRevision = Unset

-----------------------------------------------------------------------------
(* Guards shared by the transitions.                                       *)

PendingExpiresAt == createdAt + PendingTTL

Payable(t) == BusinessDate(t) <= DueDate        \* is_payment_due_date_payable

UnexpiredPending(t) == status = "pending" /\ t < PendingExpiresAt

\* An instant a caller may still hold when it finally owns the row.
Captured(t) == t \in createdAt..now

\* Mutant: an overdue debt is charged in full again, payments forgotten.
RemainingForgetsOverduePayments ==
    CASE status = "active" -> DiscountedAmount - posted
      [] status \in {"overdue", "written_off"} -> OriginalAmount
      [] OTHER -> 0

Remaining ==
    CASE status = "active" -> DiscountedAmount - posted
      [] status \in {"overdue", "written_off"} -> OriginalAmount - posted
      [] OTHER -> 0

\* One transition: a new revision stamped with the instant of its transaction.
Stamp(newStatus, t) ==
    /\ status' = newStatus
    /\ revision' = revision + 1
    /\ updatedAt' = t
    /\ UNCHANGED <<now, createdAt>>

-----------------------------------------------------------------------------
(* Proposal: create_pending, accept, reject, cancel, expire.               *)

CreatePending(t) ==
    /\ status = "absent"
    /\ t \in 0..now
    /\ BusinessDate(t + PendingTTL) <= DueDate
    /\ status' = "pending"
    /\ revision' = 1
    /\ createdAt' = t
    /\ updatedAt' = t
    /\ UNCHANGED <<now, posted, marks, closing>>

Accept ==
    /\ UnexpiredPending(now)
    /\ Payable(now)
    /\ Stamp("active", now)
    /\ acceptedAt' = now
    /\ UNCHANGED <<posted, overdueAt, overdueRevision, writtenOffAt, writtenOffRevision, closing>>

Reject(t) ==
    /\ UnexpiredPending(t)
    /\ Captured(t)
    /\ Stamp("rejected", t)
    /\ UNCHANGED <<posted, marks, closing>>

Cancel(t) ==
    /\ UnexpiredPending(t)
    /\ Captured(t)
    /\ Stamp("cancelled", t)
    /\ UNCHANGED <<posted, marks, closing>>

Expire(t) ==
    /\ status = "pending"
    /\ Captured(t)
    /\ t >= PendingExpiresAt
    /\ Stamp("expired", t)
    /\ UNCHANGED <<posted, marks, closing>>

-----------------------------------------------------------------------------
(* Repayment: record_payment, mark_overdue, and the late payment that does *)
(* both in one transaction.                                                *)

PaidIfFull(amount, owed) == IF amount = owed THEN "paid" ELSE status

RecordPayment(amount) ==
    /\ \/ status = "active" /\ Payable(now)
       \/ status = "overdue"
    /\ revision < MaxRevision
    /\ amount \in 1..Remaining
    /\ Stamp(PaidIfFull(amount, Remaining), now)
    /\ posted' = posted + amount
    /\ paidAt' = IF amount = Remaining THEN now ELSE Unset
    /\ UNCHANGED <<marks, settledAt, settledRevision>>

\* Mutant: the overdue transition does not look at the status under the lock.
PastDueStatusUnchecked(t) == status \in {"active", "paid"} /\ ~Payable(t)

PastDueActive(t) == status = "active" /\ ~Payable(t)

MarkOverdue(t) ==
    /\ PastDueActive(t)
    /\ t \in 0..now
    /\ Stamp("overdue", t)
    /\ overdueAt' = t
    /\ overdueRevision' = revision + 1
    /\ UNCHANGED <<posted, acceptedAt, writtenOffAt, writtenOffRevision, closing>>

\* Mutant: the late payment is compared with the discounted balance the form
\* was opened with.
LatePaymentOnDiscount(amount) ==
    /\ PastDueActive(now)
    /\ revision < MaxRevision
    /\ amount \in 1..(DiscountedAmount - posted)
    /\ status' = IF amount = DiscountedAmount - posted THEN "paid" ELSE "overdue"
    /\ revision' = revision + 2
    /\ posted' = posted + amount
    /\ updatedAt' = now
    /\ overdueAt' = now
    /\ overdueRevision' = revision + 1
    /\ paidAt' = IF amount = DiscountedAmount - posted THEN now ELSE Unset
    /\ UNCHANGED <<now, createdAt, acceptedAt, writtenOffAt, writtenOffRevision,
                   settledAt, settledRevision>>

LatePayment(amount) ==
    /\ PastDueActive(now)
    /\ revision < MaxRevision
    /\ amount \in 1..(OriginalAmount - posted)
    /\ status' = IF amount = OriginalAmount - posted THEN "paid" ELSE "overdue"
    /\ revision' = revision + 2
    /\ posted' = posted + amount
    /\ updatedAt' = now
    /\ overdueAt' = now
    /\ overdueRevision' = revision + 1
    /\ paidAt' = IF amount = OriginalAmount - posted THEN now ELSE Unset
    /\ UNCHANGED <<now, createdAt, acceptedAt, writtenOffAt, writtenOffRevision,
                   settledAt, settledRevision>>

-----------------------------------------------------------------------------
(* Write-off, recovery, and the reopening that a payment void performs.    *)

MarkWrittenOff ==
    /\ status = "overdue"
    /\ posted < OriginalAmount
    /\ now >= overdueAt
    /\ Stamp("written_off", now)
    /\ writtenOffAt' = now
    /\ writtenOffRevision' = revision + 1
    /\ UNCHANGED <<posted, acceptedAt, overdueAt, overdueRevision, closing>>

RecordRecovery(amount) ==
    /\ status = "written_off"
    /\ revision < MaxRevision
    /\ amount \in 1..Remaining
    /\ now >= writtenOffAt
    /\ posted' = posted + amount
    /\ IF amount = Remaining
       THEN /\ Stamp("written_off_settled", now)
            /\ settledAt' = now
            /\ settledRevision' = revision + 1
       ELSE Stamp(status, now) /\ UNCHANGED <<settledAt, settledRevision>>
    /\ UNCHANGED <<marks, paidAt>>

\* Mutant: reopening past the due date always writes fresh overdue markers.
ReopensOverdueRewrites == status = "paid" /\ ~Payable(now)

\* A paid debt that was never overdue and is reopened after its due date
\* becomes overdue in the same step.
ReopensOverdue == status = "paid" /\ overdueRevision = Unset /\ ~Payable(now)

ReopenedStatus ==
    CASE status = "paid" /\ (overdueRevision # Unset \/ ~Payable(now)) -> "overdue"
      [] status = "paid" /\ overdueRevision = Unset /\ Payable(now) -> "active"
      [] status = "written_off_settled" -> "written_off"
      [] OTHER -> status

ReopenAfterVoid(amount) ==
    /\ status \in {"active", "overdue", "written_off", "paid", "written_off_settled"}
    /\ revision < MaxRevision
    /\ amount \in 1..posted
    /\ now >= updatedAt
    /\ Stamp(ReopenedStatus, now)
    /\ posted' = posted - amount
    /\ overdueAt' = IF ReopensOverdue THEN now ELSE overdueAt
    /\ overdueRevision' = IF ReopensOverdue THEN revision + 1 ELSE overdueRevision
    /\ paidAt' = Unset
    /\ settledAt' = Unset
    /\ settledRevision' = Unset
    /\ UNCHANGED <<acceptedAt, writtenOffAt, writtenOffRevision>>

-----------------------------------------------------------------------------
Tick ==
    /\ now < MaxNow
    /\ now' = now + 1
    /\ UNCHANGED <<status, revision, posted, createdAt, updatedAt, marks, closing>>

Amounts == 1..OriginalAmount

Next ==
    \/ \E t \in 0..MaxNow :
        CreatePending(t) \/ Reject(t) \/ Cancel(t) \/ Expire(t) \/ MarkOverdue(t)
    \/ \E amount \in Amounts :
        \/ RecordPayment(amount)
        \/ LatePayment(amount)
        \/ RecordRecovery(amount)
        \/ ReopenAfterVoid(amount)
    \/ Accept
    \/ MarkWrittenOff
    \/ Tick

Spec == Init /\ [][Next]_vars

\* The same row watched from the step that accepted it: what a module that
\* models only the repayment of accepted debts has to implement.
AcceptedInit ==
    /\ now = 0
    /\ status = "active"
    /\ revision = 2
    /\ posted = 0
    /\ createdAt = 0
    /\ updatedAt = 0
    /\ acceptedAt = 0
    /\ paidAt = Unset
    /\ overdueAt = Unset
    /\ overdueRevision = Unset
    /\ writtenOffAt = Unset
    /\ writtenOffRevision = Unset
    /\ settledAt = Unset
    /\ settledRevision = Unset
    /\ Payable(0)

AcceptedSpec == AcceptedInit /\ [][Next]_vars

-----------------------------------------------------------------------------
(* Properties.                                                             *)

PastOrUnset == (0..now) \cup {Unset}

\* Type invariant: the columns of app/debt/models.py and their ranges.
TypeOK ==
    /\ now \in 0..MaxNow
    /\ status \in Statuses \cup {"absent"}
    /\ revision \in Nat
    /\ posted \in 0..OriginalAmount
    /\ createdAt \in PastOrUnset
    /\ updatedAt \in PastOrUnset
    /\ acceptedAt \in PastOrUnset
    /\ paidAt \in PastOrUnset
    /\ overdueAt \in PastOrUnset
    /\ writtenOffAt \in PastOrUnset
    /\ settledAt \in PastOrUnset
    /\ overdueRevision \in Nat \cup {Unset}
    /\ writtenOffRevision \in Nat \cup {Unset}
    /\ settledRevision \in Nat \cup {Unset}

\* The posted total always agrees with the status, as payment/values.py
\* demands of every ledger it reads: an undecided or refused debt has no
\* payment, a repayable one still owes something on its own basis, and a paid
\* one has received exactly the discounted amount if it was never overdue and
\* exactly the original amount if it was.
LedgerCoherent ==
    /\ status \in {"absent", "pending", "rejected", "cancelled", "expired"} => posted = 0
    /\ status = "active" => posted < DiscountedAmount
    /\ status \in {"overdue", "written_off"} => posted < OriginalAmount
    /\ status = "paid" =>
         posted = IF overdueRevision = Unset THEN DiscountedAmount ELSE OriginalAmount
    /\ status = "written_off_settled" => posted = OriginalAmount

Accepted == status \in {"active", "overdue", "paid", "written_off", "written_off_settled"}
WrittenOff == status \in {"written_off", "written_off_settled"}

InLifetime(t) == t # Unset => createdAt <= t /\ t <= updatedAt

\* Every status carries exactly the evidence columns it needs, in strictly
\* increasing revisions and never-decreasing instants, although rejections,
\* cancellations, expiries and the overdue batch write instants captured
\* before they owned the row (DebtAggregate.__post_init__ and its
\* _validate_lifecycle_timestamps and _validate_write_off_metadata).
EvidenceChain ==
    /\ status = "absent" <=> createdAt = Unset
    /\ status = "absent" <=> revision = 0
    /\ createdAt <= updatedAt
    /\ Accepted <=> acceptedAt # Unset
    /\ WrittenOff <=> writtenOffAt # Unset
    /\ status = "paid" <=> paidAt # Unset
    /\ status = "written_off_settled" <=> settledAt # Unset
    /\ status \in {"overdue", "written_off", "written_off_settled"} => overdueAt # Unset
    /\ overdueAt = Unset <=> overdueRevision = Unset
    /\ writtenOffAt = Unset <=> writtenOffRevision = Unset
    /\ settledAt = Unset <=> settledRevision = Unset
    /\ overdueAt # Unset =>
         /\ status \in {"overdue", "paid"} \/ WrittenOff
         /\ acceptedAt <= overdueAt
         /\ overdueRevision <= revision
         /\ status = "paid" => overdueRevision < revision /\ overdueAt <= paidAt
    /\ paidAt # Unset => acceptedAt <= paidAt
    /\ writtenOffAt # Unset =>
         /\ overdueAt <= writtenOffAt
         /\ overdueRevision < writtenOffRevision
         /\ writtenOffRevision <= revision
    /\ settledAt # Unset =>
         /\ writtenOffAt <= settledAt
         /\ writtenOffRevision < settledRevision
         /\ settledRevision = revision
    /\ InLifetime(acceptedAt) /\ InLifetime(paidAt) /\ InLifetime(overdueAt)
    /\ InLifetime(writtenOffAt) /\ InLifetime(settledAt)
    /\ acceptedAt # Unset => Payable(acceptedAt)

\* Overdue and write-off evidence, once written, is never rewritten or
\* cleared by a later payment, void, recovery or write-off, and no step
\* changes a debt without consuming a revision: what a receipt or a rating
\* event was derived from stays derivable.
KeepsEvidence ==
    /\ overdueRevision # Unset =>
          overdueRevision' = overdueRevision /\ overdueAt' = overdueAt
    /\ writtenOffRevision # Unset =>
          writtenOffRevision' = writtenOffRevision /\ writtenOffAt' = writtenOffAt
    /\ acceptedAt # Unset => acceptedAt' = acceptedAt
    /\ revision' >= revision
    /\ revision' = revision =>
          UNCHANGED <<status, posted, createdAt, updatedAt, marks, closing>>

EvidencePermanent == [][KeepsEvidence]_vars
=============================================================================
