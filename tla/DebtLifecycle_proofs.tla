----------------------- MODULE DebtLifecycle_proofs -----------------------
(***************************************************************************)
(* Proofs about DebtLifecycle and DebtRow, for every amount, due date,     *)
(* proposal time to live, calendar and bound that satisfy the assumptions. *)
(*                                                                         *)
(* The three invariants are inductive only together: the types bound the   *)
(* instants the other two compare, the ledger's agreement with the status  *)
(* keeps the posted total in range when a payment is voided, and the       *)
(* evidence chain tells which basis a paid debt was paid on.               *)
(***************************************************************************)
EXTENDS DebtRow, TLAPS

IInv == TypeOK /\ LedgerCoherent /\ EvidenceChain

USE DEF Unset

\* The initial state, before the proposal exists, satisfies the invariant.
LEMMA InitInv == Init => IInv
BY AmountAssumption, ClockAssumption
   DEF Init, IInv, TypeOK, LedgerCoherent, EvidenceChain, PastOrUnset, InLifetime,
       Accepted, WrittenOff, Statuses

\* An instant past the due date is later than an acceptance, whichever clock
\* reading the overdue batch carries: acceptance happened on or before the due
\* date and business dates do not run backwards.
LEMMA PastDueAfterAcceptance ==
    ASSUME IInv, NEW t \in 0..now, acceptedAt # Unset, ~Payable(t)
    PROVE  acceptedAt <= t
<1> acceptedAt \in 0..now /\ now \in 0..MaxNow
    BY DEF IInv, TypeOK, PastOrUnset
<1> acceptedAt \in Instants /\ t \in Instants
    BY ClockAssumption DEF Instants
<1> BusinessDate(acceptedAt) <= DueDate /\ ~(BusinessDate(t) <= DueDate)
    BY DEF IInv, EvidenceChain, Payable
<1> QED
    BY ClockAssumption

\* The proposal transitions leave the ledger alone and set no evidence but the
\* acceptance, which the due date check dates on or before the due date.
LEMMA ProposalStep ==
    ASSUME IInv, NEW t \in 0..MaxNow,
           CreatePending(t) \/ Accept \/ Reject(t) \/ Cancel(t) \/ Expire(t)
    PROVE  IInv'
<1> USE AmountAssumption, ClockAssumption
        DEF TypeOK, LedgerCoherent, EvidenceChain, PastOrUnset, InLifetime,
            Accepted, WrittenOff, Statuses, marks, closing
<1>1. CASE CreatePending(t)
    BY <1>1 DEF CreatePending, IInv
<1>2. CASE Accept
    BY <1>2 DEF Accept, UnexpiredPending, Stamp, Payable, IInv
<1>3. CASE Reject(t)
    BY <1>3 DEF Reject, UnexpiredPending, Captured, Stamp, Payable, IInv
<1>4. CASE Cancel(t)
    BY <1>4 DEF Cancel, UnexpiredPending, Captured, Stamp, Payable, IInv
<1>5. CASE Expire(t)
    BY <1>5 DEF Expire, Captured, Stamp, Payable, IInv
<1> QED
    BY <1>1, <1>2, <1>3, <1>4, <1>5

\* A payment never takes the posted total past what its basis still owes, and
\* only an exact payment closes the debt.
LEMMA PaymentStep ==
    ASSUME IInv, NEW amount \in Amounts,
           RecordPayment(amount) \/ LatePayment(amount) \/ RecordRecovery(amount)
    PROVE  IInv'
<1> USE AmountAssumption, ClockAssumption
        DEF IInv, TypeOK, LedgerCoherent, EvidenceChain, PastOrUnset, InLifetime,
            Accepted, WrittenOff, Statuses, marks, closing, Amounts, Payable
<1>1. CASE RecordPayment(amount)
    BY <1>1 DEF RecordPayment, PaidIfFull, Remaining, Stamp
<1>2. CASE LatePayment(amount)
    BY <1>2 DEF LatePayment, PastDueActive
<1>3. CASE RecordRecovery(amount)
    BY <1>3 DEF RecordRecovery, Remaining, Stamp
<1> QED
    BY <1>1, <1>2, <1>3

\* The overdue transition may write an instant from before the last update of
\* the row; the acceptance it must follow is still earlier.
LEMMA OverdueStep ==
    ASSUME IInv, NEW t \in 0..MaxNow, MarkOverdue(t)
    PROVE  IInv'
<1>1. status = "active" /\ acceptedAt # Unset /\ t \in 0..now /\ ~Payable(t)
    BY DEF MarkOverdue, PastDueActive, IInv, EvidenceChain, Accepted
<1>2. acceptedAt <= t
    BY <1>1, PastDueAfterAcceptance
<1> QED
    BY <1>1, <1>2, AmountAssumption, ClockAssumption
       DEF MarkOverdue, Stamp, IInv, TypeOK, LedgerCoherent, EvidenceChain,
           PastOrUnset, InLifetime, Accepted, WrittenOff, Statuses, marks, closing, Payable

\* Write-off follows the overdue evidence and leaves the ledger alone.
LEMMA WriteOffStep ==
    ASSUME IInv, MarkWrittenOff
    PROVE  IInv'
BY AmountAssumption, ClockAssumption
   DEF MarkWrittenOff, Stamp, IInv, TypeOK, LedgerCoherent, EvidenceChain,
       PastOrUnset, InLifetime, Accepted, WrittenOff, Statuses, marks, closing, Payable

\* A void takes a positive amount out of the ledger, so whatever status it
\* restores still owes something on its basis.
LEMMA ReopenStep ==
    ASSUME IInv, NEW amount \in Amounts, ReopenAfterVoid(amount)
    PROVE  IInv'
<1> USE AmountAssumption, ClockAssumption
        DEF IInv, TypeOK, LedgerCoherent, EvidenceChain, PastOrUnset, InLifetime,
            Accepted, WrittenOff, Statuses, marks, closing, Amounts, Payable,
            ReopenAfterVoid, ReopenedStatus, ReopensOverdue, Stamp
<1>1. CASE status = "paid" /\ overdueRevision # Unset
    BY <1>1
<1>2. CASE status = "paid" /\ overdueRevision = Unset /\ Payable(now)
    BY <1>2
<1>3. CASE status = "paid" /\ overdueRevision = Unset /\ ~Payable(now)
    BY <1>3
<1>4. CASE status = "written_off_settled"
    BY <1>4
<1>5. CASE status \in {"active", "overdue", "written_off"}
    BY <1>5
<1> QED
    BY <1>1, <1>2, <1>3, <1>4, <1>5

\* The clock alone disturbs nothing.
LEMMA TickStep ==
    ASSUME IInv, Tick
    PROVE  IInv'
BY AmountAssumption, ClockAssumption
   DEF Tick, IInv, TypeOK, LedgerCoherent, EvidenceChain, PastOrUnset, InLifetime,
       Accepted, WrittenOff, Statuses, marks, closing, Payable

\* Every transition of the aggregate keeps the invariant.
LEMMA NextInv == IInv /\ [Next]_vars => IInv'
<1> SUFFICES ASSUME IInv, [Next]_vars PROVE IInv'
    OBVIOUS
<1>1. ASSUME NEW t \in 0..MaxNow,
             CreatePending(t) \/ Reject(t) \/ Cancel(t) \/ Expire(t)
      PROVE  IInv'
    BY <1>1, ProposalStep
<1>2. CASE Accept
    BY <1>2, ProposalStep, ClockAssumption
<1>3. ASSUME NEW t \in 0..MaxNow, MarkOverdue(t) PROVE IInv'
    BY <1>3, OverdueStep
<1>4. ASSUME NEW amount \in Amounts,
             RecordPayment(amount) \/ LatePayment(amount) \/ RecordRecovery(amount)
      PROVE  IInv'
    BY <1>4, PaymentStep
<1>5. ASSUME NEW amount \in Amounts, ReopenAfterVoid(amount) PROVE IInv'
    BY <1>5, ReopenStep
<1>6. CASE MarkWrittenOff
    BY <1>6, WriteOffStep
<1>7. CASE Tick
    BY <1>7, TickStep
<1>8. CASE UNCHANGED vars
    BY <1>8 DEF vars, marks, closing, IInv, TypeOK, LedgerCoherent, EvidenceChain,
       PastOrUnset, InLifetime, Accepted, WrittenOff, Statuses, Payable
<1> QED
    BY <1>1, <1>2, <1>3, <1>4, <1>5, <1>6, <1>7, <1>8 DEF Next

\* The inductive invariant holds throughout every behaviour.
THEOREM Invariance == Spec => []IInv
BY InitInv, NextInv, PTL DEF Spec

\* Every column keeps its range in every behaviour of a debt row.
THEOREM TypeCorrect == Spec => []TypeOK
<1>1. IInv => TypeOK
    BY DEF IInv
<1> QED
    BY <1>1, Invariance, PTL

\* The posted total always agrees with the status: no sequence of payments,
\* voids, write-offs and overdue transitions closes a debt short of what its
\* basis owes or leaves a repayable debt owing nothing.
THEOREM LedgerCorrect == Spec => []LedgerCoherent
<1>1. IInv => LedgerCoherent
    BY DEF IInv
<1> QED
    BY <1>1, Invariance, PTL

\* The aggregate's own validation can never refuse a transition: the evidence
\* columns of every reachable row are present, ordered and dated as it demands.
THEOREM EvidenceCorrect == Spec => []EvidenceChain
<1>1. IInv => EvidenceChain
    BY DEF IInv
<1> QED
    BY <1>1, Invariance, PTL

\* A debt is marked overdue, or written off, only where the chain says it has
\* never been so before.
LEMMA StepKeepsEvidence == IInv /\ [Next]_vars => [KeepsEvidence]_vars
<1> SUFFICES ASSUME IInv, Next PROVE KeepsEvidence
    OBVIOUS
<1> USE DEF IInv, TypeOK, EvidenceChain, PastOrUnset, Accepted, WrittenOff,
        KeepsEvidence, marks, closing
<1>1. ASSUME NEW t \in 0..MaxNow,
             CreatePending(t) \/ Reject(t) \/ Cancel(t) \/ Expire(t) \/ MarkOverdue(t)
      PROVE  KeepsEvidence
    BY <1>1 DEF CreatePending, Reject, Cancel, Expire, MarkOverdue, PastDueActive,
       UnexpiredPending, Stamp
<1>2. ASSUME NEW amount \in Amounts,
             RecordPayment(amount) \/ LatePayment(amount) \/ RecordRecovery(amount)
      PROVE  KeepsEvidence
    <2>1. CASE RecordPayment(amount)
        BY <2>1 DEF RecordPayment, Stamp
    <2>2. CASE LatePayment(amount)
        BY <2>2 DEF LatePayment, PastDueActive
    <2>3. CASE RecordRecovery(amount)
        BY <2>3 DEF RecordRecovery, Stamp
    <2> QED
        BY <1>2, <2>1, <2>2, <2>3
<1>3. ASSUME NEW amount \in Amounts, ReopenAfterVoid(amount) PROVE KeepsEvidence
    BY <1>3 DEF ReopenAfterVoid, ReopensOverdue, Stamp
<1>4. CASE Accept
    BY <1>4 DEF Accept, UnexpiredPending, Stamp
<1>5. CASE MarkWrittenOff
    BY <1>5 DEF MarkWrittenOff, Stamp
<1>6. CASE Tick
    BY <1>6 DEF Tick
<1> QED
    BY <1>1, <1>2, <1>3, <1>4, <1>5, <1>6 DEF Next

\* Overdue, write-off and acceptance evidence is written once, and nothing about
\* a debt changes without a new revision.
THEOREM EvidenceIsPermanent == Spec => EvidencePermanent
BY Invariance, StepKeepsEvidence, PTL DEF Spec, EvidencePermanent
-----------------------------------------------------------------------------
(* The row can always be stored and loaded.                                *)

\* What the evidence chain does not say of a stored row: the proposal expires
\* by its due date, and the overdue revision is a real one.
ExpiresBeforeDue == status # "absent" => BusinessDate(PendingExpiresAt) <= DueDate
OverdueNumbered == overdueRevision # Unset => overdueRevision >= 1

\* A proposal is created to expire by its due date and keeps its creation; the
\* overdue revision is the successor of another.
LEMMA RowStep ==
    IInv /\ ExpiresBeforeDue /\ OverdueNumbered /\ [Next]_vars
        => ExpiresBeforeDue' /\ OverdueNumbered'
<1> SUFFICES ASSUME IInv, ExpiresBeforeDue, OverdueNumbered, [Next]_vars
             PROVE  ExpiresBeforeDue' /\ OverdueNumbered'
    OBVIOUS
<1>0. revision \in Nat
    BY DEF IInv, TypeOK
<1> HIDE DEF IInv
<1> USE <1>0 DEF ExpiresBeforeDue, OverdueNumbered, PendingExpiresAt, Stamp, marks, closing
<1>1. ASSUME NEW t \in 0..MaxNow,
             CreatePending(t) \/ Reject(t) \/ Cancel(t) \/ Expire(t) \/ MarkOverdue(t)
      PROVE  ExpiresBeforeDue' /\ OverdueNumbered'
    BY <1>1 DEF CreatePending, Reject, Cancel, Expire, MarkOverdue, UnexpiredPending,
       PastDueActive
<1>2. ASSUME NEW amount \in Amounts,
             \/ RecordPayment(amount) \/ LatePayment(amount)
             \/ RecordRecovery(amount) \/ ReopenAfterVoid(amount)
      PROVE  ExpiresBeforeDue' /\ OverdueNumbered'
    BY <1>2 DEF RecordPayment, LatePayment, RecordRecovery, ReopenAfterVoid, PastDueActive
<1>3. CASE Accept \/ MarkWrittenOff \/ Tick
    BY <1>3 DEF Accept, UnexpiredPending, MarkWrittenOff, Tick
<1>4. CASE UNCHANGED vars
    BY <1>4 DEF vars
<1> QED
    BY <1>1, <1>2, <1>3, <1>4 DEF Next

\* Every stored proposal expires by its due date, as LifetimeAccepted demands,
\* and every overdue revision is positive, as RevisionsChain does.
THEOREM RowCorrect == Spec => [](ExpiresBeforeDue /\ OverdueNumbered)
<1>1. Init => ExpiresBeforeDue /\ OverdueNumbered
    BY DEF Init, ExpiresBeforeDue, OverdueNumbered
<1> QED
    BY <1>1, RowStep, Invariance, PTL DEF Spec

\* The columns that are set are those of the status.
LEMMA FilledOfStatus ==
    ASSUME IInv, status # "absent"
    PROVE  MetadataMatchesStatus
<1> USE DEF IInv, TypeOK, EvidenceChain, PastOrUnset, Accepted, WrittenOff, Statuses,
        MetadataMatchesStatus, Filled, Column, TerminalAt, Carries, Overdue, WriteOff
<1>1. createdAt # Unset /\ updatedAt # Unset
    OBVIOUS
<1>2. CASE status \in {"pending", "rejected", "cancelled", "expired"}
    BY <1>1, <1>2
<1>3. CASE status = "active"
    BY <1>1, <1>3
<1>4. CASE status = "paid"
    BY <1>1, <1>4
<1>5. CASE status = "overdue"
    BY <1>1, <1>5
<1>6. CASE status = "written_off"
    BY <1>1, <1>6
<1>7. CASE status = "written_off_settled"
    BY <1>1, <1>7
<1> QED
    BY <1>2, <1>3, <1>4, <1>5, <1>6, <1>7

\* The revisions of the evidence follow one another up to the row's own.
LEMMA RevisionsOfChain ==
    ASSUME IInv, OverdueNumbered, status # "absent"
    PROVE  RevisionsChain
<1>1. revision > 0 /\ revision \in Nat
    BY DEF IInv, TypeOK, EvidenceChain
<1>2. /\ Column["overdueRevision"] = overdueRevision
      /\ Column["writtenOffRevision"] = writtenOffRevision
      /\ Column["settledRevision"] = settledRevision
    BY DEF Column
<1>3. /\ overdueAt = Unset <=> overdueRevision = Unset
      /\ settledAt = Unset <=> settledRevision = Unset
      /\ writtenOffRevision # Unset =>
             overdueRevision # Unset /\ overdueRevision < writtenOffRevision
      /\ settledRevision # Unset =>
             writtenOffRevision # Unset /\ writtenOffRevision < settledRevision
    BY DEF IInv, TypeOK, EvidenceChain, PastOrUnset, WrittenOff
<1>4. /\ overdueRevision # Unset => overdueRevision \in 1..revision
      /\ writtenOffRevision # Unset => writtenOffRevision \in 1..revision
      /\ settledRevision # Unset => settledRevision \in 1..revision
    BY DEF OverdueNumbered, IInv, TypeOK, EvidenceChain, PastOrUnset, WrittenOff
<1>5. \A c \in {"overdueRevision", "writtenOffRevision", "settledRevision"} :
         Column[c] # Unset => Column[c] \in 1..revision
    BY <1>2, <1>4
<1> QED
    BY <1>1, <1>3, <1>5 DEF RevisionsChain, Filled

\* Every instant of the row lies between its creation and its last update.
LEMMA InstantsInLifetime ==
    ASSUME IInv, status # "absent", NEW c \in Instant, Column[c] # Unset
    PROVE  Column[c] \in createdAt..updatedAt
<1> USE DEF IInv, TypeOK, EvidenceChain, PastOrUnset, InLifetime, Column, TerminalAt
<1>1. createdAt \in Int /\ updatedAt \in Int /\ createdAt <= updatedAt
    OBVIOUS
<1>2. CASE c \in {"acceptedAt", "paidAt"}
    BY <1>1, <1>2
<1>3. CASE c \in {"rejectedAt", "cancelledAt", "expiredAt"}
    BY <1>1, <1>3
<1>4. CASE c \in {"overdueAt", "writtenOffAt", "settledAt"}
    BY <1>1, <1>4
<1> QED
    BY <1>2, <1>3, <1>4 DEF Instant

\* The instants are in the order of the steps that wrote them.
LEMMA TimestampsOfChain ==
    ASSUME IInv, status # "absent"
    PROVE  TimestampsOrdered
<1>1. updatedAt >= createdAt /\ createdAt \in Int /\ updatedAt \in Int
    BY DEF IInv, TypeOK, EvidenceChain, PastOrUnset
<1>2. \A c \in Instant : Column[c] # Unset => Column[c] >= createdAt /\ updatedAt >= Column[c]
    BY <1>1, InstantsInLifetime
<1>3. createdAt # Unset
    BY DEF IInv, TypeOK, EvidenceChain
<1>4. /\ Column["acceptedAt"] = acceptedAt /\ Column["paidAt"] = paidAt
      /\ Column["overdueAt"] = overdueAt /\ Column["writtenOffAt"] = writtenOffAt
      /\ Column["settledAt"] = settledAt
    BY DEF Column
<1>5. /\ paidAt # Unset => acceptedAt # Unset /\ paidAt >= acceptedAt
      /\ overdueAt # Unset => acceptedAt # Unset /\ overdueAt >= acceptedAt
      /\ overdueAt # Unset => (paidAt # Unset => paidAt >= overdueAt)
      /\ writtenOffAt # Unset => overdueAt # Unset /\ writtenOffAt >= overdueAt
      /\ settledAt # Unset => writtenOffAt # Unset /\ settledAt >= writtenOffAt
    BY DEF IInv, TypeOK, EvidenceChain, PastOrUnset, Accepted, WrittenOff
<1> QED
    BY <1>1, <1>2, <1>3, <1>4, <1>5 DEF TimestampsOrdered, Instant

\* The aggregate accepts the lifetime, the write-off evidence and the instants
\* of every status.
LEMMA AggregateLoads ==
    ASSUME IInv, ExpiresBeforeDue, status # "absent"
    PROVE  Loads
<1>1. LifetimeAccepted
    BY InstantsInLifetime
       DEF LifetimeAccepted, Filled, ExpiresBeforeDue, IInv, TypeOK, EvidenceChain,
           PastOrUnset, Instant
<1>2. WriteOffAccepted
    BY DEF WriteOffAccepted, IInv, TypeOK, EvidenceChain, PastOrUnset, Accepted, WrittenOff
<1>3. LifecycleAccepted
    <2> USE DEF IInv, TypeOK, EvidenceChain, PastOrUnset, Accepted, WrittenOff, Statuses,
            LifecycleAccepted, Filled, Column, TerminalAt
    <2>1. createdAt # Unset /\ updatedAt # Unset
        OBVIOUS
    <2>2. CASE status \in {"pending", "rejected", "cancelled", "expired"}
        BY <2>1, <2>2
    <2>3. CASE status = "active"
        BY <2>1, <2>3
    <2>4. CASE status = "paid"
        BY <2>1, <2>4
    <2>5. CASE status \in {"overdue", "written_off", "written_off_settled"}
        BY <2>1, <2>5
    <2> QED
        BY <2>2, <2>3, <2>4, <2>5
<1> QED
    BY <1>1, <1>2, <1>3, AmountAssumption DEF Loads, IInv, TypeOK, EvidenceChain

\* Whatever a debt went through, the table takes its row and the next
\* transition can load it.
THEOREM RowsAlwaysLoad == Spec => []RowLoads
<1>1. IInv /\ ExpiresBeforeDue /\ OverdueNumbered => RowLoads
    BY FilledOfStatus, RevisionsOfChain, TimestampsOfChain, AggregateLoads
       DEF RowLoads, TableAccepts
<1> QED
    BY <1>1, Invariance, RowCorrect, PTL
=============================================================================
