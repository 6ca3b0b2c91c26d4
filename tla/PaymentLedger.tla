--------------------------- MODULE PaymentLedger ---------------------------
(***************************************************************************)
(* The money side of accepted debts: app/payment (record_debt_payment,     *)
(* void_payment), app/debt/write_off_service.py, app/debt/overdue_service. *)
(* py, and the append-only evidence each of them writes in its own         *)
(* transaction: payments, payment voids, rating events, audit rows and     *)
(* idempotency keys.  All debts belong to one ShopCustomer, whose row lock *)
(* every transaction here takes first: each is one atomic step, and what   *)
(* interleaves is what the caller read before the lock - the revision and  *)
(* balance basis of the form, the instant of an overdue batch.             *)
(*                                                                         *)
(* Time is counted in business days; two transactions of one day are       *)
(* taken to have different instants, so that evidence is appended in the   *)
(* order of its occurred_at.                                               *)
(*                                                                         *)
(* A transaction that raises (PaymentMutationRejected, RuntimeError) is    *)
(* rolled back whole, the inline overdue transition included: it is a step *)
(* that does not happen.  The invariants VoidSourceProvable and            *)
(* SourcesCoherent show that the RuntimeErrors never do happen.            *)
(***************************************************************************)
EXTENDS Integers, Sequences, FiniteSets, FiniteSetsExt

CONSTANTS
    Debts,             \* the accepted debts of one ShopCustomer
    OriginalAmount,    \* [Debts -> Nat]
    DiscountedAmount,  \* [Debts -> Nat]
    DueDate,           \* [Debts -> Nat], a business day
    BonusDebts,        \* debts of at least MIN_ON_TIME_RATING_ORIGINAL_AMOUNT_UZS
    MaxDay,            \* bound: the calendar stops there
    MaxRevision        \* [Debts -> Nat], bound: no payment or void of a debt beyond its revision

ASSUME DebtsAssumption ==
    /\ IsFiniteSet(Debts)
    /\ OriginalAmount \in [Debts -> Nat \ {0}]
    /\ DiscountedAmount \in [Debts -> Nat \ {0}]
    /\ \A d \in Debts : DiscountedAmount[d] <= OriginalAmount[d]
    /\ DueDate \in [Debts -> Nat]
    /\ BonusDebts \subseteq Debts

ASSUME BoundAssumption == MaxDay \in Nat /\ MaxRevision \in [Debts -> Nat]

VARIABLES
    today,       \* the business day
    debt,        \* [Debts -> row of the debts table]
    payments,    \* rows of payments; a payment is known by (debt, revision)
    voids,       \* rows of payment_voids
    events,      \* [Debts -> Seq(rating event)]
    audits,      \* rows of audit_log
    keys,        \* completed idempotency keys with the command they stand for
    candidates   \* <<debt, day>>: read by an overdue batch, not yet processed

vars == <<today, debt, payments, voids, events, audits, keys, candidates>>

Unset == -1
AcceptedDay == 0
Bases == {"discounted", "original"}

Init ==
    /\ today = AcceptedDay
    /\ debt = [d \in Debts |->
         [status |-> "active", revision |-> 2, updatedAt |-> AcceptedDay, paidAt |-> Unset,
          overdueAt |-> Unset, overdueRevision |-> Unset,
          writtenOffAt |-> Unset, writtenOffRevision |-> Unset,
          settledAt |-> Unset, settledRevision |-> Unset]]
    /\ payments = {}
    /\ voids = {}
    /\ events = [d \in Debts |-> <<>>]
    /\ audits = {}
    /\ keys = {}
    /\ candidates = {}

-----------------------------------------------------------------------------
(* Reads of the ledger under the Debt lock.                                *)

Voided(p) == \E v \in voids : v.debt = p.debt /\ v.payment = p.revision

Standing(d) == {p \in payments : p.debt = d /\ ~Voided(p)}

Total(ps) == MapThenSumSet(LAMBDA p : p.amount, ps)

\* Mutant: the total forgets that a void takes its payment out.
PostedIgnoresVoids(d) == Total({p \in payments : p.debt = d})

Posted(d) == Total(Standing(d))

\* The total as it stood at a revision: voids that came later do not count.
PostedThrough(d, revision) ==
    Total({p \in payments :
             /\ p.debt = d
             /\ p.revision <= revision
             /\ ~\E v \in voids : v.debt = d /\ v.payment = p.revision /\ v.revision <= revision})

\* Mutant: any standing payment is taken for the latest one.
AnyStanding(d, p) == p \in Standing(d)

IsLatest(d, p) == p \in Standing(d) /\ \A q \in Standing(d) : q.revision <= p.revision

Payable(d) == today <= DueDate[d]

\* Mutant: the batch trusts the status it read when it chose the candidate.
PastDueTrusted(d, day) == day > DueDate[d]

PastDueActive(d, day) == debt[d].status = "active" /\ day > DueDate[d]

\* _require_coherent_unpaid_active_ledger: what may still be marked overdue.
CoherentUnpaid(d) == Posted(d) < DiscountedAmount[d]

\* evaluate_locked_debt_payability: the basis a payment made now is owed on.
BasisNow(d) ==
    IF debt[d].status = "active" /\ Payable(d) THEN "discounted" ELSE "original"

\* Mutant: the balance is taken from the amounts of the debt row alone.
RemainingUnpaid(d) ==
    IF BasisNow(d) = "discounted" THEN DiscountedAmount[d] ELSE OriginalAmount[d]

Remaining(d) ==
    (IF BasisNow(d) = "discounted" THEN DiscountedAmount[d] ELSE OriginalAmount[d]) - Posted(d)

-----------------------------------------------------------------------------
(* Evidence.                                                               *)

Event(type, source) == [type |-> type, source |-> source, at |-> today]

\* A row of audit_log about a debt: who acted, and the statuses (for the
\* clawback, the balance bases) the transition went from and to.
Audit(type, actor, d, revision, day, from, to) ==
    [type |-> type, actor |-> actor, debt |-> d, revision |-> revision, at |-> day,
     from |-> from, to |-> to]

UserAudit(type, d, revision, from, to) == Audit(type, "USER", d, revision, today, from, to)

Has(d, type) == {i \in DOMAIN events[d] : events[d][i].type = type}

\* The one on-time bonus a ShopCustomer can earn on a business day.
DailySlotUsed(day) ==
    \E d \in Debts : \E i \in Has(d, "on_time_paid") : events[d][i].at = day

\* Mutant: the bonus does not ask whether the debt was ever overdue.
EarnsForLateDebt(d) ==
    /\ d \in BonusDebts
    /\ AcceptedDay < today

EarnsOnTimeBonus(d) ==
    /\ debt[d].status = "active"
    /\ debt[d].overdueRevision = Unset
    /\ d \in BonusDebts
    /\ AcceptedDay < today
    /\ Payable(d)
    /\ ~DailySlotUsed(today)

OverduePair(d, revision, day, from) ==
    {Audit("debt.overdue", "SYSTEM", d, revision, day, from, "overdue"),
     Audit("debt.clawback_applied", "SYSTEM", d, revision, day, "discounted", "original")}

AuditsOf(d, types) == {a \in audits : a.debt = d /\ a.type \in types}

\* _read_overdue_source_facts: one overdue event and exactly its audit pair.
OverdueSourceCoherent(d) ==
    LET types == {"debt.overdue", "debt.clawback_applied"}
        pair == AuditsOf(d, types)
    IN  /\ Cardinality(Has(d, "overdue")) = 1
        /\ \A i \in Has(d, "overdue") : events[d][i].at = debt[d].overdueAt
        /\ Cardinality(pair) = 2 /\ {a.type : a \in pair} = types
        /\ \A a \in pair :
             /\ a.actor = "SYSTEM"
             /\ a.at = debt[d].overdueAt /\ a.revision = debt[d].overdueRevision

\* has_coherent_written_off_source: one write-off event and its one audit row.
WrittenOffSourceCoherent(d) ==
    LET rows == AuditsOf(d, {"debt.written_off"})
    IN  /\ Cardinality(Has(d, "written_off")) = 1
        /\ \A i \in Has(d, "written_off") : events[d][i].at = debt[d].writtenOffAt
        /\ Cardinality(rows) = 1
        /\ \A a \in rows :
             /\ a.actor = "USER"
             /\ a.at = debt[d].writtenOffAt /\ a.revision = debt[d].writtenOffRevision

-----------------------------------------------------------------------------
(* Recording a payment (record_debt_payment).                              *)

\* Mutant: a form opened on an older revision is accepted.
SubmitsAnyRevision(d, seen, basis) ==
    /\ debt[d].status \in {"active", "overdue", "written_off"}
    /\ basis = BasisNow(d)

\* The form carries the revision and the basis its page was rendered with.
Submits(d, seen, basis) ==
    /\ debt[d].status \in {"active", "overdue", "written_off"}
    /\ seen = debt[d].revision
    /\ basis = BasisNow(d)

\* decide_locked_payment_amount: no more than what is still due.
WithinBalance(d, amount) == amount \in 1..Remaining(d)

\* The payment row and the completed key that answers a retry of its command.
Post(d, seen, basis, amount, revision) ==
    /\ payments' = payments \cup
         {[debt |-> d, amount |-> amount, revision |-> revision, at |-> today]}
    /\ keys' = keys \cup
         {[endpoint |-> "payment", debt |-> d, seen |-> seen, basis |-> basis,
           amount |-> amount, result |-> revision]}
    /\ UNCHANGED <<today, voids, candidates>>

\* Mutant: a late payment is said to come from the status of before the marking.
AuditsStaleStatus(d, revision, full, from) ==
    LET to == IF full THEN "paid" ELSE from
    IN  {UserAudit("payment.recorded", d, revision, debt[d].status, to)} \cup
        (IF full THEN {UserAudit("debt.paid", d, revision, "none", "none")} ELSE {})

\* The audit rows of a payment on a debt that stood in status "from".
PaymentAudits(d, revision, full, from) ==
    LET to == IF full THEN "paid" ELSE from
    IN  {UserAudit("payment.recorded", d, revision, from, to)} \cup
        (IF full THEN {UserAudit("debt.paid", d, revision, "none", "none")} ELSE {})

RecordPayment(d, seen, basis, amount) ==
    LET full == amount = Remaining(d)
        revision == debt[d].revision + 1
    IN  /\ Submits(d, seen, basis)
        /\ debt[d].status \in {"active", "overdue"}
        /\ ~PastDueActive(d, today)
        /\ WithinBalance(d, amount)
        /\ debt' = [debt EXCEPT ![d].status = IF full THEN "paid" ELSE @,
                                ![d].revision = revision,
                                ![d].updatedAt = today,
                                ![d].paidAt = IF full THEN today ELSE Unset]
        /\ Post(d, seen, basis, amount, revision)
        /\ events' = IF full /\ EarnsOnTimeBonus(d)
                     THEN [events EXCEPT ![d] = Append(@, Event("on_time_paid", revision))]
                     ELSE events
        /\ audits' = audits \cup PaymentAudits(d, revision, full, debt[d].status)

\* The due date has passed and nobody has marked the debt overdue yet: the
\* payment does it first, in the same transaction, on the original balance.
RecordLatePayment(d, seen, basis, amount) ==
    LET full == amount = Remaining(d)
        marked == debt[d].revision + 1
        revision == debt[d].revision + 2
    IN  /\ Submits(d, seen, basis)
        /\ PastDueActive(d, today)
        /\ CoherentUnpaid(d)
        /\ WithinBalance(d, amount)
        /\ debt' = [debt EXCEPT ![d].status = IF full THEN "paid" ELSE "overdue",
                                ![d].revision = revision,
                                ![d].updatedAt = today,
                                ![d].overdueAt = today,
                                ![d].overdueRevision = marked,
                                ![d].paidAt = IF full THEN today ELSE Unset]
        /\ Post(d, seen, basis, amount, revision)
        /\ events' = [events EXCEPT ![d] = Append(@, Event("overdue", marked))]
        /\ audits' = audits \cup OverduePair(d, marked, today, "active")
                            \cup PaymentAudits(d, revision, full, "overdue")

RecoveryAudits(d, revision, full) ==
    LET to == IF full THEN "written_off_settled" ELSE "written_off"
    IN  {UserAudit("payment.recorded", d, revision, "written_off", to)} \cup
        (IF full THEN {UserAudit("debt.written_off_settled", d, revision, "written_off", to)}
         ELSE {})

\* Mutant: a full recovery does not leave its settlement event.
RecoveryForgetsEvent(d, seen, basis, amount) ==
    LET full == amount = Remaining(d)
        revision == debt[d].revision + 1
    IN  /\ Submits(d, seen, basis)
        /\ debt[d].status = "written_off"
        /\ WithinBalance(d, amount)
        /\ debt' = [debt EXCEPT ![d].status = IF full THEN "written_off_settled" ELSE @,
                                ![d].revision = revision,
                                ![d].updatedAt = today,
                                ![d].settledAt = IF full THEN today ELSE Unset,
                                ![d].settledRevision = IF full THEN revision ELSE Unset]
        /\ Post(d, seen, basis, amount, revision)
        /\ UNCHANGED events
        /\ audits' = audits \cup RecoveryAudits(d, revision, full)

RecordRecovery(d, seen, basis, amount) ==
    LET full == amount = Remaining(d)
        revision == debt[d].revision + 1
    IN  /\ Submits(d, seen, basis)
        /\ debt[d].status = "written_off"
        /\ WithinBalance(d, amount)
        /\ WrittenOffSourceCoherent(d)
        /\ debt' = [debt EXCEPT ![d].status = IF full THEN "written_off_settled" ELSE @,
                                ![d].revision = revision,
                                ![d].updatedAt = today,
                                ![d].settledAt = IF full THEN today ELSE Unset,
                                ![d].settledRevision = IF full THEN revision ELSE Unset]
        /\ Post(d, seen, basis, amount, revision)
        /\ events' = IF full
                     THEN [events EXCEPT ![d] = Append(@, Event("written_off_settled", revision))]
                     ELSE events
        /\ audits' = audits \cup RecoveryAudits(d, revision, full)

-----------------------------------------------------------------------------
(* Voiding the latest standing payment (void_payment).                     *)

\* The reward a terminal status may have earned, and the audit that proves it.
RewardOf(status) ==
    CASE status = "paid" -> "on_time_paid"
      [] status = "written_off_settled" -> "written_off_settled"
      [] OTHER -> "none"

AuditOf(status) == IF status = "paid" THEN "debt.paid" ELSE "debt.written_off_settled"

\* Exactly one row of the type for the payment, written when it was made.
AuditedOnce(d, p, type) ==
    Cardinality({a \in AuditsOf(d, {type}) :
                   a.actor = "USER" /\ a.at = p.at /\ a.revision = p.revision}) = 1

RewardEvents(d, p) ==
    {i \in Has(d, RewardOf(debt[d].status)) :
       events[d][i].source = p.revision /\ events[d][i].at = p.at}

\* Mutant: the proof that no bonus was due forgets the daily slot.
DueButForSlot(d, p) ==
    /\ debt[d].overdueRevision = Unset
    /\ d \in BonusDebts
    /\ AcceptedDay < p.at /\ p.at <= DueDate[d]
    /\ PostedThrough(d, p.revision) = DiscountedAmount[d]

\* A paid debt without a bonus although one was due.
BonusMissing(d, p) ==
    /\ debt[d].overdueRevision = Unset
    /\ d \in BonusDebts
    /\ AcceptedDay < p.at /\ p.at <= DueDate[d]
    /\ PostedThrough(d, p.revision) = DiscountedAmount[d]
    /\ ~DailySlotUsed(p.at)

\* read_pre_transition_source: which reward the payment about to be voided
\* has earned; anything the reader cannot explain is "inconsistent".
RewardSource(d, p) ==
    LET status == debt[d].status
        audited == AuditedOnce(d, p, "payment.recorded") /\ AuditedOnce(d, p, AuditOf(status))
        rewards == Cardinality(RewardEvents(d, p))
    IN  CASE RewardOf(status) = "none" -> "none"
          [] RewardOf(status) # "none" /\ audited /\ rewards = 1 -> "earned"
          [] status = "paid" /\ audited /\ rewards = 0 /\ ~BonusMissing(d, p) -> "none"
          [] OTHER -> "inconsistent"

\* A debt paid on time and reopened after its due date becomes overdue.
ReopensOverdue(d) ==
    debt[d].status = "paid" /\ debt[d].overdueRevision = Unset /\ ~Payable(d)

ReopenedStatus(d) ==
    CASE debt[d].status = "written_off_settled" -> "written_off"
      [] debt[d].status = "paid" ->
           IF debt[d].overdueRevision = Unset /\ Payable(d) THEN "active" ELSE "overdue"
      [] OTHER -> debt[d].status

VoidedReward(status) ==
    IF status = "paid" THEN "on_time_paid_voided" ELSE "written_off_settled_voided"

\* Mutant: the compensation is left out when the debt goes straight to overdue.
CompensationUnlessOverdue(d, p) ==
    IF RewardSource(d, p) = "earned" /\ ~ReopensOverdue(d)
    THEN <<Event(VoidedReward(debt[d].status), p.revision)>> ELSE <<>>

Compensation(d, p) ==
    IF RewardSource(d, p) = "earned"
    THEN <<Event(VoidedReward(debt[d].status), p.revision)>> ELSE <<>>

\* The payment a void form names is the latest standing one of its debt, the
\* form is of the current revision, and the reward it earned can be proved.
Voidable(d, p, seen) ==
    /\ debt[d].status \in {"active", "overdue", "paid", "written_off", "written_off_settled"}
    /\ seen = debt[d].revision
    /\ IsLatest(d, p)
    /\ RewardSource(d, p) # "inconsistent"

\* A debt that leaves its status is reopened, and the trail says so.
VoidAudits(d, revision, to) ==
    LET from == debt[d].status
    IN  {UserAudit("payment.voided", d, revision, from, to)} \cup
        (IF to # from
         THEN {UserAudit("debt.reopened_after_payment_void", d, revision, from, to)} ELSE {})

VoidPayment(d, p, seen) ==
    LET revision == debt[d].revision + 1
        row == debt[d]
        overdue == ReopensOverdue(d)
    IN  /\ Voidable(d, p, seen)
        /\ debt' = [debt EXCEPT ![d] =
             [row EXCEPT !.status = ReopenedStatus(d),
                         !.revision = revision,
                         !.updatedAt = today,
                         !.paidAt = Unset,
                         !.overdueAt = IF overdue THEN today ELSE @,
                         !.overdueRevision = IF overdue THEN revision ELSE @,
                         !.settledAt = Unset,
                         !.settledRevision = Unset]]
        /\ voids' = voids \cup
             {[debt |-> d, payment |-> p.revision, revision |-> revision, at |-> today]}
        /\ events' = [events EXCEPT ![d] = @ \o Compensation(d, p)
             \o (IF overdue THEN <<Event("overdue", revision)>> ELSE <<>>)]
        /\ audits' = audits
             \cup VoidAudits(d, revision, ReopenedStatus(d))
             \cup (IF overdue THEN OverduePair(d, revision, today, "paid") ELSE {})
        /\ keys' = keys \cup
             {[endpoint |-> "void", debt |-> d, seen |-> seen, basis |-> "none",
               amount |-> 0, result |-> p.revision]}
        /\ UNCHANGED <<today, payments, candidates>>

-----------------------------------------------------------------------------
(* Write-off by an administrator, and the overdue batch.                   *)

WriteOff(d, seen) ==
    LET revision == debt[d].revision + 1
    IN  /\ seen = debt[d].revision
        /\ debt[d].status = "overdue"
        /\ OverdueSourceCoherent(d)
        /\ Posted(d) < OriginalAmount[d]
        /\ today >= debt[d].overdueAt
        /\ debt' = [debt EXCEPT ![d].status = "written_off",
                                ![d].revision = revision,
                                ![d].updatedAt = today,
                                ![d].writtenOffAt = today,
                                ![d].writtenOffRevision = revision]
        /\ events' = [events EXCEPT ![d] = Append(@, Event("written_off", revision))]
        /\ audits' = audits \cup {UserAudit("debt.written_off", d, revision, "overdue", "written_off")}
        /\ keys' = keys \cup
             {[endpoint |-> "write_off", debt |-> d, seen |-> seen, basis |-> "none",
               amount |-> 0, result |-> revision]}
        /\ UNCHANGED <<today, payments, voids, candidates>>

\* The discovery transaction reads candidates without locking them; the run
\* processes each later, in a transaction of its own, with this day's instant.
DiscoverOverdue(d) ==
    /\ PastDueActive(d, today)
    /\ candidates' = candidates \cup {<<d, today>>}
    /\ UNCHANGED <<today, debt, payments, voids, events, audits, keys>>

\* materialize_overdue_candidate, the status looked at again under the lock.
MaterializeOverdue(d, day) ==
    LET revision == debt[d].revision + 1
    IN  /\ <<d, day>> \in candidates
        /\ PastDueActive(d, day)
        /\ CoherentUnpaid(d)
        /\ debt' = [debt EXCEPT ![d].status = "overdue",
                                ![d].revision = revision,
                                ![d].updatedAt = day,
                                ![d].overdueAt = day,
                                ![d].overdueRevision = revision]
        /\ events' = [events EXCEPT ![d] =
             Append(@, [type |-> "overdue", source |-> revision, at |-> day])]
        /\ audits' = audits \cup OverduePair(d, revision, day, "active")
        /\ candidates' = candidates \ {<<d, day>>}
        /\ UNCHANGED <<today, payments, voids, keys>>

\* The candidate is no longer lawful (no_op), or the run failed before it.
SkipCandidate(d, day) ==
    /\ <<d, day>> \in candidates
    /\ candidates' = candidates \ {<<d, day>>}
    /\ UNCHANGED <<today, debt, payments, voids, events, audits, keys>>

Tick ==
    /\ today < MaxDay
    /\ today' = today + 1
    /\ UNCHANGED <<debt, payments, voids, events, audits, keys, candidates>>

Next ==
    \/ \E d \in Debts : \E seen \in 2..(MaxRevision[d] - 1) :
        \/ \E basis \in Bases, amount \in 1..OriginalAmount[d] :
            \/ RecordPayment(d, seen, basis, amount)
            \/ RecordLatePayment(d, seen, basis, amount)
            \/ RecordRecovery(d, seen, basis, amount)
        \/ \E p \in payments : VoidPayment(d, p, seen)
    \/ \E d \in Debts : \E seen \in 2..(MaxRevision[d] + 1) : WriteOff(d, seen)
    \/ \E d \in Debts : DiscoverOverdue(d)
    \/ \E d \in Debts, day \in 0..MaxDay : MaterializeOverdue(d, day) \/ SkipCandidate(d, day)
    \/ Tick

Spec == Init /\ [][Next]_vars

-----------------------------------------------------------------------------
(* What a retry of a completed command finds (the _resolve_completed_*     *)
(* functions): a read, so no action of its own.                            *)

\* _allowed_completed_revisions
AllowedRevisions(k) ==
    IF debt[k.debt].writtenOffAt = Unset /\ k.basis = "original"
    THEN {k.seen + 1, k.seen + 2}
    ELSE {k.seen + 1}

PaymentReplays(k) ==
    \E p \in payments :
        /\ p.debt = k.debt
        /\ p.revision = k.result
        /\ p.amount = k.amount
        /\ p.revision \in AllowedRevisions(k)

VoidReplays(k) == \E v \in voids : v.debt = k.debt /\ v.payment = k.result

WriteOffReplays(k) == debt[k.debt].status \in {"written_off", "written_off_settled"}

Replays(k) ==
    CASE k.endpoint = "payment" -> PaymentReplays(k)
      [] k.endpoint = "void" -> VoidReplays(k)
      [] k.endpoint = "write_off" -> WriteOffReplays(k)

-----------------------------------------------------------------------------
(* Properties.                                                             *)

Statuses == {"active", "overdue", "paid", "written_off", "written_off_settled"}
Day == 0..today
OptionalDay == Day \cup {Unset}
OptionalRevision == Nat \cup {Unset}

\* Type invariant, with the range payment/values.py demands of the posted total.
TypeOK ==
    /\ today \in 0..MaxDay
    /\ debt \in [Debts ->
         [status : Statuses, revision : Nat, updatedAt : Day, paidAt : OptionalDay,
          overdueAt : OptionalDay, overdueRevision : OptionalRevision,
          writtenOffAt : OptionalDay, writtenOffRevision : OptionalRevision,
          settledAt : OptionalDay, settledRevision : OptionalRevision]]
    /\ payments \subseteq [debt : Debts, amount : Nat \ {0}, revision : Nat, at : Day]
    /\ voids \subseteq [debt : Debts, payment : Nat, revision : Nat, at : Day]
    /\ candidates \subseteq Debts \X Day
    /\ \A d \in Debts :
         /\ Posted(d) \in 0..OriginalAmount[d]
         /\ \A i \in DOMAIN events[d] :
              events[d][i].source \in 3..debt[d].revision /\ events[d][i].at \in Day

\* The latest standing payment of any debt can always be voided: the reader of
\* its reward never meets evidence it calls inconsistent, also when another
\* debt of the customer, or an earlier payment of this one since voided, has
\* used the daily slot (read_pre_transition_source).
VoidSourceProvable ==
    \A d \in Debts, p \in payments :
        IsLatest(d, p) =>
            /\ RewardSource(d, p) # "inconsistent"
            /\ debt[d].status = "written_off_settled" => RewardSource(d, p) = "earned"

\* An overdue debt can always be written off, and a written-off one always
\* accepts a recovery: whichever of the batch, the late payment and the void
\* marked it overdue, it left exactly the sources the next transition demands.
SourcesCoherent ==
    \A d \in Debts :
        /\ debt[d].status = "overdue" => OverdueSourceCoherent(d)
        /\ debt[d].status \in {"written_off", "written_off_settled"}
             => OverdueSourceCoherent(d) /\ WrittenOffSourceCoherent(d)

Open(d, type, voidedType) ==
    {i \in Has(d, type) :
       \A j \in Has(d, voidedType) : events[d][j].source # events[d][i].source}

Sources(d, type) == {events[d][i].source : i \in Has(d, type)}

\* The rating a customer carries is earned by the ledger as it stands now: an
\* open bonus belongs to a debt still paid on time by the payment that earned
\* it, a settlement to a debt still settled, each penalty to the evidence in
\* the row, and a customer has at most one on-time bonus for any business day.
RewardsMatchLedger ==
    /\ \A d \in Debts :
         /\ \A i \in Open(d, "on_time_paid", "on_time_paid_voided") :
              /\ debt[d].status = "paid" /\ debt[d].overdueRevision = Unset
              /\ events[d][i].source = debt[d].revision
              /\ events[d][i].at = debt[d].paidAt
         /\ {events[d][i].source :
                i \in Open(d, "written_off_settled", "written_off_settled_voided")}
              = {debt[d].settledRevision} \ {Unset}
         /\ Sources(d, "overdue") = {debt[d].overdueRevision} \ {Unset}
         /\ Sources(d, "written_off") = {debt[d].writtenOffRevision} \ {Unset}
    /\ \A c, d \in Debts : \A i \in Has(c, "on_time_paid"), j \in Has(d, "on_time_paid") :
         events[c][i].at = events[d][j].at => c = d /\ i = j

\* The ledger is a stack: every revision after the acceptance is one payment,
\* one void, or the marking of the debt, and a void puts the total back to what
\* it was before its payment, which is what the receipts and the histories that
\* are derived "as of" a revision assume.
HistoryIsAStack ==
    \A d \in Debts :
        LET paid == {p.revision : p \in {q \in payments : q.debt = d}}
            undone == {v.revision : v \in {w \in voids : w.debt = d}}
            marked == ({debt[d].overdueRevision} \ undone) \cup {debt[d].writtenOffRevision}
        IN  /\ paid \cup undone \cup (marked \ {Unset}) = 3..debt[d].revision
            /\ paid \cap undone = {} /\ paid \cap marked = {} /\ undone \cap marked = {}
            /\ PostedThrough(d, debt[d].revision) = Posted(d)
            /\ \A v \in voids : v.debt = d =>
                 PostedThrough(d, v.revision) = PostedThrough(d, v.payment - 1)

KeysOf(endpoint, d) == {k \in keys : k.endpoint = endpoint /\ k.debt = d}

\* A payment whose transaction also marked the debt overdue, asked for again
\* after the debt was written off: the case in which _allowed_completed_revisions
\* is narrower than what the payment consumed.
LateThenWrittenOff(k) ==
    k.endpoint = "payment" /\ k.result = k.seen + 2 /\ debt[k.debt].writtenOffAt # Unset

\* Exactly one completed key for every payment, void and write-off and none
\* without its effect; no form pays twice from one revision; and a retry finds
\* the effect of its own command, however much later it comes.
KeysExplainEffects ==
    /\ \A d \in Debts :
         /\ {k.result : k \in KeysOf("payment", d)}
              = {p.revision : p \in {q \in payments : q.debt = d}}
         /\ {k.result : k \in KeysOf("void", d)}
              = {v.payment : v \in {w \in voids : w.debt = d}}
         /\ {k.result : k \in KeysOf("write_off", d)} = {debt[d].writtenOffRevision} \ {Unset}
         /\ \A k \in KeysOf("payment", d) :
              k.result = IF debt[d].overdueRevision = k.seen + 1 THEN k.seen + 2 ELSE k.seen + 1
    /\ \A j, k \in keys :
         j.debt = k.debt /\ (j.seen = k.seen \/ (j.endpoint = k.endpoint /\ j.result = k.result))
           => j = k
    /\ \A k \in keys : Replays(k) \/ LateThenWrittenOff(k)

\* docs/m14_scope_contract.md: "Same actor/endpoint/key/hash replays the old
\* Payment before status validation with zero writes" - of every payment.
CompletedPaymentReplays == \A k \in keys : k.endpoint = "payment" => PaymentReplays(k)

-----------------------------------------------------------------------------
(* What it implements.                                                     *)

SameDay(t) == t

\* A debt as app/debt/contracts.py sees it: the posted total is no column but the
\* sum of what the payment tables hold, and an instant is a business day.
Row(d) == INSTANCE DebtLifecycle WITH
    OriginalAmount <- OriginalAmount[d],
    DiscountedAmount <- DiscountedAmount[d],
    DueDate <- DueDate[d],
    PendingTTL <- 1,
    MaxNow <- MaxDay,
    MaxRevision <- MaxRevision[d],
    BusinessDate <- SameDay,
    now <- today,
    status <- debt[d].status,
    revision <- debt[d].revision,
    posted <- Posted(d),
    createdAt <- AcceptedDay,
    updatedAt <- debt[d].updatedAt,
    acceptedAt <- AcceptedDay,
    paidAt <- debt[d].paidAt,
    overdueAt <- debt[d].overdueAt,
    overdueRevision <- debt[d].overdueRevision,
    writtenOffAt <- debt[d].writtenOffAt,
    writtenOffRevision <- debt[d].writtenOffRevision,
    settledAt <- debt[d].settledAt,
    settledRevision <- debt[d].settledRevision

\* Every debt begins as the aggregate accepts one, and every step of the ledger
\* is, of each debt, a step of its life cycle or leaves its row and the calendar
\* alone: \A d : Row(d)!AcceptedSpec, with one box around all the debts.
RefinesLifecycle ==
    /\ \A d \in Debts : Row(d)!AcceptedInit
    /\ [][\A d \in Debts : [Row(d)!Next]_(Row(d)!vars)]_vars
=============================================================================
