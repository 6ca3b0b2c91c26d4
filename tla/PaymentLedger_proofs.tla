------------------------ MODULE PaymentLedger_proofs ------------------------
(***************************************************************************)
(* The money side, for any number of debts, any amounts, dates and lengths *)
(* of history.                                                             *)
(*                                                                         *)
(* First the evidence (Inv): keys explain effects, the ledger is a stack,  *)
(* rewards are those of the ledger as it stands, the trail tells one       *)
(* story, and the sources the next void, write-off or recovery will ask    *)
(* for are there.  None of it needs what a sum is: a payment is full or it *)
(* is not, whatever the remaining balance, and two totals are compared by  *)
(* the payments they are of.  What is needed is that revisions are used    *)
(* once, by what (Cover), and that whatever a terminal status rests on     *)
(* carries the revision the debt has now (Terminal), so that the latest    *)
(* payment is the one to be explained.                                     *)
(*                                                                         *)
(* Then the books (Books), which do need sums: what a payment adds, a void *)
(* takes away; what was posted at a revision never changes; and no total   *)
(* goes beyond what its debt was owed on.  From both follow the ranges of  *)
(* TypeOK, that every debt lives the life of DebtLifecycle, and that the   *)
(* pages show, and offer, what the mutations would do.                     *)
(*                                                                         *)
(* Last the chronicle (Chronicle), of the events of a debt as a sequence:  *)
(* they are in order, their sources are new, every cycle of the readers is *)
(* possible, and every compensation has the payment, the reward, the audit *)
(* and the void it is of.  While a debt is active its events lie within    *)
(* its due date, so that the marking of a batch that began on an earlier   *)
(* day still comes last.  From it follow that the readers accept what is   *)
(* appended, and that a reward that is taken back leaves no score behind:  *)
(* along the history of all debts the score with all events is ahead of    *)
(* the score without the pairs by no more than the rewards that hang.      *)
(*                                                                         *)
(* What a fold or a sum of the library computes is shown by the least set, *)
(* under inclusion, of what would be a counterexample.                     *)
(***************************************************************************)
EXTENDS DebtPages, FiniteSetTheorems, TLAPS

-----------------------------------------------------------------------------
(* Rows.                                                                   *)

DebtRow ==
    [status : Statuses, revision : Nat, updatedAt : Int, paidAt : Int,
     overdueAt : Int, overdueRevision : Int, writtenOffAt : Int, writtenOffRevision : Int,
     settledAt : Int, settledRevision : Int]

Payment == [debt : Debts, amount : Nat \ {0}, revision : Nat, at : Nat]
Void == [debt : Debts, payment : Nat, revision : Nat, at : Nat]
Key == [endpoint : {"payment", "void", "write_off"}, debt : Debts, seen : Nat,
        basis : Bases \cup {"none"}, amount : Nat, result : Nat]
EventTypes == {"on_time_paid", "on_time_paid_voided", "overdue", "written_off",
               "written_off_settled", "written_off_settled_voided"}
RatingEvent == [type : EventTypes, source : Nat, at : Nat]
AuditTypes == {"payment.recorded", "payment.voided", "debt.paid", "debt.overdue",
               "debt.clawback_applied", "debt.written_off", "debt.written_off_settled",
               "debt.reopened_after_payment_void"}
AuditRow == [type : AuditTypes, actor : {"USER", "SYSTEM"}, debt : Debts, revision : Nat,
             at : Nat, from : Statuses \cup Bases \cup {"none"},
             to : Statuses \cup Bases \cup {"none"}]

Types ==
    /\ today \in Nat
    /\ debt \in [Debts -> DebtRow]
    /\ payments \subseteq Payment
    /\ voids \subseteq Void
    /\ keys \subseteq Key
    /\ audits \subseteq AuditRow
    /\ events \in [Debts -> Seq(RatingEvent)]
    /\ candidates \subseteq Debts \X Nat

\* What the status says of the other columns.
RowInv(d) ==
    /\ debt[d].revision >= 2
    /\ debt[d].revision = 2 => debt[d].status = "active"
    /\ debt[d].overdueRevision \in (3..debt[d].revision) \cup {Unset}
    /\ debt[d].writtenOffRevision \in (3..debt[d].revision) \cup {Unset}
    /\ debt[d].status = "active" => debt[d].overdueRevision = Unset
    /\ debt[d].status \in {"overdue", "written_off", "written_off_settled"}
         => debt[d].overdueRevision # Unset
    /\ debt[d].overdueAt # Unset <=> debt[d].overdueRevision # Unset
    /\ debt[d].writtenOffAt # Unset <=> debt[d].status \in {"written_off", "written_off_settled"}
    /\ debt[d].writtenOffRevision # Unset
         <=> debt[d].status \in {"written_off", "written_off_settled"}
    /\ debt[d].settledRevision =
         IF debt[d].status = "written_off_settled" THEN debt[d].revision ELSE Unset

-----------------------------------------------------------------------------
(* The inductive invariant, part by part.                                  *)

Of(p, d, revision) == p.debt = d /\ p.revision = revision

\* Revisions are used once, none is left out, and what was paid after a payment
\* was taken back before it.
LedgerInv ==
    /\ \A p \in payments : p.revision \in 3..debt[p.debt].revision
    /\ \A p, q \in payments : p.debt = q.debt /\ p.revision = q.revision => p = q
    /\ \A v \in voids :
         /\ v.revision \in 3..debt[v.debt].revision /\ v.payment < v.revision
         /\ \E p \in payments : p.debt = v.debt /\ p.revision = v.payment /\ p.at <= v.at
    /\ \A v, w \in voids :
         v.debt = w.debt /\ (v.payment = w.payment \/ v.revision = w.revision) => v = w
    /\ \A p \in payments :
         /\ p.revision # debt[p.debt].overdueRevision
         /\ p.revision # debt[p.debt].writtenOffRevision
    /\ \A v \in voids : v.revision # debt[v.debt].writtenOffRevision
    /\ \A p \in payments, v \in voids : p.debt = v.debt => p.revision # v.revision
    /\ \A v \in voids, p \in payments :
         v.debt = p.debt /\ v.payment < p.revision /\ p.revision < v.revision =>
           \E w \in voids : w.debt = p.debt /\ w.payment = p.revision /\ w.revision < v.revision
    /\ \A p \in payments : p.at <= today

Cover ==
    \A d \in Debts : \A revision \in 3..debt[d].revision :
        \/ \E p \in payments : p.debt = d /\ p.revision = revision
        \/ \E v \in voids : v.debt = d /\ v.revision = revision
        \/ revision = debt[d].overdueRevision
        \/ revision = debt[d].writtenOffRevision

\* A paid or settled debt is so by a payment of the revision it has.
Terminal ==
    \A d \in Debts :
        /\ debt[d].status = "paid" =>
             \E p \in payments :
                 p.debt = d /\ p.revision = debt[d].revision /\ p.at = debt[d].paidAt
        /\ debt[d].status = "written_off_settled" =>
             \E p \in payments :
                 p.debt = d /\ p.revision = debt[d].revision /\ p.at = debt[d].settledAt

KeysInv ==
    /\ \A k \in keys : k.seen < debt[k.debt].revision
    /\ \A j, k \in keys :
         j.debt = k.debt /\ (j.seen = k.seen \/ (j.endpoint = k.endpoint /\ j.result = k.result))
           => j = k
    /\ \A k \in keys : k.endpoint = "payment" =>
         /\ \E p \in payments :
              p.debt = k.debt /\ p.revision = k.result /\ p.amount = k.amount
         /\ k.result =
              IF debt[k.debt].overdueRevision = k.seen + 1 THEN k.seen + 2 ELSE k.seen + 1
         /\ k.result = k.seen + 2 => k.basis = "original"
    /\ \A p \in payments :
         \E k \in keys : k.endpoint = "payment" /\ k.debt = p.debt /\ k.result = p.revision
    /\ \A k \in keys : k.endpoint = "void" =>
         \E v \in voids : v.debt = k.debt /\ v.payment = k.result
    /\ \A v \in voids :
         \E k \in keys : k.endpoint = "void" /\ k.debt = v.debt /\ k.result = v.payment
    /\ \A k \in keys : k.endpoint = "write_off" =>
         k.result = debt[k.debt].writtenOffRevision /\ k.result # Unset
    /\ \A d \in Debts : debt[d].writtenOffRevision # Unset =>
         \E k \in keys :
             k.endpoint = "write_off" /\ k.debt = d /\ k.result = debt[d].writtenOffRevision

\* Rows are of revisions the debt has had, one of a type.
AuditsFresh ==
    /\ \A a \in audits : a.revision \in 3..debt[a.debt].revision
    /\ \A a, b \in audits :
         a.debt = b.debt /\ a.type = b.type /\ a.revision = b.revision => a = b

\* The audit rows the mutations read again.
AuditInv ==
    /\ AuditsFresh
    /\ \A p \in payments :
         \E a \in audits : /\ a.debt = p.debt /\ a.type = "payment.recorded" /\ a.actor = "USER"
                           /\ a.revision = p.revision /\ a.at = p.at
    /\ \A d \in Debts :
         /\ debt[d].status = "paid" =>
              \E a \in audits : /\ a.debt = d /\ a.type = "debt.paid" /\ a.actor = "USER"
                                /\ a.revision = debt[d].revision /\ a.at = debt[d].paidAt
         /\ debt[d].status = "written_off_settled" =>
              \E a \in audits :
                  /\ a.debt = d /\ a.type = "debt.written_off_settled" /\ a.actor = "USER"
                  /\ a.revision = debt[d].revision /\ a.at = debt[d].settledAt
         /\ debt[d].overdueRevision # Unset =>
              \A type \in {"debt.overdue", "debt.clawback_applied"} :
                  \E a \in audits : a.debt = d /\ a.type = type
         /\ debt[d].writtenOffRevision # Unset =>
              \E a \in audits : a.debt = d /\ a.type = "debt.written_off"

\* The move of its status a row tells of.
Tells(a) == a.type \notin {"debt.paid", "debt.clawback_applied"}

TrailInv ==
    /\ \A a \in audits : PayloadAccepts(a)
    /\ \A a, b \in audits :
         Tells(a) /\ Tells(b) /\ a.debt = b.debt /\ a.revision = b.revision
           => a.from = b.from /\ a.to = b.to
    /\ \A a, b \in audits :
         Tells(a) /\ Tells(b) /\ a.debt = b.debt /\ a.revision = b.revision + 1 => a.from = b.to
    /\ \A d \in Debts : \A revision \in 3..debt[d].revision :
         \E a \in audits : Tells(a) /\ a.debt = d /\ a.revision = revision
    /\ \A a \in audits : Tells(a) /\ a.revision = 3 => a.from = "active"
    /\ \A a \in audits : Tells(a) /\ a.revision = debt[a.debt].revision => a.to = debt[a.debt].status

\* An event of a penalty is that of the row.
PenaltyInv ==
    \A d \in Debts :
        /\ \A i, j \in Has(d, "overdue") : i = j
        /\ \A i \in Has(d, "overdue") :
             events[d][i].source = debt[d].overdueRevision /\ events[d][i].at = debt[d].overdueAt
        /\ debt[d].overdueRevision # Unset => Has(d, "overdue") # {}
        /\ \A i, j \in Has(d, "written_off") : i = j
        /\ \A i \in Has(d, "written_off") :
             /\ events[d][i].source = debt[d].writtenOffRevision
             /\ events[d][i].at = debt[d].writtenOffAt
        /\ debt[d].writtenOffRevision # Unset => Has(d, "written_off") # {}

SourcesInv ==
    \A d \in Debts : \A i \in DOMAIN events[d] : events[d][i].source \in 3..debt[d].revision

\* An open reward is that of the row, and a reward that was due is there, or the
\* day of the payment is taken.
BonusInv ==
    /\ \A d \in Debts : \A i \in Open(d, "on_time_paid", "on_time_paid_voided") :
         /\ debt[d].status = "paid" /\ debt[d].overdueRevision = Unset
         /\ events[d][i].source = debt[d].revision
         /\ events[d][i].at = debt[d].paidAt
    /\ \A c, d \in Debts : \A i \in Has(c, "on_time_paid"), j \in Has(d, "on_time_paid") :
         events[c][i].at = events[d][j].at => c = d /\ i = j
    /\ \A d \in Debts :
         debt[d].status = "paid" /\ debt[d].overdueRevision = Unset =>
           \/ d \notin BonusDebts
           \/ debt[d].paidAt <= AcceptedDay
           \/ debt[d].paidAt > DueDate[d]
           \/ DailySlotUsed(debt[d].paidAt)

SettlementInv ==
    \A d \in Debts :
        /\ \A i \in Open(d, "written_off_settled", "written_off_settled_voided") :
             /\ debt[d].status = "written_off_settled"
             /\ events[d][i].source = debt[d].revision
             /\ events[d][i].at = debt[d].settledAt
        /\ debt[d].status = "written_off_settled" =>
             Open(d, "written_off_settled", "written_off_settled_voided") # {}
        /\ \A i, j \in Has(d, "written_off_settled") :
             events[d][i].source = events[d][j].source => i = j

Inv ==
    /\ Types /\ (\A d \in Debts : RowInv(d))
    /\ LedgerInv /\ Cover /\ Terminal /\ KeysInv /\ AuditInv /\ TrailInv
    /\ PenaltyInv /\ SourcesInv /\ BonusInv /\ SettlementInv

-----------------------------------------------------------------------------
(* What a step does, in terms of what the invariant says.                  *)

\* Events of one type are left alone, or a debt gains one.
Same(type) ==
    \A c \in Debts : /\ Has(c, type)' = Has(c, type)
                     /\ \A i \in Has(c, type) : events'[c][i] = events[c][i]

Gains(d, type, source, day) ==
    /\ \E n \in Nat : /\ n \notin Has(d, type) /\ Has(d, type)' = Has(d, type) \cup {n}
                      /\ events'[d][n].source = source /\ events'[d][n].at = day
    /\ \A i \in Has(d, type) : events'[d][i] = events[d][i]
    /\ \A c \in Debts \ {d} : /\ Has(c, type)' = Has(c, type)
                              /\ \A i \in Has(c, type) : events'[c][i] = events[c][i]

\* Whatever is new carries a revision the debt has not had yet.
Grows(d) ==
    /\ debt'[d].revision > debt[d].revision
    /\ \A c \in Debts \ {d} : debt'[c] = debt[c]
    /\ payments \subseteq payments' /\ voids \subseteq voids'
    /\ \A p \in payments' : p \in payments \/ (p.debt = d /\ p.revision > debt[d].revision)
    /\ \A v \in voids' : v \in voids \/ (v.debt = d /\ v.revision > debt[d].revision)
    /\ \/ /\ debt'[d].overdueRevision = debt[d].overdueRevision
          /\ debt'[d].overdueAt = debt[d].overdueAt
       \/ debt[d].overdueRevision = Unset /\ debt'[d].overdueRevision > debt[d].revision
    /\ \/ /\ debt'[d].writtenOffRevision = debt[d].writtenOffRevision
          /\ debt'[d].writtenOffAt = debt[d].writtenOffAt
       \/ debt[d].writtenOffRevision = Unset /\ debt'[d].writtenOffRevision > debt[d].revision

\* The rows of one step: of its own revisions, each once, and telling how the
\* debt came from its status to the next.
Records(d, rows) ==
    /\ audits' = audits \cup rows
    /\ \A a \in rows : /\ a.debt = d /\ a.revision > debt[d].revision
                       /\ a.revision <= debt'[d].revision
                       /\ PayloadAccepts(a)'
    /\ \A a, b \in rows : a.type = b.type /\ a.revision = b.revision => a = b
    /\ \A a, b \in rows : Tells(a) /\ Tells(b) =>
         /\ a.revision = b.revision => a.from = b.from /\ a.to = b.to
         /\ a.revision = b.revision + 1 => a.from = b.to
    /\ \A a \in rows : Tells(a) =>
         /\ a.revision = debt[d].revision + 1 => a.from = debt[d].status
         /\ a.revision = debt'[d].revision => a.to = debt'[d].status
    /\ \A revision \in (debt[d].revision + 1)..debt'[d].revision :
         \E a \in rows : Tells(a) /\ a.revision = revision

\* A payment takes one revision, and one more for the marking of a late one.
PaymentRow(d, seen, basis, marking) ==
    /\ basis \in Bases /\ seen = debt[d].revision
    /\ debt[d].status \in {"active", "overdue", "written_off"}
    /\ IF marking
       THEN /\ debt[d].status = "active" /\ basis = "original"
            /\ debt'[d].revision = seen + 2
            /\ debt'[d].overdueRevision = seen + 1 /\ debt'[d].overdueAt = today
            /\ debt'[d].status \in {"overdue", "paid"}
       ELSE /\ debt'[d].revision = seen + 1
            /\ debt'[d].overdueRevision = debt[d].overdueRevision
            /\ debt'[d].overdueAt = debt[d].overdueAt
            /\ IF debt[d].status = "written_off"
               THEN debt'[d].status \in {"written_off", "written_off_settled"}
               ELSE debt'[d].status \in {debt[d].status, "paid"}
    /\ debt'[d].status = "paid" => debt'[d].paidAt = today
    /\ debt'[d].writtenOffAt = debt[d].writtenOffAt
    /\ debt'[d].writtenOffRevision = debt[d].writtenOffRevision
    /\ debt'[d].settledRevision =
         IF debt'[d].status = "written_off_settled" THEN debt'[d].revision ELSE Unset
    /\ debt'[d].status = "written_off_settled" => debt'[d].settledAt = today

PaymentEvents(d, marking) ==
    /\ IF marking THEN Gains(d, "overdue", debt[d].revision + 1, today) ELSE Same("overdue")
    /\ IF ~marking /\ debt'[d].status = "paid" /\ EarnsOnTimeBonus(d)
       THEN Gains(d, "on_time_paid", debt'[d].revision, today) ELSE Same("on_time_paid")
    /\ IF debt'[d].status = "written_off_settled"
       THEN Gains(d, "written_off_settled", debt'[d].revision, today)
       ELSE Same("written_off_settled")
    /\ Same("written_off") /\ Same("on_time_paid_voided") /\ Same("written_off_settled_voided")
    /\ ~marking /\ debt[d].status = "active" => Payable(d)

PaymentRows(d, marking) ==
    LET from == IF marking THEN "overdue" ELSE debt[d].status
        to == debt'[d].status
        revision == debt'[d].revision
    IN  (IF marking THEN OverduePair(d, debt[d].revision + 1, today, "active") ELSE {})
          \cup {UserAudit("payment.recorded", d, revision, from, to)}
          \cup (IF to = "paid" THEN {UserAudit("debt.paid", d, revision, "none", "none")} ELSE {})
          \cup (IF to = "written_off_settled"
                THEN {UserAudit("debt.written_off_settled", d, revision, "written_off", to)}
                ELSE {})

Pays(d, seen, basis, amount, marking) ==
    /\ amount \in Nat \ {0}
    /\ PaymentRow(d, seen, basis, marking)
    /\ Post(d, seen, basis, amount, debt'[d].revision)
    /\ PaymentEvents(d, marking)
    /\ audits' = audits \cup PaymentRows(d, marking)

\* A void takes one, also for the marking.
VoidRow(d) ==
    /\ debt'[d].revision = debt[d].revision + 1
    /\ debt'[d].status = ReopenedStatus(d)
    /\ IF ReopensOverdue(d)
       THEN debt'[d].overdueRevision = debt[d].revision + 1 /\ debt'[d].overdueAt = today
       ELSE /\ debt'[d].overdueRevision = debt[d].overdueRevision
            /\ debt'[d].overdueAt = debt[d].overdueAt
    /\ debt'[d].writtenOffAt = debt[d].writtenOffAt
    /\ debt'[d].writtenOffRevision = debt[d].writtenOffRevision
    /\ debt'[d].settledRevision = Unset

VoidEvents(d, p) ==
    LET earned == RewardSource(d, p) = "earned"
    IN  /\ IF earned /\ debt[d].status = "paid"
           THEN Gains(d, "on_time_paid_voided", p.revision, today)
           ELSE Same("on_time_paid_voided")
        /\ IF earned /\ debt[d].status = "written_off_settled"
           THEN Gains(d, "written_off_settled_voided", p.revision, today)
           ELSE Same("written_off_settled_voided")
        /\ IF ReopensOverdue(d)
           THEN Gains(d, "overdue", debt[d].revision + 1, today) ELSE Same("overdue")
        /\ Same("written_off") /\ Same("on_time_paid") /\ Same("written_off_settled")

VoidRows(d) ==
    VoidAudits(d, debt[d].revision + 1, ReopenedStatus(d))
      \cup (IF ReopensOverdue(d) THEN OverduePair(d, debt[d].revision + 1, today, "paid") ELSE {})

Undoes(d, p) ==
    /\ IsLatest(d, p) /\ RewardSource(d, p) # "inconsistent"
    /\ VoidRow(d)
    /\ voids' = voids \cup
         {[debt |-> d, payment |-> p.revision, revision |-> debt[d].revision + 1, at |-> today]}
    /\ keys' = keys \cup
         {[endpoint |-> "void", debt |-> d, seen |-> debt[d].revision, basis |-> "none",
           amount |-> 0, result |-> p.revision]}
    /\ VoidEvents(d, p)
    /\ audits' = audits \cup VoidRows(d)
    /\ UNCHANGED <<today, payments>>

\* The batch marks a debt.
Marks(d, day) ==
    /\ day \in Nat
    /\ debt[d].status = "active" /\ debt'[d].status = "overdue"
    /\ debt'[d].revision = debt[d].revision + 1
    /\ debt'[d].overdueRevision = debt[d].revision + 1 /\ debt'[d].overdueAt = day
    /\ debt'[d].writtenOffAt = debt[d].writtenOffAt
    /\ debt'[d].writtenOffRevision = debt[d].writtenOffRevision
    /\ debt'[d].settledRevision = debt[d].settledRevision
    /\ Gains(d, "overdue", debt[d].revision + 1, day)
    /\ \A type \in EventTypes \ {"overdue"} : Same(type)
    /\ audits' = audits \cup OverduePair(d, debt[d].revision + 1, day, "active")
    /\ UNCHANGED <<today, payments, voids, keys>>

\* An administrator gives a debt up.
GivesUp(d) ==
    /\ debt[d].status = "overdue" /\ debt'[d].status = "written_off"
    /\ debt'[d].revision = debt[d].revision + 1
    /\ debt'[d].overdueRevision = debt[d].overdueRevision /\ debt'[d].overdueAt = debt[d].overdueAt
    /\ debt'[d].writtenOffAt = today /\ debt'[d].writtenOffRevision = debt[d].revision + 1
    /\ debt'[d].settledRevision = debt[d].settledRevision
    /\ keys' = keys \cup
         {[endpoint |-> "write_off", debt |-> d, seen |-> debt[d].revision, basis |-> "none",
           amount |-> 0, result |-> debt[d].revision + 1]}
    /\ Gains(d, "written_off", debt[d].revision + 1, today)
    /\ \A type \in EventTypes \ {"written_off"} : Same(type)
    /\ audits' = audits \cup
         {UserAudit("debt.written_off", d, debt[d].revision + 1, "overdue", "written_off")}
    /\ UNCHANGED <<today, payments, voids>>

-----------------------------------------------------------------------------
(* A column at a time.                                                     *)

\* A row stays one when its status is written.
LEMMA StatusColumn ==
    ASSUME NEW f \in [Debts -> DebtRow], NEW d \in Debts, NEW x \in Statuses
    PROVE  [f EXCEPT ![d].status = x] \in [Debts -> DebtRow]
<1>1. [f[d] EXCEPT !.status = x] \in DebtRow
  BY DEF DebtRow
<1> QED
  BY <1>1

\* A row stays one when its revision is written.
LEMMA RevisionColumn ==
    ASSUME NEW f \in [Debts -> DebtRow], NEW d \in Debts, NEW x \in Nat
    PROVE  [f EXCEPT ![d].revision = x] \in [Debts -> DebtRow]
<1>1. [f[d] EXCEPT !.revision = x] \in DebtRow
  BY DEF DebtRow
<1> QED
  BY <1>1

\* A row stays one when its updatedAt is written.
LEMMA UpdatedColumn ==
    ASSUME NEW f \in [Debts -> DebtRow], NEW d \in Debts, NEW x \in Int
    PROVE  [f EXCEPT ![d].updatedAt = x] \in [Debts -> DebtRow]
<1>1. [f[d] EXCEPT !.updatedAt = x] \in DebtRow
  BY DEF DebtRow
<1> QED
  BY <1>1

\* A row stays one when its paidAt is written.
LEMMA PaidColumn ==
    ASSUME NEW f \in [Debts -> DebtRow], NEW d \in Debts, NEW x \in Int
    PROVE  [f EXCEPT ![d].paidAt = x] \in [Debts -> DebtRow]
<1>1. [f[d] EXCEPT !.paidAt = x] \in DebtRow
  BY DEF DebtRow
<1> QED
  BY <1>1

\* A row stays one when its overdueAt is written.
LEMMA OverdueAtColumn ==
    ASSUME NEW f \in [Debts -> DebtRow], NEW d \in Debts, NEW x \in Int
    PROVE  [f EXCEPT ![d].overdueAt = x] \in [Debts -> DebtRow]
<1>1. [f[d] EXCEPT !.overdueAt = x] \in DebtRow
  BY DEF DebtRow
<1> QED
  BY <1>1

\* A row stays one when its overdueRevision is written.
LEMMA OverdueRevisionColumn ==
    ASSUME NEW f \in [Debts -> DebtRow], NEW d \in Debts, NEW x \in Int
    PROVE  [f EXCEPT ![d].overdueRevision = x] \in [Debts -> DebtRow]
<1>1. [f[d] EXCEPT !.overdueRevision = x] \in DebtRow
  BY DEF DebtRow
<1> QED
  BY <1>1

\* A row stays one when its writtenOffAt is written.
LEMMA WrittenOffAtColumn ==
    ASSUME NEW f \in [Debts -> DebtRow], NEW d \in Debts, NEW x \in Int
    PROVE  [f EXCEPT ![d].writtenOffAt = x] \in [Debts -> DebtRow]
<1>1. [f[d] EXCEPT !.writtenOffAt = x] \in DebtRow
  BY DEF DebtRow
<1> QED
  BY <1>1

\* A row stays one when its writtenOffRevision is written.
LEMMA WrittenOffRevisionColumn ==
    ASSUME NEW f \in [Debts -> DebtRow], NEW d \in Debts, NEW x \in Int
    PROVE  [f EXCEPT ![d].writtenOffRevision = x] \in [Debts -> DebtRow]
<1>1. [f[d] EXCEPT !.writtenOffRevision = x] \in DebtRow
  BY DEF DebtRow
<1> QED
  BY <1>1

\* A row stays one when its settledAt is written.
LEMMA SettledAtColumn ==
    ASSUME NEW f \in [Debts -> DebtRow], NEW d \in Debts, NEW x \in Int
    PROVE  [f EXCEPT ![d].settledAt = x] \in [Debts -> DebtRow]
<1>1. [f[d] EXCEPT !.settledAt = x] \in DebtRow
  BY DEF DebtRow
<1> QED
  BY <1>1

\* A row stays one when its settledRevision is written.
LEMMA SettledRevisionColumn ==
    ASSUME NEW f \in [Debts -> DebtRow], NEW d \in Debts, NEW x \in Int
    PROVE  [f EXCEPT ![d].settledRevision = x] \in [Debts -> DebtRow]
<1>1. [f[d] EXCEPT !.settledRevision = x] \in DebtRow
  BY DEF DebtRow
<1> QED
  BY <1>1

-----------------------------------------------------------------------------
(* An event at a time.                                                     *)

\* Nothing is appended.
LEMMA KeepsSame ==
    ASSUME events' = events
    PROVE  \A type : Same(type)
BY DEF Same, Has

\* One event is appended.
LEMMA AppendGains ==
    ASSUME events \in [Debts -> Seq(RatingEvent)], NEW d \in Debts, NEW e \in RatingEvent,
           events' = [events EXCEPT ![d] = Append(@, e)]
    PROVE  /\ events' \in [Debts -> Seq(RatingEvent)]
           /\ Gains(d, e.type, e.source, e.at)
           /\ \A type \in EventTypes \ {e.type} : Same(type)
<1> DEFINE n == Len(events[d]) + 1
<1>1. events[d] \in Seq(RatingEvent) /\ n \in Nat
  OBVIOUS
<1>2. events'[d] = Append(events[d], e) /\ \A c \in Debts \ {d} : events'[c] = events[c]
  OBVIOUS
<1>3. /\ DOMAIN events'[d] = DOMAIN events[d] \cup {n}
      /\ \A i \in DOMAIN events[d] : events'[d][i] = events[d][i]
      /\ events'[d][n] = e /\ n \notin DOMAIN events[d]
  BY <1>1, <1>2
<1>4. events' \in [Debts -> Seq(RatingEvent)]
  BY <1>1
<1>5. ASSUME NEW type, NEW c \in Debts \ {d}
      PROVE  Has(c, type)' = Has(c, type) /\ \A i \in Has(c, type) : events'[c][i] = events[c][i]
  BY <1>2 DEF Has
<1>6. ASSUME NEW type, type # e.type
      PROVE  Has(d, type)' = Has(d, type) /\ \A i \in Has(d, type) : events'[d][i] = events[d][i]
  BY <1>3, <1>6 DEF Has
<1>7. /\ n \notin Has(d, e.type) /\ Has(d, e.type)' = Has(d, e.type) \cup {n}
      /\ \A i \in Has(d, e.type) : events'[d][i] = events[d][i]
  BY <1>3 DEF Has
<1>8. Gains(d, e.type, e.source, e.at)
  BY <1>1, <1>3, <1>5, <1>7 DEF Gains
<1>9. \A type \in EventTypes \ {e.type} : Same(type)
  BY <1>5, <1>6 DEF Same
<1> QED
  BY <1>4, <1>8, <1>9

\* Two events of different types are appended.
LEMMA AppendTwoGains ==
    ASSUME events \in [Debts -> Seq(RatingEvent)], NEW d \in Debts,
           NEW e \in RatingEvent, NEW o \in RatingEvent, e.type # o.type,
           events' = [events EXCEPT ![d] = Append(Append(@, e), o)]
    PROVE  /\ events' \in [Debts -> Seq(RatingEvent)]
           /\ Gains(d, e.type, e.source, e.at) /\ Gains(d, o.type, o.source, o.at)
           /\ \A type \in EventTypes \ {e.type, o.type} : Same(type)
<1> DEFINE n == Len(events[d]) + 1
           m == Len(events[d]) + 2
<1>1. events[d] \in Seq(RatingEvent) /\ n \in Nat /\ m \in Nat
  OBVIOUS
<1>2. /\ events'[d] = Append(Append(events[d], e), o)
      /\ \A c \in Debts \ {d} : events'[c] = events[c]
  OBVIOUS
<1>3. /\ DOMAIN events'[d] = DOMAIN events[d] \cup {n, m}
      /\ \A i \in DOMAIN events[d] : events'[d][i] = events[d][i]
      /\ events'[d][n] = e /\ events'[d][m] = o
      /\ n \notin DOMAIN events[d] /\ m \notin DOMAIN events[d] /\ n # m
  BY <1>1, <1>2
<1>4. events' \in [Debts -> Seq(RatingEvent)]
  BY <1>1
<1>5. ASSUME NEW type, NEW c \in Debts \ {d}
      PROVE  Has(c, type)' = Has(c, type) /\ \A i \in Has(c, type) : events'[c][i] = events[c][i]
  BY <1>2 DEF Has
<1>6. ASSUME NEW type, type # e.type, type # o.type
      PROVE  Has(d, type)' = Has(d, type) /\ \A i \in Has(d, type) : events'[d][i] = events[d][i]
  BY <1>3, <1>6 DEF Has
<1>7. /\ n \notin Has(d, e.type) /\ Has(d, e.type)' = Has(d, e.type) \cup {n}
      /\ \A i \in Has(d, e.type) : events'[d][i] = events[d][i]
  BY <1>3 DEF Has
<1>8. /\ m \notin Has(d, o.type) /\ Has(d, o.type)' = Has(d, o.type) \cup {m}
      /\ \A i \in Has(d, o.type) : events'[d][i] = events[d][i]
  BY <1>3 DEF Has
<1>9. Gains(d, e.type, e.source, e.at) /\ Gains(d, o.type, o.source, o.at)
  BY <1>1, <1>3, <1>5, <1>7, <1>8 DEF Gains
<1>10. \A type \in EventTypes \ {e.type, o.type} : Same(type)
  BY <1>5, <1>6 DEF Same
<1> QED
  BY <1>4, <1>9, <1>10

-----------------------------------------------------------------------------
(* The actions.                                                            *)

Others(d) == \A c \in Debts \ {d} : debt'[c] = debt[c]

\* A payment on time is one.
LEMMA OnTimePays ==
    ASSUME Types, NEW d \in Debts, RowInv(d), NEW seen \in Nat, NEW basis \in Bases,
           NEW amount \in 1..OriginalAmount[d], RecordPayment(d, seen, basis, amount)
    PROVE  Types' /\ Others(d) /\ Pays(d, seen, basis, amount, FALSE)
<1> DEFINE full == amount = Remaining(d)
           f1 == [debt EXCEPT ![d].status = IF full THEN "paid" ELSE @]
           f2 == [f1 EXCEPT ![d].revision = debt[d].revision + 1]
           f3 == [f2 EXCEPT ![d].updatedAt = today]
           f4 == [f3 EXCEPT ![d].paidAt = IF full THEN today ELSE Unset]
<1>1. /\ debt \in [Debts -> DebtRow] /\ debt[d] \in DebtRow /\ today \in Nat
      /\ amount \in Nat \ {0} /\ debt[d].revision + 1 \in Nat
      /\ (IF full THEN today ELSE Unset) \in Int
  <2>1. debt \in [Debts -> DebtRow] /\ debt[d] \in DebtRow /\ today \in Nat
    BY DEF Types
  <2>2. amount \in Nat \ {0}
    BY DebtsAssumption
  <2>3. debt[d].revision + 1 \in Nat
    BY <2>1 DEF DebtRow
  <2>4. (IF full THEN today ELSE Unset) \in Int
    <3> HIDE DEF full
    <3> QED
      BY <2>1 DEF Unset
  <2> QED
    BY <2>1, <2>2, <2>3, <2>4
<1>2. debt' \in [Debts -> DebtRow]
  <2>1. f1 \in [Debts -> DebtRow]
    BY <1>1, StatusColumn DEF Statuses, DebtRow
  <2>2. f2 \in [Debts -> DebtRow]
    <3> HIDE DEF f1
    <3> QED
      BY <1>1, <2>1, RevisionColumn
  <2>3. f3 \in [Debts -> DebtRow]
    <3> HIDE DEF f2
    <3> QED
      BY <1>1, <2>2, UpdatedColumn
  <2>4. f4 \in [Debts -> DebtRow]
    <3> HIDE DEF f3, full
    <3> QED
      BY <1>1, <2>3, PaidColumn
  <2>5. debt' = f4
    BY DEF RecordPayment
  <2> QED
    BY <2>4, <2>5
<1>3. Others(d)
  BY <1>1 DEF RecordPayment, Others
<1>4. /\ debt'[d].status = IF full THEN "paid" ELSE debt[d].status
      /\ debt'[d].revision = debt[d].revision + 1
      /\ debt'[d].paidAt = IF full THEN today ELSE Unset
      /\ debt'[d].overdueAt = debt[d].overdueAt
      /\ debt'[d].overdueRevision = debt[d].overdueRevision
      /\ debt'[d].writtenOffAt = debt[d].writtenOffAt
      /\ debt'[d].writtenOffRevision = debt[d].writtenOffRevision
      /\ debt'[d].settledAt = debt[d].settledAt
      /\ debt'[d].settledRevision = debt[d].settledRevision
  BY <1>1 DEF RecordPayment, DebtRow
<1>5. /\ Submits(d, seen, basis) /\ debt[d].status \in {"active", "overdue"}
      /\ ~PastDueActive(d, today)
      /\ Post(d, seen, basis, amount, debt[d].revision + 1)
      /\ events' = IF full /\ EarnsOnTimeBonus(d)
                   THEN [events EXCEPT ![d] = Append(@, Event("on_time_paid", debt[d].revision + 1))]
                   ELSE events
      /\ audits' = audits \cup PaymentAudits(d, debt[d].revision + 1, full, debt[d].status)
  BY DEF RecordPayment
<1> HIDE DEF full
<1>6. PaymentRow(d, seen, basis, FALSE)
  BY <1>1, <1>4, <1>5 DEF PaymentRow, Submits, RowInv
<1>7. Post(d, seen, basis, amount, debt'[d].revision)
  BY <1>4, <1>5
<1>8. debt[d].status = "active" => Payable(d)
  BY <1>5, <1>1, DebtsAssumption DEF PastDueActive, Payable
<1>9. /\ events' \in [Debts -> Seq(RatingEvent)]
      /\ PaymentEvents(d, FALSE)
  <2>1. CASE full /\ EarnsOnTimeBonus(d)
    <3> DEFINE e == Event("on_time_paid", debt[d].revision + 1)
    <3>1. e \in RatingEvent /\ e.type = "on_time_paid"
          /\ e.source = debt[d].revision + 1 /\ e.at = today
      BY <1>1 DEF Event, RatingEvent, EventTypes
    <3>2. events' = [events EXCEPT ![d] = Append(@, e)]
      BY <1>5, <2>1
    <3>3. /\ events' \in [Debts -> Seq(RatingEvent)]
          /\ Gains(d, e.type, e.source, e.at)
          /\ \A type \in EventTypes \ {e.type} : Same(type)
      <4> HIDE DEF e
      <4> QED
        BY <3>1, <3>2, AppendGains DEF Types
    <3>4. Gains(d, "on_time_paid", debt'[d].revision, today)
      BY <3>1, <3>3, <1>4
    <3>5. \A type \in EventTypes \ {"on_time_paid"} : Same(type)
      BY <3>1, <3>3
    <3> QED
      BY <1>4, <1>5, <1>8, <2>1, <3>3, <3>4, <3>5 DEF PaymentEvents, EventTypes
  <2>2. CASE ~(full /\ EarnsOnTimeBonus(d))
    <3>1. \A type : Same(type)
      BY <1>5, <2>2, KeepsSame
    <3>2. ~(debt'[d].status = "paid" /\ EarnsOnTimeBonus(d)) /\ debt'[d].status # "written_off_settled"
      BY <1>4, <1>5, <2>2
    <3> QED
      BY <1>5, <1>8, <2>2, <3>1, <3>2 DEF PaymentEvents, Types
  <2> QED
    BY <2>1, <2>2
<1>10. audits' = audits \cup PaymentRows(d, FALSE)
  <2>1. CASE full
    BY <1>4, <1>5, <2>1 DEF PaymentRows, PaymentAudits
  <2>2. CASE ~full
    <3>1. debt'[d].status = debt[d].status /\ debt'[d].status \notin {"paid", "written_off_settled"}
      BY <1>4, <1>5, <2>2
    <3> QED
      BY <1>4, <1>5, <2>2, <3>1 DEF PaymentRows, PaymentAudits
  <2> QED
    BY <2>1, <2>2
<1>11. PaymentAudits(d, debt[d].revision + 1, full, debt[d].status) \subseteq AuditRow
  BY <1>1, <1>5 DEF PaymentAudits, UserAudit, Audit, AuditRow, AuditTypes, Statuses
<1>12. Types'
  BY <1>1, <1>2, <1>5, <1>9, <1>11 DEF Types, Post, Payment, Key
<1> QED
  BY <1>1, <1>3, <1>6, <1>7, <1>9, <1>10, <1>12 DEF Pays

\* A late payment is one, with its marking.
LEMMA LatePays ==
    ASSUME Types, NEW d \in Debts, RowInv(d), NEW seen \in Nat, NEW basis \in Bases,
           NEW amount \in 1..OriginalAmount[d], RecordLatePayment(d, seen, basis, amount)
    PROVE  Types' /\ Others(d) /\ Pays(d, seen, basis, amount, TRUE)
<1> DEFINE full == amount = Remaining(d)
           f1 == [debt EXCEPT ![d].status = IF full THEN "paid" ELSE "overdue"]
           f2 == [f1 EXCEPT ![d].revision = debt[d].revision + 2]
           f3 == [f2 EXCEPT ![d].updatedAt = today]
           f4 == [f3 EXCEPT ![d].overdueAt = today]
           f5 == [f4 EXCEPT ![d].overdueRevision = debt[d].revision + 1]
           f6 == [f5 EXCEPT ![d].paidAt = IF full THEN today ELSE Unset]
<1>1. /\ debt \in [Debts -> DebtRow] /\ debt[d] \in DebtRow /\ today \in Nat
      /\ amount \in Nat \ {0} /\ debt[d].revision + 1 \in Nat /\ debt[d].revision + 2 \in Nat
      /\ (IF full THEN today ELSE Unset) \in Int
  <2>1. debt \in [Debts -> DebtRow] /\ debt[d] \in DebtRow /\ today \in Nat
    BY DEF Types
  <2>2. amount \in Nat \ {0}
    BY DebtsAssumption
  <2>3. debt[d].revision + 1 \in Nat /\ debt[d].revision + 2 \in Nat
    BY <2>1 DEF DebtRow
  <2>4. (IF full THEN today ELSE Unset) \in Int
    <3> HIDE DEF full
    <3> QED
      BY <2>1 DEF Unset
  <2> QED
    BY <2>1, <2>2, <2>3, <2>4
<1>2. debt' \in [Debts -> DebtRow]
  <2>1. f1 \in [Debts -> DebtRow]
    BY <1>1, StatusColumn DEF Statuses, DebtRow
  <2>2. f2 \in [Debts -> DebtRow]
    <3> HIDE DEF f1
    <3> QED
      BY <1>1, <2>1, RevisionColumn
  <2>3. f3 \in [Debts -> DebtRow]
    <3> HIDE DEF f2
    <3> QED
      BY <1>1, <2>2, UpdatedColumn
  <2>4. f4 \in [Debts -> DebtRow]
    <3> HIDE DEF f3
    <3> QED
      BY <1>1, <2>3, OverdueAtColumn
  <2>5. f5 \in [Debts -> DebtRow]
    <3> HIDE DEF f4
    <3> QED
      BY <1>1, <2>4, OverdueRevisionColumn
  <2>6. f6 \in [Debts -> DebtRow]
    <3> HIDE DEF f5, full
    <3> QED
      BY <1>1, <2>5, PaidColumn
  <2>7. debt' = f6
    BY DEF RecordLatePayment
  <2> QED
    BY <2>6, <2>7
<1>3. Others(d)
  BY <1>1 DEF RecordLatePayment, Others
<1>4. /\ debt'[d].status = IF full THEN "paid" ELSE "overdue"
      /\ debt'[d].revision = debt[d].revision + 2
      /\ debt'[d].paidAt = IF full THEN today ELSE Unset
      /\ debt'[d].overdueAt = today
      /\ debt'[d].overdueRevision = debt[d].revision + 1
      /\ debt'[d].writtenOffAt = debt[d].writtenOffAt
      /\ debt'[d].writtenOffRevision = debt[d].writtenOffRevision
      /\ debt'[d].settledAt = debt[d].settledAt
      /\ debt'[d].settledRevision = debt[d].settledRevision
  BY <1>1 DEF RecordLatePayment, DebtRow
<1>5. /\ Submits(d, seen, basis) /\ PastDueActive(d, today)
      /\ Post(d, seen, basis, amount, debt[d].revision + 2)
      /\ events' = [events EXCEPT ![d] = Append(@, Event("overdue", debt[d].revision + 1))]
      /\ audits' = audits \cup OverduePair(d, debt[d].revision + 1, today, "active")
                          \cup PaymentAudits(d, debt[d].revision + 2, full, "overdue")
  BY DEF RecordLatePayment
<1> HIDE DEF full
<1>6. debt[d].status = "active" /\ basis = "original" /\ seen = debt[d].revision
  BY <1>1, <1>5, DebtsAssumption DEF PastDueActive, Submits, BasisNow, Payable
<1>7. PaymentRow(d, seen, basis, TRUE)
  BY <1>1, <1>4, <1>6 DEF PaymentRow, RowInv
<1>8. Post(d, seen, basis, amount, debt'[d].revision)
  BY <1>4, <1>5
<1>9. /\ events' \in [Debts -> Seq(RatingEvent)]
      /\ PaymentEvents(d, TRUE)
  <2> DEFINE e == Event("overdue", debt[d].revision + 1)
  <2>1. e \in RatingEvent /\ e.type = "overdue"
        /\ e.source = debt[d].revision + 1 /\ e.at = today
    BY <1>1 DEF Event, RatingEvent, EventTypes
  <2>2. events' = [events EXCEPT ![d] = Append(@, e)]
    BY <1>5
  <2>3. /\ events' \in [Debts -> Seq(RatingEvent)]
        /\ Gains(d, e.type, e.source, e.at)
        /\ \A type \in EventTypes \ {e.type} : Same(type)
    <3> HIDE DEF e
    <3> QED
      BY <2>1, <2>2, AppendGains DEF Types
  <2>4. Gains(d, "overdue", debt[d].revision + 1, today)
        /\ \A type \in EventTypes \ {"overdue"} : Same(type)
    BY <2>1, <2>3
  <2> QED
    BY <1>4, <2>3, <2>4 DEF PaymentEvents, EventTypes
<1>10. audits' = audits \cup PaymentRows(d, TRUE)
  <2>1. CASE full
    BY <1>4, <1>5, <2>1 DEF PaymentRows, PaymentAudits
  <2>2. CASE ~full
    <3>1. debt'[d].status = "overdue"
      BY <1>4, <2>2
    <3> QED
      BY <1>4, <1>5, <2>2, <3>1 DEF PaymentRows, PaymentAudits
  <2> QED
    BY <2>1, <2>2
<1>11. /\ PaymentAudits(d, debt[d].revision + 2, full, "overdue") \subseteq AuditRow
       /\ OverduePair(d, debt[d].revision + 1, today, "active") \subseteq AuditRow
  BY <1>1 DEF PaymentAudits, OverduePair, UserAudit, Audit, AuditRow, AuditTypes, Statuses, Bases
<1>12. Types'
  BY <1>1, <1>2, <1>5, <1>9, <1>11 DEF Types, Post, Payment, Key
<1> QED
  BY <1>1, <1>3, <1>7, <1>8, <1>9, <1>10, <1>12 DEF Pays

\* A recovery is one.
LEMMA RecoveryPays ==
    ASSUME Types, NEW d \in Debts, RowInv(d), NEW seen \in Nat, NEW basis \in Bases,
           NEW amount \in 1..OriginalAmount[d], RecordRecovery(d, seen, basis, amount)
    PROVE  Types' /\ Others(d) /\ Pays(d, seen, basis, amount, FALSE)
<1> DEFINE full == amount = Remaining(d)
           f1 == [debt EXCEPT ![d].status = IF full THEN "written_off_settled" ELSE @]
           f2 == [f1 EXCEPT ![d].revision = debt[d].revision + 1]
           f3 == [f2 EXCEPT ![d].updatedAt = today]
           f4 == [f3 EXCEPT ![d].settledAt = IF full THEN today ELSE Unset]
           f5 == [f4 EXCEPT ![d].settledRevision = IF full THEN debt[d].revision + 1 ELSE Unset]
<1>1. /\ debt \in [Debts -> DebtRow] /\ debt[d] \in DebtRow /\ today \in Nat
      /\ amount \in Nat \ {0} /\ debt[d].revision + 1 \in Nat
      /\ (IF full THEN today ELSE Unset) \in Int
      /\ (IF full THEN debt[d].revision + 1 ELSE Unset) \in Int
  <2>1. debt \in [Debts -> DebtRow] /\ debt[d] \in DebtRow /\ today \in Nat
    BY DEF Types
  <2>2. amount \in Nat \ {0}
    BY DebtsAssumption
  <2>3. debt[d].revision + 1 \in Nat
    BY <2>1 DEF DebtRow
  <2>4. (IF full THEN today ELSE Unset) \in Int
        /\ (IF full THEN debt[d].revision + 1 ELSE Unset) \in Int
    <3> HIDE DEF full
    <3> QED
      BY <2>1, <2>3 DEF Unset
  <2> QED
    BY <2>1, <2>2, <2>3, <2>4
<1>2. debt' \in [Debts -> DebtRow]
  <2>1. f1 \in [Debts -> DebtRow]
    BY <1>1, StatusColumn DEF Statuses, DebtRow
  <2>2. f2 \in [Debts -> DebtRow]
    <3> HIDE DEF f1
    <3> QED
      BY <1>1, <2>1, RevisionColumn
  <2>3. f3 \in [Debts -> DebtRow]
    <3> HIDE DEF f2
    <3> QED
      BY <1>1, <2>2, UpdatedColumn
  <2>4. f4 \in [Debts -> DebtRow]
    <3> HIDE DEF f3, full
    <3> QED
      BY <1>1, <2>3, SettledAtColumn
  <2>5. f5 \in [Debts -> DebtRow]
    <3> HIDE DEF f4, full
    <3> QED
      BY <1>1, <2>4, SettledRevisionColumn
  <2>6. debt' = f5
    BY DEF RecordRecovery
  <2> QED
    BY <2>5, <2>6
<1>3. Others(d)
  BY <1>1 DEF RecordRecovery, Others
<1>4. /\ debt'[d].status = IF full THEN "written_off_settled" ELSE debt[d].status
      /\ debt'[d].revision = debt[d].revision + 1
      /\ debt'[d].paidAt = debt[d].paidAt
      /\ debt'[d].overdueAt = debt[d].overdueAt
      /\ debt'[d].overdueRevision = debt[d].overdueRevision
      /\ debt'[d].writtenOffAt = debt[d].writtenOffAt
      /\ debt'[d].writtenOffRevision = debt[d].writtenOffRevision
      /\ debt'[d].settledAt = IF full THEN today ELSE Unset
      /\ debt'[d].settledRevision = IF full THEN debt[d].revision + 1 ELSE Unset
  BY <1>1 DEF RecordRecovery, DebtRow
<1>5. /\ Submits(d, seen, basis) /\ debt[d].status = "written_off"
      /\ Post(d, seen, basis, amount, debt[d].revision + 1)
      /\ events' = IF full
                   THEN [events EXCEPT ![d] =
                           Append(@, Event("written_off_settled", debt[d].revision + 1))]
                   ELSE events
      /\ audits' = audits \cup RecoveryAudits(d, debt[d].revision + 1, full)
  BY DEF RecordRecovery
<1> HIDE DEF full
<1>6. PaymentRow(d, seen, basis, FALSE)
  BY <1>1, <1>4, <1>5 DEF PaymentRow, Submits, RowInv
<1>7. Post(d, seen, basis, amount, debt'[d].revision)
  BY <1>4, <1>5
<1>8. debt[d].status # "active" /\ debt'[d].status # "paid"
  BY <1>4, <1>5
<1>9. /\ events' \in [Debts -> Seq(RatingEvent)]
      /\ PaymentEvents(d, FALSE)
  <2>1. CASE full
    <3> DEFINE e == Event("written_off_settled", debt[d].revision + 1)
    <3>1. e \in RatingEvent /\ e.type = "written_off_settled"
          /\ e.source = debt[d].revision + 1 /\ e.at = today
      BY <1>1 DEF Event, RatingEvent, EventTypes
    <3>2. events' = [events EXCEPT ![d] = Append(@, e)]
      BY <1>5, <2>1
    <3>3. /\ events' \in [Debts -> Seq(RatingEvent)]
          /\ Gains(d, e.type, e.source, e.at)
          /\ \A type \in EventTypes \ {e.type} : Same(type)
      <4> HIDE DEF e
      <4> QED
        BY <3>1, <3>2, AppendGains DEF Types
    <3>4. Gains(d, "written_off_settled", debt'[d].revision, today)
      BY <3>1, <3>3, <1>4
    <3>5. \A type \in EventTypes \ {"written_off_settled"} : Same(type)
      BY <3>1, <3>3
    <3> QED
      BY <1>4, <1>8, <2>1, <3>3, <3>4, <3>5 DEF PaymentEvents, EventTypes
  <2>2. CASE ~full
    <3>1. \A type : Same(type)
      BY <1>5, <2>2, KeepsSame
    <3>2. debt'[d].status # "written_off_settled"
      BY <1>4, <1>5, <2>2
    <3> QED
      BY <1>5, <1>8, <2>2, <3>1, <3>2 DEF PaymentEvents, Types
  <2> QED
    BY <2>1, <2>2
<1>10. audits' = audits \cup PaymentRows(d, FALSE)
  <2>1. CASE full
    BY <1>4, <1>5, <2>1 DEF PaymentRows, RecoveryAudits
  <2>2. CASE ~full
    <3>1. debt'[d].status = "written_off"
      BY <1>4, <1>5, <2>2
    <3> QED
      BY <1>4, <1>5, <2>2, <3>1 DEF PaymentRows, RecoveryAudits
  <2> QED
    BY <2>1, <2>2
<1>11. RecoveryAudits(d, debt[d].revision + 1, full) \subseteq AuditRow
  BY <1>1, <1>5 DEF RecoveryAudits, UserAudit, Audit, AuditRow, AuditTypes, Statuses
<1>12. Types'
  BY <1>1, <1>2, <1>5, <1>9, <1>11 DEF Types, Post, Payment, Key
<1> QED
  BY <1>1, <1>3, <1>6, <1>7, <1>9, <1>10, <1>12 DEF Pays

\* A void is one.
LEMMA VoidUndoes ==
    ASSUME Types, NEW d \in Debts, RowInv(d), NEW p \in payments, NEW seen \in Nat,
           VoidPayment(d, p, seen)
    PROVE  Types' /\ Others(d) /\ Undoes(d, p)
<1> DEFINE revision == debt[d].revision + 1
           r1 == [debt[d] EXCEPT !.status = ReopenedStatus(d)]
           r2 == [r1 EXCEPT !.revision = revision]
           r3 == [r2 EXCEPT !.updatedAt = today]
           r4 == [r3 EXCEPT !.paidAt = Unset]
           r5 == [r4 EXCEPT !.overdueAt = IF ReopensOverdue(d) THEN today ELSE @]
           r6 == [r5 EXCEPT !.overdueRevision = IF ReopensOverdue(d) THEN revision ELSE @]
           r7 == [r6 EXCEPT !.settledAt = Unset]
           r8 == [r7 EXCEPT !.settledRevision = Unset]
<1>1. debt \in [Debts -> DebtRow] /\ debt[d] \in DebtRow /\ today \in Nat /\ p \in Payment
  BY DEF Types
<1>2. revision \in Nat /\ debt[d].status \in Statuses /\ ReopenedStatus(d) \in Statuses /\ Unset \in Int
  <2>1. revision \in Nat /\ debt[d].status \in Statuses /\ Unset \in Int
    BY <1>1 DEF DebtRow, Unset
  <2> QED
    BY <2>1 DEF ReopenedStatus, Statuses
<1>3. r8 \in DebtRow
  <2>1. r1 \in DebtRow
    <3> HIDE DEF revision
    <3> QED
      BY <1>1, <1>2 DEF DebtRow
  <2>2. r2 \in DebtRow
    <3> HIDE DEF r1, revision
    <3> QED
      BY <1>1, <1>2, <2>1 DEF DebtRow
  <2>3. r3 \in DebtRow
    <3> HIDE DEF r2, revision
    <3> QED
      BY <1>1, <1>2, <2>2 DEF DebtRow
  <2>4. r4 \in DebtRow
    <3> HIDE DEF r3, revision
    <3> QED
      BY <1>1, <1>2, <2>3 DEF DebtRow
  <2>5. r5 \in DebtRow
    <3> HIDE DEF r4, revision
    <3> QED
      BY <1>1, <1>2, <2>4 DEF DebtRow
  <2>6. r6 \in DebtRow
    <3> HIDE DEF r5, revision
    <3> QED
      BY <1>1, <1>2, <2>5 DEF DebtRow
  <2>7. r7 \in DebtRow
    <3> HIDE DEF r6, revision
    <3> QED
      BY <1>1, <1>2, <2>6 DEF DebtRow
  <2>8. r8 \in DebtRow
    <3> HIDE DEF r7, revision
    <3> QED
      BY <1>1, <1>2, <2>7 DEF DebtRow
  <2> QED
    BY <2>8
<1>4. debt' = [debt EXCEPT ![d] = r8]
  BY DEF VoidPayment
<1>5. debt' \in [Debts -> DebtRow] /\ Others(d)
  <2> HIDE DEF r8
  <2> QED
    BY <1>1, <1>3, <1>4 DEF Others
<1>6. VoidRow(d)
  BY <1>1 DEF VoidPayment, VoidRow, DebtRow
<1>7. /\ IsLatest(d, p) /\ RewardSource(d, p) # "inconsistent" /\ seen = debt[d].revision
      /\ debt[d].status \in {"active", "overdue", "paid", "written_off", "written_off_settled"}
      /\ voids' = voids \cup
           {[debt |-> d, payment |-> p.revision, revision |-> revision, at |-> today]}
      /\ events' = [events EXCEPT ![d] = @ \o Compensation(d, p)
           \o (IF ReopensOverdue(d) THEN <<Event("overdue", revision)>> ELSE <<>>)]
      /\ audits' = audits \cup VoidAudits(d, revision, ReopenedStatus(d))
           \cup (IF ReopensOverdue(d) THEN OverduePair(d, revision, today, "paid") ELSE {})
      /\ keys' = keys \cup
           {[endpoint |-> "void", debt |-> d, seen |-> seen, basis |-> "none",
             amount |-> 0, result |-> p.revision]}
      /\ UNCHANGED <<today, payments, candidates>>
  BY DEF VoidPayment, Voidable
<1>8. events' \in [Debts -> Seq(RatingEvent)] /\ VoidEvents(d, p)
  <2> DEFINE e == Event(VoidedReward(debt[d].status), p.revision)
             o == Event("overdue", revision)
             earned == RewardSource(d, p) = "earned"
  <2>1. /\ e \in RatingEvent /\ o \in RatingEvent /\ e.type # o.type
        /\ e.type = VoidedReward(debt[d].status) /\ e.source = p.revision /\ e.at = today
        /\ o.type = "overdue" /\ o.source = revision /\ o.at = today
    <3>1. p.revision \in Nat
      BY <1>1 DEF Payment
    <3> QED
      BY <1>1, <1>2, <3>1 DEF Event, RatingEvent, EventTypes, VoidedReward
  <2>2. earned => debt[d].status \in {"paid", "written_off_settled"}
    BY DEF RewardSource, RewardOf
  <2>3. ReopensOverdue(d) => debt[d].status = "paid"
    BY DEF ReopensOverdue
  <2>4. e.type = IF debt[d].status = "paid" THEN "on_time_paid_voided" ELSE "written_off_settled_voided"
    BY <2>1 DEF VoidedReward
  <2>5. events[d] \in Seq(RatingEvent)
    BY DEF Types
  <2>6. events' = [events EXCEPT ![d] = events[d] \o (IF earned THEN <<e>> ELSE <<>>)
                     \o (IF ReopensOverdue(d) THEN <<o>> ELSE <<>>)]
    BY <1>7 DEF Compensation
  <2> HIDE DEF e, o, earned, revision
  <2>7. CASE earned /\ ReopensOverdue(d)
    <3>1. events' = [events EXCEPT ![d] = Append(Append(@, e), o)]
      <4>1. (events[d] \o <<e>>) \o <<o>> = Append(Append(events[d], e), o)
        BY <2>1, <2>5
      <4> QED
        BY <2>6, <2>7, <4>1
    <3>2. /\ events' \in [Debts -> Seq(RatingEvent)]
          /\ Gains(d, e.type, e.source, e.at) /\ Gains(d, o.type, o.source, o.at)
          /\ \A type \in EventTypes \ {e.type, o.type} : Same(type)
      BY <2>1, <3>1, AppendTwoGains DEF Types
    <3> QED
      BY <2>1, <2>2, <2>3, <2>4, <2>7, <3>2 DEF VoidEvents, EventTypes, earned, revision
  <2>8. CASE earned /\ ~ReopensOverdue(d)
    <3>1. events' = [events EXCEPT ![d] = Append(@, e)]
      <4>1. (events[d] \o <<e>>) \o <<>> = Append(events[d], e)
        BY <2>1, <2>5
      <4> QED
        BY <2>6, <2>8, <4>1
    <3>2. /\ events' \in [Debts -> Seq(RatingEvent)]
          /\ Gains(d, e.type, e.source, e.at)
          /\ \A type \in EventTypes \ {e.type} : Same(type)
      BY <2>1, <3>1, AppendGains DEF Types
    <3> QED
      BY <2>1, <2>2, <2>3, <2>4, <2>8, <3>2 DEF VoidEvents, EventTypes, earned, revision
  <2>9. CASE ~earned /\ ReopensOverdue(d)
    <3>1. events' = [events EXCEPT ![d] = Append(@, o)]
      <4>1. (events[d] \o <<>>) \o <<o>> = Append(events[d], o)
        BY <2>1, <2>5
      <4> QED
        BY <2>6, <2>9, <4>1
    <3>2. /\ events' \in [Debts -> Seq(RatingEvent)]
          /\ Gains(d, o.type, o.source, o.at)
          /\ \A type \in EventTypes \ {o.type} : Same(type)
      BY <2>1, <3>1, AppendGains DEF Types
    <3> QED
      BY <2>1, <2>2, <2>3, <2>4, <2>9, <3>2 DEF VoidEvents, EventTypes, earned, revision
  <2>10. CASE ~earned /\ ~ReopensOverdue(d)
    <3>1. events' = events
      <4>1. (events[d] \o <<>>) \o <<>> = events[d]
        BY <2>5
      <4> QED
        BY <2>6, <2>10, <4>1 DEF Types
    <3>2. \A type : Same(type)
      BY <3>1, KeepsSame
    <3> QED
      BY <2>10, <3>1, <3>2 DEF VoidEvents, EventTypes, earned, revision, Types
  <2> QED
    BY <2>7, <2>8, <2>9, <2>10
<1>9. audits' = audits \cup VoidRows(d)
  BY <1>7 DEF VoidRows
<1>10. /\ VoidAudits(d, revision, ReopenedStatus(d)) \subseteq AuditRow
       /\ OverduePair(d, revision, today, "paid") \subseteq AuditRow
  <2>1. debt[d].status \in Statuses
    BY <1>1 DEF DebtRow
  <2> HIDE DEF revision
  <2> QED
    BY <1>1, <1>2, <2>1 DEF VoidAudits, OverduePair, UserAudit, Audit, AuditRow, AuditTypes, Statuses, Bases
<1>11. p.revision \in Nat
  BY <1>1 DEF Payment
<1>12. Types'
  <2>1. voids' \subseteq Void
    BY <1>1, <1>2, <1>7, <1>11 DEF Types, Void
  <2>2. keys' \subseteq Key
    BY <1>7, <1>11 DEF Types, Key
  <2>3. audits' \subseteq AuditRow
    BY <1>7, <1>10 DEF Types
  <2> QED
    BY <1>5, <1>7, <1>8, <2>1, <2>2, <2>3 DEF Types
<1> QED
  BY <1>5, <1>6, <1>7, <1>8, <1>9, <1>12 DEF Undoes

\* The marking by the batch is one.
LEMMA BatchMarks ==
    ASSUME Types, NEW d \in Debts, RowInv(d), NEW day, MaterializeOverdue(d, day)
    PROVE  Types' /\ Others(d) /\ Marks(d, day)
<1> DEFINE f1 == [debt EXCEPT ![d].status = "overdue"]
           f2 == [f1 EXCEPT ![d].revision = debt[d].revision + 1]
           f3 == [f2 EXCEPT ![d].updatedAt = day]
           f4 == [f3 EXCEPT ![d].overdueAt = day]
           f5 == [f4 EXCEPT ![d].overdueRevision = debt[d].revision + 1]
<1>1. /\ debt \in [Debts -> DebtRow] /\ debt[d] \in DebtRow /\ day \in Nat
      /\ debt[d].revision + 1 \in Nat
  <2>1. debt \in [Debts -> DebtRow] /\ debt[d] \in DebtRow
    BY DEF Types
  <2>2. day \in Nat
    BY DEF Types, MaterializeOverdue
  <2> QED
    BY <2>1, <2>2 DEF DebtRow
<1>2. debt' \in [Debts -> DebtRow]
  <2>1. f1 \in [Debts -> DebtRow]
    BY <1>1, StatusColumn DEF Statuses
  <2>2. f2 \in [Debts -> DebtRow]
    <3> HIDE DEF f1
    <3> QED
      BY <1>1, <2>1, RevisionColumn
  <2>3. f3 \in [Debts -> DebtRow]
    <3> HIDE DEF f2
    <3> QED
      BY <1>1, <2>2, UpdatedColumn
  <2>4. f4 \in [Debts -> DebtRow]
    <3> HIDE DEF f3
    <3> QED
      BY <1>1, <2>3, OverdueAtColumn
  <2>5. f5 \in [Debts -> DebtRow]
    <3> HIDE DEF f4
    <3> QED
      BY <1>1, <2>4, OverdueRevisionColumn
  <2>6. debt' = f5
    BY DEF MaterializeOverdue
  <2> QED
    BY <2>5, <2>6
<1>3. Others(d)
  BY <1>1 DEF MaterializeOverdue, Others
<1>4. /\ debt'[d].status = "overdue"
      /\ debt'[d].revision = debt[d].revision + 1
      /\ debt'[d].overdueAt = day
      /\ debt'[d].overdueRevision = debt[d].revision + 1
      /\ debt'[d].writtenOffAt = debt[d].writtenOffAt
      /\ debt'[d].writtenOffRevision = debt[d].writtenOffRevision
      /\ debt'[d].settledRevision = debt[d].settledRevision
  BY <1>1 DEF MaterializeOverdue, DebtRow
<1> DEFINE e == [type |-> "overdue", source |-> debt[d].revision + 1, at |-> day]
<1>5. /\ debt[d].status = "active"
      /\ events' = [events EXCEPT ![d] = Append(@, e)]
      /\ audits' = audits \cup OverduePair(d, debt[d].revision + 1, day, "active")
      /\ candidates' = candidates \ {<<d, day>>}
      /\ UNCHANGED <<today, payments, voids, keys>>
  BY DEF MaterializeOverdue, PastDueActive
<1>6. e \in RatingEvent /\ e.type = "overdue" /\ e.source = debt[d].revision + 1 /\ e.at = day
  BY <1>1 DEF RatingEvent, EventTypes
<1>7. /\ events' \in [Debts -> Seq(RatingEvent)]
      /\ Gains(d, e.type, e.source, e.at)
      /\ \A type \in EventTypes \ {e.type} : Same(type)
  <2> HIDE DEF e
  <2> QED
    BY <1>5, <1>6, AppendGains DEF Types
<1>8. OverduePair(d, debt[d].revision + 1, day, "active") \subseteq AuditRow
  BY <1>1 DEF OverduePair, Audit, AuditRow, AuditTypes, Statuses, Bases
<1>9. Types'
  BY <1>2, <1>5, <1>7, <1>8 DEF Types
<1> QED
  BY <1>1, <1>3, <1>4, <1>5, <1>6, <1>7, <1>9 DEF Marks

\* The write-off is one.
LEMMA WriteOffGivesUp ==
    ASSUME Types, NEW d \in Debts, RowInv(d), NEW seen \in Nat, WriteOff(d, seen)
    PROVE  Types' /\ Others(d) /\ GivesUp(d)
<1> DEFINE f1 == [debt EXCEPT ![d].status = "written_off"]
           f2 == [f1 EXCEPT ![d].revision = debt[d].revision + 1]
           f3 == [f2 EXCEPT ![d].updatedAt = today]
           f4 == [f3 EXCEPT ![d].writtenOffAt = today]
           f5 == [f4 EXCEPT ![d].writtenOffRevision = debt[d].revision + 1]
<1>1. /\ debt \in [Debts -> DebtRow] /\ debt[d] \in DebtRow /\ today \in Nat
      /\ debt[d].revision \in Nat /\ debt[d].revision + 1 \in Nat
  BY DEF Types, DebtRow
<1>2. debt' \in [Debts -> DebtRow]
  <2>1. f1 \in [Debts -> DebtRow]
    BY <1>1, StatusColumn DEF Statuses
  <2>2. f2 \in [Debts -> DebtRow]
    <3> HIDE DEF f1
    <3> QED
      BY <1>1, <2>1, RevisionColumn
  <2>3. f3 \in [Debts -> DebtRow]
    <3> HIDE DEF f2
    <3> QED
      BY <1>1, <2>2, UpdatedColumn
  <2>4. f4 \in [Debts -> DebtRow]
    <3> HIDE DEF f3
    <3> QED
      BY <1>1, <2>3, WrittenOffAtColumn
  <2>5. f5 \in [Debts -> DebtRow]
    <3> HIDE DEF f4
    <3> QED
      BY <1>1, <2>4, WrittenOffRevisionColumn
  <2>6. debt' = f5
    BY DEF WriteOff
  <2> QED
    BY <2>5, <2>6
<1>3. Others(d)
  BY <1>1 DEF WriteOff, Others
<1>4. /\ debt'[d].status = "written_off"
      /\ debt'[d].revision = debt[d].revision + 1
      /\ debt'[d].overdueAt = debt[d].overdueAt
      /\ debt'[d].overdueRevision = debt[d].overdueRevision
      /\ debt'[d].writtenOffAt = today
      /\ debt'[d].writtenOffRevision = debt[d].revision + 1
      /\ debt'[d].settledRevision = debt[d].settledRevision
  BY <1>1 DEF WriteOff, DebtRow
<1> DEFINE e == Event("written_off", debt[d].revision + 1)
           key == [endpoint |-> "write_off", debt |-> d, seen |-> debt[d].revision,
                   basis |-> "none", amount |-> 0, result |-> debt[d].revision + 1]
           row == UserAudit("debt.written_off", d, debt[d].revision + 1, "overdue", "written_off")
<1>5. /\ debt[d].status = "overdue"
      /\ events' = [events EXCEPT ![d] = Append(@, e)]
      /\ audits' = audits \cup {row}
      /\ keys' = keys \cup {key}
      /\ UNCHANGED <<today, payments, voids, candidates>>
  BY DEF WriteOff
<1>6. e \in RatingEvent /\ e.type = "written_off" /\ e.source = debt[d].revision + 1 /\ e.at = today
  BY <1>1 DEF RatingEvent, EventTypes, Event
<1>7. /\ events' \in [Debts -> Seq(RatingEvent)]
      /\ Gains(d, e.type, e.source, e.at)
      /\ \A type \in EventTypes \ {e.type} : Same(type)
  <2> HIDE DEF e
  <2> QED
    BY <1>5, <1>6, AppendGains DEF Types
<1>8. row \in AuditRow
  BY <1>1 DEF UserAudit, Audit, AuditRow, AuditTypes, Statuses
<1>9. key \in Key
  BY <1>1 DEF Key
<1>10. Types'
  BY <1>2, <1>5, <1>7, <1>8, <1>9 DEF Types
<1> QED
  BY <1>1, <1>3, <1>4, <1>5, <1>6, <1>7, <1>10 DEF GivesUp

-----------------------------------------------------------------------------
(* Payloads.                                                               *)

Payloads(type) ==
    PaymentPayload(type) \cup VoidPayload(type) \cup WriteOffPayload(type) \cup OverduePayload(type)

\* The moves of the rows of a payment.
LEMMA PaymentMoves ==
    /\ \A to \in {"active", "paid"} : <<"active", to>> \in Payloads("payment.recorded")
    /\ \A to \in {"overdue", "paid"} : <<"overdue", to>> \in Payloads("payment.recorded")
    /\ \A to \in {"written_off", "written_off_settled"} :
         <<"written_off", to>> \in Payloads("payment.recorded")
    /\ <<"none", "none">> \in Payloads("debt.paid")
    /\ <<"written_off", "written_off_settled">> \in Payloads("debt.written_off_settled")
BY DEF Payloads, PaymentPayload, WriteOffPayload, Unstated

\* The moves of the rows of a void.
LEMMA VoidMoves ==
    /\ \A s \in {"active", "overdue", "written_off"} : <<s, s>> \in Payloads("payment.voided")
    /\ \A type \in {"payment.voided", "debt.reopened_after_payment_void"} :
         /\ <<"paid", "active">> \in Payloads(type) /\ <<"paid", "overdue">> \in Payloads(type)
         /\ <<"written_off_settled", "written_off">> \in Payloads(type)
BY DEF Payloads, VoidPayload

\* The moves of the rows of a penalty.
LEMMA PenaltyMoves ==
    /\ <<"active", "overdue">> \in Payloads("debt.overdue")
    /\ <<"paid", "overdue">> \in Payloads("debt.overdue")
    /\ <<"discounted", "original">> \in Payloads("debt.clawback_applied")
    /\ <<"overdue", "written_off">> \in Payloads("debt.written_off")
BY DEF Payloads, OverduePayload, WriteOffPayload

-----------------------------------------------------------------------------
(* Every step grows the ledger, and records itself.                        *)

\* The rows of the marking.
LEMMA OverdueRows ==
    ASSUME NEW d, NEW revision \in Nat, NEW day, NEW from \in {"active", "paid"},
           debt'[d].overdueRevision = revision, debt'[d].overdueAt = day,
           NEW a \in OverduePair(d, revision, day, from)
    PROVE  /\ a.debt = d /\ a.revision = revision /\ a.at = day /\ a.actor = "SYSTEM"
           /\ a.type \in {"debt.overdue", "debt.clawback_applied"}
           /\ PayloadAccepts(a)'
           /\ Tells(a) => a.type = "debt.overdue" /\ a.from = from /\ a.to = "overdue"
<1>1. CASE a = Audit("debt.overdue", "SYSTEM", d, revision, day, from, "overdue")
  <2>1. /\ a.type = "debt.overdue" /\ a.actor = "SYSTEM" /\ a.debt = d /\ a.revision = revision
        /\ a.at = day /\ a.from = from /\ a.to = "overdue"
    BY <1>1 DEF Audit
  <2>2. <<a.from, a.to>> \in Payloads(a.type)
    BY <2>1, PenaltyMoves
  <2>3. SourceOf(a)' /\ a.actor = ActorOf(a.type)
    BY <2>1 DEF SourceOf, ActorOf
  <2> QED
    BY <2>1, <2>2, <2>3 DEF PayloadAccepts, Payloads
<1>2. CASE a = Audit("debt.clawback_applied", "SYSTEM", d, revision, day, "discounted", "original")
  <2>1. /\ a.type = "debt.clawback_applied" /\ a.actor = "SYSTEM" /\ a.debt = d
        /\ a.revision = revision /\ a.at = day /\ a.from = "discounted" /\ a.to = "original"
    BY <1>2 DEF Audit
  <2>2. <<a.from, a.to>> \in Payloads(a.type)
    BY <2>1, PenaltyMoves
  <2>3. SourceOf(a)' /\ a.actor = ActorOf(a.type)
    BY <2>1 DEF SourceOf, ActorOf
  <2> QED
    BY <2>1, <2>2, <2>3 DEF PayloadAccepts, Payloads, Tells
<1> QED
  BY <1>1, <1>2 DEF OverduePair

\* A payment.
LEMMA PaysGrows ==
    ASSUME Types, Types', NEW d \in Debts, RowInv(d), Others(d),
           NEW seen, NEW basis, NEW amount, NEW marking \in BOOLEAN,
           Pays(d, seen, basis, amount, marking)
    PROVE  RowInv(d)' /\ Grows(d) /\ Records(d, PaymentRows(d, marking))
<1> DEFINE R == debt'[d].revision
           rows == PaymentRows(d, marking)
           from == IF marking THEN "overdue" ELSE debt[d].status
           new == [debt |-> d, amount |-> amount, revision |-> R, at |-> today]
<1>1. debt[d] \in DebtRow /\ debt'[d] \in DebtRow /\ today \in Nat
  BY DEF Types
<1>2. /\ PaymentRow(d, seen, basis, marking)
      /\ payments' = payments \cup {new} /\ UNCHANGED <<today, voids>>
      /\ audits' = audits \cup rows
  BY DEF Pays, Post
<1>3. /\ R = IF marking THEN debt[d].revision + 2 ELSE debt[d].revision + 1
      /\ debt[d].revision \in Nat /\ R \in Nat
  BY <1>1, <1>2 DEF PaymentRow, DebtRow
<1>4. /\ debt[d].status \in {"active", "overdue", "written_off"}
      /\ from = "active" => debt'[d].status \in {"active", "paid"}
      /\ from = "overdue" => debt'[d].status \in {"overdue", "paid"}
      /\ from = "written_off" => debt'[d].status \in {"written_off", "written_off_settled"}
      /\ marking => /\ debt'[d].overdueRevision = debt[d].revision + 1
                    /\ debt'[d].overdueAt = today /\ debt[d].status = "active"
  BY <1>2 DEF PaymentRow
<1>5. RowInv(d)'
  BY <1>1, <1>2 DEF PaymentRow, RowInv, DebtRow, Unset
<1>6. Grows(d)
  <2>1. \/ /\ debt'[d].overdueRevision = debt[d].overdueRevision
           /\ debt'[d].overdueAt = debt[d].overdueAt
        \/ debt[d].overdueRevision = Unset /\ debt'[d].overdueRevision > debt[d].revision
    BY <1>2, <1>3 DEF PaymentRow, RowInv
  <2>2. /\ debt'[d].writtenOffRevision = debt[d].writtenOffRevision
        /\ debt'[d].writtenOffAt = debt[d].writtenOffAt
    BY <1>2 DEF PaymentRow
  <2> QED
    BY <1>2, <1>3, <2>1, <2>2 DEF Grows, Others
<1>7. ASSUME NEW a \in rows
      PROVE  \/ /\ marking /\ a.debt = d /\ a.revision = debt[d].revision + 1
                /\ a.type \in {"debt.overdue", "debt.clawback_applied"}
                /\ PayloadAccepts(a)'
                /\ a \in OverduePair(d, debt[d].revision + 1, today, "active")
                /\ Tells(a) => a.type = "debt.overdue" /\ a.from = "active" /\ a.to = "overdue"
             \/ /\ a.debt = d /\ a.revision = R /\ PayloadAccepts(a)'
                /\ \/ a = UserAudit("payment.recorded", d, R, from, debt'[d].status)
                   \/ a = UserAudit("debt.paid", d, R, "none", "none")
                   \/ a = UserAudit("debt.written_off_settled", d, R, "written_off", debt'[d].status)
                /\ a.type \in {"payment.recorded", "debt.paid", "debt.written_off_settled"}
                /\ Tells(a) => a.from = from /\ a.to = debt'[d].status
  <2>1. CASE marking /\ a \in OverduePair(d, debt[d].revision + 1, today, "active")
    BY <1>3, <1>4, <2>1, OverdueRows
  <2>2. CASE a = UserAudit("payment.recorded", d, R, from, debt'[d].status)
    <3>1. /\ a.type = "payment.recorded" /\ a.actor = "USER" /\ a.debt = d /\ a.revision = R
          /\ a.at = today /\ a.from = from /\ a.to = debt'[d].status
      BY <2>2 DEF UserAudit, Audit
    <3>2. <<a.from, a.to>> \in Payloads(a.type)
      <4>1. from \in {"active", "overdue", "written_off"}
        BY <1>4
      <4> HIDE DEF from
      <4> QED
        BY <1>4, <3>1, <4>1, PaymentMoves
    <3>3. SourceOf(a)' /\ a.actor = ActorOf(a.type)
      <4>1. new \in payments' /\ new.debt = a.debt /\ new.revision = a.revision /\ new.at = a.at
        BY <1>2, <3>1
      <4> QED
        BY <3>1, <4>1 DEF SourceOf, ActorOf
    <3> QED
      BY <2>2, <3>1, <3>2, <3>3 DEF PayloadAccepts, Payloads
  <2>3. CASE debt'[d].status = "paid" /\ a = UserAudit("debt.paid", d, R, "none", "none")
    <3>1. /\ a.type = "debt.paid" /\ a.actor = "USER" /\ a.debt = d /\ a.revision = R
          /\ a.at = today /\ a.from = "none" /\ a.to = "none"
      BY <2>3 DEF UserAudit, Audit
    <3>2. <<a.from, a.to>> \in Payloads(a.type)
      BY <3>1, PaymentMoves
    <3>3. SourceOf(a)' /\ a.actor = ActorOf(a.type)
      <4>1. new \in payments' /\ new.debt = a.debt /\ new.revision = a.revision /\ new.at = a.at
        BY <1>2, <3>1
      <4> QED
        BY <3>1, <4>1 DEF SourceOf, ActorOf
    <3> QED
      BY <2>3, <3>1, <3>2, <3>3 DEF PayloadAccepts, Payloads, Tells
  <2>4. CASE /\ debt'[d].status = "written_off_settled"
             /\ a = UserAudit("debt.written_off_settled", d, R, "written_off", debt'[d].status)
    <3>1. /\ a.type = "debt.written_off_settled" /\ a.actor = "USER" /\ a.debt = d
          /\ a.revision = R /\ a.at = today /\ a.from = "written_off"
          /\ a.to = "written_off_settled"
      BY <2>4 DEF UserAudit, Audit
    <3>2. <<a.from, a.to>> \in Payloads(a.type)
      BY <3>1, PaymentMoves
    <3>3. SourceOf(a)' /\ a.actor = ActorOf(a.type)
      <4>1. new \in payments' /\ new.debt = a.debt /\ new.revision = a.revision /\ new.at = a.at
        BY <1>2, <3>1
      <4> QED
        BY <3>1, <4>1 DEF SourceOf, ActorOf
    <3>4. from = "written_off"
      BY <1>2, <2>4 DEF PaymentRow
    <3> QED
      BY <2>4, <3>1, <3>2, <3>3, <3>4 DEF PayloadAccepts, Payloads
  <2> QED
    BY <2>1, <2>2, <2>3, <2>4 DEF PaymentRows
<1>8. \A a, b \in rows : a.type = b.type /\ a.revision = b.revision => a = b
  <2>1. \A a, b \in OverduePair(d, debt[d].revision + 1, today, "active") : a.type = b.type => a = b
    BY DEF OverduePair, Audit
  <2> HIDE DEF rows, from, R
  <2> QED
    BY <1>7, <2>1 DEF UserAudit, Audit
<1>9. \E a \in rows : Tells(a) /\ a.revision = R
  <2> DEFINE a == UserAudit("payment.recorded", d, R, from, debt'[d].status)
  <2>1. a \in rows
    BY DEF PaymentRows
  <2>2. Tells(a) /\ a.revision = R
    BY DEF UserAudit, Audit, Tells
  <2> QED
    BY <2>1, <2>2
<1>10. marking => \E a \in rows : Tells(a) /\ a.revision = debt[d].revision + 1
  <2> DEFINE a == Audit("debt.overdue", "SYSTEM", d, debt[d].revision + 1, today, "active", "overdue")
  <2>1. marking => a \in rows
    BY DEF PaymentRows, OverduePair
  <2>2. Tells(a) /\ a.revision = debt[d].revision + 1
    BY DEF Audit, Tells
  <2> QED
    BY <2>1, <2>2
<1>11. Records(d, rows)
  <2> HIDE DEF rows
  <2>1. \A a \in rows : /\ a.debt = d /\ a.revision > debt[d].revision
                        /\ a.revision <= debt'[d].revision /\ PayloadAccepts(a)'
    BY <1>3, <1>7
  <2>2. \A a, b \in rows : Tells(a) /\ Tells(b) =>
         /\ a.revision = b.revision => a.from = b.from /\ a.to = b.to
         /\ a.revision = b.revision + 1 => a.from = b.to
    BY <1>3, <1>7
  <2>3. \A a \in rows : Tells(a) =>
         /\ a.revision = debt[d].revision + 1 => a.from = debt[d].status
         /\ a.revision = debt'[d].revision => a.to = debt'[d].status
    BY <1>3, <1>4, <1>7
  <2>4. \A revision \in (debt[d].revision + 1)..debt'[d].revision :
          \E a \in rows : Tells(a) /\ a.revision = revision
    BY <1>3, <1>9, <1>10
  <2> QED
    BY <1>2, <1>8, <2>1, <2>2, <2>3, <2>4 DEF Records
<1> QED
  BY <1>5, <1>6, <1>11

\* A void.
LEMMA UndoesGrows ==
    ASSUME Types, Types', NEW d \in Debts, RowInv(d), Others(d), NEW p \in payments, Undoes(d, p)
    PROVE  RowInv(d)' /\ Grows(d) /\ Records(d, VoidRows(d))
<1> DEFINE R == debt[d].revision + 1
           rows == VoidRows(d)
           from == debt[d].status
           to == ReopenedStatus(d)
           new == [debt |-> d, payment |-> p.revision, revision |-> R, at |-> today]
<1>1. debt[d] \in DebtRow /\ debt'[d] \in DebtRow /\ today \in Nat
  BY DEF Types
<1>2. /\ VoidRow(d) /\ voids' = voids \cup {new} /\ UNCHANGED <<today, payments>>
      /\ audits' = audits \cup rows
  BY DEF Undoes
<1>3. debt'[d].revision = R /\ debt[d].revision \in Nat /\ R \in Nat /\ debt'[d].status = to
  BY <1>1, <1>2 DEF VoidRow, DebtRow
<1>4. /\ from \in Statuses
      /\ from \in {"active", "overdue", "written_off"} => to = from
      /\ from = "paid" => to \in {"active", "overdue"}
      /\ from = "written_off_settled" => to = "written_off"
      /\ ReopensOverdue(d) => from = "paid" /\ to = "overdue"
      /\ ReopensOverdue(d) => debt'[d].overdueRevision = R /\ debt'[d].overdueAt = today
                              /\ debt[d].overdueRevision = Unset
  BY <1>1, <1>2 DEF ReopenedStatus, ReopensOverdue, DebtRow, Statuses, VoidRow
<1>5. RowInv(d)'
  <2>1. from = "paid" /\ to = "active" => debt[d].overdueRevision = Unset
    BY <1>1 DEF ReopenedStatus
  <2>2. from = "paid" /\ to = "overdue" /\ debt[d].overdueRevision = Unset => ReopensOverdue(d)
    BY <1>1 DEF ReopenedStatus, ReopensOverdue
  <2>3. IF ReopensOverdue(d)
        THEN debt'[d].overdueRevision = R /\ debt'[d].overdueAt = today
        ELSE debt'[d].overdueRevision = debt[d].overdueRevision /\ debt'[d].overdueAt = debt[d].overdueAt
    BY <1>2 DEF VoidRow
  <2>4. /\ debt'[d].writtenOffAt = debt[d].writtenOffAt
        /\ debt'[d].writtenOffRevision = debt[d].writtenOffRevision
        /\ debt'[d].settledRevision = Unset
    BY <1>2 DEF VoidRow
  <2> HIDE DEF to
  <2> QED
    BY <1>1, <1>3, <1>4, <2>1, <2>2, <2>3, <2>4 DEF RowInv, DebtRow, Unset, Statuses
<1>6. Grows(d)
  <2>1. \/ /\ debt'[d].overdueRevision = debt[d].overdueRevision
           /\ debt'[d].overdueAt = debt[d].overdueAt
        \/ debt[d].overdueRevision = Unset /\ debt'[d].overdueRevision > debt[d].revision
    BY <1>2, <1>3, <1>4 DEF VoidRow
  <2>2. /\ debt'[d].writtenOffRevision = debt[d].writtenOffRevision
        /\ debt'[d].writtenOffAt = debt[d].writtenOffAt
    BY <1>2 DEF VoidRow
  <2> QED
    BY <1>2, <1>3, <2>1, <2>2 DEF Grows, Others
<1> HIDE DEF to
<1>7. ASSUME NEW a \in rows
      PROVE  /\ a.debt = d /\ a.revision = R /\ PayloadAccepts(a)'
             /\ \/ /\ a \in OverduePair(d, R, today, "paid")
                   /\ a.type \in {"debt.overdue", "debt.clawback_applied"}
                \/ a = UserAudit("payment.voided", d, R, from, to)
                   /\ a.type = "payment.voided"
                \/ a = UserAudit("debt.reopened_after_payment_void", d, R, from, to)
                   /\ a.type = "debt.reopened_after_payment_void"
             /\ Tells(a) => a.from = from /\ a.to = to
  <2>1. CASE ReopensOverdue(d) /\ a \in OverduePair(d, R, today, "paid")
    BY <1>3, <1>4, <2>1, OverdueRows
  <2>2. CASE a = UserAudit("payment.voided", d, R, from, to)
    <3>1. /\ a.type = "payment.voided" /\ a.actor = "USER" /\ a.debt = d /\ a.revision = R
          /\ a.at = today /\ a.from = from /\ a.to = to
      BY <2>2 DEF UserAudit, Audit
    <3>2. <<a.from, a.to>> \in Payloads(a.type)
      BY <1>4, <3>1, VoidMoves DEF Statuses
    <3>3. SourceOf(a)' /\ a.actor = ActorOf(a.type)
      <4>1. new \in voids' /\ new.debt = a.debt /\ new.revision = a.revision /\ new.at = a.at
        BY <1>2, <3>1
      <4> QED
        BY <3>1, <4>1 DEF SourceOf, ActorOf
    <3> QED
      BY <2>2, <3>1, <3>2, <3>3 DEF PayloadAccepts, Payloads
  <2>3. CASE to # from /\ a = UserAudit("debt.reopened_after_payment_void", d, R, from, to)
    <3>1. /\ a.type = "debt.reopened_after_payment_void" /\ a.actor = "USER" /\ a.debt = d
          /\ a.revision = R /\ a.at = today /\ a.from = from /\ a.to = to
      BY <2>3 DEF UserAudit, Audit
    <3>2. <<a.from, a.to>> \in Payloads(a.type)
      BY <1>4, <2>3, <3>1, VoidMoves DEF Statuses
    <3>3. SourceOf(a)' /\ a.actor = ActorOf(a.type)
      <4>1. new \in voids' /\ new.debt = a.debt /\ new.revision = a.revision /\ new.at = a.at
        BY <1>2, <3>1
      <4> QED
        BY <3>1, <4>1 DEF SourceOf, ActorOf
    <3> QED
      BY <2>3, <3>1, <3>2, <3>3 DEF PayloadAccepts, Payloads
  <2>4. rows = UNION {{UserAudit("payment.voided", d, R, from, to)},
                      IF to # from
                      THEN {UserAudit("debt.reopened_after_payment_void", d, R, from, to)} ELSE {},
                      IF ReopensOverdue(d) THEN OverduePair(d, R, today, "paid") ELSE {}}
    BY DEF VoidRows, VoidAudits, to
  <2> QED
    BY <2>1, <2>2, <2>3, <2>4
<1>8. \A a, b \in rows : a.type = b.type /\ a.revision = b.revision => a = b
  <2>1. \A a, b \in OverduePair(d, R, today, "paid") : a.type = b.type => a = b
    BY DEF OverduePair, Audit
  <2> HIDE DEF rows, from, R
  <2> QED
    BY <1>7, <2>1
<1>9. \E a \in rows : Tells(a) /\ a.revision = R
  <2> DEFINE a == UserAudit("payment.voided", d, R, from, to)
  <2>1. a \in rows
    BY DEF VoidRows, VoidAudits, to
  <2>2. Tells(a) /\ a.revision = R
    BY DEF UserAudit, Audit, Tells
  <2> QED
    BY <2>1, <2>2
<1>10. Records(d, rows)
  <2> HIDE DEF rows
  <2>1. \A a \in rows : /\ a.debt = d /\ a.revision > debt[d].revision
                        /\ a.revision <= debt'[d].revision /\ PayloadAccepts(a)'
    BY <1>3, <1>7
  <2>2. \A a, b \in rows : Tells(a) /\ Tells(b) =>
         /\ a.revision = b.revision => a.from = b.from /\ a.to = b.to
         /\ a.revision = b.revision + 1 => a.from = b.to
    BY <1>3, <1>7
  <2>3. \A a \in rows : Tells(a) =>
         /\ a.revision = debt[d].revision + 1 => a.from = debt[d].status
         /\ a.revision = debt'[d].revision => a.to = debt'[d].status
    BY <1>3, <1>7
  <2>4. \A revision \in (debt[d].revision + 1)..debt'[d].revision :
          \E a \in rows : Tells(a) /\ a.revision = revision
    BY <1>3, <1>9
  <2> QED
    BY <1>2, <1>8, <2>1, <2>2, <2>3, <2>4 DEF Records
<1> QED
  BY <1>5, <1>6, <1>10

\* The batch.
LEMMA MarksGrows ==
    ASSUME Types, Types', NEW d \in Debts, RowInv(d), Others(d), NEW day, Marks(d, day)
    PROVE  /\ RowInv(d)' /\ Grows(d)
           /\ Records(d, OverduePair(d, debt[d].revision + 1, day, "active"))
<1> DEFINE R == debt[d].revision + 1
           rows == OverduePair(d, R, day, "active")
<1>1. debt[d] \in DebtRow /\ debt'[d] \in DebtRow /\ day \in Nat
  BY DEF Types, Marks
<1>2. /\ debt[d].status = "active" /\ debt'[d].status = "overdue"
      /\ debt'[d].revision = R /\ debt'[d].overdueRevision = R /\ debt'[d].overdueAt = day
      /\ debt'[d].writtenOffAt = debt[d].writtenOffAt
      /\ debt'[d].writtenOffRevision = debt[d].writtenOffRevision
      /\ debt'[d].settledRevision = debt[d].settledRevision
      /\ audits' = audits \cup rows /\ UNCHANGED <<today, payments, voids, keys>>
  BY DEF Marks
<1>3. debt[d].revision \in Nat /\ R \in Nat
  BY <1>1 DEF DebtRow
<1>4. RowInv(d)'
  BY <1>1, <1>2, <1>3 DEF RowInv, DebtRow, Unset
<1>5. Grows(d)
  <2>1. debt[d].overdueRevision = Unset
    BY <1>2 DEF RowInv
  <2> QED
    BY <1>2, <1>3, <2>1 DEF Grows, Others
<1>6. ASSUME NEW a \in rows
      PROVE  /\ a.debt = d /\ a.revision = R /\ PayloadAccepts(a)'
             /\ Tells(a) => a.from = "active" /\ a.to = "overdue"
  BY <1>2, <1>3, OverdueRows
<1>7. \A a, b \in rows : a.type = b.type /\ a.revision = b.revision => a = b
  BY DEF OverduePair, Audit
<1>8. \E a \in rows : Tells(a) /\ a.revision = R
  BY DEF OverduePair, Audit, Tells
<1>9. Records(d, rows)
  <2> HIDE DEF rows
  <2> QED
    BY <1>2, <1>3, <1>6, <1>7, <1>8 DEF Records
<1> QED
  BY <1>4, <1>5, <1>9

GivenUp(d) == {UserAudit("debt.written_off", d, debt[d].revision + 1, "overdue", "written_off")}

\* The write-off.
LEMMA GivesUpGrows ==
    ASSUME Types, Types', NEW d \in Debts, RowInv(d), Others(d), GivesUp(d)
    PROVE  RowInv(d)' /\ Grows(d) /\ Records(d, GivenUp(d))
<1> DEFINE R == debt[d].revision + 1
           rows == GivenUp(d)
<1>1. debt[d] \in DebtRow /\ debt'[d] \in DebtRow /\ today \in Nat
  BY DEF Types
<1>2. /\ debt[d].status = "overdue" /\ debt'[d].status = "written_off"
      /\ debt'[d].revision = R /\ debt'[d].overdueRevision = debt[d].overdueRevision
      /\ debt'[d].overdueAt = debt[d].overdueAt
      /\ debt'[d].writtenOffAt = today /\ debt'[d].writtenOffRevision = R
      /\ debt'[d].settledRevision = debt[d].settledRevision
      /\ audits' = audits \cup rows /\ UNCHANGED <<today, payments, voids>>
  BY DEF GivesUp, GivenUp
<1>3. debt[d].revision \in Nat /\ R \in Nat
  BY <1>1 DEF DebtRow
<1>4. RowInv(d)'
  BY <1>1, <1>2, <1>3 DEF RowInv, DebtRow, Unset
<1>5. Grows(d)
  <2>1. debt[d].writtenOffRevision = Unset
    BY <1>2 DEF RowInv
  <2> QED
    BY <1>2, <1>3, <2>1 DEF Grows, Others
<1>6. ASSUME NEW a \in rows
      PROVE  /\ a.debt = d /\ a.revision = R /\ PayloadAccepts(a)'
             /\ Tells(a) /\ a.from = "overdue" /\ a.to = "written_off"
  <2>1. /\ a.type = "debt.written_off" /\ a.actor = "USER" /\ a.debt = d /\ a.revision = R
        /\ a.at = today /\ a.from = "overdue" /\ a.to = "written_off"
    BY DEF GivenUp, UserAudit, Audit
  <2>2. <<a.from, a.to>> \in Payloads(a.type)
    BY <2>1, PenaltyMoves
  <2>3. SourceOf(a)' /\ a.actor = ActorOf(a.type)
    BY <1>2, <2>1 DEF SourceOf, ActorOf
  <2> QED
    BY <2>1, <2>2, <2>3 DEF PayloadAccepts, Payloads, Tells
<1>7. rows # {} /\ \A a, b \in rows : a = b
  BY DEF GivenUp
<1>8. Records(d, rows)
  <2> HIDE DEF rows
  <2> QED
    BY <1>2, <1>3, <1>6, <1>7 DEF Records
<1> QED
  BY <1>4, <1>5, <1>8

-----------------------------------------------------------------------------
(* The trail.                                                              *)

\* What the debts had before they keep.
LEMMA Keeps ==
    ASSUME Types, Types', \A c \in Debts : RowInv(c), NEW d \in Debts, Grows(d)
    PROVE  \A c \in Debts :
             /\ debt[c].revision \in Nat /\ debt'[c].revision \in Nat
             /\ debt[c].revision >= 2 /\ debt'[c].revision >= debt[c].revision
             /\ debt[c].overdueRevision # Unset =>
                  /\ debt'[c].overdueRevision = debt[c].overdueRevision
                  /\ debt'[c].overdueAt = debt[c].overdueAt
             /\ debt[c].writtenOffRevision # Unset =>
                  /\ debt'[c].writtenOffRevision = debt[c].writtenOffRevision
                  /\ debt'[c].writtenOffAt = debt[c].writtenOffAt
             /\ \/ debt'[c].overdueRevision = debt[c].overdueRevision
                \/ debt'[c].overdueRevision > debt[c].revision
             /\ \/ debt'[c].writtenOffRevision = debt[c].writtenOffRevision
                \/ debt'[c].writtenOffRevision > debt[c].revision
<1> SUFFICES ASSUME NEW c \in Debts
             PROVE  /\ debt[c].revision \in Nat /\ debt'[c].revision \in Nat
                    /\ debt[c].revision >= 2 /\ debt'[c].revision >= debt[c].revision
                    /\ debt[c].overdueRevision # Unset =>
                         /\ debt'[c].overdueRevision = debt[c].overdueRevision
                         /\ debt'[c].overdueAt = debt[c].overdueAt
                    /\ debt[c].writtenOffRevision # Unset =>
                         /\ debt'[c].writtenOffRevision = debt[c].writtenOffRevision
                         /\ debt'[c].writtenOffAt = debt[c].writtenOffAt
                    /\ \/ debt'[c].overdueRevision = debt[c].overdueRevision
                       \/ debt'[c].overdueRevision > debt[c].revision
                    /\ \/ debt'[c].writtenOffRevision = debt[c].writtenOffRevision
                       \/ debt'[c].writtenOffRevision > debt[c].revision
  OBVIOUS
<1>1. debt[c] \in DebtRow /\ debt'[c] \in DebtRow /\ RowInv(c)
  BY DEF Types
<1>2. CASE c = d
  BY <1>1, <1>2 DEF Grows, DebtRow, RowInv
<1>3. CASE c # d
  BY <1>1, <1>3 DEF Grows, DebtRow, RowInv
<1> QED
  BY <1>2, <1>3

\* A row that was accepted stays what it says.
LEMMA AcceptedKept ==
    ASSUME Types, Types', \A c \in Debts : RowInv(c), NEW d \in Debts, Grows(d),
           NEW a \in audits, a.revision >= 3, PayloadAccepts(a)
    PROVE  PayloadAccepts(a)'
<1>1. a.debt \in Debts /\ a.type \in AuditTypes
  BY DEF Types, AuditRow
<1>2. payments \subseteq payments' /\ voids \subseteq voids'
  BY DEF Grows
<1>3. SourceOf(a)
  BY DEF PayloadAccepts
<1>4. CASE a.type \in {"payment.voided", "debt.reopened_after_payment_void"}
  BY <1>2, <1>3, <1>4 DEF SourceOf, PayloadAccepts
<1>5. CASE a.type \in {"payment.recorded", "debt.paid", "debt.written_off_settled"}
  BY <1>2, <1>3, <1>5 DEF SourceOf, PayloadAccepts
<1>6. CASE a.type = "debt.written_off"
  <2>1. debt[a.debt].writtenOffRevision = a.revision /\ debt[a.debt].writtenOffAt = a.at
    BY <1>3, <1>6 DEF SourceOf
  <2>2. debt[a.debt].writtenOffRevision # Unset
    BY <2>1 DEF Unset, Types, AuditRow
  <2>3. debt'[a.debt].writtenOffRevision = a.revision /\ debt'[a.debt].writtenOffAt = a.at
    BY <1>1, <2>1, <2>2, Keeps
  <2> QED
    BY <1>6, <2>3 DEF SourceOf, PayloadAccepts
<1>7. CASE a.type \in {"debt.overdue", "debt.clawback_applied"}
  <2>1. debt[a.debt].overdueRevision = a.revision /\ debt[a.debt].overdueAt = a.at
    BY <1>3, <1>7 DEF SourceOf
  <2>2. debt[a.debt].overdueRevision # Unset
    BY <2>1 DEF Unset, Types, AuditRow
  <2>3. debt'[a.debt].overdueRevision = a.revision /\ debt'[a.debt].overdueAt = a.at
    BY <1>1, <2>1, <2>2, Keeps
  <2> QED
    BY <1>7, <2>3 DEF SourceOf, PayloadAccepts
<1> QED
  BY <1>1, <1>4, <1>5, <1>6, <1>7 DEF AuditTypes

\* Rows are of revisions the debt has had, one of a type.
LEMMA FreshKept ==
    ASSUME Types, Types', \A c \in Debts : RowInv(c), NEW d \in Debts, Grows(d),
           NEW rows, Records(d, rows), AuditsFresh
    PROVE  AuditsFresh'
<1>1. /\ audits' = audits \cup rows
      /\ \A a \in rows : /\ a.debt = d /\ a.revision > debt[d].revision
                         /\ a.revision <= debt'[d].revision
      /\ \A a, b \in rows : a.type = b.type /\ a.revision = b.revision => a = b
  BY DEF Records
<1>2. \A a \in audits' : a.debt \in Debts /\ a.revision \in Nat
  BY DEF Types, AuditRow
<1>3. \A c \in Debts : /\ debt[c].revision \in Nat /\ debt'[c].revision \in Nat
                       /\ debt[c].revision >= 2 /\ debt'[c].revision >= debt[c].revision
  BY Keeps
<1>4. \A a \in audits : a.revision \in 3..debt[a.debt].revision
  BY DEF AuditsFresh
<1>5. \A a \in audits' : a.revision \in 3..debt'[a.debt].revision
  BY <1>1, <1>2, <1>3, <1>4
<1>6. ASSUME NEW a \in audits', NEW b \in audits',
             a.debt = b.debt, a.type = b.type, a.revision = b.revision
      PROVE  a = b
  <2>1. CASE a \in audits /\ b \in audits
    BY <1>6, <2>1 DEF AuditsFresh
  <2>2. CASE a \in rows /\ b \in rows
    BY <1>1, <1>6, <2>2
  <2>3. CASE a \in audits /\ b \in rows
    BY <1>1, <1>2, <1>3, <1>4, <1>6, <2>3
  <2>4. CASE a \in rows /\ b \in audits
    BY <1>1, <1>2, <1>3, <1>4, <1>6, <2>4
  <2> QED
    BY <1>1, <2>1, <2>2, <2>3, <2>4
<1> QED
  BY <1>5, <1>6 DEF AuditsFresh

\* The trail goes on where it ended.
LEMMA TrailKept ==
    ASSUME Types, Types', \A c \in Debts : RowInv(c), NEW d \in Debts, Grows(d),
           NEW rows, Records(d, rows), AuditsFresh, TrailInv
    PROVE  TrailInv'
<1>1. /\ audits' = audits \cup rows
      /\ \A a \in rows : /\ a.debt = d /\ a.revision > debt[d].revision
                         /\ a.revision <= debt'[d].revision /\ PayloadAccepts(a)'
      /\ \A a, b \in rows : Tells(a) /\ Tells(b) =>
           /\ a.revision = b.revision => a.from = b.from /\ a.to = b.to
           /\ a.revision = b.revision + 1 => a.from = b.to
      /\ \A a \in rows : Tells(a) =>
           /\ a.revision = debt[d].revision + 1 => a.from = debt[d].status
           /\ a.revision = debt'[d].revision => a.to = debt'[d].status
      /\ \A revision \in (debt[d].revision + 1)..debt'[d].revision :
           \E a \in rows : Tells(a) /\ a.revision = revision
  BY DEF Records
<1>2. \A a \in audits' : a.debt \in Debts /\ a.revision \in Nat
  BY DEF Types, AuditRow
<1>3. \A c \in Debts : /\ debt[c].revision \in Nat /\ debt'[c].revision \in Nat
                       /\ debt[c].revision >= 2 /\ debt'[c].revision >= debt[c].revision
  BY Keeps
<1>4. \A a \in audits : a.revision \in 3..debt[a.debt].revision
  BY DEF AuditsFresh
<1>5. /\ debt'[d].revision > debt[d].revision
      /\ \A c \in Debts \ {d} : debt'[c] = debt[c]
  BY DEF Grows
<1>6. \A a \in audits' : PayloadAccepts(a)'
  <2>1. \A a \in audits : PayloadAccepts(a) /\ a.revision >= 3
    BY <1>2, <1>4 DEF TrailInv
  <2> QED
    BY <1>1, <2>1, AcceptedKept
<1>7. ASSUME NEW a \in audits', NEW b \in audits', Tells(a), Tells(b),
             a.debt = b.debt, a.revision = b.revision
      PROVE  a.from = b.from /\ a.to = b.to
  <2>1. CASE a \in audits /\ b \in audits
    BY <1>7, <2>1 DEF TrailInv
  <2>2. CASE a \in rows /\ b \in rows
    BY <1>1, <1>7, <2>2
  <2>3. CASE a \in audits /\ b \in rows
    BY <1>1, <1>2, <1>3, <1>4, <1>7, <2>3
  <2>4. CASE a \in rows /\ b \in audits
    BY <1>1, <1>2, <1>3, <1>4, <1>7, <2>4
  <2> QED
    BY <1>1, <2>1, <2>2, <2>3, <2>4
<1>8. ASSUME NEW a \in audits', NEW b \in audits', Tells(a), Tells(b),
             a.debt = b.debt, a.revision = b.revision + 1
      PROVE  a.from = b.to
  <2>1. CASE a \in audits /\ b \in audits
    BY <1>8, <2>1 DEF TrailInv
  <2>2. CASE a \in rows /\ b \in rows
    BY <1>1, <1>8, <2>2
  <2>3. CASE a \in audits /\ b \in rows
    BY <1>1, <1>2, <1>3, <1>4, <1>8, <2>3
  <2>4. CASE a \in rows /\ b \in audits
    <3>1. a.debt = d /\ b.debt = d /\ b.revision = debt[d].revision
          /\ a.revision = debt[d].revision + 1
      BY <1>1, <1>2, <1>3, <1>4, <1>8, <2>4
    <3>2. b.to = debt[d].status
      BY <1>8, <2>4, <3>1 DEF TrailInv
    <3> QED
      BY <1>1, <1>8, <2>4, <3>1, <3>2
  <2> QED
    BY <1>1, <2>1, <2>2, <2>3, <2>4
<1>9. ASSUME NEW c \in Debts, NEW revision \in 3..debt'[c].revision
      PROVE  \E a \in audits' : Tells(a) /\ a.debt = c /\ a.revision = revision
  <2>1. CASE revision \in 3..debt[c].revision
    BY <1>1, <2>1 DEF TrailInv
  <2>2. CASE revision \notin 3..debt[c].revision
    <3>1. c = d /\ revision \in (debt[d].revision + 1)..debt'[d].revision
      BY <1>3, <1>5, <1>9, <2>2
    <3> QED
      BY <1>1, <3>1
  <2> QED
    BY <2>1, <2>2
<1>10. ASSUME NEW a \in audits', Tells(a), a.revision = 3
       PROVE  a.from = "active"
  <2>1. CASE a \in audits
    BY <1>10, <2>1 DEF TrailInv
  <2>2. CASE a \in rows
    <3>1. debt[d].revision = 2
      BY <1>1, <1>3, <1>10, <2>2
    <3>2. debt[d].status = "active"
      BY <3>1 DEF RowInv
    <3> QED
      BY <1>1, <1>10, <2>2, <3>1, <3>2
  <2> QED
    BY <1>1, <2>1, <2>2
<1>11. ASSUME NEW a \in audits', Tells(a), a.revision = debt'[a.debt].revision
       PROVE  a.to = debt'[a.debt].status
  <2>1. CASE a \in rows
    BY <1>1, <1>11, <2>1
  <2>2. CASE a \in audits
    <3>1. a.debt # d
      BY <1>2, <1>3, <1>4, <1>5, <1>11, <2>2
    <3>2. debt'[a.debt] = debt[a.debt]
      BY <1>2, <1>5, <3>1
    <3> QED
      BY <1>11, <2>2, <3>2 DEF TrailInv
  <2> QED
    BY <1>1, <2>1, <2>2
<1> QED
  BY <1>6, <1>7, <1>8, <1>9, <1>10, <1>11 DEF TrailInv, Tells

-----------------------------------------------------------------------------
(* The ledger.                                                             *)

\* What the lemmas about the ledger need of rows.
Typed(p) == p.debt \in Debts /\ p.revision \in Nat /\ p.at \in Nat

\* Payments and voids name debts.
LEMMA LedgerTyped ==
    ASSUME Types
    PROVE  /\ \A p \in payments : Typed(p) /\ p.amount \in Nat
           /\ \A v \in voids : Typed(v) /\ v.payment \in Nat
BY DEF Types, Payment, Void, Typed

\* A payment goes on top of the ledger.
LEMMA PaysLedger ==
    ASSUME Types, Types', \A c \in Debts : RowInv(c), NEW d \in Debts, Others(d), Grows(d),
           NEW seen, NEW basis, NEW amount, NEW marking \in BOOLEAN,
           Pays(d, seen, basis, amount, marking), LedgerInv
    PROVE  LedgerInv'
<1> DEFINE R == debt'[d].revision
           new == [debt |-> d, amount |-> amount, revision |-> R, at |-> today]
<1>1. payments' = payments \cup {new} /\ voids' = voids /\ today' = today
  BY DEF Pays, Post
<1>2. /\ new.debt = d /\ new.revision = R /\ new.at = today /\ today \in Nat
  BY DEF Types
<1>3. /\ \A p \in payments : Typed(p)
      /\ \A v \in voids : Typed(v) /\ v.payment \in Nat
  BY LedgerTyped
<1>4. \A c \in Debts :
        /\ debt[c].revision \in Nat /\ debt'[c].revision \in Nat
        /\ debt[c].revision >= 2 /\ debt'[c].revision >= debt[c].revision
        /\ debt'[c].overdueRevision = debt[c].overdueRevision \/ debt'[c].overdueRevision > debt[c].revision
        /\ debt'[c].writtenOffRevision = debt[c].writtenOffRevision
           \/ debt'[c].writtenOffRevision > debt[c].revision
  BY Keeps
<1>5. /\ R > debt[d].revision /\ R # debt'[d].overdueRevision /\ R # debt'[d].writtenOffRevision
  <2>1. debt[d] \in DebtRow /\ debt'[d] \in DebtRow /\ RowInv(d)
    BY DEF Types
  <2>2. PaymentRow(d, seen, basis, marking)
    BY DEF Pays
  <2> QED
    BY <2>1, <2>2 DEF PaymentRow, RowInv, DebtRow, Unset
<1> HIDE DEF new, R
<1>6. \A p \in payments' : p.revision \in 3..debt'[p.debt].revision
  BY <1>1, <1>2, <1>3, <1>4, <1>5 DEF LedgerInv, Typed, R
<1>7. \A p, q \in payments' : p.debt = q.debt /\ p.revision = q.revision => p = q
  BY <1>1, <1>2, <1>3, <1>4, <1>5 DEF LedgerInv, Typed
<1>8. \A v \in voids' :
         /\ v.revision \in 3..debt'[v.debt].revision /\ v.payment < v.revision
         /\ \E p \in payments' : p.debt = v.debt /\ p.revision = v.payment /\ p.at <= v.at
  BY <1>1, <1>3, <1>4 DEF LedgerInv, Typed
<1>9. \A v, w \in voids' :
         v.debt = w.debt /\ (v.payment = w.payment \/ v.revision = w.revision) => v = w
  BY <1>1 DEF LedgerInv
<1>10. \A p \in payments' :
         /\ p.revision # debt'[p.debt].overdueRevision
         /\ p.revision # debt'[p.debt].writtenOffRevision
  BY <1>1, <1>2, <1>3, <1>4, <1>5 DEF LedgerInv, Typed, R
<1>11. \A v \in voids' : v.revision # debt'[v.debt].writtenOffRevision
  BY <1>1, <1>3, <1>4 DEF LedgerInv, Typed
<1>12. \A p \in payments', v \in voids' : p.debt = v.debt => p.revision # v.revision
  BY <1>1, <1>2, <1>3, <1>4, <1>5 DEF LedgerInv, Typed
<1>13. ASSUME NEW v \in voids', NEW p \in payments',
              v.debt = p.debt, v.payment < p.revision, p.revision < v.revision
       PROVE  \E w \in voids' : w.debt = p.debt /\ w.payment = p.revision /\ w.revision < v.revision
  <2>1. v.revision <= debt[v.debt].revision /\ v.debt \in Debts
    BY <1>1, <1>3 DEF LedgerInv, Typed
  <2>2. p # new
    BY <1>1, <1>2, <1>3, <1>4, <1>5, <1>13, <2>1 DEF Typed, R
  <2>3. p \in payments /\ v \in voids
    BY <1>1, <2>2
  <2> QED
    BY <1>1, <1>13, <2>3 DEF LedgerInv
<1>14. \A p \in payments' : p.at <= today'
  BY <1>1, <1>2 DEF LedgerInv
<1> QED
  BY <1>6, <1>7, <1>8, <1>9, <1>10, <1>11, <1>12, <1>13, <1>14 DEF LedgerInv

\* A void takes back what is on top of it.
LEMMA UndoesLedger ==
    ASSUME Types, Types', \A c \in Debts : RowInv(c), NEW d \in Debts, Others(d), Grows(d),
           NEW p \in payments, Undoes(d, p), LedgerInv
    PROVE  LedgerInv'
<1> DEFINE R == debt[d].revision + 1
           new == [debt |-> d, payment |-> p.revision, revision |-> R, at |-> today]
<1>1. payments' = payments /\ voids' = voids \cup {new} /\ today' = today
  BY DEF Undoes
<1>2. /\ new.debt = d /\ new.revision = R /\ new.at = today /\ new.payment = p.revision
      /\ today \in Nat
  BY DEF Types
<1>3. /\ \A q \in payments : Typed(q)
      /\ \A v \in voids : Typed(v) /\ v.payment \in Nat
  BY LedgerTyped
<1>4. \A c \in Debts :
        /\ debt[c].revision \in Nat /\ debt'[c].revision \in Nat
        /\ debt[c].revision >= 2 /\ debt'[c].revision >= debt[c].revision
        /\ debt'[c].overdueRevision = debt[c].overdueRevision \/ debt'[c].overdueRevision > debt[c].revision
        /\ debt'[c].writtenOffRevision = debt[c].writtenOffRevision
           \/ debt'[c].writtenOffRevision > debt[c].revision
  BY Keeps
<1>5. /\ debt'[d].revision = R /\ R > debt[d].revision
      /\ debt'[d].writtenOffRevision = debt[d].writtenOffRevision
      /\ R # debt'[d].writtenOffRevision
  <2>1. debt[d] \in DebtRow /\ RowInv(d) /\ VoidRow(d)
    BY DEF Types, Undoes
  <2> QED
    BY <2>1 DEF VoidRow, RowInv, DebtRow, Unset
<1>6. /\ p.debt = d /\ p.revision <= debt[d].revision /\ p.at <= today
      /\ \A v \in voids : ~(v.debt = d /\ v.payment = p.revision)
      /\ \A q \in payments : q.debt = d /\ q.revision > p.revision =>
           \E v \in voids : v.debt = d /\ v.payment = q.revision
  <2>1. p \in Standing(d) /\ \A q \in Standing(d) : q.revision <= p.revision
    BY DEF Undoes, IsLatest
  <2>2. p.debt = d /\ ~Voided(p)
    BY <2>1 DEF Standing
  <2>3. p.revision <= debt[d].revision /\ p.at <= today
    BY <2>2 DEF LedgerInv
  <2>4. ASSUME NEW q \in payments, q.debt = d, q.revision > p.revision
        PROVE  Voided(q)
    BY <1>3, <2>1, <2>4 DEF Standing, Typed
  <2> QED
    BY <2>2, <2>3, <2>4 DEF Voided
<1> HIDE DEF new, R
<1>7. \A q \in payments' : q.revision \in 3..debt'[q.debt].revision
  BY <1>1, <1>3, <1>4 DEF LedgerInv, Typed
<1>8. \A q, r \in payments' : q.debt = r.debt /\ q.revision = r.revision => q = r
  BY <1>1 DEF LedgerInv
<1>9. \A v \in voids' :
         /\ v.revision \in 3..debt'[v.debt].revision /\ v.payment < v.revision
         /\ \E q \in payments' : q.debt = v.debt /\ q.revision = v.payment /\ q.at <= v.at
  <2>1. ASSUME NEW v \in voids
        PROVE  /\ v.revision \in 3..debt'[v.debt].revision /\ v.payment < v.revision
               /\ \E q \in payments' : q.debt = v.debt /\ q.revision = v.payment /\ q.at <= v.at
    BY <1>1, <1>3, <1>4 DEF LedgerInv, Typed
  <2>2. /\ R \in 3..debt'[d].revision /\ p.revision < R
    BY <1>3, <1>4, <1>5, <1>6 DEF Typed, R
  <2> QED
    BY <1>1, <1>2, <1>6, <2>1, <2>2
<1>10. \A v, w \in voids' :
         v.debt = w.debt /\ (v.payment = w.payment \/ v.revision = w.revision) => v = w
  <2>1. \A v \in voids : v.debt = d => v.revision # R /\ v.payment # p.revision
    BY <1>3, <1>4, <1>5, <1>6 DEF LedgerInv, Typed
  <2> QED
    BY <1>1, <1>2, <2>1 DEF LedgerInv
<1>11. \A q \in payments' :
         /\ q.revision # debt'[q.debt].overdueRevision
         /\ q.revision # debt'[q.debt].writtenOffRevision
  BY <1>1, <1>3, <1>4 DEF LedgerInv, Typed
<1>12. \A v \in voids' : v.revision # debt'[v.debt].writtenOffRevision
  BY <1>1, <1>2, <1>3, <1>4, <1>5 DEF LedgerInv, Typed
<1>13. \A q \in payments', v \in voids' : q.debt = v.debt => q.revision # v.revision
  <2>1. \A q \in payments : q.debt = d => q.revision # R
    BY <1>3, <1>4, <1>5 DEF LedgerInv, Typed
  <2> QED
    BY <1>1, <1>2, <2>1 DEF LedgerInv
<1>14. ASSUME NEW v \in voids', NEW q \in payments',
              v.debt = q.debt, v.payment < q.revision, q.revision < v.revision
       PROVE  \E w \in voids' : w.debt = q.debt /\ w.payment = q.revision /\ w.revision < v.revision
  <2>1. CASE v \in voids
    BY <1>1, <1>14, <2>1 DEF LedgerInv
  <2>2. CASE v = new
    <3>1. PICK w \in voids : w.debt = d /\ w.payment = q.revision
      BY <1>1, <1>2, <1>3, <1>6, <1>14, <2>2 DEF Typed
    <3>2. w.revision < R
      BY <1>3, <1>4, <1>5, <3>1 DEF LedgerInv, Typed
    <3> QED
      BY <1>1, <1>2, <1>14, <2>2, <3>1, <3>2
  <2> QED
    BY <1>1, <2>1, <2>2
<1>15. \A q \in payments' : q.at <= today'
  BY <1>1 DEF LedgerInv
<1> QED
  BY <1>7, <1>8, <1>9, <1>10, <1>11, <1>12, <1>13, <1>14, <1>15 DEF LedgerInv

\* Other steps leave payments and voids alone.
LEMMA QuietLedger ==
    ASSUME Types, Types', \A c \in Debts : RowInv(c), NEW d \in Debts, Others(d), Grows(d),
           UNCHANGED <<payments, voids>>, today' = today, LedgerInv
    PROVE  LedgerInv'
<1>1. /\ \A q \in payments : Typed(q)
      /\ \A v \in voids : Typed(v) /\ v.payment \in Nat
  BY LedgerTyped
<1>2. \A c \in Debts :
        /\ debt[c].revision \in Nat /\ debt'[c].revision \in Nat
        /\ debt[c].revision >= 2 /\ debt'[c].revision >= debt[c].revision
        /\ debt'[c].overdueRevision = debt[c].overdueRevision \/ debt'[c].overdueRevision > debt[c].revision
        /\ debt'[c].writtenOffRevision = debt[c].writtenOffRevision
           \/ debt'[c].writtenOffRevision > debt[c].revision
  BY Keeps
<1>3. \A q \in payments : /\ q.revision \in 3..debt'[q.debt].revision
                          /\ q.revision # debt'[q.debt].overdueRevision
                          /\ q.revision # debt'[q.debt].writtenOffRevision
  BY <1>1, <1>2 DEF LedgerInv, Typed
<1>4. \A v \in voids : /\ v.revision \in 3..debt'[v.debt].revision
                       /\ v.revision # debt'[v.debt].writtenOffRevision
  BY <1>1, <1>2 DEF LedgerInv, Typed
<1> QED
  BY <1>3, <1>4 DEF LedgerInv

-----------------------------------------------------------------------------
(* Every revision is accounted for.                                        *)

\* What a revision of a debt was spent on.
Spent(d, revision) ==
    \/ \E p \in payments : p.debt = d /\ p.revision = revision
    \/ \E v \in voids : v.debt = d /\ v.revision = revision
    \/ revision = debt[d].overdueRevision
    \/ revision = debt[d].writtenOffRevision

\* What a debt has is still accounted for, whatever it gains.
LEMMA CoverKept ==
    ASSUME Types, Types', \A c \in Debts : RowInv(c), NEW d \in Debts, Grows(d), Cover,
           \A revision \in (debt[d].revision + 1)..debt'[d].revision : Spent(d, revision)'
    PROVE  Cover'
<1>1. \A c \in Debts :
        /\ debt[c].revision \in Nat /\ debt'[c].revision \in Nat
        /\ debt[c].overdueRevision # Unset => debt'[c].overdueRevision = debt[c].overdueRevision
        /\ debt[c].writtenOffRevision # Unset =>
             debt'[c].writtenOffRevision = debt[c].writtenOffRevision
  BY Keeps
<1>2. ASSUME NEW c \in Debts, NEW revision \in 3..debt'[c].revision
      PROVE  Spent(c, revision)'
  <2>1. CASE revision <= debt[c].revision
    <3>1. Spent(c, revision)
      BY <1>1, <1>2, <2>1 DEF Cover, Spent
    <3>2. payments \subseteq payments' /\ voids \subseteq voids'
      BY DEF Grows
    <3>3. revision # Unset
      BY <1>2 DEF Unset
    <3> QED
      BY <1>1, <3>1, <3>2, <3>3 DEF Spent
  <2>2. CASE ~(revision <= debt[c].revision)
    <3>1. c = d
      BY <1>1, <1>2, <2>2 DEF Grows
    <3> QED
      BY <1>1, <1>2, <2>2, <3>1
  <2> QED
    BY <2>1, <2>2
<1> QED
  BY <1>2 DEF Cover, Spent

\* The other debts are as they were.
LEMMA TerminalKept ==
    ASSUME NEW d \in Debts, Grows(d), Terminal,
           debt'[d].status = "paid" =>
             \E p \in payments' :
                 p.debt = d /\ p.revision = debt'[d].revision /\ p.at = debt'[d].paidAt,
           debt'[d].status = "written_off_settled" =>
             \E p \in payments' :
                 p.debt = d /\ p.revision = debt'[d].revision /\ p.at = debt'[d].settledAt
    PROVE  Terminal'
<1>1. ASSUME NEW c \in Debts \ {d}
      PROVE  /\ debt'[c].status = "paid" =>
                  \E p \in payments' :
                      p.debt = c /\ p.revision = debt'[c].revision /\ p.at = debt'[c].paidAt
             /\ debt'[c].status = "written_off_settled" =>
                  \E p \in payments' :
                      p.debt = c /\ p.revision = debt'[c].revision /\ p.at = debt'[c].settledAt
  <2>1. debt'[c] = debt[c] /\ payments \subseteq payments'
    BY DEF Grows
  <2> QED
    BY <2>1 DEF Terminal
<1> QED
  BY <1>1 DEF Terminal

\* A payment spends its revision, and a terminal status rests on it.
LEMMA PaysCovers ==
    ASSUME Types, Types', \A c \in Debts : RowInv(c), NEW d \in Debts, Grows(d),
           NEW seen, NEW basis, NEW amount, NEW marking \in BOOLEAN,
           Pays(d, seen, basis, amount, marking), Cover, Terminal
    PROVE  Cover' /\ Terminal'
<1> DEFINE R == debt'[d].revision
           new == [debt |-> d, amount |-> amount, revision |-> R, at |-> today]
<1>1. new \in payments' /\ new.debt = d /\ new.revision = R /\ new.at = today
  BY DEF Pays, Post
<1>2. debt[d] \in DebtRow /\ debt'[d] \in DebtRow /\ PaymentRow(d, seen, basis, marking)
  BY DEF Types, Pays
<1>3. debt[d].revision \in Nat /\ R \in Nat
  BY <1>2 DEF DebtRow
<1>4. \A revision \in (debt[d].revision + 1)..R :
        revision = R \/ revision = debt'[d].overdueRevision
  BY <1>2, <1>3 DEF PaymentRow
<1>5. /\ debt'[d].status = "paid" => debt'[d].paidAt = today
      /\ debt'[d].status = "written_off_settled" => debt'[d].settledAt = today
  BY <1>2 DEF PaymentRow
<1> HIDE DEF new
<1>6. \A revision \in (debt[d].revision + 1)..R : Spent(d, revision)'
  BY <1>1, <1>4 DEF Spent
<1>7. Cover'
  BY <1>6, CoverKept
<1>8. Terminal'
  BY <1>1, <1>5, TerminalKept
<1> QED
  BY <1>7, <1>8

\* A void spends its revision, and leaves no terminal status.
LEMMA UndoesCovers ==
    ASSUME Types, Types', \A c \in Debts : RowInv(c), NEW d \in Debts, Grows(d),
           NEW p \in payments, Undoes(d, p), Cover, Terminal
    PROVE  Cover' /\ Terminal' /\ debt'[d].status \notin {"paid", "written_off_settled"}
<1> DEFINE R == debt[d].revision + 1
           new == [debt |-> d, payment |-> p.revision, revision |-> R, at |-> today]
<1>1. new \in voids' /\ new.debt = d /\ new.revision = R
  BY DEF Undoes
<1>2. debt[d] \in DebtRow /\ debt'[d].revision = R /\ debt'[d].status = ReopenedStatus(d)
  BY DEF Types, Undoes, VoidRow
<1>3. debt[d].revision \in Nat
  BY <1>2 DEF DebtRow
<1>4. debt'[d].status \notin {"paid", "written_off_settled"}
  BY <1>2 DEF ReopenedStatus, DebtRow, Statuses
<1> HIDE DEF new
<1>5. \A revision \in (debt[d].revision + 1)..debt'[d].revision : Spent(d, revision)'
  BY <1>1, <1>2, <1>3 DEF Spent
<1>6. Cover'
  BY <1>5, CoverKept
<1>7. Terminal'
  BY <1>4, TerminalKept
<1> QED
  BY <1>4, <1>6, <1>7

\* So do the marking of the batch,
LEMMA MarksCovers ==
    ASSUME Types, Types', \A c \in Debts : RowInv(c), NEW d \in Debts, Grows(d),
           NEW day, Marks(d, day), Cover, Terminal
    PROVE  Cover' /\ Terminal'
<1>1. /\ debt[d] \in DebtRow /\ debt'[d].revision = debt[d].revision + 1
      /\ debt'[d].overdueRevision = debt[d].revision + 1 /\ debt'[d].status = "overdue"
  BY DEF Types, Marks
<1>2. debt[d].revision \in Nat
  BY <1>1 DEF DebtRow
<1>3. \A revision \in (debt[d].revision + 1)..debt'[d].revision : Spent(d, revision)'
  BY <1>1, <1>2 DEF Spent
<1>4. Cover'
  BY <1>3, CoverKept
<1>5. Terminal'
  BY <1>1, TerminalKept
<1> QED
  BY <1>4, <1>5

\* and the write-off.
LEMMA GivesUpCovers ==
    ASSUME Types, Types', \A c \in Debts : RowInv(c), NEW d \in Debts, Grows(d),
           GivesUp(d), Cover, Terminal
    PROVE  Cover' /\ Terminal'
<1>1. /\ debt[d] \in DebtRow /\ debt'[d].revision = debt[d].revision + 1
      /\ debt'[d].writtenOffRevision = debt[d].revision + 1 /\ debt'[d].status = "written_off"
  BY DEF Types, GivesUp
<1>2. debt[d].revision \in Nat
  BY <1>1 DEF DebtRow
<1>3. \A revision \in (debt[d].revision + 1)..debt'[d].revision : Spent(d, revision)'
  BY <1>1, <1>2 DEF Spent
<1>4. Cover'
  BY <1>3, CoverKept
<1>5. Terminal'
  BY <1>1, TerminalKept
<1> QED
  BY <1>4, <1>5

-----------------------------------------------------------------------------
(* The keys.                                                               *)

\* A key is that of an effect.
KeySound(k) ==
    /\ k.endpoint = "payment" =>
         /\ \E p \in payments : p.debt = k.debt /\ p.revision = k.result /\ p.amount = k.amount
         /\ k.result =
              IF debt[k.debt].overdueRevision = k.seen + 1 THEN k.seen + 2 ELSE k.seen + 1
         /\ k.result = k.seen + 2 => k.basis = "original"
    /\ k.endpoint = "void" => \E v \in voids : v.debt = k.debt /\ v.payment = k.result
    /\ k.endpoint = "write_off" =>
         k.result = debt[k.debt].writtenOffRevision /\ k.result # Unset

\* Keys stay sound, and at most one is added, for what is new.
LEMMA KeysKept ==
    ASSUME Types, Types', \A c \in Debts : RowInv(c), NEW d \in Debts, Grows(d), KeysInv,
           NEW more, keys' = keys \cup more,
           \A k \in more : k.debt = d /\ k.seen = debt[d].revision /\ KeySound(k)',
           \A j, k \in more : j = k,
           \A k \in more, j \in keys :
             j.debt = d /\ j.endpoint = k.endpoint => j.result # k.result,
           \A p \in payments' : p \in payments \/ \E k \in more :
             k.endpoint = "payment" /\ k.debt = p.debt /\ k.result = p.revision,
           \A v \in voids' : v \in voids \/ \E k \in more :
             k.endpoint = "void" /\ k.debt = v.debt /\ k.result = v.payment,
           \/ debt'[d].writtenOffRevision = debt[d].writtenOffRevision
           \/ \E k \in more : /\ k.endpoint = "write_off" /\ k.debt = d
                              /\ k.result = debt'[d].writtenOffRevision
    PROVE  KeysInv'
<1>1. \A c \in Debts :
        /\ debt[c].revision \in Nat /\ debt'[c].revision \in Nat
        /\ debt'[c].revision >= debt[c].revision
        /\ debt[c].overdueRevision # Unset => debt'[c].overdueRevision = debt[c].overdueRevision
        /\ debt[c].writtenOffRevision # Unset =>
             debt'[c].writtenOffRevision = debt[c].writtenOffRevision
        /\ debt'[c].overdueRevision = debt[c].overdueRevision
           \/ debt'[c].overdueRevision > debt[c].revision
  BY Keeps
<1>2. \A k \in keys : k.debt \in Debts /\ k.seen \in Nat /\ k.result \in Nat
  BY DEF Types, Key
<1>3. /\ payments \subseteq payments' /\ voids \subseteq voids'
      /\ debt'[d].revision > debt[d].revision /\ \A c \in Debts \ {d} : debt'[c] = debt[c]
  BY DEF Grows
<1>4. \A k \in keys : k.seen < debt[k.debt].revision
  BY DEF KeysInv
<1>5. ASSUME NEW k \in keys
      PROVE  KeySound(k)'
  <2>1. KeySound(k)
    BY DEF KeysInv, KeySound
  <2>2. CASE k.endpoint = "payment"
    <3>1. debt'[k.debt].overdueRevision = k.seen + 1 <=> debt[k.debt].overdueRevision = k.seen + 1
      BY <1>1, <1>2, <1>4 DEF Unset
    <3> QED
      BY <1>3, <2>1, <2>2, <3>1 DEF KeySound
  <2>3. CASE k.endpoint = "void"
    BY <1>3, <2>1, <2>3 DEF KeySound
  <2>4. CASE k.endpoint = "write_off"
    BY <1>1, <1>2, <2>1, <2>4 DEF KeySound
  <2>5. k.endpoint \in {"payment", "void", "write_off"}
    BY DEF Types, Key
  <2> QED
    BY <2>2, <2>3, <2>4, <2>5
<1>6. \A k \in keys' : KeySound(k)'
  BY <1>5
<1>7. \A k \in keys' : k.seen < debt'[k.debt].revision
  BY <1>1, <1>2, <1>3, <1>4
<1>8. ASSUME NEW j \in keys', NEW k \in keys', j.debt = k.debt,
             j.seen = k.seen \/ (j.endpoint = k.endpoint /\ j.result = k.result)
      PROVE  j = k
  <2>1. CASE j \in keys /\ k \in keys
    BY <1>8, <2>1 DEF KeysInv
  <2>2. CASE j \in more /\ k \in more
    BY <2>2
  <2>3. CASE j \in keys /\ k \in more
    BY <1>1, <1>2, <1>4, <1>8, <2>3
  <2>4. CASE j \in more /\ k \in keys
    BY <1>1, <1>2, <1>4, <1>8, <2>4
  <2> QED
    BY <2>1, <2>2, <2>3, <2>4
<1>9. \A p \in payments' :
        \E k \in keys' : k.endpoint = "payment" /\ k.debt = p.debt /\ k.result = p.revision
  BY DEF KeysInv
<1>10. \A v \in voids' :
         \E k \in keys' : k.endpoint = "void" /\ k.debt = v.debt /\ k.result = v.payment
  BY DEF KeysInv
<1>11. ASSUME NEW c \in Debts, debt'[c].writtenOffRevision # Unset
       PROVE  \E k \in keys' : /\ k.endpoint = "write_off" /\ k.debt = c
                               /\ k.result = debt'[c].writtenOffRevision
  <2>1. CASE debt'[c].writtenOffRevision = debt[c].writtenOffRevision
    BY <1>11, <2>1 DEF KeysInv
  <2>2. CASE debt'[c].writtenOffRevision # debt[c].writtenOffRevision
    BY <1>3, <2>2
  <2> QED
    BY <2>1, <2>2
<1>12. /\ \A k \in keys' : k.endpoint = "payment" =>
            /\ \E p \in payments' :
                 p.debt = k.debt /\ p.revision = k.result /\ p.amount = k.amount
            /\ k.result =
                 IF debt'[k.debt].overdueRevision = k.seen + 1 THEN k.seen + 2 ELSE k.seen + 1
            /\ k.result = k.seen + 2 => k.basis = "original"
       /\ \A k \in keys' : k.endpoint = "void" =>
            \E v \in voids' : v.debt = k.debt /\ v.payment = k.result
       /\ \A k \in keys' : k.endpoint = "write_off" =>
            k.result = debt'[k.debt].writtenOffRevision /\ k.result # Unset
  BY <1>6 DEF KeySound
<1> QED
  BY <1>7, <1>8, <1>9, <1>10, <1>11, <1>12 DEF KeysInv

\* The key of a payment names the revision it made, its own marking counted.
LEMMA PaysKeys ==
    ASSUME Types, Types', \A c \in Debts : RowInv(c), NEW d \in Debts, Grows(d),
           NEW seen, NEW basis, NEW amount, NEW marking \in BOOLEAN,
           Pays(d, seen, basis, amount, marking), LedgerInv, KeysInv
    PROVE  KeysInv'
<1> DEFINE R == debt'[d].revision
           new == [debt |-> d, amount |-> amount, revision |-> R, at |-> today]
<1>0. PICK key : key = [endpoint |-> "payment", debt |-> d, seen |-> seen, basis |-> basis,
                       amount |-> amount, result |-> R]
  OBVIOUS
<1>1. /\ payments' = payments \cup {new} /\ voids' = voids /\ keys' = keys \cup {key}
      /\ new.debt = d /\ new.revision = R /\ new.amount = amount
      /\ key.endpoint = "payment" /\ key.debt = d /\ key.seen = seen /\ key.basis = basis
      /\ key.amount = amount /\ key.result = R
  BY <1>0 DEF Pays, Post
<1>2. debt[d] \in DebtRow /\ debt'[d] \in DebtRow /\ RowInv(d)
  BY DEF Types
<1>3. /\ seen = debt[d].revision
      /\ IF marking
         THEN R = seen + 2 /\ debt'[d].overdueRevision = seen + 1 /\ basis = "original"
         ELSE R = seen + 1 /\ debt'[d].overdueRevision = debt[d].overdueRevision
      /\ debt'[d].writtenOffRevision = debt[d].writtenOffRevision
  BY DEF Pays, PaymentRow
<1>4. debt[d].revision \in Nat
  BY <1>2 DEF DebtRow
<1> HIDE DEF new
<1>5. KeySound(key)'
  <2>1. R = IF debt'[d].overdueRevision = seen + 1 THEN seen + 2 ELSE seen + 1
    BY <1>2, <1>3, <1>4 DEF RowInv, Unset
  <2>2. R = seen + 2 => basis = "original"
    BY <1>3, <1>4
  <2>3. \E p \in payments' : p.debt = d /\ p.revision = R /\ p.amount = amount
    BY <1>1
  <2> QED
    BY <1>1, <2>1, <2>2, <2>3 DEF KeySound
<1>6. ASSUME NEW j \in keys, j.debt = d, j.endpoint = "payment"
      PROVE  j.result # R
  <2>1. PICK p \in payments : p.debt = j.debt /\ p.revision = j.result
    BY <1>6 DEF KeysInv
  <2>2. p.revision <= debt[d].revision
    BY <1>6, <2>1 DEF LedgerInv
  <2> QED
    BY <1>3, <1>4, <2>1, <2>2
<1> DEFINE more == {key}
<1>7. /\ keys' = keys \cup more /\ \A j, k \in more : j = k
      /\ \A k \in more : k.debt = d /\ k.seen = debt[d].revision /\ KeySound(k)'
      /\ \A k \in more, j \in keys : j.debt = d /\ j.endpoint = k.endpoint => j.result # k.result
      /\ \A p \in payments' : p \in payments \/ \E k \in more :
           k.endpoint = "payment" /\ k.debt = p.debt /\ k.result = p.revision
      /\ \A v \in voids' : v \in voids
  BY <1>1, <1>3, <1>5, <1>6
<1> HIDE DEF more
<1> QED
  BY <1>3, <1>7, KeysKept

\* That of a void, the payment it took back: it stood until then.
LEMMA UndoesKeys ==
    ASSUME Types, Types', \A c \in Debts : RowInv(c), NEW d \in Debts, Grows(d),
           NEW p \in payments, Undoes(d, p), LedgerInv, KeysInv
    PROVE  KeysInv'
<1> DEFINE R == debt[d].revision + 1
           new == [debt |-> d, payment |-> p.revision, revision |-> R, at |-> today]
<1>0. PICK key : key = [endpoint |-> "void", debt |-> d, seen |-> debt[d].revision,
                       basis |-> "none", amount |-> 0, result |-> p.revision]
  OBVIOUS
<1>1. /\ voids' = voids \cup {new} /\ payments' = payments /\ keys' = keys \cup {key}
      /\ new.debt = d /\ new.payment = p.revision
      /\ key.endpoint = "void" /\ key.debt = d /\ key.seen = debt[d].revision
      /\ key.result = p.revision
      /\ debt'[d].writtenOffRevision = debt[d].writtenOffRevision
  BY <1>0 DEF Undoes, VoidRow
<1>2. p.debt = d /\ ~Voided(p)
  BY DEF Undoes, IsLatest, Standing
<1> HIDE DEF new
<1>3. KeySound(key)'
  BY <1>1 DEF KeySound
<1>4. ASSUME NEW j \in keys, j.debt = d, j.endpoint = "void"
      PROVE  j.result # p.revision
  <2>1. PICK v \in voids : v.debt = j.debt /\ v.payment = j.result
    BY <1>4 DEF KeysInv
  <2> QED
    BY <1>2, <1>4, <2>1 DEF Voided
<1> DEFINE more == {key}
<1>5. /\ keys' = keys \cup more /\ \A j, k \in more : j = k
      /\ \A k \in more : k.debt = d /\ k.seen = debt[d].revision /\ KeySound(k)'
      /\ \A k \in more, j \in keys : j.debt = d /\ j.endpoint = k.endpoint => j.result # k.result
      /\ \A v \in voids' : v \in voids \/ \E k \in more :
           k.endpoint = "void" /\ k.debt = v.debt /\ k.result = v.payment
      /\ \A q \in payments' : q \in payments
  BY <1>1, <1>3, <1>4
<1> HIDE DEF more
<1> QED
  BY <1>1, <1>5, KeysKept

\* That of a write-off, its own: there is one.
LEMMA GivesUpKeys ==
    ASSUME Types, Types', \A c \in Debts : RowInv(c), NEW d \in Debts, Grows(d),
           GivesUp(d), KeysInv
    PROVE  KeysInv'
<1> DEFINE R == debt[d].revision + 1
<1>0. PICK key : key = [endpoint |-> "write_off", debt |-> d, seen |-> debt[d].revision,
                       basis |-> "none", amount |-> 0, result |-> R]
  OBVIOUS
<1>1. /\ voids' = voids /\ payments' = payments /\ keys' = keys \cup {key}
      /\ key.endpoint = "write_off" /\ key.debt = d /\ key.seen = debt[d].revision
      /\ key.result = R /\ debt'[d].writtenOffRevision = R /\ debt[d].status = "overdue"
  BY <1>0 DEF GivesUp
<1>2. debt[d] \in DebtRow /\ RowInv(d)
  BY DEF Types
<1>3. R \in Nat /\ debt[d].writtenOffRevision = Unset
  BY <1>1, <1>2 DEF DebtRow, RowInv
<1>4. KeySound(key)'
  BY <1>1, <1>3 DEF KeySound, Unset
<1>5. ASSUME NEW j \in keys, j.debt = d, j.endpoint = "write_off"
      PROVE  j.result # R
  BY <1>3, <1>5 DEF KeysInv
<1> DEFINE more == {key}
<1>6. /\ keys' = keys \cup more /\ \A j, k \in more : j = k
      /\ \A k \in more : k.debt = d /\ k.seen = debt[d].revision /\ KeySound(k)'
      /\ \A k \in more, j \in keys : j.debt = d /\ j.endpoint = k.endpoint => j.result # k.result
      /\ \E k \in more : /\ k.endpoint = "write_off" /\ k.debt = d
                         /\ k.result = debt'[d].writtenOffRevision
      /\ \A v \in voids' : v \in voids
      /\ \A q \in payments' : q \in payments
  BY <1>1, <1>4, <1>5
<1> HIDE DEF more
<1> QED
  BY <1>6, KeysKept

\* The batch has none.
LEMMA MarksKeys ==
    ASSUME Types, Types', \A c \in Debts : RowInv(c), NEW d \in Debts, Grows(d),
           NEW day, Marks(d, day), KeysInv
    PROVE  KeysInv'
<1>0. PICK more : more = {}
  OBVIOUS
<1>1. /\ \A v \in voids' : v \in voids
      /\ \A p \in payments' : p \in payments
      /\ keys' = keys \cup more /\ \A k \in more : FALSE
      /\ debt'[d].writtenOffRevision = debt[d].writtenOffRevision
  BY <1>0 DEF Marks
<1> QED
  BY <1>1, KeysKept

-----------------------------------------------------------------------------
(* The rows the mutations read again.                                      *)

\* A row for every payment, for a terminal status and for a penalty.
LEMMA AuditsKept ==
    ASSUME Types, Types', \A c \in Debts : RowInv(c), NEW d \in Debts, Grows(d),
           NEW rows, Records(d, rows), AuditInv,
           \A p \in payments' : p \in payments \/ \E a \in rows :
             /\ a.debt = p.debt /\ a.type = "payment.recorded" /\ a.actor = "USER"
             /\ a.revision = p.revision /\ a.at = p.at,
           debt'[d].status = "paid" => \E a \in rows :
             /\ a.type = "debt.paid" /\ a.actor = "USER"
             /\ a.revision = debt'[d].revision /\ a.at = debt'[d].paidAt,
           debt'[d].status = "written_off_settled" => \E a \in rows :
             /\ a.type = "debt.written_off_settled" /\ a.actor = "USER"
             /\ a.revision = debt'[d].revision /\ a.at = debt'[d].settledAt,
           \/ debt'[d].overdueRevision = debt[d].overdueRevision
           \/ \A type \in {"debt.overdue", "debt.clawback_applied"} : \E a \in rows : a.type = type,
           \/ debt'[d].writtenOffRevision = debt[d].writtenOffRevision
           \/ \E a \in rows : a.type = "debt.written_off"
    PROVE  AuditInv'
<1>1. AuditsFresh'
  BY FreshKept DEF AuditInv
<1>2. /\ audits' = audits \cup rows /\ \A a \in rows : a.debt = d
      /\ \A c \in Debts \ {d} : debt'[c] = debt[c]
  BY DEF Records, Grows
<1>3. \A p \in payments' :
        \E a \in audits' : /\ a.debt = p.debt /\ a.type = "payment.recorded" /\ a.actor = "USER"
                           /\ a.revision = p.revision /\ a.at = p.at
  BY <1>2 DEF AuditInv
<1>4. ASSUME NEW c \in Debts
      PROVE  /\ debt'[c].status = "paid" =>
                  \E a \in audits' : /\ a.debt = c /\ a.type = "debt.paid" /\ a.actor = "USER"
                                     /\ a.revision = debt'[c].revision /\ a.at = debt'[c].paidAt
             /\ debt'[c].status = "written_off_settled" =>
                  \E a \in audits' :
                      /\ a.debt = c /\ a.type = "debt.written_off_settled" /\ a.actor = "USER"
                      /\ a.revision = debt'[c].revision /\ a.at = debt'[c].settledAt
  BY <1>2 DEF AuditInv
<1>5. ASSUME NEW c \in Debts, debt'[c].overdueRevision # Unset,
             NEW type \in {"debt.overdue", "debt.clawback_applied"}
      PROVE  \E a \in audits' : a.debt = c /\ a.type = type
  <2>1. CASE debt'[c].overdueRevision = debt[c].overdueRevision
    BY <1>2, <1>5, <2>1 DEF AuditInv
  <2>2. CASE debt'[c].overdueRevision # debt[c].overdueRevision
    BY <1>2, <1>5, <2>2
  <2> QED
    BY <2>1, <2>2
<1>6. ASSUME NEW c \in Debts, debt'[c].writtenOffRevision # Unset
      PROVE  \E a \in audits' : a.debt = c /\ a.type = "debt.written_off"
  <2>1. CASE debt'[c].writtenOffRevision = debt[c].writtenOffRevision
    BY <1>2, <1>6, <2>1 DEF AuditInv
  <2>2. CASE debt'[c].writtenOffRevision # debt[c].writtenOffRevision
    BY <1>2, <2>2
  <2> QED
    BY <2>1, <2>2
<1> QED
  BY <1>1, <1>3, <1>4, <1>5, <1>6 DEF AuditInv

\* The pair of a marking.
LEMMA PairOf ==
    ASSUME NEW d, NEW revision, NEW day, NEW from,
           NEW type \in {"debt.overdue", "debt.clawback_applied"}
    PROVE  \E a \in OverduePair(d, revision, day, from) : a.type = type
BY DEF OverduePair, Audit

\* The rows of a payment are its own, that of the status it reached, and the pair.
LEMMA PaysAudits ==
    ASSUME Types, Types', \A c \in Debts : RowInv(c), NEW d \in Debts, Grows(d),
           NEW seen, NEW basis, NEW amount, NEW marking \in BOOLEAN,
           Pays(d, seen, basis, amount, marking), Records(d, PaymentRows(d, marking)), AuditInv
    PROVE  AuditInv'
<1> DEFINE R == debt'[d].revision
           new == [debt |-> d, amount |-> amount, revision |-> R, at |-> today]
           rows == PaymentRows(d, marking)
<1>1. payments' = payments \cup {new} /\ new.debt = d /\ new.revision = R /\ new.at = today
  BY DEF Pays, Post
<1>2. PaymentRow(d, seen, basis, marking)
  BY DEF Pays
<1>3. \E a \in rows : /\ a.debt = d /\ a.type = "payment.recorded" /\ a.actor = "USER"
                      /\ a.revision = R /\ a.at = today
  <2> DEFINE a == UserAudit("payment.recorded", d, R,
                            IF marking THEN "overdue" ELSE debt[d].status, debt'[d].status)
  <2>1. a \in rows
    BY DEF PaymentRows
  <2>2. /\ a.debt = d /\ a.type = "payment.recorded" /\ a.actor = "USER"
        /\ a.revision = R /\ a.at = today
    BY DEF UserAudit, Audit
  <2> QED
    BY <2>1, <2>2
<1>4. ASSUME debt'[d].status = "paid"
      PROVE  \E a \in rows : /\ a.type = "debt.paid" /\ a.actor = "USER"
                             /\ a.revision = R /\ a.at = debt'[d].paidAt
  <2> DEFINE a == UserAudit("debt.paid", d, R, "none", "none")
  <2>1. a \in rows /\ debt'[d].paidAt = today
    BY <1>2, <1>4 DEF PaymentRows, PaymentRow
  <2>2. /\ a.type = "debt.paid" /\ a.actor = "USER" /\ a.revision = R /\ a.at = today
    BY DEF UserAudit, Audit
  <2> QED
    BY <2>1, <2>2
<1>5. ASSUME debt'[d].status = "written_off_settled"
      PROVE  \E a \in rows : /\ a.type = "debt.written_off_settled" /\ a.actor = "USER"
                             /\ a.revision = R /\ a.at = debt'[d].settledAt
  <2> DEFINE a == UserAudit("debt.written_off_settled", d, R, "written_off", debt'[d].status)
  <2>1. a \in rows /\ debt'[d].settledAt = today
    BY <1>2, <1>5 DEF PaymentRows, PaymentRow
  <2>2. /\ a.type = "debt.written_off_settled" /\ a.actor = "USER" /\ a.revision = R
        /\ a.at = today
    BY DEF UserAudit, Audit
  <2> QED
    BY <2>1, <2>2
<1>6. \/ debt'[d].overdueRevision = debt[d].overdueRevision
      \/ \A type \in {"debt.overdue", "debt.clawback_applied"} : \E a \in rows : a.type = type
  <2>1. CASE marking
    <3>1. OverduePair(d, debt[d].revision + 1, today, "active") \subseteq rows
      BY <2>1 DEF PaymentRows
    <3> QED
      BY <3>1, PairOf
  <2>2. CASE ~marking
    BY <1>2, <2>2 DEF PaymentRow
  <2> QED
    BY <2>1, <2>2
<1>7. debt'[d].writtenOffRevision = debt[d].writtenOffRevision
  BY <1>2 DEF PaymentRow
<1> HIDE DEF new, rows
<1>8. Records(d, rows)
  BY DEF rows
<1>9. \A p \in payments' : p \in payments \/ \E a \in rows :
             /\ a.debt = p.debt /\ a.type = "payment.recorded" /\ a.actor = "USER"
             /\ a.revision = p.revision /\ a.at = p.at
  BY <1>1, <1>3
<1> HIDE DEF R
<1> QED
  BY <1>4, <1>5, <1>6, <1>7, <1>8, <1>9, AuditsKept DEF R

\* Those of a void leave no terminal status.
LEMMA UndoesAudits ==
    ASSUME Types, Types', \A c \in Debts : RowInv(c), NEW d \in Debts, Grows(d),
           NEW p, Undoes(d, p), Records(d, VoidRows(d)), AuditInv,
           debt'[d].status \notin {"paid", "written_off_settled"}
    PROVE  AuditInv'
<1> DEFINE rows == VoidRows(d)
<1>1. /\ payments' = payments /\ debt'[d].writtenOffRevision = debt[d].writtenOffRevision
      /\ ~ReopensOverdue(d) => debt'[d].overdueRevision = debt[d].overdueRevision
  BY DEF Undoes, VoidRow
<1>2. \/ debt'[d].overdueRevision = debt[d].overdueRevision
      \/ \A type \in {"debt.overdue", "debt.clawback_applied"} : \E a \in rows : a.type = type
  <2>1. CASE ReopensOverdue(d)
    <3>1. OverduePair(d, debt[d].revision + 1, today, "paid") \subseteq rows
      BY <2>1 DEF VoidRows
    <3> QED
      BY <3>1, PairOf
  <2> QED
    BY <1>1, <2>1
<1> HIDE DEF rows
<1>3. Records(d, rows)
  BY DEF rows
<1> QED
  BY <1>1, <1>2, <1>3, AuditsKept

\* The batch writes the pair,
LEMMA MarksAudits ==
    ASSUME Types, Types', \A c \in Debts : RowInv(c), NEW d \in Debts, Grows(d),
           NEW day, Marks(d, day),
           Records(d, OverduePair(d, debt[d].revision + 1, day, "active")), AuditInv
    PROVE  AuditInv'
<1> DEFINE rows == OverduePair(d, debt[d].revision + 1, day, "active")
<1>1. /\ payments' = payments /\ debt'[d].writtenOffRevision = debt[d].writtenOffRevision
      /\ debt'[d].status = "overdue"
  BY DEF Marks
<1>2. \A type \in {"debt.overdue", "debt.clawback_applied"} : \E a \in rows : a.type = type
  BY PairOf
<1> HIDE DEF rows
<1>3. Records(d, rows)
  BY DEF rows
<1> QED
  BY <1>1, <1>2, <1>3, AuditsKept

\* and the administrator one row.
LEMMA GivesUpAudits ==
    ASSUME Types, Types', \A c \in Debts : RowInv(c), NEW d \in Debts, Grows(d),
           GivesUp(d), Records(d, GivenUp(d)), AuditInv
    PROVE  AuditInv'
<1> DEFINE rows == GivenUp(d)
<1>1. /\ payments' = payments /\ debt'[d].overdueRevision = debt[d].overdueRevision
      /\ debt'[d].status = "written_off"
  BY DEF GivesUp
<1>2. \E a \in rows : a.type = "debt.written_off"
  BY DEF GivenUp, UserAudit, Audit
<1> HIDE DEF rows
<1>3. Records(d, rows)
  BY DEF rows
<1> QED
  BY <1>1, <1>2, <1>3, AuditsKept

-----------------------------------------------------------------------------
(* The events.                                                             *)

\* Every event is of one of the types, and has a revision of its debt.
LEMMA EventsTyped ==
    ASSUME Types, NEW c \in Debts, NEW i \in DOMAIN events[c]
    PROVE  /\ events[c][i] \in RatingEvent /\ i \in Nat
           /\ i \in Has(c, events[c][i].type) /\ events[c][i].type \in EventTypes
<1>1. events[c] \in Seq(RatingEvent)
  BY DEF Types
<1>2. events[c][i] \in RatingEvent /\ i \in Nat
  BY <1>1
<1> QED
  BY <1>2 DEF Has, RatingEvent

\* The same of the events after a step.
LEMMA EventsTypedNext ==
    ASSUME Types', NEW c \in Debts, NEW i \in DOMAIN events'[c]
    PROVE  \E type \in EventTypes : i \in Has(c, type)'
<1>1. events'[c] \in Seq(RatingEvent)
  BY DEF Types
<1>2. events'[c][i] \in RatingEvent
  BY <1>1
<1> QED
  BY <1>2 DEF Has, RatingEvent

\* A type of event a step leaves alone, or of which it adds one of its own revision.
Appends(d, type) ==
    Same(type) \/ \E source \in 3..debt'[d].revision : \E day : Gains(d, type, source, day)

\* Events are of revisions the debt has had.
LEMMA SourcesKept ==
    ASSUME Types, Types', \A c \in Debts : RowInv(c), NEW d \in Debts, Grows(d), SourcesInv,
           \A type \in EventTypes : Appends(d, type)
    PROVE  SourcesInv'
<1> SUFFICES ASSUME NEW c \in Debts, NEW i \in DOMAIN events'[c]
             PROVE  events'[c][i].source \in 3..debt'[c].revision
  BY DEF SourcesInv
<1>1. PICK type \in EventTypes : i \in Has(c, type)'
  BY EventsTypedNext
<1>2. /\ debt[c].revision \in Nat /\ debt'[c].revision \in Nat
      /\ debt'[c].revision >= debt[c].revision
  BY Keeps
<1>3. ASSUME i \in Has(c, type), events'[c][i] = events[c][i]
      PROVE  events'[c][i].source \in 3..debt'[c].revision
  <2>1. i \in DOMAIN events[c]
    BY <1>3 DEF Has
  <2> QED
    BY <1>2, <1>3, <2>1 DEF SourcesInv
<1>4. CASE Same(type)
  BY <1>1, <1>3, <1>4 DEF Same
<1>5. CASE \E source \in 3..debt'[d].revision : \E day : Gains(d, type, source, day)
  BY <1>1, <1>3, <1>5 DEF Gains
<1> QED
  BY <1>4, <1>5 DEF Appends

\* What an event of a type is of.
LEMMA HasSource ==
    ASSUME Types, SourcesInv, NEW c \in Debts, NEW type, NEW i \in Has(c, type)
    PROVE  /\ i \in Nat /\ events[c][i].type = type
           /\ events[c][i].source \in 3..debt[c].revision /\ events[c][i].source # Unset
<1>1. i \in DOMAIN events[c] /\ events[c][i].type = type
  BY DEF Has
<1>2. events[c][i].source \in 3..debt[c].revision /\ i \in Nat
  BY <1>1, EventsTyped DEF SourcesInv
<1> QED
  BY <1>1, <1>2 DEF Unset

\* A penalty is taken once, and its event is that of the row.
LEMMA PenaltyKept ==
    ASSUME Types, SourcesInv, PenaltyInv, NEW d \in Debts, Others(d),
           \/ /\ Same("overdue")
              /\ debt'[d].overdueRevision = debt[d].overdueRevision
              /\ debt'[d].overdueAt = debt[d].overdueAt
           \/ /\ debt[d].overdueRevision = Unset
              /\ Gains(d, "overdue", debt'[d].overdueRevision, debt'[d].overdueAt),
           \/ /\ Same("written_off")
              /\ debt'[d].writtenOffRevision = debt[d].writtenOffRevision
              /\ debt'[d].writtenOffAt = debt[d].writtenOffAt
           \/ /\ debt[d].writtenOffRevision = Unset
              /\ Gains(d, "written_off", debt'[d].writtenOffRevision, debt'[d].writtenOffAt)
    PROVE  PenaltyInv'
<1>1. ASSUME NEW c \in Debts
      PROVE  /\ \A i, j \in Has(c, "overdue")' : i = j
             /\ \A i \in Has(c, "overdue")' :
                  /\ events'[c][i].source = debt'[c].overdueRevision
                  /\ events'[c][i].at = debt'[c].overdueAt
             /\ debt'[c].overdueRevision # Unset => Has(c, "overdue")' # {}
  <2>1. CASE /\ Has(c, "overdue")' = Has(c, "overdue")
             /\ \A i \in Has(c, "overdue") : events'[c][i] = events[c][i]
             /\ debt'[c].overdueRevision = debt[c].overdueRevision
             /\ debt'[c].overdueAt = debt[c].overdueAt
    BY <2>1 DEF PenaltyInv
  <2>2. CASE /\ c = d /\ debt[d].overdueRevision = Unset
             /\ Gains(d, "overdue", debt'[d].overdueRevision, debt'[d].overdueAt)
    <3>1. Has(d, "overdue") = {}
      BY <2>2, HasSource DEF PenaltyInv
    <3> QED
      BY <2>2, <3>1 DEF Gains
  <2>3. CASE /\ Same("overdue")
             /\ debt'[d].overdueRevision = debt[d].overdueRevision
             /\ debt'[d].overdueAt = debt[d].overdueAt
    BY <2>1, <2>3 DEF Same, Others
  <2>4. CASE /\ c # d /\ debt[d].overdueRevision = Unset
             /\ Gains(d, "overdue", debt'[d].overdueRevision, debt'[d].overdueAt)
    BY <2>1, <2>4 DEF Gains, Others
  <2> QED
    BY <2>2, <2>3, <2>4
<1>2. ASSUME NEW c \in Debts
      PROVE  /\ \A i, j \in Has(c, "written_off")' : i = j
             /\ \A i \in Has(c, "written_off")' :
                  /\ events'[c][i].source = debt'[c].writtenOffRevision
                  /\ events'[c][i].at = debt'[c].writtenOffAt
             /\ debt'[c].writtenOffRevision # Unset => Has(c, "written_off")' # {}
  <2>1. CASE /\ Has(c, "written_off")' = Has(c, "written_off")
             /\ \A i \in Has(c, "written_off") : events'[c][i] = events[c][i]
             /\ debt'[c].writtenOffRevision = debt[c].writtenOffRevision
             /\ debt'[c].writtenOffAt = debt[c].writtenOffAt
    BY <2>1 DEF PenaltyInv
  <2>2. CASE /\ c = d /\ debt[d].writtenOffRevision = Unset
             /\ Gains(d, "written_off", debt'[d].writtenOffRevision, debt'[d].writtenOffAt)
    <3>1. Has(d, "written_off") = {}
      BY <2>2, HasSource DEF PenaltyInv
    <3> QED
      BY <2>2, <3>1 DEF Gains
  <2>3. CASE /\ Same("written_off")
             /\ debt'[d].writtenOffRevision = debt[d].writtenOffRevision
             /\ debt'[d].writtenOffAt = debt[d].writtenOffAt
    BY <2>1, <2>3 DEF Same, Others
  <2>4. CASE /\ c # d /\ debt[d].writtenOffRevision = Unset
             /\ Gains(d, "written_off", debt'[d].writtenOffRevision, debt'[d].writtenOffAt)
    BY <2>1, <2>4 DEF Gains, Others
  <2> QED
    BY <2>2, <2>3, <2>4
<1> QED
  BY <1>1, <1>2 DEF PenaltyInv

\* The events of a payment: a penalty, and the reward of the status it reached.
LEMMA PaysSources ==
    ASSUME Types, Types', \A c \in Debts : RowInv(c), NEW d \in Debts, Grows(d), Others(d),
           NEW seen, NEW basis, NEW amount, NEW marking \in BOOLEAN,
           Pays(d, seen, basis, amount, marking), SourcesInv, PenaltyInv
    PROVE  SourcesInv' /\ PenaltyInv'
<1>1. debt[d] \in DebtRow /\ RowInv(d) /\ PaymentRow(d, seen, basis, marking)
  BY DEF Types, Pays
<1>2. debt[d].revision \in Nat /\ debt[d].revision >= 2
  BY <1>1 DEF DebtRow, RowInv
<1>3. debt[d].revision + 1 \in 3..debt'[d].revision /\ debt'[d].revision \in 3..debt'[d].revision
  BY <1>1, <1>2 DEF PaymentRow
<1>4. PaymentEvents(d, marking)
  BY DEF Pays
<1>5. \A type \in EventTypes : Appends(d, type)
  BY <1>3, <1>4 DEF PaymentEvents, Appends, EventTypes
<1>6. SourcesInv'
  BY <1>5, SourcesKept
<1>7. \/ /\ Same("overdue")
         /\ debt'[d].overdueRevision = debt[d].overdueRevision
         /\ debt'[d].overdueAt = debt[d].overdueAt
      \/ /\ debt[d].overdueRevision = Unset
         /\ Gains(d, "overdue", debt'[d].overdueRevision, debt'[d].overdueAt)
  BY <1>1, <1>4 DEF PaymentRow, PaymentEvents, RowInv
<1>8. /\ Same("written_off")
      /\ debt'[d].writtenOffRevision = debt[d].writtenOffRevision
      /\ debt'[d].writtenOffAt = debt[d].writtenOffAt
  BY <1>1, <1>4 DEF PaymentRow, PaymentEvents
<1>9. PenaltyInv'
  BY <1>7, <1>8, PenaltyKept
<1> QED
  BY <1>6, <1>9

\* Those of a void: what takes the reward back, and a penalty.
LEMMA UndoesSources ==
    ASSUME Types, Types', \A c \in Debts : RowInv(c), NEW d \in Debts, Grows(d), Others(d),
           NEW p \in payments, Undoes(d, p), LedgerInv, SourcesInv, PenaltyInv
    PROVE  SourcesInv' /\ PenaltyInv'
<1>1. debt[d] \in DebtRow /\ RowInv(d) /\ VoidRow(d)
  BY DEF Types, Undoes
<1>2. debt[d].revision \in Nat /\ debt[d].revision >= 2
  BY <1>1 DEF DebtRow, RowInv
<1>3. /\ debt[d].revision + 1 \in 3..debt'[d].revision
      /\ p.revision \in 3..debt'[d].revision
  <2>1. p.debt = d
    BY DEF Undoes, IsLatest, Standing
  <2>2. p.revision \in 3..debt[d].revision
    BY <2>1 DEF LedgerInv
  <2> QED
    BY <1>1, <1>2, <2>2 DEF VoidRow
<1>4. VoidEvents(d, p)
  BY DEF Undoes
<1>5. \A type \in EventTypes : Appends(d, type)
  BY <1>3, <1>4 DEF VoidEvents, Appends, EventTypes
<1>6. SourcesInv'
  BY <1>5, SourcesKept
<1>7. \/ /\ Same("overdue")
         /\ debt'[d].overdueRevision = debt[d].overdueRevision
         /\ debt'[d].overdueAt = debt[d].overdueAt
      \/ /\ debt[d].overdueRevision = Unset
         /\ Gains(d, "overdue", debt'[d].overdueRevision, debt'[d].overdueAt)
  BY <1>1, <1>4 DEF VoidRow, VoidEvents, ReopensOverdue
<1>8. /\ Same("written_off")
      /\ debt'[d].writtenOffRevision = debt[d].writtenOffRevision
      /\ debt'[d].writtenOffAt = debt[d].writtenOffAt
  BY <1>1, <1>4 DEF VoidRow, VoidEvents
<1>9. PenaltyInv'
  BY <1>7, <1>8, PenaltyKept
<1> QED
  BY <1>6, <1>9

\* That of the batch,
LEMMA MarksSources ==
    ASSUME Types, Types', \A c \in Debts : RowInv(c), NEW d \in Debts, Grows(d), Others(d),
           NEW day, Marks(d, day), SourcesInv, PenaltyInv
    PROVE  SourcesInv' /\ PenaltyInv'
<1>1. /\ debt[d] \in DebtRow /\ RowInv(d)
      /\ debt[d].status = "active" /\ debt'[d].revision = debt[d].revision + 1
      /\ debt'[d].overdueRevision = debt[d].revision + 1 /\ debt'[d].overdueAt = day
      /\ debt'[d].writtenOffAt = debt[d].writtenOffAt
      /\ debt'[d].writtenOffRevision = debt[d].writtenOffRevision
      /\ Gains(d, "overdue", debt[d].revision + 1, day)
      /\ \A type \in EventTypes \ {"overdue"} : Same(type)
  BY DEF Types, Marks
<1>2. debt[d].revision + 1 \in 3..debt'[d].revision
  BY <1>1 DEF DebtRow, RowInv
<1>3. \A type \in EventTypes : Appends(d, type)
  BY <1>1, <1>2 DEF Appends
<1>4. SourcesInv'
  BY <1>3, SourcesKept
<1>5. debt[d].overdueRevision = Unset /\ Same("written_off")
  BY <1>1 DEF RowInv, EventTypes
<1>6. PenaltyInv'
  BY <1>1, <1>5, PenaltyKept
<1> QED
  BY <1>4, <1>6

\* and of the write-off.
LEMMA GivesUpSources ==
    ASSUME Types, Types', \A c \in Debts : RowInv(c), NEW d \in Debts, Grows(d), Others(d),
           GivesUp(d), SourcesInv, PenaltyInv
    PROVE  SourcesInv' /\ PenaltyInv'
<1>1. /\ debt[d] \in DebtRow /\ RowInv(d)
      /\ debt[d].status = "overdue" /\ debt'[d].revision = debt[d].revision + 1
      /\ debt'[d].overdueRevision = debt[d].overdueRevision
      /\ debt'[d].overdueAt = debt[d].overdueAt
      /\ debt'[d].writtenOffAt = today /\ debt'[d].writtenOffRevision = debt[d].revision + 1
      /\ Gains(d, "written_off", debt[d].revision + 1, today)
      /\ \A type \in EventTypes \ {"written_off"} : Same(type)
  BY DEF Types, GivesUp
<1>2. debt[d].revision + 1 \in 3..debt'[d].revision
  BY <1>1 DEF DebtRow, RowInv
<1>3. \A type \in EventTypes : Appends(d, type)
  BY <1>1, <1>2 DEF Appends
<1>4. SourcesInv'
  BY <1>3, SourcesKept
<1>5. debt[d].writtenOffRevision = Unset /\ Same("overdue")
  BY <1>1 DEF RowInv, EventTypes
<1>6. PenaltyInv'
  BY <1>1, <1>5, PenaltyKept
<1> QED
  BY <1>4, <1>6

-----------------------------------------------------------------------------
(* The rewards.                                                            *)

\* The payment of a terminal status is the last entry of the ledger.
LEMMA TopPayment ==
    ASSUME Types, LedgerInv, Terminal, NEW d \in Debts, NEW p \in payments, IsLatest(d, p),
           debt[d].status \in {"paid", "written_off_settled"}
    PROVE  /\ p.debt = d /\ p.revision = debt[d].revision
           /\ debt[d].status = "paid" => p.at = debt[d].paidAt
           /\ debt[d].status = "written_off_settled" => p.at = debt[d].settledAt
<1>1. /\ \A q \in payments : Typed(q)
      /\ \A v \in voids : Typed(v) /\ v.payment \in Nat
  BY LedgerTyped
<1>2. PICK q \in payments :
        /\ q.debt = d /\ q.revision = debt[d].revision
        /\ debt[d].status = "paid" => q.at = debt[d].paidAt
        /\ debt[d].status = "written_off_settled" => q.at = debt[d].settledAt
  BY DEF Terminal
<1>3. debt[d].revision \in Nat
  BY <1>1, <1>2 DEF Typed
<1>4. ~Voided(q)
  BY <1>1, <1>2, <1>3 DEF LedgerInv, Voided, Typed
<1>5. p \in Standing(d) /\ \A r \in Standing(d) : r.revision <= p.revision
  BY DEF IsLatest
<1>6. p.debt = d /\ q \in Standing(d)
  BY <1>2, <1>4, <1>5 DEF Standing
<1>7. q.revision <= p.revision /\ p.revision <= debt[d].revision
  BY <1>5, <1>6 DEF LedgerInv
<1>8. p = q
  BY <1>1, <1>2, <1>6, <1>7 DEF LedgerInv, Typed
<1> QED
  BY <1>2, <1>8

\* A row of a type that is there is there once.
LEMMA AuditedBy ==
    ASSUME AuditsFresh, NEW d, NEW p, NEW type, NEW a \in audits,
           a.debt = d, a.type = type, a.actor = "USER", a.at = p.at, a.revision = p.revision
    PROVE  AuditedOnce(d, p, type)
<1> DEFINE found == {b \in AuditsOf(d, {type}) :
                       b.actor = "USER" /\ b.at = p.at /\ b.revision = p.revision}
<1>1. found = {a}
  BY DEF AuditsOf, AuditsFresh
<1>2. Cardinality(found) = 1
  BY <1>1, FS_Singleton
<1> QED
  BY <1>2 DEF AuditedOnce

\* Both rows of the payment of a terminal status are there.
LEMMA TopAudited ==
    ASSUME Types, LedgerInv, Terminal, AuditInv, NEW d \in Debts, NEW p \in payments,
           IsLatest(d, p), debt[d].status \in {"paid", "written_off_settled"}
    PROVE  /\ AuditedOnce(d, p, "payment.recorded")
           /\ AuditedOnce(d, p, AuditOf(debt[d].status))
<1>1. /\ p.debt = d /\ p.revision = debt[d].revision
      /\ debt[d].status = "paid" => p.at = debt[d].paidAt
      /\ debt[d].status = "written_off_settled" => p.at = debt[d].settledAt
  BY TopPayment
<1>2. AuditsFresh
  BY DEF AuditInv
<1>3. AuditedOnce(d, p, "payment.recorded")
  <2>1. PICK a \in audits : /\ a.debt = p.debt /\ a.type = "payment.recorded"
                            /\ a.actor = "USER" /\ a.revision = p.revision /\ a.at = p.at
    BY DEF AuditInv
  <2> QED
    BY <1>1, <1>2, <2>1, AuditedBy
<1>4. AuditedOnce(d, p, AuditOf(debt[d].status))
  <2> DEFINE type == AuditOf(debt[d].status)
  <2>1. PICK a \in audits : /\ a.debt = d /\ a.type = type /\ a.actor = "USER"
                            /\ a.revision = p.revision /\ a.at = p.at
    <3>1. CASE debt[d].status = "paid"
      BY <1>1, <3>1 DEF AuditInv, AuditOf
    <3>2. CASE debt[d].status = "written_off_settled"
      BY <1>1, <3>2 DEF AuditInv, AuditOf
    <3> QED
      BY <3>1, <3>2
  <2> HIDE DEF type
  <2>2. AuditedOnce(d, p, type)
    BY <1>2, <2>1, AuditedBy
  <2> QED
    BY <2>2 DEF type
<1> QED
  BY <1>3, <1>4

\* The reader of the reward of the latest payment always finds what it looks for.
LEMMA RewardKnown ==
    ASSUME Types, LedgerInv, Terminal, AuditInv, BonusInv, SettlementInv,
           NEW d \in Debts, NEW p \in payments, IsLatest(d, p)
    PROVE  /\ RewardSource(d, p) # "inconsistent"
           /\ debt[d].status = "paid" /\ Open(d, "on_time_paid", "on_time_paid_voided") # {}
                => RewardSource(d, p) = "earned"
           /\ debt[d].status = "written_off_settled" => RewardSource(d, p) = "earned"
<1>1. CASE debt[d].status = "paid"
  <2> DEFINE found == RewardEvents(d, p)
             audited == AuditedOnce(d, p, "payment.recorded")
                          /\ AuditedOnce(d, p, AuditOf(debt[d].status))
  <2>1. p.debt = d /\ p.revision = debt[d].revision /\ p.at = debt[d].paidAt
    BY <1>1, TopPayment
  <2>2. audited
    BY <1>1, TopAudited
  <2>3. found = {i \in Has(d, "on_time_paid") :
                   events[d][i].source = p.revision /\ events[d][i].at = p.at}
    BY <1>1 DEF RewardEvents, RewardOf
  <2>4. \A i, j \in found : i = j
    BY <2>3 DEF BonusInv
  <2>5. Open(d, "on_time_paid", "on_time_paid_voided") \subseteq found
    BY <2>1, <2>3 DEF BonusInv, Open
  <2>6. ~BonusMissing(d, p)
    <3>1. debt[d].overdueRevision = Unset =>
            \/ d \notin BonusDebts
            \/ debt[d].paidAt <= AcceptedDay
            \/ debt[d].paidAt > DueDate[d]
            \/ DailySlotUsed(debt[d].paidAt)
      BY <1>1 DEF BonusInv
    <3>2. p.at \in Nat /\ DueDate[d] \in Nat
      BY DebtsAssumption, LedgerTyped DEF Typed
    <3> QED
      BY <2>1, <3>1, <3>2 DEF BonusMissing, AcceptedDay
  <2>7. RewardSource(d, p) =
          IF audited /\ Cardinality(found) = 1 THEN "earned"
          ELSE IF audited /\ Cardinality(found) = 0 /\ ~BonusMissing(d, p) THEN "none"
          ELSE "inconsistent"
    BY <1>1 DEF RewardSource, RewardOf
  <2> HIDE DEF found, audited
  <2>8. CASE found = {}
    <3>1. Cardinality(found) = 0
      BY <2>8, FS_EmptySet
    <3> QED
      BY <1>1, <2>2, <2>5, <2>6, <2>7, <2>8, <3>1
  <2>9. CASE found # {}
    <3>1. PICK i : i \in found
      BY <2>9
    <3>2. found = {i}
      BY <2>4, <3>1
    <3>3. Cardinality(found) = 1
      BY <3>2, FS_Singleton
    <3> QED
      BY <1>1, <2>2, <2>7, <3>3
  <2> QED
    BY <2>8, <2>9
<1>2. CASE debt[d].status = "written_off_settled"
  <2> DEFINE found == RewardEvents(d, p)
             audited == AuditedOnce(d, p, "payment.recorded")
                          /\ AuditedOnce(d, p, AuditOf(debt[d].status))
  <2>1. p.debt = d /\ p.revision = debt[d].revision /\ p.at = debt[d].settledAt
    BY <1>2, TopPayment
  <2>2. audited
    BY <1>2, TopAudited
  <2>3. found = {i \in Has(d, "written_off_settled") :
                   events[d][i].source = p.revision /\ events[d][i].at = p.at}
    BY <1>2 DEF RewardEvents, RewardOf
  <2>4. \A i, j \in found : i = j
    BY <2>3 DEF SettlementInv
  <2>5. found # {}
    BY <1>2, <2>1, <2>3 DEF SettlementInv, Open
  <2>6. audited /\ Cardinality(found) = 1 => RewardSource(d, p) = "earned"
    BY <1>2 DEF RewardSource, RewardOf
  <2> HIDE DEF found, audited
  <2>7. PICK i : i \in found
    BY <2>5
  <2>8. found = {i}
    BY <2>4, <2>7
  <2>9. Cardinality(found) = 1
    BY <2>8, FS_Singleton
  <2> QED
    BY <1>2, <2>2, <2>6, <2>9
<1>3. CASE debt[d].status \notin {"paid", "written_off_settled"}
  BY <1>3 DEF RewardSource, RewardOf
<1> QED
  BY <1>1, <1>2, <1>3

\* What is open of a type stays so while the events of both types do.
LEMMA OpenKept ==
    ASSUME NEW type, NEW voided, Same(type), Same(voided), NEW c \in Debts
    PROVE  /\ Open(c, type, voided)' = Open(c, type, voided)
           /\ \A i \in Open(c, type, voided) : events'[c][i] = events[c][i]
BY DEF Same, Open

\* An event that takes one back leaves less open.
LEMMA OpenShrinks ==
    ASSUME NEW type, NEW voided, NEW source, NEW day, NEW d \in Debts,
           Same(type), Gains(d, voided, source, day), NEW c \in Debts,
           NEW i \in Open(c, type, voided)'
    PROVE  /\ i \in Open(c, type, voided) /\ events'[c][i] = events[c][i]
           /\ c = d => events[c][i].source # source
<1>1. /\ i \in Has(c, type) /\ events'[c][i] = events[c][i]
      /\ \A j \in Has(c, voided)' : events'[c][j].source # events'[c][i].source
  BY DEF Open, Same
<1>2. CASE c = d
  <2>1. PICK n \in Nat : /\ Has(d, voided)' = Has(d, voided) \cup {n}
                         /\ events'[d][n].source = source
    BY DEF Gains
  <2>2. \A j \in Has(d, voided) : events'[d][j] = events[d][j]
    BY DEF Gains
  <2> QED
    BY <1>1, <1>2, <2>1, <2>2 DEF Open
<1>3. CASE c # d
  BY <1>1, <1>3 DEF Gains, Open
<1> QED
  BY <1>2, <1>3

\* The daily slot, once taken, stays so.
LEMMA BonusKept ==
    ASSUME BonusInv, NEW d \in Debts, Others(d), Same("on_time_paid"),
           debt'[d].status = "paid" /\ debt'[d].overdueRevision = Unset =>
             \/ d \notin BonusDebts
             \/ debt'[d].paidAt <= AcceptedDay
             \/ debt'[d].paidAt > DueDate[d]
             \/ \E c \in Debts : \E i \in Has(c, "on_time_paid") :
                  events[c][i].at = debt'[d].paidAt,
           \A c \in Debts : \A i \in Open(c, "on_time_paid", "on_time_paid_voided")' :
             /\ c # d /\ i \in Open(c, "on_time_paid", "on_time_paid_voided")
             /\ events'[c][i] = events[c][i]
    PROVE  BonusInv'
<1>1. \A c \in Debts : /\ Has(c, "on_time_paid")' = Has(c, "on_time_paid")
                       /\ \A i \in Has(c, "on_time_paid") : events'[c][i] = events[c][i]
  BY DEF Same
<1>2. \A c \in Debts : \A i \in Open(c, "on_time_paid", "on_time_paid_voided")' :
         /\ debt'[c].status = "paid" /\ debt'[c].overdueRevision = Unset
         /\ events'[c][i].source = debt'[c].revision
         /\ events'[c][i].at = debt'[c].paidAt
  BY DEF BonusInv, Others
<1>3. \A c, e \in Debts : \A i \in Has(c, "on_time_paid")', j \in Has(e, "on_time_paid")' :
         events'[c][i].at = events'[e][j].at => c = e /\ i = j
  BY <1>1 DEF BonusInv
<1>4. ASSUME NEW c \in Debts, debt'[c].status = "paid", debt'[c].overdueRevision = Unset
      PROVE  \/ c \notin BonusDebts
             \/ debt'[c].paidAt <= AcceptedDay
             \/ debt'[c].paidAt > DueDate[c]
             \/ \E e \in Debts : \E i \in Has(e, "on_time_paid")' :
                  events'[e][i].at = debt'[c].paidAt
  <2>1. CASE c = d
    BY <1>1, <1>4, <2>1
  <2>2. CASE c # d
    <3>1. debt'[c] = debt[c]
      BY <2>2 DEF Others
    <3>2. \/ c \notin BonusDebts
          \/ debt[c].paidAt <= AcceptedDay
          \/ debt[c].paidAt > DueDate[c]
          \/ \E e \in Debts : \E i \in Has(e, "on_time_paid") : events[e][i].at = debt[c].paidAt
      BY <1>4, <3>1 DEF BonusInv, DailySlotUsed
    <3> QED
      BY <1>1, <3>1, <3>2
  <2> QED
    BY <2>1, <2>2
<1> QED
  BY <1>2, <1>3, <1>4 DEF BonusInv, DailySlotUsed

\* A payment on time takes the slot of its day, or finds it taken.
LEMMA PaysBonus ==
    ASSUME Types, Types', NEW d \in Debts, RowInv(d), Others(d),
           NEW seen, NEW basis, NEW amount, NEW marking \in BOOLEAN,
           Pays(d, seen, basis, amount, marking), SourcesInv, BonusInv
    PROVE  BonusInv'
<1>1. debt[d] \in DebtRow /\ debt'[d] \in DebtRow /\ today \in Nat /\ DueDate[d] \in Nat
  BY DebtsAssumption DEF Types
<1>2. PaymentRow(d, seen, basis, marking) /\ PaymentEvents(d, marking)
  BY DEF Pays
<1>3. /\ debt[d].status \in {"active", "overdue", "written_off"}
      /\ debt'[d].status = "paid" => debt'[d].paidAt = today
      /\ debt'[d].status = "paid" /\ debt'[d].overdueRevision = Unset =>
           ~marking /\ debt[d].status = "active" /\ debt[d].overdueRevision = Unset
      /\ ~marking => debt'[d].overdueRevision = debt[d].overdueRevision
  BY <1>1, <1>2 DEF PaymentRow, RowInv, DebtRow, Unset
<1>4. Open(d, "on_time_paid", "on_time_paid_voided") = {}
  BY <1>3 DEF BonusInv
<1>5. Same("on_time_paid_voided")
  BY <1>2 DEF PaymentEvents
<1>6. CASE ~(~marking /\ debt'[d].status = "paid" /\ EarnsOnTimeBonus(d))
  <2>1. Same("on_time_paid")
    BY <1>2, <1>6 DEF PaymentEvents
  <2>2. \A c \in Debts : \A i \in Open(c, "on_time_paid", "on_time_paid_voided")' :
             /\ c # d /\ i \in Open(c, "on_time_paid", "on_time_paid_voided")
             /\ events'[c][i] = events[c][i]
    BY <1>4, <1>5, <2>1, OpenKept
  <2>3. ASSUME debt'[d].status = "paid", debt'[d].overdueRevision = Unset
        PROVE  \/ d \notin BonusDebts
               \/ debt'[d].paidAt <= AcceptedDay
               \/ debt'[d].paidAt > DueDate[d]
               \/ \E c \in Debts : \E i \in Has(c, "on_time_paid") :
                    events[c][i].at = debt'[d].paidAt
    <3>1. Payable(d) /\ debt[d].status = "active" /\ ~EarnsOnTimeBonus(d)
      BY <1>2, <1>3, <1>6, <2>3 DEF PaymentEvents
    <3>2. d \notin BonusDebts \/ ~(AcceptedDay < today) \/ DailySlotUsed(today)
      BY <1>3, <2>3, <3>1 DEF EarnsOnTimeBonus
    <3> QED
      BY <1>1, <1>3, <2>3, <3>2 DEF AcceptedDay, DailySlotUsed
  <2> QED
    BY <2>1, <2>2, <2>3, BonusKept
<1>7. CASE ~marking /\ debt'[d].status = "paid" /\ EarnsOnTimeBonus(d)
  <2>1. Gains(d, "on_time_paid", debt'[d].revision, today)
    BY <1>2, <1>7 DEF PaymentEvents
  <2>2. PICK n \in Nat :
          /\ n \notin Has(d, "on_time_paid")
          /\ Has(d, "on_time_paid")' = Has(d, "on_time_paid") \cup {n}
          /\ events'[d][n].source = debt'[d].revision /\ events'[d][n].at = today
    BY <2>1 DEF Gains
  <2>3. /\ \A i \in Has(d, "on_time_paid") : events'[d][i] = events[d][i]
        /\ \A c \in Debts \ {d} :
             /\ Has(c, "on_time_paid")' = Has(c, "on_time_paid")
             /\ \A i \in Has(c, "on_time_paid") : events'[c][i] = events[c][i]
    BY <2>1 DEF Gains
  <2>4. /\ debt'[d].overdueRevision = Unset
        /\ \A c \in Debts : \A i \in Has(c, "on_time_paid") : events[c][i].at # today
    BY <1>3, <1>7 DEF EarnsOnTimeBonus, DailySlotUsed
  <2>5. ASSUME NEW c \in Debts, NEW i \in Open(c, "on_time_paid", "on_time_paid_voided")'
        PROVE  /\ debt'[c].status = "paid" /\ debt'[c].overdueRevision = Unset
               /\ events'[c][i].source = debt'[c].revision
               /\ events'[c][i].at = debt'[c].paidAt
    <3>1. /\ i \in Has(c, "on_time_paid")'
          /\ \A j \in Has(c, "on_time_paid_voided") :
               events[c][j].source # events'[c][i].source
      BY <1>5, <2>5 DEF Open, Same
    <3>2. CASE c # d
      <4>1. i \in Open(c, "on_time_paid", "on_time_paid_voided") /\ events'[c][i] = events[c][i]
        BY <2>3, <3>1, <3>2 DEF Open
      <4> QED
        BY <3>2, <4>1 DEF BonusInv, Others
    <3>3. CASE c = d
      <4>1. i \notin Has(d, "on_time_paid")
        <5>1. i \in Has(d, "on_time_paid") => i \in Open(d, "on_time_paid", "on_time_paid_voided")
          BY <2>3, <3>1, <3>3 DEF Open
        <5> QED
          BY <1>4, <5>1
      <4>2. i = n
        BY <2>2, <3>1, <3>3, <4>1
      <4> QED
        BY <1>3, <1>7, <2>2, <2>4, <3>3, <4>2
    <3> QED
      BY <3>2, <3>3
  <2>6. ASSUME NEW c \in Debts, NEW e \in Debts, NEW i \in Has(c, "on_time_paid")',
               NEW j \in Has(e, "on_time_paid")', events'[c][i].at = events'[e][j].at
        PROVE  c = e /\ i = j
    <3>1. \A f \in Debts : \A k \in Has(f, "on_time_paid")' :
             \/ f = d /\ k = n
             \/ k \in Has(f, "on_time_paid") /\ events'[f][k].at = events[f][k].at
                  /\ events'[f][k].at # today
      BY <2>2, <2>3, <2>4
    <3> QED
      BY <2>2, <2>6, <3>1 DEF BonusInv
  <2>7. ASSUME NEW c \in Debts, debt'[c].status = "paid", debt'[c].overdueRevision = Unset
        PROVE  \/ c \notin BonusDebts
               \/ debt'[c].paidAt <= AcceptedDay
               \/ debt'[c].paidAt > DueDate[c]
               \/ \E e \in Debts : \E i \in Has(e, "on_time_paid")' :
                    events'[e][i].at = debt'[c].paidAt
    <3>1. CASE c = d
      BY <1>3, <1>7, <2>2, <3>1
    <3>2. CASE c # d
      <4>1. debt'[c] = debt[c]
        BY <3>2 DEF Others
      <4>2. \/ c \notin BonusDebts
            \/ debt[c].paidAt <= AcceptedDay
            \/ debt[c].paidAt > DueDate[c]
            \/ \E e \in Debts : \E i \in Has(e, "on_time_paid") : events[e][i].at = debt[c].paidAt
        BY <2>7, <4>1 DEF BonusInv, DailySlotUsed
      <4>3. \A e \in Debts : \A i \in Has(e, "on_time_paid") :
              i \in Has(e, "on_time_paid")' /\ events'[e][i] = events[e][i]
        BY <2>2, <2>3
      <4> QED
        BY <4>1, <4>2, <4>3
    <3> QED
      BY <3>1, <3>2
  <2> QED
    BY <2>5, <2>6, <2>7 DEF BonusInv, DailySlotUsed
<1> QED
  BY <1>6, <1>7

\* A void of the payment that earned the bonus takes it back.
LEMMA UndoesBonus ==
    ASSUME Types, NEW d \in Debts, Others(d), NEW p \in payments, Undoes(d, p),
           LedgerInv, Terminal, AuditInv, BonusInv, SettlementInv,
           debt'[d].status \notin {"paid", "written_off_settled"}
    PROVE  BonusInv'
<1>1. IsLatest(d, p) /\ VoidEvents(d, p)
  BY DEF Undoes
<1>2. Same("on_time_paid")
  BY <1>1 DEF VoidEvents
<1>3. \A c \in Debts : \A i \in Open(c, "on_time_paid", "on_time_paid_voided")' :
        /\ c # d /\ i \in Open(c, "on_time_paid", "on_time_paid_voided")
        /\ events'[c][i] = events[c][i]
  <2>1. CASE Open(d, "on_time_paid", "on_time_paid_voided") # {}
    <3>1. debt[d].status = "paid" /\ RewardSource(d, p) = "earned"
      BY <1>1, <2>1, RewardKnown DEF BonusInv
    <3>2. Gains(d, "on_time_paid_voided", p.revision, today) /\ p.revision = debt[d].revision
      BY <1>1, <3>1, TopPayment DEF VoidEvents
    <3>3. \A i \in Open(d, "on_time_paid", "on_time_paid_voided") :
             events[d][i].source = p.revision
      BY <3>2 DEF BonusInv
    <3>4. ASSUME NEW c \in Debts, NEW i \in Open(c, "on_time_paid", "on_time_paid_voided")'
          PROVE  /\ i \in Open(c, "on_time_paid", "on_time_paid_voided")
                 /\ events'[c][i] = events[c][i]
                 /\ c = d => events[c][i].source # p.revision
      BY <1>2, <3>2, OpenShrinks
    <3> QED
      BY <3>3, <3>4
  <2>2. CASE Open(d, "on_time_paid", "on_time_paid_voided") = {}
    <3>1. CASE Same("on_time_paid_voided")
      BY <1>2, <2>2, <3>1, OpenKept
    <3>2. CASE Gains(d, "on_time_paid_voided", p.revision, today)
      <4>1. ASSUME NEW c \in Debts, NEW i \in Open(c, "on_time_paid", "on_time_paid_voided")'
            PROVE  /\ i \in Open(c, "on_time_paid", "on_time_paid_voided")
                   /\ events'[c][i] = events[c][i]
        BY <1>2, <3>2, OpenShrinks
      <4> QED
        BY <2>2, <4>1
    <3> QED
      BY <1>1, <3>1, <3>2 DEF VoidEvents
  <2> QED
    BY <2>1, <2>2
<1> QED
  BY <1>2, <1>3, BonusKept

\* Nothing else earns one.
LEMMA QuietBonus ==
    ASSUME NEW d \in Debts, Others(d), Same("on_time_paid"), Same("on_time_paid_voided"),
           debt[d].status # "paid", debt'[d].status # "paid", BonusInv
    PROVE  BonusInv'
<1>1. Open(d, "on_time_paid", "on_time_paid_voided") = {}
  BY DEF BonusInv
<1>2. \A c \in Debts : \A i \in Open(c, "on_time_paid", "on_time_paid_voided")' :
        /\ c # d /\ i \in Open(c, "on_time_paid", "on_time_paid_voided")
        /\ events'[c][i] = events[c][i]
  BY <1>1, OpenKept
<1> QED
  BY <1>2, BonusKept

\* What is taken back is of one debt.
LEMMA OpenStays ==
    ASSUME NEW type, NEW voided, NEW source, NEW day, NEW d \in Debts,
           Same(type), Gains(d, voided, source, day), NEW c \in Debts, c # d,
           NEW i \in Open(c, type, voided)
    PROVE  i \in Open(c, type, voided)'
BY DEF Open, Same, Gains

\* A debt that is not settled has no open settlement.
LEMMA SettlementKept ==
    ASSUME SettlementInv, NEW d \in Debts, Others(d), Same("written_off_settled"),
           debt'[d].status # "written_off_settled",
           \A c \in Debts : \A i \in Open(c, "written_off_settled", "written_off_settled_voided")' :
             /\ c # d /\ i \in Open(c, "written_off_settled", "written_off_settled_voided")
             /\ events'[c][i] = events[c][i],
           \A c \in Debts \ {d} :
             \A i \in Open(c, "written_off_settled", "written_off_settled_voided") :
               i \in Open(c, "written_off_settled", "written_off_settled_voided")'
    PROVE  SettlementInv'
<1> SUFFICES ASSUME NEW c \in Debts
             PROVE  /\ \A i \in Open(c, "written_off_settled", "written_off_settled_voided")' :
                         /\ debt'[c].status = "written_off_settled"
                         /\ events'[c][i].source = debt'[c].revision
                         /\ events'[c][i].at = debt'[c].settledAt
                    /\ debt'[c].status = "written_off_settled" =>
                         Open(c, "written_off_settled", "written_off_settled_voided")' # {}
                    /\ \A i, j \in Has(c, "written_off_settled")' :
                         events'[c][i].source = events'[c][j].source => i = j
  BY DEF SettlementInv
<1>1. \A i, j \in Has(c, "written_off_settled")' :
        events'[c][i].source = events'[c][j].source => i = j
  BY DEF SettlementInv, Same
<1>2. CASE c = d
  BY <1>1, <1>2
<1>3. CASE c # d
  <2>1. debt'[c] = debt[c]
    BY <1>3 DEF Others
  <2>2. \A i \in Open(c, "written_off_settled", "written_off_settled_voided") :
          /\ debt[c].status = "written_off_settled"
          /\ events[c][i].source = debt[c].revision /\ events[c][i].at = debt[c].settledAt
    BY DEF SettlementInv
  <2>3. debt[c].status = "written_off_settled" =>
          Open(c, "written_off_settled", "written_off_settled_voided") # {}
    BY DEF SettlementInv
  <2>4. debt'[c].status = "written_off_settled" =>
          Open(c, "written_off_settled", "written_off_settled_voided")' # {}
    BY <1>3, <2>1, <2>3
  <2> QED
    BY <1>1, <2>1, <2>2, <2>4
<1> QED
  BY <1>2, <1>3

\* A full recovery settles the debt: no void can have taken back its revision yet.
LEMMA PaysSettlement ==
    ASSUME Types, Types', NEW d \in Debts, RowInv(d), Others(d),
           NEW seen, NEW basis, NEW amount, NEW marking \in BOOLEAN,
           Pays(d, seen, basis, amount, marking), SourcesInv, SettlementInv
    PROVE  SettlementInv'
<1>1. debt[d] \in DebtRow /\ debt'[d] \in DebtRow
  BY DEF Types
<1>2. PaymentRow(d, seen, basis, marking) /\ PaymentEvents(d, marking)
  BY DEF Pays
<1>3. /\ debt[d].status # "written_off_settled"
      /\ debt'[d].status = "written_off_settled" => debt'[d].settledAt = today
      /\ debt'[d].revision > debt[d].revision /\ debt[d].revision \in Nat
  BY <1>1, <1>2 DEF PaymentRow, DebtRow
<1>4. Open(d, "written_off_settled", "written_off_settled_voided") = {}
  BY <1>3 DEF SettlementInv
<1>5. Same("written_off_settled_voided")
  BY <1>2 DEF PaymentEvents
<1>6. CASE debt'[d].status # "written_off_settled"
  <2>1. Same("written_off_settled")
    BY <1>2, <1>6 DEF PaymentEvents
  <2>2. \A c \in Debts : \A i \in Open(c, "written_off_settled", "written_off_settled_voided")' :
          /\ c # d /\ i \in Open(c, "written_off_settled", "written_off_settled_voided")
          /\ events'[c][i] = events[c][i]
    BY <1>4, <1>5, <2>1, OpenKept
  <2>3. \A c \in Debts \ {d} :
          \A i \in Open(c, "written_off_settled", "written_off_settled_voided") :
            i \in Open(c, "written_off_settled", "written_off_settled_voided")'
    BY <1>5, <2>1, OpenKept
  <2> QED
    BY <1>6, <2>1, <2>2, <2>3, SettlementKept
<1>7. CASE debt'[d].status = "written_off_settled"
  <2>1. Gains(d, "written_off_settled", debt'[d].revision, today)
    BY <1>2, <1>7 DEF PaymentEvents
  <2>2. PICK n \in Nat :
          /\ n \notin Has(d, "written_off_settled")
          /\ Has(d, "written_off_settled")' = Has(d, "written_off_settled") \cup {n}
          /\ events'[d][n].source = debt'[d].revision /\ events'[d][n].at = today
    BY <2>1 DEF Gains
  <2>3. /\ \A i \in Has(d, "written_off_settled") : events'[d][i] = events[d][i]
        /\ \A c \in Debts \ {d} :
             /\ Has(c, "written_off_settled")' = Has(c, "written_off_settled")
             /\ \A i \in Has(c, "written_off_settled") : events'[c][i] = events[c][i]
    BY <2>1 DEF Gains
  <2>4. /\ \A i \in Has(d, "written_off_settled") : events[d][i].source # debt'[d].revision
        /\ \A i \in Has(d, "written_off_settled_voided") :
             events[d][i].source # debt'[d].revision
    <3>1. ASSUME NEW type, NEW i \in Has(d, type)
          PROVE  events[d][i].source # debt'[d].revision
      <4>1. events[d][i].source \in 3..debt[d].revision
        BY HasSource
      <4> QED
        BY <1>1, <1>3, <4>1 DEF DebtRow
    <3> QED
      BY <3>1
  <2> SUFFICES ASSUME NEW c \in Debts
               PROVE  /\ \A i \in Open(c, "written_off_settled", "written_off_settled_voided")' :
                           /\ debt'[c].status = "written_off_settled"
                           /\ events'[c][i].source = debt'[c].revision
                           /\ events'[c][i].at = debt'[c].settledAt
                      /\ debt'[c].status = "written_off_settled" =>
                           Open(c, "written_off_settled", "written_off_settled_voided")' # {}
                      /\ \A i, j \in Has(c, "written_off_settled")' :
                           events'[c][i].source = events'[c][j].source => i = j
    BY DEF SettlementInv
  <2>5. CASE c = d
    <3>1. \A i, j \in Has(d, "written_off_settled")' :
            events'[d][i].source = events'[d][j].source => i = j
      BY <2>2, <2>3, <2>4 DEF SettlementInv
    <3>2. n \in Open(d, "written_off_settled", "written_off_settled_voided")'
      BY <1>5, <2>2, <2>4 DEF Open, Same
    <3>3. ASSUME NEW i \in Open(d, "written_off_settled", "written_off_settled_voided")'
          PROVE  i = n
      <4>1. i \in Has(d, "written_off_settled") =>
              i \in Open(d, "written_off_settled", "written_off_settled_voided")
        BY <1>5, <2>3, <3>3 DEF Open, Same
      <4>2. i \in Has(d, "written_off_settled")'
        BY <3>3 DEF Open
      <4> QED
        BY <1>4, <2>2, <4>1, <4>2
    <3> QED
      BY <1>3, <1>7, <2>2, <2>5, <3>1, <3>2, <3>3
  <2>6. CASE c # d
    <3>1. debt'[c] = debt[c]
      BY <2>6 DEF Others
    <3>2. /\ Open(c, "written_off_settled", "written_off_settled_voided")'
               = Open(c, "written_off_settled", "written_off_settled_voided")
          /\ \A i \in Open(c, "written_off_settled", "written_off_settled_voided") :
               events'[c][i] = events[c][i]
      BY <1>5, <2>3, <2>6 DEF Open, Same
    <3>3. \A i, j \in Has(c, "written_off_settled")' :
            events'[c][i].source = events'[c][j].source => i = j
      BY <2>3, <2>6 DEF SettlementInv
    <3> QED
      BY <3>1, <3>2, <3>3 DEF SettlementInv
  <2> QED
    BY <2>5, <2>6
<1> QED
  BY <1>6, <1>7

\* A void of the payment that settled the debt takes the settlement back.
LEMMA UndoesSettlement ==
    ASSUME Types, NEW d \in Debts, Others(d), NEW p \in payments, Undoes(d, p),
           LedgerInv, Terminal, AuditInv, BonusInv, SettlementInv,
           debt'[d].status \notin {"paid", "written_off_settled"}
    PROVE  SettlementInv'
<1>1. IsLatest(d, p) /\ VoidEvents(d, p)
  BY DEF Undoes
<1>2. Same("written_off_settled")
  BY <1>1 DEF VoidEvents
<1>3. CASE debt[d].status = "written_off_settled"
  <2>1. /\ Gains(d, "written_off_settled_voided", p.revision, today)
        /\ p.revision = debt[d].revision
    BY <1>1, <1>3, RewardKnown, TopPayment DEF VoidEvents
  <2>2. ASSUME NEW c \in Debts,
               NEW i \in Open(c, "written_off_settled", "written_off_settled_voided")'
        PROVE  /\ i \in Open(c, "written_off_settled", "written_off_settled_voided")
               /\ events'[c][i] = events[c][i]
               /\ c = d => events[c][i].source # p.revision
    BY <1>2, <2>1, OpenShrinks
  <2>3. \A i \in Open(d, "written_off_settled", "written_off_settled_voided") :
          events[d][i].source = p.revision
    BY <2>1 DEF SettlementInv
  <2>4. ASSUME NEW c \in Debts, c # d,
               NEW i \in Open(c, "written_off_settled", "written_off_settled_voided")
        PROVE  i \in Open(c, "written_off_settled", "written_off_settled_voided")'
    BY <1>2, <2>1, <2>4, OpenStays
  <2>5. \A c \in Debts : \A i \in Open(c, "written_off_settled", "written_off_settled_voided")' :
          /\ c # d /\ i \in Open(c, "written_off_settled", "written_off_settled_voided")
          /\ events'[c][i] = events[c][i]
    BY <2>2, <2>3
  <2> QED
    BY <1>2, <2>4, <2>5, SettlementKept
<1>4. CASE debt[d].status # "written_off_settled"
  <2>1. Same("written_off_settled_voided")
    BY <1>1, <1>4 DEF VoidEvents
  <2>2. Open(d, "written_off_settled", "written_off_settled_voided") = {}
    BY <1>4 DEF SettlementInv
  <2>3. \A c \in Debts :
          /\ Open(c, "written_off_settled", "written_off_settled_voided")'
               = Open(c, "written_off_settled", "written_off_settled_voided")
          /\ \A i \in Open(c, "written_off_settled", "written_off_settled_voided") :
               events'[c][i] = events[c][i]
    BY <1>2, <2>1, OpenKept
  <2>4. \A c \in Debts : \A i \in Open(c, "written_off_settled", "written_off_settled_voided")' :
          /\ c # d /\ i \in Open(c, "written_off_settled", "written_off_settled_voided")
          /\ events'[c][i] = events[c][i]
    BY <2>2, <2>3
  <2>5. \A c \in Debts \ {d} :
          \A i \in Open(c, "written_off_settled", "written_off_settled_voided") :
            i \in Open(c, "written_off_settled", "written_off_settled_voided")'
    BY <2>3
  <2> QED
    BY <1>2, <2>4, <2>5, SettlementKept
<1> QED
  BY <1>3, <1>4

\* Nothing else settles a debt.
LEMMA QuietSettlement ==
    ASSUME NEW d \in Debts, Others(d), Same("written_off_settled"),
           Same("written_off_settled_voided"), debt[d].status # "written_off_settled",
           debt'[d].status # "written_off_settled", SettlementInv
    PROVE  SettlementInv'
<1>1. Open(d, "written_off_settled", "written_off_settled_voided") = {}
  BY DEF SettlementInv
<1>2. \A c \in Debts :
        /\ Open(c, "written_off_settled", "written_off_settled_voided")'
             = Open(c, "written_off_settled", "written_off_settled_voided")
        /\ \A i \in Open(c, "written_off_settled", "written_off_settled_voided") :
             events'[c][i] = events[c][i]
  BY OpenKept
<1>3. \A c \in Debts : \A i \in Open(c, "written_off_settled", "written_off_settled_voided")' :
        /\ c # d /\ i \in Open(c, "written_off_settled", "written_off_settled_voided")
        /\ events'[c][i] = events[c][i]
  BY <1>1, <1>2
<1>4. \A c \in Debts \ {d} :
        \A i \in Open(c, "written_off_settled", "written_off_settled_voided") :
          i \in Open(c, "written_off_settled", "written_off_settled_voided")'
  BY <1>2
<1> QED
  BY <1>3, <1>4, SettlementKept

-----------------------------------------------------------------------------
(* All of it.                                                              *)

\* A payment keeps the invariant.
LEMMA PaysInv ==
    ASSUME Inv, Types', NEW d \in Debts, Others(d),
           NEW seen, NEW basis, NEW amount, NEW marking \in BOOLEAN,
           Pays(d, seen, basis, amount, marking)
    PROVE  Inv'
<1>1. /\ Types /\ \A c \in Debts : RowInv(c)
      /\ LedgerInv /\ Cover /\ Terminal /\ KeysInv /\ AuditInv /\ TrailInv /\ AuditsFresh
      /\ PenaltyInv /\ SourcesInv /\ BonusInv /\ SettlementInv
  BY DEF Inv, AuditInv
<1>2. RowInv(d)' /\ Grows(d) /\ Records(d, PaymentRows(d, marking))
  BY <1>1, PaysGrows
<1>3. \A c \in Debts : RowInv(c)'
  BY <1>1, <1>2 DEF Others, RowInv
<1>4. LedgerInv'
  BY <1>1, <1>2, PaysLedger
<1>5. Cover' /\ Terminal'
  BY <1>1, <1>2, PaysCovers
<1>6. KeysInv'
  BY <1>1, <1>2, PaysKeys
<1>7. AuditInv'
  BY <1>1, <1>2, PaysAudits
<1>8. TrailInv'
  <2> DEFINE rows == PaymentRows(d, marking)
  <2>1. Records(d, rows)
    BY <1>2
  <2> HIDE DEF rows
  <2> QED
    BY <1>1, <1>2, <2>1, TrailKept
<1>9. SourcesInv' /\ PenaltyInv'
  BY <1>1, <1>2, PaysSources
<1>10. BonusInv'
  BY <1>1, PaysBonus
<1>11. SettlementInv'
  BY <1>1, PaysSettlement
<1> QED
  BY <1>3, <1>4, <1>5, <1>6, <1>7, <1>8, <1>9, <1>10, <1>11 DEF Inv

\* A void keeps the invariant.
LEMMA UndoesInv ==
    ASSUME Inv, Types', NEW d \in Debts, Others(d), NEW p \in payments, Undoes(d, p)
    PROVE  Inv'
<1>1. /\ Types /\ \A c \in Debts : RowInv(c)
      /\ LedgerInv /\ Cover /\ Terminal /\ KeysInv /\ AuditInv /\ TrailInv /\ AuditsFresh
      /\ PenaltyInv /\ SourcesInv /\ BonusInv /\ SettlementInv
  BY DEF Inv, AuditInv
<1>2. RowInv(d)' /\ Grows(d) /\ Records(d, VoidRows(d))
  BY <1>1, UndoesGrows
<1>3. \A c \in Debts : RowInv(c)'
  BY <1>1, <1>2 DEF Others, RowInv
<1>4. LedgerInv'
  BY <1>1, <1>2, UndoesLedger
<1>5. Cover' /\ Terminal' /\ debt'[d].status \notin {"paid", "written_off_settled"}
  BY <1>1, <1>2, UndoesCovers
<1>6. KeysInv'
  BY <1>1, <1>2, UndoesKeys
<1>7. AuditInv'
  BY <1>1, <1>2, <1>5, UndoesAudits
<1>8. TrailInv'
  <2> DEFINE rows == VoidRows(d)
  <2>1. Records(d, rows)
    BY <1>2
  <2> HIDE DEF rows
  <2> QED
    BY <1>1, <1>2, <2>1, TrailKept
<1>9. SourcesInv' /\ PenaltyInv'
  BY <1>1, <1>2, UndoesSources
<1>10. BonusInv'
  BY <1>1, <1>5, UndoesBonus
<1>11. SettlementInv'
  BY <1>1, <1>5, UndoesSettlement
<1> QED
  BY <1>3, <1>4, <1>5, <1>6, <1>7, <1>8, <1>9, <1>10, <1>11 DEF Inv

\* The batch keeps the invariant.
LEMMA MarksInv ==
    ASSUME Inv, Types', NEW d \in Debts, Others(d), NEW day, Marks(d, day)
    PROVE  Inv'
<1>1. /\ Types /\ \A c \in Debts : RowInv(c)
      /\ LedgerInv /\ Cover /\ Terminal /\ KeysInv /\ AuditInv /\ TrailInv /\ AuditsFresh
      /\ PenaltyInv /\ SourcesInv /\ BonusInv /\ SettlementInv
  BY DEF Inv, AuditInv
<1>2. /\ RowInv(d)' /\ Grows(d)
      /\ Records(d, OverduePair(d, debt[d].revision + 1, day, "active"))
  BY <1>1, MarksGrows
<1>3. \A c \in Debts : RowInv(c)'
  BY <1>1, <1>2 DEF Others, RowInv
<1>4. LedgerInv'
  BY <1>1, <1>2, QuietLedger DEF Marks
<1>5. Cover' /\ Terminal'
  BY <1>1, <1>2, MarksCovers
<1>6. KeysInv'
  BY <1>1, <1>2, MarksKeys
<1>7. AuditInv'
  BY <1>1, <1>2, MarksAudits
<1>8. TrailInv'
  <2> DEFINE rows == OverduePair(d, debt[d].revision + 1, day, "active")
  <2>1. Records(d, rows)
    BY <1>2
  <2> HIDE DEF rows
  <2> QED
    BY <1>1, <1>2, <2>1, TrailKept
<1>9. SourcesInv' /\ PenaltyInv'
  BY <1>1, <1>2, MarksSources
<1>10. /\ debt[d].status = "active" /\ debt'[d].status = "overdue"
       /\ Same("on_time_paid") /\ Same("on_time_paid_voided")
       /\ Same("written_off_settled") /\ Same("written_off_settled_voided")
  BY DEF Marks, EventTypes
<1>11. BonusInv'
  BY <1>1, <1>10, QuietBonus
<1>12. SettlementInv'
  BY <1>1, <1>10, QuietSettlement
<1> QED
  BY <1>3, <1>4, <1>5, <1>6, <1>7, <1>8, <1>9, <1>11, <1>12 DEF Inv

\* The write-off keeps the invariant.
LEMMA GivesUpInv ==
    ASSUME Inv, Types', NEW d \in Debts, Others(d), GivesUp(d)
    PROVE  Inv'
<1>1. /\ Types /\ \A c \in Debts : RowInv(c)
      /\ LedgerInv /\ Cover /\ Terminal /\ KeysInv /\ AuditInv /\ TrailInv /\ AuditsFresh
      /\ PenaltyInv /\ SourcesInv /\ BonusInv /\ SettlementInv
  BY DEF Inv, AuditInv
<1>2. RowInv(d)' /\ Grows(d) /\ Records(d, GivenUp(d))
  BY <1>1, GivesUpGrows
<1>3. \A c \in Debts : RowInv(c)'
  BY <1>1, <1>2 DEF Others, RowInv
<1>4. LedgerInv'
  BY <1>1, <1>2, QuietLedger DEF GivesUp
<1>5. Cover' /\ Terminal'
  BY <1>1, <1>2, GivesUpCovers
<1>6. KeysInv'
  BY <1>1, <1>2, GivesUpKeys
<1>7. AuditInv'
  BY <1>1, <1>2, GivesUpAudits
<1>8. TrailInv'
  <2> DEFINE rows == GivenUp(d)
  <2>1. Records(d, rows)
    BY <1>2
  <2> HIDE DEF rows
  <2> QED
    BY <1>1, <1>2, <2>1, TrailKept
<1>9. SourcesInv' /\ PenaltyInv'
  BY <1>1, <1>2, GivesUpSources
<1>10. /\ debt[d].status = "overdue" /\ debt'[d].status = "written_off"
       /\ Same("on_time_paid") /\ Same("on_time_paid_voided")
       /\ Same("written_off_settled") /\ Same("written_off_settled_voided")
  BY DEF GivesUp, EventTypes
<1>11. BonusInv'
  BY <1>1, <1>10, QuietBonus
<1>12. SettlementInv'
  BY <1>1, <1>10, QuietSettlement
<1> QED
  BY <1>3, <1>4, <1>5, <1>6, <1>7, <1>8, <1>9, <1>11, <1>12 DEF Inv

\* Nothing of it is about the calendar or the candidates of a batch.
LEMMA StillInv ==
    ASSUME Inv, Types', UNCHANGED <<debt, payments, voids, events, audits, keys>>, today' >= today
    PROVE  Inv'
<1>1. /\ debt' = debt /\ payments' = payments /\ voids' = voids
      /\ events' = events /\ audits' = audits /\ keys' = keys
  OBVIOUS
<1>2. \A c \in Debts : RowInv(c)'
  BY <1>1 DEF Inv, RowInv
<1>3. LedgerInv'
  <2>1. \A p \in payments : p.at <= today'
    <3>1. \A p \in payments : p.at \in Nat /\ p.at <= today
      BY LedgerTyped DEF Inv, LedgerInv, Typed
    <3>2. today \in Nat /\ today' \in Nat
      BY DEF Inv, Types
    <3> QED
      BY <3>1, <3>2
  <2> QED
    BY <1>1, <2>1 DEF Inv, LedgerInv
<1>4. Cover' /\ Terminal' /\ KeysInv'
  BY <1>1 DEF Inv, Cover, Terminal, KeysInv
<1>5. AuditInv'
  BY <1>1 DEF Inv, AuditInv, AuditsFresh
<1>6. TrailInv'
  <2>1. \A a \in audits : PayloadAccepts(a)' <=> PayloadAccepts(a)
    BY <1>1 DEF PayloadAccepts, SourceOf
  <2> QED
    BY <1>1, <2>1 DEF Inv, TrailInv, Tells
<1>7. \A c \in Debts : \A type : Has(c, type)' = Has(c, type)
  BY <1>1 DEF Has
<1>8. PenaltyInv' /\ SourcesInv'
  BY <1>1, <1>7 DEF Inv, PenaltyInv, SourcesInv
<1>9. \A c \in Debts : \A type, voided : Open(c, type, voided)' = Open(c, type, voided)
  BY <1>1, <1>7 DEF Open
<1>10. BonusInv'
  BY <1>1, <1>7, <1>9 DEF Inv, BonusInv, DailySlotUsed
<1>11. SettlementInv'
  BY <1>1, <1>7, <1>9 DEF Inv, SettlementInv
<1> QED
  BY <1>2, <1>3, <1>4, <1>5, <1>6, <1>8, <1>10, <1>11 DEF Inv

\* A ledger nobody has written to yet.
LEMMA InitInv == Init => Inv
<1> SUFFICES ASSUME Init PROVE Inv
  OBVIOUS
<1>1. /\ today = 0 /\ payments = {} /\ voids = {} /\ audits = {} /\ keys = {} /\ candidates = {}
      /\ events = [d \in Debts |-> <<>>]
  BY DEF Init, AcceptedDay
<1>2. \A d \in Debts :
        debt[d] = [status |-> "active", revision |-> 2, updatedAt |-> 0, paidAt |-> -1,
                   overdueAt |-> -1, overdueRevision |-> -1,
                   writtenOffAt |-> -1, writtenOffRevision |-> -1,
                   settledAt |-> -1, settledRevision |-> -1]
  BY DEF Init, AcceptedDay, Unset
<1>3. Types
  <2>1. debt \in [Debts -> DebtRow]
    <3>1. [status |-> "active", revision |-> 2, updatedAt |-> 0, paidAt |-> -1,
           overdueAt |-> -1, overdueRevision |-> -1,
           writtenOffAt |-> -1, writtenOffRevision |-> -1,
           settledAt |-> -1, settledRevision |-> -1] \in DebtRow
      BY DEF DebtRow, Statuses
    <3> QED
      BY <3>1 DEF Init, AcceptedDay, Unset
  <2>2. events \in [Debts -> Seq(RatingEvent)]
    BY <1>1
  <2> QED
    BY <1>1, <2>1, <2>2 DEF Types
<1>4. \A d \in Debts : RowInv(d)
  BY <1>2 DEF RowInv, Unset
<1>5. \A d \in Debts : \A type : Has(d, type) = {} /\ DOMAIN events[d] = {}
  BY <1>1 DEF Has
<1>6. LedgerInv
  BY <1>1 DEF LedgerInv
<1>7. Cover /\ Terminal
  BY <1>1, <1>2 DEF Cover, Terminal
<1>8. KeysInv
  BY <1>1, <1>2 DEF KeysInv, Unset
<1>9. AuditInv
  BY <1>1, <1>2 DEF AuditInv, AuditsFresh, Unset
<1>10. TrailInv
  BY <1>1, <1>2 DEF TrailInv
<1>11. PenaltyInv /\ SourcesInv
  BY <1>2, <1>5 DEF PenaltyInv, SourcesInv, Unset
<1>12. BonusInv /\ SettlementInv
  BY <1>2, <1>5 DEF BonusInv, SettlementInv, Open
<1> QED
  BY <1>3, <1>4, <1>6, <1>7, <1>8, <1>9, <1>10, <1>11, <1>12 DEF Inv

\* Whatever is done, in whatever order, the invariant stays.
LEMMA NextInv == Inv /\ [Next]_vars => Inv'
<1> SUFFICES ASSUME Inv, [Next]_vars PROVE Inv'
  OBVIOUS
<1>1. Types /\ (\A d \in Debts : RowInv(d)) /\ MaxDay \in Nat /\ MaxRevision \in [Debts -> Nat]
  BY BoundAssumption DEF Inv
<1>2. \A d \in Debts : 2..(MaxRevision[d] - 1) \subseteq Nat /\ 2..(MaxRevision[d] + 1) \subseteq Nat
  BY <1>1
<1>3. ASSUME NEW d \in Debts, NEW seen \in 2..(MaxRevision[d] - 1), NEW basis \in Bases,
             NEW amount \in 1..OriginalAmount[d], RecordPayment(d, seen, basis, amount)
      PROVE  Inv'
  BY <1>1, <1>2, <1>3, OnTimePays, PaysInv
<1>4. ASSUME NEW d \in Debts, NEW seen \in 2..(MaxRevision[d] - 1), NEW basis \in Bases,
             NEW amount \in 1..OriginalAmount[d], RecordLatePayment(d, seen, basis, amount)
      PROVE  Inv'
  BY <1>1, <1>2, <1>4, LatePays, PaysInv
<1>5. ASSUME NEW d \in Debts, NEW seen \in 2..(MaxRevision[d] - 1), NEW basis \in Bases,
             NEW amount \in 1..OriginalAmount[d], RecordRecovery(d, seen, basis, amount)
      PROVE  Inv'
  BY <1>1, <1>2, <1>5, RecoveryPays, PaysInv
<1>6. ASSUME NEW d \in Debts, NEW seen \in 2..(MaxRevision[d] - 1), NEW p \in payments,
             VoidPayment(d, p, seen)
      PROVE  Inv'
  BY <1>1, <1>2, <1>6, VoidUndoes, UndoesInv
<1>7. ASSUME NEW d \in Debts, NEW seen \in 2..(MaxRevision[d] + 1), WriteOff(d, seen)
      PROVE  Inv'
  BY <1>1, <1>2, <1>7, WriteOffGivesUp, GivesUpInv
<1>8. ASSUME NEW d \in Debts, DiscoverOverdue(d)
      PROVE  Inv'
  <2>1. candidates' = candidates \cup {<<d, today>>}
        /\ UNCHANGED <<today, debt, payments, voids, events, audits, keys>>
    BY <1>8 DEF DiscoverOverdue
  <2>2. Types' /\ today' >= today
    BY <1>1, <2>1 DEF Types
  <2> QED
    BY <2>1, <2>2, StillInv
<1>9. ASSUME NEW d \in Debts, NEW day \in 0..MaxDay, MaterializeOverdue(d, day)
      PROVE  Inv'
  BY <1>1, <1>9, BatchMarks, MarksInv
<1>10. ASSUME NEW d \in Debts, NEW day \in 0..MaxDay, SkipCandidate(d, day)
       PROVE  Inv'
  <2>1. candidates' \subseteq candidates
        /\ UNCHANGED <<today, debt, payments, voids, events, audits, keys>>
    BY <1>10 DEF SkipCandidate
  <2>2. Types' /\ today' >= today
    BY <1>1, <2>1 DEF Types
  <2> QED
    BY <2>1, <2>2, StillInv
<1>11. CASE Tick
  <2>1. today' = today + 1 /\ UNCHANGED <<debt, payments, voids, events, audits, keys, candidates>>
    BY <1>11 DEF Tick
  <2>2. Types' /\ today' >= today
    BY <1>1, <2>1 DEF Types
  <2> QED
    BY <2>1, <2>2, StillInv
<1>12. CASE UNCHANGED vars
  <2>1. UNCHANGED <<today, debt, payments, voids, events, audits, keys, candidates>>
    BY <1>12 DEF vars
  <2>2. Types' /\ today' >= today
    BY <1>1, <2>1 DEF Types
  <2> QED
    BY <2>1, <2>2, StillInv
<1> QED
  BY <1>3, <1>4, <1>5, <1>6, <1>7, <1>8, <1>9, <1>10, <1>11, <1>12 DEF Next

\* The evidence of the money side is, at any time, what the invariant says: every
\* action of app/payment, of the write-off and of the overdue batch keeps it.
THEOREM EvidenceCoherent == Spec => []Inv
<1>1. Init => Inv
  BY InitInv
<1>2. Inv /\ [Next]_vars => Inv'
  BY NextInv
<1> QED
  BY <1>1, <1>2, PTL DEF Spec

-----------------------------------------------------------------------------
(* What follows.                                                           *)

\* The keys explain the ledger, and the ledger the keys.
LEMMA KeysFollow == Inv => KeysExplainEffects
<1> SUFFICES ASSUME Inv PROVE KeysExplainEffects
  OBVIOUS
<1>1. Types /\ LedgerInv /\ KeysInv /\ \A d \in Debts : RowInv(d)
  BY DEF Inv
<1>2. ASSUME NEW d \in Debts
      PROVE  /\ {k.result : k \in KeysOf("payment", d)}
                  = {p.revision : p \in {q \in payments : q.debt = d}}
             /\ {k.result : k \in KeysOf("void", d)}
                  = {v.payment : v \in {w \in voids : w.debt = d}}
             /\ {k.result : k \in KeysOf("write_off", d)} = {debt[d].writtenOffRevision} \ {Unset}
             /\ \A k \in KeysOf("payment", d) :
                  k.result = IF debt[d].overdueRevision = k.seen + 1 THEN k.seen + 2
                             ELSE k.seen + 1
  <2>1. {k.result : k \in KeysOf("payment", d)}
          = {p.revision : p \in {q \in payments : q.debt = d}}
    BY <1>1 DEF KeysInv, KeysOf
  <2>2. {k.result : k \in KeysOf("void", d)} = {v.payment : v \in {w \in voids : w.debt = d}}
    BY <1>1 DEF KeysInv, KeysOf
  <2>3. {k.result : k \in KeysOf("write_off", d)} = {debt[d].writtenOffRevision} \ {Unset}
    BY <1>1 DEF KeysInv, KeysOf
  <2>4. \A k \in KeysOf("payment", d) :
          k.result = IF debt[d].overdueRevision = k.seen + 1 THEN k.seen + 2 ELSE k.seen + 1
    BY <1>1 DEF KeysInv, KeysOf
  <2> QED
    BY <2>1, <2>2, <2>3, <2>4
<1>3. ASSUME NEW k \in keys
      PROVE  Replays(k) \/ LateThenWrittenOff(k)
  <2>1. k.endpoint \in {"payment", "void", "write_off"} /\ k.debt \in Debts /\ k.seen \in Nat
    BY <1>1 DEF Types, Key
  <2>2. CASE k.endpoint = "payment"
    <3>1. PICK p \in payments : p.debt = k.debt /\ p.revision = k.result /\ p.amount = k.amount
      BY <1>1, <2>2 DEF KeysInv
    <3>2. k.result = k.seen + 1 \/ (k.result = k.seen + 2 /\ k.basis = "original")
      BY <1>1, <2>1, <2>2 DEF KeysInv
    <3>3. debt[k.debt].writtenOffAt = Unset \/ k.result = k.seen + 1 => PaymentReplays(k)
      BY <3>1, <3>2 DEF PaymentReplays, AllowedRevisions
    <3> QED
      BY <2>2, <3>2, <3>3 DEF Replays, LateThenWrittenOff
  <2>3. CASE k.endpoint = "void"
    BY <1>1, <2>3 DEF KeysInv, Replays, VoidReplays
  <2>4. CASE k.endpoint = "write_off"
    <3>1. debt[k.debt].writtenOffRevision # Unset
      BY <1>1, <2>4 DEF KeysInv
    <3> QED
      BY <1>1, <2>1, <2>4, <3>1 DEF Replays, WriteOffReplays, RowInv
  <2> QED
    BY <2>1, <2>2, <2>3, <2>4
<1>4. \A j, k \in keys :
        j.debt = k.debt /\ (j.seen = k.seen \/ (j.endpoint = k.endpoint /\ j.result = k.result))
          => j = k
  BY <1>1 DEF KeysInv
<1> QED
  BY <1>2, <1>3, <1>4 DEF KeysExplainEffects

\* The ledger is a stack.
LEMMA StackFollows == Inv => HistoryIsAStack
<1> SUFFICES ASSUME Inv, NEW d \in Debts
             PROVE  LET paid == {p.revision : p \in {q \in payments : q.debt = d}}
                        undone == {v.revision : v \in {w \in voids : w.debt = d}}
                        marked == ({debt[d].overdueRevision} \ undone)
                                    \cup {debt[d].writtenOffRevision}
                    IN  /\ paid \cup undone \cup (marked \ {Unset}) = 3..debt[d].revision
                        /\ paid \cap undone = {} /\ paid \cap marked = {}
                        /\ undone \cap marked = {}
                        /\ PostedThrough(d, debt[d].revision) = Posted(d)
                        /\ \A v \in voids : v.debt = d =>
                             PostedThrough(d, v.revision) = PostedThrough(d, v.payment - 1)
  BY DEF HistoryIsAStack
<1> DEFINE paid == {p.revision : p \in {q \in payments : q.debt = d}}
           undone == {v.revision : v \in {w \in voids : w.debt = d}}
           marked == ({debt[d].overdueRevision} \ undone) \cup {debt[d].writtenOffRevision}
<1>1. Types /\ LedgerInv /\ Cover /\ RowInv(d)
  BY DEF Inv
<1>2. /\ \A p \in payments : Typed(p)
      /\ \A v \in voids : Typed(v) /\ v.payment \in Nat
  BY <1>1, LedgerTyped
<1>3. paid \cup undone \cup (marked \ {Unset}) \subseteq 3..debt[d].revision
  BY <1>1 DEF LedgerInv, RowInv
<1>4. 3..debt[d].revision \subseteq paid \cup undone \cup (marked \ {Unset})
  <2>1. Unset \notin 3..debt[d].revision
    BY DEF Unset
  <2> QED
    BY <1>1, <2>1 DEF Cover
<1>5. paid \cap undone = {} /\ paid \cap marked = {} /\ undone \cap marked = {}
  BY <1>1 DEF LedgerInv
<1>6. PostedThrough(d, debt[d].revision) = Posted(d)
  <2>1. {p \in payments :
           /\ p.debt = d
           /\ p.revision <= debt[d].revision
           /\ ~\E v \in voids : /\ v.debt = d /\ v.payment = p.revision
                                /\ v.revision <= debt[d].revision} = Standing(d)
    BY <1>1 DEF LedgerInv, Standing, Voided
  <2> QED
    BY <2>1 DEF PostedThrough, Posted
<1>7. ASSUME NEW v \in voids, v.debt = d
      PROVE  PostedThrough(d, v.revision) = PostedThrough(d, v.payment - 1)
  <2> DEFINE Then(revision) ==
               {p \in payments :
                  /\ p.debt = d
                  /\ p.revision <= revision
                  /\ ~\E w \in voids : /\ w.debt = d /\ w.payment = p.revision
                                       /\ w.revision <= revision}
  <2>1. PICK q \in payments : q.debt = d /\ q.revision = v.payment
    BY <1>1, <1>7 DEF LedgerInv
  <2>2. v.payment < v.revision
    BY <1>1 DEF LedgerInv
  <2>3. ASSUME NEW p \in payments, p.debt = d, p.revision <= v.revision,
               \A w \in voids :
                 ~(w.debt = d /\ w.payment = p.revision /\ w.revision <= v.revision)
        PROVE  /\ p.revision <= v.payment - 1
               /\ \A w \in voids :
                    ~(w.debt = d /\ w.payment = p.revision /\ w.revision <= v.payment - 1)
    <3>1. p.revision # v.payment /\ p.revision # v.revision
      BY <1>1, <1>2, <1>7, <2>3 DEF LedgerInv, Typed
    <3>2. ~(v.payment < p.revision)
      <4>1. ASSUME v.payment < p.revision PROVE FALSE
        <5>1. p.revision < v.revision
          BY <1>2, <2>3, <3>1 DEF Typed
        <5>2. PICK w \in voids : /\ w.debt = p.debt /\ w.payment = p.revision
                                 /\ w.revision < v.revision
          BY <1>1, <1>7, <2>3, <4>1, <5>1 DEF LedgerInv
        <5> QED
          BY <1>2, <2>3, <5>2 DEF Typed
      <4> QED
        BY <4>1
    <3> QED
      BY <1>2, <2>2, <2>3, <3>1, <3>2 DEF Typed
  <2>4. ASSUME NEW p \in payments, p.debt = d, p.revision <= v.payment - 1,
               \A w \in voids :
                 ~(w.debt = d /\ w.payment = p.revision /\ w.revision <= v.payment - 1)
        PROVE  /\ p.revision <= v.revision
               /\ \A w \in voids :
                    ~(w.debt = d /\ w.payment = p.revision /\ w.revision <= v.revision)
    <3>1. p.revision <= v.revision
      BY <1>2, <2>2, <2>4 DEF Typed
    <3>2. ASSUME NEW w \in voids, w.debt = d, w.payment = p.revision, w.revision <= v.revision
          PROVE  FALSE
      <4>1. w.revision # q.revision
        BY <1>1, <2>1, <3>2 DEF LedgerInv
      <4>2. w.payment < q.revision /\ q.revision < w.revision
        BY <1>2, <2>1, <2>4, <3>2, <4>1 DEF Typed
      <4>3. PICK u \in voids : u.debt = d /\ u.payment = q.revision /\ u.revision < w.revision
        BY <1>1, <2>1, <3>2, <4>2 DEF LedgerInv
      <4>4. u = v
        BY <1>1, <1>7, <2>1, <4>3 DEF LedgerInv
      <4> QED
        BY <1>2, <3>2, <4>3, <4>4 DEF Typed
    <3> QED
      BY <3>1, <3>2
  <2>5. Then(v.revision) = Then(v.payment - 1)
    BY <2>3, <2>4
  <2> QED
    BY <2>5 DEF PostedThrough
<1> QED
  BY <1>3, <1>4, <1>5, <1>6, <1>7

\* The next void finds the reward of its payment.
LEMMA SourceFollows == Inv => VoidSourceProvable
BY RewardKnown DEF Inv, VoidSourceProvable

\* The rewards are those of the ledger as it stands.
LEMMA RewardsFollow == Inv => RewardsMatchLedger
<1> SUFFICES ASSUME Inv PROVE RewardsMatchLedger
  OBVIOUS
<1>1. /\ Types /\ (\A d \in Debts : RowInv(d))
      /\ PenaltyInv /\ SourcesInv /\ BonusInv /\ SettlementInv
  BY DEF Inv
<1>2. ASSUME NEW d \in Debts
      PROVE  {events[d][i].source :
                 i \in Open(d, "written_off_settled", "written_off_settled_voided")}
               = {debt[d].settledRevision} \ {Unset}
  <2> DEFINE open == Open(d, "written_off_settled", "written_off_settled_voided")
  <2>1. /\ \A i \in open : /\ debt[d].status = "written_off_settled"
                           /\ events[d][i].source = debt[d].revision
        /\ debt[d].status = "written_off_settled" => open # {}
    BY <1>1 DEF SettlementInv
  <2>2. /\ debt[d].settledRevision =
             IF debt[d].status = "written_off_settled" THEN debt[d].revision ELSE Unset
        /\ debt[d].revision # Unset
    BY <1>1 DEF RowInv, Types, DebtRow, Unset
  <2> HIDE DEF open
  <2> QED
    BY <2>1, <2>2 DEF open
<1>3. ASSUME NEW d \in Debts
      PROVE  Sources(d, "overdue") = {debt[d].overdueRevision} \ {Unset}
  <2>1. \A i \in Has(d, "overdue") :
          events[d][i].source = debt[d].overdueRevision /\ events[d][i].source # Unset
    BY <1>1, HasSource DEF PenaltyInv
  <2>2. debt[d].overdueRevision # Unset => Has(d, "overdue") # {}
    BY <1>1 DEF PenaltyInv
  <2> QED
    BY <2>1, <2>2 DEF Sources
<1>4. ASSUME NEW d \in Debts
      PROVE  Sources(d, "written_off") = {debt[d].writtenOffRevision} \ {Unset}
  <2>1. \A i \in Has(d, "written_off") :
          events[d][i].source = debt[d].writtenOffRevision /\ events[d][i].source # Unset
    BY <1>1, HasSource DEF PenaltyInv
  <2>2. debt[d].writtenOffRevision # Unset => Has(d, "written_off") # {}
    BY <1>1 DEF PenaltyInv
  <2> QED
    BY <2>1, <2>2 DEF Sources
<1> QED
  BY <1>1, <1>2, <1>3, <1>4 DEF RewardsMatchLedger, BonusInv

\* What is one and what is two.
LEMMA OneAndTwo ==
    ASSUME NEW a, NEW b, a # b
    PROVE  Cardinality({a}) = 1 /\ Cardinality({a, b}) = 2
<1>1. IsFiniteSet({a}) /\ Cardinality({a}) = 1
  BY FS_Singleton
<1>2. Cardinality({a} \cup {b}) = 2
  BY <1>1, FS_AddElement
<1>3. {a} \cup {b} = {a, b}
  OBVIOUS
<1> QED
  BY <1>1, <1>2, <1>3

\* A marked debt has one event and the pair of rows of its marking.
LEMMA OverdueFollows ==
    ASSUME Inv, NEW d \in Debts, debt[d].overdueRevision # Unset
    PROVE  OverdueSourceCoherent(d)
<1> DEFINE types == {"debt.overdue", "debt.clawback_applied"}
           pair == AuditsOf(d, types)
<1>1. Types /\ AuditInv /\ TrailInv /\ PenaltyInv /\ AuditsFresh
  BY DEF Inv, AuditInv
<1>2. PICK i : i \in Has(d, "overdue")
  BY <1>1 DEF PenaltyInv
<1>3. Has(d, "overdue") = {i} /\ events[d][i].at = debt[d].overdueAt
  BY <1>1, <1>2 DEF PenaltyInv
<1>4. Cardinality(Has(d, "overdue")) = 1
  BY <1>3, FS_Singleton
<1>5. ASSUME NEW a \in pair
      PROVE  /\ a.actor = "SYSTEM" /\ a.at = debt[d].overdueAt
             /\ a.revision = debt[d].overdueRevision /\ a.debt = d /\ a \in audits /\ a.type \in types
  <2>1. a \in audits /\ a.debt = d /\ a.type \in types
    BY DEF AuditsOf
  <2>2. PayloadAccepts(a)
    BY <1>1, <2>1 DEF TrailInv
  <2> QED
    BY <2>1, <2>2 DEF PayloadAccepts, ActorOf, SourceOf
<1>6. PICK a \in audits : a.debt = d /\ a.type = "debt.overdue"
  BY <1>1 DEF AuditInv
<1>7. PICK b \in audits : b.debt = d /\ b.type = "debt.clawback_applied"
  BY <1>1 DEF AuditInv
<1>8. a \in pair /\ b \in pair /\ a # b
  BY <1>6, <1>7 DEF AuditsOf
<1> HIDE DEF pair
<1>9. pair = {a, b}
  <2>1. ASSUME NEW c \in pair PROVE c = a \/ c = b
    BY <1>1, <1>5, <1>6, <1>7, <1>8 DEF AuditsFresh
  <2> QED
    BY <1>8, <2>1
<1>10. Cardinality(pair) = 2
  BY <1>8, <1>9, OneAndTwo
<1>11. {c.type : c \in pair} = types
  BY <1>6, <1>7, <1>9
<1> QED
  BY <1>3, <1>4, <1>5, <1>10, <1>11 DEF OverdueSourceCoherent, pair

\* A debt that was given up has one event and one row of it.
LEMMA WrittenOffFollows ==
    ASSUME Inv, NEW d \in Debts, debt[d].writtenOffRevision # Unset
    PROVE  WrittenOffSourceCoherent(d)
<1> DEFINE rows == AuditsOf(d, {"debt.written_off"})
<1>1. Types /\ AuditInv /\ TrailInv /\ PenaltyInv /\ AuditsFresh
  BY DEF Inv, AuditInv
<1>2. PICK i : i \in Has(d, "written_off")
  BY <1>1 DEF PenaltyInv
<1>3. Has(d, "written_off") = {i} /\ events[d][i].at = debt[d].writtenOffAt
  BY <1>1, <1>2 DEF PenaltyInv
<1>4. Cardinality(Has(d, "written_off")) = 1
  BY <1>3, FS_Singleton
<1>5. ASSUME NEW a \in rows
      PROVE  /\ a.actor = "USER" /\ a.at = debt[d].writtenOffAt
             /\ a.revision = debt[d].writtenOffRevision
             /\ a.debt = d /\ a \in audits /\ a.type = "debt.written_off"
  <2>1. a \in audits /\ a.debt = d /\ a.type = "debt.written_off"
    BY DEF AuditsOf
  <2>2. PayloadAccepts(a)
    BY <1>1, <2>1 DEF TrailInv
  <2> QED
    BY <2>1, <2>2 DEF PayloadAccepts, ActorOf, SourceOf
<1>6. PICK a \in audits : a.debt = d /\ a.type = "debt.written_off"
  BY <1>1 DEF AuditInv
<1>7. a \in rows
  BY <1>6 DEF AuditsOf
<1> HIDE DEF rows
<1>8. rows = {a}
  BY <1>1, <1>5, <1>6, <1>7 DEF AuditsFresh
<1>9. Cardinality(rows) = 1
  BY <1>8, FS_Singleton
<1> QED
  BY <1>3, <1>4, <1>5, <1>9 DEF WrittenOffSourceCoherent, rows

\* The next write-off, and the next recovery, find what they demand.
LEMMA SourcesFollow == Inv => SourcesCoherent
<1> SUFFICES ASSUME Inv, NEW d \in Debts
             PROVE  /\ debt[d].status = "overdue" => OverdueSourceCoherent(d)
                    /\ debt[d].status \in {"written_off", "written_off_settled"}
                         => OverdueSourceCoherent(d) /\ WrittenOffSourceCoherent(d)
  BY DEF SourcesCoherent
<1>1. RowInv(d)
  BY DEF Inv
<1>2. debt[d].status \in {"overdue", "written_off", "written_off_settled"} =>
        debt[d].overdueRevision # Unset
  BY <1>1 DEF RowInv
<1>3. debt[d].status \in {"written_off", "written_off_settled"} =>
        debt[d].writtenOffRevision # Unset
  BY <1>1 DEF RowInv
<1> QED
  BY <1>2, <1>3, OverdueFollows, WrittenOffFollows

\* Redaction and table accept what the payload classes do.
LEMMA AcceptedAlike ==
    ASSUME NEW a, a.type \in AuditTypes, a.actor \in {"USER", "SYSTEM"}, PayloadAccepts(a)
    PROVE  Redacts(a) /\ TableAccepts(a)
<1> DEFINE move == <<a.from, a.to>>
<1>1. /\ move \in PaymentPayload(a.type) \cup VoidPayload(a.type)
                    \cup WriteOffPayload(a.type) \cup OverduePayload(a.type)
      /\ a.actor = ActorOf(a.type)
  BY DEF PayloadAccepts
<1>2. ChecksActor(a)
  BY <1>1 DEF ChecksActor, ActorOf
<1> HIDE DEF move
<1>3. PaymentPayload(a.type) \subseteq RedactsPayment(a.type)
  BY DEF PaymentPayload, RedactsPayment
<1>4. VoidPayload(a.type) \subseteq RedactsVoid(a.type)
  BY DEF VoidPayload, RedactsVoid
<1>5. WriteOffPayload(a.type) \subseteq RedactsWriteOff(a.type)
  BY DEF WriteOffPayload, RedactsWriteOff
<1>6. OverduePayload(a.type) \subseteq RedactsOverdue(a.type)
  BY DEF OverduePayload, RedactsOverdue
<1>7. PaymentPayload(a.type) \subseteq ChecksPayment(a.type) \cup ChecksDebt(a.type)
  BY DEF PaymentPayload, ChecksPayment, ChecksDebt
<1>8. VoidPayload(a.type) \subseteq ChecksPayment(a.type) \cup ChecksDebt(a.type)
  BY DEF VoidPayload, ChecksPayment, ChecksDebt
<1>9. WriteOffPayload(a.type) \subseteq ChecksPayment(a.type) \cup ChecksDebt(a.type)
  BY DEF WriteOffPayload, ChecksPayment, ChecksDebt
<1>10. OverduePayload(a.type) \subseteq ChecksPayment(a.type) \cup ChecksDebt(a.type)
  BY DEF OverduePayload, ChecksPayment, ChecksDebt
<1>11. /\ move \in RedactsPayment(a.type) \cup RedactsVoid(a.type)
                     \cup RedactsWriteOff(a.type) \cup RedactsOverdue(a.type)
       /\ move \in ChecksPayment(a.type) \cup ChecksDebt(a.type)
  BY <1>1, <1>3, <1>4, <1>5, <1>6, <1>7, <1>8, <1>9, <1>10
<1> QED
  BY <1>2, <1>11 DEF Redacts, TableAccepts, move

\* The trail tells one story.
LEMMA TrailFollows == Inv => AuditTrailUnbroken
<1> SUFFICES ASSUME Inv PROVE AuditTrailUnbroken
  OBVIOUS
<1>1. Types /\ TrailInv /\ AuditsFresh /\ \A d \in Debts : RowInv(d)
  BY DEF Inv, AuditInv
<1>2. \A a \in audits : PayloadAccepts(a) /\ Redacts(a) /\ TableAccepts(a)
  <2>1. \A a \in audits : PayloadAccepts(a) /\ a.type \in AuditTypes /\ a.actor \in {"USER", "SYSTEM"}
    BY <1>1 DEF TrailInv, Types, AuditRow
  <2> QED
    BY <2>1, AcceptedAlike
<1>3. ASSUME NEW d \in Debts, NEW revision, NEW move \in Told(d, revision)
      PROVE  \E a \in audits : /\ Tells(a) /\ a.debt = d /\ a.revision = revision
                               /\ move = <<a.from, a.to>>
  BY DEF Told, Tells
<1>4. ASSUME NEW d \in Debts, NEW revision \in 3..debt[d].revision
      PROVE  Cardinality(Told(d, revision)) = 1
  <2>1. PICK a \in audits : Tells(a) /\ a.debt = d /\ a.revision = revision
    BY <1>1 DEF TrailInv
  <2>2. <<a.from, a.to>> \in Told(d, revision)
    BY <2>1 DEF Told, Tells
  <2>3. ASSUME NEW move \in Told(d, revision) PROVE move = <<a.from, a.to>>
    BY <1>1, <1>3, <2>1 DEF TrailInv
  <2>4. Told(d, revision) = {<<a.from, a.to>>}
    BY <2>2, <2>3
  <2> QED
    BY <2>4, FS_Singleton
<1>5. ASSUME NEW d \in Debts, NEW revision \in 3..debt[d].revision,
             NEW before \in Told(d, revision - 1), NEW now \in Told(d, revision)
      PROVE  now[1] = before[2]
  <2>1. PICK b \in audits : /\ Tells(b) /\ b.debt = d /\ b.revision = revision - 1
                            /\ before = <<b.from, b.to>>
    BY <1>3
  <2>2. PICK a \in audits : /\ Tells(a) /\ a.debt = d /\ a.revision = revision
                            /\ now = <<a.from, a.to>>
    BY <1>3
  <2>3. a.revision = b.revision + 1
    BY <2>1, <2>2
  <2>4. a.from = b.to
    BY <1>1, <2>1, <2>2, <2>3 DEF TrailInv
  <2> QED
    BY <2>1, <2>2, <2>4
<1>6. ASSUME NEW d \in Debts, NEW move \in Told(d, 3)
      PROVE  move[1] = "active"
  BY <1>1, <1>3 DEF TrailInv
<1>7. ASSUME NEW d \in Debts, NEW move \in Told(d, debt[d].revision)
      PROVE  move[2] = debt[d].status
  BY <1>1, <1>3 DEF TrailInv
<1> QED
  BY <1>2, <1>4, <1>5, <1>6, <1>7 DEF AuditTrailUnbroken

-----------------------------------------------------------------------------
(* What a step may never do.                                               *)

\* A step takes new revisions of one debt, or leaves the ledger alone.
LEMMA NextGrows ==
    ASSUME Inv, [Next]_vars
    PROVE  \/ \E d \in Debts : Grows(d)
           \/ UNCHANGED <<debt, payments, voids>>
<1>1. Types /\ (\A d \in Debts : RowInv(d)) /\ MaxDay \in Nat /\ MaxRevision \in [Debts -> Nat]
  BY BoundAssumption DEF Inv
<1>2. \A d \in Debts : 2..(MaxRevision[d] - 1) \subseteq Nat /\ 2..(MaxRevision[d] + 1) \subseteq Nat
  BY <1>1
<1>3. ASSUME NEW d \in Debts, NEW seen \in 2..(MaxRevision[d] - 1), NEW basis \in Bases,
             NEW amount \in 1..OriginalAmount[d],
             \/ RecordPayment(d, seen, basis, amount)
             \/ RecordLatePayment(d, seen, basis, amount)
             \/ RecordRecovery(d, seen, basis, amount)
      PROVE  Grows(d)
  <2>1. \E marking \in BOOLEAN :
          Types' /\ Others(d) /\ Pays(d, seen, basis, amount, marking)
    BY <1>1, <1>2, <1>3, OnTimePays, LatePays, RecoveryPays
  <2> QED
    BY <1>1, <2>1, PaysGrows
<1>4. ASSUME NEW d \in Debts, NEW seen \in 2..(MaxRevision[d] - 1), NEW p \in payments,
             VoidPayment(d, p, seen)
      PROVE  Grows(d)
  BY <1>1, <1>2, <1>4, VoidUndoes, UndoesGrows
<1>5. ASSUME NEW d \in Debts, NEW seen \in 2..(MaxRevision[d] + 1), WriteOff(d, seen)
      PROVE  Grows(d)
  BY <1>1, <1>2, <1>5, WriteOffGivesUp, GivesUpGrows
<1>6. ASSUME NEW d \in Debts, NEW day \in 0..MaxDay, MaterializeOverdue(d, day)
      PROVE  Grows(d)
  BY <1>1, <1>6, BatchMarks, MarksGrows
<1>7. ASSUME NEW d \in Debts, DiscoverOverdue(d)
      PROVE  UNCHANGED <<debt, payments, voids>>
  BY <1>7 DEF DiscoverOverdue
<1>8. ASSUME NEW d \in Debts, NEW day \in 0..MaxDay, SkipCandidate(d, day)
      PROVE  UNCHANGED <<debt, payments, voids>>
  BY <1>8 DEF SkipCandidate
<1>9. CASE Tick \/ UNCHANGED vars
  BY <1>9 DEF Tick, vars
<1> QED
  BY <1>3, <1>4, <1>5, <1>6, <1>7, <1>8, <1>9 DEF Next

\* What a receipt is computed from does not change: new payments and voids carry
\* newer revisions, and so does the marking of a debt.
LEMMA ReceiptsKept ==
    ASSUME Inv, Types', NEW d \in Debts, Grows(d), NEW p \in payments
    PROVE  p \in payments' /\ ReceiptPage(p)' = ReceiptPage(p)
<1>1. Types /\ LedgerInv /\ \A c \in Debts : RowInv(c)
  BY DEF Inv
<1>2. /\ \A q \in payments : Typed(q)
      /\ \A v \in voids : Typed(v) /\ v.payment \in Nat
  BY <1>1, LedgerTyped
<1>3. /\ \A q \in payments' : q.debt \in Debts /\ q.revision \in Nat
      /\ \A v \in voids' : v.debt \in Debts /\ v.revision \in Nat
  BY DEF Types, Payment, Void
<1>4. /\ payments \subseteq payments' /\ voids \subseteq voids'
      /\ \A q \in payments' : q \in payments \/ (q.debt = d /\ q.revision > debt[d].revision)
      /\ \A v \in voids' : v \in voids \/ (v.debt = d /\ v.revision > debt[d].revision)
  BY DEF Grows
<1>5. p.debt \in Debts /\ p.revision \in Nat /\ p.revision <= debt[p.debt].revision
  BY <1>1, <1>2 DEF LedgerInv, Typed
<1>6. debt[d].revision \in Nat
  BY <1>1 DEF Types, DebtRow
<1> DEFINE Of2 == {q \in payments :
                     /\ q.debt = p.debt
                     /\ q.revision <= p.revision
                     /\ ~\E v \in voids : /\ v.debt = p.debt /\ v.payment = q.revision
                                          /\ v.revision <= p.revision}
           Of3 == {q \in payments' :
                     /\ q.debt = p.debt
                     /\ q.revision <= p.revision
                     /\ ~\E v \in voids' : /\ v.debt = p.debt /\ v.payment = q.revision
                                           /\ v.revision <= p.revision}
<1>7. Of3 = Of2
  <2>1. \A q \in payments' : q.debt = p.debt /\ q.revision <= p.revision => q \in payments
    BY <1>3, <1>4, <1>5, <1>6
  <2>2. \A v \in voids' : v.debt = p.debt /\ v.revision <= p.revision => v \in voids
    BY <1>3, <1>4, <1>5, <1>6
  <2> QED
    BY <1>4, <2>1, <2>2
<1>8. PostedThrough(p.debt, p.revision)' = PostedThrough(p.debt, p.revision)
  BY <1>7 DEF PostedThrough
<1>9. HistoricalBasis(p)' = HistoricalBasis(p)
  <2>1. \/ debt'[p.debt].overdueRevision = debt[p.debt].overdueRevision
        \/ /\ debt[p.debt].overdueRevision = Unset
           /\ debt'[p.debt].overdueRevision > debt[p.debt].revision
    BY <1>5 DEF Grows
  <2>2. CASE debt'[p.debt].overdueRevision = debt[p.debt].overdueRevision
    BY <2>2 DEF HistoricalBasis
  <2>3. CASE /\ debt[p.debt].overdueRevision = Unset
             /\ debt'[p.debt].overdueRevision > debt[p.debt].revision
    <3>1. debt[p.debt].revision \in Nat /\ debt'[p.debt].overdueRevision \in Int
      BY <1>1, <1>5 DEF Types, DebtRow
    <3>2. p.revision < debt'[p.debt].overdueRevision
      BY <1>5, <2>3, <3>1
    <3>3. HistoricalBasis(p) = "discounted"
      BY <2>3 DEF HistoricalBasis
    <3>4. HistoricalBasis(p)' = "discounted"
      BY <1>5, <3>1, <3>2 DEF HistoricalBasis
    <3> QED
      BY <3>3, <3>4
  <2> QED
    BY <2>1, <2>2, <2>3
<1>10. HistoricalDue(p)' = HistoricalDue(p)
  BY <1>8, <1>9 DEF HistoricalDue, Due
<1> QED
  BY <1>4, <1>9, <1>10 DEF ReceiptPage

-----------------------------------------------------------------------------
(* The columns of a row after a step.                                      *)

\* The row of a payment on time,
LEMMA OnTimeRow ==
    ASSUME Types, NEW d \in Debts, NEW seen, NEW basis, NEW amount,
           RecordPayment(d, seen, basis, amount)
    PROVE  /\ debt'[d].status = (IF amount = Remaining(d) THEN "paid" ELSE debt[d].status)
           /\ debt'[d].revision = debt[d].revision + 1
           /\ debt'[d].updatedAt = today
           /\ debt'[d].paidAt = (IF amount = Remaining(d) THEN today ELSE Unset)
           /\ debt'[d].overdueAt = debt[d].overdueAt
           /\ debt'[d].overdueRevision = debt[d].overdueRevision
           /\ debt'[d].writtenOffAt = debt[d].writtenOffAt
           /\ debt'[d].writtenOffRevision = debt[d].writtenOffRevision
           /\ debt'[d].settledAt = debt[d].settledAt
           /\ debt'[d].settledRevision = debt[d].settledRevision
           /\ Others(d) /\ UNCHANGED <<today, voids, candidates>>
<1>1. debt \in [Debts -> DebtRow] /\ debt[d] \in DebtRow
  BY DEF Types
<1>2. Others(d) /\ UNCHANGED <<today, voids, candidates>>
  BY <1>1 DEF RecordPayment, Others, Post
<1> QED
  BY <1>1, <1>2 DEF RecordPayment, DebtRow

\* of a late one,
LEMMA LateRow ==
    ASSUME Types, NEW d \in Debts, NEW seen, NEW basis, NEW amount,
           RecordLatePayment(d, seen, basis, amount)
    PROVE  /\ debt'[d].status = (IF amount = Remaining(d) THEN "paid" ELSE "overdue")
           /\ debt'[d].revision = debt[d].revision + 2
           /\ debt'[d].updatedAt = today
           /\ debt'[d].paidAt = (IF amount = Remaining(d) THEN today ELSE Unset)
           /\ debt'[d].overdueAt = today
           /\ debt'[d].overdueRevision = debt[d].revision + 1
           /\ debt'[d].writtenOffAt = debt[d].writtenOffAt
           /\ debt'[d].writtenOffRevision = debt[d].writtenOffRevision
           /\ debt'[d].settledAt = debt[d].settledAt
           /\ debt'[d].settledRevision = debt[d].settledRevision
           /\ Others(d) /\ UNCHANGED <<today, voids, candidates>>
<1>1. debt \in [Debts -> DebtRow] /\ debt[d] \in DebtRow
  BY DEF Types
<1>2. Others(d) /\ UNCHANGED <<today, voids, candidates>>
  BY <1>1 DEF RecordLatePayment, Others, Post
<1> QED
  BY <1>1, <1>2 DEF RecordLatePayment, DebtRow

\* of a recovery,
LEMMA RecoveryRow ==
    ASSUME Types, NEW d \in Debts, NEW seen, NEW basis, NEW amount,
           RecordRecovery(d, seen, basis, amount)
    PROVE  /\ debt'[d].status =
                (IF amount = Remaining(d) THEN "written_off_settled" ELSE debt[d].status)
           /\ debt'[d].revision = debt[d].revision + 1
           /\ debt'[d].updatedAt = today
           /\ debt'[d].paidAt = debt[d].paidAt
           /\ debt'[d].overdueAt = debt[d].overdueAt
           /\ debt'[d].overdueRevision = debt[d].overdueRevision
           /\ debt'[d].writtenOffAt = debt[d].writtenOffAt
           /\ debt'[d].writtenOffRevision = debt[d].writtenOffRevision
           /\ debt'[d].settledAt = (IF amount = Remaining(d) THEN today ELSE Unset)
           /\ debt'[d].settledRevision =
                (IF amount = Remaining(d) THEN debt[d].revision + 1 ELSE Unset)
           /\ Others(d) /\ UNCHANGED <<today, voids, candidates>>
<1>1. debt \in [Debts -> DebtRow] /\ debt[d] \in DebtRow
  BY DEF Types
<1>2. Others(d) /\ UNCHANGED <<today, voids, candidates>>
  BY <1>1 DEF RecordRecovery, Others, Post
<1> QED
  BY <1>1, <1>2 DEF RecordRecovery, DebtRow

\* of a void,
LEMMA VoidedRow ==
    ASSUME Types, NEW d \in Debts, NEW p, NEW seen, VoidPayment(d, p, seen)
    PROVE  /\ debt'[d].status = ReopenedStatus(d)
           /\ debt'[d].revision = debt[d].revision + 1
           /\ debt'[d].updatedAt = today
           /\ debt'[d].paidAt = Unset
           /\ debt'[d].overdueAt = (IF ReopensOverdue(d) THEN today ELSE debt[d].overdueAt)
           /\ debt'[d].overdueRevision =
                (IF ReopensOverdue(d) THEN debt[d].revision + 1 ELSE debt[d].overdueRevision)
           /\ debt'[d].writtenOffAt = debt[d].writtenOffAt
           /\ debt'[d].writtenOffRevision = debt[d].writtenOffRevision
           /\ debt'[d].settledAt = Unset
           /\ debt'[d].settledRevision = Unset
           /\ Others(d) /\ UNCHANGED <<today, payments, candidates>>
<1>1. debt \in [Debts -> DebtRow] /\ debt[d] \in DebtRow
  BY DEF Types
<1>2. Others(d) /\ UNCHANGED <<today, payments, candidates>>
  BY <1>1 DEF VoidPayment, Others
<1> QED
  BY <1>1, <1>2 DEF VoidPayment, DebtRow

\* of the marking by the batch,
LEMMA MarkedRow ==
    ASSUME Types, NEW d \in Debts, NEW day, MaterializeOverdue(d, day)
    PROVE  /\ debt'[d].status = "overdue"
           /\ debt'[d].revision = debt[d].revision + 1
           /\ debt'[d].updatedAt = day
           /\ debt'[d].paidAt = debt[d].paidAt
           /\ debt'[d].overdueAt = day
           /\ debt'[d].overdueRevision = debt[d].revision + 1
           /\ debt'[d].writtenOffAt = debt[d].writtenOffAt
           /\ debt'[d].writtenOffRevision = debt[d].writtenOffRevision
           /\ debt'[d].settledAt = debt[d].settledAt
           /\ debt'[d].settledRevision = debt[d].settledRevision
           /\ Others(d) /\ UNCHANGED <<today, payments, voids>>
<1>1. debt \in [Debts -> DebtRow] /\ debt[d] \in DebtRow
  BY DEF Types
<1>2. Others(d) /\ UNCHANGED <<today, payments, voids>>
  BY <1>1 DEF MaterializeOverdue, Others
<1> QED
  BY <1>1, <1>2 DEF MaterializeOverdue, DebtRow

\* and of a write-off.
LEMMA WrittenOffRow ==
    ASSUME Types, NEW d \in Debts, NEW seen, WriteOff(d, seen)
    PROVE  /\ debt'[d].status = "written_off"
           /\ debt'[d].revision = debt[d].revision + 1
           /\ debt'[d].updatedAt = today
           /\ debt'[d].paidAt = debt[d].paidAt
           /\ debt'[d].overdueAt = debt[d].overdueAt
           /\ debt'[d].overdueRevision = debt[d].overdueRevision
           /\ debt'[d].writtenOffAt = today
           /\ debt'[d].writtenOffRevision = debt[d].revision + 1
           /\ debt'[d].settledAt = debt[d].settledAt
           /\ debt'[d].settledRevision = debt[d].settledRevision
           /\ Others(d) /\ UNCHANGED <<today, payments, voids, candidates>>
<1>1. debt \in [Debts -> DebtRow] /\ debt[d] \in DebtRow
  BY DEF Types
<1>2. Others(d) /\ UNCHANGED <<today, payments, voids, candidates>>
  BY <1>1 DEF WriteOff, Others
<1> QED
  BY <1>1, <1>2 DEF WriteOff, DebtRow

-----------------------------------------------------------------------------
(* Sums.                                                                   *)

\* A set of subsets of a finite set has a least one: the induction that is used
\* below, by the least counterexample.
LEMMA Least ==
    ASSUME NEW S, IsFiniteSet(S), NEW T, T \subseteq SUBSET S, T # {}
    PROVE  \E s \in T : \A t \in T : t \subseteq s => t = s
<1>1. PICK s \in T : \A t \in T : ~(<<t, s>> \in StrictSubsetOrdering(S))
  <2>1. IsWellFoundedOn(StrictSubsetOrdering(S), SUBSET S)
    BY FS_StrictSubsetOrderingWellFounded, FS_FiniteSubsetsOfFinite
  <2> QED
    BY <2>1, WFMin
<1> QED
  BY <1>1 DEF StrictSubsetOrdering

\* The element MapThenFoldSet takes first, and what it computes.
First(s) == CHOOSE x \in s : TRUE

Sums(f, S) ==
    f = [s \in SUBSET S |-> IF s = {} THEN 0 ELSE First(s).amount + f[s \ {First(s)}]]

\* The total is what one of these functions gives.
LEMMA TotalIs ==
    ASSUME NEW S
    PROVE  Total(S) = (CHOOSE f : Sums(f, S))[S]
BY DEF Total, MapThenSumSet, MapThenFoldSet, Sums, First

\* The first element is one.
LEMMA FirstIn ==
    ASSUME NEW s, s # {}
    PROVE  First(s) \in s
BY DEF First

\* Two that sum agree where both do.
LEMMA SumsAgree ==
    ASSUME NEW S, NEW T, NEW f, NEW g, Sums(f, S), Sums(g, T), IsFiniteSet(S),
           NEW U \in SUBSET S, U \in SUBSET T
    PROVE  f[U] = g[U]
<1> SUFFICES ASSUME f[U] # g[U] PROVE FALSE
  OBVIOUS
<1>0. PICK Bad : Bad = {s \in SUBSET S : s \in SUBSET T /\ f[s] # g[s]}
  OBVIOUS
<1>1. PICK s \in Bad : \A t \in Bad : t \subseteq s => t = s
  <2>1. Bad # {} /\ Bad \subseteq SUBSET S
    BY <1>0
  <2> QED
    BY <2>1, Least
<1>2. s # {}
  BY <1>0, <1>1 DEF Sums
<1>3. First(s) \in s
  BY <1>2, FirstIn
<1>4. PICK t : t = s \ {First(s)}
  OBVIOUS
<1>5. t \notin Bad /\ t \in SUBSET S /\ t \in SUBSET T
  BY <1>0, <1>1, <1>3, <1>4
<1>6. f[t] = g[t]
  BY <1>0, <1>5
<1>7. f[s] = First(s).amount + f[t]
  BY <1>0, <1>1, <1>2, <1>4 DEF Sums
<1>8. g[s] = First(s).amount + g[t]
  BY <1>0, <1>1, <1>2, <1>4 DEF Sums
<1> QED
  BY <1>0, <1>1, <1>6, <1>7, <1>8

\* There is one that sums.
LEMMA SumsExist ==
    ASSUME NEW S, IsFiniteSet(S)
    PROVE  \E f : Sums(f, S)
<1> SUFFICES ASSUME ~\E f : Sums(f, S) PROVE FALSE
  OBVIOUS
<1>0. PICK Bad : Bad = {s \in SUBSET S : ~\E f : Sums(f, s)}
  OBVIOUS
<1>1. PICK s \in Bad : \A t \in Bad : t \subseteq s => t = s
  <2>1. Bad # {} /\ Bad \subseteq SUBSET S
    BY <1>0
  <2> QED
    BY <2>1, Least
<1> DEFINE F(t) == CHOOSE f : Sums(f, t)
<1>2. ASSUME NEW t \in SUBSET s, t # s
      PROVE  Sums(F(t), t)
  <2>1. \E f : Sums(f, t)
    BY <1>0, <1>1, <1>2
  <2> QED
    BY <2>1
<1>3. \A t \in SUBSET s : IsFiniteSet(t)
  BY <1>0, <1>1, FS_Subset
<1>4. ASSUME NEW t \in SUBSET s, t # {}, t # s
      PROVE  F(t)[t] = First(t).amount + F(t \ {First(t)})[t \ {First(t)}]
  <2>1. First(t) \in t
    BY <1>4, FirstIn
  <2>2. PICK u : u = t \ {First(t)}
    OBVIOUS
  <2>3. u \in SUBSET s /\ u # s /\ u \in SUBSET t /\ IsFiniteSet(u)
    BY <1>3, <1>4, <2>1, <2>2
  <2>4. Sums(F(t), t) /\ Sums(F(u), u)
    BY <1>2, <1>4, <2>3
  <2>5. F(t)[t] = First(t).amount + F(t)[u]
    BY <1>4, <2>2, <2>4 DEF Sums
  <2> HIDE DEF F
  <2>6. F(u)[u] = F(t)[u]
    BY <2>3, <2>4, SumsAgree
  <2> QED
    BY <2>2, <2>5, <2>6
<1>5. F({})[{}] = 0 \/ s = {}
  <2> SUFFICES ASSUME s # {} PROVE F({})[{}] = 0
    OBVIOUS
  <2>1. Sums(F({}), {})
    BY <1>2
  <2> HIDE DEF F
  <2> QED
    BY <2>1 DEF Sums
<1> DEFINE rest == s \ {First(s)}
           g == [t \in SUBSET s |->
                   IF t = {} THEN 0
                   ELSE IF t = s THEN First(s).amount + F(rest)[rest]
                   ELSE F(t)[t]]
<1>6. Sums(g, s)
  <2> HIDE DEF F
  <2>1. ASSUME NEW t \in SUBSET s, t # {}
        PROVE  g[t] = First(t).amount + g[t \ {First(t)}]
    <3>1. First(t) \in t
      BY <2>1, FirstIn
    <3>2. PICK u : u = t \ {First(t)}
      OBVIOUS
    <3>3. u \in SUBSET s /\ u # s
      BY <3>1, <3>2
    <3>4. g[u] = F(u)[u]
      BY <1>5, <2>1, <3>3
    <3> QED
      BY <1>4, <2>1, <3>2, <3>4
  <2>2. g[{}] = 0
    OBVIOUS
  <2>3. g = [t \in SUBSET s |-> g[t]]
    OBVIOUS
  <2> HIDE DEF g
  <2> QED
    BY <2>1, <2>2, <2>3 DEF Sums
<1> QED
  BY <1>0, <1>1, <1>6

\* The sum of nothing, and of a set with one of its elements taken out.
LEMMA TotalFirst ==
    /\ Total({}) = 0
    /\ \A S : IsFiniteSet(S) /\ S # {} => Total(S) = First(S).amount + Total(S \ {First(S)})
<1> DEFINE F(t) == CHOOSE f : Sums(f, t)
<1>1. \A t : IsFiniteSet(t) => Sums(F(t), t)
  BY SumsExist
<1> HIDE DEF F
<1>2. \A t : Total(t) = F(t)[t]
  BY TotalIs DEF F
<1>3. Total({}) = 0
  <2>1. Sums(F({}), {})
    BY <1>1, FS_EmptySet
  <2> QED
    BY <1>2, <2>1 DEF Sums
<1>4. ASSUME NEW S, IsFiniteSet(S), S # {}
      PROVE  Total(S) = First(S).amount + Total(S \ {First(S)})
  <2>1. First(S) \in S
    BY <1>4, FirstIn
  <2>2. PICK u : u = S \ {First(S)}
    OBVIOUS
  <2>3. u \in SUBSET S /\ u \in SUBSET u /\ IsFiniteSet(u)
    BY <1>4, <2>2, FS_Subset
  <2>4. Sums(F(S), S) /\ Sums(F(u), u)
    BY <1>1, <1>4, <2>3
  <2>5. F(S)[S] = First(S).amount + F(S)[u]
    BY <1>4, <2>2, <2>4 DEF Sums
  <2>6. F(u)[u] = F(S)[u]
    BY <2>3, <2>4, SumsAgree
  <2> QED
    BY <1>2, <2>2, <2>5, <2>6
<1> QED
  BY <1>3, <1>4

\* What is summed.
Amounts(S) == \A p \in S : p.amount \in Nat

\* A sum of amounts is one.
LEMMA TotalNat ==
    ASSUME NEW S, IsFiniteSet(S), Amounts(S)
    PROVE  Total(S) \in Nat
<1> SUFFICES ASSUME Total(S) \notin Nat PROVE FALSE
  OBVIOUS
<1>0. PICK Bad : Bad = {s \in SUBSET S : Total(s) \notin Nat}
  OBVIOUS
<1>1. PICK s \in Bad : \A t \in Bad : t \subseteq s => t = s
  <2>1. Bad # {} /\ Bad \subseteq SUBSET S
    BY <1>0
  <2> QED
    BY <2>1, Least
<1>2. s # {} /\ IsFiniteSet(s)
  <2>1. s # {}
    <3>1. Total({}) = 0
      BY TotalFirst
    <3>2. Total(s) \notin Nat
      BY <1>0, <1>1
    <3> QED
      BY <3>1, <3>2
  <2> QED
    BY <1>0, <1>1, <2>1, FS_Subset
<1>3. First(s) \in s
  BY <1>2, FirstIn
<1>4. PICK t : t = s \ {First(s)}
  OBVIOUS
<1>5. Total(t) \in Nat
  BY <1>0, <1>1, <1>3, <1>4
<1>6. Total(s) = First(s).amount + Total(t)
  BY <1>2, <1>4, TotalFirst
<1>7. First(s).amount \in Nat
  BY <1>0, <1>1, <1>3 DEF Amounts
<1> QED
  BY <1>0, <1>1, <1>5, <1>6, <1>7

\* Any element may be taken out: a sum does not depend on the order.
LEMMA TotalWithout ==
    ASSUME NEW S, IsFiniteSet(S), Amounts(S), NEW p \in S
    PROVE  Total(S) = p.amount + Total(S \ {p})
<1> SUFFICES ASSUME Total(S) # p.amount + Total(S \ {p}) PROVE FALSE
  OBVIOUS
<1>0. PICK Bad : Bad = {s \in SUBSET S : \E q \in s : Total(s) # q.amount + Total(s \ {q})}
  OBVIOUS
<1>1. PICK s \in Bad : \A t \in Bad : t \subseteq s => t = s
  <2>1. Bad # {} /\ Bad \subseteq SUBSET S
    BY <1>0
  <2> QED
    BY <2>1, Least
<1>2. PICK q \in s : Total(s) # q.amount + Total(s \ {q})
  BY <1>0, <1>1
<1>3. PICK c : c = First(s)
  OBVIOUS
<1>4. c \in s /\ IsFiniteSet(s) /\ Total(s) = c.amount + Total(s \ {c})
  BY <1>0, <1>1, <1>2, <1>3, FirstIn, TotalFirst, FS_Subset
<1>5. c # q
  BY <1>2, <1>4
<1>6. PICK t : t = s \ {c}
  OBVIOUS
<1>7. PICK u : u = s \ {q}
  OBVIOUS
<1>8. PICK w : w = s \ {c, q}
  OBVIOUS
<1>9. w = t \ {q} /\ w = u \ {c} /\ q \in t /\ c \in u
  BY <1>4, <1>5, <1>6, <1>7, <1>8
<1>10. Total(t) = q.amount + Total(w) /\ Total(u) = c.amount + Total(w)
  <2>1. t \notin Bad /\ u \notin Bad /\ t \in SUBSET S /\ u \in SUBSET S
    BY <1>0, <1>1, <1>4, <1>6, <1>7
  <2> QED
    BY <1>0, <1>9, <2>1
<1>11. Total(w) \in Nat /\ c.amount \in Nat /\ q.amount \in Nat
  <2>1. IsFiniteSet(w) /\ Amounts(w)
    BY <1>0, <1>1, <1>8, FS_Subset DEF Amounts
  <2> QED
    BY <1>0, <1>1, <1>4, <2>1, TotalNat DEF Amounts
<1> QED
  BY <1>2, <1>4, <1>6, <1>7, <1>10, <1>11

-----------------------------------------------------------------------------
(* The posted total.                                                       *)

\* What is added to a sum.
LEMMA TotalWith ==
    ASSUME NEW S, IsFiniteSet(S), Amounts(S), NEW p, p \notin S, p.amount \in Nat
    PROVE  Total(S \cup {p}) = p.amount + Total(S)
<1>1. PICK T : T = S \cup {p}
  OBVIOUS
<1>2. IsFiniteSet(T) /\ Amounts(T) /\ p \in T /\ S = T \ {p}
  BY <1>1, FS_AddElement DEF Amounts
<1> QED
  BY <1>1, <1>2, TotalWithout

\* What stands is finite and in whole units.
LEMMA StandingFinite ==
    ASSUME Types, IsFiniteSet(payments), NEW d
    PROVE  IsFiniteSet(Standing(d)) /\ Amounts(Standing(d)) /\ Posted(d) \in Nat
<1>1. Standing(d) \in SUBSET payments
  BY DEF Standing
<1>2. IsFiniteSet(Standing(d)) /\ Amounts(Standing(d))
  BY <1>1, FS_Subset, LedgerTyped DEF Amounts
<1> QED
  BY <1>2, TotalNat DEF Posted

\* A payment adds its amount to what is posted,
LEMMA PaysPosted ==
    ASSUME Types, Types', NEW d \in Debts, Grows(d), LedgerInv, IsFiniteSet(payments),
           NEW seen, NEW basis, NEW amount, NEW marking \in BOOLEAN,
           Pays(d, seen, basis, amount, marking)
    PROVE  IsFiniteSet(payments') /\ Posted(d)' = Posted(d) + amount
<1>1. PICK new : new = [debt |-> d, amount |-> amount, revision |-> debt'[d].revision, at |-> today]
  OBVIOUS
<1>2. /\ payments' = payments \cup {new} /\ voids' = voids
      /\ amount \in Nat
  BY <1>1 DEF Pays, Post
<1>3. /\ new.debt = d /\ new.amount = amount /\ new.revision = debt'[d].revision
  BY <1>1
<1>4. /\ \A p \in payments : Typed(p)
      /\ \A v \in voids : Typed(v) /\ v.payment \in Nat
      /\ debt[d].revision \in Nat /\ debt'[d].revision \in Nat
      /\ debt'[d].revision > debt[d].revision
  BY LedgerTyped DEF Types, DebtRow, Grows
<1>5. new \notin payments
  BY <1>3, <1>4 DEF LedgerInv
<1>6. \A v \in voids : ~(v.debt = d /\ v.payment = new.revision)
  BY <1>3, <1>4 DEF LedgerInv, Typed
<1>7. Standing(d)' = Standing(d) \cup {new} /\ new \notin Standing(d)
  BY <1>2, <1>3, <1>5, <1>6 DEF Standing, Voided
<1>8. Total(Standing(d) \cup {new}) = amount + Total(Standing(d))
  BY <1>2, <1>3, <1>7, StandingFinite, TotalWith
<1>9. Posted(d)' = amount + Posted(d)
  BY <1>7, <1>8 DEF Posted
<1> QED
  BY <1>2, <1>9, FS_AddElement, StandingFinite

\* a void takes it away,
LEMMA UndoesPosted ==
    ASSUME Types, NEW d \in Debts, LedgerInv, IsFiniteSet(payments), NEW p \in payments,
           Undoes(d, p)
    PROVE  /\ Posted(d) = p.amount + Posted(d)' /\ p.amount \in Nat \ {0} /\ Posted(d)' \in Nat
           /\ p.debt = d
<1>1. PICK new : new = [debt |-> d, payment |-> p.revision, revision |-> debt[d].revision + 1,
                        at |-> today]
  OBVIOUS
<1>2. payments' = payments /\ voids' = voids \cup {new}
  BY <1>1 DEF Undoes
<1>3. new.debt = d /\ new.payment = p.revision
  BY <1>1
<1>4. p \in Standing(d) /\ p.debt = d /\ p.amount \in Nat \ {0}
  BY DEF Undoes, IsLatest, Standing, Types, Payment
<1>5. \A q \in payments : q.debt = d /\ q.revision = p.revision => q = p
  BY <1>4 DEF LedgerInv
<1>6. Standing(d)' = Standing(d) \ {p}
  BY <1>2, <1>3, <1>4, <1>5 DEF Standing, Voided
<1>7. PICK rest : rest = Standing(d) \ {p}
  OBVIOUS
<1>8. IsFiniteSet(rest) /\ Amounts(rest)
  BY <1>7, StandingFinite, FS_Subset DEF Amounts
<1>9. Total(Standing(d)) = p.amount + Total(rest)
  BY <1>4, <1>7, StandingFinite, TotalWithout
<1>10. Total(rest) \in Nat
  BY <1>8, TotalNat
<1>11. Posted(d)' = Total(rest)
  BY <1>6, <1>7 DEF Posted
<1> QED
  BY <1>4, <1>9, <1>10, <1>11 DEF Posted

\* what happens to another debt leaves it alone,
LEMMA OthersPosted ==
    ASSUME NEW d \in Debts, Grows(d), NEW c \in Debts, c # d
    PROVE  Posted(c)' = Posted(c)
<1>1. Standing(c)' = Standing(c)
  BY DEF Grows, Standing, Voided
<1> QED
  BY <1>1 DEF Posted

\* and so does a step that neither pays nor voids.
LEMMA QuietPosted ==
    ASSUME UNCHANGED <<payments, voids>>, NEW c
    PROVE  Posted(c)' = Posted(c)
<1>1. Standing(c)' = Standing(c)
  BY DEF Standing, Voided
<1> QED
  BY <1>1 DEF Posted

\* What was posted at a revision is what was posted then.
LEMMA ThroughKept ==
    ASSUME Types, Types', NEW d \in Debts, Grows(d), NEW c \in Debts, NEW revision \in Nat,
           revision <= debt[c].revision
    PROVE  PostedThrough(c, revision)' = PostedThrough(c, revision)
<1>1. /\ \A q \in payments' : q.debt \in Debts /\ q.revision \in Nat
      /\ \A v \in voids' : v.debt \in Debts /\ v.revision \in Nat
      /\ debt[c].revision \in Nat
  BY DEF Types, Payment, Void, DebtRow
<1>2. /\ payments \subseteq payments' /\ voids \subseteq voids'
      /\ \A q \in payments' : q \in payments \/ (q.debt = d /\ q.revision > debt[d].revision)
      /\ \A v \in voids' : v \in voids \/ (v.debt = d /\ v.revision > debt[d].revision)
  BY DEF Grows
<1> DEFINE Now == {q \in payments :
                     /\ q.debt = c
                     /\ q.revision <= revision
                     /\ ~\E v \in voids : v.debt = c /\ v.payment = q.revision /\ v.revision <= revision}
           Then == {q \in payments' :
                     /\ q.debt = c
                     /\ q.revision <= revision
                     /\ ~\E v \in voids' : v.debt = c /\ v.payment = q.revision /\ v.revision <= revision}
<1>3. Then = Now
  <2>1. \A q \in payments' : q.debt = c /\ q.revision <= revision => q \in payments
    BY <1>1, <1>2
  <2>2. \A v \in voids' : v.debt = c /\ v.revision <= revision => v \in voids
    BY <1>1, <1>2
  <2> QED
    BY <1>2, <2>1, <2>2
<1> QED
  BY <1>3 DEF PostedThrough

\* What is posted is what was posted up to the revision of the debt.
LEMMA ThroughNow ==
    ASSUME Inv, NEW d \in Debts
    PROVE  PostedThrough(d, debt[d].revision) = Posted(d)
BY StackFollows DEF HistoryIsAStack

-----------------------------------------------------------------------------
(* The money and the calendar, part by part.                               *)

\* Nothing is stamped with a day that has not come, and the day of a terminal
\* status is there as long as the status is.
RowDays(d) ==
    /\ debt[d].updatedAt \in 0..today
    /\ debt[d].paidAt \in (0..today) \cup {Unset}
    /\ debt[d].overdueAt \in (0..today) \cup {Unset}
    /\ debt[d].writtenOffAt \in (0..today) \cup {Unset}
    /\ debt[d].settledAt \in (0..today) \cup {Unset}
    /\ debt[d].paidAt # Unset <=> debt[d].status = "paid"
    /\ debt[d].settledAt # Unset <=> debt[d].status = "written_off_settled"

\* No event is of a day that has not come.
EventDays(d) == \A i \in DOMAIN events[d] : events[d][i].at <= today

\* The calendar of the ledger.
DaysInv ==
    /\ today \in 0..MaxDay
    /\ candidates \subseteq Debts \X (0..today)
    /\ \A v \in voids : v.at <= today
    /\ \A d \in Debts : RowDays(d) /\ EventDays(d)

\* What a debt is owed on when it has a revision.
OwedAt(d, revision) ==
    IF debt[d].overdueRevision = Unset \/ revision < debt[d].overdueRevision
    THEN DiscountedAmount[d] ELSE OriginalAmount[d]

\* The posted total agrees with the status.
MoneyOf(d) ==
    /\ debt[d].status = "active" => Posted(d) < DiscountedAmount[d]
    /\ debt[d].status \in {"overdue", "written_off"} => Posted(d) < OriginalAmount[d]
    /\ debt[d].status \in {"paid", "written_off_settled"} =>
         Posted(d) = OwedAt(d, debt[d].revision)

\* The totals of all debts.
MoneyInv == \A d \in Debts : MoneyOf(d)

\* No payment went beyond what was owed then, and what closed a debt paid it all.
Closing == {"debt.paid", "debt.written_off_settled"}

HistoryInv ==
    /\ \A p \in payments : PostedThrough(p.debt, p.revision) <= OwedAt(p.debt, p.revision)
    /\ \A a \in audits : a.type \in Closing =>
         PostedThrough(a.debt, a.revision) = OwedAt(a.debt, a.revision)

\* Payments can be counted.
Finite == IsFiniteSet(payments)

\* The second half of the inductive invariant: the books.
Books == Finite /\ DaysInv /\ MoneyInv /\ HistoryInv

\* Amounts are positive, and the discount is one.
LEMMA AmountsOrdered ==
    ASSUME NEW d \in Debts
    PROVE  /\ OriginalAmount[d] \in Nat /\ DiscountedAmount[d] \in Nat
           /\ 0 < DiscountedAmount[d] /\ DiscountedAmount[d] <= OriginalAmount[d]
           /\ DueDate[d] \in Nat /\ MaxDay \in Nat /\ MaxRevision[d] \in Nat
BY DebtsAssumption, BoundAssumption

\* What a debt was owed on does not change any more.
LEMMA OwedKept ==
    ASSUME Types, Types', \A c \in Debts : RowInv(c), NEW d \in Debts, Grows(d),
           NEW c \in Debts, NEW revision \in Nat, revision <= debt[c].revision
    PROVE  OwedAt(c, revision)' = OwedAt(c, revision)
<1>1. /\ debt[c].revision \in Nat /\ debt'[c].overdueRevision \in Int
      /\ debt[c].overdueRevision \in Int
  BY DEF Types, DebtRow
<1>2. \/ debt'[c].overdueRevision = debt[c].overdueRevision
      \/ debt[c].overdueRevision = Unset /\ debt'[c].overdueRevision > debt[c].revision
  BY DEF Grows
<1> QED
  BY <1>1, <1>2 DEF OwedAt, Unset

\* The other debts have what they had.
LEMMA OthersMoney ==
    ASSUME NEW d \in Debts, Grows(d), MoneyInv, MoneyOf(d)'
    PROVE  MoneyInv'
<1>1. ASSUME NEW c \in Debts, c # d
      PROVE  MoneyOf(c)'
  <2>1. debt'[c] = debt[c] /\ Posted(c)' = Posted(c)
    BY <1>1, OthersPosted DEF Grows
  <2>2. MoneyOf(c)
    BY DEF MoneyInv
  <2> QED
    BY <2>1, <2>2 DEF MoneyOf, OwedAt
<1> QED
  BY <1>1 DEF MoneyInv

\* No total goes beyond what is owed.
Bounded == \A d \in Debts : Posted(d) \in Nat /\ Posted(d) <= OwedAt(d, debt[d].revision)

\* What the books say keeps every total there.
LEMMA MoneyBounded == Inv /\ Finite /\ MoneyInv => Bounded
<1> SUFFICES ASSUME Inv, IsFiniteSet(payments), MoneyInv, NEW d \in Debts
             PROVE  Posted(d) \in Nat /\ Posted(d) <= OwedAt(d, debt[d].revision)
  BY DEF Bounded, Finite
<1>1. Posted(d) \in Nat
  BY StandingFinite DEF Inv
<1>2. debt[d] \in DebtRow /\ RowInv(d) /\ MoneyOf(d)
  BY DEF Inv, Types, MoneyInv
<1>3. /\ OriginalAmount[d] \in Nat /\ DiscountedAmount[d] \in Nat
      /\ DiscountedAmount[d] <= OriginalAmount[d]
  BY AmountsOrdered
<1> QED
  BY <1>1, <1>2, <1>3 DEF RowInv, DebtRow, Statuses, MoneyOf, OwedAt, Unset

\* What a step adds to the history is of the revision the debt has after it.
LEMMA HistoryKept ==
    ASSUME Inv, Inv', NEW d \in Debts, Grows(d), Finite', MoneyInv', HistoryInv,
           \A p \in payments' : p \in payments \/ p.revision = debt'[d].revision,
           \A a \in audits' : a.type \in Closing =>
             \/ a \in audits
             \/ /\ a.debt = d /\ a.revision = debt'[d].revision
                /\ debt'[d].status \in {"paid", "written_off_settled"}
    PROVE  HistoryInv'
<1>1. /\ Types /\ Types' /\ (\A c \in Debts : RowInv(c)) /\ LedgerInv /\ AuditsFresh
  BY DEF Inv, AuditInv
<1>2. \A c \in Debts : \A revision \in Nat : revision <= debt[c].revision =>
        /\ PostedThrough(c, revision)' = PostedThrough(c, revision)
        /\ OwedAt(c, revision)' = OwedAt(c, revision)
  BY <1>1, ThroughKept, OwedKept
<1>3. PICK now : now = debt'[d].revision
  OBVIOUS
<1>4. PostedThrough(d, now)' = Posted(d)' /\ Posted(d)' <= OwedAt(d, now)'
  <2>1. HistoryIsAStack'
    BY StackFollows, PTL
  <2>2. Bounded'
    BY MoneyBounded, PTL
  <2> QED
    BY <1>3, <2>1, <2>2 DEF HistoryIsAStack, Bounded
<1>5. ASSUME NEW p \in payments'
      PROVE  PostedThrough(p.debt, p.revision)' <= OwedAt(p.debt, p.revision)'
  <2>1. CASE p \in payments
    <3>1. p.debt \in Debts /\ p.revision \in Nat /\ p.revision <= debt[p.debt].revision
      BY <1>1, <2>1, LedgerTyped DEF LedgerInv, Typed
    <3> QED
      BY <1>2, <2>1, <3>1 DEF HistoryInv
  <2>2. CASE p \notin payments
    <3>1. p.debt = d /\ p.revision = now
      BY <1>3, <2>2 DEF Grows
    <3> QED
      BY <1>4, <3>1
  <2> QED
    BY <2>1, <2>2
<1>6. ASSUME NEW a \in audits', a.type \in Closing
      PROVE  PostedThrough(a.debt, a.revision)' = OwedAt(a.debt, a.revision)'
  <2>1. CASE a \in audits
    <3>1. a.debt \in Debts /\ a.revision \in Nat /\ a.revision <= debt[a.debt].revision
      BY <1>1, <2>1 DEF AuditsFresh, Types, AuditRow
    <3> QED
      BY <1>2, <1>6, <2>1, <3>1 DEF HistoryInv
  <2>2. CASE a \notin audits
    <3>1. /\ a.debt = d /\ a.revision = now
          /\ debt'[d].status \in {"paid", "written_off_settled"}
      BY <1>3, <1>6, <2>2
    <3>2. Posted(d)' = OwedAt(d, now)'
      BY <1>3, <3>1 DEF MoneyInv, MoneyOf
    <3> QED
      BY <1>4, <3>1, <3>2
  <2> QED
    BY <2>1, <2>2
<1> QED
  BY <1>5, <1>6 DEF HistoryInv

\* The days of a step, when those of its own row and of its events are not later
\* than today.
LEMMA DaysKept ==
    ASSUME Types, Types', NEW d \in Debts, Others(d), today' = today, DaysInv,
           RowDays(d)', candidates' \subseteq candidates, \A v \in voids' : v.at <= today,
           \A type \in EventTypes :
             Same(type) \/ \E source : \E day : day <= today /\ Gains(d, type, source, day)
    PROVE  DaysInv'
<1>1. \A c \in Debts : RowDays(c)'
  BY DEF DaysInv, RowDays, Others
<1>2. ASSUME NEW c \in Debts, NEW i \in DOMAIN events'[c]
      PROVE  events'[c][i].at <= today
  <2>1. PICK type \in EventTypes : i \in Has(c, type)'
    BY <1>2, EventsTypedNext
  <2>2. ASSUME i \in Has(c, type), events'[c][i] = events[c][i]
        PROVE  events'[c][i].at <= today
    <3>1. i \in DOMAIN events[c]
      BY <2>2 DEF Has
    <3> QED
      BY <2>2, <3>1 DEF DaysInv, EventDays
  <2>3. CASE Same(type)
    BY <2>1, <2>2, <2>3 DEF Same
  <2>4. CASE \E source : \E day : day <= today /\ Gains(d, type, source, day)
    <3>1. PICK day : \E source : day <= today /\ Gains(d, type, source, day)
      BY <2>4
    <3> QED
      BY <2>1, <2>2, <3>1 DEF Gains
  <2> QED
    BY <2>1, <2>3, <2>4
<1>3. \A c \in Debts : EventDays(c)'
  BY <1>2 DEF EventDays
<1> QED
  BY <1>1, <1>3 DEF DaysInv

\* What a payment may be: no more than what is left, on the basis of its row.
LEMMA PayableBalance ==
    ASSUME Types, IsFiniteSet(payments), NEW d \in Debts, NEW amount, WithinBalance(d, amount)
    PROVE  /\ amount \in Nat /\ Posted(d) \in Nat
           /\ Remaining(d) = (IF debt[d].status = "active" /\ Payable(d)
                              THEN DiscountedAmount[d] ELSE OriginalAmount[d]) - Posted(d)
           /\ amount <= Remaining(d) /\ Remaining(d) \in Int /\ amount > 0
<1>1. Posted(d) \in Nat
  BY StandingFinite
<1>2. /\ Remaining(d) = (IF debt[d].status = "active" /\ Payable(d)
                         THEN DiscountedAmount[d] ELSE OriginalAmount[d]) - Posted(d)
      /\ Remaining(d) \in Int
  BY <1>1, AmountsOrdered DEF Remaining, BasisNow
<1> QED
  BY <1>1, <1>2 DEF WithinBalance

\* A payment goes into the books,
LEMMA PaysBooks ==
    ASSUME Inv, Inv', Books, NEW d \in Debts, Others(d),
           NEW seen, NEW basis, NEW amount, NEW marking \in BOOLEAN,
           Pays(d, seen, basis, amount, marking), candidates' = candidates,
           MoneyOf(d)', RowDays(d)'
    PROVE  Books'
<1>1. /\ Types /\ Types' /\ LedgerInv /\ (\A c \in Debts : RowInv(c)) /\ Finite
      /\ DaysInv /\ MoneyInv /\ HistoryInv
  BY DEF Inv, Books
<1>2. Grows(d)
  BY <1>1, PaysGrows
<1>3. Finite'
  BY <1>1, <1>2, PaysPosted DEF Finite
<1>4. MoneyInv'
  BY <1>1, <1>2, OthersMoney
<1>5. /\ payments' = payments \cup {[debt |-> d, amount |-> amount, revision |-> debt'[d].revision,
                                     at |-> today]}
      /\ voids' = voids /\ today' = today
      /\ audits' = audits \cup PaymentRows(d, marking)
  BY DEF Pays, Post
<1>6. \A a \in audits' : a.type \in Closing =>
        \/ a \in audits
        \/ /\ a.debt = d /\ a.revision = debt'[d].revision
           /\ debt'[d].status \in {"paid", "written_off_settled"}
  BY <1>5 DEF PaymentRows, OverduePair, UserAudit, Audit, Closing
<1>7. HistoryInv'
  BY <1>1, <1>2, <1>3, <1>4, <1>5, <1>6, HistoryKept
<1>8. \A type \in EventTypes :
        Same(type) \/ \E source : \E day : day <= today /\ Gains(d, type, source, day)
  BY <1>1 DEF Pays, PaymentEvents, EventTypes, Types
<1>9. DaysInv'
  BY <1>1, <1>5, <1>8, DaysKept DEF DaysInv
<1> QED
  BY <1>3, <1>4, <1>7, <1>9 DEF Books

\* a payment on time with its full amount or a part of it,
LEMMA OnTimeBooks ==
    ASSUME Inv, Inv', Books, NEW d \in Debts, NEW seen \in Nat, NEW basis \in Bases,
           NEW amount \in 1..OriginalAmount[d], RecordPayment(d, seen, basis, amount)
    PROVE  Books'
<1>1. /\ Types /\ Types' /\ LedgerInv /\ RowInv(d) /\ RowInv(d)' /\ IsFiniteSet(payments)
      /\ RowDays(d) /\ MoneyOf(d) /\ today \in Nat
  BY DEF Inv, Books, Finite, DaysInv, MoneyInv, Types
<1>2. Others(d) /\ Pays(d, seen, basis, amount, FALSE)
  BY <1>1, OnTimePays
<1>3. Grows(d)
  BY <1>1, <1>2, PaysGrows
<1>4. Posted(d)' = Posted(d) + amount
  BY <1>1, <1>2, <1>3, PaysPosted
<1>5. /\ debt[d].status \in {"active", "overdue"} /\ ~PastDueActive(d, today)
      /\ WithinBalance(d, amount)
  BY DEF RecordPayment
<1>6. debt[d].status = "active" => Payable(d)
  BY <1>1, <1>5, AmountsOrdered DEF PastDueActive, Payable
<1>7. debt[d] \in DebtRow /\ debt'[d] \in DebtRow
  BY <1>1 DEF Types
<1>8. MoneyOf(d)'
  BY <1>1, <1>4, <1>5, <1>6, <1>7, OnTimeRow, PayableBalance, AmountsOrdered
     DEF MoneyOf, OwedAt, RowInv, DebtRow, Unset
<1>9. RowDays(d)' /\ candidates' = candidates
  BY <1>1, <1>5, <1>7, OnTimeRow DEF RowDays, DebtRow, Unset
<1> QED
  BY <1>2, <1>8, <1>9, PaysBooks

\* a late one,
LEMMA LateBooks ==
    ASSUME Inv, Inv', Books, NEW d \in Debts, NEW seen \in Nat, NEW basis \in Bases,
           NEW amount \in 1..OriginalAmount[d], RecordLatePayment(d, seen, basis, amount)
    PROVE  Books'
<1>1. /\ Types /\ Types' /\ LedgerInv /\ RowInv(d) /\ RowInv(d)' /\ IsFiniteSet(payments)
      /\ RowDays(d) /\ MoneyOf(d) /\ today \in Nat
  BY DEF Inv, Books, Finite, DaysInv, MoneyInv, Types
<1>2. Others(d) /\ Pays(d, seen, basis, amount, TRUE)
  BY <1>1, LatePays
<1>3. Grows(d)
  BY <1>1, <1>2, PaysGrows
<1>4. Posted(d)' = Posted(d) + amount
  BY <1>1, <1>2, <1>3, PaysPosted
<1>5. debt[d].status = "active" /\ today > DueDate[d] /\ WithinBalance(d, amount)
  BY DEF RecordLatePayment, PastDueActive
<1>6. ~Payable(d)
  BY <1>1, <1>5, AmountsOrdered DEF Payable
<1>7. debt[d] \in DebtRow /\ debt'[d] \in DebtRow
  BY <1>1 DEF Types
<1>8. MoneyOf(d)'
  BY <1>1, <1>4, <1>5, <1>6, <1>7, LateRow, PayableBalance, AmountsOrdered
     DEF MoneyOf, OwedAt, RowInv, DebtRow, Unset
<1>9. RowDays(d)' /\ candidates' = candidates
  BY <1>1, <1>5, <1>7, LateRow DEF RowDays, DebtRow, Unset
<1> QED
  BY <1>2, <1>8, <1>9, PaysBooks

\* and a recovery.
LEMMA RecoveryBooks ==
    ASSUME Inv, Inv', Books, NEW d \in Debts, NEW seen \in Nat, NEW basis \in Bases,
           NEW amount \in 1..OriginalAmount[d], RecordRecovery(d, seen, basis, amount)
    PROVE  Books'
<1>1. /\ Types /\ Types' /\ LedgerInv /\ RowInv(d) /\ RowInv(d)' /\ IsFiniteSet(payments)
      /\ RowDays(d) /\ MoneyOf(d) /\ today \in Nat
  BY DEF Inv, Books, Finite, DaysInv, MoneyInv, Types
<1>2. Others(d) /\ Pays(d, seen, basis, amount, FALSE)
  BY <1>1, RecoveryPays
<1>3. Grows(d)
  BY <1>1, <1>2, PaysGrows
<1>4. Posted(d)' = Posted(d) + amount
  BY <1>1, <1>2, <1>3, PaysPosted
<1>5. debt[d].status = "written_off" /\ WithinBalance(d, amount)
  BY DEF RecordRecovery
<1>6. debt[d] \in DebtRow /\ debt'[d] \in DebtRow
  BY <1>1 DEF Types
<1>7. MoneyOf(d)'
  BY <1>1, <1>4, <1>5, <1>6, RecoveryRow, PayableBalance, AmountsOrdered
     DEF MoneyOf, OwedAt, RowInv, DebtRow, Unset
<1>8. RowDays(d)' /\ candidates' = candidates
  BY <1>1, <1>5, <1>6, RecoveryRow DEF RowDays, DebtRow, Unset
<1> QED
  BY <1>2, <1>7, <1>8, PaysBooks

\* A void leaves less than was owed.
LEMMA VoidBooks ==
    ASSUME Inv, Inv', Books, NEW d \in Debts, NEW p \in payments, NEW seen \in Nat,
           VoidPayment(d, p, seen)
    PROVE  Books'
<1>1. /\ Types /\ Types' /\ LedgerInv /\ (\A c \in Debts : RowInv(c)) /\ RowInv(d)'
      /\ IsFiniteSet(payments) /\ RowDays(d) /\ MoneyOf(d) /\ today \in Nat
      /\ DaysInv /\ MoneyInv /\ HistoryInv
  BY DEF Inv, Books, Finite, DaysInv, MoneyInv, Types
<1>2. Others(d) /\ Undoes(d, p)
  BY <1>1, VoidUndoes
<1>3. Grows(d)
  BY <1>1, <1>2, UndoesGrows
<1>4. Posted(d) = p.amount + Posted(d)' /\ p.amount \in Nat \ {0} /\ Posted(d)' \in Nat
  BY <1>1, <1>2, UndoesPosted
<1>5. debt[d] \in DebtRow /\ debt'[d] \in DebtRow
  BY <1>1 DEF Types
<1>6. /\ voids' = voids \cup {[debt |-> d, payment |-> p.revision, revision |-> debt[d].revision + 1,
                               at |-> today]}
      /\ payments' = payments /\ today' = today /\ candidates' = candidates
      /\ audits' = audits \cup VoidRows(d)
  BY <1>2 DEF Undoes, VoidPayment
<1>7. MoneyOf(d)'
  BY <1>1, <1>4, <1>5, VoidedRow, AmountsOrdered
     DEF MoneyOf, OwedAt, RowInv, DebtRow, Unset, ReopenedStatus, Statuses
<1>8. RowDays(d)'
  <2>1. debt'[d].status \notin {"paid", "written_off_settled"}
    BY <1>1, <1>5, VoidedRow DEF ReopenedStatus, DebtRow, Statuses
  <2> QED
    BY <1>1, <1>5, <2>1, VoidedRow DEF RowDays, DebtRow, Unset
<1>9. Finite'
  BY <1>1, <1>6 DEF Finite
<1>10. MoneyInv'
  BY <1>1, <1>3, <1>7, OthersMoney
<1>11. \A a \in audits' : a.type \in Closing => a \in audits
  BY <1>6 DEF VoidRows, VoidAudits, OverduePair, UserAudit, Audit, Closing
<1>12. HistoryInv'
  BY <1>1, <1>3, <1>6, <1>9, <1>10, <1>11, HistoryKept
<1>13. \A type \in EventTypes :
         Same(type) \/ \E source : \E day : day <= today /\ Gains(d, type, source, day)
  BY <1>1, <1>2 DEF Undoes, VoidEvents, EventTypes
<1>14. DaysInv'
  BY <1>1, <1>2, <1>6, <1>8, <1>13, DaysKept DEF DaysInv
<1> QED
  BY <1>9, <1>10, <1>12, <1>14 DEF Books

\* The batch marks with a day that has come.
LEMMA MarkBooks ==
    ASSUME Inv, Inv', Books, NEW d \in Debts, NEW day, MaterializeOverdue(d, day)
    PROVE  Books'
<1>1. /\ Types /\ Types' /\ LedgerInv /\ (\A c \in Debts : RowInv(c)) /\ RowInv(d)'
      /\ IsFiniteSet(payments) /\ RowDays(d) /\ MoneyOf(d) /\ today \in Nat
      /\ DaysInv /\ MoneyInv /\ HistoryInv
  BY DEF Inv, Books, Finite, DaysInv, MoneyInv, Types
<1>2. Others(d) /\ Marks(d, day)
  BY <1>1, BatchMarks
<1>3. Grows(d)
  BY <1>1, <1>2, MarksGrows
<1>4. /\ payments' = payments /\ voids' = voids /\ today' = today
      /\ candidates' \subseteq candidates
      /\ audits' = audits \cup OverduePair(d, debt[d].revision + 1, day, "active")
  BY DEF MaterializeOverdue
<1>5. Posted(d)' = Posted(d) /\ Posted(d) \in Nat
  BY <1>1, <1>4, QuietPosted, StandingFinite
<1>6. debt[d] \in DebtRow /\ debt'[d] \in DebtRow
  BY <1>1 DEF Types
<1>7. day \in 0..today /\ debt[d].status = "active"
  <2>1. <<d, day>> \in candidates
    BY DEF MaterializeOverdue
  <2> QED
    BY <1>1, <2>1 DEF DaysInv, MaterializeOverdue, PastDueActive
<1>8. MoneyOf(d)'
  BY <1>1, <1>5, <1>7, MarkedRow, AmountsOrdered DEF MoneyOf
<1>9. RowDays(d)'
  BY <1>1, <1>4, <1>6, <1>7, MarkedRow DEF RowDays, DebtRow, Unset
<1>10. Finite'
  BY <1>1, <1>4 DEF Finite
<1>11. MoneyInv'
  BY <1>1, <1>3, <1>8, OthersMoney
<1>12. \A a \in audits' : a.type \in Closing => a \in audits
  BY <1>4 DEF OverduePair, Audit, Closing
<1>13. HistoryInv'
  BY <1>1, <1>3, <1>4, <1>10, <1>11, <1>12, HistoryKept
<1>14. \A type \in EventTypes :
         Same(type) \/ \E source : \E at : at <= today /\ Gains(d, type, source, at)
  BY <1>2, <1>7 DEF Marks, EventTypes
<1>15. DaysInv'
  BY <1>1, <1>2, <1>4, <1>9, <1>14, DaysKept DEF DaysInv
<1> QED
  BY <1>10, <1>11, <1>13, <1>15 DEF Books

\* A write-off changes no total.
LEMMA WriteOffBooks ==
    ASSUME Inv, Inv', Books, NEW d \in Debts, NEW seen \in Nat, WriteOff(d, seen)
    PROVE  Books'
<1>1. /\ Types /\ Types' /\ LedgerInv /\ (\A c \in Debts : RowInv(c)) /\ RowInv(d)'
      /\ IsFiniteSet(payments) /\ RowDays(d) /\ MoneyOf(d) /\ today \in Nat
      /\ DaysInv /\ MoneyInv /\ HistoryInv
  BY DEF Inv, Books, Finite, DaysInv, MoneyInv, Types
<1>2. Others(d) /\ GivesUp(d)
  BY <1>1, WriteOffGivesUp
<1>3. Grows(d)
  BY <1>1, <1>2, GivesUpGrows
<1>4. /\ payments' = payments /\ voids' = voids /\ today' = today
      /\ candidates' = candidates /\ debt[d].status = "overdue"
      /\ audits' = audits \cup
           {UserAudit("debt.written_off", d, debt[d].revision + 1, "overdue", "written_off")}
  BY DEF WriteOff
<1>5. Posted(d)' = Posted(d)
  BY <1>4, QuietPosted
<1>6. debt[d] \in DebtRow /\ debt'[d] \in DebtRow
  BY <1>1 DEF Types
<1>7. MoneyOf(d)'
  BY <1>1, <1>4, <1>5, WrittenOffRow DEF MoneyOf
<1>8. RowDays(d)'
  BY <1>1, <1>4, <1>6, WrittenOffRow DEF RowDays, DebtRow, Unset
<1>9. Finite'
  BY <1>1, <1>4 DEF Finite
<1>10. MoneyInv'
  BY <1>1, <1>3, <1>7, OthersMoney
<1>11. \A a \in audits' : a.type \in Closing => a \in audits
  BY <1>4 DEF UserAudit, Audit, Closing
<1>12. HistoryInv'
  BY <1>1, <1>3, <1>4, <1>9, <1>10, <1>11, HistoryKept
<1>13. \A type \in EventTypes :
         Same(type) \/ \E source : \E at : at <= today /\ Gains(d, type, source, at)
  BY <1>1, <1>2 DEF GivesUp, EventTypes
<1>14. DaysInv'
  BY <1>1, <1>2, <1>4, <1>8, <1>13, DaysKept DEF DaysInv
<1> QED
  BY <1>9, <1>10, <1>12, <1>14 DEF Books

\* The calendar only moves on, and a batch only reads.
LEMMA StillBooks ==
    ASSUME Inv, Books, UNCHANGED <<debt, payments, voids, events, audits>>,
           today' \in 0..MaxDay, today' >= today, candidates' \subseteq Debts \X (0..today')
    PROVE  Books'
<1>1. /\ debt' = debt /\ payments' = payments /\ voids' = voids /\ events' = events
      /\ audits' = audits /\ today \in Nat /\ today' \in Nat /\ Types
      /\ Finite /\ DaysInv /\ MoneyInv /\ HistoryInv
  BY DEF Inv, Types, Books
<1>2. Finite'
  BY <1>1 DEF Finite
<1>3. \A d \in Debts : Posted(d)' = Posted(d)
  BY <1>1, QuietPosted
<1>4. MoneyInv'
  BY <1>1, <1>3 DEF MoneyInv, MoneyOf, OwedAt
<1>5. HistoryInv'
  BY <1>1 DEF HistoryInv, PostedThrough, OwedAt
<1>6. \A d \in Debts : RowDays(d)'
  BY <1>1 DEF DaysInv, RowDays, Unset
<1>7. \A d \in Debts : EventDays(d)'
  <2>1. \A d \in Debts : \A i \in DOMAIN events[d] : events[d][i].at \in Nat
    BY <1>1, EventsTyped DEF RatingEvent
  <2> QED
    BY <1>1, <2>1 DEF DaysInv, EventDays
<1>8. \A v \in voids' : v.at <= today'
  <2>1. \A v \in voids : v.at \in Nat
    BY <1>1 DEF Types, Void
  <2> QED
    BY <1>1, <2>1 DEF DaysInv
<1>9. DaysInv'
  BY <1>6, <1>7, <1>8 DEF DaysInv
<1> QED
  BY <1>2, <1>4, <1>5, <1>9 DEF Books

\* The books of a customer nobody has paid for yet.
LEMMA InitBooks == Init => Books
<1> SUFFICES ASSUME Init PROVE Books
  OBVIOUS
<1>1. /\ today = 0 /\ payments = {} /\ voids = {} /\ audits = {} /\ candidates = {}
      /\ events = [d \in Debts |-> <<>>] /\ MaxDay \in Nat
  BY BoundAssumption DEF Init, AcceptedDay
<1>2. \A d \in Debts : /\ debt[d].status = "active" /\ debt[d].updatedAt = 0
                       /\ debt[d].paidAt = -1 /\ debt[d].overdueAt = -1
                       /\ debt[d].writtenOffAt = -1 /\ debt[d].settledAt = -1
  BY DEF Init, AcceptedDay, Unset
<1>3. Finite
  BY <1>1, FS_EmptySet DEF Finite
<1>4. \A d \in Debts : Posted(d) = 0
  <2>1. \A d \in Debts : Standing(d) = {}
    BY <1>1 DEF Standing
  <2> QED
    BY <2>1, TotalFirst DEF Posted
<1>5. MoneyInv
  BY <1>2, <1>4, AmountsOrdered DEF MoneyInv, MoneyOf
<1>6. HistoryInv
  BY <1>1 DEF HistoryInv
<1>7. DaysInv
  BY <1>1, <1>2 DEF DaysInv, RowDays, EventDays, Unset
<1> QED
  BY <1>3, <1>5, <1>6, <1>7 DEF Books

\* Whatever is done, the books stay in order.
LEMMA NextBooks == Inv /\ Inv' /\ Books /\ [Next]_vars => Books'
<1> SUFFICES ASSUME Inv, Inv', Books, [Next]_vars PROVE Books'
  OBVIOUS
<1>1. /\ MaxDay \in Nat /\ MaxRevision \in [Debts -> Nat]
      /\ today \in 0..MaxDay /\ candidates \subseteq Debts \X (0..today)
  BY BoundAssumption DEF Books, DaysInv
<1>2. \A d \in Debts : 2..(MaxRevision[d] - 1) \subseteq Nat /\ 2..(MaxRevision[d] + 1) \subseteq Nat
  BY <1>1
<1>3. ASSUME NEW d \in Debts, NEW seen \in 2..(MaxRevision[d] - 1), NEW basis \in Bases,
             NEW amount \in 1..OriginalAmount[d],
             \/ RecordPayment(d, seen, basis, amount)
             \/ RecordLatePayment(d, seen, basis, amount)
             \/ RecordRecovery(d, seen, basis, amount)
      PROVE  Books'
  BY <1>2, <1>3, OnTimeBooks, LateBooks, RecoveryBooks
<1>4. ASSUME NEW d \in Debts, NEW seen \in 2..(MaxRevision[d] - 1), NEW p \in payments,
             VoidPayment(d, p, seen)
      PROVE  Books'
  BY <1>2, <1>4, VoidBooks
<1>5. ASSUME NEW d \in Debts, NEW seen \in 2..(MaxRevision[d] + 1), WriteOff(d, seen)
      PROVE  Books'
  BY <1>2, <1>5, WriteOffBooks
<1>6. ASSUME NEW d \in Debts, NEW day \in 0..MaxDay, MaterializeOverdue(d, day)
      PROVE  Books'
  BY <1>6, MarkBooks
<1>7. ASSUME NEW d \in Debts, DiscoverOverdue(d)
      PROVE  Books'
  <2>1. candidates' = candidates \cup {<<d, today>>}
        /\ UNCHANGED <<today, debt, payments, voids, events, audits, keys>>
    BY <1>7 DEF DiscoverOverdue
  <2> QED
    BY <1>1, <2>1, StillBooks
<1>8. ASSUME NEW d \in Debts, NEW day \in 0..MaxDay, SkipCandidate(d, day)
      PROVE  Books'
  <2>1. candidates' \subseteq candidates
        /\ UNCHANGED <<today, debt, payments, voids, events, audits, keys>>
    BY <1>8 DEF SkipCandidate
  <2> QED
    BY <1>1, <2>1, StillBooks
<1>9. CASE Tick
  <2>1. /\ today < MaxDay /\ today' = today + 1
        /\ UNCHANGED <<debt, payments, voids, events, audits, keys, candidates>>
    BY <1>9 DEF Tick
  <2> QED
    BY <1>1, <2>1, StillBooks
<1>10. CASE UNCHANGED vars
  <2>1. UNCHANGED <<today, debt, payments, voids, events, audits, keys, candidates>>
    BY <1>10 DEF vars
  <2> QED
    BY <1>1, <2>1, StillBooks
<1> QED
  BY <1>3, <1>4, <1>5, <1>6, <1>7, <1>8, <1>9, <1>10 DEF Next

\* The evidence and the books are in order, together.
THEOREM BooksInOrder == Spec => [](Inv /\ Books)
<1>1. Init => Inv /\ Books
  BY InitInv, InitBooks
<1>2. Inv /\ Books /\ [Next]_vars => (Inv /\ Books)'
  <2>1. Inv /\ [Next]_vars => Inv'
    BY NextInv
  <2>2. Inv /\ Inv' /\ Books /\ [Next]_vars => Books'
    BY NextBooks
  <2> QED
    BY <2>1, <2>2
<1> QED
  BY <1>1, <1>2, PTL DEF Spec

-----------------------------------------------------------------------------
(* What follows: the type invariant.                                       *)

\* A row of today, column by column.
DatedRow ==
         [status : Statuses, revision : Nat, updatedAt : Day, paidAt : OptionalDay,
          overdueAt : OptionalDay, overdueRevision : OptionalRevision,
          writtenOffAt : OptionalDay, writtenOffRevision : OptionalRevision,
          settledAt : OptionalDay, settledRevision : OptionalRevision]

\* Every column, amount and day is within its range.
LEMMA TypesFollow == Inv /\ Books => TypeOK
<1> SUFFICES ASSUME Inv, Books PROVE TypeOK
  OBVIOUS
<1>1. /\ Types /\ (\A d \in Debts : RowInv(d) /\ RowDays(d) /\ EventDays(d)) /\ SourcesInv
      /\ LedgerInv /\ today \in 0..MaxDay /\ today \in Nat
      /\ candidates \subseteq Debts \X (0..today) /\ \A v \in voids : v.at <= today
  BY DEF Inv, Books, DaysInv, Types
<1>2. Bounded
  BY MoneyBounded DEF Books
<1>3. ASSUME NEW d \in Debts
      PROVE  /\ debt[d] \in DatedRow
             /\ Posted(d) \in 0..OriginalAmount[d]
             /\ \A i \in DOMAIN events[d] :
              events[d][i].source \in 3..debt[d].revision /\ events[d][i].at \in Day
  <2>1. debt[d] \in DebtRow /\ RowInv(d) /\ RowDays(d) /\ EventDays(d)
    BY <1>1 DEF Types
  <2>2. Posted(d) \in 0..OriginalAmount[d]
    BY <1>2, AmountsOrdered DEF Bounded, OwedAt
  <2>3. \A i \in DOMAIN events[d] :
          events[d][i].source \in 3..debt[d].revision /\ events[d][i].at \in Day
    <3>1. \A i \in DOMAIN events[d] : events[d][i] \in RatingEvent
      BY <1>1, EventsTyped
    <3> QED
      BY <1>1, <2>1, <3>1 DEF EventDays, SourcesInv, Day, RatingEvent
  <2>4. debt[d].overdueRevision \in OptionalRevision
    BY <2>1 DEF RowInv, DebtRow, OptionalRevision
  <2>5. debt[d].writtenOffRevision \in OptionalRevision
    BY <2>1 DEF RowInv, DebtRow, OptionalRevision
  <2>6. debt[d].settledRevision \in OptionalRevision
    BY <2>1 DEF RowInv, DebtRow, OptionalRevision
  <2>7. debt[d] \in DatedRow
    BY <2>1, <2>4, <2>5, <2>6 DEF RowDays, DebtRow, Day, OptionalDay, DatedRow
  <2> QED
    BY <2>2, <2>3, <2>7
<1>4. payments \subseteq [debt : Debts, amount : Nat \ {0}, revision : Nat, at : Day]
  BY <1>1 DEF Types, Payment, Day, LedgerInv
<1>5. voids \subseteq [debt : Debts, payment : Nat, revision : Nat, at : Day]
  BY <1>1 DEF Types, Void, Day
<1> QED
  BY <1>1, <1>3, <1>4, <1>5 DEF TypeOK, Types, Day, DatedRow

-----------------------------------------------------------------------------
(* What follows: every debt lives the life of app/debt/contracts.py.       *)

\* Every debt begins as one that was accepted.
LEMMA RowBegins == Init => \A d \in Debts : Row(d)!AcceptedInit
<1> SUFFICES ASSUME Init, NEW d \in Debts PROVE Row(d)!AcceptedInit
  OBVIOUS
<1>1. Standing(d) = {}
  BY DEF Init, Standing
<1>2. Posted(d) = 0
  BY <1>1, TotalFirst DEF Posted
<1> QED
  BY <1>2, AmountsOrdered
     DEF Init, AcceptedDay, Unset, Row!AcceptedInit, Row!Unset, Row!Payable, SameDay

\* A debt nothing happens to, on a day nothing ends.
LEMMA RowRests ==
    ASSUME NEW d \in Debts, debt'[d] = debt[d], Posted(d)' = Posted(d), today' = today
    PROVE  UNCHANGED Row(d)!vars
BY DEF Row!vars, Row!marks, Row!closing, AcceptedDay

\* A payment on time is one,
LEMMA OnTimeIsRow ==
    ASSUME Inv, Inv', Books, NEW d \in Debts, NEW seen \in Nat, seen < MaxRevision[d],
           NEW basis \in Bases, NEW amount \in 1..OriginalAmount[d],
           RecordPayment(d, seen, basis, amount)
    PROVE  Row(d)!RecordPayment(amount)
<1>1. /\ Types /\ Types' /\ LedgerInv /\ RowInv(d) /\ RowInv(d)' /\ IsFiniteSet(payments)
      /\ RowDays(d) /\ MoneyOf(d) /\ today \in Nat
  BY DEF Inv, Books, Finite, DaysInv, MoneyInv, Types
<1>2. Pays(d, seen, basis, amount, FALSE)
  BY <1>1, OnTimePays
<1>3. Posted(d)' = Posted(d) + amount
  BY <1>1, <1>2, OnTimePays, PaysGrows, PaysPosted
<1>4. /\ debt[d].status \in {"active", "overdue"} /\ ~PastDueActive(d, today)
      /\ WithinBalance(d, amount) /\ seen = debt[d].revision
  BY DEF RecordPayment, Submits
<1>5. /\ debt[d].status = "active" => Payable(d)
      /\ debt[d] \in DebtRow
  BY <1>1, <1>4, AmountsOrdered DEF PastDueActive, Payable, Types
<1>6. Row(d)!Remaining = Remaining(d)
  BY <1>4, <1>5 DEF Row!Remaining, Remaining, BasisNow
<1>7. amount \in 1..Remaining(d)
  BY <1>4 DEF WithinBalance
<1> QED
  BY <1>1, <1>3, <1>4, <1>5, <1>6, <1>7, OnTimeRow
     DEF Row!RecordPayment, Row!Stamp, Row!PaidIfFull, Row!Payable, Row!marks, Payable, SameDay,
         Unset, Row!Unset, AcceptedDay
\* a late one,
LEMMA LateIsRow ==
    ASSUME Inv, Inv', Books, NEW d \in Debts, NEW seen \in Nat, seen < MaxRevision[d],
           NEW basis \in Bases, NEW amount \in 1..OriginalAmount[d],
           RecordLatePayment(d, seen, basis, amount)
    PROVE  Row(d)!LatePayment(amount)
<1>1. /\ Types /\ Types' /\ LedgerInv /\ RowInv(d) /\ RowInv(d)' /\ IsFiniteSet(payments)
      /\ RowDays(d) /\ MoneyOf(d) /\ today \in Nat
  BY DEF Inv, Books, Finite, DaysInv, MoneyInv, Types
<1>2. Pays(d, seen, basis, amount, TRUE)
  BY <1>1, LatePays
<1>3. Posted(d)' = Posted(d) + amount
  BY <1>1, <1>2, LatePays, PaysGrows, PaysPosted
<1>4. /\ debt[d].status = "active" /\ today > DueDate[d] /\ seen = debt[d].revision
      /\ WithinBalance(d, amount) /\ debt[d] \in DebtRow /\ DueDate[d] \in Nat
  BY <1>1, AmountsOrdered DEF RecordLatePayment, PastDueActive, Submits, Types
<1>5. Remaining(d) = OriginalAmount[d] - Posted(d)
  BY <1>1, <1>4 DEF Remaining, BasisNow, Payable
<1>6. amount \in 1..Remaining(d)
  BY <1>4 DEF WithinBalance
<1> QED
  BY <1>1, <1>3, <1>4, <1>5, <1>6, LateRow
     DEF Row!LatePayment, Row!PastDueActive, Row!Payable, SameDay, Unset, Row!Unset, AcceptedDay

\* a recovery,
LEMMA RecoveryIsRow ==
    ASSUME Inv, Inv', Books, NEW d \in Debts, NEW seen \in Nat, seen < MaxRevision[d],
           NEW basis \in Bases, NEW amount \in 1..OriginalAmount[d],
           RecordRecovery(d, seen, basis, amount)
    PROVE  Row(d)!RecordRecovery(amount)
<1>1. /\ Types /\ Types' /\ LedgerInv /\ RowInv(d) /\ RowInv(d)' /\ IsFiniteSet(payments)
      /\ RowDays(d) /\ MoneyOf(d) /\ today \in Nat
  BY DEF Inv, Books, Finite, DaysInv, MoneyInv, Types
<1>2. Pays(d, seen, basis, amount, FALSE)
  BY <1>1, RecoveryPays
<1>3. Posted(d)' = Posted(d) + amount
  BY <1>1, <1>2, RecoveryPays, PaysGrows, PaysPosted
<1>4. /\ debt[d].status = "written_off" /\ seen = debt[d].revision
      /\ WithinBalance(d, amount) /\ debt[d] \in DebtRow
  BY <1>1 DEF RecordRecovery, Submits, Types
<1>5. Row(d)!Remaining = Remaining(d)
  BY <1>4 DEF Row!Remaining, Remaining, BasisNow
<1>6. amount \in 1..Remaining(d)
  BY <1>4 DEF WithinBalance
<1>7. today >= debt[d].writtenOffAt /\ debt[d].settledAt = Unset /\ debt[d].settledRevision = Unset
  BY <1>1, <1>4 DEF RowDays, RowInv, DebtRow, Unset
<1> QED
  BY <1>1, <1>3, <1>4, <1>5, <1>6, <1>7, RecoveryRow
     DEF Row!RecordRecovery, Row!Stamp, Row!marks, Unset, Row!Unset, AcceptedDay

\* a void reopens,
LEMMA VoidIsRow ==
    ASSUME Inv, Inv', Books, NEW d \in Debts, NEW p \in payments, NEW seen \in Nat,
           seen < MaxRevision[d], VoidPayment(d, p, seen)
    PROVE  Row(d)!ReopenAfterVoid(p.amount) /\ p.amount \in 1..OriginalAmount[d]
<1>1. /\ Types /\ Types' /\ LedgerInv /\ RowInv(d) /\ RowInv(d)' /\ IsFiniteSet(payments)
      /\ RowDays(d) /\ MoneyOf(d) /\ today \in Nat
  BY DEF Inv, Books, Finite, DaysInv, MoneyInv, Types
<1>2. Posted(d) = p.amount + Posted(d)' /\ p.amount \in Nat \ {0} /\ Posted(d)' \in Nat
  BY <1>1, VoidUndoes, UndoesPosted
<1>3. Posted(d) <= OriginalAmount[d] /\ Posted(d) \in Nat /\ OriginalAmount[d] \in Nat
  BY <1>1, MoneyBounded, AmountsOrdered DEF Bounded, OwedAt, Books
<1>4. p.amount \in 1..Posted(d) /\ p.amount \in 1..OriginalAmount[d]
      /\ Posted(d)' = Posted(d) - p.amount
  BY <1>2, <1>3
<1>5. /\ debt[d].status \in {"active", "overdue", "paid", "written_off", "written_off_settled"}
      /\ seen = debt[d].revision /\ debt[d] \in DebtRow /\ today >= debt[d].updatedAt
  BY <1>1 DEF VoidPayment, Voidable, Types, RowDays
<1>6. Row(d)!ReopensOverdue = ReopensOverdue(d) /\ Row(d)!ReopenedStatus = ReopenedStatus(d)
  BY <1>5 DEF Row!ReopensOverdue, Row!ReopenedStatus, ReopensOverdue, ReopenedStatus, Row!Payable,
              Payable, SameDay, Unset, Row!Unset
<1> QED
  BY <1>1, <1>4, <1>5, <1>6, VoidedRow
     DEF Row!ReopenAfterVoid, Row!Stamp, Unset, Row!Unset, AcceptedDay

\* the batch marks,
LEMMA MarkIsRow ==
    ASSUME Inv, Inv', Books, NEW d \in Debts, NEW day, MaterializeOverdue(d, day)
    PROVE  Row(d)!MarkOverdue(day) /\ day \in 0..MaxDay
<1>1. /\ Types /\ Types' /\ LedgerInv /\ RowInv(d) /\ RowInv(d)' /\ IsFiniteSet(payments)
      /\ RowDays(d) /\ MoneyOf(d) /\ today \in Nat
  BY DEF Inv, Books, Finite, DaysInv, MoneyInv, Types
<1>2. Posted(d)' = Posted(d)
  BY QuietPosted DEF MaterializeOverdue
<1>3. debt[d].status = "active" /\ day > DueDate[d] /\ DueDate[d] \in Nat /\ debt[d] \in DebtRow
  BY <1>1, AmountsOrdered DEF MaterializeOverdue, PastDueActive, Types
<1>4. day \in 0..today /\ day \in 0..MaxDay
  <2>1. <<d, day>> \in candidates
    BY DEF MaterializeOverdue
  <2> QED
    BY <1>1, <2>1, AmountsOrdered DEF Books, DaysInv
<1> QED
  BY <1>1, <1>2, <1>3, <1>4, MarkedRow
     DEF Row!MarkOverdue, Row!PastDueActive, Row!Payable, Row!Stamp, Row!closing, SameDay, AcceptedDay

\* and an administrator writes off.
LEMMA WriteOffIsRow ==
    ASSUME Inv, Inv', Books, NEW d \in Debts, NEW seen \in Nat, WriteOff(d, seen)
    PROVE  Row(d)!MarkWrittenOff
<1>1. /\ Types /\ Types' /\ LedgerInv /\ RowInv(d) /\ RowInv(d)' /\ IsFiniteSet(payments)
      /\ RowDays(d) /\ MoneyOf(d) /\ today \in Nat
  BY DEF Inv, Books, Finite, DaysInv, MoneyInv, Types
<1>2. Posted(d)' = Posted(d)
  BY QuietPosted DEF WriteOff
<1>3. /\ debt[d].status = "overdue" /\ Posted(d) < OriginalAmount[d]
      /\ today >= debt[d].overdueAt
  BY DEF WriteOff
<1> QED
  BY <1>1, <1>2, <1>3, WrittenOffRow
     DEF Row!MarkWrittenOff, Row!Stamp, Row!closing, AcceptedDay

\* Of each debt, a step is a step of its life or nothing.
LifeGoesOn == \A d \in Debts : [Row(d)!Next]_(Row(d)!vars)

\* When one debt takes a step of its life, the others rest.
LEMMA RowSteps ==
    ASSUME NEW d \in Debts, Grows(d), today' = today, Row(d)!Next
    PROVE  LifeGoesOn
<1>1. ASSUME NEW c \in Debts, c # d
      PROVE  UNCHANGED Row(c)!vars
  <2>1. debt'[c] = debt[c] /\ Posted(c)' = Posted(c)
    BY <1>1, OthersPosted DEF Grows
  <2> QED
    BY <2>1, RowRests
<1> QED
  BY <1>1 DEF LifeGoesOn

\* Whatever is done.
LEMMA NextRows == Inv /\ Inv' /\ Books /\ [Next]_vars => LifeGoesOn
<1> SUFFICES ASSUME Inv, Inv', Books, [Next]_vars PROVE LifeGoesOn
  OBVIOUS
<1>1. /\ Types /\ Types' /\ LedgerInv /\ (\A d \in Debts : RowInv(d)) /\ (\A d \in Debts : RowInv(d)')
      /\ IsFiniteSet(payments) /\ MaxRevision \in [Debts -> Nat]
  BY BoundAssumption DEF Inv, Books, Finite
<1>2. \A d \in Debts : /\ 2..(MaxRevision[d] + 1) \subseteq Nat
                       /\ \A seen \in 2..(MaxRevision[d] - 1) : seen \in Nat /\ seen < MaxRevision[d]
  BY <1>1
<1>3. ASSUME NEW d \in Debts, NEW seen \in 2..(MaxRevision[d] - 1), NEW basis \in Bases,
             NEW amount \in 1..OriginalAmount[d],
             \/ RecordPayment(d, seen, basis, amount)
             \/ RecordLatePayment(d, seen, basis, amount)
             \/ RecordRecovery(d, seen, basis, amount)
      PROVE  LifeGoesOn
  <2>1. seen \in Nat /\ seen < MaxRevision[d] /\ today' = today
    BY <1>2, <1>3 DEF RecordPayment, RecordLatePayment, RecordRecovery, Post
  <2>2. PICK marking \in BOOLEAN : Others(d) /\ Pays(d, seen, basis, amount, marking)
    BY <1>1, <1>3, <2>1, OnTimePays, LatePays, RecoveryPays
  <2>3. Grows(d)
    BY <1>1, <2>1, <2>2, PaysGrows
  <2>4. Row(d)!RecordPayment(amount) \/ Row(d)!LatePayment(amount) \/ Row(d)!RecordRecovery(amount)
    BY <1>3, <2>1, OnTimeIsRow, LateIsRow, RecoveryIsRow
  <2>5. Row(d)!Next
    BY <2>4 DEF Row!Next, Row!Amounts
  <2> QED
    BY <2>1, <2>3, <2>5, RowSteps
<1>4. ASSUME NEW d \in Debts, NEW seen \in 2..(MaxRevision[d] - 1), NEW p \in payments,
             VoidPayment(d, p, seen)
      PROVE  LifeGoesOn
  <2>1. seen \in Nat /\ seen < MaxRevision[d] /\ today' = today
    BY <1>2, <1>4 DEF VoidPayment
  <2>2. Grows(d)
    BY <1>1, <1>4, <2>1, VoidUndoes, UndoesGrows
  <2>3. Row(d)!Next
    BY <1>4, <2>1, VoidIsRow DEF Row!Next, Row!Amounts
  <2> QED
    BY <2>1, <2>2, <2>3, RowSteps
<1>5. ASSUME NEW d \in Debts, NEW seen \in 2..(MaxRevision[d] + 1), WriteOff(d, seen)
      PROVE  LifeGoesOn
  <2>1. seen \in Nat /\ today' = today
    BY <1>2, <1>5 DEF WriteOff
  <2>2. Grows(d)
    BY <1>1, <1>5, <2>1, WriteOffGivesUp, GivesUpGrows
  <2>3. Row(d)!Next
    BY <1>5, <2>1, WriteOffIsRow DEF Row!Next
  <2> QED
    BY <2>1, <2>2, <2>3, RowSteps
<1>6. ASSUME NEW d \in Debts, NEW day \in 0..MaxDay, MaterializeOverdue(d, day)
      PROVE  LifeGoesOn
  <2>1. today' = today
    BY <1>6 DEF MaterializeOverdue
  <2>2. Grows(d)
    BY <1>1, <1>6, BatchMarks, MarksGrows
  <2>3. Row(d)!Next
    BY <1>6, MarkIsRow DEF Row!Next
  <2> QED
    BY <2>1, <2>2, <2>3, RowSteps
<1>7. ASSUME UNCHANGED <<today, debt, payments, voids>>
      PROVE  LifeGoesOn
  <2>1. \A d \in Debts : Posted(d)' = Posted(d)
    BY <1>7, QuietPosted
  <2>2. ASSUME NEW d \in Debts PROVE UNCHANGED Row(d)!vars
    BY <1>7, <2>1, RowRests
  <2> QED
    BY <2>2 DEF LifeGoesOn
<1>8. ASSUME NEW d \in Debts, DiscoverOverdue(d)
      PROVE  LifeGoesOn
  BY <1>7, <1>8 DEF DiscoverOverdue
<1>9. ASSUME NEW d \in Debts, NEW day \in 0..MaxDay, SkipCandidate(d, day)
      PROVE  LifeGoesOn
  BY <1>7, <1>9 DEF SkipCandidate
<1>10. CASE Tick
  <2>1. today < MaxDay /\ today' = today + 1 /\ UNCHANGED <<debt, payments, voids>>
    BY <1>10 DEF Tick
  <2>2. \A d \in Debts : Posted(d)' = Posted(d)
    BY <2>1, QuietPosted
  <2>3. ASSUME NEW d \in Debts PROVE Row(d)!Next
    <3>1. Row(d)!Tick
      BY <2>1, <2>2 DEF Row!Tick, Row!marks, Row!closing, AcceptedDay
    <3> QED
      BY <3>1 DEF Row!Next
  <2> QED
    BY <2>3 DEF LifeGoesOn
<1>11. CASE UNCHANGED vars
  BY <1>7, <1>11 DEF vars
<1> QED
  BY <1>3, <1>4, <1>5, <1>6, <1>8, <1>9, <1>10, <1>11 DEF Next

-----------------------------------------------------------------------------
(* What follows: the pages.                                                *)

\* The basis a debt is on is that of its revision, and the total is within it.
LEMMA BasisKnown ==
    ASSUME Inv, Books, NEW d \in Debts
    PROVE  /\ CurrentBasis(d) \in Bases
           /\ CurrentBasis(d) = "discounted" <=>
                /\ debt[d].overdueRevision = Unset
                /\ debt[d].status = "active" => Payable(d)
           /\ Posted(d) \in Nat /\ MoneyOf(d) /\ debt[d] \in DebtRow /\ RowInv(d) /\ RowDays(d)
           /\ debt[d].status \in {"overdue", "written_off", "written_off_settled"} =>
                debt[d].overdueRevision # Unset
<1>1. /\ MoneyOf(d) /\ debt[d] \in DebtRow /\ RowInv(d) /\ RowDays(d)
  BY DEF Inv, Books, Types, MoneyInv, DaysInv
<1>2. Posted(d) \in Nat
  BY StandingFinite DEF Inv, Books, Finite
<1>3. debt[d].status \in Statuses
  BY <1>1 DEF DebtRow
<1> QED
  BY <1>1, <1>2, <1>3 DEF CurrentBasis, RowInv, Statuses, Bases, Unset

\* What is due is what is left.
LEMMA DueKnown ==
    ASSUME Inv, Books, NEW d \in Debts
    PROVE  /\ CurrentDue(d) \in Nat
           /\ debt[d].status \in Owed => CurrentDue(d) > 0
           /\ debt[d].status \in {"paid", "written_off_settled"} => CurrentDue(d) = 0
           /\ debt[d].status \in Owed => CurrentDue(d) = Remaining(d)
           /\ debt[d].status \in Owed => CurrentBasis(d) = BasisNow(d)
<1>1. /\ OriginalAmount[d] \in Nat /\ DiscountedAmount[d] \in Nat
      /\ 0 < DiscountedAmount[d] /\ DiscountedAmount[d] <= OriginalAmount[d]
  BY AmountsOrdered
<1>2. debt[d].status \in Statuses
  BY BasisKnown DEF DebtRow
<1>3. CASE debt[d].status = "active"
  BY <1>1, <1>3, BasisKnown
     DEF CurrentDue, Due, MoneyOf, Owed, Remaining, BasisNow, RowInv, Bases
<1>4. CASE debt[d].status \in {"overdue", "written_off"}
  BY <1>1, <1>4, BasisKnown DEF CurrentDue, Due, MoneyOf, Owed, Remaining, BasisNow, Bases
<1>5. CASE debt[d].status \in {"paid", "written_off_settled"}
  <2>1. debt[d].overdueRevision # Unset => ~(debt[d].revision < debt[d].overdueRevision)
    BY BasisKnown DEF RowInv, DebtRow, Unset
  <2> QED
    BY <1>1, <1>5, <2>1, BasisKnown DEF CurrentDue, Due, MoneyOf, OwedAt, Owed, Bases
<1> QED
  BY <1>2, <1>3, <1>4, <1>5 DEF Statuses

\* What was due then is what was left then.
LEMMA DueThen ==
    ASSUME Inv, Books, NEW p \in payments
    PROVE  /\ HistoricalBasis(p) \in Bases
           /\ PostedThrough(p.debt, p.revision) \in Nat
           /\ HistoricalDue(p) =
                OwedAt(p.debt, p.revision) - PostedThrough(p.debt, p.revision)
           /\ HistoricalDue(p) \in Nat
           /\ p.debt \in Debts /\ p.revision \in Nat
<1>1. Types /\ LedgerInv /\ IsFiniteSet(payments) /\ HistoryInv
  BY DEF Inv, Books, Finite
<1>2. /\ p.debt \in Debts /\ p.revision \in Nat
      /\ debt[p.debt] \in DebtRow /\ RowInv(p.debt)
  BY <1>1, LedgerTyped DEF Inv, Types, Typed
<1>3. PostedThrough(p.debt, p.revision) \in Nat
  <2> DEFINE Then == {q \in payments :
                        /\ q.debt = p.debt
                        /\ q.revision <= p.revision
                        /\ ~\E v \in voids : /\ v.debt = p.debt /\ v.payment = q.revision
                                             /\ v.revision <= p.revision}
  <2>1. Then \subseteq payments /\ Amounts(Then)
    BY <1>1, LedgerTyped DEF Amounts
  <2>2. IsFiniteSet(Then)
    BY <1>1, <2>1, FS_Subset
  <2> HIDE DEF Then
  <2>3. Total(Then) \in Nat
    BY <2>1, <2>2, TotalNat
  <2> QED
    BY <2>3 DEF PostedThrough, Then
<1>4. p.revision # debt[p.debt].overdueRevision
  BY <1>1 DEF LedgerInv
<1>5. /\ HistoricalBasis(p) = (IF debt[p.debt].overdueRevision = Unset
                                  \/ p.revision < debt[p.debt].overdueRevision
                               THEN "discounted" ELSE "original")
  BY <1>2, <1>4 DEF HistoricalBasis, DebtRow, Unset
<1>6. HistoricalDue(p) = OwedAt(p.debt, p.revision) - PostedThrough(p.debt, p.revision)
  BY <1>5 DEF HistoricalDue, Due, OwedAt
<1>7. PostedThrough(p.debt, p.revision) <= OwedAt(p.debt, p.revision)
  BY <1>1 DEF HistoryInv
<1>8. OwedAt(p.debt, p.revision) \in Nat
  BY <1>2, AmountsOrdered DEF OwedAt
<1> QED
  BY <1>2, <1>3, <1>5, <1>6, <1>7, <1>8 DEF Bases

\* The grouped sum of a list is the posted total of each of its debts.
LEMMA GroupedAlike ==
    ASSUME NEW ds, NEW d \in ds
    PROVE  ProgressOf(ds)[d] =
             [posted |-> Posted(d), due |-> CurrentDue(d), basis |-> CurrentBasis(d),
              payable |-> ShownPayable(d)]
<1> DEFINE standing == {p \in payments : p.debt \in ds /\ ~Voided(p)}
           totals == GroupedTotals(ds)
           posted == IF d \in DOMAIN totals THEN totals[d] ELSE 0
<1>1. {p \in standing : p.debt = d} = Standing(d)
  BY DEF Standing
<1>2. posted = Posted(d)
  <2>1. CASE d \in {p.debt : p \in standing}
    BY <1>1, <2>1 DEF GroupedTotals, Posted
  <2>2. CASE d \notin {p.debt : p \in standing}
    <3>1. Standing(d) = {}
      BY <1>1, <2>2
    <3> QED
      BY <2>2, <3>1, TotalFirst DEF GroupedTotals, Posted
  <2> QED
    BY <2>1, <2>2
<1>3. ProgressOf(ds)[d] =
        [posted |-> posted, due |-> Due(d, CurrentBasis(d), posted), basis |-> CurrentBasis(d),
         payable |-> debt[d].status \in Owed /\ Due(d, CurrentBasis(d), posted) > 0]
  BY DEF ProgressOf
<1> QED
  BY <1>2, <1>3 DEF CurrentDue, ShownPayable, Owed

\* What is due of a debt that is repaid is nothing, and of the others what the
\* original amount allows.
LEMMA ProgressFollows ==
    ASSUME Inv, Books, NEW d \in Debts
    PROVE  ProgressComposes(d) /\ StatusCoherent(d)
<1>1. debt[d].status \in Statuses
  BY BasisKnown DEF DebtRow
<1>2. CurrentBasis(d) \in Bases /\ Due(d, CurrentBasis(d), Posted(d)) >= 0
  BY BasisKnown, DueKnown DEF CurrentDue
<1>3. ProgressComposes(d)
  BY <1>1, <1>2, BasisKnown, DueKnown
     DEF ProgressComposes, Computable, Bases, Incoherent, RowDays, ShownPayable,
         EffectivelyOverdue, Statuses, Owed
<1>4. StatusCoherent(d)
  <2>1. CASE debt[d].status = "active"
    BY <2>1, BasisKnown DEF StatusCoherent, MoneyOf
  <2>2. CASE debt[d].status \in {"overdue", "written_off"}
    BY <2>2, BasisKnown DEF StatusCoherent, MoneyOf
  <2>3. CASE debt[d].status \in {"paid", "written_off_settled"}
    <3>1. Posted(d) = OwedAt(d, debt[d].revision)
      BY <2>3, BasisKnown DEF MoneyOf
    <3>2. debt[d].status = "written_off_settled" => Posted(d) = OriginalAmount[d]
      BY <3>1, BasisKnown DEF OwedAt, RowInv, DebtRow, Unset
    <3>3. Posted(d) \in {DiscountedAmount[d], OriginalAmount[d]}
      BY <3>1 DEF OwedAt
    <3> QED
      BY <2>3, <3>2, <3>3 DEF StatusCoherent
  <2> QED
    BY <1>1, <2>1, <2>2, <2>3 DEF Statuses
<1> QED
  BY <1>3, <1>4

\* A receipt can be shown.
LEMMA ReceiptFollows ==
    ASSUME Inv, Books, NEW p \in payments
    PROVE  /\ ReceiptComposes(p)
           /\ AuditedOnce(p.debt, p, "debt.paid")
                \/ AuditedOnce(p.debt, p, "debt.written_off_settled") => HistoricalDue(p) = 0
<1>1. /\ p.debt \in Debts /\ HistoricalBasis(p) \in Bases
      /\ HistoricalDue(p) \in Nat
      /\ HistoricalDue(p) = OwedAt(p.debt, p.revision) - PostedThrough(p.debt, p.revision)
      /\ PostedThrough(p.debt, p.revision) \in Nat
  BY DueThen
<1>2. ReceiptComposes(p)
  <2>1. Computable(p.debt, HistoricalBasis(p), PostedThrough(p.debt, p.revision))
    BY <1>1 DEF Computable, HistoricalDue, Bases, Incoherent
  <2>2. Computable(p.debt, CurrentBasis(p.debt), Posted(p.debt))
    BY <1>1, ProgressFollows DEF ProgressComposes
  <2> QED
    BY <1>1, <2>1, <2>2, ProgressFollows DEF ReceiptComposes, ProgressComposes
<1>3. ASSUME NEW type \in Closing, AuditedOnce(p.debt, p, type)
      PROVE  HistoricalDue(p) = 0
  <2> DEFINE rows == {a \in AuditsOf(p.debt, {type}) :
                        a.actor = "USER" /\ a.at = p.at /\ a.revision = p.revision}
  <2>1. rows # {}
    <3>1. Cardinality(rows) = 1
      BY <1>3 DEF AuditedOnce
    <3>2. Cardinality({}) = 0
      BY FS_EmptySet
    <3> HIDE DEF rows
    <3> QED
      BY <3>1, <3>2
  <2>2. PICK a \in rows : TRUE
    BY <2>1
  <2>3. a \in audits /\ a.debt = p.debt /\ a.type \in Closing /\ a.revision = p.revision
    BY <2>2 DEF AuditsOf
  <2>4. PostedThrough(p.debt, p.revision) = OwedAt(p.debt, p.revision)
    BY <2>3 DEF Books, HistoryInv
  <2> QED
    BY <1>1, <2>4
<1> QED
  BY <1>2, <1>3 DEF Closing

\* A history and its ledger can be shown.
LEMMA HistoryFollows ==
    ASSUME Inv, NEW d \in Debts
    PROVE  HistoryComposes(d) /\ LedgerComposes(d)
<1>1. LedgerInv /\ Types
  BY DEF Inv
<1>2. /\ \A p \in payments : p.revision \in Nat
      /\ \A v \in voids : v.revision \in Nat /\ v.payment \in Nat
  BY <1>1 DEF Types, Payment, Void
<1>3. HistoryComposes(d)
  <2>1. \A p, q \in payments : p.debt = q.debt /\ p.revision = q.revision => p = q
    BY <1>1 DEF LedgerInv
  <2>2. ASSUME NEW p \in payments, NEW v \in voids, p.debt = d, v.debt = d,
               v.payment = p.revision
        PROVE  v.at >= p.at
    <3>1. PICK q \in payments : q.debt = v.debt /\ q.revision = v.payment /\ q.at <= v.at
      BY <1>1 DEF LedgerInv
    <3>2. q = p
      BY <2>1, <2>2, <3>1
    <3>3. q.at \in Nat /\ v.at \in Nat
      BY <1>1 DEF Types, Payment, Void
    <3> QED
      BY <3>1, <3>2, <3>3
  <2> QED
    BY <2>1, <2>2 DEF HistoryComposes, PaymentsOf
<1>4. ASSUME NEW p \in payments, NEW q \in payments, p.debt = d, q.debt = d,
             NEW v \in voids, v.debt = d, v.payment = p.revision
      PROVE  /\ v.revision # q.revision /\ p.revision < v.revision
             /\ \A u \in voids : u.debt = d /\ u.payment = p.revision => u = v
             /\ \A w \in voids : w.debt = d /\ v.revision = w.revision => v = w
             /\ q.revision < v.revision
                  /\ (\A w \in voids : w.debt = d /\ w.payment = q.revision
                                         => w.revision >= v.revision)
                  => q.revision <= p.revision
  <2>1. v.revision # q.revision /\ p.revision < v.revision
    BY <1>1, <1>4 DEF LedgerInv
  <2>2. \A w \in voids :
          w.debt = d /\ (w.payment = p.revision \/ v.revision = w.revision) => v = w
    BY <1>1, <1>4 DEF LedgerInv
  <2>3. ASSUME q.revision < v.revision, p.revision < q.revision
        PROVE  \E w \in voids : w.debt = d /\ w.payment = q.revision /\ w.revision < v.revision
    BY <1>1, <1>4, <2>3 DEF LedgerInv
  <2> QED
    BY <1>2, <2>1, <2>2, <2>3
<1>5. LedgerComposes(d)
  <2> SUFFICES ASSUME NEW p \in PaymentsOf(d), NEW q \in PaymentsOf(d), NEW v \in voids,
                      v.debt = d, v.payment = p.revision
               PROVE  /\ v.revision # q.revision
                      /\ \A w \in voids : w.debt = d /\ w.payment = q.revision =>
                            (v.revision = w.revision => v = w)
                      /\ p.revision < v.revision
                      /\ \A u \in voids : u.debt = d /\ u.payment = p.revision =>
                            u.revision >= v.revision
                      /\ q.revision < v.revision
                           /\ (\A w \in voids : w.debt = d /\ w.payment = q.revision =>
                                 w.revision >= v.revision)
                           => q.revision <= p.revision
    BY DEF LedgerComposes
  <2>1. p \in payments /\ q \in payments /\ p.debt = d /\ q.debt = d
    BY DEF PaymentsOf
  <2>2. v.revision >= v.revision
    BY <1>2
  <2> QED
    BY <1>4, <2>1, <2>2
<1> QED
  BY <1>3, <1>5

\* A void can be computed.
LEMMA VoidMoneyFollows ==
    ASSUME Inv, Books, NEW p \in payments, Voidable(p.debt, p, debt[p.debt].revision)
    PROVE  VoidMoneyComposes(p)
<1>1. PICK d : d = p.debt
  OBVIOUS
<1>2. Types /\ IsFiniteSet(payments) /\ d \in Debts
  BY <1>1 DEF Inv, Books, Finite, Types, Payment
<1>3. p \in Standing(d) /\ p.amount \in Nat \ {0}
  BY <1>1, <1>2 DEF Voidable, IsLatest, Types, Payment
<1>4. PICK rest : rest = Standing(d) \ {p}
  OBVIOUS
<1>5. IsFiniteSet(rest) /\ Amounts(rest)
  BY <1>2, <1>4, StandingFinite, FS_Subset DEF Amounts
<1>6. Total(Standing(d)) = p.amount + Total(rest) /\ Total(rest) \in Nat
  BY <1>2, <1>3, <1>4, <1>5, StandingFinite, TotalWithout, TotalNat
<1>7. Posted(d) - p.amount >= 0 /\ Posted(d) - p.amount < Posted(d) /\ Posted(d) \in Nat
  BY <1>3, <1>6 DEF Posted
<1>8. debt[d].status \in Statuses /\ debt[d].overdueRevision \in Int /\ debt[d].revision \in Nat
  BY <1>2 DEF Types, DebtRow
<1>9. /\ OriginalAmount[d] \in Nat /\ DiscountedAmount[d] \in Nat
      /\ DiscountedAmount[d] <= OriginalAmount[d]
  BY <1>2, AmountsOrdered
<1>10. /\ debt[d].overdueRevision # Unset => Posted(d) <= OriginalAmount[d]
       /\ debt[d].overdueRevision = Unset => Posted(d) <= DiscountedAmount[d]
  BY <1>2, <1>9, MoneyBounded DEF Books, Bounded, OwedAt
<1>11. debt[d].status \in {"overdue", "written_off", "written_off_settled"} =>
         debt[d].overdueRevision # Unset
  BY <1>2, BasisKnown
<1> QED
  BY <1>1, <1>3, <1>7, <1>9, <1>10, <1>11 DEF VoidMoneyComposes, Due

\* Every page can be shown, and they agree.
LEMMA PagesFollow == Inv /\ Books => PagesCompose
<1> SUFFICES ASSUME Inv, Books, NEW d \in Debts
             PROVE  /\ ProgressComposes(d) /\ HistoryComposes(d) /\ LedgerComposes(d)
                    /\ \A p \in PaymentsOf(d) : ReceiptComposes(p)
                    /\ debt[d].status \in {"paid", "written_off_settled"} => CurrentDue(d) = 0
                    /\ \A p \in PaymentsOf(d) :
                         AuditedOnce(d, p, "debt.paid")
                           \/ AuditedOnce(d, p, "debt.written_off_settled")
                           => HistoricalDue(p) = 0
                    /\ StatusCoherent(d)
                    /\ debt[d].status \in {"active", "overdue"} => Exposure(d) >= CurrentDue(d)
                    /\ \A p \in PaymentsOf(d) :
                         Voidable(d, p, debt[d].revision) => VoidMoneyComposes(p)
                    /\ LET shown == CustomerCards[d]
                           own == CustomerHistoryView(d)
                           list == CustomerPaymentList(d)
                       IN  /\ shown = DebtDetail(d).progress
                           /\ ShopCards[d].progress = shown
                           /\ own.due = shown.due /\ own.basis = shown.basis
                           /\ own.payable = shown.payable
                           /\ list.lateTerms \/ list.recovery =>
                                list.due = OriginalAmount[d] - Posted(d)
  BY DEF PagesCompose
<1>1. \A p \in PaymentsOf(d) : p \in payments /\ p.debt = d
  BY DEF PaymentsOf
<1>2. ProgressComposes(d) /\ StatusCoherent(d)
  BY ProgressFollows
<1>3. HistoryComposes(d) /\ LedgerComposes(d)
  BY HistoryFollows
<1>4. \A p \in PaymentsOf(d) :
        /\ ReceiptComposes(p)
        /\ AuditedOnce(d, p, "debt.paid") \/ AuditedOnce(d, p, "debt.written_off_settled")
             => HistoricalDue(p) = 0
  BY <1>1, ReceiptFollows
<1>5. debt[d].status \in {"paid", "written_off_settled"} => CurrentDue(d) = 0
  BY DueKnown
<1>6. debt[d].status \in {"active", "overdue"} => Exposure(d) >= CurrentDue(d)
  BY BasisKnown, AmountsOrdered DEF Exposure, CurrentDue, Due, Bases
<1>7. \A p \in PaymentsOf(d) : Voidable(d, p, debt[d].revision) => VoidMoneyComposes(p)
  BY <1>1, VoidMoneyFollows
<1>8. PICK shown : shown = [posted |-> Posted(d), due |-> CurrentDue(d), basis |-> CurrentBasis(d),
                            payable |-> ShownPayable(d)]
  OBVIOUS
<1>9. CustomerCards[d] = shown /\ ShopCards[d].progress = shown /\ DebtDetail(d).progress = shown
  BY <1>8, GroupedAlike DEF CustomerCards, ShopCards, DebtDetail
<1>10. /\ CustomerHistoryView(d).due = shown.due /\ CustomerHistoryView(d).basis = shown.basis
       /\ CustomerHistoryView(d).payable = shown.payable
  BY <1>8 DEF CustomerHistoryView
<1>11. CustomerPaymentList(d).lateTerms \/ CustomerPaymentList(d).recovery =>
         CustomerPaymentList(d).due = OriginalAmount[d] - Posted(d)
  <2>1. /\ CustomerPaymentList(d).due = CurrentDue(d)
        /\ CustomerPaymentList(d).lateTerms = EffectivelyOverdue(d)
        /\ CustomerPaymentList(d).recovery = (debt[d].status = "written_off")
    BY DEF CustomerPaymentList, CustomerHistoryView
  <2>2. EffectivelyOverdue(d) \/ debt[d].status = "written_off" => CurrentBasis(d) = "original"
    BY <1>2 DEF ProgressComposes
  <2>3. CurrentBasis(d) = "original" => CurrentDue(d) = OriginalAmount[d] - Posted(d)
    BY DEF CurrentDue, Due
  <2> QED
    BY <2>1, <2>2, <2>3
<1> QED
  BY <1>2, <1>3, <1>4, <1>5, <1>6, <1>7, <1>9, <1>10, <1>11

\* The form offers what is accepted.
LEMMA FormFollows ==
    ASSUME Inv, Books, NEW d \in Debts
    PROVE  /\ PaymentForm(d) = AcceptedPayments(d)
           /\ AcceptedPayments(d) # {} <=> debt[d].status \in Owed
           /\ ShownPayable(d) <=> debt[d].status \in Owed
           /\ debt[d].status \in Owed =>
                <<CurrentBasis(d), CurrentDue(d)>> \in AcceptedPayments(d)
<1>1. ShownPayable(d) <=> debt[d].status \in Owed
  BY DueKnown DEF ShownPayable, Owed
<1>2. debt[d].status = "written_off" => WrittenOffSourceCoherent(d)
  BY SourcesFollow DEF SourcesCoherent
<1>3. PastDueActive(d, today) => CoherentUnpaid(d)
  BY BasisKnown DEF PastDueActive, CoherentUnpaid, MoneyOf
<1>4. /\ OriginalAmount[d] \in Nat /\ DiscountedAmount[d] \in Nat
      /\ DiscountedAmount[d] <= OriginalAmount[d]
  BY AmountsOrdered
<1>5. CASE debt[d].status \in Owed
  <2>1. /\ CurrentDue(d) \in Nat /\ CurrentDue(d) > 0 /\ CurrentDue(d) = Remaining(d)
        /\ CurrentBasis(d) = BasisNow(d) /\ CurrentBasis(d) \in Bases
    BY <1>5, BasisKnown, DueKnown
  <2>2. CurrentDue(d) <= OriginalAmount[d]
    BY <1>4, BasisKnown DEF CurrentDue, Due, Bases
  <2>3. \A form \in Bases \X (1..OriginalAmount[d]) :
          form \in AcceptedPayments(d) <=>
            form[1] = CurrentBasis(d) /\ form[2] \in 1..CurrentDue(d)
    BY <1>2, <1>3, <1>5, <2>1 DEF AcceptedPayments, Submits, WithinBalance, Owed
  <2>4. 1..CurrentDue(d) \subseteq 1..OriginalAmount[d]
    BY <1>4, <2>1, <2>2
  <2>5. PaymentForm(d) = {<<CurrentBasis(d), amount>> : amount \in 1..CurrentDue(d)}
    BY <1>1, <1>5 DEF PaymentForm, Owed
  <2>6. PaymentForm(d) \subseteq AcceptedPayments(d)
    BY <2>1, <2>3, <2>4, <2>5
  <2>7. AcceptedPayments(d) \subseteq PaymentForm(d)
    <3>1. AcceptedPayments(d) \subseteq Bases \X (1..OriginalAmount[d])
      BY DEF AcceptedPayments
    <3>2. ASSUME NEW form \in AcceptedPayments(d)
          PROVE  form \in PaymentForm(d)
      <4>1. form = <<form[1], form[2]>>
        BY <3>1
      <4>2. form[1] = CurrentBasis(d) /\ form[2] \in 1..CurrentDue(d)
        BY <2>3, <3>1
      <4> QED
        BY <2>5, <4>1, <4>2
    <3> QED
      BY <3>2
  <2>8. CurrentDue(d) \in 1..CurrentDue(d)
    BY <2>1
  <2>9. <<CurrentBasis(d), CurrentDue(d)>> \in PaymentForm(d)
    BY <2>5, <2>8
  <2> QED
    BY <1>1, <1>5, <2>6, <2>7, <2>9
<1>6. CASE debt[d].status \notin Owed
  BY <1>1, <1>6 DEF PaymentForm, AcceptedPayments, Submits, Owed
<1> QED
  BY <1>5, <1>6

\* What a list and a form say of a payment to be made.
LEMMA ListFollows ==
    ASSUME Inv, Books, NEW d \in Debts, NEW v \in Viewers, MayRead(v),
           NEW view, view = HistoryView(d)
    PROVE  LET open == AcceptedPayments(d) # {} /\ "create" \in Capabilities(v)
               list == PaymentList(v, view)
               forms == NewPaymentPage(v, view.detail)
           IN  /\ list.canCreate = open /\ CanRecord(v, view.detail) = open
               /\ (forms # {}) = open /\ (list.readOnly = None) = open
               /\ \A form \in forms : PaymentAccepted(v, d, form)
<1>1. v.live = TRUE /\ v.shopOpen \in BOOLEAN
  BY DEF Viewers, MayRead
<1>2. PICK due : due = CurrentDue(d)
  OBVIOUS
<1>3. PICK basis : basis = CurrentBasis(d)
  OBVIOUS
<1>4. /\ view.detail.status = debt[d].status /\ view.detail.expectedRevision = debt[d].revision
      /\ view.detail.progress = [posted |-> Posted(d), due |-> due, basis |-> basis,
                                 payable |-> ShownPayable(d)]
  BY <1>2, <1>3, GroupedAlike DEF HistoryView, DebtDetail
<1>5. PICK progress : progress = view.detail.progress
  OBVIOUS
<1>6. /\ progress.due = due /\ progress.basis = basis
      /\ progress.payable = ShownPayable(d)
  BY <1>4, <1>5
<1>7. ShownPayable(d) = (debt[d].status \in Owed)
  <2>1. ShownPayable(d) <=> debt[d].status \in Owed
    BY FormFollows
  <2> QED
    BY <2>1 DEF ShownPayable
<1>8. (AcceptedPayments(d) # {}) = (debt[d].status \in Owed)
  <2>1. AcceptedPayments(d) # {} <=> debt[d].status \in Owed
    BY FormFollows
  <2> QED
    BY <2>1
<1>9. ("create" \in Capabilities(v)) = v.shopOpen
  BY <1>1 DEF Capabilities
<1> DEFINE open == debt[d].status \in Owed /\ v.shopOpen
<1>10. PaymentList(v, view).canCreate = open
  BY <1>1, <1>5, <1>6, <1>7 DEF PaymentList
<1>11. CanRecord(v, view.detail) = open
  BY <1>1, <1>4, <1>5, <1>6, <1>7 DEF CanRecord
<1>12. (PaymentList(v, view).readOnly = None) = open
  <2>1. PaymentList(v, view).readOnly = ReadOnlyReason(v, view.detail)
    BY DEF PaymentList
  <2>2. CASE ~v.shopOpen
    BY <2>1, <2>2 DEF ReadOnlyReason, None
  <2>3. CASE v.shopOpen /\ debt[d].status \notin Owed
    BY <1>4, <2>1, <2>3 DEF ReadOnlyReason, None, Owed
  <2>4. CASE v.shopOpen /\ debt[d].status \in Owed
    BY <1>4, <1>5, <1>6, <1>7, <2>1, <2>4 DEF ReadOnlyReason, None
  <2> QED
    BY <1>1, <2>2, <2>3, <2>4
<1>13. PICK form : form = [expectedRevision |-> debt[d].revision, expectedBasis |-> basis,
                           due |-> due]
  OBVIOUS
<1>14. NewPaymentPage(v, view.detail) = IF open THEN {form} ELSE {}
  BY <1>1, <1>4, <1>5, <1>6, <1>7, <1>13 DEF NewPaymentPage
<1>15. ASSUME open
       PROVE  PaymentAccepted(v, d, form)
  <2>1. /\ form.expectedRevision = debt[d].revision /\ form.expectedBasis = basis
        /\ form.due = due
    BY <1>13
  <2>2. <<basis, due>> \in AcceptedPayments(d) /\ basis \in Bases
    BY <1>2, <1>3, <1>15, FormFollows, BasisKnown
  <2>3. MayRecord(v)
    BY <1>1, <1>15 DEF MayRecord
  <2> QED
    BY <2>1, <2>2, <2>3 DEF PaymentAccepted, PaymentCommand
<1> QED
  BY <1>1, <1>8, <1>9, <1>10, <1>11, <1>12, <1>14, <1>15

\* What a list, a receipt and a form say of a void.
LEMMA VoidLinkFollows ==
    ASSUME Inv, Books, NEW d \in Debts, NEW v \in Viewers, MayRead(v),
           NEW p \in PaymentsOf(d), NEW view, view = HistoryView(d)
    PROVE  /\ p \in VoidablePayment(v, view) <=> VoidLink(v, p)
           /\ IF VoidLink(v, p) THEN \E seen \in VoidForm(v, p) : VoidAccepted(v, p, seen)
              ELSE VoidForm(v, p) = {} /\ ~VoidAccepted(v, p, debt[d].revision)
<1>1. p \in payments /\ p.debt = d
  BY DEF PaymentsOf
<1>2. {h.payment : h \in {g \in view.history : ~g.voided}} = Standing(d)
  <2> DEFINE standing == {h.payment : h \in {g \in view.history : ~g.voided}}
  <2>1. view.history = {[payment |-> q, voided |-> Voided(q)] : q \in PaymentsOf(d)}
    BY DEF HistoryView
  <2>2. ASSUME NEW q \in standing
        PROVE  q \in Standing(d)
    <3>1. PICK h \in view.history : ~h.voided /\ h.payment = q
      OBVIOUS
    <3>2. PICK r \in PaymentsOf(d) : h = [payment |-> r, voided |-> Voided(r)]
      BY <2>1
    <3>3. q = r /\ ~Voided(r)
      BY <3>1, <3>2
    <3> QED
      BY <3>3 DEF Standing, PaymentsOf
  <2>3. ASSUME NEW q \in Standing(d)
        PROVE  q \in standing
    <3>1. PICK h : h = [payment |-> q, voided |-> Voided(q)]
      OBVIOUS
    <3>2. h \in view.history /\ h.payment = q /\ ~h.voided
      BY <2>1, <3>1 DEF Standing, PaymentsOf
    <3> QED
      BY <3>2
  <2> QED
    BY <2>2, <2>3
<1>3. p \in VoidablePayment(v, view) <=>
        p \in Standing(d) /\ (\A q \in Standing(d) : q.revision <= p.revision) /\ VoidLink(v, p)
  BY <1>2 DEF VoidablePayment
<1>4. VoidLink(v, p) <=> MayVoid(v) /\ IsLatest(d, p)
  BY <1>1 DEF VoidLink, VoidOffered, IsLatest, Standing
<1>5. p \in VoidablePayment(v, view) <=> VoidLink(v, p)
  BY <1>3, <1>4 DEF IsLatest
<1>6. IsLatest(d, p) <=> Voidable(d, p, debt[d].revision)
  <2>1. debt[d].status \in Statuses
    BY BasisKnown DEF DebtRow
  <2>2. IsLatest(d, p) => RewardSource(d, p) # "inconsistent"
    BY <1>1, SourceFollows DEF VoidSourceProvable
  <2> QED
    BY <2>1, <2>2 DEF Voidable, Statuses
<1>7. VoidAccepted(v, p, debt[d].revision) <=> MayVoid(v) /\ IsLatest(d, p)
  BY <1>1, <1>6 DEF VoidAccepted, VoidCommand
<1>8. VoidForm(v, p) = IF VoidLink(v, p) THEN {debt[d].revision} ELSE {}
  BY <1>1 DEF VoidForm
<1> QED
  BY <1>4, <1>5, <1>7, <1>8

\* A receipt says "paid late" of the debts marked before.
LEMMA PaidLateFollows ==
    ASSUME Inv, Books, NEW d \in Debts, NEW v \in Viewers, NEW p \in PaymentsOf(d)
    PROVE  /\ ShopReceipt(v, p).paidLate = CustomerReceipt(p).paidLate
           /\ ShopReceipt(v, p).paidLate = (debt[d].status = "paid" /\ Has(d, "overdue") # {})
           /\ ShopReceipt(v, p).canVoid = VoidLink(v, p)
<1>1. p.debt = d
  BY DEF PaymentsOf
<1>2. /\ ReceiptView(p).status = debt[d].status /\ ReceiptView(p).basis = CurrentBasis(d)
  BY <1>1 DEF ReceiptView
<1>3. /\ ShopReceipt(v, p).paidLate = (debt[d].status = "paid" /\ CurrentBasis(d) = "original")
      /\ CustomerReceipt(p).paidLate = (debt[d].status = "paid" /\ CurrentBasis(d) = "original")
      /\ ShopReceipt(v, p).canVoid = VoidLink(v, p)
  BY <1>2 DEF ShopReceipt, CustomerReceipt
<1>4. debt[d].status = "paid" =>
        (CurrentBasis(d) = "original" <=> debt[d].overdueRevision # Unset)
  BY DEF CurrentBasis
<1>5. Has(d, "overdue") # {} <=> debt[d].overdueRevision # Unset
  <2>1. debt[d].overdueRevision # Unset => Has(d, "overdue") # {}
    BY DEF Inv, PenaltyInv
  <2>2. ASSUME NEW i \in Has(d, "overdue")
        PROVE  debt[d].overdueRevision # Unset
    <3>1. i \in DOMAIN events[d] /\ events[d][i].source = debt[d].overdueRevision
      BY DEF Inv, PenaltyInv, Has
    <3>2. events[d][i].source \in 3..debt[d].revision
      BY <3>1 DEF Inv, SourcesInv
    <3> QED
      BY <3>1, <3>2 DEF Unset
  <2> QED
    BY <2>1, <2>2
<1> QED
  BY <1>3, <1>4, <1>5

\* What the administrator is shown of a debt.
LEMMA SummaryKnown ==
    ASSUME Inv, Books, NEW ds, ds \subseteq Debts, NEW statuses, NEW d \in Debts
    PROVE  /\ d \in DOMAIN Summaries(ds, statuses) <=>
                d \in ds /\ debt[d].status \in statuses /\ debt[d].overdueAt # Unset
           /\ d \in DOMAIN Summaries(ds, statuses) =>
                /\ Summaries(ds, statuses)[d].status = debt[d].status
                /\ Summaries(ds, statuses)[d].overdueAt = debt[d].overdueAt
<1>1. \A e \in ds : ProgressOf({e})[e].due >= 0
  <2>1. ASSUME NEW e \in ds PROVE ProgressOf({e})[e].due >= 0
    <3>1. CurrentDue(e) \in Nat
      BY DueKnown
    <3>2. PICK own : own = {e}
      OBVIOUS
    <3>3. ProgressOf(own)[e].due = CurrentDue(e)
      <4>1. e \in own
        BY <3>2
      <4>2. ProgressOf(own)[e] =
              [posted |-> Posted(e), due |-> CurrentDue(e), basis |-> CurrentBasis(e),
               payable |-> ShownPayable(e)]
        BY <4>1, GroupedAlike
      <4> QED
        BY <4>2
    <3> QED
      BY <3>1, <3>2, <3>3
  <2> QED
    BY <2>1
<1> QED
  BY <1>1 DEF Summaries

\* The administrator's pages offer the write-offs that are accepted.
LEMMA WriteOffPagesFollow ==
    ASSUME Inv, Books, NEW d \in Debts
    PROVE  /\ WriteOffAccepted(d, debt[d].revision) <=> debt[d].status = "overdue"
           /\ \A seen \in AdminForm(d) : WriteOffAccepted(d, seen)
           /\ AdminForm(d) # {} <=> WriteOffAccepted(d, debt[d].revision)
           /\ CompletedView(d) # {} <=>
                debt[d].status \in {"written_off", "written_off_settled"}
<1>1. WriteOffAccepted(d, debt[d].revision) <=> debt[d].status = "overdue"
  BY SourcesFollow, BasisKnown DEF WriteOffAccepted, SourcesCoherent, MoneyOf
<1>2. /\ debt[d].status \in {"overdue", "written_off", "written_off_settled"} =>
           debt[d].overdueAt # Unset /\ debt[d].overdueRevision # Unset
      /\ debt[d].status \in {"written_off", "written_off_settled"} =>
           debt[d].writtenOffAt # Unset
  BY BasisKnown DEF RowInv
<1>3. CompletedView(d) # {} <=> debt[d].status \in {"written_off", "written_off_settled"}
  <2> DEFINE shown == Summaries({d}, {"written_off", "written_off_settled"})
  <2>1. d \in DOMAIN shown <=> debt[d].status \in {"written_off", "written_off_settled"}
    BY <1>2, SummaryKnown
  <2>2. d \in DOMAIN shown => shown[d].status = debt[d].status
    BY SummaryKnown
  <2>3. debt[d].status \in {"written_off", "written_off_settled"} =>
          CompletedRow(d) = {debt[d].status}
    BY <1>2 DEF CompletedRow
  <2> HIDE DEF shown
  <2>4. CompletedView(d) =
          IF d \in DOMAIN shown /\ shown[d].status \in CompletedRow(d) THEN {shown[d]} ELSE {}
    BY DEF CompletedView, shown
  <2> QED
    BY <2>1, <2>2, <2>3, <2>4
<1>4. FreshView(d) = IF debt[d].status = "overdue" THEN {debt[d].revision} ELSE {}
  BY <1>2, SummaryKnown DEF FreshView, WriteOffTarget
<1>5. AdminForm(d) = IF debt[d].status = "overdue" THEN {debt[d].revision} ELSE {}
  BY <1>3, <1>4 DEF AdminForm
<1> QED
  BY <1>1, <1>3, <1>5

\* and the list leaves none out that it has room for.
LEMMA ListShown ==
    ASSUME Inv, Books, NEW list \in WriteOffCandidates, NEW d \in Debts
    PROVE  IF d \in CandidatesShown(list)
           THEN WriteOffAccepted(d, debt[d].revision)
           ELSE WriteOffAccepted(d, debt[d].revision) =>
                   /\ Cardinality(CandidatesShown(list)) = ListSize
                   /\ \A c \in CandidatesShown(list) : debt[c].overdueAt <= debt[d].overdueAt
<1> DEFINE marked == {e \in Debts : debt[e].status = "overdue" /\ debt[e].overdueAt # Unset}
<1>1. /\ list \subseteq marked
      /\ list # marked => Cardinality(list) = ListSize
      /\ \A c \in list, e \in marked \ list : debt[c].overdueAt <= debt[e].overdueAt
  BY DEF WriteOffCandidates
<1>2. CandidatesShown(list) = list
  <2>1. \A e \in list : e \in Debts /\ debt[e].status = "overdue" /\ debt[e].overdueAt # Unset
    BY <1>1
  <2>2. list \subseteq Debts
    BY <2>1
  <2>3. \A e \in list : /\ e \in DOMAIN Summaries(list, {"overdue"})
                        /\ Summaries(list, {"overdue"})[e].overdueAt = debt[e].overdueAt
    BY <2>1, <2>2, SummaryKnown
  <2> QED
    BY <2>3 DEF CandidatesShown
<1>3. d \in marked <=> WriteOffAccepted(d, debt[d].revision)
  BY WriteOffPagesFollow, BasisKnown DEF RowInv
<1> QED
  BY <1>1, <1>2, <1>3

\* Every page offers what is accepted.
LEMMA OffersFollow == Inv /\ Books => PagesOfferWhatIsAccepted
<1> SUFFICES ASSUME Inv, Books PROVE PagesOfferWhatIsAccepted
  OBVIOUS
<1>1. ASSUME NEW d \in Debts, NEW v \in Viewers, MayRead(v), NEW p \in PaymentsOf(d)
      PROVE  LET link == p \in PaymentList(v, HistoryView(d)).voidable
                 receipt == ShopReceipt(v, p)
             IN  /\ receipt.canVoid = link
                 /\ receipt.paidLate = CustomerReceipt(p).paidLate
                 /\ receipt.paidLate =
                      (debt[d].status = "paid" /\ Has(d, "overdue") # {})
                 /\ IF link THEN \E seen \in VoidForm(v, p) : VoidAccepted(v, p, seen)
                    ELSE VoidForm(v, p) = {} /\ ~VoidAccepted(v, p, debt[d].revision)
  <2>1. PICK view : view = HistoryView(d)
    OBVIOUS
  <2>2. PaymentList(v, view).voidable = VoidablePayment(v, view)
    BY DEF PaymentList
  <2>3. p \in PaymentList(v, view).voidable <=> VoidLink(v, p)
    BY <1>1, <2>1, <2>2, VoidLinkFollows
  <2>4. ShopReceipt(v, p).canVoid = (p \in PaymentList(v, view).voidable)
    BY <2>3, PaidLateFollows DEF VoidLink
  <2>5. IF VoidLink(v, p) THEN \E seen \in VoidForm(v, p) : VoidAccepted(v, p, seen)
        ELSE VoidForm(v, p) = {} /\ ~VoidAccepted(v, p, debt[d].revision)
    BY <1>1, <2>1, VoidLinkFollows
  <2> QED
    BY <2>1, <2>3, <2>4, <2>5, PaidLateFollows
<1>2. ASSUME NEW d \in Debts, NEW v \in Viewers, MayRead(v)
      PROVE  LET open == AcceptedPayments(d) # {} /\ "create" \in Capabilities(v)
                 list == PaymentList(v, HistoryView(d))
                 forms == NewPaymentPage(v, HistoryView(d).detail)
             IN  /\ list.canCreate = open /\ CanRecord(v, HistoryView(d).detail) = open
                 /\ (forms # {}) = open /\ (list.readOnly = None) = open
                 /\ \A form \in forms : PaymentAccepted(v, d, form)
  BY <1>2, ListFollows
<1>3. \A d \in Debts : PaymentForm(d) = AcceptedPayments(d)
  BY FormFollows
<1> QED
  BY <1>1, <1>2, <1>3, ListShown, WriteOffPagesFollow DEF PagesOfferWhatIsAccepted

-----------------------------------------------------------------------------
(* The theorems.                                                           *)

\* One key for every payment, void and write-off, none without its effect, and a
\* retry finds the effect of its own command, whatever happened since.
THEOREM RetriesFindTheirEffects == Spec => []KeysExplainEffects
<1> QED
  BY EvidenceCoherent, KeysFollow, PTL

\* Every revision is one payment, one void or one marking, and a void puts the
\* total of app/payment/ledger.py back to what it was before its payment.
THEOREM LedgerIsAStack == Spec => []HistoryIsAStack
<1> QED
  BY EvidenceCoherent, StackFollows, PTL

\* read_pre_transition_source can explain the latest payment of every debt: no
\* void of it is refused as inconsistent.
THEOREM VoidsAreProvable == Spec => []VoidSourceProvable
<1> QED
  BY EvidenceCoherent, SourceFollows, PTL

\* The sources the write-off and the recovery read again are there, whichever of
\* the batch, the late payment and the void marked the debt.
THEOREM WriteOffSourcesThere == Spec => []SourcesCoherent
<1> QED
  BY EvidenceCoherent, SourcesFollow, PTL

\* The rating events that stand are those of the ledger as it stands, and a
\* customer has one bonus a day at most.
THEOREM RewardsAreOfTheLedger == Spec => []RewardsMatchLedger
<1> QED
  BY EvidenceCoherent, RewardsFollow, PTL

\* Payload, redaction and table accept every row of the trail, which tells the
\* life of each debt without a gap.
THEOREM TrailTellsOneStory == Spec => []AuditTrailUnbroken
<1> QED
  BY EvidenceCoherent, TrailFollows, PTL

\* A receipt, once given, is never another (app/payment/read_service.py derives
\* it "as of" the revision of its payment).
THEOREM ReceiptsAreFinal == Spec => ReceiptsNeverChange
<1>1. ASSUME Inv, [Next]_vars
      PROVE  [\A p \in payments : p \in payments' /\ ReceiptPage(p)' = ReceiptPage(p)]_vars
  <2>1. Types'
    BY <1>1, NextInv DEF Inv
  <2>2. CASE \E d \in Debts : Grows(d)
    BY <1>1, <2>1, <2>2, ReceiptsKept
  <2>3. CASE UNCHANGED <<debt, payments, voids>>
    <3>1. debt' = debt /\ payments' = payments /\ voids' = voids
      BY <2>3
    <3>2. ASSUME NEW p \in payments
          PROVE  ReceiptPage(p)' = ReceiptPage(p)
      BY <3>1 DEF ReceiptPage, HistoricalDue, HistoricalBasis, Due, PostedThrough
    <3> QED
      BY <3>1, <3>2
  <2> QED
    BY <1>1, <2>2, <2>3, NextGrows
<1> QED
  BY <1>1, EvidenceCoherent, PTL DEF Spec, ReceiptsNeverChange

\* app/payment, the write-off and the overdue batch, with the payment tables for
\* a posted total, do to every debt only what app/debt/contracts.py allows, under
\* its guards: each of their steps is a transition of each debt or leaves it alone.
THEOREM LedgerImplementsLifecycle == Spec => RefinesLifecycle
<1>1. Init => \A d \in Debts : Row(d)!AcceptedInit
  BY RowBegins
<1>2. Spec => [](Inv /\ Books)
  BY BooksInOrder
<1>3. (Inv /\ Books) /\ (Inv /\ Books)' /\ [Next]_vars => LifeGoesOn
  BY NextRows
<1>4. Spec => [][LifeGoesOn]_vars
  BY <1>2, <1>3, PTL DEF Spec
<1>5. Spec => [][\A d \in Debts : [Row(d)!Next]_(Row(d)!vars)]_vars
  BY <1>4 DEF LifeGoesOn
<1> QED
  BY <1>1, <1>5 DEF Spec, RefinesLifecycle

\* The types of the columns, no day that has not come, and no debt paid beyond
\* its original amount.
THEOREM TypeCorrect == Spec => []TypeOK
<1>1. Inv /\ Books => TypeOK
  BY TypesFollow
<1> QED
  BY <1>1, BooksInOrder, PTL

\* Whatever a ledger went through, its pages can be shown, agree with each other,
\* and show nothing due of what is closed.
THEOREM PagesAreShown == Spec => []PagesCompose
<1>1. Inv /\ Books => PagesCompose
  BY PagesFollow
<1> QED
  BY <1>1, BooksInOrder, PTL

\* Every page offers each viewer exactly what the mutation behind it accepts.
THEOREM PagesKeepTheirWord == Spec => []PagesOfferWhatIsAccepted
<1>1. Inv /\ Books => PagesOfferWhatIsAccepted
  BY OffersFollow
<1> QED
  BY <1>1, BooksInOrder, PTL

-----------------------------------------------------------------------------
(* The fold of a history.                                                  *)

HasLeast(T) == \E s \in T : \A t \in T : t \subseteq s => t = s

\* The least counterexample again, for sets of numbers.
LEMMA LeastThere ==
    \A S : IsFiniteSet(S) => \A T : T \subseteq SUBSET S => T = {} \/ HasLeast(T)
BY Least DEF HasLeast

\* Positions in a history have a last one.
LEMMA MaxIn ==
    ASSUME NEW n \in Nat, NEW s \in SUBSET (1..n), s # {}
    PROVE  Max(s) \in s /\ \A i \in s : Max(s) >= i
<1>0. PICK T : T = {{j \in s : j >= i} : i \in s}
  OBVIOUS
<1>1. IsFiniteSet(s)
  <2>1. IsFiniteSet(1..n)
    BY FS_Interval
  <2> QED
    BY <2>1, FS_Subset
<1>2. T \subseteq SUBSET s /\ T # {}
  BY <1>0
<1>3. PICK t \in T : \A u \in T : u \subseteq t => u = t
  <2>1. HasLeast(T)
    BY <1>1, <1>2, LeastThere
  <2> QED
    BY <2>1 DEF HasLeast
<1>4. PICK i \in s : t = {j \in s : j >= i}
  BY <1>0
<1>5. ASSUME NEW j \in s
      PROVE  i >= j
  <2> SUFFICES ASSUME j > i PROVE FALSE
    OBVIOUS
  <2>1. i \in Nat /\ j \in Nat /\ \A k \in s : k \in Nat
    OBVIOUS
  <2>2. PICK u : u = {k \in s : k >= j}
    OBVIOUS
  <2>3. u \in T /\ u \subseteq t /\ i \notin u /\ i \in t
    <3>1. u \in T
      BY <1>0, <2>2
    <3>2. i \notin u /\ i \in t
      BY <1>4, <1>5, <2>1, <2>2
    <3>3. ASSUME NEW k \in s, k >= j
          PROVE  k >= i
      BY <2>1, <3>3
    <3>4. u \subseteq t
      BY <1>4, <2>2, <3>3
    <3> QED
      BY <3>1, <3>2, <3>4
  <2> QED
    BY <1>3, <2>3
<1>6. \E x \in s : \A y \in s : x >= y
  BY <1>5
<1> QED
  BY <1>6 DEF Max

\* What FoldLeft computes of the first n events.
Folds(f, e, n) ==
    f = [s \in SUBSET (1..n) |->
           IF s = {} THEN Fresh ELSE Cycle(f[s \ {Max(s)}], e[Max(s)])]

Folded(e) == FoldLeft(Cycle, Fresh, e)

\* The fold is what one of these functions gives.
LEMMA FoldedIs ==
    ASSUME NEW n, NEW e, DOMAIN e = 1..n
    PROVE  Folded(e) = (CHOOSE f : Folds(f, e, n))[1..n]
BY DEF Folded, FoldLeft, MapThenFoldSet, Folds

\* Two of them agree on positions where the histories do.
LEMMA FoldsAgree ==
    ASSUME NEW m \in Nat, NEW n \in Nat, NEW e, NEW h, NEW f, NEW g,
           Folds(f, e, m), Folds(g, h, n),
           NEW k \in Nat, k <= m, k <= n, \A i \in 1..k : e[i] = h[i]
    PROVE  \A s \in SUBSET (1..k) : f[s] = g[s]
<1> SUFFICES ASSUME ~\A s \in SUBSET (1..k) : f[s] = g[s] PROVE FALSE
  OBVIOUS
<1>0. PICK Bad : Bad = {s \in SUBSET (1..k) : f[s] # g[s]}
  OBVIOUS
<1>1. PICK s \in Bad : \A t \in Bad : t \subseteq s => t = s
  <2>1. IsFiniteSet(1..k)
    BY FS_Interval
  <2>2. Bad # {} /\ Bad \subseteq SUBSET (1..k)
    BY <1>0
  <2>3. HasLeast(Bad)
    BY <2>1, <2>2, LeastThere
  <2> QED
    BY <2>3 DEF HasLeast
<1>2. s \in SUBSET (1..m) /\ s \in SUBSET (1..n) /\ s \in SUBSET (1..k)
  BY <1>0, <1>1
<1>3. s # {}
  BY <1>0, <1>1, <1>2 DEF Folds
<1>4. Max(s) \in s /\ Max(s) \in 1..k
  BY <1>2, <1>3, MaxIn
<1>5. PICK t : t = s \ {Max(s)}
  OBVIOUS
<1>6. f[t] = g[t]
  BY <1>0, <1>1, <1>2, <1>4, <1>5
<1>7. f[s] = Cycle(f[t], e[Max(s)])
  BY <1>2, <1>3, <1>5 DEF Folds
<1>8. g[s] = Cycle(g[t], h[Max(s)])
  BY <1>2, <1>3, <1>5 DEF Folds
<1>9. e[Max(s)] = h[Max(s)]
  BY <1>4
<1> QED
  BY <1>0, <1>1, <1>6, <1>7, <1>8, <1>9

\* There is one.
LEMMA FoldsExist ==
    ASSUME NEW n \in Nat, NEW e
    PROVE  \E f : Folds(f, e, n)
<1> SUFFICES ASSUME ~\E f : Folds(f, e, n) PROVE FALSE
  OBVIOUS
<1>0. PICK Bad : Bad = {s \in SUBSET (1..n) : \E k \in 0..n : s = 1..k /\ ~\E f : Folds(f, e, k)}
  OBVIOUS
<1>1. PICK s \in Bad : \A t \in Bad : t \subseteq s => t = s
  <2>1. 1..n \in Bad
    BY <1>0
  <2>2. IsFiniteSet(1..n)
    BY FS_Interval
  <2>3. Bad # {} /\ Bad \subseteq SUBSET (1..n)
    BY <1>0, <2>1
  <2>4. HasLeast(Bad)
    BY <2>2, <2>3, LeastThere
  <2> QED
    BY <2>4 DEF HasLeast
<1>2. PICK k \in 0..n : s = 1..k /\ ~\E f : Folds(f, e, k)
  BY <1>0, <1>1
<1>3. CASE k = 0
  <2>1. 1..k = {} /\ SUBSET (1..k) = {{}}
    BY <1>3
  <2> DEFINE f == [t \in {{}} |-> Fresh]
  <2>2. f = [t \in {{}} |-> IF t = {} THEN Fresh ELSE Cycle(f[t \ {Max(t)}], e[Max(t)])]
    <3>1. \A t \in {{}} : f[t] = IF t = {} THEN Fresh ELSE Cycle(f[t \ {Max(t)}], e[Max(t)])
      OBVIOUS
    <3> QED
      BY <3>1, Zenon
  <2>3. Folds(f, e, k)
    BY <2>1, <2>2 DEF Folds
  <2> QED
    BY <1>2, <2>3
<1>4. CASE k # 0
  <2>1. PICK j : j = k - 1
    OBVIOUS
  <2>2. j \in 0..n /\ j \in Nat /\ k \in Nat /\ 1..j \subseteq 1..k /\ 1..j # 1..k
        /\ 1..j \in SUBSET (1..n)
    <3>1. k \in 1..k /\ k \notin 1..j
      BY <1>4, <2>1
    <3> QED
      BY <1>4, <2>1, <3>1
  <2>3. PICK g : Folds(g, e, j)
    BY <1>0, <1>1, <1>2, <2>2
  <2>4. ASSUME NEW t \in SUBSET (1..k), t # {}
        PROVE  /\ Max(t) \in 1..k /\ t \ {Max(t)} \in SUBSET (1..j)
               /\ t \in SUBSET (1..j) => Max(t) \in 1..j
    <3>1. Max(t) \in t /\ \A i \in t : Max(t) >= i
      BY <2>2, <2>4, MaxIn
    <3>2. ASSUME NEW i \in t, i # Max(t)
          PROVE  i \in 1..j
      <4>1. i \in 1..k /\ Max(t) \in 1..k /\ Max(t) >= i
        BY <2>4, <3>1
      <4> QED
        BY <2>1, <2>2, <3>2, <4>1
    <3> QED
      BY <2>4, <3>1, <3>2
  <2> DEFINE f == [t \in SUBSET (1..k) |->
                     IF t \in SUBSET (1..j) THEN g[t] ELSE Cycle(g[t \ {Max(t)}], e[Max(t)])]
  <2>5. \A t \in SUBSET (1..j) : t \in SUBSET (1..k) /\ f[t] = g[t]
    BY <2>2
  <2>6. ASSUME NEW t \in SUBSET (1..k)
        PROVE  f[t] = IF t = {} THEN Fresh ELSE Cycle(f[t \ {Max(t)}], e[Max(t)])
    <3>1. CASE t \in SUBSET (1..j)
      <4>1. f[t] = IF t = {} THEN Fresh ELSE Cycle(g[t \ {Max(t)}], e[Max(t)])
        BY <2>3, <2>5, <3>1 DEF Folds
      <4>2. t # {} => f[t \ {Max(t)}] = g[t \ {Max(t)}]
        BY <2>4, <2>5
      <4> HIDE DEF f
      <4> QED
        BY <4>1, <4>2
    <3>2. CASE t \notin SUBSET (1..j)
      <4>1. t # {} /\ f[t] = Cycle(g[t \ {Max(t)}], e[Max(t)])
        BY <3>2
      <4>2. f[t \ {Max(t)}] = g[t \ {Max(t)}]
        BY <2>4, <2>5, <4>1
      <4> HIDE DEF f
      <4> QED
        BY <4>1, <4>2
    <3> QED
      BY <3>1, <3>2
  <2>7. f = [t \in SUBSET (1..k) |-> f[t]]
    OBVIOUS
  <2>8. Folds(f, e, k)
    <3> HIDE DEF f
    <3> QED
      BY <2>6, <2>7 DEF Folds
  <2> QED
    BY <1>2, <2>8
<1> QED
  BY <1>3, <1>4

\* The fold of nothing, and of a history with an event more.
LEMMA FoldedAppend ==
    /\ Folded(<<>>) = Fresh
    /\ \A e \in Seq(RatingEvent), x \in RatingEvent :
         Folded(Append(e, x)) = Cycle(Folded(e), x)
<1>1. Folded(<<>>) = Fresh
  <2>1. PICK f : f = CHOOSE g : Folds(g, <<>>, 0)
    OBVIOUS
  <2>2. Folds(f, <<>>, 0)
    BY <2>1, FoldsExist
  <2>3. DOMAIN <<>> = 1..0 /\ 1..0 = {}
    OBVIOUS
  <2>4. Folded(<<>>) = f[1..0]
    BY <2>1, <2>3, FoldedIs
  <2>5. f[{}] = Fresh
    BY <2>2 DEF Folds
  <2> QED
    BY <2>3, <2>4, <2>5
<1>2. ASSUME NEW e \in Seq(RatingEvent), NEW x \in RatingEvent
      PROVE  Folded(Append(e, x)) = Cycle(Folded(e), x)
  <2>1. PICK n \in Nat : n = Len(e)
    OBVIOUS
  <2>2. PICK h : h = Append(e, x)
    OBVIOUS
  <2>3. DOMAIN e = 1..n /\ DOMAIN h = 1..(n + 1) /\ h[n + 1] = x /\ \A i \in 1..n : e[i] = h[i]
    BY <2>1, <2>2
  <2>4. PICK f : f = CHOOSE u : Folds(u, e, n)
    OBVIOUS
  <2>5. PICK g : g = CHOOSE u : Folds(u, h, n + 1)
    OBVIOUS
  <2>6. Folds(f, e, n) /\ Folds(g, h, n + 1)
    <3>1. n + 1 \in Nat
      OBVIOUS
    <3> QED
      BY <2>4, <2>5, <3>1, FoldsExist
  <2>7. Folded(e) = f[1..n] /\ Folded(h) = g[1..(n + 1)]
    BY <2>3, <2>4, <2>5, FoldedIs
  <2>8. PICK s : s = 1..(n + 1)
    OBVIOUS
  <2>9. Max(s) = n + 1 /\ s \ {Max(s)} = 1..n /\ s # {}
    <3>0. n + 1 \in Nat /\ n + 1 \in 1..(n + 1)
      OBVIOUS
    <3>1. s \in SUBSET (1..(n + 1)) /\ s # {} /\ n + 1 \in s /\ n + 1 \in Nat
      BY <2>8, <3>0
    <3>2. Max(s) \in s /\ Max(s) >= n + 1
      BY <3>1, MaxIn
    <3> QED
      BY <2>8, <3>1, <3>2
  <2>10. g[s] = Cycle(g[s \ {Max(s)}], h[Max(s)])
    BY <2>6, <2>8, <2>9 DEF Folds
  <2>11. f[1..n] = g[1..n]
    <3>1. n + 1 \in Nat /\ n <= n /\ n <= n + 1 /\ 1..n \in SUBSET (1..n)
      OBVIOUS
    <3>2. \A i \in 1..n : e[i] = h[i]
      BY <2>3
    <3>3. \A u \in SUBSET (1..n) : f[u] = g[u]
      BY <2>6, <3>1, <3>2, FoldsAgree
    <3> QED
      BY <3>1, <3>3
  <2> QED
    BY <2>2, <2>3, <2>7, <2>8, <2>9, <2>10, <2>11
<1> QED
  BY <1>1, <1>2

-----------------------------------------------------------------------------
(* A history, as a sequence.                                               *)

At(s, type) == {i \in DOMAIN s : s[i].type = type}

From(s, type) == {s[i].source : i \in At(s, type)}

\* Where the cycles of a debt with this history are.
Reached(s) ==
    [ok |-> TRUE,
     overdue |-> At(s, "overdue") # {},
     writtenOff |-> At(s, "written_off") # {},
     earned |-> From(s, "on_time_paid"),
     earnedVoided |-> From(s, "on_time_paid_voided"),
     settled |-> From(s, "written_off_settled"),
     settledVoided |-> From(s, "written_off_settled_voided")]

\* In order, of sources that are new, and each cycle possible.
Lawful(s) ==
    /\ \A i, j \in DOMAIN s : i < j => s[i].at <= s[j].at
    /\ \A i, j \in DOMAIN s : s[i].type = s[j].type /\ s[i].source = s[j].source => i = j
    /\ Folded(s) = Reached(s)

\* An event that a history can be continued by.
Continues(s, e) ==
    /\ \A i \in DOMAIN s : s[i].at <= e.at
    /\ e.source \notin From(s, e.type)
    /\ Accepts(Reached(s), e)

\* What is there of each type after an event.
LEMMA AppendAt ==
    ASSUME NEW s \in Seq(RatingEvent), NEW e \in RatingEvent, NEW type
    PROVE  /\ At(Append(s, e), type) =
                IF e.type = type THEN At(s, type) \cup {Len(s) + 1} ELSE At(s, type)
           /\ From(Append(s, e), type) =
                IF e.type = type THEN From(s, type) \cup {e.source} ELSE From(s, type)
<1>1. PICK n \in Nat : n = Len(s)
  OBVIOUS
<1>2. PICK h : h = Append(s, e)
  OBVIOUS
<1>3. /\ DOMAIN s = 1..n /\ DOMAIN h = 1..(n + 1) /\ h[n + 1] = e
      /\ \A i \in 1..n : h[i] = s[i]
  BY <1>1, <1>2
<1>4. 1..(n + 1) = (1..n) \cup {n + 1} /\ n + 1 \notin 1..n
  OBVIOUS
<1>5. At(h, type) = IF e.type = type THEN At(s, type) \cup {n + 1} ELSE At(s, type)
  BY <1>3, <1>4 DEF At
<1>6. At(s, type) \subseteq 1..n
  BY <1>3 DEF At
<1>7. From(h, type) = IF e.type = type THEN From(s, type) \cup {e.source} ELSE From(s, type)
  <2>1. CASE e.type = type
    <3>1. ASSUME NEW x \in From(h, type)
          PROVE  x \in From(s, type) \cup {e.source}
      BY <1>3, <1>5, <1>6, <2>1, <3>1 DEF From
    <3>2. ASSUME NEW x \in From(s, type) \cup {e.source}
          PROVE  x \in From(h, type)
      BY <1>3, <1>5, <1>6, <2>1, <3>2 DEF From
    <3> QED
      BY <2>1, <3>1, <3>2
  <2>2. CASE e.type # type
    <3>1. At(h, type) = At(s, type) /\ \A i \in At(s, type) : h[i] = s[i]
      BY <1>3, <1>5, <1>6, <2>2
    <3> QED
      BY <2>2, <3>1 DEF From
  <2> QED
    BY <2>1, <2>2
<1> QED
  BY <1>1, <1>2, <1>5, <1>7

\* The cycles go on by one.
LEMMA AppendReaches ==
    ASSUME NEW s \in Seq(RatingEvent), NEW e \in RatingEvent, Accepts(Reached(s), e)
    PROVE  Cycle(Reached(s), e) = Reached(Append(s, e))
<1>1. PICK h : h = Append(s, e)
  OBVIOUS
<1>2. \A type :
        /\ At(h, type) # {} <=> At(s, type) # {} \/ e.type = type
        /\ From(h, type) =
             IF e.type = type THEN From(s, type) \cup {e.source} ELSE From(s, type)
  BY <1>1, AppendAt
<1>3. Reached(s).ok = TRUE /\ Accepts(Reached(s), e) \in BOOLEAN
  BY DEF Reached, Accepts
<1> QED
  BY <1>1, <1>2, <1>3 DEF Cycle, Reached

\* A lawful history continued stays one.
LEMMA LawfulContinued ==
    ASSUME NEW s \in Seq(RatingEvent), NEW e \in RatingEvent, Lawful(s), Continues(s, e)
    PROVE  Append(s, e) \in Seq(RatingEvent) /\ Lawful(Append(s, e))
<1>1. PICK n \in Nat : n = Len(s)
  OBVIOUS
<1>2. PICK h : h = Append(s, e)
  OBVIOUS
<1>3. /\ DOMAIN s = 1..n /\ DOMAIN h = 1..(n + 1) /\ h[n + 1] = e
      /\ \A i \in 1..n : h[i] = s[i]
      /\ h \in Seq(RatingEvent)
  BY <1>1, <1>2
<1>4. ASSUME NEW i \in DOMAIN h, NEW j \in DOMAIN h, i < j
      PROVE  h[i].at <= h[j].at
  BY <1>3, <1>4 DEF Lawful, Continues
<1>5. \A i \in 1..n : s[i].type = e.type => s[i].source # e.source
  BY <1>3 DEF Continues, From, At
<1>6. ASSUME NEW i \in DOMAIN h, NEW j \in DOMAIN h, h[i].type = h[j].type,
             h[i].source = h[j].source
      PROVE  i = j
  BY <1>3, <1>5, <1>6 DEF Lawful
<1>7. Folded(h) = Reached(h)
  <2>1. Folded(h) = Cycle(Folded(s), e)
    BY <1>2, FoldedAppend
  <2>2. Folded(s) = Reached(s) /\ Accepts(Reached(s), e)
    BY DEF Lawful, Continues
  <2> QED
    BY <1>2, <2>1, <2>2, AppendReaches
<1> QED
  BY <1>2, <1>3, <1>4, <1>6, <1>7 DEF Lawful

\* So is one that has not begun.
LEMMA LawfulEmpty == Lawful(<<>>)
<1>1. \A type : At(<<>>, type) = {} /\ From(<<>>, type) = {}
  BY DEF At, From
<1>2. Reached(<<>>) = Fresh
  BY <1>1 DEF Reached, Fresh
<1> QED
  BY <1>2, FoldedAppend DEF Lawful

\* A compensation is of a reward that was there before it, and of what was
\* posted, audited and voided with it.
Backed(d, e, r, ps, as, vs) ==
    /\ \E p \in ps : p.debt = d /\ p.revision = e.source /\ p.at = r.at
    /\ \E a \in as : /\ a.debt = d /\ a.revision = e.source /\ a.at = r.at
                     /\ a.type = AuditOfReward(r.type)
    /\ \E v \in vs : v.debt = d /\ v.payment = e.source /\ v.at = e.at

Rewarded(e, r) == r.type = Reward[e.type] /\ r.source = e.source

Explained(d, s, revision, ps, as, vs) ==
    \A i \in DOMAIN s : s[i].type \in DOMAIN Reward =>
        /\ s[i].source < revision
        /\ \E j \in 1..(i - 1) : Rewarded(s[i], s[j]) /\ Backed(d, s[i], s[j], ps, as, vs)

Within(s, day) == \A i \in DOMAIN s : s[i].at <= day

\* Every history is lawful and explained, and was made in time as long as its
\* debt is active: what a batch that began earlier appends still comes last.
Chronicled(d) ==
    /\ Lawful(events[d])
    /\ Explained(d, events[d], debt[d].revision, payments, audits, voids)
    /\ debt[d].status = "active" => Within(events[d], DueDate[d])

Chronicle == \A d \in Debts : Chronicled(d)

\* What explains stays.
LEMMA StillExplained ==
    ASSUME NEW d, NEW s \in Seq(RatingEvent), NEW m \in Nat, NEW n \in Nat, m <= n,
           NEW ps, NEW as, NEW vs, NEW qs, NEW bs, NEW ws,
           ps \subseteq qs, as \subseteq bs, vs \subseteq ws, Explained(d, s, m, ps, as, vs)
    PROVE  Explained(d, s, n, qs, bs, ws)
<1> SUFFICES ASSUME NEW i \in DOMAIN s, s[i].type \in DOMAIN Reward
             PROVE  /\ s[i].source < n
                    /\ \E j \in 1..(i - 1) :
                         Rewarded(s[i], s[j]) /\ Backed(d, s[i], s[j], qs, bs, ws)
  BY DEF Explained
<1>1. s[i].source < m
  BY DEF Explained
<1>2. PICK j \in 1..(i - 1) : Rewarded(s[i], s[j]) /\ Backed(d, s[i], s[j], ps, as, vs)
  BY DEF Explained
<1>3. Backed(d, s[i], s[j], qs, bs, ws)
  BY <1>2 DEF Backed
<1>4. s[i].source \in Nat
  <2>1. s[i] \in RatingEvent
    OBVIOUS
  <2> QED
    BY <2>1 DEF RatingEvent
<1> QED
  BY <1>1, <1>2, <1>3, <1>4

\* One event more.
LEMMA ExplainedContinued ==
    ASSUME NEW d, NEW s \in Seq(RatingEvent), NEW e \in RatingEvent, NEW n \in Nat,
           NEW ps, NEW as, NEW vs, Explained(d, s, n, ps, as, vs),
           e.type \in DOMAIN Reward =>
             /\ e.source < n
             /\ \E j \in DOMAIN s : Rewarded(e, s[j]) /\ Backed(d, e, s[j], ps, as, vs)
    PROVE  Explained(d, Append(s, e), n, ps, as, vs)
<1>1. PICK k \in Nat : k = Len(s)
  OBVIOUS
<1>2. PICK h : h = Append(s, e)
  OBVIOUS
<1>3. /\ DOMAIN s = 1..k /\ DOMAIN h = 1..(k + 1) /\ h[k + 1] = e
      /\ \A i \in 1..k : h[i] = s[i]
  BY <1>1, <1>2
<1>4. ASSUME NEW i \in DOMAIN h, h[i].type \in DOMAIN Reward
      PROVE  /\ h[i].source < n
             /\ \E j \in 1..(i - 1) : Rewarded(h[i], h[j]) /\ Backed(d, h[i], h[j], ps, as, vs)
  <2>1. CASE i = k + 1
    <3>1. h[i] = e /\ 1..(i - 1) = 1..k /\ e.source < n
      <4>1. h[i] = e /\ i - 1 = k
        BY <1>3, <2>1
      <4> QED
        BY <1>4, <4>1
    <3>2. PICK j \in 1..k : Rewarded(e, s[j]) /\ Backed(d, e, s[j], ps, as, vs)
      BY <1>3, <1>4, <3>1
    <3>3. h[j] = s[j]
      BY <1>3
    <3> QED
      BY <3>1, <3>2, <3>3
  <2>2. CASE i # k + 1
    <3>1. i \in 1..k /\ h[i] = s[i] /\ i \in DOMAIN s
      BY <1>3, <2>2
    <3>2. PICK j \in 1..(i - 1) : Rewarded(s[i], s[j]) /\ Backed(d, s[i], s[j], ps, as, vs)
      BY <1>4, <3>1 DEF Explained
    <3>3. j \in 1..k /\ h[j] = s[j]
      BY <1>3, <3>1
    <3> QED
      BY <1>4, <3>1, <3>2, <3>3 DEF Explained
  <2> QED
    BY <2>1, <2>2
<1> QED
  BY <1>2, <1>4 DEF Explained

\* and nothing but what was before.
LEMMA WithinContinued ==
    ASSUME NEW s \in Seq(RatingEvent), NEW e \in RatingEvent, NEW day \in Nat,
           Within(s, day), e.at <= day
    PROVE  Within(Append(s, e), day)
<1>1. PICK k \in Nat : k = Len(s)
  OBVIOUS
<1>2. PICK h : h = Append(s, e)
  OBVIOUS
<1>3. /\ DOMAIN s = 1..k /\ DOMAIN h = 1..(k + 1) /\ h[k + 1] = e
      /\ \A i \in 1..k : h[i] = s[i]
  BY <1>1, <1>2
<1> QED
  BY <1>2, <1>3 DEF Within

-----------------------------------------------------------------------------
(* What the invariant says of a history.                                   *)

\* The events of a debt, before it is said what they are.
LEMMA HistoryIs ==
    ASSUME Inv, TypeOK, NEW d \in Debts
    PROVE  /\ events[d] \in Seq(RatingEvent) /\ today \in Nat
           /\ debt[d] \in DebtRow /\ debt[d].revision \in Nat /\ RowInv(d)
           /\ Within(events[d], today)
           /\ \A type : \A source \in From(events[d], type) :
                source \in Nat /\ source <= debt[d].revision
           /\ debt[d].overdueRevision = Unset <=> At(events[d], "overdue") = {}
           /\ debt[d].writtenOffRevision = Unset <=> At(events[d], "written_off") = {}
<1>1. Types /\ RowInv(d) /\ SourcesInv /\ PenaltyInv
  BY DEF Inv
<1>2. /\ events[d] \in Seq(RatingEvent) /\ today \in Nat
      /\ debt[d] \in DebtRow /\ debt[d].revision \in Nat
  BY <1>1 DEF Types, DebtRow
<1>3. Within(events[d], today)
  BY <1>2 DEF TypeOK, Within, Day
<1>4. \A i \in DOMAIN events[d] : events[d][i].source \in 3..debt[d].revision
  BY <1>1 DEF SourcesInv
<1>5. \A type : Has(d, type) = At(events[d], type)
  BY DEF Has, At
<1>6. \A type : \A source \in From(events[d], type) :
        source \in Nat /\ source <= debt[d].revision
  BY <1>2, <1>4 DEF From, At
<1>7. ASSUME debt[d].overdueRevision = Unset
      PROVE  At(events[d], "overdue") = {}
  BY <1>1, <1>4, <1>5, <1>7 DEF PenaltyInv, Unset, At
<1>8. ASSUME debt[d].writtenOffRevision = Unset
      PROVE  At(events[d], "written_off") = {}
  BY <1>1, <1>4, <1>5, <1>8 DEF PenaltyInv, Unset, At
<1>9. /\ debt[d].overdueRevision # Unset => At(events[d], "overdue") # {}
      /\ debt[d].writtenOffRevision # Unset => At(events[d], "written_off") # {}
  BY <1>1, <1>5 DEF PenaltyInv
<1> QED
  BY <1>1, <1>2, <1>3, <1>6, <1>7, <1>8, <1>9

\* Only a terminal status has a reward that was not taken back.
LEMMA AllTakenBack ==
    ASSUME Inv, NEW d \in Debts
    PROVE  /\ debt[d].status # "paid" =>
                From(events[d], "on_time_paid") \subseteq From(events[d], "on_time_paid_voided")
           /\ debt[d].status # "written_off_settled" =>
                From(events[d], "written_off_settled")
                  \subseteq From(events[d], "written_off_settled_voided")
           /\ \A source \in From(events[d], "on_time_paid")
                              \ From(events[d], "on_time_paid_voided") :
                source = debt[d].revision /\ debt[d].overdueRevision = Unset
<1>1. BonusInv /\ SettlementInv
  BY DEF Inv
<1>2. \A type : Has(d, type) = At(events[d], type)
  BY DEF Has, At
<1>3. ASSUME NEW type, NEW voided, NEW source \in From(events[d], type) \ From(events[d], voided)
      PROVE  \E i \in Open(d, type, voided) : events[d][i].source = source
  <2>1. PICK i \in At(events[d], type) : events[d][i].source = source
    BY <1>3 DEF From
  <2>2. \A j \in At(events[d], voided) : events[d][j].source # source
    BY <1>3 DEF From
  <2> QED
    BY <1>2, <2>1, <2>2 DEF Open
<1>4. \A source \in From(events[d], "on_time_paid") \ From(events[d], "on_time_paid_voided") :
        /\ debt[d].status = "paid" /\ source = debt[d].revision
        /\ debt[d].overdueRevision = Unset
  BY <1>1, <1>3 DEF BonusInv
<1>5. \A source \in From(events[d], "written_off_settled")
                      \ From(events[d], "written_off_settled_voided") :
        debt[d].status = "written_off_settled"
  BY <1>1, <1>3 DEF SettlementInv
<1> QED
  BY <1>4, <1>5

\* What explained a history explains it when the debt and the books have moved on.
LEMMA StandsToTheBooks ==
    ASSUME NEW d \in Debts, events[d] \in Seq(RatingEvent), Chronicled(d),
           debt[d].revision \in Nat, debt'[d].revision \in Nat,
           debt[d].revision <= debt'[d].revision,
           payments \subseteq payments', audits \subseteq audits', voids \subseteq voids'
    PROVE  Explained(d, events[d], debt'[d].revision, payments', audits', voids')
<1>1. Explained(d, events[d], debt[d].revision, payments, audits, voids)
  BY DEF Chronicled
<1>2. PICK s, m, n : s = events[d] /\ m = debt[d].revision /\ n = debt'[d].revision
  OBVIOUS
<1>3. s \in Seq(RatingEvent) /\ m \in Nat /\ n \in Nat /\ m <= n
      /\ Explained(d, s, m, payments, audits, voids)
  BY <1>1, <1>2
<1>4. Explained(d, s, n, payments', audits', voids')
  BY <1>3, StillExplained
<1> QED
  BY <1>2, <1>4

\* A history that is left alone.
LEMMA QuietTold ==
    ASSUME NEW d \in Debts, events[d] \in Seq(RatingEvent), events'[d] = events[d], Chronicled(d),
           debt[d].revision \in Nat, debt'[d].revision \in Nat,
           debt[d].revision <= debt'[d].revision,
           payments \subseteq payments', audits \subseteq audits', voids \subseteq voids',
           debt'[d].status = "active" => Within(events[d], DueDate[d])
    PROVE  Chronicled(d)'
<1>1. Explained(d, events[d], debt'[d].revision, payments', audits', voids')
  BY StandsToTheBooks
<1> QED
  BY <1>1 DEF Chronicled

\* A history with an event more.
LEMMA AppendTold ==
    ASSUME NEW d \in Debts, events[d] \in Seq(RatingEvent), NEW e \in RatingEvent,
           events'[d] = Append(events[d], e), Chronicled(d), Continues(events[d], e),
           debt[d].revision \in Nat, debt'[d].revision \in Nat,
           debt[d].revision <= debt'[d].revision,
           payments \subseteq payments', audits \subseteq audits', voids \subseteq voids',
           e.type \notin DOMAIN Reward, debt'[d].status # "active"
    PROVE  Chronicled(d)'
<1>1. Explained(d, events[d], debt'[d].revision, payments', audits', voids')
  BY StandsToTheBooks
<1>2. Explained(d, Append(events[d], e), debt'[d].revision, payments', audits', voids')
  BY <1>1, ExplainedContinued
<1>3. Lawful(Append(events[d], e))
  BY LawfulContinued DEF Chronicled
<1> QED
  BY <1>2, <1>3 DEF Chronicled

\* The other histories are as they were.
LEMMA ChronicleKept ==
    ASSUME Inv, TypeOK, Chronicle, NEW d \in Debts, Grows(d), audits \subseteq audits',
           \A c \in Debts \ {d} : events'[c] = events[c], Chronicled(d)'
    PROVE  Chronicle'
<1> SUFFICES ASSUME NEW c \in Debts PROVE Chronicled(c)'
  BY DEF Chronicle
<1>1. CASE c = d
  BY <1>1
<1>2. CASE c # d
  <2>1. debt'[c] = debt[c] /\ events'[c] = events[c]
        /\ payments \subseteq payments' /\ voids \subseteq voids'
    BY <1>2 DEF Grows
  <2>2. events[c] \in Seq(RatingEvent) /\ debt[c].revision \in Nat
    BY HistoryIs
  <2>3. Chronicled(c)
    BY DEF Chronicle
  <2>4. debt'[c].status = "active" => Within(events[c], DueDate[c])
    BY <2>1, <2>3 DEF Chronicled
  <2>5. debt'[c].revision \in Nat /\ debt[c].revision <= debt'[c].revision
    BY <2>1, <2>2
  <2> QED
    BY <2>1, <2>2, <2>3, <2>4, <2>5, QuietTold
<1> QED
  BY <1>1, <1>2

-----------------------------------------------------------------------------
(* The steps.                                                              *)

\* An event of this step is of a revision that is new.
LEMMA NewSource ==
    ASSUME Inv, TypeOK, NEW d \in Debts, NEW n \in Nat, n > debt[d].revision, NEW type
    PROVE  n \notin From(events[d], type)
<1>1. debt[d].revision \in Nat
  BY HistoryIs
<1>2. \A source \in From(events[d], type) : source \in Nat /\ source <= debt[d].revision
  BY HistoryIs
<1> QED
  BY <1>1, <1>2

\* What a step on a debt leaves of its rows.
LEMMA GrowsOn ==
    ASSUME Inv, Types', Chronicle, NEW d \in Debts, Grows(d)
    PROVE  /\ debt[d].revision \in Nat /\ debt'[d].revision \in Nat
           /\ debt[d].revision <= debt'[d].revision
           /\ payments \subseteq payments' /\ voids \subseteq voids'
           /\ Chronicled(d) /\ events[d] \in Seq(RatingEvent)
<1>1. Types
  BY DEF Inv
<1>2. debt[d] \in DebtRow /\ debt'[d] \in DebtRow /\ events[d] \in Seq(RatingEvent)
  BY <1>1 DEF Types
<1>3. debt[d].revision \in Nat /\ debt'[d].revision \in Nat
  BY <1>2 DEF DebtRow
<1>4. /\ debt'[d].revision > debt[d].revision
      /\ payments \subseteq payments' /\ voids \subseteq voids'
  BY DEF Grows
<1> QED
  BY <1>2, <1>3, <1>4 DEF Chronicle

\* A payment on time continues with its bonus.
LEMMA OnTimeTold ==
    ASSUME Inv, TypeOK, Chronicle, NEW d \in Debts, NEW seen \in Nat, NEW basis \in Bases,
           NEW amount \in 1..OriginalAmount[d], RecordPayment(d, seen, basis, amount)
    PROVE  Chronicle'
<1>1. /\ events[d] \in Seq(RatingEvent) /\ today \in Nat
      /\ debt[d] \in DebtRow /\ debt[d].revision \in Nat /\ RowInv(d)
      /\ Within(events[d], today) /\ Types /\ debt \in [Debts -> DebtRow]
      /\ events \in [Debts -> Seq(RatingEvent)]
  BY HistoryIs DEF Inv, Types
<1>2. Types' /\ Others(d) /\ Pays(d, seen, basis, amount, FALSE)
  BY <1>1, OnTimePays
<1>3. Grows(d) /\ audits \subseteq audits'
  <2>1. Grows(d) /\ Records(d, PaymentRows(d, FALSE))
    BY <1>1, <1>2, PaysGrows
  <2> QED
    BY <2>1 DEF Records
<1>4. /\ debt[d].revision \in Nat /\ debt'[d].revision \in Nat
      /\ debt[d].revision <= debt'[d].revision
      /\ payments \subseteq payments' /\ voids \subseteq voids'
      /\ Chronicled(d) /\ events[d] \in Seq(RatingEvent)
  BY <1>2, <1>3, GrowsOn
<1>5. PICK e : e = Event("on_time_paid", debt[d].revision + 1)
  OBVIOUS
<1>6. e \in RatingEvent /\ e.type = "on_time_paid" /\ e.source = debt[d].revision + 1 /\ e.at = today
  BY <1>1, <1>5 DEF Event, RatingEvent, EventTypes
<1>7. PICK full \in BOOLEAN : full = (amount = Remaining(d))
  OBVIOUS
<1>8. /\ debt'[d].status = IF full THEN "paid" ELSE debt[d].status
      /\ events' = IF full /\ EarnsOnTimeBonus(d)
                   THEN [events EXCEPT ![d] = Append(@, e)] ELSE events
  BY <1>1, <1>5, <1>7 DEF RecordPayment, DebtRow
<1>9. CASE full /\ EarnsOnTimeBonus(d)
  <2>1. events'[d] = Append(events[d], e) /\ \A c \in Debts \ {d} : events'[c] = events[c]
    BY <1>1, <1>8, <1>9
  <2>2. At(events[d], "overdue") = {}
    BY <1>9, HistoryIs DEF EarnsOnTimeBonus
  <2>3. e.source \notin From(events[d], e.type)
    BY <1>1, <1>6, NewSource
  <2>4. Accepts(Reached(events[d]), e)
    BY <1>6, <2>2, <2>3 DEF Accepts, Reached
  <2>5. Continues(events[d], e)
    BY <1>1, <1>6, <2>3, <2>4 DEF Continues, Within
  <2>6. e.type \notin DOMAIN Reward /\ debt'[d].status # "active"
    BY <1>6, <1>8, <1>9 DEF Reward
  <2>7. Chronicled(d)'
    BY <1>3, <1>4, <1>6, <2>1, <2>5, <2>6, AppendTold
  <2> QED
    BY <1>3, <2>1, <2>7, ChronicleKept
<1>10. CASE ~(full /\ EarnsOnTimeBonus(d))
  <2>1. events' = events
    BY <1>8, <1>10
  <2>2. debt'[d].status = "active" => Within(events[d], DueDate[d])
    BY <1>4, <1>8 DEF Chronicled
  <2>3. Chronicled(d)'
    BY <1>3, <1>4, <2>1, <2>2, QuietTold
  <2> QED
    BY <1>3, <2>1, <2>3, ChronicleKept
<1> QED
  BY <1>9, <1>10

\* The marking of a debt whose rewards were all taken back.
LEMMA MarkingContinues ==
    ASSUME Inv, TypeOK, NEW d \in Debts, NEW e \in RatingEvent,
           debt[d].status = "active", e.type = "overdue", e.source = debt[d].revision + 1,
           Within(events[d], e.at)
    PROVE  Continues(events[d], e)
<1>1. debt[d].revision \in Nat /\ RowInv(d)
  BY HistoryIs
<1>2. At(events[d], "overdue") = {}
  BY <1>1, HistoryIs DEF RowInv
<1>3. From(events[d], "on_time_paid") \subseteq From(events[d], "on_time_paid_voided")
  BY AllTakenBack
<1>4. Accepts(Reached(events[d]), e)
  BY <1>2, <1>3 DEF Accepts, Reached
<1>5. e.source \notin From(events[d], e.type)
  BY <1>1, NewSource
<1> QED
  BY <1>4, <1>5 DEF Continues, Within

\* A late payment continues with its marking.
LEMMA LateTold ==
    ASSUME Inv, TypeOK, Chronicle, NEW d \in Debts, NEW seen \in Nat, NEW basis \in Bases,
           NEW amount \in 1..OriginalAmount[d], RecordLatePayment(d, seen, basis, amount)
    PROVE  Chronicle'
<1>1. /\ events[d] \in Seq(RatingEvent) /\ today \in Nat
      /\ debt[d] \in DebtRow /\ debt[d].revision \in Nat /\ RowInv(d)
      /\ Within(events[d], today) /\ Types /\ debt \in [Debts -> DebtRow]
      /\ events \in [Debts -> Seq(RatingEvent)]
  BY HistoryIs DEF Inv, Types
<1>2. Types' /\ Others(d) /\ Pays(d, seen, basis, amount, TRUE)
  BY <1>1, LatePays
<1>3. Grows(d) /\ audits \subseteq audits'
  <2>1. Grows(d) /\ Records(d, PaymentRows(d, TRUE))
    BY <1>1, <1>2, PaysGrows
  <2> QED
    BY <2>1 DEF Records
<1>4. /\ debt[d].revision \in Nat /\ debt'[d].revision \in Nat
      /\ debt[d].revision <= debt'[d].revision
      /\ payments \subseteq payments' /\ voids \subseteq voids'
      /\ Chronicled(d) /\ events[d] \in Seq(RatingEvent)
  BY <1>2, <1>3, GrowsOn
<1>5. PICK e : e = Event("overdue", debt[d].revision + 1)
  OBVIOUS
<1>6. e \in RatingEvent /\ e.type = "overdue" /\ e.source = debt[d].revision + 1 /\ e.at = today
  BY <1>1, <1>5 DEF Event, RatingEvent, EventTypes
<1>7. debt[d].status = "active" /\ debt'[d].status \in {"overdue", "paid"}
  BY <1>2 DEF Pays, PaymentRow
<1>8. events' = [events EXCEPT ![d] = Append(@, e)]
  BY <1>5 DEF RecordLatePayment
<1>9. events'[d] = Append(events[d], e) /\ \A c \in Debts \ {d} : events'[c] = events[c]
  BY <1>1, <1>8
<1>10. Continues(events[d], e)
  BY <1>1, <1>6, <1>7, MarkingContinues
<1>11. e.type \notin DOMAIN Reward /\ debt'[d].status # "active"
  BY <1>6, <1>7 DEF Reward
<1>12. Chronicled(d)'
  BY <1>3, <1>4, <1>6, <1>9, <1>10, <1>11, AppendTold
<1> QED
  BY <1>3, <1>9, <1>12, ChronicleKept

\* That of the batch comes last, although its day may have passed.
LEMMA BatchTold ==
    ASSUME Inv, TypeOK, Chronicle, NEW d \in Debts, NEW day \in Nat, MaterializeOverdue(d, day)
    PROVE  Chronicle'
<1>1. /\ events[d] \in Seq(RatingEvent) /\ today \in Nat
      /\ debt[d] \in DebtRow /\ debt[d].revision \in Nat /\ RowInv(d)
      /\ Types /\ debt \in [Debts -> DebtRow]
      /\ events \in [Debts -> Seq(RatingEvent)]
  BY HistoryIs DEF Inv, Types
<1>2. Types' /\ Others(d) /\ Marks(d, day)
  BY <1>1, BatchMarks
<1>3. Grows(d) /\ audits \subseteq audits'
  <2>1. Grows(d) /\ Records(d, OverduePair(d, debt[d].revision + 1, day, "active"))
    BY <1>1, <1>2, MarksGrows
  <2> QED
    BY <2>1 DEF Records
<1>4. /\ debt[d].revision \in Nat /\ debt'[d].revision \in Nat
      /\ debt[d].revision <= debt'[d].revision
      /\ payments \subseteq payments' /\ voids \subseteq voids'
      /\ Chronicled(d) /\ events[d] \in Seq(RatingEvent)
  BY <1>2, <1>3, GrowsOn
<1>5. PICK e : e = [type |-> "overdue", source |-> debt[d].revision + 1, at |-> day]
  OBVIOUS
<1>6. e \in RatingEvent /\ e.type = "overdue" /\ e.source = debt[d].revision + 1 /\ e.at = day
  BY <1>1, <1>5 DEF RatingEvent, EventTypes
<1>7. debt[d].status = "active" /\ debt'[d].status = "overdue"
  BY <1>2 DEF Marks
<1>8. events' = [events EXCEPT ![d] = Append(@, e)]
  BY <1>5 DEF MaterializeOverdue
<1>9. events'[d] = Append(events[d], e) /\ \A c \in Debts \ {d} : events'[c] = events[c]
  BY <1>1, <1>8
<1>10. Within(events[d], day)
  <2>1. Within(events[d], DueDate[d]) /\ day > DueDate[d] /\ DueDate[d] \in Nat
    BY <1>4, <1>7, DebtsAssumption DEF Chronicled, MaterializeOverdue, PastDueActive
  <2>2. \A i \in DOMAIN events[d] : events[d][i] \in RatingEvent
    BY <1>1
  <2>3. \A i \in DOMAIN events[d] : events[d][i].at \in Nat
    BY <2>2 DEF RatingEvent
  <2> QED
    BY <2>1, <2>3 DEF Within
<1>11. Continues(events[d], e)
  BY <1>1, <1>6, <1>7, <1>10, MarkingContinues
<1>12. e.type \notin DOMAIN Reward /\ debt'[d].status # "active"
  BY <1>6, <1>7 DEF Reward
<1>13. Chronicled(d)'
  BY <1>3, <1>4, <1>6, <1>9, <1>11, <1>12, AppendTold
<1> QED
  BY <1>3, <1>9, <1>13, ChronicleKept

\* A recovery continues with its settlement.
LEMMA RecoveryTold ==
    ASSUME Inv, TypeOK, Chronicle, NEW d \in Debts, NEW seen \in Nat, NEW basis \in Bases,
           NEW amount \in 1..OriginalAmount[d], RecordRecovery(d, seen, basis, amount)
    PROVE  Chronicle'
<1>1. /\ events[d] \in Seq(RatingEvent) /\ today \in Nat
      /\ debt[d] \in DebtRow /\ debt[d].revision \in Nat /\ RowInv(d)
      /\ Within(events[d], today) /\ Types /\ debt \in [Debts -> DebtRow]
      /\ events \in [Debts -> Seq(RatingEvent)]
  BY HistoryIs DEF Inv, Types
<1>2. Types' /\ Others(d) /\ Pays(d, seen, basis, amount, FALSE)
  BY <1>1, RecoveryPays
<1>3. Grows(d) /\ audits \subseteq audits'
  <2>1. Grows(d) /\ Records(d, PaymentRows(d, FALSE))
    BY <1>1, <1>2, PaysGrows
  <2> QED
    BY <2>1 DEF Records
<1>4. /\ debt[d].revision \in Nat /\ debt'[d].revision \in Nat
      /\ debt[d].revision <= debt'[d].revision
      /\ payments \subseteq payments' /\ voids \subseteq voids'
      /\ Chronicled(d) /\ events[d] \in Seq(RatingEvent)
  BY <1>2, <1>3, GrowsOn
<1>5. PICK e : e = Event("written_off_settled", debt[d].revision + 1)
  OBVIOUS
<1>6. /\ e \in RatingEvent /\ e.type = "written_off_settled"
      /\ e.source = debt[d].revision + 1 /\ e.at = today
  BY <1>1, <1>5 DEF Event, RatingEvent, EventTypes
<1>7. PICK full \in BOOLEAN : full = (amount = Remaining(d))
  OBVIOUS
<1>8. /\ debt[d].status = "written_off"
      /\ debt'[d].status \in {"written_off", "written_off_settled"}
      /\ events' = IF full THEN [events EXCEPT ![d] = Append(@, e)] ELSE events
  BY <1>2, <1>5, <1>7 DEF RecordRecovery, Pays, PaymentRow
<1>9. CASE full
  <2>1. events'[d] = Append(events[d], e) /\ \A c \in Debts \ {d} : events'[c] = events[c]
    BY <1>1, <1>8, <1>9
  <2>2. At(events[d], "written_off") # {}
    <3>1. debt[d].writtenOffRevision # Unset
      BY <1>1, <1>8 DEF RowInv
    <3> QED
      BY <3>1, HistoryIs
  <2>3. e.source \notin From(events[d], e.type)
    BY <1>1, <1>6, NewSource
  <2>4. From(events[d], "written_off_settled")
          \subseteq From(events[d], "written_off_settled_voided")
    BY <1>8, AllTakenBack
  <2>5. Accepts(Reached(events[d]), e)
    BY <1>6, <2>2, <2>3, <2>4 DEF Accepts, Reached
  <2>6. Continues(events[d], e)
    BY <1>1, <1>6, <2>3, <2>5 DEF Continues, Within
  <2>7. e.type \notin DOMAIN Reward /\ debt'[d].status # "active"
    BY <1>6, <1>8 DEF Reward
  <2>8. Chronicled(d)'
    BY <1>3, <1>4, <1>6, <2>1, <2>6, <2>7, AppendTold
  <2> QED
    BY <1>3, <2>1, <2>8, ChronicleKept
<1>10. CASE ~full
  <2>1. events' = events
    BY <1>8, <1>10
  <2>2. Chronicled(d)'
    BY <1>3, <1>4, <1>8, <2>1, QuietTold
  <2> QED
    BY <1>3, <2>1, <2>2, ChronicleKept
<1> QED
  BY <1>9, <1>10

\* A write-off is of a debt that was marked, and not written off before.
LEMMA WriteOffTold ==
    ASSUME Inv, TypeOK, Chronicle, NEW d \in Debts, NEW seen \in Nat, WriteOff(d, seen)
    PROVE  Chronicle'
<1>1. /\ events[d] \in Seq(RatingEvent) /\ today \in Nat
      /\ debt[d] \in DebtRow /\ debt[d].revision \in Nat /\ RowInv(d)
      /\ Within(events[d], today) /\ Types /\ debt \in [Debts -> DebtRow]
      /\ events \in [Debts -> Seq(RatingEvent)]
  BY HistoryIs DEF Inv, Types
<1>2. Types' /\ Others(d) /\ GivesUp(d)
  BY <1>1, WriteOffGivesUp
<1>3. Grows(d) /\ audits \subseteq audits'
  <2>1. Grows(d) /\ Records(d, GivenUp(d))
    BY <1>1, <1>2, GivesUpGrows
  <2> QED
    BY <2>1 DEF Records
<1>4. /\ debt[d].revision \in Nat /\ debt'[d].revision \in Nat
      /\ debt[d].revision <= debt'[d].revision
      /\ payments \subseteq payments' /\ voids \subseteq voids'
      /\ Chronicled(d) /\ events[d] \in Seq(RatingEvent)
  BY <1>2, <1>3, GrowsOn
<1>5. PICK e : e = Event("written_off", debt[d].revision + 1)
  OBVIOUS
<1>6. /\ e \in RatingEvent /\ e.type = "written_off"
      /\ e.source = debt[d].revision + 1 /\ e.at = today
  BY <1>1, <1>5 DEF Event, RatingEvent, EventTypes
<1>7. debt[d].status = "overdue" /\ debt'[d].status = "written_off"
  BY <1>2 DEF GivesUp
<1>8. events' = [events EXCEPT ![d] = Append(@, e)]
  BY <1>5 DEF WriteOff
<1>9. events'[d] = Append(events[d], e) /\ \A c \in Debts \ {d} : events'[c] = events[c]
  BY <1>1, <1>8
<1>10. At(events[d], "overdue") # {} /\ At(events[d], "written_off") = {}
  <2>1. debt[d].overdueRevision # Unset /\ debt[d].writtenOffRevision = Unset
    BY <1>1, <1>7 DEF RowInv
  <2> QED
    BY <2>1, HistoryIs
<1>11. Continues(events[d], e)
  <2>1. e.source \notin From(events[d], e.type)
    BY <1>1, <1>6, NewSource
  <2>2. Accepts(Reached(events[d]), e)
    BY <1>6, <1>10 DEF Accepts, Reached
  <2> QED
    BY <1>1, <1>6, <2>1, <2>2 DEF Continues, Within
<1>12. e.type \notin DOMAIN Reward /\ debt'[d].status # "active"
  BY <1>6, <1>7 DEF Reward
<1>13. Chronicled(d)'
  BY <1>3, <1>4, <1>6, <1>9, <1>11, <1>12, AppendTold
<1> QED
  BY <1>3, <1>9, <1>13, ChronicleKept

-----------------------------------------------------------------------------
(* The void.                                                               *)

\* What is earned was earned by the latest payment, and is not taken back.
LEMMA RewardFound ==
    ASSUME Inv, TypeOK, NEW d \in Debts, Chronicled(d), NEW p \in payments,
           IsLatest(d, p), RewardSource(d, p) = "earned"
    PROVE  /\ debt[d].status \in {"paid", "written_off_settled"}
           /\ p.debt = d /\ p.revision = debt[d].revision
           /\ \E i \in At(events[d], RewardOf(debt[d].status)) :
                events[d][i].source = p.revision /\ events[d][i].at = p.at
           /\ \E a \in audits : a.debt = d /\ a.revision = p.revision /\ a.at = p.at
                                /\ a.type = AuditOf(debt[d].status)
<1>1. Types /\ LedgerInv /\ Terminal /\ AuditInv
  BY DEF Inv
<1>2. debt[d].status \in {"paid", "written_off_settled"}
  BY DEF RewardSource, RewardOf
<1>3. /\ p.debt = d /\ p.revision = debt[d].revision
      /\ debt[d].status = "paid" => p.at = debt[d].paidAt
      /\ debt[d].status = "written_off_settled" => p.at = debt[d].settledAt
  BY <1>1, <1>2, TopPayment
<1>4. Cardinality(RewardEvents(d, p)) = 1
  BY <1>2 DEF RewardSource, RewardOf
<1>5. RewardEvents(d, p) # {}
  BY <1>4, FS_EmptySet
<1>6. \E i \in At(events[d], RewardOf(debt[d].status)) :
        events[d][i].source = p.revision /\ events[d][i].at = p.at
  BY <1>5 DEF RewardEvents, Has, At
<1>7. \E a \in audits : a.debt = d /\ a.revision = p.revision /\ a.at = p.at
                        /\ a.type = AuditOf(debt[d].status)
  BY <1>1, <1>2, <1>3 DEF AuditInv, AuditOf
<1> QED
  BY <1>2, <1>3, <1>6, <1>7

\* So that taking it back continues the history.
LEMMA TakingBackContinues ==
    ASSUME Inv, TypeOK, NEW d \in Debts, Chronicled(d), NEW p \in payments,
           IsLatest(d, p), RewardSource(d, p) = "earned", NEW e \in RatingEvent,
           e.type = VoidedReward(debt[d].status), e.source = p.revision, e.at = today
    PROVE  Continues(events[d], e)
<1>1. PICK s : s = events[d]
  OBVIOUS
<1>2. /\ debt[d].status \in {"paid", "written_off_settled"} /\ p.revision = debt[d].revision
      /\ \E i \in At(s, RewardOf(debt[d].status)) : s[i].source = p.revision
  BY <1>1, RewardFound
<1>3. e.type \in DOMAIN Reward
  BY <1>2 DEF VoidedReward, Reward
<1>4. e.source \notin From(s, e.type)
  <2>1. \A i \in DOMAIN s : s[i].type \in DOMAIN Reward => s[i].source < debt[d].revision
    BY <1>1 DEF Chronicled, Explained
  <2>2. debt[d].revision \in Nat
    BY HistoryIs
  <2> QED
    BY <1>2, <1>3, <2>1, <2>2 DEF From, At
<1>5. Within(s, today)
  BY <1>1, HistoryIs
<1>6. Accepts(Reached(s), e)
  <2>1. CASE debt[d].status = "paid"
    <3>1. e.type = "on_time_paid_voided" /\ e.source \in From(s, "on_time_paid")
      BY <1>2, <2>1 DEF VoidedReward, RewardOf, From
    <3>2. debt[d].overdueRevision = Unset
      BY <1>1, <1>4, <3>1, AllTakenBack
    <3>3. At(s, "overdue") = {}
      BY <1>1, <3>2, HistoryIs
    <3> QED
      BY <1>4, <3>1, <3>3 DEF Accepts, Reached
  <2>2. CASE debt[d].status = "written_off_settled"
    <3>1. e.type = "written_off_settled_voided" /\ e.source \in From(s, "written_off_settled")
      BY <1>2, <2>2 DEF VoidedReward, RewardOf, From
    <3> QED
      BY <1>4, <3>1 DEF Accepts, Reached
  <2> QED
    BY <1>2, <2>1, <2>2
<1> QED
  BY <1>1, <1>4, <1>5, <1>6 DEF Continues, Within

\* What is paid for a reward nobody finds has none to take back.
LEMMA NothingEarned ==
    ASSUME Inv, NEW d \in Debts, NEW p \in payments, IsLatest(d, p),
           RewardSource(d, p) # "earned", debt[d].status = "paid"
    PROVE  From(events[d], "on_time_paid") \subseteq From(events[d], "on_time_paid_voided")
<1>1. Types /\ LedgerInv /\ Terminal /\ AuditInv /\ BonusInv /\ SettlementInv
  BY DEF Inv
<1>2. Open(d, "on_time_paid", "on_time_paid_voided") = {}
  BY <1>1, RewardKnown
<1>3. ASSUME NEW source \in From(events[d], "on_time_paid"),
             source \notin From(events[d], "on_time_paid_voided")
      PROVE  FALSE
  <2>1. PICK i \in At(events[d], "on_time_paid") : events[d][i].source = source
    BY DEF From
  <2>2. \A j \in At(events[d], "on_time_paid_voided") : events[d][j].source # source
    BY <1>3 DEF From
  <2>3. i \in Open(d, "on_time_paid", "on_time_paid_voided")
    BY <2>1, <2>2 DEF Open, Has, At
  <2> QED
    BY <1>2, <2>3
<1> QED
  BY <1>3

\* A history on its way to the next state.
Sound(d, s) ==
    /\ s \in Seq(RatingEvent) /\ Lawful(s) /\ Within(s, today)
    /\ Explained(d, s, debt'[d].revision, payments', audits', voids')

\* It may go on with an event of today.
LEMMA SoundContinued ==
    ASSUME NEW d \in Debts, NEW s, Sound(d, s), NEW e \in RatingEvent, Continues(s, e),
           today \in Nat, debt'[d].revision \in Nat, e.at = today,
           e.type \in DOMAIN Reward =>
             /\ e.source < debt'[d].revision
             /\ \E j \in DOMAIN s :
                  Rewarded(e, s[j]) /\ Backed(d, e, s[j], payments', audits', voids')
    PROVE  Sound(d, Append(s, e))
<1>1. /\ s \in Seq(RatingEvent) /\ Lawful(s) /\ Within(s, today)
      /\ Explained(d, s, debt'[d].revision, payments', audits', voids')
  BY DEF Sound
<1>2. Append(s, e) \in Seq(RatingEvent) /\ Lawful(Append(s, e))
  BY <1>1, LawfulContinued
<1>3. e.at <= today
  OBVIOUS
<1>4. Within(Append(s, e), today)
  BY <1>1, <1>3, WithinContinued
<1>5. Explained(d, Append(s, e), debt'[d].revision, payments', audits', voids')
  BY <1>1, ExplainedContinued
<1> QED
  BY <1>2, <1>4, <1>5 DEF Sound

\* A void appends what it takes back, or nothing,
LEMMA TakenBackSound ==
    ASSUME Inv, TypeOK, Types', Chronicle, NEW d \in Debts, Grows(d), audits \subseteq audits',
           NEW p \in payments, Undoes(d, p), NEW e \in RatingEvent,
           e = Event(VoidedReward(debt[d].status), p.revision), NEW s,
           s = IF RewardSource(d, p) = "earned" THEN Append(events[d], e) ELSE events[d]
    PROVE  /\ Sound(d, s) /\ At(s, "overdue") = At(events[d], "overdue")
           /\ From(s, "overdue") = From(events[d], "overdue")
           /\ debt[d].status = "paid" => From(s, "on_time_paid") \subseteq From(s, "on_time_paid_voided")
<1>1. /\ debt[d].revision \in Nat /\ debt'[d].revision \in Nat
      /\ debt[d].revision <= debt'[d].revision
      /\ payments \subseteq payments' /\ voids \subseteq voids'
      /\ Chronicled(d) /\ events[d] \in Seq(RatingEvent)
  BY GrowsOn
<1>2. /\ IsLatest(d, p) /\ debt'[d].revision = debt[d].revision + 1
      /\ \E v \in voids' : v.debt = d /\ v.payment = p.revision /\ v.at = today
  <2>1. PICK v : v = [debt |-> d, payment |-> p.revision, revision |-> debt[d].revision + 1,
                      at |-> today]
    OBVIOUS
  <2>2. v \in voids' /\ v.debt = d /\ v.payment = p.revision /\ v.at = today
    BY <2>1 DEF Undoes
  <2>3. IsLatest(d, p) /\ debt'[d].revision = debt[d].revision + 1
    BY DEF Undoes, VoidRow
  <2> QED
    BY <2>2, <2>3
<1>3. /\ e.type = VoidedReward(debt[d].status) /\ e.source = p.revision /\ e.at = today
      /\ today \in Nat
  BY HistoryIs DEF Event
<1>4. Sound(d, events[d])
  <2>1. Explained(d, events[d], debt[d].revision, payments, audits, voids) /\ Lawful(events[d])
    BY <1>1 DEF Chronicled
  <2>2. Explained(d, events[d], debt'[d].revision, payments', audits', voids')
    BY <1>1, <2>1, StillExplained
  <2> QED
    BY <1>1, <2>1, <2>2, HistoryIs DEF Sound
<1>5. CASE RewardSource(d, p) = "earned"
  <2>1. /\ debt[d].status \in {"paid", "written_off_settled"}
        /\ p.debt = d /\ p.revision = debt[d].revision
        /\ \E i \in At(events[d], RewardOf(debt[d].status)) :
             events[d][i].source = p.revision /\ events[d][i].at = p.at
        /\ \E a \in audits : a.debt = d /\ a.revision = p.revision /\ a.at = p.at
                             /\ a.type = AuditOf(debt[d].status)
    BY <1>1, <1>2, <1>5, RewardFound
  <2>2. PICK j \in DOMAIN events[d] :
          /\ events[d][j].type = RewardOf(debt[d].status)
          /\ events[d][j].source = p.revision /\ events[d][j].at = p.at
    BY <2>1 DEF At
  <2>3. Rewarded(e, events[d][j])
    BY <1>3, <2>1, <2>2 DEF Rewarded, Reward, RewardOf, VoidedReward
  <2>4. Backed(d, e, events[d][j], payments', audits', voids')
    <3>1. AuditOf(debt[d].status) = AuditOfReward(events[d][j].type)
      BY <2>1, <2>2 DEF AuditOf, AuditOfReward, RewardOf
    <3> QED
      BY <1>1, <1>2, <1>3, <2>1, <2>2, <3>1 DEF Backed
  <2>5. Continues(events[d], e)
    BY <1>1, <1>2, <1>3, <1>5, TakingBackContinues
  <2>6. e.source < debt'[d].revision
    BY <1>1, <1>2, <1>3, <2>1
  <2>7. s = Append(events[d], e)
    BY <1>5
  <2>8. Sound(d, s)
    BY <1>1, <1>3, <1>4, <2>3, <2>4, <2>5, <2>6, <2>7, SoundContinued
  <2>9. \A type :
          /\ At(s, type) = IF e.type = type THEN At(events[d], type) \cup {Len(events[d]) + 1}
                           ELSE At(events[d], type)
          /\ From(s, type) = IF e.type = type THEN From(events[d], type) \cup {e.source}
                             ELSE From(events[d], type)
    <3>1. \A type :
            /\ At(Append(events[d], e), type) =
                 IF e.type = type THEN At(events[d], type) \cup {Len(events[d]) + 1}
                 ELSE At(events[d], type)
            /\ From(Append(events[d], e), type) =
                 IF e.type = type THEN From(events[d], type) \cup {e.source}
                 ELSE From(events[d], type)
      BY <1>1, AppendAt
    <3> QED
      BY <2>7, <3>1
  <2>10. e.type # "overdue" /\ e.type # "on_time_paid"
    BY <1>3, <2>1 DEF VoidedReward
  <2>11. ASSUME debt[d].status = "paid"
         PROVE  From(s, "on_time_paid") \subseteq From(s, "on_time_paid_voided")
    <3>1. e.type = "on_time_paid_voided" /\ e.source = debt[d].revision
      BY <1>3, <2>1, <2>11 DEF VoidedReward
    <3>2. \A source \in From(events[d], "on_time_paid") \ From(events[d], "on_time_paid_voided") :
            source = debt[d].revision
      BY AllTakenBack
    <3> QED
      BY <2>9, <2>10, <3>1, <3>2
  <2> QED
    BY <2>8, <2>9, <2>10, <2>11
<1>6. CASE RewardSource(d, p) # "earned"
  BY <1>2, <1>4, <1>6, NothingEarned
<1> QED
  BY <1>5, <1>6

\* and a debt that was due since is marked: after its reward was taken back.
LEMMA VoidTold ==
    ASSUME Inv, TypeOK, Chronicle, NEW d \in Debts, NEW p \in payments, NEW seen \in Nat,
           VoidPayment(d, p, seen)
    PROVE  Chronicle'
<1>1. /\ events[d] \in Seq(RatingEvent) /\ today \in Nat
      /\ debt[d] \in DebtRow /\ debt[d].revision \in Nat /\ RowInv(d)
      /\ Within(events[d], today) /\ Types /\ p \in Payment
      /\ events \in [Debts -> Seq(RatingEvent)] /\ DueDate[d] \in Nat
  BY HistoryIs, DebtsAssumption DEF Inv, Types
<1>2. Types' /\ Others(d) /\ Undoes(d, p)
  BY <1>1, VoidUndoes
<1>3. Grows(d) /\ audits \subseteq audits'
  <2>1. Grows(d) /\ Records(d, VoidRows(d))
    BY <1>1, <1>2, UndoesGrows
  <2> QED
    BY <2>1 DEF Records
<1>4. /\ debt[d].revision \in Nat /\ debt'[d].revision \in Nat
      /\ debt[d].revision <= debt'[d].revision /\ Chronicled(d)
  BY <1>2, <1>3, GrowsOn
<1>5. IsLatest(d, p) /\ RewardSource(d, p) # "inconsistent" /\ VoidRow(d)
  BY <1>2 DEF Undoes
<1>6. PICK e : e = Event(VoidedReward(debt[d].status), p.revision)
  OBVIOUS
<1>7. PICK m : m = Event("overdue", debt[d].revision + 1)
  OBVIOUS
<1>8. /\ e \in RatingEvent /\ m \in RatingEvent /\ e.at = today
      /\ m.type = "overdue" /\ m.source = debt[d].revision + 1 /\ m.at = today
  BY <1>1, <1>6, <1>7 DEF Event, RatingEvent, EventTypes, VoidedReward, Payment
<1>9. PICK s : s = IF RewardSource(d, p) = "earned" THEN Append(events[d], e) ELSE events[d]
  OBVIOUS
<1>10. /\ Sound(d, s) /\ At(s, "overdue") = At(events[d], "overdue")
       /\ From(s, "overdue") = From(events[d], "overdue")
       /\ debt[d].status = "paid" => From(s, "on_time_paid") \subseteq From(s, "on_time_paid_voided")
  BY <1>2, <1>3, <1>6, <1>8, <1>9, TakenBackSound, ZenonT(40)
<1>11. s \in Seq(RatingEvent) /\ Within(s, today)
  BY <1>10 DEF Sound
<1>12. /\ events'[d] = IF ReopensOverdue(d) THEN Append(s, m) ELSE s
       /\ \A c \in Debts \ {d} : events'[c] = events[c]
  <2>1. events' = [events EXCEPT ![d] = @ \o Compensation(d, p)
             \o (IF ReopensOverdue(d) THEN <<m>> ELSE <<>>)]
    BY <1>7 DEF VoidPayment
  <2>2. events[d] \o Compensation(d, p) = s
    <3>1. Compensation(d, p) = IF RewardSource(d, p) = "earned" THEN <<e>> ELSE <<>>
      BY <1>6 DEF Compensation
    <3> QED
      BY <1>1, <1>8, <1>9, <3>1
  <2>3. s \o (IF ReopensOverdue(d) THEN <<m>> ELSE <<>>)
          = IF ReopensOverdue(d) THEN Append(s, m) ELSE s
    BY <1>8, <1>11
  <2> QED
    BY <1>1, <2>1, <2>2, <2>3
<1>13. Sound(d, events'[d])
  <2>1. CASE ReopensOverdue(d)
    <3>1. debt[d].status = "paid" /\ debt[d].overdueRevision = Unset
      BY <2>1 DEF ReopensOverdue
    <3>2. At(s, "overdue") = {}
      BY <1>10, <3>1, HistoryIs
    <3>3. m.source \notin From(s, m.type)
      <4>1. m.source \notin From(events[d], "overdue")
        BY <1>4, <1>8, NewSource
      <4> QED
        BY <1>8, <1>10, <4>1
    <3>4. Accepts(Reached(s), m)
      BY <1>8, <1>10, <3>1, <3>2 DEF Accepts, Reached
    <3>5. Continues(s, m)
      BY <1>8, <1>11, <3>3, <3>4 DEF Continues, Within
    <3>6. m.type \notin DOMAIN Reward
      BY <1>8 DEF Reward
    <3>7. Sound(d, Append(s, m))
      BY <1>1, <1>4, <1>8, <1>10, <3>5, <3>6, SoundContinued
    <3> QED
      BY <1>12, <2>1, <3>7
  <2>2. CASE ~ReopensOverdue(d)
    BY <1>10, <1>12, <2>2
  <2> QED
    BY <2>1, <2>2
<1>14. ASSUME debt'[d].status = "active"
       PROVE  Within(events'[d], DueDate[d])
  <2>1. ReopenedStatus(d) = "active"
    BY <1>5, <1>14 DEF VoidRow
  <2>2. ~ReopensOverdue(d) /\ (debt[d].status = "active" \/ today <= DueDate[d])
    BY <2>1 DEF ReopensOverdue, ReopenedStatus, Payable
  <2>3. events'[d] = s
    BY <1>12, <2>2
  <2>4. CASE debt[d].status = "active"
    <3>1. s = events[d]
      BY <1>9, <2>4 DEF RewardSource, RewardOf
    <3> QED
      BY <1>4, <2>3, <2>4, <3>1 DEF Chronicled
  <2>5. CASE today <= DueDate[d]
    <3>1. \A i \in DOMAIN s : s[i] \in RatingEvent
      BY <1>11
    <3>2. \A i \in DOMAIN s : s[i].at \in Nat
      BY <3>1 DEF RatingEvent
    <3> QED
      BY <1>1, <1>11, <2>3, <2>5, <3>2 DEF Within
  <2> QED
    BY <2>2, <2>4, <2>5
<1>15. Chronicled(d)'
  BY <1>13, <1>14 DEF Chronicled, Sound
<1> QED
  BY <1>3, <1>12, <1>15, ChronicleKept

\* Nothing else touches a history.
LEMMA StillTold ==
    ASSUME Chronicle, UNCHANGED <<debt, payments, voids, events, audits, keys>>
    PROVE  Chronicle'
BY DEF Chronicle, Chronicled

\* No history has begun.
LEMMA InitChronicle == Init => Chronicle
<1> SUFFICES ASSUME Init, NEW d \in Debts PROVE Chronicled(d)
  BY DEF Chronicle
<1>1. events[d] = <<>>
  BY DEF Init
<1>2. Explained(d, <<>>, debt[d].revision, payments, audits, voids) /\ Within(<<>>, DueDate[d])
  BY DEF Explained, Within
<1> QED
  BY <1>1, <1>2, LawfulEmpty DEF Chronicled

\* Every step continues the histories lawfully.
LEMMA NextChronicle == Inv /\ TypeOK /\ Chronicle /\ [Next]_vars => Chronicle'
<1> SUFFICES ASSUME Inv, TypeOK, Chronicle, [Next]_vars PROVE Chronicle'
  OBVIOUS
<1>1. MaxDay \in Nat /\ MaxRevision \in [Debts -> Nat]
  BY BoundAssumption
<1>2. /\ \A d \in Debts : 2..(MaxRevision[d] - 1) \subseteq Nat /\ 2..(MaxRevision[d] + 1) \subseteq Nat
      /\ 0..MaxDay \subseteq Nat
  BY <1>1
<1>3. ASSUME NEW d \in Debts, NEW seen \in 2..(MaxRevision[d] - 1), NEW basis \in Bases,
             NEW amount \in 1..OriginalAmount[d], RecordPayment(d, seen, basis, amount)
      PROVE  Chronicle'
  BY <1>2, <1>3, OnTimeTold
<1>4. ASSUME NEW d \in Debts, NEW seen \in 2..(MaxRevision[d] - 1), NEW basis \in Bases,
             NEW amount \in 1..OriginalAmount[d], RecordLatePayment(d, seen, basis, amount)
      PROVE  Chronicle'
  BY <1>2, <1>4, LateTold
<1>5. ASSUME NEW d \in Debts, NEW seen \in 2..(MaxRevision[d] - 1), NEW basis \in Bases,
             NEW amount \in 1..OriginalAmount[d], RecordRecovery(d, seen, basis, amount)
      PROVE  Chronicle'
  BY <1>2, <1>5, RecoveryTold
<1>6. ASSUME NEW d \in Debts, NEW seen \in 2..(MaxRevision[d] - 1), NEW p \in payments,
             VoidPayment(d, p, seen)
      PROVE  Chronicle'
  BY <1>2, <1>6, VoidTold
<1>7. ASSUME NEW d \in Debts, NEW seen \in 2..(MaxRevision[d] + 1), WriteOff(d, seen)
      PROVE  Chronicle'
  BY <1>2, <1>7, WriteOffTold
<1>8. ASSUME NEW d \in Debts, DiscoverOverdue(d)
      PROVE  Chronicle'
  BY <1>8, StillTold DEF DiscoverOverdue
<1>9. ASSUME NEW d \in Debts, NEW day \in 0..MaxDay, MaterializeOverdue(d, day)
      PROVE  Chronicle'
  BY <1>2, <1>9, BatchTold
<1>10. ASSUME NEW d \in Debts, NEW day \in 0..MaxDay, SkipCandidate(d, day)
       PROVE  Chronicle'
  BY <1>10, StillTold DEF SkipCandidate
<1>11. CASE Tick
  BY <1>11, StillTold DEF Tick
<1>12. CASE UNCHANGED vars
  BY <1>12, StillTold DEF vars
<1> QED
  BY <1>3, <1>4, <1>5, <1>6, <1>7, <1>8, <1>9, <1>10, <1>11, <1>12 DEF Next

\* Every history is, at any time, lawful, with its compensations explained by
\* the payment, the reward and the audit of one revision and one void: the
\* order RatingEventOrderKey reads it in is that of the sources, whichever of the
\* batch, the late payment and the void marked the debt.
THEOREM HistoriesLawful == Spec => [](Inv /\ TypeOK /\ Chronicle)
<1>1. Init => Chronicle
  BY InitChronicle
<1>2. Inv /\ TypeOK /\ Chronicle /\ [Next]_vars => Chronicle'
  BY NextChronicle
<1>3. Spec => []Inv
  BY EvidenceCoherent
<1>4. Spec => []TypeOK
  BY TypeCorrect
<1> QED
  BY <1>1, <1>2, <1>3, <1>4, PTL DEF Spec

-----------------------------------------------------------------------------
(* What the readers make of a lawful history.                              *)

\* A row of the rating is an event of a debt.
LEMMA RowIs ==
    ASSUME NEW x \in Rows
    PROVE  \E d \in Debts : \E i \in DOMAIN events[d] :
             x = [debt |-> d, n |-> i, event |-> events[d][i]]
BY DEF Rows

\* No two of them are of one source, one penalty of a debt, or one day's bonus.
LEMMA RowsDiffer ==
    ASSUME Inv, Chronicle, NEW x \in Rows, NEW y \in Rows, x # y
    PROVE  /\ ~(x.debt = y.debt /\ x.event.type = y.event.type
                /\ x.event.source = y.event.source)
           /\ ~(x.debt = y.debt /\ x.event.type = y.event.type
                /\ x.event.type \in {"overdue", "written_off"})
           /\ ~(x.event.type = "on_time_paid" /\ y.event.type = "on_time_paid"
                /\ x.event.at = y.event.at)
<1>1. PICK c \in Debts : \E i \in DOMAIN events[c] :
        x = [debt |-> c, n |-> i, event |-> events[c][i]]
  BY RowIs
<1>2. PICK d \in Debts : \E j \in DOMAIN events[d] :
        y = [debt |-> d, n |-> j, event |-> events[d][j]]
  BY RowIs
<1>3. PICK i \in DOMAIN events[c] : x = [debt |-> c, n |-> i, event |-> events[c][i]]
  BY <1>1
<1>4. PICK j \in DOMAIN events[d] : y = [debt |-> d, n |-> j, event |-> events[d][j]]
  BY <1>2
<1>5. /\ x.debt = c /\ x.event = events[c][i] /\ y.debt = d /\ y.event = events[d][j]
      /\ c = d => i # j
  BY <1>3, <1>4
<1>6. PenaltyInv /\ BonusInv /\ Lawful(events[c])
  BY DEF Inv, Chronicle, Chronicled
<1>7. ~(c = d /\ events[c][i].type = events[d][j].type
        /\ events[c][i].source = events[d][j].source)
  BY <1>5, <1>6 DEF Lawful
<1>8. ~(c = d /\ events[c][i].type = events[d][j].type
        /\ events[c][i].type \in {"overdue", "written_off"})
  BY <1>5, <1>6 DEF PenaltyInv, Has
<1>9. ~(events[c][i].type = "on_time_paid" /\ events[d][j].type = "on_time_paid"
        /\ events[c][i].at = events[d][j].at)
  <2>1. \A a, b \in Debts : \A k \in Has(a, "on_time_paid"), l \in Has(b, "on_time_paid") :
          events[a][k].at = events[b][l].at => a = b /\ k = l
    BY <1>6 DEF BonusInv
  <2> QED
    BY <1>5, <2>1 DEF Has
<1> QED
  BY <1>5, <1>7, <1>8, <1>9

\* So that every one is taken in as a new fact,
LEMMA RowAppended ==
    ASSUME Inv, Chronicle, NEW x \in Rows, NEW rows, rows = Rows
    PROVE  Outcome(x, rows \ {x}) = "appended"
<1>1. \A y \in rows \ {x} :
        /\ ~(x.debt = y.debt /\ x.event.type = y.event.type
             /\ x.event.source = y.event.source)
        /\ ~(x.debt = y.debt /\ x.event.type = y.event.type
             /\ x.event.type \in {"overdue", "written_off"})
        /\ ~(x.event.type = "on_time_paid" /\ y.event.type = "on_time_paid"
             /\ x.event.at = y.event.at)
  BY RowsDiffer
<1>2. ~\E y \in rows \ {x} : y.debt = x.debt /\ y.event = x.event
  BY <1>1
<1>3. ~SourceExists(x, rows \ {x})
  BY <1>1 DEF SourceExists, SourceKey
<1>4. ~PenaltyExists(x, rows \ {x})
  BY <1>1 DEF PenaltyExists
<1>5. ~SlotUsed(x, rows \ {x})
  BY <1>1 DEF SlotUsed
<1> QED
  BY <1>2, <1>3, <1>4, <1>5 DEF Outcome

\* and a compensation finds the one reward it takes back, with its proof.
LEMMA RowCompensates ==
    ASSUME Inv, Chronicle, NEW x \in Rows
    PROVE  Compensates(x)
<1> SUFFICES ASSUME x.event.type \in DOMAIN Reward
             PROVE  \E y \in PositiveOf(x) : PositiveOf(x) = {y} /\ Proves(x, y)
  BY DEF Compensates
<1>1. PICK d \in Debts : \E k \in DOMAIN events[d] :
      x = [debt |-> d, n |-> k, event |-> events[d][k]]
  BY RowIs
<1>2. PICK i \in DOMAIN events[d] : x = [debt |-> d, n |-> i, event |-> events[d][i]]
  BY <1>1
<1>3. PICK s : s = events[d]
  OBVIOUS
<1>4. x.debt = d /\ x.n = i /\ x.event = s[i]
  BY <1>2, <1>3
<1>5. /\ Lawful(s) /\ Explained(d, s, debt[d].revision, payments, audits, voids)
      /\ s \in Seq(RatingEvent)
  BY <1>3 DEF Inv, Types, Chronicle, Chronicled
<1>6. PICK j \in 1..(i - 1) :
        Rewarded(s[i], s[j]) /\ Backed(d, s[i], s[j], payments, audits, voids)
  BY <1>2, <1>3, <1>4, <1>5 DEF Explained
<1>7. PICK y : y = [debt |-> d, n |-> j, event |-> s[j]]
  OBVIOUS
<1>8. 1..(i - 1) \subseteq DOMAIN s
  BY <1>2, <1>3, <1>5
<1>9. Earlier(x) = {[debt |-> d, n |-> k, event |-> s[k]] : k \in 1..(i - 1)}
  BY <1>3, <1>4 DEF Earlier
<1>10. y \in PositiveOf(x)
  BY <1>4, <1>6, <1>7, <1>9 DEF PositiveOf, Rewarded
<1>11. ASSUME NEW z \in PositiveOf(x)
       PROVE  z = y
  <2>1. z \in Earlier(x) /\ z.event.type = Reward[x.event.type] /\ z.event.source = x.event.source
    BY DEF PositiveOf
  <2>2. PICK k \in 1..(i - 1) : z = [debt |-> d, n |-> k, event |-> s[k]]
    BY <1>9, <2>1
  <2>3. s[k].type = s[j].type /\ s[k].source = s[j].source
    BY <1>4, <1>6, <2>1, <2>2 DEF Rewarded
  <2>4. k = j
    BY <1>5, <1>8, <2>3 DEF Lawful
  <2> QED
    BY <1>7, <2>2, <2>4
<1>12. Proves(x, y)
  BY <1>4, <1>6, <1>7 DEF Proves, Backed
<1> QED
  BY <1>10, <1>11, <1>12

\* Both readers accept what there is.
LEMMA RatingFollows == Inv /\ Chronicle => RatingHistoryAccepted
<1> SUFFICES ASSUME Inv, Chronicle PROVE RatingHistoryAccepted
  OBVIOUS
<1>1. PICK rows : rows = Rows
  OBVIOUS
<1>2. \A x \in rows : Stored(x, rows \ {x})
  BY <1>1, RowAppended, RowCompensates DEF Stored
<1>3. ASSUME NEW d \in Debts
      PROVE  /\ \A i \in 2..Len(events[d]) : events[d][i - 1].at <= events[d][i].at
             /\ Coherent(d)
  <2>1. Lawful(events[d]) /\ events[d] \in Seq(RatingEvent)
    BY DEF Inv, Types, Chronicle, Chronicled
  <2>2. \A i \in 2..Len(events[d]) : events[d][i - 1].at <= events[d][i].at
    BY <2>1 DEF Lawful
  <2>3. Folded(events[d]).ok = TRUE
    BY <2>1 DEF Lawful, Reached
  <2> QED
    BY <2>2, <2>3 DEF Coherent, Folded
<1> QED
  BY <1>1, <1>2, <1>3 DEF RatingHistoryAccepted

\* The rating can always take what the payment side appends, and read it again.
THEOREM RatingTakesItAll == Spec => []RatingHistoryAccepted
<1>1. Inv /\ TypeOK /\ Chronicle => RatingHistoryAccepted
  BY RatingFollows
<1> QED
  BY <1>1, HistoriesLawful, PTL

-----------------------------------------------------------------------------
(* The history of all debts, in the order of its rows.                     *)

Ordered(place, rows) ==
    /\ \A x \in rows : ~Before(place, x, x)
    /\ \A x, y, z \in rows : Before(place, x, y) /\ Before(place, y, z) => Before(place, x, z)
    /\ \A x, y \in rows : x # y => Before(place, x, y) \/ Before(place, y, x)

Preceding(place, rows, x) == {y \in rows : Before(place, y, x)}

Position(place, rows, x) == Cardinality(Preceding(place, rows, x)) + 1

Listed(place, rows) ==
    [i \in 1..Cardinality(rows) |-> CHOOSE x \in rows : Position(place, rows, x) = i]

LEMMA HistoryListed == ASSUME NEW place PROVE History(place) = Listed(place, Rows)
BY DEF History, Listed, Position, Preceding

\* Whatever the order, it numbers the rows: each has a position of its own.
LEMMA PositionsIn ==
    ASSUME NEW place, NEW rows, IsFiniteSet(rows), Ordered(place, rows)
    PROVE  /\ Cardinality(rows) \in Nat
           /\ \A x \in rows : Position(place, rows, x) \in 1..Cardinality(rows)
           /\ \A x, y \in rows : Before(place, x, y) =>
                Position(place, rows, x) < Position(place, rows, y)
           /\ \A i \in 1..Cardinality(rows) : \E x \in rows : Position(place, rows, x) = i
<1>1. PICK n : n = Cardinality(rows)
  OBVIOUS
<1>2. n \in Nat
  BY <1>1, FS_CardinalityType
<1>3. ASSUME NEW x \in rows
      PROVE  /\ IsFiniteSet(Preceding(place, rows, x))
             /\ Cardinality(Preceding(place, rows, x)) \in Nat
             /\ Position(place, rows, x) \in 1..n
  <2>1. Preceding(place, rows, x) \in SUBSET rows /\ x \notin Preceding(place, rows, x)
    BY DEF Ordered, Preceding
  <2>2. /\ IsFiniteSet(Preceding(place, rows, x))
        /\ Cardinality(Preceding(place, rows, x)) <= n
        /\ Cardinality(Preceding(place, rows, x)) # n
    BY <1>1, <2>1, FS_Subset
  <2>3. Cardinality(Preceding(place, rows, x)) \in Nat
    BY <2>2, FS_CardinalityType
  <2> QED
    BY <1>2, <2>2, <2>3 DEF Position
<1>4. ASSUME NEW x \in rows, NEW y \in rows, Before(place, x, y)
      PROVE  Position(place, rows, x) < Position(place, rows, y)
  <2>1. PICK S : S = Preceding(place, rows, x)
    OBVIOUS
  <2>2. PICK T : T = Preceding(place, rows, y)
    OBVIOUS
  <2>3. S \in SUBSET T
    BY <1>4, <2>1, <2>2 DEF Ordered, Preceding
  <2>4. S # T
    BY <1>4, <2>1, <2>2 DEF Ordered, Preceding
  <2>5. IsFiniteSet(T) /\ Cardinality(S) \in Nat /\ Cardinality(T) \in Nat
    BY <1>3, <2>1, <2>2
  <2>6. Cardinality(S) <= Cardinality(T) /\ Cardinality(S) # Cardinality(T)
    BY <2>3, <2>4, <2>5, FS_Subset
  <2> QED
    BY <2>1, <2>2, <2>5, <2>6 DEF Position
<1>5. PICK p : p = [x \in rows |-> Position(place, rows, x)]
  OBVIOUS
<1>6. p \in Injection(rows, 1..n)
  <2>1. p \in [rows -> 1..n]
    BY <1>3, <1>5
  <2>2. ASSUME NEW x \in rows, NEW y \in rows, p[x] = p[y]
        PROVE  x = y
    <3>1. p[x] = Position(place, rows, x) /\ p[y] = Position(place, rows, y)
      BY <1>5
    <3>2. p[x] \in 1..n
      BY <2>1
    <3>3. Position(place, rows, x) = Position(place, rows, y) /\ Position(place, rows, x) \in Nat
      <4>1. Position(place, rows, x) = Position(place, rows, y)
        BY <2>2, <3>1
      <4>2. Position(place, rows, x) \in 1..n
        BY <1>3
      <4> QED
        BY <1>2, <4>1, <4>2
    <3>4. ~Before(place, x, y) /\ ~Before(place, y, x)
      <4>1. ~(Position(place, rows, x) < Position(place, rows, y))
            /\ ~(Position(place, rows, y) < Position(place, rows, x))
        BY <3>3
      <4> QED
        BY <1>4, <4>1
    <3> QED
      BY <3>4 DEF Ordered
  <2> QED
    BY <2>1, <2>2 DEF Injection, IsInjective
<1>7. p \in Surjection(rows, 1..n)
  <2>1. IsFiniteSet(1..n) /\ Cardinality(1..n) = n
    BY <1>2, FS_Interval
  <2> QED
    BY <1>1, <1>6, <2>1, FS_Injection
<1>8. \A i \in 1..n : \E x \in rows : Position(place, rows, x) = i
  BY <1>5, <1>7 DEF Surjection
<1> QED
  BY <1>1, <1>2, <1>3, <1>4, <1>8

\* So the list has every row once, and in order.
Lists(place, rows, h, n) ==
    /\ n \in Nat /\ DOMAIN h = 1..n
    /\ \A i \in 1..n : h[i] \in rows
    /\ \A x \in rows : \E i \in 1..n : h[i] = x
    /\ \A i, j \in 1..n : h[i] = h[j] => i = j
    /\ \A i, j \in 1..n : Before(place, h[i], h[j]) => i < j

LEMMA ListedOnce ==
    ASSUME NEW place, NEW rows, IsFiniteSet(rows), Ordered(place, rows)
    PROVE  Lists(place, rows, Listed(place, rows), Cardinality(rows))
<1>1. PICK h : h = Listed(place, rows)
  OBVIOUS
<1>2. PICK n : n = Cardinality(rows)
  OBVIOUS
<1>3. /\ n \in Nat
      /\ \A x \in rows : Position(place, rows, x) \in 1..n
      /\ \A x, y \in rows : Before(place, x, y) =>
           Position(place, rows, x) < Position(place, rows, y)
      /\ \A i \in 1..n : \E x \in rows : Position(place, rows, x) = i
  BY <1>2, PositionsIn
<1>4. DOMAIN h = 1..n /\ \A i \in 1..n : h[i] \in rows /\ Position(place, rows, h[i]) = i
  BY <1>1, <1>2, <1>3 DEF Listed
<1>5. ASSUME NEW x \in rows
      PROVE  \E i \in 1..n : h[i] = x
  <2>1. PICK i \in 1..n : i = Position(place, rows, x)
    BY <1>3
  <2>2. h[i] \in rows /\ Position(place, rows, h[i]) = i
    BY <1>4
  <2>3. ~Before(place, x, h[i]) /\ ~Before(place, h[i], x)
    BY <1>3, <2>1, <2>2
  <2> QED
    BY <2>2, <2>3 DEF Ordered
<1> QED
  BY <1>1, <1>2, <1>3, <1>4, <1>5 DEF Lists

\* The rows there are can be listed, in whatever order the debts come.
LEMMA RowsListed ==
    ASSUME Inv, NEW place \in Injection(Debts, 1..Cardinality(Debts))
    PROVE  Lists(place, Rows, History(place), Cardinality(Rows))
<1>1. /\ \A d \in Debts : events[d] \in Seq(RatingEvent) /\ DOMAIN events[d] = 1..Len(events[d])
                          /\ Len(events[d]) \in Nat
      /\ IsFiniteSet(Debts)
  BY DebtsAssumption DEF Inv, Types
<1>2. PICK rows : rows = Rows
  OBVIOUS
<1>3. IsFiniteSet(rows)
  <2> DEFINE Its(d) == {[debt |-> d, n |-> i, event |-> events[d][i]] : i \in DOMAIN events[d]}
  <2>1. ASSUME NEW d \in Debts
        PROVE  IsFiniteSet(Its(d))
    <3>1. IsFiniteSet(DOMAIN events[d])
      BY <1>1, FS_Interval
    <3>2. PICK f : f = [i \in DOMAIN events[d] |-> [debt |-> d, n |-> i, event |-> events[d][i]]]
      OBVIOUS
    <3>3. f \in Surjection(DOMAIN events[d], Its(d))
      BY <3>2 DEF Surjection
    <3> QED
      BY <3>1, <3>3, FS_Surjection
  <2>2. PICK g : g = [d \in Debts |-> Its(d)]
    OBVIOUS
  <2>3. PICK all : all = {Its(d) : d \in Debts}
    OBVIOUS
  <2>4. g \in Surjection(Debts, all)
    BY <2>2, <2>3 DEF Surjection
  <2>5. IsFiniteSet(all) /\ \A T \in all : IsFiniteSet(T)
    BY <1>1, <2>1, <2>3, <2>4, FS_Surjection
  <2>6. rows = UNION all
    BY <1>2, <2>3 DEF Rows
  <2> HIDE DEF Its
  <2> QED
    BY <2>5, <2>6, FS_UNION
<1>4. \A x \in rows : /\ x.debt \in Debts /\ x.n \in DOMAIN events[x.debt]
                      /\ x = [debt |-> x.debt, n |-> x.n, event |-> events[x.debt][x.n]]
  BY <1>2, RowIs
<1>5. \A x \in rows : x.n \in Nat /\ x.event.at \in Int /\ place[x.debt] \in Int
  <2> SUFFICES ASSUME NEW x \in rows PROVE x.n \in Nat /\ x.event.at \in Int /\ place[x.debt] \in Int
    OBVIOUS
  <2>1. x.event \in RatingEvent /\ x.n \in Nat
    BY <1>1, <1>4
  <2>2. place[x.debt] \in 1..Cardinality(Debts)
    BY <1>4 DEF Injection
  <2> QED
    BY <2>1, <2>2 DEF RatingEvent
<1>6. \A x, y \in rows : x.debt = y.debt /\ x.n = y.n => x = y
  BY <1>4
<1>7. \A c, d \in Debts : place[c] = place[d] => c = d
  BY DEF Injection, IsInjective
<1>8. Ordered(place, rows)
  <2>1. \A x \in rows : ~Before(place, x, x)
    BY <1>5 DEF Before
  <2>2. ASSUME NEW x \in rows, NEW y \in rows, x # y
        PROVE  Before(place, x, y) \/ Before(place, y, x)
    BY <1>4, <1>5, <1>6, <1>7, <2>2 DEF Before
  <2>3. ASSUME NEW x \in rows, NEW y \in rows, NEW z \in rows,
               Before(place, x, y), Before(place, y, z)
        PROVE  Before(place, x, z)
    BY <1>5, <2>3 DEF Before
  <2> QED
    BY <2>1, <2>2, <2>3 DEF Ordered
<1> QED
  BY <1>2, <1>3, <1>8, HistoryListed, ListedOnce

-----------------------------------------------------------------------------
(* The score after the first so many rows.                                 *)

Tally(score, x, counted) ==
    IF x \in counted THEN Clamped(score + Delta[x.event.type]) ELSE score

Tallies(f, start, h, counted, n) ==
    f = [s \in SUBSET (1..n) |->
           IF s = {} THEN start ELSE Tally(f[s \ {Max(s)}], h[Max(s)], counted)]

LEMMA ScoreIs ==
    ASSUME NEW n, NEW h, DOMAIN h = 1..n, NEW start, NEW counted
    PROVE  Score(start, h, counted) = (CHOOSE f : Tallies(f, start, h, counted, n))[1..n]
BY DEF Score, FoldLeft, MapThenFoldSet, Tallies, Tally

\* As with the cycles of a debt, there is such a function.
LEMMA TalliesExist ==
    ASSUME NEW n \in Nat, NEW h, NEW start, NEW counted
    PROVE  \E f : Tallies(f, start, h, counted, n)
<1> SUFFICES ASSUME ~\E f : Tallies(f, start, h, counted, n) PROVE FALSE
  OBVIOUS
<1>0. PICK Bad : Bad = {s \in SUBSET (1..n) : \E k \in 0..n : s = 1..k /\ ~\E f : Tallies(f, start, h, counted, k)}
  OBVIOUS
<1>1. PICK s \in Bad : \A t \in Bad : t \subseteq s => t = s
  <2>1. 1..n \in Bad
    BY <1>0
  <2>2. IsFiniteSet(1..n)
    BY FS_Interval
  <2>3. Bad # {} /\ Bad \subseteq SUBSET (1..n)
    BY <1>0, <2>1
  <2>4. HasLeast(Bad)
    BY <2>2, <2>3, LeastThere
  <2> QED
    BY <2>4 DEF HasLeast
<1>2. PICK k \in 0..n : s = 1..k /\ ~\E f : Tallies(f, start, h, counted, k)
  BY <1>0, <1>1
<1>3. CASE k = 0
  <2>1. 1..k = {} /\ SUBSET (1..k) = {{}}
    BY <1>3
  <2> DEFINE f == [t \in {{}} |-> start]
  <2>2. f = [t \in {{}} |-> IF t = {} THEN start ELSE Tally(f[t \ {Max(t)}], h[Max(t)], counted)]
    <3>1. \A t \in {{}} : f[t] = IF t = {} THEN start ELSE Tally(f[t \ {Max(t)}], h[Max(t)], counted)
      OBVIOUS
    <3> QED
      BY <3>1, Zenon
  <2>3. Tallies(f, start, h, counted, k)
    BY <2>1, <2>2 DEF Tallies
  <2> QED
    BY <1>2, <2>3
<1>4. CASE k # 0
  <2>1. PICK j : j = k - 1
    OBVIOUS
  <2>2. j \in 0..n /\ j \in Nat /\ k \in Nat /\ 1..j \subseteq 1..k /\ 1..j # 1..k
        /\ 1..j \in SUBSET (1..n)
    <3>1. k \in 1..k /\ k \notin 1..j
      BY <1>4, <2>1
    <3> QED
      BY <1>4, <2>1, <3>1
  <2>3. PICK g : Tallies(g, start, h, counted, j)
    BY <1>0, <1>1, <1>2, <2>2
  <2>4. ASSUME NEW t \in SUBSET (1..k), t # {}
        PROVE  /\ Max(t) \in 1..k /\ t \ {Max(t)} \in SUBSET (1..j)
               /\ t \in SUBSET (1..j) => Max(t) \in 1..j
    <3>1. Max(t) \in t /\ \A i \in t : Max(t) >= i
      BY <2>2, <2>4, MaxIn
    <3>2. ASSUME NEW i \in t, i # Max(t)
          PROVE  i \in 1..j
      <4>1. i \in 1..k /\ Max(t) \in 1..k /\ Max(t) >= i
        BY <2>4, <3>1
      <4> QED
        BY <2>1, <2>2, <3>2, <4>1
    <3> QED
      BY <2>4, <3>1, <3>2
  <2> DEFINE f == [t \in SUBSET (1..k) |->
                     IF t \in SUBSET (1..j) THEN g[t] ELSE Tally(g[t \ {Max(t)}], h[Max(t)], counted)]
  <2>5. \A t \in SUBSET (1..j) : t \in SUBSET (1..k) /\ f[t] = g[t]
    BY <2>2
  <2>6. ASSUME NEW t \in SUBSET (1..k)
        PROVE  f[t] = IF t = {} THEN start ELSE Tally(f[t \ {Max(t)}], h[Max(t)], counted)
    <3>1. CASE t \in SUBSET (1..j)
      <4>1. f[t] = IF t = {} THEN start ELSE Tally(g[t \ {Max(t)}], h[Max(t)], counted)
        BY <2>3, <2>5, <3>1 DEF Tallies
      <4>2. t # {} => f[t \ {Max(t)}] = g[t \ {Max(t)}]
        BY <2>4, <2>5
      <4> HIDE DEF f
      <4> QED
        BY <4>1, <4>2
    <3>2. CASE t \notin SUBSET (1..j)
      <4>1. t # {} /\ f[t] = Tally(g[t \ {Max(t)}], h[Max(t)], counted)
        BY <3>2
      <4>2. f[t \ {Max(t)}] = g[t \ {Max(t)}]
        BY <2>4, <2>5, <4>1
      <4> HIDE DEF f
      <4> QED
        BY <4>1, <4>2
    <3> QED
      BY <3>1, <3>2
  <2>7. f = [t \in SUBSET (1..k) |-> f[t]]
    OBVIOUS
  <2>8. Tallies(f, start, h, counted, k)
    <3> HIDE DEF f
    <3> QED
      BY <2>6, <2>7 DEF Tallies
  <2> QED
    BY <1>2, <2>8
<1> QED
  BY <1>3, <1>4

\* What the score was after each row, up to the last.
Scores(f, start, h, counted, n) ==
    /\ f[0] = start
    /\ \A k \in 1..n : f[k] = Tally(f[k - 1], h[k], counted)
    /\ f[n] = Score(start, h, counted)

LEMMA ScoresThere ==
    ASSUME NEW n \in Nat, NEW h, DOMAIN h = 1..n, NEW start, NEW counted
    PROVE  \E f : Scores(f, start, h, counted, n)
<1>1. PICK g : g = CHOOSE f : Tallies(f, start, h, counted, n)
  OBVIOUS
<1>2. Tallies(g, start, h, counted, n)
  BY <1>1, TalliesExist
<1>3. PICK f : f = [k \in 0..n |-> g[1..k]]
  OBVIOUS
<1>4. f[0] = start
  <2>1. f[0] = g[1..0] /\ 1..0 = {}
    BY <1>3
  <2> QED
    BY <1>2, <2>1 DEF Tallies
<1>5. ASSUME NEW k \in 1..n
      PROVE  f[k] = Tally(f[k - 1], h[k], counted)
  <2>1. PICK s : s = 1..k
    OBVIOUS
  <2>2. k \in Nat /\ s \in SUBSET (1..n) /\ s \in SUBSET (1..k) /\ k \in s
    BY <2>1
  <2>3. Max(s) \in s /\ Max(s) >= k
    BY <2>2, MaxIn
  <2>4. Max(s) = k /\ s \ {Max(s)} = 1..(k - 1)
    BY <2>1, <2>2, <2>3
  <2>5. g[s] = Tally(g[1..(k - 1)], h[k], counted)
    BY <1>2, <2>2, <2>4 DEF Tallies
  <2>6. f[k] = g[s] /\ f[k - 1] = g[1..(k - 1)]
    BY <1>3, <2>1
  <2> QED
    BY <2>5, <2>6
<1>6. f[n] = Score(start, h, counted)
  BY <1>1, <1>3, ScoreIs
<1> QED
  BY <1>4, <1>5, <1>6 DEF Scores

-----------------------------------------------------------------------------
(* Rewards and what takes them back.                                       *)

Positive == {"on_time_paid", "written_off_settled"}

\* Row x takes back row y.
Answers(x, y) ==
    x.debt = y.debt /\ x.event.type \in DOMAIN Reward /\ Rewarded(x.event, y.event)

\* What was taken back and what takes back come in pairs, the reward first.
Pairs(place, rows, taken) ==
    /\ taken \subseteq rows
    /\ \A x \in taken : x.event.type \in Positive \cup DOMAIN Reward
    /\ \A y \in taken : y.event.type \in Positive => \E x \in rows : Answers(x, y)
    /\ \A x \in taken : x.event.type \in DOMAIN Reward => \E y \in rows : Answers(x, y)
    /\ \A x, y \in rows : Answers(x, y) => x \in taken /\ y \in taken /\ Before(place, y, x)
    /\ \A x, y, z \in rows : Answers(x, z) /\ Answers(y, z) => x = y
    /\ \A x, y, z \in rows : Answers(x, y) /\ Answers(x, z) => y = z

\* The rewards among the first k rows that are taken back only after them.
Hanging(h, k, taken, type) ==
    {j \in 1..k : h[j] \in taken /\ h[j].event.type = type
                  /\ \A l \in 1..k : ~Answers(h[l], h[j])}

LEMMA RewardIs ==
    /\ DOMAIN Reward = {"on_time_paid_voided", "written_off_settled_voided"}
    /\ Reward["on_time_paid_voided"] = "on_time_paid"
    /\ Reward["written_off_settled_voided"] = "written_off_settled"
    /\ \A type \in DOMAIN Reward : Reward[type] \in Positive /\ type \notin Positive
BY DEF Reward, Positive

\* What is not part of a pair leaves the hanging rewards alone; a reward is one
\* more, and what takes it back takes one of its kind from them.
LEMMA HangingGoesOn ==
    ASSUME NEW place, NEW rows, NEW taken, NEW h, NEW n, Lists(place, rows, h, n),
           Pairs(place, rows, taken), NEW k \in 0..(n - 1)
    PROVE  /\ k + 1 \in 1..n
           /\ h[k + 1] \notin taken =>
                \A type \in Positive : Hanging(h, k + 1, taken, type) = Hanging(h, k, taken, type)
           /\ h[k + 1] \in taken /\ h[k + 1].event.type \in Positive =>
                \A type \in Positive :
                  Hanging(h, k + 1, taken, type) =
                    IF type = h[k + 1].event.type THEN Hanging(h, k, taken, type) \cup {k + 1}
                    ELSE Hanging(h, k, taken, type)
           /\ h[k + 1] \in taken /\ h[k + 1].event.type \in DOMAIN Reward =>
                \A type \in Positive :
                  IF type = Reward[h[k + 1].event.type]
                  THEN \E j \in Hanging(h, k, taken, type) :
                         Hanging(h, k + 1, taken, type) = Hanging(h, k, taken, type) \ {j}
                  ELSE Hanging(h, k + 1, taken, type) = Hanging(h, k, taken, type)
<1>1. PICK m : m = k + 1
  OBVIOUS
<1>2. /\ n \in Nat /\ k \in Nat /\ m \in Nat /\ m \in 1..n /\ 1..k \subseteq 1..n
      /\ 1..m = (1..k) \cup {m} /\ m \notin 1..k /\ \A j \in 1..m : j \in Nat /\ j <= m
  BY <1>1 DEF Lists
<1>3. PICK x : x = h[m]
  OBVIOUS
<1>4. /\ x \in rows /\ \A j \in 1..m : h[j] \in rows
      /\ \A i, j \in 1..m : h[i] = h[j] => i = j
      /\ \A i, j \in 1..m : Before(place, h[i], h[j]) => i < j
  BY <1>2, <1>3 DEF Lists
<1>5. \A i, j \in 1..m : Answers(h[i], h[j]) => h[i] \in taken /\ h[j] \in taken /\ j < i
  BY <1>4 DEF Pairs
<1>6. \A i \in 1..m : ~Answers(h[i], x)
  BY <1>2, <1>3, <1>5
<1>7. \A y : y.event.type \in DOMAIN Reward => y.event.type \notin Positive
  BY RewardIs
<1>8. CASE \A j \in 1..k : ~Answers(x, h[j])
  <2>1. ASSUME NEW type \in Positive
        PROVE  Hanging(h, m, taken, type) =
                 IF x \in taken /\ x.event.type = type THEN Hanging(h, k, taken, type) \cup {m}
                 ELSE Hanging(h, k, taken, type)
    BY <1>2, <1>3, <1>6, <1>8 DEF Hanging
  <2>2. x \in taken => x.event.type \notin DOMAIN Reward
    <3> SUFFICES ASSUME x \in taken, x.event.type \in DOMAIN Reward PROVE FALSE
      OBVIOUS
    <3>1. PICK y \in rows : Answers(x, y)
      BY DEF Pairs
    <3>2. PICK j \in 1..n : h[j] = y
      BY DEF Lists
    <3>3. Before(place, y, x)
      BY <1>4, <3>1 DEF Pairs
    <3>4. j < m /\ j \in 1..n
      BY <1>2, <1>3, <3>2, <3>3 DEF Lists
    <3>5. j \in 1..k
      BY <1>1, <1>2, <3>4
    <3> QED
      BY <1>8, <3>1, <3>2, <3>5
  <2> QED
    BY <1>1, <1>2, <1>3, <2>1, <2>2
<1>9. ASSUME NEW j \in 1..k, Answers(x, h[j])
      PROVE  /\ x \in taken /\ x.event.type \notin Positive
             /\ \A type \in Positive :
                  IF type = Reward[x.event.type]
                  THEN /\ j \in Hanging(h, k, taken, type)
                       /\ Hanging(h, m, taken, type) = Hanging(h, k, taken, type) \ {j}
                  ELSE Hanging(h, m, taken, type) = Hanging(h, k, taken, type)
  <2>1. /\ x \in taken /\ h[j] \in taken /\ x.event.type \in DOMAIN Reward
        /\ h[j].event.type = Reward[x.event.type] /\ x.event.type \notin Positive
    BY <1>2, <1>3, <1>5, <1>7, <1>9 DEF Answers, Rewarded
  <2>2. \A l \in 1..k : ~Answers(h[l], h[j])
    <3>1. ASSUME NEW l \in 1..k, Answers(h[l], h[j])
          PROVE  FALSE
      <4>1. h[l] \in rows /\ h[j] \in rows /\ l \in 1..m
        BY <1>2, <1>4
      <4>2. h[l] = x
        BY <1>4, <1>9, <3>1, <4>1 DEF Pairs
      <4>3. l = m
        BY <1>2, <1>3, <1>4, <4>1, <4>2
      <4> QED
        BY <1>2, <4>3
    <3> QED
      BY <3>1
  <2>3. \A i \in 1..k : Answers(x, h[i]) => i = j
    <3>1. ASSUME NEW i \in 1..k, Answers(x, h[i])
          PROVE  i = j
      <4>1. h[i] \in rows /\ h[j] \in rows /\ i \in 1..m /\ j \in 1..m
        BY <1>2, <1>4
      <4>2. h[i] = h[j]
        BY <1>4, <1>9, <3>1, <4>1 DEF Pairs
      <4> QED
        BY <1>4, <4>1, <4>2
    <3> QED
      BY <3>1
  <2>4. ASSUME NEW type \in Positive
        PROVE  Hanging(h, m, taken, type) = Hanging(h, k, taken, type) \ {j}
    <3>1. m \notin Hanging(h, m, taken, type)
      BY <1>3, <2>1 DEF Hanging
    <3>2. ASSUME NEW i \in 1..k
          PROVE  i \in Hanging(h, m, taken, type) <=> i \in Hanging(h, k, taken, type) \ {j}
      <4>1. (\A l \in 1..m : ~Answers(h[l], h[i])) <=>
              (\A l \in 1..k : ~Answers(h[l], h[i])) /\ i # j
        BY <1>2, <1>3, <1>9, <2>3
      <4> QED
        BY <1>2, <4>1 DEF Hanging
    <3>3. Hanging(h, m, taken, type) \subseteq 1..m /\ Hanging(h, k, taken, type) \subseteq 1..k
      BY DEF Hanging
    <3> QED
      BY <1>2, <3>1, <3>2, <3>3
  <2>5. ASSUME NEW type \in Positive
        PROVE  j \in Hanging(h, k, taken, type) <=> type = Reward[x.event.type]
    BY <2>1, <2>2 DEF Hanging
  <2> QED
    BY <2>1, <2>4, <2>5
<1>10. CASE ~\A j \in 1..k : ~Answers(x, h[j])
  <2>1. PICK j \in 1..k : Answers(x, h[j])
    BY <1>10
  <2> QED
    BY <1>1, <1>2, <1>3, <1>9, <2>1
<1> QED
  BY <1>8, <1>10

\* In the end nothing hangs.
LEMMA NothingHangs ==
    ASSUME NEW place, NEW rows, NEW taken, NEW h, NEW n, Lists(place, rows, h, n),
           Pairs(place, rows, taken)
    PROVE  \A type \in Positive :
             Hanging(h, n, taken, type) = {} /\ Hanging(h, 0, taken, type) = {}
<1> SUFFICES ASSUME NEW type \in Positive
             PROVE  Hanging(h, n, taken, type) = {} /\ Hanging(h, 0, taken, type) = {}
  OBVIOUS
<1>1. ASSUME NEW j \in Hanging(h, n, taken, type)
      PROVE  FALSE
  <2>1. /\ j \in 1..n /\ h[j] \in taken /\ h[j].event.type \in Positive
        /\ \A l \in 1..n : ~Answers(h[l], h[j])
    BY <1>1 DEF Hanging
  <2>2. PICK x \in rows : Answers(x, h[j])
    BY <2>1 DEF Pairs
  <2>3. PICK l \in 1..n : h[l] = x
    BY DEF Lists
  <2> QED
    BY <2>1, <2>2, <2>3
<1>2. Hanging(h, 0, taken, type) = {}
  <2>1. 1..0 = {}
    OBVIOUS
  <2> QED
    BY <2>1 DEF Hanging
<1> QED
  BY <1>1, <1>2

-----------------------------------------------------------------------------
(* The score with everything is ahead of the score without the pairs by no *)
(* more than what hangs.                                                   *)

Count(h, k, taken, type) == Cardinality(Hanging(h, k, taken, type))

Ahead(a, b, h, k, taken) ==
    /\ a \in 0..100 /\ b \in 0..100
    /\ a <= b + 5 * Count(h, k, taken, "on_time_paid")
              + 10 * Count(h, k, taken, "written_off_settled")

LEMMA CountIs ==
    ASSUME NEW h, NEW k \in Nat, NEW taken, NEW type
    PROVE  /\ IsFiniteSet(Hanging(h, k, taken, type)) /\ Count(h, k, taken, type) \in Nat
<1>1. IsFiniteSet(1..k) /\ Hanging(h, k, taken, type) \in SUBSET (1..k)
  BY FS_Interval DEF Hanging
<1> QED
  BY <1>1, FS_Subset, FS_CardinalityType DEF Count

\* Being cut off brings scores closer.
LEMMA ClampedIs ==
    ASSUME NEW a \in Int
    PROVE  /\ Clamped(a) \in 0..100
           /\ \A b \in Int, s \in Nat : a <= b + s => Clamped(a) <= Clamped(b) + s
           /\ a <= 100 => \A s \in Nat : a <= s => Clamped(a) <= s
BY DEF Clamped

LEMMA DeltaIs ==
    /\ \A type \in EventTypes : Delta[type] \in Int
    /\ Delta["on_time_paid"] = 5 /\ Delta["written_off_settled"] = 10
    /\ Delta["on_time_paid_voided"] = -5 /\ Delta["written_off_settled_voided"] = -10
BY DEF Delta, EventTypes

LEMMA StaysAhead ==
    ASSUME NEW place, NEW rows, NEW taken, NEW h, NEW n, Lists(place, rows, h, n),
           Pairs(place, rows, taken), \A x \in rows : x.event.type \in EventTypes,
           NEW k \in 0..(n - 1), NEW a, NEW b, Ahead(a, b, h, k, taken)
    PROVE  Ahead(Tally(a, h[k + 1], rows), Tally(b, h[k + 1], rows \ taken), h, k + 1, taken)
<1>1. PICK x : x = h[k + 1]
  OBVIOUS
<1>2. k \in Nat /\ k + 1 \in Nat /\ k + 1 \in 1..n /\ x \in rows
  BY <1>1 DEF Lists
<1>3. PICK e : e = x.event.type
  OBVIOUS
<1>4. e \in EventTypes /\ Delta[e] \in Int /\ Tally(a, x, rows) = Clamped(a + Delta[e])
  BY <1>2, <1>3, DeltaIs DEF Tally
<1>5. PICK p : p = Count(h, k, taken, "on_time_paid")
  OBVIOUS
<1>6. PICK q : q = Count(h, k, taken, "written_off_settled")
  OBVIOUS
<1>7. PICK r : r = Count(h, k + 1, taken, "on_time_paid")
  OBVIOUS
<1>8. PICK s : s = Count(h, k + 1, taken, "written_off_settled")
  OBVIOUS
<1>9. p \in Nat /\ q \in Nat /\ r \in Nat /\ s \in Nat
  BY <1>2, <1>5, <1>6, <1>7, <1>8, CountIs
<1>10. a \in 0..100 /\ b \in 0..100 /\ a <= b + 5 * p + 10 * q
  BY <1>5, <1>6 DEF Ahead
<1>11. "on_time_paid" \in Positive /\ "written_off_settled" \in Positive
       /\ "on_time_paid" # "written_off_settled"
  BY DEF Positive
<1>12. \A type : /\ IsFiniteSet(Hanging(h, k, taken, type))
                 /\ k + 1 \notin Hanging(h, k, taken, type)
  <2>1. \A type : IsFiniteSet(Hanging(h, k, taken, type))
    BY <1>2, CountIs
  <2>2. k + 1 \notin 1..k
    BY <1>2
  <2> QED
    BY <2>1, <2>2 DEF Hanging
<1>13. ASSUME NEW u, NEW v, u = Tally(a, x, rows), v = Tally(b, x, rows \ taken),
              u \in 0..100, v \in 0..100, u <= v + 5 * r + 10 * s
       PROVE  Ahead(Tally(a, h[k + 1], rows), Tally(b, h[k + 1], rows \ taken), h, k + 1, taken)
  BY <1>1, <1>7, <1>8, <1>13 DEF Ahead
<1>14. CASE x \notin taken
  <2>1. r = p /\ s = q
    BY <1>1, <1>5, <1>6, <1>7, <1>8, <1>11, <1>14, HangingGoesOn DEF Count
  <2>2. Tally(b, x, rows \ taken) = Clamped(b + Delta[e])
    BY <1>2, <1>3, <1>14 DEF Tally
  <2>3. PICK m \in Nat : m = 5 * p + 10 * q
    BY <1>9
  <2>4. /\ a + Delta[e] \in Int /\ b + Delta[e] \in Int
        /\ a + Delta[e] <= (b + Delta[e]) + m
    BY <1>4, <1>9, <1>10, <2>3
  <2>5. /\ Clamped(a + Delta[e]) \in 0..100 /\ Clamped(b + Delta[e]) \in 0..100
        /\ Clamped(a + Delta[e]) <= Clamped(b + Delta[e]) + m
    BY <2>4, ClampedIs
  <2>6. Clamped(a + Delta[e]) <= Clamped(b + Delta[e]) + 5 * r + 10 * s
    BY <1>9, <2>1, <2>3, <2>5
  <2> QED
    BY <1>4, <1>13, <2>2, <2>5, <2>6
<1>15. ASSUME x \in taken, a + Delta[e] <= b + 5 * r + 10 * s
       PROVE  Ahead(Tally(a, h[k + 1], rows), Tally(b, h[k + 1], rows \ taken), h, k + 1, taken)
  <2>1. Tally(b, x, rows \ taken) = b
    BY <1>15 DEF Tally
  <2>2. a + Delta[e] \in Int /\ Clamped(a + Delta[e]) \in 0..100
    <3>1. a + Delta[e] \in Int
      BY <1>4, <1>10
    <3> QED
      BY <3>1, ClampedIs
  <2>3. PICK m \in Nat : m = b + 5 * r + 10 * s
    BY <1>9, <1>10
  <2>4. a + Delta[e] <= m
    BY <1>15, <2>3
  <2>5. Clamped(a + Delta[e]) <= m
    BY <2>2, <2>4 DEF Clamped
  <2> QED
    BY <1>4, <1>10, <1>13, <2>1, <2>2, <2>3, <2>5
<1>16. CASE x \in taken /\ e \in Positive
  <2>1. \A type \in Positive :
          Hanging(h, k + 1, taken, type) =
            IF type = e THEN Hanging(h, k, taken, type) \cup {k + 1}
            ELSE Hanging(h, k, taken, type)
    BY <1>1, <1>3, <1>16, HangingGoesOn
  <2>2. \A type \in Positive :
          Count(h, k + 1, taken, type) =
            IF type = e THEN Count(h, k, taken, type) + 1 ELSE Count(h, k, taken, type)
    <3> SUFFICES ASSUME NEW type \in Positive
                 PROVE  Count(h, k + 1, taken, type) =
                          IF type = e THEN Count(h, k, taken, type) + 1
                          ELSE Count(h, k, taken, type)
      OBVIOUS
    <3>1. PICK S : S = Hanging(h, k, taken, type)
      OBVIOUS
    <3>2. IsFiniteSet(S) /\ k + 1 \notin S
      BY <1>12, <3>1
    <3>3. Cardinality(S \cup {k + 1}) = Cardinality(S) + 1
      BY <3>2, FS_AddElement
    <3>4. Hanging(h, k + 1, taken, type) = IF type = e THEN S \cup {k + 1} ELSE S
      BY <2>1, <3>1
    <3> QED
      BY <3>1, <3>3, <3>4 DEF Count
  <2>3. CASE e = "on_time_paid"
    <3>1. r = p + 1 /\ s = q /\ Delta[e] = 5
      BY <1>5, <1>6, <1>7, <1>8, <1>11, <2>2, <2>3, DeltaIs
    <3>2. a + Delta[e] <= b + 5 * r + 10 * s
      BY <1>9, <1>10, <3>1
    <3> QED
      BY <1>15, <1>16, <3>2
  <2>4. CASE e = "written_off_settled"
    <3>1. r = p /\ s = q + 1 /\ Delta[e] = 10
      BY <1>5, <1>6, <1>7, <1>8, <1>11, <2>2, <2>4, DeltaIs
    <3>2. a + Delta[e] <= b + 5 * r + 10 * s
      BY <1>9, <1>10, <3>1
    <3> QED
      BY <1>15, <1>16, <3>2
  <2> QED
    BY <1>16, <2>3, <2>4 DEF Positive
<1>17. CASE x \in taken /\ e \in DOMAIN Reward
  <2>1. \A type \in Positive :
          IF type = Reward[e]
          THEN \E j \in Hanging(h, k, taken, type) :
                 Hanging(h, k + 1, taken, type) = Hanging(h, k, taken, type) \ {j}
          ELSE Hanging(h, k + 1, taken, type) = Hanging(h, k, taken, type)
    BY <1>1, <1>3, <1>17, HangingGoesOn
  <2>2. ASSUME NEW type \in Positive
        PROVE  Count(h, k + 1, taken, type) =
                 IF type = Reward[e] THEN Count(h, k, taken, type) - 1 ELSE Count(h, k, taken, type)
    <3>1. CASE type = Reward[e]
      <4>1. PICK j \in Hanging(h, k, taken, type) :
              Hanging(h, k + 1, taken, type) = Hanging(h, k, taken, type) \ {j}
        BY <2>1, <3>1
      <4> QED
        BY <1>12, <3>1, <4>1, FS_RemoveElement DEF Count
    <3>2. CASE type # Reward[e]
      BY <2>1, <3>2 DEF Count
    <3> QED
      BY <3>1, <3>2
  <2>3. CASE e = "on_time_paid_voided"
    <3>1. r = p - 1 /\ s = q /\ Delta[e] = -5
      BY <1>5, <1>6, <1>7, <1>8, <1>11, <2>2, <2>3, DeltaIs, RewardIs
    <3>2. a + Delta[e] <= b + 5 * r + 10 * s
      BY <1>9, <1>10, <3>1
    <3> QED
      BY <1>15, <1>17, <3>2
  <2>4. CASE e = "written_off_settled_voided"
    <3>1. r = p /\ s = q - 1 /\ Delta[e] = -10
      BY <1>5, <1>6, <1>7, <1>8, <1>11, <2>2, <2>4, DeltaIs, RewardIs
    <3>2. a + Delta[e] <= b + 5 * r + 10 * s
      BY <1>9, <1>10, <3>1
    <3> QED
      BY <1>15, <1>17, <3>2
  <2> QED
    BY <1>17, <2>3, <2>4, RewardIs
<1> QED
  <2>1. x \in taken => e \in Positive \cup DOMAIN Reward
    BY <1>3 DEF Pairs
  <2> QED
    BY <1>14, <1>16, <1>17, <2>1

\* After the last row nothing hangs, and so it is not ahead at all.
LEMMA NotAhead ==
    ASSUME NEW place, NEW rows, NEW taken, NEW h, NEW n, Lists(place, rows, h, n),
           Pairs(place, rows, taken), \A x \in rows : x.event.type \in EventTypes,
           NEW start \in 0..100
    PROVE  Score(start, h, rows) <= Score(start, h, rows \ taken)
<1>1. n \in Nat /\ DOMAIN h = 1..n
  BY DEF Lists
<1>2. PICK f : Scores(f, start, h, rows, n)
  BY <1>1, ScoresThere
<1>3. PICK g : Scores(g, start, h, rows \ taken, n)
  BY <1>1, ScoresThere
<1>4. \A type \in Positive : Count(h, n, taken, type) = 0 /\ Count(h, 0, taken, type) = 0
  BY NothingHangs, FS_EmptySet DEF Count
<1>5. "on_time_paid" \in Positive /\ "written_off_settled" \in Positive
  BY DEF Positive
<1>6. Ahead(f[n], g[n], h, n, taken)
  <2> SUFFICES ASSUME ~Ahead(f[n], g[n], h, n, taken) PROVE FALSE
    OBVIOUS
  <2>1. PICK Bad : Bad = {s \in SUBSET (1..n) :
                            \E k \in 0..n : s = 1..k /\ ~Ahead(f[k], g[k], h, k, taken)}
    OBVIOUS
  <2>2. PICK s \in Bad : \A t \in Bad : t \subseteq s => t = s
    <3>1. IsFiniteSet(1..n)
      BY <1>1, FS_Interval
    <3>2. 1..n \in Bad /\ Bad \subseteq SUBSET (1..n)
      BY <1>1, <2>1
    <3>3. HasLeast(Bad)
      BY <3>1, <3>2, LeastThere
    <3> QED
      BY <3>3 DEF HasLeast
  <2>3. PICK k \in 0..n : s = 1..k /\ ~Ahead(f[k], g[k], h, k, taken)
    BY <2>1, <2>2
  <2>4. k # 0
    <3>1. f[0] = start /\ g[0] = start
      BY <1>2, <1>3 DEF Scores
    <3>2. Ahead(f[0], g[0], h, 0, taken)
      BY <1>4, <1>5, <3>1 DEF Ahead
    <3> QED
      BY <2>3, <3>2
  <2>5. PICK j \in 0..(n - 1) : j = k - 1 /\ k = j + 1
    BY <1>1, <2>3, <2>4
  <2>6. Ahead(f[j], g[j], h, j, taken)
    <3>1. k \in 1..k /\ k \notin 1..j /\ 1..j \subseteq 1..k /\ 1..j \in SUBSET (1..n) /\ j \in 0..n
      BY <1>1, <2>3, <2>4, <2>5
    <3> QED
      BY <2>1, <2>2, <2>3, <3>1
  <2>7. f[k] = Tally(f[j], h[k], rows) /\ g[k] = Tally(g[j], h[k], rows \ taken)
    <3>1. k \in 1..n /\ k - 1 = j
      BY <1>1, <2>3, <2>4, <2>5
    <3> QED
      BY <1>2, <1>3, <3>1 DEF Scores
  <2>8. Ahead(f[k], g[k], h, k, taken)
    BY <2>5, <2>6, <2>7, StaysAhead
  <2> QED
    BY <2>3, <2>8
<1>7. f[n] <= g[n]
  BY <1>4, <1>5, <1>6 DEF Ahead
<1> QED
  BY <1>2, <1>3, <1>7 DEF Scores

-----------------------------------------------------------------------------
(* The pairs of a chronicle, and the score of its history.                 *)

Taken(rows) == {x \in rows : TakenBack(x)}

\* A row and its event, with what is known of the events of its debt.
LEMMA RowOf ==
    ASSUME Inv, Chronicle, NEW x \in Rows
    PROVE  /\ x.debt \in Debts /\ x.n \in DOMAIN events[x.debt]
           /\ x.event = events[x.debt][x.n] /\ x.event \in RatingEvent
           /\ x = [debt |-> x.debt, n |-> x.n, event |-> events[x.debt][x.n]]
           /\ events[x.debt] \in Seq(RatingEvent) /\ Lawful(events[x.debt])
           /\ Explained(x.debt, events[x.debt], debt[x.debt].revision, payments, audits, voids)
<1>1. PICK d \in Debts : \E i \in DOMAIN events[d] :
        x = [debt |-> d, n |-> i, event |-> events[d][i]]
  BY RowIs
<1>2. PICK i \in DOMAIN events[d] : x = [debt |-> d, n |-> i, event |-> events[d][i]]
  BY <1>1
<1>3. events[d] \in Seq(RatingEvent)
  BY DEF Inv, Types
<1>4. Chronicled(d)
  BY DEF Chronicle
<1>5. events[d][i] \in RatingEvent
  BY <1>3
<1> QED
  BY <1>2, <1>3, <1>4, <1>5 DEF Chronicled

\* Every event of a debt has a row.
LEMMA RowThere ==
    ASSUME NEW d \in Debts, NEW i \in DOMAIN events[d]
    PROVE  [debt |-> d, n |-> i, event |-> events[d][i]] \in Rows
BY DEF Rows

\* A compensation is of an earlier row, its only one, and the only one of that.
LEMMA AnswersOnce ==
    ASSUME Inv, Chronicle
    PROVE  /\ \A x \in Rows : x.event.type \in DOMAIN Reward => \E y \in Rows : Answers(x, y)
           /\ \A x, y, z \in Rows : Answers(x, z) /\ Answers(y, z) => x = y
           /\ \A x, y, z \in Rows : Answers(x, y) /\ Answers(x, z) => y = z
           /\ \A x, y \in Rows : Answers(x, y) => y.n < x.n /\ y.event.at <= x.event.at
<1>1. ASSUME NEW x \in Rows, x.event.type \in DOMAIN Reward
      PROVE  \E y \in Rows : Answers(x, y) /\ y.n < x.n
  <2>1. PICK d \in Debts : d = x.debt
    BY RowOf
  <2>2. PICK i \in DOMAIN events[d] : i = x.n /\ x.event = events[d][i]
    BY <2>1, RowOf
  <2>3. events[d] \in Seq(RatingEvent)
        /\ Explained(d, events[d], debt[d].revision, payments, audits, voids)
    BY <2>1, RowOf
  <2>4. PICK j \in 1..(i - 1) : Rewarded(events[d][i], events[d][j])
    BY <1>1, <2>2, <2>3 DEF Explained
  <2>5. j \in DOMAIN events[d] /\ j < i
    BY <2>2, <2>3, <2>4
  <2>6. PICK y : y = [debt |-> d, n |-> j, event |-> events[d][j]]
    OBVIOUS
  <2>7. y \in Rows /\ y.debt = d /\ y.n = j /\ y.event = events[d][j]
    BY <2>5, <2>6, RowThere
  <2>8. Answers(x, y)
    BY <1>1, <2>1, <2>2, <2>4, <2>7 DEF Answers
  <2> QED
    BY <2>2, <2>5, <2>7, <2>8
<1>2. ASSUME NEW x \in Rows, NEW y \in Rows, x.debt = y.debt, x.event.type = y.event.type,
             x.event.source = y.event.source
      PROVE  x = y
  <2>1. x.n = y.n
    <3>1. PICK s : s = events[x.debt]
      OBVIOUS
    <3>2. /\ Lawful(s) /\ x.n \in DOMAIN s /\ y.n \in DOMAIN s
          /\ x.event = s[x.n] /\ y.event = s[y.n]
      BY <1>2, <3>1, RowOf
    <3> QED
      BY <1>2, <3>2 DEF Lawful
  <2> QED
    BY <1>2, <2>1, RowOf
<1>3. ASSUME NEW x \in Rows, NEW y \in Rows, NEW z \in Rows, Answers(x, z), Answers(y, z)
      PROVE  x = y
  <2>1. x.event.type = y.event.type
    BY <1>3, RewardIs DEF Answers, Rewarded
  <2> QED
    BY <1>2, <1>3, <2>1 DEF Answers, Rewarded
<1>4. ASSUME NEW x \in Rows, NEW y \in Rows, NEW z \in Rows, Answers(x, y), Answers(x, z)
      PROVE  y = z
  BY <1>2, <1>4 DEF Answers, Rewarded
<1>5. ASSUME NEW x \in Rows, NEW y \in Rows, Answers(x, y)
      PROVE  y.n < x.n /\ y.event.at <= x.event.at
  <2>1. PICK z \in Rows : Answers(x, z) /\ z.n < x.n
    BY <1>1, <1>5 DEF Answers
  <2>2. z = y
    BY <1>4, <1>5, <2>1
  <2>3. y.n < x.n
    BY <2>1, <2>2
  <2>4. x.debt = y.debt
    BY <1>5 DEF Answers
  <2>5. y.event.at <= x.event.at
    <3>1. PICK s : s = events[x.debt]
      OBVIOUS
    <3>2. /\ Lawful(s) /\ x.n \in DOMAIN s /\ y.n \in DOMAIN s
          /\ x.event = s[x.n] /\ y.event = s[y.n]
      BY <2>4, <3>1, RowOf
    <3> QED
      BY <2>3, <3>2 DEF Lawful
  <2> QED
    BY <2>3, <2>5
<1> QED
  BY <1>1, <1>3, <1>4, <1>5

\* What was taken back is what is in such a pair.
LEMMA TakenBackIs ==
    ASSUME Inv, Chronicle, NEW x \in Rows
    PROVE  /\ TakenBack(x) => x.event.type \in Positive \cup DOMAIN Reward
           /\ TakenBack(x) /\ x.event.type \in Positive => \E y \in Rows : Answers(y, x)
           /\ \A y \in Rows : Answers(x, y) => TakenBack(x) /\ TakenBack(y)
<1>1. PICK d \in Debts : d = x.debt
  BY RowOf
<1>2. \A type : Has(d, type) = At(events[d], type)
  BY DEF Has, At
<1>3. /\ x.event = events[d][x.n] /\ x.n \in DOMAIN events[d]
  BY <1>1, RowOf
<1>4. TakenBack(x) => x.event.type \in Positive \cup DOMAIN Reward
  BY RewardIs DEF TakenBack, Positive
<1>5. ASSUME NEW type \in DOMAIN Reward, x.event.type = Reward[type],
             x.event.source \in Sources(d, type)
      PROVE  \E y \in Rows : Answers(y, x)
  <2>1. PICK i \in Has(d, type) : events[d][i].source = x.event.source
    BY <1>5 DEF Sources
  <2>2. i \in DOMAIN events[d] /\ events[d][i].type = type
    BY <2>1 DEF Has
  <2>3. PICK y : y = [debt |-> d, n |-> i, event |-> events[d][i]]
    OBVIOUS
  <2>4. y \in Rows /\ y.debt = d /\ y.event = events[d][i]
    BY <2>2, <2>3, RowThere
  <2>5. Answers(y, x)
    BY <1>1, <1>5, <2>1, <2>2, <2>4 DEF Answers, Rewarded
  <2> QED
    BY <2>4, <2>5
<1>6. TakenBack(x) /\ x.event.type \in Positive => \E y \in Rows : Answers(y, x)
  <2> SUFFICES ASSUME TakenBack(x), x.event.type \in Positive
               PROVE  \E type \in DOMAIN Reward :
                        x.event.type = Reward[type] /\ x.event.source \in Sources(d, type)
    BY <1>5
  <2> QED
    BY <1>1, RewardIs DEF TakenBack, Positive
<1>7. ASSUME NEW y \in Rows, Answers(x, y)
      PROVE  TakenBack(x) /\ TakenBack(y)
  <2>1. y.debt = d /\ y.event = events[d][y.n] /\ y.n \in DOMAIN events[d]
    BY <1>1, <1>7, RowOf DEF Answers
  <2>2. /\ x.event.type \in DOMAIN Reward /\ y.event.type = Reward[x.event.type]
        /\ y.event.source = x.event.source
    BY <1>7 DEF Answers, Rewarded
  <2>3. /\ x.event.source \in Sources(d, x.event.type)
        /\ y.event.source \in Sources(d, y.event.type)
    BY <1>3, <2>1 DEF Sources, Has
  <2> QED
    BY <1>1, <2>1, <2>2, <2>3, RewardIs DEF TakenBack
<1> QED
  BY <1>4, <1>6, <1>7

LEMMA ChroniclePairs ==
    ASSUME Inv, Chronicle, NEW place
    PROVE  Pairs(place, Rows, Taken(Rows))
<1>1. PICK rows : rows = Rows
  OBVIOUS
<1>2. PICK taken : taken = Taken(rows)
  OBVIOUS
<1>3. taken \subseteq rows /\ \A x \in rows : x \in taken <=> TakenBack(x)
  BY <1>2 DEF Taken
<1>4. \A x, y \in rows : Answers(x, y) => Before(place, y, x)
  <2>1. ASSUME NEW x \in rows, NEW y \in rows, Answers(x, y)
        PROVE  Before(place, y, x)
    <3>1. y.n < x.n /\ y.event.at <= x.event.at /\ x.debt = y.debt
      BY <1>1, <2>1, AnswersOnce DEF Answers
    <3>2. x.event.at \in Nat /\ y.event.at \in Nat
      BY <1>1, RowOf DEF RatingEvent
    <3> QED
      BY <3>1, <3>2 DEF Before
  <2> QED
    BY <2>1
<1>5. /\ \A x \in rows : x.event.type \in DOMAIN Reward => \E y \in rows : Answers(x, y)
      /\ \A x, y, z \in rows : Answers(x, z) /\ Answers(y, z) => x = y
      /\ \A x, y, z \in rows : Answers(x, y) /\ Answers(x, z) => y = z
  BY <1>1, AnswersOnce
<1>6. \A x \in rows :
        /\ TakenBack(x) => x.event.type \in Positive \cup DOMAIN Reward
        /\ TakenBack(x) /\ x.event.type \in Positive => \E y \in rows : Answers(y, x)
        /\ \A y \in rows : Answers(x, y) => TakenBack(x) /\ TakenBack(y)
  BY <1>1, TakenBackIs
<1>7. Pairs(place, rows, taken)
  BY <1>3, <1>4, <1>5, <1>6 DEF Pairs
<1> QED
  BY <1>1, <1>2, <1>7

\* Whatever the number of debts and of rewards earned, taken back and earned again.
LEMMA FarmingFollows == Inv /\ Chronicle => NoBonusFarming
<1> SUFFICES ASSUME Inv, Chronicle,
                    NEW place \in Injection(Debts, 1..Cardinality(Debts)),
                    NEW start \in StartScores
             PROVE  Score(start, History(place), Rows)
                      <= Score(start, History(place), {x \in Rows : ~TakenBack(x)})
  BY DEF NoBonusFarming
<1>1. PICK rows : rows = Rows
  OBVIOUS
<1>2. PICK h : h = History(place)
  OBVIOUS
<1>3. PICK n : n = Cardinality(rows)
  OBVIOUS
<1>4. PICK taken : taken = Taken(rows)
  OBVIOUS
<1>5. Lists(place, rows, h, n) /\ Pairs(place, rows, taken)
  BY <1>1, <1>2, <1>3, <1>4, RowsListed, ChroniclePairs
<1>6. \A x \in rows : x.event.type \in EventTypes
  BY <1>1, RowOf DEF RatingEvent
<1>7. start \in 0..100
  BY ScoresAssumption
<1>8. Score(start, h, rows) <= Score(start, h, rows \ taken)
  BY <1>5, <1>6, <1>7, NotAhead
<1>9. rows \ taken = {x \in Rows : ~TakenBack(x)}
  BY <1>1, <1>4 DEF Taken
<1> QED
  BY <1>1, <1>2, <1>8, <1>9

\* Earning a reward again after a void never pays: the score is no better than
\* from the rewards that stand.
THEOREM FarmingNeverPays == Spec => []NoBonusFarming
<1>1. Inv /\ TypeOK /\ Chronicle => NoBonusFarming
  BY FarmingFollows
<1> QED
  BY <1>1, HistoriesLawful, PTL
=============================================================================
