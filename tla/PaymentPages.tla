---------------------------- MODULE PaymentPages ----------------------------
(***************************************************************************)
(* What the payment pages show of the ledger (app/payment/read_service.py, *)
(* the GET routes of app/payment/router.py): the balance of a debt, the    *)
(* history of its payments, the receipt of each with the balance as it was *)
(* then, and what may be done next.  The pages compute again, from rows    *)
(* and with rules of their own, what the mutations compute under the Debt  *)
(* lock, and projection classes that refuse to be built turn a wrong row   *)
(* into an error page.                                                     *)
(*                                                                         *)
(* A page is a read, so it is no action: its content is a function of the  *)
(* state, taken here at one instant.  What a form of an older page may do  *)
(* is PaymentLedger's.  Who may see a page is left out, as are wording and *)
(* formatting.                                                             *)
(***************************************************************************)
EXTENDS RatingBook

Incoherent == "incoherent"

-----------------------------------------------------------------------------
(* Balances.                                                               *)

\* Mutant: the balance of a debt is looked up by the calendar alone.
BasisByDate(d) == IF Payable(d) THEN "discounted" ELSE "original"

\* Mutant: only a debt that was marked overdue is owed on its original amount.
BasisByMark(d) ==
    IF debt[d].overdueRevision = Unset THEN "discounted" ELSE "original"

\* resolve_current_balance_basis
CurrentBasis(d) ==
    LET marked == debt[d].overdueRevision # Unset
        status == debt[d].status
    IN  CASE status = "active" /\ ~marked -> IF Payable(d) THEN "discounted" ELSE "original"
          [] status \in {"overdue", "written_off", "written_off_settled"} /\ marked -> "original"
          [] status = "paid" -> IF marked THEN "original" ELSE "discounted"
          [] OTHER -> Incoherent

\* Mutant: a receipt is on the basis the debt is owed on today.
HistoricalBasisNow(p) == CurrentBasis(p.debt)

\* resolve_historical_balance_basis
HistoricalBasis(p) ==
    LET marked == debt[p.debt].overdueRevision
    IN  CASE marked = Unset \/ p.revision < marked -> "discounted"
          [] marked # Unset /\ p.revision > marked -> "original"
          [] OTHER -> Incoherent

Due(d, basis, posted) ==
    (IF basis = "discounted" THEN DiscountedAmount[d] ELSE OriginalAmount[d]) - posted

\* calculate_remaining_due_for_basis does not raise.
Computable(d, basis, posted) == basis # Incoherent /\ Due(d, basis, posted) >= 0

HistoricalDue(p) == Due(p.debt, HistoricalBasis(p), PostedThrough(p.debt, p.revision))

CurrentDue(d) == Due(d, CurrentBasis(d), Posted(d))

-----------------------------------------------------------------------------
(* The projections.                                                        *)

\* _progress
ShownPayable(d) ==
    debt[d].status \in {"active", "overdue", "written_off"} /\ CurrentDue(d) > 0

EffectivelyOverdue(d) ==
    debt[d].status = "overdue" \/ (debt[d].status = "active" /\ CurrentBasis(d) = "original")

\* DebtPaymentProgressProjection
ProgressComposes(d) ==
    LET row == debt[d]
    IN  /\ Computable(d, CurrentBasis(d), Posted(d))
        /\ IF row.status = "written_off_settled"
           THEN /\ row.paidAt = Unset /\ row.settledAt # Unset
                /\ CurrentDue(d) = 0 /\ ~ShownPayable(d)
           ELSE row.settledAt = Unset
        /\ EffectivelyOverdue(d) => CurrentBasis(d) = "original"
        /\ row.status \in {"overdue", "written_off", "written_off_settled"}
             => CurrentBasis(d) = "original"

\* PaymentReceiptProjection
ReceiptComposes(p) ==
    LET d == p.debt
    IN  /\ Computable(d, HistoricalBasis(p), PostedThrough(d, p.revision))
        /\ Computable(d, CurrentBasis(d), Posted(d))
        /\ debt[d].status \in {"overdue", "written_off", "written_off_settled"}
             => CurrentBasis(d) = "original"
        /\ debt[d].status = "written_off_settled" => CurrentDue(d) = 0

PaymentsOf(d) == {p \in payments : p.debt = d}

\* _history, PaymentHistoryItem: one payment for a revision, voided after it was made.
HistoryComposes(d) ==
    /\ \A p, q \in PaymentsOf(d) : p.revision = q.revision => p = q
    /\ \A p \in PaymentsOf(d), v \in voids :
         v.debt = d /\ v.payment = p.revision => v.at >= p.at

\* _validate_payment_ledger_facts: every void took the latest payment standing then.
LedgerComposes(d) ==
    LET gone(p) == {v \in voids : v.debt = d /\ v.payment = p.revision}
        StoodBefore(p, revision) ==
            p.revision < revision /\ \A v \in gone(p) : v.revision >= revision
    IN  \A p, q \in PaymentsOf(d) : \A v \in gone(p) :
            /\ v.revision # q.revision
            /\ \A w \in gone(q) : v.revision = w.revision => v = w
            /\ StoodBefore(p, v.revision)
            /\ StoodBefore(q, v.revision) => q.revision <= p.revision

-----------------------------------------------------------------------------
(* The pages.                                                              *)

ReceiptPage(p) ==
    [amount |-> p.amount, then |-> HistoricalDue(p), thenBasis |-> HistoricalBasis(p)]

\* shop_debt_payment_new, _shop_payment_form_detail: what the form lets one send.
PaymentForm(d) ==
    IF debt[d].status \in {"active", "overdue", "written_off"} /\ ShownPayable(d)
    THEN {<<CurrentBasis(d), amount>> : amount \in 1..CurrentDue(d)}
    ELSE {}

\* What record_debt_payment accepts of the current revision.
AcceptedPayments(d) ==
    {form \in Bases \X (1..OriginalAmount[d]) :
        /\ Submits(d, debt[d].revision, form[1])
        /\ WithinBalance(d, form[2])
        /\ PastDueActive(d, today) => CoherentUnpaid(d)
        /\ debt[d].status = "written_off" => WrittenOffSourceCoherent(d)}

\* _can_navigate_to_payment_void
VoidOffered(p) == ~Voided(p) /\ IsLatest(p.debt, p)

-----------------------------------------------------------------------------
(* Property.                                                               *)

\* docs/m14_scope_contract.md:34, "history and receipt remain immutable": not by
\* a later payment, the void of this one or of another, the marking of the debt
\* or the end of its discount is a receipt given before ever changed.
ReceiptsNeverChange ==
    [][\A p \in payments : p \in payments' /\ ReceiptPage(p)' = ReceiptPage(p)]_vars
=============================================================================
