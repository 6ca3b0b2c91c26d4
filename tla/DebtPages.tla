----------------------------- MODULE DebtPages -----------------------------
(***************************************************************************)
(* The pages a shop, its customer and the platform administrator open on a *)
(* debt (the GET routes of app/payment/router.py, app/debt/router.py and   *)
(* app/debt/admin_write_off_router.py with the read services under them),  *)
(* and what each lets its reader do next.  Who may post is decided again   *)
(* by the mutations, with rules of their own.                              *)
(*                                                                         *)
(* A viewer is a member of the staff of the debt's shop.  That the pages   *)
(* of a customer show his own debts only is left out, as are wording,      *)
(* masking and redirects.  A page that may be answered by a redirect is    *)
(* the set of what it shows, empty then.                                   *)
(***************************************************************************)
EXTENDS PaymentPages

CONSTANT ListSize  \* the LIMIT of discover_written_off_candidates, 50 in the code

ASSUME ListAssumption == ListSize \in Nat \ {0}

Viewers == [role : {"owner", "manager", "cashier"}, live : BOOLEAN, shopOpen : BOOLEAN]

None == "none"

Owed == {"active", "overdue", "written_off"}

-----------------------------------------------------------------------------
(* Authority.                                                              *)

\* resolve_tenant_payment_read_authority: a suspended shop stays readable.
MayRead(v) == v.live

\* lock_tenant_payment_predecessors
MayRecord(v) == v.live /\ v.shopOpen

\* lock_tenant_payment_void_predecessors
MayVoid(v) == MayRecord(v) /\ v.role \in {"owner", "manager"}

\* shop_payment_capabilities
Capabilities(v) ==
    (IF v.live THEN {"list", "receipt"} ELSE {}) \cup
    (IF v.live /\ v.shopOpen THEN {"create"} ELSE {}) \cup
    (IF v.live /\ v.shopOpen /\ v.role \in {"owner", "manager"} THEN {"void"} ELSE {})

-----------------------------------------------------------------------------
(* What is read.                                                           *)

\* list_payment_progress_for_debts: one grouped sum over all the debts of a
\* list; a debt without standing payments has no group.
GroupedTotals(ds) ==
    LET standing == {p \in payments : p.debt \in ds /\ ~Voided(p)}
    IN  [d \in {p.debt : p \in standing} |-> Total({p \in standing : p.debt = d})]

ProgressOf(ds) ==
    [d \in ds |->
        LET totals == GroupedTotals(ds)
            posted == IF d \in DOMAIN totals THEN totals[d] ELSE 0
            due == Due(d, CurrentBasis(d), posted)
        IN  [posted |-> posted, due |-> due, basis |-> CurrentBasis(d),
             payable |-> debt[d].status \in Owed /\ due > 0]]

\* get_tenant_debt_detail, get_tenant_debt_detail_with_payment_progress
DebtDetail(d) ==
    [status |-> debt[d].status, expectedRevision |-> debt[d].revision,
     progress |-> ProgressOf({d})[d]]

\* get_tenant_payment_history_view: each payment with its void state.
HistoryView(d) ==
    [detail |-> DebtDetail(d),
     history |-> {[payment |-> p, voided |-> Voided(p)] : p \in PaymentsOf(d)}]

\* get_tenant_payment_receipt_view: beside the receipt itself, what the debt is now.
ReceiptView(p) == [status |-> debt[p.debt].status, basis |-> CurrentBasis(p.debt)]

-----------------------------------------------------------------------------
(* The pages of the shop.                                                  *)

\* _can_navigate_to_payment_void
VoidLink(v, p) == MayVoid(v) /\ VoidOffered(p)

\* The newest payment of the history that stands, if the viewer may void it.
VoidablePayment(v, view) ==
    LET standing == {h.payment : h \in {g \in view.history : ~g.voided}}
    IN  {p \in standing : /\ \A q \in standing : q.revision <= p.revision
                          /\ VoidLink(v, p)}

\* _shop_read_only_message
ReadOnlyReason(v, detail) ==
    CASE ~v.shopOpen -> "suspended"
      [] v.shopOpen /\ detail.status = "active" /\ ~detail.progress.payable -> "past_due"
      [] v.shopOpen /\ detail.status \notin Owed -> "closed"
      [] OTHER -> None

\* shop_debt_payment_list
PaymentList(v, view) ==
    [canCreate |-> v.shopOpen /\ view.detail.progress.payable,
     voidable |-> VoidablePayment(v, view),
     readOnly |-> ReadOnlyReason(v, view.detail)]

\* new_shop_debt_payment_page: the hidden fields of the form.
NewPaymentPage(v, detail) ==
    IF v.shopOpen /\ detail.status \in Owed /\ detail.progress.payable
    THEN {[expectedRevision |-> detail.expectedRevision,
           expectedBasis |-> detail.progress.basis,
           due |-> detail.progress.due]}
    ELSE {}

\* shop_debt_detail_page: a payment may be recorded.
CanRecord(v, detail) == detail.status \in Owed /\ v.shopOpen /\ detail.progress.payable

\* shop_payment_receipt
ShopReceipt(v, p) ==
    LET view == ReceiptView(p)
    IN  [paidLate |-> view.status = "paid" /\ view.basis = "original",
         canVoid |-> VoidLink(v, p)]

\* shop_payment_void_form
VoidForm(v, p) == IF VoidLink(v, p) THEN {debt[p.debt].revision} ELSE {}

-----------------------------------------------------------------------------
(* The forms posted, by a viewer who sends what the page put in them.      *)

\* assemble_create_payment_request: without a basis there is no command, only
\* the answer of a payment made before the form had one.
PaymentCommand(form) == IF form.expectedBasis \in Bases THEN {form} ELSE {}

\* create_shop_debt_payment
PaymentAccepted(v, d, form) ==
    /\ MayRecord(v)
    /\ \E command \in PaymentCommand(form) :
         /\ command.expectedRevision = debt[d].revision
         /\ <<command.expectedBasis, command.due>> \in AcceptedPayments(d)

\* assemble_void_payment_command
VoidCommand(seen, confirmed) == IF confirmed THEN {seen} ELSE {}

\* void_shop_payment
VoidAccepted(v, p, seen) ==
    MayVoid(v) /\ \E revision \in VoidCommand(seen, TRUE) : Voidable(p.debt, p, revision)

-----------------------------------------------------------------------------
(* The money behind a mutation.                                            *)

\* _require_status_coherent_posted_total
StatusCoherent(d) ==
    LET posted == Posted(d)
        status == debt[d].status
    IN  CASE status = "active" -> posted < DiscountedAmount[d]
          [] status \in {"overdue", "written_off"} -> posted < OriginalAmount[d]
          [] status = "written_off_settled" -> posted = OriginalAmount[d]
          [] status = "paid" -> posted \in {DiscountedAmount[d], OriginalAmount[d]}

\* calculate_payment_exposure: what the debt takes of the customer's limit.
Exposure(d) ==
    IF debt[d].status \in {"active", "overdue"} THEN OriginalAmount[d] - Posted(d) ELSE 0

\* PaymentVoidMoney on the basis the void assumes first.
VoidMoneyComposes(p) ==
    LET d == p.debt
        marked == debt[d].overdueRevision # Unset
        basis == IF debt[d].status \in {"overdue", "written_off", "written_off_settled"} \/ marked
                 THEN "original" ELSE "discounted"
        after == Posted(d) - p.amount
    IN  after >= 0 /\ Due(d, basis, after) > 0

-----------------------------------------------------------------------------
(* Lists, and the pages of the customer and of the administrator.          *)

\* shop_customer_debts_page: the cards of a customer's debts at the shop.
ShopCards ==
    [d \in Debts |-> [status |-> debt[d].status, progress |-> ProgressOf(Debts)[d]]]

\* get_own_customer_payment_history_view
CustomerHistoryView(d) ==
    [status |-> debt[d].status, due |-> CurrentDue(d), basis |-> CurrentBasis(d),
     payable |-> ShownPayable(d), overdue |-> EffectivelyOverdue(d)]

\* customer_debt_payment_list: the terms a late debt is shown with.
CustomerPaymentList(d) ==
    LET view == CustomerHistoryView(d)
    IN  [due |-> view.due, lateTerms |-> view.overdue, recovery |-> view.status = "written_off"]

\* customer_payment_receipt
CustomerReceipt(p) ==
    LET view == ReceiptView(p)
    IN  [paidLate |-> view.status = "paid" /\ view.basis = "original"]

\* list_customer_debt_web_items_with_payment_progress: the cards of all debts.
CustomerCards == [d \in Debts |-> ProgressOf(Debts)[d]]

\* discover_written_off_candidates: the overdue debts marked first, as many as
\* the list has rows for.  Which of those of one day are left out is decided by
\* instants and ids that are not kept here, so there may be several such lists.
WriteOffCandidates ==
    LET marked == {d \in Debts : debt[d].status = "overdue" /\ debt[d].overdueAt # Unset}
    IN  {list \in SUBSET marked :
           /\ Cardinality(list) <= ListSize
           /\ list # marked => Cardinality(list) = ListSize
           /\ \A d \in list, e \in marked \ list : debt[d].overdueAt <= debt[e].overdueAt}

\* _read_summaries: a debt whose numbers are refused is left out silently.
Summaries(ds, statuses) ==
    [d \in {e \in ds : /\ debt[e].status \in statuses
                       /\ debt[e].overdueAt # Unset
                       /\ ProgressOf({e})[e].due >= 0} |->
       [status |-> debt[d].status, overdueAt |-> debt[d].overdueAt,
        due |-> ProgressOf(ds)[d].due]]

\* present_admin_write_off_candidates
CandidatesShown(list) ==
    LET shown == Summaries(list, {"overdue"})
    IN  {d \in list : d \in DOMAIN shown /\ shown[d].overdueAt = debt[d].overdueAt}

\* discover_admin_write_off_target
WriteOffTarget(d) ==
    IF /\ debt[d].status = "overdue"
       /\ debt[d].overdueAt # Unset /\ debt[d].overdueRevision # Unset
    THEN {debt[d].revision} ELSE {}

\* present_admin_write_off_fresh: the revision the form carries.
FreshView(d) ==
    IF d \in DOMAIN Summaries({d}, {"overdue"}) THEN WriteOffTarget(d) ELSE {}

\* read_admin_completed_write_off, for the administrator who wrote the debt off.
CompletedRow(d) ==
    IF debt[d].status \in {"written_off", "written_off_settled"} /\ debt[d].writtenOffAt # Unset
    THEN {debt[d].status} ELSE {}

\* present_admin_write_off_completed
CompletedView(d) ==
    LET shown == Summaries({d}, {"written_off", "written_off_settled"})
    IN  IF d \in DOMAIN shown /\ shown[d].status \in CompletedRow(d) THEN {shown[d]} ELSE {}

\* admin_write_off_detail: what is done already, or else the form.
AdminForm(d) == IF CompletedView(d) # {} THEN {} ELSE FreshView(d)

\* materialize_persisted_overdue_write_off does not raise.
WriteOffAccepted(d, seen) ==
    /\ seen = debt[d].revision
    /\ debt[d].status = "overdue"
    /\ OverdueSourceCoherent(d)
    /\ Posted(d) < OriginalAmount[d]

-----------------------------------------------------------------------------
(* Properties.                                                             *)

\* Whatever a ledger went through, its pages can be shown: no projection
\* refuses its rows, and the limit of its customer and a void can be computed.
\* A closed debt shows nothing due, and the receipt of the payment that closed
\* one shows nothing left, also after it was taken back.  A debt takes at least
\* what is still due on it from the limit, until it is closed or written off.
\* A list shows of each debt what its own page shows,
\* and a customer who is shown late terms is shown the full amount.
PagesCompose ==
    \A d \in Debts :
        /\ ProgressComposes(d) /\ HistoryComposes(d) /\ LedgerComposes(d)
        /\ \A p \in PaymentsOf(d) : ReceiptComposes(p)
        /\ debt[d].status \in {"paid", "written_off_settled"} => CurrentDue(d) = 0
        /\ \A p \in PaymentsOf(d) :
             AuditedOnce(d, p, "debt.paid") \/ AuditedOnce(d, p, "debt.written_off_settled")
               => HistoricalDue(p) = 0
        /\ StatusCoherent(d)
        /\ debt[d].status \in {"active", "overdue"} => Exposure(d) >= CurrentDue(d)
        /\ \A p \in PaymentsOf(d) : Voidable(d, p, debt[d].revision) => VoidMoneyComposes(p)
        /\ LET shown == CustomerCards[d]
               own == CustomerHistoryView(d)
               list == CustomerPaymentList(d)
           IN  /\ shown = DebtDetail(d).progress /\ ShopCards[d].progress = shown
               /\ own.due = shown.due /\ own.basis = shown.basis /\ own.payable = shown.payable
               /\ list.lateTerms \/ list.recovery =>
                    list.due = OriginalAmount[d] - Posted(d)

\* Every page offers a viewer exactly what the mutation behind it would accept
\* of this viewer: the payments of the form, down to the basis and the last unit
\* of money; a void, for exactly the payment that can be voided, also on the
\* receipt and in the list; a write-off, on the page of exactly the debts that
\* are overdue, which the list names too unless it is full of earlier ones.  A
\* list that offers no payment says why, and a receipt says "paid late" of
\* the debts that were marked overdue before.  The rules of the pages are those of
\* the locked mutations, in every state of the ledger and on every day.
PagesOfferWhatIsAccepted ==
    /\ \A d \in Debts :
        LET accepted == AcceptedPayments(d)
            view == HistoryView(d)
            receipts == PaymentsOf(d)
        IN  /\ PaymentForm(d) = accepted
            /\ \A v \in {w \in Viewers : MayRead(w)} :
                LET list == PaymentList(v, view)
                    forms == NewPaymentPage(v, view.detail)
                    open == accepted # {} /\ "create" \in Capabilities(v)
                IN  /\ list.canCreate = open /\ CanRecord(v, view.detail) = open
                    /\ (forms # {}) = open /\ (list.readOnly = None) = open
                    /\ \A form \in forms : PaymentAccepted(v, d, form)
                    /\ \A p \in receipts :
                        LET link == p \in list.voidable
                            receipt == ShopReceipt(v, p)
                        IN  /\ receipt.canVoid = link
                            /\ receipt.paidLate = CustomerReceipt(p).paidLate
                            /\ receipt.paidLate =
                                 (debt[d].status = "paid" /\ Has(d, "overdue") # {})
                            /\ IF link THEN \E seen \in VoidForm(v, p) : VoidAccepted(v, p, seen)
                               ELSE VoidForm(v, p) = {} /\ ~VoidAccepted(v, p, debt[d].revision)
    /\ \A list \in WriteOffCandidates :
         LET shown == CandidatesShown(list)
         IN  \A d \in Debts :
                IF d \in shown
                THEN WriteOffAccepted(d, debt[d].revision)
                ELSE WriteOffAccepted(d, debt[d].revision) =>
                        /\ Cardinality(shown) = ListSize
                        /\ \A c \in shown : debt[c].overdueAt <= debt[d].overdueAt
    /\ \A d \in Debts :
         /\ \A seen \in AdminForm(d) : WriteOffAccepted(d, seen)
         /\ AdminForm(d) # {} <=> WriteOffAccepted(d, debt[d].revision)
         /\ CompletedView(d) # {} <=> debt[d].status \in {"written_off", "written_off_settled"}
=============================================================================
