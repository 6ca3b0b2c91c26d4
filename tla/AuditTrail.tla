----------------------------- MODULE AuditTrail -----------------------------
(***************************************************************************)
(* What the rows of audit_log about a debt have to pass before they are    *)
(* there: the payload class that is built for the event                    *)
(* (app/audit/contracts.py), the redaction that copies it, field by field, *)
(* into the row (app/audit/redaction.py), and the CHECK constraints of the *)
(* table (app/audit/models.py).  Each of the three lists by itself what a  *)
(* debt may go from and to, and what it refuses takes the whole payment,   *)
(* void, write-off or overdue transition with it.                          *)
(*                                                                         *)
(* Amounts, methods and reasons are left out: the three accept the same    *)
(* ones, those the commands were parsed with.                              *)
(***************************************************************************)
EXTENDS PaymentLedger

\* The row of a paid debt names no move: that of its payment does.
Unstated == {<<"none", "none">>}

-----------------------------------------------------------------------------
(* The payload classes.                                                    *)

\* PaymentRecordedAuditPayload, DebtPaidAuditPayload
PaymentPayload(type) ==
    CASE type = "payment.recorded" ->
           ({"active"} \X {"active", "paid"}) \cup ({"overdue"} \X {"overdue", "paid"})
             \cup ({"written_off"} \X {"written_off", "written_off_settled"})
      [] type = "debt.paid" -> Unstated
      [] OTHER -> {}

\* PaymentVoidedAuditPayload, DebtReopenedAfterPaymentVoidAuditPayload
VoidPayload(type) ==
    LET reopened == ({"paid"} \X {"active", "overdue"})
                      \cup {<<"written_off_settled", "written_off">>}
    IN  CASE type = "payment.voided" ->
               reopened \cup {<<s, s>> : s \in {"active", "overdue", "written_off"}}
          [] type = "debt.reopened_after_payment_void" -> reopened
          [] OTHER -> {}

\* DebtWrittenOffAuditPayload, DebtWrittenOffSettledAuditPayload
WriteOffPayload(type) ==
    CASE type = "debt.written_off" -> {<<"overdue", "written_off">>}
      [] type = "debt.written_off_settled" -> {<<"written_off", "written_off_settled">>}
      [] OTHER -> {}

\* DebtOverdueAuditPayload, DebtClawbackAppliedAuditPayload
OverduePayload(type) ==
    CASE type = "debt.overdue" -> {"active", "paid"} \X {"overdue"}
      [] type = "debt.clawback_applied" -> {<<"discounted", "original">>}
      [] OTHER -> {}

\* AuditEvent: what the system does is not said to be done by a user.
ActorOf(type) == IF type \in {"debt.overdue", "debt.clawback_applied"} THEN "SYSTEM" ELSE "USER"

\* The row is of the revision and the time of the row it is about.
SourceOf(a) ==
    CASE a.type \in {"payment.voided", "debt.reopened_after_payment_void"} ->
           \E v \in voids : v.debt = a.debt /\ v.revision = a.revision /\ v.at = a.at
      [] a.type \in {"payment.recorded", "debt.paid", "debt.written_off_settled"} ->
           \E p \in payments : p.debt = a.debt /\ p.revision = a.revision /\ p.at = a.at
      [] a.type = "debt.written_off" ->
           debt[a.debt].writtenOffRevision = a.revision /\ debt[a.debt].writtenOffAt = a.at
      [] OTHER ->
           debt[a.debt].overdueRevision = a.revision /\ debt[a.debt].overdueAt = a.at

PayloadAccepts(a) ==
    /\ <<a.from, a.to>> \in PaymentPayload(a.type) \cup VoidPayload(a.type)
                              \cup WriteOffPayload(a.type) \cup OverduePayload(a.type)
    /\ a.actor = ActorOf(a.type)
    /\ SourceOf(a)

-----------------------------------------------------------------------------
(* The redaction.                                                          *)

\* Mutant: a debt is only ever reopened to be paid by its due date.
RedactsReopeningInTime(type) ==
    CASE type = "payment.voided" ->
           {<<s, s>> : s \in {"active", "overdue", "written_off"}}
             \cup {<<"paid", "active">>, <<"written_off_settled", "written_off">>}
      [] type = "debt.reopened_after_payment_void" ->
           {<<"paid", "active">>, <<"written_off_settled", "written_off">>}
      [] OTHER -> {}

\* _payment_voided_payload, _debt_reopened_after_payment_void_payload
RedactsVoid(type) ==
    LET closed == {<<"paid", "active">>, <<"paid", "overdue">>,
                   <<"written_off_settled", "written_off">>}
    IN  CASE type = "payment.voided" ->
               {<<s, s>> : s \in {"active", "overdue", "written_off"}} \cup closed
          [] type = "debt.reopened_after_payment_void" -> closed
          [] OTHER -> {}

\* _payment_recorded_payload, _debt_paid_payload
RedactsPayment(type) ==
    CASE type = "payment.recorded" ->
           {<<s, s>> : s \in {"active", "overdue", "written_off"}}
             \cup ({"active", "overdue"} \X {"paid"}) \cup {<<"written_off", "written_off_settled">>}
      [] type = "debt.paid" -> Unstated
      [] OTHER -> {}

\* _debt_written_off_payload, _debt_written_off_settled_payload
RedactsWriteOff(type) ==
    CASE type = "debt.written_off" -> {<<"overdue", "written_off">>}
      [] type = "debt.written_off_settled" -> {<<"written_off", "written_off_settled">>}
      [] OTHER -> {}

\* _debt_overdue_payload, _debt_clawback_applied_payload
RedactsOverdue(type) ==
    CASE type = "debt.overdue" -> {<<"active", "overdue">>, <<"paid", "overdue">>}
      [] type = "debt.clawback_applied" -> {<<"discounted", "original">>}
      [] OTHER -> {}

\* append_audit_event, _PAYLOAD_BUILDERS
Redacts(a) ==
    <<a.from, a.to>> \in RedactsPayment(a.type) \cup RedactsVoid(a.type)
                           \cup RedactsWriteOff(a.type) \cup RedactsOverdue(a.type)

-----------------------------------------------------------------------------
(* The CHECK constraints.                                                  *)

\* ck_audit_log_payload_exact_shape: one clause for each status a payment finds.
ChecksPayment(type) ==
    CASE type = "payment.recorded" ->
           ({"active"} \X {"active", "paid"})
             \cup ({"written_off"} \X {"written_off", "written_off_settled"})
             \cup ({"overdue"} \X {"overdue", "paid"})
      [] type = "payment.voided" ->
           {<<"active", "active">>} \cup {<<"overdue", "overdue">>}
             \cup {<<"written_off", "written_off">>} \cup ({"paid"} \X {"active", "overdue"})
             \cup {<<"written_off_settled", "written_off">>}
      [] OTHER -> {}

ChecksDebt(type) ==
    CASE type = "debt.paid" -> Unstated
      [] type = "debt.written_off" -> {<<"overdue", "written_off">>}
      [] type = "debt.written_off_settled" -> {<<"written_off", "written_off_settled">>}
      [] type = "debt.reopened_after_payment_void" ->
           ({"paid"} \X {"active", "overdue"})
             \cup {<<"written_off_settled", "written_off">>}
      [] type = "debt.overdue" -> {<<"active", "overdue">>} \cup {<<"paid", "overdue">>}
      [] type = "debt.clawback_applied" -> {<<"discounted", "original">>}
      [] OTHER -> {}

\* ck_audit_log_actor_matches_event
ChecksActor(a) ==
    (a.actor = "SYSTEM") = (a.type \in {"debt.overdue", "debt.clawback_applied"})

TableAccepts(a) ==
    /\ <<a.from, a.to>> \in ChecksPayment(a.type) \cup ChecksDebt(a.type)
    /\ ChecksActor(a)

-----------------------------------------------------------------------------
(* Property.                                                               *)

\* The moves of its status the trail tells of a revision of a debt.
Told(d, revision) ==
    {<<a.from, a.to>> :
        a \in {b \in audits : /\ b.debt = d /\ b.revision = revision
                              /\ b.type \notin {"debt.paid", "debt.clawback_applied"}}}

\* Whichever way a debt came to its status, no payment, void, write-off or
\* overdue transition is undone by the row it has to leave: payload, redaction
\* and table accept what the ledger writes.  And the rows tell one story: of
\* every revision one move, which begins where the one before it ended, from
\* "active" to the status of the debt.
AuditTrailUnbroken ==
    /\ \A a \in audits : PayloadAccepts(a) /\ Redacts(a) /\ TableAccepts(a)
    /\ \A d \in Debts :
         /\ \A revision \in 3..debt[d].revision :
              /\ Cardinality(Told(d, revision)) = 1
              /\ \A before \in Told(d, revision - 1), now \in Told(d, revision) : now[1] = before[2]
         /\ \A move \in Told(d, 3) : move[1] = "active"
         /\ \A move \in Told(d, debt[d].revision) : move[2] = debt[d].status
=============================================================================
