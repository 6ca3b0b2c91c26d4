----------------------------- MODULE RatingBook -----------------------------
(***************************************************************************)
(* What the rating makes of the events PaymentLedger appends: the readers  *)
(* of app/rating/service.py (derive_rating_snapshot) and                   *)
(* app/rating/current_read_service.py (derive_current_rating_state), which *)
(* refuse a history whose cycles are impossible and fold the rest, event   *)
(* by event, into a score that is kept within its bounds after each one.   *)
(*                                                                         *)
(* The score is of all debts of a customer, in the order of occurred_at;   *)
(* debts in other shops are the score the fold of these starts from.  Two  *)
(* transactions of one day have different instants, in either order; two   *)
(* events of one void have the same and come in the order of their names,  *)
(* "on_time_paid_voided" before "overdue", which is that of the sequence.  *)
(* For the same reason the readers' allowance for several settlements of   *)
(* one instant never applies.                                              *)
(***************************************************************************)
EXTENDS AuditTrail, SequencesExt

CONSTANT StartScores  \* what other debts may have made of the score

ASSUME ScoresAssumption == StartScores \subseteq 0..100

\* Mutant: voiding a settlement takes back what voiding a bonus does.
DeltaOneVoid ==
    [on_time_paid |-> 5, overdue |-> -15, written_off |-> -40, written_off_settled |-> 10,
     on_time_paid_voided |-> -5, written_off_settled_voided |-> -5]

\* rating_event_delta
Delta ==
    [on_time_paid |-> 5, overdue |-> -15, written_off |-> -40, written_off_settled |-> 10,
     on_time_paid_voided |-> -5, written_off_settled_voided |-> -10]

Clamped(score) == IF score > 100 THEN 100 ELSE IF score < 0 THEN 0 ELSE score

-----------------------------------------------------------------------------
(* The order (RatingEventOrderKey) and the fold.                           *)

Rows == UNION {{[debt |-> d, n |-> i, event |-> events[d][i]] : i \in DOMAIN events[d]} : d \in Debts}

\* By time: of one day come the debts in one order or another, each in its own.
Before(place, x, y) ==
    \/ x.event.at < y.event.at
    \/ /\ x.event.at = y.event.at
       /\ \/ place[x.debt] < place[y.debt]
          \/ x.debt = y.debt /\ x.n < y.n

\* An event is where those that come before it leave it.
History(place) ==
    LET rows == Rows
        Position(x) == Cardinality({y \in rows : Before(place, y, x)}) + 1
    IN  [i \in 1..Cardinality(rows) |-> CHOOSE x \in rows : Position(x) = i]

\* What is not counted leaves the score as it is.
Score(start, history, counted) ==
    FoldLeft(LAMBDA score, x :
               IF x \in counted THEN Clamped(score + Delta[x.event.type]) ELSE score,
             start, history)

-----------------------------------------------------------------------------
(* The cycles of one debt (_validate_debt_cycles).                         *)

Fresh == [ok |-> TRUE, overdue |-> FALSE, writtenOff |-> FALSE,
          earned |-> {}, earnedVoided |-> {}, settled |-> {}, settledVoided |-> {}]

Accepts(c, e) ==
    CASE e.type = "on_time_paid" -> ~c.overdue /\ e.source \notin c.earned
      [] e.type = "on_time_paid_voided" ->
           ~c.overdue /\ e.source \in c.earned \ c.earnedVoided
      [] e.type = "overdue" -> ~c.overdue /\ c.earned \subseteq c.earnedVoided
      [] e.type = "written_off" -> c.overdue /\ ~c.writtenOff
      [] e.type = "written_off_settled" ->
           /\ c.writtenOff
           /\ e.source \notin c.settled
           /\ c.settled \subseteq c.settledVoided
      [] e.type = "written_off_settled_voided" -> e.source \in c.settled \ c.settledVoided

Cycle(c, e) ==
    LET Adding(set, type) == IF e.type = type THEN set \cup {e.source} ELSE set
    IN  [ok |-> c.ok /\ Accepts(c, e),
         overdue |-> c.overdue \/ e.type = "overdue",
         writtenOff |-> c.writtenOff \/ e.type = "written_off",
         earned |-> Adding(c.earned, "on_time_paid"),
         earnedVoided |-> Adding(c.earnedVoided, "on_time_paid_voided"),
         settled |-> Adding(c.settled, "written_off_settled"),
         settledVoided |-> Adding(c.settledVoided, "written_off_settled_voided")]

Coherent(d) == FoldLeft(Cycle, Fresh, events[d]).ok

-----------------------------------------------------------------------------
(* What an event has to pass to be stored.                                 *)

Earlier(x) ==
    {[debt |-> x.debt, n |-> i, event |-> events[x.debt][i]] : i \in 1..(x.n - 1)}

\* RatingEvent.source_key, and the constraint on it.
SourceKey(x) == <<x.debt, x.event.type, x.event.source>>

SourceExists(x, others) == \E y \in others : SourceKey(y) = SourceKey(x)

\* positive_cap_used_locked
SlotUsed(x, others) ==
    /\ x.event.type = "on_time_paid"
    /\ \E y \in others : y.event.type = "on_time_paid" /\ y.event.at = x.event.at

\* The index over the penalties: one of each for a debt, of whatever revision.
PenaltyExists(x, others) ==
    /\ x.event.type \in {"overdue", "written_off"}
    /\ \E y \in others : y.debt = x.debt /\ y.event.type = x.event.type

\* append_locked_event; rows of two debts have no order of their own here, so that
\* an event is to find no other in its place, earlier or later.
Outcome(x, others) ==
    CASE \E y \in others : y.debt = x.debt /\ y.event = x.event -> "source already exists"
      [] SourceExists(x, others) \/ PenaltyExists(x, others) -> "error"
      [] SlotUsed(x, others) /\ ~SourceExists(x, others) -> "daily cap already used"
      [] OTHER -> "appended"

Reward == [on_time_paid_voided |-> "on_time_paid",
           written_off_settled_voided |-> "written_off_settled"]

\* The settlement a compensation takes back, found by append_source_compensation
\* from the token that was read before the void reopened the debt.
PositiveOf(x) ==
    {y \in Earlier(x) : y.event.type = Reward[x.event.type] /\ y.event.source = x.event.source}

AuditOfReward(type) == IF type = "on_time_paid" THEN "debt.paid" ELSE "debt.written_off_settled"

\* RatingCompensationSourceProof: payment, reward and audit of one revision and
\* one time, and the void at the time of the compensation.
Proves(x, y) ==
    LET same(r) == r.debt = x.debt /\ r.revision = x.event.source /\ r.at = y.event.at
    IN  /\ \E p \in payments : same(p)
        /\ \E a \in audits : same(a) /\ a.type = AuditOfReward(y.event.type)
        /\ \E v \in voids :
             v.debt = x.debt /\ v.payment = x.event.source /\ v.at = x.event.at

Compensates(x) ==
    x.event.type \in DOMAIN Reward => \E y \in PositiveOf(x) : PositiveOf(x) = {y} /\ Proves(x, y)

\* The caller has asked for the daily slot before, and a retry is answered from
\* its key: whatever gets as far as the insert is new.
Stored(x, others) == Outcome(x, others) = "appended" /\ Compensates(x)

-----------------------------------------------------------------------------
(* Properties.                                                             *)

\* A reward the ledger took back, and what took it back.
TakenBack(x) ==
    LET e == x.event
        Paired(type, voidedType) ==
            /\ e.type \in {type, voidedType}
            /\ e.source \in Sources(x.debt, type) \cap Sources(x.debt, voidedType)
    IN  \/ Paired("on_time_paid", "on_time_paid_voided")
        \/ Paired("written_off_settled", "written_off_settled_voided")

\* The rating can always take what the payment side appends and read it again.
\* Every event is stored, as a new fact: no other has its source, no other bonus
\* its day, no other penalty its debt, and a compensation finds the payment, the
\* reward and the audit of one revision and time.  And the history of every debt
\* passes both readers: no reward after the debt went overdue, every reward
\* taken back before that, at most one open settlement.
RatingHistoryAccepted ==
    /\ LET rows == Rows IN \A x \in rows : Stored(x, rows \ {x})
    /\ \A d \in Debts :
         /\ \A i \in 2..Len(events[d]) : events[d][i - 1].at <= events[d][i].at
         /\ Coherent(d)

\* docs/m18_scope_contract.md:190, "re-earn farming": however often a debt is
\* settled and its payment voided again, between whatever other debts do to the
\* score, and although every step of the fold is cut off at 0 and 100, the
\* customer ends with no better a score than from the rewards that still stand.
NoBonusFarming ==
    \A place \in Injection(Debts, 1..Cardinality(Debts)) :
        LET history == History(place)
            rows == Rows
        IN  \A start \in StartScores :
              Score(start, history, rows)
                <= Score(start, history, {x \in rows : ~TakenBack(x)})
=============================================================================
