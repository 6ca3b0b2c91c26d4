------------------------------ MODULE DebtRow ------------------------------
(***************************************************************************)
(* What a debt row has to satisfy whenever it is stored or loaded: the     *)
(* check constraints of app/debt/models.py, which PostgreSQL evaluates at  *)
(* every write, and the checks of DebtAggregate (app/debt/contracts.py),   *)
(* which every transition makes of the row it has just locked and of the   *)
(* one it is about to write.  A row that one transition leaves and the     *)
(* next refuses to load is a debt nobody can repay any more.               *)
(*                                                                         *)
(* Reasons and the actor of the write-off come and go with the instant     *)
(* they belong to and are left out.                                        *)
(***************************************************************************)
EXTENDS DebtLifecycle

\* A refusal, cancellation or expiry is the last step of a debt, so its instant
\* is that of the last update.
TerminalAt(terminal) == IF status = terminal THEN updatedAt ELSE Unset

Column ==
    [acceptedAt |-> acceptedAt, paidAt |-> paidAt,
     rejectedAt |-> TerminalAt("rejected"), cancelledAt |-> TerminalAt("cancelled"),
     expiredAt |-> TerminalAt("expired"),
     overdueAt |-> overdueAt, overdueRevision |-> overdueRevision,
     writtenOffAt |-> writtenOffAt, writtenOffRevision |-> writtenOffRevision,
     settledAt |-> settledAt, settledRevision |-> settledRevision]

Instant == {"acceptedAt", "paidAt", "rejectedAt", "cancelledAt", "expiredAt",
            "overdueAt", "writtenOffAt", "settledAt"}

Filled == {c \in DOMAIN Column : Column[c] # Unset}

-----------------------------------------------------------------------------
(* The table.                                                              *)

Overdue == {"acceptedAt", "overdueAt", "overdueRevision"}
WriteOff == Overdue \cup {"writtenOffAt", "writtenOffRevision"}

\* The columns a row of each status has; all others are NULL.
Carries ==
    [pending |-> {}, active |-> {"acceptedAt"},
     rejected |-> {"rejectedAt"}, cancelled |-> {"cancelledAt"}, expired |-> {"expiredAt"},
     overdue |-> Overdue, written_off |-> WriteOff,
     written_off_settled |-> WriteOff \cup {"settledAt", "settledRevision"}]

\* ck_debts_status_metadata_matches_status
MetadataMatchesStatus ==
    IF status = "paid"
    THEN \/ Filled = {"acceptedAt", "paidAt"}
         \/ Filled = Overdue \cup {"paidAt"} /\ overdueRevision < revision
    ELSE /\ Filled = Carries[status]
         /\ status = "written_off_settled" => settledRevision = revision

\* The ck_debts_..._revision_... constraints.
RevisionsChain ==
    /\ revision > 0
    /\ \A c \in {"overdueRevision", "writtenOffRevision", "settledRevision"} \cap Filled :
         Column[c] \in 1..revision
    /\ overdueAt = Unset <=> overdueRevision = Unset
    /\ settledAt = Unset <=> settledRevision = Unset
    /\ writtenOffRevision # Unset =>
         overdueRevision # Unset /\ overdueRevision < writtenOffRevision
    /\ settledRevision # Unset =>
         writtenOffRevision # Unset /\ writtenOffRevision < settledRevision

\* ck_debts_timestamp_order
TimestampsOrdered ==
    LET After(c, before) == Column[c] # Unset => before # Unset /\ Column[c] >= before
        Stored(c) == Column[c] # Unset => updatedAt >= Column[c]
    IN  /\ updatedAt >= createdAt
        /\ \A c \in {"acceptedAt", "rejectedAt", "cancelledAt", "expiredAt"} :
             After(c, createdAt)
        /\ \A c \in {"paidAt", "overdueAt"} : After(c, acceptedAt)
        /\ overdueAt # Unset => After("paidAt", overdueAt)
        /\ After("writtenOffAt", overdueAt)
        /\ After("settledAt", writtenOffAt)
        /\ \A c \in {"paidAt", "overdueAt", "writtenOffAt", "settledAt"} : Stored(c)

TableAccepts == MetadataMatchesStatus /\ RevisionsChain /\ TimestampsOrdered

-----------------------------------------------------------------------------
(* The aggregate.                                                          *)

\* DebtAggregate.__post_init__
LifetimeAccepted ==
    /\ updatedAt >= createdAt
    /\ BusinessDate(PendingExpiresAt) <= DueDate
    /\ \A c \in Instant \cap Filled : Column[c] \in createdAt..updatedAt
    /\ overdueAt = Unset <=> overdueRevision = Unset
    /\ overdueRevision # Unset => overdueRevision <= revision

\* _validate_write_off_metadata
WriteOffAccepted ==
    /\ writtenOffAt = Unset <=> writtenOffRevision = Unset
    /\ settledAt = Unset <=> settledRevision = Unset
    /\ writtenOffAt # Unset <=> status \in {"written_off", "written_off_settled"}
    /\ settledAt # Unset <=> status = "written_off_settled"
    /\ writtenOffAt # Unset =>
         /\ overdueAt # Unset /\ overdueRevision # Unset
         /\ writtenOffRevision > overdueRevision /\ writtenOffRevision <= revision
         /\ writtenOffAt >= overdueAt
    /\ settledAt # Unset =>
         /\ settledRevision > writtenOffRevision /\ settledRevision = revision
         /\ settledAt >= writtenOffAt

\* _validate_lifecycle_timestamps
LifecycleAccepted ==
    LET terminal == {"rejectedAt", "cancelledAt", "expiredAt"} \cap Filled
        marked == {"overdueAt", "overdueRevision"} \cap Filled
        Bare == marked = {} /\ acceptedAt = Unset
    IN  /\ paidAt # Unset => status = "paid"
        /\ status = "pending" => Bare /\ terminal = {}
        /\ status = "active" => marked = {} /\ acceptedAt # Unset /\ terminal = {}
        /\ status = "rejected" => Bare /\ terminal = {"rejectedAt"}
        /\ status = "cancelled" => Bare /\ terminal = {"cancelledAt"}
        /\ status = "expired" => Bare /\ terminal = {"expiredAt"}
        /\ status \in {"overdue", "written_off", "written_off_settled"} =>
             /\ acceptedAt # Unset /\ overdueAt # Unset /\ terminal = {}
             /\ overdueAt >= acceptedAt
        /\ status = "overdue" => overdueRevision # Unset
        /\ status = "paid" =>
             /\ acceptedAt # Unset /\ paidAt # Unset /\ terminal = {}
             /\ paidAt >= acceptedAt
             /\ overdueAt = Unset => overdueRevision = Unset
             /\ overdueAt # Unset =>
                  /\ overdueRevision # Unset /\ overdueRevision < revision
                  /\ acceptedAt <= overdueAt /\ overdueAt <= paidAt

\* debt_aggregate_from_row
Loads ==
    /\ DiscountedAmount <= OriginalAmount
    /\ status \in Statuses
    /\ revision >= 1
    /\ LifetimeAccepted /\ WriteOffAccepted /\ LifecycleAccepted

-----------------------------------------------------------------------------
\* Property: whatever a debt went through, with stale instants and reopenings in
\* any order, the table accepts its row and the next transition can load it: no
\* lawful history ends in a debt that can neither be paid nor closed.
RowLoads == status # "absent" => TableAccepts /\ Loads
=============================================================================
