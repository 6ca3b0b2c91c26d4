----------------------------- MODULE CreditGate -----------------------------
(***************************************************************************)
(* Whether a customer may be given more credit is decided from rows that   *)
(* several transactions write at once: the policy and the open debts of    *)
(* one shop (credit limit, number of open debts, blacklist) and the debts  *)
(* of the same customer at every other shop (the global hard block).       *)
(*                                                                         *)
(* A transaction takes its row locks, reads the clock and the rows, and    *)
(* makes its writes visible at a later step, its commit.  Two locks are    *)
(* modelled, in the order in which every flow takes them: the Shop row     *)
(* first, then the Customer row for the flows that lock it; the rows       *)
(* locked after them (OfferVersion, ShopCustomer, Debt) are only reached   *)
(* under the Shop lock.  Reads made before the locks only locate rows that *)
(* are read again, so a transaction brings from before its locks nothing   *)
(* but its request and, for most flows, the instant of the request.  The   *)
(* revision that a form carries only ever refuses (PaymentLedger models    *)
(* it); here every refusal is a Rollback.                                  *)
(***************************************************************************)
EXTENDS Integers, FiniteSets, FiniteSetsExt

CONSTANTS
    Txs,               \* the sessions that may be in a transaction
    Shops,
    Debts,             \* the debts of one customer, by the proposal they come from
    ShopOf,            \* [Debts -> Shops]
    OriginalAmount,    \* [Debts -> Nat]
    DiscountedAmount,  \* [Debts -> Nat]
    DueDate,           \* [Debts -> Nat], a business date
    Policies,          \* the policies of a ShopCustomer
    FirstPolicy,       \* the one it was linked with
    PendingTTL,        \* PENDING_DEBT_TTL, in instants
    MaxNow,            \* bound: the clock stops there
    BusinessDate(_)    \* tashkent_business_date: instant -> business date

Idle == "idle"
Nobody == "nobody"
Customer == "customer"

ASSUME GateAssumption ==
    /\ IsFiniteSet(Debts)
    /\ ShopOf \in [Debts -> Shops]
    /\ OriginalAmount \in [Debts -> Nat \ {0}]
    /\ DiscountedAmount \in [Debts -> Nat \ {0}]
    /\ \A d \in Debts : DiscountedAmount[d] <= OriginalAmount[d]
    /\ DueDate \in [Debts -> Nat]
    /\ Policies \subseteq [limit : Nat, maxOpen : Nat, blacklisted : BOOLEAN]
    /\ FirstPolicy \in Policies
    /\ PendingTTL \in Nat /\ MaxNow \in Nat
    /\ \A t \in 0..(MaxNow + PendingTTL) : BusinessDate(t) \in Nat
    /\ Nobody \notin Txs
    /\ Customer \notin Shops

VARIABLES
    now,
    policy,    \* [Shops -> Policies], the ShopCustomer row of this customer
    debt,      \* [Debts -> row]
    owner,     \* [Shops \cup {Customer} -> Txs \cup {Nobody}], the row locks
    step,      \* [Txs -> where the transaction is]
    request,   \* [Txs -> what it was asked to do]
    clock,     \* [Txs -> the instant it read under its locks]
    written    \* [Txs -> what it will commit]

locks == <<owner, step>>
tables == <<policy, debt>>
vars == <<now, tables, locks, request, clock, written>>

Absent == [status |-> "absent", posted |-> 0, createdAt |-> 0, wasOverdue |-> FALSE]

NoRequest == [kind |-> "none", shop |-> Nobody, debt |-> Nobody, at |-> 0, amount |-> 0,
              policy |-> FirstPolicy]

Init ==
    /\ now = 0
    /\ policy = [s \in Shops |-> FirstPolicy]
    /\ debt = [d \in Debts |-> Absent]
    /\ owner = [l \in Shops \cup {Customer} |-> Nobody]
    /\ step = [t \in Txs |-> Idle]
    /\ request = [t \in Txs |-> NoRequest]
    /\ clock = [t \in Txs |-> 0]
    /\ written = [t \in Txs |-> Absent]

-----------------------------------------------------------------------------
(* What the gate reads.                                                    *)

Rows(s) == [d \in {e \in Debts : ShopOf[e] = s} |-> debt[d]]

\* calculate_payment_exposure and open_debt_count_contribution
Exposure(rows) ==
    MapThenSumSet(LAMBDA d :
        CASE rows[d].status = "pending" -> OriginalAmount[d]
          [] rows[d].status \in {"active", "overdue"} -> OriginalAmount[d] - rows[d].posted
          [] OTHER -> 0,
        DOMAIN rows)

OpenDebts(rows) == {d \in DOMAIN rows : rows[d].status \in {"pending", "active", "overdue"}}

Blocks(d, day) ==
    \/ debt[d].status \in {"overdue", "written_off"}
    \/ debt[d].status = "active" /\ DueDate[d] < day

\* read_global_hard_block: any shop's debt of this customer
HardBlocked(day) == \E d \in Debts : Blocks(d, day)

\* Mutant: the limit is compared with what has been accepted so far.
WithinLimitsOfAccepted(s, amount) ==
    /\ Exposure([d \in {e \in DOMAIN Rows(s) : debt[e].status # "pending"} |-> debt[d]]) + amount
         <= policy[s].limit
    /\ Cardinality(OpenDebts(Rows(s))) < policy[s].maxOpen

WithinLimits(s, amount) ==
    /\ Exposure(Rows(s)) + amount <= policy[s].limit
    /\ Cardinality(OpenDebts(Rows(s))) < policy[s].maxOpen

ExpiresAt(d) == debt[d].createdAt + PendingTTL

-----------------------------------------------------------------------------
(* A transaction: request, locks, one operation, commit or rollback.       *)

\* Mutant: the overdue batch locks the shop and the debt, as the expiry batch.
AllButOverdue(kind) == kind \in {"create", "accept", "reject", "pay", "void", "write_off"}

\* Cancellation, expiry and policy updates do not lock the Customer row.
LocksCustomer(kind) ==
    kind \in {"create", "accept", "reject", "overdue", "pay", "void", "write_off"}

\* The discovery read, without locks, that finds the row to work on.
Discovers(kind, d) ==
    CASE kind = "create" -> TRUE
      [] kind \in {"accept", "reject", "cancel"} -> debt[d].status # "absent"
      [] kind = "expire" -> debt[d].status = "pending" /\ ExpiresAt(d) <= now
      [] kind = "overdue" -> debt[d].status = "active" /\ DueDate[d] < BusinessDate(now)
      [] kind = "pay" -> debt[d].status \in {"active", "overdue", "written_off"}
      [] kind = "void" -> debt[d].posted > 0
      [] kind = "write_off" -> debt[d].status = "overdue"

Kinds == {"create", "accept", "reject", "cancel", "expire", "overdue", "pay", "void", "write_off"}

Begin(t, r) ==
    /\ step[t] = Idle
    /\ request' = [request EXCEPT ![t] = r]
    /\ step' = [step EXCEPT ![t] = "begun"]
    /\ UNCHANGED <<now, tables, owner, clock, written>>

BeginDebt(t, kind, d, amount) ==
    /\ Discovers(kind, d)
    /\ Begin(t, [kind |-> kind, shop |-> ShopOf[d], debt |-> d, at |-> now, amount |-> amount,
                 policy |-> FirstPolicy])

BeginPolicy(t, s, p) ==
    Begin(t, [kind |-> "policy", shop |-> s, debt |-> Nobody, at |-> now, amount |-> 0,
              policy |-> p])

LockShop(t) ==
    LET s == request[t].shop
    IN  /\ step[t] = "begun"
        /\ owner[s] = Nobody
        /\ owner' = [owner EXCEPT ![s] = t]
        /\ step' = [step EXCEPT ![t] =
             IF LocksCustomer(request[t].kind) THEN "shop_locked" ELSE "locked"]
        /\ UNCHANGED <<now, tables, request, clock, written>>

LockCustomer(t) ==
    /\ step[t] = "shop_locked"
    /\ owner[Customer] = Nobody
    /\ owner' = [owner EXCEPT ![Customer] = t]
    /\ step' = [step EXCEPT ![t] = "locked"]
    /\ UNCHANGED <<now, tables, request, clock, written>>

Operates(t, kind) == step[t] = "locked" /\ request[t].kind = kind

\* The operation has flushed its writes; nobody else sees them yet.
Writes(t, value) ==
    /\ written' = [written EXCEPT ![t] = value]
    /\ clock' = [clock EXCEPT ![t] = now]
    /\ step' = [step EXCEPT ![t] = "written"]
    /\ UNCHANGED <<now, tables, owner, request>>

Release(t) ==
    /\ owner' = [l \in DOMAIN owner |-> IF owner[l] = t THEN Nobody ELSE owner[l]]
    /\ step' = [step EXCEPT ![t] = Idle]
    /\ request' = [request EXCEPT ![t] = NoRequest]
    /\ clock' = [clock EXCEPT ![t] = 0]
    /\ written' = [written EXCEPT ![t] = Absent]
    /\ UNCHANGED now

Commit(t) ==
    /\ step[t] = "written"
    /\ IF request[t].kind = "policy"
       THEN policy' = [policy EXCEPT ![request[t].shop] = written[t]] /\ UNCHANGED debt
       ELSE debt' = [debt EXCEPT ![request[t].debt] = written[t]] /\ UNCHANGED policy
    /\ Release(t)

\* The request is refused, raises, or its process dies, at any moment.
Rollback(t) ==
    /\ step[t] # Idle
    /\ Release(t)
    /\ UNCHANGED tables

-----------------------------------------------------------------------------
(* The proposal and its decision.                                          *)

\* create_pending_debt_proposal: the key of a retried proposal is found first;
\* the block is read as of a fresh clock, the row is stamped with the request's.
CreateDebt(t) ==
    LET r == request[t]
        d == r.debt
    IN  /\ Operates(t, "create")
        /\ debt[d].status = "absent"
        /\ ~policy[r.shop].blacklisted
        /\ ~HardBlocked(BusinessDate(now))
        /\ WithinLimits(r.shop, OriginalAmount[d])
        /\ BusinessDate(r.at + PendingTTL) <= DueDate[d]
        /\ Writes(t, [Absent EXCEPT !.status = "pending", !.createdAt = r.at])

\* accept_own_customer_debt
AcceptDebt(t) ==
    LET r == request[t]
        d == r.debt
    IN  /\ Operates(t, "accept")
        /\ debt[d].status = "pending"
        /\ now < ExpiresAt(d)
        /\ BusinessDate(now) <= DueDate[d]
        /\ ~policy[r.shop].blacklisted
        /\ ~HardBlocked(BusinessDate(now))
        /\ Writes(t, [debt[d] EXCEPT !.status = "active"])

\* Mutant: the status is not looked at again under the lock.
DeclineUnlocked(t, kind, status) ==
    LET r == request[t]
        d == r.debt
    IN  /\ Operates(t, kind)
        /\ r.at < ExpiresAt(d)
        /\ Writes(t, [debt[d] EXCEPT !.status = status])

\* reject_own_customer_debt and cancel_tenant_debt, at the request's instant
Decline(t, kind, status) ==
    LET r == request[t]
        d == r.debt
    IN  /\ Operates(t, kind)
        /\ debt[d].status = "pending"
        /\ r.at < ExpiresAt(d)
        /\ Writes(t, [debt[d] EXCEPT !.status = status])

\* The expiry batch, and the expiry that a late decision performs instead.
ExpireDebt(t) ==
    LET d == request[t].debt
    IN  /\ \/ /\ \E kind \in {"reject", "cancel", "expire"} : Operates(t, kind)
              /\ request[t].at >= ExpiresAt(d)
           \/ Operates(t, "accept") /\ now >= ExpiresAt(d)
        /\ debt[d].status = "pending"
        /\ Writes(t, [debt[d] EXCEPT !.status = "expired"])

-----------------------------------------------------------------------------
(* What moves an accepted debt in and out of the block and the exposure.   *)

MarkOverdue(t) ==
    LET d == request[t].debt
    IN  /\ Operates(t, "overdue")
        /\ debt[d].status = "active"
        /\ DueDate[d] < BusinessDate(request[t].at)
        /\ Writes(t, [debt[d] EXCEPT !.status = "overdue", !.wasOverdue = TRUE])

PastDueActive(d) == debt[d].status = "active" /\ DueDate[d] < BusinessDate(now)

\* Mutant: what has been paid already is not taken off.
OwedInFull(d) ==
    IF debt[d].status = "active" /\ ~PastDueActive(d)
    THEN DiscountedAmount[d] ELSE OriginalAmount[d]

Owed(d) ==
    (IF debt[d].status = "active" /\ ~PastDueActive(d)
     THEN DiscountedAmount[d] ELSE OriginalAmount[d]) - debt[d].posted

\* record_debt_payment: a past-due active debt is first marked overdue.
Pay(t) ==
    LET d == request[t].debt
        amount == request[t].amount
        late == PastDueActive(d) \/ debt[d].wasOverdue
        open == IF PastDueActive(d) THEN "overdue" ELSE debt[d].status
        closed == IF debt[d].status = "written_off" THEN "written_off_settled" ELSE "paid"
    IN  /\ Operates(t, "pay")
        /\ debt[d].status \in {"active", "overdue", "written_off"}
        /\ amount \in 1..Owed(d)
        /\ Writes(t, [debt[d] EXCEPT !.status = IF amount = Owed(d) THEN closed ELSE open,
                                     !.posted = @ + amount,
                                     !.wasOverdue = late])

\* void_payment: any share of the total may be the payment taken back.
Void(t) ==
    LET d == request[t].debt
        amount == request[t].amount
        reopened ==
          CASE debt[d].status = "written_off_settled" -> "written_off"
            [] debt[d].status = "paid" ->
                 IF debt[d].wasOverdue \/ DueDate[d] < BusinessDate(now)
                 THEN "overdue" ELSE "active"
            [] OTHER -> debt[d].status
    IN  /\ Operates(t, "void")
        /\ debt[d].status \in {"active", "overdue", "paid", "written_off", "written_off_settled"}
        /\ amount \in 1..debt[d].posted
        /\ Writes(t, [debt[d] EXCEPT !.status = reopened,
                                     !.posted = @ - amount,
                                     !.wasOverdue = @ \/ reopened = "overdue"])

WriteOff(t) ==
    LET d == request[t].debt
    IN  /\ Operates(t, "write_off")
        /\ debt[d].status = "overdue"
        /\ Writes(t, [debt[d] EXCEPT !.status = "written_off"])

\* update_shop_customer_policy; a stale form is a Rollback.
UpdatePolicy(t) ==
    /\ Operates(t, "policy")
    /\ request[t].policy # policy[request[t].shop]
    /\ Writes(t, request[t].policy)

Tick ==
    /\ now < MaxNow
    /\ now' = now + 1
    /\ UNCHANGED <<tables, locks, request, clock, written>>

Amounts(d, kind) == IF kind \in {"pay", "void"} THEN 1..OriginalAmount[d] ELSE {0}

Operation(t) ==
    \/ CreateDebt(t)
    \/ AcceptDebt(t)
    \/ Decline(t, "reject", "rejected")
    \/ Decline(t, "cancel", "cancelled")
    \/ ExpireDebt(t)
    \/ MarkOverdue(t)
    \/ Pay(t)
    \/ Void(t)
    \/ WriteOff(t)
    \/ UpdatePolicy(t)

Next ==
    \/ \E t \in Txs :
        \/ \E d \in Debts, kind \in Kinds : \E amount \in Amounts(d, kind) :
             BeginDebt(t, kind, d, amount)
        \/ \E s \in Shops, p \in Policies : BeginPolicy(t, s, p)
        \/ LockShop(t)
        \/ LockCustomer(t)
        \/ Operation(t)
        \/ Commit(t)
        \/ Rollback(t)
    \/ Tick

Spec == Init /\ [][Next]_vars

-----------------------------------------------------------------------------
(* Properties.                                                             *)

Statuses == {"absent", "pending", "active", "rejected", "cancelled", "expired", "paid",
             "overdue", "written_off", "written_off_settled"}
Row == [status : Statuses, posted : Nat, createdAt : 0..MaxNow, wasOverdue : BOOLEAN]
Request ==
    [kind : Kinds \cup {"none", "policy"}, shop : Shops \cup {Nobody},
     debt : Debts \cup {Nobody}, at : 0..MaxNow, amount : Nat, policy : Policies]

\* Type invariant.
TypeOK ==
    /\ now \in 0..MaxNow
    /\ policy \in [Shops -> Policies]
    /\ debt \in [Debts -> Row]
    /\ \A d \in Debts : debt[d].posted <= OriginalAmount[d]
    /\ owner \in [Shops \cup {Customer} -> Txs \cup {Nobody}]
    /\ step \in [Txs -> {Idle, "begun", "shop_locked", "locked", "written"}]
    /\ request \in [Txs -> Request]
    /\ clock \in [Txs -> 0..now]
    /\ written \in [Txs -> Row \cup Policies]

Commits(t) == step[t] = "written" /\ step'[t] = Idle /\ tables' # tables

Grants(t, d) ==
    /\ Commits(t)
    /\ request[t].debt = d
    /\ \/ debt[d].status = "absent" /\ debt'[d].status = "pending"
       \/ debt[d].status = "pending" /\ debt'[d].status = "active"

\* No proposal and no acceptance ever becomes visible while, as of the business
\* day it was decided on, some debt of the customer at any shop is overdue,
\* past due or written off, or the customer is blacklisted by its own shop: the
\* decision was made some steps earlier, and every transaction that could have
\* turned it over meanwhile had to wait for a lock this one held.
GrantsUnblocked ==
    \A t \in Txs, d \in Debts :
        Grants(t, d) => ~HardBlocked(BusinessDate(clock[t])) /\ ~policy[ShopOf[d]].blacklisted

NoCreditWhileBlocked == [][GrantsUnblocked]_vars

\* When a proposal becomes visible the shop's limits hold with it included.
\* (Later a void or a lower limit may lawfully take the exposure beyond them.)
LimitsHoldAtCreation ==
    [][\A t \in Txs, d \in Debts :
          Grants(t, d) /\ debt[d].status = "absent" =>
             LET s == ShopOf[d]
             IN  /\ (Exposure(Rows(s)) <= policy[s].limit)'
                 /\ (Cardinality(OpenDebts(Rows(s))) <= policy[s].maxOpen)']_vars

Closed == {"rejected", "cancelled", "expired"}

Posts(t, d) ==
    CASE request[t].kind = "pay" -> debt[d].posted + request[t].amount
      [] request[t].kind = "void" -> debt[d].posted - request[t].amount
      [] OTHER -> debt[d].posted

\* A proposal is decided once: a customer's acceptance or rejection, the shop's
\* cancellation and the expiry race for the same row, and whoever loses finds
\* the decision and changes nothing; a proposal submitted twice makes one debt;
\* and no payment is lost to one committed beside it.
KeepsDecisions ==
    \A d \in Debts :
        /\ debt[d].status \in Closed => debt'[d] = debt[d]
        /\ debt[d].status # "absent" =>
             debt'[d].status # "absent" /\ debt'[d].createdAt = debt[d].createdAt
        /\ debt[d].status \notin Closed \cup {"absent", "pending"} =>
             debt'[d].status \notin Closed \cup {"pending"}
        /\ \A t \in Txs : Commits(t) /\ request[t].debt = d => debt'[d].posted = Posts(t, d)

DecidedOnce == [][KeepsDecisions]_vars
=============================================================================
