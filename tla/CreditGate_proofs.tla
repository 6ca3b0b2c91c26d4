------------------------- MODULE CreditGate_proofs -------------------------
(***************************************************************************)
(* For any number of sessions, shops, debts and policies: what a           *)
(* transaction decided under its locks still holds when it commits.        *)
(*                                                                         *)
(* The properties speak about the commit, the guards about a moment some   *)
(* steps earlier.  IInv bridges the two: it says who holds which lock      *)
(* (Holding), what each transaction is about (Purpose), and that the       *)
(* reasons of every uncommitted write are still true (Decided).            *)
(* The exposure is a sum over the debts of a shop, by a recursive function *)
(* of the library: that a sum is a number, that any debt may be taken out  *)
(* of it, and that it depends on nothing but its debts, is shown by the    *)
(* least set that would be a counterexample.                               *)
(***************************************************************************)
EXTENDS CreditGate, FiniteSetTheorems, TLAPS

Accepted == {"active", "overdue", "paid", "written_off", "written_off_settled"}

Holding ==
    \A t \in Txs :
        /\ step[t] \in {"shop_locked", "locked", "written"} => owner[request[t].shop] = t
        /\ step[t] \in {"locked", "written"} /\ LocksCustomer(request[t].kind)
             => owner[Customer] = t

Purpose ==
    \A t \in Txs : step[t] # Idle =>
        \/ request[t].kind = "policy" /\ request[t].shop \in Shops
        \/ /\ request[t].kind \in Kinds
           /\ request[t].debt \in Debts
           /\ request[t].shop = ShopOf[request[t].debt]

\* The gate of a proposal or an acceptance, as of the day it was decided on.
GateOpen(t) ==
    /\ ~HardBlocked(BusinessDate(clock[t]))
    /\ ~policy[request[t].shop].blacklisted

\* What an operation may have written, given the row as it is now.
Lawful(r, old, new) ==
    /\ r.kind = "create" =>
         old.status = "absent" /\ new.status = "pending" /\ new.posted = 0
    /\ r.kind # "create" => new.createdAt = old.createdAt
    /\ r.kind = "accept" =>
         old.status = "pending" /\ new.status \in {"active", "expired"}
    /\ r.kind \in {"reject", "cancel", "expire"} =>
         old.status = "pending" /\ new.status \in Closed
    /\ r.kind \in {"overdue", "pay", "void", "write_off"} =>
         old.status \in Accepted /\ new.status \in Accepted
    /\ r.kind = "pay" => new.posted = old.posted + r.amount
    /\ r.kind = "void" => new.posted = old.posted - r.amount
    /\ r.kind \notin {"create", "pay", "void"} => new.posted = old.posted

Decided ==
    \A t \in Txs : step[t] = "written" =>
        /\ request[t].kind = "policy" => written[t] \in Policies
        /\ request[t].kind \in Kinds =>
             /\ written[t] \in Row
             /\ written[t].posted <= OriginalAmount[request[t].debt]
             /\ Lawful(request[t], debt[request[t].debt], written[t])
        /\ request[t].kind = "create" \/ (request[t].kind = "accept" /\ written[t].status = "active")
             => GateOpen(t)
        /\ request[t].kind = "create" =>
             WithinLimits(request[t].shop, OriginalAmount[request[t].debt])

AbsentIsEmpty == \A d \in Debts : debt[d].status = "absent" => debt[d].posted = 0

IInv == TypeOK /\ Holding /\ Purpose /\ Decided /\ AbsentIsEmpty

-----------------------------------------------------------------------------
\* A database in which nothing has happened satisfies the invariant.
LEMMA InitInv == Init => IInv
<1> SUFFICES ASSUME Init PROVE IInv
  OBVIOUS
<1> USE GateAssumption DEF Init
<1>1. Absent \in Row
  BY DEF Absent, Row, Statuses
<1>2. NoRequest \in Request
  BY DEF NoRequest, Request
<1>3. TypeOK
  BY <1>1, <1>2 DEF TypeOK, Absent, Idle
<1>4. Holding /\ Purpose /\ Decided
  BY DEF Holding, Purpose, Decided, Idle
<1>5. AbsentIsEmpty
  BY DEF AbsentIsEmpty, Absent
<1> QED
  BY <1>3, <1>4, <1>5 DEF IInv

-----------------------------------------------------------------------------
(* Requests and locks.                                                     *)

\* A transaction that has just begun holds nothing and has decided nothing.
LEMMA BeginStep ==
    ASSUME IInv, NEW t \in Txs, NEW r \in Request, Begin(t, r),
           \/ r.kind = "policy" /\ r.shop \in Shops
           \/ r.kind \in Kinds /\ r.debt \in Debts /\ r.shop = ShopOf[r.debt]
    PROVE  IInv'
<1> USE DEF IInv, Begin, tables
<1>1. TypeOK'
    BY DEF TypeOK
<1>2. Holding' /\ Purpose'
    BY DEF TypeOK, Holding, Purpose, Idle
<1>3. Decided' /\ AbsentIsEmpty'
    BY DEF TypeOK, Decided, AbsentIsEmpty, GateOpen, HardBlocked, Blocks, WithinLimits, Rows
<1> QED
    BY <1>1, <1>2, <1>3

\* A lock is taken only from nobody, so no holder loses one.
LEMMA LockStep ==
    ASSUME IInv, NEW t \in Txs, LockShop(t) \/ LockCustomer(t)
    PROVE  IInv'
<1> DEFINE l == IF step[t] = "begun" THEN request[t].shop ELSE Customer
<1>1. /\ l \in Shops \cup {Customer}
      /\ l = Customer <=> step[t] = "shop_locked"
      /\ step[t] \in {"begun", "shop_locked"}
    BY GateAssumption DEF IInv, Purpose, LockShop, LockCustomer, Idle
<1>2. /\ owner[l] = Nobody
      /\ owner' = [owner EXCEPT ![l] = t]
      /\ step' \in [Txs -> {Idle, "begun", "shop_locked", "locked", "written"}]
      /\ \A u \in Txs : u # t => step'[u] = step[u]
      /\ step'[t] \in {"shop_locked", "locked"}
      /\ step'[t] = "shop_locked" => step[t] = "begun"
      /\ step[t] = "begun" /\ step'[t] = "locked" => ~LocksCustomer(request[t].kind)
      /\ UNCHANGED <<now, policy, debt, request, clock, written>>
    BY <1>1 DEF IInv, TypeOK, LockShop, LockCustomer, tables, Idle
<1> HIDE DEF l
<1>3. TypeOK'
    BY <1>1, <1>2 DEF IInv, TypeOK
<1>4. Holding'
    <2> SUFFICES ASSUME NEW u \in Txs
                 PROVE  /\ step'[u] \in {"shop_locked", "locked", "written"}
                             => owner'[request'[u].shop] = u
                        /\ step'[u] \in {"locked", "written"} /\ LocksCustomer(request'[u].kind)
                             => owner'[Customer] = u
        BY <1>2 DEF Holding, LocksCustomer
    <2>1. CASE u # t
        BY <1>1, <1>2, <2>1, GateAssumption DEF IInv, TypeOK, Holding
    <2>2. CASE u = t
        BY <1>1, <1>2, <2>2, GateAssumption DEF IInv, TypeOK, Holding, Purpose, Idle, l
    <2> QED
        BY <2>1, <2>2
<1>5. Purpose'
    BY <1>1, <1>2 DEF IInv, Purpose, Idle
<1>6. Decided' /\ AbsentIsEmpty'
    BY <1>1, <1>2 DEF IInv, Decided, AbsentIsEmpty, GateOpen, HardBlocked, Blocks, WithinLimits, Rows
<1> QED
    BY <1>3, <1>4, <1>5, <1>6 DEF IInv

\* The clock moves, or nothing does: what was decided was decided on an instant
\* already read.
LEMMA TickStep ==
    ASSUME IInv, Tick \/ UNCHANGED vars
    PROVE  IInv'
<1> USE DEF IInv, Tick, vars, tables, locks
<1>1. TypeOK'
    BY GateAssumption DEF TypeOK
<1>2. Holding' /\ Purpose'
    BY DEF Holding, Purpose
<1>3. Decided' /\ AbsentIsEmpty'
    BY DEF Decided, AbsentIsEmpty, GateOpen, HardBlocked, Blocks, WithinLimits, Rows
<1> QED
    BY <1>1, <1>2, <1>3

\* A transaction that ends releases its own locks and nobody else's.
LEMMA RollbackStep ==
    ASSUME IInv, NEW t \in Txs, Rollback(t)
    PROVE  IInv'
<1> USE DEF IInv, Rollback, Release, tables
<1>1. TypeOK'
    <2>1. NoRequest \in Request /\ Absent \in Row
        BY GateAssumption DEF NoRequest, Request, Absent, Row, Statuses, TypeOK
    <2> QED
        BY <2>1, GateAssumption DEF TypeOK, Idle
<1>2. Holding' /\ Purpose'
    BY GateAssumption DEF TypeOK, Holding, Purpose, Idle
<1>3. Decided' /\ AbsentIsEmpty'
    BY DEF TypeOK, Decided, AbsentIsEmpty, GateOpen, HardBlocked, Blocks, WithinLimits, Rows, Idle
<1> QED
    BY <1>1, <1>2, <1>3

-----------------------------------------------------------------------------
(* Operations: each writes only what the rows it reads justify.            *)

Justified(t, value) ==
    /\ step[t] = "locked"
    /\ request[t].kind = "policy" => value \in Policies
    /\ request[t].kind \in Kinds =>
         /\ value \in Row
         /\ value.posted <= OriginalAmount[request[t].debt]
         /\ Lawful(request[t], debt[request[t].debt], value)
    /\ request[t].kind = "create" \/ (request[t].kind = "accept" /\ value.status = "active")
         => ~HardBlocked(BusinessDate(now)) /\ ~policy[request[t].shop].blacklisted
    /\ request[t].kind = "create" =>
         WithinLimits(request[t].shop, OriginalAmount[request[t].debt])

\* An operation that flushes a justified write keeps the invariant.
LEMMA WriteStep ==
    ASSUME IInv, NEW t \in Txs, NEW value, Justified(t, value), Writes(t, value)
    PROVE  IInv'
<1> USE DEF IInv, Writes, tables
<1>1. request[t].kind = "policy" \/ request[t].kind \in Kinds
    BY DEF Purpose, Justified, Idle
<1>2. TypeOK'
    BY <1>1 DEF TypeOK, Justified
<1>3. Holding' /\ Purpose'
    BY DEF TypeOK, Holding, Purpose, Justified, Idle
<1>4. AbsentIsEmpty'
    BY DEF AbsentIsEmpty
<1>5. Decided'
    <2> SUFFICES ASSUME NEW u \in Txs, step'[u] = "written"
                 PROVE  /\ request[u].kind = "policy" => written'[u] \in Policies
                        /\ request[u].kind \in Kinds =>
                             /\ written'[u] \in Row
                             /\ written'[u].posted <= OriginalAmount[request[u].debt]
                             /\ Lawful(request[u], debt[request[u].debt], written'[u])
                        /\ request[u].kind = "create"
                              \/ (request[u].kind = "accept" /\ written'[u].status = "active")
                             => /\ ~HardBlocked(BusinessDate(clock'[u]))
                                /\ ~policy[request[u].shop].blacklisted
                        /\ request[u].kind = "create" =>
                             WithinLimits(request[u].shop, OriginalAmount[request[u].debt])
        BY DEF Decided, GateOpen, HardBlocked, Blocks, WithinLimits, Rows, Lawful
    <2>1. CASE u = t
        BY <2>1 DEF TypeOK, Justified
    <2>2. CASE u # t
        BY <2>2 DEF TypeOK, Decided, GateOpen
    <2> QED
        BY <2>1, <2>2
<1> QED
    BY <1>2, <1>3, <1>4, <1>5

\* The proposal, its decisions and its expiry.
LEMMA ProposalStep ==
    ASSUME IInv, NEW t \in Txs,
           \/ CreateDebt(t)
           \/ AcceptDebt(t)
           \/ Decline(t, "reject", "rejected")
           \/ Decline(t, "cancel", "cancelled")
           \/ ExpireDebt(t)
    PROVE  IInv'
<1> DEFINE d == request[t].debt
<1>1. d \in Debts /\ request[t].kind \in Kinds /\ request[t].at \in 0..MaxNow
    BY DEF IInv, TypeOK, Purpose, Request, CreateDebt, AcceptDebt, Decline, ExpireDebt,
           Operates, Idle, Kinds
<1>2. debt[d] \in Row /\ debt[d].posted <= OriginalAmount[d] /\ OriginalAmount[d] \in Nat
    BY <1>1, GateAssumption DEF IInv, TypeOK
<1> HIDE DEF d
<1> USE DEF Justified, Lawful, Operates, Closed
<1>3. CASE CreateDebt(t)
    <2> DEFINE v == [Absent EXCEPT !.status = "pending", !.createdAt = request[t].at]
    <2>1. v \in Row /\ v.status = "pending" /\ v.posted = 0
        BY <1>1 DEF Absent, Row, Statuses
    <2>2. Writes(t, v) /\ Justified(t, v)
        BY <1>1, <1>2, <1>3, <2>1 DEF CreateDebt, d
    <2> QED
        BY <2>2, WriteStep
<1>4. CASE AcceptDebt(t)
    <2> DEFINE v == [debt[d] EXCEPT !.status = "active"]
    <2>1. /\ v \in Row /\ v.status = "active" /\ v.posted = debt[d].posted
          /\ v.createdAt = debt[d].createdAt
        BY <1>2 DEF Row, Statuses
    <2>2. Writes(t, v) /\ Justified(t, v)
        BY <1>1, <1>2, <1>4, <2>1 DEF AcceptDebt, d
    <2> QED
        BY <2>2, WriteStep
<1>5. ASSUME NEW kind \in {"reject", "cancel"}, NEW status \in {"rejected", "cancelled"},
             Decline(t, kind, status)
      PROVE  IInv'
    <2> DEFINE v == [debt[d] EXCEPT !.status = status]
    <2>1. /\ v \in Row /\ v.status = status /\ v.posted = debt[d].posted
          /\ v.createdAt = debt[d].createdAt
        BY <1>2 DEF Row, Statuses
    <2>2. Writes(t, v) /\ Justified(t, v)
        BY <1>1, <1>2, <1>5, <2>1 DEF Decline, d
    <2> QED
        BY <2>2, WriteStep
<1>6. CASE ExpireDebt(t)
    <2> DEFINE v == [debt[d] EXCEPT !.status = "expired"]
    <2>1. /\ v \in Row /\ v.status = "expired" /\ v.posted = debt[d].posted
          /\ v.createdAt = debt[d].createdAt
        BY <1>2 DEF Row, Statuses
    <2>2. Writes(t, v) /\ Justified(t, v)
        BY <1>1, <1>2, <1>6, <2>1 DEF ExpireDebt, d
    <2> QED
        BY <2>2, WriteStep
<1> QED
    BY <1>3, <1>4, <1>5, <1>6

\* Payments, voids and the transitions of an accepted debt.
LEMMA RepaymentStep ==
    ASSUME IInv, NEW t \in Txs, MarkOverdue(t) \/ Pay(t) \/ Void(t) \/ WriteOff(t)
    PROVE  IInv'
<1> DEFINE d == request[t].debt
<1>1. d \in Debts /\ request[t].kind \in Kinds /\ request[t].amount \in Nat
    BY DEF IInv, TypeOK, Purpose, Request, MarkOverdue, Pay, Void, WriteOff, Operates, Idle, Kinds
<1>2. /\ debt[d] \in Row /\ debt[d].posted <= OriginalAmount[d]
      /\ OriginalAmount[d] \in Nat /\ DiscountedAmount[d] \in Nat
      /\ DiscountedAmount[d] <= OriginalAmount[d]
    BY <1>1, GateAssumption DEF IInv, TypeOK
<1> HIDE DEF d
<1> USE DEF Justified, Lawful, Operates, Accepted
<1>3. CASE MarkOverdue(t)
    <2> DEFINE v == [debt[d] EXCEPT !.status = "overdue", !.wasOverdue = TRUE]
    <2>1. /\ v \in Row /\ v.status = "overdue" /\ v.posted = debt[d].posted
          /\ v.createdAt = debt[d].createdAt
        BY <1>2 DEF Row, Statuses
    <2>2. Writes(t, v) /\ Justified(t, v)
        BY <1>1, <1>2, <1>3, <2>1 DEF MarkOverdue, d
    <2> QED
        BY <2>2, WriteStep
<1>4. CASE Pay(t)
    <2> DEFINE amount == request[t].amount
               open == IF PastDueActive(d) THEN "overdue" ELSE debt[d].status
               closed == IF debt[d].status = "written_off" THEN "written_off_settled" ELSE "paid"
               v == [debt[d] EXCEPT !.status = IF amount = Owed(d) THEN closed ELSE open,
                                    !.posted = @ + amount,
                                    !.wasOverdue = PastDueActive(d) \/ debt[d].wasOverdue]
    <2>1. /\ debt[d].status \in {"active", "overdue", "written_off"}
          /\ amount \in 1..Owed(d)
          /\ request[t].kind = "pay" /\ step[t] = "locked"
          /\ Writes(t, v)
        BY <1>4 DEF Pay, d
    <2>2. /\ Owed(d) <= OriginalAmount[d] - debt[d].posted /\ Owed(d) \in Int
          /\ debt[d].posted \in Nat
        BY <1>2 DEF Owed, Row
    <2>3. (PastDueActive(d) \/ debt[d].wasOverdue) \in BOOLEAN
        BY <1>2 DEF Row
    <2>4. open \in Accepted /\ closed \in Accepted
        BY <2>1
    <2>5. debt[d].posted + amount \in Nat /\ debt[d].posted + amount <= OriginalAmount[d]
        BY <1>1, <1>2, <2>1, <2>2
    <2>6. /\ v \in Row /\ v.status \in Accepted /\ v.posted = debt[d].posted + amount
          /\ v.createdAt = debt[d].createdAt
        BY <1>2, <2>3, <2>4, <2>5 DEF Row, Statuses
    <2> HIDE DEF v
    <2>7. Justified(t, v)
        BY <1>1, <2>1, <2>5, <2>6 DEF d
    <2> QED
        BY <2>1, <2>7, WriteStep
<1>5. CASE Void(t)
    <2> DEFINE amount == request[t].amount
               reopened ==
                 CASE debt[d].status = "written_off_settled" -> "written_off"
                   [] debt[d].status = "paid" ->
                        IF debt[d].wasOverdue \/ DueDate[d] < BusinessDate(now)
                        THEN "overdue" ELSE "active"
                   [] OTHER -> debt[d].status
               v == [debt[d] EXCEPT !.status = reopened,
                                    !.posted = @ - amount,
                                    !.wasOverdue = @ \/ reopened = "overdue"]
    <2>1. /\ debt[d].status \in {"active", "overdue", "paid", "written_off", "written_off_settled"}
          /\ amount \in 1..debt[d].posted
          /\ request[t].kind = "void" /\ step[t] = "locked"
          /\ Writes(t, v)
        BY <1>5 DEF Void, d
    <2>2. reopened \in Accepted
        BY <2>1
    <2>3. (debt[d].wasOverdue \/ (reopened = "overdue")) \in BOOLEAN
        BY <1>2 DEF Row
    <2>4. debt[d].posted - amount \in Nat /\ debt[d].posted - amount <= OriginalAmount[d]
        BY <1>1, <1>2, <2>1 DEF Row
    <2> HIDE DEF reopened
    <2>5. /\ v \in Row /\ v.status \in Accepted /\ v.posted = debt[d].posted - amount
          /\ v.createdAt = debt[d].createdAt
        BY <1>2, <2>2, <2>3, <2>4 DEF Row, Statuses
    <2> HIDE DEF v
    <2>6. Justified(t, v)
        BY <1>1, <2>1, <2>4, <2>5 DEF d
    <2> QED
        BY <2>1, <2>6, WriteStep
<1>6. CASE WriteOff(t)
    <2> DEFINE v == [debt[d] EXCEPT !.status = "written_off"]
    <2>1. /\ v \in Row /\ v.status = "written_off" /\ v.posted = debt[d].posted
          /\ v.createdAt = debt[d].createdAt
        BY <1>2 DEF Row, Statuses
    <2>2. Writes(t, v) /\ Justified(t, v)
        BY <1>1, <1>2, <1>6, <2>1 DEF WriteOff, d
    <2> QED
        BY <2>2, WriteStep
<1> QED
    BY <1>3, <1>4, <1>5, <1>6

\* A policy update is such an operation.
LEMMA PolicyStep ==
    ASSUME IInv, NEW t \in Txs, UpdatePolicy(t)
    PROVE  IInv'
<1>1. request[t].policy \in Policies
    BY DEF IInv, TypeOK, Request
<1>2. Writes(t, request[t].policy) /\ Justified(t, request[t].policy)
    BY <1>1 DEF UpdatePolicy, Operates, Justified, Kinds
<1> QED
    BY <1>2, WriteStep

-----------------------------------------------------------------------------
(* The commit: whose reasons could it take away?                           *)

\* A commit takes away no other session's reasons: that session would have had
\* to hold the Shop row or the Customer row as well.
LEMMA CommitStep ==
    ASSUME IInv, NEW t \in Txs, Commit(t)
    PROVE  IInv'
<1> USE DEF IInv, Commit, Release
<1> DEFINE s == request[t].shop
           d == request[t].debt
<1>1. /\ step[t] = "written"
      /\ \/ /\ request[t].kind = "policy" /\ s \in Shops /\ written[t] \in Policies
            /\ policy' = [policy EXCEPT ![s] = written[t]] /\ debt' = debt
         \/ /\ request[t].kind \in Kinds /\ d \in Debts /\ s = ShopOf[d]
            /\ written[t] \in Row /\ written[t].posted <= OriginalAmount[d]
            /\ Lawful(request[t], debt[d], written[t])
            /\ debt' = [debt EXCEPT ![d] = written[t]] /\ policy' = policy
    BY DEF Purpose, Decided, Idle, Kinds
<1>2. /\ step' \in [Txs -> {Idle, "begun", "shop_locked", "locked", "written"}]
      /\ step'[t] = Idle /\ now' = now
      /\ \A u \in Txs : u # t =>
           /\ step'[u] = step[u] /\ request'[u] = request[u]
           /\ clock'[u] = clock[u] /\ written'[u] = written[u]
    BY DEF TypeOK
<1>3. TypeOK'
    <2>1. NoRequest \in Request /\ Absent \in Row
        BY GateAssumption DEF NoRequest, Request, Absent, Row, Statuses, TypeOK
    <2>2. policy' \in [Shops -> Policies] /\ debt' \in [Debts -> Row]
        BY <1>1 DEF TypeOK
    <2>3. \A e \in Debts : debt'[e].posted <= OriginalAmount[e]
        BY <1>1 DEF TypeOK
    <2> QED
        BY <2>1, <2>2, <2>3, GateAssumption DEF TypeOK, Idle
<1>4. Holding' /\ Purpose'
    BY GateAssumption DEF TypeOK, Holding, Purpose, Idle
<1>5. AbsentIsEmpty'
    BY <1>1 DEF AbsentIsEmpty, TypeOK, Lawful, Closed, Accepted, Kinds
<1>6. ASSUME NEW u \in Txs, step'[u] = "written"
      PROVE  /\ request'[u].kind = "policy" => written'[u] \in Policies
             /\ request'[u].kind \in Kinds =>
                  /\ written'[u] \in Row
                  /\ written'[u].posted <= OriginalAmount[request'[u].debt]
                  /\ Lawful(request'[u], debt'[request'[u].debt], written'[u])
             /\ request'[u].kind = "create"
                   \/ (request'[u].kind = "accept" /\ written'[u].status = "active")
                  => GateOpen(u)'
             /\ request'[u].kind = "create" =>
                  WithinLimits(request[u].shop, OriginalAmount[request[u].debt])'
    <2>1. u # t /\ step[u] = "written"
        BY <1>2, <1>6 DEF Idle
    <2>2. /\ request'[u] = request[u] /\ clock'[u] = clock[u] /\ written'[u] = written[u]
        BY <1>2, <2>1
    \* Both hold their Shop, so these are two shops ...
    <2>3. request[u].shop # s /\ request[u].shop \in Shops
        BY <1>1, <2>1, GateAssumption DEF Holding, Purpose, Idle
    <2>4. /\ policy'[request[u].shop] = policy[request[u].shop]
          /\ \A e \in Debts : ShopOf[e] = request[u].shop => debt'[e] = debt[e]
        BY <1>1, <2>3 DEF TypeOK
    \* ... and if both hold the Customer they are one transaction.
    <2>5. ASSUME LocksCustomer(request[u].kind), NEW day, ~HardBlocked(day)
          PROVE  ~HardBlocked(day)'
        <3>1. ~LocksCustomer(request[t].kind)
            BY <1>1, <2>1, <2>5 DEF Holding
        <3>2. debt' = debt \/ (debt' = [debt EXCEPT ![d] = written[t]] /\ written[t].status \in Closed)
            BY <1>1, <3>1 DEF LocksCustomer, Kinds, Lawful
        <3> QED
            BY <2>5, <3>2 DEF HardBlocked, Blocks, Closed, TypeOK
    <2>6. request[u].kind \in Kinds =>
            request[u].debt \in Debts /\ request[u].shop = ShopOf[request[u].debt]
        BY <2>1 DEF Purpose, Idle, Kinds
    <2>7. CASE request[u].kind \in {"create", "accept"}
        <3>1. LocksCustomer(request[u].kind)
            BY <2>7 DEF LocksCustomer
        <3>2. GateOpen(u) => GateOpen(u)'
            BY <2>2, <2>4, <2>5, <3>1 DEF GateOpen, HardBlocked, Blocks
        <3>3. WithinLimits(request[u].shop, OriginalAmount[request[u].debt])
                => WithinLimits(request[u].shop, OriginalAmount[request[u].debt])'
            BY <2>2, <2>4 DEF WithinLimits, Rows
        <3> QED
            BY <2>1, <2>2, <2>4, <2>6, <2>7, <3>2, <3>3 DEF Decided, Kinds
    <2>8. CASE request[u].kind \notin {"create", "accept"}
        BY <2>1, <2>2, <2>4, <2>6, <2>8 DEF Decided
    <2> QED
        BY <2>7, <2>8
<1>7. Decided'
    BY <1>2, <1>6 DEF Decided
<1> QED
    BY <1>3, <1>4, <1>5, <1>7

-----------------------------------------------------------------------------
(* The theorems.                                                           *)

\* Every step of every session keeps the invariant.
LEMMA StepInv == IInv /\ [Next]_vars => IInv'
<1> SUFFICES ASSUME IInv, [Next]_vars PROVE IInv'
    OBVIOUS
<1>1. ASSUME NEW t \in Txs, NEW d \in Debts, NEW kind \in Kinds, NEW amount \in Amounts(d, kind),
             BeginDebt(t, kind, d, amount)
      PROVE  IInv'
    <2> DEFINE r == [kind |-> kind, shop |-> ShopOf[d], debt |-> d, at |-> now,
                     amount |-> amount, policy |-> FirstPolicy]
    <2>1. amount \in Nat
        BY GateAssumption DEF Amounts
    <2>2. r \in Request
        BY <2>1, GateAssumption DEF Request, IInv, TypeOK
    <2> QED
        BY <1>1, <2>2, BeginStep DEF BeginDebt
<1>2. ASSUME NEW t \in Txs, NEW s \in Shops, NEW p \in Policies, BeginPolicy(t, s, p)
      PROVE  IInv'
    <2> DEFINE r == [kind |-> "policy", shop |-> s, debt |-> Nobody, at |-> now,
                     amount |-> 0, policy |-> p]
    <2>1. r \in Request
        BY DEF Request, IInv, TypeOK
    <2> QED
        BY <1>2, <2>1, BeginStep DEF BeginPolicy
<1>3. ASSUME NEW t \in Txs, Operation(t)
      PROVE  IInv'
    BY <1>3, ProposalStep, RepaymentStep, PolicyStep DEF Operation
<1>4. ASSUME NEW t \in Txs, LockShop(t) \/ LockCustomer(t) \/ Commit(t) \/ Rollback(t)
      PROVE  IInv'
    BY <1>4, LockStep, CommitStep, RollbackStep
<1>5. CASE Tick \/ UNCHANGED vars
    BY <1>5, TickStep
<1> QED
    BY <1>1, <1>2, <1>3, <1>4, <1>5 DEF Next

\* Locks, purposes and reasons fit together in every reachable state.
THEOREM Invariance == Spec => []IInv
BY InitInv, StepInv, PTL DEF Spec

\* The type invariant, with the posted total of every debt within its amount.
THEOREM TypeCorrect == Spec => []TypeOK
<1>1. IInv => TypeOK
    BY DEF IInv
<1> QED
    BY <1>1, Invariance, PTL

\* Whatever else is running, the limits a proposal was admitted under (credit
\* limit with the new amount, number of open debts) still hold for the rows and
\* the policy that its commit finds.
AdmittedWithinLimits ==
    \A t \in Txs : step[t] = "written" /\ request[t].kind = "create" =>
        WithinLimits(request[t].shop, OriginalAmount[request[t].debt])

\* A proposal that passed decide_debt_creation_eligibility is still within the
\* shop's limits at every moment until its transaction commits or rolls back.
THEOREM LimitsStand == Spec => []AdmittedWithinLimits
<1>1. IInv => AdmittedWithinLimits
    BY DEF IInv, Decided, AdmittedWithinLimits
<1> QED
    BY <1>1, Invariance, PTL

\* Only a commit ends a transaction with its writes made.
LEMMA OnlyCommits ==
    ASSUME IInv, Next, NEW t \in Txs, Commits(t)
    PROVE  Commit(t)
<1>1. ASSUME NEW u \in Txs, u # t, step' = [step EXCEPT ![u] = step'[u]]
      PROVE  FALSE
    BY <1>1 DEF IInv, TypeOK, Commits, Idle
<1>2. step' # step /\ tables' # tables
    BY DEF Commits, Idle
<1>3. PICK u \in Txs : Commit(u)
    BY <1>2 DEF Next, BeginDebt, BeginPolicy, Begin, LockShop, LockCustomer, Operation, CreateDebt,
        AcceptDebt, Decline, ExpireDebt, MarkOverdue, Pay, Void, WriteOff, UpdatePolicy, Writes,
        Rollback, Tick, tables
<1>4. u = t
    BY <1>1, <1>3 DEF Commit, Release, IInv, TypeOK
<1> QED
    BY <1>3, <1>4

\* The gate decides for good: no credit becomes visible while the customer is
\* blocked anywhere or blacklisted by the shop, however transactions interleave.
THEOREM CreditNeverWhileBlocked == Spec => NoCreditWhileBlocked
<1>1. IInv /\ [Next]_vars => [GrantsUnblocked]_vars
    <2> SUFFICES ASSUME IInv, Next, NEW t \in Txs, NEW d \in Debts, Grants(t, d)
                 PROVE  ~HardBlocked(BusinessDate(clock[t])) /\ ~policy[ShopOf[d]].blacklisted
        BY DEF GrantsUnblocked
    <2>1. Commit(t) /\ request[t].debt = d
        BY OnlyCommits DEF Grants
    <2>2. request[t].kind \in Kinds /\ request[t].shop = ShopOf[d]
        BY <2>1 DEF IInv, Purpose, Commit, Idle, Kinds, Grants, Closed
    <2>3. debt'[d] = written[t] /\ Lawful(request[t], debt[d], written[t])
        BY <2>1, <2>2 DEF IInv, TypeOK, Decided, Commit, Kinds
    <2>4. request[t].kind = "create" \/ (request[t].kind = "accept" /\ written[t].status = "active")
        BY <2>2, <2>3 DEF Grants, Lawful, Closed, Accepted, Kinds
    <2> QED
        BY <2>1, <2>2, <2>4 DEF IInv, Decided, GateOpen, Commit
<1> QED
    BY <1>1, Invariance, PTL DEF Spec, NoCreditWhileBlocked

\* Every proposal is decided at most once and no payment overwrites another.
THEOREM DecisionsAreFinal == Spec => DecidedOnce
<1>1. IInv /\ [Next]_vars => [KeepsDecisions]_vars
    <2> SUFFICES ASSUME IInv, Next PROVE KeepsDecisions
        OBVIOUS
    <2>1. ASSUME NEW t \in Txs, Commit(t) PROVE KeepsDecisions
        <3>1. CASE request[t].kind = "policy"
            BY <2>1, <3>1, OnlyCommits
               DEF IInv, TypeOK, KeepsDecisions, Commits, Commit, Release, Posts, Idle
        <3>2. CASE request[t].kind # "policy"
            <4> DEFINE d == request[t].debt
            <4>1. d \in Debts /\ request[t].kind \in Kinds
                BY <2>1, <3>2 DEF IInv, Purpose, Commit, Idle
            <4>2. /\ debt' = [debt EXCEPT ![d] = written[t]]
                  /\ Lawful(request[t], debt[d], written[t])
                BY <2>1, <3>2, <4>1 DEF IInv, Decided, Commit
            <4>3. \A u \in Txs : Commits(u) => u = t
                BY <2>1 DEF IInv, TypeOK, Commits, Commit, Release, Idle
            <4>4. debt[d].status = "absent" => debt[d].posted = 0
                BY <4>1 DEF IInv, AbsentIsEmpty
            <4> HIDE DEF d
            <4>5. \A e \in Debts : e # d => debt'[e] = debt[e]
                BY <4>2 DEF IInv, TypeOK
            <4>6. debt'[d] = written[t]
                BY <4>1, <4>2 DEF IInv, TypeOK
            <4>7. written[t].posted = Posts(t, d)
                BY <4>1, <4>2, <4>4 DEF Lawful, Posts, Kinds, d
            <4> QED
                BY <4>1, <4>2, <4>3, <4>5, <4>6, <4>7
                   DEF KeepsDecisions, Lawful, Closed, Accepted, Kinds, d
        <3> QED
            BY <3>1, <3>2
    <2>2. CASE ~\E t \in Txs : Commit(t)
        <3>1. \A t \in Txs : ~Commits(t)
            BY <2>2, OnlyCommits
        <3>2. debt' = debt
            BY <2>2 DEF Next, BeginDebt, BeginPolicy, Begin, LockShop, LockCustomer, Operation,
                CreateDebt, AcceptDebt, Decline, ExpireDebt, MarkOverdue, Pay, Void, WriteOff,
                UpdatePolicy, Writes, Rollback, Tick, tables
        <3> QED
            BY <3>1, <3>2 DEF KeepsDecisions, Closed
    <2> QED
        BY <2>1, <2>2
<1> QED
    BY <1>1, Invariance, PTL DEF Spec, DecidedOnce

-----------------------------------------------------------------------------
(* The exposure, a sum over the debts of a shop.  What it is of is found   *)
(* by the least counterexample under inclusion.                            *)

\* A set of subsets of a finite set has a least one.
LEMMA Least ==
    ASSUME NEW S, IsFiniteSet(S), NEW T, T \subseteq SUBSET S, T # {}
    PROVE  \E s \in T : \A t \in T : t \subseteq s => t = s
<1>1. PICK s \in T : \A t \in T : ~(<<t, s>> \in StrictSubsetOrdering(S))
    <2>1. IsWellFoundedOn(StrictSubsetOrdering(S), SUBSET S)
        BY FS_StrictSubsetOrderingWellFounded, FS_FiniteSubsetsOfFinite
    <2> QED
        BY <2>1, WFMin
<1> QED
    BY <1>1 DEF StrictSubsetOrdering

\* What one debt adds.
Adds(rows, d) ==
    CASE rows[d].status = "pending" -> OriginalAmount[d]
      [] rows[d].status \in {"active", "overdue"} -> OriginalAmount[d] - rows[d].posted
      [] OTHER -> 0

\* The element MapThenFoldSet takes first, and what it computes.
First(s) == CHOOSE d \in s : TRUE

Sums(f, rows, S) ==
    f = [s \in SUBSET S |->
           IF s = {} THEN 0 ELSE Adds(rows, First(s)) + f[s \ {First(s)}]]

Owing(rows, S) == (CHOOSE f : Sums(f, rows, S))[S]

LEMMA ExposureIs ==
    ASSUME NEW rows
    PROVE  Exposure(rows) = Owing(rows, DOMAIN rows)
BY DEF Exposure, MapThenSumSet, MapThenFoldSet, Owing, Sums, First, Adds

\* The first element is one.
LEMMA FirstIn ==
    ASSUME NEW s, s # {}
    PROVE  First(s) \in s
BY DEF First

\* Two that sum the same agree where both do.
LEMMA SumsAgree ==
    ASSUME NEW S, NEW T, NEW f, NEW g, NEW rows, NEW others, Sums(f, rows, S), Sums(g, others, T),
           IsFiniteSet(S), NEW U \in SUBSET S, U \in SUBSET T,
           \A d \in U : Adds(rows, d) = Adds(others, d)
    PROVE  f[U] = g[U]
<1> SUFFICES ASSUME f[U] # g[U] PROVE FALSE
    OBVIOUS
<1>1. PICK Bad : Bad = {s \in SUBSET S : s \in SUBSET U /\ f[s] # g[s]}
    OBVIOUS
<1>2. PICK s \in Bad : \A t \in Bad : t \subseteq s => t = s
    <2>1. Bad # {} /\ Bad \subseteq SUBSET S
        BY <1>1
    <2> QED
        BY <2>1, Least
<1>3. s # {}
    BY <1>1, <1>2 DEF Sums
<1>4. First(s) \in s
    BY <1>3, FirstIn
<1>5. PICK t : t = s \ {First(s)}
    OBVIOUS
<1>6. t \notin Bad /\ t \in SUBSET S /\ t \in SUBSET U
    BY <1>1, <1>2, <1>4, <1>5
<1>7. f[t] = g[t]
    BY <1>1, <1>6
<1>8. f[s] = Adds(rows, First(s)) + f[t]
    BY <1>1, <1>2, <1>3, <1>5 DEF Sums
<1>9. g[s] = Adds(others, First(s)) + g[t]
    BY <1>1, <1>2, <1>3, <1>5 DEF Sums
<1>10. Adds(rows, First(s)) = Adds(others, First(s))
    BY <1>1, <1>2, <1>4
<1> QED
    BY <1>1, <1>2, <1>7, <1>8, <1>9, <1>10

\* There is one that sums.
LEMMA SumsExist ==
    ASSUME NEW S, IsFiniteSet(S), NEW rows
    PROVE  \E f : Sums(f, rows, S)
<1> SUFFICES ASSUME ~\E f : Sums(f, rows, S) PROVE FALSE
    OBVIOUS
<1>0. PICK Bad : Bad = {s \in SUBSET S : ~\E f : Sums(f, rows, s)}
    OBVIOUS
<1>1. PICK s \in Bad : \A t \in Bad : t \subseteq s => t = s
    <2>1. Bad # {} /\ Bad \subseteq SUBSET S
        BY <1>0
    <2> QED
        BY <2>1, Least
<1> DEFINE F(t) == CHOOSE f : Sums(f, rows, t)
<1>2. ASSUME NEW t \in SUBSET s, t # s
      PROVE  Sums(F(t), rows, t)
    <2>1. \E f : Sums(f, rows, t)
        BY <1>0, <1>1, <1>2
    <2> QED
        BY <2>1
<1>3. \A t \in SUBSET s : IsFiniteSet(t)
    BY <1>0, <1>1, FS_Subset
<1>4. ASSUME NEW t \in SUBSET s, t # {}, t # s
      PROVE  F(t)[t] = Adds(rows, First(t)) + F(t \ {First(t)})[t \ {First(t)}]
    <2>1. First(t) \in t
        BY <1>4, FirstIn
    <2>2. PICK u : u = t \ {First(t)}
        OBVIOUS
    <2>3. u \in SUBSET s /\ u # s /\ u \in SUBSET t /\ IsFiniteSet(u)
        BY <1>3, <1>4, <2>1, <2>2
    <2>4. Sums(F(t), rows, t) /\ Sums(F(u), rows, u)
        BY <1>2, <1>4, <2>3
    <2>5. F(t)[t] = Adds(rows, First(t)) + F(t)[u]
        BY <1>4, <2>2, <2>4 DEF Sums
    <2> HIDE DEF F
    <2>6. F(u)[u] = F(t)[u]
        BY <2>3, <2>4, SumsAgree
    <2> QED
        BY <2>2, <2>5, <2>6
<1>5. F({})[{}] = 0 \/ s = {}
    <2> SUFFICES ASSUME s # {} PROVE F({})[{}] = 0
        OBVIOUS
    <2>1. Sums(F({}), rows, {})
        BY <1>2
    <2> HIDE DEF F
    <2> QED
        BY <2>1 DEF Sums
<1> DEFINE rest == s \ {First(s)}
           g == [t \in SUBSET s |->
                   IF t = {} THEN 0
                   ELSE IF t = s THEN Adds(rows, First(s)) + F(rest)[rest]
                   ELSE F(t)[t]]
<1>6. Sums(g, rows, s)
    <2> HIDE DEF F
    <2>1. ASSUME NEW t \in SUBSET s, t # {}
          PROVE  g[t] = Adds(rows, First(t)) + g[t \ {First(t)}]
        <3>1. First(t) \in t
            BY <2>1, FirstIn
        <3>2. PICK u : u = t \ {First(t)}
            OBVIOUS
        <3>3. u \in SUBSET s /\ u # s
            BY <3>1, <3>2
        <3>4. g[u] = F(u)[u]
            BY <1>5, <2>1, <3>3
        <3> QED
            BY <1>4, <2>1, <3>2, <3>4
    <2>2. g[{}] = 0
        OBVIOUS
    <2>3. g = [t \in SUBSET s |-> g[t]]
        OBVIOUS
    <2> HIDE DEF g
    <2> QED
        BY <2>1, <2>2, <2>3 DEF Sums
<1> QED
    BY <1>0, <1>1, <1>6

\* So the sum is one of these functions, of what it is of and no more.
LEMMA OwingSums ==
    ASSUME NEW S, IsFiniteSet(S), NEW rows
    PROVE  \E f : Sums(f, rows, S) /\ Owing(rows, S) = f[S]
BY SumsExist DEF Owing

LEMMA OwingAlike ==
    ASSUME NEW S, IsFiniteSet(S), NEW rows, NEW others,
           \A d \in S : Adds(rows, d) = Adds(others, d)
    PROVE  Owing(rows, S) = Owing(others, S)
<1>1. PICK f : Sums(f, rows, S) /\ Owing(rows, S) = f[S]
    BY OwingSums
<1>2. PICK g : Sums(g, others, S) /\ Owing(others, S) = g[S]
    BY OwingSums
<1>3. f[S] = g[S]
    BY <1>1, <1>2, SumsAgree
<1> QED
    BY <1>1, <1>2, <1>3

\* The sum of nothing, and of a set with its first element taken out.
LEMMA OwingFirst ==
    ASSUME NEW rows
    PROVE  /\ Owing(rows, {}) = 0
           /\ \A S : IsFiniteSet(S) /\ S # {} =>
                Owing(rows, S) = Adds(rows, First(S)) + Owing(rows, S \ {First(S)})
<1>1. Owing(rows, {}) = 0
    <2>1. PICK f : Sums(f, rows, {}) /\ Owing(rows, {}) = f[{}]
        BY OwingSums, FS_EmptySet
    <2> QED
        BY <2>1 DEF Sums
<1>2. ASSUME NEW S, IsFiniteSet(S), S # {}
      PROVE  Owing(rows, S) = Adds(rows, First(S)) + Owing(rows, S \ {First(S)})
    <2>1. PICK u : u = S \ {First(S)}
        OBVIOUS
    <2>2. u \in SUBSET S /\ u \in SUBSET u /\ IsFiniteSet(u)
        BY <1>2, <2>1, FS_Subset
    <2>3. PICK f : Sums(f, rows, S) /\ Owing(rows, S) = f[S]
        BY <1>2, OwingSums
    <2>4. PICK g : Sums(g, rows, u) /\ Owing(rows, u) = g[u]
        BY <2>2, OwingSums
    <2>5. f[S] = Adds(rows, First(S)) + f[u]
        BY <1>2, <2>1, <2>3 DEF Sums
    <2>6. f[u] = g[u]
        BY <1>2, <2>2, <2>3, <2>4, SumsAgree
    <2> QED
        BY <2>1, <2>3, <2>4, <2>5, <2>6
<1> QED
    BY <1>1, <1>2

\* What is summed is a number, and so is the sum.
Whole(rows, S) == \A d \in S : Adds(rows, d) \in Nat

LEMMA OwingNat ==
    ASSUME NEW S, IsFiniteSet(S), NEW rows, Whole(rows, S)
    PROVE  Owing(rows, S) \in Nat
<1> SUFFICES ASSUME Owing(rows, S) \notin Nat PROVE FALSE
    OBVIOUS
<1>1. PICK Bad : Bad = {s \in SUBSET S : Owing(rows, s) \notin Nat}
    OBVIOUS
<1>2. PICK s \in Bad : \A t \in Bad : t \subseteq s => t = s
    <2>1. Bad # {} /\ Bad \subseteq SUBSET S
        BY <1>1
    <2> QED
        BY <2>1, Least
<1>3. s # {}
    <2>1. Owing(rows, {}) = 0 /\ Owing(rows, s) \notin Nat
        BY <1>1, <1>2, OwingFirst
    <2> QED
        BY <2>1
<1>4. IsFiniteSet(s)
    BY <1>1, <1>2, FS_Subset
<1>5. First(s) \in s
    BY <1>3, FirstIn
<1>6. PICK t : t = s \ {First(s)}
    OBVIOUS
<1>7. Owing(rows, t) \in Nat
    BY <1>1, <1>2, <1>5, <1>6
<1>8. Owing(rows, s) = Adds(rows, First(s)) + Owing(rows, t)
    BY <1>3, <1>4, <1>6, OwingFirst
<1>9. Adds(rows, First(s)) \in Nat
    BY <1>1, <1>2, <1>5 DEF Whole
<1> QED
    BY <1>1, <1>2, <1>7, <1>8, <1>9

\* Any debt may be taken out: a sum does not depend on the order.
LEMMA OwingWithout ==
    ASSUME NEW S, IsFiniteSet(S), NEW rows, Whole(rows, S), NEW d \in S
    PROVE  Owing(rows, S) = Adds(rows, d) + Owing(rows, S \ {d})
<1> SUFFICES ASSUME Owing(rows, S) # Adds(rows, d) + Owing(rows, S \ {d}) PROVE FALSE
    OBVIOUS
<1>1. PICK Bad : Bad = {s \in SUBSET S :
                          \E e \in s : Owing(rows, s) # Adds(rows, e) + Owing(rows, s \ {e})}
    OBVIOUS
<1>2. PICK s \in Bad : \A t \in Bad : t \subseteq s => t = s
    <2>1. Bad # {} /\ Bad \subseteq SUBSET S
        BY <1>1
    <2> QED
        BY <2>1, Least
<1>3. PICK e \in s : Owing(rows, s) # Adds(rows, e) + Owing(rows, s \ {e})
    BY <1>1, <1>2
<1>4. PICK c : c = First(s)
    OBVIOUS
<1>5. c \in s /\ IsFiniteSet(s) /\ Owing(rows, s) = Adds(rows, c) + Owing(rows, s \ {c})
    <2>1. c \in s /\ IsFiniteSet(s) /\ s # {}
        BY <1>1, <1>2, <1>3, <1>4, FirstIn, FS_Subset
    <2> QED
        BY <1>4, <2>1, OwingFirst
<1>6. c # e
    BY <1>3, <1>5
<1>7. PICK t : t = s \ {c}
    OBVIOUS
<1>8. PICK u : u = s \ {e}
    OBVIOUS
<1>9. PICK w : w = s \ {c, e}
    OBVIOUS
<1>10. w = t \ {e} /\ w = u \ {c} /\ e \in t /\ c \in u
    BY <1>5, <1>6, <1>7, <1>8, <1>9
<1>11. /\ Owing(rows, t) = Adds(rows, e) + Owing(rows, w)
       /\ Owing(rows, u) = Adds(rows, c) + Owing(rows, w)
    <2>1. t \notin Bad /\ u \notin Bad /\ t \in SUBSET S /\ u \in SUBSET S
        BY <1>1, <1>2, <1>5, <1>7, <1>8
    <2> QED
        BY <1>1, <1>10, <2>1
<1>12. Owing(rows, w) \in Nat /\ Adds(rows, c) \in Nat /\ Adds(rows, e) \in Nat
    <2>1. IsFiniteSet(w) /\ Whole(rows, w)
        BY <1>1, <1>2, <1>9, FS_Subset DEF Whole
    <2>2. Adds(rows, c) \in Nat /\ Adds(rows, e) \in Nat
        BY <1>1, <1>2, <1>5 DEF Whole
    <2> QED
        BY <2>1, <2>2, OwingNat
<1> QED
    BY <1>3, <1>5, <1>7, <1>8, <1>11, <1>12

-----------------------------------------------------------------------------
(* The limits of a shop.                                                   *)

Of(s) == {d \in Debts : ShopOf[d] = s}

\* A debt never adds less than nothing.
LEMMA RowsWhole ==
    ASSUME TypeOK, NEW s
    PROVE  /\ DOMAIN Rows(s) = Of(s) /\ IsFiniteSet(Of(s)) /\ Of(s) \subseteq Debts
           /\ \A d \in Of(s) : Rows(s)[d] = debt[d]
           /\ Whole(Rows(s), Of(s))
<1>1. /\ DOMAIN Rows(s) = Of(s) /\ Of(s) \subseteq Debts
      /\ \A d \in Of(s) : Rows(s)[d] = debt[d]
    BY DEF Rows, Of
<1>2. IsFiniteSet(Of(s))
    BY <1>1, GateAssumption, FS_Subset
<1>3. ASSUME NEW d \in Of(s)
      PROVE  Adds(Rows(s), d) \in Nat
    <2>1. OriginalAmount[d] \in Nat
        BY <1>1, GateAssumption
    <2>2. debt[d] \in Row /\ debt[d].posted <= OriginalAmount[d]
        BY <1>1 DEF TypeOK
    <2>3. debt[d].posted \in Nat
        BY <2>2 DEF Row
    <2> QED
        BY <1>1, <2>1, <2>2, <2>3 DEF Adds
<1> QED
    BY <1>1, <1>2, <1>3 DEF Whole

\* With a proposal the exposure of its shop grows by the original amount, and one
\* more debt is open.
LEMMA ProposalAdds ==
    ASSUME TypeOK, TypeOK', NEW d \in Debts, NEW s, s = ShopOf[d],
           debt[d].status = "absent", debt'[d].status = "pending",
           \A e \in Debts \ {d} : debt'[e] = debt[e]
    PROVE  /\ Exposure(Rows(s))' = Exposure(Rows(s)) + OriginalAmount[d]
           /\ Exposure(Rows(s)) \in Nat
           /\ Cardinality(OpenDebts(Rows(s)))' = Cardinality(OpenDebts(Rows(s))) + 1
           /\ Cardinality(OpenDebts(Rows(s))) \in Nat
<1>1. PICK rows : rows = Rows(s)
    OBVIOUS
<1>2. PICK others : others = Rows(s)'
    OBVIOUS
<1>3. PICK S : S = Of(s)
    OBVIOUS
<1>4. /\ DOMAIN rows = S /\ IsFiniteSet(S) /\ S \subseteq Debts /\ d \in S
      /\ \A e \in S : rows[e] = debt[e]
      /\ Whole(rows, S)
    BY <1>1, <1>3, RowsWhole DEF Of
<1>5. /\ DOMAIN others = S
      /\ \A e \in S : others[e] = debt'[e]
      /\ Whole(others, S)
    <2>1. DOMAIN others = S /\ \A e \in S : others[e] = debt'[e]
        BY <1>2, <1>3 DEF Rows, Of
    <2>2. ASSUME NEW e \in S
          PROVE  Adds(others, e) \in Nat
        <3>1. OriginalAmount[e] \in Nat
            BY <1>4, GateAssumption
        <3>2. debt'[e] \in Row /\ debt'[e].posted <= OriginalAmount[e]
            BY <1>4 DEF TypeOK
        <3>3. others[e].posted \in Nat /\ others[e].posted <= OriginalAmount[e]
            BY <2>1, <3>2 DEF Row
        <3> QED
            BY <3>1, <3>3 DEF Adds
    <2> QED
        BY <2>1, <2>2 DEF Whole
<1>6. Adds(rows, d) = 0 /\ Adds(others, d) = OriginalAmount[d]
    BY <1>4, <1>5 DEF Adds
<1>7. PICK rest : rest = S \ {d}
    OBVIOUS
<1>8. IsFiniteSet(rest) /\ \A e \in rest : Adds(rows, e) = Adds(others, e)
    BY <1>4, <1>5, <1>7, FS_Subset DEF Adds
<1>9. /\ Owing(rows, S) = 0 + Owing(rows, rest)
      /\ Owing(others, S) = OriginalAmount[d] + Owing(others, rest)
    BY <1>4, <1>5, <1>6, <1>7, OwingWithout
<1>10. Owing(rows, rest) = Owing(others, rest)
    BY <1>8, OwingAlike
<1>11. Owing(rows, S) \in Nat /\ OriginalAmount[d] \in Nat
    BY <1>4, GateAssumption, OwingNat
<1>12. /\ Exposure(rows) = Owing(rows, S) /\ Exposure(others) = Owing(others, S)
    BY <1>4, <1>5, ExposureIs
<1>13. Exposure(others) = Exposure(rows) + OriginalAmount[d] /\ Exposure(rows) \in Nat
    <2>1. Owing(rows, rest) \in Nat
        BY <1>4, <1>7, <1>8, OwingNat DEF Whole
    <2> QED
        BY <1>9, <1>10, <1>11, <1>12, <2>1
<1>14. OpenDebts(others) = OpenDebts(rows) \cup {d} /\ d \notin OpenDebts(rows)
    BY <1>4, <1>5 DEF OpenDebts
<1>15. IsFiniteSet(OpenDebts(rows))
    BY <1>4, FS_Subset DEF OpenDebts
<1>16. /\ Cardinality(OpenDebts(others)) = Cardinality(OpenDebts(rows)) + 1
       /\ Cardinality(OpenDebts(rows)) \in Nat
    BY <1>14, <1>15, FS_AddElement, FS_CardinalityType
<1>17. Exposure(Rows(s))' = Exposure(others)
    BY <1>2
<1>18. OpenDebts(Rows(s))' = OpenDebts(others)
    BY <1>2 DEF OpenDebts
<1> QED
    BY <1>1, <1>13, <1>16, <1>17, <1>18

\* When a proposal becomes visible the limits of its shop hold with it included:
\* the sum over the shop's debts that create_pending_debt_proposal compared is the
\* one its commit finds, and only the proposal's own amount is added.
THEOREM LimitsAlwaysHold == Spec => LimitsHoldAtCreation
<1>1. IInv /\ IInv' /\ [Next]_vars =>
        [\A t \in Txs, d \in Debts :
            Grants(t, d) /\ debt[d].status = "absent" =>
               LET s == ShopOf[d]
               IN  /\ (Exposure(Rows(s)) <= policy[s].limit)'
                   /\ (Cardinality(OpenDebts(Rows(s))) <= policy[s].maxOpen)']_vars
    <2> SUFFICES ASSUME IInv, IInv', Next, NEW t \in Txs, NEW d \in Debts, Grants(t, d),
                        debt[d].status = "absent"
                 PROVE  /\ (Exposure(Rows(ShopOf[d])) <= policy[ShopOf[d]].limit)'
                        /\ (Cardinality(OpenDebts(Rows(ShopOf[d]))) <= policy[ShopOf[d]].maxOpen)'
        OBVIOUS
    <2>1. Commit(t) /\ request[t].debt = d /\ debt'[d].status = "pending"
        BY OnlyCommits DEF Grants
    <2>2. request[t].kind \in Kinds /\ request[t].shop = ShopOf[d]
        BY <2>1 DEF IInv, Purpose, Commit, Idle, Kinds, Grants, Closed
    <2>3. debt' = [debt EXCEPT ![d] = written[t]] /\ policy' = policy
          /\ Lawful(request[t], debt[d], written[t])
        BY <2>1, <2>2 DEF IInv, Decided, Commit, Kinds
    <2>4. debt'[d] = written[t] /\ \A e \in Debts \ {d} : debt'[e] = debt[e]
        BY <2>3 DEF IInv, TypeOK
    <2>5. request[t].kind = "create"
        BY <2>1, <2>2, <2>3, <2>4 DEF Lawful, Closed, Accepted, Kinds
    <2>6. PICK s : s = ShopOf[d]
        OBVIOUS
    <2>7. /\ Exposure(Rows(s)) + OriginalAmount[d] <= policy[s].limit
          /\ Cardinality(OpenDebts(Rows(s))) < policy[s].maxOpen
        BY <2>1, <2>2, <2>5, <2>6 DEF IInv, Decided, WithinLimits, Commit
    <2>8. /\ Exposure(Rows(s))' = Exposure(Rows(s)) + OriginalAmount[d]
          /\ Cardinality(OpenDebts(Rows(s)))' = Cardinality(OpenDebts(Rows(s))) + 1
          /\ Cardinality(OpenDebts(Rows(s))) \in Nat
        BY <2>1, <2>4, <2>6, ProposalAdds DEF IInv
    <2>9. policy[s] \in [limit : Nat, maxOpen : Nat, blacklisted : BOOLEAN]
        BY <2>6, GateAssumption DEF IInv, TypeOK
    <2> QED
        BY <2>3, <2>6, <2>7, <2>8, <2>9
<1>2. IInv /\ [Next]_vars => IInv'
    BY StepInv
<1> QED
    BY <1>1, <1>2, Invariance, PTL DEF Spec, LimitsHoldAtCreation
=============================================================================
