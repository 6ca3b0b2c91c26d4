--------------------------- MODULE TenantRequests ---------------------------
(***************************************************************************)
(* Requests in a shop.  A request is several transactions: one finds out   *)
(* who is asking and for which shop his session is (TX-A); attempts to     *)
(* link a customer are counted in a second one; some look for their key    *)
(* before they lock anything; and the last locks the shop, the membership  *)
(* and the user, looks at everything again and does it.  In between others *)
(* are revoked, demoted, suspended, or send the same form from a second    *)
(* tab.                                                                    *)
(*                                                                         *)
(* A shop has one customer relation, known by the shop, and a user has one *)
(* session and, for every kind of request that takes one, one key: what    *)
(* has different keys does not meet.  What goes on under the locks is one  *)
(* step: whoever does it holds the shop and the user.  A request that      *)
(* stops is one that takes no further step.                                *)
(*                                                                         *)
(* Left out: what else refuses a debt, a payment or a disclosure (an       *)
(* answer "refused" at any time), the limits per telephone number and      *)
(* address, policies and defaults, and reading.                            *)
(***************************************************************************)
EXTENDS Integers, FiniteSets

CONSTANTS
    Users,
    Shops,
    None,
    Slots,       \* bound: requests at one time
    Limit,       \* attempts to link a customer that a window allows
    Window,      \* how long a window is
    MaxTime,     \* bound: how often time advances
    MaxActs      \* bound: requests, choices of a shop and acts of operators

ASSUME TenantAssumption ==
    /\ None \notin Shops
    /\ Limit \in Nat \ {0} /\ Window \in Nat \ {0} /\ MaxTime \in Nat /\ MaxActs \in Nat

Roles == {"owner", "manager", "cashier"}
Keyed == {"debt", "payment", "disclosure"}
OfStaff == {"add", "role", "revoke"}
Kinds == Keyed \cup OfStaff \cup {"link"}
Times == 0..MaxTime
Buckets == Users \cup Shops

VARIABLES
    status,      \* [Shops -> status, "none" before there is a shop]
    staff,       \* [Shops -> [Users -> role, or "none" or "revoked"]]
    linked,      \* the shops with the customer among theirs
    shopOf,      \* [Users -> active_shop_id of the session]
    row,         \* [Users -> [Keyed -> the shop in the row of idempotency_keys]]
    effects,     \* [Users -> [Keyed -> [Shops -> what was committed]]]
    bucket,      \* [Buckets -> window_started_at, attempt_count]
    passed,      \* [Buckets -> [Times -> attempts let through in the window that began then]]
    request,
    clock,
    acts

tables == <<status, staff, linked, row, effects>>
limits == <<bucket, passed>>
vars == <<tables, limits, shopOf, request, clock, acts>>

Free == [step |-> "free", kind |-> None, user |-> None, shop |-> None, page |-> None,
         subject |-> None, role |-> None, now |-> 0]

Init ==
    /\ status = [s \in Shops |-> "none"]
    /\ staff = [s \in Shops |-> [u \in Users |-> "none"]]
    /\ linked = {}
    /\ shopOf = [u \in Users |-> None]
    /\ row = [u \in Users |-> [k \in Keyed |-> None]]
    /\ effects = [u \in Users |-> [k \in Keyed |-> [s \in Shops |-> 0]]]
    /\ bucket = [b \in Buckets |-> [start |-> 0, count |-> 0]]
    /\ passed = [b \in Buckets |-> [t \in Times |-> 0]]
    /\ request = [i \in Slots |-> Free]
    /\ clock = 0
    /\ acts = 0

Act == acts < MaxActs /\ acts' = acts + 1

-----------------------------------------------------------------------------
(* Who is asking.                                                          *)

Member(u, s) == staff[s][u] \in Roles

\* resolve_current_shop: the shop of the session, or the only one there is.
Resolved(u) ==
    IF shopOf[u] # None
    THEN IF Member(u, shopOf[u]) THEN shopOf[u] ELSE None
    ELSE IF \E s \in Shops : \A t \in Shops : Member(u, t) <=> t = s
         THEN CHOOSE s \in Shops : Member(u, s)
         ELSE None

\* A request begins: the form was on a page of shop page, which need not be the
\* shop of the session any more, and step is what comes after TX-A.
Opened(i, u, kind, page, subject, role, step) ==
    LET shop == Resolved(u)
    IN  /\ Act
        /\ request[i].step \in {"free", "new", "replay", "conflict", "refused"}
        /\ status[page] # "none"
        /\ shopOf' = [shopOf EXCEPT ![u] = shop]
        /\ IF shop = None \/ (kind \in OfStaff /\ staff[shop][u] # "owner")
           THEN UNCHANGED request
           ELSE request' = [request EXCEPT ![i] =
                  [step |-> step, kind |-> kind, user |-> u, shop |-> shop,
                   page |-> page, subject |-> subject, role |-> role, now |-> clock]]
        /\ UNCHANGED <<tables, limits, clock>>

\* get_detached_current_shop_debt_actor_authority and its like.
Form(i, u, kind, page, step) == Opened(i, u, kind, page, None, None, step)

\* create_shop_customer_debt, create_shop_debt_payment,
\* create_risk_band_disclosure, link_shop_customer
SubmitDebt(i, u, page) == Form(i, u, "debt", page, "look")
SubmitPayment(i, u, page) == Form(i, u, "payment", page, "look")
SubmitDisclosure(i, u, page) == Form(i, u, "disclosure", page, "apply")
SubmitLink(i, u, page) == Form(i, u, "link", page, "limit")

\* submit_add_staff, submit_change_staff_role, submit_revoke_staff: they look for
\* an owner (_require_owner_context) and act in one transaction, which may wait
\* for its locks in between.
SubmitAdd(i, u, page) ==
    \E v \in Users, role \in Roles : Opened(i, u, "add", page, v, role, "apply")
SubmitRole(i, u, page) ==
    \E v \in Users, role \in Roles : Opened(i, u, "role", page, v, role, "apply")
SubmitRevoke(i, u, page) ==
    \E v \in Users : Opened(i, u, "revoke", page, v, None, "apply")

\* submit_select_shop
SelectShop(u, s) ==
    /\ Act
    /\ Member(u, s)
    /\ shopOf[u] # s
    /\ shopOf' = [shopOf EXCEPT ![u] = s]
    /\ UNCHANGED <<tables, limits, request, clock>>

Answer(i, answer) == request' = [request EXCEPT ![i].step = answer]

-----------------------------------------------------------------------------
(* Attempts are counted.                                                   *)

\* Mutant: the threshold is one too high.
WithinLimitPlusOne(count) == count <= Limit + 1

\* _existing_limiter_threshold, _result_from_attempts
WithinLimit(count) == count < Limit + 1

\* record_failure: one statement that begins a window or counts in it.  The time
\* is the request's, and another one may have begun a later window by now.
Counted(b, now) ==
    IF bucket[b].count = 0 \/ bucket[b].start + Window <= now
    THEN [start |-> now, count |-> 1]
    ELSE [bucket[b] EXCEPT !.count = @ + 1]

\* record_shop_customer_link_attempt
Attempt(i) ==
    LET r == request[i]
        mine == {r.user, r.shop}
        ok == \A b \in mine : WithinLimit(Counted(b, r.now).count)
    IN  /\ r.step = "limit"
        /\ bucket' = [b \in Buckets |-> IF b \in mine THEN Counted(b, r.now) ELSE bucket[b]]
        /\ passed' = [b \in Buckets |-> IF b \in mine /\ ok
                                        THEN [passed[b] EXCEPT ![bucket'[b].start] = @ + 1]
                                        ELSE passed[b]]
        /\ Answer(i, IF ok THEN "apply" ELSE "refused")
        /\ UNCHANGED <<tables, shopOf, clock, acts>>

-----------------------------------------------------------------------------
(* Keys.                                                                   *)

\* Mutant: the key is enough.
SameKey(r) == TRUE

\* The request_hash of the row is the request's.
Same(r) == row[r.user][r.kind] = r.shop /\ r.page = r.shop

\* Mutant: what was seen in TX-A still holds.
WasLive(r) == TRUE

\* lock_shop_for_update, lock_actor_shop_staff_for_update: an active shop and a
\* membership, with any role.
Live(r) == status[r.shop] = "active" /\ Member(r.user, r.shop)

\* _resolve_completed_key, _resolve_completed_payment,
\* _resolve_completed_disclosure
Repeated(r) == IF Same(r) THEN "replay" ELSE "conflict"

\* find_completed_key before anything is locked: a debt is answered to anyone who
\* has the key, a payment to staff only.
Look(i) ==
    LET r == request[i]
    IN  /\ r.step = "look"
        /\ Answer(i, IF row[r.user][r.kind] = None THEN "apply"
                     ELSE IF r.kind = "payment" /\ ~Live(r) THEN "refused"
                     ELSE Repeated(r))
        /\ UNCHANGED <<tables, limits, shopOf, clock, acts>>

\* discover_tenant_debt_target and its like look in the shop of the session only.
Found(r) == r.page = r.shop /\ r.shop \in linked

\* insert_or_resolve_key, which finds what the look missed, and the row it is for.
DoOnce(i, kind) ==
    LET r == request[i]
    IN  /\ Live(r) /\ Found(r)
        /\ IF row[r.user][kind] = None
           THEN /\ row' = [row EXCEPT ![r.user][kind] = r.shop]
                /\ effects' = [effects EXCEPT ![r.user][kind][r.shop] = @ + 1]
                /\ Answer(i, "new")
           ELSE Answer(i, Repeated(r)) /\ UNCHANGED <<row, effects>>

\* From the locks on: everything is looked at again.
Apply(i, kind) ==
    /\ request[i].step = "apply" /\ request[i].kind = kind
    /\ \/ DoOnce(i, kind)
       \/ Answer(i, "refused") /\ UNCHANGED <<row, effects>>
    /\ UNCHANGED <<status, staff, linked, limits, shopOf, clock, acts>>

\* create_pending_debt_proposal, record_debt_payment, record_risk_band_disclosure
CreateDebt(i) == Apply(i, "debt")
RecordPayment(i) == Apply(i, "payment")
Disclose(i) == Apply(i, "disclosure")

\* link_active_customer
LinkCustomer(i) ==
    LET r == request[i]
    IN  /\ r.step = "apply" /\ r.kind = "link"
        /\ \/ Live(r) /\ linked' = linked \cup {r.shop} /\ Answer(i, "new")
           \/ Answer(i, "refused") /\ UNCHANGED linked
        /\ UNCHANGED <<status, staff, row, effects, limits, shopOf, clock, acts>>

-----------------------------------------------------------------------------
(* Staff and shops.                                                        *)

Owners(s) == {u \in Users : staff[s][u] = "owner"}

\* Mutant: whoever else works there counts.
SomebodyStays(s, u) == \E v \in Users : v # u /\ Member(v, s)

\* count_active_owners: u is not the last one.
OwnerStays(s, u) == u \notin Owners(s) \/ Cardinality(Owners(s)) > 1

Mutable(r) == status[r.shop] = "active" /\ r.user \in Owners(r.shop)

\* _lock_active_staff_by_id_for_update: of the shop of the session.
Targets(r) == r.page = r.shop /\ Member(r.subject, r.shop)

SetRole(r, standing) == staff' = [staff EXCEPT ![r.shop][r.subject] = standing]

\* add_staff
AddStaff(r) == Mutable(r) /\ ~Member(r.subject, r.shop) /\ SetRole(r, r.role)

\* change_staff_role
ChangeRole(r) ==
    /\ Mutable(r) /\ Targets(r)
    /\ r.role = "owner" \/ OwnerStays(r.shop, r.subject)
    /\ SetRole(r, r.role)

\* revoke_staff
Revoke(r) ==
    /\ Mutable(r) /\ Targets(r)
    /\ OwnerStays(r.shop, r.subject)
    /\ SetRole(r, "revoked")

ManageStaff(i) ==
    LET r == request[i]
    IN  /\ r.step = "apply" /\ r.kind \in OfStaff
        /\ \/ /\ \/ r.kind = "add" /\ AddStaff(r)
                 \/ r.kind = "role" /\ ChangeRole(r)
                 \/ r.kind = "revoke" /\ Revoke(r)
              /\ Answer(i, "new")
           \/ Answer(i, "refused") /\ UNCHANGED staff
        /\ UNCHANGED <<status, linked, row, effects, limits, shopOf, clock, acts>>

\* provision_active_shop
Provision(s, u) ==
    /\ status[s] = "none"
    /\ status' = [status EXCEPT ![s] = "active"]
    /\ staff' = [staff EXCEPT ![s][u] = "owner"]
    /\ UNCHANGED <<linked, row, effects, limits, shopOf, request, clock, acts>>

\* suspend_shop, reactivate_shop
SwitchShop(s) ==
    /\ Act
    /\ status[s] # "none"
    /\ status' = [status EXCEPT ![s] = IF @ = "active" THEN "suspended" ELSE "active"]
    /\ UNCHANGED <<staff, linked, row, effects, limits, shopOf, request, clock>>

Tick ==
    /\ clock < MaxTime
    /\ clock' = clock + 1
    /\ UNCHANGED <<tables, limits, shopOf, request, acts>>

-----------------------------------------------------------------------------
Next ==
    \/ \E i \in Slots, u \in Users, s \in Shops :
         \/ SubmitDebt(i, u, s) \/ SubmitPayment(i, u, s) \/ SubmitDisclosure(i, u, s)
         \/ SubmitLink(i, u, s)
         \/ SubmitAdd(i, u, s) \/ SubmitRole(i, u, s) \/ SubmitRevoke(i, u, s)
    \/ \E i \in Slots :
         \/ Attempt(i) \/ Look(i)
         \/ CreateDebt(i) \/ RecordPayment(i) \/ Disclose(i)
         \/ LinkCustomer(i) \/ ManageStaff(i)
    \/ \E u \in Users, s \in Shops : SelectShop(u, s) \/ Provision(s, u)
    \/ \E s \in Shops : SwitchShop(s)
    \/ Tick

Spec == Init /\ [][Next]_vars

-----------------------------------------------------------------------------
(* Properties.                                                             *)

\* Whatever owners do to each other and to themselves, also from requests that
\* began before, a shop keeps an owner.
OwnerRemains == \A s \in Shops : status[s] # "none" => Owners(s) # {}

\* A request that was told it is done, now or before, is: once, in the shop it
\* was for, which is the shop whose page it came from.
AnswersTrue ==
    \A i \in Slots :
        LET r == request[i]
        IN  r.step \in {"new", "replay"} /\ r.kind \in Keyed
              => /\ r.page = r.shop
                 /\ \A s \in Shops :
                      effects[r.user][r.kind][s] = IF s = r.shop THEN 1 ELSE 0

\* A window lets no more attempts through than its limit, however late they are
\* counted, and no two windows overlap.
WindowsBounded ==
    \A b \in Buckets, t \in Times :
        /\ passed[b][t] <= Limit
        /\ \A u \in Times : passed[b][t] > 0 /\ passed[b][u] > 0 /\ t < u => t + Window <= u

\* However long ago a request found out who is asking, what it does it does at
\* one moment, for somebody who works in the shop then.
Book == INSTANCE ShopBook
ActsAtOnce == Book!Spec
=============================================================================
