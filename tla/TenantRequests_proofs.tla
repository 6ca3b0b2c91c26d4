----------------------- MODULE TenantRequests_proofs -----------------------
(***************************************************************************)
(* The requests of a shop, for any number of users, shops and requests at  *)
(* a time, any limit and any window.  A shop keeps an owner because his    *)
(* going is decided under the lock of the shop.  An answer is true because *)
(* a key's row and what was committed for it always agree (KeysTrue), and  *)
(* a row never changes.  Windows are bounded because what was let through  *)
(* belongs to the current window or to one that ended before it began      *)
(* (Windows).                                                              *)
(***************************************************************************)
EXTENDS TenantRequests, FiniteSetTheorems, TLAPS

-----------------------------------------------------------------------------
(* What the tables and the requests hold.                                  *)

Steps == {"free", "look", "limit", "apply", "new", "replay", "conflict", "refused"}

Request == [step : Steps, kind : Kinds \cup {None}, user : Users \cup {None},
            shop : Shops \cup {None}, page : Shops \cup {None}, subject : Users \cup {None},
            role : Roles \cup {None}, now : Times]

\* A request that began is somebody's, in a shop.
Begun(r) ==
    r.step # "free" =>
        /\ r.kind \in Kinds /\ r.user \in Users /\ r.shop \in Shops
        /\ r.kind \in OfStaff => r.subject \in Users
        /\ r.kind \in {"add", "role"} => r.role \in Roles

Tables ==
    /\ status \in [Shops -> {"none", "active", "suspended"}]
    /\ staff \in [Shops -> [Users -> Roles \cup {"none", "revoked"}]]
    /\ linked \subseteq Shops
    /\ row \in [Users -> [Keyed -> Shops \cup {None}]]
    /\ effects \in [Users -> [Keyed -> [Shops -> Nat]]]

Limits ==
    /\ bucket \in [Buckets -> [start : Times, count : Nat]]
    /\ passed \in [Buckets -> [Times -> Nat]]

Requests ==
    /\ request \in [Slots -> Request]
    /\ \A i \in Slots : Begun(request[i])

TypeInv ==
    /\ Tables
    /\ Limits
    /\ Requests
    /\ shopOf \in [Users -> Shops \cup {None}]
    /\ clock \in Times

\* A key's row says where its effect was committed.
KeysTrue ==
    \A u \in Users, k \in Keyed, s \in Shops :
        effects[u][k][s] = IF s = row[u][k] THEN 1 ELSE 0

\* A request that was told it is done has the row.
Told ==
    \A i \in Slots :
        LET r == request[i]
        IN  r.step \in {"new", "replay"} /\ r.kind \in Keyed
              => r.page = r.shop /\ row[r.user][r.kind] = r.shop

\* What was let through belongs to the current window or to an earlier one.
Windows ==
    \A b \in Buckets :
        /\ passed[b][bucket[b].start] <= bucket[b].count
        /\ \A t \in Times : passed[b][t] > 0 =>
             bucket[b].count > 0 /\ (t = bucket[b].start \/ t + Window <= bucket[b].start)

IInv == TypeInv /\ OwnerRemains /\ KeysTrue /\ Told /\ Windows /\ WindowsBounded

\* Nothing has been done.
LEMMA InitInv == Init => IInv
<1> SUFFICES ASSUME Init PROVE IInv
  OBVIOUS
<1> USE TenantAssumption DEF Init
<1>1. 0 \in Times
  BY DEF Times
<1>2. Free \in Request /\ Begun(Free)
  BY <1>1 DEF Free, Request, Steps, Begun
<1>3. TypeInv
  BY <1>1, <1>2 DEF TypeInv, Tables, Limits, Requests
<1>4. OwnerRemains
  BY DEF OwnerRemains
<1>5. KeysTrue /\ Told
  BY DEF KeysTrue, Told, Free
<1>6. Windows /\ WindowsBounded
  BY <1>1 DEF Windows, WindowsBounded, Times
<1> QED
  BY <1>3, <1>4, <1>5, <1>6 DEF IInv

\* The shop of a session is one the user works in.
LEMMA ResolvedType ==
    ASSUME TypeInv, NEW u \in Users
    PROVE  Resolved(u) \in Shops \cup {None}
<1>1. CASE shopOf[u] # None
  BY <1>1 DEF TypeInv, Resolved
<1>2. CASE shopOf[u] = None
  <2>1. CASE \E s \in Shops : \A t \in Shops : Member(u, t) <=> t = s
    <3>1. PICK s \in Shops : Member(u, s)
      BY <2>1
    <3> QED
      BY <1>2, <2>1, <3>1 DEF Resolved
  <2>2. CASE ~ \E s \in Shops : \A t \in Shops : Member(u, t) <=> t = s
    BY <1>2, <2>2 DEF Resolved
  <2> QED
    BY <2>1, <2>2
<1> QED
  BY <1>1, <1>2

\* An answer is given.
LEMMA Answered ==
    ASSUME Requests, NEW i \in Slots, NEW answer \in Steps \ {"free"}, request[i].step # "free",
           Answer(i, answer)
    PROVE  /\ Requests'
           /\ request'[i].step = answer
           /\ request'[i].kind = request[i].kind /\ request'[i].user = request[i].user
           /\ request'[i].shop = request[i].shop /\ request'[i].page = request[i].page
           /\ \A j \in Slots \ {i} : request'[j] = request[j]
<1>1. request[i] \in Request /\ Begun(request[i])
  BY DEF Requests
<1>2. /\ request'[i] = [request[i] EXCEPT !.step = answer]
      /\ \A j \in Slots \ {i} : request'[j] = request[j]
  BY DEF Answer, Requests
<1>3. /\ request'[i] \in Request /\ Begun(request'[i])
      /\ request'[i].step = answer
      /\ request'[i].kind = request[i].kind /\ request'[i].user = request[i].user
      /\ request'[i].shop = request[i].shop /\ request'[i].page = request[i].page
  BY <1>1, <1>2 DEF Request, Begun
<1>4. request' \in [Slots -> Request]
  BY <1>1, <1>2, <1>3 DEF Answer, Requests
<1>5. \A j \in Slots : Begun(request'[j])
  BY <1>2, <1>3 DEF Requests
<1> QED
  BY <1>2, <1>3, <1>4, <1>5 DEF Requests

\* An answer that does not say it is done leaves the others true.
LEMMA ToldOthers ==
    ASSUME Requests, Told, NEW i \in Slots, NEW answer \in Steps \ {"free"}, request[i].step # "free",
           Answer(i, answer), row' = row,
           answer \in {"new", "replay"} /\ request[i].kind \in Keyed
             => request[i].page = request[i].shop /\ row[request[i].user][request[i].kind] = request[i].shop
    PROVE  Told'
BY Answered DEF Told

\* What no longer changes stays so.
LEMMA TablesKept ==
    ASSUME UNCHANGED tables
    PROVE  /\ Tables => Tables'
           /\ OwnerRemains => OwnerRemains'
           /\ KeysTrue => KeysTrue'
BY DEF tables, Tables, OwnerRemains, Owners, KeysTrue

\* The same for the windows.
LEMMA LimitsKept ==
    ASSUME UNCHANGED limits
    PROVE  /\ Limits => Limits'
           /\ Windows => Windows'
           /\ WindowsBounded => WindowsBounded'
BY DEF limits, Limits, Windows, WindowsBounded

\* A request begins.
LEMMA OpenedInv ==
    ASSUME IInv, NEW i \in Slots, NEW u \in Users, NEW kind \in Kinds, NEW page \in Shops,
           NEW subject \in Users \cup {None}, NEW role \in Roles \cup {None},
           NEW step \in {"look", "limit", "apply"},
           kind \in OfStaff => subject \in Users, kind \in {"add", "role"} => role \in Roles,
           Opened(i, u, kind, page, subject, role, step)
    PROVE  IInv'
<1> DEFINE shop == Resolved(u)
           new == [step |-> step, kind |-> kind, user |-> u, shop |-> shop,
                   page |-> page, subject |-> subject, role |-> role, now |-> clock]
<1>1. shop \in Shops \cup {None} /\ clock \in Times
  BY ResolvedType DEF IInv, TypeInv
<1>2. UNCHANGED <<tables, limits, clock>> /\ shopOf' = [shopOf EXCEPT ![u] = shop]
  BY DEF Opened
<1>3. UNCHANGED request \/ (shop # None /\ request' = [request EXCEPT ![i] = new])
  BY DEF Opened
<1>4. Requests' /\ Told'
  <2>1. CASE UNCHANGED request
    BY <1>2, <2>1 DEF IInv, TypeInv, Requests, Told, tables
  <2>2. CASE shop # None /\ request' = [request EXCEPT ![i] = new]
    <3>1. new \in Request /\ Begun(new) /\ new.step = step
      BY <1>1, <2>2 DEF Request, Begun, Steps
    <3>2. request'[i] = new /\ \A j \in Slots \ {i} : request'[j] = request[j]
      BY <2>2 DEF IInv, TypeInv, Requests
    <3>3. Requests'
      BY <2>2, <3>1, <3>2 DEF IInv, TypeInv, Requests
    <3>4. row' = row /\ request'[i].step \notin {"new", "replay"}
      BY <1>2, <3>1, <3>2 DEF tables
    <3>5. Told'
      BY <3>2, <3>4 DEF IInv, Told
    <3> QED
      BY <3>3, <3>5
  <2> QED
    BY <1>3, <2>1, <2>2
<1>5. shopOf' \in [Users -> Shops \cup {None}]
  BY <1>1, <1>2 DEF IInv, TypeInv
<1> QED
  BY <1>1, <1>2, <1>4, <1>5, TablesKept, LimitsKept DEF IInv, TypeInv

\* A request begins, of whatever kind.
LEMMA SubmitInv ==
    ASSUME IInv, NEW i \in Slots, NEW u \in Users, NEW s \in Shops,
           \/ SubmitDebt(i, u, s) \/ SubmitPayment(i, u, s) \/ SubmitDisclosure(i, u, s)
           \/ SubmitLink(i, u, s)
           \/ SubmitAdd(i, u, s) \/ SubmitRole(i, u, s) \/ SubmitRevoke(i, u, s)
    PROVE  IInv'
<1>1. CASE SubmitDebt(i, u, s)
  BY <1>1, OpenedInv DEF SubmitDebt, Form, Kinds, Keyed, OfStaff
<1>2. CASE SubmitPayment(i, u, s)
  BY <1>2, OpenedInv DEF SubmitPayment, Form, Kinds, Keyed, OfStaff
<1>3. CASE SubmitDisclosure(i, u, s)
  BY <1>3, OpenedInv DEF SubmitDisclosure, Form, Kinds, Keyed, OfStaff
<1>4. CASE SubmitLink(i, u, s)
  BY <1>4, OpenedInv DEF SubmitLink, Form, Kinds, Keyed, OfStaff
<1>5. CASE SubmitAdd(i, u, s)
  BY <1>5, OpenedInv DEF SubmitAdd, Kinds, OfStaff
<1>6. CASE SubmitRole(i, u, s)
  BY <1>6, OpenedInv DEF SubmitRole, Kinds, OfStaff
<1>7. CASE SubmitRevoke(i, u, s)
  BY <1>7, OpenedInv DEF SubmitRevoke, Kinds, OfStaff
<1> QED
  BY <1>1, <1>2, <1>3, <1>4, <1>5, <1>6, <1>7

-----------------------------------------------------------------------------
(* Attempts.                                                               *)

\* One bucket: what was let through in the windows, since when it counts, how many.
OneWindow(was, begun, count) ==
    /\ was[begun] <= count
    /\ \A t \in Times : was[t] > 0 => count > 0 /\ (t = begun \/ t + Window <= begun)
    /\ \A t \in Times :
         /\ was[t] <= Limit
         /\ \A u \in Times : was[t] > 0 /\ was[u] > 0 /\ t < u => t + Window <= u

\* Counting an attempt keeps the bucket's windows apart and within their limit.
LEMMA CountedOnce ==
    ASSUME NEW was \in [Times -> Nat], NEW begun \in Times, NEW count \in Nat,
           OneWindow(was, begun, count),
           NEW now \in Times, NEW begun1 \in Times, NEW count1 \in Nat,
           \/ (count = 0 \/ begun + Window <= now) /\ begun1 = now /\ count1 = 1
           \/ count > 0 /\ begun1 = begun /\ count1 = count + 1,
           NEW is \in [Times -> Nat],
           is = was \/ (count1 <= Limit /\ is = [was EXCEPT ![begun1] = @ + 1])
    PROVE  OneWindow(is, begun1, count1)
<1> USE TenantAssumption DEF OneWindow
<1>1. Times \subseteq Nat
  BY DEF Times
<1>2. was[begun1] < count1
  <2>1. was[begun1] \in Nat /\ was[begun] \in Nat
    OBVIOUS
  <2>2. CASE begun1 = begun /\ count1 = count + 1
    BY <2>1, <2>2
  <2>3. CASE (count = 0 \/ begun + Window <= now) /\ begun1 = now /\ count1 = 1
    <3>1. was[now] > 0 => count > 0 /\ (now = begun \/ now + Window <= begun)
      OBVIOUS
    <3>2. now \in Nat /\ begun \in Nat
      BY <1>1
    <3>3. ~(was[now] > 0)
      BY <2>3, <3>1, <3>2
    <3> QED
      BY <2>1, <2>3, <3>3
  <2> QED
    BY <2>2, <2>3
<1>3. count1 > 0
  OBVIOUS
<1>4. ASSUME NEW t \in Times, was[t] > 0 PROVE t = begun1 \/ t + Window <= begun1
  <2>1. count > 0 /\ (t = begun \/ t + Window <= begun)
    BY <1>4
  <2>2. t \in Nat /\ begun \in Nat /\ now \in Nat
    BY <1>1
  <2>3. CASE begun1 = begun
    BY <2>1, <2>3
  <2>4. CASE begun + Window <= now /\ begun1 = now
    BY <2>1, <2>2, <2>4
  <2> QED
    BY <2>1, <2>2, <2>3, <2>4
<1>5. CASE is = was
  BY <1>2, <1>3, <1>4, <1>5
<1>6. CASE count1 <= Limit /\ is = [was EXCEPT ![begun1] = @ + 1]
  <2>1. /\ is[begun1] = was[begun1] + 1
        /\ \A t \in Times : t # begun1 => is[t] = was[t]
    BY <1>6
  <2>2. was[begun1] \in Nat
    OBVIOUS
  <2>3. is[begun1] <= count1 /\ is[begun1] <= Limit
    BY <1>2, <1>6, <2>1, <2>2
  <2>4. ASSUME NEW t \in Times, is[t] > 0
        PROVE  t = begun1 \/ (was[t] > 0 /\ t + Window <= begun1)
    BY <1>4, <2>1, <2>4
  <2>5. \A t \in Times : is[t] <= Limit
    BY <2>1, <2>3
  <2>6. ASSUME NEW t \in Times, NEW u \in Times, is[t] > 0, is[u] > 0, t < u
        PROVE  t + Window <= u
    <3>1. t \in Nat /\ u \in Nat /\ begun1 \in Nat
      BY <1>1
    <3>2. CASE u = begun1
      BY <2>4, <2>6, <3>1, <3>2
    <3>3. CASE u # begun1
      <4>1. was[u] > 0 /\ u + Window <= begun1
        BY <2>4, <2>6, <3>3
      <4>2. t # begun1
        BY <2>6, <3>1, <4>1
      <4>3. was[t] > 0
        BY <2>4, <2>6, <4>2
      <4> QED
        BY <2>6, <4>1, <4>3
    <3> QED
      BY <3>2, <3>3
  <2> QED
    BY <1>3, <2>3, <2>4, <2>5, <2>6
<1> QED
  BY <1>5, <1>6

\* An attempt to link a customer.
LEMMA AttemptInv ==
    ASSUME IInv, NEW i \in Slots, Attempt(i)
    PROVE  IInv'
<1> USE TenantAssumption
<1>0. PICK r \in Request : r = request[i]
  BY DEF IInv, TypeInv, Requests
<1> DEFINE mine == {r.user, r.shop}
           ok == \A b \in mine : WithinLimit(Counted(b, r.now).count)
<1>1. /\ r.step = "limit" /\ Begun(r) /\ r.now \in Times /\ mine \subseteq Buckets
  BY <1>0 DEF Attempt, IInv, TypeInv, Requests, Request, Begun, Buckets
<1>2. /\ bucket' = [b \in Buckets |-> IF b \in mine THEN Counted(b, r.now) ELSE bucket[b]]
      /\ passed' = [b \in Buckets |-> IF b \in mine /\ ok
                                      THEN [passed[b] EXCEPT ![bucket'[b].start] = @ + 1]
                                      ELSE passed[b]]
      /\ Answer(i, IF ok THEN "apply" ELSE "refused")
      /\ UNCHANGED <<tables, shopOf, clock, acts>>
  BY <1>0 DEF Attempt
<1>3. Limits /\ Windows /\ WindowsBounded
  BY DEF IInv, TypeInv
<1>4. ASSUME NEW b \in Buckets
      PROVE  /\ bucket'[b] \in [start : Times, count : Nat] /\ passed'[b] \in [Times -> Nat]
             /\ OneWindow(passed'[b], bucket'[b].start, bucket'[b].count)
  <2>1. CASE b \notin mine
    BY <1>2, <1>3, <2>1 DEF Limits, Windows, WindowsBounded, OneWindow
  <2>2. CASE b \in mine
    <3>1. /\ bucket'[b] = Counted(b, r.now)
          /\ passed'[b] = (IF ok THEN [passed[b] EXCEPT ![bucket'[b].start] = @ + 1] ELSE passed[b])
      BY <1>2, <2>2
    <3>2. /\ bucket[b] \in [start : Times, count : Nat] /\ passed[b] \in [Times -> Nat]
          /\ OneWindow(passed[b], bucket[b].start, bucket[b].count)
      BY <1>3 DEF Limits, Windows, WindowsBounded, OneWindow
    <3>3. PICK begun \in Times, count \in Nat : begun = bucket[b].start /\ count = bucket[b].count
      BY <3>2
    <3>4. PICK begun1 \in Times, count1 \in Nat :
            /\ begun1 = bucket'[b].start /\ count1 = bucket'[b].count
            /\ bucket'[b] \in [start : Times, count : Nat]
            /\ \/ (count = 0 \/ begun + Window <= r.now) /\ begun1 = r.now /\ count1 = 1
               \/ count > 0 /\ begun1 = begun /\ count1 = count + 1
      BY <1>1, <3>1, <3>2, <3>3 DEF Counted
    <3>5. ok => count1 <= Limit
      BY <2>2, <3>1, <3>4 DEF WithinLimit
    <3>6. PICK was \in [Times -> Nat] : was = passed[b]
      BY <3>2
    <3>7. PICK is \in [Times -> Nat] :
            /\ is = passed'[b]
            /\ is = was \/ (count1 <= Limit /\ is = [was EXCEPT ![begun1] = @ + 1])
      <4>1. [was EXCEPT ![begun1] = @ + 1] \in [Times -> Nat]
        OBVIOUS
      <4> QED
        BY <3>1, <3>4, <3>5, <3>6, <4>1
    <3>8. OneWindow(was, begun, count)
      BY <3>2, <3>3, <3>6
    <3>9. OneWindow(is, begun1, count1)
      <4>1. PICK now \in Times : now = r.now
        BY <1>1
      <4>2. \/ (count = 0 \/ begun + Window <= now) /\ begun1 = now /\ count1 = 1
            \/ count > 0 /\ begun1 = begun /\ count1 = count + 1
        BY <3>4, <4>1
      <4>3. is = was \/ (count1 <= Limit /\ is = [was EXCEPT ![begun1] = @ + 1])
        BY <3>7
      <4> QED
        BY <3>8, <4>2, <4>3, CountedOnce
    <3> QED
      BY <3>4, <3>7, <3>9
  <2> QED
    BY <2>1, <2>2
<1>5. Limits'
  <2>1. bucket' \in [Buckets -> [start : Times, count : Nat]]
    BY <1>2, <1>4
  <2>2. passed' \in [Buckets -> [Times -> Nat]]
    BY <1>2, <1>4
  <2> QED
    BY <2>1, <2>2 DEF Limits
<1>6. Windows' /\ WindowsBounded'
  BY <1>4 DEF Windows, WindowsBounded, OneWindow
<1>7. PICK answer \in {"apply", "refused"} : Answer(i, answer)
  BY <1>2
<1>8. Requests' /\ Told'
  BY <1>0, <1>1, <1>2, <1>7, Answered, ToldOthers DEF IInv, TypeInv, Steps, tables
<1> QED
  BY <1>2, <1>5, <1>6, <1>8, TablesKept DEF IInv, TypeInv

-----------------------------------------------------------------------------
(* Keys.                                                                   *)

\* What a key's row answers is true.
LEMMA RepeatedTrue ==
    ASSUME IInv, NEW i \in Slots
    PROVE  /\ Repeated(request[i]) \in {"replay", "conflict"}
           /\ Repeated(request[i]) = "replay"
                => /\ request[i].page = request[i].shop
                   /\ row[request[i].user][request[i].kind] = request[i].shop
BY DEF Repeated, Same

\* A request looks for its key.
LEMMA LookInv ==
    ASSUME IInv, NEW i \in Slots, Look(i)
    PROVE  IInv'
<1>1. request[i].step = "look" /\ UNCHANGED <<tables, limits, shopOf, clock, acts>>
  BY DEF Look
<1>2. PICK answer \in {"apply", "refused", "replay", "conflict"} :
        /\ Answer(i, answer)
        /\ answer = "replay" => request[i].page = request[i].shop
                               /\ row[request[i].user][request[i].kind] = request[i].shop
  BY RepeatedTrue DEF Look
<1>3. Requests' /\ Told'
  BY <1>1, <1>2, Answered, ToldOthers DEF IInv, TypeInv, Steps, tables
<1> QED
  BY <1>1, <1>3, TablesKept, LimitsKept DEF IInv, TypeInv

\* A request of a kind that takes a key is done once, answered, or refused.
LEMMA ApplyInv ==
    ASSUME IInv, NEW i \in Slots, NEW kind \in Keyed, Apply(i, kind)
    PROVE  IInv'
<1> USE TenantAssumption
<1>0. PICK r \in Request : r = request[i]
  BY DEF IInv, TypeInv, Requests
<1>1. /\ r.step = "apply" /\ r.kind = kind /\ r.user \in Users /\ r.shop \in Shops
      /\ UNCHANGED <<status, staff, linked, limits, shopOf, clock, acts>>
  BY <1>0 DEF Apply, IInv, TypeInv, Requests, Begun
<1>2. OwnerRemains'
  BY <1>1 DEF IInv, OwnerRemains, Owners
<1>3. CASE /\ UNCHANGED <<row, effects>>
           /\ \E answer \in {"refused", "replay", "conflict"} :
                /\ Answer(i, answer)
                /\ answer = "replay" => r.page = r.shop /\ row[r.user][r.kind] = r.shop
  <2>1. Requests' /\ Told'
    BY <1>0, <1>1, <1>3, Answered, ToldOthers DEF IInv, TypeInv, Steps
  <2> QED
    BY <1>1, <1>2, <1>3, <2>1, TablesKept, LimitsKept DEF IInv, TypeInv, tables
<1>4. CASE /\ Found(r) /\ row[r.user][kind] = None
           /\ row' = [row EXCEPT ![r.user][kind] = r.shop]
           /\ effects' = [effects EXCEPT ![r.user][kind][r.shop] = @ + 1]
           /\ Answer(i, "new")
  <2>1. Tables /\ KeysTrue /\ Told /\ Requests
    BY DEF IInv, TypeInv
  <2>2. /\ row' \in [Users -> [Keyed -> Shops \cup {None}]]
        /\ row'[r.user][kind] = r.shop
        /\ \A u \in Users, k \in Keyed : u # r.user \/ k # kind => row'[u][k] = row[u][k]
    BY <1>1, <1>4, <2>1 DEF Tables
  <2>3. /\ effects' \in [Users -> [Keyed -> [Shops -> Nat]]]
        /\ effects'[r.user][kind][r.shop] = effects[r.user][kind][r.shop] + 1
        /\ \A s \in Shops \ {r.shop} : effects'[r.user][kind][s] = effects[r.user][kind][s]
        /\ \A u \in Users, k \in Keyed : u # r.user \/ k # kind => effects'[u][k] = effects[u][k]
    BY <1>1, <1>4, <2>1 DEF Tables
  <2>4. \A s \in Shops : effects[r.user][kind][s] = 0
    BY <1>1, <1>4, <2>1 DEF KeysTrue
  <2>5. KeysTrue'
    <3> SUFFICES ASSUME NEW u \in Users, NEW k \in Keyed, NEW s \in Shops
                 PROVE  effects'[u][k][s] = IF s = row'[u][k] THEN 1 ELSE 0
      BY DEF KeysTrue
    <3>1. CASE u = r.user /\ k = kind
      <4>1. row'[u][k] = r.shop
        BY <2>2, <3>1
      <4>2. effects'[u][k][r.shop] = 1
        <5>1. effects[r.user][kind][r.shop] = 0
          BY <1>1, <2>4
        <5> QED
          BY <2>3, <3>1, <5>1
      <4>3. s # r.shop => effects'[u][k][s] = 0
        BY <2>3, <2>4, <3>1
      <4> QED
        BY <4>1, <4>2, <4>3
    <3>2. CASE ~(u = r.user /\ k = kind)
      <4>1. row'[u][k] = row[u][k] /\ effects'[u][k] = effects[u][k]
        BY <2>2, <2>3, <3>2
      <4>2. effects[u][k][s] = IF s = row[u][k] THEN 1 ELSE 0
        BY <2>1 DEF KeysTrue
      <4> QED
        BY <4>1, <4>2
    <3> QED
      BY <3>1, <3>2
  <2>6. /\ Requests' /\ request'[i].step = "new"
        /\ request'[i].kind = kind /\ request'[i].user = r.user
        /\ request'[i].shop = r.shop /\ request'[i].page = r.page
        /\ \A j \in Slots \ {i} : request'[j] = request[j]
    BY <1>0, <1>1, <1>4, <2>1, Answered DEF Steps
  <2>7. Told'
    <3> SUFFICES ASSUME NEW j \in Slots, request'[j].step \in {"new", "replay"}, request'[j].kind \in Keyed
                 PROVE  /\ request'[j].page = request'[j].shop
                        /\ row'[request'[j].user][request'[j].kind] = request'[j].shop
      BY DEF Told
    <3>1. CASE j = i
      BY <1>4, <2>2, <2>6, <3>1 DEF Found
    <3>2. CASE j # i
      <4>1. /\ request[j].page = request[j].shop /\ request[j].user \in Users /\ request[j].shop \in Shops
            /\ row[request[j].user][request[j].kind] = request[j].shop
            /\ request'[j] = request[j]
        BY <2>1, <2>6, <3>2 DEF Told, Requests, Begun
      <4>2. request[j].user # r.user \/ request[j].kind # kind
        BY <1>4, <4>1
      <4> QED
        BY <2>2, <4>1, <4>2
    <3> QED
      BY <3>1, <3>2
  <2>8. Tables'
    BY <1>1, <2>1, <2>2, <2>3 DEF Tables
  <2> QED
    BY <1>1, <1>2, <2>5, <2>6, <2>7, <2>8, LimitsKept DEF IInv, TypeInv
<1>5. CASE DoOnce(i, kind)
  BY <1>0, <1>1, <1>3, <1>4, <1>5, RepeatedTrue DEF DoOnce
<1>6. CASE Answer(i, "refused") /\ UNCHANGED <<row, effects>>
  BY <1>3, <1>6
<1> QED
  BY <1>5, <1>6 DEF Apply

-----------------------------------------------------------------------------
(* Staff and shops.                                                        *)

\* A customer is linked, or the request is refused.
LEMMA LinkInv ==
    ASSUME IInv, NEW i \in Slots, LinkCustomer(i)
    PROVE  IInv'
<1>1. /\ request[i].step = "apply" /\ request[i].kind = "link" /\ request[i].shop \in Shops
      /\ UNCHANGED <<status, staff, row, effects, limits, shopOf, clock, acts>>
  BY DEF LinkCustomer, IInv, TypeInv, Requests, Begun
<1>2. linked' \subseteq Shops
  BY <1>1 DEF LinkCustomer, IInv, TypeInv, Tables
<1>3. PICK answer \in {"new", "refused"} : Answer(i, answer)
  BY DEF LinkCustomer
<1>4. Requests' /\ Told'
  BY <1>1, <1>3, Answered, ToldOthers DEF IInv, TypeInv, Steps, Keyed
<1>5. Tables' /\ OwnerRemains' /\ KeysTrue'
  BY <1>1, <1>2 DEF IInv, TypeInv, Tables, OwnerRemains, Owners, KeysTrue
<1> QED
  BY <1>1, <1>4, <1>5, LimitsKept DEF IInv, TypeInv

\* When one owner of several, or somebody else, goes, an owner stays.
LEMMA AnOwnerStays ==
    ASSUME IsFiniteSet(Users), NEW s \in Shops, NEW u \in Users, OwnerStays(s, u), Owners(s) # {}
    PROVE  \E v \in Users \ {u} : staff[s][v] = "owner"
<1>1. CASE u \notin Owners(s)
  BY <1>1 DEF Owners
<1>2. CASE Cardinality(Owners(s)) > 1
  <2>1. IsFiniteSet(Owners(s))
    BY FS_Subset DEF Owners
  <2>2. ASSUME Owners(s) \subseteq {u} PROVE FALSE
    <3>1. Cardinality(Owners(s)) <= Cardinality({u}) /\ Cardinality({u}) = 1
      BY <2>2, FS_Subset, FS_Singleton
    <3>2. Cardinality(Owners(s)) \in Nat
      BY <2>1, FS_CardinalityType
    <3> QED
      BY <1>2, <3>1, <3>2
  <2> QED
    BY <2>2 DEF Owners
<1> QED
  BY <1>1, <1>2 DEF OwnerStays

\* Somebody gets another role, or is revoked.
LEMMA SetRoleInv ==
    ASSUME IsFiniteSet(Users), Tables, OwnerRemains,
           NEW r, r.shop \in Shops, r.subject \in Users,
           NEW standing \in Roles \cup {"revoked"}, SetRole(r, standing), status' = status,
           \/ ~Member(r.subject, r.shop)
           \/ standing = "owner"
           \/ OwnerStays(r.shop, r.subject)
    PROVE  staff' \in [Shops -> [Users -> Roles \cup {"none", "revoked"}]] /\ OwnerRemains'
<1>1. /\ staff' \in [Shops -> [Users -> Roles \cup {"none", "revoked"}]]
      /\ staff'[r.shop][r.subject] = standing
      /\ \A u \in Users \ {r.subject} : staff'[r.shop][u] = staff[r.shop][u]
      /\ \A s \in Shops \ {r.shop} : staff'[s] = staff[s]
  BY DEF SetRole, Tables
<1>2. ASSUME NEW s \in Shops, status[s] # "none" PROVE \E v \in Users : staff'[s][v] = "owner"
  <2>1. \E v \in Users : staff[s][v] = "owner"
    BY <1>2 DEF OwnerRemains, Owners
  <2>2. CASE s # r.shop
    BY <1>1, <2>1, <2>2
  <2>3. CASE s = r.shop /\ standing = "owner"
    BY <1>1, <2>3
  <2>4. CASE s = r.shop /\ ~Member(r.subject, r.shop)
    BY <1>1, <2>1, <2>4 DEF Member, Roles
  <2>5. CASE s = r.shop /\ OwnerStays(r.shop, r.subject)
    <3>1. Owners(r.shop) # {}
      BY <2>1, <2>5 DEF Owners
    <3>2. PICK v \in Users \ {r.subject} : staff[r.shop][v] = "owner"
      BY <2>5, <3>1, AnOwnerStays
    <3> QED
      BY <1>1, <2>5, <3>2
  <2> QED
    BY <2>2, <2>3, <2>4, <2>5
<1>3. OwnerRemains'
  BY <1>2 DEF OwnerRemains, Owners
<1> QED
  BY <1>1, <1>3

\* What a request to manage staff does.
LEMMA ManageCases ==
    ASSUME IInv, NEW i \in Slots, ManageStaff(i)
    PROVE  /\ request[i].step = "apply" /\ request[i].kind \in OfStaff
           /\ request[i].shop \in Shops /\ request[i].subject \in Users
           /\ UNCHANGED <<status, linked, row, effects, limits, shopOf, clock, acts>>
           /\ \E answer \in {"new", "refused"} : Answer(i, answer)
           /\ \/ UNCHANGED staff
              \/ /\ Mutable(request[i])
                 /\ \E standing \in Roles \cup {"revoked"} :
                      /\ SetRole(request[i], standing)
                      /\ \/ ~Member(request[i].subject, request[i].shop)
                         \/ standing = "owner"
                         \/ OwnerStays(request[i].shop, request[i].subject)
<1>1. /\ request[i].step = "apply" /\ request[i].kind \in OfStaff
      /\ UNCHANGED <<status, linked, row, effects, limits, shopOf, clock, acts>>
      /\ \E answer \in {"new", "refused"} : Answer(i, answer)
  BY DEF ManageStaff
<1>2. /\ request[i].shop \in Shops /\ request[i].subject \in Users
      /\ request[i].kind \in {"add", "role"} => request[i].role \in Roles
  BY <1>1 DEF IInv, TypeInv, Requests, Begun
<1>3. CASE request[i].kind = "add" /\ AddStaff(request[i])
  BY <1>1, <1>2, <1>3 DEF AddStaff
<1>4. CASE request[i].kind = "role" /\ ChangeRole(request[i])
  BY <1>1, <1>2, <1>4 DEF ChangeRole
<1>5. CASE request[i].kind = "revoke" /\ Revoke(request[i])
  BY <1>1, <1>2, <1>5 DEF Revoke
<1>6. CASE UNCHANGED staff
  BY <1>1, <1>2, <1>6
<1> QED
  BY <1>3, <1>4, <1>5, <1>6 DEF ManageStaff

\* Staff are managed.
LEMMA ManageInv ==
    ASSUME IsFiniteSet(Users), IInv, NEW i \in Slots, ManageStaff(i)
    PROVE  IInv'
<1>1. /\ request[i].step = "apply" /\ request[i].kind \in OfStaff
      /\ request[i].shop \in Shops /\ request[i].subject \in Users
      /\ UNCHANGED <<status, linked, row, effects, limits, shopOf, clock, acts>>
      /\ \E answer \in {"new", "refused"} : Answer(i, answer)
  BY ManageCases
<1>2. staff' \in [Shops -> [Users -> Roles \cup {"none", "revoked"}]] /\ OwnerRemains'
  <2>1. CASE UNCHANGED staff
    BY <1>1, <2>1 DEF IInv, TypeInv, Tables, OwnerRemains, Owners
  <2>2. CASE ~UNCHANGED staff
    <3>1. PICK standing \in Roles \cup {"revoked"} :
            /\ SetRole(request[i], standing)
            /\ \/ ~Member(request[i].subject, request[i].shop)
               \/ standing = "owner"
               \/ OwnerStays(request[i].shop, request[i].subject)
      BY <2>2, ManageCases
    <3> QED
      BY <1>1, <3>1, SetRoleInv DEF IInv, TypeInv
  <2> QED
    BY <2>1, <2>2
<1>3. Tables' /\ KeysTrue'
  BY <1>1, <1>2 DEF IInv, TypeInv, Tables, KeysTrue
<1>4. Requests' /\ Told'
  <2>1. PICK answer \in {"new", "refused"} : Answer(i, answer)
    BY <1>1
  <2> QED
    BY <1>1, <2>1, Answered, ToldOthers DEF IInv, TypeInv, Steps, Keyed, OfStaff
<1> QED
  BY <1>1, <1>2, <1>3, <1>4, LimitsKept DEF IInv, TypeInv

\* Operators, choices of a shop, and time.
LEMMA OtherInv ==
    ASSUME IInv,
           \/ \E u \in Users, s \in Shops : SelectShop(u, s) \/ Provision(s, u)
           \/ \E s \in Shops : SwitchShop(s)
           \/ Tick
           \/ UNCHANGED vars
    PROVE  IInv'
<1> USE DEF IInv, TypeInv
<1>1. ASSUME NEW u \in Users, NEW s \in Shops, SelectShop(u, s) PROVE IInv'
  <2>1. UNCHANGED <<tables, limits, request, clock>> /\ shopOf' \in [Users -> Shops \cup {None}]
    BY <1>1 DEF SelectShop
  <2>2. Requests' /\ Told'
    BY <2>1 DEF Requests, Told, tables
  <2> QED
    BY <2>1, <2>2, TablesKept, LimitsKept
<1>2. ASSUME NEW u \in Users, NEW s \in Shops, Provision(s, u) PROVE IInv'
  <2>1. UNCHANGED <<linked, row, effects, limits, shopOf, request, clock, acts>>
    BY <1>2 DEF Provision
  <2>2. Tables' /\ OwnerRemains'
    BY <1>2 DEF Provision, Tables, OwnerRemains, Owners, Roles
  <2>3. Requests' /\ Told' /\ KeysTrue'
    BY <2>1 DEF Requests, Told, KeysTrue
  <2> QED
    BY <2>1, <2>2, <2>3, LimitsKept
<1>3. ASSUME NEW s \in Shops, SwitchShop(s) PROVE IInv'
  <2>1. UNCHANGED <<staff, linked, row, effects, limits, shopOf, request, clock>>
    BY <1>3 DEF SwitchShop
  <2>2. Tables' /\ OwnerRemains'
    BY <1>3 DEF SwitchShop, Tables, OwnerRemains, Owners
  <2>3. Requests' /\ Told' /\ KeysTrue'
    BY <2>1 DEF Requests, Told, KeysTrue
  <2> QED
    BY <2>1, <2>2, <2>3, LimitsKept
<1>4. CASE Tick
  <2>1. UNCHANGED <<tables, limits, shopOf, request, acts>> /\ clock' \in Times
    BY <1>4, TenantAssumption DEF Tick, Times
  <2>2. Requests' /\ Told'
    BY <2>1 DEF Requests, Told, tables
  <2> QED
    BY <2>1, <2>2, TablesKept, LimitsKept
<1>5. CASE UNCHANGED vars
  <2>1. UNCHANGED <<tables, limits, shopOf, request, clock>>
    BY <1>5 DEF vars
  <2>2. Requests' /\ Told'
    BY <2>1 DEF Requests, Told, tables
  <2> QED
    BY <2>1, <2>2, TablesKept, LimitsKept
<1> QED
  BY <1>1, <1>2, <1>3, <1>4, <1>5

\* Every step keeps the invariant.
LEMMA NextInv ==
    ASSUME IsFiniteSet(Users), IInv, [Next]_vars
    PROVE  IInv'
<1>1. ASSUME NEW i \in Slots, CreateDebt(i) \/ RecordPayment(i) \/ Disclose(i) PROVE IInv'
  BY <1>1, ApplyInv DEF CreateDebt, RecordPayment, Disclose, Keyed
<1> QED
  BY <1>1, SubmitInv, AttemptInv, LookInv, LinkInv, ManageInv, OtherInv DEF Next

-----------------------------------------------------------------------------
(* The theorems.                                                           *)

\* Whatever owners do to each other at the same time, a shop keeps one.
THEOREM AlwaysOwned == IsFiniteSet(Users) => (Spec => []OwnerRemains)
<1> SUFFICES ASSUME IsFiniteSet(Users) PROVE Spec => []OwnerRemains
  OBVIOUS
<1>1. IInv /\ [Next]_vars => IInv'
  BY NextInv
<1>2. IInv => OwnerRemains
  BY DEF IInv
<1> QED
  BY <1>1, <1>2, InitInv, PTL DEF Spec

\* A request that was told it is done is done once, in the shop of its page.
THEOREM AlwaysTrue == IsFiniteSet(Users) => (Spec => []AnswersTrue)
<1> SUFFICES ASSUME IsFiniteSet(Users) PROVE Spec => []AnswersTrue
  OBVIOUS
<1>1. IInv /\ [Next]_vars => IInv'
  BY NextInv
<1>2. IInv => AnswersTrue
  <2> SUFFICES ASSUME IInv, NEW i \in Slots, request[i].step \in {"new", "replay"},
                      request[i].kind \in Keyed
               PROVE  /\ request[i].page = request[i].shop
                      /\ \A s \in Shops :
                           effects[request[i].user][request[i].kind][s] = IF s = request[i].shop THEN 1 ELSE 0
    BY DEF AnswersTrue
  <2>1. /\ request[i].page = request[i].shop
        /\ row[request[i].user][request[i].kind] = request[i].shop
        /\ request[i].user \in Users
    BY DEF IInv, Told, TypeInv, Requests, Begun
  <2> QED
    BY <2>1 DEF IInv, KeysTrue
<1> QED
  BY <1>1, <1>2, InitInv, PTL DEF Spec

\* However late attempts are counted, a window lets no more through than its
\* limit, and no two windows overlap.
THEOREM AlwaysBounded == IsFiniteSet(Users) => (Spec => []WindowsBounded)
<1> SUFFICES ASSUME IsFiniteSet(Users) PROVE Spec => []WindowsBounded
  OBVIOUS
<1>1. IInv /\ [Next]_vars => IInv'
  BY NextInv
<1>2. IInv => WindowsBounded
  BY DEF IInv
<1> QED
  BY <1>1, <1>2, InitInv, PTL DEF Spec

-----------------------------------------------------------------------------
(* What is done is done at one moment (ShopBook).                          *)

\* What has a key and was not done yet is done, for somebody who works there.
LEMMA DoneInBook ==
    ASSUME IInv, NEW i \in Slots, NEW kind \in Keyed, Apply(i, kind)
    PROVE  [Book!Next]_(Book!vars)
<1>1. PICK u \in Users, s \in Shops : u = request[i].user /\ s = request[i].shop
  BY DEF Apply, IInv, TypeInv, Requests, Begun
<1>2. UNCHANGED <<status, staff, linked>>
  BY DEF Apply
<1>3. CASE UNCHANGED effects
  BY <1>2, <1>3 DEF Book!vars
<1>4. CASE /\ Live(request[i]) /\ Found(request[i]) /\ row[u][kind] = None
           /\ effects' = [effects EXCEPT ![u][kind][s] = @ + 1]
  <2>1. Book!Works(u, s) /\ s \in linked
    BY <1>1, <1>4 DEF Live, Found, Member, Book!Works
  <2>2. \A t \in Shops : effects[u][kind][t] = 0
    BY <1>4, TenantAssumption DEF IInv, KeysTrue
  <2>3. effects[u][kind][s] + 1 = 1
    BY <2>2
  <2>4. effects' = [effects EXCEPT ![u][kind][s] = 1]
    BY <1>4, <2>3
  <2> QED
    BY <1>2, <2>1, <2>2, <2>4 DEF Book!Do, Book!Next
<1> QED
  BY <1>1, <1>3, <1>4 DEF Apply, DoOnce

\* Linking a customer, and managing staff.
LEMMA RestInBook ==
    ASSUME IInv, NEW i \in Slots, LinkCustomer(i) \/ ManageStaff(i)
    PROVE  [Book!Next]_(Book!vars)
<1>1. request[i].user \in Users /\ request[i].shop \in Shops
  BY DEF LinkCustomer, ManageStaff, IInv, TypeInv, Requests, Begun
<1>2. CASE LinkCustomer(i)
  <2>1. UNCHANGED <<status, staff, effects>>
    BY <1>2 DEF LinkCustomer
  <2>2. CASE UNCHANGED linked
    BY <2>1, <2>2 DEF Book!vars
  <2>3. CASE Live(request[i]) /\ linked' = linked \cup {request[i].shop}
    BY <1>1, <2>1, <2>3 DEF Live, Member, Book!Works, Book!Link, Book!Next
  <2> QED
    BY <1>2, <2>2, <2>3 DEF LinkCustomer
<1>3. CASE ManageStaff(i)
  <2>1. UNCHANGED <<status, linked, effects>> /\ request[i].subject \in Users
    BY <1>3, ManageCases
  <2>2. CASE UNCHANGED staff
    BY <2>1, <2>2 DEF Book!vars
  <2>3. CASE ~UNCHANGED staff
    <3>1. PICK standing \in Roles \cup {"revoked"} : SetRole(request[i], standing)
      BY <1>3, <2>3, ManageCases
    <3>2. Mutable(request[i])
      BY <1>3, <2>3, ManageCases
    <3>3. Book!ChangeStaff(request[i].shop)
      BY <1>1, <2>1, <3>1, <3>2 DEF Mutable, Owners, SetRole, Roles, Book!Works, Book!ChangeStaff
    <3> QED
      BY <1>1, <3>3 DEF Book!Next
  <2> QED
    BY <2>2, <2>3
<1> QED
  BY <1>2, <1>3

\* Every step is one of the book's, or leaves the book alone.
LEMMA NextInBook ==
    ASSUME IInv, [Next]_vars
    PROVE  [Book!Next]_(Book!vars)
<1>1. ASSUME UNCHANGED tables PROVE [Book!Next]_(Book!vars)
  BY <1>1 DEF tables, Book!vars
<1>2. ASSUME NEW i \in Slots, NEW u \in Users, NEW s \in Shops,
             \/ SubmitDebt(i, u, s) \/ SubmitPayment(i, u, s) \/ SubmitDisclosure(i, u, s)
             \/ SubmitLink(i, u, s)
             \/ SubmitAdd(i, u, s) \/ SubmitRole(i, u, s) \/ SubmitRevoke(i, u, s)
      PROVE  UNCHANGED tables
  BY <1>2 DEF SubmitDebt, SubmitPayment, SubmitDisclosure, SubmitLink, SubmitAdd, SubmitRole,
              SubmitRevoke, Form, Opened
<1>3. ASSUME NEW i \in Slots, Attempt(i) \/ Look(i) PROVE UNCHANGED tables
  BY <1>3 DEF Attempt, Look
<1>4. ASSUME NEW i \in Slots, CreateDebt(i) \/ RecordPayment(i) \/ Disclose(i)
      PROVE  [Book!Next]_(Book!vars)
  BY <1>4, DoneInBook DEF CreateDebt, RecordPayment, Disclose, Keyed
<1>5. ASSUME NEW u \in Users, NEW s \in Shops, Provision(s, u) PROVE [Book!Next]_(Book!vars)
  BY <1>5 DEF Provision, Book!Provide, Book!Next
<1>6. ASSUME NEW s \in Shops, SwitchShop(s) PROVE [Book!Next]_(Book!vars)
  BY <1>6 DEF SwitchShop, Book!Turn, Book!Next
<1>7. ASSUME NEW u \in Users, NEW s \in Shops, SelectShop(u, s) PROVE UNCHANGED tables
  BY <1>7 DEF SelectShop
<1>8. CASE Tick \/ UNCHANGED vars
  BY <1>1, <1>8 DEF Tick, vars
<1> QED
  BY <1>1, <1>2, <1>3, <1>4, <1>5, <1>6, <1>7, <1>8, RestInBook DEF Next

\* However long ago a request found out who is asking, what it does it does at
\* one moment, in a shop that is active then, for somebody who works there then,
\* and once for a key.
THEOREM AlwaysAtOnce == IsFiniteSet(Users) => (Spec => ActsAtOnce)
<1> SUFFICES ASSUME IsFiniteSet(Users) PROVE Spec => ActsAtOnce
  OBVIOUS
<1>1. IInv /\ [Next]_vars => IInv' /\ [Book!Next]_(Book!vars)
  BY NextInv, NextInBook
<1>2. Init => Book!Init
  BY DEF Init, Book!Init
<1> QED
  BY <1>1, <1>2, InitInv, PTL DEF Spec, ActsAtOnce, Book!Spec
=============================================================================
