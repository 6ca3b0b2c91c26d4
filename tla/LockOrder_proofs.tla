-------------------------- MODULE LockOrder_proofs --------------------------
(***************************************************************************)
(* For any number of sessions, shops and users: no transaction changes     *)
(* what another one has read or changed and not yet committed, and those   *)
(* whose programs keep to the order never wait for one another in a ring.  *)
(*                                                                         *)
(* The first holds because every program locks one and the same row before *)
(* it touches a datum: FOR UPDATE to change it, at least FOR SHARE to read *)
(* it.  It asks nothing of the order.                                      *)
(*                                                                         *)
(* The order is strict for the rows that stand alone.  Rows of a shop may  *)
(* be locked in any order, because nobody reaches them without the row of  *)
(* the shop; and a row may be locked again, more strongly, if it was       *)
(* locked FOR UPDATE before, or under the token of its user.               *)
(***************************************************************************)
EXTENDS LockOrder, FiniteSetTheorems, TLAPS

\* The row that guards a datum: the customer, the Telegram link, the versions of
\* the offer.
Guard(x) ==
    CASE x.class \in {19, 20} -> Customer(x.user)
      [] x.class = 21 -> TelegramLink(x.user)
      [] x.class = 22 -> Row(9, 0, x.user)

\* A step that keeps off whoever would disturb another one.
Guards(lock, step) ==
    /\ lock.row = Guard(step.row)
    /\ lock.mode = "update" \/ (lock.mode = "share" /\ step.mode = "read")

Covered(p) ==
    \A j \in 1..Len(p) :
        p[j].mode \in Accesses => \E i \in 1..(j-1) : Guards(p[i], p[j])

Guarded == {p \in Seq(Steps) : Covered(p)}

Below(r, q) == r.class < q.class \/ (r.class = q.class /\ r.user < q.user)

\* The j-th lock of p is the i-th once more.
Again(p, i, j) ==
    /\ p[i].row = p[j].row
    /\ \/ p[i].mode = "update"
       \/ \E k \in 1..(i-1) : p[k] = Lock(TelegramLinkToken(p[i].row.user))

\* The classes whose rows nobody locks without the row of their shop:
\* ShopStaff, ShopCustomer, Debt and Payment.
BelongsToShop == {2, 14, 16, 17}
Alone(step) == step.row.class \in 1..18 \ BelongsToShop

Ascends(p) ==
    \A i, j \in 1..Len(p) :
        i < j /\ Alone(p[i]) /\ Alone(p[j]) => Below(p[i].row, p[j].row) \/ Again(p, i, j)

UnderShop(p) ==
    \A j \in 1..Len(p) :
        p[j].row.class \in BelongsToShop
          => \E i \in 1..(j-1) : p[i] = Lock(Shop(p[j].row.shop))

Orderly == {p \in Guarded : Ascends(p) /\ UnderShop(p)}

-----------------------------------------------------------------------------
(* Every program that claims to keep to the order does: its steps are      *)
(* locks of rows, rows that stand alone ascend, rows of a shop come after  *)
(* it.  Only the definitions of the program and of its rows are needed.    *)

USE LockAssumption
USE DEF Shops, Users, Steps, Rows, Data, Modes, Accesses, Row, Lock, Claim, Share, Refer,
        Reads, Changes, Standing, Profile, Link, Current, Lesser, Greater,
        Shop, ShopStaff, TelegramLinkToken, OtpDispatch, OtpChallenge, User, TelegramLink,
        Customer, RegistrationOffer, DebtOffer, OfferAcceptance, CustomerIdentity, ObjectFile,
        CustomerDocument, ShopCustomer, IdempotencyKey, Debt, Payment, AuthSession,
        AnonymousSession

\* A new debt keeps to the order.
LEMMA CreateDebtOrderly ==
    ASSUME NEW s \in Shops, NEW a \in Users, NEW b \in Users
    PROVE  CreateDebt(s, a, b) \in Orderly
<1>1. CreateDebt(s, a, b) \in Seq(Steps)
  BY DEF CreateDebt
<1>2. Ascends(CreateDebt(s, a, b))
  BY SMTT(60) DEF CreateDebt, Ascends, Below, Again, Alone, BelongsToShop
<1>3. UnderShop(CreateDebt(s, a, b))
  BY SMTT(60) DEF CreateDebt, UnderShop, BelongsToShop
<1>4. Covered(CreateDebt(s, a, b))
  BY SMTT(60) DEF CreateDebt, Covered, Guards, Guard
<1> QED BY <1>1, <1>2, <1>3, <1>4 DEF Orderly, Guarded

\* The link of a customer to a shop keeps to the order.
LEMMA LinkCustomerOrderly ==
    ASSUME NEW s \in Shops, NEW a \in Users, NEW b \in Users
    PROVE  LinkCustomer(s, a, b) \in Orderly
<1>1. LinkCustomer(s, a, b) \in Seq(Steps)
  BY DEF LinkCustomer
<1>2. Ascends(LinkCustomer(s, a, b))
  BY SMTT(60) DEF LinkCustomer, Ascends, Below, Again, Alone, BelongsToShop
<1>3. UnderShop(LinkCustomer(s, a, b))
  BY SMTT(60) DEF LinkCustomer, UnderShop, BelongsToShop
<1>4. Covered(LinkCustomer(s, a, b))
  BY SMTT(60) DEF LinkCustomer, Covered, Guards, Guard
<1> QED BY <1>1, <1>2, <1>3, <1>4 DEF Orderly, Guarded

\* A payment keeps to the order.
LEMMA RecordPaymentOrderly ==
    ASSUME NEW s \in Shops, NEW a \in Users, NEW b \in Users
    PROVE  RecordPayment(s, a, b) \in Orderly
<1>1. RecordPayment(s, a, b) \in Seq(Steps)
  BY DEF RecordPayment
<1>2. Ascends(RecordPayment(s, a, b))
  BY SMTT(60) DEF RecordPayment, Ascends, Below, Again, Alone, BelongsToShop
<1>3. UnderShop(RecordPayment(s, a, b))
  BY SMTT(60) DEF RecordPayment, UnderShop, BelongsToShop
<1>4. Covered(RecordPayment(s, a, b))
  BY SMTT(60) DEF RecordPayment, Covered, Guards, Guard
<1> QED BY <1>1, <1>2, <1>3, <1>4 DEF Orderly, Guarded

\* The voiding of a payment keeps to the order.
LEMMA VoidPaymentOrderly ==
    ASSUME NEW s \in Shops, NEW a \in Users, NEW b \in Users
    PROVE  VoidPayment(s, a, b) \in Orderly
<1>1. VoidPayment(s, a, b) \in Seq(Steps)
  BY DEF VoidPayment
<1>2. Ascends(VoidPayment(s, a, b))
  BY SMTT(60) DEF VoidPayment, Ascends, Below, Again, Alone, BelongsToShop
<1>3. UnderShop(VoidPayment(s, a, b))
  BY SMTT(60) DEF VoidPayment, UnderShop, BelongsToShop
<1>4. Covered(VoidPayment(s, a, b))
  BY SMTT(60) DEF VoidPayment, Covered, Guards, Guard
<1> QED BY <1>1, <1>2, <1>3, <1>4 DEF Orderly, Guarded

\* A write-off keeps to the order.
LEMMA WriteOffOrderly ==
    ASSUME NEW s \in Shops, NEW a \in Users, NEW b \in Users
    PROVE  WriteOff(s, a, b) \in Orderly
<1>1. WriteOff(s, a, b) \in Seq(Steps)
  BY DEF WriteOff
<1>2. Ascends(WriteOff(s, a, b))
  BY SMTT(60) DEF WriteOff, Ascends, Below, Again, Alone, BelongsToShop
<1>3. UnderShop(WriteOff(s, a, b))
  BY SMTT(60) DEF WriteOff, UnderShop, BelongsToShop
<1>4. Covered(WriteOff(s, a, b))
  BY SMTT(60) DEF WriteOff, Covered, Guards, Guard
<1> QED BY <1>1, <1>2, <1>3, <1>4 DEF Orderly, Guarded

\* The cancellation of a proposal keeps to the order.
LEMMA CancelProposalOrderly ==
    ASSUME NEW s \in Shops, NEW a \in Users, NEW b \in Users
    PROVE  CancelProposal(s, a, b) \in Orderly
<1>1. CancelProposal(s, a, b) \in Seq(Steps)
  BY DEF CancelProposal
<1>2. Ascends(CancelProposal(s, a, b))
  BY SMTT(60) DEF CancelProposal, Ascends, Below, Again, Alone, BelongsToShop
<1>3. UnderShop(CancelProposal(s, a, b))
  BY SMTT(60) DEF CancelProposal, UnderShop, BelongsToShop
<1>4. Covered(CancelProposal(s, a, b))
  BY SMTT(60) DEF CancelProposal, Covered, Guards, Guard
<1> QED BY <1>1, <1>2, <1>3, <1>4 DEF Orderly, Guarded

\* A disclosed rating keeps to the order.
LEMMA DiscloseOrderly ==
    ASSUME NEW s \in Shops, NEW a \in Users, NEW b \in Users
    PROVE  Disclose(s, a, b) \in Orderly
<1>1. Disclose(s, a, b) \in Seq(Steps)
  BY DEF Disclose
<1>2. Ascends(Disclose(s, a, b))
  BY SMTT(60) DEF Disclose, Ascends, Below, Again, Alone, BelongsToShop
<1>3. UnderShop(Disclose(s, a, b))
  BY SMTT(60) DEF Disclose, UnderShop, BelongsToShop
<1>4. Covered(Disclose(s, a, b))
  BY SMTT(60) DEF Disclose, Covered, Guards, Guard
<1> QED BY <1>1, <1>2, <1>3, <1>4 DEF Orderly, Guarded

\* A change of a customer's policy keeps to the order.
LEMMA ChangePolicyOrderly ==
    ASSUME NEW s \in Shops, NEW a \in Users, NEW b \in Users
    PROVE  ChangePolicy(s, a, b) \in Orderly
<1>1. ChangePolicy(s, a, b) \in Seq(Steps)
  BY DEF ChangePolicy
<1>2. Ascends(ChangePolicy(s, a, b))
  BY SMTT(60) DEF ChangePolicy, Ascends, Below, Again, Alone, BelongsToShop
<1>3. UnderShop(ChangePolicy(s, a, b))
  BY SMTT(60) DEF ChangePolicy, UnderShop, BelongsToShop
<1>4. Covered(ChangePolicy(s, a, b))
  BY SMTT(60) DEF ChangePolicy, Covered, Guards, Guard
<1> QED BY <1>1, <1>2, <1>3, <1>4 DEF Orderly, Guarded

\* A change of the shop's defaults keeps to the order.
LEMMA ChangeDefaultsOrderly ==
    ASSUME NEW s \in Shops, NEW a \in Users
    PROVE  ChangeDefaults(s, a) \in Orderly
<1>1. ChangeDefaults(s, a) \in Seq(Steps)
  BY DEF ChangeDefaults
<1>2. Ascends(ChangeDefaults(s, a))
  BY SMTT(60) DEF ChangeDefaults, Ascends, Below, Again, Alone, BelongsToShop
<1>3. UnderShop(ChangeDefaults(s, a))
  BY SMTT(60) DEF ChangeDefaults, UnderShop, BelongsToShop
<1>4. Covered(ChangeDefaults(s, a))
  BY SMTT(60) DEF ChangeDefaults, Covered, Guards, Guard
<1> QED BY <1>1, <1>2, <1>3, <1>4 DEF Orderly, Guarded

\* The suspension of a shop keeps to the order.
LEMMA SuspendShopOrderly ==
    ASSUME NEW s \in Shops, NEW a \in Users
    PROVE  SuspendShop(s, a) \in Orderly
<1>1. SuspendShop(s, a) \in Seq(Steps)
  BY DEF SuspendShop
<1>2. Ascends(SuspendShop(s, a))
  BY SMTT(60) DEF SuspendShop, Ascends, Below, Again, Alone, BelongsToShop
<1>3. UnderShop(SuspendShop(s, a))
  BY SMTT(60) DEF SuspendShop, UnderShop, BelongsToShop
<1>4. Covered(SuspendShop(s, a))
  BY SMTT(60) DEF SuspendShop, Covered, Guards, Guard
<1> QED BY <1>1, <1>2, <1>3, <1>4 DEF Orderly, Guarded

\* The acceptance of a proposal keeps to the order.
LEMMA AcceptProposalOrderly ==
    ASSUME NEW s \in Shops, NEW b \in Users
    PROVE  AcceptProposal(s, b) \in Orderly
<1>1. AcceptProposal(s, b) \in Seq(Steps)
  BY DEF AcceptProposal
<1>2. Ascends(AcceptProposal(s, b))
  BY SMTT(60) DEF AcceptProposal, Ascends, Below, Again, Alone, BelongsToShop
<1>3. UnderShop(AcceptProposal(s, b))
  BY SMTT(60) DEF AcceptProposal, UnderShop, BelongsToShop
<1>4. Covered(AcceptProposal(s, b))
  BY SMTT(60) DEF AcceptProposal, Covered, Guards, Guard
<1> QED BY <1>1, <1>2, <1>3, <1>4 DEF Orderly, Guarded

\* The rejection of a proposal keeps to the order.
LEMMA RejectProposalOrderly ==
    ASSUME NEW s \in Shops, NEW b \in Users
    PROVE  RejectProposal(s, b) \in Orderly
<1>1. RejectProposal(s, b) \in Seq(Steps)
  BY DEF RejectProposal
<1>2. Ascends(RejectProposal(s, b))
  BY SMTT(60) DEF RejectProposal, Ascends, Below, Again, Alone, BelongsToShop
<1>3. UnderShop(RejectProposal(s, b))
  BY SMTT(60) DEF RejectProposal, UnderShop, BelongsToShop
<1>4. Covered(RejectProposal(s, b))
  BY SMTT(60) DEF RejectProposal, Covered, Guards, Guard
<1> QED BY <1>1, <1>2, <1>3, <1>4 DEF Orderly, Guarded

\* The expiry of a proposal keeps to the order.
LEMMA ExpireProposalOrderly ==
    ASSUME NEW s \in Shops, NEW b \in Users
    PROVE  ExpireProposal(s, b) \in Orderly
<1>1. ExpireProposal(s, b) \in Seq(Steps)
  BY DEF ExpireProposal
<1>2. Ascends(ExpireProposal(s, b))
  BY SMTT(60) DEF ExpireProposal, Ascends, Below, Again, Alone, BelongsToShop
<1>3. UnderShop(ExpireProposal(s, b))
  BY SMTT(60) DEF ExpireProposal, UnderShop, BelongsToShop
<1>4. Covered(ExpireProposal(s, b))
  BY SMTT(60) DEF ExpireProposal, Covered, Guards, Guard
<1> QED BY <1>1, <1>2, <1>3, <1>4 DEF Orderly, Guarded

\* The overdue batch keeps to the order.
LEMMA MarkOverdueOrderly ==
    ASSUME NEW s \in Shops, NEW b \in Users
    PROVE  MarkOverdue(s, b) \in Orderly
<1>1. MarkOverdue(s, b) \in Seq(Steps)
  BY DEF MarkOverdue
<1>2. Ascends(MarkOverdue(s, b))
  BY SMTT(60) DEF MarkOverdue, Ascends, Below, Again, Alone, BelongsToShop
<1>3. UnderShop(MarkOverdue(s, b))
  BY SMTT(60) DEF MarkOverdue, UnderShop, BelongsToShop
<1>4. Covered(MarkOverdue(s, b))
  BY SMTT(60) DEF MarkOverdue, Covered, Guards, Guard
<1> QED BY <1>1, <1>2, <1>3, <1>4 DEF Orderly, Guarded

\* A new login code keeps to the order.
LEMMA IssueLoginOrderly ==
    ASSUME NEW u \in Users
    PROVE  IssueLogin(u) \in Orderly
<1>1. IssueLogin(u) \in Seq(Steps)
  BY DEF IssueLogin
<1>2. Ascends(IssueLogin(u))
  BY SMTT(60) DEF IssueLogin, Ascends, Below, Again, Alone, BelongsToShop
<1>3. UnderShop(IssueLogin(u))
  BY SMTT(60) DEF IssueLogin, UnderShop, BelongsToShop
<1>4. Covered(IssueLogin(u))
  BY SMTT(60) DEF IssueLogin, Covered, Guards, Guard
<1> QED BY <1>1, <1>2, <1>3, <1>4 DEF Orderly, Guarded

\* A verified login code keeps to the order.
LEMMA VerifyLoginOrderly ==
    ASSUME NEW u \in Users
    PROVE  VerifyLogin(u) \in Orderly
<1>1. VerifyLogin(u) \in Seq(Steps)
  BY DEF VerifyLogin
<1>2. Ascends(VerifyLogin(u))
  BY SMTT(60) DEF VerifyLogin, Ascends, Below, Again, Alone, BelongsToShop
<1>3. UnderShop(VerifyLogin(u))
  BY SMTT(60) DEF VerifyLogin, UnderShop, BelongsToShop
<1>4. Covered(VerifyLogin(u))
  BY SMTT(60) DEF VerifyLogin, Covered, Guards, Guard
<1> QED BY <1>1, <1>2, <1>3, <1>4 DEF Orderly, Guarded

\* The preparation of a dispatch keeps to the order.
LEMMA PrepareDispatchOrderly ==
    ASSUME NEW u \in Users
    PROVE  PrepareDispatch(u) \in Orderly
<1>1. PrepareDispatch(u) \in Seq(Steps)
  BY DEF PrepareDispatch
<1>2. Ascends(PrepareDispatch(u))
  BY SMTT(60) DEF PrepareDispatch, Ascends, Below, Again, Alone, BelongsToShop
<1>3. UnderShop(PrepareDispatch(u))
  BY SMTT(60) DEF PrepareDispatch, UnderShop, BelongsToShop
<1>4. Covered(PrepareDispatch(u))
  BY SMTT(60) DEF PrepareDispatch, Covered, Guards, Guard
<1> QED BY <1>1, <1>2, <1>3, <1>4 DEF Orderly, Guarded

\* The report of a delivery keeps to the order.
LEMMA ReportDeliveryOrderly ==
    ASSUME NEW u \in Users
    PROVE  ReportDelivery(u) \in Orderly
<1>1. ReportDelivery(u) \in Seq(Steps)
  BY DEF ReportDelivery
<1>2. Ascends(ReportDelivery(u))
  BY SMTT(60) DEF ReportDelivery, Ascends, Below, Again, Alone, BelongsToShop
<1>3. UnderShop(ReportDelivery(u))
  BY SMTT(60) DEF ReportDelivery, UnderShop, BelongsToShop
<1>4. Covered(ReportDelivery(u))
  BY SMTT(60) DEF ReportDelivery, Covered, Guards, Guard
<1> QED BY <1>1, <1>2, <1>3, <1>4 DEF Orderly, Guarded

\* The recovery of one dispatch keeps to the order.
LEMMA RecoverOneOrderly ==
    ASSUME NEW u \in Users
    PROVE  RecoverOne(u) \in Orderly
<1>1. RecoverOne(u) \in Seq(Steps)
  BY DEF RecoverOne
<1>2. Ascends(RecoverOne(u))
  BY SMTT(60) DEF RecoverOne, Ascends, Below, Again, Alone, BelongsToShop
<1>3. UnderShop(RecoverOne(u))
  BY SMTT(60) DEF RecoverOne, UnderShop, BelongsToShop
<1>4. Covered(RecoverOne(u))
  BY SMTT(60) DEF RecoverOne, Covered, Guards, Guard
<1> QED BY <1>1, <1>2, <1>3, <1>4 DEF Orderly, Guarded

\* A new link token keeps to the order.
LEMMA IssueTokenOrderly ==
    ASSUME NEW u \in Users
    PROVE  IssueToken(u) \in Orderly
<1>1. IssueToken(u) \in Seq(Steps)
  BY DEF IssueToken
<1>2. Ascends(IssueToken(u))
  BY SMTT(60) DEF IssueToken, Ascends, Below, Again, Alone, BelongsToShop
<1>3. UnderShop(IssueToken(u))
  BY SMTT(60) DEF IssueToken, UnderShop, BelongsToShop
<1>4. Covered(IssueToken(u))
  BY SMTT(60) DEF IssueToken, Covered, Guards, Guard
<1> QED BY <1>1, <1>2, <1>3, <1>4 DEF Orderly, Guarded

\* The start of a chat keeps to the order.
LEMMA BindStartOrderly ==
    ASSUME NEW u \in Users, NEW v \in Users
    PROVE  BindStart(u, v) \in Orderly
<1>1. BindStart(u, v) \in Seq(Steps)
  BY DEF BindStart
<1>2. Ascends(BindStart(u, v))
  BY SMTT(60) DEF BindStart, Ascends, Below, Again, Alone, BelongsToShop
<1>3. UnderShop(BindStart(u, v))
  BY SMTT(60) DEF BindStart, UnderShop, BelongsToShop
<1>4. Covered(BindStart(u, v))
  BY SMTT(60) DEF BindStart, Covered, Guards, Guard
<1> QED BY <1>1, <1>2, <1>3, <1>4 DEF Orderly, Guarded

\* The use of a link token keeps to the order.
LEMMA ConsumeTokenOrderly ==
    ASSUME NEW u \in Users, NEW v \in Users
    PROVE  ConsumeToken(u, v) \in Orderly
<1>1. ConsumeToken(u, v) \in Seq(Steps)
  BY DEF ConsumeToken
<1>2. Ascends(ConsumeToken(u, v))
  BY SMTT(60) DEF ConsumeToken, Ascends, Below, Again, Alone, BelongsToShop
<1>3. UnderShop(ConsumeToken(u, v))
  BY SMTT(60) DEF ConsumeToken, UnderShop, BelongsToShop
<1>4. Covered(ConsumeToken(u, v))
  BY SMTT(60) DEF ConsumeToken, Covered, Guards, Guard
<1> QED BY <1>1, <1>2, <1>3, <1>4 DEF Orderly, Guarded

\* The end of a Telegram link keeps to the order.
LEMMA UnlinkOrderly ==
    ASSUME NEW u \in Users
    PROVE  Unlink(u) \in Orderly
<1>1. Unlink(u) \in Seq(Steps)
  BY DEF Unlink
<1>2. Ascends(Unlink(u))
  BY SMTT(60) DEF Unlink, Ascends, Below, Again, Alone, BelongsToShop
<1>3. UnderShop(Unlink(u))
  BY SMTT(60) DEF Unlink, UnderShop, BelongsToShop
<1>4. Covered(Unlink(u))
  BY SMTT(60) DEF Unlink, Covered, Guards, Guard
<1> QED BY <1>1, <1>2, <1>3, <1>4 DEF Orderly, Guarded

\* The acceptance of an offer keeps to the order.
LEMMA AcceptOfferOrderly ==
    ASSUME NEW u \in Users
    PROVE  AcceptOffer(u) \in Orderly
<1>1. AcceptOffer(u) \in Seq(Steps)
  BY DEF AcceptOffer
<1>2. Ascends(AcceptOffer(u))
  BY SMTT(60) DEF AcceptOffer, Ascends, Below, Again, Alone, BelongsToShop
<1>3. UnderShop(AcceptOffer(u))
  BY SMTT(60) DEF AcceptOffer, UnderShop, BelongsToShop
<1>4. Covered(AcceptOffer(u))
  BY SMTT(60) DEF AcceptOffer, Covered, Guards, Guard
<1> QED BY <1>1, <1>2, <1>3, <1>4 DEF Orderly, Guarded

\* A new version of an offer keeps to the order.
LEMMA PublishOfferOrderly ==
    ASSUME NEW u \in Users, NEW o \in {RegistrationOffer, DebtOffer}
    PROVE  PublishOffer(u, o) \in Orderly
<1>1. PublishOffer(u, o) \in Seq(Steps)
  BY DEF PublishOffer
<1>2. Ascends(PublishOffer(u, o))
  BY SMTT(60) DEF PublishOffer, Ascends, Below, Again, Alone, BelongsToShop
<1>3. UnderShop(PublishOffer(u, o))
  BY SMTT(60) DEF PublishOffer, UnderShop, BelongsToShop
<1>4. Covered(PublishOffer(u, o))
  BY SMTT(60) DEF PublishOffer, Covered, Guards, Guard
<1> QED BY <1>1, <1>2, <1>3, <1>4 DEF Orderly, Guarded

\* A new registration code keeps to the order.
LEMMA IssueRegistrationOrderly ==
    ASSUME NEW u \in Users
    PROVE  IssueRegistration(u) \in Orderly
<1>1. IssueRegistration(u) \in Seq(Steps)
  BY DEF IssueRegistration
<1>2. Ascends(IssueRegistration(u))
  BY SMTT(60) DEF IssueRegistration, Ascends, Below, Again, Alone, BelongsToShop
<1>3. UnderShop(IssueRegistration(u))
  BY SMTT(60) DEF IssueRegistration, UnderShop, BelongsToShop
<1>4. Covered(IssueRegistration(u))
  BY SMTT(60) DEF IssueRegistration, Covered, Guards, Guard
<1> QED BY <1>1, <1>2, <1>3, <1>4 DEF Orderly, Guarded

\* A verified registration code keeps to the order.
LEMMA VerifyRegistrationOrderly ==
    ASSUME NEW u \in Users
    PROVE  VerifyRegistration(u) \in Orderly
<1>1. VerifyRegistration(u) \in Seq(Steps)
  BY DEF VerifyRegistration
<1>2. Ascends(VerifyRegistration(u))
  BY SMTT(120) DEF VerifyRegistration, Ascends, Below, Again, Alone, BelongsToShop
<1>3. UnderShop(VerifyRegistration(u))
  BY SMTT(120) DEF VerifyRegistration, UnderShop, BelongsToShop
<1>4. Covered(VerifyRegistration(u))
  BY SMTT(120) DEF VerifyRegistration, Covered, Guards, Guard
<1> QED BY <1>1, <1>2, <1>3, <1>4 DEF Orderly, Guarded

HIDE DEF Shops, Users, Steps, Rows, Data, Modes, Accesses, Row, Lock, Claim, Share, Refer,
         Reads, Changes, Standing, Profile, Link, Current, Lesser, Greater,
         Shop, ShopStaff, TelegramLinkToken, OtpDispatch, OtpChallenge, User, TelegramLink,
         Customer, RegistrationOffer, DebtOffer, OfferAcceptance, CustomerIdentity, ObjectFile,
         CustomerDocument, ShopCustomer, IdempotencyKey, Debt, Payment, AuthSession,
         AnonymousSession

\* All of them together.
LEMMA ProgramsOrderly == OrderedPrograms \subseteq Orderly
<1>1. ShopPrograms \subseteq Orderly
  BY CreateDebtOrderly, LinkCustomerOrderly, RecordPaymentOrderly, VoidPaymentOrderly,
     WriteOffOrderly, CancelProposalOrderly, DiscloseOrderly, ChangePolicyOrderly,
     ChangeDefaultsOrderly, SuspendShopOrderly, AcceptProposalOrderly,
     RejectProposalOrderly, ExpireProposalOrderly, MarkOverdueOrderly
     DEF ShopPrograms
<1>2. PersonPrograms \subseteq Orderly
  BY IssueLoginOrderly, VerifyLoginOrderly, PrepareDispatchOrderly, ReportDeliveryOrderly,
     RecoverOneOrderly, IssueTokenOrderly, BindStartOrderly, ConsumeTokenOrderly,
     UnlinkOrderly, AcceptOfferOrderly, PublishOfferOrderly,
     IssueRegistrationOrderly, VerifyRegistrationOrderly
     DEF PersonPrograms
<1> QED BY <1>1, <1>2 DEF OrderedPrograms

-----------------------------------------------------------------------------
(* The invariant of all programs: what runs is guarded, and no two         *)
(* transactions hold locks of one row that exclude each other.             *)

Exclusive ==
    \A t, o \in Txs : t # o =>
        \A i \in 1..at[t], j \in 1..at[o] :
            program[t][i].row = program[o][j].row
              => ~Conflict(program[t][i].mode, program[o][j].mode)

IInv ==
    /\ TypeOK
    /\ \A t \in Txs : program[t] \in Guarded
    /\ Exclusive

\* A program with a step before it that touches no datum.
LEMMA RenewingGuarded ==
    ASSUME NEW u \in Users, NEW p \in Guarded
    PROVE  Renewing(u, p) \in Guarded
<1> DEFINE q == << Touch(AuthSession(u)) >> \o p
<1>1. Touch(AuthSession(u)) \in Steps
  BY LockAssumption DEF Users, Touch, AuthSession, Row, Rows, Modes, Steps
<1>2. p \in Seq(Steps) /\ Len(p) \in Nat
  BY DEF Guarded
<1>3. /\ q \in Seq(Steps) /\ Len(q) = Len(p) + 1
      /\ q[1] = Touch(AuthSession(u))
      /\ \A j \in 2..Len(q) : q[j] = p[j - 1]
  BY <1>1, <1>2
<1> HIDE DEF q
<1>4. ASSUME NEW j \in 1..Len(q), q[j].mode \in Accesses
      PROVE  \E i \in 1..(j - 1) : Guards(q[i], q[j])
  <2>1. j # 1
    BY <1>3, <1>4 DEF Touch, Accesses
  <2>2. j - 1 \in 1..Len(p) /\ q[j] = p[j - 1]
    BY <1>2, <1>3, <2>1
  <2>3. PICK i \in 1..(j - 2) : Guards(p[i], q[j])
    <3>1. \E i \in 1..((j - 1) - 1) : Guards(p[i], p[j - 1])
      BY <1>4, <2>2 DEF Guarded, Covered
    <3> QED BY <1>2, <2>2, <3>1
  <2>4. i + 1 \in 1..(j - 1) /\ i + 1 \in 2..Len(q)
    BY <1>2, <1>3, <2>2
  <2>5. q[i + 1] = p[(i + 1) - 1] /\ (i + 1) - 1 = i
    BY <1>3, <2>4
  <2> QED BY <2>3, <2>4, <2>5
<1> QED
  BY <1>3, <1>4 DEF q, Renewing, Guarded, Covered

\* A program with a step after it that touches no datum.
LEMMA FollowedGuarded ==
    ASSUME NEW p \in Guarded, NEW step \in Steps, step.mode \notin Accesses
    PROVE  Append(p, step) \in Guarded
<1> DEFINE q == Append(p, step)
<1>1. p \in Seq(Steps) /\ Len(p) \in Nat
  BY DEF Guarded
<1>2. /\ q \in Seq(Steps) /\ Len(q) = Len(p) + 1 /\ q[Len(q)] = step
      /\ \A j \in 1..Len(p) : q[j] = p[j]
  BY <1>1
<1> HIDE DEF q
<1>3. ASSUME NEW j \in 1..Len(q), q[j].mode \in Accesses
      PROVE  \E i \in 1..(j - 1) : Guards(q[i], q[j])
  <2>1. j \in 1..Len(p)
    BY <1>1, <1>2, <1>3
  <2>2. PICK i \in 1..(j - 1) : Guards(p[i], p[j])
    BY <1>2, <1>3, <2>1 DEF Guarded, Covered
  <2>3. i \in 1..Len(p)
    BY <1>1, <2>1
  <2> QED BY <1>2, <2>1, <2>2, <2>3
<1> QED
  BY <1>2, <1>3 DEF q, Guarded, Covered

\* The programs that leave the order, all the same, are guarded.
LEMMA UnorderedGuarded == UnorderedPrograms \subseteq Guarded
<1> USE LockAssumption
<1>1. ASSUME NEW u \in Users
      PROVE  SaveIdentity(u) \in Guarded /\ AttachDocument(u) \in Guarded
  <2> USE DEF Users, Steps, Rows, Data, Modes, Accesses, Row, Lock, Refer, Reads, Changes, Profile,
              User, Customer, CustomerIdentity, ObjectFile, CustomerDocument
  <2>1. SaveIdentity(u) \in Seq(Steps) /\ AttachDocument(u) \in Seq(Steps)
    BY DEF SaveIdentity, AttachDocument
  <2>2. Covered(SaveIdentity(u)) /\ Covered(AttachDocument(u))
    BY SMTT(60) DEF SaveIdentity, AttachDocument, Covered, Guards, Guard
  <2> QED BY <2>1, <2>2 DEF Guarded
<1>2. ASSUME NEW u \in Users, NEW v \in Users
      PROVE  IssueLoginOver(u, v) \in Guarded /\ RecoverTwo(u, v) \in Guarded
  <2> USE DEF Users, Steps, Rows, Data, Modes, Accesses, Row, Lock, Claim, Refer, Reads, Link,
              User, OtpDispatch, OtpChallenge, TelegramLink, Lesser, Greater
  <2>1. IssueLoginOver(u, v) \in Seq(Steps) /\ RecoverTwo(u, v) \in Seq(Steps)
    BY DEF IssueLoginOver, RecoverTwo
  <2>2. Covered(IssueLoginOver(u, v)) /\ Covered(RecoverTwo(u, v))
    BY SMTT(60) DEF IssueLoginOver, RecoverTwo, Covered, Guards, Guard
  <2> QED BY <2>1, <2>2 DEF Guarded
<1>3. ASSUME NEW s \in Shops, NEW a \in Users, NEW b \in Users
      PROVE  ChangeStaff(s, a, b) \in Guarded
  <2> USE DEF Users, Shops, Steps, Rows, Modes, Accesses, Row, Lock, Refer, Shop, ShopStaff, User
  <2>1. ChangeStaff(s, a, b) \in Seq(Steps)
    BY DEF ChangeStaff
  <2>2. Covered(ChangeStaff(s, a, b))
    BY SMTT(60) DEF ChangeStaff, Covered
  <2> QED BY <2>1, <2>2 DEF Guarded
<1>4. ASSUME NEW u \in Users, NEW s \in Shops
      PROVE  VerifyRegistrationInShop(u, s) \in Guarded
  <2>1. Refer(Shop(s)) \in Steps /\ Refer(Shop(s)).mode \notin Accesses
    BY DEF Shops, Steps, Rows, Modes, Accesses, Row, Refer, Shop
  <2>2. VerifyRegistration(u) \in Guarded
    BY VerifyRegistrationOrderly DEF Orderly
  <2> QED BY <2>1, <2>2, FollowedGuarded DEF VerifyRegistrationInShop
<1>5. ASSUME NEW u \in Users
      PROVE  PublishOffer(u, RegistrationOffer) \in Guarded /\ AcceptOffer(u) \in Guarded
  BY PublishOfferOrderly, AcceptOfferOrderly DEF Orderly
<1>6. ASSUME NEW u \in Users
      PROVE  /\ Renewing(u, SaveIdentity(u)) \in Guarded
             /\ Renewing(u, PublishOffer(u, RegistrationOffer)) \in Guarded
             /\ Renewing(u, AcceptOffer(u)) \in Guarded
  BY <1>1, <1>5, RenewingGuarded
<1>7. ASSUME NEW s \in Shops, NEW a \in Users, NEW b \in Users
      PROVE  Renewing(a, ChangeStaff(s, a, b)) \in Guarded
  BY <1>3, RenewingGuarded
<1>8. ProfilePrograms \subseteq Guarded
  BY <1>1, <1>6 DEF ProfilePrograms
<1>9. OfferPrograms \subseteq Guarded
  BY <1>6 DEF OfferPrograms
<1>10. CodePrograms \subseteq Guarded
  BY <1>2 DEF CodePrograms
<1>11. SessionPrograms \subseteq Guarded
  BY <1>4 DEF SessionPrograms
<1>12. StaffPrograms \subseteq Guarded
  BY <1>3, <1>7 DEF StaffPrograms
<1> QED
  BY <1>8, <1>9, <1>10, <1>11, <1>12 DEF UnorderedPrograms

\* Every program is guarded.
LEMMA ProgramsGuarded == OrderedPrograms \union UnorderedPrograms \subseteq Guarded
BY ProgramsOrderly, UnorderedGuarded DEF Orderly

\* A transaction is outside of every program at first.
LEMMA InitInvariant == Init => IInv
<1>1. << >> \in Seq(Steps) /\ Len(<< >>) = 0
  OBVIOUS
<1>2. << >> \in Guarded
  BY <1>1 DEF Guarded, Covered
<1> QED
  BY <1>1, <1>2 DEF Init, IInv, TypeOK, Exclusive

\* A transaction begins with no lock.
LEMMA BeginInvariant ==
    ASSUME IInv, NEW t \in Txs, NEW p \in Guarded, Begin(t, p)
    PROVE  IInv'
<1> USE DEF IInv, TypeOK, Begin
<1>1. at[t] = 0 /\ t \notin waiting
  <2>1. Len(program[t]) = 0
    OBVIOUS
  <2> QED BY <2>1
<1>2. p \in Seq(Steps) /\ Len(p) \in Nat
  BY DEF Guarded
<1>3. \A o \in Txs \ {t} : program'[o] = program[o]
  OBVIOUS
<1>4. TypeOK'
  <2>1. \A o \in Txs : program'[o] \in Seq(Steps) /\ at[o] <= Len(program'[o])
    BY <1>1, <1>2, <1>3
  <2>2. \A o \in waiting : at[o] < Len(program'[o])
    BY <1>1, <1>3
  <2> QED BY <2>1, <2>2
<1>5. \A o \in Txs : program'[o] \in Guarded
  BY <1>3
<1>6. Exclusive'
  BY <1>1, <1>3 DEF Exclusive
<1> QED BY <1>4, <1>5, <1>6

\* It does not matter which of two locks was first.
LEMMA ConflictSymmetric == \A m, n : Conflict(m, n) <=> Conflict(n, m)
<1>1. \A m, n : {m, n} = {n, m}
  OBVIOUS
<1> QED BY <1>1 DEF Conflict

\* The one that takes a lock found nobody with a lock against it.
LEMMA TakeInvariant ==
    ASSUME IInv, NEW t \in Txs, Take(t)
    PROVE  IInv'
<1> USE DEF IInv, TypeOK, Take
<1>1. TypeOK'
  OBVIOUS
<1>2. \A o \in Txs : program'[o] \in Guarded
  OBVIOUS
<1>3. program' = program /\ at' = [at EXCEPT ![t] = at[t] + 1]
  OBVIOUS
<1>4. \A x, o \in Txs : x # o =>
        \A i \in 1..at'[x], j \in 1..at'[o] :
            program[x][i].row = program[o][j].row
              => ~Conflict(program[x][i].mode, program[o][j].mode)
  <2> TAKE x, o \in Txs
  <2> HAVE x # o
  <2> TAKE i \in 1..at'[x], j \in 1..at'[o]
  <2> HAVE program[x][i].row = program[o][j].row
  <2> SUFFICES ASSUME Conflict(program[x][i].mode, program[o][j].mode)
               PROVE  FALSE
    OBVIOUS
  <2>1. CASE i \in 1..at[x] /\ j \in 1..at[o]
    BY <2>1 DEF Exclusive
  <2>2. CASE i \notin 1..at[x]
    <3>1. x = t /\ program[x][i] = Wanted(t) /\ j \in 1..at[o]
      BY <2>2 DEF Wanted
    <3>2. Conflict(program[o][j].mode, program[x][i].mode)
      BY ConflictSymmetric
    <3>3. Blocks(o, t)
      BY <3>1, <3>2 DEF Blocks
    <3> QED BY <3>3
  <2>3. CASE j \notin 1..at[o]
    <3>1. o = t /\ program[o][j] = Wanted(t) /\ i \in 1..at[x]
      BY <2>3 DEF Wanted
    <3>2. Blocks(x, t)
      BY <3>1 DEF Blocks
    <3> QED BY <3>2
  <2> QED BY <2>1, <2>2, <2>3
<1> HIDE DEF IInv, TypeOK, Take
<1>5. Exclusive'
  BY <1>3, <1>4 DEF Exclusive
<1> QED BY <1>1, <1>2, <1>5 DEF IInv

\* The one that ends has no lock any more.
LEMMA EndInvariant ==
    ASSUME IInv, NEW t \in Txs, End(t)
    PROVE  IInv'
<1> USE DEF IInv, TypeOK, End
<1>1. << >> \in Seq(Steps) /\ Len(<< >>) = 0
  OBVIOUS
<1>2. << >> \in Guarded
  BY <1>1 DEF Guarded, Covered
<1>3. /\ \A o \in Txs \ {t} : program'[o] = program[o] /\ at'[o] = at[o]
      /\ program'[t] = << >> /\ at'[t] = 0
  OBVIOUS
<1>4. TypeOK'
  <2>1. \A o \in Txs : program'[o] \in Seq(Steps) /\ at'[o] <= Len(program'[o])
    BY <1>1, <1>3
  <2>2. \A o \in waiting : at'[o] < Len(program'[o])
    BY <1>3
  <2> QED BY <2>1, <2>2
<1>5. \A o \in Txs : program'[o] \in Guarded
  BY <1>2, <1>3
<1>6. Exclusive'
  BY <1>3 DEF Exclusive
<1> QED BY <1>4, <1>5, <1>6

\* Every step of every transaction keeps the invariant.
LEMMA StepInvariant == IInv /\ [NextOf(OrderedPrograms \union UnorderedPrograms)]_vars => IInv'
<1> DEFINE Programs == OrderedPrograms \union UnorderedPrograms
<1> SUFFICES ASSUME IInv, [NextOf(Programs)]_vars
             PROVE  IInv'
  OBVIOUS
<1> HIDE DEF Programs
<1>1. ASSUME NEW t \in Txs, NEW p \in Programs, Begin(t, p)
      PROVE  IInv'
  BY <1>1, BeginInvariant, ProgramsGuarded DEF Programs
<1>2. ASSUME NEW t \in Txs, Take(t)
      PROVE  IInv'
  BY <1>2, TakeInvariant
<1>3. ASSUME NEW t \in Txs, Wait(t)
      PROVE  IInv'
  BY <1>3 DEF Wait, IInv, TypeOK, Exclusive
<1>4. ASSUME NEW t \in Txs, End(t)
      PROVE  IInv'
  BY <1>4, EndInvariant
<1>5. CASE UNCHANGED vars
  BY <1>5 DEF vars, IInv, TypeOK, Exclusive
<1> QED BY <1>1, <1>2, <1>3, <1>4, <1>5 DEF NextOf

\* The invariant holds in every state that the transactions reach.
LEMMA InvariantHolds == Spec => []IInv
<1> QED BY InitInvariant, StepInvariant, PTL DEF Spec

\* Programs that keep to the order are programs.
LEMMA OrderedIsSpec == OrderedSpec => Spec
<1>1. [NextOf(OrderedPrograms)]_vars => [NextOf(OrderedPrograms \union UnorderedPrograms)]_vars
  BY DEF NextOf
<1> QED BY <1>1, PTL DEF OrderedSpec, Spec

\* What keeps to the order runs only programs that do.
KeepsOrder == \A t \in Txs : program[t] \in Orderly

\* It does so in every state.
LEMMA OrderKept == OrderedSpec => []KeepsOrder
<1>1. << >> \in Orderly
  <2>1. << >> \in Seq(Steps) /\ Len(<< >>) = 0
    OBVIOUS
  <2> QED BY <2>1 DEF Orderly, Guarded, Covered, Ascends, UnderShop
<1>2. Init => KeepsOrder
  BY <1>1 DEF Init, KeepsOrder
<1>3. KeepsOrder /\ TypeOK /\ [NextOf(OrderedPrograms)]_vars => KeepsOrder'
  <2> SUFFICES ASSUME KeepsOrder, TypeOK, [NextOf(OrderedPrograms)]_vars, NEW o \in Txs
               PROVE  program'[o] \in Orderly
    BY DEF KeepsOrder
  <2>1. ASSUME NEW t \in Txs, NEW p \in OrderedPrograms, Begin(t, p)
        PROVE  program'[o] \in Orderly
    BY <2>1, ProgramsOrderly DEF Begin, KeepsOrder, TypeOK
  <2>2. ASSUME NEW t \in Txs, Take(t) \/ Wait(t)
        PROVE  program'[o] \in Orderly
    BY <2>2 DEF Take, Wait, KeepsOrder
  <2>3. ASSUME NEW t \in Txs, End(t)
        PROVE  program'[o] \in Orderly
    BY <1>1, <2>3 DEF End, KeepsOrder, TypeOK
  <2>4. CASE UNCHANGED vars
    BY <2>4 DEF vars, KeepsOrder
  <2> QED BY <2>1, <2>2, <2>3, <2>4 DEF NextOf
<1>4. IInv => TypeOK
  BY DEF IInv
<1> QED BY <1>2, <1>3, <1>4, OrderedIsSpec, InvariantHolds, PTL DEF OrderedSpec

-----------------------------------------------------------------------------
(* Nothing changes underfoot: of two transactions at one datum, one that   *)
(* changes it, each would have the guard of the datum, in modes that       *)
(* exclude each other.                                                     *)

\* Who has touched a datum has its guard.
LEMMA GuardHeld ==
    ASSUME IInv, NEW t \in Txs, NEW i \in 1..at[t], program[t][i].mode \in Accesses
    PROVE  \E k \in 1..at[t] : Guards(program[t][k], program[t][i])
<1>1. Covered(program[t]) /\ at[t] \in Nat /\ at[t] <= Len(program[t]) /\ Len(program[t]) \in Nat
  BY DEF IInv, TypeOK, Guarded
<1>2. i \in 1..Len(program[t])
  BY <1>1
<1>3. PICK k \in 1..(i - 1) : Guards(program[t][k], program[t][i])
  BY <1>1, <1>2 DEF Covered
<1>4. k \in 1..at[t]
  BY <1>1
<1> QED BY <1>3, <1>4

\* Guards exclude who would disturb.
LEMMA InvariantExcludesDisturbance == IInv => Undisturbed
<1> SUFFICES ASSUME IInv, NEW t \in Txs, NEW o \in Txs, t # o,
                    NEW i \in 1..at[t], NEW j \in 1..at[o],
                    program[t][i].mode = "change", program[o][j].mode \in Accesses,
                    program[t][i].row = program[o][j].row
             PROVE  FALSE
  BY DEF Undisturbed
<1>1. PICK k \in 1..at[t] : Guards(program[t][k], program[t][i])
  BY GuardHeld DEF Accesses
<1>2. PICK l \in 1..at[o] : Guards(program[o][l], program[o][j])
  BY GuardHeld
<1>3. program[t][k].row = program[o][l].row
  BY <1>1, <1>2 DEF Guards
<1>4. program[t][k].mode = "update" /\ program[o][l].mode \in {"update", "share"}
  BY <1>1, <1>2 DEF Guards
<1>5. Conflict(program[t][k].mode, program[o][l].mode)
  BY <1>4 DEF Conflict, Modes
<1> QED BY <1>3, <1>5 DEF IInv, Exclusive

-----------------------------------------------------------------------------
(* No ring.  Each of its members waits for a row that another one has.     *)
(* The row stands alone, and of all that are wanted one is the last in the *)
(* order.  Who has that one wants a later one, or wants it once more: but  *)
(* then nobody else can have it.                                           *)

\* A set of naturals has a least element.
LEMMA LeastNatural ==
    ASSUME NEW S, S \subseteq Nat, S # {}
    PROVE  \E m \in S : \A n \in S : m <= n
<1> DEFINE T == {1..n : n \in S}
<1>1. T \subseteq FiniteSubsetsOf(Nat)
  BY FS_Interval DEF FiniteSubsetsOf
<1>2. PICK x \in T : \A y \in T : ~(<<y, x>> \in StrictSubsetOrdering(Nat))
  <2>1. T # {}
    OBVIOUS
  <2> HIDE DEF T
  <2> QED BY <1>1, <2>1, WFMin, FS_StrictSubsetOrderingWellFounded
<1>3. PICK m \in S : x = 1..m
  OBVIOUS
<1>4. ASSUME NEW n \in S, n < m
      PROVE  FALSE
  <2>1. 1..n \subseteq 1..m /\ 1..m \subseteq Nat /\ m \in 1..m /\ m \notin 1..n
    BY <1>4
  <2>2. <<1..n, x>> \in StrictSubsetOrdering(Nat)
    BY <1>3, <2>1 DEF StrictSubsetOrdering
  <2> QED BY <1>2, <2>2
<1> QED BY <1>4

\* Of some rows, one is the last in the order.
LEMMA LastRow ==
    ASSUME NEW R, R \subseteq Rows, R # {}
    PROVE  \E r \in R : \A q \in R : ~Below(r, q)
<1> USE LockAssumption DEF Rows
<1> DEFINE C == {18 - r.class : r \in R}
<1>1. PICK c \in C : \A d \in C : c <= d
  <2>1. C \subseteq Nat /\ C # {}
    OBVIOUS
  <2> HIDE DEF C
  <2> QED BY <2>1, LeastNatural
<1> DEFINE Last == {r \in R : 18 - r.class = c}
           U == {NUsers - r.user : r \in Last}
<1>2. PICK m \in U : \A n \in U : m <= n
  <2>1. U \subseteq Nat /\ U # {}
    BY <1>1
  <2> HIDE DEF U
  <2> QED BY <2>1, LeastNatural
<1>3. PICK r \in Last : m = NUsers - r.user
  BY <1>2
<1>4. ASSUME NEW q \in R, Below(r, q)
      PROVE  FALSE
  <2>1. 18 - r.class <= 18 - q.class
    BY <1>1, <1>3
  <2>2. r.class \in Int /\ q.class \in Int /\ r.user \in Int /\ q.user \in Int
    BY <1>3
  <2>3. q.class = r.class /\ r.user < q.user
    BY <1>4, <2>1, <2>2 DEF Below
  <2>4. q \in Last
    BY <1>3, <2>3
  <2>5. NUsers - r.user <= NUsers - q.user
    BY <1>2, <1>3, <2>4
  <2> QED BY <2>2, <2>3, <2>5
<1> QED BY <1>3, <1>4

\* Locks are of rows, reads and changes of data.
LEMMA StepsApart == \A step \in Steps : step.mode \in Modes <=> step.row \in Rows
BY DEF Steps, Modes, Accesses, Rows, Data

\* Two transactions never hold a row one of them holds FOR UPDATE.
LEMMA OneHolder ==
    ASSUME IInv, NEW t \in Txs, NEW o \in Txs, NEW i \in 1..at[t], NEW j \in 1..at[o],
           program[t][i].mode = "update", program[t][i].row = program[o][j].row
    PROVE  t = o
<1>1. ASSUME NEW x \in Txs, NEW k \in 1..at[x]
      PROVE  program[x][k] \in Steps
  BY <1>1 DEF IInv, TypeOK
<1>2. \A step \in Steps : step.mode \in Modes <=> step.row \in Rows
  BY StepsApart
<1>3. program[o][j].mode \in Modes
  BY <1>1, <1>2 DEF Modes
<1>4. Conflict("update", program[o][j].mode)
  BY <1>3 DEF Conflict, Modes
<1> QED BY <1>4 DEF IInv, Exclusive

\* What keeps to the order never waits in a ring.
LEMMA InvariantExcludesDeadlock == IInv /\ KeepsOrder => NoDeadlock
<1> SUFFICES ASSUME IInv, KeepsOrder, NEW ring \in SUBSET Txs, ring # {},
                    \A t \in ring : t \in waiting /\ \E o \in ring : Blocks(o, t)
             PROVE  FALSE
  BY DEF NoDeadlock
<1> USE DEF IInv
<1>1. ASSUME NEW t \in ring
      PROVE  /\ Ascends(program[t]) /\ UnderShop(program[t])
             /\ at[t] \in Nat /\ at[t] + 1 \in 1..Len(program[t])
             /\ Wanted(t) = program[t][at[t] + 1] /\ Wanted(t) \in Steps /\ Wanted(t).row \in Rows
             /\ 1..at[t] \subseteq 1..Len(program[t])
  <2>1. program[t] \in Seq(Steps) /\ Ascends(program[t]) /\ UnderShop(program[t])
    BY DEF KeepsOrder, Orderly, Guarded
  <2>2. at[t] \in Nat /\ at[t] < Len(program[t]) /\ Len(program[t]) \in Nat
    BY <2>1 DEF TypeOK
  <2>3. Wanted(t) = program[t][at[t] + 1] /\ Wanted(t) \in Steps
    BY <2>1, <2>2 DEF Wanted
  <2>4. Wanted(t).mode \in Modes
    BY DEF Blocks, Conflict
  <2>5. Wanted(t).row \in Rows
    BY <2>3, <2>4, StepsApart
  <2> HIDE DEF IInv
  <2> QED BY <2>1, <2>2, <2>3, <2>5
<1>2. ASSUME NEW t \in ring
      PROVE  Alone(Wanted(t))
  <2> SUFFICES ASSUME Wanted(t).row.class \in BelongsToShop
               PROVE  FALSE
    BY <1>1 DEF Alone, Rows
  <2> DEFINE guard == Lock(Shop(Wanted(t).row.shop))
  <2> HIDE DEF IInv
  <2>1. PICK i \in 1..at[t] : program[t][i] = guard
    <3>1. \E i \in 1..((at[t] + 1) - 1) : program[t][i] = guard
      BY <1>1 DEF UnderShop
    <3> QED BY <1>1, <3>1
  <2>2. PICK o \in ring : Blocks(o, t)
    OBVIOUS
  <2>3. PICK k \in 1..at[o] : program[o][k].row = Wanted(t).row
    BY <2>2 DEF Blocks
  <2>4. PICK j \in 1..at[o] : program[o][j] = guard
    <3>1. k \in 1..Len(program[o]) /\ k \in 1..at[o] /\ at[o] \in Nat
      BY <1>1
    <3>2. UnderShop(program[o])
      BY <1>1
    <3>3. \E j \in 1..(k - 1) : program[o][j] = guard
      BY <2>3, <3>1, <3>2 DEF UnderShop
    <3>4. ASSUME NEW j \in 1..(k - 1)
          PROVE  j \in 1..at[o]
      BY <3>1
    <3> HIDE DEF guard
    <3> QED BY <3>3, <3>4
  <2>5. guard.mode = "update"
    BY DEF Lock
  <2>6. o = t
    BY <2>1, <2>4, <2>5, OneHolder
  <2> QED BY <2>2, <2>6 DEF Blocks
<1>3. PICK t \in ring : \A o \in ring : ~Below(Wanted(t).row, Wanted(o).row)
  <2> DEFINE R == {Wanted(o).row : o \in ring}
  <2>1. R \subseteq Rows /\ R # {}
    BY <1>1
  <2>2. PICK r \in R : \A q \in R : ~Below(r, q)
    BY <2>1, LastRow
  <2> QED BY <2>2
<1> DEFINE r == Wanted(t).row
<1>4. ASSUME NEW x \in ring, NEW k \in 1..at[x], program[x][k].row = r
      PROVE  /\ Wanted(x).row = r
             /\ \/ program[x][k].mode = "update"
                \/ \E g \in 1..at[x] : program[x][g] = Lock(TelegramLinkToken(r.user))
  <2>1. Alone(program[x][k]) /\ Alone(program[x][at[x] + 1])
    BY <1>1, <1>2, <1>4 DEF Alone
  <2>2. k < at[x] + 1 /\ k \in 1..Len(program[x])
    BY <1>1
  <2>3. Below(r, Wanted(x).row) \/ Again(program[x], k, at[x] + 1)
    BY <1>1, <1>4, <2>1, <2>2 DEF Ascends
  <2>4. Again(program[x], k, at[x] + 1)
    BY <1>3, <2>3
  <2>5. Wanted(x).row = r /\ at[x] \in Nat
    BY <1>1, <1>4, <2>4 DEF Again
  <2>6. CASE program[x][k].mode = "update"
    BY <2>5, <2>6
  <2>7. CASE \E g \in 1..(k - 1) : program[x][g] = Lock(TelegramLinkToken(program[x][k].row.user))
    <3>1. PICK g \in 1..(k - 1) : program[x][g] = Lock(TelegramLinkToken(r.user))
      BY <1>4, <2>7
    <3>2. g \in 1..at[x]
      BY <2>5
    <3> QED BY <2>5, <3>1, <3>2
  <2> QED BY <2>4, <2>6, <2>7 DEF Again
<1>5. PICK o \in ring : Blocks(o, t)
  OBVIOUS
<1>6. PICK k \in 1..at[o] : program[o][k].row = r
  BY <1>5 DEF Blocks
<1>7. Wanted(o).row = r
  BY <1>4, <1>6
<1>8. PICK x \in ring : Blocks(x, o)
  OBVIOUS
<1>9. x # o /\ \E l \in 1..at[x] : program[x][l].row = r
  BY <1>7, <1>8 DEF Blocks
<1>10. PICK l \in 1..at[x] : program[x][l].row = r
  BY <1>9
<1>11. program[o][k].mode # "update"
  BY <1>6, <1>9, <1>10, OneHolder
<1>12. program[x][l].mode # "update"
  BY <1>6, <1>9, <1>10, OneHolder
<1> DEFINE guard == Lock(TelegramLinkToken(r.user))
<1>13. PICK g \in 1..at[o] : program[o][g] = guard
  BY <1>4, <1>6, <1>11
<1>14. PICK h \in 1..at[x] : program[x][h] = guard
  BY <1>4, <1>10, <1>12
<1>15. guard.mode = "update"
  BY DEF Lock
<1> QED BY <1>9, <1>13, <1>14, <1>15, OneHolder

-----------------------------------------------------------------------------
(* The theorems. *)

\* Types, of any number of transactions on any number of shops and users.
THEOREM TypeCorrect == Spec => []TypeOK
<1>1. IInv => TypeOK
  BY DEF IInv
<1> QED BY <1>1, InvariantHolds, PTL

\* All flows together, those that leave the order included: what a transaction
\* has read to decide, or has changed, nobody else changes before it ends.
THEOREM NeverDisturbed == Spec => []Undisturbed
<1> QED BY InvariantHolds, InvariantExcludesDisturbance, PTL

\* The order of the locks excludes deadlock: this is what the contract of the
\* domain transactions promises (docs/m15_scope_contract.md:72-78).
THEOREM NeverDeadlocked == OrderedSpec => []NoDeadlock
<1> QED BY OrderedIsSpec, InvariantHolds, OrderKept, InvariantExcludesDeadlock, PTL
=============================================================================
