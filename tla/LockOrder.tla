----------------------------- MODULE LockOrder ------------------------------
(***************************************************************************)
(* The row locks of nasiya's transactions, in the order in which they take *)
(* them.  A transaction runs a program, a sequence of row locks; it waits  *)
(* at the first one that another transaction holds in a conflicting mode,  *)
(* keeps what it has until it commits, returns early or rolls back, and    *)
(* lets everything go at once.                                             *)
(*                                                                         *)
(* The code relies on one order of the classes of rows                     *)
(* (docs/m15_scope_contract.md:72-78), in which every transaction locks    *)
(* what it needs, rows of one class by ascending identifier: that alone is *)
(* to exclude deadlock.  Locks that no statement of the code names count   *)
(* too: PostgreSQL takes the referenced row FOR KEY SHARE when a row with  *)
(* a foreign key is inserted, which waits for whoever has it FOR UPDATE.   *)
(*                                                                         *)
(* A program names a lock once unless a later, stronger one is meant.      *)
(* What a transaction decides is left out: it may end after any step.      *)
(*                                                                         *)
(* A plain SELECT waits for nobody (READ COMMITTED), so a program also     *)
(* names what it reads to decide and what it changes, where it does so:    *)
(* whether a row lock that it has by then keeps the others out is up to    *)
(* the programs.  Named are the data that transactions of different shops, *)
(* or a shop and a person, come to by different ways; what is within one   *)
(* shop is behind the row of the shop, which its flows lock first.         *)
(***************************************************************************)
EXTENDS Integers, Sequences

CONSTANTS
    Txs,        \* the sessions that may be in a transaction
    NShops,     \* bound: the shops are 1..NShops, ordered as their UUIDs
    NUsers      \* bound: the users are 1..NUsers, ordered as their UUIDs

ASSUME LockAssumption == NShops \in Nat /\ NUsers \in Nat \ {0}

Shops == 1..NShops
Users == 1..NUsers

-----------------------------------------------------------------------------
(* Rows.  The class is the place in the global order; a row that belongs   *)
(* to a person bears the number of the user, whatever its own key is.      *)

Rows == [class : 1..18, shop : 0..NShops, user : 0..NUsers]
Row(c, s, u) == [class |-> c, shop |-> s, user |-> u]

Shop(s)              == Row(1, s, 0)
ShopStaff(s, u)      == Row(2, s, u)
TelegramLinkToken(u) == Row(3, 0, u)
OtpDispatch(u)       == Row(4, 0, u)
OtpChallenge(u)      == Row(5, 0, u)
User(u)              == Row(6, 0, u)
TelegramLink(u)      == Row(7, 0, u)
Customer(u)          == Row(8, 0, u)
RegistrationOffer    == Row(9, 0, 0)   \* the versions of one purpose, locked together
DebtOffer            == Row(9, 0, 1)
OfferAcceptance(u)   == Row(10, 0, u)
CustomerIdentity(u)  == Row(11, 0, u)
ObjectFile(u)        == Row(12, 0, u)
CustomerDocument(u)  == Row(13, 0, u)
ShopCustomer(s, u)   == Row(14, s, u)
IdempotencyKey(u)    == Row(15, 0, u)  \* held by the transaction that inserts it
Debt(s, u)           == Row(16, s, u)
Payment(s, u)        == Row(17, s, u)
AuthSession(u)       == Row(18, 0, u)
AnonymousSession     == Row(18, 0, 0)  \* of a browser that is about to sign in

\* What is read and changed in statements that need no lock: a customer's
\* accepted debts with their payments and rating events, in all shops; the
\* customer's identity, document and status; the chat that a user is linked to;
\* which version of an offer is current.
Data == [class : 19..22, shop : {0}, user : 0..NUsers]
Standing(u)    == Row(19, 0, u)
Profile(u)     == Row(20, 0, u)
Link(u)        == Row(21, 0, u)
Current(offer) == Row(22, 0, offer.user)

Modes    == {"update", "skip", "share", "write", "keyShare"}
Accesses == {"read", "change"}
Steps == [row : Rows, mode : Modes] \union [row : Data, mode : Accesses]

Lock(r)  == [row |-> r, mode |-> "update"]    \* with_for_update()
Claim(r) == [row |-> r, mode |-> "skip"]      \* with_for_update(skip_locked=True)
Share(r) == [row |-> r, mode |-> "share"]     \* with_for_update(read=True)
Touch(r) == [row |-> r, mode |-> "write"]     \* UPDATE of columns that are no key
Refer(r) == [row |-> r, mode |-> "keyShare"]  \* INSERT of a row that references r

Reads(x)   == [row |-> x, mode |-> "read"]
Changes(x) == [row |-> x, mode |-> "change"]

Conflict(m, n) ==
    /\ {m, n} \subseteq Modes
    /\ ~({m, n} \subseteq {"share", "keyShare"})
    /\ {m, n} # {"write", "keyShare"}

Lesser(a, b)  == IF a < b THEN a ELSE b
Greater(a, b) == IF a < b THEN b ELSE a

-----------------------------------------------------------------------------
(* What shops do: s is the shop, a the user who acts, b the customer.      *)

CreateDebt(s, a, b) ==
    << Lock(Shop(s)), Lock(ShopStaff(s, a)), Lock(User(Lesser(a, b))), Lock(User(Greater(a, b))),
       Lock(TelegramLink(b)), Reads(Link(b)), Lock(Customer(b)), Reads(Profile(b)),
       Share(DebtOffer), Reads(Current(DebtOffer)), Lock(ShopCustomer(s, b)),
       Reads(Standing(b)), Lock(IdempotencyKey(a)) >>

LinkCustomer(s, a, b) ==
    << Lock(Shop(s)), Lock(ShopStaff(s, a)), Lock(User(Lesser(a, b))), Lock(User(Greater(a, b))),
       Lock(TelegramLink(b)), Reads(Link(b)), Lock(Customer(b)), Reads(Profile(b)),
       Lock(ShopCustomer(s, b)) >>

\* Mutant: the customer is locked before the actor.
RecordPaymentCustomerFirst(s, a, b) ==
    << Lock(Shop(s)), Lock(ShopStaff(s, a)), Lock(Customer(b)), Lock(User(a)),
       Lock(ShopCustomer(s, b)), Lock(IdempotencyKey(a)), Lock(Debt(s, b)),
       Reads(Standing(b)), Changes(Standing(b)) >>
RecordPayment(s, a, b) ==
    << Lock(Shop(s)), Lock(ShopStaff(s, a)), Lock(User(a)), Lock(Customer(b)),
       Lock(ShopCustomer(s, b)), Lock(IdempotencyKey(a)), Lock(Debt(s, b)),
       Reads(Standing(b)), Changes(Standing(b)) >>

VoidPayment(s, a, b) ==
    << Lock(Shop(s)), Lock(ShopStaff(s, a)), Lock(User(a)), Lock(Customer(b)),
       Lock(ShopCustomer(s, b)), Lock(IdempotencyKey(a)), Lock(Debt(s, b)),
       Lock(Payment(s, b)), Reads(Standing(b)), Changes(Standing(b)) >>

WriteOff(s, a, b) ==
    << Lock(Shop(s)), Lock(User(a)), Lock(Customer(b)), Lock(ShopCustomer(s, b)),
       Lock(IdempotencyKey(a)), Lock(Debt(s, b)), Reads(Standing(b)), Changes(Standing(b)) >>

CancelProposal(s, a, b) ==
    << Lock(Shop(s)), Lock(ShopStaff(s, a)), Lock(User(a)), Lock(ShopCustomer(s, b)),
       Lock(Debt(s, b)) >>

Disclose(s, a, b) ==
    << Lock(Shop(s)), Lock(ShopStaff(s, a)), Lock(User(a)), Lock(Customer(b)),
       Lock(ShopCustomer(s, b)), Lock(IdempotencyKey(a)), Reads(Standing(b)) >>

\* The audit row of a policy change references its actor, whom nothing locks.
ChangePolicy(s, a, b) ==
    << Lock(Shop(s)), Lock(ShopStaff(s, a)), Lock(ShopCustomer(s, b)), Refer(User(a)) >>
ChangeDefaults(s, a) ==
    << Lock(Shop(s)), Lock(ShopStaff(s, a)), Refer(User(a)) >>
SuspendShop(s, a) == << Lock(Shop(s)), Refer(User(a)) >>

\* The event of a staff change references its subject and its actor.
ChangeStaff(s, a, b) ==
    << Lock(Shop(s)), Lock(ShopStaff(s, a)), Lock(ShopStaff(s, b)), Refer(User(b)),
       Refer(User(a)) >>

(* What customers decide, and what the two batches do. *)

AcceptProposal(s, b) ==
    << Lock(Shop(s)), Lock(User(b)), Lock(TelegramLink(b)), Reads(Link(b)), Lock(Customer(b)),
       Reads(Profile(b)), Share(DebtOffer), Reads(Current(DebtOffer)),
       Lock(ShopCustomer(s, b)), Lock(Debt(s, b)), Reads(Standing(b)), Changes(Standing(b)) >>
RejectProposal(s, b) ==
    << Lock(Shop(s)), Lock(User(b)), Lock(TelegramLink(b)), Reads(Link(b)), Lock(Customer(b)),
       Reads(Profile(b)), Lock(ShopCustomer(s, b)), Lock(Debt(s, b)) >>
ExpireProposal(s, b) == << Lock(Shop(s)), Lock(ShopCustomer(s, b)), Lock(Debt(s, b)) >>

\* Mutant: the batch locks the debt and what contains it, as the expiry does.
MarkOverdueDebtOnly(s, b) ==
    << Lock(Shop(s)), Lock(ShopCustomer(s, b)), Lock(Debt(s, b)), Changes(Standing(b)) >>
MarkOverdue(s, b) ==
    << Lock(Shop(s)), Lock(Customer(b)), Lock(ShopCustomer(s, b)), Lock(Debt(s, b)),
       Changes(Standing(b)) >>

-----------------------------------------------------------------------------
(* Codes: every open dispatch, every open challenge, then their owner.     *)

\* Looks at the link before it locks it, and its ORM session may remember that
\* (LoginCode says what follows): no read of the link under the lock is claimed.
IssueLogin(u) ==
    << Lock(OtpDispatch(u)), Lock(OtpChallenge(u)), Lock(User(u)), Lock(TelegramLink(u)) >>

\* The browser also has an open code of user v, which is superseded with an
\* event that references v.
IssueLoginOver(u, v) ==
    << Lock(OtpDispatch(Lesser(u, v))), Lock(OtpDispatch(Greater(u, v))),
       Lock(OtpChallenge(Lesser(u, v))), Lock(OtpChallenge(Greater(u, v))),
       Lock(User(u)), Lock(TelegramLink(u)), Refer(User(v)) >>

VerifyLogin(u) ==
    << Lock(OtpDispatch(u)), Lock(OtpChallenge(u)), Lock(User(u)), Lock(TelegramLink(u)),
       Reads(Link(u)), Lock(AnonymousSession) >>

PrepareDispatch(u) ==
    << Claim(OtpDispatch(u)), Lock(OtpChallenge(u)), Lock(User(u)), Lock(TelegramLink(u)),
       Reads(Link(u)), Lock(Customer(u)), Reads(Profile(u)) >>
ReportDelivery(u) == << Lock(OtpDispatch(u)), Lock(OtpChallenge(u)), Refer(User(u)) >>
RecoverOne(u) == << Claim(OtpDispatch(u)), Lock(OtpChallenge(u)), Refer(User(u)) >>

\* Stale dispatches are claimed together, in the order of their preparation,
\* and the event of each is written before the next challenge is read.
RecoverTwo(u, v) ==
    << Claim(OtpDispatch(u)), Claim(OtpDispatch(v)), Lock(OtpChallenge(u)), Refer(User(u)),
       Lock(OtpChallenge(v)), Refer(User(v)) >>

(* Telegram links.  The insert of a token references its user before the   *)
(* user is locked; by then the transaction has the open token of the user, *)
(* or its place in the unique index of open tokens.                        *)

IssueToken(u) ==
    << Lock(TelegramLinkToken(u)), Refer(User(u)), Lock(User(u)), Lock(TelegramLink(u)),
       Reads(Link(u)) >>
BindStart(u, v) ==
    << Lock(TelegramLinkToken(Lesser(u, v))), Lock(TelegramLinkToken(Greater(u, v))) >>
ConsumeToken(u, v) ==
    << Lock(TelegramLinkToken(u)), Lock(OtpDispatch(u)), Lock(OtpChallenge(u)), Lock(User(u)),
       Lock(TelegramLink(Lesser(u, v))), Lock(TelegramLink(Greater(u, v))), Reads(Link(v)),
       Lock(Customer(u)), Changes(Link(u)) >>
Unlink(u) ==
    << Lock(TelegramLinkToken(u)), Lock(OtpDispatch(u)), Lock(OtpChallenge(u)), Lock(User(u)),
       Lock(TelegramLink(u)), Lock(Customer(u)), Reads(Profile(u)), Changes(Link(u)) >>

-----------------------------------------------------------------------------
(* Offers and onboarding. *)

AcceptOffer(u) ==
    << Share(User(u)), Share(RegistrationOffer), Reads(Current(RegistrationOffer)),
       Lock(OfferAcceptance(u)) >>
PublishOffer(a, offer) ==
    << Lock(User(a)), Lock(offer), Reads(Current(offer)), Changes(Current(offer)) >>

IssueRegistration(u) ==
    << Lock(OtpDispatch(u)), Lock(OtpChallenge(u)), Lock(User(u)), Lock(TelegramLink(u)),
       Reads(Link(u)), Lock(Customer(u)), Reads(Profile(u)), Share(RegistrationOffer),
       Reads(Current(RegistrationOffer)), Lock(OfferAcceptance(u)), Lock(CustomerIdentity(u)),
       Lock(ObjectFile(u)), Lock(CustomerDocument(u)) >>
VerifyRegistration(u) ==
    << Lock(OtpDispatch(u)), Lock(OtpChallenge(u)), Lock(User(u)), Lock(TelegramLink(u)),
       Reads(Link(u)), Lock(Customer(u)), Reads(Profile(u)), Share(RegistrationOffer),
       Reads(Current(RegistrationOffer)), Lock(OfferAcceptance(u)), Lock(CustomerIdentity(u)),
       Lock(ObjectFile(u)), Lock(CustomerDocument(u)),
       Changes(Profile(u)), Lock(AuthSession(u)) >>
\* The new session keeps the shop that was selected in the old one.
VerifyRegistrationInShop(u, s) == Append(VerifyRegistration(u), Refer(Shop(s)))

\* The audit row of the identity, and the document itself, reference the user.
SaveIdentity(u) ==
    << Lock(Customer(u)), Reads(Profile(u)), Lock(CustomerIdentity(u)), Changes(Profile(u)),
       Refer(User(u)) >>
AttachDocument(u) ==
    << Lock(Customer(u)), Reads(Profile(u)), Lock(ObjectFile(u)), Lock(CustomerDocument(u)),
       Changes(Profile(u)), Refer(User(u)) >>

\* Some routes renew the session in the transaction that does the work.
Renewing(u, p) == << Touch(AuthSession(u)) >> \o p

-----------------------------------------------------------------------------
(* The programs that keep to the order, and those that do not. *)

ShopPrograms ==
    UNION {{ CreateDebt(s, a, b), LinkCustomer(s, a, b), RecordPayment(s, a, b),
             VoidPayment(s, a, b), WriteOff(s, a, b), CancelProposal(s, a, b),
             Disclose(s, a, b), ChangePolicy(s, a, b), ChangeDefaults(s, a), SuspendShop(s, a),
             AcceptProposal(s, b), RejectProposal(s, b), ExpireProposal(s, b),
             MarkOverdue(s, b) } : s \in Shops, a \in Users, b \in Users}
PersonPrograms ==
    UNION {{ IssueLogin(u), VerifyLogin(u), PrepareDispatch(u), ReportDelivery(u),
             RecoverOne(u), IssueToken(u), BindStart(u, v), ConsumeToken(u, v), Unlink(u),
             AcceptOffer(u), PublishOffer(u, RegistrationOffer), PublishOffer(u, DebtOffer),
             IssueRegistration(u), VerifyRegistration(u) } : u \in Users, v \in Users}
OrderedPrograms == ShopPrograms \union PersonPrograms

ProfilePrograms ==
    UNION {{ SaveIdentity(u), AttachDocument(u), Renewing(u, SaveIdentity(u)) } : u \in Users}
OfferPrograms ==
    UNION {{ Renewing(u, PublishOffer(u, RegistrationOffer)),
             Renewing(u, AcceptOffer(u)) } : u \in Users}
CodePrograms == UNION {{ IssueLoginOver(u, v), RecoverTwo(u, v) } : u \in Users, v \in Users}
SessionPrograms == {VerifyRegistrationInShop(u, s) : u \in Users, s \in Shops}
StaffPrograms ==
    UNION {{ ChangeStaff(s, a, b), Renewing(a, ChangeStaff(s, a, b)) } :
             s \in Shops, a \in Users, b \in Users}
UnorderedPrograms ==
    ProfilePrograms \union OfferPrograms \union CodePrograms \union SessionPrograms
        \union StaffPrograms

-----------------------------------------------------------------------------
VARIABLES
    program,    \* [Txs -> sequence of steps], empty outside a transaction
    at,         \* [Txs -> how many of its steps the transaction has made]
    waiting     \* the transactions that have asked for their next lock in vain

vars == << program, at, waiting >>

Init ==
    /\ program = [t \in Txs |-> << >>]
    /\ at = [t \in Txs |-> 0]
    /\ waiting = {}

Wanted(t) == program[t][at[t] + 1]
Holds(t, step) == \E i \in 1..at[t] : program[t][i] = step

\* o has a lock that t has to wait for.
Blocks(o, t) ==
    /\ o # t
    /\ \E i \in 1..at[o] :
        /\ program[o][i].row = Wanted(t).row
        /\ Conflict(program[o][i].mode, Wanted(t).mode)

Begin(t, p) ==
    /\ program[t] = << >>
    /\ program' = [program EXCEPT ![t] = p]
    /\ UNCHANGED << at, waiting >>

\* The next step: the lock is free, at once or after a wait, or none is needed.
Take(t) ==
    /\ at[t] < Len(program[t])
    /\ \A o \in Txs : ~Blocks(o, t)
    /\ at' = [at EXCEPT ![t] = @ + 1]
    /\ waiting' = waiting \ {t}
    /\ UNCHANGED program

\* The lock is not free.  Whoever passes over locked rows does not wait.
Wait(t) ==
    /\ at[t] < Len(program[t])
    /\ t \notin waiting
    /\ \E o \in Txs : Blocks(o, t)
    /\ Wanted(t).mode # "skip"
    /\ waiting' = waiting \union {t}
    /\ UNCHANGED << program, at >>

\* Commit, early return or rollback: every lock is let go.
End(t) ==
    /\ program[t] # << >>
    /\ t \notin waiting
    /\ program' = [program EXCEPT ![t] = << >>]
    /\ at' = [at EXCEPT ![t] = 0]
    /\ UNCHANGED waiting

NextOf(P) == \E t \in Txs : (\E p \in P : Begin(t, p)) \/ Take(t) \/ Wait(t) \/ End(t)

\* Only programs that keep to the order.
OrderedSpec == Init /\ [][NextOf(OrderedPrograms)]_vars

\* All of them.
Spec == Init /\ [][NextOf(OrderedPrograms \union UnorderedPrograms)]_vars

-----------------------------------------------------------------------------
(* Properties.                                                             *)

\* Types: whoever waits is waiting for a lock of its program.
TypeOK ==
    /\ DOMAIN program = Txs
    /\ \A t \in Txs : program[t] \in Seq(Steps)
    /\ at \in [Txs -> Nat]
    /\ \A t \in Txs : at[t] <= Len(program[t])
    /\ waiting \subseteq Txs
    /\ \A t \in waiting : at[t] < Len(program[t])

\* What a transaction has read to decide, or has changed, no other one changes
\* before it ends: a limit, a block, a bonus, a confirmed document, a link or an
\* offer is never decided on while somebody else is about to replace it.
Undisturbed ==
    \A t, o \in Txs : t # o =>
        \A i \in 1..at[t], j \in 1..at[o] :
            /\ program[t][i].mode = "change"
            /\ program[o][j].mode \in Accesses
            => program[t][i].row # program[o][j].row

\* There is no ring of transactions that wait for one another: among any that
\* wait, one waits for somebody outside.
NoDeadlock ==
    \A ring \in SUBSET Txs : ring # {} =>
        \E t \in ring :
            \/ t \notin waiting
            \/ \A o \in ring : ~Blocks(o, t)
=============================================================================
