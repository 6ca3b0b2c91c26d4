# A TLA+ verification project for nasiya

nasiya is a server (FastAPI, SQLAlchemy, PostgreSQL) with which shops sell on
credit.  A shop proposes a debt to a customer, the customer accepts it, payments
are recorded, voided and repeated, a debt that passes its due date becomes
overdue and may be written off.  Every step leaves evidence (payments, voids,
rating events, audit rows, idempotency keys) that later steps read back.  People
log in with one-time codes sent over Telegram by a separate dispatcher process.

The modules here model what is hard to get right in that program: transactions
that decide on rows other transactions are about to change, evidence that has to
stay acceptable to its next reader after any sequence of payments and voids, and
workers that crash between an effect and its record, and pages and forms that
are older than the rows they are about.  TLC checks the modules on small
instances; TLAPS proves the most important properties for all instances.

    tlc -workers 2 -config MCX.cfg M     model-checks (see "Runs")
    tlapm X_proofs.tla                   checks the proofs

`PROJECT.json` lists the runs, the mutants that show that each property can
fail, the map from definitions to source lines, the hazards and the theorems.

## The system

Sizes are lines of `src/app`, 58.8k in all; `src/alembic` holds the schema and
`src/docs` one contract per milestone, m5 to m18, which the code follows.

| component | state | operations | interacts with |
|---|---|---|---|
| debt (9.4k) | `debts` rows: status, revision, the instants and revisions of acceptance, overdue, payment, write-off, settlement | create, accept, reject, cancel, expire (batch and inline), mark overdue (batch and inline), write off | payment, rating, audit, idempotency, shop_customer, offers |
| payment (6.9k) | `payments`, `payment_voids` | record, void, write-off recovery, balances, receipts as of a revision | debt (transitions), rating (events), idempotency |
| rating (4.0k) | `rating_events`, append-only | append on payment, void, overdue, write-off; score; disclosure to shops | reads debts and payments |
| idempotency (0.6k) | `idempotency_keys` | insert or resolve; find completed | payment, void, write-off |
| shop_customer (2.6k) | policy row: credit limit, open debts, blacklist | link a customer, update policy and defaults | the gate of debt creation and acceptance |
| audit (2.6k) | `audit_log`, append-only | append; some rows are read back as evidence | everything |
| otp (4.9k) | `otp_challenges`, `otp_dispatches`, dispatcher state, events | request, resend, verify, invalidate on link change; dispatcher process: prepare, send, report, recover | telegram, auth, customer_activation |
| telegram (5.0k) | links, one-time link tokens, polling cursor and attempts | link, relink, unlink, contact binding; polling worker with retries and quarantine | otp (link changes end codes) |
| auth (4.1k) | sessions, rate-limit windows, users | register, log in, rotate, revoke; fixed-window counters | otp |
| offers (3.6k) | offer versions, acceptances | draft, approve, supersede, accept | debt acceptance requires the current text |
| shop (2.1k) | shops, staff | create, invite, revoke, transfer, suspend | every tenant flow locks its Shop first |
| customer, customer_identity, customer_document, customer_activation (7.1k) | onboarding status, encrypted identity, documents | the onboarding sequence with a registration code | otp, storage, offers |
| storage (4.1k) | object files and their states | two-phase upload to S3, attach, reconcile, clean up | customer_document |
| web layer, templates, CLI, settings | none of their own | forms, rendering, configuration | |

### What is hard in it

* **Transactions that decide on other transactions' rows.**  Whether a customer
  may get more credit is decided from debts of every shop, while the transaction
  holds its own shop's row.  Rows are locked in a fixed global order
  (docs/m15_scope_contract.md:72-78), and discovery reads before the locks only
  locate rows that are read again.
* **Instants and revisions captured before a lock.**  Batches carry the instant
  at which they began, forms carry a revision and a balance basis.
* **Evidence that is read back.**  Voiding a payment re-proves from the tables
  why it did or did not earn a bonus; write-off and recovery demand the exact
  audit and rating rows of the overdue transition; one incoherent event makes
  the whole rating history of a debt unreadable.
* **Two error conventions.**  A refused payment raises and rolls back whatever
  its transaction did, inline overdue marking included; a late decision on a
  proposal returns its error and commits the expiry it performed.
* **A dispatcher that can die between sending a code and recording it**, hold a
  lock whose connection has gone, or report late what was already recovered.
* **A store that cannot be rolled back.**  Images go to S3 between two database
  transactions; either side may fail or answer late, and a reconciliation run by
  hand decides afterwards what is there.
* **A queue that delivers again.**  Telegram repeats an update until the cursor
  in the database has passed it, and an update that always fails must not stop
  the ones behind it.
* **Requests that are several transactions.**  One finds out who is asking and
  for which shop, others count attempts and look for keys, and the last acts;
  the session, the membership and the shop may change in between.
* **Pages that decide by themselves.**  Almost every page recomputes, unlocked
  and with rules of its own, what the mutation behind it will decide.
* **Nothing is scheduled.**  The overdue and expiry batches are run by hand
  (docs/m15_known_limitations.md:7-8), so what they would do may never happen.

`PROJECT.json` lists these as hazards, each at the line where it bites, with the
properties that cover it.

## The modules

| module | models | state | checked by | proved in |
|---|---|---|---|---|
| `DebtLifecycle` | debt/contracts.py, one debt row | the lifecycle columns and the posted total | `MCDebtLifecycle` | `DebtLifecycle_proofs` |
| `DebtRow` | what table and aggregate demand of that row | the same | `MCDebtLifecycle` | `DebtLifecycle_proofs` |
| `PaymentLedger` | payment, write-off, overdue, and the evidence they append | debts of one ShopCustomer, payments, voids, events, audits, keys, batch candidates | `MCPaymentLedger` | `PaymentLedger_proofs` |
| `AuditTrail` | audit/contracts.py, redaction.py, models.py on the rows of the ledger | the same | `MCPaymentLedger` | `PaymentLedger_proofs` |
| `RatingBook` | the readers and the score of rating, and what an event has to pass | the same | `MCPaymentLedger` | `PaymentLedger_proofs` |
| `PaymentPages`, `DebtPages` | the pages of shop, customer and administrator over the ledger | the same | `MCPaymentLedger` | `PaymentLedger_proofs` |
| `CreditGate` | the decision to give credit, under its locks | debts across shops, policies, row locks, open transactions | `MCCreditGate`, `MCCreditGateShop` | `CreditGate_proofs` |
| `LoginCode` | otp, with what telegram and auth do to codes | challenges, dispatches, links, sessions, open transactions, dispatchers | `MCLoginCode`, `MCLoginDispatch` | `LoginCode_proofs` |
| `LockOrder` | the row locks of every flow, in the order it takes them, and what it reads and changes under them | the running transactions, how far each is, who waits | `MCLockOrder` | `LockOrder_proofs` |
| `UpdateQueue` | what the polling worker promises (abstract) | updates sent, updates handled | as a property of `MCTelegramBot` | |
| `LinkTokens` | one-time link tokens, links, the transactions that make them | tokens, links, customers | `MCTelegramBot` | `TelegramBot_proofs` |
| `TelegramBot` | the polling worker over `LinkTokens` | updates, cursor, attempts, processes, their locks | `MCTelegramBot` | `TelegramBot_proofs` |
| `ObjectFiles` | storage: upload, failure, deletion, `storage reconcile` | rows of object_files, objects in S3, requests, runs | `MCOnboarding` | `Onboarding_proofs` |
| `Onboarding` | customer_document, customer_identity, offers, customer_activation over `ObjectFiles` | documents, identity, offers, acceptances, link, code, customer | `MCOnboarding` | `Onboarding_proofs` |
| `OnboardingPages` | the pages of onboarding and the answers to their forms | the same | `MCOnboarding` | `Onboarding_proofs` |
| `ShopBook` | what shops and staff can rely on (abstract) | shops, staff, customers, effects of keys | as a property of `MCTenantRequests` | |
| `TenantRequests` | requests in a shop: session, rate limit, key, locks; staff and suspension | shops, staff, sessions, keys, windows, requests under way | `MCTenantRequests` | `TenantRequests_proofs` |

Definitions keep the names of the code (`RecordPayment`, `MarkOverdue`,
`VoidPayment`, `Recover`), or name the function they stand for in a comment;
operators whose comment says *Mutant* are plausible mistakes in the code, used
only to show that a property would notice.

How the modules compose: `DebtRow` extends `DebtLifecycle`, which `PaymentLedger`
implements (`RefinesLifecycle`).  `AuditTrail`, `RatingBook`, `PaymentPages` and
`DebtPages` extend the ledger one after the other, as readers of one state.
`TelegramBot` runs the two transactions of `LinkTokens` and implements
`UpdateQueue`.  `Onboarding` adds the customer to the files of `ObjectFiles`, and
`OnboardingPages` what he is shown.  `TenantRequests` implements `ShopBook`.

### DebtLifecycle and DebtRow: what one debt may do

The abstract specification of a debt.  Its variables are the columns of the row
and the sum of its standing payments; each action is one method of
`DebtAggregate`.  The checks the aggregate makes on the value it has just built
are *not* guards.  `DebtRow` states them, with the check constraints of
debt/models.py, and `RowLoads` says that no lawful sequence of transitions leaves
a row that one of them refuses.  A transition whose caller captured its instant
before it had the row takes that instant as a parameter.  Instants map to
business dates by any function that does not run backwards.

### PaymentLedger: how the money side implements it

One action per transaction of `record_debt_payment` (on time, late with the
inline overdue marking, recovery of a write-off), `void_payment`,
`write_off_overdue_debt` and the overdue batch (`DiscoverOverdue`,
`MaterializeOverdue`, `SkipCandidate`), with everything each of them appends.
All of them lock the ShopCustomer first, so each is one step; what interleaves is
what the caller brought from before the lock.  The posted total is no longer a
variable but the sum over payments that are not voided.  `RefinesLifecycle` reads
every debt of the ledger as a row of `DebtLifecycle` (`Row(d)`): each step of the
ledger is a transition of each debt, or leaves that debt alone.

Four modules read what it leaves:

* `AuditTrail`: a row of audit_log passes a payload class, a redaction that
  copies it field by field, and the constraints of its table.  Each lists for
  itself which moves between statuses there are, and what one of them refuses
  rolls the whole payment back.  `AuditTrailUnbroken` says that none ever does,
  and that the rows of a debt tell one unbroken story of its status.
* `RatingBook`: what the event store demands of an event, the two readers that
  reject an impossible history, and the score, folded event by event and kept
  within 0 and 100 after each.  Debts in other shops are the score it starts
  from; the history is the rows of all debts by time, and of one day the debts
  come in every order (`History`).  `NoBonusFarming`: a reward that was taken back leaves nothing behind, although clamping makes
  taking back inexact.
* `PaymentPages`: the balance, the history and the receipts of a debt, as
  functions of the rows at one instant.  `ReceiptsNeverChange`.
* `DebtPages`: the pages of staff, customer and administrator with what each
  offers.  `PagesCompose` says that no projection refuses its rows, that no two
  pages contradict each other and that what is due fits the limit;
  `PagesOfferWhatIsAccepted` that a page offers exactly what the mutation behind
  it accepts.  Revisions only grow, so a form of an older page, or of one put
  together from two instants, is refused by the revision check.  The administrator's
  list is cut off at `ListSize` rows, 50 in the code; which of two debts that are
  equally old is on it is left open.

### CreditGate: decisions that outlive their reads

Transactions in four steps - begin with a request and its instant, lock the
Shop, lock the Customer (for the flows that do), operate - and a separate
commit, at which what they wrote becomes visible.  Every operation on debts is
there, because each of them may invalidate what another decided.  Properties
speak about the commit; guards about a moment some steps earlier.

### LoginCode: one-time codes end to end

A web transaction reads, unlocked, the ids of the open challenges it is about
(`BeginIssue`, `BeginNewCode`, `BeginVerify`, `BeginLinkChange`), and acts when its
last lock is granted (`Issue`, `NewCode`, `Verify`, `VerifyExpired`,
`ChangeLink`, or `Abort`).  The dispatcher process claims, prepares, sends,
reports and recovers (`Prepare`, `Send`, `Report`, `Recover`), may stop anywhere,
and may lose the advisory lock without noticing, so that two are at work.

`Issue` leaves one thing open on purpose.  `_lock_and_revalidate_target`
(otp/issuance.py:830) asks for the link again under its lock, but in the ORM
session that loaded it before, which may answer with the row as it was then.  The
model allows both answers.  A challenge for a changed link is therefore possible,
and `CodesFollowLink` shows that it is harmless: the dispatcher checks the link
in a session of its own and makes up no code.

### LockOrder: what each flow locks

A flow is a program, the sequence of steps its transaction takes: 27 flows
that keep to the order of docs/m15_scope_contract.md:72-78 (`OrderedPrograms`) and
those that do not (`UnorderedPrograms`).  A step is a lock: a row and a mode of
PostgreSQL: FOR UPDATE, FOR UPDATE SKIP LOCKED, FOR SHARE, the lock of a plain
UPDATE, and the FOR KEY SHARE that the insert of a row takes on every row it
references.  The last kind stands in no statement of the code, and it is where
flows leave the order.  It is in a program where the referenced row is not yet
held; where it is held FOR UPDATE, which is nearly always, it adds nothing.

A program also says what it reads to decide and what it changes, after which of
its locks: a plain SELECT waits for nobody, so whether anybody can change what was
read is up to the locks that both sides happen to take.  Named are the data that
flows come to by different ways - the customer's accepted debts with their payments
and rating events over all shops (`Standing`), the identity, document and status
(`Profile`), the chat of a user (`Link`), the current version of an offer
(`Current`).  `Undisturbed` says that what one flow has read, or changed, no other
one changes before it ends: the run checks it of the flows in the order, the theorem
proves it of all, since the guard of a datum does not depend on the order.  That is what the contract means by "not a
Debt-only bulk lock" (docs/m15_scope_contract.md:77): the mutant, an overdue batch
that locks the debt and its shop only, changes the customer's standing under a
proposal at another shop.  What is within one shop is behind the row of the shop,
which its flows lock first, and is not named.  Two limits: the issue of a login code
claims no read of the link, because its ORM session may remember an earlier one (see
above); and a link row that does not exist yet cannot be locked, there the user's
row and the unique indices stand in for it.

Three things make the model smaller and no kinder.  A flow may end after any
lock, which covers every early return and rollback.  A flow that skips a class of
rows, or finds no row, takes fewer locks of the same order.  Rows of a person are
numbered as their user is, so "ascending identifier" is one order for all classes.

### TelegramBot: updates, tokens and links

`LinkTokens` has the transactions of the web as single steps (issue a token,
relink, cancel, unlink), because what they look up first they look up again
under the locks and refuse a difference.  The two of the bot - `/start` binds a
token to a chat, a contact consumes it - do not refuse, so they are given as what
they look up and what they do, and `TelegramBot` puts the steps of other
transactions between.

`TelegramBot` is the loop of telegram/worker.py: read the cursor, fetch a batch,
and for each update transaction A (`BeginA` takes the row lock of the cursor,
`CommitA` applies, moves the cursor and commits) and, when A fails for no passing
reason, transaction B (`RecordFailure`), which counts and at the last attempt
quarantines.  The reply follows the commit and is sent at most once.  Processes
stop anywhere and lose their advisory lock unnoticed, so two of them may work on
the same batch.  `HandlesInOrder` is the refinement of `UpdateQueue`, with its
liveness.

`EffectsOnce` needs a fact about the deployment: no more processes at once than
attempts before quarantine (two against five).  With more, an update could be
counted to its last attempt by processes that all failed on it while the one that
applied it moved the cursor to exactly its identifier, and `quarantine` accepts
the cursor it finds there.

### ObjectFiles, Onboarding, OnboardingPages: from a draft to a customer

A request for an upload commits a pending row, PUTs the object, asks with HEAD
what is there and commits what it learnt; then it attaches the file, or gives it
up.  It may stop after any step.  A PUT without an answer takes effect at any
moment until it is over, a DELETE at once or never.  `storage reconcile`
(`StartRun`, `StartDeletes`, `HeadClaim`, `MarkClaim`, `DeleteClaim`, `AskAgain`)
claims rows that have not changed for a while, asks storage again and settles
them.  `RowsTruthful` follows docs/m8_scope_contract.md:70-78: a row that says
available, failed or deleted is true of the object.  It rests on one fact about time that the
model takes as given: a run claims a row only when its PUT is over, because the
client gives up after one attempt of 3 s to connect and 10 s to read, and a row
is stale after 60 s.

In `Onboarding` the customer saves his identity, uploads documents from one page
or from several, accepts the offer that is current, changes his link, asks for a
code and enters it, while administrators edit, approve and publish offers.  What a
code remembered when it was issued (`Snapshot`) is compared under the locks when
it is used (`Verify`).  The creation of the draft is the initial state.

`OnboardingPages` gives each page as a function of the state and each form's answer
as a function of what it brought and the state it arrives in.
`PagesGuideOnboarding`: a page shows what is missing, offers what will be accepted,
and never leaves the customer with nothing to do; a form of an older page is
answered with what changed.

### TenantRequests: forms in a shop

A request begins with the transaction that finds out who is asking and for which
shop his session is (`SubmitDebt`, `SubmitPayment`, `SubmitDisclosure`, `SubmitLink`,
`SubmitAdd`, `SubmitRole`, `SubmitRevoke`), counts itself (`Attempt`), looks for its key
(`Look`), and acts under the locks of shop, membership and user (`CreateDebt`,
`RecordPayment`, `Disclose`, `LinkCustomer`, `ManageStaff`).  Between these steps others
act, shops are selected, provisioned and suspended.  `ActsAtOnce` is the refinement
of `ShopBook`: however long ago a request found out who is asking, what it does it
does at one moment, for somebody who works in the shop then.

Where the code is finer than the model: the routes of staff commit the selected
shop together with what they do, while here it changes when the form arrives; the
user's row is locked by all that use a key, which is why two inserts of one key
come one after the other; the replay of a debt is answered before any lock and to
whoever has the key, and the model does the same; forms that name a customer by
telephone act in the shop of the session; no code changes `users.is_active`, so
users stay active.

## Runs

| run | instance | states | shows |
|---|---|---|---|
| `debt_lifecycle` | amounts 4 / 3, 4 business days of 2 instants, 9 revisions | 45 thousand | `LedgerCoherent` (status and posted total agree), `RowLoads`, `EvidencePermanent` |
| `payment_ledger` | two debts, 3 / 2 with 8 revisions and 1 with 3, both due on day 1 of 0 to 2, one row in the administrator's list | 47 thousand | `RatingHistoryAccepted`, `VoidSourceProvable`, `SourcesCoherent`, `RewardsMatchLedger`, `HistoryIsAStack`, `KeysExplainEffects`, `AuditTrailUnbroken`, `NoBonusFarming`, `PagesCompose`, `PagesOfferWhatIsAccepted`, `RefinesLifecycle`, `ReceiptsNeverChange` |
| `payment_replay` | as `payment_ledger` | | **violated**: `CompletedPaymentReplays` (see "Findings") |
| `credit_gate` | two shops, one debt each, two sessions, 3 days | | `NoCreditWhileBlocked` across shops, `DecidedOnce` |
| `credit_gate_shop` | one shop, two proposals, three policies, two sessions | | `LimitsHoldAtCreation` with a changing policy |
| `login_code` | one user and browser, two open transactions, two challenges, two link generations, one dispatcher | | `CodesFollowLink`, `DispatchFollowsChallenge`, `LoginsExplained`, `GuessesBounded`, `EndsAreFinal` |
| `login_dispatch` | two dispatchers, one stop, one lost lock, fairness | | `SentOnce`, `DispatchesSettle` |
| `lock_order` | two transactions of any two ordered programs, two shops, two users | 541 thousand | `Undisturbed`, `NoDeadlock` |
| `lock_order_all` | two transactions of any two programs, one user | | **violated**: `NoDeadlock` (see "Findings") |
| `telegram_bot` | two users, one chat, two tokens, two updates, two processes, two attempts, one lost lock, one accident, fairness | 509 thousand | `EffectsOnce`, `LinksProven`, `HandlesInOrder` |
| `onboarding` | two uploads, one run of reconcile, two offers of two texts, four acts | 1.65 million | `RowsTruthful`, `DocumentsStored`, `ActiveAsConfirmed`, `ReplacesWhatWasSeen`, `ActivatesOnCurrentOffer`, `PagesGuideOnboarding` |
| `tenant_requests` | two users, two shops, two requests at a time, a limit of one, three acts | 1.09 million | `OwnerRemains`, `AnswersTrue`, `WindowsBounded`, `ActsAtOnce` |

### Bounds and why they are enough

* `MaxNow`, `MaxDay` end the calendar.  A debt knows four kinds of day - before
  and on its due date, after it, and after that again for what follows the
  overdue marking - and the horizon of `debt_lifecycle` holds them all.  That of
  `payment_ledger` ends on the first day after the due date, on which a debt can
  be marked, paid late, written off, recovered and all of it taken back.
* `MaxRevision` bounds payments and voids.  Eight revisions hold: accept, pay,
  void, pay late (two revisions), write off, recover in full, and the void of
  the recovery.  The second debt is paid once, or marked and written off: it competes
  with the first for the daily bonus and for the one row of the administrator's
  list.  The theorems remove these bounds.
* Amounts are small, with the discount strictly inside, so that a payment can be
  partial, exactly the discounted rest, between the two bases, or the whole.
* `StartScores` are one score in the middle and one so near the top that a bonus
  is cut off.
* Two sessions are enough for every race in which one decides and the other
  turns the decision over; two shops for the block across shops.  The theorems
  remove these bounds; `CreditNeverWhileBlocked` also covers policies that turn into
  a blacklisting, where `credit_gate` leaves the policy alone.
* `MaxChallenges` 2 lets one challenge replace or forestall another;
  `MaxLinks` 2 lets the link change once; `MaxAttempts` 2 lets a wrong answer
  burn a code or not.  `login_dispatch` sets `MaxAttempts` and `MaxLinks` to 1
  because its subject is the dispatchers.
* Two transactions, two shops and two users are enough for a ring of two and for
  the orders in which actor and customer may stand; longer rings are the business
  of the theorem.  `lock_order_all` needs one user and no shop.  That no flow
  out of the order disturbs another one is `NeverDisturbed`.
* `telegram_bot`: two updates are a `/start` and its contact, or two that race a
  token issued meanwhile; two users may open each other's links in one chat;
  `MaxFailures` 2 is one failure that is tried again and one that is not, and not
  less than the number of processes.  `MaxTrouble` and `MaxLosses` are one each.
  That several chats keep their links apart is the business of the theorem.
* `onboarding`: an activation takes four acts, or three when the identity was
  saved before, and `Init` allows both; so in four acts something can come
  between the code and its use.  Two uploads are two documents or one form sent
  twice.  One run of reconcile may work beside both; several runs are the business
  of the theorems.
* `tenant_requests`: two requests at a time of two users are two owners who demote
  each other, one form in two tabs, or a request and the revocation of its
  sender.  With a limit and a window of one, the second attempt is refused and the
  window rolls over once, between two requests that are both under way.  One key
  used at two shops takes more acts than the run has: `AlwaysTrue` covers it.
* Clock, revisions, acts and challenges are bounded, so the runs end although the
  program does not, and the configurations switch the deadlock check off.  It
  is on for `lock_order`, where nothing is bounded and nothing may stop.

Symmetry is used in runs without liveness only: for transactions, and in
`tenant_requests` for users, shops and slots, which no definition tells apart.

### Fairness

None is assumed of debts, payments, uploads and forms: nothing in the code
schedules the batches or `storage reconcile`, customers need not act, and no
liveness property is claimed there.  Liveness is claimed of the two processes
that run for ever:

* `login_dispatch` assumes what the deployment provides (`restart: unless-stopped`
  in compose.yaml, the loop in otp/dispatcher.py:281): transactions end, a process
  that is down is started again when the lock is free, and it goes round its loop.
  Strong fairness of `Prepare` says that the rows SKIP LOCKED passes over are not
  held at every one of the dispatcher's looks; strong fairness of an effective
  `Recover` says that a row which stays prepared becomes stale in the end.
* `telegram_bot` assumes the same of the worker's container and of the loop in
  telegram/worker.py, and strong fairness of the two steps that wait for the row
  lock of the cursor, which PostgreSQL grants in the order of the waiting.  Under
  it every update is handled: an update that always fails is passed at its last
  attempt.

## Findings

`payment_replay`: a payment made past its due date on a still-active debt
consumes two revisions, one for the inline overdue marking.  The resolver of a
retry accepts two - until the debt is written off, when
`_allowed_completed_revisions` (payment/service.py:613) admits one only.  The
retry of such a payment after the write-off is refused, although
docs/m14_scope_contract.md:135 promises that the same key replays the old payment
before any status is validated, and docs/m15_scope_contract.md:84-86 keeps that
promise for late materialization.  `KeysExplainEffects` shows that this is the
only case in which a retry does not find its effect.

`lock_order_all`: the contract says that the forward lock order excludes deadlock,
and m11_scope_contract.md:54-79 that neither retries nor timeouts are to be relied
on for it.  Saving an identity locks the customer and then, by the foreign key
of its audit row (customer_identity/service.py:145), the user; a registration code
being requested or dispatched for the same user holds the user and waits for the
customer.  The run shows the two waiting for each other, which PostgreSQL ends by
aborting one of them.  These flows leave the order:

* `SaveIdentity`, `AttachDocument`: the user, by foreign key, after the customer.
* `ChangeStaff`: the subject and the actor of the event, in that order, which is
  not the order of their identifiers.
* `IssueLoginOver`: the owner of an older code of the same browser, by the event
  that supersedes it, after the link of the new owner.
* `RecoverTwo`: the challenge of the second stale dispatch after the user of the
  first; the dispatches in order of preparation, passing over those in use.
* `VerifyRegistrationInShop`: the shop that the new session keeps, by foreign
  key, after everything else.
* `Renewing`: routes that share a database session with the dependency that
  renews `auth_sessions` (auth/deps.py:131) hold that row, the last of the order,
  first.

Not every one of them can be closed to a ring by another flow; the run shows one
that can.

## Proofs

| theorem | of | says |
|---|---|---|
| `TypeCorrect`, `LedgerCorrect`, `EvidenceCorrect`, `EvidenceIsPermanent`, `RowsAlwaysLoad` | `DebtLifecycle`, `DebtRow` | every invariant and the action property of its run |
| `LedgerImplementsLifecycle` | `PaymentLedger` | the refinement of `DebtLifecycle`, of every debt and step by step |
| `RetriesFindTheirEffects`, `LedgerIsAStack`, `VoidsAreProvable`, `WriteOffSourcesThere`, `RewardsAreOfTheLedger`, `TypeCorrect` | `PaymentLedger` | every invariant of its run |
| `TrailTellsOneStory` | `AuditTrail` | every audit row is accepted, and the rows of a debt tell one story |
| `RatingTakesItAll`, `FarmingNeverPays` | `RatingBook` | every event is stored, both readers accept every history, and a reward that was taken back leaves no score behind |
| `ReceiptsAreFinal`, `PagesAreShown`, `PagesKeepTheirWord` | `PaymentPages`, `DebtPages` | receipts never change; no page refuses its rows; a page offers what the mutation behind it accepts |
| `EvidenceCoherent`, `BooksInOrder`, `HistoriesLawful` | `PaymentLedger` and the modules over it | the inductive invariants these rest on |
| `TypeCorrect`, `CreditNeverWhileBlocked`, `DecisionsAreFinal`, `LimitsStand`, `LimitsAlwaysHold` | `CreditGate` | every property of its runs: no credit becomes visible while blocked; one decision per proposal and no lost payment; an admitted proposal is within the limits until its commit and when it becomes visible |
| `TypeCorrect`, `CodesAlwaysFollowLink`, `DispatchAlwaysFollows`, `AlwaysSentOnce`, `LoginsAlwaysExplained`, `GuessesAlwaysBounded`, `EndsStayFinal` | `LoginCode` | every safety property of its runs |
| `TypeCorrect`, `NeverDisturbed`, `NeverDeadlocked` | `LockOrder` | of all flows, that no decision is disturbed; of those in the order, that they never wait in a ring, of whatever length |
| `TypeCorrect`, `AlwaysProven`, `AlwaysOnce`, `ImplementsQueue` | `TelegramBot` | every invariant of its run, and the safety half of the refinement |
| `AlwaysOwned`, `AlwaysTrue`, `AlwaysBounded`, `AlwaysAtOnce` | `TenantRequests` | every property of its run, the refinement included |
| `TypeCorrect`, `AlwaysTruthful`, `AlwaysStored`, `AlwaysAsConfirmed`, `AlwaysReplacesSeen`, `AlwaysOnCurrentOffer`, `PagesKeepTheirPromise` | `ObjectFiles`, `Onboarding`, `OnboardingPages` | every property of their run, for any number of uploads and overlapping runs of reconcile |

The assumptions are the named `ASSUME`s of the modules: amounts are positive with
the discount not above the original, calendars do not run backwards, identifiers
of different kinds differ.  Three theorems say more in their statement: that
there are finitely many users (`TenantRequests`, which counts owners), and that
there are no more processes than attempts (`AlwaysOnce`, `ImplementsQueue`).  Each
proof goes through one inductive invariant.

* **DebtLifecycle.**  `TypeOK`, `LedgerCoherent` and `EvidenceChain` are inductive
  only together: the types bound the instants the other two compare, the ledger
  keeps the posted total in range when a payment is voided, and the chain tells
  on which basis a paid debt was paid.  `RowLoads` follows from the three, status by
  status.
* **PaymentLedger.**  Three invariants, one on the other.
  * `Inv`, the evidence, needs no sum: a payment is full or it is not, whatever the
    remaining balance, and two totals are the same because they are of the same
    payments.  Every revision is used once, by a payment, a void or a marking
    (`Cover`), and whatever a terminal status rests on carries the revision the debt
    has now (`Terminal`), so that the latest payment is the one a void has to
    explain.  Of the rewards that are not taken back, only that of a debt that is
    paid or settled now is open; of the daily slot, that two bonuses of one day are
    the same event.
  * `Books` needs sums: what a payment adds its void takes away, what was posted at a
    revision never changes, and no total goes beyond what was owed when it was
    posted.  With it come the ranges of `TypeOK`, the refinement of `DebtLifecycle`
    and the pages.
  * `Chronicle` is about the events of a debt as a sequence: in order, of new
    sources, every cycle of the readers possible (`Lawful`), and each compensation
    with the payment, reward, audit and void it is of (`Explained`).  A batch stamps
    the day it began on, so an event could come out of order; it does not, because
    whatever happened to an active debt happened within its due date, and the batch
    began after that.  `NoBonusFarming` follows: row by row, the score of all events
    is ahead of the score without the pairs by no more than the rewards of pairs
    half passed, because cutting off brings scores closer; after the last row there
    are none.

  Sums, cardinalities and folds of the library are recursive functions over sets.
  Their induction is done without the library's induction theorems: among the
  sets for which a claim fails there is one that has no smaller one inside it
  (`Least`), and taking an element out of that one contradicts it.
* **CreditGate.**  `Holding` says who holds which lock, `Purpose` what a
  transaction is about, `Decided` that the reasons of every uncommitted write
  are still true.  The work is in showing that no other transaction's commit
  disturbs `Decided`: it would need a lock this one holds.  `LimitsStand` says so
  of the limits, and `LimitsAlwaysHold` of the commit itself: the exposure it
  leaves is the one that was compared, and the new amount.  That any debt may be
  taken out of a sum, wherever the fold takes it first, is shown by the least
  counterexample as for the ledger.
* **LoginCode.**  Every step changes a challenge and its dispatch in one of a few
  ways (`Kept`, `TakenDown`, `Inserted`, `Answered`, `Activated`, `Finished`);
  the invariants about one row, and that nothing is revived, follow from the
  kinds.  `Born` says whose a row is, `Snapshots` what a transaction may have
  read, `Carried` what a dispatcher has in hand: a code that no other dispatcher
  sends and that was not sent before.
* **LockOrder.**  A lemma for each program says that it is `Orderly`: rows that stand
  alone ascend, rows of a shop come after the row of the shop, a row is locked
  again only if it was held FOR UPDATE or under the token of its user, and the
  program is `Covered`: before it reads or changes a datum it locks the row that
  guards it (the customer, the link, the versions of the offer), FOR UPDATE to change
  it and FOR SHARE at least to read it.  The programs out of the order are only
  `Guarded`, which is enough for `NeverDisturbed`: two transactions that are both past
  the guard of one datum, one of them to change it, would hold locks of one row that
  exclude each other (`Exclusive`, a part of the invariant).  For `NeverDeadlocked`
  the invariant also says that whatever runs is orderly.  In a ring,
  no one wants a row of a shop, because the one who has it has the shop too; so
  of the wanted rows one is the last in the order, and who has that one cannot
  be waiting.  The last row exists because finite sets are well founded under
  inclusion, a theorem of the library that takes no operator.
* **TelegramBot.**  `Bindings` ties a token that is bound and open to the chat that
  opened it, and a token that ended never changes, so that what made a link can be
  read off its token for ever.  Only the holder of the cursor's row is in
  transaction A (`Applying`), and what is beyond the cursor was never applied
  (`Ahead`).  That an update is never quarantined after it was applied is counting:
  the attempts it has left are at least the processes that still have a failure of
  it to report (`Spared`).  For the queue, the batches that processes hold are
  contiguous and begin not beyond the cursor, so that the update a process handles is the
  next one or one that was passed.
* **TenantRequests.**  A key's row and what was committed for it always agree
  (`KeysTrue`) and a row never changes, so an answer stays true.  What a window let
  through belongs to the current one or to one that ended before it began
  (`Windows`).  An owner remains because counting and going happen in one step
  under the lock of the shop; the theorem is about every other step leaving them
  alone, and about cardinalities.
* **Onboarding.**  A row of object_files only moves forward (`Forward`), and what a
  request or a run learnt of an object stays true for as long as its mark can still
  take effect (`Learnt`); a run claims only files whose PUT is over (`Sent`).  With
  these the rows are true without looking at the times that keep slow marks from
  undoing later ones.  On top: what is attached stays available because only what is
  not attached is given up (`Attached`), a text that was accepted is not edited any
  more (`Frozen`), and what an active customer confirmed can no longer be changed
  (`Confirmed`).  Pages ask unlocked queries of their own - one current document, one
  current offer - and agree with the locked ones because there is one of each
  (`OneCurrent`).

Every safety property of every passing run is stated by one of these theorems, the
two refinements and the action properties included.  Only model-checked is liveness,
which the provers here cannot do: `DispatchesSettle`, and that the queue of updates
is served (the fairness of `UpdateQueue` in `HandlesInOrder`, whose steps
`ImplementsQueue` proves).  Termination of the recursive readers is not an issue:
they are folds.

## Not modelled, and why

Parsing and rendering of forms, password hashing, encryption and
canonicalisation of identity documents, image decoding, cookies and CSRF tokens
are functions over bytes or calls into libraries.  Migrations are read as facts
about the rows.  Wording is left out: so is that the list of debts calls a debt
past its due date "overdue" before it is marked, where a receipt still says active.

* In `PaymentLedger` and over it: the reconciliation of debts older than the
  ratings, a command for one migration; the pages of pending debts; who besides
  staff may open a page.
* In `CreditGate`: the acceptance of the current debt offer text, and the defaults
  a shop gives new customers.
* In `LoginCode`, time (expiry, staleness, cooldowns) is a possibility rather than
  a clock, and the purge of old rows and the heartbeat are left out.
* In `LockOrder`: the row of the polling cursor, the rate-limit windows, the locks of
  the storage service's own transactions, the fairness of PostgreSQL's wait queues.
* In `TelegramBot`: the preflight that calls Telegram before the loop, the heartbeat
  and the readiness probe, waiting times, the wording and language of replies; in
  `LinkTokens`, the purge of tokens that ended long ago.
* In `ObjectFiles`: failure codes, presigned URLs (whose authorization is in
  `OnboardingPages`), `storage delete`, which refuses to run outside local
  environments.  Files that became available but were never attached are not
  cleaned by any operation (docs/m8_known_limitations.md:74-77); the model has them too.
* In `Onboarding`: creating a version of an offer and a second language; expiry of
  the session; rate limits, whose windows are in `TenantRequests`.
* In `TenantRequests`: what else refuses a debt, a payment or a disclosure, which is
  an answer that may always be given; limits per telephone number and address.
* Revocation of sessions, password login and logout; the audit rows of other
  components than payment, which the program writes and never reads.

## Plan

Done: the abstract debt, the ledger that implements it with audit, rating and pages,
credit decisions, login codes, lock orders, the bot with its links, storage and
onboarding, and requests in a shop.

The theorems cover the safety side of all of it.  Next, in the order of importance:

1. The customer's acceptance of a debt offer in `CreditGate`: the text accepted is
   the one that is current under the lock; with its theorem.
2. Sessions: revocation and logout against requests under way, with the renewal in
   auth/deps.py.
3. The purge of codes and tokens beside those who still look at them.
4. In `RatingBook`, what several debts do on one day taken in any interleaving, not
   debt by debt; the proof of `FarmingNeverPays` asks only for some total order that
   keeps the order of each debt.
