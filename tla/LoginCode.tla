------------------------------ MODULE LoginCode ------------------------------
(***************************************************************************)
(* One-time login codes: a web request puts a challenge and its dispatch   *)
(* in the database, the dispatcher process makes up the code, activates    *)
(* the challenge and sends the code over Telegram, and the browser that    *)
(* asked for it exchanges the code for a session.  Meanwhile the user may  *)
(* link another Telegram account or unlink the one there is.               *)
(*                                                                         *)
(* Every web transaction first reads, without locks, the ids of the open   *)
(* challenges it is about, then locks their dispatches, the challenges     *)
(* themselves, the User and the TelegramLink, in this order.  Rows under   *)
(* lock do not change, so the transaction is two steps: a Begin that takes *)
(* the snapshot and a second step, at the moment its last lock is granted, *)
(* that does everything else.  What may happen in between is the insertion *)
(* of a challenge that the snapshot does not have, and the end of one that *)
(* it has.                                                                 *)
(*                                                                         *)
(* Time is left out: that a code has expired, that a prepared dispatch has *)
(* been waiting for too long, and that a request comes too early to be     *)
(* answered with a new code, are possibilities.  So are the rate limits.   *)
(***************************************************************************)
EXTENDS Integers, FiniteSets

CONSTANTS
    Users, Browsers,   \* a browser is one anonymous session: its token is the binding
    Txs,               \* the web and bot transactions that may be open
    Workers,           \* the dispatcher processes
    Nobody, Ended,
    MaxAttempts,       \* OTP_LOGIN_MAX_VERIFY_ATTEMPTS
    BatchSize,         \* OTP_DISPATCH_BATCH_SIZE
    MaxChallenges,     \* bound: challenges ever inserted
    MaxLinks,          \* bound: generations of a user's link
    MaxStops,          \* bound: crashes and shutdowns of dispatchers
    MaxLosses          \* bound: advisory locks lost with their connection

ASSUME CodeAssumption ==
    /\ MaxAttempts \in Nat \ {0}
    /\ BatchSize \in Nat \ {0}
    /\ {MaxChallenges, MaxLinks, MaxStops, MaxLosses} \subseteq Nat
    /\ {Nobody, Ended} \cap (Users \cup Workers) = {}
    /\ Nobody # Ended

Ids == 1..MaxChallenges

VARIABLES
    challenge,    \* [Ids -> row of otp_challenges]
    dispatch,     \* [Ids -> status of the challenge's row of otp_dispatches]
    link,         \* [Users -> generation (linked_at) and whether it is active]
    session,      \* [Browsers -> Nobody while anonymous, then whose it became, or Ended]
    tx,           \* [Txs -> what the transaction does and has read]
    worker,       \* [Workers -> where the dispatcher process is]
    lockHolder,   \* who holds the advisory lock
    deliveries,   \* [Ids -> times the code reached Telegram]
    stops, losses

rows == <<challenge, dispatch>>
process == <<worker, lockHolder, deliveries, stops, losses>>
vars == <<rows, link, session, tx, process>>

Unborn == [status |-> "none", user |-> Nobody, browser |-> Nobody, linkedAt |-> 0,
           attempts |-> 0]
NoTx == [kind |-> "none", user |-> Nobody, browser |-> Nobody, ids |-> {}, linkedAt |-> 0,
         code |-> 0]
Down == [at |-> "down", item |-> 0, result |-> "none", left |-> 0]

Init ==
    /\ challenge = [c \in Ids |-> Unborn]
    /\ dispatch = [c \in Ids |-> "none"]
    /\ link = [u \in Users |-> [linkedAt |-> 1, active |-> TRUE]]
    /\ session = [b \in Browsers |-> Nobody]
    /\ tx = [t \in Txs |-> NoTx]
    /\ worker = [w \in Workers |-> Down]
    /\ lockHolder = Nobody
    /\ deliveries = [c \in Ids |-> 0]
    /\ stops = 0
    /\ losses = 0

-----------------------------------------------------------------------------
Outstanding(c) == challenge[c].status \in {"pending_dispatch", "active"}

\* A dispatch that a terminal challenge takes down with it.
Open(c) == dispatch[c] \in {"pending", "prepared"}

OutstandingOf(u) == {c \in Ids : Outstanding(c) /\ challenge[c].user = u}
OutstandingIn(b) == {c \in Ids : Outstanding(c) /\ challenge[c].browser = b}

\* The challenge was issued for the link its user has now.
LinkCurrent(c) ==
    /\ link[challenge[c].user].active
    /\ link[challenge[c].user].linkedAt = challenge[c].linkedAt

\* The rows of the snapshot that the locks still find outstanding.
Locked(t) == {c \in tx[t].ids : Outstanding(c)}

EndedRows(cs, status) ==
    [c \in Ids |-> IF c \in cs THEN [challenge[c] EXCEPT !.status = status] ELSE challenge[c]]

\* Mutant: the challenge ends and its dispatch is left to the dispatcher.
LeftOpen(cs) == dispatch

\* Mutant: the dispatch is given the status of its challenge.
EndedAlike(cs) == [c \in Ids |-> IF c \in cs /\ Open(c) THEN "superseded" ELSE dispatch[c]]

Cancelled(cs) == [c \in Ids |-> IF c \in cs /\ Open(c) THEN "cancelled" ELSE dispatch[c]]

\* Challenges are terminalized together with their open dispatches.
EndAll(cs, status) ==
    /\ challenge' = EndedRows(cs, status)
    /\ dispatch' = Cancelled(cs)

-----------------------------------------------------------------------------
(* Web and bot transactions.                                               *)

Begin(t, request) ==
    /\ tx[t] = NoTx
    /\ tx' = [tx EXCEPT ![t] = request]
    /\ UNCHANGED <<rows, link, session, process>>

Done(t) == tx' = [tx EXCEPT ![t] = NoTx]

\* Refused, rolled back, or its process died: nothing of it remains.
Abort(t) ==
    /\ tx[t] # NoTx
    /\ Done(t)
    /\ UNCHANGED <<rows, link, session, process>>

\* _request_login_otp_domain: eligibility first, then the ids by user or browser.
BeginIssue(t, u, b) ==
    /\ link[u].active
    /\ Begin(t, [NoTx EXCEPT !.kind = "issue", !.user = u, !.browser = b,
                             !.ids = OutstandingOf(u) \cup OutstandingIn(b),
                             !.linkedAt = link[u].linkedAt])

\* _request_new_login_code_domain: for the browser's challenge and its user.
BeginNewCode(t, c) ==
    /\ Outstanding(c)
    /\ Begin(t, [NoTx EXCEPT !.kind = "new_code",
                             !.user = challenge[c].user, !.browser = challenge[c].browser,
                             !.ids = OutstandingOf(challenge[c].user)
                                       \cup OutstandingIn(challenge[c].browser),
                             !.linkedAt = challenge[c].linkedAt,
                             !.code = c])

BeginVerify(t, b) ==
    /\ session[b] = Nobody
    /\ Begin(t, [NoTx EXCEPT !.kind = "verify", !.browser = b, !.ids = OutstandingIn(b)])

BeginLinkChange(t, u) ==
    Begin(t, [NoTx EXCEPT !.kind = "link_change", !.user = u, !.ids = OutstandingOf(u)])

\* The row of the next insertion.
Fresh(c) ==
    /\ challenge[c].status = "none"
    /\ \A d \in 1..(c - 1) : challenge[d].status # "none"

\* The partial unique indexes on the outstanding rows of a user and of a browser.
Conflicts(u, b, replaced) ==
    (OutstandingOf(u) \cup OutstandingIn(b)) \ replaced # {}

\* _issue_challenge_for_target.  The old codes end either way; the insertion
\* that a concurrent request has forestalled is answered as if it had been done.
Replace(t, linkedAt) ==
    LET u == tx[t].user
        b == tx[t].browser
    IN  /\ \/ /\ Conflicts(u, b, Locked(t))
              /\ EndAll(Locked(t), "superseded")
           \/ \E new \in Ids :
              /\ ~Conflicts(u, b, Locked(t))
              /\ Fresh(new)
              /\ challenge' = [EndedRows(Locked(t), "superseded") EXCEPT ![new] =
                   [status |-> "pending_dispatch", user |-> u, browser |-> b,
                    linkedAt |-> linkedAt, attempts |-> 0]]
              /\ dispatch' = [Cancelled(Locked(t)) EXCEPT ![new] = "pending"]
        /\ Done(t)
        /\ UNCHANGED <<link, session, process>>

\* The link is looked up before the locks and asked for again under them, in
\* one ORM session: it may answer with the row as it was looked up, or as it is.
Issue(t) ==
    /\ tx[t].kind = "issue"
    /\ \/ Replace(t, tx[t].linkedAt)
       \/ /\ link[tx[t].user].active
          /\ Replace(t, link[tx[t].user].linkedAt)

NewCode(t) ==
    /\ tx[t].kind = "new_code"
    /\ tx[t].code \in Locked(t)
    /\ LinkCurrent(tx[t].code)
    /\ Replace(t, tx[t].linkedAt)

\* Mutant: a code burns only after the attempt that exceeds the limit.
AnswerOneTooMany(c, right) ==
    IF right THEN [challenge[c] EXCEPT !.status = "consumed"]
    ELSE [challenge[c] EXCEPT
            !.attempts = @ + 1,
            !.status = IF challenge[c].attempts + 1 > MaxAttempts THEN "burned" ELSE @]

\* _consume_verified_candidate and _record_wrong_candidate_attempt
Answer(c, right) ==
    IF right THEN [challenge[c] EXCEPT !.status = "consumed"]
    ELSE [challenge[c] EXCEPT
            !.attempts = @ + 1,
            !.status = IF challenge[c].attempts + 1 >= MaxAttempts THEN "burned" ELSE @]

\* Mutant: the domain phase returns instead of raising, and its code is spent.
SpendsAnyway(b, right) == TRUE

\* The session row, locked, is anonymous and not over; otherwise a correct
\* answer is rolled back.
SpendsIfRotates(b, right) == right => session[b] = Nobody

\* verify_login_otp, and the rotation of the session in the same transaction.
\* That an active code's link is no longer current is ruled out by
\* CodesFollowLink, but the code looks.
Verify(t, right) ==
    LET b == tx[t].browser
    IN  \E c \in Locked(t) :
        /\ tx[t].kind = "verify"
        /\ Locked(t) = {c}
        /\ challenge[c].status = "active"
        /\ IF LinkCurrent(c)
           THEN /\ SpendsIfRotates(b, right)
                /\ challenge' = [challenge EXCEPT ![c] = Answer(c, right)]
                /\ session' = IF right /\ session[b] = Nobody
                              THEN [session EXCEPT ![b] = challenge[c].user] ELSE session
                /\ UNCHANGED dispatch
           ELSE EndAll({c}, "invalidated") /\ UNCHANGED session
        /\ Done(t)
        /\ UNCHANGED <<link, process>>

VerifyExpired(t) ==
    \E c \in Locked(t) :
        /\ tx[t].kind = "verify"
        /\ Locked(t) = {c}
        /\ challenge[c].status = "active"
        /\ challenge' = [challenge EXCEPT ![c].status = "expired"]
        /\ Done(t)
        /\ UNCHANGED <<dispatch, link, session, process>>

\* The anonymous session expires.
EndSession(b) ==
    /\ session[b] = Nobody
    /\ session' = [session EXCEPT ![b] = Ended]
    /\ UNCHANGED <<rows, link, tx, process>>

\* Mutant: challenges inserted since the snapshot are not looked for.
NothingChecked(t) == TRUE

\* _link_change_otp_state_is_current
SnapshotCurrent(t) == OutstandingOf(tx[t].user) = Locked(t)

\* consume_start_token and unlink
ChangeLink(t, unlink) ==
    LET u == tx[t].user
    IN  /\ tx[t].kind = "link_change"
        /\ SnapshotCurrent(t)
        /\ IF unlink
           THEN /\ link[u].active
                /\ link' = [link EXCEPT ![u].active = FALSE]
           ELSE /\ link[u].linkedAt < MaxLinks
                /\ link' = [link EXCEPT ![u] = [linkedAt |-> @.linkedAt + 1, active |-> TRUE]]
        /\ EndAll(Locked(t), "invalidated")
        /\ Done(t)
        /\ UNCHANGED <<session, process>>

-----------------------------------------------------------------------------
(* The dispatcher process.                                                 *)

GoTo(w, place) == worker' = [worker EXCEPT ![w] = place]

Batch(left) == [at |-> "batch", item |-> 0, result |-> "none", left |-> left]
Recovery == [at |-> "recovery", item |-> 0, result |-> "none", left |-> 0]

Start(w) ==
    /\ worker[w] = Down
    /\ lockHolder = Nobody
    /\ lockHolder' = w
    /\ GoTo(w, Batch(BatchSize))
    /\ UNCHANGED <<rows, link, session, tx, deliveries, stops, losses>>

\* Nobody looks at the lock again once it is held.
LoseLock(w) ==
    /\ losses < MaxLosses
    /\ lockHolder = w
    /\ lockHolder' = Nobody
    /\ losses' = losses + 1
    /\ UNCHANGED <<rows, link, session, tx, worker, deliveries, stops>>

\* A crash or a shutdown.  A message on its way may still arrive.
Stop(w) ==
    /\ stops < MaxStops
    /\ worker[w] # Down
    /\ GoTo(w, Down)
    /\ lockHolder' = IF lockHolder = w THEN Nobody ELSE lockHolder
    /\ stops' = stops + 1
    /\ \/ UNCHANGED deliveries
       \/ /\ worker[w].at = "sending"
          /\ deliveries' = [deliveries EXCEPT ![worker[w].item] = @ + 1]
    /\ UNCHANGED <<rows, link, session, tx, losses>>

\* Rows that a transaction may hold and that SKIP LOCKED passes over.
Held == UNION {tx[t].ids : t \in Txs}

Claimable(c) == dispatch[c] = "pending"

\* prepare_next_otp_dispatch of the dispatch that the claim found.  Which of
\* several is oldest is left open.
Prepare(w) ==
    /\ worker[w].at = "batch"
    /\ \E c \in Ids :
        /\ Claimable(c)
        /\ IF challenge[c].status = "pending_dispatch" /\ LinkCurrent(c)
           THEN /\ challenge' = [challenge EXCEPT ![c].status = "active"]
                /\ dispatch' = [dispatch EXCEPT ![c] = "prepared"]
                /\ GoTo(w, [at |-> "sending", item |-> c, result |-> "none",
                            left |-> worker[w].left - 1])
           ELSE /\ challenge' = IF challenge[c].status = "pending_dispatch"
                     THEN [challenge EXCEPT ![c].status = "invalidated"] ELSE challenge
                /\ dispatch' = [dispatch EXCEPT ![c] = "cancelled"]
                /\ GoTo(w, Recovery)
    /\ UNCHANGED <<link, session, tx, lockHolder, deliveries, stops, losses>>

NothingToPrepare(w) ==
    /\ worker[w].at = "batch"
    /\ \A c \in Ids : Claimable(c) => c \in Held
    /\ GoTo(w, Recovery)
    /\ UNCHANGED <<rows, link, session, tx, lockHolder, deliveries, stops, losses>>

\* send_otp, outside any transaction.  Only an answer from Telegram says that
\* the code arrived; an error does not say that it did not.
Send(w) ==
    LET c == worker[w].item
    IN  /\ worker[w].at = "sending"
        /\ \E result \in {"sent", "failed", "unknown"}, arrived \in BOOLEAN :
             /\ result = "sent" => arrived
             /\ deliveries' = IF arrived THEN [deliveries EXCEPT ![c] = @ + 1] ELSE deliveries
             /\ GoTo(w, [worker[w] EXCEPT !.at = "reporting", !.result = result])
        /\ UNCHANGED <<rows, link, session, tx, lockHolder, stops, losses>>

\* Mutant: the result is recorded whatever has become of the dispatch.
ReportableAny(c) == TRUE

Reportable(c) == dispatch[c] = "prepared"

\* record_otp_delivery_result, then the next of the batch.
Report(w) ==
    LET c == worker[w].item
    IN  /\ worker[w].at = "reporting"
        /\ dispatch' = IF Reportable(c)
             THEN [dispatch EXCEPT ![c] = worker[w].result] ELSE dispatch
        /\ GoTo(w, IF worker[w].left = 0 THEN Recovery ELSE Batch(worker[w].left))
        /\ UNCHANGED <<challenge, link, session, tx, lockHolder, deliveries, stops,
                       losses>>

\* Mutant: what was prepared is taken for sent.
RecoveredSent == "sent"

\* Mutant: recovery leaves the row for the next round.
RecoveredLater == "prepared"

Recovered == "unknown"

\* recover_stale_prepared_dispatches, at most a batch at a time.  Which of the
\* prepared dispatches have been so for OTP_DISPATCH_STALE_SECONDS is left open,
\* as is whether SKIP LOCKED passes over them.
Recover(w) ==
    /\ worker[w].at = "recovery"
    /\ \E stale \in SUBSET {c \in Ids : dispatch[c] = "prepared"} :
        /\ Cardinality(stale) <= BatchSize
        /\ dispatch' = [c \in Ids |-> IF c \in stale THEN Recovered ELSE dispatch[c]]
    /\ GoTo(w, Batch(BatchSize))
    /\ UNCHANGED <<challenge, link, session, tx, lockHolder, deliveries, stops, losses>>

-----------------------------------------------------------------------------
Begins(t) ==
    \/ \E u \in Users, b \in Browsers : BeginIssue(t, u, b)
    \/ \E c \in Ids : BeginNewCode(t, c)
    \/ \E b \in Browsers : BeginVerify(t, b)
    \/ \E u \in Users : BeginLinkChange(t, u)

Ends(t) ==
    \/ Issue(t)
    \/ NewCode(t)
    \/ \E right \in BOOLEAN : Verify(t, right)
    \/ VerifyExpired(t)
    \/ \E unlink \in BOOLEAN : ChangeLink(t, unlink)
    \/ Abort(t)

Dispatch(w) ==
    \/ Prepare(w)
    \/ NothingToPrepare(w)
    \/ Send(w)
    \/ Report(w)
    \/ Recover(w)

Next ==
    \/ \E t \in Txs : Begins(t) \/ Ends(t)
    \/ \E b \in Browsers : EndSession(b)
    \/ \E w \in Workers : Start(w) \/ LoseLock(w) \/ Stop(w) \/ Dispatch(w)

Spec == Init /\ [][Next]_vars

\* Transactions end, the container restarts its process, and a process goes
\* round its loop.  A pending row is passed over only while a transaction holds
\* it, which is not the case every time the dispatcher looks, and a row that
\* stays prepared has been so for too long in the end.
Fairness ==
    /\ \A t \in Txs : WF_vars(Ends(t))
    /\ \A w \in Workers :
        /\ WF_vars(Start(w))
        /\ WF_vars(Dispatch(w))
        /\ SF_vars(Prepare(w))
        /\ SF_vars(Recover(w) /\ dispatch' # dispatch)

FairSpec == Spec /\ Fairness

-----------------------------------------------------------------------------
(* Properties.                                                             *)

ChallengeStatuses == {"none", "pending_dispatch", "active", "consumed", "superseded", "expired",
                      "burned", "invalidated"}
DispatchStatuses == {"none", "pending", "prepared", "sent", "failed", "unknown", "cancelled"}
ChallengeRow ==
    [status : ChallengeStatuses, user : Users \cup {Nobody}, browser : Browsers \cup {Nobody},
     linkedAt : Nat, attempts : Nat]
Transaction ==
    [kind : {"none", "issue", "new_code", "verify", "link_change"},
     user : Users \cup {Nobody}, browser : Browsers \cup {Nobody},
     ids : SUBSET Ids, linkedAt : Nat, code : Nat]
Place ==
    [at : {"down", "batch", "sending", "reporting", "recovery"}, item : Nat,
     result : {"none", "sent", "failed", "unknown"}, left : Int]

\* Type invariant.
TypeOK ==
    /\ challenge \in [Ids -> ChallengeRow]
    /\ dispatch \in [Ids -> DispatchStatuses]
    /\ link \in [Users -> [linkedAt : Nat, active : BOOLEAN]]
    /\ session \in [Browsers -> Users \cup {Nobody, Ended}]
    /\ tx \in [Txs -> Transaction]
    /\ worker \in [Workers -> Place]
    /\ lockHolder \in Workers \cup {Nobody}
    /\ deliveries \in [Ids -> Nat]
    /\ stops \in Nat
    /\ losses \in Nat

\* A code that can be used to log in was made up for the link its user has
\* now: linking another account and unlinking take away every code of the old
\* link (docs/m7_scope_contract.md:51), those issued while they were at work
\* included, although a request may issue its challenge for a link that has
\* changed since it looked it up.
CodesFollowLink == \A c \in Ids : challenge[c].status = "active" => LinkCurrent(c)

\* A challenge waits for its code exactly as long as its dispatch waits for
\* the dispatcher, and a challenge that was replaced or invalidated leaves no
\* dispatch open behind it, so that the dispatcher never makes up a code for a
\* challenge that has ended.
DispatchFollowsChallenge ==
    \A c \in Ids :
        /\ dispatch[c] = "pending" <=> challenge[c].status = "pending_dispatch"
        /\ dispatch[c] = "prepared" =>
             challenge[c].status \in {"active", "consumed", "expired", "burned"}

\* No code is sent twice, whoever crashes at whatever moment and however many
\* dispatchers run (docs/m7_decisions.md:31), none is sent before its challenge
\* is committed as active, and a dispatch is called sent only if its code
\* arrived.
SentOnce ==
    \A c \in Ids :
        /\ deliveries[c] <= 1
        /\ dispatch[c] \in {"none", "pending"} => deliveries[c] = 0
        /\ dispatch[c] = "sent" => deliveries[c] = 1

\* A session logs in exactly by consuming one code of its browser, for the
\* user of that code, and a consumed code has logged a session in: concurrent
\* correct answers make one login (docs/m7_scope_contract.md:743), and none
\* spends the code without it.
LoginsExplained ==
    \A b \in Browsers :
        LET consumed == {c \in Ids : challenge[c].status = "consumed" /\ challenge[c].browser = b}
        IN  IF session[b] \in Users
            THEN \E c \in Ids : consumed = {c} /\ challenge[c].user = session[b]
            ELSE consumed = {}

\* However wrong answers and resends interleave, a challenge takes at most
\* MaxAttempts wrong answers, the last of which burns it.
GuessesBounded ==
    \A c \in Ids :
        /\ challenge[c].attempts <= MaxAttempts
        /\ challenge[c].attempts = MaxAttempts <=> challenge[c].status = "burned"

Terminal == {"consumed", "superseded", "expired", "burned", "invalidated"}
Settled == {"sent", "failed", "unknown", "cancelled"}

\* What has ended stays as it ended: a late report, a recovery or a resend
\* never revives a challenge or rewrites the outcome of a dispatch
\* (docs/m7_scope_contract.md:495).
NothingRevived ==
    \A c \in Ids :
        /\ challenge[c].status \in Terminal => challenge'[c] = challenge[c]
        /\ dispatch[c] \in Settled => dispatch'[c] = dispatch[c]

EndsAreFinal == [][NothingRevived]_vars

\* Every dispatch comes to an end, whatever crashes: a pending one survives
\* until a dispatcher is back, a prepared one that nobody reports is recovered
\* (docs/m7_dispatcher_runbook.md:111).
DispatchesSettle ==
    \A c \in Ids : dispatch[c] \in {"pending", "prepared"} ~> dispatch[c] \in Settled
=============================================================================
