---------------------------- MODULE TelegramBot ----------------------------
(***************************************************************************)
(* The polling worker of the Telegram bot, and the links it makes          *)
(* (LinkTokens).  The worker asks Telegram for the updates from its cursor *)
(* on and handles them in the order of their ids.  Transaction A locks the *)
(* cursor, applies the update and moves the cursor past it.  When it fails *)
(* for no passing reason, transaction B counts the failure, and at the     *)
(* last attempt quarantines the update and moves the cursor itself.  The   *)
(* reply is sent after the commit and at most once.                        *)
(*                                                                         *)
(* One process is meant to poll: it holds an advisory lock, which goes     *)
(* with its connection without the process noticing.  The container        *)
(* restarts a process that stopped.  Telegram keeps an update until the    *)
(* worker asks for a later one, and so delivers it again.                  *)
(*                                                                         *)
(* Updates are numbered from 1 and the cursor is the number of those it    *)
(* has passed.  Left out: the preflight, the heartbeat and readiness,      *)
(* waiting times, the wording and the language of replies.                 *)
(***************************************************************************)
EXTENDS LinkTokens

CONSTANTS
    Workers,          \* the processes
    MaxFailures,      \* TELEGRAM_FAILURE_QUARANTINE_ATTEMPTS
    MaxUpdates,       \* bound: updates ever sent
    MaxTrouble,       \* bound: crashes, shutdowns, passing failures of the database
                      \* or of Telegram
    MaxLosses         \* bound: advisory locks lost with their connection

ASSUME BotAssumption ==
    /\ Nobody \notin Workers
    /\ MaxFailures \in Nat \ {0}
    /\ {MaxUpdates, MaxTrouble, MaxLosses} \subseteq Nat

Updates == 1..MaxUpdates

VARIABLES
    update,       \* [Updates -> what was sent, until the cursor has passed it]
    arrived,      \* how many were sent
    cursor,       \* next_offset
    failures,     \* [Updates -> attempt_count of its row, 0 without one]
    outcome,      \* [Updates -> what became of it]
    effects,      \* [Updates -> times its effect was committed]
    replies,      \* [Updates -> times a reply reached the chat]
    worker,       \* [Workers -> where the process is]
    lockHolder,   \* who holds the advisory lock
    cursorHolder, \* whose transaction holds the row lock on the cursor
    trouble, losses

mailbox == <<update, arrived>>
progress == <<cursor, failures, outcome, effects>>
locks == <<lockHolder, cursorHolder>>
accidents == <<trouble, losses>>
vars == <<accounts, mailbox, progress, replies, worker, locks, accidents>>

NoUpdate == [kind |-> "none", chat |-> Nobody, token |-> NoToken, phone |-> Nobody]
At(place, batch, item, seen) == [at |-> place, batch |-> batch, item |-> item, seen |-> seen]
Down == At("down", {}, 0, {})
Polling == At("polling", {}, 0, {})

Init ==
    /\ LinkInit
    /\ update = [i \in Updates |-> NoUpdate]
    /\ arrived = 0
    /\ cursor = 0
    /\ failures = [i \in Updates |-> 0]
    /\ outcome = [i \in Updates |-> "none"]
    /\ effects = [i \in Updates |-> 0]
    /\ replies = [i \in Updates |-> 0]
    /\ worker = [w \in Workers |-> Down]
    /\ lockHolder = Nobody
    /\ cursorHolder = Nobody
    /\ trouble = 0 /\ losses = 0

-----------------------------------------------------------------------------
(* The people.  The token in a /start is one that was handed out; a        *)
(* contact is the sender's own, or the parser takes it for nothing;        *)
(* "other" is what the parser does not support; "poison" is an update on   *)
(* which transaction A may fail whenever it is tried, for no passing       *)
(* reason.                                                                 *)

Messages ==
    [kind : {"start"}, chat : Chats, token : {t \in Tokens : Issued(t)}, phone : {Nobody}]
    \cup [kind : {"contact"}, chat : Chats, token : {NoToken}, phone : Users]
    \cup {[NoUpdate EXCEPT !.kind = "other"], [NoUpdate EXCEPT !.kind = "poison"]}

Send ==
    /\ arrived < MaxUpdates
    /\ arrived' = arrived + 1
    /\ \E m \in Messages : update' = [update EXCEPT ![arrived + 1] = m]
    /\ UNCHANGED <<accounts, progress, replies, worker, locks, accidents>>

-----------------------------------------------------------------------------
(* The process.                                                            *)

GoTo(w, place) == worker' = [worker EXCEPT ![w] = place]

\* acquire_telegram_polling_lock
Start(w) ==
    /\ worker[w] = Down
    /\ lockHolder = Nobody
    /\ lockHolder' = w
    /\ GoTo(w, Polling)
    /\ UNCHANGED <<accounts, mailbox, progress, replies, cursorHolder, accidents>>

\* Nobody looks at the lock again once it is held.
LoseLock(w) ==
    /\ losses < MaxLosses
    /\ lockHolder = w
    /\ lockHolder' = Nobody
    /\ losses' = losses + 1
    /\ UNCHANGED <<accounts, mailbox, progress, replies, worker, cursorHolder,
                   trouble>>

\* Where the process goes when it stops: its locks go with its connections.
Released(holder, w) == IF holder = w THEN Nobody ELSE holder

\* A crash, a shutdown, or Telegram's refusal of a second poller.  What was not
\* committed is rolled back, and a reply on its way may still arrive.
Stop(w) ==
    /\ trouble < MaxTrouble
    /\ worker[w] # Down
    /\ GoTo(w, Down)
    /\ lockHolder' = Released(lockHolder, w)
    /\ cursorHolder' = Released(cursorHolder, w)
    /\ trouble' = trouble + 1
    /\ \/ UNCHANGED replies
       \/ /\ worker[w].at = "replying"
          /\ replies' = [replies EXCEPT ![worker[w].item] = @ + 1]
    /\ UNCHANGED <<accounts, mailbox, progress, losses>>

\* Something passing goes wrong: the loop begins again.
Retry(w) ==
    /\ trouble < MaxTrouble
    /\ trouble' = trouble + 1
    /\ GoTo(w, Polling)

\* _read_next_offset, get_updates: a batch of what Telegram has from the cursor on.
Fetch(w) ==
    /\ worker[w].at = "polling"
    /\ \E last \in (cursor + 1)..arrived :
         GoTo(w, At("next", (cursor + 1)..last, 0, {}))
    /\ UNCHANGED <<accounts, mailbox, progress, replies, locks, accidents>>

\* Mutant: any update of the batch.
AnyOf(batch) == batch

\* ordered_updates
FirstOf(batch) == {i \in batch : \A j \in batch : i <= j}

\* What transaction A looks up before it locks the tokens.
Snapshot(i) ==
    CASE update[i].kind = "start" -> Candidates(update[i].token, update[i].chat)
      [] update[i].kind = "contact" -> Pending(update[i].chat)
      [] OTHER -> {}

\* Mutant: a duplicate is not recognised.
PassedNever(i) == FALSE

\* update_id < next_offset
Passed(i) == i <= cursor

\* Transaction A takes the lock on the cursor.  An update that the cursor has
\* passed is a duplicate, and nothing is done.
BeginA(w) ==
    /\ worker[w].at = "next"
    /\ cursorHolder = Nobody
    /\ \E i \in FirstOf(worker[w].batch) :
        IF Passed(i)
        THEN /\ GoTo(w, [worker[w] EXCEPT !.batch = @ \ {i}])
             /\ UNCHANGED cursorHolder
        ELSE /\ GoTo(w, At("applying", worker[w].batch \ {i}, i, Snapshot(i)))
             /\ cursorHolder' = w
    /\ UNCHANGED <<accounts, mailbox, progress, replies, lockHolder, accidents>>

\* get_updates again: the batch is done with.
BatchDone(w) ==
    /\ worker[w].at = "next"
    /\ worker[w].batch = {}
    /\ GoTo(w, Polling)
    /\ UNCHANGED <<accounts, mailbox, progress, replies, locks, accidents>>

\* _apply_terminal_update.  A start that binds nothing and a contact that
\* consumes nothing are answered and done with.
Applied(i, seen) ==
    LET m == update[i]
    IN  IF m.kind = "start" /\ Binds(m.token, m.chat, seen)
        THEN BindToken(m.token, m.chat) /\ UNCHANGED <<link, customer>>
        ELSE IF m.kind = "contact" /\ Consumes(m.chat, m.phone, seen)
        THEN ConsumeToken(m.chat, m.phone, seen) /\ UNCHANGED customer
        ELSE UNCHANGED accounts

\* advance_next_offset.  Nobody looks at the update again.
Advance(i) ==
    /\ cursor' = IF cursor < i THEN i ELSE cursor
    /\ update' = [update EXCEPT ![i] = NoUpdate]

\* The rest of the batch, after a reply when there is one to send.
AfterUpdate(w, i) ==
    IF update[i].kind \in {"start", "contact"}
    THEN At("replying", worker[w].batch, i, {})
    ELSE At("next", worker[w].batch, 0, {})

\* process_telegram_update_tx_a commits.
CommitA(w) ==
    LET i == worker[w].item
    IN  /\ worker[w].at = "applying"
        /\ Applied(i, worker[w].seen)
        /\ failures' = IF failures[i] < MaxFailures THEN [failures EXCEPT ![i] = 0] ELSE failures
        /\ Advance(i)
        /\ outcome' = [outcome EXCEPT ![i] = "applied"]
        /\ effects' = [effects EXCEPT ![i] = @ + 1]
        /\ GoTo(w, AfterUpdate(w, i))
        /\ cursorHolder' = Nobody
        /\ UNCHANGED <<arrived, replies, lockHolder, accidents>>

\* Transaction A fails: for no passing reason on a poison update, for a passing
\* one on any.
FailA(w) ==
    /\ worker[w].at = "applying"
    /\ cursorHolder' = Nobody
    /\ \/ /\ update[worker[w].item].kind = "poison"
          /\ GoTo(w, [worker[w] EXCEPT !.at = "failed", !.seen = {}])
          /\ UNCHANGED trouble
       \/ Retry(w)
    /\ UNCHANGED <<accounts, mailbox, progress, replies, lockHolder, losses>>

\* increment_update_failure
Counted(i) == IF failures[i] < MaxFailures THEN failures[i] + 1 ELSE failures[i]

\* At the last attempt the update is passed.
Quarantine(i) ==
    /\ cursorHolder = Nobody
    /\ i >= cursor
    /\ Advance(i)
    /\ outcome' = [outcome EXCEPT ![i] = "quarantined"]

\* record_poison_failure_tx_b: before it, it is tried again from the cursor.
RecordFailure(w) ==
    LET i == worker[w].item
    IN  /\ worker[w].at = "failed"
        /\ failures' = [failures EXCEPT ![i] = Counted(i)]
        /\ IF Counted(i) < MaxFailures
           THEN GoTo(w, Polling) /\ UNCHANGED <<cursor, outcome, update>>
           ELSE Quarantine(i) /\ GoTo(w, At("next", worker[w].batch, 0, {}))
        /\ UNCHANGED <<accounts, arrived, effects, replies, locks, accidents>>

\* The cursor would go back: PollingCursorRegressionError ends the process.
Regression(w) ==
    LET i == worker[w].item
    IN  /\ worker[w].at = "failed"
        /\ Counted(i) = MaxFailures
        /\ i < cursor
        /\ GoTo(w, Down)
        /\ lockHolder' = Released(lockHolder, w)
        /\ UNCHANGED <<accounts, mailbox, progress, replies, cursorHolder, accidents>>

\* A passing failure of a read of the cursor, of Telegram, or of transaction B.
PassingFailure(w) ==
    /\ worker[w].at \in {"polling", "next", "failed"}
    /\ Retry(w)
    /\ UNCHANGED <<accounts, mailbox, progress, replies, locks, losses>>

\* deliver_bot_reply_best_effort.  Only Telegram's refusal for coming too fast,
\* which says that nothing was sent, is tried again, once; so the reply arrives
\* or it does not.
Reply(w) ==
    /\ worker[w].at = "replying"
    /\ \E arrives \in {0, 1} : replies' = [replies EXCEPT ![worker[w].item] = @ + arrives]
    /\ GoTo(w, At("next", worker[w].batch, 0, {}))
    /\ UNCHANGED <<accounts, mailbox, progress, locks, accidents>>

-----------------------------------------------------------------------------
Polls(w) ==
    \/ Fetch(w)
    \/ BeginA(w)
    \/ BatchDone(w)
    \/ CommitA(w)
    \/ FailA(w)
    \/ RecordFailure(w)
    \/ Regression(w)
    \/ PassingFailure(w)
    \/ Reply(w)

Next ==
    \/ WebStep /\ UNCHANGED <<mailbox, progress, replies, worker, locks, accidents>>
    \/ Send
    \/ \E w \in Workers : Start(w) \/ LoseLock(w) \/ Stop(w) \/ Polls(w)

Spec == Init /\ [][Next]_vars

\* The container restarts its process, and a process goes round its loop.  The
\* lock on the cursor is never held for long, and is granted in the end.
Fairness ==
    \A w \in Workers : WF_vars(Start(w)) /\ WF_vars(Polls(w)) /\ SF_vars(BeginA(w) \/ RecordFailure(w))

FairSpec == Spec /\ Fairness

-----------------------------------------------------------------------------
(* Properties.                                                             *)

\* The rows hold what their columns may.
TypeOK ==
    /\ LinkTypeOK
    /\ update \in [Updates -> [kind : {"none", "start", "contact", "other", "poison"},
                               chat : Chats \cup {Nobody},
                               token : Tokens \cup {NoToken},
                               phone : Users \cup {Nobody}]]
    /\ arrived \in 0..MaxUpdates
    /\ cursor \in 0..arrived
    /\ failures \in [Updates -> 0..MaxFailures]
    /\ outcome \in [Updates -> {"none", "applied", "quarantined"}]
    /\ effects \in [Updates -> Nat]
    /\ replies \in [Updates -> Nat]
    /\ worker \in [Workers -> [at : {"down", "polling", "next", "applying", "failed", "replying"},
                               batch : SUBSET Updates,
                               item : Updates \cup {0},
                               seen : SUBSET Tokens]]
    /\ lockHolder \in Workers \cup {Nobody}
    /\ cursorHolder \in Workers \cup {Nobody}
    /\ trouble \in 0..MaxTrouble
    /\ losses \in 0..MaxLosses

\* However often an update is delivered, tried, interrupted by a crash or
\* fetched by two processes at once, its effect is committed once, or never when
\* it is quarantined; it is quarantined only after all its attempts; and its
\* chat is answered at most once, and not before the commit.
EffectsOnce ==
    \A i \in Updates :
        /\ effects[i] = (IF outcome[i] = "applied" THEN 1 ELSE 0)
        /\ outcome[i] = "quarantined" => failures[i] = MaxFailures
        /\ replies[i] <= effects[i]

\* An active link was made by a contact with the user's own number, sent from
\* the chat that had opened the user's latest link, while the token in it was
\* neither replaced, nor cancelled, nor expired, nor used.  No chat is linked
\* to two users, and an active customer has a link.
LinksProven ==
    \A u \in Users :
        /\ Linked(u) =>
             /\ link[u].phone = u
             /\ LET t == link[u].token
                IN  /\ token[t].user = u
                    /\ token[t].opener = link[u].chat
                    /\ token[t].marks = {"consumed"}
             /\ \A v \in Users \ {u} : link[v].chat # link[u].chat
        /\ customer[u] = "active" => Linked(u)

\* The worker keeps UpdateQueue's promise: every update that is sent is applied
\* or quarantined in the end, in the order of the ids, each once.
Queue == INSTANCE UpdateQueue WITH
    handled <- [i \in 1..cursor |-> outcome[i]]

HandlesInOrder == Queue!Spec
=============================================================================
