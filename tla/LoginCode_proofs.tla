-------------------------- MODULE LoginCode_proofs --------------------------
(***************************************************************************)
(* The safety properties of LoginCode for any number of users, browsers,   *)
(* transactions and dispatchers.  They are proved together: that a code    *)
(* follows its link needs to know whose it is, that it is sent once needs  *)
(* to know what the dispatchers carry, and that a login is explained needs *)
(* to know where the rows of a snapshot belong.                            *)
(***************************************************************************)
EXTENDS LoginCode, TLAPS

\* A row that was inserted has its user and its browser, and nothing was
\* dispatched for one that was not.
Born ==
    \A c \in Ids :
        IF challenge[c].status = "none" THEN dispatch[c] = "none"
        ELSE challenge[c].user \in Users /\ challenge[c].browser \in Browsers

\* What a transaction has read: rows that exist, and whom it acts for.
Snapshots ==
    \A t \in Txs :
        /\ tx[t].kind \in {"issue", "new_code"} =>
             tx[t].user \in Users /\ tx[t].browser \in Browsers
        /\ tx[t].kind = "verify" =>
             /\ tx[t].browser \in Browsers
             /\ \A c \in tx[t].ids :
                  challenge[c].status # "none" /\ challenge[c].browser = tx[t].browser
        /\ tx[t].kind = "link_change" => tx[t].user \in Users

\* What a dispatcher has in hand: a dispatch that no other dispatcher sends and
\* that was not sent before.
Carried ==
    \A w \in Workers :
        /\ worker[w].at \in {"sending", "reporting"} =>
             worker[w].item \in Ids /\ dispatch[worker[w].item] \notin {"none", "pending"}
        /\ worker[w].at = "sending" =>
             /\ deliveries[worker[w].item] = 0
             /\ \A v \in Workers \ {w} :
                  worker[v].at = "sending" => worker[v].item # worker[w].item
        /\ worker[w].at = "reporting" => worker[w].result # "none"
        /\ worker[w].at = "reporting" /\ worker[w].result = "sent" =>
             deliveries[worker[w].item] = 1

IInv ==
    /\ TypeOK
    /\ Born
    /\ Snapshots
    /\ Carried
    /\ CodesFollowLink
    /\ DispatchFollowsChallenge
    /\ SentOnce
    /\ LoginsExplained
    /\ GuessesBounded

-----------------------------------------------------------------------------
(* The initial state, and types.                                           *)

\* Nothing has been asked for, and the invariant holds.
LEMMA InitInv == Init => IInv
<1> SUFFICES ASSUME Init PROVE IInv
  OBVIOUS
<1> USE CodeAssumption DEF Init
<1>1. Unborn \in ChallengeRow /\ NoTx \in Transaction /\ Down \in Place
  BY DEF Unborn, ChallengeRow, ChallengeStatuses, NoTx, Transaction, Down, Place
<1>2. TypeOK
  BY <1>1 DEF TypeOK, DispatchStatuses
<1>3. Born /\ Snapshots /\ Carried
  BY DEF Born, Snapshots, Carried, Unborn, NoTx, Down
<1>4. CodesFollowLink /\ DispatchFollowsChallenge /\ SentOnce
  BY DEF CodesFollowLink, DispatchFollowsChallenge, SentOnce, Unborn
<1>5. LoginsExplained
  BY DEF LoginsExplained, Unborn
<1>6. GuessesBounded
  BY DEF GuessesBounded, Unborn
<1> QED
  BY <1>2, <1>3, <1>4, <1>5, <1>6 DEF IInv

\* Ending challenges keeps the types of both tables.
LEMMA EndAllType ==
    ASSUME TypeOK, NEW cs \in SUBSET Ids, NEW s \in {"superseded", "invalidated"}
    PROVE  EndedRows(cs, s) \in [Ids -> ChallengeRow] /\ Cancelled(cs) \in [Ids -> DispatchStatuses]
BY DEF TypeOK, EndedRows, Cancelled, ChallengeRow, ChallengeStatuses, DispatchStatuses

\* Replacing codes keeps the types.
LEMMA ReplaceType ==
    ASSUME IInv, NEW t \in Txs, NEW l \in Nat, Replace(t, l),
           tx[t].user \in Users, tx[t].browser \in Browsers
    PROVE  TypeOK'
<1> USE DEF IInv
<1>1. Locked(t) \in SUBSET Ids
  BY DEF Locked, TypeOK, Transaction
<1>2. /\ EndedRows(Locked(t), "superseded") \in [Ids -> ChallengeRow]
      /\ Cancelled(Locked(t)) \in [Ids -> DispatchStatuses]
  BY <1>1, EndAllType
<1>3. NoTx \in Transaction
  BY CodeAssumption DEF NoTx, Transaction
<1>4. tx' \in [Txs -> Transaction]
  BY <1>3 DEF Replace, Done, TypeOK
<1>5. /\ challenge' \in [Ids -> ChallengeRow]
      /\ dispatch' \in [Ids -> DispatchStatuses]
  <2>1. CASE EndAll(Locked(t), "superseded")
    BY <2>1, <1>2 DEF EndAll
  <2>2. ASSUME NEW new \in Ids,
               challenge' = [EndedRows(Locked(t), "superseded") EXCEPT ![new] =
                   [status |-> "pending_dispatch", user |-> tx[t].user,
                    browser |-> tx[t].browser, linkedAt |-> l, attempts |-> 0]],
               dispatch' = [Cancelled(Locked(t)) EXCEPT ![new] = "pending"]
        PROVE  <1>5!1 /\ <1>5!2
    <3>1. [status |-> "pending_dispatch", user |-> tx[t].user, browser |-> tx[t].browser,
           linkedAt |-> l, attempts |-> 0] \in ChallengeRow
      BY DEF ChallengeRow, ChallengeStatuses
    <3> QED
      BY <2>2, <3>1, <1>2 DEF DispatchStatuses
  <2> QED
    BY <2>1, <2>2 DEF Replace
<1> QED
  BY <1>4, <1>5 DEF TypeOK, Replace, process

\* Transactions keep the types.
LEMMA WebType ==
    ASSUME IInv, NEW t \in Txs, Begins(t) \/ Ends(t)
    PROVE  TypeOK'
<1> USE DEF IInv, process, rows
<1>1. NoTx \in Transaction
  BY CodeAssumption DEF NoTx, Transaction
<1>2. ASSUME NEW r \in Transaction, Begin(t, r) PROVE TypeOK'
  BY <1>2 DEF Begin, TypeOK
<1>3. ASSUME Begins(t) PROVE TypeOK'
  <2>1. ASSUME NEW u \in Users, NEW b \in Browsers, BeginIssue(t, u, b) PROVE TypeOK'
    BY <2>1, <1>2 DEF BeginIssue, TypeOK, NoTx, Transaction, OutstandingOf, OutstandingIn
  <2>2. ASSUME NEW c \in Ids, BeginNewCode(t, c) PROVE TypeOK'
    <3>1. challenge[c] \in ChallengeRow /\ c \in Nat
      BY CodeAssumption DEF TypeOK, Ids
    <3> QED
      BY <2>2, <3>1, <1>2 DEF BeginNewCode, NoTx, Transaction, ChallengeRow, OutstandingOf,
                              OutstandingIn
  <2>3. ASSUME NEW b \in Browsers, BeginVerify(t, b) PROVE TypeOK'
    BY <2>3, <1>2 DEF BeginVerify, NoTx, Transaction, OutstandingIn
  <2>4. ASSUME NEW u \in Users, BeginLinkChange(t, u) PROVE TypeOK'
    BY <2>4, <1>2 DEF BeginLinkChange, NoTx, Transaction, OutstandingOf
  <2> QED
    BY <1>3, <2>1, <2>2, <2>3, <2>4 DEF Begins
<1>4. ASSUME Issue(t) \/ NewCode(t) PROVE TypeOK'
  <2>1. /\ tx[t].user \in Users /\ tx[t].browser \in Browsers
        /\ tx[t].linkedAt \in Nat /\ link[tx[t].user].linkedAt \in Nat
    BY <1>4 DEF Issue, NewCode, Snapshots, TypeOK, Transaction
  <2> QED
    BY <1>4, <2>1, ReplaceType DEF Issue, NewCode
<1>5. ASSUME NEW right \in BOOLEAN, Verify(t, right) PROVE TypeOK'
  <2>1. PICK c \in Locked(t) : Verify(t, right)!1!(c)
    BY <1>5 DEF Verify
  <2>2. c \in Ids /\ challenge[c] \in ChallengeRow /\ challenge[c].status = "active"
    BY <2>1 DEF Locked, TypeOK, Transaction
  <2>3. tx' \in [Txs -> Transaction]
    BY <2>1, <1>1 DEF Done, TypeOK
  <2>4. CASE LinkCurrent(c)
    <3>1. Answer(c, right) \in ChallengeRow
      <4>1. CASE right
        BY <2>2, <4>1 DEF Answer, ChallengeRow, ChallengeStatuses
      <4>2. CASE ~right
        <5>1. challenge[c].attempts + 1 \in Nat
          BY <2>2 DEF ChallengeRow
        <5>2. PICK s \in ChallengeStatuses :
                Answer(c, right) = [challenge[c] EXCEPT !.attempts = @ + 1, !.status = s]
          BY <2>2, <4>2 DEF Answer, ChallengeRow, ChallengeStatuses
        <5> QED
          BY <2>2, <5>1, <5>2 DEF ChallengeRow
      <4> QED
        BY <4>1, <4>2
    <3>2. challenge[c].user \in Users
      BY <2>2 DEF Born
    <3> QED
      BY <2>1, <2>2, <2>3, <2>4, <3>1, <3>2 DEF TypeOK
  <2>5. CASE ~LinkCurrent(c)
    BY <2>1, <2>2, <2>3, <2>5, EndAllType DEF TypeOK, EndAll
  <2> QED
    BY <2>4, <2>5
<1>6. ASSUME VerifyExpired(t) PROVE TypeOK'
  <2>1. PICK c \in Ids : challenge' = [challenge EXCEPT ![c].status = "expired"]
    BY <1>6 DEF VerifyExpired, Locked, TypeOK, Transaction
  <2>2. challenge' \in [Ids -> ChallengeRow]
    <3>1. [challenge[c] EXCEPT !.status = "expired"] \in ChallengeRow
      BY DEF TypeOK, ChallengeRow, ChallengeStatuses
    <3> QED
      BY <2>1, <3>1 DEF TypeOK
  <2> QED
    BY <1>6, <1>1, <2>2 DEF VerifyExpired, Done, TypeOK
<1>7. ASSUME NEW unlink \in BOOLEAN, ChangeLink(t, unlink) PROVE TypeOK'
  <2>1. Locked(t) \in SUBSET Ids
    BY DEF Locked, TypeOK, Transaction
  <2>2. challenge' \in [Ids -> ChallengeRow] /\ dispatch' \in [Ids -> DispatchStatuses]
    BY <1>7, <2>1, EndAllType DEF ChangeLink, EndAll
  <2>3. tx' \in [Txs -> Transaction]
    BY <1>7, <1>1 DEF ChangeLink, Done, TypeOK
  <2>4. link' \in [Users -> [linkedAt : Nat, active : BOOLEAN]]
    <3>1. tx[t].user \in Users
      BY <1>7 DEF ChangeLink, Snapshots
    <3>2. link[tx[t].user] \in [linkedAt : Nat, active : BOOLEAN]
      BY <3>1 DEF TypeOK
    <3>3. PICK l \in [linkedAt : Nat, active : BOOLEAN] :
            link' = [link EXCEPT ![tx[t].user] = l]
      <4>1. [link[tx[t].user] EXCEPT !.active = FALSE] \in [linkedAt : Nat, active : BOOLEAN]
        BY <3>2, Zenon
      <4>2. link[tx[t].user].linkedAt + 1 \in Nat
        BY <3>2
      <4>3. [linkedAt |-> link[tx[t].user].linkedAt + 1, active |-> TRUE]
              \in [linkedAt : Nat, active : BOOLEAN]
        BY <4>2, Zenon
      <4> QED
        BY <1>7, <4>1, <4>3 DEF ChangeLink
    <3> QED
      BY <3>1, <3>3 DEF TypeOK
  <2> QED
    BY <1>7, <2>2, <2>3, <2>4 DEF ChangeLink, TypeOK
<1>8. ASSUME Abort(t) PROVE TypeOK'
  BY <1>8, <1>1 DEF Abort, Done, TypeOK
<1> QED
  BY <1>3, <1>4, <1>5, <1>6, <1>7, <1>8 DEF Ends

\* Dispatchers keep the types.
LEMMA WorkerType ==
    ASSUME IInv, NEW w \in Workers, Start(w) \/ LoseLock(w) \/ Stop(w) \/ Dispatch(w)
    PROVE  TypeOK'
<1> USE DEF IInv, rows, process
<1>1. /\ Down \in Place /\ Recovery \in Place
      /\ \A n \in Int : Batch(n) \in Place
      /\ BatchSize \in Int
  BY CodeAssumption DEF Down, Recovery, Batch, Place
<1>2. worker[w] \in Place
  BY DEF TypeOK
<1>3. ASSUME NEW p \in Place, GoTo(w, p) PROVE worker' \in [Workers -> Place]
  BY <1>3 DEF GoTo, TypeOK
<1>4. ASSUME NEW c \in Ids
      PROVE  [deliveries EXCEPT ![c] = @ + 1] \in [Ids -> Nat]
  BY DEF TypeOK
<1>5. CASE Start(w)
  BY <1>1, <1>3, <1>5 DEF Start, TypeOK
<1>6. CASE LoseLock(w)
  BY <1>6 DEF LoseLock, TypeOK
<1>7. CASE Stop(w)
  <2>1. worker' \in [Workers -> Place]
    BY <1>1, <1>3, <1>7 DEF Stop
  <2>2. deliveries' \in [Ids -> Nat]
    BY <1>4, <1>7 DEF Stop, Carried, TypeOK
  <2> QED
    BY <1>7, <2>1, <2>2 DEF Stop, TypeOK
<1>8. CASE Prepare(w)
  <2>1. PICK c \in Ids : Prepare(w)!2!(c)
    BY <1>8 DEF Prepare
  <2>2. /\ [challenge[c] EXCEPT !.status = "active"] \in ChallengeRow
        /\ [challenge[c] EXCEPT !.status = "invalidated"] \in ChallengeRow
    BY DEF TypeOK, ChallengeRow, ChallengeStatuses
  <2>3. [at |-> "sending", item |-> c, result |-> "none", left |-> worker[w].left - 1] \in Place
    BY <1>2, CodeAssumption DEF Place, Ids
  <2>4. challenge' \in [Ids -> ChallengeRow]
    BY <2>1, <2>2 DEF TypeOK
  <2>5. dispatch' \in [Ids -> DispatchStatuses]
    BY <2>1 DEF TypeOK, DispatchStatuses
  <2>6. worker' \in [Workers -> Place]
    BY <1>1, <1>3, <2>1, <2>3
  <2> QED
    BY <1>8, <2>4, <2>5, <2>6 DEF Prepare, TypeOK
<1>9. CASE NothingToPrepare(w)
  BY <1>1, <1>3, <1>9 DEF NothingToPrepare, TypeOK
<1>10. CASE Send(w)
  <2>1. PICK result \in {"sent", "failed", "unknown"}, arrived \in BOOLEAN :
          Send(w)!1!2!(result, arrived)
    BY <1>10 DEF Send
  <2>2. [worker[w] EXCEPT !.at = "reporting", !.result = result] \in Place
    BY <1>2 DEF Place
  <2>3. deliveries' \in [Ids -> Nat]
    BY <1>4, <1>10, <2>1 DEF Send, Carried, TypeOK
  <2> QED
    BY <1>3, <1>10, <2>1, <2>2, <2>3 DEF Send, TypeOK
<1>11. CASE Report(w)
  <2>1. worker' \in [Workers -> Place]
    <3>1. worker[w].left \in Int
      BY <1>2 DEF Place
    <3> QED
      BY <1>1, <1>3, <1>11, <3>1 DEF Report
  <2>2. dispatch' \in [Ids -> DispatchStatuses]
    <3>1. worker[w].result \in DispatchStatuses
      BY <1>2 DEF Place, DispatchStatuses
    <3> QED
      BY <1>11, <3>1 DEF Report, TypeOK
  <2> QED
    BY <1>11, <2>1, <2>2 DEF Report, TypeOK
<1>12. CASE Recover(w)
  BY <1>1, <1>3, <1>12 DEF Recover, Recovered, TypeOK, DispatchStatuses
<1> QED
  BY <1>5, <1>6, <1>7, <1>8, <1>9, <1>10, <1>11, <1>12 DEF Dispatch

-----------------------------------------------------------------------------
(* How a step changes one challenge and its dispatch.                      *)

Kept(c) == challenge'[c] = challenge[c] /\ dispatch'[c] = dispatch[c]

TakenDown(c) ==
    /\ Outstanding(c)
    /\ challenge'[c] \in {[challenge[c] EXCEPT !.status = s] : s \in {"superseded", "invalidated"}}
    /\ dispatch'[c] = IF Open(c) THEN "cancelled" ELSE dispatch[c]

Inserted(c) ==
    /\ challenge[c].status = "none"
    /\ challenge'[c].status = "pending_dispatch"
    /\ challenge'[c].user \in Users
    /\ challenge'[c].browser \in Browsers
    /\ challenge'[c].attempts = 0
    /\ dispatch'[c] = "pending"

Answered(c) ==
    /\ challenge[c].status = "active"
    /\ challenge'[c] \in {Answer(c, TRUE), Answer(c, FALSE), [challenge[c] EXCEPT !.status = "expired"]}
    /\ dispatch'[c] = dispatch[c]

Activated(c) ==
    /\ challenge[c].status = "pending_dispatch"
    /\ LinkCurrent(c)
    /\ challenge'[c] = [challenge[c] EXCEPT !.status = "active"]
    /\ dispatch[c] = "pending"
    /\ dispatch'[c] = "prepared"

Finished(c) ==
    /\ challenge'[c] = challenge[c]
    /\ dispatch[c] = "prepared"
    /\ dispatch'[c] \in {"sent", "failed", "unknown"}

WebChange(c) == Kept(c) \/ TakenDown(c) \/ Inserted(c) \/ Answered(c)
WorkerChange(c) == Kept(c) \/ TakenDown(c) \/ Activated(c) \/ Finished(c)

\* Challenges ended together: each is taken down, every other is left alone.
LEMMA EndAllRows ==
    ASSUME TypeOK, NEW cs \in SUBSET {c \in Ids : Outstanding(c)},
           NEW s \in {"superseded", "invalidated"}, EndAll(cs, s), NEW c \in Ids
    PROVE  IF c \in cs THEN TakenDown(c) /\ challenge'[c] = [challenge[c] EXCEPT !.status = s]
           ELSE Kept(c)
BY DEF EndAll, EndedRows, Cancelled, TakenDown, Kept

\* Replacing codes takes the old ones down and inserts at most one.
LEMMA ReplaceRows ==
    ASSUME IInv, NEW t \in Txs, NEW l \in Nat, Replace(t, l),
           tx[t].user \in Users, tx[t].browser \in Browsers, NEW c \in Ids
    PROVE  Kept(c) \/ TakenDown(c) \/ Inserted(c)
<1>1. Locked(t) \in SUBSET {d \in Ids : Outstanding(d)}
  BY DEF Locked, IInv, TypeOK, Transaction
<1>2. CASE EndAll(Locked(t), "superseded")
  BY <1>1, <1>2, EndAllRows DEF IInv
<1>3. ASSUME NEW new \in Ids, Fresh(new),
             challenge' = [EndedRows(Locked(t), "superseded") EXCEPT ![new] =
                 [status |-> "pending_dispatch", user |-> tx[t].user,
                  browser |-> tx[t].browser, linkedAt |-> l, attempts |-> 0]],
             dispatch' = [Cancelled(Locked(t)) EXCEPT ![new] = "pending"]
      PROVE  Kept(c) \/ TakenDown(c) \/ Inserted(c)
  <2>1. CASE c = new
    BY <1>3, <2>1 DEF Fresh, Inserted, EndedRows, Cancelled
  <2>2. CASE c # new
    BY <1>1, <1>3, <2>2 DEF EndedRows, Cancelled, TakenDown, Kept
  <2> QED
    BY <2>1, <2>2
<1> QED
  BY <1>2, <1>3 DEF Replace

\* A transaction that ends keeps a challenge, takes it down, inserts it or
\* answers it.
LEMMA EndsRows ==
    ASSUME IInv, NEW t \in Txs, Ends(t), NEW d \in Ids
    PROVE  WebChange(d)
<1> USE DEF IInv, WebChange, rows
<1>1. Locked(t) \in SUBSET {c \in Ids : Outstanding(c)}
  BY DEF Locked, TypeOK, Transaction
<1>2. ASSUME Issue(t) \/ NewCode(t) PROVE WebChange(d)
  <2>1. /\ tx[t].user \in Users /\ tx[t].browser \in Browsers
        /\ tx[t].linkedAt \in Nat /\ link[tx[t].user].linkedAt \in Nat
    BY <1>2 DEF Issue, NewCode, Snapshots, TypeOK, Transaction
  <2> QED
    BY <1>2, <2>1, ReplaceRows DEF Issue, NewCode
<1>3. ASSUME NEW right \in BOOLEAN, Verify(t, right) PROVE WebChange(d)
  <2>1. PICK c \in Locked(t) : Verify(t, right)!1!(c)
    BY <1>3 DEF Verify
  <2>2. CASE LinkCurrent(c)
    BY <1>1, <2>1, <2>2 DEF TypeOK, Answered, Kept, Answer
  <2>3. CASE ~LinkCurrent(c)
    BY <1>1, <2>1, <2>3, EndAllRows
  <2> QED
    BY <2>2, <2>3
<1>4. ASSUME VerifyExpired(t) PROVE WebChange(d)
  BY <1>1, <1>4 DEF VerifyExpired, TypeOK, Answered, Kept
<1>5. ASSUME NEW unlink \in BOOLEAN, ChangeLink(t, unlink) PROVE WebChange(d)
  BY <1>1, <1>5, EndAllRows DEF ChangeLink
<1>6. ASSUME Abort(t) PROVE WebChange(d)
  BY <1>6 DEF Abort, Kept
<1> QED
  BY <1>2, <1>3, <1>4, <1>5, <1>6 DEF Ends

\* A dispatcher keeps a challenge, takes it down, activates it or finishes its
\* dispatch.
LEMMA WorkerRows ==
    ASSUME IInv, NEW w \in Workers, Start(w) \/ LoseLock(w) \/ Stop(w) \/ Dispatch(w),
           NEW d \in Ids
    PROVE  WorkerChange(d)
<1> USE DEF IInv, WorkerChange, rows
<1>1. CASE Start(w) \/ LoseLock(w) \/ Stop(w) \/ NothingToPrepare(w) \/ Send(w)
  BY <1>1 DEF Start, LoseLock, Stop, NothingToPrepare, Send, Kept
<1>2. CASE Prepare(w)
  <2>1. PICK c \in Ids : Prepare(w)!2!(c)
    BY <1>2 DEF Prepare
  <2>2. dispatch[c] = "pending" /\ challenge[c].status = "pending_dispatch"
    BY <2>1 DEF Claimable, DispatchFollowsChallenge
  <2>3. CASE d = c
    <3>1. CASE LinkCurrent(c)
      BY <2>1, <2>2, <2>3, <3>1 DEF TypeOK, Activated
    <3>2. CASE ~LinkCurrent(c)
      BY <2>1, <2>2, <2>3, <3>2 DEF TypeOK, TakenDown, Outstanding, Open
    <3> QED
      BY <3>1, <3>2
  <2>4. CASE d # c
    BY <2>1, <2>2, <2>4 DEF TypeOK, Kept
  <2> QED
    BY <2>3, <2>4
<1>3. CASE Report(w)
  <2>1. worker[w].item \in Ids /\ worker[w].result \in {"sent", "failed", "unknown"}
    BY <1>3 DEF Report, Carried, TypeOK, Place
  <2> QED
    BY <1>3, <2>1 DEF Report, Reportable, Kept, Finished, TypeOK
<1>4. CASE Recover(w)
  BY <1>4 DEF Recover, Recovered, Kept, Finished, TypeOK
<1> QED
  BY <1>1, <1>2, <1>3, <1>4 DEF Dispatch

\* Every step is of one of these kinds, for every challenge.
LEMMA NextRows ==
    ASSUME IInv, [Next]_vars, NEW c \in Ids
    PROVE  WebChange(c) \/ WorkerChange(c)
<1>1. ASSUME NEW t \in Txs, Begins(t) PROVE Kept(c)
  BY <1>1 DEF Begins, BeginIssue, BeginNewCode, BeginVerify, BeginLinkChange, Begin, rows, Kept
<1>2. ASSUME NEW b \in Browsers, EndSession(b) PROVE Kept(c)
  BY <1>2 DEF EndSession, rows, Kept
<1>3. CASE UNCHANGED vars
  BY <1>3 DEF vars, rows, Kept, WebChange
<1> QED
  BY <1>1, <1>2, <1>3, EndsRows, WorkerRows DEF Next, WebChange

\* The invariants that speak of one challenge and its dispatch follow from the
\* kinds of change, and so does that nothing is revived.
LEMMA RowsStep ==
    ASSUME IInv, TypeOK', \A c \in Ids : WebChange(c) \/ WorkerChange(c)
    PROVE  /\ Born' /\ DispatchFollowsChallenge' /\ GuessesBounded'
           /\ NothingRevived
           /\ \A c \in Ids : challenge[c].status # "none" =>
                /\ challenge'[c].status # "none"
                /\ challenge'[c].user = challenge[c].user
                /\ challenge'[c].browser = challenge[c].browser
                /\ challenge'[c].linkedAt = challenge[c].linkedAt
<1> DEFINE Fine(c) ==
      /\ IF challenge'[c].status = "none" THEN dispatch'[c] = "none"
         ELSE challenge'[c].user \in Users /\ challenge'[c].browser \in Browsers
      /\ dispatch'[c] = "pending" <=> challenge'[c].status = "pending_dispatch"
      /\ dispatch'[c] = "prepared" =>
           challenge'[c].status \in {"active", "consumed", "expired", "burned"}
      /\ challenge'[c].attempts <= MaxAttempts
      /\ challenge'[c].attempts = MaxAttempts <=> challenge'[c].status = "burned"
      /\ challenge[c].status \in Terminal => challenge'[c] = challenge[c]
      /\ dispatch[c] \in Settled => dispatch'[c] = dispatch[c]
      /\ challenge[c].status # "none" =>
           /\ challenge'[c].status # "none"
           /\ challenge'[c].user = challenge[c].user
           /\ challenge'[c].browser = challenge[c].browser
           /\ challenge'[c].linkedAt = challenge[c].linkedAt
<1>1. ASSUME NEW c \in Ids PROVE Fine(c)
  <2> USE CodeAssumption DEF IInv, Terminal, Settled
  <2>1. /\ challenge[c] \in ChallengeRow /\ challenge[c].attempts \in Nat
        /\ challenge[c].status \in ChallengeStatuses
        /\ IF challenge[c].status = "none" THEN dispatch[c] = "none"
           ELSE challenge[c].user \in Users /\ challenge[c].browser \in Browsers
        /\ dispatch[c] = "pending" <=> challenge[c].status = "pending_dispatch"
        /\ dispatch[c] = "prepared" =>
             challenge[c].status \in {"active", "consumed", "expired", "burned"}
        /\ challenge[c].attempts <= MaxAttempts
        /\ challenge[c].attempts = MaxAttempts <=> challenge[c].status = "burned"
        /\ MaxAttempts \in Nat \ {0}
    BY DEF TypeOK, ChallengeRow, Born, DispatchFollowsChallenge, GuessesBounded
  <2>2. CASE Kept(c) \/ Finished(c)
    BY <2>1, <2>2 DEF Kept, Finished
  <2>3. CASE TakenDown(c)
    <3>1. PICK s \in {"superseded", "invalidated"} :
            challenge'[c] = [challenge[c] EXCEPT !.status = s]
      BY <2>3 DEF TakenDown
    <3>2. /\ challenge'[c].status = s /\ challenge'[c].user = challenge[c].user
          /\ challenge'[c].browser = challenge[c].browser
          /\ challenge'[c].linkedAt = challenge[c].linkedAt
          /\ challenge'[c].attempts = challenge[c].attempts
      BY <2>1, <3>1 DEF ChallengeRow
    <3> QED
      BY <2>1, <2>3, <3>2 DEF TakenDown, Outstanding, Open
  <2>4. CASE Inserted(c)
    BY <2>1, <2>4 DEF Inserted
  <2>5. CASE Activated(c)
    BY <2>1, <2>5 DEF Activated, ChallengeRow
  <2>6. CASE Answered(c)
    <3>1. CASE challenge'[c] = Answer(c, TRUE)
      BY <2>1, <2>6, <3>1 DEF Answered, Answer, ChallengeRow
    <3>2. CASE challenge'[c] = [challenge[c] EXCEPT !.status = "expired"]
      BY <2>1, <2>6, <3>2 DEF Answered, ChallengeRow
    <3>3. CASE challenge'[c] = Answer(c, FALSE)
      <4>1. PICK s \in {"active", "burned"} :
              /\ challenge'[c] = [challenge[c] EXCEPT !.attempts = @ + 1, !.status = s]
              /\ s = "burned" <=> challenge[c].attempts + 1 >= MaxAttempts
        BY <2>1, <2>6, <3>3 DEF Answered, Answer
      <4>2. /\ challenge'[c].status = s /\ challenge'[c].user = challenge[c].user
            /\ challenge'[c].browser = challenge[c].browser
            /\ challenge'[c].linkedAt = challenge[c].linkedAt
            /\ challenge'[c].attempts = challenge[c].attempts + 1
        BY <2>1, <4>1 DEF ChallengeRow
      <4> QED
        BY <2>1, <2>6, <4>1, <4>2 DEF Answered
    <3> QED
      BY <2>6, <3>1, <3>2, <3>3 DEF Answered
  <2> QED
    BY <2>2, <2>3, <2>4, <2>5, <2>6 DEF WebChange, WorkerChange
<1> HIDE DEF Fine
<1>2. Born'
  BY <1>1 DEF Fine, Born
<1>3. DispatchFollowsChallenge'
  BY <1>1 DEF Fine, DispatchFollowsChallenge
<1>4. GuessesBounded'
  BY <1>1 DEF Fine, GuessesBounded
<1>5. NothingRevived
  BY <1>1 DEF Fine, NothingRevived
<1> QED
  BY <1>1, <1>2, <1>3, <1>4, <1>5 DEF Fine

-----------------------------------------------------------------------------
(* The invariants that relate challenges to something else.                *)

\* While the links stay as they are, only Activated makes a code, and it looks
\* at the link.
LEMMA LinksKept ==
    ASSUME IInv, \A c \in Ids : WebChange(c) \/ WorkerChange(c), UNCHANGED link
    PROVE  CodesFollowLink'
<1> SUFFICES ASSUME NEW c \in Ids, challenge'[c].status = "active"
             PROVE  LinkCurrent(c)'
  BY DEF CodesFollowLink
<1>1. challenge[c] \in ChallengeRow
  BY DEF IInv, TypeOK
<1>2. /\ LinkCurrent(c)
      /\ challenge'[c].user = challenge[c].user
      /\ challenge'[c].linkedAt = challenge[c].linkedAt
  <2>1. CASE Kept(c) \/ Finished(c)
    BY <2>1 DEF Kept, Finished, IInv, CodesFollowLink
  <2>2. CASE TakenDown(c) \/ Inserted(c)
    BY <1>1, <2>2 DEF TakenDown, Inserted, ChallengeRow
  <2>3. CASE Activated(c)
    BY <1>1, <2>3 DEF Activated, ChallengeRow
  <2>4. CASE Answered(c)
    BY <1>1, <2>4 DEF Answered, Answer, ChallengeRow, IInv, CodesFollowLink
  <2> QED
    BY <2>1, <2>2, <2>3, <2>4 DEF WebChange, WorkerChange
<1> QED
  BY <1>2 DEF LinkCurrent

\* A change of the link takes down every challenge of its user, those inserted
\* since the snapshot included, and touches nobody else's.
LEMMA LinkChanged ==
    ASSUME IInv, NEW t \in Txs, NEW unlink \in BOOLEAN, ChangeLink(t, unlink)
    PROVE  CodesFollowLink'
<1> DEFINE u == tx[t].user
<1>1. Locked(t) \in SUBSET {d \in Ids : Outstanding(d)}
  BY DEF Locked, IInv, TypeOK, Transaction
<1>2. u \in Users /\ OutstandingOf(u) = Locked(t)
  BY DEF ChangeLink, SnapshotCurrent, IInv, Snapshots
<1>3. \A v \in Users : v # u => link'[v] = link[v]
  BY <1>2 DEF ChangeLink, IInv, TypeOK
<1> SUFFICES ASSUME NEW c \in Ids, challenge'[c].status = "active"
             PROVE  LinkCurrent(c)'
  BY DEF CodesFollowLink
<1>4. IF c \in Locked(t)
      THEN challenge'[c] = [challenge[c] EXCEPT !.status = "invalidated"]
      ELSE challenge'[c] = challenge[c]
  BY <1>1, EndAllRows DEF ChangeLink, IInv, Kept
<1>5. challenge[c] \in ChallengeRow
  BY DEF IInv, TypeOK
<1>6. c \notin Locked(t) /\ challenge'[c] = challenge[c]
  BY <1>4, <1>5 DEF ChallengeRow
<1>7. LinkCurrent(c) /\ challenge[c].user \in Users
  BY <1>6 DEF IInv, CodesFollowLink, Born
<1>8. challenge[c].user # u
  BY <1>2, <1>6 DEF OutstandingOf, Outstanding
<1> QED
  BY <1>3, <1>6, <1>7, <1>8 DEF LinkCurrent

\* No step leaves a code of an old link.
LEMMA LinkStep ==
    ASSUME IInv, [Next]_vars, \A c \in Ids : WebChange(c) \/ WorkerChange(c)
    PROVE  CodesFollowLink'
<1>1. ASSUME UNCHANGED link PROVE CodesFollowLink'
  BY <1>1, LinksKept
<1>2. ASSUME NEW t \in Txs, Begins(t) PROVE CodesFollowLink'
  BY <1>1, <1>2 DEF Begins, BeginIssue, BeginNewCode, BeginVerify, BeginLinkChange, Begin
<1>3. ASSUME NEW t \in Txs, Ends(t) PROVE CodesFollowLink'
  <2>1. ASSUME NEW unlink \in BOOLEAN, ChangeLink(t, unlink) PROVE CodesFollowLink'
    BY <2>1, LinkChanged
  <2>2. ASSUME Issue(t) \/ NewCode(t) \/ VerifyExpired(t) \/ Abort(t) PROVE UNCHANGED link
    BY <2>2 DEF Issue, NewCode, Replace, VerifyExpired, Abort
  <2>3. ASSUME NEW right \in BOOLEAN, Verify(t, right) PROVE UNCHANGED link
    BY <2>3 DEF Verify
  <2> QED
    BY <1>1, <1>3, <2>1, <2>2, <2>3 DEF Ends
<1>4. ASSUME NEW b \in Browsers, EndSession(b) PROVE CodesFollowLink'
  BY <1>1, <1>4 DEF EndSession
<1>5. ASSUME NEW w \in Workers, Start(w) \/ LoseLock(w) \/ Stop(w) \/ Dispatch(w)
      PROVE  CodesFollowLink'
  BY <1>1, <1>5 DEF Start, LoseLock, Stop, Dispatch, Prepare, NothingToPrepare, Send, Report,
                    Recover
<1>6. CASE UNCHANGED vars
  BY <1>1, <1>6 DEF vars
<1> QED
  BY <1>2, <1>3, <1>4, <1>5, <1>6 DEF Next

\* A transaction reads only what is there, and rows stay where they belong.
LEMMA SnapshotsStep ==
    ASSUME IInv, [Next]_vars,
           \A c \in Ids : challenge[c].status # "none" =>
                /\ challenge'[c].status # "none"
                /\ challenge'[c].user = challenge[c].user
                /\ challenge'[c].browser = challenge[c].browser
    PROVE  Snapshots'
<1> DEFINE Read(x) ==
      /\ x.kind \in {"issue", "new_code"} => x.user \in Users /\ x.browser \in Browsers
      /\ x.kind = "verify" =>
           /\ x.browser \in Browsers
           /\ \A c \in x.ids :
                challenge'[c].status # "none" /\ challenge'[c].browser = x.browser
      /\ x.kind = "link_change" => x.user \in Users
<1>1. \A t \in Txs : Read(tx[t])
  <2>1. \A t \in Txs : tx[t].ids \in SUBSET Ids
    BY DEF IInv, TypeOK, Transaction
  <2> QED
    BY <2>1 DEF IInv, Snapshots
<1>2. Read(NoTx)
  BY DEF NoTx
<1>3. CASE \A t \in Txs : tx'[t] = tx[t] \/ Read(tx'[t])
  BY <1>1, <1>3 DEF Snapshots
<1>4. ASSUME NEW t \in Txs, NEW r, tx' = [tx EXCEPT ![t] = r], Read(r)
      PROVE  \A s \in Txs : tx'[s] = tx[s] \/ Read(tx'[s])
  BY <1>4 DEF IInv, TypeOK
<1>5. ASSUME NEW t \in Txs, Done(t) PROVE Snapshots'
  BY <1>2, <1>3, <1>4, <1>5 DEF Done
<1>6. ASSUME NEW t \in Txs, Ends(t) PROVE Snapshots'
  BY <1>5, <1>6 DEF Ends, Issue, NewCode, Replace, Verify, VerifyExpired, ChangeLink, Abort
<1>7. ASSUME NEW t \in Txs, NEW u \in Users, NEW b \in Browsers, BeginIssue(t, u, b)
      PROVE  Snapshots'
  <2> DEFINE r == [NoTx EXCEPT !.kind = "issue", !.user = u, !.browser = b,
                               !.ids = OutstandingOf(u) \cup OutstandingIn(b),
                               !.linkedAt = link[u].linkedAt]
  <2>1. tx' = [tx EXCEPT ![t] = r] /\ Read(r)
    BY <1>7 DEF BeginIssue, Begin, NoTx
  <2> QED
    BY <1>3, <1>4, <2>1
<1>8. ASSUME NEW t \in Txs, NEW c \in Ids, BeginNewCode(t, c) PROVE Snapshots'
  <2> DEFINE r == [NoTx EXCEPT !.kind = "new_code",
                               !.user = challenge[c].user, !.browser = challenge[c].browser,
                               !.ids = OutstandingOf(challenge[c].user)
                                         \cup OutstandingIn(challenge[c].browser),
                               !.linkedAt = challenge[c].linkedAt,
                               !.code = c]
  <2>1. challenge[c].user \in Users /\ challenge[c].browser \in Browsers
    BY <1>8 DEF BeginNewCode, Outstanding, IInv, Born
  <2>2. tx' = [tx EXCEPT ![t] = r] /\ Read(r)
    BY <1>8, <2>1 DEF BeginNewCode, Begin, NoTx
  <2> QED
    BY <1>3, <1>4, <2>2
<1>9. ASSUME NEW t \in Txs, NEW b \in Browsers, BeginVerify(t, b) PROVE Snapshots'
  <2> DEFINE r == [NoTx EXCEPT !.kind = "verify", !.browser = b, !.ids = OutstandingIn(b)]
  <2>1. \A c \in OutstandingIn(b) : challenge'[c].status # "none" /\ challenge'[c].browser = b
    BY DEF OutstandingIn, Outstanding
  <2>2. tx' = [tx EXCEPT ![t] = r] /\ Read(r)
    BY <1>9, <2>1 DEF BeginVerify, Begin, NoTx
  <2> QED
    BY <1>3, <1>4, <2>2
<1>10. ASSUME NEW t \in Txs, NEW u \in Users, BeginLinkChange(t, u) PROVE Snapshots'
  <2> DEFINE r == [NoTx EXCEPT !.kind = "link_change", !.user = u, !.ids = OutstandingOf(u)]
  <2>1. tx' = [tx EXCEPT ![t] = r] /\ Read(r)
    BY <1>10 DEF BeginLinkChange, Begin, NoTx
  <2> QED
    BY <1>3, <1>4, <2>1
<1>11. ASSUME UNCHANGED tx PROVE Snapshots'
  BY <1>3, <1>11
<1>12. ASSUME NEW b \in Browsers, EndSession(b) PROVE UNCHANGED tx
  BY <1>12 DEF EndSession
<1>13. ASSUME NEW w \in Workers, Start(w) \/ LoseLock(w) \/ Stop(w) \/ Dispatch(w)
       PROVE  UNCHANGED tx
  BY <1>13 DEF Start, LoseLock, Stop, Dispatch, Prepare, NothingToPrepare, Send, Report, Recover
<1> HIDE DEF Read
<1> QED
  BY <1>6, <1>7, <1>8, <1>9, <1>10, <1>11, <1>12, <1>13 DEF Next, Begins, vars

\* The codes of browser b that were consumed.
ConsumedIn(b) == {c \in Ids : challenge[c].status = "consumed" /\ challenge[c].browser = b}

\* A step that consumes nothing and logs nobody in or out explains every login
\* as before.
LEMMA LoginsKept ==
    ASSUME IInv,
           \A c \in Ids : challenge[c].status = "consumed" => challenge'[c] = challenge[c],
           \A c \in Ids : challenge'[c].status = "consumed" => challenge[c].status = "consumed",
           \A b \in Browsers : session'[b] = session[b] \/ {session[b], session'[b]} \cap Users = {}
    PROVE  LoginsExplained'
<1> SUFFICES ASSUME NEW b \in Browsers
             PROVE  IF session'[b] \in Users
                    THEN \E c \in Ids : ConsumedIn(b)' = {c} /\ challenge'[c].user = session'[b]
                    ELSE ConsumedIn(b)' = {}
  BY DEF LoginsExplained, ConsumedIn
<1>1. ConsumedIn(b)' = ConsumedIn(b)
  BY DEF ConsumedIn
<1>2. IF session[b] \in Users
      THEN \E c \in Ids : ConsumedIn(b) = {c} /\ challenge[c].user = session[b]
      ELSE ConsumedIn(b) = {}
  BY DEF IInv, LoginsExplained, ConsumedIn
<1>3. CASE session[b] \in Users
  <2>1. session'[b] = session[b]
    BY <1>3
  <2>2. PICK c \in Ids : ConsumedIn(b) = {c} /\ challenge[c].user = session[b]
    BY <1>2, <1>3
  <2>3. challenge'[c] = challenge[c]
    BY <2>2 DEF ConsumedIn
  <2> QED
    BY <1>1, <1>3, <2>1, <2>2, <2>3
<1>4. CASE session[b] \notin Users
  BY <1>1, <1>2, <1>4
<1> QED
  BY <1>3, <1>4

\* A correct answer logs the anonymous session of its browser in, and no code
\* of this browser was consumed before.
LEMMA RightAnswer ==
    ASSUME IInv, NEW t \in Txs, NEW c \in Ids,
           tx[t].kind = "verify", c \in tx[t].ids,
           challenge[c].status = "active", session[tx[t].browser] = Nobody,
           challenge' = [challenge EXCEPT ![c] = Answer(c, TRUE)],
           session' = [session EXCEPT ![tx[t].browser] = challenge[c].user]
    PROVE  LoginsExplained'
<1>1. PICK b \in Browsers : b = tx[t].browser /\ challenge[c].browser = b
  BY DEF IInv, Snapshots
<1>2. challenge[c].user \in Users
  BY DEF IInv, Born
<1>3. Nobody \notin Users
  BY CodeAssumption
<1>4. ConsumedIn(b) = {}
  BY <1>1, <1>3 DEF IInv, LoginsExplained, ConsumedIn
<1>5. /\ challenge'[c].status = "consumed"
      /\ challenge'[c].user = challenge[c].user
      /\ challenge'[c].browser = b
      /\ \A d \in Ids : d # c => challenge'[d] = challenge[d]
  BY <1>1 DEF IInv, TypeOK, ChallengeRow, Answer
<1>6. ConsumedIn(b)' = {c}
  <2>1. \A d \in Ids : d # c => ~(challenge[d].status = "consumed" /\ challenge[d].browser = b)
    BY <1>4 DEF ConsumedIn
  <2>2. \A d \in Ids : (challenge'[d].status = "consumed" /\ challenge'[d].browser = b) <=> d = c
    BY <1>5, <2>1
  <2> QED
    BY <2>2 DEF ConsumedIn
<1>7. session'[b] = challenge'[c].user /\ session'[b] \in Users
  BY <1>1, <1>5, <1>2 DEF IInv, TypeOK
<1>8. ASSUME NEW a \in Browsers, a # b
      PROVE  /\ session'[a] = session[a]
             /\ ConsumedIn(a)' = ConsumedIn(a)
             /\ \A d \in ConsumedIn(a) : challenge'[d] = challenge[d]
  BY <1>1, <1>5, <1>8 DEF IInv, TypeOK, ConsumedIn
<1> SUFFICES ASSUME NEW a \in Browsers
             PROVE  IF session'[a] \in Users
                    THEN \E d \in Ids : ConsumedIn(a)' = {d} /\ challenge'[d].user = session'[a]
                    ELSE ConsumedIn(a)' = {}
  BY DEF LoginsExplained, ConsumedIn
<1>9. CASE a = b
  BY <1>6, <1>7, <1>9 DEF ConsumedIn
<1>10. CASE a # b
  <2>1. IF session[a] \in Users
        THEN \E d \in Ids : ConsumedIn(a) = {d} /\ challenge[d].user = session[a]
        ELSE ConsumedIn(a) = {}
    BY DEF IInv, LoginsExplained, ConsumedIn
  <2>2. CASE session[a] \in Users
    <3>1. PICK d \in Ids : ConsumedIn(a) = {d} /\ challenge[d].user = session[a]
      BY <2>1, <2>2
    <3> QED
      BY <1>8, <1>10, <2>2, <3>1
  <2>3. CASE session[a] \notin Users
    BY <1>8, <1>10, <2>1, <2>3
  <2> QED
    BY <2>2, <2>3
<1> QED
  BY <1>9, <1>10

\* Logins stay explained.
LEMMA LoginsStep ==
    ASSUME IInv, [Next]_vars, \A c \in Ids : WebChange(c) \/ WorkerChange(c)
    PROVE  LoginsExplained'
<1>1. \A c \in Ids : challenge[c].status = "consumed" => challenge'[c] = challenge[c]
  BY DEF WebChange, WorkerChange, Kept, TakenDown, Outstanding, Inserted, Answered, Activated,
         Finished
<1>2. ASSUME NEW t \in Txs, NEW right \in BOOLEAN, Verify(t, right) PROVE LoginsExplained'
  <2>1. PICK c \in Locked(t) : Verify(t, right)!1!(c)
    BY <1>2 DEF Verify
  <2>2. c \in Ids /\ c \in tx[t].ids /\ challenge[c] \in ChallengeRow
    BY DEF Locked, IInv, TypeOK, Transaction
  <2>3. CASE LinkCurrent(c) /\ right
    <3>1. /\ session[tx[t].browser] = Nobody
          /\ session' = [session EXCEPT ![tx[t].browser] = challenge[c].user]
          /\ challenge' = [challenge EXCEPT ![c] = Answer(c, TRUE)]
      BY <2>1, <2>3 DEF SpendsIfRotates
    <3> QED
      BY <2>1, <2>2, <3>1, RightAnswer
  <2>4. CASE LinkCurrent(c) /\ ~right
    <3>1. /\ challenge' = [challenge EXCEPT ![c] = Answer(c, FALSE)] /\ UNCHANGED session
      BY <2>1, <2>4
    <3>2. Answer(c, FALSE).status # "consumed"
      BY <2>1, <2>2 DEF Answer, ChallengeRow
    <3>3. \A d \in Ids : challenge'[d].status = "consumed" => challenge[d].status = "consumed"
      BY <2>2, <3>1, <3>2 DEF IInv, TypeOK
    <3> QED
      BY <1>1, <3>1, <3>3, LoginsKept
  <2>5. CASE ~LinkCurrent(c)
    <3>1. /\ challenge' = EndedRows({c}, "invalidated") /\ UNCHANGED session
      BY <2>1, <2>5 DEF EndAll
    <3>2. \A d \in Ids : challenge'[d].status = "consumed" => challenge[d].status = "consumed"
      BY <2>2, <3>1 DEF EndedRows, ChallengeRow
    <3> QED
      BY <1>1, <3>1, <3>2, LoginsKept
  <2> QED
    BY <2>3, <2>4, <2>5
<1>3. ASSUME NEW t \in Txs, VerifyExpired(t) PROVE LoginsExplained'
  <2>1. PICK c \in Ids : challenge' = [challenge EXCEPT ![c].status = "expired"]
    BY <1>3 DEF VerifyExpired, Locked, IInv, TypeOK, Transaction
  <2>2. \A d \in Ids : challenge'[d].status = "consumed" => challenge[d].status = "consumed"
    BY <2>1 DEF IInv, TypeOK, ChallengeRow
  <2> QED
    BY <1>1, <1>3, <2>2, LoginsKept DEF VerifyExpired
<1>4. ASSUME NEW t \in Txs, Issue(t) \/ NewCode(t) PROVE LoginsExplained'
  <2>1. /\ tx[t].user \in Users /\ tx[t].browser \in Browsers
        /\ tx[t].linkedAt \in Nat /\ link[tx[t].user].linkedAt \in Nat
    BY <1>4 DEF Issue, NewCode, IInv, Snapshots, TypeOK, Transaction
  <2>2. \A c \in Ids : Kept(c) \/ TakenDown(c) \/ Inserted(c)
    BY <1>4, <2>1, ReplaceRows DEF Issue, NewCode
  <2>3. \A c \in Ids : challenge'[c].status = "consumed" => challenge[c].status = "consumed"
    BY <2>2 DEF Kept, TakenDown, Inserted, IInv, TypeOK, ChallengeRow
  <2> QED
    BY <1>1, <1>4, <2>3, LoginsKept DEF Issue, NewCode, Replace
<1>5. ASSUME NEW t \in Txs, NEW unlink \in BOOLEAN, ChangeLink(t, unlink) PROVE LoginsExplained'
  <2>1. challenge' = EndedRows(Locked(t), "invalidated") /\ UNCHANGED session
    BY <1>5 DEF ChangeLink, EndAll
  <2>2. \A c \in Ids : challenge'[c].status = "consumed" => challenge[c].status = "consumed"
    BY <2>1 DEF EndedRows, IInv, TypeOK, ChallengeRow
  <2> QED
    BY <1>1, <2>1, <2>2, LoginsKept
<1>6. ASSUME UNCHANGED <<challenge, session>> PROVE LoginsExplained'
  BY <1>6, <1>1, LoginsKept
<1>7. ASSUME NEW t \in Txs, Begins(t) \/ Abort(t) PROVE LoginsExplained'
  BY <1>6, <1>7 DEF Begins, BeginIssue, BeginNewCode, BeginVerify, BeginLinkChange, Begin, Abort,
                    rows
<1>8. ASSUME NEW b \in Browsers, EndSession(b) PROVE LoginsExplained'
  <2>1. /\ session' = [session EXCEPT ![b] = Ended] /\ session[b] = Nobody /\ UNCHANGED challenge
    BY <1>8 DEF EndSession, rows
  <2>2. \A a \in Browsers : session'[a] = session[a] \/ {session[a], session'[a]} \cap Users = {}
    BY <2>1, CodeAssumption DEF IInv, TypeOK
  <2> QED
    BY <1>1, <2>1, <2>2, LoginsKept
<1>9. ASSUME NEW w \in Workers, Start(w) \/ LoseLock(w) \/ Stop(w) \/ Dispatch(w)
       PROVE  LoginsExplained'
  <2>1. UNCHANGED session
    BY <1>9 DEF Start, LoseLock, Stop, Dispatch, Prepare, NothingToPrepare, Send, Report, Recover
  <2>2. \A c \in Ids : challenge'[c].status = "consumed" => challenge[c].status = "consumed"
    BY <1>9, WorkerRows DEF WorkerChange, Kept, TakenDown, Activated, Finished, IInv, TypeOK,
                            ChallengeRow
  <2> QED
    BY <1>1, <2>1, <2>2, LoginsKept
<1>10. CASE UNCHANGED vars
  BY <1>6, <1>10 DEF vars, rows
<1> QED
  BY <1>2, <1>3, <1>4, <1>5, <1>7, <1>8, <1>9, <1>10 DEF Next, Ends

-----------------------------------------------------------------------------
(* Dispatchers and deliveries.                                             *)

\* What the web does to a dispatch does not disturb the dispatchers: what they
\* have in hand is prepared or settled, and remains so.
LEMMA DeliveriesKept ==
    ASSUME IInv, UNCHANGED <<worker, deliveries>>, \A c \in Ids : WebChange(c)
    PROVE  Carried' /\ SentOnce'
<1>1. ASSUME NEW c \in Ids
      PROVE  /\ dispatch'[c] \in {"none", "pending"} => dispatch[c] \in {"none", "pending"}
             /\ dispatch'[c] = "sent" => dispatch[c] = "sent"
  BY DEF WebChange, Kept, TakenDown, Inserted, Answered, Open, IInv, Born
<1>2. Carried'
  BY <1>1 DEF IInv, Carried
<1>3. SentOnce'
  BY <1>1 DEF IInv, SentOnce
<1> QED
  BY <1>2, <1>3

\* A message that arrives is the first with its code: no other dispatcher sends
\* it, and none has reported it sent.
LEMMA Arrives ==
    ASSUME IInv, NEW w \in Workers, worker[w].at = "sending",
           deliveries' = [deliveries EXCEPT ![worker[w].item] = @ + 1],
           UNCHANGED dispatch
    PROVE  /\ SentOnce'
           /\ deliveries'[worker[w].item] = 1
           /\ \A v \in Workers \ {w} : worker[v].at \in {"sending", "reporting"} =>
                (worker[v].at = "sending" \/ worker[v].result = "sent"
                   => deliveries'[worker[v].item] = deliveries[worker[v].item])
<1> DEFINE i == worker[w].item
<1>1. /\ i \in Ids /\ deliveries[i] = 0 /\ dispatch[i] \notin {"none", "pending"}
      /\ dispatch[i] # "sent"
  BY DEF IInv, Carried, SentOnce
<1>2. deliveries'[i] = 1 /\ \A c \in Ids : c # i => deliveries'[c] = deliveries[c]
  BY <1>1 DEF IInv, TypeOK
<1>3. SentOnce'
  BY <1>1, <1>2 DEF IInv, SentOnce
<1>4. ASSUME NEW v \in Workers \ {w}, worker[v].at \in {"sending", "reporting"},
             worker[v].at = "sending" \/ worker[v].result = "sent"
      PROVE  worker[v].item \in Ids /\ worker[v].item # i
  BY <1>1, <1>4 DEF IInv, Carried
<1> QED
  BY <1>2, <1>3, <1>4

\* The dispatchers keep their promises to one another.
LEMMA DeliveriesStep ==
    ASSUME IInv, NEW w \in Workers, Start(w) \/ LoseLock(w) \/ Stop(w) \/ Dispatch(w)
    PROVE  Carried' /\ SentOnce'
<1> USE DEF IInv, rows
<1>1. ASSUME NEW c \in Ids
      PROVE  dispatch[c] \notin {"none", "pending"} => dispatch'[c] \notin {"none", "pending"}
  BY WorkerRows DEF WorkerChange, Kept, TakenDown, Activated, Finished, Open
<1>2. ASSUME NEW p, GoTo(w, p), p.at \in {"down", "batch", "recovery"}, UNCHANGED deliveries
      PROVE  Carried'
  BY <1>1, <1>2 DEF Carried, GoTo, TypeOK
<1>3. CASE Start(w) \/ LoseLock(w) \/ NothingToPrepare(w)
  BY <1>1, <1>2, <1>3 DEF Start, LoseLock, NothingToPrepare, Batch, Recovery, Carried, SentOnce
<1>4. CASE Stop(w)
  <2>1. CASE UNCHANGED deliveries
    BY <1>2, <1>4, <2>1 DEF Stop, Down, SentOnce
  <2>2. CASE /\ worker[w].at = "sending"
             /\ deliveries' = [deliveries EXCEPT ![worker[w].item] = @ + 1]
    <3>1. Carried'
      BY <1>1, <1>4, <2>2, Arrives DEF Stop, GoTo, Down, Carried, TypeOK
    <3> QED
      BY <1>4, <2>2, <3>1, Arrives DEF Stop
  <2> QED
    BY <1>4, <2>1, <2>2 DEF Stop
<1>5. CASE Prepare(w)
  <2>1. PICK c \in Ids : Prepare(w)!2!(c)
    BY <1>5 DEF Prepare
  <2>2. deliveries[c] = 0 /\ dispatch[c] = "pending" /\ UNCHANGED deliveries
    BY <1>5, <2>1 DEF Prepare, Claimable, SentOnce
  <2>3. dispatch'[c] \in {"prepared", "cancelled"}
    BY <2>1 DEF TypeOK
  <2>4. \A d \in Ids : d # c => dispatch'[d] = dispatch[d]
    BY <2>1 DEF TypeOK
  <2>5. SentOnce'
    BY <2>2, <2>3, <2>4 DEF SentOnce
  <2>6. \A v \in Workers : worker[v].at \in {"sending", "reporting"} => worker[v].item # c
    BY <2>2 DEF Carried
  <2>7. Carried'
    BY <1>1, <1>2, <2>1, <2>2, <2>3, <2>6 DEF Recovery, GoTo, Carried, TypeOK
  <2> QED
    BY <2>5, <2>7
<1>6. CASE Send(w)
  <2>1. PICK result \in {"sent", "failed", "unknown"}, arrived \in BOOLEAN :
          Send(w)!1!2!(result, arrived)
    BY <1>6 DEF Send
  <2>2. /\ worker'[w].at = "reporting" /\ worker'[w].item = worker[w].item
        /\ worker'[w].result = result
        /\ \A v \in Workers \ {w} : worker'[v] = worker[v]
    BY <2>1 DEF GoTo, TypeOK, Place
  <2>3. UNCHANGED dispatch /\ worker[w].at = "sending"
    BY <1>6 DEF Send
  <2>4. SentOnce' /\ (result = "sent" => deliveries'[worker[w].item] = 1)
    BY <2>1, <2>3, Arrives DEF SentOnce
  <2>5. ASSUME NEW v \in Workers, v # w, worker[v].at \in {"sending", "reporting"},
               worker[v].at = "sending" \/ worker[v].result = "sent"
        PROVE  deliveries'[worker[v].item] = deliveries[worker[v].item]
    BY <2>1, <2>3, <2>5, Arrives
  <2>6. ASSUME NEW v \in Workers, v # w, worker'[v].at = "sending"
        PROVE  deliveries'[worker'[v].item] = 0
    BY <2>2, <2>5, <2>6 DEF Carried
  <2>7. ASSUME NEW v \in Workers, v # w, worker'[v].at = "reporting", worker'[v].result = "sent"
        PROVE  deliveries'[worker'[v].item] = 1
    BY <2>2, <2>5, <2>7 DEF Carried
  <2>8. Carried'
    BY <2>1, <2>2, <2>3, <2>4, <2>6, <2>7 DEF Carried
  <2> QED
    BY <2>4, <2>8
<1>7. CASE Report(w)
  <2>1. Carried'
    BY <1>2, <1>7 DEF Report, Recovery, Batch
  <2>2. SentOnce'
    <3>1. /\ worker[w].result \notin {"none", "pending"} /\ UNCHANGED deliveries
          /\ worker[w].result = "sent" => deliveries[worker[w].item] = 1
      BY <1>7 DEF Report, Carried, TypeOK, Place
    <3>2. \A c \in Ids :
            IF c = worker[w].item THEN dispatch'[c] \in {dispatch[c], worker[w].result}
            ELSE dispatch'[c] = dispatch[c]
      BY <1>7 DEF Report, Reportable, TypeOK
    <3> QED
      BY <3>1, <3>2 DEF SentOnce
  <2> QED
    BY <2>1, <2>2
<1>8. CASE Recover(w)
  <2>1. Carried'
    BY <1>2, <1>8 DEF Recover, Batch
  <2>2. SentOnce'
    BY <1>8 DEF Recover, Recovered, SentOnce, TypeOK
  <2> QED
    BY <2>1, <2>2
<1> QED
  BY <1>3, <1>4, <1>5, <1>6, <1>7, <1>8 DEF Dispatch

-----------------------------------------------------------------------------
(* The invariant.                                                          *)

\* Every step preserves it.
LEMMA StepInv == IInv /\ [Next]_vars => IInv'
<1> SUFFICES ASSUME IInv, [Next]_vars PROVE IInv'
  OBVIOUS
<1>1. \A c \in Ids : WebChange(c) \/ WorkerChange(c)
  BY NextRows
<1>2. TypeOK'
  <2>1. ASSUME NEW b \in Browsers, EndSession(b) PROVE TypeOK'
    BY <2>1 DEF EndSession, IInv, TypeOK, rows, process
  <2>2. CASE UNCHANGED vars
    BY <2>2 DEF vars, IInv, TypeOK, rows, process
  <2> QED
    BY <2>1, <2>2, WebType, WorkerType DEF Next
<1>3. /\ Born' /\ DispatchFollowsChallenge' /\ GuessesBounded'
      /\ \A c \in Ids : challenge[c].status # "none" =>
           /\ challenge'[c].status # "none"
           /\ challenge'[c].user = challenge[c].user
           /\ challenge'[c].browser = challenge[c].browser
  BY <1>1, <1>2, RowsStep
<1>4. CodesFollowLink'
  BY <1>1, LinkStep
<1>5. Snapshots'
  BY <1>3, SnapshotsStep
<1>6. LoginsExplained'
  BY <1>1, LoginsStep
<1>7. Carried' /\ SentOnce'
  <2>1. ASSUME NEW t \in Txs, Ends(t) PROVE Carried' /\ SentOnce'
    <3>1. UNCHANGED <<worker, deliveries>>
      BY <2>1 DEF Ends, Issue, NewCode, Replace, Verify, VerifyExpired, ChangeLink, Abort, process
    <3> QED
      BY <2>1, <3>1, EndsRows, DeliveriesKept
  <2>2. ASSUME UNCHANGED <<rows, worker, deliveries>> PROVE Carried' /\ SentOnce'
    BY <2>2, DeliveriesKept DEF rows, WebChange, Kept
  <2>3. ASSUME NEW t \in Txs, Begins(t) PROVE UNCHANGED <<rows, worker, deliveries>>
    BY <2>3 DEF Begins, BeginIssue, BeginNewCode, BeginVerify, BeginLinkChange, Begin, process
  <2>4. ASSUME NEW b \in Browsers, EndSession(b) PROVE UNCHANGED <<rows, worker, deliveries>>
    BY <2>4 DEF EndSession, process
  <2>5. CASE UNCHANGED vars
    BY <2>2, <2>5 DEF vars, process
  <2> QED
    BY <2>1, <2>2, <2>3, <2>4, <2>5, DeliveriesStep DEF Next
<1> QED
  BY <1>2, <1>3, <1>4, <1>5, <1>6, <1>7 DEF IInv

\* The invariant holds always.
THEOREM Invariance == Spec => []IInv
<1> QED
  BY InitInv, StepInv, PTL DEF Spec

\* Every variable keeps its type, however many there are of everything.
THEOREM TypeCorrect == Spec => []TypeOK
<1>1. IInv => TypeOK
  BY DEF IInv
<1> QED
  BY <1>1, Invariance, PTL

\* No code of an old link can be used: a link change takes down what its
\* snapshot has, refuses if the user has more, and the dispatcher makes up no
\* code for a challenge of another link.
THEOREM CodesAlwaysFollowLink == Spec => []CodesFollowLink
<1>1. IInv => CodesFollowLink
  BY DEF IInv
<1> QED
  BY <1>1, Invariance, PTL

\* A challenge and its dispatch wait together and end together.
THEOREM DispatchAlwaysFollows == Spec => []DispatchFollowsChallenge
<1>1. IInv => DispatchFollowsChallenge
  BY DEF IInv
<1> QED
  BY <1>1, Invariance, PTL

\* No code reaches Telegram twice, with any number of dispatchers at work after
\* any number of crashes and lost locks.
THEOREM AlwaysSentOnce == Spec => []SentOnce
<1>1. IInv => SentOnce
  BY DEF IInv
<1> QED
  BY <1>1, Invariance, PTL

\* Logins and consumed codes correspond one to one, with any number of answers
\* under way.
THEOREM LoginsAlwaysExplained == Spec => []LoginsExplained
<1>1. IInv => LoginsExplained
  BY DEF IInv
<1> QED
  BY <1>1, Invariance, PTL

\* A challenge takes no more than MaxAttempts wrong answers.
THEOREM GuessesAlwaysBounded == Spec => []GuessesBounded
<1>1. IInv => GuessesBounded
  BY DEF IInv
<1> QED
  BY <1>1, Invariance, PTL

\* No challenge that ended and no dispatch that is settled changes again.
THEOREM EndsStayFinal == Spec => EndsAreFinal
<1>1. IInv /\ IInv' /\ [Next]_vars => [NothingRevived]_vars
  <2> SUFFICES ASSUME IInv, IInv', [Next]_vars PROVE NothingRevived
    OBVIOUS
  <2>1. \A c \in Ids : WebChange(c) \/ WorkerChange(c)
    BY NextRows
  <2> QED
    BY <2>1, RowsStep DEF IInv
<1> QED
  BY <1>1, Invariance, PTL DEF Spec, EndsAreFinal
=============================================================================
