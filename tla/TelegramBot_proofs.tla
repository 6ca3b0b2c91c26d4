------------------------ MODULE TelegramBot_proofs ------------------------
(***************************************************************************)
(* The polling worker and its links, for any number of users, chats,       *)
(* tokens, updates and processes: every link was proven, every update      *)
(* takes effect once, and updates are handled in their order.              *)
(*                                                                         *)
(* That a link was proven rests on what a token's binding says (Bindings)  *)
(* and on a token that ended never changing again.  That an effect is      *)
(* committed once rests on the row lock of the cursor: only its holder is  *)
(* in transaction A (Applying), and the cursor moves past an update in the *)
(* transaction that applies it (Ahead).  That an update is never set aside *)
(* after it was applied is a matter of counting: every process that still  *)
(* has its failure to report costs it at most one attempt (Spared).        *)
(***************************************************************************)
EXTENDS TelegramBot, Sequences, FiniteSetTheorems, TLAPS

-----------------------------------------------------------------------------
(* Links.                                                                  *)

TokenRow == [user : Users \cup {Nobody}, chat : Chats \cup {Nobody},
             opener : Chats \cup {Nobody}, marks : SUBSET {"consumed", "invalidated", "expired"}]

\* A token that is bound to a chat and open was opened by that chat.
Bindings == \A t \in Tokens : Open(t) /\ token[t].chat # Nobody => token[t].opener = token[t].chat

\* The token a link was made with.
LinkRows == \A u \in Users : Linked(u) => link[u].token \in Tokens

LinkInv == LinkTypeOK /\ Bindings /\ LinkRows /\ LinksProven

\* A token that ended by being used is not open.
LEMMA UsedIsNotOpen ==
    ASSUME LinkInv, NEW u \in Users, Linked(u)
    PROVE  /\ link[u].token \in Tokens
           /\ Issued(link[u].token)
           /\ ~Open(link[u].token)
BY LinkAssumption DEF LinkInv, LinkRows, LinksProven, Issued, Open

\* A step that leaves the links, the customers and the ended tokens alone keeps
\* every link proven.
LEMMA LinksKept ==
    ASSUME LinkInv, UNCHANGED <<link, customer>>,
           \A t \in Tokens : Issued(t) /\ ~Open(t) => token'[t] = token[t]
    PROVE  LinkRows' /\ LinksProven'
<1>1. LinkRows'
  BY DEF LinkInv, LinkRows, Linked
<1>2. \A u \in Users : Linked(u) => token'[link[u].token] = token[link[u].token]
  BY UsedIsNotOpen
<1>3. LinksProven'
  BY <1>2 DEF LinkInv, LinksProven, Linked
<1> QED
  BY <1>1, <1>3

\* A row stays one when one of its columns is written.
LEMMA ColumnWritten ==
    ASSUME NEW row \in TokenRow
    PROVE  /\ \A ms \in SUBSET {"consumed", "invalidated", "expired"} : [row EXCEPT !.marks = ms] \in TokenRow
           /\ \A c \in Chats \cup {Nobody} :
                /\ [row EXCEPT !.chat = c] \in TokenRow /\ [row EXCEPT !.chat = c].chat = c
                /\ [row EXCEPT !.opener = c] \in TokenRow /\ [row EXCEPT !.opener = c].chat = row.chat
BY DEF TokenRow

\* A token that ends is a row without a chat.
LEMMA InvalidatedType ==
    ASSUME LinkTypeOK, NEW t \in Tokens
    PROVE  Invalidated(token[t]) \in TokenRow /\ Invalidated(token[t]).chat = Nobody
<1>1. token[t] \in TokenRow
  BY DEF LinkTypeOK, TokenRow
<1> DEFINE marked == [token[t] EXCEPT !.marks = @ \cup {"invalidated"}]
           unbound == [marked EXCEPT !.chat = Nobody]
<1>2. Invalidated(token[t]) = [unbound EXCEPT !.opener = Nobody]
  BY DEF Invalidated
<1>3. token[t].marks \cup {"invalidated"} \in SUBSET {"consumed", "invalidated", "expired"}
  BY <1>1 DEF TokenRow
<1>4. marked \in TokenRow
  BY <1>1, <1>3, ColumnWritten
<1>5. unbound \in TokenRow /\ unbound.chat = Nobody
  BY <1>4, ColumnWritten
<1>6. [unbound EXCEPT !.opener = Nobody] \in TokenRow /\ [unbound EXCEPT !.opener = Nobody].chat = unbound.chat
  BY <1>5, ColumnWritten
<1> QED
  BY <1>2, <1>5, <1>6

\* Issuing a token.
LEMMA IssueTokenLinks ==
    ASSUME LinkInv, NEW u \in Users, IssueToken(u)
    PROVE  LinkInv'
<1> USE LinkAssumption
<1>1. PICK t \in Tokens : ~Issued(t) /\ token' = Inserted(t, u)
  BY DEF IssueToken
<1>2. UNCHANGED <<link, customer>>
  BY DEF IssueToken
<1>3. token'[t] = [Unissued EXCEPT !.user = u]
  BY <1>1 DEF Inserted
<1>4. \A s \in Tokens \ {t} :
        token'[s] = IF s \in OpenOf(u) THEN Invalidated(token[s]) ELSE token[s]
  BY <1>1 DEF Inserted
<1>5. LinkTypeOK'
  <2>1. \A s \in Tokens : token'[s] \in TokenRow
    BY <1>3, <1>4, InvalidatedType DEF LinkInv, LinkTypeOK, Unissued, TokenRow
  <2>2. token' = [s \in Tokens |-> token'[s]]
    BY <1>1 DEF Inserted
  <2> QED
    BY <2>1, <2>2, <1>2 DEF LinkInv, LinkTypeOK, TokenRow
<1>6. Bindings'
  <2> SUFFICES ASSUME NEW s \in Tokens, Open(s)', token'[s].chat # Nobody
               PROVE  token'[s].opener = token'[s].chat
    BY DEF Bindings
  <2>1. s # t
    BY <1>3 DEF Unissued
  <2>2. s \notin OpenOf(u)
    BY <2>1, <1>4, InvalidatedType DEF LinkInv
  <2>3. token'[s] = token[s]
    BY <2>1, <2>2, <1>4
  <2> QED
    BY <2>3 DEF LinkInv, Bindings, Open, Issued
<1>7. LinkRows' /\ LinksProven'
  <2>1. \A s \in Tokens : Issued(s) /\ ~Open(s) => token'[s] = token[s]
    BY <1>1, <1>4 DEF OpenOf
  <2> QED
    BY <2>1, <1>2, LinksKept
<1> QED
  BY <1>5, <1>6, <1>7 DEF LinkInv

\* Ending a link.
LEMMA UnlinkLinks ==
    ASSUME LinkInv, NEW u \in Users, Unlink(u)
    PROVE  LinkInv'
<1> USE LinkAssumption
<1>1. \A s \in Tokens :
        token'[s] = IF s \in OpenOf(u) THEN Invalidated(token[s]) ELSE token[s]
  BY DEF Unlink
<1>2. customer' = customer /\ customer[u] # "active"
  BY DEF Unlink, MayUnlink
<1>3. /\ link' = [link EXCEPT ![u] = Unlinked]
      /\ \A v \in Users : link'[v] = IF v = u THEN Unlinked ELSE link[v]
  BY DEF Unlink, EndLink, LinkInv, LinkTypeOK, TokenRow
<1>4. LinkTypeOK'
  <2>1. \A s \in Tokens : token'[s] \in TokenRow
    BY <1>1, InvalidatedType DEF LinkInv, LinkTypeOK, TokenRow
  <2>2. token' = [s \in Tokens |-> token'[s]]
    BY DEF Unlink
  <2>3. link' \in [Users -> [chat : Chats \cup {Nobody}, token : Tokens \cup {NoToken},
                             phone : Users \cup {Nobody}]]
    BY <1>3 DEF LinkInv, LinkTypeOK, Unlinked
  <2> QED
    BY <2>1, <2>2, <2>3, <1>2 DEF LinkInv, LinkTypeOK, TokenRow
<1>5. Bindings'
  <2> SUFFICES ASSUME NEW s \in Tokens, Open(s)', token'[s].chat # Nobody
               PROVE  token'[s].opener = token'[s].chat
    BY DEF Bindings
  <2>1. token'[s] = token[s]
    BY <1>1, InvalidatedType DEF LinkInv
  <2> QED
    BY <2>1 DEF LinkInv, Bindings, Open, Issued
<1>6. ~Linked(u)' /\ \A v \in Users \ {u} : link'[v] = link[v]
  BY <1>3 DEF Linked, Unlinked
<1>7. \A v \in Users \ {u} : Linked(v) => token'[link[v].token] = token[link[v].token]
  BY <1>1, UsedIsNotOpen DEF OpenOf
<1>8. LinkRows' /\ LinksProven'
  <2>1. LinkRows'
    BY <1>6 DEF LinkInv, LinkRows, Linked
  <2>2. LinksProven'
    BY <1>2, <1>6, <1>7 DEF LinkInv, LinksProven, Linked
  <2> QED
    BY <2>1, <2>2
<1> QED
  BY <1>4, <1>5, <1>8 DEF LinkInv

\* A token expires.
LEMMA ExpireLinks ==
    ASSUME LinkInv, NEW t \in Tokens, Expire(t)
    PROVE  LinkInv'
<1> USE LinkAssumption
<1>1. UNCHANGED <<link, customer>> /\ Open(t)
  BY DEF Expire
<1>2. /\ token'[t] = [token[t] EXCEPT !.marks = @ \cup {"expired"}]
      /\ \A s \in Tokens \ {t} : token'[s] = token[s]
      /\ token' = [s \in Tokens |-> token'[s]]
  BY DEF Expire, LinkInv, LinkTypeOK, TokenRow
<1>3. LinkTypeOK'
  BY <1>1, <1>2 DEF LinkInv, LinkTypeOK, TokenRow
<1>4. Bindings'
  <2>1. token'[t].chat = token[t].chat /\ token'[t].opener = token[t].opener
    BY <1>2 DEF LinkInv, LinkTypeOK, TokenRow
  <2> QED
    BY <1>1, <1>2, <2>1 DEF LinkInv, Bindings, Open, Issued
<1>5. LinkRows' /\ LinksProven'
  BY <1>1, <1>2, LinksKept
<1> QED
  BY <1>3, <1>4, <1>5 DEF LinkInv

\* A step of the web keeps every link proven.
LEMMA WebStepLinks ==
    ASSUME LinkInv, WebStep
    PROVE  LinkInv'
<1>1. ASSUME NEW u \in Users, Activate(u) PROVE LinkInv'
  BY <1>1 DEF Activate, LinkInv, LinkTypeOK, Bindings, LinkRows, LinksProven, Open, Issued, Linked
<1> QED
  BY <1>1, IssueTokenLinks, UnlinkLinks, ExpireLinks DEF WebStep

\* A chat opens the link of a token.
LEMMA BindTokenLinks ==
    ASSUME LinkInv, NEW t \in Tokens, NEW c \in Chats, Usable(t),
           BindToken(t, c), UNCHANGED <<link, customer>>
    PROVE  LinkInv'
<1> USE LinkAssumption
<1>1. /\ token'[t] = [token[t] EXCEPT !.chat = c, !.opener = c]
      /\ \A s \in Tokens \ {t} :
           token'[s] = IF s \in Pending(c) /\ token[t].chat # c THEN Invalidated(token[s]) ELSE token[s]
      /\ token' = [s \in Tokens |-> token'[s]]
  BY DEF BindToken
<1>2. token'[t].chat = c /\ token'[t].opener = c
  BY <1>1 DEF LinkInv, LinkTypeOK, TokenRow
<1>3. LinkTypeOK'
  <2>1. token[t] \in TokenRow
    BY DEF LinkInv, LinkTypeOK, TokenRow
  <2>2. token'[t] \in TokenRow
    <3>1. [token[t] EXCEPT !.chat = c] \in TokenRow
      BY <2>1, ColumnWritten
    <3>2. [[token[t] EXCEPT !.chat = c] EXCEPT !.opener = c] \in TokenRow
      BY <3>1, ColumnWritten
    <3> QED
      BY <1>1, <3>2
  <2>3. \A s \in Tokens \ {t} : token'[s] \in TokenRow
    BY <1>1, InvalidatedType DEF LinkInv, LinkTypeOK, TokenRow
  <2> QED
    BY <1>1, <2>1, <2>2, <2>3 DEF LinkInv, LinkTypeOK, TokenRow
<1>4. Bindings'
  <2> SUFFICES ASSUME NEW s \in Tokens, s # t, Open(s)', token'[s].chat # Nobody
               PROVE  token'[s].opener = token'[s].chat
    BY <1>2 DEF Bindings
  <2>1. token'[s] = token[s]
    BY <1>1, InvalidatedType DEF LinkInv
  <2> QED
    BY <2>1 DEF LinkInv, Bindings, Open, Issued
<1>5. LinkRows' /\ LinksProven'
  BY <1>1, LinksKept DEF Pending, Usable
<1> QED
  BY <1>3, <1>4, <1>5 DEF LinkInv

\* A contact makes a link.
LEMMA ConsumeTokenLinks ==
    ASSUME LinkInv, NEW c \in Chats, NEW phone \in Users, NEW seen,
           Consumes(c, phone, seen), ConsumeToken(c, phone, seen), UNCHANGED customer
    PROVE  LinkInv'
<1> USE LinkAssumption
<1>1. PICK t \in seen :
        /\ token' = [token EXCEPT ![t].marks = @ \cup {"consumed"}, ![t].chat = Nobody]
        /\ LinkTo(token[t].user, c, t, phone)
  BY DEF ConsumeToken
<1> DEFINE u == token[t].user
<1>2. /\ t \in Tokens /\ Open(t) /\ token[t].chat = c
      /\ "expired" \notin token[t].marks
      /\ phone = u /\ ~ChatTaken(c, u)
  BY DEF Consumes, Unmoved, Pending, Usable, PhoneMatches
<1>3. /\ u \in Users
      /\ token[t].opener = c
      /\ token[t].marks = {}
  BY <1>2 DEF LinkInv, LinkTypeOK, Bindings, Open, Issued
<1>4. /\ token'[t].user = u /\ token'[t].opener = c /\ token'[t].chat = Nobody
      /\ token'[t].marks = {"consumed"}
      /\ \A s \in Tokens \ {t} : token'[s] = token[s]
  BY <1>1, <1>2, <1>3 DEF LinkInv, LinkTypeOK, TokenRow
<1>5. /\ link'[u] = [chat |-> c, token |-> t, phone |-> phone]
      /\ \A v \in Users \ {u} : link'[v] = link[v]
  BY <1>1, <1>3 DEF LinkTo, LinkInv, LinkTypeOK, TokenRow
<1>6. LinkTypeOK'
  <2>1. token' \in [Tokens -> TokenRow]
    BY <1>1, <1>2 DEF LinkInv, LinkTypeOK, TokenRow
  <2>2. link' \in [Users -> [chat : Chats \cup {Nobody}, token : Tokens \cup {NoToken},
                             phone : Users \cup {Nobody}]]
    BY <1>1, <1>2, <1>3 DEF LinkTo, LinkInv, LinkTypeOK, TokenRow
  <2> QED
    BY <2>1, <2>2 DEF LinkInv, LinkTypeOK, TokenRow
<1>7. Bindings'
  BY <1>4 DEF LinkInv, Bindings, Open, Issued
<1>8. \A v \in Users \ {u} : Linked(v) =>
        link[v].token \in Tokens /\ token'[link[v].token] = token[link[v].token] /\ link[v].chat # c
  BY <1>2, <1>3, <1>4, UsedIsNotOpen DEF ChatTaken
<1>9. LinkRows'
  BY <1>2, <1>5, <1>8 DEF Linked, LinkRows
<1>10. LinksProven'
  <2>1. /\ link'[u].chat = c /\ link'[u].token = t /\ link'[u].phone = u
        /\ c # Nobody
    BY <1>2, <1>5
  <2>2. \A v \in Users \ {u} : link'[v].chat # c
    BY <1>5, <1>8 DEF Linked
  <2>3. ASSUME NEW v \in Users \ {u}, Linked(v)
        PROVE  /\ link'[v].phone = v
               /\ token'[link'[v].token].user = v
               /\ token'[link'[v].token].opener = link'[v].chat
               /\ token'[link'[v].token].marks = {"consumed"}
               /\ \A x \in Users \ {v} : link'[x].chat # link'[v].chat
    BY <1>5, <1>8, <2>2, <2>3 DEF LinkInv, LinksProven
  <2>4. \A v \in Users \ {u} : Linked(v)' => Linked(v)
    BY <1>5 DEF Linked
  <2>5. \A v \in Users : customer'[v] = "active" => Linked(v)'
    BY <1>5, <2>1 DEF LinkInv, LinksProven, Linked
  <2> QED
    BY <1>3, <1>4, <2>1, <2>2, <2>3, <2>4, <2>5 DEF LinksProven
<1> QED
  BY <1>6, <1>7, <1>9, <1>10 DEF LinkInv

-----------------------------------------------------------------------------
(* Types, and what the updates and the processes carry.                    *)

PlaceRow == [at : {"down", "polling", "next", "applying", "failed", "replying"},
             batch : SUBSET Updates, item : Updates \cup {0}, seen : SUBSET Tokens]

\* An update says who wrote it and what.
Written == \A i \in Updates :
    /\ update[i].kind = "start" => update[i].chat \in Chats /\ update[i].token \in Tokens
    /\ update[i].kind = "contact" => update[i].chat \in Chats /\ update[i].phone \in Users

\* A process has updates in hand that were sent.
Fits(place) ==
    /\ place.batch \subseteq 1..arrived
    /\ place.at \in {"applying", "failed", "replying"} => place.item \in 1..arrived

InHand == \A w \in Workers : Fits(worker[w])

TypeInv == TypeOK /\ Written /\ InHand /\ LinkInv

\* The process goes to a place that fits.
LEMMA Moved ==
    ASSUME TypeInv, NEW w \in Workers, NEW place \in PlaceRow, Fits(place), GoTo(w, place),
           arrived' = arrived
    PROVE  /\ worker' \in [Workers -> PlaceRow] /\ InHand'
           /\ worker'[w] = place
           /\ \A v \in Workers \ {w} : worker'[v] = worker[v]
<1>1. worker \in [Workers -> PlaceRow]
  BY DEF TypeInv, TypeOK, PlaceRow
<1>2. worker' \in [Workers -> PlaceRow]
  BY <1>1 DEF GoTo
<1>3. worker'[w] = place /\ \A v \in Workers \ {w} : worker'[v] = worker[v]
  BY <1>1 DEF GoTo
<1>4. InHand'
  BY <1>3 DEF TypeInv, InHand, Fits
<1> QED
  BY <1>2, <1>3, <1>4

\* The places a process goes to.
LEMMA Places ==
    /\ Down \in PlaceRow /\ Fits(Down)
    /\ Polling \in PlaceRow /\ Fits(Polling)
BY DEF Down, Polling, At, PlaceRow, Fits

\* Where a process is, and what it has in hand.
LEMMA Place ==
    ASSUME TypeInv, NEW w \in Workers
    PROVE  /\ worker[w] \in PlaceRow /\ Fits(worker[w])
           /\ worker[w].batch \in SUBSET Updates
           /\ worker[w].at \in {"applying", "failed", "replying"} => worker[w].item \in Updates
BY BotAssumption DEF TypeInv, TypeOK, InHand, PlaceRow, Fits, Updates

\* What transaction A looks up are tokens.
LEMMA SnapshotType ==
    ASSUME TypeInv, NEW i \in Updates
    PROVE  Snapshot(i) \in SUBSET Tokens
BY DEF TypeInv, Written, Snapshot, Candidates, Pending

\* A step that leaves the accounts alone keeps every link proven.
LEMMA AccountsKept ==
    ASSUME LinkInv, UNCHANGED accounts
    PROVE  LinkInv'
BY DEF LinkInv, LinkTypeOK, Bindings, LinkRows, LinksProven, Open, Issued, Linked, accounts

\* Nothing has been sent, and the invariant holds.
LEMMA InitTypes == Init => TypeInv
<1> SUFFICES ASSUME Init PROVE TypeInv
  OBVIOUS
<1> USE LinkAssumption, BotAssumption
<1>1. LinkInv
  BY DEF Init, LinkInit, LinkInv, LinkTypeOK, Bindings, LinkRows, LinksProven, Open, Issued,
         Linked, Unissued, Unlinked
<1>2. worker \in [Workers -> PlaceRow] /\ InHand
  BY Places DEF Init, InHand
<1>3. TypeOK
  BY <1>1, <1>2 DEF Init, TypeOK, LinkInv, NoUpdate, PlaceRow
<1>4. Written
  BY DEF Init, Written, NoUpdate
<1> QED
  BY <1>1, <1>2, <1>3, <1>4 DEF TypeInv

\* Somebody sends an update.
LEMMA SendTypes ==
    ASSUME TypeInv, Send
    PROVE  TypeInv'
<1> USE LinkAssumption, BotAssumption
<1>1. LinkInv'
  BY AccountsKept DEF Send, TypeInv
<1>2. PICK m \in Messages : update' = [update EXCEPT ![arrived + 1] = m]
  BY DEF Send
<1>3. /\ m \in [kind : {"none", "start", "contact", "other", "poison"},
                chat : Chats \cup {Nobody}, token : Tokens \cup {NoToken}, phone : Users \cup {Nobody}]
      /\ m.kind = "start" => m.chat \in Chats /\ m.token \in Tokens
      /\ m.kind = "contact" => m.chat \in Chats /\ m.phone \in Users
  <2>1. CASE m \in [kind : {"start"}, chat : Chats, token : {t \in Tokens : Issued(t)}, phone : {Nobody}]
    BY <2>1
  <2>2. CASE m \in [kind : {"contact"}, chat : Chats, token : {NoToken}, phone : Users]
    BY <2>2
  <2>3. CASE m \in {[NoUpdate EXCEPT !.kind = "other"], [NoUpdate EXCEPT !.kind = "poison"]}
    BY <2>3 DEF NoUpdate
  <2> QED
    BY <2>1, <2>2, <2>3 DEF Messages
<1>4. arrived + 1 \in Updates /\ arrived' = arrived + 1 /\ arrived \in Nat
  BY DEF Send, TypeInv, TypeOK, Updates
<1>5. TypeOK'
  BY <1>1, <1>2, <1>3, <1>4 DEF Send, TypeInv, TypeOK, LinkInv, progress, locks, accidents, Updates
<1>6. Written'
  <2>1. \A i \in Updates : update'[i] = IF i = arrived + 1 THEN m ELSE update[i]
    BY <1>2, <1>4 DEF TypeInv, TypeOK
  <2> QED
    BY <1>3, <2>1 DEF TypeInv, Written
<1>7. InHand'
  BY <1>4 DEF Send, TypeInv, InHand, Fits
<1> QED
  BY <1>1, <1>5, <1>6, <1>7 DEF TypeInv

\* A step of the web or of a process that moves neither updates nor the cursor.
LEMMA MailKept ==
    ASSUME TypeInv, UNCHANGED mailbox, LinkInv',
           worker' \in [Workers -> PlaceRow], InHand',
           cursor' \in 0..arrived, failures' \in [Updates -> 0..MaxFailures],
           outcome' \in [Updates -> {"none", "applied", "quarantined"}],
           effects' \in [Updates -> Nat], replies' \in [Updates -> Nat],
           lockHolder' \in Workers \cup {Nobody}, cursorHolder' \in Workers \cup {Nobody},
           trouble' \in 0..MaxTrouble, losses' \in 0..MaxLosses
    PROVE  TypeInv'
<1>1. TypeOK'
  BY DEF TypeInv, TypeOK, LinkInv, mailbox, PlaceRow
<1>2. Written'
  BY DEF TypeInv, Written, mailbox
<1> QED
  BY <1>1, <1>2 DEF TypeInv

\* The counters of a step are in their ranges.
LEMMA Ranges ==
    ASSUME TypeInv
    PROVE  /\ cursor \in 0..arrived /\ arrived \in 0..MaxUpdates
           /\ failures \in [Updates -> 0..MaxFailures]
           /\ outcome \in [Updates -> {"none", "applied", "quarantined"}]
           /\ effects \in [Updates -> Nat] /\ replies \in [Updates -> Nat]
           /\ worker \in [Workers -> PlaceRow]
           /\ lockHolder \in Workers \cup {Nobody} /\ cursorHolder \in Workers \cup {Nobody}
           /\ trouble \in 0..MaxTrouble /\ losses \in 0..MaxLosses
BY DEF TypeInv, TypeOK, PlaceRow

\* A web step, a start, a lost lock.
LEMMA OutsideTypes ==
    ASSUME TypeInv,
           \/ WebStep /\ UNCHANGED <<mailbox, progress, replies, worker, locks, accidents>>
           \/ \E w \in Workers : Start(w) \/ LoseLock(w)
    PROVE  TypeInv'
<1> USE BotAssumption
<1>1. CASE WebStep /\ UNCHANGED <<mailbox, progress, replies, worker, locks, accidents>>
  <2>1. LinkInv'
    BY <1>1, WebStepLinks DEF TypeInv
  <2>2. InHand'
    BY <1>1 DEF TypeInv, InHand, Fits, mailbox
  <2> QED
    BY <1>1, <2>1, <2>2, Ranges, MailKept DEF mailbox, progress, locks, accidents
<1>2. ASSUME NEW w \in Workers, Start(w) PROVE TypeInv'
  <2>1. LinkInv'
    BY <1>2, AccountsKept DEF Start, TypeInv
  <2>2. worker' \in [Workers -> PlaceRow] /\ InHand'
    BY <1>2, Places, Moved DEF Start, mailbox
  <2> QED
    BY <1>2, <2>1, <2>2, Ranges, MailKept DEF Start, progress, accidents
<1>3. ASSUME NEW w \in Workers, LoseLock(w) PROVE TypeInv'
  <2>1. LinkInv'
    BY <1>3, AccountsKept DEF LoseLock, TypeInv
  <2>2. InHand'
    BY <1>3 DEF LoseLock, TypeInv, InHand, Fits, mailbox
  <2> QED
    BY <1>3, <2>1, <2>2, Ranges, MailKept DEF LoseLock, progress
<1> QED
  BY <1>1, <1>2, <1>3

\* A process stops, or begins again.
LEMMA InterruptionTypes ==
    ASSUME TypeInv, NEW w \in Workers, Stop(w) \/ PassingFailure(w) \/ Regression(w)
    PROVE  TypeInv'
<1> USE BotAssumption
<1>1. CASE Stop(w)
  <2>1. LinkInv'
    BY <1>1, AccountsKept DEF Stop, TypeInv
  <2>2. worker' \in [Workers -> PlaceRow] /\ InHand'
    BY <1>1, Places, Moved DEF Stop, mailbox
  <2>3. replies' \in [Updates -> Nat]
    BY <1>1, Place, Ranges DEF Stop
  <2> QED
    BY <1>1, <2>1, <2>2, <2>3, Ranges, MailKept DEF Stop, progress, Released
<1>2. CASE PassingFailure(w)
  <2>1. LinkInv'
    BY <1>2, AccountsKept DEF PassingFailure, TypeInv
  <2>2. worker' \in [Workers -> PlaceRow] /\ InHand'
    BY <1>2, Places, Moved DEF PassingFailure, Retry, mailbox
  <2> QED
    BY <1>2, <2>1, <2>2, Ranges, MailKept DEF PassingFailure, Retry, progress, locks
<1>3. CASE Regression(w)
  <2>1. LinkInv'
    BY <1>3, AccountsKept DEF Regression, TypeInv
  <2>2. worker' \in [Workers -> PlaceRow] /\ InHand'
    BY <1>3, Places, Moved DEF Regression, mailbox
  <2> QED
    BY <1>3, <2>1, <2>2, Ranges, MailKept DEF Regression, progress, accidents, Released
<1> QED
  BY <1>1, <1>2, <1>3

\* The rest of the batch.
LEMMA NextPlace ==
    ASSUME TypeInv, NEW w \in Workers
    PROVE  /\ At("next", worker[w].batch, 0, {}) \in PlaceRow
           /\ Fits(At("next", worker[w].batch, 0, {}))
           /\ \A i \in 1..arrived : /\ At("replying", worker[w].batch, i, {}) \in PlaceRow
                                    /\ Fits(At("replying", worker[w].batch, i, {}))
BY Place, Ranges, BotAssumption DEF At, PlaceRow, Fits, Updates

\* A batch is fetched, and an update of it is begun, or the batch is done.
LEMMA BeginTypes ==
    ASSUME TypeInv, NEW w \in Workers, Fetch(w) \/ BeginA(w) \/ BatchDone(w)
    PROVE  TypeInv'
<1> USE BotAssumption
<1>1. LinkInv' /\ UNCHANGED <<mailbox, progress, replies, lockHolder, accidents>>
  BY AccountsKept DEF Fetch, BeginA, BatchDone, TypeInv, locks
<1>2. cursorHolder' \in Workers \cup {Nobody}
  BY Ranges DEF Fetch, BeginA, BatchDone, locks
<1>3. worker' \in [Workers -> PlaceRow] /\ InHand'
  <2>1. CASE Fetch(w)
    <3>1. PICK last \in (cursor + 1)..arrived : GoTo(w, At("next", (cursor + 1)..last, 0, {}))
      BY <2>1 DEF Fetch
    <3>2. At("next", (cursor + 1)..last, 0, {}) \in PlaceRow /\ Fits(At("next", (cursor + 1)..last, 0, {}))
      BY <3>1, Ranges DEF At, PlaceRow, Fits, Updates
    <3> QED
      BY <3>1, <3>2, <1>1, Moved DEF mailbox
  <2>2. CASE BatchDone(w)
    BY <2>2, <1>1, Places, Moved DEF BatchDone, mailbox
  <2>3. CASE BeginA(w)
    <3>1. PICK i \in FirstOf(worker[w].batch) :
            GoTo(w, IF Passed(i) THEN [worker[w] EXCEPT !.batch = @ \ {i}]
                    ELSE At("applying", worker[w].batch \ {i}, i, Snapshot(i)))
      BY <2>3 DEF BeginA
    <3>2. i \in 1..arrived /\ i \in Updates /\ worker[w].at = "next"
      BY <2>3, Place DEF FirstOf, Fits, BeginA
    <3>3. [worker[w] EXCEPT !.batch = @ \ {i}] \in PlaceRow /\ Fits([worker[w] EXCEPT !.batch = @ \ {i}])
      BY <3>2, Place DEF PlaceRow, Fits
    <3>4. /\ At("applying", worker[w].batch \ {i}, i, Snapshot(i)) \in PlaceRow
          /\ Fits(At("applying", worker[w].batch \ {i}, i, Snapshot(i)))
      BY <3>2, Place, SnapshotType DEF At, PlaceRow, Fits
    <3> QED
      BY <3>1, <3>3, <3>4, <1>1, Moved DEF mailbox
  <2> QED
    BY <2>1, <2>2, <2>3
<1> QED
  BY <1>1, <1>2, <1>3, Ranges, MailKept DEF progress, accidents

\* Transaction A fails, or its reply is sent.
LEMMA FailTypes ==
    ASSUME TypeInv, NEW w \in Workers, FailA(w) \/ Reply(w)
    PROVE  TypeInv'
<1> USE BotAssumption
<1>1. CASE FailA(w)
  <2>1. LinkInv' /\ UNCHANGED mailbox
    BY <1>1, AccountsKept DEF FailA, TypeInv
  <2>2. /\ [worker[w] EXCEPT !.at = "failed", !.seen = {}] \in PlaceRow
        /\ Fits([worker[w] EXCEPT !.at = "failed", !.seen = {}])
    BY <1>1, Place DEF FailA, PlaceRow, Fits
  <2>3. worker' \in [Workers -> PlaceRow] /\ InHand'
    BY <1>1, <2>1, <2>2, Places, Moved DEF FailA, Retry, mailbox
  <2> QED
    BY <1>1, <2>1, <2>3, Ranges, MailKept DEF FailA, Retry, progress
<1>2. CASE Reply(w)
  <2>1. LinkInv' /\ UNCHANGED mailbox
    BY <1>2, AccountsKept DEF Reply, TypeInv
  <2>2. worker' \in [Workers -> PlaceRow] /\ InHand'
    BY <1>2, <2>1, NextPlace, Moved DEF Reply, mailbox
  <2>3. replies' \in [Updates -> Nat]
    BY <1>2, Place, Ranges DEF Reply
  <2> QED
    BY <1>2, <2>1, <2>2, <2>3, Ranges, MailKept DEF Reply, progress, locks, accidents
<1> QED
  BY <1>1, <1>2

\* What an applied update does to the accounts.
LEMMA AppliedLinks ==
    ASSUME TypeInv, NEW i \in Updates, NEW seen, Applied(i, seen)
    PROVE  LinkInv'
<1>1. LinkInv /\ Written
  BY DEF TypeInv
<1>2. CASE update[i].kind = "start" /\ Binds(update[i].token, update[i].chat, seen)
  <2>1. BindToken(update[i].token, update[i].chat) /\ UNCHANGED <<link, customer>>
    BY <1>2 DEF Applied
  <2>2. update[i].token \in Tokens /\ update[i].chat \in Chats /\ Usable(update[i].token)
    BY <1>1, <1>2 DEF Written, Binds
  <2> QED
    BY <1>1, <2>1, <2>2, BindTokenLinks
<1>3. CASE update[i].kind = "contact" /\ Consumes(update[i].chat, update[i].phone, seen)
  <2>1. ConsumeToken(update[i].chat, update[i].phone, seen) /\ UNCHANGED customer
    BY <1>3 DEF Applied
  <2>2. update[i].chat \in Chats /\ update[i].phone \in Users
    BY <1>1, <1>3 DEF Written
  <2> QED
    BY <1>1, <1>3, <2>1, <2>2, ConsumeTokenLinks
<1>4. CASE UNCHANGED accounts
  BY <1>1, <1>4, AccountsKept
<1> QED
  BY <1>2, <1>3, <1>4 DEF Applied

\* The update is passed.
LEMMA AdvanceTypes ==
    ASSUME TypeInv, NEW i \in 1..arrived, Advance(i)
    PROVE  /\ cursor' \in 0..arrived
           /\ i <= cursor' /\ cursor <= cursor' /\ cursor' \in {cursor, i}
           /\ update' \in [Updates -> [kind : {"none", "start", "contact", "other", "poison"},
                                       chat : Chats \cup {Nobody}, token : Tokens \cup {NoToken},
                                       phone : Users \cup {Nobody}]]
           /\ Written'
<1>1. cursor' \in 0..arrived /\ i <= cursor' /\ cursor <= cursor' /\ cursor' \in {cursor, i}
  BY Ranges DEF Advance
<1>2. update' = [update EXCEPT ![i] = NoUpdate]
  BY DEF Advance
<1>3. NoUpdate \in [kind : {"none", "start", "contact", "other", "poison"},
                    chat : Chats \cup {Nobody}, token : Tokens \cup {NoToken}, phone : Users \cup {Nobody}]
  BY DEF NoUpdate
<1>4. update' \in [Updates -> [kind : {"none", "start", "contact", "other", "poison"},
                               chat : Chats \cup {Nobody}, token : Tokens \cup {NoToken},
                               phone : Users \cup {Nobody}]]
  BY <1>2, <1>3 DEF TypeInv, TypeOK
<1>5. \A j \in Updates : update'[j] = NoUpdate \/ update'[j] = update[j]
  BY <1>2 DEF TypeInv, TypeOK
<1>6. Written'
  BY <1>5 DEF TypeInv, Written, NoUpdate
<1> QED
  BY <1>1, <1>4, <1>6

\* Transaction A commits.
LEMMA CommitTypes ==
    ASSUME TypeInv, NEW w \in Workers, CommitA(w)
    PROVE  TypeInv'
<1> USE BotAssumption
<1> DEFINE i == worker[w].item
<1>1. i \in Updates /\ i \in 1..arrived
  BY Place DEF CommitA, Fits
<1>2. LinkInv'
  BY <1>1, AppliedLinks DEF CommitA
<1>3. arrived' = arrived /\ AfterUpdate(w, i) \in PlaceRow /\ Fits(AfterUpdate(w, i))
  BY <1>1, NextPlace DEF CommitA, AfterUpdate
<1>4. worker' \in [Workers -> PlaceRow] /\ InHand'
  BY <1>3, Moved DEF CommitA
<1>5. /\ cursor' \in 0..arrived /\ Written'
      /\ update' \in [Updates -> [kind : {"none", "start", "contact", "other", "poison"},
                                  chat : Chats \cup {Nobody}, token : Tokens \cup {NoToken},
                                  phone : Users \cup {Nobody}]]
  BY <1>1, AdvanceTypes DEF CommitA
<1>6. /\ failures' \in [Updates -> 0..MaxFailures]
      /\ outcome' \in [Updates -> {"none", "applied", "quarantined"}]
      /\ effects' \in [Updates -> Nat]
  BY <1>1, Ranges DEF CommitA
<1>7. UNCHANGED <<arrived, replies, lockHolder, accidents>> /\ cursorHolder' = Nobody
  BY DEF CommitA
<1>8. TypeOK'
  BY <1>2, <1>4, <1>5, <1>6, <1>7, Ranges DEF TypeOK, LinkInv, PlaceRow, accidents
<1> QED
  BY <1>2, <1>4, <1>5, <1>8 DEF TypeInv

\* Transaction B commits.
LEMMA RecordTypes ==
    ASSUME TypeInv, NEW w \in Workers, RecordFailure(w)
    PROVE  TypeInv'
<1> USE BotAssumption
<1> DEFINE i == worker[w].item
<1>1. i \in Updates /\ i \in 1..arrived
  BY Place DEF RecordFailure, Fits
<1>2. LinkInv' /\ UNCHANGED <<arrived, effects, replies, locks, accidents>>
  BY AccountsKept DEF RecordFailure, TypeInv
<1>3. failures' \in [Updates -> 0..MaxFailures]
  BY <1>1, Ranges DEF RecordFailure, Counted
<1>4. CASE Counted(i) < MaxFailures
  <2>1. GoTo(w, Polling) /\ UNCHANGED <<cursor, outcome, update>>
    BY <1>4 DEF RecordFailure
  <2>2. worker' \in [Workers -> PlaceRow] /\ InHand'
    BY <1>2, <2>1, Places, Moved
  <2> QED
    BY <1>2, <1>3, <2>1, <2>2, Ranges, MailKept DEF mailbox, locks, accidents
<1>5. CASE ~(Counted(i) < MaxFailures)
  <2>1. Quarantine(i) /\ GoTo(w, At("next", worker[w].batch, 0, {}))
    BY <1>5 DEF RecordFailure
  <2>2. worker' \in [Workers -> PlaceRow] /\ InHand'
    BY <1>2, <2>1, NextPlace, Moved
  <2>3. /\ cursor' \in 0..arrived /\ Written'
        /\ update' \in [Updates -> [kind : {"none", "start", "contact", "other", "poison"},
                                    chat : Chats \cup {Nobody}, token : Tokens \cup {NoToken},
                                    phone : Users \cup {Nobody}]]
    BY <1>1, <2>1, AdvanceTypes DEF Quarantine
  <2>4. outcome' \in [Updates -> {"none", "applied", "quarantined"}]
    BY <1>1, <2>1, Ranges DEF Quarantine
  <2>5. TypeOK'
    BY <1>2, <1>3, <2>2, <2>3, <2>4, Ranges DEF TypeOK, LinkInv, PlaceRow, locks, accidents
  <2> QED
    BY <1>2, <2>2, <2>3, <2>5 DEF TypeInv
<1> QED
  BY <1>4, <1>5

\* Every step keeps the types and every link proven.
LEMMA NextTypes ==
    ASSUME TypeInv, [Next]_vars
    PROVE  TypeInv'
<1>1. CASE UNCHANGED vars
  <2>1. LinkInv'
    BY <1>1, AccountsKept DEF TypeInv, vars
  <2>2. InHand' /\ worker' \in [Workers -> PlaceRow]
    BY <1>1, Ranges DEF vars, TypeInv, InHand, Fits, mailbox
  <2> QED
    BY <1>1, <2>1, <2>2, Ranges, MailKept DEF vars, progress, locks, accidents
<1> QED
  BY <1>1, SendTypes, OutsideTypes, InterruptionTypes, BeginTypes, FailTypes, CommitTypes, RecordTypes
  DEF Next, Polls

\* The rows of the links, the updates and the processes stay of their types, for
\* any number of users, chats, tokens, updates and processes.
THEOREM TypeCorrect == Spec => []TypeOK
<1>1. Spec => []TypeInv
  BY InitTypes, NextTypes, PTL DEF Spec
<1>2. TypeInv => TypeOK
  BY DEF TypeInv
<1> QED
  BY <1>1, <1>2, PTL

\* However updates are repeated, retried and interrupted, an active link was made
\* by the user's own number from the chat that opened a live token, and no chat
\* is linked to two users.
THEOREM AlwaysProven == Spec => []LinksProven
<1>1. Spec => []TypeInv
  BY InitTypes, NextTypes, PTL DEF Spec
<1>2. TypeInv => LinksProven
  BY DEF TypeInv, LinkInv
<1> QED
  BY <1>1, <1>2, PTL

-----------------------------------------------------------------------------
(* Every effect once.  An update applied by one process may still be in    *)
(* the hands of others whose transaction A failed before; each of them may *)
(* count one more failure, so there must not be more processes than        *)
(* attempts.                                                               *)

Enough == IsFiniteSet(Workers) /\ Cardinality(Workers) <= MaxFailures

\* An update ahead of the cursor has had no outcome, and attempts left.
Ahead == \A i \in Updates : i > cursor => outcome[i] = "none" /\ failures[i] < MaxFailures

\* A process in transaction A holds the cursor, which has not passed its update.
Applying == \A w \in Workers :
    worker[w].at = "applying" => cursorHolder = w /\ worker[w].item > cursor

\* A reply is for an effect that no other process answers and nobody has answered.
Answers == \A w \in Workers :
    worker[w].at = "replying" =>
        /\ effects[worker[w].item] = 1
        /\ replies[worker[w].item] = 0
        /\ \A v \in Workers \ {w} : worker[v].at = "replying" => worker[v].item # worker[w].item

\* Those who have a failed attempt at the update to report.
FailedOn(i) == {w \in Workers : worker[w].at = "failed" /\ worker[w].item = i}

\* An applied update can never run out of attempts.
Spared == \A i \in Updates :
    outcome[i] = "applied" => failures[i] + Cardinality(FailedOn(i)) < MaxFailures

OnceInv == Ahead /\ Applying /\ Answers /\ Spared /\ EffectsOnce

\* When fewer failures are to be reported, an applied update is still spared.
LEMMA SparedBySubset ==
    ASSUME TypeInv, Enough, Spared, NEW i \in Updates, outcome[i] = "applied",
           failures' = failures, FailedOn(i)' \subseteq FailedOn(i)
    PROVE  failures'[i] + Cardinality(FailedOn(i)') < MaxFailures
<1>1. IsFiniteSet(FailedOn(i)) /\ Cardinality(FailedOn(i)) \in Nat
  BY FS_Subset, FS_CardinalityType DEF Enough, FailedOn
<1>2. Cardinality(FailedOn(i)') <= Cardinality(FailedOn(i)) /\ Cardinality(FailedOn(i)') \in Nat
  BY <1>1, FS_Subset, FS_CardinalityType
<1>3. failures[i] \in Nat /\ MaxFailures \in Nat
  BY Ranges, BotAssumption
<1> QED
  BY <1>1, <1>2, <1>3 DEF Spared

\* A step that leaves the processes alone.
LEMMA StillOnce ==
    ASSUME OnceInv, UNCHANGED <<progress, worker, cursorHolder, replies>>
    PROVE  OnceInv'
BY DEF OnceInv, Ahead, Applying, Answers, Spared, FailedOn, EffectsOnce, progress

\* A step of one process that commits nothing.
LEMMA OneMovesOnce ==
    ASSUME TypeInv, Enough, OnceInv, NEW w \in Workers, UNCHANGED progress,
           \A v \in Workers \ {w} : worker'[v] = worker[v],
           worker'[w].at # "replying",
           worker'[w].at = "applying" => cursorHolder' = w /\ worker'[w].item > cursor,
           worker'[w].at = "failed" => outcome[worker'[w].item] # "applied",
           cursorHolder' = cursorHolder \/ (cursorHolder \in {Nobody, w} /\ cursorHolder' \in {Nobody, w}),
           \/ UNCHANGED replies
           \/ /\ worker[w].at = "replying"
              /\ replies' = [replies EXCEPT ![worker[w].item] = @ + 1]
    PROVE  OnceInv'
<1> USE BotAssumption
<1>1. Ahead'
  BY DEF OnceInv, Ahead, progress
<1>2. Applying'
  BY DEF OnceInv, Applying, progress
<1>3. \A v \in Workers \ {w} : worker[v].at = "replying" => replies'[worker[v].item] = replies[worker[v].item]
  BY Place, Ranges DEF OnceInv, Answers
<1>4. Answers'
  BY <1>3 DEF OnceInv, Answers, progress
<1>5. Spared'
  <2> SUFFICES ASSUME NEW i \in Updates, outcome[i] = "applied"
               PROVE  failures'[i] + Cardinality(FailedOn(i)') < MaxFailures
    BY DEF Spared, progress
  <2>1. FailedOn(i)' \subseteq FailedOn(i)
    BY DEF FailedOn
  <2> QED
    BY <2>1, SparedBySubset DEF OnceInv, progress
<1>6. EffectsOnce'
  <2>1. \A i \in Updates : replies'[i] <= effects[i]
    BY Place, Ranges DEF OnceInv, EffectsOnce, Answers
  <2> QED
    BY <2>1 DEF OnceInv, EffectsOnce, progress
<1> QED
  BY <1>1, <1>2, <1>4, <1>5, <1>6 DEF OnceInv

\* A process starts, stops, or begins again.
LEMMA InterruptionOnce ==
    ASSUME TypeInv, Enough, OnceInv, NEW w \in Workers,
           Start(w) \/ Stop(w) \/ PassingFailure(w) \/ Regression(w)
    PROVE  OnceInv'
<1> USE BotAssumption
<1>1. GoTo(w, Down) \/ GoTo(w, Polling)
  BY DEF Start, Stop, PassingFailure, Regression, Retry
<1>2. UNCHANGED progress /\ arrived' = arrived
  BY DEF Start, Stop, PassingFailure, Regression, mailbox
<1>3. worker'[w].at \in {"down", "polling"} /\ \A v \in Workers \ {w} : worker'[v] = worker[v]
  BY <1>1, <1>2, Places, Moved DEF Down, Polling, At
<1>4. cursorHolder' = cursorHolder \/ (cursorHolder = w /\ cursorHolder' = Nobody)
  BY DEF Start, Stop, PassingFailure, Regression, Released, locks
<1>5. \/ UNCHANGED replies
      \/ worker[w].at = "replying" /\ replies' = [replies EXCEPT ![worker[w].item] = @ + 1]
  BY DEF Start, Stop, PassingFailure, Regression
<1> QED
  BY <1>2, <1>3, <1>4, <1>5, OneMovesOnce

\* A batch is fetched, begun or done with; transaction A fails; a reply is sent.
LEMMA PollOnce ==
    ASSUME TypeInv, Enough, OnceInv, NEW w \in Workers,
           Fetch(w) \/ BeginA(w) \/ BatchDone(w) \/ FailA(w) \/ Reply(w)
    PROVE  OnceInv'
<1> USE BotAssumption
<1>1. UNCHANGED progress /\ worker \in [Workers -> PlaceRow]
  BY Ranges DEF Fetch, BeginA, BatchDone, FailA, Reply
<1>2. CASE Fetch(w)
  <2>1. worker'[w].at = "next" /\ \A v \in Workers \ {w} : worker'[v] = worker[v]
    BY <1>1, <1>2 DEF Fetch, GoTo, At
  <2> QED
    BY <1>1, <1>2, <2>1, OneMovesOnce DEF Fetch, locks
<1>3. CASE BatchDone(w)
  <2>1. worker'[w].at = "polling" /\ \A v \in Workers \ {w} : worker'[v] = worker[v]
    BY <1>1, <1>3 DEF BatchDone, GoTo, Polling, At
  <2> QED
    BY <1>1, <1>3, <2>1, OneMovesOnce DEF BatchDone, locks
<1>4. CASE BeginA(w)
  <2>1. PICK i \in FirstOf(worker[w].batch) :
          IF Passed(i)
          THEN GoTo(w, [worker[w] EXCEPT !.batch = @ \ {i}]) /\ UNCHANGED cursorHolder
          ELSE GoTo(w, At("applying", worker[w].batch \ {i}, i, Snapshot(i))) /\ cursorHolder' = w
    BY <1>4 DEF BeginA
  <2>2. i \in Nat /\ cursor \in Nat
    BY Place, Ranges DEF FirstOf, Updates
  <2>3. \A v \in Workers \ {w} : worker'[v] = worker[v]
    BY <1>1, <2>1 DEF GoTo
  <2>4. cursorHolder = Nobody /\ worker[w].at = "next" /\ UNCHANGED replies
    BY <1>4 DEF BeginA
  <2>5. CASE Passed(i)
    <3>1. worker'[w].at = "next" /\ UNCHANGED cursorHolder
      BY <1>1, <2>1, <2>4, <2>5 DEF GoTo, PlaceRow
    <3> QED
      BY <1>1, <2>3, <2>4, <3>1, OneMovesOnce
  <2>6. CASE ~Passed(i)
    <3>1. worker'[w].at = "applying" /\ worker'[w].item = i /\ cursorHolder' = w
      BY <1>1, <2>1, <2>6 DEF GoTo, At
    <3>2. i > cursor
      BY <2>2, <2>6 DEF Passed
    <3> QED
      BY <1>1, <2>3, <2>4, <3>1, <3>2, OneMovesOnce
  <2> QED
    BY <2>5, <2>6
<1>5. CASE FailA(w)
  <2>1. worker[w].at = "applying" /\ cursorHolder = w /\ cursorHolder' = Nobody /\ UNCHANGED replies
    BY <1>5 DEF FailA, OnceInv, Applying
  <2>2. worker[w].item \in Updates /\ outcome[worker[w].item] # "applied"
    BY <1>5, <2>1, Place DEF OnceInv, Applying, Ahead
  <2>3. CASE GoTo(w, [worker[w] EXCEPT !.at = "failed", !.seen = {}])
    <3>1. /\ worker'[w].at = "failed" /\ worker'[w].item = worker[w].item
          /\ \A v \in Workers \ {w} : worker'[v] = worker[v]
      BY <1>1, <2>3 DEF GoTo, PlaceRow
    <3> QED
      BY <1>1, <2>1, <2>2, <3>1, OneMovesOnce
  <2>4. CASE Retry(w)
    <3>1. worker'[w].at = "polling" /\ \A v \in Workers \ {w} : worker'[v] = worker[v]
      BY <1>1, <2>4 DEF Retry, GoTo, Polling, At
    <3> QED
      BY <1>1, <2>1, <3>1, OneMovesOnce
  <2> QED
    BY <1>5, <2>3, <2>4 DEF FailA
<1>6. CASE Reply(w)
  <2>1. worker'[w].at = "next" /\ \A v \in Workers \ {w} : worker'[v] = worker[v]
    BY <1>1, <1>6 DEF Reply, GoTo, At
  <2>2. \/ UNCHANGED replies
        \/ worker[w].at = "replying" /\ replies' = [replies EXCEPT ![worker[w].item] = @ + 1]
    <3>1. PICK arrives \in {0, 1} : replies' = [replies EXCEPT ![worker[w].item] = @ + arrives]
      BY <1>6 DEF Reply
    <3>2. replies \in [Updates -> Nat] /\ worker[w].at = "replying" /\ worker[w].item \in Updates
      BY <1>6, Place, Ranges DEF Reply
    <3>3. CASE arrives = 0
      <4>1. replies[worker[w].item] + 0 = replies[worker[w].item]
        BY <3>2
      <4>2. replies' = [replies EXCEPT ![worker[w].item] = replies[worker[w].item]]
        BY <3>1, <3>3, <4>1
      <4> QED
        BY <3>2, <4>2
    <3> QED
      BY <3>1, <3>2, <3>3
  <2> QED
    BY <1>1, <1>6, <2>1, <2>2, OneMovesOnce DEF Reply, locks
<1> QED
  BY <1>2, <1>3, <1>4, <1>5, <1>6

\* Transaction A commits: the cursor passes what it applied.
LEMMA CommitOnce ==
    ASSUME TypeInv, Enough, OnceInv, NEW w \in Workers, CommitA(w)
    PROVE  OnceInv'
<1> USE BotAssumption
<1>0. PICK i \in Updates : i = worker[w].item
  BY Place DEF CommitA
<1> USE <1>0
<1>1. i \in Updates /\ i \in 1..arrived /\ i > cursor /\ cursorHolder = w
  BY Place DEF CommitA, Fits, OnceInv, Applying
<1>2. outcome[i] = "none" /\ failures[i] < MaxFailures /\ effects[i] = 0 /\ replies[i] = 0
  BY <1>1, Ranges DEF OnceInv, Ahead, EffectsOnce
<1>3. /\ cursor' \in Nat /\ cursor \in Nat /\ i <= cursor' /\ cursor <= cursor'
  <2>1. Advance(i)
    BY DEF CommitA
  <2>2. cursor' \in 0..arrived /\ i <= cursor' /\ cursor <= cursor'
    BY <1>1, <2>1, AdvanceTypes
  <2> QED
    BY <2>2, Ranges
<1>4. /\ outcome'[i] = "applied" /\ effects'[i] = 1 /\ failures'[i] = 0
      /\ \A j \in Updates \ {i} : /\ outcome'[j] = outcome[j] /\ effects'[j] = effects[j]
                                 /\ failures'[j] = failures[j]
      /\ replies' = replies
  BY <1>1, <1>2, Ranges DEF CommitA
<1>5. /\ worker'[w].at \in {"replying", "next"}
      /\ worker'[w].at = "replying" => worker'[w].item = i
      /\ \A v \in Workers \ {w} : worker'[v] = worker[v]
  BY Ranges DEF CommitA, GoTo, AfterUpdate, At
<1>6. Ahead'
  BY <1>3, <1>4 DEF OnceInv, Ahead, Updates
<1>7. Applying'
  BY <1>1, <1>5 DEF OnceInv, Applying
<1>8. Answers'
  <2>1. ASSUME NEW v \in Workers \ {w}, worker[v].at = "replying" PROVE worker[v].item \in Updates \ {i}
    BY <2>1, <1>2, Place DEF OnceInv, Answers
  <2> QED
    BY <1>2, <1>4, <1>5, <2>1 DEF OnceInv, Answers
<1>9. Spared'
  <2>1. FailedOn(i)' \subseteq Workers \ {w}
    BY <1>5 DEF FailedOn
  <2>2. Cardinality(FailedOn(i)') < MaxFailures /\ Cardinality(FailedOn(i)') \in Nat
    <3>1. IsFiniteSet(Workers \ {w}) /\ Cardinality(Workers \ {w}) = Cardinality(Workers) - 1
      BY FS_RemoveElement DEF Enough
    <3>2. Cardinality(FailedOn(i)') <= Cardinality(Workers) - 1 /\ IsFiniteSet(FailedOn(i)')
      BY <2>1, <3>1, FS_Subset
    <3>3. Cardinality(FailedOn(i)') \in Nat /\ Cardinality(Workers) \in Nat
      BY <3>2, FS_CardinalityType DEF Enough
    <3> QED
      BY <3>2, <3>3 DEF Enough
  <2>3. ASSUME NEW j \in Updates \ {i}, outcome[j] = "applied"
        PROVE  failures'[j] + Cardinality(FailedOn(j)') < MaxFailures
    <3>1. FailedOn(j)' \subseteq FailedOn(j)
      BY <1>5 DEF FailedOn
    <3>2. IsFiniteSet(FailedOn(j)) /\ Cardinality(FailedOn(j)) \in Nat
      BY FS_Subset, FS_CardinalityType DEF Enough, FailedOn
    <3>3. Cardinality(FailedOn(j)') <= Cardinality(FailedOn(j)) /\ Cardinality(FailedOn(j)') \in Nat
      BY <3>1, <3>2, FS_Subset, FS_CardinalityType
    <3>4. failures'[j] = failures[j] /\ failures[j] \in Nat
      BY <1>4, Ranges
    <3>5. failures[j] + Cardinality(FailedOn(j)) < MaxFailures
      BY <2>3 DEF OnceInv, Spared
    <3> QED
      BY <3>2, <3>3, <3>4, <3>5
  <2>4. ASSUME NEW j \in Updates, outcome'[j] = "applied"
        PROVE  failures'[j] + Cardinality(FailedOn(j)') < MaxFailures
    <3>1. CASE j = i
      BY <1>4, <2>2, <3>1
    <3>2. CASE j # i
      BY <1>4, <2>3, <2>4, <3>2
    <3> QED
      BY <3>1, <3>2
  <2> QED
    BY <2>4 DEF Spared
<1>10. EffectsOnce'
  BY <1>2, <1>4 DEF OnceInv, EffectsOnce
<1> QED
  BY <1>6, <1>7, <1>8, <1>9, <1>10 DEF OnceInv

\* Transaction B commits: what was applied is not set aside.
LEMMA RecordOnce ==
    ASSUME TypeInv, Enough, OnceInv, NEW w \in Workers, RecordFailure(w)
    PROVE  OnceInv'
<1> USE BotAssumption
<1>0. PICK i \in Updates : i = worker[w].item
  BY Place DEF RecordFailure
<1> USE <1>0
<1>1. i \in Updates /\ i \in 1..arrived /\ worker[w].at = "failed" /\ failures[i] \in 0..MaxFailures
  BY Place, Ranges DEF RecordFailure, Fits
<1>2. /\ failures' = [failures EXCEPT ![i] = Counted(i)]
      /\ UNCHANGED <<arrived, effects, replies, locks, accidents>>
  BY DEF RecordFailure
<1>3. /\ failures'[i] = Counted(i) /\ Counted(i) \in 0..MaxFailures
      /\ failures[i] < MaxFailures => Counted(i) = failures[i] + 1
      /\ failures[i] = MaxFailures => Counted(i) = MaxFailures
      /\ \A j \in Updates \ {i} : failures'[j] = failures[j]
  BY <1>1, <1>2, Ranges DEF Counted
<1>4. /\ worker'[w].at \in {"polling", "next"}
      /\ \A v \in Workers \ {w} : worker'[v] = worker[v]
  BY Ranges DEF RecordFailure, GoTo, Polling, At
<1>5. \A j \in Updates : /\ IsFiniteSet(FailedOn(j)) /\ Cardinality(FailedOn(j)) \in Nat
                        /\ FailedOn(j)' = FailedOn(j) \ {w}
                        /\ Cardinality(FailedOn(j)') \in Nat
                        /\ Cardinality(FailedOn(j)') <= Cardinality(FailedOn(j))
  <2>1. ASSUME NEW j \in Updates PROVE <1>5!(j)
    <3>1. IsFiniteSet(FailedOn(j)) /\ Cardinality(FailedOn(j)) \in Nat
      BY FS_Subset, FS_CardinalityType DEF Enough, FailedOn
    <3>2. FailedOn(j)' = FailedOn(j) \ {w}
      BY <1>4 DEF FailedOn
    <3>3. /\ Cardinality(FailedOn(j) \ {w}) \in Nat
          /\ Cardinality(FailedOn(j) \ {w}) <= Cardinality(FailedOn(j))
      BY <3>1, FS_Subset, FS_CardinalityType
    <3> QED
      BY <3>1, <3>2, <3>3
  <2> QED
    BY <2>1
<1>6. Cardinality(FailedOn(i)') = Cardinality(FailedOn(i)) - 1
  <2>1. w \in FailedOn(i)
    BY <1>1 DEF FailedOn
  <2>2. IsFiniteSet(FailedOn(i)) /\ FailedOn(i)' = FailedOn(i) \ {w}
    BY <1>1, <1>5
  <2>3. Cardinality(FailedOn(i) \ {w}) = Cardinality(FailedOn(i)) - 1
    BY <2>1, <2>2, FS_RemoveElement
  <2> QED
    BY <2>2, <2>3
<1>7. outcome[i] = "applied" => Counted(i) < MaxFailures
  <2>1. Cardinality(FailedOn(i)) \in Nat /\ Cardinality(FailedOn(i)') \in Nat
    BY <1>1, <1>5
  <2>2. outcome[i] = "applied" => failures[i] + Cardinality(FailedOn(i)) < MaxFailures
    BY <1>1 DEF OnceInv, Spared
  <2> QED
    BY <1>1, <1>3, <1>6, <2>1, <2>2
<1>8. \A j \in Updates : outcome[j] = "applied" =>
        failures'[j] + Cardinality(FailedOn(j)') < MaxFailures
  <2>1. ASSUME NEW j \in Updates \ {i}, outcome[j] = "applied"
        PROVE  failures'[j] + Cardinality(FailedOn(j)') < MaxFailures
    <3>1. failures[j] \in Nat /\ failures'[j] = failures[j]
      BY <1>3, Ranges
    <3>2. failures[j] + Cardinality(FailedOn(j)) < MaxFailures
      BY <2>1 DEF OnceInv, Spared
    <3> QED
      BY <1>5, <3>1, <3>2
  <2>2. ASSUME outcome[i] = "applied"
        PROVE  failures'[i] + Cardinality(FailedOn(i)') < MaxFailures
    <3>1. failures[i] + Cardinality(FailedOn(i)) < MaxFailures
      BY <1>1, <2>2 DEF OnceInv, Spared
    <3>2. Cardinality(FailedOn(i)) \in Nat /\ Cardinality(FailedOn(i)') \in Nat
      BY <1>1, <1>5
    <3>3. failures[i] < MaxFailures
      BY <1>1, <3>1, <3>2
    <3> QED
      BY <1>1, <1>3, <1>6, <3>1, <3>2, <3>3
  <2>3. ASSUME NEW j \in Updates, outcome[j] = "applied"
        PROVE  failures'[j] + Cardinality(FailedOn(j)') < MaxFailures
    <3>1. CASE j = i
      BY <2>2, <2>3, <3>1
    <3>2. CASE j # i
      BY <2>1, <2>3, <3>2
    <3> QED
      BY <3>1, <3>2
  <2> QED
    BY <2>3
<1>9. Answers'
  BY <1>2, <1>4 DEF OnceInv, Answers
<1>10. CASE Counted(i) < MaxFailures
  <2>1. UNCHANGED <<cursor, outcome>>
    BY <1>10 DEF RecordFailure
  <2>2. Ahead'
    BY <1>3, <1>10, <2>1 DEF OnceInv, Ahead
  <2>3. Applying'
    BY <1>2, <1>4, <2>1 DEF OnceInv, Applying, locks
  <2>4. Spared'
    BY <1>8, <2>1 DEF Spared
  <2>5. failures[i] # MaxFailures
    BY <1>1, <1>3, <1>10
  <2>6. EffectsOnce'
    BY <1>2, <1>3, <2>1, <2>5 DEF OnceInv, EffectsOnce
  <2> QED
    BY <1>9, <2>2, <2>3, <2>4, <2>6 DEF OnceInv
<1>11. CASE ~(Counted(i) < MaxFailures)
  <2>1. Quarantine(i)
    BY <1>11 DEF RecordFailure
  <2>2. Counted(i) = MaxFailures /\ outcome[i] # "applied" /\ effects[i] = 0
    BY <1>1, <1>3, <1>7, <1>11 DEF OnceInv, EffectsOnce
  <2>3. /\ outcome'[i] = "quarantined" /\ \A j \in Updates \ {i} : outcome'[j] = outcome[j]
    BY <1>1, <2>1, Ranges DEF Quarantine
  <2>4. cursor' \in Nat /\ cursor \in Nat /\ i <= cursor' /\ cursor <= cursor'
    <3>1. Advance(i)
      BY <2>1 DEF Quarantine
    <3>2. cursor' \in 0..arrived /\ i <= cursor' /\ cursor <= cursor'
      BY <1>1, <3>1, AdvanceTypes
    <3> QED
      BY <3>2, Ranges
  <2>5. Ahead'
    BY <1>1, <1>3, <2>3, <2>4 DEF OnceInv, Ahead, Updates
  <2>6. Applying'
    BY <1>2, <1>4, <2>1 DEF OnceInv, Applying, Quarantine
  <2>7. Spared'
    BY <1>8, <2>3 DEF Spared
  <2>8. EffectsOnce'
    BY <1>2, <1>3, <2>2, <2>3 DEF OnceInv, EffectsOnce
  <2> QED
    BY <1>9, <2>5, <2>6, <2>7, <2>8 DEF OnceInv
<1> QED
  BY <1>10, <1>11

\* Every step keeps every effect once.
LEMMA NextOnce ==
    ASSUME TypeInv, Enough, OnceInv, [Next]_vars
    PROVE  OnceInv'
<1>1. CASE UNCHANGED vars
  BY <1>1, StillOnce DEF vars, locks
<1>2. CASE WebStep /\ UNCHANGED <<mailbox, progress, replies, worker, locks, accidents>>
  BY <1>2, StillOnce DEF locks
<1>3. CASE Send
  BY <1>3, StillOnce DEF Send, locks
<1>4. ASSUME NEW w \in Workers, LoseLock(w) PROVE OnceInv'
  BY <1>4, StillOnce DEF LoseLock
<1> QED
  BY <1>1, <1>2, <1>3, <1>4, InterruptionOnce, PollOnce, CommitOnce, RecordOnce DEF Next, Polls

\* Nothing has been handled.
LEMMA InitOnce == Init => OnceInv
<1> SUFFICES ASSUME Init PROVE OnceInv
  OBVIOUS
<1> QED
  BY BotAssumption DEF Init, OnceInv, Ahead, Applying, Answers, Spared, EffectsOnce, Down, At, Updates

\* With no more processes than attempts, every update's effect is committed once
\* or never, an update is set aside only after all its attempts, and its chat is
\* answered at most once and not before the commit.
THEOREM AlwaysOnce == Enough => (Spec => []EffectsOnce)
<1> SUFFICES ASSUME Enough PROVE Spec => []EffectsOnce
  OBVIOUS
<1>1. Init => TypeInv /\ OnceInv
  BY InitTypes, InitOnce
<1>2. TypeInv /\ OnceInv /\ [Next]_vars => TypeInv' /\ OnceInv'
  BY NextTypes, NextOnce
<1>3. OnceInv => EffectsOnce
  BY DEF OnceInv
<1> QED
  BY <1>1, <1>2, <1>3, PTL DEF Spec

-----------------------------------------------------------------------------
(* Updates are handled in their order.  A process has in hand, of the      *)
(* updates the cursor has not passed, all up to the last it has.           *)

Held(place) ==
    place.batch \cup (IF place.at \in {"applying", "failed"} THEN {place.item} ELSE {})

Contiguous(place) == \A j \in Held(place) : \A m \in 1..j : m <= cursor \/ m \in Held(place)

\* The update in hand comes before the rest of its batch.
Leading(place) ==
    place.at \in {"applying", "failed"} => \A j \in place.batch : place.item <= j

Handled == \A i \in 1..cursor : outcome[i] # "none"

OrderInv == (\A w \in Workers : Contiguous(worker[w]) /\ Leading(worker[w])) /\ Handled

\* The update a process applies or has failed on is the next one, or passed.
LEMMA NextInOrder ==
    ASSUME TypeInv, OrderInv, NEW w \in Workers, worker[w].at \in {"applying", "failed"}
    PROVE  worker[w].item <= cursor + 1
<1>1. /\ worker[w].item \in Nat /\ cursor \in Nat
      /\ worker[w].batch \subseteq Nat
  BY Place, Ranges DEF Updates
<1>2. ASSUME worker[w].item > cursor + 1 PROVE FALSE
  <2>1. cursor + 1 \in Held(worker[w])
    <3>1. worker[w].item \in Held(worker[w]) /\ Contiguous(worker[w])
      BY DEF Held, OrderInv
    <3>2. cursor + 1 \in 1..worker[w].item /\ ~(cursor + 1 <= cursor)
      BY <1>1, <1>2
    <3> QED
      BY <3>1, <3>2 DEF Contiguous
  <2> QED
    BY <1>1, <1>2, <2>1 DEF Held, OrderInv, Leading
<1> QED
  BY <1>1, <1>2

\* A step of one process, during which the cursor may move on.
LEMMA OneMovesInOrder ==
    ASSUME TypeInv, OrderInv, NEW w \in Workers,
           \A v \in Workers \ {w} : worker'[v] = worker[v],
           cursor' \in Nat, cursor <= cursor',
           Contiguous(worker[w])', Leading(worker[w])', Handled'
    PROVE  OrderInv'
<1>1. ASSUME NEW v \in Workers \ {w} PROVE Contiguous(worker[v])' /\ Leading(worker[v])'
  <2>1. Contiguous(worker[v]) /\ Leading(worker[v]) /\ worker'[v] = worker[v]
    BY DEF OrderInv
  <2>2. \A j \in Held(worker[v]) : \A m \in 1..j : m <= cursor => m <= cursor'
    BY Ranges, Place DEF Held, Updates
  <2> QED
    BY <2>1, <2>2 DEF Contiguous, Leading, Held
<1> QED
  BY <1>1 DEF OrderInv

\* The steps that handle nothing leave the sequence of the handled alone.
Idle(w) == Start(w) \/ LoseLock(w) \/ Stop(w) \/ Fetch(w) \/ BeginA(w) \/ BatchDone(w) \/ FailA(w)
               \/ Regression(w) \/ PassingFailure(w) \/ Reply(w)

\* They keep the order.
LEMMA IdleInOrder ==
    ASSUME TypeInv, OrderInv, NEW w \in Workers, Idle(w)
    PROVE  OrderInv' /\ UNCHANGED <<arrived, cursor, outcome>>
<1>1. UNCHANGED <<arrived, cursor, outcome>> /\ cursor \in Nat /\ worker \in [Workers -> PlaceRow]
  BY Ranges DEF Idle, Start, LoseLock, Stop, Fetch, BeginA, BatchDone, FailA, Regression,
                PassingFailure, Reply, progress, mailbox
<1>2. Handled'
  BY <1>1 DEF OrderInv, Handled
<1>3. worker[w].batch \subseteq Nat
  BY Place DEF Updates
<1>4. CASE LoseLock(w)
  BY <1>1, <1>2, <1>4 DEF LoseLock, OrderInv, Contiguous, Leading, Held
<1>5. CASE GoTo(w, Down) \/ GoTo(w, Polling)
  BY <1>1, <1>2, <1>5, OneMovesInOrder DEF GoTo, Down, Polling, At, Contiguous, Leading, Held
<1>6. CASE GoTo(w, At("next", worker[w].batch, 0, {})) /\ worker[w].at = "replying"
  BY <1>1, <1>2, <1>6, OneMovesInOrder DEF GoTo, At, OrderInv, Contiguous, Leading, Held
<1>7. CASE worker[w].at = "applying" /\ GoTo(w, [worker[w] EXCEPT !.at = "failed", !.seen = {}])
  <2>1. /\ worker'[w].at = "failed" /\ worker'[w].item = worker[w].item
        /\ worker'[w].batch = worker[w].batch
        /\ \A v \in Workers \ {w} : worker'[v] = worker[v]
    BY <1>1, <1>7 DEF GoTo, PlaceRow
  <2> QED
    BY <1>1, <1>2, <1>7, <2>1, OneMovesInOrder DEF OrderInv, Contiguous, Leading, Held
<1>8. CASE Fetch(w)
  <2>1. PICK last \in (cursor + 1)..arrived : GoTo(w, At("next", (cursor + 1)..last, 0, {}))
    BY <1>8 DEF Fetch
  <2>2. /\ worker'[w].at = "next" /\ worker'[w].batch = (cursor + 1)..last
        /\ \A v \in Workers \ {w} : worker'[v] = worker[v]
    BY <1>1, <2>1 DEF GoTo, At
  <2>3. arrived \in Nat
    BY Ranges, BotAssumption
  <2>4. Contiguous(worker[w])' /\ Leading(worker[w])'
    BY <1>1, <2>2, <2>3 DEF Contiguous, Leading, Held
  <2> QED
    BY <1>1, <1>2, <2>2, <2>4, OneMovesInOrder
<1>9. CASE BeginA(w)
  <2>1. PICK i \in FirstOf(worker[w].batch) :
          GoTo(w, IF Passed(i) THEN [worker[w] EXCEPT !.batch = @ \ {i}]
                  ELSE At("applying", worker[w].batch \ {i}, i, Snapshot(i)))
    BY <1>9 DEF BeginA
  <2>2. worker[w].at = "next" /\ i \in worker[w].batch /\ \A j \in worker[w].batch : i <= j
    BY <1>9 DEF BeginA, FirstOf
  <2>3. \A v \in Workers \ {w} : worker'[v] = worker[v]
    BY <1>1, <2>1 DEF GoTo
  <2>4. CASE Passed(i)
    <3>1. worker'[w].at = "next" /\ worker'[w].batch = worker[w].batch \ {i}
      BY <1>1, <2>1, <2>2, <2>4 DEF GoTo, PlaceRow
    <3>2. Contiguous(worker[w])' /\ Leading(worker[w])'
      BY <1>1, <2>2, <2>4, <3>1 DEF OrderInv, Contiguous, Leading, Held, Passed
    <3> QED
      BY <1>1, <1>2, <2>3, <3>2, OneMovesInOrder
  <2>5. CASE ~Passed(i)
    <3>1. worker'[w].at = "applying" /\ worker'[w].batch = worker[w].batch \ {i} /\ worker'[w].item = i
      BY <1>1, <2>1, <2>5 DEF GoTo, At
    <3>2. Held(worker'[w]) = Held(worker[w])
      BY <2>2, <3>1 DEF Held
    <3>3. Contiguous(worker[w])' /\ Leading(worker[w])'
      BY <1>1, <2>2, <3>1, <3>2 DEF OrderInv, Contiguous, Leading
    <3> QED
      BY <1>1, <1>2, <2>3, <3>3, OneMovesInOrder
  <2> QED
    BY <2>4, <2>5
<1> QED
  BY <1>1, <1>4, <1>5, <1>6, <1>7, <1>8, <1>9
  DEF Idle, Start, Stop, BatchDone, FailA, Regression, PassingFailure, Reply, Retry

\* The next update is handled.
HandledNext(how) ==
    /\ cursor' = cursor + 1 /\ cursor < arrived /\ arrived' = arrived
    /\ outcome' = [outcome EXCEPT ![cursor + 1] = how]

\* An update that is processed is the next one.
LEMMA CommitInOrder ==
    ASSUME TypeInv, OnceInv, OrderInv, NEW w \in Workers, CommitA(w)
    PROVE  OrderInv' /\ HandledNext("applied")
<1>0. PICK i \in Updates : i = worker[w].item
  BY Place DEF CommitA
<1>1. /\ i \in 1..arrived /\ i > cursor /\ cursor \in Nat /\ worker[w].batch \subseteq Nat
  BY <1>0, Place, Ranges DEF CommitA, Fits, OnceInv, Applying, Updates
<1>2. i = cursor + 1
  BY <1>0, <1>1, NextInOrder DEF CommitA
<1>3. arrived \in Nat /\ arrived' = arrived
  BY Ranges, BotAssumption DEF CommitA
<1>4. cursor' = cursor + 1 /\ outcome' = [outcome EXCEPT ![i] = "applied"]
  BY <1>0, <1>1, <1>2 DEF CommitA, Advance
<1>5. HandledNext("applied")
  BY <1>1, <1>2, <1>3, <1>4 DEF HandledNext
<1>6. /\ worker'[w].at \in {"replying", "next"} /\ worker'[w].batch = worker[w].batch
      /\ \A v \in Workers \ {w} : worker'[v] = worker[v]
  BY Ranges DEF CommitA, GoTo, AfterUpdate, At
<1>7. Contiguous(worker[w])' /\ Leading(worker[w])'
  BY <1>0, <1>1, <1>2, <1>4, <1>6 DEF CommitA, OrderInv, Contiguous, Leading, Held
<1>8. Handled'
  BY <1>1, <1>2, <1>3, <1>4, Ranges DEF OrderInv, Handled, Updates
<1> QED
  BY <1>1, <1>4, <1>5, <1>6, <1>7, <1>8, OneMovesInOrder

\* The next update is set aside, or one that was is set aside again.
LEMMA RecordInOrder ==
    ASSUME TypeInv, Enough, OnceInv, OrderInv, NEW w \in Workers, RecordFailure(w)
    PROVE  OrderInv' /\ (HandledNext("quarantined") \/ UNCHANGED <<arrived, cursor, outcome>>)
<1>0. PICK i \in Updates : i = worker[w].item
  BY Place DEF RecordFailure
<1>1. /\ i \in 1..arrived /\ cursor \in Nat /\ worker[w].batch \subseteq Nat
      /\ worker[w].at = "failed" /\ arrived \in Nat /\ arrived' = arrived
  BY <1>0, Place, Ranges, BotAssumption DEF RecordFailure, Fits, Updates
<1>2. i <= cursor + 1
  BY <1>0, <1>1, NextInOrder
<1>3. CASE GoTo(w, Polling) /\ UNCHANGED <<cursor, outcome>>
  <2>1. Contiguous(worker[w])' /\ Leading(worker[w])' /\ \A v \in Workers \ {w} : worker'[v] = worker[v]
    BY <1>3, Ranges DEF GoTo, Polling, At, Contiguous, Leading, Held
  <2>2. Handled'
    BY <1>3 DEF OrderInv, Handled
  <2> QED
    BY <1>1, <1>3, <2>1, <2>2, OneMovesInOrder
<1>4. CASE Quarantine(i) /\ GoTo(w, At("next", worker[w].batch, 0, {}))
  <2>1. i \in {cursor, cursor + 1} /\ cursor' = i /\ outcome' = [outcome EXCEPT ![i] = "quarantined"]
    BY <1>1, <1>2, <1>4 DEF Quarantine, Advance
  <2>2. /\ worker'[w].at = "next" /\ worker'[w].batch = worker[w].batch
        /\ \A v \in Workers \ {w} : worker'[v] = worker[v]
    BY <1>4, Ranges DEF GoTo, At
  <2>3. Contiguous(worker[w])' /\ Leading(worker[w])'
    BY <1>0, <1>1, <2>1, <2>2 DEF OrderInv, Contiguous, Leading, Held
  <2>4. Handled'
    BY <1>1, <2>1, Ranges DEF OrderInv, Handled, Updates
  <2>5. OrderInv'
    BY <1>1, <2>1, <2>2, <2>3, <2>4, OneMovesInOrder
  <2>6. CASE i = cursor + 1
    BY <1>1, <2>1, <2>5, <2>6 DEF HandledNext
  <2>7. CASE i = cursor
    <3>1. OnceInv'
      BY RecordOnce
    <3>2. effects'[i] = 0 /\ effects' = effects
      BY <2>1, <3>1, Ranges DEF OnceInv, EffectsOnce, RecordFailure
    <3>3. outcome[i] \notin {"applied", "none"}
      BY <1>1, <2>7, <3>2 DEF OnceInv, EffectsOnce, OrderInv, Handled
    <3>4. outcome[i] = "quarantined" /\ outcome \in [Updates -> {"none", "applied", "quarantined"}]
      BY <3>3, Ranges
    <3>5. UNCHANGED <<arrived, cursor, outcome>>
      BY <1>1, <2>1, <2>7, <3>4
    <3> QED
      BY <2>5, <3>5
  <2> QED
    BY <2>1, <2>6, <2>7
<1> QED
  BY <1>0, <1>1, <1>3, <1>4 DEF RecordFailure

\* A new update comes after all others.
LEMMA SendInOrder ==
    ASSUME TypeInv, OrderInv, Send
    PROVE  OrderInv' /\ Queue!Arrive
<1>1. arrived' = arrived + 1 /\ UNCHANGED <<cursor, outcome, worker>>
  BY DEF Send, progress
<1>2. OrderInv'
  BY <1>1 DEF OrderInv, Contiguous, Leading, Held, Handled
<1> QED
  BY <1>1, <1>2 DEF Queue!Arrive

\* Handling the next update appends to what was handled.
LEMMA HandlesNext ==
    ASSUME TypeInv, NEW how \in {"applied", "quarantined"}, HandledNext(how)
    PROVE  Queue!Handle
<1> DEFINE handled == [i \in 1..cursor |-> outcome[i]]
<1>1. cursor \in Nat /\ arrived \in Nat /\ cursor + 1 \in Updates
  BY Ranges, BotAssumption DEF HandledNext, Updates
<1>2. handled \in Seq({"none", "applied", "quarantined"}) /\ Len(handled) = cursor
  <2>1. \A i \in 1..cursor : outcome[i] \in {"none", "applied", "quarantined"}
    <3>1. MaxUpdates \in Nat /\ cursor <= MaxUpdates
      BY <1>1, Ranges, BotAssumption
    <3>2. outcome \in [Updates -> {"none", "applied", "quarantined"}]
      BY Ranges
    <3> QED
      BY <1>1, <3>1, <3>2 DEF Updates
  <2>2. handled \in [1..cursor -> {"none", "applied", "quarantined"}]
    BY <2>1
  <2> QED
    BY <1>1, <2>2
<1>3. Append(handled, how) = [i \in 1..(cursor + 1) |-> IF i = cursor + 1 THEN how ELSE outcome[i]]
  BY <1>1, <1>2
<1>4. [i \in 1..cursor' |-> outcome'[i]]
        = [i \in 1..(cursor + 1) |-> IF i = cursor + 1 THEN how ELSE outcome[i]]
  BY <1>1, Ranges DEF HandledNext, Updates
<1> QED
  BY <1>1, <1>2, <1>3, <1>4 DEF Queue!Handle, HandledNext

\* Every step handles the next update, receives one, or changes neither.
LEMMA NextInQueue ==
    ASSUME TypeInv, Enough, OnceInv, OrderInv, [Next]_vars
    PROVE  OrderInv' /\ [Queue!Next]_(Queue!vars)
<1>1. ASSUME UNCHANGED <<arrived, cursor, outcome>> PROVE [Queue!Next]_(Queue!vars)
  BY <1>1 DEF Queue!vars
<1>2. ASSUME UNCHANGED <<arrived, cursor, outcome, worker>>
      PROVE  OrderInv' /\ [Queue!Next]_(Queue!vars)
  BY <1>1, <1>2 DEF OrderInv, Contiguous, Leading, Held, Handled
<1>3. CASE UNCHANGED vars
  BY <1>2, <1>3 DEF vars, mailbox, progress
<1>4. CASE WebStep /\ UNCHANGED <<mailbox, progress, replies, worker, locks, accidents>>
  BY <1>2, <1>4 DEF mailbox, progress
<1>5. CASE Send
  BY <1>5, SendInOrder DEF Queue!Next
<1>6. ASSUME NEW w \in Workers, Idle(w) PROVE OrderInv' /\ [Queue!Next]_(Queue!vars)
  BY <1>1, <1>6, IdleInOrder
<1>7. ASSUME NEW w \in Workers, CommitA(w) PROVE OrderInv' /\ [Queue!Next]_(Queue!vars)
  BY <1>7, CommitInOrder, HandlesNext DEF Queue!Next
<1>8. ASSUME NEW w \in Workers, RecordFailure(w) PROVE OrderInv' /\ [Queue!Next]_(Queue!vars)
  BY <1>1, <1>8, RecordInOrder, HandlesNext DEF Queue!Next
<1> QED
  BY <1>3, <1>4, <1>5, <1>6, <1>7, <1>8 DEF Next, Polls, Idle

\* At the start nothing was handled.
LEMMA InitInQueue == Init => OrderInv /\ Queue!Init
<1> SUFFICES ASSUME Init PROVE OrderInv /\ Queue!Init
  OBVIOUS
<1>1. OrderInv
  BY DEF Init, OrderInv, Contiguous, Leading, Held, Handled, Down, At
<1>2. [i \in 1..cursor |-> outcome[i]] = << >>
  BY DEF Init
<1> QED
  BY <1>1, <1>2 DEF Init, Queue!Init

\* With no more processes than attempts, whatever crashes, repeats and races there
\* are, the worker does what UpdateQueue says: it applies or sets aside the next
\* update, and never one twice or out of order.  (That it goes on doing so is the
\* liveness of HandlesInOrder, which TLC checks.)
THEOREM ImplementsQueue == Enough => (Spec => Queue!Init /\ [][Queue!Next]_(Queue!vars))
<1> SUFFICES ASSUME Enough PROVE Spec => Queue!Init /\ [][Queue!Next]_(Queue!vars)
  OBVIOUS
<1>1. Init => TypeInv /\ OnceInv /\ OrderInv /\ Queue!Init
  BY InitTypes, InitOnce, InitInQueue
<1>2. TypeInv /\ OnceInv /\ OrderInv /\ [Next]_vars
        => TypeInv' /\ OnceInv' /\ OrderInv' /\ [Queue!Next]_(Queue!vars)
  BY NextTypes, NextOnce, NextInQueue
<1> QED
  BY <1>1, <1>2, PTL DEF Spec
=============================================================================
