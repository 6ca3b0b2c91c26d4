----------------------------- MODULE LinkTokens -----------------------------
(***************************************************************************)
(* Linking a Telegram account to a user.  The web hands the user a link    *)
(* with a one-time token; whoever opens it binds the token to his chat and *)
(* is asked for his contact, and the contact, when its number is the       *)
(* user's, links that chat to the user.  A relink is the same with a token *)
(* issued while a link is active, and an unlink ends the link and the      *)
(* token there may be.                                                     *)
(*                                                                         *)
(* Every transaction looks up tokens without locks, locks tokens, user and *)
(* links in this order, and looks again.  One of the web refuses when what *)
(* it finds has changed, so that it is one step, at the moment its last    *)
(* lock is granted.  The two of the bot, for which a refusal is an answer  *)
(* like any other, are given as what they look up first (Candidates,       *)
(* Pending) and what they do under the locks (Binds and BindToken,         *)
(* Consumes and ConsumeToken); TelegramBot says when they run.             *)
(*                                                                         *)
(* A token and its hash, a chat and the MAC that binds a token to it, are  *)
(* the same thing here, and a contact's number is the user who has it.     *)
(* That a token has expired (TELEGRAM_LINK_TOKEN_TTL_SECONDS) is an event. *)
(* One-time codes, which every change of the link cancels, are LoginCode's *)
(* subject; the purge of tokens ended for 30 days is left out.             *)
(***************************************************************************)
EXTENDS Integers, FiniteSets

CONSTANTS
    Users, Chats,
    Nobody,
    MaxTokens         \* bound: tokens ever issued

ASSUME LinkAssumption ==
    /\ Nobody \notin Users \cup Chats
    /\ MaxTokens \in Nat

Tokens == 1..MaxTokens
NoToken == 0

VARIABLES
    token,      \* [Tokens -> row of telegram_link_tokens; opener is not a column]
    link,       \* [Users -> row of telegram_links; token and phone are not columns]
    customer    \* [Users -> onboarding_status]

accounts == <<token, link, customer>>

Unissued == [user |-> Nobody, chat |-> Nobody, opener |-> Nobody, marks |-> {}]
Unlinked == [chat |-> Nobody, token |-> NoToken, phone |-> Nobody]

LinkInit ==
    /\ token = [t \in Tokens |-> Unissued]
    /\ link = [u \in Users |-> Unlinked]
    /\ customer = [u \in Users |-> "not_active"]

Issued(t) == token[t].user # Nobody

\* consumed_at IS NULL AND invalidated_at IS NULL
Open(t) == Issued(t) /\ token[t].marks \cap {"consumed", "invalidated"} = {}
OpenOf(u) == {t \in Tokens : Open(t) /\ token[t].user = u}

\* has_active_telegram_link
Linked(u) == link[u].chat # Nobody

-----------------------------------------------------------------------------
(* The web.                                                                *)

\* The token, if it is still open, ends; so does the binding.
Invalidated(row) ==
    [row EXCEPT !.marks = @ \cup {"invalidated"}, !.chat = Nobody, !.opener = Nobody]

\* Tokens that are open end; one inserted meanwhile makes the insertion fail
\* (uq_telegram_link_tokens_one_outstanding_per_user).
Inserted(t, u) ==
    [s \in Tokens |->
        IF s = t THEN [Unissued EXCEPT !.user = u]
        ELSE IF s \in OpenOf(u) THEN Invalidated(token[s])
        ELSE token[s]]

\* issue_link_token_after_rate_limit and issue_relink_token_after_rate_limit,
\* which are for a user without and with a link.
IssueToken(u) ==
    /\ \E t \in Tokens :
        /\ ~Issued(t)
        /\ \A s \in Tokens : s < t => Issued(s)
        /\ token' = Inserted(t, u)
    /\ UNCHANGED <<link, customer>>

\* decide_ordinary_telegram_unlink
MayUnlink(u) == customer[u] # "active"

EndLink(u) == link' = [link EXCEPT ![u] = Unlinked]

Unlink(u) ==
    /\ MayUnlink(u)
    /\ Linked(u)
    /\ token' = [t \in Tokens |->
         IF t \in OpenOf(u) THEN Invalidated(token[t]) ELSE token[t]]
    /\ EndLink(u)
    /\ UNCHANGED customer

-----------------------------------------------------------------------------
(* Time, and the rest of the system.                                       *)

\* expires_at passes
Expire(t) ==
    /\ Open(t)
    /\ "expired" \notin token[t].marks
    /\ token' = [token EXCEPT ![t].marks = @ \cup {"expired"}]
    /\ UNCHANGED <<link, customer>>

\* The activation of a customer, which needs an active link.
Activate(u) ==
    /\ customer[u] = "not_active"
    /\ Linked(u)
    /\ customer' = [customer EXCEPT ![u] = "active"]
    /\ UNCHANGED <<token, link>>

-----------------------------------------------------------------------------
(* The bot.                                                                *)

\* get_pending_telegram_link_token_ids_by_contact_binding
Pending(c) == {t \in Tokens : Open(t) /\ token[t].chat = c}

\* get_telegram_link_token_ids_for_contact_binding
Candidates(t, c) == {t} \cup Pending(c)

\* What was looked up before the locks is what there is under them.
Unmoved(seen, now) == seen = now

\* Mutant: the time is not looked at under the locks.
UsableExpired(t) == Open(t)

Usable(t) == Open(t) /\ "expired" \notin token[t].marks

\* bind_start_token_for_contact: /start with token t from chat c, where seen was
\* looked up before the locks.
Binds(t, c, seen) ==
    /\ Unmoved(seen, Candidates(t, c))
    /\ Usable(t)
    /\ token[t].chat \in {Nobody, c}

\* Other tokens waiting for a contact from this chat end.
BindToken(t, c) ==
    token' = [s \in Tokens |->
        IF s = t THEN [token[t] EXCEPT !.chat = c, !.opener = c]
        ELSE IF s \in Pending(c) /\ token[t].chat # c THEN Invalidated(token[s])
        ELSE token[s]]

\* lock_telegram_link_change_set, uq_telegram_links_active_chat_id
ChatTaken(c, u) == \E v \in Users \ {u} : link[v].chat = c

PhoneMatches(phone, u) == phone = u

\* consume_start_token: a contact from chat c with a user's number.
Consumes(c, phone, seen) ==
    /\ Unmoved(seen, Pending(c))
    /\ Cardinality(seen) = 1
    /\ \A t \in seen :
        /\ Usable(t)
        /\ PhoneMatches(phone, token[t].user)
        /\ ~ChatTaken(c, token[t].user)

LinkTo(u, c, t, phone) == link' = [link EXCEPT ![u] = [chat |-> c, token |-> t, phone |-> phone]]

ConsumeToken(c, phone, seen) ==
    \E t \in seen :
        /\ token' = [token EXCEPT ![t].marks = @ \cup {"consumed"}, ![t].chat = Nobody]
        /\ LinkTo(token[t].user, c, t, phone)

-----------------------------------------------------------------------------
WebStep ==
    \/ \E u \in Users : IssueToken(u) \/ Unlink(u) \/ Activate(u)
    \/ \E t \in Tokens : Expire(t)

LinkTypeOK ==
    /\ token \in [Tokens -> [user : Users \cup {Nobody},
                             chat : Chats \cup {Nobody},
                             opener : Chats \cup {Nobody},
                             marks : SUBSET {"consumed", "invalidated", "expired"}]]
    /\ link \in [Users -> [chat : Chats \cup {Nobody},
                           token : Tokens \cup {NoToken},
                           phone : Users \cup {Nobody}]]
    /\ customer \in [Users -> {"not_active", "active"}]
=============================================================================
