----------------------------- MODULE Onboarding -----------------------------
(***************************************************************************)
(* How a customer becomes active.  In any order and in several tabs he     *)
(* saves his identity, uploads an image of his document (ObjectFiles),     *)
(* accepts the current registration offer and links Telegram; when all is  *)
(* there he asks for a code, which remembers what was there, and the code  *)
(* activates him if the same is there when he enters it.  Meanwhile        *)
(* administrators write, approve and publish offers.                       *)
(*                                                                         *)
(* There is one customer; customers share the offers only.  What he does   *)
(* in the database he does holding his Customer row, or with his User row  *)
(* for the link, and every check that may refuse is made under the locks,  *)
(* so that a transaction is one step.  What is several steps is the upload *)
(* and all that happens between seeing a page and sending it, and between  *)
(* asking for a code, its delivery and its use.                            *)
(*                                                                         *)
(* A document is known by its file and a text by its version, as if there  *)
(* were one language.  One-time codes are LoginCode's subject and links    *)
(* are LinkTokens': here a code is the latest one, and a link has a number *)
(* for its linked_at.                                                      *)
(***************************************************************************)
EXTENDS ObjectFiles

CONSTANTS
    Versions,       \* the versions of the registration offer
    First,          \* the one that is current at first
    None,
    MaxEdits,       \* bound: edits of a version's text
    MaxActs         \* bound: acts of the customer, administrators and operators

ASSUME OnboardingAssumption ==
    /\ First \in Versions
    /\ None \notin Versions
    /\ MaxEdits \in Nat \ {0} /\ MaxActs \in Nat

NoFile == 0
Pages == Files \cup {NoFile}

\* The submission_id of a form is the first upload it is sent in.
Submissions == Files

VARIABLES
    doc,         \* [Files -> status of the row of customer_documents for the file]
    request,     \* [Files -> submission_id and expected_current of the upload]
    identity,    \* revision of customer_identities, 0 without one
    offer,       \* [Versions -> status, and the edits of the text]
    accepted,    \* [Versions -> the text that was accepted, 0 for none]
    link,        \* linked_at, and whether the link is active
    customer,    \* onboarding_status
    code,        \* the latest registration challenge and its snapshot
    acts

papers == <<doc, request, identity>>
offers == <<offer, accepted>>
vars == <<storage, papers, offers, link, customer, code, acts>>

NoSnapshot == [doc |-> NoFile, identity |-> 0, offer |-> None, linkedAt |-> 0]

\* The other versions are drafts, or approved already, and the identity may have
\* been saved before.
Init ==
    /\ FileInit
    /\ doc = [f \in Files |-> "none"]
    /\ request = [f \in Files |-> [submission |-> None, expected |-> NoFile]]
    /\ identity \in {0, 1}
    /\ offer \in [Versions -> [status : {"draft", "approved", "current"}, text : {1}]]
    /\ \A v \in Versions : offer[v].status = "current" <=> v = First
    /\ accepted = [v \in Versions |-> 0]
    /\ link = [linkedAt |-> 1, active |-> TRUE]
    /\ customer = "draft"
    /\ code = [status |-> "none", snapshot |-> NoSnapshot]
    /\ acts = 0

Act == acts < MaxActs /\ acts' = acts + 1

-----------------------------------------------------------------------------
(* Documents.                                                              *)

\* lock_current_documents
CurrentDoc ==
    IF \E f \in Files : doc[f] = "current" THEN CHOOSE f \in Files : doc[f] = "current" ELSE NoFile

\* load_submission_replay
Submitted(s) == \E f \in Files : doc[f] # "none" /\ request[f].submission = s

\* _preflight_attachment: a submission that is attached is answered with its
\* document.
Preflight(s) == customer = "draft" /\ ~Submitted(s)

\* upload_and_attach_own_customer_document up to the PUT.
Upload(f, s) ==
    /\ Act
    /\ Preflight(s)
    /\ CreatePending(f)
    /\ request' = [request EXCEPT ![f] = [submission |-> s, expected |-> CurrentDoc]]
    /\ UNCHANGED <<doc, identity, offers, link, customer, code>>

\* Mutant: the current document is replaced without a look at it.
ExpectedAny(f) == TRUE

Expected(f) == CurrentDoc = request[f].expected

\* _attach_ingested_document
MayAttach(f) ==
    /\ customer = "draft"
    /\ file[f].status = "available"
    /\ doc[f] = "none"
    /\ ~Submitted(request[f].submission)
    /\ Expected(f)

\* Attached, the request is over, or sees a failure although it was committed;
\* refused, failed or answered with an earlier document, it gives up its own file.
Attach(f) ==
    /\ upload[f].step = "attach"
    /\ \/ /\ MayAttach(f)
          /\ doc' = [g \in Files |->
               IF g = f THEN "current" ELSE IF doc[g] = "current" THEN "superseded" ELSE doc[g]]
          /\ GoOn(f, "over") \/ GoOn(f, "compensate")
       \/ GoOn(f, "compensate") /\ UNCHANGED doc
    /\ UNCHANGED <<file, object, run, clock, request, identity, offers, link, customer, code, acts>>

\* Mutant: whether the file is attached is not looked at.
GivenUp(f) == file[f].status = "available"

Unattached(f) == file[f].status = "available" /\ doc[f] = "none"

\* claim_unattached_object_for_compensation
Compensate(f) ==
    /\ upload[f].step = "compensate"
    /\ GoOn(f, "over")
    /\ IF Unattached(f) /\ file[f].since <= upload[f].at
       THEN file' = [file EXCEPT ![f] = [status |-> "delete_pending", since |-> upload[f].at]]
       ELSE UNCHANGED file
    /\ UNCHANGED <<object, run, clock, papers, offers, link, customer, code, acts>>

Reconcile(k) ==
    /\ Act
    /\ StartRun(k)
    /\ UNCHANGED <<papers, offers, link, customer, code>>

-----------------------------------------------------------------------------
(* Identity.                                                               *)

\* Mutant: an active customer may save it too.
MaySaveAlways == TRUE

\* lock_own_customer_draft
MaySave == customer = "draft"

\* save_identity
Saved == identity' = identity + 1

\* save_own_customer_identity, from a page with the revision there is.
SaveIdentity ==
    /\ Act
    /\ MaySave
    /\ Saved
    /\ UNCHANGED <<storage, doc, request, offers, link, customer, code>>

-----------------------------------------------------------------------------
(* Offers.                                                                 *)

IsCurrent(v) == offer[v].status = "current"

CurrentOffer ==
    IF \E v \in Versions : IsCurrent(v) THEN CHOOSE v \in Versions : IsCurrent(v) ELSE None

\* upsert_offer_draft_text
EditText(v) ==
    /\ Act
    /\ offer[v].status = "draft"
    /\ offer[v].text < MaxEdits
    /\ offer' = [offer EXCEPT ![v].text = @ + 1]
    /\ UNCHANGED <<storage, papers, accepted, link, customer, code>>

\* approve_offer_version, with its text in every language.
Approve(v) ==
    /\ Act
    /\ offer[v].status = "draft"
    /\ offer' = [offer EXCEPT ![v].status = "approved"]
    /\ UNCHANGED <<storage, papers, accepted, link, customer, code>>

\* make_offer_version_current, from a page that shows the current version.
Publish(v) ==
    /\ Act
    /\ offer[v].status = "approved"
    /\ offer' = [w \in Versions |->
         IF w = v THEN [offer[w] EXCEPT !.status = "current"]
         ELSE IF IsCurrent(w) THEN [offer[w] EXCEPT !.status = "approved"]
         ELSE offer[w]]
    /\ UNCHANGED <<storage, papers, accepted, link, customer, code>>

\* accept_current_registration_offer, from a page that shows version v.
AcceptOffer(v) ==
    /\ Act
    /\ IsCurrent(v)
    /\ accepted[v] = 0
    /\ accepted' = [accepted EXCEPT ![v] = offer[v].text]
    /\ UNCHANGED <<storage, papers, offer, link, customer, code>>

-----------------------------------------------------------------------------
(* The link and the code.                                                  *)

Outstanding == code.status \in {"pending", "active"}

\* Nobody reads the snapshot of a code that has ended.
Over == [status |-> "ended", snapshot |-> NoSnapshot]

Ends == IF Outstanding THEN Over ELSE code

\* A relink, or an unlink, which an active customer may not do.
ChangeLink ==
    /\ Act
    /\ \/ link' = [linkedAt |-> link.linkedAt + 1, active |-> TRUE]
       \/ /\ link.active
          /\ customer = "draft"
          /\ link' = [link EXCEPT !.active = FALSE]
    /\ code' = Ends
    /\ UNCHANGED <<storage, papers, offers, customer>>

\* lock_earliest_exact_current_registration_acceptance
Accepted == CurrentOffer # None /\ accepted[CurrentOffer] = offer[CurrentOffer].text

\* select_current_registration_acceptance, lock_complete_identity_revision,
\* lock_current_available_document and the link: everything is there.
Ready ==
    /\ link.active
    /\ customer = "draft"
    /\ Accepted
    /\ identity > 0
    /\ CurrentDoc # NoFile /\ file[CurrentDoc].status = "available"

Snapshot == [doc |-> CurrentDoc, identity |-> identity, offer |-> CurrentOffer,
             linkedAt |-> link.linkedAt]

\* _issue_registration_otp; an earlier code is superseded.
IssueCode ==
    /\ Act
    /\ Ready
    /\ code' = [status |-> "pending", snapshot |-> Snapshot]
    /\ UNCHANGED <<storage, papers, offers, link, customer>>

\* The dispatcher, _validate_challenge_target.
DeliverCode ==
    /\ code.status = "pending"
    /\ code' = IF /\ link.active /\ link.linkedAt = code.snapshot.linkedAt
                  /\ customer = "draft"
               THEN [code EXCEPT !.status = "active"]
               ELSE Ends
    /\ UNCHANGED <<storage, papers, offers, link, customer, acts>>

\* It expires, or is guessed at too often.
LoseCode ==
    /\ Outstanding
    /\ code' = Ends
    /\ UNCHANGED <<storage, papers, offers, link, customer, acts>>

\* Mutant: the papers and the link have to be the same, the offer is not looked at.
PapersSame ==
    /\ link.active /\ link.linkedAt = code.snapshot.linkedAt
    /\ customer = "draft"
    /\ identity = code.snapshot.identity
    /\ CurrentDoc = code.snapshot.doc /\ file[CurrentDoc].status = "available"

\* recheck_registration_activation_snapshot
SameAsIssued == Ready /\ Snapshot = code.snapshot

\* transition_existing_own_customer_draft_to_active
Activated == customer' = "active"

\* verify_and_activate_registration_customer with the right code; when something
\* changed the code ends.
Verify ==
    /\ code.status = "active"
    /\ IF SameAsIssued
       THEN code' = [code EXCEPT !.status = "consumed"] /\ Activated
       ELSE code' = Ends /\ UNCHANGED customer
    /\ UNCHANGED <<storage, papers, offers, link, acts>>

-----------------------------------------------------------------------------
Next ==
    \/ StorageStep /\ UNCHANGED <<papers, offers, link, customer, code, acts>>
    \/ \E f \in Files : Attach(f) \/ Compensate(f) \/ \E s \in 1..f : Upload(f, s)
    \/ \E k \in Runs : Reconcile(k)
    \/ \E v \in Versions : EditText(v) \/ Approve(v) \/ Publish(v) \/ AcceptOffer(v)
    \/ SaveIdentity
    \/ ChangeLink
    \/ IssueCode
    \/ DeliverCode
    \/ LoseCode
    \/ Verify

Spec == Init /\ [][Next]_vars

-----------------------------------------------------------------------------
(* Properties.                                                             *)

\* The rows hold what their columns may.
TypeOK ==
    /\ FileTypeOK
    /\ doc \in [Files -> {"none", "current", "superseded"}]
    /\ request \in [Files -> [submission : Submissions \cup {None}, expected : Pages]]
    /\ identity \in Nat
    /\ offer \in [Versions -> [status : {"draft", "approved", "current"}, text : 1..MaxEdits]]
    /\ accepted \in [Versions -> 0..MaxEdits]
    /\ link \in [linkedAt : Nat, active : BOOLEAN]
    /\ customer \in {"draft", "active"}
    /\ code \in [status : {"none", "pending", "active", "ended", "consumed"},
                 snapshot : [doc : Pages, identity : Nat, offer : Versions \cup {None},
                             linkedAt : Nat]]
    /\ acts \in 0..MaxActs

\* A customer's documents, old ones included, are in storage as they were sent:
\* neither the request that sees its own commit fail, nor one that lost a race,
\* nor a run of reconcile takes them away.  One is current at most, and a form
\* sent twice leaves one document.
DocumentsStored ==
    \A f \in Files :
        doc[f] # "none" =>
            /\ file[f].status = "available"
            /\ \A g \in Files \ {f} :
                 doc[g] # "none" => /\ doc[f] = "current" => doc[g] = "superseded"
                                   /\ request[f].submission # request[g].submission

\* A document is replaced only by one that was sent from a page that showed it.
ReplacesWhatWasSeen ==
    [][\A g \in Files :
         doc'[g] = "current" /\ doc[g] # "current"
           => \A f \in Files :
                doc[f] = "current" => doc'[f] = "superseded" /\ request[g].expected = f]_vars

\* Whatever else was under way when the customer entered his code, he stays what
\* the code was issued for: the same document, still stored, and the same
\* identity; he is linked; and the text he accepted is the one that was approved.
ActiveAsConfirmed ==
    customer = "active" =>
        /\ code.status = "consumed"
        /\ doc[code.snapshot.doc] = "current"
        /\ object[code.snapshot.doc] = "stored"
        /\ identity = code.snapshot.identity
        /\ accepted[code.snapshot.offer] = offer[code.snapshot.offer].text
        /\ offer[code.snapshot.offer].status # "draft"
        /\ link.active

\* A customer is activated on the offer that is current at that moment, and by a
\* code that was sent to the account he is linked to.
ActivatesOnCurrentOffer ==
    [][customer = "draft" /\ customer' = "active"
         => /\ IsCurrent(code.snapshot.offer)
            /\ code.snapshot.linkedAt = link.linkedAt]_vars
=============================================================================
