-------------------------- MODULE OnboardingPages --------------------------
(***************************************************************************)
(* The pages of onboarding, and what a form that was sent from one is      *)
(* answered.  A page is drawn by queries that lock nothing, and a form is  *)
(* decided by others, under locks: the two have to agree, or the customer  *)
(* is shown a form that is refused or is refused something no page tells   *)
(* him about.                                                              *)
(*                                                                         *)
(* A page is a function of the state at one instant, and an answer of what *)
(* the form brought from its page and the state it arrives in.  Left out:  *)
(* the session, CSRF and fields that do not parse, which all pages share,  *)
(* the rate limits, and the wording.  An upload is answered as if nothing  *)
(* failed.                                                                 *)
(***************************************************************************)
EXTENDS Onboarding

-----------------------------------------------------------------------------
(* Activation.                                                             *)

\* Mutant: an acceptance of any version will do.
AcceptedSome == \E v \in Versions : accepted[v] # 0

\* SqlAlchemyHasAcceptedCurrentRegistrationOffer
HasAcceptedCurrent == \E v \in Versions : IsCurrent(v) /\ accepted[v] = offer[v].text

\* has_current_customer_identity_document
HasCurrentDocument ==
    Cardinality({f \in Files : doc[f] = "current" /\ file[f].status = "available"}) = 1

\* CustomerIdentityCompletenessService
HasIdentity == identity # 0

\* get_registration_readiness: the components, and whether each is complete.
Components ==
    [telegram |-> link.active,
     offer |-> HasAcceptedCurrent,
     identity |-> HasIdentity,
     document |-> HasCurrentDocument]

Complete(components) == \A c \in DOMAIN components : components[c]

\* activation_page: whether it says that all is done or shows the three code forms,
\* and what it lists as missing.
ActivationPage ==
    LET components == Components
    IN  [completed |-> customer = "active",
         forms |-> customer = "draft" /\ Complete(components),
         missing |-> {c \in DOMAIN components : ~components[c]}]

\* _issue_registration_otp: the first prerequisite that is not met.
IssueAnswer ==
    IF ~link.active THEN "telegram"
    ELSE IF customer = "active" THEN "already_active"
    ELSE IF ~Accepted THEN "offer"
    ELSE IF identity = 0 THEN "identity"
    ELSE IF CurrentDoc = NoFile \/ file[CurrentDoc].status # "available" THEN "document"
    ELSE "pending"

\* request_registration_otp
RequestCode == {IssueAnswer}

\* request_new_registration_otp_code, which may be asked to wait for an earlier code.
RequestNewCode ==
    {IssueAnswer} \cup
        (IF Outstanding /\ link.active /\ customer = "draft" THEN {"cooldown"} ELSE {})

\* verify_registration_otp, with the code that was sent last.
VerifyCode ==
    IF code.status = "active" THEN IF SameAsIssued THEN "activated" ELSE "changed"
    ELSE IF ~Outstanding /\ customer = "active" THEN "already_active"
    ELSE "invalid"

-----------------------------------------------------------------------------
(* Offers.                                                                 *)

\* registration_offer_page: the version whose text it shows.
OfferPage == CurrentOffer

\* registration_offer_accept, from a page that showed version v.
AcceptAnswer(v) ==
    IF IsCurrent(v) THEN IF accepted[v] # 0 THEN "replayed" ELSE "recorded"
    ELSE IF CurrentOffer = None THEN "unavailable" ELSE "changed"

\* OfferVersionCompletenessPolicy
HasText(v) == offer[v].text # 0

\* get_offer_version_detail_for_admin
Detail(v) == [status |-> offer[v].status, complete |-> HasText(v)]

\* admin_offer_detail: the forms for version v, whether its text is missing, and the
\* current version it names.
AdminPage(v) ==
    LET detail == Detail(v)
    IN  [edit |-> detail.status = "draft",
         incomplete |-> ~detail.complete,
         makeCurrent |-> detail.status \in {"approved", "current"},
         current |-> CurrentOffer]

\* admin_offer_text_upsert
EditAnswer(v) == IF offer[v].status = "draft" THEN "updated" ELSE "not_draft"

\* admin_offer_approve, with the evidence of a legal review.
ApproveAnswer(v) ==
    IF offer[v].status # "draft" THEN "not_draft"
    ELSE IF HasText(v) THEN "approved" ELSE "incomplete"

\* admin_offer_make_current
MakeCurrentAnswer(v, expected) ==
    IF IsCurrent(v) THEN "already_current"
    ELSE IF CurrentOffer # expected THEN "changed"
    ELSE IF offer[v].status # "approved" THEN "not_approved"
    ELSE IF HasText(v) THEN "switched" ELSE "incomplete"

-----------------------------------------------------------------------------
(* Identity and document.                                                  *)

\* get_own_customer_identity_page_state: its forms are for a draft.
PageState ==
    [revision |-> identity, document |-> CurrentDoc, link |-> HasCurrentDocument]

\* identity_page
IdentityPage == IF customer = "draft" THEN {PageState} ELSE {}

\* _render_identity_page: what its forms carry, and whether there is a link.
Forms(page) ==
    [expected_revision |-> page.revision,
     expected_current_document_id |-> page.document,
     link |-> page.link]

\* save_identity, from a page with this revision.
SaveAnswer(revision) ==
    IF ~MaySave THEN "draft_required"
    ELSE IF revision # identity THEN "changed" ELSE "saved"

\* upload_document, from a page with this document; each page has a submission_id
\* of its own.
UploadAnswer(document) ==
    IF customer # "draft" THEN "draft_required"
    ELSE IF document # CurrentDoc THEN "changed" ELSE "uploaded"

\* resolve_access_parent
CurrentParent == {f \in Files : doc[f] = "current"}

\* resolve_own_current_document_parent: an active customer has no page to see it on.
AccessParent == IF customer = "draft" THEN CurrentParent ELSE {}

\* OwnCurrentCustomerDocumentAuthorizer.authorize
Authorized(f) == AccessParent = {f}

\* create_authorized_presigned_get_url
Presigned(f) == Authorized(f) /\ file[f].status = "available"

\* create_own_current_customer_document_url: the files it gives a URL for.
DocumentUrl == {f \in AccessParent : Presigned(f)}

\* current_document: where the link leads to.
FollowLink == IF DocumentUrl = {} THEN {"access_denied"} ELSE DocumentUrl

-----------------------------------------------------------------------------
(* Properties.                                                             *)

\* The activation page shows its forms exactly when a code would be issued; else
\* what the request is refused for is what the page lists as missing, or the page
\* says that all is done, as it does for good.  Only from a page with forms does a
\* code activate.
ActivationPageTrue ==
    LET page == ActivationPage
        verified == VerifyCode
    IN  /\ RequestCode = {"pending"} <=> page.forms
        /\ RequestCode \subseteq page.missing \cup {"pending", "already_active"}
        /\ page.forms /\ ~Outstanding => RequestNewCode = {"pending"}
        /\ RequestCode = {"already_active"} => page.completed
        /\ verified = "activated" => page.forms
        /\ verified = "already_active" => page.completed

\* Every form an administrator is shown is accepted, and there is a text to accept:
\* the customer who accepts it again has what activation asks for, so that nobody
\* is told that he has accepted and yet is missing it.
OfferPagesTrue ==
    /\ \E shown \in Versions :
         /\ shown = OfferPage
         /\ AcceptAnswer(shown) = IF HasAcceptedCurrent THEN "replayed" ELSE "recorded"
    /\ \A v \in Versions :
         LET page == AdminPage(v)
         IN  /\ page.edit => EditAnswer(v) = "updated"
             /\ page.edit => ApproveAnswer(v) = IF page.incomplete THEN "incomplete" ELSE "approved"
             /\ page.makeCurrent
                  => MakeCurrentAnswer(v, page.current) \in {"switched", "already_current"}

\* Every form of the identity page is accepted, and it has a link to the document
\* exactly when following it opens the image that was sent.
IdentityPageTrue ==
    \A page \in IdentityPage :
        LET forms == Forms(page)
        IN  /\ SaveAnswer(forms.expected_revision) = "saved"
            /\ UploadAnswer(forms.expected_current_document_id) = "uploaded"
            /\ IF forms.link
               THEN FollowLink = {page.document} /\ object[page.document] = "stored"
               ELSE FollowLink = {"access_denied"}

\* A page of onboarding promises what its forms and links keep.
PagesGuideOnboarding == ActivationPageTrue /\ OfferPagesTrue /\ IdentityPageTrue
=============================================================================
