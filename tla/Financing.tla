------------------------------- MODULE Financing -------------------------------
(***************************************************************************)
(* One financing application, the documents and consent of its applicant,  *)
(* its hand-offs to the partner and the partner's offers (apps/payments).  *)
(* Every service locks the row of the application and reads it again, so   *)
(* it is one action.  Accepting and declining lock the row of the offer    *)
(* first and the application's second, and accepting then writes the rows  *)
(* of the other offers: these calls are cut where they can wait.           *)
(*                                                                         *)
(* A definition marked "fault" is a variant of the one after it with a     *)
(* plausible mistake, to show that a property notices it.                  *)
(***************************************************************************)
EXTENDS Naturals, FiniteSets

CONSTANTS
    Calls,       \* answers to offers that can be in progress at the same time
    Offers,      \* identifiers of FinancingOffer rows
    NoOffer,     \* none of them
    References,  \* submission references that administrators use
    NoReference, \* none of them
    Types,       \* document types
    Required     \* those that the product requires

VARIABLES
    application, \* status, consent_status, partner_reference, amount in limits
    documents,   \* the types of which a document is uploaded
    submissions, \* the references of FinancingPartnerSubmission rows
    offers,      \* the status of each offer, "absent" without a row
    lapsed,      \* the offers whose expires_at has passed
    calls        \* the answers in progress and the rows they lock

vars == <<application, documents, submissions, offers, lapsed, calls>>

ApplicationStatus ==
    {"draft", "submitted", "under_review", "partner_review",
     "more_information_requested", "offer_received", "offer_accepted",
     "offer_declined", "rejected", "cancelled", "expired"}

(* pending and expired are declared and never set. *)
OfferStatus == {"active", "accepted", "declined", "withdrawn"}

ValidTransitions ==
    [draft |-> {"submitted", "cancelled"},
     submitted |-> {"under_review", "more_information_requested", "rejected", "cancelled"},
     under_review |-> {"partner_review", "more_information_requested", "rejected",
                       "cancelled"},
     partner_review |-> {"offer_received", "more_information_requested", "rejected",
                         "expired"},
     more_information_requested |-> {"submitted", "cancelled"},
     offer_received |-> {"offer_accepted", "offer_declined", "expired"},
     offer_accepted |-> {}, offer_declined |-> {}, rejected |-> {},
     cancelled |-> {}, expired |-> {}]

Idle == [step |-> "idle", answer |-> "accept", offer |-> NoOffer]

(* create_financing_application, for an amount within the product's limits.*)
Init ==
    /\ application = [status |-> "draft", consent |-> FALSE,
                      reference |-> NoReference, within |-> TRUE]
    /\ documents = {}
    /\ submissions = {}
    /\ offers = [o \in Offers |-> "absent"]
    /\ lapsed = {}
    /\ calls = [c \in Calls |-> Idle]

(* select_for_update on the application: nobody else holds its lock.       *)
Locked == \E c \in Calls : calls[c].step = "both"

Holds(c, o) == calls[c] # Idle /\ calls[c].offer = o

(* A transaction that locks the application and changes it.                *)
Updates(from, columns) ==
    /\ ~Locked
    /\ application.status \in from
    /\ application' = columns
    /\ UNCHANGED <<lapsed, calls>>

-----------------------------------------------------------------------------
(* The applicant *)

Editable == {"draft", "more_information_requested"}

(* The limits of the product are checked at creation, not here. *)
UpdateApplication(within) ==
    /\ Updates(Editable, [application EXCEPT !.within = within])
    /\ UNCHANGED <<documents, submissions, offers>>

GrantConsent ==
    /\ Updates(ApplicationStatus, [application EXCEPT !.consent = TRUE])
    /\ UNCHANGED <<documents, submissions, offers>>

UploadDocument(type) ==
    /\ Updates(Editable \cup {"submitted"}, application)
    /\ documents' = documents \cup {type}
    /\ UNCHANGED <<submissions, offers>>

ValidWithAnyDocument ==                                          \* fault
    application.consent /\ (Required = {} \/ Required \cap documents # {})
ValidSubmission == application.consent /\ Required \subseteq documents

SubmitApplication ==
    /\ ValidSubmission
    /\ Updates(Editable, [application EXCEPT !.status = "submitted"])
    /\ UNCHANGED <<documents, submissions, offers>>

-----------------------------------------------------------------------------
(* Administrators *)

(* What an administrator may choose; the present status is always allowed. *)
Decisions == {"under_review", "more_information_requested", "rejected", "cancelled"}

DecidedAnyway(status, next) == TRUE                              \* fault
Allowed(status, next) == next = status \/ next \in ValidTransitions[status]

Decide(next) ==
    /\ Allowed(application.status, next)
    /\ Updates(ApplicationStatus, [application EXCEPT !.status = next])
    /\ UNCHANGED <<documents, submissions, offers>>

(* A reference that was used before returns the earlier submission and     *)
(* leaves the application where it is.                                     *)
HandsOff == {"submitted", "under_review", "more_information_requested"}

SubmitToPartner(r) ==
    /\ application.consent
    /\ Updates(HandsOff, IF r \in submissions THEN application
                         ELSE [application EXCEPT !.status = "partner_review",
                                                  !.reference = r])
    /\ submissions' = submissions \cup {r}
    /\ UNCHANGED <<documents, offers>>

OfferedAgain == {"partner_review", "offer_received"}             \* fault
OfferedIn == {"partner_review"}

CreateOffer(o) ==
    /\ offers[o] = "absent"
    /\ Updates(OfferedIn, [application EXCEPT !.status = "offer_received"])
    /\ offers' = [offers EXCEPT ![o] = "active"]
    /\ UNCHANGED <<documents, submissions>>

-----------------------------------------------------------------------------
(* Answers to offers *)

Go(c, state) ==
    /\ calls' = [calls EXCEPT ![c] = state]
    /\ UNCHANGED <<documents, submissions, lapsed>>

LockOffer(c, o, answer) ==
    /\ calls[c] = Idle
    /\ offers[o] # "absent"
    /\ \A d \in Calls : ~Holds(d, o)
    /\ Go(c, [step |-> "offer", answer |-> answer, offer |-> o])
    /\ UNCHANGED <<application, offers>>

(* Both rows are locked and checked.  Declining does not ask for the       *)
(* application's status, nor whether the offer has expired.                *)
Answerable(o, answer) ==
    /\ offers[o] = "active"
    /\ answer = "accept" => o \notin lapsed /\ application.status = "offer_received"

LockApplication(c) ==
    /\ calls[c].step = "offer"
    /\ ~Locked
    /\ Go(c, IF Answerable(calls[c].offer, calls[c].answer)
             THEN [calls[c] EXCEPT !.step = "both"] ELSE Idle)
    /\ UNCHANGED <<application, offers>>

OtherActive(o) == {p \in Offers \ {o} : offers[p] = "active"}

(* The update of the other offers waits for whoever holds one of them.     *)
AcceptOffer(c) ==
    /\ calls[c].step = "both" /\ calls[c].answer = "accept"
    /\ \A p \in OtherActive(calls[c].offer), d \in Calls : ~Holds(d, p)
    /\ offers' = [p \in Offers |->
                     IF p = calls[c].offer THEN "accepted"
                     ELSE IF p \in OtherActive(calls[c].offer) THEN "withdrawn"
                     ELSE offers[p]]
    /\ application' = [application EXCEPT !.status = "offer_accepted"]
    /\ Go(c, Idle)

DeclineOffer(c) ==
    /\ calls[c].step = "both" /\ calls[c].answer = "decline"
    /\ offers' = [offers EXCEPT ![calls[c].offer] = "declined"]
    /\ application' = IF OtherActive(calls[c].offer) = {}
                      THEN [application EXCEPT !.status = "offer_declined"]
                      ELSE application
    /\ Go(c, Idle)

(* Time passes the expires_at of an offer. *)
Lapse(o) ==
    /\ offers[o] # "absent"
    /\ lapsed' = lapsed \cup {o}
    /\ UNCHANGED <<application, documents, submissions, offers, calls>>

Applicant ==
    \/ \E within \in BOOLEAN : UpdateApplication(within)
    \/ GrantConsent
    \/ \E type \in Types : UploadDocument(type)
    \/ SubmitApplication
    \/ \E c \in Calls :
          \/ \E o \in Offers, answer \in {"accept", "decline"} : LockOffer(c, o, answer)
          \/ LockApplication(c)
          \/ AcceptOffer(c)
          \/ DeclineOffer(c)

Administrator ==
    \/ \E next \in Decisions : Decide(next)
    \/ \E r \in References : SubmitToPartner(r)
    \/ \E o \in Offers : CreateOffer(o)

Next == Applicant \/ Administrator \/ \E o \in Offers : Lapse(o)

Spec == Init /\ [][Next]_vars

-----------------------------------------------------------------------------
(* Properties *)

(* Rows and answers in progress keep their types.                          *)
TypeOK ==
    /\ application \in [status : ApplicationStatus, consent : BOOLEAN,
                        reference : References \cup {NoReference}, within : BOOLEAN]
    /\ documents \subseteq Types
    /\ submissions \subseteq References
    /\ offers \in [Offers -> OfferStatus \cup {"absent"}]
    /\ lapsed \subseteq Offers
    /\ calls \in [Calls -> [step : {"idle", "offer", "both"},
                            answer : {"accept", "decline"}, offer : Offers \cup {NoOffer}]]

(* Nothing is sent to a partner before the applicant consented and         *)
(* uploaded every required document, whatever way the application took     *)
(* there: not after requests for more information either.                  *)
PartnerIsEntitled ==
    /\ application.reference # NoReference \/ submissions # {} =>
          application.consent /\ Required \subseteq documents
    /\ application.status = "partner_review" => application.reference \in submissions

(* The status of the application tells the fate of its one offer, and an   *)
(* offer that was answered is not answered again.                          *)
OfferAgrees ==
    /\ \A o, p \in Offers : offers[o] # "absent" /\ offers[p] # "absent" => o = p
    /\ \A s \in {<<"offer_received", "active">>, <<"offer_accepted", "accepted">>,
                 <<"offer_declined", "declined">>} :
          application.status = s[1] <=> \E o \in Offers : offers[o] = s[2]

(* Accepting locks offers after the application, against the order of all  *)
(* other calls, and yet never waits for a call that waits for it.          *)
NobodyWaitsInACircle ==
    \A c, d \in Calls :
        calls[c].step = "both" /\ d # c /\ calls[d].step = "offer"
        => calls[d].offer \notin OtherActive(calls[c].offer)

(* Every change of status follows the declared transitions, but for the    *)
(* hand-off to the partner, which leaves out the review by RealityNG.      *)
FollowsDeclaration ==
    [][application'.status # application.status =>
          \/ application'.status \in ValidTransitions[application.status]
          \/ application.status \in HandsOff /\ application'.status = "partner_review"]_vars

(* Who is to decide on an application is entitled to it, finds its offer   *)
(* as its status says, and gets an answer: the three together.             *)
ApplicationAgrees == PartnerIsEntitled /\ OfferAgrees /\ NobodyWaitsInACircle
=============================================================================
