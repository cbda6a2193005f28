---------------------------- MODULE FinanceProofs ----------------------------
(***************************************************************************)
(* The financing application, for any offers, references, documents and    *)
(* answers in progress, and the parts that MCFinance runs beside it: for   *)
(* any number of webhook deliveries and events, of disputes of a deal and  *)
(* of requests of a user.                                                  *)
(***************************************************************************)
EXTENDS MCFinance, TLAPS

-----------------------------------------------------------------------------
(* The application.  Two facts carry everything: only drafts and what was  *)
(* cancelled can lack consent or documents, and an offer exists only when  *)
(* the application's status says so.  The second makes the offer the only  *)
(* one, since offers are recorded in partner_review alone.                 *)

Entitled == application.consent /\ Required \subseteq documents

CallType == [step : {"idle", "offer", "both"}, answer : {"accept", "decline"},
             offer : Offers \cup {NoOffer}]

(* Everything past a draft was entitled to be submitted. *)
SubmittedIsEntitled ==
    application.status \notin {"draft", "cancelled"} => Entitled

(* Offers and the status of the application; a call that locks both rows   *)
(* is alone and has an active offer.                                       *)
Existing == {o \in Offers : offers[o] # "absent"}

OfferFollowsStatus ==
    /\ Existing # {} =>
          application.status \in {"offer_received", "offer_accepted", "offer_declined"}
    /\ \A c \in Calls : calls[c].step # "idle" => calls[c].offer \in Existing
    /\ \A c \in Calls : calls[c].step = "both" => offers[calls[c].offer] = "active"
    /\ \A c, d \in Calls : calls[c].step = "both" /\ calls[d].step = "both" => c = d

FInv == TypeOK /\ SubmittedIsEntitled /\ PartnerIsEntitled /\ OfferAgrees
        /\ OfferFollowsStatus

LEMMA FInit == Init => FInv
<1> SUFFICES ASSUME Init PROVE FInv
  OBVIOUS
<1>1. TypeOK
  BY DEF Init, TypeOK, ApplicationStatus, OfferStatus, Idle
<1>2. SubmittedIsEntitled /\ PartnerIsEntitled
  BY DEF Init, SubmittedIsEntitled, PartnerIsEntitled
<1>3. OfferAgrees
  BY DEF Init, OfferAgrees
<1>4. OfferFollowsStatus
  BY DEF Init, OfferFollowsStatus, Existing, Idle
<1> QED BY <1>1, <1>2, <1>3, <1>4 DEF FInv

(* One offer leaves no other to be withdrawn. *)
LEMMA NoOther ==
    ASSUME OfferAgrees, NEW o \in Offers, offers[o] # "absent"
    PROVE  OtherActive(o) = {}
BY DEF OfferAgrees, OtherActive

-----------------------------------------------------------------------------
LEMMA FNext == FInv /\ [Next]_vars => FInv'
<1> SUFFICES ASSUME FInv, [Next]_vars PROVE FInv'
  OBVIOUS
<1>a. TypeOK
  BY DEF FInv
<1>1. ASSUME NEW within \in BOOLEAN, UpdateApplication(within) PROVE FInv'
  <2>1. TypeOK' /\ application'.status = application.status
    BY <1>1, <1>a DEF UpdateApplication, Updates, TypeOK
  <2>2. SubmittedIsEntitled' /\ PartnerIsEntitled'
    BY <1>1, <1>a DEF FInv, UpdateApplication, Updates, TypeOK, SubmittedIsEntitled,
       PartnerIsEntitled, Entitled
  <2>3. OfferAgrees' /\ OfferFollowsStatus'
    BY <1>1, <2>1 DEF FInv, UpdateApplication, Updates, OfferAgrees,
       OfferFollowsStatus, Existing
  <2> QED BY <2>1, <2>2, <2>3 DEF FInv
<1>2. ASSUME GrantConsent PROVE FInv'
  <2>1. TypeOK' /\ application'.status = application.status
    BY <1>2, <1>a DEF GrantConsent, Updates, TypeOK
  <2>2. SubmittedIsEntitled' /\ PartnerIsEntitled'
    BY <1>2, <1>a DEF FInv, GrantConsent, Updates, TypeOK, SubmittedIsEntitled,
       PartnerIsEntitled, Entitled
  <2>3. OfferAgrees' /\ OfferFollowsStatus'
    BY <1>2, <2>1 DEF FInv, GrantConsent, Updates, OfferAgrees,
       OfferFollowsStatus, Existing
  <2> QED BY <2>1, <2>2, <2>3 DEF FInv
<1>3. ASSUME NEW type \in Types, UploadDocument(type) PROVE FInv'
  <2>1. TypeOK'
    BY <1>3, <1>a DEF UploadDocument, Updates, TypeOK
  <2>2. SubmittedIsEntitled' /\ PartnerIsEntitled'
    BY <1>3 DEF FInv, UploadDocument, Updates, SubmittedIsEntitled,
       PartnerIsEntitled, Entitled
  <2>3. OfferAgrees' /\ OfferFollowsStatus'
    BY <1>3 DEF FInv, UploadDocument, Updates, OfferAgrees, OfferFollowsStatus, Existing
  <2> QED BY <2>1, <2>2, <2>3 DEF FInv
<1>4. ASSUME SubmitApplication PROVE FInv'
  <2>1. TypeOK' /\ application'.status = "submitted" /\ application.status \in Editable
    BY <1>4, <1>a DEF SubmitApplication, Updates, TypeOK, ApplicationStatus
  <2>2. SubmittedIsEntitled' /\ PartnerIsEntitled'
    BY <1>4, <1>a DEF FInv, SubmitApplication, ValidSubmission, Updates, TypeOK,
       SubmittedIsEntitled, PartnerIsEntitled, Entitled
  <2>3. OfferAgrees' /\ OfferFollowsStatus'
    BY <1>4, <2>1 DEF FInv, SubmitApplication, Updates, Editable, OfferAgrees,
       OfferFollowsStatus, Existing
  <2> QED BY <2>1, <2>2, <2>3 DEF FInv
<1>5. ASSUME NEW next \in Decisions, Decide(next) PROVE FInv'
  <2>1. /\ application' = [application EXCEPT !.status = next]
        /\ UNCHANGED <<documents, submissions, offers, lapsed, calls>>
        /\ next \in ApplicationStatus
    BY <1>5 DEF Decide, Updates, Decisions, ApplicationStatus
  <2>2. /\ next # "partner_review"
        /\ \/ next = application.status
           \/ /\ next \notin {"offer_received", "offer_accepted", "offer_declined"}
              /\ application.status \notin
                   {"offer_received", "offer_accepted", "offer_declined"}
        /\ application.status \in {"draft", "cancelled"} => next \in {"draft", "cancelled"}
    <3>1. next \in Decisions /\ application.status \in ApplicationStatus
      BY <1>5, <1>a DEF TypeOK
    <3>2. next = application.status \/ next \in ValidTransitions[application.status]
      BY <1>5 DEF Decide, Allowed
    <3>3. CASE next = application.status
      BY <3>1, <3>3 DEF Decisions
    <3>4. CASE next \in ValidTransitions[application.status]
      BY <3>1, <3>4 DEF Decisions, ValidTransitions, ApplicationStatus
    <3> QED BY <3>2, <3>3, <3>4
  <2>3. TypeOK'
    BY <2>1, <1>a DEF TypeOK
  <2>4. SubmittedIsEntitled' /\ PartnerIsEntitled'
    BY <2>1, <2>2, <1>a DEF FInv, TypeOK, SubmittedIsEntitled, PartnerIsEntitled, Entitled
  <2>5. OfferAgrees' /\ OfferFollowsStatus'
    BY <2>1, <2>2, <1>a DEF FInv, TypeOK, OfferAgrees, OfferFollowsStatus, Existing
  <2> QED BY <2>3, <2>4, <2>5 DEF FInv
<1>6. ASSUME NEW r \in References, SubmitToPartner(r) PROVE FInv'
  <2>1. /\ application.status \in HandsOff /\ application.consent
        /\ application' = (IF r \in submissions THEN application
                           ELSE [application EXCEPT !.status = "partner_review",
                                                    !.reference = r])
        /\ submissions' = submissions \cup {r}
        /\ UNCHANGED <<documents, offers, lapsed, calls>>
    BY <1>6 DEF SubmitToPartner, Updates
  <2>2. TypeOK'
    BY <2>1, <1>a DEF TypeOK, ApplicationStatus
  <2>3. Entitled /\ Entitled'
    BY <2>1, <1>a DEF FInv, SubmittedIsEntitled, Entitled, HandsOff, TypeOK
  <2>4. SubmittedIsEntitled' /\ PartnerIsEntitled'
    BY <2>1, <2>3, <1>a DEF FInv, TypeOK, SubmittedIsEntitled, PartnerIsEntitled,
       Entitled
  <2>5. OfferAgrees' /\ OfferFollowsStatus'
    BY <2>1, <1>a DEF FInv, TypeOK, HandsOff, OfferAgrees, OfferFollowsStatus, Existing
  <2> QED BY <2>2, <2>4, <2>5 DEF FInv
<1>7. ASSUME NEW o \in Offers, CreateOffer(o) PROVE FInv'
  <2>1. /\ application.status = "partner_review"
        /\ application' = [application EXCEPT !.status = "offer_received"]
        /\ offers' = [offers EXCEPT ![o] = "active"]
        /\ UNCHANGED <<documents, submissions, lapsed, calls>>
    BY <1>7 DEF CreateOffer, Updates, OfferedIn
  <2>2. Existing = {}
    BY <2>1 DEF FInv, OfferFollowsStatus
  <2>3. TypeOK'
    BY <2>1, <1>a DEF TypeOK, ApplicationStatus, OfferStatus
  <2>4. SubmittedIsEntitled' /\ PartnerIsEntitled'
    BY <2>1, <1>a DEF FInv, TypeOK, SubmittedIsEntitled, PartnerIsEntitled, Entitled
  <2>5. OfferAgrees'
    BY <2>1, <2>2, <1>a DEF TypeOK, OfferAgrees, Existing
  <2>6. OfferFollowsStatus'
    BY <2>1, <2>2, <1>a DEF FInv, TypeOK, OfferFollowsStatus, Existing
  <2> QED BY <2>3, <2>4, <2>5, <2>6 DEF FInv
<1>8. ASSUME NEW c \in Calls, NEW o \in Offers, NEW answer \in {"accept", "decline"},
             LockOffer(c, o, answer)
      PROVE  FInv'
  <2>1. /\ offers[o] # "absent"
        /\ calls' = [calls EXCEPT ![c] = [step |-> "offer", answer |-> answer,
                                          offer |-> o]]
        /\ UNCHANGED <<application, documents, submissions, offers, lapsed>>
    BY <1>8 DEF LockOffer, Go
  <2>2. TypeOK'
    BY <2>1, <1>a DEF TypeOK
  <2>3. SubmittedIsEntitled' /\ PartnerIsEntitled' /\ OfferAgrees'
    BY <2>1 DEF FInv, SubmittedIsEntitled, PartnerIsEntitled, Entitled, OfferAgrees
  <2>4. OfferFollowsStatus'
    BY <2>1, <1>a DEF FInv, TypeOK, OfferFollowsStatus, Existing
  <2> QED BY <2>2, <2>3, <2>4 DEF FInv
<1>9. ASSUME NEW c \in Calls, LockApplication(c) PROVE FInv'
  <2>1. /\ calls[c].step = "offer" /\ ~Locked
        /\ UNCHANGED <<application, documents, submissions, offers, lapsed>>
    BY <1>9 DEF LockApplication, Go
  <2>2. CASE Answerable(calls[c].offer, calls[c].answer)
    <3>1. calls' = [calls EXCEPT ![c] = [calls[c] EXCEPT !.step = "both"]]
      BY <1>9, <2>2 DEF LockApplication, Go
    <3>2. TypeOK'
      BY <2>1, <3>1, <1>a DEF TypeOK
    <3>3. SubmittedIsEntitled' /\ PartnerIsEntitled' /\ OfferAgrees'
      BY <2>1 DEF FInv, SubmittedIsEntitled, PartnerIsEntitled, Entitled, OfferAgrees
    <3>4. OfferFollowsStatus'
      BY <2>1, <2>2, <3>1, <1>a DEF FInv, TypeOK, OfferFollowsStatus, Existing,
         Answerable, Locked
    <3> QED BY <3>2, <3>3, <3>4 DEF FInv
  <2>3. CASE ~Answerable(calls[c].offer, calls[c].answer)
    <3>1. calls' = [calls EXCEPT ![c] = Idle]
      BY <1>9, <2>3 DEF LockApplication, Go
    <3>2. TypeOK'
      BY <2>1, <3>1, <1>a DEF TypeOK, Idle
    <3>3. SubmittedIsEntitled' /\ PartnerIsEntitled' /\ OfferAgrees'
      BY <2>1 DEF FInv, SubmittedIsEntitled, PartnerIsEntitled, Entitled, OfferAgrees
    <3>4. OfferFollowsStatus'
      BY <2>1, <3>1, <1>a DEF FInv, TypeOK, OfferFollowsStatus, Existing, Idle
    <3> QED BY <3>2, <3>3, <3>4 DEF FInv
  <2> QED BY <2>2, <2>3
<1>10. ASSUME NEW c \in Calls, AcceptOffer(c) \/ DeclineOffer(c) PROVE FInv'
  <2> DEFINE o == calls[c].offer
  <2>1. o \in Offers /\ offers[o] = "active"
    BY <1>10 DEF FInv, OfferFollowsStatus, Existing, AcceptOffer, DeclineOffer
  <2>2. OtherActive(o) = {}
    BY <2>1, NoOther DEF FInv
  <2>3. PICK s \in {"accepted", "declined"} :
           /\ offers' = [offers EXCEPT ![o] = s]
           /\ application' = [application EXCEPT
                 !.status = IF s = "accepted" THEN "offer_accepted" ELSE "offer_declined"]
    BY <1>10, <2>1, <2>2, <1>a DEF AcceptOffer, DeclineOffer, TypeOK
  <2>4. /\ calls' = [calls EXCEPT ![c] = Idle]
        /\ UNCHANGED <<documents, submissions, lapsed>>
    BY <1>10 DEF AcceptOffer, DeclineOffer, Go
  <2>5. application.status = "offer_received"
    BY <2>1 DEF FInv, OfferAgrees
  <2>6. \A p \in Offers \ {o} : offers[p] = "absent"
    BY <2>1 DEF FInv, OfferAgrees
  <2>7. TypeOK'
    BY <2>1, <2>3, <2>4, <1>a DEF TypeOK, ApplicationStatus, OfferStatus, Idle
  <2>8. SubmittedIsEntitled' /\ PartnerIsEntitled'
    BY <2>3, <2>4, <2>5, <1>a DEF FInv, TypeOK, SubmittedIsEntitled, PartnerIsEntitled,
       Entitled
  <2>9. OfferAgrees'
    BY <2>1, <2>3, <2>6, <1>a DEF TypeOK, OfferAgrees
  <2>10. OfferFollowsStatus'
    <3>1. \A d \in Calls : calls'[d].step # "both"
      BY <1>10, <2>4, <1>a DEF FInv, TypeOK, OfferFollowsStatus, AcceptOffer,
         DeclineOffer, Idle
    <3>2. Existing' = Existing
      BY <2>1, <2>3, <1>a DEF TypeOK, Existing
    <3> QED BY <2>3, <2>4, <3>1, <3>2, <1>a DEF FInv, TypeOK, OfferFollowsStatus, Idle
  <2> QED BY <2>7, <2>8, <2>9, <2>10 DEF FInv
<1>11. ASSUME NEW o \in Offers, Lapse(o) PROVE FInv'
  BY <1>11 DEF FInv, Lapse, TypeOK, SubmittedIsEntitled, PartnerIsEntitled, Entitled,
     OfferAgrees, OfferFollowsStatus, Existing
<1>12. CASE UNCHANGED vars
  BY <1>12 DEF FInv, vars, TypeOK, SubmittedIsEntitled, PartnerIsEntitled, Entitled,
     OfferAgrees, OfferFollowsStatus, Existing
<1> QED BY <1>1, <1>2, <1>3, <1>4, <1>5, <1>6, <1>7, <1>8, <1>9, <1>10, <1>11, <1>12
        DEF Next, Applicant, Administrator

-----------------------------------------------------------------------------
(* The application keeps its inductive invariant, whatever calls overlap.  *)
THEOREM FinancingInvariant == Spec => []FInv
<1> QED BY FInit, FNext, PTL DEF Spec

(* The columns and the calls keep their types. *)
THEOREM FinancingTypeCorrect == Spec => []TypeOK
<1>1. FInv => TypeOK
  BY DEF FInv
<1> QED BY <1>1, FinancingInvariant, PTL

(* Nothing reaches a partner without consent and documents. *)
THEOREM PartnersAreEntitled == Spec => []PartnerIsEntitled
<1>1. FInv => PartnerIsEntitled
  BY DEF FInv
<1> QED BY <1>1, FinancingInvariant, PTL

(* An application has one offer, of which its status tells the fate. *)
THEOREM OffersAgree == Spec => []OfferAgrees
<1>1. FInv => OfferAgrees
  BY DEF FInv
<1> QED BY <1>1, FinancingInvariant, PTL

(* Answers never wait for each other in a circle. *)
THEOREM NoCircle == Spec => []NobodyWaitsInACircle
<1>1. FInv => NobodyWaitsInACircle
  <2> SUFFICES ASSUME FInv, NEW c \in Calls, calls[c].step = "both"
               PROVE  OtherActive(calls[c].offer) = {}
    BY DEF NobodyWaitsInACircle
  <2>1. calls[c].offer \in Offers /\ offers[calls[c].offer] # "absent"
    BY DEF FInv, OfferFollowsStatus, Existing
  <2> QED BY <2>1, NoOther DEF FInv
<1> QED BY <1>1, FinancingInvariant, PTL

(* The three together: who decides is entitled, finds the offer as the     *)
(* status says, and is not kept waiting.                                   *)
THEOREM ApplicationsAgree == Spec => []ApplicationAgrees
BY PartnersAreEntitled, OffersAgree, NoCircle, PTL DEF ApplicationAgrees

(* Every change of status is a declared one, or the hand-off. *)
THEOREM StatusFollowsDeclaration == Spec => FollowsDeclaration
<1> DEFINE Declared == application'.status # application.status =>
             \/ application'.status \in ValidTransitions[application.status]
             \/ application.status \in HandsOff /\ application'.status = "partner_review"
<1>1. FInv /\ [Next]_vars => [Declared]_vars
  <2> SUFFICES ASSUME FInv, Next, application'.status # application.status
               PROVE  Declared
    BY DEF vars
  <2>a. TypeOK
    BY DEF FInv
  <2>1. CASE SubmitApplication
    BY <2>1, <2>a DEF SubmitApplication, Updates, Editable, ValidTransitions, TypeOK
  <2>2. ASSUME NEW next \in Decisions, Decide(next) PROVE Declared
    BY <2>2, <2>a DEF Decide, Allowed, Updates, TypeOK
  <2>3. ASSUME NEW r \in References, SubmitToPartner(r) PROVE Declared
    BY <2>3, <2>a DEF SubmitToPartner, Updates, TypeOK
  <2>4. ASSUME NEW o \in Offers, CreateOffer(o) PROVE Declared
    BY <2>4, <2>a DEF CreateOffer, Updates, OfferedIn, ValidTransitions, TypeOK
  <2>5. ASSUME NEW c \in Calls, AcceptOffer(c) \/ DeclineOffer(c) PROVE Declared
    <3>1. application.status = "offer_received"
      BY <2>5 DEF FInv, OfferFollowsStatus, OfferAgrees, Existing, AcceptOffer, DeclineOffer
    <3> QED BY <2>5, <3>1, <2>a DEF AcceptOffer, DeclineOffer, ValidTransitions, TypeOK
  <2>6. ASSUME NEW within \in BOOLEAN, UpdateApplication(within) PROVE Declared
    BY <2>6, <2>a DEF UpdateApplication, Updates, TypeOK
  <2>7. CASE GrantConsent
    BY <2>7, <2>a DEF GrantConsent, Updates, TypeOK
  <2>8. ASSUME NEW type \in Types, UploadDocument(type) PROVE Declared
    BY <2>8 DEF UploadDocument, Updates
  <2>9. ASSUME NEW c \in Calls, NEW o \in Offers, NEW answer \in {"accept", "decline"},
               LockOffer(c, o, answer) \/ LockApplication(c) \/ Lapse(o)
        PROVE  Declared
    BY <2>9 DEF LockOffer, LockApplication, Lapse
  <2>10. ASSUME NEW c \in Calls, LockApplication(c) PROVE Declared
    BY <2>10 DEF LockApplication
  <2>11. ASSUME NEW o \in Offers, Lapse(o) PROVE Declared
    BY <2>11 DEF Lapse
  <2> QED BY <2>1, <2>2, <2>3, <2>4, <2>5, <2>6, <2>7, <2>8, <2>9, <2>10, <2>11
          DEF Next, Applicant, Administrator
<1> QED BY <1>1, FinancingInvariant, PTL DEF Spec, FollowsDeclaration

-----------------------------------------------------------------------------
(* Webhooks.  A row never loses its signature, so that the signature is    *)
(* what ties all the answers to each other; that a duplicate was delivered *)
(* twice needs to know how often the event of a call in progress was.      *)

Delivery == [step : {"idle", "record", "mark"}, event : Events \cup {NoEvent},
             valid : BOOLEAN]

WebhookInv ==
    /\ Webhooks!TypeOK
    /\ work \in [Calls -> Delivery]
    /\ \A c \in Calls : LET e == work[c].event IN
          work[c].step # "idle" =>
              /\ e \in Events
              /\ deliveries[e] > 0
              /\ work[c].step = "mark" =>
                    ledger[e] # Webhooks!NoRow /\ deliveries[e] > 1
    /\ \A e \in Events :
          /\ ledger[e] # Webhooks!NoRow =>
                ledger[e].signature # "none" /\ deliveries[e] > 0
          /\ "accepted" \in answers[e] => ledger[e].signature = "valid"
          /\ "refused" \in answers[e] => ledger[e].signature = "invalid"
          /\ ledger[e].processing = "duplicate" => deliveries[e] > 1

LEMMA WebhookInit == Webhooks!Init => WebhookInv
BY FinanceAssumption DEF WebhookInv, Webhooks!Init, Webhooks!TypeOK, Webhooks!NoRow, Webhooks!Idle,
       Delivery

LEMMA WebhookReceive ==
    ASSUME WebhookInv, NEW c \in Calls, NEW e \in Events,
           NEW valid \in BOOLEAN, Webhooks!Receive(c, e, valid)
    PROVE  WebhookInv'
BY FinanceAssumption
   DEF WebhookInv, Webhooks!TypeOK, Webhooks!Receive, Delivery

LEMMA WebhookRecord ==
    ASSUME WebhookInv, NEW c \in Calls, Webhooks!Record(c)
    PROVE  WebhookInv'
<1>1. PICK e \in Events : e = work[c].event
  BY DEF WebhookInv, Webhooks!Record
<1>2. PICK a \in {"accepted", "refused", "error"} :
          /\ work' = [work EXCEPT ![c] = Webhooks!Idle]
          /\ answers' = [answers EXCEPT ![e] = @ \cup {a}]
          /\ UNCHANGED deliveries
          /\ IF ledger[e] = Webhooks!NoRow
             THEN /\ ledger' = [ledger EXCEPT ![e] = Webhooks!Recorded(c)]
                  /\ a = Webhooks!Answer(c, Webhooks!Recorded(c))
             ELSE a = "error" /\ UNCHANGED ledger
  BY <1>1 DEF Webhooks!Record, Webhooks!Finish, Webhooks!Answer
<1>3. CASE ledger[e] = Webhooks!NoRow
  <2> DEFINE row == Webhooks!Recorded(c)
  <2>1. \/ row.signature = "valid" /\ row.processing = "received" /\ a = "accepted"
        \/ row.signature = "invalid" /\ row.processing = "failed" /\ a = "refused"
    <3>1. a = IF row.signature = "valid" THEN "accepted" ELSE "refused"
      BY <1>2, <1>3, Zenon DEF Webhooks!Answer
    <3>2. \/ row = [signature |-> "valid", processing |-> "received"]
          \/ row = [signature |-> "invalid", processing |-> "failed"]
      BY Zenon DEF Webhooks!Recorded
    <3> QED
      BY <3>1, <3>2
  <2>2. row \in [signature : {"none", "valid", "invalid"},
                 processing : {"none", "received", "failed", "duplicate"}]
    BY DEF Webhooks!Recorded
  <2>3. ledger' = [ledger EXCEPT ![e] = row]
    BY <1>2, <1>3
  <2>4. deliveries[e] > 0 /\ "accepted" \notin answers[e] /\ "refused" \notin answers[e]
    BY <1>1, <1>3 DEF WebhookInv, Webhooks!Record, Webhooks!NoRow
  <2> HIDE DEF row
  <2>5. Webhooks!TypeOK'
    BY <1>1, <1>2, <2>2, <2>3 DEF WebhookInv, Webhooks!TypeOK
  <2>6. row # Webhooks!NoRow
    BY <2>1 DEF Webhooks!NoRow
  <2>7. \A d \in Events : answers'[d] = IF d = e THEN answers[d] \cup {a} ELSE answers[d]
    BY <1>2 DEF WebhookInv, Webhooks!TypeOK
  <2>8. \A d \in Events : ledger'[d] = IF d = e THEN row ELSE ledger[d]
    BY <2>3 DEF WebhookInv, Webhooks!TypeOK
  <2> QED
    BY <1>1, <1>2, <2>1, <2>4, <2>5, <2>6, <2>7, <2>8
    DEF WebhookInv, Webhooks!Idle, Delivery
<1>4. CASE ledger[e] # Webhooks!NoRow
  BY <1>1, <1>2, <1>4
  DEF WebhookInv, Webhooks!TypeOK, Webhooks!Idle, Webhooks!NoRow, Delivery
<1> QED
  BY <1>3, <1>4

LEMMA WebhookMark ==
    ASSUME WebhookInv, NEW c \in Calls, Webhooks!MarkDuplicate(c)
    PROVE  WebhookInv'
BY DEF WebhookInv, Webhooks!TypeOK, Webhooks!MarkDuplicate, Webhooks!Finish, Webhooks!Idle,
       Webhooks!Answer, Webhooks!NoRow, Delivery

LEMMA WebhookStep == WebhookInv /\ Webhooks!Next => WebhookInv'
BY WebhookReceive, WebhookRecord, WebhookMark DEF Webhooks!Next

-----------------------------------------------------------------------------
(* Deals.  A call in progress carries the evidence for what it will save:  *)
(* proofs, reviews and disputes are never taken back, so what was true of  *)
(* the loaded row is still true of the saved one.                          *)

DealCall ==
    [step : {"idle", "transaction", "milestone", "proof", "dispute"},
     next : {"none", "active", "completed", "cancelled", "milestone"}
            \cup Deals!ReviewerSteps,
     transaction : BOOLEAN, milestone : BOOLEAN,
     older : SUBSET {"transaction", "milestone"}]

DealCalls == work \in [Calls -> DealCall] /\ reviewed \in BOOLEAN

MilestoneEvidence ==
    /\ milestone \notin {"absent", "pending", "cancelled"} => proofs
    /\ milestone \in {"under_review", "accepted", "rejected", "disputed"} => reviewed

CarriesEvidence(c) ==
    /\ work[c].step = "transaction" => work[c].next \in {"active", "completed", "cancelled"}
    /\ work[c].step = "milestone" =>
          /\ work[c].next \in Deals!ReviewerSteps
          /\ proofs
          /\ work[c].next \in {"accepted", "rejected"} => reviewed
    /\ work[c].step = "dispute" /\ work[c].milestone =>
          proofs /\ reviewed /\ work[c].next = "milestone"

DisputesAreFiled ==
    /\ transaction = "disputed" => \E d \in Disputes : disputes[d] # Deals!NoDispute
    /\ milestone = "disputed" => \E d \in Disputes : disputes[d].milestone

DealInv ==
    /\ Deals!TypeOK
    /\ DealCalls
    /\ MilestoneEvidence
    /\ DisputesAreFiled
    /\ \A c \in Calls : CarriesEvidence(c)

(* A call still finds the rows that it loaded and nobody saved since.      *)
TransactionLoaded(c) ==
    "transaction" \notin work[c].older =>
        /\ work[c].step = "transaction" => Deals!TransactionCan(work[c].next)
        /\ work[c].step = "dispute" /\ work[c].transaction => Deals!TransactionCan("disputed")

MilestoneLoaded(c) ==
    "milestone" \notin work[c].older =>
        /\ work[c].step = "milestone" => Deals!MilestoneCan(work[c].next)
        /\ work[c].step = "proof" => milestone \in {"pending", "rejected"}
        /\ work[c].step = "dispute" /\ work[c].milestone => Deals!MilestoneCan("disputed")

StillLoaded == \A c \in Calls : TransactionLoaded(c) /\ MilestoneLoaded(c)

LEMMA DealInit == Deals!Init => DealInv /\ StillLoaded
<1> SUFFICES ASSUME Deals!Init PROVE DealInv /\ StillLoaded
  OBVIOUS
<1> USE DEF Deals!Init
<1>1. Deals!TypeOK
  BY DEF Deals!TypeOK, Deals!NoDispute, Deals!DisputeStatus,
         Deals!TransactionTransitions, Deals!MilestoneTransitions
<1>2. DealCalls /\ \A c \in Calls : CarriesEvidence(c)
  BY DEF DealCalls, DealCall, Deals!Idle, CarriesEvidence
<1>3. MilestoneEvidence /\ DisputesAreFiled
  BY DEF MilestoneEvidence, DisputesAreFiled
<1>4. StillLoaded
  BY DEF StillLoaded, TransactionLoaded, MilestoneLoaded, Deals!Idle
<1> QED
  BY <1>1, <1>2, <1>3, <1>4 DEF DealInv

(* A call begins and has the rows as they are.                             *)
LEMMA DealBegin ==
    ASSUME DealInv, StillLoaded, NEW c \in Calls, NEW loaded \in DealCall,
           loaded.step # "idle", Deals!Begin(c, loaded),
           /\ loaded.step = "transaction" => Deals!TransactionCan(loaded.next)
                                             /\ loaded.next # "disputed"
           /\ loaded.step = "milestone" => Deals!MilestoneCan(loaded.next)
                                           /\ loaded.next \in Deals!ReviewerSteps
           /\ loaded.step = "proof" => milestone \in {"pending", "rejected"}
           /\ loaded.step = "dispute" =>
                 /\ loaded.transaction => Deals!TransactionCan("disputed")
                 /\ loaded.milestone => Deals!MilestoneCan("disputed")
                                        /\ loaded.next = "milestone"
    PROVE  DealInv' /\ StillLoaded'
<1>1. /\ UNCHANGED <<transaction, milestone, proofs, disputes, reviewed>>
      /\ work' = [work EXCEPT ![c] = loaded]
      /\ work[c] = Deals!Idle
  BY DEF Deals!Begin
<1>2. Deals!TypeOK' /\ MilestoneEvidence' /\ DisputesAreFiled' /\ DealCalls'
  BY <1>1 DEF DealInv, Deals!TypeOK, MilestoneEvidence, DisputesAreFiled, DealCalls
<1>3. \A d \in Calls : CarriesEvidence(d)'
  <2>1. \A d \in Calls \ {c} : CarriesEvidence(d)'
    BY <1>1 DEF DealInv, CarriesEvidence, DealCalls
  <2>2. CarriesEvidence(c)'
    BY <1>1 DEF DealInv, CarriesEvidence, DealCalls, MilestoneEvidence, Deals!MilestoneCan,
       Deals!TransactionCan, Deals!MilestoneTransitions, Deals!TransactionTransitions,
       Deals!ReviewerSteps, Deals!TypeOK
  <2> QED
    BY <2>1, <2>2
<1>4. StillLoaded'
  <2>1. \A d \in Calls \ {c} : work'[d] = work[d]
    BY <1>1 DEF DealInv, DealCalls
  <2>2. work'[c] = loaded
    BY <1>1 DEF DealInv, DealCalls
  <2> QED
    BY <1>1, <2>1, <2>2
    DEF StillLoaded, TransactionLoaded, MilestoneLoaded, Deals!TransactionCan,
        Deals!MilestoneCan
<1> QED
  BY <1>2, <1>3, <1>4 DEF DealInv

(* A call ends.  Evidence does not go away, and who loaded a row that      *)
(* another row has replaced is marked.                                     *)
LEMMA DealEnds ==
    ASSUME DealInv, StillLoaded, NEW c \in Calls,
           NEW step \in {"transaction", "milestone", "proof", "dispute"},
           NEW written \in SUBSET {"transaction", "milestone"},
           Deals!Ends(c, step, written),
           "transaction" \in written \/ transaction' = transaction,
           "milestone" \in written \/ milestone' = milestone,
           proofs => proofs', reviewed => reviewed', reviewed' \in BOOLEAN
    PROVE  /\ DealCalls'
           /\ \A d \in Calls : CarriesEvidence(d)'
           /\ StillLoaded'
<1>1. /\ work' = [d \in Calls |-> IF d = c THEN Deals!Idle ELSE Deals!Outdated(d, written)]
      /\ work[c].step = step
  BY DEF Deals!Ends
<1>2. Deals!Idle \in DealCall
  BY DEF Deals!Idle, DealCall
<1>3. work \in [Calls -> DealCall]
  BY DEF DealInv, DealCalls
<1>4. \A d \in Calls : Deals!Outdated(d, written) \in DealCall
  BY <1>2, <1>3 DEF Deals!Outdated, DealCall
<1>5. DealCalls'
  BY <1>1, <1>2, <1>4 DEF DealCalls
<1>6. work'[c] = Deals!Idle
  BY <1>1
<1>7. ASSUME NEW d \in Calls \ {c}
      PROVE  \/ work'[d] = Deals!Idle
             \/ /\ work'[d].step = work[d].step
                /\ work'[d].next = work[d].next
                /\ work'[d].transaction = work[d].transaction
                /\ work'[d].milestone = work[d].milestone
                /\ work'[d].older = work[d].older \cup written
  <2>1. work'[d] = Deals!Outdated(d, written) /\ work[d] \in DealCall
    BY <1>1, <1>3
  <2> QED
    BY <2>1 DEF Deals!Outdated, DealCall
<1>8. \A d \in Calls : CarriesEvidence(d)'
  BY <1>6, <1>7 DEF DealInv, CarriesEvidence, Deals!Idle
<1>9. StillLoaded'
  <2> SUFFICES ASSUME NEW d \in Calls PROVE TransactionLoaded(d)' /\ MilestoneLoaded(d)'
    BY DEF StillLoaded
  <2>1. CASE work'[d] = Deals!Idle
    BY <2>1 DEF TransactionLoaded, MilestoneLoaded, Deals!Idle
  <2>2. CASE work'[d] # Deals!Idle
    <3>1. TransactionLoaded(d)'
      BY <1>6, <1>7, <2>2 DEF StillLoaded, TransactionLoaded, Deals!TransactionCan
    <3>2. MilestoneLoaded(d)'
      BY <1>6, <1>7, <2>2 DEF StillLoaded, MilestoneLoaded, Deals!MilestoneCan
    <3> QED
      BY <3>1, <3>2
  <2> QED
    BY <2>1, <2>2
<1> QED
  BY <1>5, <1>8, <1>9

LEMMA DealStep ==
    ASSUME DealInv, StillLoaded, Deals!Next
    PROVE  DealInv' /\ StillLoaded'
<1> USE DEF DealInv
<1>1. CASE Deals!CreateMilestone
  <2> USE <1>1 DEF Deals!CreateMilestone
  <2>1. Deals!TypeOK' /\ DealCalls'
    BY DEF Deals!TypeOK, Deals!MilestoneTransitions, DealCalls
  <2>2. MilestoneEvidence' /\ DisputesAreFiled' /\ \A c \in Calls : CarriesEvidence(c)'
    BY DEF MilestoneEvidence, DisputesAreFiled, CarriesEvidence
  <2>3. StillLoaded'
    BY DEF StillLoaded, TransactionLoaded, MilestoneLoaded, Deals!TransactionCan,
           Deals!MilestoneCan, Deals!MilestoneTransitions
  <2> QED
    BY <2>1, <2>2, <2>3
<1>2. ASSUME NEW d \in Disputes, NEW next \in {"resolved", "closed"},
             Deals!ResolveDispute(d, next)
      PROVE  DealInv' /\ StillLoaded'
  <2> USE <1>2 DEF Deals!ResolveDispute
  <2>1. Deals!TypeOK' /\ DealCalls'
    BY DEF Deals!TypeOK, Deals!DisputeStatus, DealCalls
  <2>2. \A o \in Disputes : /\ disputes'[o].milestone = disputes[o].milestone
                            /\ disputes[o] # Deals!NoDispute =>
                                  disputes'[o] # Deals!NoDispute
    BY DEF Deals!TypeOK, Deals!NoDispute
  <2>3. MilestoneEvidence' /\ DisputesAreFiled' /\ \A c \in Calls : CarriesEvidence(c)'
    BY <2>2 DEF MilestoneEvidence, DisputesAreFiled, CarriesEvidence
  <2>4. StillLoaded'
    BY DEF StillLoaded, TransactionLoaded, MilestoneLoaded, Deals!TransactionCan,
           Deals!MilestoneCan
  <2> QED
    BY <2>1, <2>3, <2>4
<1>3. ASSUME NEW c \in Calls, NEW next \in {"active", "completed", "cancelled"},
             Deals!BeginTransaction(c, next)
      PROVE  DealInv' /\ StillLoaded'
  <2>1. [Deals!Idle EXCEPT !.step = "transaction", !.next = next] \in DealCall
    BY DEF Deals!Idle, DealCall, Deals!ReviewerSteps
  <2> QED
    BY <1>3, <2>1, DealBegin DEF Deals!BeginTransaction, Deals!Idle
<1>4. ASSUME NEW c \in Calls, NEW next \in Deals!ReviewerSteps, Deals!BeginMilestone(c, next)
      PROVE  DealInv' /\ StillLoaded'
  <2>1. [Deals!Idle EXCEPT !.step = "milestone", !.next = next] \in DealCall
    BY DEF Deals!Idle, DealCall
  <2> QED
    BY <1>4, <2>1, DealBegin DEF Deals!BeginMilestone, Deals!Idle
<1>5. ASSUME NEW c \in Calls, Deals!BeginProof(c)
      PROVE  DealInv' /\ StillLoaded'
  <2>1. [Deals!Idle EXCEPT !.step = "proof"] \in DealCall
    BY DEF Deals!Idle, DealCall
  <2> QED
    BY <1>5, <2>1, DealBegin DEF Deals!BeginProof, Deals!Idle
<1>6. ASSUME NEW c \in Calls, NEW about \in BOOLEAN, Deals!BeginDispute(c, about)
      PROVE  DealInv' /\ StillLoaded'
  <2>1. Deals!Dispute(about) \in DealCall
    <3>1. /\ Deals!TransactionCan("disputed") \in BOOLEAN
          /\ (about /\ Deals!MilestoneCan("disputed")) \in BOOLEAN
          /\ (IF about THEN "milestone" ELSE "none") \in {"none", "milestone"}
      BY DEF Deals!TransactionCan
    <3> HIDE DEF DealInv
    <3> QED
      BY <3>1 DEF Deals!Dispute, Deals!Idle, DealCall
  <2>2. /\ Deals!Dispute(about).step = "dispute"
        /\ Deals!Dispute(about).transaction => Deals!TransactionCan("disputed")
        /\ Deals!Dispute(about).milestone =>
              Deals!MilestoneCan("disputed") /\ Deals!Dispute(about).next = "milestone"
    BY DEF Deals!Dispute, Deals!Idle
  <2> QED
    BY <1>6, <2>1, <2>2, DealBegin DEF Deals!BeginDispute
<1>7. ASSUME NEW c \in Calls, Deals!SaveTransaction(c)
      PROVE  DealInv' /\ StillLoaded'
  <2> USE <1>7 DEF Deals!SaveTransaction
  <2>1. work[c].step = "transaction" /\ work[c].next \in {"active", "completed", "cancelled"}
    BY DEF Deals!Ends, CarriesEvidence
  <2>2. Deals!TypeOK' /\ MilestoneEvidence' /\ DisputesAreFiled'
    BY <2>1 DEF Deals!TypeOK, Deals!TransactionTransitions, MilestoneEvidence,
                DisputesAreFiled
  <2>3. reviewed' \in BOOLEAN
    BY DEF DealCalls
  <2> QED
    BY <2>2, <2>3, DealEnds
<1>8. ASSUME NEW c \in Calls, Deals!SaveMilestone(c)
      PROVE  DealInv' /\ StillLoaded'
  <2> USE <1>8 DEF Deals!SaveMilestone
  <2>1. /\ work[c].step = "milestone"
        /\ work[c].next \in {"under_review", "accepted", "rejected", "cancelled"}
        /\ work[c].next # "cancelled" => proofs
        /\ work[c].next \in {"accepted", "rejected"} => reviewed
    BY DEF Deals!Ends, CarriesEvidence, Deals!ReviewerSteps
  <2>2. Deals!TypeOK'
    BY <2>1 DEF Deals!TypeOK, Deals!MilestoneTransitions
  <2>3. MilestoneEvidence'
    BY <2>1 DEF MilestoneEvidence
  <2>4. DisputesAreFiled'
    BY <2>1 DEF DisputesAreFiled
  <2>5. reviewed' \in BOOLEAN /\ (reviewed => reviewed')
    BY DEF DealCalls
  <2> QED
    BY <2>2, <2>3, <2>4, <2>5, DealEnds
<1>9. ASSUME NEW c \in Calls, Deals!SaveProof(c)
      PROVE  DealInv' /\ StillLoaded'
  <2> USE <1>9 DEF Deals!SaveProof
  <2>1. Deals!TypeOK' /\ MilestoneEvidence' /\ DisputesAreFiled'
    BY DEF Deals!TypeOK, Deals!MilestoneTransitions, MilestoneEvidence, DisputesAreFiled
  <2>2. reviewed' \in BOOLEAN
    BY DEF DealCalls
  <2> QED
    BY <2>1, <2>2, DealEnds
<1>10. ASSUME NEW c \in Calls, Deals!SaveDispute(c)
       PROVE  DealInv' /\ StillLoaded'
  <2> USE <1>10 DEF Deals!SaveDispute
  <2>1. PICK d \in Disputes :
          /\ disputes[d] = Deals!NoDispute
          /\ disputes' = [disputes EXCEPT
                             ![d] = [status |-> "open",
                                     milestone |-> work[c].next = "milestone"]]
    OBVIOUS
  <2>2. Deals!TypeOK'
    BY <2>1 DEF Deals!TypeOK, Deals!DisputeStatus, Deals!TransactionTransitions,
                Deals!MilestoneTransitions
  <2>3. MilestoneEvidence'
    BY DEF MilestoneEvidence, CarriesEvidence, Deals!Ends
  <2>4. /\ disputes'[d] # Deals!NoDispute
        /\ disputes'[d].milestone = (work[c].next = "milestone")
        /\ \A o \in Disputes \ {d} : disputes'[o] = disputes[o]
        /\ ~disputes[d].milestone
    BY <2>1 DEF Deals!TypeOK, Deals!NoDispute
  <2>5. DisputesAreFiled'
    BY <2>4 DEF DisputesAreFiled, CarriesEvidence, Deals!Ends
  <2>6. reviewed' \in BOOLEAN
    BY DEF DealCalls
  <2>7. /\ Deals!Marked(c) \in SUBSET {"transaction", "milestone"}
        /\ work[c].transaction => "transaction" \in Deals!Marked(c)
        /\ work[c].milestone => "milestone" \in Deals!Marked(c)
    BY DEF Deals!Marked
  <2> QED
    BY <2>2, <2>3, <2>5, <2>6, <2>7, DealEnds
<1> QED
  BY <1>1, <1>2, <1>3, <1>4, <1>5, <1>6, <1>7, <1>8, <1>9, <1>10 DEF Deals!Next

(* What a call saves over the row that it loaded, the transitions allow.   *)
LEMMA DealsStay ==
    ASSUME DealInv, StillLoaded, Deals!Next
    PROVE  Deals!DeclaredUnlessOlder
<1> DEFINE TransactionMoves(c) ==
               \/ transaction' = transaction
               \/ transaction' \in Deals!TransactionTransitions[transaction]
               \/ "transaction" \in work[c].older
           MilestoneMoves(c) ==
               \/ milestone' = milestone
               \/ milestone' \in Deals!MilestoneTransitions[milestone]
               \/ "milestone" \in work[c].older
<1>1. ASSUME NEW c \in Calls, NEW step, NEW written, Deals!Ends(c, step, written)
      PROVE  /\ TransactionLoaded(c) /\ MilestoneLoaded(c)
             /\ work[c].step = step
             /\ work'[c] = Deals!Idle
  BY <1>1 DEF Deals!Ends, StillLoaded
<1>2. ASSUME NEW c \in Calls, Deals!SaveTransaction(c)
      PROVE  TransactionMoves(c) /\ MilestoneMoves(c) /\ work'[c] = Deals!Idle
  BY <1>1, <1>2 DEF Deals!SaveTransaction, TransactionLoaded, Deals!TransactionCan
<1>3. ASSUME NEW c \in Calls, Deals!SaveMilestone(c)
      PROVE  TransactionMoves(c) /\ MilestoneMoves(c) /\ work'[c] = Deals!Idle
  BY <1>1, <1>3 DEF Deals!SaveMilestone, MilestoneLoaded, Deals!MilestoneCan
<1>4. ASSUME NEW c \in Calls, Deals!SaveProof(c)
      PROVE  TransactionMoves(c) /\ MilestoneMoves(c) /\ work'[c] = Deals!Idle
  BY <1>1, <1>4 DEF Deals!SaveProof, MilestoneLoaded, Deals!MilestoneTransitions
<1>5. ASSUME NEW c \in Calls, Deals!SaveDispute(c)
      PROVE  TransactionMoves(c) /\ MilestoneMoves(c) /\ work'[c] = Deals!Idle
  BY <1>1, <1>5 DEF Deals!SaveDispute, TransactionLoaded, MilestoneLoaded,
                    Deals!TransactionCan, Deals!MilestoneCan
<1>6. CASE UNCHANGED transaction /\ (UNCHANGED milestone \/ milestone = "absent")
  BY <1>6 DEF Deals!DeclaredUnlessOlder
<1>7. CASE \E c \in Calls : TransactionMoves(c) /\ MilestoneMoves(c) /\ work'[c] = Deals!Idle
  BY <1>7 DEF Deals!DeclaredUnlessOlder, Deals!ByOlder
<1> QED
  BY <1>2, <1>3, <1>4, <1>5, <1>6, <1>7
  DEF Deals!Next, Deals!CreateMilestone, Deals!ResolveDispute, Deals!BeginTransaction,
      Deals!BeginMilestone, Deals!BeginProof, Deals!BeginDispute, Deals!Begin

-----------------------------------------------------------------------------
(* A user.  What every call carries from its beginning is part of its      *)
(* type; what holds only of a call that nobody disturbs says that it saves *)
(* what is there already, or what follows from it.                         *)

By == {"nobody", "user", "administrator"}
Account == [suspended : BOOLEAN, password : Identity!Passwords]
RoleRow == [status : {"absent", "pending", "approved", "rejected"}, by : By]
VerificationRow ==
    {row \in [status : DOMAIN Identity!ValidVerification \cup {"absent"}, by : By,
              reviewed : BOOLEAN] :
        row.status = "absent" => row.by = "nobody" /\ ~row.reviewed}

ApprovedByOther(row) == row.status = "approved" => row.by = "administrator"

PersonCall ==
    {call \in [step : {"idle", "profile", "reset", "role", "decide_role", "update",
                       "resubmit", "stamp", "decide"},
               row : Rows \cup {"none"}, next : Identity!Decisions \cup {"none"}, by : By,
               account : Account, verification : VerificationRow] :
        /\ call.step \in {"decide_role", "update", "resubmit", "stamp", "decide"} =>
              call.row \in Rows
        /\ call.step \in {"decide_role", "decide"} =>
              call.by = "administrator" /\ call.next \in Identity!Decisions
        /\ call.step = "decide_role" => call.next \in {"approved", "rejected"}
        /\ call.step = "update" => ApprovedByOther(call.verification)}

PersonTypes ==
    /\ account \in Account /\ decreed \in Account
    /\ links \subseteq Identity!Passwords
    /\ followed \in [Identity!Passwords -> Nat]
    /\ roles \in [Rows -> RoleRow]
    /\ verifications \in [Rows -> VerificationRow]
    /\ automatic \in BOOLEAN
    /\ work \in [Calls -> PersonCall]
    /\ overlapped \in BOOLEAN

RequestsInv == Identity!OneOpenRequest /\ Identity!OthersDecide

Reviewed(row) ==
    /\ row.status = "pending" => ~row.reviewed
    /\ row.status \in Identity!Decisions => row.reviewed

(* No link to the present password was followed, no older one twice.       *)
LinksWorkOnce ==
    \A p \in Identity!Passwords : followed[p] <= IF p < account.password THEN 1 ELSE 0

Stamping(r) == \E c \in Calls : work[c].step = "stamp" /\ work[c].row = r

AloneInCall ==
    /\ \A c, d \in Calls : work[c].step # "idle" /\ work[d].step # "idle" => c = d
    /\ \A c \in Calls : work[c].step = "idle" => work[c] = Identity!Idle

Undisturbed ==
    ~overlapped =>
        /\ AloneInCall
        /\ account = decreed
        /\ LinksWorkOnce
        /\ \A c \in Calls :
              /\ work[c].step = "profile" => work[c].account = account
              /\ work[c].step = "reset" => work[c].account.password = account.password
              /\ work[c].step = "update" => Reviewed(work[c].verification)
              /\ work[c].step = "stamp" => verifications[work[c].row].status = "pending"
        /\ \A r \in Rows : ~Stamping(r) => Reviewed(verifications[r])

PersonInv == PersonTypes /\ RequestsInv /\ Undisturbed

LEMMA IdleIsACall == Identity!Idle \in PersonCall /\ Identity!Idle.step = "idle"
BY FinanceAssumption
   DEF Identity!Idle, PersonCall, By, Account, Identity!Passwords, VerificationRow,
       Identity!NoVerification, Identity!ValidVerification

LEMMA PersonInit == Identity!Init => PersonInv
<1> SUFFICES ASSUME Identity!Init PROVE PersonInv
  OBVIOUS
<1> USE FinanceAssumption DEF Identity!Init
<1>1. PersonTypes
  <2>1. Identity!NoRole \in RoleRow /\ Identity!NoVerification \in VerificationRow
    BY DEF RoleRow, VerificationRow, By, Identity!NoRole, Identity!NoVerification
  <2>2. account \in Account /\ decreed \in Account
    BY DEF Account, Identity!Passwords
  <2> QED
    BY <2>1, <2>2, IdleIsACall DEF PersonTypes
<1>2. RequestsInv
  BY DEF RequestsInv, Identity!OneOpenRequest, Identity!OthersDecide, Identity!NoRole,
         Identity!NoVerification, Identity!OpenRole, Identity!ActiveVerification
<1>3. Undisturbed
  BY DEF Undisturbed, AloneInCall, LinksWorkOnce, Stamping, Reviewed, Identity!Idle,
         Identity!NoVerification, Identity!Decisions, Identity!Passwords
<1> QED
  BY <1>1, <1>2, <1>3 DEF PersonInv

LEMMA PersonBegin ==
    ASSUME PersonInv, NEW c \in Calls, NEW loaded \in PersonCall, Identity!Begin(c, loaded),
           loaded.step \notin {"idle", "stamp"},
           loaded.step = "profile" => loaded.account = account,
           loaded.step = "reset" => loaded.account.password = account.password,
           loaded.step = "update" => loaded.verification = verifications[loaded.row]
    PROVE  PersonInv'
<1>1. /\ work' = [work EXCEPT ![c] = loaded]
      /\ UNCHANGED <<account, decreed, links, followed, roles, verifications, automatic>>
      /\ work[c] = Identity!Idle
      /\ overlapped' = (overlapped \/ \E d \in Calls : work[d] # Identity!Idle)
  BY DEF Identity!Begin, Identity!Notice, Identity!person
<1>2. PersonTypes'
  BY <1>1 DEF PersonInv, PersonTypes
<1>3. RequestsInv'
  BY <1>1 DEF PersonInv, RequestsInv, Identity!OneOpenRequest, Identity!OthersDecide
<1>4. Undisturbed'
  <2> SUFFICES ASSUME ~overlapped' PROVE Undisturbed'
    BY DEF Undisturbed
  <2>1. ~overlapped /\ \A d \in Calls : work[d] = Identity!Idle
    BY <1>1
  <2>2. /\ work'[c] = loaded
        /\ \A d \in Calls \ {c} : work'[d] = Identity!Idle
    BY <1>1, <2>1 DEF PersonInv, PersonTypes
  <2>3. \A r \in Rows : ~Stamping(r) /\ Reviewed(verifications[r])
    BY <2>1, IdleIsACall DEF PersonInv, Undisturbed, Stamping
  <2>4. loaded.step = "update" => Reviewed(loaded.verification)
    BY <2>3 DEF PersonCall
  <2>5. AloneInCall'
    BY <2>2, IdleIsACall DEF AloneInCall
  <2>6. account' = decreed' /\ LinksWorkOnce'
    BY <1>1 DEF PersonInv, Undisturbed, LinksWorkOnce
  <2>7. \A d \in Calls :
           /\ work'[d].step = "profile" => work'[d].account = account'
           /\ work'[d].step = "reset" => work'[d].account.password = account'.password
           /\ work'[d].step = "update" => Reviewed(work'[d].verification)
           /\ work'[d].step = "stamp" => verifications'[work'[d].row].status = "pending"
    BY <1>1, <2>2, <2>4, IdleIsACall
  <2>8. \A r \in Rows : Reviewed(verifications'[r])
    BY <1>1, <2>3
  <2> QED
    BY <2>5, <2>6, <2>7, <2>8 DEF Undisturbed, Reviewed
<1> QED
  BY <1>2, <1>3, <1>4 DEF PersonInv

(* A call that ends, when nobody disturbed it, leaves nobody behind.       *)
LEMMA PersonGo ==
    ASSUME PersonInv, NEW c \in Calls, NEW from, from # "idle", Identity!Go(c, from, "idle")
    PROVE  /\ work' \in [Calls -> PersonCall]
           /\ UNCHANGED <<automatic, overlapped>>
           /\ work[c].step = from
           /\ ~overlapped' => /\ \A d \in Calls : work'[d] = Identity!Idle
                              /\ \A d \in Calls \ {c} : work[d] = Identity!Idle
<1>1. /\ work' = [work EXCEPT ![c] = Identity!Idle]
      /\ UNCHANGED <<automatic, overlapped>>
      /\ work[c].step = from
  BY DEF Identity!Go
<1>2. \A d \in Calls : work'[d] = IF d = c THEN Identity!Idle ELSE work[d]
  BY <1>1 DEF PersonInv, PersonTypes
<1>3. ~overlapped => \A d \in Calls \ {c} : work[d] = Identity!Idle
  BY <1>1 DEF PersonInv, Undisturbed, AloneInCall
<1> QED
  BY <1>1, <1>2, <1>3, IdleIsACall DEF PersonInv, PersonTypes

(* What is left to show when all calls are idle.                           *)
LEMMA AllIdle ==
    ASSUME ~overlapped' => /\ \A d \in Calls : work'[d] = Identity!Idle
                           /\ account' = decreed' /\ LinksWorkOnce'
                           /\ \A r \in Rows : Reviewed(verifications'[r])
    PROVE  Undisturbed'
BY IdleIsACall DEF Undisturbed, AloneInCall, Reviewed

LEMMA RolesFit ==
    ASSUME PersonInv, NEW r \in Rows, NEW row \in RoleRow, Identity!SaveRole(r, row),
           row.status = "approved" /\ ~automatic => row.by = "administrator",
           UNCHANGED <<verifications, automatic>>
    PROVE  RequestsInv' /\ roles' \in [Rows -> RoleRow]
<1> USE DEF PersonInv, PersonTypes
<1>1. CASE Identity!RoleFits(r, row.status)
  <2>1. roles' = [roles EXCEPT ![r] = row]
    BY <1>1 DEF Identity!SaveRole
  <2>2. row.status \in Identity!OpenRole =>
          \A s \in Rows \ {r} : roles[s].status \notin Identity!OpenRole
    BY <1>1 DEF Identity!RoleFits, Identity!OpenRoles
  <2> QED
    BY <2>1, <2>2 DEF RequestsInv, Identity!OneOpenRequest, Identity!OthersDecide
<1>2. CASE ~Identity!RoleFits(r, row.status)
  BY <1>2 DEF Identity!SaveRole, RequestsInv, Identity!OneOpenRequest, Identity!OthersDecide
<1> QED
  BY <1>1, <1>2

LEMMA VerificationsFit ==
    ASSUME PersonInv, NEW r \in Rows, NEW row \in VerificationRow,
           Identity!SaveVerification(r, row), ApprovedByOther(row),
           UNCHANGED <<roles, automatic>>
    PROVE  /\ RequestsInv'
           /\ verifications' \in [Rows -> VerificationRow]
           /\ verifications'[r] = IF Identity!Fits(r, row.status) THEN row
                                  ELSE verifications[r]
           /\ \A s \in Rows \ {r} : verifications'[s] = verifications[s]
<1> USE DEF PersonInv, PersonTypes
<1>1. CASE Identity!Fits(r, row.status)
  <2>1. verifications' = [verifications EXCEPT ![r] = row]
    BY <1>1 DEF Identity!SaveVerification
  <2>2. row.status \in Identity!ActiveVerification =>
          \A s \in Rows \ {r} : verifications[s].status \notin Identity!ActiveVerification
    BY <1>1 DEF Identity!Fits
  <2> QED
    BY <1>1, <2>1, <2>2
    DEF RequestsInv, Identity!OneOpenRequest, Identity!OthersDecide, ApprovedByOther
<1>2. CASE ~Identity!Fits(r, row.status)
  BY <1>2
  DEF Identity!SaveVerification, RequestsInv, Identity!OneOpenRequest, Identity!OthersDecide
<1> QED
  BY <1>1, <1>2

(* A row of which the decision is not touched.                             *)
LEMMA VerificationMoves ==
    ASSUME PersonInv, NEW r \in Rows, NEW row \in VerificationRow,
           verifications' = [verifications EXCEPT ![r] = row],
           row.status \in Identity!ActiveVerification =>
               verifications[r].status \in Identity!ActiveVerification,
           ApprovedByOther(row), UNCHANGED <<roles, automatic>>
    PROVE  RequestsInv' /\ verifications' \in [Rows -> VerificationRow]
BY DEF PersonInv, PersonTypes, RequestsInv, Identity!OneOpenRequest, Identity!OthersDecide,
       ApprovedByOther

LEMMA AccountStep ==
    ASSUME PersonInv,
           \/ Identity!ForgotPassword
           \/ \E suspended \in BOOLEAN : Identity!Suspend(suspended)
           \/ \E c \in Calls : Identity!Accounting(c)
    PROVE  PersonInv'
<1> USE DEF Account, Identity!Passwords
<1>0. ASSUME UNCHANGED <<roles, verifications, automatic>>
      PROVE  RequestsInv'
  BY <1>0 DEF PersonInv, RequestsInv, Identity!OneOpenRequest, Identity!OthersDecide
<1>1. CASE Identity!ForgotPassword
  <2> USE <1>1 DEF Identity!ForgotPassword
  <2>1. PersonTypes'
    BY DEF PersonInv, PersonTypes
  <2>2. Undisturbed'
    BY DEF PersonInv, Undisturbed, AloneInCall, LinksWorkOnce, Stamping, Reviewed
  <2> QED
    BY <1>0, <2>1, <2>2 DEF PersonInv
<1>2. ASSUME NEW suspended \in BOOLEAN, Identity!Suspend(suspended)
      PROVE  PersonInv'
  <2> USE <1>2 DEF Identity!Suspend, Identity!Notice
  <2>1. PersonTypes'
    BY DEF PersonInv, PersonTypes
  <2>2. ~overlapped' => /\ ~overlapped
                        /\ \A d \in Calls : work'[d] = Identity!Idle
                        /\ \A d \in Calls : work[d] = Identity!Idle
    OBVIOUS
  <2>3. ~overlapped' => account' = decreed' /\ LinksWorkOnce'
    BY <2>2 DEF PersonInv, PersonTypes, Undisturbed, LinksWorkOnce
  <2>4. ~overlapped' => \A r \in Rows : Reviewed(verifications'[r])
    BY <2>2, IdleIsACall DEF PersonInv, Undisturbed, Stamping
  <2> QED
    BY <1>0, <2>1, <2>2, <2>3, <2>4, AllIdle DEF PersonInv
<1>3. ASSUME NEW c \in Calls, Identity!BeginProfile(c)
      PROVE  PersonInv'
  <2>1. [Identity!Idle EXCEPT !.step = "profile", !.account = account] \in PersonCall
    BY IdleIsACall DEF PersonCall, PersonInv, PersonTypes
  <2> QED
    BY <1>3, <2>1, PersonBegin DEF Identity!BeginProfile, Identity!BeginOwn, Identity!Idle
<1>4. ASSUME NEW c \in Calls, NEW link \in Identity!Passwords, Identity!BeginReset(c, link)
      PROVE  PersonInv'
  <2>1. [Identity!Idle EXCEPT !.step = "reset", !.account.password = link] \in PersonCall
    BY IdleIsACall DEF PersonCall
  <2> QED
    BY <1>4, <2>1, PersonBegin DEF Identity!BeginReset, Identity!CheckToken, Identity!Idle
<1>5. ASSUME NEW c \in Calls, Identity!UpdateProfile(c)
      PROVE  PersonInv'
  <2> USE <1>5 DEF Identity!UpdateProfile
  <2>1. /\ work' \in [Calls -> PersonCall]
        /\ UNCHANGED <<automatic, overlapped>>
        /\ work[c].step = "profile"
        /\ ~overlapped' => /\ \A d \in Calls : work'[d] = Identity!Idle
                           /\ \A d \in Calls \ {c} : work[d] = Identity!Idle
    BY PersonGo
  <2>2. PersonTypes'
    BY <2>1 DEF PersonInv, PersonTypes, PersonCall
  <2>3. ~overlapped' => account' = account
    BY <2>1 DEF PersonInv, Undisturbed
  <2>4. ~overlapped' => account' = decreed' /\ LinksWorkOnce'
    BY <2>1, <2>3 DEF PersonInv, Undisturbed, LinksWorkOnce
  <2>5. ~overlapped' => \A r \in Rows : Reviewed(verifications'[r])
    BY <2>1, IdleIsACall DEF PersonInv, Undisturbed, Stamping
  <2> QED
    BY <1>0, <2>1, <2>2, <2>4, <2>5, AllIdle DEF PersonInv
<1>6. ASSUME NEW c \in Calls, Identity!ResetPassword(c)
      PROVE  PersonInv'
  <2> USE <1>6 DEF Identity!ResetPassword
  <2>1. /\ work' \in [Calls -> PersonCall]
        /\ UNCHANGED <<automatic, overlapped>>
        /\ work[c].step = "reset"
        /\ ~overlapped' => /\ \A d \in Calls : work'[d] = Identity!Idle
                           /\ \A d \in Calls \ {c} : work[d] = Identity!Idle
    BY PersonGo
  <2>2. PICK link \in Identity!Passwords : link = work[c].account.password
    BY DEF PersonInv, PersonTypes, PersonCall
  <2>3. decreed.password \in Nat /\ decreed.password + 1 \in Identity!Passwords
    BY FinanceAssumption DEF PersonInv, PersonTypes
  <2>4. /\ decreed' = [decreed EXCEPT !.password = decreed.password + 1]
        /\ account' = [account EXCEPT !.password = decreed.password + 1]
        /\ decreed' \in Account /\ account' \in Account
    BY <2>3 DEF PersonInv, PersonTypes
  <2>5. followed' = [followed EXCEPT ![link] = @ + 1]
    BY <2>2
  <2>6. PersonTypes'
    BY <2>1, <2>4, <2>5 DEF PersonInv, PersonTypes
  <2>7. ASSUME ~overlapped' PROVE account' = decreed' /\ LinksWorkOnce'
    <3>1. account = decreed /\ link = account.password /\ LinksWorkOnce
      BY <2>1, <2>2, <2>7 DEF PersonInv, Undisturbed
    <3>2. account'.password = link + 1 /\ account' = decreed'
      BY <2>4, <3>1 DEF PersonInv, PersonTypes
    <3>3. \A p \in Identity!Passwords :
             followed'[p] = IF p = link THEN followed[p] + 1 ELSE followed[p]
      BY <2>5 DEF PersonInv, PersonTypes
    <3>4. \A p \in Identity!Passwords : p \in Nat /\ followed[p] \in Nat
      BY DEF PersonInv, PersonTypes
    <3>5. LinksWorkOnce'
      BY <3>1, <3>2, <3>3, <3>4 DEF LinksWorkOnce
    <3> QED
      BY <3>2, <3>5
  <2>8. ~overlapped' => \A r \in Rows : Reviewed(verifications'[r])
    BY <2>1, IdleIsACall DEF PersonInv, Undisturbed, Stamping
  <2> QED
    BY <1>0, <2>1, <2>6, <2>7, <2>8, AllIdle DEF PersonInv
<1> QED
  BY <1>1, <1>2, <1>3, <1>4, <1>5, <1>6 DEF Identity!Accounting

LEMMA ChoosingStep ==
    ASSUME PersonInv, NEW c \in Calls, Identity!Choosing(c)
    PROVE  PersonInv'
<1>1. CASE Identity!BeginRole(c)
  <2>1. [Identity!Idle EXCEPT !.step = "role"] \in PersonCall
    BY IdleIsACall DEF PersonCall
  <2> QED
    BY <1>1, <2>1, PersonBegin DEF Identity!BeginRole, Identity!BeginOwn, Identity!Idle
<1>2. ASSUME NEW r \in Rows, NEW next \in {"approved", "rejected"},
             NEW by \in Identity!Deciders, Identity!BeginRoleDecision(c, r, next, by)
      PROVE  PersonInv'
  <2>1. by = "administrator" /\ next \in Identity!Decisions
    BY <1>2 DEF Identity!BeginRoleDecision, Identity!MayDecide, Identity!Deciders,
                Identity!Decisions
  <2>2. [Identity!Idle EXCEPT !.step = "decide_role", !.row = r, !.next = next, !.by = by]
          \in PersonCall
    BY <2>1, IdleIsACall DEF PersonCall, By
  <2> QED
    BY <1>2, <2>2, PersonBegin DEF Identity!BeginRoleDecision, Identity!Idle
<1>3. ASSUME NEW from \in {"role", "decide_role"}, Identity!Go(c, from, "idle"),
             UNCHANGED <<account, decreed, links, followed, verifications>>,
             roles' \in [Rows -> RoleRow], RequestsInv'
      PROVE  PersonInv'
  <2>1. /\ work' \in [Calls -> PersonCall]
        /\ UNCHANGED <<automatic, overlapped>>
        /\ work[c].step = from
        /\ ~overlapped' => /\ \A d \in Calls : work'[d] = Identity!Idle
                           /\ \A d \in Calls \ {c} : work[d] = Identity!Idle
    BY <1>3, PersonGo
  <2>2. PersonTypes'
    BY <1>3, <2>1 DEF PersonInv, PersonTypes
  <2>3. ~overlapped' => account' = decreed' /\ LinksWorkOnce'
    BY <1>3, <2>1 DEF PersonInv, Undisturbed, LinksWorkOnce
  <2>4. ~overlapped' => \A r \in Rows : Reviewed(verifications'[r])
    BY <1>3, <2>1, IdleIsACall DEF PersonInv, Undisturbed, Stamping
  <2> QED
    BY <1>3, <2>1, <2>2, <2>3, <2>4, AllIdle DEF PersonInv
<1>4. ASSUME NEW r \in Rows, Identity!RequestRole(c, r)
      PROVE  PersonInv'
  <2> DEFINE row == [Identity!NoRole EXCEPT !.status =
                        IF automatic THEN "approved" ELSE "pending"]
  <2>1. row \in RoleRow /\ (row.status = "approved" => automatic)
    BY DEF Identity!NoRole, RoleRow, By
  <2>2. automatic' = automatic
    BY <1>4 DEF Identity!RequestRole, Identity!Go
  <2> HIDE DEF row
  <2>3. Identity!SaveRole(r, row)
    BY <1>4 DEF Identity!RequestRole, row
  <2>4. verifications' = verifications
    BY <1>4 DEF Identity!RequestRole
  <2>5. RequestsInv' /\ roles' \in [Rows -> RoleRow]
    BY <2>1, <2>2, <2>3, <2>4, RolesFit
  <2> QED
    BY <1>3, <1>4, <2>5 DEF Identity!RequestRole, Identity!person
<1>5. CASE Identity!DecideRole(c)
  <2> DEFINE r == work[c].row
             row == [status |-> work[c].next, by |-> work[c].by]
  <2>1. r \in Rows /\ row \in RoleRow /\ row.by = "administrator"
    BY <1>5 DEF Identity!DecideRole, Identity!Go, PersonInv, PersonTypes, PersonCall, RoleRow,
                By
  <2>2. automatic' = automatic /\ verifications' = verifications /\ Identity!SaveRole(r, row)
    BY <1>5 DEF Identity!DecideRole, Identity!Go
  <2> HIDE DEF r, row
  <2>3. RequestsInv' /\ roles' \in [Rows -> RoleRow]
    BY <2>1, <2>2, RolesFit
  <2> QED
    BY <1>3, <1>5, <2>3 DEF Identity!DecideRole, Identity!person
<1> QED
  BY <1>1, <1>2, <1>4, <1>5 DEF Identity!Choosing

LEMMA VerifyingBegins ==
    ASSUME PersonInv, NEW c \in Calls, NEW r \in Rows,
           \/ Identity!BeginUpdate(c, r)
           \/ Identity!BeginResubmit(c, r)
           \/ \E next \in Identity!Decisions, by \in Identity!Deciders :
                 Identity!BeginDecision(c, r, next, by)
    PROVE  PersonInv'
<1>0. /\ \A step \in {"update", "resubmit"} :
             /\ Identity!Load(step, r) \in PersonCall
             /\ Identity!Load(step, r).step = step
             /\ Identity!Load(step, r).row = r
             /\ Identity!Load(step, r).verification = verifications[r]
      /\ Identity!Load("decide", r) =
             [Identity!Idle EXCEPT !.step = "decide", !.row = r,
                                   !.verification = verifications[r]]
  <2>1. verifications[r] \in VerificationRow /\ ApprovedByOther(verifications[r])
    BY DEF PersonInv, PersonTypes, RequestsInv, Identity!OthersDecide, ApprovedByOther
  <2>2. ASSUME NEW step \in {"update", "resubmit"}
        PROVE  /\ Identity!Load(step, r) \in PersonCall
               /\ Identity!Load(step, r).step = step
               /\ Identity!Load(step, r).row = r
               /\ Identity!Load(step, r).verification = verifications[r]
    BY <2>1, IdleIsACall DEF Identity!Load, PersonCall
  <2> QED
    BY <2>2 DEF Identity!Load
<1>1. CASE Identity!BeginUpdate(c, r)
  BY <1>0, <1>1, PersonBegin DEF Identity!BeginUpdate, Identity!BeginOwn
<1>2. CASE Identity!BeginResubmit(c, r)
  BY <1>0, <1>2, PersonBegin DEF Identity!BeginResubmit, Identity!BeginOwn
<1>3. ASSUME NEW next \in Identity!Decisions, NEW by \in Identity!Deciders,
             Identity!BeginDecision(c, r, next, by)
      PROVE  PersonInv'
  <2> DEFINE loaded == [Identity!Load("decide", r) EXCEPT !.next = next, !.by = by]
  <2>1. by = "administrator"
    BY <1>3 DEF Identity!BeginDecision, Identity!MayDecide, Identity!Deciders
  <2>2. verifications[r] \in VerificationRow
    BY DEF PersonInv, PersonTypes
  <2>3. loaded \in PersonCall /\ loaded.step = "decide"
    BY <1>0, <2>1, <2>2, IdleIsACall DEF PersonCall, By
  <2> QED
    BY <1>3, <2>3, PersonBegin DEF Identity!BeginDecision
<1> QED
  BY <1>1, <1>2, <1>3

(* A call that ends with a verification saved.                             *)
LEMMA VerificationSaved ==
    ASSUME PersonInv, NEW c \in Calls, NEW from \in {"update", "resubmit", "stamp", "decide"},
           Identity!Go(c, from, "idle"), UNCHANGED <<Identity!person, roles>>,
           verifications' \in [Rows -> VerificationRow], RequestsInv',
           \A s \in Rows : \/ verifications'[s] = verifications[s]
                           \/ s = work[c].row /\ (~overlapped => Reviewed(verifications'[s])),
           from = "stamp" /\ ~overlapped => Reviewed(verifications'[work[c].row])
    PROVE  PersonInv'
<1>1. /\ work' \in [Calls -> PersonCall]
      /\ UNCHANGED <<automatic, overlapped>>
      /\ work[c].step = from
      /\ ~overlapped' => /\ \A d \in Calls : work'[d] = Identity!Idle
                         /\ \A d \in Calls \ {c} : work[d] = Identity!Idle
  BY PersonGo
<1>2. PersonTypes'
  BY <1>1 DEF PersonInv, PersonTypes, Identity!person
<1>3. ~overlapped' => account' = decreed' /\ LinksWorkOnce'
  BY <1>1 DEF PersonInv, Undisturbed, LinksWorkOnce, Identity!person
<1>4. ASSUME ~overlapped', NEW s \in Rows PROVE Reviewed(verifications'[s])
  <2>1. CASE Stamping(s)
    BY <1>1, <1>4, <2>1, IdleIsACall DEF Stamping
  <2>2. CASE ~Stamping(s)
    <3>1. Reviewed(verifications[s])
      BY <1>1, <1>4, <2>2 DEF PersonInv, Undisturbed
    <3> QED
      BY <1>1, <1>4, <3>1 DEF Reviewed
  <2> QED
    BY <2>1, <2>2
<1> QED
  BY <1>1, <1>2, <1>3, <1>4, AllIdle DEF PersonInv

LEMMA VerifyingSaves ==
    ASSUME PersonInv, NEW c \in Calls,
           \/ Identity!UpdateVerification(c)
           \/ Identity!StampSubmission(c)
           \/ Identity!DecideVerification(c)
    PROVE  PersonInv'
<1> DEFINE r == work[c].row
<1>1. CASE Identity!UpdateVerification(c)
  <2> DEFINE row == work[c].verification
  <2>1. r \in Rows /\ row \in VerificationRow /\ ApprovedByOther(row)
    BY <1>1 DEF Identity!UpdateVerification, Identity!Go, PersonInv, PersonTypes, PersonCall
  <2>2. ~overlapped => Reviewed(row)
    BY <1>1 DEF Identity!UpdateVerification, Identity!Go, PersonInv, Undisturbed
  <2>3. automatic' = automatic /\ roles' = roles /\ Identity!SaveVerification(r, row)
    BY <1>1 DEF Identity!UpdateVerification, Identity!Go
  <2> HIDE DEF row, r
  <2>4. /\ RequestsInv'
        /\ verifications' \in [Rows -> VerificationRow]
        /\ verifications'[r] = row \/ verifications'[r] = verifications[r]
        /\ \A s \in Rows \ {r} : verifications'[s] = verifications[s]
    BY <2>1, <2>3, VerificationsFit
  <2>5. \A s \in Rows : \/ verifications'[s] = verifications[s]
                        \/ s = r /\ (~overlapped => Reviewed(verifications'[s]))
    BY <2>2, <2>4
  <2> QED
    BY <1>1, <2>4, <2>5, VerificationSaved DEF Identity!UpdateVerification, r
<1>2. CASE Identity!DecideVerification(c)
  <2> DEFINE row == [status |-> work[c].next, by |-> work[c].by, reviewed |-> TRUE]
  <2>1. /\ r \in Rows /\ work[c].by = "administrator"
        /\ work[c].next \in Identity!Decisions
    BY <1>2 DEF Identity!DecideVerification, Identity!Go, PersonInv, PersonTypes, PersonCall
  <2>2. row \in VerificationRow /\ ApprovedByOther(row) /\ Reviewed(row)
    BY <2>1 DEF VerificationRow, ApprovedByOther, Reviewed, Identity!Decisions, By,
                Identity!ValidVerification
  <2>3. automatic' = automatic /\ roles' = roles /\ Identity!SaveVerification(r, row)
    BY <1>2 DEF Identity!DecideVerification, Identity!Go
  <2> HIDE DEF row, r
  <2>4. /\ RequestsInv'
        /\ verifications' \in [Rows -> VerificationRow]
        /\ verifications'[r] = row \/ verifications'[r] = verifications[r]
        /\ \A s \in Rows \ {r} : verifications'[s] = verifications[s]
    BY <2>1, <2>2, <2>3, VerificationsFit DEF r
  <2>5. \A s \in Rows : \/ verifications'[s] = verifications[s]
                        \/ s = r /\ (~overlapped => Reviewed(verifications'[s]))
    BY <2>2, <2>4
  <2> QED
    BY <1>2, <2>4, <2>5, VerificationSaved DEF Identity!DecideVerification, r
<1>3. CASE Identity!StampSubmission(c)
  <2> DEFINE row == [verifications[r] EXCEPT !.reviewed = FALSE]
  <2>1. r \in Rows /\ verifications[r] \in VerificationRow /\ ApprovedByOther(verifications[r])
    BY <1>3 DEF Identity!StampSubmission, Identity!Go, PersonInv, PersonTypes, PersonCall,
                RequestsInv, Identity!OthersDecide, ApprovedByOther
  <2>2. row \in VerificationRow /\ ApprovedByOther(row) /\ row.status = verifications[r].status
    BY <2>1 DEF VerificationRow, ApprovedByOther
  <2>3. ~overlapped => Reviewed(row)
    <3>1. ~overlapped => verifications[r].status = "pending"
      BY <1>3 DEF Identity!StampSubmission, Identity!Go, PersonInv, Undisturbed
    <3> QED
      BY <2>1, <2>2, <3>1 DEF Reviewed, VerificationRow, Identity!Decisions
  <2>4. /\ automatic' = automatic /\ roles' = roles
        /\ verifications' = [verifications EXCEPT ![r] = row]
    BY <1>3 DEF Identity!StampSubmission, Identity!Go, Identity!Submitted
  <2> HIDE DEF row, r
  <2>5. RequestsInv' /\ verifications' \in [Rows -> VerificationRow]
    BY <2>1, <2>2, <2>4, VerificationMoves
  <2>6. /\ verifications'[r] = row
        /\ \A s \in Rows \ {r} : verifications'[s] = verifications[s]
    BY <2>1, <2>4 DEF PersonInv, PersonTypes
  <2>7. \A s \in Rows : \/ verifications'[s] = verifications[s]
                        \/ s = r /\ (~overlapped => Reviewed(verifications'[s]))
    BY <2>3, <2>6
  <2>8. ~overlapped => Reviewed(verifications'[r])
    BY <2>3, <2>6
  <2> QED
    BY <1>3, <2>5, <2>7, <2>8, VerificationSaved DEF Identity!StampSubmission, r
<1> QED
  BY <1>1, <1>2, <1>3

LEMMA ResubmitStep ==
    ASSUME PersonInv, NEW c \in Calls, Identity!Resubmit(c)
    PROVE  PersonInv'
<1> DEFINE r == work[c].row
           row == [verifications[r] EXCEPT !.status = "pending"]
           fits == Identity!Fits(r, "pending")
<1>1. /\ r \in Rows /\ row \in VerificationRow /\ row.status = "pending"
      /\ ApprovedByOther(row)
  <2>1. r \in Rows /\ verifications[r] \in VerificationRow
    BY DEF Identity!Resubmit, Identity!Go, PersonInv, PersonTypes, PersonCall
  <2> QED
    BY <2>1 DEF VerificationRow, ApprovedByOther, Identity!ValidVerification
<1>2. /\ automatic' = automatic /\ roles' = roles
      /\ Identity!SaveVerification(r, row)
      /\ Identity!Go(c, "resubmit", IF fits THEN "stamp" ELSE "idle")
      /\ UNCHANGED Identity!person
  BY DEF Identity!Resubmit, Identity!Go
<1> HIDE DEF row, r, fits
<1>3. /\ RequestsInv'
      /\ verifications' \in [Rows -> VerificationRow]
      /\ verifications'[r] = IF fits THEN row ELSE verifications[r]
      /\ \A s \in Rows \ {r} : verifications'[s] = verifications[s]
  BY <1>1, <1>2, VerificationsFit DEF fits
<1>4. CASE ~fits
  <2>1. \A s \in Rows : verifications'[s] = verifications[s]
    BY <1>3, <1>4
  <2>2. Identity!Go(c, "resubmit", "idle")
    BY <1>2, <1>4
  <2> QED
    BY <1>2, <1>3, <2>1, <2>2, VerificationSaved
<1>5. CASE fits
  <2>1. /\ work' = [work EXCEPT ![c] = [@ EXCEPT !.step = "stamp"]]
        /\ work[c].step = "resubmit"
        /\ overlapped' = overlapped
    BY <1>2, <1>5 DEF Identity!Go
  <2>2. /\ work'[c] = [work[c] EXCEPT !.step = "stamp"]
        /\ \A d \in Calls \ {c} : work'[d] = work[d]
        /\ work'[c] \in PersonCall
        /\ work'[c].step = "stamp" /\ work'[c].row = r
    BY <2>1 DEF PersonInv, PersonTypes, PersonCall, r
  <2>3. PersonTypes'
    BY <1>2, <1>3, <2>1, <2>2 DEF PersonInv, PersonTypes, Identity!person
  <2>4. ASSUME ~overlapped' PROVE Undisturbed'
    <3>1. /\ ~overlapped /\ AloneInCall
          /\ \A d \in Calls \ {c} : work[d] = Identity!Idle
      BY <2>1, <2>4 DEF PersonInv, Undisturbed, AloneInCall
    <3>2. \A d \in Calls : IF d = c THEN work'[d].step = "stamp" /\ work'[d].row = r
                                   ELSE work'[d] = Identity!Idle /\ work'[d].step = "idle"
      BY <2>2, <3>1, IdleIsACall
    <3>3. AloneInCall'
      BY ONLY <3>2 DEF AloneInCall
    <3>4. account' = decreed' /\ LinksWorkOnce'
      BY <1>2, <3>1 DEF PersonInv, Undisturbed, LinksWorkOnce, Identity!person
    <3>5. \A d \in Calls :
             /\ work'[d].step \in {"idle", "stamp"}
             /\ work'[d].step = "stamp" => verifications'[work'[d].row].status = "pending"
      BY <1>1, <1>3, <1>5, <3>2
    <3>6. \A s \in Rows : ~Stamping(s)' => Reviewed(verifications'[s])
      <4> SUFFICES ASSUME NEW s \in Rows, ~Stamping(s)' PROVE Reviewed(verifications'[s])
        OBVIOUS
      <4>1. s # r
        BY <2>2 DEF Stamping
      <4>2. ~Stamping(s)
        BY <2>1, <3>1, IdleIsACall DEF Stamping
      <4> QED
        BY <1>3, <3>1, <4>1, <4>2 DEF PersonInv, Undisturbed
    <3>7. (\A s \in Rows : ~Stamping(s) => Reviewed(verifications[s]))'
      BY <3>6 DEF Reviewed
    <3>8. account' = decreed' /\ AloneInCall' /\ LinksWorkOnce'
      BY <3>3, <3>4
    <3> QED
      BY <3>5, <3>7, <3>8 DEF Undisturbed
  <2> QED
    BY <1>3, <2>3, <2>4 DEF PersonInv, Undisturbed
<1> QED
  BY <1>4, <1>5

LEMMA OtherVerificationSteps ==
    ASSUME PersonInv,
           \/ \E r \in Rows : Identity!CreateVerification(r) \/ Identity!TakeIntoReview(r)
           \/ \E c \in Calls : Identity!Die(c)
    PROVE  PersonInv'
<1>1. ASSUME NEW r \in Rows, Identity!CreateVerification(r) PROVE PersonInv'
  <2> DEFINE row == [Identity!NoVerification EXCEPT !.status = "pending"]
  <2>1. row \in VerificationRow /\ ApprovedByOther(row) /\ Reviewed(row)
    BY DEF Identity!NoVerification, VerificationRow, Identity!ValidVerification, By,
           ApprovedByOther, Reviewed, Identity!Decisions
  <2>2. /\ Identity!SaveVerification(r, row)
        /\ UNCHANGED <<account, decreed, links, followed, roles, automatic, work, overlapped>>
        /\ verifications[r].status = "absent" /\ Reviewed(verifications[r])
    BY <1>1 DEF Identity!CreateVerification, Identity!person, Identity!NoVerification, Reviewed,
                Identity!Decisions
  <2> HIDE DEF row
  <2>3. /\ RequestsInv'
        /\ verifications' \in [Rows -> VerificationRow]
        /\ Reviewed(verifications'[r])
        /\ \A s \in Rows \ {r} : verifications'[s] = verifications[s]
    BY <2>1, <2>2, VerificationsFit
  <2>4. PersonTypes'
    BY <2>2, <2>3 DEF PersonInv, PersonTypes
  <2>5. ASSUME ~overlapped' PROVE Undisturbed'
    <3>1. /\ AloneInCall' /\ account' = decreed' /\ LinksWorkOnce'
      BY <2>2, <2>5 DEF PersonInv, Undisturbed, AloneInCall, LinksWorkOnce
    <3>2. \A c \in Calls : work[c].step = "stamp" =>
             work[c].row \in Rows \ {r} /\ verifications[work[c].row].status = "pending"
      BY <2>2, <2>5 DEF PersonInv, Undisturbed, PersonTypes, PersonCall
    <3>3. \A s \in Rows : ~Stamping(s)' => Reviewed(verifications[s])'
      <4> SUFFICES ASSUME NEW s \in Rows, ~Stamping(s)' PROVE Reviewed(verifications'[s])
        BY DEF Reviewed
      <4>1. ~Stamping(s)
        BY <2>2 DEF Stamping
      <4>2. Reviewed(verifications[s])
        BY <2>2, <2>5, <4>1 DEF PersonInv, Undisturbed
      <4> QED
        BY <2>3, <4>2
    <3> QED
      BY <2>2, <2>3, <2>5, <3>1, <3>2, <3>3 DEF PersonInv, Undisturbed, Reviewed
  <2> QED
    BY <2>3, <2>4, <2>5 DEF PersonInv, Undisturbed
<1>2. ASSUME NEW r \in Rows, Identity!TakeIntoReview(r) PROVE PersonInv'
  <2> DEFINE row == [verifications[r] EXCEPT !.status = "under_review"]
  <2>0. verifications[r] \in VerificationRow
    BY DEF PersonInv, PersonTypes
  <2>1. /\ row \in VerificationRow /\ ApprovedByOther(row) /\ Reviewed(row)
        /\ verifications' = [verifications EXCEPT ![r] = row]
        /\ verifications[r].status \in Identity!ActiveVerification
    <3>1. verifications[r].status \in DOMAIN Identity!ValidVerification
      BY <1>2, <2>0 DEF Identity!TakeIntoReview, Identity!MayMove, Identity!NoVerification,
                        VerificationRow, PersonInv, Undisturbed
    <3> QED
      BY <1>2, <2>0, <3>1
      DEF Identity!TakeIntoReview, Identity!MayMove, VerificationRow, ApprovedByOther, Reviewed,
          Identity!ValidVerification, Identity!ActiveVerification, Identity!Decisions
  <2>2. /\ UNCHANGED <<account, decreed, links, followed, roles, automatic, work>>
        /\ overlapped' = (overlapped \/ \E d \in Calls : work[d] # Identity!Idle)
    BY <1>2 DEF Identity!TakeIntoReview, Identity!person, Identity!Notice
  <2> HIDE DEF row
  <2>3. RequestsInv' /\ verifications' \in [Rows -> VerificationRow]
    BY <2>1, <2>2, VerificationMoves
  <2>4. PersonTypes'
    BY <2>2, <2>3 DEF PersonInv, PersonTypes
  <2>5. ASSUME ~overlapped'
        PROVE  /\ \A d \in Calls : work'[d] = Identity!Idle
               /\ account' = decreed' /\ LinksWorkOnce'
               /\ \A s \in Rows : Reviewed(verifications'[s])
    <3>1. ~overlapped /\ \A d \in Calls : work[d] = Identity!Idle /\ work'[d] = Identity!Idle
      BY <2>2, <2>5
    <3>2. account' = decreed' /\ LinksWorkOnce'
      BY <2>2, <3>1 DEF PersonInv, Undisturbed, LinksWorkOnce
    <3>3. \A s \in Rows : Reviewed(verifications[s])
      BY <3>1, IdleIsACall DEF PersonInv, Undisturbed, Stamping
    <3>4. \A s \in Rows : verifications'[s] = IF s = r THEN row ELSE verifications[s]
      BY <2>1 DEF PersonInv, PersonTypes
    <3> QED
      BY <2>1, <3>1, <3>2, <3>3, <3>4
  <2> QED
    BY <2>3, <2>4, <2>5, AllIdle DEF PersonInv
<1>3. ASSUME NEW c \in Calls, Identity!Die(c) PROVE PersonInv'
  <2> USE <1>3 DEF Identity!Die, Identity!person
  <2>1. PersonTypes'
    BY IdleIsACall DEF PersonInv, PersonTypes
  <2>2. RequestsInv'
    BY DEF PersonInv, RequestsInv, Identity!OneOpenRequest, Identity!OthersDecide
  <2> QED
    BY <2>1, <2>2 DEF PersonInv, Undisturbed
<1> QED
  BY <1>1, <1>2, <1>3

LEMMA PersonStep == PersonInv /\ Identity!Next => PersonInv'
BY AccountStep, ChoosingStep, VerifyingBegins, VerifyingSaves, ResubmitStep,
   OtherVerificationSteps
DEF Identity!Next, Identity!Verifying

LEMMA PersonHolds ==
    ASSUME PersonInv
    PROVE  /\ Identity!TypeOK /\ Identity!AccountStands /\ Identity!OneOpenRequest
           /\ Identity!OthersDecide /\ Identity!ReviewFollowsSubmission
<1>1. Identity!TypeOK
  BY DEF PersonInv, PersonTypes, Identity!TypeOK, Account, RoleRow, VerificationRow,
         Identity!OpenRole
<1>2. Identity!AccountStands
  <2> SUFFICES ASSUME ~overlapped, NEW p \in Identity!Passwords
               PROVE  account = decreed /\ followed[p] <= 1
    BY DEF Identity!AccountStands, PersonInv, Undisturbed
  <2>1. followed[p] \in Nat /\ followed[p] <= IF p < account.password THEN 1 ELSE 0
    BY DEF PersonInv, PersonTypes, Undisturbed, LinksWorkOnce
  <2> QED
    BY <2>1 DEF PersonInv, Undisturbed
<1>3. Identity!ReviewFollowsSubmission
  BY IdleIsACall
  DEF Identity!ReviewFollowsSubmission, PersonInv, Undisturbed, Stamping, Reviewed
<1> QED
  BY <1>1, <1>2, <1>3 DEF PersonInv, RequestsInv

-----------------------------------------------------------------------------
(* The parts of a run together: one of them moves, the others stand.       *)

(* A behaviour of the parts moves the application as its own               *)
(* specification does, or not at all.                                      *)
THEOREM PartsAreApplications == PartsSpec => Spec
<1>1. PartsInit => Init
  BY DEF PartsInit
<1>2. [PartsNext]_<<part, vars, others>> => [Next]_vars
  BY DEF PartsNext
<1> QED
  BY <1>1, <1>2, PTL DEF PartsSpec, Spec

PartsInv ==
    /\ part = "financing" => FInv
    /\ part = "deal" => DealInv /\ StillLoaded
    /\ part = "webhooks" => WebhookInv
    /\ part = "person" => PersonInv

(* Applications, deals, webhooks and users keep their inductive invariants, *)
(* whatever calls overlap or die.                                          *)
THEOREM PartsInvariant == PartsSpec => []PartsInv
<1>1. PartsInit => PartsInv
  BY FInit, DealInit, WebhookInit, PersonInit DEF PartsInit, PartsInv
<1>2. PartsInv /\ [PartsNext]_<<part, vars, others>> => PartsInv'
  <2> SUFFICES ASSUME PartsInv, [PartsNext]_<<part, vars, others>> PROVE PartsInv'
    OBVIOUS
  <2>1. CASE part = "financing" /\ Next /\ UNCHANGED <<part, others>>
    BY <2>1, FNext DEF PartsInv
  <2>2. CASE part = "deal" /\ Deals!Next /\ UNCHANGED <<part, vars, intake, person, overlapped>>
    BY <2>2, DealStep DEF PartsInv
  <2>3. CASE part = "webhooks" /\ Webhooks!Next
             /\ UNCHANGED <<part, vars, deal, person, overlapped>>
    BY <2>3, WebhookStep DEF PartsInv
  <2>4. CASE part = "person" /\ Identity!Next /\ UNCHANGED <<part, vars, deal, intake>>
    BY <2>4, PersonStep DEF PartsInv
  <2>5. CASE UNCHANGED <<part, vars, others>>
    <3> USE <2>5 DEF others
    <3>1. part = "financing" => FInv'
      BY FNext DEF PartsInv
    <3>2. part = "deal" => DealInv' /\ StillLoaded'
      BY DEF PartsInv, deal, DealInv, Deals!TypeOK, DealCalls, MilestoneEvidence,
             DisputesAreFiled, CarriesEvidence, StillLoaded, TransactionLoaded,
             MilestoneLoaded, Deals!TransactionCan, Deals!MilestoneCan
    <3>3. part = "webhooks" => WebhookInv'
      BY DEF PartsInv, intake, WebhookInv, Webhooks!TypeOK
    <3>4. part = "person" => PersonInv'
      BY DEF PartsInv, person, PersonInv, PersonTypes, RequestsInv, Identity!OneOpenRequest,
             Identity!OthersDecide, Undisturbed, AloneInCall, LinksWorkOnce, Stamping, Reviewed
    <3> QED
      BY <3>1, <3>2, <3>3, <3>4 DEF PartsInv
  <2> QED
    BY <2>1, <2>2, <2>3, <2>4, <2>5 DEF PartsNext
<1> QED
  BY <1>1, <1>2, PTL DEF PartsSpec

(* The columns and histories of all four parts keep their types.           *)
THEOREM PartsTypeCorrect == PartsSpec => []PartsTypeOK
<1>1. PartsInv => PartsTypeOK
  BY PersonHolds DEF PartsInv, PartsTypeOK, FInv, DealInv, WebhookInv
<1> QED
  BY <1>1, PartsInvariant, PTL

(* However calls and deliveries overlap, what a deal shows has its         *)
(* evidence, and what a provider was told about an event is what its row   *)
(* says.                                                                   *)
THEOREM RecordsAreBacked == PartsSpec => []RecordsAgree
<1>1. DealInv => Deals!StatusHasEvidence
  BY DEF DealInv, MilestoneEvidence, DisputesAreFiled, Deals!StatusHasEvidence
<1>2. WebhookInv => Webhooks!AnswersAgree
  BY DEF WebhookInv, Webhooks!AnswersAgree
<1>3. PartsInv => RecordsAgree
  BY <1>1, <1>2 DEF PartsInv, RecordsAgree
<1> QED
  BY <1>3, PartsInvariant, PTL

(* A user's account is as it was last meant to be unless calls overlap;    *)
(* overlap or not, one request of a kind is open and others decide it.     *)
THEOREM IdentitiesAgree == PartsSpec => []IdentityAgrees
<1>1. PartsInv => IdentityAgrees
  BY PersonHolds DEF PartsInv, IdentityAgrees
<1> QED
  BY <1>1, PartsInvariant, PTL

(* A deal moves as declared but by calls that are older than what it is,   *)
(* so a closed one is opened by those alone.                               *)
THEOREM DealsStayClosed == PartsSpec => ClosedDealsStay
<1> DEFINE Stays == part = "deal" => Deals!DeclaredUnlessOlder
<1>1. PartsInv /\ [PartsNext]_<<part, vars, others>> => [Stays]_<<deal, work>>
  <2> SUFFICES ASSUME PartsInv, PartsNext, part = "deal"
               PROVE  Deals!DeclaredUnlessOlder
    BY DEF others
  <2> QED
    BY DealsStay DEF PartsInv, PartsNext
<1> QED
  BY <1>1, PartsInvariant, PTL DEF PartsSpec, ClosedDealsStay
=============================================================================
