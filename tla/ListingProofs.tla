---------------------------- MODULE ListingProofs ----------------------------
(***************************************************************************)
(* Listings and what is kept about them, for any calls, rows and contents. *)
(*                                                                         *)
(* What buyers see needs no more than the types: the only step that writes *)
(* content writes a status other than approved.  That the snapshot stays   *)
(* true needs what a call in progress knows as long as it is alone.        *)
(* The lead, the images and the videos follow, each with an invariant of   *)
(* its own, and at the end all of them as one run moves them.              *)
(***************************************************************************)
EXTENDS MCListing, TLAPS, FiniteSetTheorems

USE ListingAssumption

CallType == [step : {"idle", "edit", "saved", "revert", "copy", "decide"},
             row : Rows \cup {Nothing},
             status : VerificationStatus \cup ListingStatus,
             content : [address : Snapshot, text : Texts \cup {Nothing}],
             changed : BOOLEAN,
             snapshot : Snapshot]

(* What a step of a call relies on besides the types. *)
CallsKnowTheirPart ==
    \A c \in Calls :
        /\ calls[c].step = "edit" =>
              /\ calls[c].content \in Content
              /\ calls[c].status \in ListingStatus \ {"approved"}
        /\ calls[c].step \in {"revert", "copy", "decide"} =>
              calls[c].row \in Rows
        /\ calls[c].step \in {"copy", "decide"} =>
              calls[c].status \in VerificationStatus

LInv == TypeOK /\ CallsKnowTheirPart /\ PublishedIsReviewed

LEMMA Transitions ==
    /\ VerificationStatus = ACTIVE_VERIFICATION_STATUSES
                              \cup {"rejected", "expired", "absent"}
    /\ \A s \in VerificationStatus : ValidTransitions[s] \subseteq VerificationStatus
BY DEF VerificationStatus, ValidTransitions, ACTIVE_VERIFICATION_STATUSES

LEMMA IdleIsACall == Idle \in CallType /\ Idle.step = "idle"
BY Transitions
   DEF Idle, CallType, Snapshot, ACTIVE_VERIFICATION_STATUSES, ListingStatus

LEMMA LInit == Init => LInv
<1> SUFFICES ASSUME Init PROVE LInv
  OBVIOUS
<1>1. calls \in [Calls -> CallType] /\ \A c \in Calls : calls[c].step = "idle"
  BY IdleIsACall DEF Init
<1>2. status \in [Rows -> VerificationStatus] /\ snapshot \in [Rows -> Snapshot]
  BY Transitions DEF Init, Snapshot
<1>3. /\ listing \in [status : ListingStatus, content : Content]
      /\ reviewed \in Content
      /\ listing.status # "approved"
  <2>1. PICK content \in Content :
           /\ listing = [status |-> "draft", content |-> content]
           /\ reviewed = content
    BY DEF Init
  <2> QED BY <2>1 DEF ListingStatus
<1>4. disturbed \in BOOLEAN
  BY DEF Init
<1>5. TypeOK
  BY <1>1, <1>2, <1>3, <1>4 DEF TypeOK, CallType
<1>6. CallsKnowTheirPart
  BY <1>1 DEF CallsKnowTheirPart
<1> QED
  BY <1>3, <1>5, <1>6 DEF LInv, PublishedIsReviewed

(* The steps that save a status of a verification. *)
LEMMA SavedStatus ==
    ASSUME status \in [Rows -> VerificationStatus], NEW v \in Rows,
           NEW next \in VerificationStatus, SaveStatus(v, next)
    PROVE  /\ status' \in [Rows -> VerificationStatus]
           /\ \A w \in Rows : w # v => status'[w] = status[w]
           /\ status'[v] = IF Fits(v, next) THEN next ELSE status[v]
BY DEF SaveStatus

(* Nothing but one call changes, and it changes to a call that knows its   *)
(* part.                                                                   *)
LEMMA OneCallMoves ==
    ASSUME TypeOK, CallsKnowTheirPart, NEW c \in Calls, NEW k \in CallType,
           calls' = [calls EXCEPT ![c] = k],
           k.step = "edit" => /\ k.content \in Content
                              /\ k.status \in ListingStatus \ {"approved"},
           k.step \in {"revert", "copy", "decide"} => k.row \in Rows,
           k.step \in {"copy", "decide"} => k.status \in VerificationStatus
    PROVE  calls' \in [Calls -> CallType] /\ CallsKnowTheirPart'
<1>1. calls \in [Calls -> CallType]
  BY DEF TypeOK, CallType
<1>2. calls' \in [Calls -> CallType]
  BY <1>1
<1>3. calls'[c] = k /\ \A d \in Calls : d # c => calls'[d] = calls[d]
  BY <1>1
<1>4. CallsKnowTheirPart'
  <2> SUFFICES ASSUME NEW d \in Calls
               PROVE  /\ calls'[d].step = "edit" =>
                            /\ calls'[d].content \in Content
                            /\ calls'[d].status \in ListingStatus \ {"approved"}
                      /\ calls'[d].step \in {"revert", "copy", "decide"} =>
                            calls'[d].row \in Rows
                      /\ calls'[d].step \in {"copy", "decide"} =>
                            calls'[d].status \in VerificationStatus
    BY DEF CallsKnowTheirPart
  <2>1. CASE d = c
    BY <1>3, <2>1
  <2>2. CASE d # c
    BY <1>3, <2>2 DEF CallsKnowTheirPart
  <2> QED BY <2>1, <2>2
<1> QED BY <1>2, <1>4

LEMMA LStep ==
    ASSUME LInv, [Next]_vars
    PROVE  LInv'
<1>0. TypeOK /\ CallsKnowTheirPart /\ calls \in [Calls -> CallType]
  BY DEF LInv, TypeOK, CallType
<1>1. ASSUME NEW next \in {"pending_review", "approved", "rejected"},
             Moderate(next)
      PROVE  LInv'
  <2>1. listing' \in [status : ListingStatus, content : Content]
        /\ reviewed' \in Content
    BY <1>0, <1>1 DEF Moderate, TypeOK, ListingStatus
  <2>2. PublishedIsReviewed'
    BY <1>0, <1>1 DEF Moderate, LInv, PublishedIsReviewed, TypeOK
  <2> QED
    BY <1>0, <1>1, <2>1, <2>2
       DEF Moderate, LInv, TypeOK, CallsKnowTheirPart, rowVars
<1>2. ASSUME NEW c \in Calls, NEW new \in Content, BeginEdit(c, new)
      PROVE  LInv'
  <2> DEFINE k == [Idle EXCEPT !.step = "edit", !.content = new,
                               !.status = StatusAfterEdit,
                               !.changed = ChangesMaterial(new)]
  <2>1. StatusAfterEdit \in ListingStatus \ {"approved"}
    BY <1>0 DEF StatusAfterEdit, TypeOK, ListingStatus
  <2>2. ChangesMaterial(new) \in BOOLEAN
    BY DEF ChangesMaterial
  <2>3. /\ k \in CallType /\ k.step = "edit" /\ k.content = new
        /\ k.status = StatusAfterEdit
    BY <2>1, <2>2, IdleIsACall DEF CallType, Content, Snapshot
  <2>4. calls' = [calls EXCEPT ![c] = k] /\ disturbed' \in BOOLEAN
    BY <1>0, <1>2 DEF BeginEdit, Begin, TypeOK
  <2>5. calls' \in [Calls -> CallType] /\ CallsKnowTheirPart'
    BY <1>0, <2>1, <2>3, <2>4, OneCallMoves
  <2> QED
    BY <1>0, <1>2, <2>4, <2>5
       DEF BeginEdit, LInv, TypeOK, CallType, PublishedIsReviewed, rowVars
<1>3. ASSUME NEW c \in Calls, SaveEdit(c)
      PROVE  LInv'
  <2>1. /\ calls[c].content \in Content
        /\ calls[c].status \in ListingStatus \ {"approved"}
    BY <1>0, <1>3 DEF SaveEdit, CallsKnowTheirPart
  <2>2. /\ listing' \in [status : ListingStatus, content : Content]
        /\ listing'.status # "approved"
    BY <1>3, <2>1 DEF SaveEdit
  <2> DEFINE k == IF calls[c].changed THEN [Idle EXCEPT !.step = "saved"]
                                      ELSE Idle
  <2>3. k \in CallType /\ k.step \in {"saved", "idle"}
    BY IdleIsACall DEF CallType
  <2>4. calls' = [calls EXCEPT ![c] = k]
    BY <1>3 DEF SaveEdit
  <2>5. calls' \in [Calls -> CallType] /\ CallsKnowTheirPart'
    BY <1>0, <2>3, <2>4, OneCallMoves
  <2> QED
    BY <1>0, <1>3, <2>2, <2>5
       DEF SaveEdit, LInv, TypeOK, CallType, PublishedIsReviewed, rowVars
<1>4. ASSUME NEW c \in Calls, FindApproved(c)
      PROVE  LInv'
  <2>1. PICK k \in CallType :
           /\ calls' = [calls EXCEPT ![c] = k]
           /\ k.step \in {"revert", "idle"}
           /\ k.step = "revert" => k.row \in Rows
    <3>1. ASSUME NEW v \in Rows,
                 calls' = [calls EXCEPT ![c].step = "revert", ![c].row = v]
          PROVE  \E k \in CallType :
                    /\ calls' = [calls EXCEPT ![c] = k]
                    /\ k.step \in {"revert", "idle"}
                    /\ k.step = "revert" => k.row \in Rows
      <4> DEFINE k == [calls[c] EXCEPT !.step = "revert", !.row = v]
      <4>1. calls[c] \in CallType
        BY <1>0
      <4>2. k \in CallType /\ k.step = "revert" /\ k.row = v
        BY <4>1 DEF CallType
      <4>3. calls' = [calls EXCEPT ![c] = k]
        BY <3>1
      <4> QED BY <4>2, <4>3
    <3>2. CASE End(c)
      BY <3>2, IdleIsACall DEF End
    <3> QED BY <1>4, <3>1, <3>2 DEF FindApproved
  <2>2. calls' \in [Calls -> CallType] /\ CallsKnowTheirPart'
    BY <1>0, <2>1, OneCallMoves
  <2> QED
    BY <1>0, <1>4, <2>2
       DEF FindApproved, LInv, TypeOK, CallType, PublishedIsReviewed, rowVars
<1>5. ASSUME NEW c \in Calls, RevertApproval(c)
      PROVE  LInv'
  <2>1. calls' \in [Calls -> CallType] /\ CallsKnowTheirPart'
    BY <1>0, <1>5, IdleIsACall, OneCallMoves DEF RevertApproval, End
  <2>2. status' \in [Rows -> VerificationStatus]
    <3>1. calls[c].row \in Rows /\ "under_review" \in VerificationStatus
      BY <1>0, <1>5, Transitions
         DEF RevertApproval, CallsKnowTheirPart, ACTIVE_VERIFICATION_STATUSES
    <3> QED
      BY <1>0, <1>5, <3>1, SavedStatus DEF RevertApproval, TypeOK
  <2> QED
    BY <1>0, <1>5, <2>1, <2>2
       DEF RevertApproval, LInv, TypeOK, CallType, PublishedIsReviewed
<1>6. ASSUME NEW v \in Rows, SubmitVerification(v) \/ TakeIntoReview(v)
      PROVE  LInv'
  <2>1. status' \in [Rows -> VerificationStatus]
    BY <1>0, <1>6, Transitions
       DEF SubmitVerification, TakeIntoReview, TypeOK,
           ACTIVE_VERIFICATION_STATUSES
  <2> QED
    BY <1>0, <1>6, <2>1
       DEF SubmitVerification, TakeIntoReview, LInv, TypeOK,
           CallsKnowTheirPart, PublishedIsReviewed
<1>7. ASSUME NEW c \in Calls, NEW k \in CallType, Begin(c, k),
             k.step \in {"copy", "decide"}, k.row \in Rows,
             k.status \in VerificationStatus,
             UNCHANGED <<listing, rowVars, reviewed>>
      PROVE  LInv'
  <2>1. calls' \in [Calls -> CallType] /\ CallsKnowTheirPart'
    BY <1>0, <1>7, OneCallMoves DEF Begin
  <2>2. disturbed' \in BOOLEAN
    BY <1>0, <1>7 DEF Begin, TypeOK
  <2> QED
    BY <1>0, <1>7, <2>1, <2>2
       DEF LInv, TypeOK, CallType, PublishedIsReviewed, rowVars
<1>8. ASSUME NEW c \in Calls, NEW v \in Rows, BeginResubmit(c, v)
      PROVE  LInv'
  <2> DEFINE k == [Idle EXCEPT !.step = "decide", !.row = v,
                               !.status = "pending"]
  <2>1. "pending" \in VerificationStatus
    BY Transitions DEF ACTIVE_VERIFICATION_STATUSES
  <2>2. k \in CallType /\ k.step = "decide" /\ k.row = v /\ k.status = "pending"
    BY <2>1, IdleIsACall DEF CallType
  <2> QED BY <1>7, <1>8, <2>1, <2>2 DEF BeginResubmit
<1>9. ASSUME NEW c \in Calls, NEW v \in Rows, NEW decision \in Decisions,
             BeginDecision(c, v, decision)
      PROVE  LInv'
  <2> DEFINE s == IF decision = "approved" THEN "copy" ELSE "decide"
             k == [Idle EXCEPT !.row = v, !.status = decision, !.step = s]
  <2>1. decision \in VerificationStatus
    BY Transitions DEF Decisions, ACTIVE_VERIFICATION_STATUSES
  <2>2. k \in CallType /\ k.step \in {"copy", "decide"} /\ k.row = v
        /\ k.status = decision
    BY <2>1, IdleIsACall DEF CallType
  <2> QED BY <1>7, <1>9, <2>1, <2>2 DEF BeginDecision
<1>10. ASSUME NEW c \in Calls, CopyListing(c)
       PROVE  LInv'
  <2> DEFINE k == [calls[c] EXCEPT !.step = "decide",
                                   !.snapshot = listing.content.address]
  <2>1. calls[c] \in CallType /\ listing.content.address \in Snapshot
    BY <1>0 DEF TypeOK, Content, Snapshot
  <2>2. /\ k \in CallType /\ k.step = "decide"
        /\ k.row = calls[c].row /\ k.status = calls[c].status
    BY <2>1 DEF CallType
  <2>3. calls' = [calls EXCEPT ![c] = k]
    BY <1>10 DEF CopyListing
  <2>4. calls[c].row \in Rows /\ calls[c].status \in VerificationStatus
    BY <1>0, <1>10 DEF CopyListing, CallsKnowTheirPart
  <2>5. calls' \in [Calls -> CallType] /\ CallsKnowTheirPart'
    BY <1>0, <2>2, <2>3, <2>4, OneCallMoves
  <2> QED
    BY <1>0, <1>10, <2>5
       DEF CopyListing, LInv, TypeOK, CallType, PublishedIsReviewed, rowVars
<1>11. ASSUME NEW c \in Calls, SaveDecision(c)
       PROVE  LInv'
  <2>1. calls' \in [Calls -> CallType] /\ CallsKnowTheirPart'
    BY <1>0, <1>11, IdleIsACall, OneCallMoves DEF SaveDecision, End
  <2>2. calls[c].row \in Rows /\ calls[c].status \in VerificationStatus
        /\ calls[c].snapshot \in Snapshot
    BY <1>0, <1>11 DEF SaveDecision, CallsKnowTheirPart, CallType
  <2>3. status' \in [Rows -> VerificationStatus]
    BY <1>0, <1>11, <2>2, SavedStatus DEF SaveDecision, TypeOK
  <2>4. snapshot' \in [Rows -> Snapshot]
    BY <1>0, <1>11, <2>2 DEF SaveDecision, TypeOK
  <2> QED
    BY <1>0, <1>11, <2>1, <2>3, <2>4
       DEF SaveDecision, LInv, TypeOK, CallType, PublishedIsReviewed
<1>12. ASSUME NEW c \in Calls, Die(c)
       PROVE  LInv'
  <2>1. calls' \in [Calls -> CallType] /\ CallsKnowTheirPart'
    BY <1>0, <1>12, IdleIsACall, OneCallMoves DEF Die, End
  <2> QED
    BY <1>0, <1>12, <2>1
       DEF Die, LInv, TypeOK, CallType, PublishedIsReviewed, rowVars
<1>13. CASE UNCHANGED vars
  BY <1>0, <1>13
     DEF vars, rowVars, LInv, TypeOK, CallsKnowTheirPart, PublishedIsReviewed
<1> QED
  BY <1>1, <1>2, <1>3, <1>4, <1>5, <1>6, <1>8, <1>9, <1>10, <1>11, <1>12, <1>13
     DEF Next, Moderation, Editing, Verification

LEMMA LInvariance == Spec => []LInv
BY LInit, LStep, PTL DEF Spec

(* The columns keep to the values the endpoints write. *)
THEOREM ListingTypeCorrect == Spec => []TypeOK
<1>1. LInv => TypeOK
  BY DEF LInv
<1> QED BY <1>1, LInvariance, PTL

(* However many edits and approvals overlap, an approved listing shows     *)
(* what was approved.                                                      *)
THEOREM PublishedListingsAreReviewed == Spec => []PublishedIsReviewed
<1>1. LInv => PublishedIsReviewed
  BY DEF LInv
<1> QED BY <1>1, LInvariance, PTL

-----------------------------------------------------------------------------
(* That the snapshot of an approval stays true while calls do not overlap. *)

UniqueActive ==
    \A v, w \in Rows :
        /\ status[v] \in ACTIVE_VERIFICATION_STATUSES
        /\ status[w] \in ACTIVE_VERIFICATION_STATUSES
        => v = w

NoDrift == \A v \in Rows : ~Drifted(v)

(* What a call that is alone knows of the listing and of the row it found. *)
KnowsTheListing(c) ==
    /\ calls[c].step \in {"edit", "copy", "decide"} => NoDrift
    /\ calls[c].step = "edit" =>
          (calls[c].changed <=> calls[c].content.address # listing.content.address)
    /\ calls[c].step = "revert" => status[calls[c].row] = "approved"
    /\ calls[c].step = "decide" /\ calls[c].status = "approved" =>
          calls[c].snapshot = listing.content.address

Alone ==
    ~disturbed =>
        /\ \A c, d \in Calls : calls[c] # Idle /\ calls[d] # Idle => c = d
        /\ Quiet => NoDrift
        /\ \A c \in Calls : KnowsTheListing(c)

DInv == LInv /\ UniqueActive /\ Alone

LEMMA DInit == Init => DInv
<1> SUFFICES ASSUME Init PROVE UniqueActive /\ Alone
  BY LInit DEF DInv
<1>1. \A v \in Rows : status[v] = "absent"
  BY DEF Init
<1>2. UniqueActive /\ NoDrift
  BY <1>1 DEF UniqueActive, NoDrift, Drifted, ACTIVE_VERIFICATION_STATUSES
<1>3. \A c \in Calls : calls[c] = Idle /\ calls[c].step = "idle"
  BY IdleIsACall DEF Init
<1>4. \A c \in Calls : KnowsTheListing(c)
  BY <1>3 DEF KnowsTheListing
<1> QED BY <1>2, <1>3, <1>4 DEF Alone

(* The constraint of the database keeps one request active. *)
LEMMA SavedUnique ==
    ASSUME status \in [Rows -> VerificationStatus], UniqueActive, NEW v \in Rows,
           NEW next \in VerificationStatus, SaveStatus(v, next)
    PROVE  UniqueActive'
<1>1. CASE Fits(v, next)
  <2>1. \A w \in Rows : status'[w] = IF w = v THEN next ELSE status[w]
    BY <1>1, SavedStatus
  <2> QED BY <1>1, <2>1 DEF Fits, UniqueActive
<1>2. CASE ~Fits(v, next)
  BY <1>2 DEF SaveStatus, UniqueActive
<1> QED BY <1>1, <1>2

LEMMA UniqueStep ==
    ASSUME LInv, UniqueActive, [Next]_vars
    PROVE  UniqueActive'
<1>0. status \in [Rows -> VerificationStatus] /\ CallsKnowTheirPart
  BY DEF LInv, TypeOK
<1>1. CASE UNCHANGED status
  BY <1>1 DEF UniqueActive
<1>2. ASSUME NEW c \in Calls, RevertApproval(c)
      PROVE  UniqueActive'
  <2>1. calls[c].row \in Rows /\ "under_review" \in VerificationStatus
    BY <1>0, <1>2, Transitions
       DEF RevertApproval, CallsKnowTheirPart, ACTIVE_VERIFICATION_STATUSES
  <2> QED BY <1>0, <1>2, <2>1, SavedUnique DEF RevertApproval
<1>3. ASSUME NEW v \in Rows, SubmitVerification(v)
      PROVE  UniqueActive'
  <2>1. SaveStatus(v, "pending") /\ "pending" \in VerificationStatus
    BY <1>3, Transitions
       DEF SubmitVerification, SaveStatus, ACTIVE_VERIFICATION_STATUSES
  <2> QED BY <1>0, <2>1, SavedUnique
<1>4. ASSUME NEW v \in Rows, TakeIntoReview(v)
      PROVE  UniqueActive'
  <2>1. status[v] \in ACTIVE_VERIFICATION_STATUSES
    BY <1>4 DEF TakeIntoReview, ACTIVE_VERIFICATION_STATUSES
  <2>2. \A w \in Rows : w # v => status'[w] = status[w]
    BY <1>4, <1>0 DEF TakeIntoReview
  <2> QED BY <2>1, <2>2 DEF UniqueActive
<1>5. ASSUME NEW c \in Calls, SaveDecision(c)
      PROVE  UniqueActive'
  <2>1. calls[c].row \in Rows /\ calls[c].status \in VerificationStatus
    BY <1>0, <1>5 DEF SaveDecision, CallsKnowTheirPart
  <2> QED BY <1>0, <1>5, <2>1, SavedUnique DEF SaveDecision
<1> QED
  BY <1>1, <1>2, <1>3, <1>4, <1>5
     DEF Next, Moderation, Moderate, Editing, Verification, BeginEdit, SaveEdit,
         FindApproved, BeginResubmit, BeginDecision, CopyListing, Die, vars, rowVars

(* A step of one call while all others are idle. *)
LEMMA AloneAfter ==
    ASSUME NEW c \in Calls,
           ~disturbed' => /\ \A d \in Calls \ {c} : calls'[d] = Idle
                          /\ calls'[c] = Idle => NoDrift'
                          /\ KnowsTheListing(c)'
    PROVE  Alone'
<1> SUFFICES ASSUME ~disturbed' PROVE
       /\ \A d, e \in Calls : calls'[d] # Idle /\ calls'[e] # Idle => d = e
       /\ Quiet' => NoDrift'
       /\ \A d \in Calls : KnowsTheListing(d)'
  BY DEF Alone
<1>1. \A d, e \in Calls : calls'[d] # Idle /\ calls'[e] # Idle => d = e
  OBVIOUS
<1>2. Quiet' => NoDrift'
  BY DEF Quiet
<1>3. ASSUME NEW d \in Calls PROVE KnowsTheListing(d)'
  <2>1. CASE d # c
    <3>1. calls'[d].step = "idle"
      BY <2>1, IdleIsACall
    <3> QED BY <3>1 DEF KnowsTheListing
  <2> QED BY <2>1
<1> QED BY <1>1, <1>2, <1>3

LEMMA AloneStep ==
    ASSUME DInv, [Next]_vars
    PROVE  Alone'
<1>0. /\ TypeOK /\ CallsKnowTheirPart /\ calls \in [Calls -> CallType]
      /\ UniqueActive /\ Alone /\ status \in [Rows -> VerificationStatus]
      /\ snapshot \in [Rows -> Snapshot]
  BY DEF DInv, LInv, TypeOK, CallType
(* Steps that leave the calls alone and make no row approved. *)
<1>1. ASSUME UNCHANGED <<calls, disturbed, snapshot>>,
             listing'.content = listing.content,
             \A v \in Rows : /\ status[v] = "approved" => status'[v] = "approved"
                             /\ status'[v] = "approved" => status[v] = "approved"
      PROVE  Alone'
  <2> SUFFICES ASSUME ~disturbed' PROVE Alone'
    BY DEF Alone
  <2>1. NoDrift => NoDrift'
    BY <1>1 DEF NoDrift, Drifted
  <2>2. ASSUME NEW d \in Calls PROVE KnowsTheListing(d)'
    BY <1>0, <1>1, <2>1 DEF KnowsTheListing, Alone, CallsKnowTheirPart
  <2> QED BY <1>0, <1>1, <2>1, <2>2 DEF Alone, Quiet
<1>2. ASSUME NEW next \in {"pending_review", "approved", "rejected"},
             Moderate(next)
      PROVE  Alone'
  <2>1. listing'.content = listing.content
    BY <1>0, <1>2 DEF Moderate, TypeOK
  <2> QED BY <1>1, <1>2, <2>1 DEF Moderate, rowVars
<1>3. ASSUME NEW v \in Rows, SubmitVerification(v) \/ TakeIntoReview(v)
      PROVE  Alone'
  BY <1>0, <1>1, <1>3 DEF SubmitVerification, TakeIntoReview
(* Steps that begin a call: it is alone, or the history says so. *)
<1>4. ASSUME NEW c \in Calls, NEW k \in CallType, Begin(c, k),
             k.step \in {"edit", "copy", "decide"},
             k.step = "edit" =>
                (k.changed <=> k.content.address # listing.content.address),
             k.step = "decide" => k.status # "approved",
             UNCHANGED <<listing, rowVars, reviewed>>
      PROVE  Alone'
  <2>1. calls'[c] = k /\ \A d \in Calls : d # c => calls'[d] = calls[d]
    BY <1>0, <1>4 DEF Begin
  <2>2. k # Idle
    BY <1>4, IdleIsACall
  <2>3. ASSUME ~disturbed' PROVE Quiet /\ ~disturbed
    BY <2>3, <1>4 DEF Begin, Quiet
  <2>4. ASSUME ~disturbed' PROVE NoDrift'
    BY <2>3, <2>4, <1>0, <1>4 DEF Alone, NoDrift, Drifted, rowVars
  <2>5. ASSUME ~disturbed' PROVE KnowsTheListing(c)'
    BY <2>1, <2>4, <2>5, <1>4 DEF KnowsTheListing
  <2>6. ASSUME ~disturbed' PROVE \A d \in Calls \ {c} : calls'[d] = Idle
    BY <2>1, <2>3, <2>6 DEF Quiet
  <2> QED BY <2>4, <2>5, <2>6, AloneAfter
<1>5. ASSUME NEW c \in Calls, NEW new \in Content, BeginEdit(c, new)
      PROVE  Alone'
  <2> DEFINE k == [Idle EXCEPT !.step = "edit", !.content = new,
                               !.status = StatusAfterEdit,
                               !.changed = ChangesMaterial(new)]
  <2>1. StatusAfterEdit \in ListingStatus /\ ChangesMaterial(new) \in BOOLEAN
    BY <1>0 DEF StatusAfterEdit, ChangesMaterial, TypeOK, ListingStatus
  <2>2. /\ k \in CallType /\ k.step = "edit" /\ k.content = new
        /\ k.changed = ChangesMaterial(new)
    BY <2>1, IdleIsACall DEF CallType, Content, Snapshot
  <2> QED BY <1>4, <1>5, <2>2 DEF BeginEdit, ChangesMaterial
<1>6. ASSUME NEW c \in Calls, NEW v \in Rows, BeginResubmit(c, v)
      PROVE  Alone'
  <2> DEFINE k == [Idle EXCEPT !.step = "decide", !.row = v,
                               !.status = "pending"]
  <2>1. "pending" \in VerificationStatus
    BY Transitions DEF ACTIVE_VERIFICATION_STATUSES
  <2>2. k \in CallType /\ k.step = "decide" /\ k.status = "pending"
    BY <2>1, IdleIsACall DEF CallType
  <2> QED BY <1>4, <1>6, <2>2 DEF BeginResubmit
<1>7. ASSUME NEW c \in Calls, NEW v \in Rows, NEW decision \in Decisions,
             BeginDecision(c, v, decision)
      PROVE  Alone'
  <2> DEFINE s == IF decision = "approved" THEN "copy" ELSE "decide"
             k == [Idle EXCEPT !.row = v, !.status = decision, !.step = s]
  <2>1. decision \in VerificationStatus
    BY Transitions DEF Decisions, ACTIVE_VERIFICATION_STATUSES
  <2>2. k \in CallType /\ k.step = s /\ k.status = decision
    BY <2>1, IdleIsACall DEF CallType
  <2>3. Begin(c, k) /\ UNCHANGED <<listing, rowVars, reviewed>>
    BY <1>7 DEF BeginDecision
  <2> HIDE DEF k
  <2> QED BY <1>4, <2>2, <2>3
(* Steps of a call in progress. *)
<1>8. ASSUME NEW c \in Calls, calls[c].step # "idle", ~disturbed
      PROVE  \A d \in Calls \ {c} : calls[d] = Idle
  BY <1>0, <1>8, IdleIsACall DEF Alone
<1>9. ASSUME NEW c \in Calls, calls[c].step # "idle", NEW k \in CallType,
             calls' = [calls EXCEPT ![c] = k], UNCHANGED disturbed,
             ~disturbed => KnowsTheListing(c)' /\ (k.step = "idle" => NoDrift')
      PROVE  Alone'
  <2>1. calls'[c] = k /\ \A d \in Calls : d # c => calls'[d] = calls[d]
    BY <1>0, <1>9
  <2>2. ASSUME ~disturbed' PROVE \A d \in Calls \ {c} : calls'[d] = Idle
    BY <1>8, <1>9, <2>1, <2>2
  <2>3. ASSUME ~disturbed', calls'[c] = Idle PROVE NoDrift'
    BY <1>9, <2>1, <2>3, IdleIsACall
  <2> QED BY <1>9, <2>2, <2>3, AloneAfter
<1>10. ASSUME NEW c \in Calls, NEW k \in CallType,
              calls' = [calls EXCEPT ![c] = k], k.step \in {"saved", "idle"}
       PROVE  KnowsTheListing(c)'
  <2>1. calls'[c] = k
    BY <1>0, <1>10
  <2> QED BY <1>10, <2>1 DEF KnowsTheListing
<1>11. ASSUME NEW c \in Calls, SaveEdit(c)
       PROVE  Alone'
  <2> DEFINE k == IF calls[c].changed THEN [Idle EXCEPT !.step = "saved"]
                                      ELSE Idle
  <2>1. /\ k \in CallType
        /\ k.step = IF calls[c].changed THEN "saved" ELSE "idle"
    BY IdleIsACall DEF CallType
  <2>2. /\ calls' = [calls EXCEPT ![c] = k] /\ calls[c].step = "edit"
        /\ listing'.content = calls[c].content
        /\ UNCHANGED <<status, snapshot, disturbed>>
    BY <1>11 DEF SaveEdit, rowVars
  <2>3. ASSUME ~disturbed, k.step = "idle" PROVE NoDrift'
    <3>1. ~calls[c].changed
      BY <2>1, <2>3
    <3>2. NoDrift /\ calls[c].content.address = listing.content.address
      BY <1>0, <2>2, <2>3, <3>1 DEF Alone, KnowsTheListing
    <3> QED BY <2>2, <3>2 DEF NoDrift, Drifted
  <2>4. KnowsTheListing(c)'
    BY <1>10, <2>1, <2>2
  <2> QED BY <1>9, <2>1, <2>2, <2>3, <2>4
<1>12. ASSUME NEW c \in Calls, FindApproved(c)
       PROVE  Alone'
  <2>0. calls[c].step = "saved" /\ UNCHANGED <<listing, status, snapshot, disturbed>>
    BY <1>12 DEF FindApproved, rowVars
  <2>1. ASSUME NEW v \in Rows, status[v] = "approved",
               calls' = [calls EXCEPT ![c].step = "revert", ![c].row = v]
        PROVE  Alone'
    <3> DEFINE k == [calls[c] EXCEPT !.step = "revert", !.row = v]
    <3>1. calls[c] \in CallType
      BY <1>0
    <3>2. k \in CallType /\ k.step = "revert" /\ k.row = v
      BY <3>1 DEF CallType
    <3>3. calls' = [calls EXCEPT ![c] = k] /\ calls'[c] = k
      BY <1>0, <2>1
    <3>4. KnowsTheListing(c)'
      BY <2>0, <2>1, <3>2, <3>3 DEF KnowsTheListing
    <3> QED BY <1>9, <2>0, <3>2, <3>3, <3>4
  <2>2. ASSUME \A v \in Rows : status[v] # "approved", End(c)
        PROVE  Alone'
    <3>1. NoDrift'
      BY <2>0, <2>2 DEF NoDrift, Drifted
    <3>2. calls' = [calls EXCEPT ![c] = Idle]
      BY <2>2 DEF End
    <3>3. KnowsTheListing(c)'
      BY <1>10, <3>2, IdleIsACall
    <3> QED BY <1>9, <2>0, <3>1, <3>2, <3>3, IdleIsACall
  <2> QED BY <1>12, <2>1, <2>2 DEF FindApproved
<1>13. ASSUME NEW c \in Calls, RevertApproval(c)
       PROVE  Alone'
  <2>1. /\ calls[c].step = "revert" /\ calls[c].row \in Rows
        /\ SaveStatus(calls[c].row, "under_review")
        /\ "under_review" \in VerificationStatus
        /\ calls' = [calls EXCEPT ![c] = Idle]
        /\ UNCHANGED <<listing, snapshot, disturbed>>
    BY <1>0, <1>13, Transitions
       DEF RevertApproval, CallsKnowTheirPart, End, ACTIVE_VERIFICATION_STATUSES
  <2>2. ASSUME ~disturbed PROVE NoDrift'
    <3>1. status[calls[c].row] = "approved"
      BY <1>0, <2>1, <2>2 DEF Alone, KnowsTheListing
    <3>2. \A w \in Rows \ {calls[c].row} :
             status[w] \notin ACTIVE_VERIFICATION_STATUSES
      BY <1>0, <2>1, <3>1 DEF UniqueActive, ACTIVE_VERIFICATION_STATUSES
    <3>3. Fits(calls[c].row, "under_review")
      BY <3>2 DEF Fits
    <3>4. status'[calls[c].row] = "under_review"
          /\ \A w \in Rows : w # calls[c].row => status'[w] = status[w]
      BY <1>0, <2>1, <3>3, SavedStatus
    <3>5. \A w \in Rows : status'[w] # "approved"
      BY <3>2, <3>4 DEF ACTIVE_VERIFICATION_STATUSES
    <3> QED BY <3>5 DEF NoDrift, Drifted
  <2>3. KnowsTheListing(c)'
    BY <1>10, <2>1, IdleIsACall
  <2> QED BY <1>9, <2>1, <2>2, <2>3, IdleIsACall
<1>14. ASSUME NEW c \in Calls, CopyListing(c)
       PROVE  Alone'
  <2> DEFINE k == [calls[c] EXCEPT !.step = "decide",
                                   !.snapshot = listing.content.address]
  <2>1. calls[c] \in CallType /\ listing.content.address \in Snapshot
    BY <1>0 DEF TypeOK, Content, Snapshot
  <2>2. /\ k \in CallType /\ k.step = "decide"
        /\ k.snapshot = listing.content.address
    BY <2>1 DEF CallType
  <2>3. /\ calls[c].step = "copy"
        /\ calls' = [calls EXCEPT ![c] = k] /\ calls'[c] = k
        /\ UNCHANGED <<listing, status, snapshot, disturbed>>
    BY <1>0, <1>14 DEF CopyListing, rowVars
  <2>4. ASSUME ~disturbed PROVE KnowsTheListing(c)'
    <3>1. NoDrift
      BY <1>0, <2>3, <2>4 DEF Alone, KnowsTheListing
    <3>2. NoDrift'
      BY <2>3, <3>1 DEF NoDrift, Drifted
    <3> QED BY <2>2, <2>3, <3>2 DEF KnowsTheListing
  <2> QED BY <1>9, <2>2, <2>3, <2>4
<1>15. ASSUME NEW c \in Calls, SaveDecision(c)
       PROVE  Alone'
  <2> DEFINE v == calls[c].row
             next == calls[c].status
  <2>1. /\ calls[c].step = "decide" /\ v \in Rows /\ next \in VerificationStatus
        /\ SaveStatus(v, next)
        /\ calls' = [calls EXCEPT ![c] = Idle]
        /\ UNCHANGED <<listing, disturbed>>
    BY <1>0, <1>15 DEF SaveDecision, CallsKnowTheirPart, End
  <2>2. ASSUME ~disturbed PROVE NoDrift'
    <3>1. NoDrift /\ (next = "approved" =>
                          calls[c].snapshot = listing.content.address)
      BY <1>0, <2>1, <2>2 DEF Alone, KnowsTheListing
    <3>2. ASSUME NEW w \in Rows PROVE ~Drifted(w)'
      <4>1. CASE w # v
        BY <1>0, <1>15, <2>1, <3>1, <4>1, SavedStatus
           DEF SaveDecision, NoDrift, Drifted
      <4>2. CASE w = v /\ Fits(v, next) /\ next = "approved"
        <5>1. snapshot'[v] = listing.content.address
          BY <1>0, <1>15, <2>1, <3>1, <4>2 DEF SaveDecision
        <5> QED BY <2>1, <4>2, <5>1 DEF Drifted
      <4>3. CASE w = v /\ Fits(v, next) /\ next # "approved"
        BY <1>0, <2>1, <4>3, SavedStatus DEF Drifted
      <4>4. CASE w = v /\ ~Fits(v, next)
        <5>1. snapshot' = snapshot /\ status' = status
          BY <1>15, <2>1, <4>4 DEF SaveDecision, SaveStatus
        <5> QED BY <2>1, <3>1, <5>1 DEF NoDrift, Drifted
      <4> QED BY <4>1, <4>2, <4>3, <4>4
    <3> QED BY <3>2 DEF NoDrift
  <2>3. KnowsTheListing(c)'
    BY <1>10, <2>1, IdleIsACall
  <2> QED BY <1>9, <2>1, <2>2, <2>3, IdleIsACall
<1>16. ASSUME NEW c \in Calls, Die(c)
       PROVE  Alone'
  BY <1>16 DEF Die, Alone
<1>17. CASE UNCHANGED vars
  BY <1>0, <1>1, <1>17 DEF vars, rowVars
<1> QED
  BY <1>2, <1>3, <1>5, <1>6, <1>7, <1>11, <1>12, <1>13, <1>14, <1>15, <1>16, <1>17
     DEF Next, Moderation, Editing, Verification

(* As long as no two calls overlap and none dies half way, the approved    *)
(* verification vouches for the listing as it stands.                      *)
THEOREM DriftComesFromOverlap == Spec => []DriftNeedsOverlap
<1>1. DInv /\ [Next]_vars => DInv'
  BY LStep, UniqueStep, AloneStep DEF DInv
<1>2. DInv => DriftNeedsOverlap
  BY DEF DInv, Alone, NoDrift, DriftNeedsOverlap
<1> QED BY DInit, <1>1, <1>2, PTL DEF Spec

-----------------------------------------------------------------------------
(* The lead.  Calls that overlap can undo each other's moves, so what they *)
(* loaded is remembered as true only while a call is alone; the follow-ups *)
(* and the agent's entitlement only grow, and need no such condition.      *)

InquiryStatus == DOMAIN Lead!ValidStatus
LeadStage == DOMAIN Lead!ValidStage
ViewingStatus == DOMAIN Lead!ValidViewing
ApplicationStatus == DOMAIN Lead!ValidApplication

LeadNext == InquiryStatus \cup LeadStage \cup ViewingStatus \cup ApplicationStatus
                \cup {"none", "agent", "nobody"}

LeadCall == [step : {"idle", "status", "stage", "log", "count", "view", "decide", "details",
                     "contact", "schedule", "end", "apply", "review", "assign"},
             next : LeadNext,
             status : InquiryStatus,
             row : Viewings \cup {NoViewing} \cup Rows,
             count : Nat]

LeadRows ==
    /\ inquiry \in [status : InquiryStatus, stage : LeadStage, count : Nat, assigned : BOOLEAN]
    /\ viewings \in [Viewings -> [status : ViewingStatus \cup {"absent"}, fixed : BOOLEAN]]
    /\ applications \in [Rows -> [status : ApplicationStatus \cup {"absent"},
                                  viewing : Viewings \cup {NoViewing}]]
    /\ \A a \in Rows : applications[a].status = "absent" =>
                           applications[a] = Lead!NoApplication
    /\ followUps \in Nat /\ inquiry.count <= followUps
    /\ grant \in [status : {"absent", "pending", "active", "revoked"}, expired : BOOLEAN]
    /\ verified \in BOOLEAN /\ entitled \in BOOLEAN
    /\ Lead!Capable => entitled
    /\ inquiry.assigned => entitled

CarriesLead(k) ==
    /\ k.step = "idle" => k = Lead!Idle
    /\ k.count <= followUps
    /\ k.step = "count" => k.count + 1 <= followUps
    /\ k.step = "assign" /\ k.next = "agent" => entitled
    /\ k.step = "status" => k.next \in InquiryStatus
    /\ k.step = "stage" => k.next \in LeadStage
    /\ k.step \in {"view", "decide", "details", "end"} => k.row \in Viewings
    /\ k.step \in {"decide", "end"} => k.next \in ViewingStatus
    /\ k.step = "apply" => k.row \in Viewings \cup {NoViewing}
    /\ k.step = "review" => k.row \in Rows /\ k.next \in ApplicationStatus

OneActive ==
    \A a, b \in Rows :
        /\ applications[a].status \in Lead!ActiveApplication
        /\ applications[b].status \in Lead!ActiveApplication
        => a = b

ViewingsStand ==
    \A a \in Rows : applications[a].viewing # NoViewing =>
        viewings[applications[a].viewing].status \in {"confirmed", "completed", "cancelled"}

LeadAlone ==
    /\ \A c, d \in Calls : work[c].step # "idle" /\ work[d].step # "idle" => c = d
    /\ OneActive
    /\ ViewingsStand
    /\ (\A c \in Calls : work[c].step # "count") => inquiry.count = followUps

StillOpen(k) ==
    /\ k.step = "status" => k.next \in Lead!ValidStatus[inquiry.status]
    /\ k.step = "stage" => k.next \in Lead!ValidStage[inquiry.stage]
    /\ k.step = "log" => k.count = followUps
    /\ k.step = "count" => k.count + 1 = followUps
    /\ k.step = "view" => viewings[k.row].status = "absent"
    /\ k.step \in {"decide", "details"} => k.status = inquiry.status
    /\ k.step = "decide" =>
          k.next \in {viewings[k.row].status} \cup Lead!ValidViewing[viewings[k.row].status]
    /\ k.step = "contact" => inquiry.status = "new"
    /\ k.step = "schedule" => inquiry.status = "contacted"
    /\ k.step = "end" => k.next \in Lead!ValidViewing[viewings[k.row].status]
    /\ k.step = "apply" =>
          /\ \A a \in Rows : applications[a].status \notin Lead!ActiveApplication
          /\ k.row # NoViewing => viewings[k.row].status \in {"confirmed", "completed"}
    /\ k.step = "review" =>
          /\ applications[k.row].status \in ApplicationStatus
          /\ k.next \in Lead!ValidApplication[applications[k.row].status]

LeadInv ==
    /\ LeadRows
    /\ work \in [Calls -> LeadCall] /\ overlapped \in BOOLEAN
    /\ \A c \in Calls : CarriesLead(work[c])
    /\ ~overlapped => LeadAlone /\ \A c \in Calls : StillOpen(work[c])

(* What the tables of transitions allow.                                   *)
LEMMA LeadTables ==
    /\ InquiryStatus = {"new", "contacted", "viewing_scheduled", "negotiating", "converted",
                        "closed"}
    /\ LeadStage = {"new", "contacted", "qualified", "viewing_scheduled",
                    "application_started", "application_submitted", "negotiating",
                    "converted", "closed_lost"}
    /\ ViewingStatus = {"requested", "rescheduled", "confirmed", "completed", "cancelled"}
    /\ ApplicationStatus = {"submitted", "under_review", "approved", "rejected", "withdrawn"}
BY DEF InquiryStatus, LeadStage, ViewingStatus, ApplicationStatus, Lead!ValidStatus,
       Lead!ValidStage, Lead!ValidViewing, Lead!ValidApplication

LEMMA EndsAreFinal ==
    /\ Lead!ValidStatus["closed"] = {} /\ Lead!ValidStatus["converted"] = {}
    /\ Lead!ValidStage["closed_lost"] = {} /\ Lead!ValidStage["converted"] = {}
    /\ Lead!ValidViewing["completed"] = {} /\ Lead!ValidViewing["cancelled"] = {}
    /\ Lead!ValidViewing["confirmed"] = {"completed", "cancelled"}
BY DEF Lead!ValidStatus, Lead!ValidStage, Lead!ValidViewing

LEMMA ActiveBefore ==
    \A s \in ApplicationStatus : \A next \in Lead!ValidApplication[s] :
        /\ s \in Lead!ActiveApplication
        /\ next \in ApplicationStatus
<1>1. /\ Lead!ValidApplication["submitted"] = {"under_review", "withdrawn"}
      /\ Lead!ValidApplication["under_review"] = {"approved", "rejected", "withdrawn"}
      /\ Lead!ValidApplication["approved"] = {} /\ Lead!ValidApplication["rejected"] = {}
      /\ Lead!ValidApplication["withdrawn"] = {}
  BY DEF Lead!ValidApplication
<1> QED
  BY <1>1, LeadTables DEF Lead!ActiveApplication

LEMMA LeadIdle ==
    /\ Lead!Idle \in LeadCall /\ Lead!Idle.step = "idle" /\ Lead!Idle.count = 0
BY LeadTables DEF Lead!Idle, LeadCall, LeadNext

LEMMA LeadInit == Lead!Init => LeadInv
<1> SUFFICES ASSUME Lead!Init PROVE LeadInv
  OBVIOUS
<1>1. work \in [Calls -> LeadCall] /\ \A c \in Calls : work[c] = Lead!Idle
  BY LeadIdle DEF Lead!Init
<1>2. LeadRows
  <2>1. inquiry \in [status : InquiryStatus, stage : LeadStage, count : Nat, assigned : BOOLEAN]
        /\ inquiry.count <= followUps /\ followUps \in Nat /\ ~inquiry.assigned
    BY LeadTables DEF Lead!Init
  <2>2. viewings \in [Viewings -> [status : ViewingStatus \cup {"absent"}, fixed : BOOLEAN]]
    BY DEF Lead!Init, Lead!Absent
  <2>3. /\ applications \in [Rows -> [status : ApplicationStatus \cup {"absent"},
                                      viewing : Viewings \cup {NoViewing}]]
        /\ \A a \in Rows : applications[a] = Lead!NoApplication
    BY DEF Lead!Init, Lead!NoApplication
  <2>4. /\ grant \in [status : {"absent", "pending", "active", "revoked"}, expired : BOOLEAN]
        /\ verified \in BOOLEAN /\ entitled \in BOOLEAN /\ ~Lead!Capable
    BY DEF Lead!Init, Lead!Capable
  <2> QED
    BY <2>1, <2>2, <2>3, <2>4 DEF LeadRows
<1>3. \A c \in Calls : CarriesLead(work[c]) /\ StillOpen(work[c])
  <2>1. followUps = 0
    BY DEF Lead!Init
  <2>2. CarriesLead(Lead!Idle) /\ StillOpen(Lead!Idle)
    BY <2>1, LeadIdle DEF CarriesLead, StillOpen
  <2> QED
    BY <1>1, <2>2
<1>4. LeadAlone
  BY <1>1, LeadIdle
  DEF LeadAlone, OneActive, ViewingsStand, Lead!Init, Lead!NoApplication,
      Lead!ActiveApplication
<1> QED
  BY <1>1, <1>2, <1>3, <1>4 DEF LeadInv, Lead!Init

(* One call moves on to k; the rows are as the invariant demands.          *)
LEMMA LeadMoves ==
    ASSUME LeadInv, NEW c \in Calls, NEW k \in LeadCall,
           work' = [work EXCEPT ![c] = k],
           \/ work[c] # Lead!Idle /\ overlapped' = overlapped
           \/ /\ work[c] = Lead!Idle
              /\ overlapped' = (overlapped \/ \E d \in Calls : work[d] # Lead!Idle),
           LeadRows', followUps <= followUps', entitled => entitled',
           CarriesLead(k)',
           ~overlapped' =>
               /\ OneActive' /\ ViewingsStand' /\ StillOpen(k)'
               /\ k.step # "count" => inquiry'.count = followUps'
    PROVE  LeadInv'
<1>1. work \in [Calls -> LeadCall] /\ \A d \in Calls : CarriesLead(work[d])
  BY DEF LeadInv
<1>2. \A d \in Calls : work'[d] = IF d = c THEN k ELSE work[d]
  BY <1>1
<1>3. work' \in [Calls -> LeadCall] /\ overlapped' \in BOOLEAN
  BY <1>1 DEF LeadInv
<1>4. \A d \in Calls : CarriesLead(work[d])'
  <2> SUFFICES ASSUME NEW d \in Calls, d # c PROVE CarriesLead(work[d])'
    BY <1>2
  <2>1. work'[d] = work[d] /\ work[d] \in LeadCall /\ CarriesLead(work[d])
    BY <1>1, <1>2
  <2>2. work[d].count \in Nat /\ followUps \in Nat /\ followUps' \in Nat
    BY <2>1 DEF LeadCall, LeadRows, LeadInv
  <2> QED
    BY <2>1, <2>2 DEF CarriesLead
<1>5. ASSUME ~overlapped' PROVE LeadAlone' /\ \A d \in Calls : StillOpen(work[d])'
  <2>1. ~overlapped /\ \A d \in Calls : d # c => work[d].step = "idle"
    <3>1. CASE work[c] = Lead!Idle
      BY <1>5, <3>1, LeadIdle
    <3>2. CASE work[c] # Lead!Idle
      BY <1>1, <1>5, <3>2 DEF CarriesLead, LeadInv, LeadAlone
    <3> QED
      BY <3>1, <3>2
  <2>2. LeadAlone'
    BY <1>2, <1>5, <2>1 DEF LeadAlone
  <2> QED
    BY <1>2, <1>5, <2>1, <2>2 DEF StillOpen
<1> QED
  BY <1>3, <1>4, <1>5 DEF LeadInv

(* A call begins with the inquiry that it loaded.                          *)
LEMMA LeadBegin ==
    ASSUME LeadInv, NEW c \in Calls, NEW next \in LeadNext,
           NEW step \in {"status", "stage", "log", "view", "decide", "end", "apply", "review",
                         "assign"},
           NEW row \in Viewings \cup {NoViewing} \cup Rows,
           Lead!Begin(c, step, next, row),
           step = "assign" /\ next = "agent" => entitled,
           step = "status" => next \in Lead!ValidStatus[inquiry.status] \cap InquiryStatus,
           step = "stage" => next \in Lead!ValidStage[inquiry.stage] \cap LeadStage,
           step \in {"view", "decide", "end"} => row \in Viewings,
           step = "view" => viewings[row].status = "absent",
           step \in {"decide", "end"} => next \in ViewingStatus,
           step = "decide" =>
               next \in {viewings[row].status} \cup Lead!ValidViewing[viewings[row].status],
           step = "end" => next \in Lead!ValidViewing[viewings[row].status],
           step = "apply" =>
               /\ row \in Viewings \cup {NoViewing}
               /\ \A a \in Rows : applications[a].status \notin Lead!ActiveApplication
               /\ row # NoViewing => viewings[row].status \in {"confirmed", "completed"},
           step = "review" =>
               /\ row \in Rows /\ next \in ApplicationStatus
               /\ applications[row].status \in ApplicationStatus
               /\ next \in Lead!ValidApplication[applications[row].status]
    PROVE  LeadInv'
<1>1. LeadRows /\ inquiry.status \in InquiryStatus /\ inquiry.count \in Nat
      /\ followUps \in Nat /\ inquiry.count <= followUps
  BY DEF LeadInv, LeadRows
<1>2. PICK k \in LeadCall : k = [step |-> step, next |-> next, row |-> row,
                                 status |-> inquiry.status, count |-> inquiry.count]
  BY <1>1 DEF LeadCall
<1>3. /\ k.step = step /\ k.next = next /\ k.row = row
      /\ k.status = inquiry.status /\ k.count = inquiry.count
  BY <1>2
<1>4. /\ work[c] = Lead!Idle /\ work' = [work EXCEPT ![c] = k]
      /\ overlapped' = (overlapped \/ \E d \in Calls : work[d] # Lead!Idle)
      /\ UNCHANGED <<inquiry, viewings, applications, followUps, grant, verified, entitled>>
  BY <1>2 DEF Lead!Begin, Lead!rows, Lead!team
<1>5. LeadRows' /\ followUps <= followUps'
  BY <1>1, <1>4 DEF LeadRows, Lead!Capable
<1>6. CarriesLead(k)'
  BY <1>1, <1>3, <1>4 DEF CarriesLead
<1>7. ASSUME ~overlapped'
      PROVE  /\ OneActive' /\ ViewingsStand' /\ StillOpen(k)'
             /\ inquiry'.count = followUps'
  <2>1. LeadAlone /\ \A d \in Calls : work[d].step # "count"
    BY <1>4, <1>7, LeadIdle DEF LeadInv
  <2>2. inquiry.count = followUps /\ OneActive' /\ ViewingsStand'
    BY <1>4, <2>1 DEF LeadAlone, OneActive, ViewingsStand
  <2> QED
    BY <1>3, <1>4, <2>2 DEF StillOpen
<1> QED
  BY <1>4, <1>5, <1>6, <1>7, LeadMoves

LEMMA LeadBegins ==
    ASSUME LeadInv, NEW c \in Calls,
           \/ \E next \in InquiryStatus : Lead!BeginStatus(c, next)
           \/ \E next \in LeadStage : Lead!BeginStage(c, next)
           \/ Lead!BeginLog(c)
           \/ \E next \in {"agent", "nobody"} : Lead!BeginAssign(c, next)
           \/ \E v \in Viewings :
                 \/ Lead!BeginViewing(c, v)
                 \/ \E next \in {"confirmed", "rescheduled"} : Lead!BeginDecision(c, v, next)
                 \/ \E next \in {"completed", "cancelled"} : Lead!BeginEnding(c, v, next)
           \/ \E v \in Viewings \cup {NoViewing} : Lead!BeginApplication(c, v)
           \/ \E a \in Rows : \E next \in ApplicationStatus : Lead!BeginReview(c, a, next)
    PROVE  LeadInv'
<1>0. /\ InquiryStatus \subseteq LeadNext /\ LeadStage \subseteq LeadNext
      /\ ViewingStatus \subseteq LeadNext /\ ApplicationStatus \subseteq LeadNext
      /\ {"none", "agent", "nobody"} \subseteq LeadNext
      /\ {"confirmed", "rescheduled", "completed", "cancelled"} \subseteq ViewingStatus
  BY LeadTables DEF LeadNext
<1>1. ASSUME NEW next \in InquiryStatus, Lead!BeginStatus(c, next) PROVE LeadInv'
  <2>1. Lead!Begin(c, "status", next, NoViewing) /\ next \in Lead!ValidStatus[inquiry.status]
    BY <1>1 DEF Lead!BeginStatus
  <2> QED
    BY <1>0, <2>1, LeadBegin
<1>2. ASSUME NEW next \in LeadStage, Lead!BeginStage(c, next) PROVE LeadInv'
  <2>1. Lead!Begin(c, "stage", next, NoViewing) /\ next \in Lead!ValidStage[inquiry.stage]
    BY <1>2 DEF Lead!BeginStage
  <2> QED
    BY <1>0, <2>1, LeadBegin
<1>3. ASSUME Lead!BeginLog(c) PROVE LeadInv'
  <2>1. Lead!Begin(c, "log", "none", NoViewing)
    BY <1>3 DEF Lead!BeginLog
  <2> QED
    BY <1>0, <2>1, LeadBegin
<1>4. ASSUME NEW next \in {"agent", "nobody"}, Lead!BeginAssign(c, next) PROVE LeadInv'
  <2>1. Lead!Begin(c, "assign", next, NoViewing) /\ (next = "agent" => entitled)
    BY <1>4 DEF Lead!BeginAssign, LeadInv, LeadRows
  <2> QED
    BY <1>0, <2>1, LeadBegin
<1>5. ASSUME NEW v \in Viewings, Lead!BeginViewing(c, v) PROVE LeadInv'
  <2>1. Lead!Begin(c, "view", "none", v) /\ viewings[v].status = "absent"
    BY <1>5 DEF Lead!BeginViewing, Lead!Absent
  <2> QED
    BY <1>0, <2>1, LeadBegin
<1>6. ASSUME NEW v \in Viewings, NEW next \in {"confirmed", "rescheduled"},
             Lead!BeginDecision(c, v, next)
      PROVE  LeadInv'
  <2>1. /\ Lead!Begin(c, "decide", next, v)
        /\ next \in {viewings[v].status} \cup Lead!ValidViewing[viewings[v].status]
    BY <1>6 DEF Lead!BeginDecision, Lead!MayMove
  <2>2. next \in ViewingStatus /\ next \in LeadNext
    BY <1>0
  <2> QED
    BY <2>1, <2>2, LeadBegin
<1>7. ASSUME NEW v \in Viewings, NEW next \in {"completed", "cancelled"},
             Lead!BeginEnding(c, v, next)
      PROVE  LeadInv'
  <2>1. /\ Lead!Begin(c, "end", next, v)
        /\ next \in Lead!ValidViewing[viewings[v].status]
    BY <1>7 DEF Lead!BeginEnding
  <2>2. next \in ViewingStatus /\ next \in LeadNext
    BY <1>0
  <2> QED
    BY <2>1, <2>2, LeadBegin
<1>8. ASSUME NEW v \in Viewings \cup {NoViewing}, Lead!BeginApplication(c, v) PROVE LeadInv'
  <2>1. /\ Lead!Begin(c, "apply", "none", v)
        /\ v # NoViewing => viewings[v].status \in {"confirmed", "completed"}
    BY <1>8 DEF Lead!BeginApplication, Lead!MayLink
  <2>2. \A a \in Rows : applications[a].status \notin Lead!ActiveApplication
    BY <1>8 DEF Lead!BeginApplication, Lead!MayApply, Lead!ActiveApplications
  <2> QED
    BY <1>0, <2>1, <2>2, LeadBegin
<1>9. ASSUME NEW a \in Rows, NEW next \in ApplicationStatus, Lead!BeginReview(c, a, next)
      PROVE  LeadInv'
  <2>1. /\ Lead!Begin(c, "review", next, a)
        /\ next \in Lead!ValidApplication[applications[a].status]
        /\ applications[a].status \in ApplicationStatus
    BY <1>9 DEF Lead!BeginReview, LeadInv, LeadRows
  <2> QED
    BY <1>0, <2>1, LeadBegin
<1> QED
  BY <1>1, <1>2, <1>3, <1>4, <1>5, <1>6, <1>7, <1>8, <1>9

(* A call ends.                                                            *)
LEMMA LeadEnds ==
    ASSUME LeadInv, NEW c \in Calls, NEW from, from # "idle", Lead!Go(c, from, "idle"),
           LeadRows', followUps <= followUps', entitled => entitled',
           ~overlapped => OneActive' /\ ViewingsStand' /\ inquiry'.count = followUps'
    PROVE  LeadInv'
<1>1. /\ work' = [work EXCEPT ![c] = Lead!Idle] /\ overlapped' = overlapped
      /\ work[c] # Lead!Idle
  BY LeadIdle DEF Lead!Go
<1>2. followUps' \in Nat
  BY DEF LeadRows
<1>3. CarriesLead(Lead!Idle)' /\ StillOpen(Lead!Idle)'
  BY <1>2, LeadIdle DEF CarriesLead, StillOpen
<1> QED
  BY <1>1, <1>3, LeadIdle, LeadMoves

(* A call goes on, with what it carried so far.                            *)
LEMMA LeadGoes ==
    ASSUME LeadInv, NEW c \in Calls, NEW from, from # "idle",
           NEW to \in {"count", "details", "contact", "schedule"}, Lead!Go(c, from, to),
           LeadRows', followUps <= followUps', entitled => entitled',
           to = "count" => work[c].count + 1 <= followUps',
           to = "details" => work[c].row \in Viewings,
           ~overlapped =>
               /\ OneActive' /\ ViewingsStand'
               /\ to # "count" => inquiry'.count = followUps'
               /\ to = "count" => work[c].count + 1 = followUps'
               /\ to = "details" => work[c].status = inquiry'.status
               /\ to = "contact" => inquiry'.status = "new"
               /\ to = "schedule" => inquiry'.status = "contacted"
    PROVE  LeadInv'
<1>1. work[c] \in LeadCall /\ work \in [Calls -> LeadCall] /\ CarriesLead(work[c])
      /\ followUps \in Nat
  BY DEF LeadInv, LeadRows
<1>2. PICK k \in LeadCall : k = [work[c] EXCEPT !.step = to]
  BY <1>1 DEF LeadCall
<1>3. /\ k.step = to /\ k.status = work[c].status /\ k.row = work[c].row
      /\ k.count = work[c].count /\ k.count \in Nat
  BY <1>1, <1>2 DEF LeadCall
<1>4. /\ work' = [work EXCEPT ![c] = k] /\ overlapped' = overlapped
      /\ work[c] # Lead!Idle
  BY <1>1, <1>2, LeadIdle DEF Lead!Go
<1>5. CarriesLead(k)'
  <2>1. k.count <= followUps'
    <3>1. followUps' \in Nat /\ k.count <= followUps
      BY <1>1, <1>3 DEF LeadRows, CarriesLead
    <3> QED
      BY <1>1, <1>3, <3>1
  <2> QED
    BY <1>3, <2>1 DEF CarriesLead
<1>6. ~overlapped => StillOpen(k)'
  BY <1>3 DEF StillOpen
<1> QED
  BY <1>3, <1>4, <1>5, <1>6, LeadMoves

(* What a call that is about to save knows.                                *)
LEMMA LeadKnows ==
    ASSUME LeadInv, NEW c \in Calls
    PROVE  /\ LeadRows /\ work[c] \in LeadCall /\ CarriesLead(work[c])
           /\ ~overlapped =>
                 /\ OneActive /\ ViewingsStand /\ StillOpen(work[c])
                 /\ work[c].step \notin {"idle", "count"} => inquiry.count = followUps
BY DEF LeadInv, LeadAlone

(* Only the inquiry is saved.                                              *)
LEMMA LeadInquiry ==
    ASSUME LeadInv, NEW c \in Calls,
           \/ Lead!UpdateStatus(c) \/ Lead!TransitionPipeline(c)
           \/ Lead!LogActivity(c) \/ Lead!CountFollowUp(c) \/ Lead!AssignLead(c)
           \/ Lead!MarkContacted(c) \/ Lead!MarkViewingScheduled(c)
    PROVE  LeadInv'
<1>1. /\ LeadRows /\ work[c] \in LeadCall /\ CarriesLead(work[c])
      /\ ~overlapped =>
            /\ OneActive /\ ViewingsStand /\ StillOpen(work[c])
            /\ work[c].step \notin {"idle", "count"} => inquiry.count = followUps
  BY LeadKnows
<1>2. work[c].count \in Nat /\ followUps \in Nat
  BY <1>1 DEF LeadCall, LeadRows
<1>3. ASSUME NEW from \in {"status", "stage", "assign", "schedule", "contact", "count"},
             NEW to \in {"idle", "schedule"}, to = "schedule" <=> from = "contact",
             Lead!Go(c, from, to),
             NEW s \in InquiryStatus, NEW t \in LeadStage, NEW n \in Nat, NEW b \in BOOLEAN,
             inquiry' = [status |-> s, stage |-> t, count |-> n, assigned |-> b],
             n <= followUps, b => entitled,
             ~overlapped => n = followUps,
             to = "schedule" => s = "contacted",
             UNCHANGED <<viewings, applications, followUps, grant, verified, entitled>>
      PROVE  LeadInv'
  <2>1. LeadRows' /\ followUps <= followUps' /\ (entitled => entitled')
    BY <1>1, <1>2, <1>3 DEF LeadRows, Lead!Capable
  <2>2. OneActive' = OneActive /\ ViewingsStand' = ViewingsStand
    BY <1>3 DEF OneActive, ViewingsStand
  <2>3. CASE to = "idle"
    BY <1>1, <1>3, <2>1, <2>2, <2>3, LeadEnds
  <2>4. CASE to = "schedule"
    BY <1>1, <1>3, <2>1, <2>2, <2>4, LeadGoes
  <2> QED
    BY <2>3, <2>4
<1> DEFINE Kept == UNCHANGED <<viewings, applications, followUps, grant, verified, entitled>>
<1>4. /\ inquiry.status \in InquiryStatus /\ inquiry.stage \in LeadStage
      /\ inquiry.count \in Nat /\ inquiry.assigned \in BOOLEAN
      /\ inquiry.count <= followUps
      /\ inquiry.assigned => entitled
  BY <1>1 DEF LeadRows
<1>5. CASE Lead!UpdateStatus(c)
  <2>1. /\ Lead!Go(c, "status", "idle") /\ work[c].step = "status" /\ Kept
        /\ inquiry' = [inquiry EXCEPT !.status = work[c].next]
    BY <1>5 DEF Lead!UpdateStatus, Lead!Go, Lead!rows, Lead!team
  <2>2. work[c].next \in InquiryStatus
    BY <1>1, <2>1 DEF CarriesLead
  <2>3. inquiry' = [status |-> work[c].next, stage |-> inquiry.stage,
                    count |-> inquiry.count, assigned |-> inquiry.assigned]
    BY <1>1, <2>1 DEF LeadRows
  <2> QED
    BY <1>1, <1>3, <1>4, <2>1, <2>2, <2>3
<1>6. CASE Lead!TransitionPipeline(c)
  <2>1. /\ Lead!Go(c, "stage", "idle") /\ work[c].step = "stage" /\ Kept
        /\ inquiry' = [inquiry EXCEPT !.stage = work[c].next]
    BY <1>6 DEF Lead!TransitionPipeline, Lead!Go, Lead!rows, Lead!team
  <2>2. work[c].next \in LeadStage
    BY <1>1, <2>1 DEF CarriesLead
  <2>3. inquiry' = [status |-> inquiry.status, stage |-> work[c].next,
                    count |-> inquiry.count, assigned |-> inquiry.assigned]
    BY <1>1, <2>1 DEF LeadRows
  <2> QED
    BY <1>1, <1>3, <1>4, <2>1, <2>2, <2>3
<1>7. CASE Lead!AssignLead(c)
  <2>1. /\ Lead!Go(c, "assign", "idle") /\ work[c].step = "assign" /\ Kept
        /\ inquiry' = [inquiry EXCEPT !.assigned = (work[c].next = "agent")]
    BY <1>7 DEF Lead!AssignLead, Lead!Go, Lead!rows, Lead!team
  <2>2. work[c].next = "agent" => entitled
    BY <1>1, <2>1 DEF CarriesLead
  <2>3. inquiry' = [status |-> inquiry.status, stage |-> inquiry.stage,
                    count |-> inquiry.count, assigned |-> (work[c].next = "agent")]
    BY <1>1, <2>1 DEF LeadRows
  <2> QED
    BY <1>1, <1>3, <1>4, <2>1, <2>2, <2>3
<1>8. CASE Lead!MarkContacted(c)
  <2>1. /\ Lead!Go(c, "contact", "schedule") /\ work[c].step = "contact" /\ Kept
        /\ inquiry' = [inquiry EXCEPT !.status = "contacted"]
    BY <1>8 DEF Lead!MarkContacted, Lead!MarkInquiry, Lead!Go, Lead!rows, Lead!team
  <2>2. "contacted" \in InquiryStatus
    BY LeadTables
  <2>3. inquiry' = [status |-> "contacted", stage |-> inquiry.stage,
                    count |-> inquiry.count, assigned |-> inquiry.assigned]
    BY <1>1, <2>1 DEF LeadRows
  <2> QED
    BY <1>1, <1>3, <1>4, <2>1, <2>2, <2>3
<1>9. CASE Lead!MarkViewingScheduled(c)
  <2>1. /\ Lead!Go(c, "schedule", "idle") /\ work[c].step = "schedule" /\ Kept
        /\ inquiry' = [inquiry EXCEPT !.status = "viewing_scheduled"]
    BY <1>9 DEF Lead!MarkViewingScheduled, Lead!MarkInquiry, Lead!Go, Lead!rows, Lead!team
  <2>2. "viewing_scheduled" \in InquiryStatus
    BY LeadTables
  <2>3. inquiry' = [status |-> "viewing_scheduled", stage |-> inquiry.stage,
                    count |-> inquiry.count, assigned |-> inquiry.assigned]
    BY <1>1, <2>1 DEF LeadRows
  <2> QED
    BY <1>1, <1>3, <1>4, <2>1, <2>2, <2>3
<1>10. CASE Lead!CountFollowUp(c)
  <2>1. /\ Lead!Go(c, "count", "idle") /\ work[c].step = "count" /\ Kept
        /\ inquiry' = [inquiry EXCEPT !.count = work[c].count + 1]
    BY <1>10 DEF Lead!CountFollowUp, Lead!Counted, Lead!Go, Lead!rows, Lead!team
  <2>2. /\ work[c].count + 1 <= followUps /\ work[c].count + 1 \in Nat
        /\ ~overlapped => work[c].count + 1 = followUps
    BY <1>1, <1>2, <2>1 DEF CarriesLead, StillOpen
  <2>3. inquiry' = [status |-> inquiry.status, stage |-> inquiry.stage,
                    count |-> work[c].count + 1, assigned |-> inquiry.assigned]
    BY <1>1, <2>1 DEF LeadRows
  <2> QED
    BY <1>1, <1>3, <1>4, <2>1, <2>2, <2>3
<1>11. CASE Lead!LogActivity(c)
  <2>1. /\ Lead!Go(c, "log", "count") /\ work[c].step = "log"
        /\ followUps' = followUps + 1
        /\ UNCHANGED <<inquiry, viewings, applications, grant, verified, entitled>>
    BY <1>11 DEF Lead!LogActivity, Lead!Go, Lead!rows, Lead!team
  <2>2. LeadRows'
    BY <1>1, <1>2, <1>4, <2>1 DEF LeadRows, Lead!Capable
  <2>3. /\ followUps <= followUps' /\ work[c].count + 1 <= followUps'
        /\ ~overlapped => work[c].count + 1 = followUps'
    BY <1>1, <1>2, <2>1 DEF CarriesLead, StillOpen
  <2>4. OneActive' = OneActive /\ ViewingsStand' = ViewingsStand
    BY <2>1 DEF OneActive, ViewingsStand
  <2> QED
    BY <1>1, <2>1, <2>2, <2>3, <2>4, LeadGoes
<1> QED
  BY <1>5, <1>6, <1>7, <1>8, <1>9, <1>10, <1>11

(* Only a viewing is saved.                                                *)
LEMMA LeadViewing ==
    ASSUME LeadInv, NEW c \in Calls,
           \/ Lead!CreateViewing(c) \/ Lead!ApplyViewingDecision(c)
           \/ Lead!SaveDetails(c) \/ Lead!EndViewing(c)
    PROVE  LeadInv'
<1> DEFINE v == work[c].row
<1>1. /\ LeadRows /\ work[c] \in LeadCall /\ CarriesLead(work[c])
      /\ ~overlapped =>
            /\ OneActive /\ ViewingsStand /\ StillOpen(work[c])
            /\ work[c].step \notin {"idle", "count"} => inquiry.count = followUps
  BY LeadKnows
<1>2. ASSUME NEW row \in [status : ViewingStatus \cup {"absent"}, fixed : BOOLEAN],
             v \in Viewings, viewings' = [viewings EXCEPT ![v] = row],
             ~overlapped => \/ row.status = viewings[v].status
                            \/ viewings[v].status \notin {"confirmed", "completed", "cancelled"}
                            \/ row.status \in {"confirmed", "completed", "cancelled"},
             UNCHANGED <<inquiry, applications, followUps, grant, verified, entitled>>
      PROVE  /\ LeadRows' /\ followUps <= followUps' /\ (entitled => entitled')
             /\ ~overlapped => OneActive' /\ ViewingsStand'
  <2>1. LeadRows' /\ followUps <= followUps' /\ (entitled => entitled')
    BY <1>1, <1>2 DEF LeadRows, Lead!Capable
  <2>2. ASSUME ~overlapped PROVE OneActive' /\ ViewingsStand'
    <3>1. OneActive'
      BY <1>1, <1>2, <2>2 DEF OneActive
    <3>2. /\ viewings'[v] = row
          /\ \A w \in Viewings : w # v => viewings'[w] = viewings[w]
      BY <1>1, <1>2 DEF LeadRows
    <3>3. ASSUME NEW a \in Rows, applications'[a].viewing # NoViewing
          PROVE  viewings'[applications'[a].viewing].status
                     \in {"confirmed", "completed", "cancelled"}
      <4>1. /\ applications[a].viewing \in Viewings
            /\ viewings[applications[a].viewing].status
                   \in {"confirmed", "completed", "cancelled"}
        BY <1>1, <1>2, <2>2, <3>3 DEF LeadRows, ViewingsStand
      <4> QED
        BY <1>2, <2>2, <3>2, <4>1
    <3> QED
      BY <3>1, <3>3 DEF ViewingsStand
  <2> QED
    BY <2>1, <2>2
<1>3. ASSUME NEW from, Lead!Go(c, from, "idle"), from \in {"view", "end"},
             NEW s \in ViewingStatus, viewings' = [viewings EXCEPT ![v].status = s],
             ~overlapped => \/ viewings[v].status \notin {"confirmed", "completed", "cancelled"}
                            \/ s \in {"confirmed", "completed", "cancelled"},
             UNCHANGED <<inquiry, applications, followUps, grant, verified, entitled>>
      PROVE  LeadInv'
  <2>1. work[c].step = from /\ v \in Viewings
    BY <1>1, <1>3 DEF Lead!Go, CarriesLead
  <2>2. PICK row \in [status : ViewingStatus \cup {"absent"}, fixed : BOOLEAN] :
           row = [viewings[v] EXCEPT !.status = s]
    <3>1. viewings[v] \in [status : ViewingStatus \cup {"absent"}, fixed : BOOLEAN]
      BY <1>1, <2>1 DEF LeadRows
    <3>2. [viewings[v] EXCEPT !.status = s] \in [status : ViewingStatus \cup {"absent"}, fixed : BOOLEAN]
      BY <3>1
    <3> QED
      BY <3>2
  <2>3. /\ LeadRows' /\ followUps <= followUps' /\ (entitled => entitled')
        /\ ~overlapped => OneActive' /\ ViewingsStand'
    <3>1. row.status = s /\ viewings' = [viewings EXCEPT ![v] = row]
      BY <1>1, <1>3, <2>1, <2>2 DEF LeadRows
    <3> QED
      BY <1>2, <1>3, <2>1, <3>1
  <2>4. ~overlapped => inquiry'.count = followUps'
    BY <1>1, <1>3, <2>1
  <2> QED
    BY <1>3, <2>3, <2>4, LeadEnds
<1>4. CASE Lead!CreateViewing(c)
  <2>1. /\ Lead!Go(c, "view", "idle") /\ work[c].step = "view"
        /\ viewings' = [viewings EXCEPT ![v].status = "requested"]
        /\ UNCHANGED <<inquiry, applications, followUps, grant, verified, entitled>>
    BY <1>4 DEF Lead!CreateViewing, Lead!SaveViewing, Lead!Go, Lead!team
  <2>2. ~overlapped => viewings[v].status = "absent"
    BY <1>1, <2>1 DEF StillOpen
  <2>3. "requested" \in ViewingStatus
    BY LeadTables
  <2> QED
    BY <1>3, <2>1, <2>2, <2>3
<1>5. CASE Lead!EndViewing(c)
  <2>1. /\ Lead!Go(c, "end", "idle") /\ work[c].step = "end"
        /\ viewings' = [viewings EXCEPT ![v].status = work[c].next]
        /\ UNCHANGED <<inquiry, applications, followUps, grant, verified, entitled>>
    BY <1>5 DEF Lead!EndViewing, Lead!SaveViewing, Lead!Go, Lead!team
  <2>2. ~overlapped => work[c].next \in Lead!ValidViewing[viewings[v].status]
    BY <1>1, <2>1 DEF StillOpen
  <2>3. work[c].next \in ViewingStatus
    BY <1>1, <2>1 DEF CarriesLead
  <2>4. ~overlapped => \/ viewings[v].status \notin {"confirmed", "completed", "cancelled"}
                       \/ work[c].next \in {"confirmed", "completed", "cancelled"}
    BY <2>2, EndsAreFinal
  <2> QED
    BY <1>3, <2>1, <2>3, <2>4
<1>6. CASE Lead!ApplyViewingDecision(c)
  <2>1. /\ Lead!Go(c, "decide", "details") /\ work[c].step = "decide"
        /\ viewings' = [viewings EXCEPT ![v].status = work[c].next]
        /\ UNCHANGED <<inquiry, applications, followUps, grant, verified, entitled>>
    BY <1>6 DEF Lead!ApplyViewingDecision, Lead!SaveViewing, Lead!Go, Lead!team
  <2>2. work[c].next \in ViewingStatus /\ v \in Viewings
    BY <1>1, <2>1 DEF CarriesLead
  <2>3. PICK row \in [status : ViewingStatus \cup {"absent"}, fixed : BOOLEAN] :
           row = [viewings[v] EXCEPT !.status = work[c].next]
    <3>1. viewings[v] \in [status : ViewingStatus \cup {"absent"}, fixed : BOOLEAN]
      BY <1>1, <2>2 DEF LeadRows
    <3>2. [viewings[v] EXCEPT !.status = work[c].next] \in [status : ViewingStatus \cup {"absent"}, fixed : BOOLEAN]
      BY <2>2, <3>1
    <3> QED
      BY <3>2
  <2>4. ~overlapped =>
            /\ work[c].status = inquiry.status /\ inquiry.count = followUps
            /\ work[c].next \in {viewings[v].status}
                                \cup Lead!ValidViewing[viewings[v].status]
    BY <1>1, <2>1 DEF StillOpen
  <2>5. ~overlapped => \/ work[c].next = viewings[v].status
                       \/ viewings[v].status \notin {"confirmed", "completed", "cancelled"}
                       \/ work[c].next \in {"confirmed", "completed", "cancelled"}
    BY <2>4, EndsAreFinal
  <2>6. /\ LeadRows' /\ followUps <= followUps' /\ (entitled => entitled')
        /\ ~overlapped => OneActive' /\ ViewingsStand'
    <3>1. row.status = work[c].next /\ viewings' = [viewings EXCEPT ![v] = row]
      BY <1>1, <2>1, <2>2, <2>3 DEF LeadRows
    <3> QED
      BY <1>2, <2>1, <2>2, <2>5, <3>1
  <2> QED
    BY <2>1, <2>2, <2>4, <2>6, LeadGoes
<1>7. CASE Lead!SaveDetails(c)
  <2>1. /\ Lead!Go(c, "details", Lead!NextMark(work[c].status)) /\ work[c].step = "details"
        /\ viewings' = [viewings EXCEPT ![v].fixed = TRUE]
        /\ UNCHANGED <<inquiry, applications, followUps, grant, verified, entitled>>
    BY <1>7 DEF Lead!SaveDetails, Lead!Go, Lead!team
  <2>2. v \in Viewings
    BY <1>1, <2>1 DEF CarriesLead
  <2>3. PICK row \in [status : ViewingStatus \cup {"absent"}, fixed : BOOLEAN] :
           row = [viewings[v] EXCEPT !.fixed = TRUE]
    <3>1. viewings[v] \in [status : ViewingStatus \cup {"absent"}, fixed : BOOLEAN]
      BY <1>1, <2>2 DEF LeadRows
    <3>2. [viewings[v] EXCEPT !.fixed = TRUE] \in [status : ViewingStatus \cup {"absent"}, fixed : BOOLEAN]
      BY <3>1
    <3> QED
      BY <3>2
  <2>4. /\ LeadRows' /\ followUps <= followUps' /\ (entitled => entitled')
        /\ ~overlapped => OneActive' /\ ViewingsStand'
    <3>1. row.status = viewings[v].status /\ viewings' = [viewings EXCEPT ![v] = row]
      BY <1>1, <2>1, <2>2, <2>3 DEF LeadRows
    <3> QED
      BY <1>2, <2>1, <2>2, <3>1
  <2>5. ~overlapped => work[c].status = inquiry'.status /\ inquiry'.count = followUps'
    BY <1>1, <2>1 DEF StillOpen
  <2>6. CASE work[c].status = "new"
    <3>1. Lead!Go(c, "details", "contact")
      BY <2>1, <2>6 DEF Lead!NextMark
    <3> QED
      BY <2>4, <2>5, <2>6, <3>1, LeadGoes
  <2>7. CASE work[c].status = "contacted"
    <3>1. Lead!Go(c, "details", "schedule")
      BY <2>1, <2>7 DEF Lead!NextMark
    <3> QED
      BY <2>4, <2>5, <2>7, <3>1, LeadGoes
  <2>8. CASE work[c].status \notin {"new", "contacted"}
    <3>1. Lead!Go(c, "details", "idle")
      BY <2>1, <2>8 DEF Lead!NextMark
    <3> QED
      BY <2>4, <2>5, <3>1, LeadEnds
  <2> QED
    BY <2>6, <2>7, <2>8
<1> QED
  BY <1>4, <1>5, <1>6, <1>7

(* Only an application is saved.                                           *)
LEMMA LeadApplication ==
    ASSUME LeadInv, NEW c \in Calls,
           \/ \E a \in Rows : Lead!SubmitApplication(c, a)
           \/ Lead!TransitionApplication(c)
    PROVE  LeadInv'
<1>1. /\ LeadRows /\ work[c] \in LeadCall /\ CarriesLead(work[c])
      /\ ~overlapped =>
            /\ OneActive /\ ViewingsStand /\ StillOpen(work[c])
            /\ work[c].step \notin {"idle", "count"} => inquiry.count = followUps
  BY LeadKnows
<1>2. ASSUME NEW from \in {"apply", "review"}, Lead!Go(c, from, "idle"),
             NEW a \in Rows,
             NEW row \in [status : ApplicationStatus, viewing : Viewings \cup {NoViewing}],
             applications' = [applications EXCEPT ![a] = row],
             ~overlapped =>
                 /\ row.status \in Lead!ActiveApplication =>
                       \/ applications[a].status \in Lead!ActiveApplication
                       \/ \A b \in Rows :
                              applications[b].status \notin Lead!ActiveApplication
                 /\ \/ row.viewing = applications[a].viewing
                    \/ row.viewing # NoViewing =>
                           viewings[row.viewing].status \in {"confirmed", "completed", "cancelled"},
             UNCHANGED <<inquiry, viewings, followUps, grant, verified, entitled>>
      PROVE  LeadInv'
  <2>1. /\ applications'[a] = row
        /\ \A b \in Rows : b # a => applications'[b] = applications[b]
    BY <1>1, <1>2 DEF LeadRows
  <2>2. row.status # "absent"
    BY LeadTables
  <2>3. applications' \in [Rows -> [status : ApplicationStatus \cup {"absent"},
                                    viewing : Viewings \cup {NoViewing}]]
    BY <1>1, <1>2 DEF LeadRows
  <2>4. \A b \in Rows : applications'[b].status = "absent" =>
                            applications'[b] = Lead!NoApplication
    BY <1>1, <2>1, <2>2 DEF LeadRows
  <2>5. LeadRows' /\ followUps <= followUps' /\ (entitled => entitled')
    BY <1>1, <1>2, <2>3, <2>4 DEF LeadRows, Lead!Capable
  <2>6. ~overlapped => OneActive'
    BY <1>1, <1>2, <2>1 DEF OneActive
  <2>7. ~overlapped => ViewingsStand'
    BY <1>1, <1>2, <2>1 DEF ViewingsStand
  <2>8. ~overlapped => inquiry'.count = followUps'
    BY <1>1, <1>2 DEF Lead!Go
  <2> QED
    BY <1>2, <2>5, <2>6, <2>7, <2>8, LeadEnds
<1>3. ASSUME NEW a \in Rows, Lead!SubmitApplication(c, a) PROVE LeadInv'
  <2>1. /\ Lead!Go(c, "apply", "idle") /\ work[c].step = "apply"
        /\ applications' = [applications EXCEPT ![a] = [status |-> "submitted",
                                                        viewing |-> work[c].row]]
        /\ UNCHANGED <<inquiry, viewings, followUps, grant, verified, entitled>>
    BY <1>3 DEF Lead!SubmitApplication, Lead!Go, Lead!team
  <2>2. work[c].row \in Viewings \cup {NoViewing} /\ "submitted" \in ApplicationStatus
    BY <1>1, <2>1, LeadTables DEF CarriesLead
  <2>3. ~overlapped =>
            /\ \A b \in Rows : applications[b].status \notin Lead!ActiveApplication
            /\ work[c].row # NoViewing =>
                   viewings[work[c].row].status \in {"confirmed", "completed"}
    BY <1>1, <2>1 DEF StillOpen
  <2>4. PICK row \in [status : ApplicationStatus, viewing : Viewings \cup {NoViewing}] :
           row = [status |-> "submitted", viewing |-> work[c].row]
    BY <2>2
  <2>5. /\ row.viewing = work[c].row
        /\ applications' = [applications EXCEPT ![a] = row]
    BY <2>1, <2>4
  <2> QED
    BY <1>2, <2>1, <2>3, <2>5
<1>4. CASE Lead!TransitionApplication(c)
  <2> DEFINE a == work[c].row
  <2>1. /\ Lead!Go(c, "review", "idle") /\ work[c].step = "review"
        /\ applications' = [applications EXCEPT ![a].status = work[c].next]
        /\ UNCHANGED <<inquiry, viewings, followUps, grant, verified, entitled>>
    BY <1>4 DEF Lead!TransitionApplication, Lead!Go, Lead!team
  <2>2. a \in Rows /\ work[c].next \in ApplicationStatus
    BY <1>1, <2>1 DEF CarriesLead
  <2>3. PICK row \in [status : ApplicationStatus, viewing : Viewings \cup {NoViewing}] :
           row = [applications[a] EXCEPT !.status = work[c].next]
    <3>1. applications[a] \in [status : ApplicationStatus \cup {"absent"},
                               viewing : Viewings \cup {NoViewing}]
      BY <1>1, <2>2 DEF LeadRows
    <3>2. [applications[a] EXCEPT !.status = work[c].next]
            \in [status : ApplicationStatus, viewing : Viewings \cup {NoViewing}]
      BY <2>2, <3>1
    <3> QED
      BY <3>2
  <2>5. /\ row.viewing = applications[a].viewing
        /\ applications' = [applications EXCEPT ![a] = row]
    BY <1>1, <2>1, <2>2, <2>3 DEF LeadRows
  <2>4. ~overlapped => applications[a].status \in Lead!ActiveApplication
    BY <1>1, <2>1, ActiveBefore DEF StillOpen
  <2> QED
    BY <1>2, <2>1, <2>2, <2>4, <2>5
<1> QED
  BY <1>3, <1>4

(* The team changes while calls go on; who could manage leads stays        *)
(* remembered.                                                             *)
LEMMA LeadGranting ==
    ASSUME LeadInv, Lead!Granting PROVE LeadInv'
<1>1. /\ UNCHANGED <<inquiry, viewings, applications, followUps, work, overlapped>>
      /\ entitled => entitled'
      /\ entitled' \in BOOLEAN /\ verified' \in BOOLEAN
      /\ grant' \in [status : {"absent", "pending", "active", "revoked"}, expired : BOOLEAN]
      /\ Lead!Capable' => entitled'
  <2> USE DEF LeadInv, LeadRows, Lead!Capable, Lead!rows
  <2>1. ASSUME NEW s \in {"pending", "active"}, Lead!GrantAssignment(s) PROVE <1>1
    BY <2>1 DEF Lead!GrantAssignment
  <2>2. CASE Lead!RevokeAssignment
    BY <2>2 DEF Lead!RevokeAssignment
  <2>3. CASE Lead!ExpireAssignment
    BY <2>3 DEF Lead!ExpireAssignment
  <2>4. CASE Lead!ChangeVerification
    BY <2>4 DEF Lead!ChangeVerification
  <2> QED
    BY <2>1, <2>2, <2>3, <2>4 DEF Lead!Granting
<1>2. LeadRows'
  BY <1>1 DEF LeadInv, LeadRows
<1>3. \A c \in Calls : CarriesLead(work[c])'
  BY <1>1 DEF LeadInv, CarriesLead
<1>4. ~overlapped' => LeadAlone' /\ \A c \in Calls : StillOpen(work[c])'
  BY <1>1 DEF LeadInv, LeadAlone, OneActive, ViewingsStand, StillOpen
<1> QED
  BY <1>1, <1>2, <1>3, <1>4 DEF LeadInv

LEMMA LeadStep == LeadInv /\ Lead!Next => LeadInv'
<1>1. ASSUME LeadInv, NEW c \in Calls, Lead!Die(c) PROVE LeadInv'
  <2>1. /\ work' = [work EXCEPT ![c] = Lead!Idle] /\ overlapped' = TRUE
        /\ UNCHANGED <<inquiry, viewings, applications, followUps, grant, verified, entitled>>
    BY <1>1 DEF Lead!Die, Lead!rows, Lead!team
  <2>2. /\ work' \in [Calls -> LeadCall]
        /\ \A d \in Calls : work'[d] = IF d = c THEN Lead!Idle ELSE work[d]
    BY <1>1, <2>1, LeadIdle DEF LeadInv
  <2>3. LeadRows' /\ followUps \in Nat
    BY <1>1, <2>1 DEF LeadInv, LeadRows, Lead!Capable
  <2>4. \A d \in Calls : CarriesLead(work[d])'
    BY <1>1, <2>1, <2>2, <2>3, LeadIdle DEF LeadInv, CarriesLead
  <2> QED
    BY <2>1, <2>2, <2>3, <2>4 DEF LeadInv
<1> QED
  BY <1>1, LeadBegins, LeadInquiry, LeadViewing, LeadApplication, LeadGranting
  DEF Lead!Next, Lead!Inquiring, Lead!Viewing, Lead!Applying, InquiryStatus, LeadStage,
      ApplicationStatus

LEMMA LeadHolds ==
    ASSUME LeadInv
    PROVE  /\ Lead!TypeOK /\ Lead!OneActiveApplication /\ Lead!LinkedViewingStands
           /\ Lead!FollowUpsAgree /\ Lead!AssigneeWasEntitled
<1>1. Lead!TypeOK
  BY DEF LeadInv, LeadRows, Lead!TypeOK, InquiryStatus, LeadStage, ViewingStatus,
         ApplicationStatus
<1>2. Lead!OneActiveApplication
  <2> SUFFICES ASSUME ~overlapped PROVE Lead!Cardinality(Lead!ActiveApplications) <= 1
    BY DEF Lead!OneActiveApplication
  <2>1. \A a, b \in Lead!ActiveApplications : a = b
    BY DEF LeadInv, LeadAlone, OneActive, Lead!ActiveApplications
  <2>2. Lead!Cardinality(Lead!ActiveApplications) = Cardinality(Lead!ActiveApplications)
    BY DEF Lead!Cardinality, Cardinality
  <2>3. CASE Lead!ActiveApplications = {}
    BY <2>2, <2>3, FS_EmptySet
  <2>4. ASSUME NEW a \in Lead!ActiveApplications
        PROVE  Lead!Cardinality(Lead!ActiveApplications) <= 1
    <3>1. Lead!ActiveApplications = {a}
      BY <2>1
    <3>2. Cardinality({a}) = 1
      BY FS_Singleton
    <3> QED
      BY <2>2, <3>1, <3>2
  <2> QED
    BY <2>3, <2>4
<1>3. Lead!LinkedViewingStands
  BY DEF LeadInv, LeadAlone, ViewingsStand, Lead!LinkedViewingStands
<1>4. Lead!FollowUpsAgree /\ Lead!AssigneeWasEntitled
  BY LeadIdle DEF LeadInv, LeadRows, LeadAlone, Lead!FollowUpsAgree,
                  Lead!AssigneeWasEntitled
<1> QED
  BY <1>1, <1>2, <1>3, <1>4

(* Whatever calls overlap or die, a call that is not older than what it    *)
(* decided by still finds it so: the rows it loaded have not moved.        *)
Fresh(k) ==
    /\ k.step = "status" => k.next \in Lead!ValidStatus[inquiry.status]
    /\ k.step = "stage" => k.next \in Lead!ValidStage[inquiry.stage]
    /\ k.step = "view" => viewings[k.row].status = "absent"
    /\ k.step \in {"decide", "details"} => k.status = inquiry.status
    /\ k.step = "decide" =>
          k.next \in {viewings[k.row].status} \cup Lead!ValidViewing[viewings[k.row].status]
    /\ k.step = "contact" => inquiry.status = "new"
    /\ k.step = "schedule" => inquiry.status = "contacted"
    /\ k.step = "end" => k.next \in Lead!ValidViewing[viewings[k.row].status]
    /\ k.step = "apply" =>
          /\ Lead!ActiveApplications = {}
          /\ k.row # NoViewing => Lead!MayLink(k.row)
    /\ k.step = "review" =>
          /\ applications[k.row].status # "absent"
          /\ k.next \in Lead!ValidApplication[applications[k.row].status]

FreshInv == \A c \in Calls \ older : Fresh(work[c])

LEMMA FreshInit == Lead!Init => FreshInv
<1> SUFFICES ASSUME Lead!Init PROVE FreshInv
  OBVIOUS
<1>1. \A c \in Calls : work[c] = Lead!Idle
  BY DEF Lead!Init
<1> QED
  BY <1>1, LeadIdle DEF FreshInv, Fresh

(* A call that did not move and is not old finds what it found before.     *)
LEMMA StaysFresh ==
    ASSUME LeadInv, FreshInv, Lead!Age, NEW d \in Calls \ older', work'[d] = work[d]
    PROVE  Fresh(work[d])'
<1>1. CASE work[d] = Lead!Idle
  BY <1>1, LeadIdle DEF Fresh
<1>2. CASE work[d] # Lead!Idle
  <2>1. d \notin older /\ ~Lead!Stale(work[d])
    BY <1>2 DEF Lead!Age
  <2>2. Fresh(work[d]) /\ CarriesLead(work[d])
    BY <2>1 DEF FreshInv, LeadInv
  <2>3. DEFINE k == work[d]
  <2>4. /\ k.step \in {"status", "decide", "details", "contact", "schedule"} =>
              inquiry'.status = inquiry.status
        /\ k.step = "stage" => inquiry'.stage = inquiry.stage
        /\ k.step \in {"view", "decide", "end", "apply"} /\ k.row \in Viewings =>
              viewings'[k.row].status = viewings[k.row].status
        /\ k.step = "apply" => Lead!ActiveApplications' = Lead!ActiveApplications
        /\ k.step = "review" => applications'[k.row].status = applications[k.row].status
    BY <2>1 DEF Lead!Stale
  <2>5. /\ k.step \in {"view", "decide", "end"} => k.row \in Viewings
        /\ k.step = "apply" => k.row \in Viewings \cup {NoViewing}
    BY <2>2 DEF CarriesLead
  <2>6. Fresh(k)' = (/\ k.step = "status" => k.next \in Lead!ValidStatus[inquiry'.status]
                     /\ k.step = "stage" => k.next \in Lead!ValidStage[inquiry'.stage]
                     /\ k.step = "view" => viewings'[k.row].status = "absent"
                     /\ k.step \in {"decide", "details"} => k.status = inquiry'.status
                     /\ k.step = "decide" =>
                           k.next \in {viewings'[k.row].status}
                                         \cup Lead!ValidViewing[viewings'[k.row].status]
                     /\ k.step = "contact" => inquiry'.status = "new"
                     /\ k.step = "schedule" => inquiry'.status = "contacted"
                     /\ k.step = "end" =>
                           k.next \in Lead!ValidViewing[viewings'[k.row].status]
                     /\ k.step = "apply" =>
                           /\ Lead!ActiveApplications' = {}
                           /\ k.row # NoViewing =>
                                 viewings'[k.row].status \in {"confirmed", "completed"}
                     /\ k.step = "review" =>
                           /\ applications'[k.row].status # "absent"
                           /\ k.next \in Lead!ValidApplication[applications'[k.row].status])
    BY DEF Fresh, Lead!MayLink
  <2> QED
    BY <2>2, <2>4, <2>5, <2>6 DEF Fresh, Lead!MayLink
<1> QED
  BY <1>1, <1>2

(* One call moves on to k: it ends, it is old, or it is fresh.             *)
LEMMA FreshMoves ==
    ASSUME LeadInv, FreshInv, Lead!Age, NEW c \in Calls, NEW k,
           work' = [work EXCEPT ![c] = k],
           k = Lead!Idle \/ (c \in older /\ work[c] # Lead!Idle) \/ Fresh(k)'
    PROVE  FreshInv'
<1>1. \A d \in Calls : work'[d] = IF d = c THEN k ELSE work[d]
  BY DEF LeadInv
<1>2. c \notin older' => Fresh(k)'
  BY <1>1, LeadIdle DEF Fresh, Lead!Age
<1> QED
  BY <1>1, <1>2, StaysFresh DEF FreshInv

(* A call begins by what it finds.                                         *)
LEMMA FreshBegin ==
    ASSUME LeadInv, FreshInv, Lead!Age, NEW c \in Calls, NEW step, NEW next, NEW row,
           Lead!Begin(c, step, next, row),
           step \notin {"details", "contact", "schedule"},
           step = "status" => next \in Lead!ValidStatus[inquiry.status],
           step = "stage" => next \in Lead!ValidStage[inquiry.stage],
           step = "view" => viewings[row].status = "absent",
           step = "decide" =>
               next \in {viewings[row].status} \cup Lead!ValidViewing[viewings[row].status],
           step = "end" => next \in Lead!ValidViewing[viewings[row].status],
           step = "apply" =>
               Lead!ActiveApplications = {} /\ (row # NoViewing => Lead!MayLink(row)),
           step = "review" =>
               /\ applications[row].status # "absent"
               /\ next \in Lead!ValidApplication[applications[row].status]
    PROVE  FreshInv'
<1> DEFINE k == [step |-> step, next |-> next, row |-> row,
                 status |-> inquiry.status, count |-> inquiry.count]
<1>1. /\ work' = [work EXCEPT ![c] = k]
      /\ UNCHANGED <<inquiry, viewings, applications>>
  BY DEF Lead!Begin, Lead!rows
<1>2. PICK j : j = k
  OBVIOUS
<1>3. j.step = step /\ j.next = next /\ j.row = row /\ j.status = inquiry.status
  BY <1>2
<1>4. Lead!ActiveApplications' = Lead!ActiveApplications /\ Lead!MayLink(row)' = Lead!MayLink(row)
  BY <1>1 DEF Lead!ActiveApplications, Lead!MayLink
<1>5. Fresh(j)'
  BY <1>1, <1>3, <1>4 DEF Fresh, Lead!MayLink
<1> QED
  BY <1>1, <1>2, <1>5, FreshMoves

(* A call goes on, or ends.                                                *)
LEMMA FreshGoes ==
    ASSUME LeadInv, FreshInv, Lead!Age, NEW c \in Calls, NEW from, from # "idle",
           NEW to \in {"idle", "count", "details", "contact", "schedule"}, Lead!Go(c, from, to),
           c \notin older =>
               /\ to = "details" => work[c].status = inquiry'.status
               /\ to = "contact" => inquiry'.status = "new"
               /\ to = "schedule" => inquiry'.status = "contacted"
    PROVE  FreshInv'
<1>1. work[c] \in LeadCall /\ work[c].step = from
  BY DEF LeadInv, Lead!Go
<1>2. CASE to = "idle"
  BY <1>2, FreshMoves DEF Lead!Go
<1>3. CASE to # "idle"
  <2>1. PICK k : k = [work[c] EXCEPT !.step = to]
    OBVIOUS
  <2>2. k.step = to /\ k.status = work[c].status
    BY <1>1, <2>1 DEF LeadCall
  <2>3. work' = [work EXCEPT ![c] = k]
    BY <1>3, <2>1 DEF Lead!Go
  <2>4. c \notin older => Fresh(k)'
    BY <1>3, <2>2 DEF Fresh
  <2> QED
    BY <1>1, <2>3, <2>4, LeadIdle, FreshMoves
<1> QED
  BY <1>2, <1>3

LEMMA FreshBegins ==
    ASSUME LeadInv, FreshInv, Lead!Age, NEW c \in Calls,
           \/ \E next \in InquiryStatus : Lead!BeginStatus(c, next)
           \/ \E next \in LeadStage : Lead!BeginStage(c, next)
           \/ Lead!BeginLog(c)
           \/ \E next \in {"agent", "nobody"} : Lead!BeginAssign(c, next)
           \/ \E v \in Viewings :
                 \/ Lead!BeginViewing(c, v)
                 \/ \E next \in {"confirmed", "rescheduled"} : Lead!BeginDecision(c, v, next)
                 \/ \E next \in {"completed", "cancelled"} : Lead!BeginEnding(c, v, next)
           \/ \E v \in Viewings \cup {NoViewing} : Lead!BeginApplication(c, v)
           \/ \E a \in Rows : \E next \in ApplicationStatus : Lead!BeginReview(c, a, next)
    PROVE  FreshInv'
<1>1. ASSUME NEW next, Lead!BeginStatus(c, next) PROVE FreshInv'
  BY <1>1, FreshBegin DEF Lead!BeginStatus
<1>2. ASSUME NEW next, Lead!BeginStage(c, next) PROVE FreshInv'
  BY <1>2, FreshBegin DEF Lead!BeginStage
<1>3. CASE Lead!BeginLog(c)
  BY <1>3, FreshBegin DEF Lead!BeginLog
<1>4. ASSUME NEW next, Lead!BeginAssign(c, next) PROVE FreshInv'
  BY <1>4, FreshBegin DEF Lead!BeginAssign
<1>5. ASSUME NEW v, Lead!BeginViewing(c, v) PROVE FreshInv'
  BY <1>5, FreshBegin DEF Lead!BeginViewing, Lead!Absent
<1>6. ASSUME NEW v, NEW next, Lead!BeginDecision(c, v, next) PROVE FreshInv'
  BY <1>6, FreshBegin DEF Lead!BeginDecision, Lead!MayMove
<1>7. ASSUME NEW v, NEW next, Lead!BeginEnding(c, v, next) PROVE FreshInv'
  BY <1>7, FreshBegin DEF Lead!BeginEnding
<1>8. ASSUME NEW v, Lead!BeginApplication(c, v) PROVE FreshInv'
  BY <1>8, FreshBegin DEF Lead!BeginApplication, Lead!MayApply
<1>9. ASSUME NEW a \in Rows, NEW next, Lead!BeginReview(c, a, next) PROVE FreshInv'
  <2>1. applications[a].status # "absent"
    BY <1>9 DEF Lead!BeginReview, LeadInv, LeadRows
  <2> QED
    BY <1>9, <2>1, FreshBegin DEF Lead!BeginReview
<1> QED
  BY <1>1, <1>2, <1>3, <1>4, <1>5, <1>6, <1>7, <1>8, <1>9

LEMMA FreshStep == LeadInv /\ FreshInv /\ Lead!Next => FreshInv'
<1> SUFFICES ASSUME LeadInv, FreshInv, Lead!Next PROVE FreshInv'
  OBVIOUS
<1>0. Lead!Age
  BY DEF Lead!Next
<1>1. ASSUME NEW c \in Calls, NEW from, from # "idle", Lead!Go(c, from, "idle") PROVE FreshInv'
  BY <1>0, <1>1, FreshGoes
<1>2. ASSUME NEW c \in Calls,
             \/ Lead!UpdateStatus(c) \/ Lead!TransitionPipeline(c) \/ Lead!CountFollowUp(c)
             \/ Lead!AssignLead(c) \/ Lead!CreateViewing(c) \/ Lead!MarkViewingScheduled(c)
             \/ Lead!EndViewing(c) \/ (\E a \in Rows : Lead!SubmitApplication(c, a))
             \/ Lead!TransitionApplication(c)
      PROVE  FreshInv'
  <2>1. PICK from : from # "idle" /\ Lead!Go(c, from, "idle")
    BY <1>2 DEF Lead!UpdateStatus, Lead!TransitionPipeline, Lead!CountFollowUp,
                Lead!AssignLead, Lead!CreateViewing, Lead!MarkViewingScheduled,
                Lead!MarkInquiry, Lead!EndViewing, Lead!SubmitApplication,
                Lead!TransitionApplication
  <2> QED
    BY <1>1, <2>1
<1>3. ASSUME NEW c \in Calls, Lead!LogActivity(c) PROVE FreshInv'
  BY <1>0, <1>3, FreshGoes DEF Lead!LogActivity
<1>4. ASSUME NEW c \in Calls, Lead!ApplyViewingDecision(c) PROVE FreshInv'
  <2>1. /\ Lead!Go(c, "decide", "details") /\ work[c].step = "decide"
        /\ inquiry' = inquiry
    BY <1>4 DEF Lead!ApplyViewingDecision, Lead!Go
  <2>2. c \notin older => work[c].status = inquiry'.status
    BY <2>1 DEF FreshInv, Fresh
  <2> QED
    BY <1>0, <2>1, <2>2, FreshGoes
<1>5. ASSUME NEW c \in Calls, Lead!SaveDetails(c) PROVE FreshInv'
  <2>1. /\ Lead!Go(c, "details", Lead!NextMark(work[c].status)) /\ work[c].step = "details"
        /\ inquiry' = inquiry
    BY <1>5 DEF Lead!SaveDetails, Lead!Go
  <2>2. c \notin older => work[c].status = inquiry'.status
    BY <2>1 DEF FreshInv, Fresh
  <2>3. CASE work[c].status = "new"
    <3>1. Lead!Go(c, "details", "contact")
      BY <2>1, <2>3 DEF Lead!NextMark
    <3> QED
      BY <1>0, <2>2, <2>3, <3>1, FreshGoes
  <2>4. CASE work[c].status = "contacted"
    <3>1. Lead!Go(c, "details", "schedule")
      BY <2>1, <2>4 DEF Lead!NextMark
    <3> QED
      BY <1>0, <2>2, <2>4, <3>1, FreshGoes
  <2>5. CASE work[c].status \notin {"new", "contacted"}
    <3>1. Lead!Go(c, "details", "idle")
      BY <2>1, <2>5 DEF Lead!NextMark
    <3> QED
      BY <1>1, <3>1
  <2> QED
    BY <2>3, <2>4, <2>5
<1>6. ASSUME NEW c \in Calls, Lead!MarkContacted(c) PROVE FreshInv'
  <2>1. /\ Lead!Go(c, "contact", "schedule")
        /\ inquiry' = [inquiry EXCEPT !.status = "contacted"]
    BY <1>6 DEF Lead!MarkContacted, Lead!MarkInquiry
  <2>2. inquiry'.status = "contacted"
    BY <2>1 DEF LeadInv, LeadRows
  <2> QED
    BY <1>0, <2>1, <2>2, FreshGoes
<1>7. ASSUME NEW c \in Calls, Lead!Die(c) PROVE FreshInv'
  BY <1>0, <1>7, FreshMoves DEF Lead!Die
<1>8. ASSUME Lead!Granting PROVE FreshInv'
  <2>1. work' = work
    BY <1>8 DEF Lead!Granting, Lead!GrantAssignment, Lead!RevokeAssignment,
                Lead!ExpireAssignment, Lead!ChangeVerification
  <2> QED
    BY <1>0, <2>1, StaysFresh DEF FreshInv
<1> QED
  BY <1>0, <1>2, <1>3, <1>4, <1>5, <1>6, <1>7, <1>8, FreshBegins
  DEF Lead!Next, Lead!Inquiring, Lead!Viewing, Lead!Applying, InquiryStatus, LeadStage,
      ApplicationStatus

(* A call that is not older than what it decided by moves only as the      *)
(* tables declare; one that is older moves, and so takes its mark along.   *)
LEMMA LeadDeclares == LeadInv /\ FreshInv /\ Lead!Next => Lead!DeclaredUnlessOlder
<1> SUFFICES ASSUME LeadInv, FreshInv, Lead!Next PROVE Lead!DeclaredUnlessOlder
  OBVIOUS
<1> DEFINE
      MovesInquiry ==
          /\ Lead!MovesFrom(Lead!ValidStatus, inquiry.status, inquiry'.status)
          /\ Lead!MovesFrom(Lead!ValidStage, inquiry.stage, inquiry'.stage)
      MovesViewings ==
          \A v \in Viewings :
              Lead!MovesFrom(Lead!ValidViewing, viewings[v].status, viewings'[v].status)
      MovesApplications ==
          /\ \A a \in Rows :
                /\ Lead!MovesFrom(Lead!ValidApplication, applications[a].status,
                                  applications'[a].status)
                /\ applications'[a].viewing # applications[a].viewing =>
                       Lead!MayLink(applications'[a].viewing)
          /\ \/ Lead!ActiveApplications = {}
             \/ Lead!ActiveApplications' \subseteq Lead!ActiveApplications
<1>1. MovesInquiry /\ MovesViewings /\ MovesApplications => Lead!DeclaredUnlessOlder
  BY DEF Lead!DeclaredUnlessOlder
<1>2. /\ inquiry'.status = inquiry.status /\ inquiry'.stage = inquiry.stage => MovesInquiry
      /\ (\A v \in Viewings : viewings'[v].status = viewings[v].status) => MovesViewings
      /\ applications' = applications => MovesApplications
  BY DEF Lead!MovesFrom, Lead!MayMove, Lead!ActiveApplications
<1>3. ASSUME NEW c \in Calls, NEW from, NEW to, Lead!Go(c, from, to), from # to, from # "idle",
             c \in older
      PROVE  Lead!DeclaredUnlessOlder
  <2>1. work[c] \in LeadCall /\ work \in [Calls -> LeadCall] /\ work[c].step = from
    BY <1>3 DEF LeadInv, Lead!Go
  <2>2. work'[c].step = to
    BY <1>3, <2>1, LeadIdle DEF Lead!Go, LeadCall
  <2> QED
    BY <1>3, <2>1, <2>2 DEF Lead!DeclaredUnlessOlder
<1>4. /\ LeadRows
      /\ inquiry \in [status : InquiryStatus, stage : LeadStage, count : Nat,
                      assigned : BOOLEAN]
      /\ viewings \in [Viewings -> [status : ViewingStatus \cup {"absent"}, fixed : BOOLEAN]]
      /\ applications \in [Rows -> [status : ApplicationStatus \cup {"absent"},
                                    viewing : Viewings \cup {NoViewing}]]
  BY DEF LeadInv, LeadRows
<1>5. ASSUME NEW c \in Calls, Lead!Inquiring(c) \/ Lead!MarkContacted(c)
                                 \/ Lead!MarkViewingScheduled(c)
      PROVE  Lead!DeclaredUnlessOlder
  <2>1. MovesViewings /\ MovesApplications
    <3>1. UNCHANGED <<viewings, applications>>
      BY <1>5
      DEF Lead!Inquiring, Lead!BeginStatus, Lead!BeginStage, Lead!UpdateStatus,
          Lead!TransitionPipeline, Lead!BeginLog, Lead!LogActivity, Lead!CountFollowUp,
          Lead!BeginAssign, Lead!AssignLead, Lead!MarkContacted, Lead!MarkViewingScheduled,
          Lead!MarkInquiry, Lead!Begin, Lead!rows
    <3> QED
      BY <1>2, <3>1
  <2>2. CASE Lead!UpdateStatus(c)
    <3>1. /\ Lead!Go(c, "status", "idle") /\ work[c].step = "status"
          /\ inquiry' = [inquiry EXCEPT !.status = work[c].next]
      BY <2>2 DEF Lead!UpdateStatus, Lead!Go
    <3>2. inquiry'.status = work[c].next /\ inquiry'.stage = inquiry.stage
      BY <1>4, <3>1
    <3>3. CASE c \notin older
      <4>1. work[c].next \in Lead!ValidStatus[inquiry.status]
        BY <3>1, <3>3 DEF FreshInv, Fresh
      <4>2. MovesInquiry
        BY <3>2, <4>1 DEF Lead!MovesFrom, Lead!MayMove
      <4> QED
        BY <1>1, <2>1, <4>2
    <3> QED
      BY <1>3, <3>1, <3>3
  <2>3. CASE Lead!TransitionPipeline(c)
    <3>1. /\ Lead!Go(c, "stage", "idle") /\ work[c].step = "stage"
          /\ inquiry' = [inquiry EXCEPT !.stage = work[c].next]
      BY <2>3 DEF Lead!TransitionPipeline, Lead!Go
    <3>2. inquiry'.stage = work[c].next /\ inquiry'.status = inquiry.status
      BY <1>4, <3>1
    <3>3. CASE c \notin older
      <4>1. work[c].next \in Lead!ValidStage[inquiry.stage]
        BY <3>1, <3>3 DEF FreshInv, Fresh
      <4>2. MovesInquiry
        BY <3>2, <4>1 DEF Lead!MovesFrom, Lead!MayMove
      <4> QED
        BY <1>1, <2>1, <4>2
    <3> QED
      BY <1>3, <3>1, <3>3
  <2>4. CASE Lead!MarkContacted(c)
    <3>1. /\ Lead!Go(c, "contact", "schedule") /\ work[c].step = "contact"
          /\ inquiry' = [inquiry EXCEPT !.status = "contacted"]
      BY <2>4 DEF Lead!MarkContacted, Lead!MarkInquiry, Lead!Go
    <3>2. inquiry'.status = "contacted" /\ inquiry'.stage = inquiry.stage
      BY <1>4, <3>1
    <3>3. CASE c \notin older
      <4>1. inquiry.status = "new"
        BY <3>1, <3>3 DEF FreshInv, Fresh
      <4>2. MovesInquiry
        BY <3>2, <4>1 DEF Lead!MovesFrom, Lead!MayMove, Lead!ValidStatus
      <4> QED
        BY <1>1, <2>1, <4>2
    <3> QED
      BY <1>3, <3>1, <3>3
  <2>5. CASE Lead!MarkViewingScheduled(c)
    <3>1. /\ Lead!Go(c, "schedule", "idle") /\ work[c].step = "schedule"
          /\ inquiry' = [inquiry EXCEPT !.status = "viewing_scheduled"]
      BY <2>5 DEF Lead!MarkViewingScheduled, Lead!MarkInquiry, Lead!Go
    <3>2. inquiry'.status = "viewing_scheduled" /\ inquiry'.stage = inquiry.stage
      BY <1>4, <3>1
    <3>3. CASE c \notin older
      <4>1. inquiry.status = "contacted"
        BY <3>1, <3>3 DEF FreshInv, Fresh
      <4>2. MovesInquiry
        BY <3>2, <4>1 DEF Lead!MovesFrom, Lead!MayMove, Lead!ValidStatus
      <4> QED
        BY <1>1, <2>1, <4>2
    <3> QED
      BY <1>3, <3>1, <3>3
  <2>6. ASSUME Lead!CountFollowUp(c) \/ Lead!AssignLead(c)
        PROVE  inquiry'.status = inquiry.status /\ inquiry'.stage = inquiry.stage
    <3>1. \/ inquiry' = [inquiry EXCEPT !.count = Lead!Counted(c)]
          \/ inquiry' = [inquiry EXCEPT !.assigned = (work[c].next = "agent")]
      BY <2>6 DEF Lead!CountFollowUp, Lead!AssignLead
    <3> QED
      BY <1>4, <3>1
  <2>7. ASSUME \/ \E next \in DOMAIN Lead!ValidStatus : Lead!BeginStatus(c, next)
               \/ \E next \in DOMAIN Lead!ValidStage : Lead!BeginStage(c, next)
               \/ Lead!BeginLog(c) \/ Lead!LogActivity(c)
               \/ \E next \in {"agent", "nobody"} : Lead!BeginAssign(c, next)
        PROVE  inquiry' = inquiry
    BY <2>7 DEF Lead!BeginStatus, Lead!BeginStage, Lead!BeginLog, Lead!LogActivity,
                Lead!BeginAssign, Lead!Begin
  <2> QED
    BY <1>1, <1>2, <1>5, <2>1, <2>2, <2>3, <2>4, <2>5, <2>6, <2>7 DEF Lead!Inquiring
<1>6. ASSUME NEW c \in Calls,
             \/ Lead!CreateViewing(c) \/ Lead!ApplyViewingDecision(c) \/ Lead!EndViewing(c)
      PROVE  Lead!DeclaredUnlessOlder
  <2>1. PICK from \in {"view", "decide", "end"}, to \in {"idle", "details"} :
            Lead!Go(c, from, to)
    BY <1>6 DEF Lead!CreateViewing, Lead!ApplyViewingDecision, Lead!EndViewing
  <2>2. /\ UNCHANGED <<inquiry, applications>>
        /\ work[c].step \in {"view", "decide", "end"}
        /\ viewings' = [viewings EXCEPT ![work[c].row].status =
                            IF work[c].step = "view" THEN "requested" ELSE work[c].next]
    BY <1>6 DEF Lead!CreateViewing, Lead!ApplyViewingDecision, Lead!EndViewing, Lead!Go,
                Lead!SaveViewing
  <2>3. work[c].row \in Viewings
    BY <2>2 DEF LeadInv, CarriesLead
  <2>4. \A v \in Viewings :
            viewings'[v].status =
                IF v # work[c].row THEN viewings[v].status
                ELSE IF work[c].step = "view" THEN "requested" ELSE work[c].next
    BY <1>4, <2>2, <2>3
  <2>5. CASE c \notin older
    <3>1. /\ work[c].step = "view" => viewings[work[c].row].status \notin DOMAIN Lead!ValidViewing
          /\ work[c].step # "view" =>
                 Lead!MayMove(Lead!ValidViewing, viewings[work[c].row].status, work[c].next)
      <4>1. Fresh(work[c])
        BY <2>5 DEF FreshInv
      <4>2. "absent" \notin ViewingStatus
        BY LeadTables
      <4> QED
        BY <2>2, <4>1, <4>2 DEF Fresh, Lead!MayMove, ViewingStatus
    <3>2. MovesViewings
      BY <2>4, <3>1 DEF Lead!MovesFrom, Lead!MayMove
    <3> QED
      BY <1>1, <1>2, <2>2, <3>2
  <2> QED
    BY <1>3, <2>1, <2>5
<1>7. ASSUME NEW c \in Calls, Lead!SaveDetails(c) PROVE Lead!DeclaredUnlessOlder
  <2>1. /\ UNCHANGED <<inquiry, applications>>
        /\ viewings' = [viewings EXCEPT ![work[c].row].fixed = TRUE]
    BY <1>7 DEF Lead!SaveDetails
  <2>2. \A v \in Viewings : viewings'[v].status = viewings[v].status
    BY <1>4, <2>1
  <2> QED
    BY <1>1, <1>2, <2>1, <2>2
<1>8. ASSUME NEW c \in Calls, NEW a \in Rows, Lead!SubmitApplication(c, a)
      PROVE  Lead!DeclaredUnlessOlder
  <2>1. /\ Lead!Go(c, "apply", "idle") /\ work[c].step = "apply"
        /\ applications[a] = Lead!NoApplication
        /\ applications' = [applications EXCEPT ![a] = [status |-> "submitted",
                                                        viewing |-> work[c].row]]
        /\ UNCHANGED <<inquiry, viewings>>
    BY <1>8 DEF Lead!SubmitApplication, Lead!Go
  <2>2. CASE c \notin older
    <3>1. /\ Lead!ActiveApplications = {}
          /\ work[c].row # NoViewing => Lead!MayLink(work[c].row)
      BY <2>1, <2>2 DEF FreshInv, Fresh
    <3>2. /\ applications[a].status = "absent" /\ applications[a].viewing = NoViewing
          /\ "absent" \notin ApplicationStatus
      BY <2>1, LeadTables DEF Lead!NoApplication
    <3>3. /\ applications'[a].viewing = work[c].row
          /\ \A b \in Rows : b # a => applications'[b] = applications[b]
      BY <1>4, <2>1
    <3>4. MovesApplications
      BY <3>1, <3>2, <3>3 DEF Lead!MovesFrom, Lead!MayMove, ApplicationStatus
    <3> QED
      BY <1>1, <1>2, <2>1, <3>4
  <2> QED
    BY <1>3, <2>1, <2>2
<1>9. ASSUME NEW c \in Calls, Lead!TransitionApplication(c) PROVE Lead!DeclaredUnlessOlder
  <2> DEFINE a == work[c].row
  <2>1. /\ Lead!Go(c, "review", "idle") /\ work[c].step = "review"
        /\ applications' = [applications EXCEPT ![a].status = work[c].next]
        /\ UNCHANGED <<inquiry, viewings>>
    BY <1>9 DEF Lead!TransitionApplication, Lead!Go
  <2>2. a \in Rows
    BY <2>1 DEF LeadInv, CarriesLead
  <2>3. /\ \A b \in Rows : b # a => applications'[b] = applications[b]
        /\ applications'[a].status = work[c].next
        /\ applications'[a].viewing = applications[a].viewing
    BY <1>4, <2>1, <2>2
  <2>4. CASE c \notin older
    <3>1. /\ applications[a].status # "absent"
          /\ work[c].next \in Lead!ValidApplication[applications[a].status]
      BY <2>1, <2>4 DEF FreshInv, Fresh
    <3>2. \A b \in Rows :
              /\ Lead!MovesFrom(Lead!ValidApplication, applications[b].status,
                                applications'[b].status)
              /\ applications'[b].viewing = applications[b].viewing
      BY <2>3, <3>1 DEF Lead!MovesFrom, Lead!MayMove
    <3>3. a \in Lead!ActiveApplications
      BY <1>4, <2>2, <3>1, ActiveBefore DEF Lead!ActiveApplications
    <3> QED
      BY <1>1, <1>2, <2>1, <2>3, <3>2, <3>3 DEF Lead!ActiveApplications
  <2> QED
    BY <1>3, <2>1, <2>4
<1>10. ASSUME \/ Lead!Granting
              \/ \E c \in Calls :
                    \/ Lead!Die(c)
                    \/ \E v \in Viewings :
                          \/ Lead!BeginViewing(c, v)
                          \/ \E next \in {"confirmed", "rescheduled"} :
                                Lead!BeginDecision(c, v, next)
                          \/ \E next \in {"completed", "cancelled"} :
                                Lead!BeginEnding(c, v, next)
                    \/ \E v \in Viewings \cup {NoViewing} : Lead!BeginApplication(c, v)
                    \/ \E a \in Rows : \E next \in DOMAIN Lead!ValidApplication :
                          Lead!BeginReview(c, a, next)
       PROVE  UNCHANGED <<inquiry, viewings, applications>>
  BY <1>10
  DEF Lead!Granting, Lead!GrantAssignment, Lead!RevokeAssignment, Lead!ExpireAssignment,
      Lead!ChangeVerification, Lead!Die, Lead!BeginViewing, Lead!BeginDecision,
      Lead!BeginEnding, Lead!BeginApplication, Lead!BeginReview, Lead!Begin, Lead!rows
<1>11. UNCHANGED <<inquiry, viewings, applications>> => Lead!DeclaredUnlessOlder
  BY <1>1, <1>2
<1> QED
  BY <1>5, <1>6, <1>7, <1>8, <1>9, <1>10, <1>11
  DEF Lead!Next, Lead!Viewing, Lead!Applying

-----------------------------------------------------------------------------
(* The images.  Every save of a cover takes the other marks with it, so    *)
(* one cover needs no more than the types; that a cover is left needs what *)
(* a call in progress has seen.                                            *)

ImageCall == [step : {"idle", "upload", "insert", "edit", "cover", "delete", "replace"},
              cover : BOOLEAN, image : Pictures \cup {"none"}]

AlbumTypes ==
    /\ images \subseteq Pictures /\ covers \subseteq images /\ deleted \subseteq Pictures
    /\ IsFiniteSet(images)
    /\ work \in [Calls -> ImageCall]
    /\ declined \in BOOLEAN /\ overlapped \in BOOLEAN

CarriesImage(k) ==
    /\ k.step = "idle" => k = Album!Idle
    /\ k.step \in {"edit", "cover", "delete", "replace"} => k.image \in Pictures

CoversAlike == \A i, j \in covers : i = j

HasCover == images # {} /\ ~declined => covers # {}

AlbumAlone ==
    /\ \A c, d \in Calls : work[c].step # "idle" /\ work[d].step # "idle" => c = d
    /\ (\A c \in Calls : work[c].step \notin {"cover", "replace"}) => HasCover
    /\ Cardinality(images) <= MaxImages
    /\ images \cap deleted = {}

StillThere(k) ==
    /\ k.step \in {"upload", "insert"} => Cardinality(images) < MaxImages
    /\ k.step = "insert" /\ images = {} => k.cover
    /\ k.step \in {"edit", "cover", "delete"} => k.image \in images

AlbumInv ==
    /\ AlbumTypes
    /\ CoversAlike
    /\ \A c \in Calls : CarriesImage(work[c])
    /\ ~overlapped => AlbumAlone /\ \A c \in Calls : StillThere(work[c])

LEMMA NoImageYet == Album!Idle \in ImageCall /\ Album!Idle.step = "idle"
BY DEF Album!Idle, ImageCall

LEMMA AlbumCardinality ==
    ASSUME NEW S PROVE Album!Cardinality(S) = Cardinality(S)
BY DEF Album!Cardinality, Cardinality

LEMMA AlbumInit == Album!Init => AlbumInv
<1> SUFFICES ASSUME Album!Init PROVE AlbumInv
  OBVIOUS
<1>1. \A c \in Calls : work[c] = Album!Idle /\ work[c].step = "idle"
  BY NoImageYet DEF Album!Init
<1>2. Cardinality(images) = 0 /\ IsFiniteSet(images)
  BY FS_EmptySet DEF Album!Init
<1>3. AlbumTypes
  BY <1>2, NoImageYet DEF Album!Init, AlbumTypes
<1>4. CoversAlike /\ AlbumAlone
  BY <1>1, <1>2, ListingPartsAssumption DEF Album!Init, CoversAlike, AlbumAlone, HasCover
<1> QED
  BY <1>1, <1>3, <1>4, NoImageYet DEF AlbumInv, CarriesImage, StillThere

(* One call moves on to k; images and marks are as the invariant demands.  *)
LEMMA AlbumMoves ==
    ASSUME AlbumInv, NEW c \in Calls, NEW k \in ImageCall, CarriesImage(k),
           work' = [work EXCEPT ![c] = k],
           \/ work[c] # Album!Idle /\ overlapped' = overlapped
           \/ /\ work[c] = Album!Idle
              /\ overlapped' = (overlapped \/ \E d \in Calls : work[d] # Album!Idle),
           images' \subseteq Pictures, covers' \subseteq images', IsFiniteSet(images'),
           deleted' \subseteq Pictures, declined' \in BOOLEAN, CoversAlike',
           ~overlapped =>
               /\ k.step \notin {"cover", "replace"} => HasCover'
               /\ Cardinality(images') <= MaxImages
               /\ images' \cap deleted' = {}
               /\ StillThere(k)'
    PROVE  AlbumInv'
<1>1. work \in [Calls -> ImageCall] /\ \A d \in Calls : CarriesImage(work[d])
  BY DEF AlbumInv, AlbumTypes
<1>2. \A d \in Calls : work'[d] = IF d = c THEN k ELSE work[d]
  BY <1>1
<1>3. AlbumTypes'
  BY <1>1 DEF AlbumTypes, AlbumInv
<1>4. \A d \in Calls : CarriesImage(work[d])'
  BY <1>1, <1>2 DEF CarriesImage
<1>5. ASSUME ~overlapped' PROVE AlbumAlone' /\ \A d \in Calls : StillThere(work[d])'
  <2>1. ~overlapped /\ \A d \in Calls : d # c => work[d].step = "idle"
    <3>1. CASE work[c] = Album!Idle
      BY <1>5, <3>1, NoImageYet
    <3>2. CASE work[c] # Album!Idle
      BY <1>1, <1>5, <3>2 DEF CarriesImage, AlbumInv, AlbumAlone
    <3> QED
      BY <3>1, <3>2
  <2>2. AlbumAlone'
    BY <1>2, <2>1 DEF AlbumAlone
  <2> QED
    BY <1>2, <2>1, <2>2 DEF StillThere
<1> QED
  BY <1>3, <1>4, <1>5 DEF AlbumInv

(* No call that begins changes anything else.                              *)
LEMMA AlbumBegin ==
    ASSUME AlbumInv, NEW c \in Calls, NEW loaded \in ImageCall, Album!Begin(c, loaded),
           CarriesImage(loaded), loaded.step \notin {"insert", "replace"},
           loaded.step = "upload" => Cardinality(images) < MaxImages,
           loaded.step \in {"edit", "cover", "delete"} => loaded.image \in images
    PROVE  AlbumInv'
<1>1. /\ work' = [work EXCEPT ![c] = loaded] /\ work[c] = Album!Idle
      /\ overlapped' = (overlapped \/ \E d \in Calls : work[d] # Album!Idle)
      /\ UNCHANGED <<images, covers, deleted, declined>>
  BY DEF Album!Begin
<1>2. AlbumTypes /\ CoversAlike /\ CoversAlike'
  BY <1>1 DEF AlbumInv, CoversAlike
<1>3. StillThere(loaded)'
  BY <1>1 DEF StillThere
<1>4. CASE overlapped
  BY <1>1, <1>2, <1>4, AlbumMoves DEF AlbumTypes
<1>5. CASE ~overlapped /\ \A d \in Calls : work[d] = Album!Idle
  <2>1. HasCover' /\ Cardinality(images') <= MaxImages /\ images' \cap deleted' = {}
    BY <1>1, <1>5, NoImageYet DEF AlbumInv, AlbumAlone, HasCover
  <2> QED
    BY <1>1, <1>2, <1>3, <2>1, AlbumMoves DEF AlbumTypes
<1>6. CASE ~overlapped /\ \E d \in Calls : work[d] # Album!Idle
  <2>1. overlapped'
    BY <1>1, <1>6
  <2>2. \A d \in Calls : work'[d] = IF d = c THEN loaded ELSE work[d]
    BY <1>1, <1>2 DEF AlbumTypes
  <2>3. \A d \in Calls : CarriesImage(work[d])'
    BY <2>2 DEF AlbumInv, CarriesImage
  <2> QED
    BY <1>1, <1>2, <2>1, <2>3 DEF AlbumInv, AlbumTypes
<1> QED
  BY <1>4, <1>5, <1>6

LEMMA AlbumBegins ==
    ASSUME AlbumInv, NEW c \in Calls,
           \/ \E cover \in BOOLEAN : Album!BeginUpload(c, cover)
           \/ \E i \in Pictures :
                 \/ Album!BeginCover(c, i) \/ Album!BeginDelete(c, i)
                 \/ \E cover \in BOOLEAN : Album!BeginEdit(c, i, cover)
    PROVE  AlbumInv'
<1>1. ASSUME NEW cover \in BOOLEAN, Album!BeginUpload(c, cover) PROVE AlbumInv'
  <2> DEFINE k == [Album!Idle EXCEPT !.step = "upload", !.cover = cover]
  <2>1. k \in ImageCall /\ k.step = "upload"
    BY DEF Album!Idle, ImageCall
  <2>2. Album!Begin(c, k) /\ Cardinality(images) < MaxImages
    BY <1>1, AlbumCardinality DEF Album!BeginUpload, Album!HasRoom
  <2> HIDE DEF k
  <2>3. CarriesImage(k)
    BY <2>1 DEF CarriesImage
  <2> QED
    BY <2>1, <2>2, <2>3, AlbumBegin
<1>2. ASSUME NEW step \in {"edit", "cover", "delete"}, NEW i \in images, NEW cover \in BOOLEAN,
             Album!Begin(c, [step |-> step, cover |-> cover, image |-> i])
      PROVE  AlbumInv'
  <2> DEFINE k == [step |-> step, cover |-> cover, image |-> i]
  <2>1. k \in ImageCall /\ k.step = step /\ k.image = i /\ i \in Pictures
    BY DEF ImageCall, AlbumInv, AlbumTypes
  <2>2. Album!Begin(c, k)
    BY <1>2
  <2> HIDE DEF k
  <2>3. CarriesImage(k)
    BY <2>1 DEF CarriesImage
  <2> QED
    BY <2>1, <2>2, <2>3, AlbumBegin
<1> QED
  BY <1>1, <1>2 DEF Album!BeginCover, Album!BeginDelete, Album!BeginEdit

LEMMA AlbumLook ==
    ASSUME AlbumInv, NEW c \in Calls, Album!LookForFirst(c) PROVE AlbumInv'
<1>1. /\ work[c].step = "upload" /\ work[c] \in ImageCall
      /\ UNCHANGED <<images, covers, deleted, declined, overlapped>>
  BY DEF Album!LookForFirst, AlbumInv, AlbumTypes
<1>2. PICK k \in ImageCall : k = [work[c] EXCEPT !.step = "insert", !.cover = @ \/ images = {}]
  BY <1>1 DEF ImageCall
<1>3. /\ work' = [work EXCEPT ![c] = k]
      /\ k.step = "insert" /\ (images = {} => k.cover)
  BY <1>1, <1>2 DEF Album!LookForFirst, AlbumInv, AlbumTypes, ImageCall
<1>4. work[c] # Album!Idle /\ CarriesImage(k)
  BY <1>1, <1>3, NoImageYet DEF CarriesImage
<1>5. AlbumTypes /\ CoversAlike'
  BY <1>1 DEF AlbumInv, CoversAlike
<1>6. ASSUME ~overlapped
      PROVE  /\ HasCover' /\ StillThere(k)'
             /\ Cardinality(images') <= MaxImages /\ images' \cap deleted' = {}
  <2>1. AlbumAlone /\ StillThere(work[c])
    BY <1>6 DEF AlbumInv
  <2>2. \A d \in Calls : work[d].step \notin {"cover", "replace"}
    BY <1>1, <2>1 DEF AlbumAlone
  <2> QED
    BY <1>1, <1>3, <2>1, <2>2 DEF AlbumAlone, StillThere, HasCover
<1> QED
  BY <1>1, <1>2, <1>3, <1>4, <1>5, <1>6, AlbumMoves DEF AlbumTypes

(* A save writes one mark and leaves at most one.                          *)
LEMMA AlbumSaves ==
    ASSUME AlbumTypes, CoversAlike, NEW i \in Pictures, NEW cover \in BOOLEAN,
           Album!Save(i, cover)
    PROVE  /\ images' = images \cup {i} /\ images' \subseteq Pictures /\ IsFiniteSet(images')
           /\ covers' = IF cover THEN {i} ELSE covers \ {i}
           /\ covers' \subseteq images' /\ CoversAlike'
           /\ Cardinality(images') <= Cardinality(images) + 1 /\ Cardinality(images') \in Nat
           /\ i \in images => images' = images
<1>1. images' = images \cup {i} /\ covers' = IF cover THEN {i} ELSE covers \ {i}
  BY DEF Album!Save
<1>2. IsFiniteSet(images') /\ Cardinality(images) \in Nat /\ Cardinality(images') \in Nat
  BY <1>1, FS_AddElement, FS_CardinalityType DEF AlbumTypes
<1>3. Cardinality(images') = Cardinality(images)
      \/ Cardinality(images') = Cardinality(images) + 1
  BY <1>1, FS_AddElement DEF AlbumTypes
<1>4. CoversAlike'
  BY <1>1 DEF CoversAlike
<1>5. Cardinality(images') <= Cardinality(images) + 1
  BY <1>2, <1>3
<1> QED
  BY <1>1, <1>2, <1>4, <1>5 DEF AlbumTypes

LEMMA AlbumUpload ==
    ASSUME AlbumInv, NEW c \in Calls, NEW i \in Pictures, Album!Upload(c, i) PROVE AlbumInv'
<1>1. /\ work[c].step = "insert" /\ work' = [work EXCEPT ![c] = Album!Idle]
      /\ i \notin images \cup deleted
      /\ Album!Save(i, work[c].cover)
      /\ declined' = (declined /\ ~work[c].cover)
      /\ UNCHANGED <<deleted, overlapped>>
  BY DEF Album!Upload, Album!End
<1>2. AlbumTypes /\ CoversAlike /\ work[c].cover \in BOOLEAN
  BY DEF AlbumInv, AlbumTypes, ImageCall
<1>3. /\ images' = images \cup {i} /\ images' \subseteq Pictures /\ IsFiniteSet(images')
      /\ covers' = IF work[c].cover THEN {i} ELSE covers \ {i}
      /\ covers' \subseteq images' /\ CoversAlike'
      /\ Cardinality(images') <= Cardinality(images) + 1 /\ Cardinality(images') \in Nat
  BY <1>1, <1>2, AlbumSaves
<1>4. work[c] # Album!Idle /\ CarriesImage(Album!Idle) /\ StillThere(Album!Idle)'
  BY <1>1, NoImageYet DEF CarriesImage, StillThere
<1>5. ASSUME ~overlapped
      PROVE  HasCover' /\ Cardinality(images') <= MaxImages /\ images' \cap deleted' = {}
  <2>1. AlbumAlone /\ StillThere(work[c])
    BY <1>5 DEF AlbumInv
  <2>2. HasCover
    BY <1>1, <2>1 DEF AlbumAlone
  <2>3. HasCover'
    <3>1. CASE work[c].cover
      BY <1>3, <3>1 DEF HasCover
    <3>2. CASE ~work[c].cover
      BY <1>1, <1>2, <1>3, <2>1, <2>2, <3>2 DEF HasCover, StillThere, AlbumTypes
    <3> QED
      BY <3>1, <3>2
  <2>4. Cardinality(images) < MaxImages /\ Cardinality(images) \in Nat
    BY <1>1, <1>2, <2>1, FS_CardinalityType DEF StillThere, AlbumTypes
  <2>5. Cardinality(images') <= MaxImages
    BY <1>3, <2>4, ListingPartsAssumption
  <2> QED
    BY <1>1, <1>3, <2>1, <2>3, <2>5 DEF AlbumAlone
<1>6. deleted' \subseteq Pictures /\ declined' \in BOOLEAN
  BY <1>1, <1>2 DEF AlbumTypes
<1> QED
  BY <1>1, <1>3, <1>4, <1>5, <1>6, NoImageYet, AlbumMoves

LEMMA AlbumSaveEdit ==
    ASSUME AlbumInv, NEW c \in Calls, Album!SaveEdit(c) PROVE AlbumInv'
<1> DEFINE i == work[c].image
<1>1. /\ work[c].step = "edit" /\ work' = [work EXCEPT ![c] = Album!Idle]
      /\ Album!Save(i, work[c].cover)
      /\ declined' = ((declined \/ i \in covers) /\ ~work[c].cover)
      /\ UNCHANGED <<deleted, overlapped>>
  BY DEF Album!SaveEdit, Album!End
<1>2. AlbumTypes /\ CoversAlike /\ work[c].cover \in BOOLEAN /\ i \in Pictures
  BY <1>1 DEF AlbumInv, AlbumTypes, ImageCall, CarriesImage
<1>3. /\ images' = images \cup {i} /\ images' \subseteq Pictures /\ IsFiniteSet(images')
      /\ covers' = IF work[c].cover THEN {i} ELSE covers \ {i}
      /\ covers' \subseteq images' /\ CoversAlike'
      /\ i \in images => images' = images
  BY <1>1, <1>2, AlbumSaves
<1>4. work[c] # Album!Idle /\ CarriesImage(Album!Idle) /\ StillThere(Album!Idle)'
  BY <1>1, NoImageYet DEF CarriesImage, StillThere
<1>5. ASSUME ~overlapped
      PROVE  HasCover' /\ Cardinality(images') <= MaxImages /\ images' \cap deleted' = {}
  <2>1. AlbumAlone /\ i \in images
    BY <1>1, <1>5 DEF AlbumInv, StillThere
  <2>2. HasCover
    BY <1>1, <2>1 DEF AlbumAlone
  <2>3. HasCover'
    <3>1. CASE work[c].cover
      BY <1>3, <3>1 DEF HasCover
    <3>2. CASE ~work[c].cover
      BY <1>1, <1>3, <2>1, <2>2, <3>2 DEF HasCover
    <3> QED
      BY <3>1, <3>2
  <2> QED
    BY <1>1, <1>3, <2>1, <2>3 DEF AlbumAlone
<1>6. deleted' \subseteq Pictures /\ declined' \in BOOLEAN
  BY <1>1, <1>2 DEF AlbumTypes
<1> QED
  BY <1>1, <1>3, <1>4, <1>5, <1>6, NoImageYet, AlbumMoves

LEMMA AlbumSetAsCover ==
    ASSUME AlbumInv, NEW c \in Calls, Album!SetAsCover(c) PROVE AlbumInv'
<1> DEFINE i == work[c].image
<1>1. /\ work[c].step = "cover" /\ work' = [work EXCEPT ![c] = Album!Idle]
      /\ i \in images => Album!Save(i, TRUE) /\ declined' = FALSE
      /\ i \notin images => UNCHANGED <<images, covers, declined>>
      /\ UNCHANGED <<deleted, overlapped>>
  BY DEF Album!SetAsCover, Album!End
<1>2. AlbumTypes /\ CoversAlike /\ i \in Pictures
  BY <1>1 DEF AlbumInv, AlbumTypes, ImageCall, CarriesImage
<1>3. /\ images' = images /\ covers' \subseteq images'
      /\ covers' = IF i \in images THEN {i} ELSE covers
      /\ CoversAlike' /\ declined' \in BOOLEAN
  <2>1. CASE i \in images
    BY <1>1, <1>2, <2>1, AlbumSaves
  <2>2. CASE i \notin images
    BY <1>1, <1>2, <2>2 DEF AlbumTypes, CoversAlike
  <2> QED
    BY <2>1, <2>2
<1>4. work[c] # Album!Idle /\ CarriesImage(Album!Idle) /\ StillThere(Album!Idle)'
  BY <1>1, NoImageYet DEF CarriesImage, StillThere
<1>5. ASSUME ~overlapped
      PROVE  HasCover' /\ Cardinality(images') <= MaxImages /\ images' \cap deleted' = {}
  <2>1. AlbumAlone /\ i \in images
    BY <1>1, <1>5 DEF AlbumInv, StillThere
  <2> QED
    BY <1>1, <1>3, <2>1 DEF AlbumAlone, HasCover
<1> QED
  BY <1>1, <1>2, <1>3, <1>4, <1>5, NoImageYet, AlbumMoves DEF AlbumTypes

LEMMA AlbumDelete ==
    ASSUME AlbumInv, NEW c \in Calls, Album!Delete(c) PROVE AlbumInv'
<1> DEFINE i == work[c].image
<1>1. /\ work[c].step = "delete" /\ work' = [work EXCEPT ![c].step = "replace"]
      /\ images' = images \ {i} /\ covers' = covers \ {i}
      /\ deleted' = deleted \cup {i}
      /\ UNCHANGED <<declined, overlapped>>
  BY DEF Album!Delete
<1>2. AlbumTypes /\ CoversAlike /\ i \in Pictures /\ work[c] \in ImageCall
  BY <1>1 DEF AlbumInv, AlbumTypes, ImageCall, CarriesImage
<1>3. PICK k \in ImageCall : k = [work[c] EXCEPT !.step = "replace"]
  BY <1>2 DEF ImageCall
<1>4. work' = [work EXCEPT ![c] = k] /\ k.step = "replace" /\ k.image = i
  BY <1>1, <1>2, <1>3 DEF AlbumTypes, ImageCall
<1>5. /\ images' \subseteq Pictures /\ covers' \subseteq images' /\ deleted' \subseteq Pictures
      /\ CoversAlike' /\ declined' \in BOOLEAN
  BY <1>1, <1>2 DEF AlbumTypes, CoversAlike
<1>6. /\ IsFiniteSet(images') /\ Cardinality(images') <= Cardinality(images)
      /\ Cardinality(images') \in Nat /\ Cardinality(images) \in Nat
  <2>1. images' \in SUBSET images
    BY <1>1
  <2> QED
    BY <1>2, <2>1, FS_Subset, FS_CardinalityType DEF AlbumTypes
<1>7. work[c] # Album!Idle /\ CarriesImage(k) /\ StillThere(k)'
  BY <1>1, <1>2, <1>4, NoImageYet DEF CarriesImage, StillThere
<1>8. ASSUME ~overlapped
      PROVE  Cardinality(images') <= MaxImages /\ images' \cap deleted' = {}
  <2>1. AlbumAlone
    BY <1>8 DEF AlbumInv
  <2>2. Cardinality(images') <= MaxImages
    BY <1>6, <2>1, ListingPartsAssumption DEF AlbumAlone
  <2> QED
    BY <1>1, <2>1, <2>2 DEF AlbumAlone
<1> QED
  BY <1>1, <1>3, <1>4, <1>5, <1>6, <1>7, <1>8, AlbumMoves

LEMMA AlbumReplace ==
    ASSUME AlbumInv, NEW c \in Calls, Album!ChooseReplacement(c) PROVE AlbumInv'
<1>1. /\ work[c].step = "replace" /\ work[c] # Album!Idle
      /\ UNCHANGED <<images, covers, deleted, declined, overlapped>>
  BY NoImageYet DEF Album!ChooseReplacement
<1>2. AlbumTypes /\ CoversAlike'
  BY <1>1 DEF AlbumInv, CoversAlike
<1>3. ~overlapped => Cardinality(images') <= MaxImages /\ images' \cap deleted' = {}
  BY <1>1 DEF AlbumInv, AlbumAlone
<1>4. ASSUME NEW i \in Album!Replacements,
             work' = [work EXCEPT ![c] = [step |-> "cover", cover |-> TRUE, image |-> i]]
      PROVE  AlbumInv'
  <2> DEFINE k == [step |-> "cover", cover |-> TRUE, image |-> i]
  <2>1. i \in images /\ i \in Pictures
    BY <1>2 DEF Album!Replacements, AlbumTypes
  <2>2. k \in ImageCall /\ k.step = "cover" /\ k.image = i
    BY <2>1 DEF ImageCall
  <2>3. work' = [work EXCEPT ![c] = k]
    BY <1>4
  <2> HIDE DEF k
  <2>4. CarriesImage(k) /\ StillThere(k)'
    BY <1>1, <2>1, <2>2 DEF CarriesImage, StillThere
  <2> QED
    BY <1>1, <1>2, <1>3, <2>2, <2>3, <2>4, AlbumMoves DEF AlbumTypes
<1>5. ASSUME Album!Replacements = {}, work' = [work EXCEPT ![c] = Album!Idle]
      PROVE  AlbumInv'
  <2>1. HasCover'
    BY <1>1, <1>5 DEF HasCover, Album!Replacements
  <2>2. CarriesImage(Album!Idle) /\ StillThere(Album!Idle)'
    BY NoImageYet DEF CarriesImage, StillThere
  <2> QED
    BY <1>1, <1>2, <1>3, <1>5, <2>1, <2>2, NoImageYet, AlbumMoves DEF AlbumTypes
<1> QED
  BY <1>4, <1>5 DEF Album!ChooseReplacement

LEMMA AlbumStep == AlbumInv /\ Album!Next => AlbumInv'
<1>1. ASSUME AlbumInv, NEW c \in Calls, Album!Die(c) PROVE AlbumInv'
  <2>1. /\ work' = [work EXCEPT ![c] = Album!Idle] /\ overlapped' = TRUE
        /\ UNCHANGED <<images, covers, deleted, declined>>
    BY <1>1 DEF Album!Die
  <2>2. /\ work' \in [Calls -> ImageCall]
        /\ \A d \in Calls : work'[d] = IF d = c THEN Album!Idle ELSE work[d]
    BY <1>1, <2>1, NoImageYet DEF AlbumInv, AlbumTypes
  <2>3. \A d \in Calls : CarriesImage(work[d])'
    BY <1>1, <2>2, NoImageYet DEF AlbumInv, CarriesImage
  <2> QED
    BY <1>1, <2>1, <2>2, <2>3 DEF AlbumInv, AlbumTypes, CoversAlike
<1> QED
  BY <1>1, AlbumBegins, AlbumLook, AlbumUpload, AlbumSaveEdit, AlbumSetAsCover, AlbumDelete,
     AlbumReplace
  DEF Album!Next

LEMMA AlbumHolds ==
    ASSUME AlbumInv
    PROVE  Album!TypeOK /\ Album!OneCover /\ Album!CoverStands
<1>1. Album!OneCover
  <2>1. CASE covers = {}
    BY <2>1, FS_EmptySet, AlbumCardinality DEF Album!OneCover
  <2>2. ASSUME NEW i \in covers PROVE Album!OneCover
    <3>1. covers = {i}
      BY DEF AlbumInv, CoversAlike
    <3>2. Cardinality({i}) = 1
      BY FS_Singleton
    <3> QED
      BY <3>1, <3>2, AlbumCardinality DEF Album!OneCover
  <2> QED
    BY <2>1, <2>2
<1>2. Album!CoverStands
  BY NoImageYet, AlbumCardinality DEF AlbumInv, AlbumAlone, HasCover, Album!CoverStands
<1> QED
  BY <1>1, <1>2 DEF AlbumInv, AlbumTypes, Album!TypeOK

-----------------------------------------------------------------------------
(* The walkthrough videos.  No row goes away, so a call keeps the video    *)
(* that it found; and what an edit saves was approved before if it says so.*)

VideoRow == [status : Films!WalkthroughStatus \cup {"absent"}, featured : BOOLEAN]

VideoCall == [step : {"idle", "upload", "update", "clear", "feature"},
              video : Videos \cup {"none"},
              row : VideoRow]

FilmsTypes ==
    /\ videos \in [Videos -> VideoRow]
    /\ work \in [Calls -> VideoCall]
    /\ approved \subseteq Videos /\ chosen \subseteq Videos /\ revived \subseteq Videos
    /\ overlapped \in BOOLEAN
    /\ \A v \in Videos : videos[v].status = "absent" => videos[v] = Films!Absent
    /\ IsFiniteSet(Films!Existing)

CarriesVideo(k) ==
    /\ k.step = "idle" => k = Films!Idle
    /\ k.step = "upload" => k.row.status = "draft"
    /\ k.step \in {"update", "clear", "feature"} =>
          k.video \in Films!Existing
    /\ k.step = "update" =>
          /\ k.row.status # "absent"
          /\ k.row.status = "approved" => k.video \in approved

VideosApproved == \A v \in Videos : videos[v].status = "approved" => v \in approved

FilmsAlone ==
    /\ \A c, d \in Calls : work[c].step # "idle" /\ work[d].step # "idle" => c = d
    /\ (\A c \in Calls : work[c].step # "feature") => Films!Featured = chosen
    /\ Films!Cardinality(Films!Shown \ revived) <= MaxVideos

StillFits(k) ==
    /\ k.step = "feature" => Films!Featured \subseteq {k.video}
    /\ k.step = "upload" => Films!Cardinality(Films!Shown \ revived) < MaxVideos
    /\ k.step = "update" => k.row.status = videos[k.video].status

FilmsInv ==
    /\ FilmsTypes
    /\ VideosApproved
    /\ \A c \in Calls : CarriesVideo(work[c])
    /\ ~overlapped => FilmsAlone /\ \A c \in Calls : StillFits(work[c])

LEMMA NoVideoYet ==
    /\ Films!Absent \in VideoRow /\ Films!Idle \in VideoCall
    /\ Films!Absent.status = "absent" /\ ~Films!Absent.featured
    /\ Films!Idle.step = "idle"
BY DEF Films!Absent, Films!Idle, VideoRow, VideoCall

LEMMA FilmsCardinality ==
    ASSUME NEW S PROVE Films!Cardinality(S) = Cardinality(S)
BY DEF Films!Cardinality, Cardinality

LEMMA FewerVideos ==
    ASSUME NEW S, IsFiniteSet(S), NEW T \in SUBSET S
    PROVE  /\ IsFiniteSet(T)
           /\ Films!Cardinality(T) \in Nat /\ Films!Cardinality(S) \in Nat
           /\ Films!Cardinality(T) <= Films!Cardinality(S)
BY FS_Subset, FS_CardinalityType, FilmsCardinality

(* What exists and what is shown depends on the statuses alone.            *)
LEMMA ShownByStatus ==
    ASSUME FilmsTypes
    PROVE  /\ Films!Existing = {v \in Videos : videos[v].status # "absent"}
           /\ Films!Shown = {v \in Videos : videos[v].status \notin {"absent", "archived"}}
           /\ IsFiniteSet(Films!Shown \ revived)
<1>1. \A v \in Videos : videos[v] # Films!Absent <=> videos[v].status # "absent"
  BY NoVideoYet DEF FilmsTypes
<1>2. Films!Existing = {v \in Videos : videos[v].status # "absent"}
  BY <1>1 DEF Films!Existing
<1>3. Films!Shown = {v \in Videos : videos[v].status \notin {"absent", "archived"}}
  BY <1>2 DEF Films!Shown
<1>4. (Films!Shown \ revived) \in SUBSET Films!Existing
  BY DEF Films!Shown
<1> QED
  BY <1>2, <1>3, <1>4, FS_Subset DEF FilmsTypes

LEMMA FilmsInit == Films!Init => FilmsInv
<1> SUFFICES ASSUME Films!Init PROVE FilmsInv
  OBVIOUS
<1>1. Films!Existing = {} /\ Films!Featured = {}
  BY NoVideoYet DEF Films!Init, Films!Existing, Films!Featured
<1>2. FilmsTypes
  BY <1>1, NoVideoYet, FS_EmptySet DEF Films!Init, FilmsTypes
<1>3. \A c \in Calls : work[c] = Films!Idle /\ work[c].step = "idle"
  BY NoVideoYet DEF Films!Init
<1>4. VideosApproved
  BY NoVideoYet DEF Films!Init, VideosApproved
<1>5. Films!Cardinality(Films!Shown \ revived) = 0
  <2>1. Films!Shown \ revived = {}
    BY <1>1 DEF Films!Shown
  <2> QED
    BY <2>1, FilmsCardinality, FS_EmptySet
<1>6. FilmsAlone
  BY <1>1, <1>3, <1>5, ListingPartsAssumption DEF FilmsAlone, Films!Init
<1> QED
  BY <1>2, <1>3, <1>4, <1>6 DEF FilmsInv, CarriesVideo, StillFits

(* A call begins with what it loaded, and changes nothing else.            *)
LEMMA FilmsBegin ==
    ASSUME FilmsInv, NEW c \in Calls, NEW loaded \in VideoCall, Films!Begin(c, loaded),
           CarriesVideo(loaded), loaded.step \notin {"idle", "feature"},
           loaded.step = "upload" => Films!HasRoom,
           loaded.step = "update" => loaded.row.status = videos[loaded.video].status
    PROVE  FilmsInv'
<1>1. /\ work' = [work EXCEPT ![c] = loaded]
      /\ UNCHANGED <<videos, approved, chosen, revived>>
      /\ overlapped' = (overlapped \/ \E d \in Calls : work[d] # Films!Idle)
  BY DEF Films!Begin, Films!history
<1>2. \A d \in Calls : work'[d] = IF d = c THEN loaded ELSE work[d]
  BY <1>1 DEF FilmsInv, FilmsTypes
<1>3. /\ Films!Existing' = Films!Existing /\ Films!Featured' = Films!Featured
      /\ Films!Shown' = Films!Shown
  BY <1>1 DEF Films!Existing, Films!Featured, Films!Shown
<1>4. FilmsTypes'
  BY <1>1, <1>3 DEF FilmsInv, FilmsTypes
<1>5. VideosApproved' /\ \A d \in Calls : CarriesVideo(work[d])'
  BY <1>1, <1>2, <1>3 DEF FilmsInv, VideosApproved, CarriesVideo
<1>6. ASSUME ~overlapped' PROVE FilmsAlone' /\ \A d \in Calls : StillFits(work[d])'
  <2>1. ~overlapped /\ \A d \in Calls : work[d].step = "idle"
    BY <1>1, <1>6, NoVideoYet
  <2>2. FilmsAlone'
    BY <1>1, <1>2, <1>3, <2>1 DEF FilmsInv, FilmsAlone
  <2>3. loaded.step = "upload" => Films!Cardinality(Films!Shown \ revived) < MaxVideos
    <3>1. IsFiniteSet(Films!Shown)
      BY FS_Subset DEF FilmsInv, FilmsTypes, Films!Shown
    <3> QED
      BY <3>1, FewerVideos, ListingPartsAssumption DEF Films!HasRoom
  <2>4. \A d \in Calls : StillFits(work[d])'
    BY <1>1, <1>2, <1>3, <2>1, <2>3 DEF StillFits
  <2> QED
    BY <2>2, <2>4
<1> QED
  BY <1>4, <1>5, <1>6 DEF FilmsInv

LEMMA FilmsBegins ==
    ASSUME FilmsInv, NEW c \in Calls,
           \/ \E featured \in BOOLEAN : Films!BeginUpload(c, featured)
           \/ \E v \in Videos :
                 \/ Films!BeginFeature(c, v)
                 \/ \E featured \in BOOLEAN : Films!BeginUpdate(c, v, featured)
    PROVE  FilmsInv'
<1>1. ASSUME NEW featured \in BOOLEAN, Films!BeginUpload(c, featured) PROVE FilmsInv'
  <2> DEFINE k == [step |-> "upload", video |-> "none",
                   row |-> [status |-> "draft", featured |-> featured]]
  <2>1. k \in VideoCall /\ k.step = "upload" /\ k.row.status = "draft"
    BY DEF VideoCall, VideoRow, Films!WalkthroughStatus
  <2>2. Films!Begin(c, k) /\ Films!HasRoom
    BY <1>1 DEF Films!BeginUpload
  <2> HIDE DEF k
  <2>3. CarriesVideo(k)
    BY <2>1 DEF CarriesVideo
  <2> QED
    BY <2>1, <2>2, <2>3, FilmsBegin
<1>2. ASSUME NEW v \in Videos, Films!BeginFeature(c, v) PROVE FilmsInv'
  <2> DEFINE k == [step |-> "clear", video |-> v, row |-> Films!Absent]
  <2>1. k \in VideoCall /\ k.step = "clear" /\ k.video = v
    BY NoVideoYet DEF VideoCall
  <2>2. Films!Begin(c, k) /\ v \in Films!Existing
    BY <1>2 DEF Films!BeginFeature
  <2> HIDE DEF k
  <2>3. CarriesVideo(k)
    BY <2>1, <2>2 DEF CarriesVideo
  <2> QED
    BY <2>1, <2>2, <2>3, FilmsBegin
<1>3. ASSUME NEW v \in Videos, NEW featured \in BOOLEAN, Films!BeginUpdate(c, v, featured)
      PROVE  FilmsInv'
  <2> DEFINE row == [videos[v] EXCEPT !.featured = featured]
             k == [step |-> "update", video |-> v, row |-> row]
  <2>1. videos[v] \in VideoRow
    BY DEF FilmsInv, FilmsTypes
  <2>2. row \in VideoRow /\ row.status = videos[v].status
    BY <2>1 DEF VideoRow
  <2>3. Films!Begin(c, k) /\ v \in Films!Existing
    BY <1>3 DEF Films!BeginUpdate
  <2> HIDE DEF row
  <2>4. k \in VideoCall /\ k.step = "update" /\ k.video = v /\ k.row = row
    BY <2>2 DEF VideoCall
  <2> HIDE DEF k
  <2>5. CarriesVideo(k)
    BY <2>2, <2>3, <2>4, ShownByStatus DEF CarriesVideo, FilmsInv, VideosApproved
  <2> QED
    BY <2>2, <2>3, <2>4, <2>5, FilmsBegin
<1> QED
  BY <1>1, <1>2, <1>3

(* A call ends.  Alone, it leaves nobody at work.                          *)
LEMMA FilmsEnd ==
    ASSUME FilmsInv, NEW c \in Calls, work[c].step # "idle",
           work' = [work EXCEPT ![c] = Films!Idle], overlapped' = overlapped
    PROVE  /\ work' \in [Calls -> VideoCall]
           /\ \A d \in Calls : work'[d] = IF d = c THEN Films!Idle ELSE work[d]
           /\ ~overlapped' => \A d \in Calls : work'[d].step = "idle"
<1>1. work \in [Calls -> VideoCall] /\ (~overlapped => FilmsAlone)
  BY DEF FilmsInv, FilmsTypes
<1> QED
  BY <1>1, NoVideoYet DEF FilmsAlone

(* One row is saved and the call ends; a row that would be a second        *)
(* featured one is not saved.                                              *)
LEMMA FilmsSaves ==
    ASSUME FilmsInv, NEW c \in Calls, NEW v \in Videos, NEW row \in VideoRow,
           NEW from \in {"upload", "update"},
           Films!End(c, from), Films!Save(v, row), UNCHANGED <<approved, revived>>,
           row.status # "absent", row.status = "approved" => v \in approved,
           ~overlapped =>
               \/ row.status = videos[v].status
               \/ Films!Cardinality(Films!Shown \ revived) < MaxVideos
    PROVE  FilmsInv'
<1> USE DEF FilmsInv
<1>1. /\ work[c].step = from /\ work' = [work EXCEPT ![c] = Films!Idle]
      /\ overlapped' = overlapped
  BY DEF Films!End
<1>2. /\ work' \in [Calls -> VideoCall]
      /\ \A d \in Calls : work'[d] = IF d = c THEN Films!Idle ELSE work[d]
      /\ ~overlapped' => \A d \in Calls : work'[d].step = "idle"
  BY <1>1, FilmsEnd
<1>3. \/ UNCHANGED <<videos, chosen>>
      \/ /\ videos' = [videos EXCEPT ![v] = row]
         /\ chosen' = IF row.featured THEN {v} ELSE chosen \ {v}
         /\ row.featured => Films!Featured \subseteq {v}
  BY DEF Films!Save, Films!Fits
<1>4. videos' \in [Videos -> VideoRow] /\ chosen' \subseteq Videos
  BY <1>3 DEF FilmsTypes
<1>5. \A w \in Videos : w # v => videos'[w] = videos[w]
  BY <1>3 DEF FilmsTypes
<1>6. videos'[v] = videos[v] \/ videos'[v] = row
  BY <1>3 DEF FilmsTypes
<1>7. row # Films!Absent
  BY NoVideoYet
<1>8. /\ Films!Existing \subseteq Films!Existing'
      /\ Films!Existing' \subseteq Films!Existing \cup {v}
  BY <1>5, <1>6, <1>7 DEF Films!Existing
<1>9. FilmsTypes'
  <2>1. IsFiniteSet(Films!Existing')
    BY <1>8, FS_AddElement, FS_Subset DEF FilmsTypes
  <2>2. \A w \in Videos : videos'[w].status = "absent" => videos'[w] = Films!Absent
    BY <1>5, <1>6 DEF FilmsTypes
  <2> QED
    BY <1>1, <1>2, <1>4, <2>1, <2>2 DEF FilmsTypes
<1>10. VideosApproved'
  BY <1>5, <1>6 DEF VideosApproved
<1>11. \A d \in Calls : CarriesVideo(work[d])'
  BY <1>2, <1>8, NoVideoYet DEF CarriesVideo
<1>12. ASSUME ~overlapped' PROVE FilmsAlone' /\ \A d \in Calls : StillFits(work[d])'
  <2>1. \A d \in Calls : work[d].step # "feature"
    BY <1>1, <1>12 DEF FilmsAlone
  <2>2. Films!Featured = chosen
    BY <1>1, <1>12, <2>1 DEF FilmsAlone
  <2>3. Films!Featured' = chosen'
    <3>1. CASE UNCHANGED <<videos, chosen>>
      BY <2>2, <3>1 DEF Films!Featured
    <3>2. CASE /\ videos' = [videos EXCEPT ![v] = row]
               /\ chosen' = IF row.featured THEN {v} ELSE chosen \ {v}
               /\ row.featured => Films!Featured \subseteq {v}
      <4>1. videos'[v] = row
        BY <3>2 DEF FilmsTypes
      <4>2. \A w \in Videos : w # v => (w \in Films!Featured' <=> w \in Films!Featured)
        BY <1>5 DEF Films!Featured
      <4>3. v \in Films!Featured' <=> row.featured
        BY <4>1 DEF Films!Featured
      <4>4. Films!Featured' \subseteq Videos /\ Films!Featured \subseteq Videos
        BY DEF Films!Featured
      <4> QED
        BY <2>2, <3>2, <4>2, <4>3, <4>4
    <3> QED
      BY <1>3, <3>1, <3>2
  <2>4. Films!Cardinality(Films!Shown' \ revived') <= MaxVideos
    <3> DEFINE S == Films!Shown \ revived
               T == Films!Shown' \ revived'
    <3>1. IsFiniteSet(S)
      BY ShownByStatus
    <3>2. T \subseteq S \cup {v}
      <4> SUFFICES ASSUME NEW w \in T, w # v PROVE w \in S
        OBVIOUS
      <4>1. w \in Videos /\ videos'[w] = videos[w]
        BY <1>5 DEF Films!Shown, Films!Existing
      <4> QED
        BY <4>1 DEF Films!Shown, Films!Existing
    <3>3. CASE row.status = videos[v].status
      <4>1. \A w \in Videos : videos'[w].status = videos[w].status
        BY <1>5, <1>6, <3>3
      <4>2. T \subseteq S
        <5> SUFFICES ASSUME NEW w \in T PROVE w \in S
          OBVIOUS
        <5>1. w \in Videos /\ videos'[w] # Films!Absent /\ videos'[w].status # "archived"
          BY DEF Films!Shown, Films!Existing
        <5>2. videos'[w].status # "absent"
          BY <1>9, <5>1 DEF FilmsTypes
        <5> QED
          BY <4>1, <5>1, <5>2, ShownByStatus
      <4> QED
        BY <1>1, <1>12, <3>1, <4>2, FewerVideos, ListingPartsAssumption DEF FilmsAlone
    <3>4. CASE Films!Cardinality(S) < MaxVideos
      <4>1. /\ Cardinality(S) \in Nat /\ IsFiniteSet(S \cup {v})
            /\ Cardinality(S \cup {v}) <= Cardinality(S) + 1
            /\ Cardinality(S \cup {v}) \in Nat
        <5>1. Cardinality(S) \in Nat /\ IsFiniteSet(S \cup {v})
          BY <3>1, FS_AddElement, FS_CardinalityType
        <5>2. Cardinality(S \cup {v}) = IF v \in S THEN Cardinality(S) ELSE Cardinality(S) + 1
          BY <3>1, FS_AddElement
        <5> QED
          BY <5>1, <5>2
      <4>2. Cardinality(T) <= Cardinality(S \cup {v}) /\ Cardinality(T) \in Nat
        BY <3>2, <4>1, FewerVideos, FilmsCardinality
      <4>3. Cardinality(S) < MaxVideos
        BY <3>4, FilmsCardinality
      <4> HIDE DEF S, T
      <4>4. Cardinality(T) <= MaxVideos
        BY <4>1, <4>2, <4>3, ListingPartsAssumption
      <4>5. Films!Cardinality(T) = Cardinality(T)
        BY FilmsCardinality
      <4> QED
        BY <4>4, <4>5 DEF T
    <3> QED
      BY <1>1, <1>12, <3>3, <3>4
  <2>5. FilmsAlone'
    BY <1>2, <1>12, <2>3, <2>4 DEF FilmsAlone
  <2> QED
    BY <1>2, <1>12, <2>5 DEF StillFits
<1> QED
  BY <1>9, <1>10, <1>11, <1>12

LEMMA FilmsUpload ==
    ASSUME FilmsInv, NEW c \in Calls, NEW v \in Videos, Films!Upload(c, v) PROVE FilmsInv'
<1>1. work[c] \in VideoCall /\ work[c].step = "upload" /\ CarriesVideo(work[c])
  BY DEF FilmsInv, FilmsTypes, Films!Upload, Films!End
<1>2. work[c].row \in VideoRow /\ work[c].row.status = "draft"
  BY <1>1 DEF VideoCall, CarriesVideo
<1>3. ~overlapped => Films!Cardinality(Films!Shown \ revived) < MaxVideos
  BY <1>1 DEF FilmsInv, StillFits
<1>4. /\ Films!End(c, "upload") /\ Films!Save(v, work[c].row)
      /\ UNCHANGED <<approved, revived>>
  BY DEF Films!Upload
<1> QED
  BY <1>2, <1>3, <1>4, FilmsSaves

LEMMA FilmsUpdate ==
    ASSUME FilmsInv, NEW c \in Calls, Films!Update(c) PROVE FilmsInv'
<1>1. work[c] \in VideoCall /\ work[c].step = "update" /\ CarriesVideo(work[c])
  BY DEF FilmsInv, FilmsTypes, Films!Update, Films!End
<1>2. /\ work[c].row \in VideoRow /\ work[c].row.status # "absent"
      /\ work[c].video \in Videos
      /\ work[c].row.status = "approved" => work[c].video \in approved
  BY <1>1 DEF VideoCall, CarriesVideo, Films!Existing
<1>3. ~overlapped => work[c].row.status = videos[work[c].video].status
  BY <1>1 DEF FilmsInv, StillFits
<1>4. /\ Films!End(c, "update") /\ Films!Save(work[c].video, work[c].row)
      /\ UNCHANGED <<approved, revived>>
  BY DEF Films!Update
<1> QED
  BY <1>2, <1>3, <1>4, FilmsSaves

(* Statuses are set whatever else is in progress.                          *)
LEMMA FilmsSetStatus ==
    ASSUME FilmsInv, NEW v \in Videos, NEW next \in Moves \ {"draft"},
           Films!SetStatus(v, next)
    PROVE  FilmsInv'
<1> USE DEF FilmsInv
<1>1. /\ v \in Films!Existing
      /\ videos' = [videos EXCEPT ![v].status = next]
      /\ approved' = IF next = "approved" THEN approved \cup {v} ELSE approved
      /\ revived' = IF videos[v].status = "archived" /\ next # "archived"
                    THEN revived \cup {v} ELSE revived
      /\ overlapped' = (overlapped \/ \E c \in Calls : work[c] # Films!Idle)
      /\ UNCHANGED <<work, chosen>>
  BY DEF Films!SetStatus
<1>2. next \in Films!WalkthroughStatus /\ next # "absent"
  BY ListingPartsAssumption DEF Films!WalkthroughStatus
<1>3. /\ videos' \in [Videos -> VideoRow]
      /\ videos'[v].status = next /\ videos'[v].featured = videos[v].featured
      /\ \A w \in Videos \ {v} : videos'[w] = videos[w]
  BY <1>1, <1>2 DEF FilmsTypes, VideoRow
<1>4. /\ Films!Existing' = Films!Existing /\ Films!Featured' = Films!Featured
  <2>1. videos'[v] # Films!Absent /\ videos[v] # Films!Absent
    BY <1>1, <1>2, <1>3, NoVideoYet DEF Films!Existing
  <2> QED
    BY <1>3, <2>1 DEF Films!Existing, Films!Featured
<1>5. FilmsTypes'
  BY <1>1, <1>2, <1>3, <1>4 DEF FilmsTypes
<1>6. VideosApproved'
  BY <1>1, <1>3 DEF VideosApproved
<1>7. \A c \in Calls : CarriesVideo(work[c])'
  BY <1>1, <1>4 DEF CarriesVideo
<1>8. ASSUME ~overlapped' PROVE FilmsAlone' /\ \A c \in Calls : StillFits(work[c])'
  <2>1. ~overlapped /\ \A c \in Calls : work[c].step = "idle"
    BY <1>1, <1>8, NoVideoYet
  <2>2. Films!Shown' \ revived' \subseteq Films!Shown \ revived
    <3> SUFFICES ASSUME NEW w \in Films!Shown' \ revived' PROVE w \in Films!Shown \ revived
      OBVIOUS
    <3>1. /\ w \in Films!Existing /\ videos'[w].status # "archived"
          /\ w \notin revived' /\ w \in Videos
      BY <1>4 DEF Films!Shown, Films!Existing
    <3>2. videos[w].status # "archived" /\ w \notin revived
      BY <1>1, <1>3, <3>1
    <3> QED
      BY <3>1, <3>2 DEF Films!Shown
  <2>3. FilmsAlone'
    BY <1>1, <1>4, <2>1, <2>2, ShownByStatus, FewerVideos, ListingPartsAssumption
    DEF FilmsAlone
  <2> QED
    BY <1>1, <2>1, <2>3 DEF StillFits
<1> QED
  BY <1>5, <1>6, <1>7, <1>8

(* The marks of the others are cleared in a step of their own.             *)
LEMMA FilmsClear ==
    ASSUME FilmsInv, NEW c \in Calls, Films!ClearFeatured(c) PROVE FilmsInv'
<1> USE DEF FilmsInv
<1> DEFINE k == [work[c] EXCEPT !.step = "feature"]
           v == work[c].video
<1>1. /\ work[c].step = "clear" /\ work' = [work EXCEPT ![c].step = "feature"]
      /\ videos' = [w \in Videos |-> IF w \in Films!Cleared(v)
                        THEN [videos[w] EXCEPT !.featured = FALSE] ELSE videos[w]]
      /\ UNCHANGED <<approved, chosen, revived, overlapped>>
  BY DEF Films!ClearFeatured, Films!history
<1>2. work[c] \in VideoCall /\ work \in [Calls -> VideoCall] /\ CarriesVideo(work[c])
  BY DEF FilmsTypes
<1>3. k \in VideoCall /\ k.step = "feature" /\ k.video = v /\ v \in Films!Existing
  BY <1>1, <1>2 DEF VideoCall, CarriesVideo
<1> HIDE DEF k
<1>4. \A d \in Calls : work'[d] = IF d = c THEN k ELSE work[d]
  BY <1>1, <1>2 DEF k
<1>5. work' \in [Calls -> VideoCall]
  BY <1>1, <1>2, <1>3 DEF k
<1>6. /\ videos' \in [Videos -> VideoRow]
      /\ \A w \in Videos : /\ videos'[w].status = videos[w].status
                           /\ videos'[w] = videos[w] \/ w \in Films!Cleared(v)
                           /\ w \in Films!Cleared(v) => ~videos'[w].featured
  BY <1>1 DEF FilmsTypes, VideoRow
<1>7. \A w \in Videos : videos'[w].status = "absent" => videos'[w] = Films!Absent
  <2> SUFFICES ASSUME NEW w \in Videos, videos'[w].status = "absent"
               PROVE  videos'[w] = Films!Absent
    OBVIOUS
  <2>1. videos[w] = Films!Absent
    BY <1>6 DEF FilmsTypes
  <2>2. w \notin Films!Cleared(v)
    BY <2>1, NoVideoYet DEF Films!Cleared, Films!Featured
  <2> QED
    BY <1>6, <2>1, <2>2
<1>8. Films!Existing' = Films!Existing /\ Films!Shown' = Films!Shown
  <2>1. \A w \in Videos : videos'[w] # Films!Absent <=> videos[w] # Films!Absent
    BY <1>6, <1>7, NoVideoYet DEF FilmsTypes
  <2> QED
    BY <1>6, <2>1 DEF Films!Existing, Films!Shown
<1>9. FilmsTypes'
  BY <1>1, <1>5, <1>6, <1>7, <1>8 DEF FilmsTypes
<1>10. VideosApproved'
  BY <1>1, <1>6 DEF VideosApproved
<1>11. \A d \in Calls : CarriesVideo(work[d])'
  BY <1>1, <1>3, <1>4, <1>8 DEF CarriesVideo
<1>12. ASSUME ~overlapped' PROVE FilmsAlone' /\ \A d \in Calls : StillFits(work[d])'
  <2>1. \A d \in Calls : d # c => work[d].step = "idle"
    BY <1>1, <1>12 DEF FilmsAlone
  <2>2. Films!Featured' \subseteq {v}
    BY <1>6 DEF Films!Featured, Films!Cleared
  <2>3. FilmsAlone'
    BY <1>1, <1>3, <1>4, <1>8, <1>12, <2>1 DEF FilmsAlone
  <2> QED
    BY <1>3, <1>4, <2>1, <2>2, <2>3 DEF StillFits
<1> QED
  BY <1>9, <1>10, <1>11, <1>12

LEMMA FilmsSetFeatured ==
    ASSUME FilmsInv, NEW c \in Calls, Films!SetFeatured(c) PROVE FilmsInv'
<1> USE DEF FilmsInv
<1> DEFINE v == work[c].video
           row == [videos[v] EXCEPT !.featured = TRUE]
<1>1. /\ work[c].step = "feature" /\ work' = [work EXCEPT ![c] = Films!Idle]
      /\ videos' = IF Films!Fits(v, row) THEN [videos EXCEPT ![v] = row] ELSE videos
      /\ chosen' = {v}
      /\ UNCHANGED <<approved, revived, overlapped>>
  BY DEF Films!SetFeatured, Films!End
<1>2. /\ work' \in [Calls -> VideoCall]
      /\ \A d \in Calls : work'[d] = IF d = c THEN Films!Idle ELSE work[d]
      /\ ~overlapped' => \A d \in Calls : work'[d].step = "idle"
  BY <1>1, FilmsEnd
<1>3. v \in Videos /\ v \in Films!Existing /\ videos[v] \in VideoRow
  BY <1>1 DEF CarriesVideo, Films!Existing, FilmsTypes
<1>4. row \in VideoRow /\ row.featured /\ row.status = videos[v].status
  BY <1>3 DEF VideoRow
<1> HIDE DEF row
<1>5. /\ videos' \in [Videos -> VideoRow]
      /\ \A w \in Videos : w # v => videos'[w] = videos[w]
      /\ videos'[v].status = videos[v].status
      /\ Films!Featured \subseteq {v} => videos'[v].featured
  BY <1>1, <1>3, <1>4 DEF FilmsTypes, Films!Fits
<1>6. videos[v].status # "absent"
  BY <1>3, ShownByStatus
<1>7. Films!Existing' = Films!Existing /\ Films!Shown' = Films!Shown
  <2>1. videos'[v] # Films!Absent /\ videos[v] # Films!Absent
    BY <1>5, <1>6, NoVideoYet
  <2> QED
    BY <1>5, <2>1 DEF Films!Existing, Films!Shown
<1>8. FilmsTypes'
  BY <1>1, <1>2, <1>3, <1>5, <1>6, <1>7 DEF FilmsTypes
<1>9. VideosApproved'
  BY <1>1, <1>5 DEF VideosApproved
<1>10. \A d \in Calls : CarriesVideo(work[d])'
  BY <1>1, <1>2, <1>7, NoVideoYet DEF CarriesVideo
<1>11. ASSUME ~overlapped' PROVE FilmsAlone' /\ \A d \in Calls : StillFits(work[d])'
  <2>1. Films!Featured \subseteq {v}
    BY <1>1, <1>11 DEF StillFits
  <2>2. Films!Featured' = {v}
    BY <1>3, <1>5, <2>1 DEF Films!Featured
  <2>3. FilmsAlone'
    BY <1>1, <1>2, <1>7, <1>11, <2>2 DEF FilmsAlone
  <2> QED
    BY <1>2, <1>11, <2>3 DEF StillFits
<1> QED
  BY <1>8, <1>9, <1>10, <1>11

LEMMA FilmsStep == FilmsInv /\ Films!Next => FilmsInv'
<1>1. ASSUME FilmsInv, NEW c \in Calls, Films!Die(c) PROVE FilmsInv'
  <2>1. /\ work' = [work EXCEPT ![c] = Films!Idle] /\ overlapped'
        /\ UNCHANGED <<videos, approved, chosen, revived>>
    BY <1>1 DEF Films!Die, Films!history
  <2>2. /\ work' \in [Calls -> VideoCall]
        /\ \A d \in Calls : work'[d] = IF d = c THEN Films!Idle ELSE work[d]
    BY <1>1, <2>1, NoVideoYet DEF FilmsInv, FilmsTypes
  <2>3. Films!Existing' = Films!Existing
    BY <2>1 DEF Films!Existing
  <2>4. \A d \in Calls : CarriesVideo(work[d])'
    BY <1>1, <2>1, <2>2, <2>3, NoVideoYet DEF FilmsInv, CarriesVideo
  <2>5. FilmsTypes' /\ VideosApproved'
    BY <1>1, <2>1, <2>2, <2>3 DEF FilmsInv, FilmsTypes, VideosApproved
  <2> QED
    BY <2>1, <2>4, <2>5 DEF FilmsInv
<1> QED
  BY <1>1, FilmsBegins, FilmsUpload, FilmsUpdate, FilmsSetStatus, FilmsClear,
     FilmsSetFeatured
  DEF Films!Next

LEMMA FilmsHold ==
    ASSUME FilmsInv
    PROVE  Films!TypeOK /\ Films!FeaturedIsChosen /\ Films!PublicIsReviewed
<1>1. Films!TypeOK
  BY DEF FilmsInv, FilmsTypes, VideoRow, Films!TypeOK
<1>2. Films!FeaturedIsChosen
  BY NoVideoYet DEF FilmsInv, FilmsAlone, Films!FeaturedIsChosen
<1> QED
  BY <1>1, <1>2 DEF FilmsInv, FilmsAlone, VideosApproved, Films!PublicIsReviewed

-----------------------------------------------------------------------------
(* The parts of a run together: one of them moves, the others stand.       *)

(* A behaviour of the parts moves the listing as its own                   *)
(* specification does, or not at all.                                      *)
THEOREM PartsAreListings == PartsSpec => Spec
<1>1. PartsInit => Init
  BY DEF PartsInit
<1>2. [PartsNext]_<<part, vars, others>> => [Next]_vars
  BY DEF PartsNext
<1> QED
  BY <1>1, <1>2, PTL DEF PartsSpec, Spec

PartsInv ==
    /\ DInv
    /\ part = "lead" => LeadInv /\ FreshInv
    /\ part = "images" => AlbumInv
    /\ part = "videos" => FilmsInv

(* Listings, leads, albums and walkthroughs keep their inductive           *)
(* invariants, whatever calls overlap or die.                              *)
THEOREM PartsInvariant == PartsSpec => []PartsInv
<1>1. PartsInit => PartsInv
  BY DInit, LeadInit, FreshInit, AlbumInit, FilmsInit DEF PartsInit, PartsInv
<1>2. PartsInv /\ [PartsNext]_<<part, vars, others>> => PartsInv'
  <2> SUFFICES ASSUME PartsInv, [PartsNext]_<<part, vars, others>> PROVE PartsInv'
    OBVIOUS
  <2>1. DInv'
    <3>1. [Next]_vars
      BY DEF PartsNext
    <3> QED
      BY <3>1, LStep, UniqueStep, AloneStep DEF PartsInv, DInv
  <2>2. CASE part = "listing" /\ Next /\ UNCHANGED <<part, others>>
    BY <2>1, <2>2 DEF PartsInv
  <2>3. CASE part = "lead" /\ Lead!Next /\ UNCHANGED <<part, vars, album, films>>
    BY <2>1, <2>3, LeadStep, FreshStep DEF PartsInv
  <2>4. CASE part = "images" /\ Album!Next /\ UNCHANGED <<part, vars, lead, films>>
    BY <2>1, <2>4, AlbumStep DEF PartsInv
  <2>5. CASE part = "videos" /\ Films!Next /\ UNCHANGED <<part, vars, lead, album>>
    BY <2>1, <2>5, FilmsStep DEF PartsInv
  <2>6. CASE UNCHANGED <<part, vars, others>>
    <3>0. part = "lead" => FreshInv'
      BY <2>6 DEF PartsInv, others, lead, FreshInv, Fresh, Lead!ActiveApplications,
                  Lead!MayLink
    <3>1. part = "lead" => LeadInv'
      BY <2>6 DEF PartsInv, others, lead, LeadInv, LeadRows, Lead!Capable, CarriesLead,
                  LeadAlone, OneActive, ViewingsStand, StillOpen
    <3>2. part = "images" => AlbumInv'
      BY <2>6 DEF PartsInv, others, album, AlbumInv, AlbumTypes, CoversAlike, CarriesImage,
                  AlbumAlone, HasCover, StillThere
    <3>3. part = "videos" => FilmsInv'
      BY <2>6 DEF PartsInv, others, films, FilmsInv, FilmsTypes, VideosApproved, CarriesVideo,
                  FilmsAlone, StillFits, Films!Existing, Films!Featured, Films!Shown
    <3> QED
      BY <2>1, <2>6, <3>0, <3>1, <3>2, <3>3 DEF PartsInv
  <2> QED
    BY <2>2, <2>3, <2>4, <2>5, <2>6 DEF PartsNext
<1> QED
  BY <1>1, <1>2, PTL DEF PartsSpec

(* The columns and histories of all four parts keep their types.           *)
THEOREM PartsTypeCorrect == PartsSpec => []PartsTypeOK
<1>1. PartsInv => PartsTypeOK
  BY LeadHolds, AlbumHolds, FilmsHold DEF PartsInv, DInv, LInv, PartsTypeOK
<1> QED
  BY <1>1, PartsInvariant, PTL

(* What a user asked for, was shown and applied for agrees with what the   *)
(* owner's people see of it, unless calls overlap; and however they do, no *)
(* more follow-ups are counted than were logged, and nobody is in charge   *)
(* who could not be.                                                       *)
THEOREM LeadsStayTrue == PartsSpec => []LeadsAgree
<1>1. PartsInv => LeadsAgree
  BY LeadHolds DEF PartsInv, LeadsAgree
<1> QED
  BY <1>1, PartsInvariant, PTL

(* However calls overlap a listing has one cover at most, and shows only   *)
(* videos that were approved at some time; without overlap covers, the     *)
(* featured video and the limits are kept as well.                         *)
THEOREM MediaStayTrue == PartsSpec => []MediaAgrees
<1>1. PartsInv => MediaAgrees
  BY AlbumHolds, FilmsHold DEF PartsInv, MediaAgrees
<1> QED
  BY <1>1, PartsInvariant, PTL

(* Whatever calls overlap or die, an inquiry, its stage, its viewings and  *)
(* its applications move only as declared, and an application is filed     *)
(* only beside no active one, but by calls older than what they decided    *)
(* by.                                                                     *)
THEOREM LeadsMove == PartsSpec => LeadsMoveAsDeclared
<1>1. PartsInv /\ [PartsNext]_<<part, vars, others>>
         => [part = "lead" => Lead!DeclaredUnlessOlder]_<<lead, work>>
  <2> SUFFICES ASSUME PartsInv, PartsNext, part = "lead"
               PROVE  Lead!DeclaredUnlessOlder \/ UNCHANGED <<lead, work>>
    BY DEF others
  <2> QED
    BY LeadDeclares DEF PartsInv, PartsNext
<1> QED
  BY <1>1, PartsInvariant, PTL DEF PartsSpec, LeadsMoveAsDeclared
=============================================================================
