------------------------- MODULE ListingVerification -------------------------
(***************************************************************************)
(* One property listing and its verification requests (apps/properties,    *)
(* apps/trust).  Owners edit, administrators decide; both load a row,      *)
(* look at it, and save it later without a lock, and an edit saves all     *)
(* columns of the listing.  A call is cut wherever it reads or writes the  *)
(* database.  What a buyer trusts is the approved verification, and that   *)
(* its snapshot is of the listing as it stands.                            *)
(*                                                                         *)
(* A definition marked "fault" is a variant of the one after it with a     *)
(* plausible mistake, to show that a property notices it.                  *)
(***************************************************************************)
EXTENDS Integers

CONSTANTS
    Calls,     \* requests that can be in progress at the same time
    Rows,      \* PropertyVerification rows of the listing
    Nothing,   \* no row, no address, no text
    Addresses, \* values of the material fields (address, price, listing_type)
    Texts,     \* values of all other fields
    Failures   \* whether the process of a call can die

ASSUME ListingAssumption ==
    /\ Nothing \notin Rows \cup Addresses
    /\ Addresses # {} /\ Texts # {}
    /\ Failures \in BOOLEAN

VARIABLES
    listing,   \* status and content of the Property row
    status,    \* PropertyVerification.status, "absent" before the insert
    snapshot,  \* .verified_snapshot
    calls,     \* what each call has loaded and is about to save
    reviewed,  \* history: the content when the listing was last approved
    disturbed  \* history: two calls overlapped, or one died

rowVars == <<status, snapshot>>
vars == <<listing, rowVars, calls, reviewed, disturbed>>

Content == [address : Addresses, text : Texts]
Snapshot == Addresses \cup {Nothing}

ListingStatus == {"draft", "pending_review", "approved", "rejected"}

ACTIVE_VERIFICATION_STATUSES ==
    {"pending", "under_review", "needs_more_information", "approved", "suspended"}

(* PropertyVerification.VALID_STATUS_TRANSITIONS *)
ValidTransitions ==
    [s \in ACTIVE_VERIFICATION_STATUSES \cup {"rejected", "expired", "absent"} |->
        CASE s = "pending" -> {"under_review", "rejected"}
          [] s = "under_review" ->
                {"approved", "rejected", "needs_more_information"}
          [] s = "needs_more_information" -> {"under_review", "pending"}
          [] s = "approved" -> {"suspended", "expired", "under_review"}
          [] s = "suspended" -> {"under_review"}
          [] s \in {"rejected", "expired"} -> {"pending"}
          [] s = "absent" -> {}]

VerificationStatus == DOMAIN ValidTransitions

(* The target_status of the five decision views. *)
Decisions ==
    {"approved", "rejected", "needs_more_information", "suspended", "expired"}

Idle == [step |-> "idle", row |-> Nothing, status |-> "absent",
         content |-> [address |-> Nothing, text |-> Nothing],
         changed |-> FALSE, snapshot |-> Nothing]

Init ==
    /\ \E content \in Content :
          /\ listing = [status |-> "draft", content |-> content]
          /\ reviewed = content
    /\ status = [v \in Rows |-> "absent"]
    /\ snapshot = [v \in Rows |-> Nothing]
    /\ calls = [c \in Calls |-> Idle]
    /\ disturbed = FALSE

-----------------------------------------------------------------------------
(* A call starts; the history notices if another one is under way. *)
Begin(c, loaded) ==
    /\ calls[c] = Idle
    /\ calls' = [calls EXCEPT ![c] = loaded]
    /\ disturbed' = (disturbed \/ \E d \in Calls : calls[d] # Idle)

End(c) == calls' = [calls EXCEPT ![c] = Idle]

(* The database's constraint uniq_active_verification_per_property. *)
Fits(v, next) ==
    next \in ACTIVE_VERIFICATION_STATUSES =>
        \A w \in Rows \ {v} : status[w] \notin ACTIVE_VERIFICATION_STATUSES

(* A save of the status column; an IntegrityError changes nothing. *)
SaveStatus(v, next) ==
    status' = IF Fits(v, next) THEN [status EXCEPT ![v] = next] ELSE status

-----------------------------------------------------------------------------
(* Moderation of the listing: each call updates the status column only, and *)
(* looks at nothing (Property.submit_for_review, approve, reject).          *)
Moderate(next) ==
    /\ listing' = [listing EXCEPT !.status = next]
    /\ reviewed' = IF next = "approved" THEN listing.content ELSE reviewed
    /\ UNCHANGED <<rowVars, calls, disturbed>>

(* PropertySerializer.update on the instance that get_object loaded.  The  *)
(* request names some fields; all others keep what was loaded.             *)
StatusAfterEditArchives ==                                       \* fault
    IF listing.status = "approved" THEN "archived" ELSE listing.status
StatusAfterEdit == IF listing.status = "approved" THEN "draft" ELSE listing.status

ChangesMaterial(new) == new.address # listing.content.address

BeginEdit(c, new) ==
    /\ Begin(c, [Idle EXCEPT !.step = "edit", !.content = new,
                             !.status = StatusAfterEdit,
                             !.changed = ChangesMaterial(new)])
    /\ UNCHANGED <<listing, rowVars, reviewed>>

SaveEditedFields(c) ==                                           \* fault
    /\ calls[c].step = "edit"
    /\ listing' = [content |-> calls[c].content,
                   status |-> IF calls[c].status = "draft" THEN "draft"
                                                           ELSE listing.status]
    /\ calls' = [calls EXCEPT ![c] =
          IF calls[c].changed THEN [Idle EXCEPT !.step = "saved"] ELSE Idle]
    /\ UNCHANGED <<rowVars, reviewed, disturbed>>

SaveEdit(c) ==
    /\ calls[c].step = "edit"
    /\ listing' = [status |-> calls[c].status, content |-> calls[c].content]
    /\ calls' = [calls EXCEPT ![c] =
          IF calls[c].changed THEN [Idle EXCEPT !.step = "saved"] ELSE Idle]
    /\ UNCHANGED <<rowVars, reviewed, disturbed>>

(* handle_property_edit: find the approved verification, then take it back *)
(* to review.                                                              *)
FindApproved(c) ==
    /\ calls[c].step = "saved"
    /\ \/ \E v \in Rows :
             /\ status[v] = "approved"
             /\ calls' = [calls EXCEPT ![c].step = "revert", ![c].row = v]
       \/ /\ \A v \in Rows : status[v] # "approved"
          /\ End(c)
    /\ UNCHANGED <<listing, rowVars, reviewed, disturbed>>

RevertApproval(c) ==
    /\ calls[c].step = "revert"
    /\ SaveStatus(calls[c].row, "under_review")
    /\ End(c)
    /\ UNCHANGED <<listing, snapshot, reviewed, disturbed>>

-----------------------------------------------------------------------------
(* PropertyVerificationViewSet.create: the row starts as pending. *)
SubmitVerification(v) ==
    /\ status[v] = "absent"
    /\ Fits(v, "pending")
    /\ status' = [status EXCEPT ![v] = "pending"]
    /\ UNCHANGED <<listing, snapshot, calls, reviewed, disturbed>>

(* resubmit and decide_property_verification_request compare the requested *)
(* status with the one they loaded.                                        *)
Allowed(v, next) == next \in ValidTransitions[status[v]]

BeginResubmit(c, v) ==
    /\ Allowed(v, "pending")
    /\ Begin(c, [Idle EXCEPT !.step = "decide", !.row = v, !.status = "pending"])
    /\ UNCHANGED <<listing, rowVars, reviewed>>

(* An approval still has to read the listing for its snapshot. *)
BeginDecision(c, v, decision) ==
    /\ Allowed(v, decision)
    /\ Begin(c, [Idle EXCEPT !.row = v, !.status = decision,
                    !.step = IF decision = "approved" THEN "copy" ELSE "decide"])
    /\ UNCHANGED <<listing, rowVars, reviewed>>

CopyListingOnce(c) ==                                            \* fault
    /\ calls[c].step = "copy"
    /\ calls' = [calls EXCEPT ![c].step = "decide",
                    ![c].snapshot = IF snapshot[calls[c].row] = Nothing
                                    THEN listing.content.address
                                    ELSE snapshot[calls[c].row]]
    /\ UNCHANGED <<listing, rowVars, reviewed, disturbed>>

CopyListing(c) ==
    /\ calls[c].step = "copy"
    /\ calls' = [calls EXCEPT ![c].step = "decide",
                    ![c].snapshot = listing.content.address]
    /\ UNCHANGED <<listing, rowVars, reviewed, disturbed>>

(* The save writes the snapshot with the status, and for an approval only. *)
SaveDecision(c) ==
    /\ calls[c].step = "decide"
    /\ SaveStatus(calls[c].row, calls[c].status)
    /\ snapshot' = IF /\ calls[c].status = "approved"
                      /\ Fits(calls[c].row, "approved")
                   THEN [snapshot EXCEPT ![calls[c].row] = calls[c].snapshot]
                   ELSE snapshot
    /\ End(c)
    /\ UNCHANGED <<listing, reviewed, disturbed>>

(* The Django admin site moves a request into review; no endpoint does.  *)
TakeIntoReview(v) ==
    /\ status[v] \in {"pending", "needs_more_information", "suspended"}
    /\ status' = [status EXCEPT ![v] = "under_review"]
    /\ UNCHANGED <<listing, snapshot, calls, reviewed, disturbed>>

(* The process of a call ends: what it saved stays saved. *)
Die(c) ==
    /\ Failures
    /\ calls[c] # Idle
    /\ End(c)
    /\ disturbed' = TRUE
    /\ UNCHANGED <<listing, rowVars, reviewed>>

Moderation == \E next \in {"pending_review", "approved", "rejected"} : Moderate(next)

Editing ==
    \E c \in Calls :
        \/ \E new \in Content : BeginEdit(c, new)
        \/ SaveEdit(c)
        \/ FindApproved(c)
        \/ RevertApproval(c)

Verification ==
    \/ \E v \in Rows : SubmitVerification(v) \/ TakeIntoReview(v)
    \/ \E c \in Calls, v \in Rows :
          \/ BeginResubmit(c, v)
          \/ \E decision \in Decisions : BeginDecision(c, v, decision)
    \/ \E c \in Calls : CopyListing(c) \/ SaveDecision(c)

Next == Moderation \/ Editing \/ Verification \/ \E c \in Calls : Die(c)

Spec == Init /\ [][Next]_vars

-----------------------------------------------------------------------------
(* Properties *)

(* What the columns and the calls in progress can hold. *)
TypeOK ==
    /\ listing \in [status : ListingStatus, content : Content]
    /\ status \in [Rows -> VerificationStatus]
    /\ snapshot \in [Rows -> Snapshot]
    /\ calls \in [Calls -> [
          step : {"idle", "edit", "saved", "revert", "copy", "decide"},
          row : Rows \cup {Nothing},
          status : VerificationStatus \cup ListingStatus,
          content : [address : Snapshot, text : Texts \cup {Nothing}],
          changed : BOOLEAN,
          snapshot : Snapshot]]
    /\ reviewed \in Content
    /\ disturbed \in BOOLEAN

(* Buyers see approved listings only, and what they see is what an         *)
(* administrator approved: whatever edits and decisions overlap, no field  *)
(* of a listing differs from the moment of its approval.  That an edit     *)
(* saves the stale status it loaded is what makes this hold                *)
(* (PropertySerializer.update).                                            *)
PublishedIsReviewed ==
    listing.status = "approved" => listing.content = reviewed

Quiet == \A c \in Calls : calls[c] = Idle

Drifted(v) ==
    status[v] = "approved" /\ snapshot[v] # listing.content.address

(* Through any number of edits, decisions, suspensions and resubmissions   *)
(* that do not overlap, the snapshot of the approved verification is of    *)
(* the listing as it is: handle_property_edit takes the approval back      *)
(* whenever a material field changed, and only approval writes snapshots.  *)
DriftNeedsOverlap ==
    ~disturbed /\ Quiet => \A v \in Rows : ~Drifted(v)

=============================================================================
