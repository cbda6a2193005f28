------------------------------- MODULE Identity -------------------------------
(***************************************************************************)
(* One user's account, requests for one role, and verification requests of *)
(* one type (apps/accounts, apps/trust).  Every request loads a row and    *)
(* saves it later without a lock; edits of the profile and of a            *)
(* verification save all columns, everything else the columns it changes.  *)
(* Two constraints of the database keep open requests apart.               *)
(*                                                                         *)
(* A definition marked "fault" is a variant of the one after it with a     *)
(* plausible mistake, to show that a property notices it.                  *)
(***************************************************************************)
EXTENDS Naturals

CONSTANTS
    Calls,     \* requests that can be in progress at the same time
    Requests,  \* UserRole and VerificationRequest rows
    MaxResets, \* bound on the passwords that are set
    Failures   \* whether the process of a call can die

VARIABLES
    account,       \* User.is_suspended, password (a number for each hash)
    roles,         \* UserRole.status, and who decided it
    verifications, \* VerificationRequest.status, reviewer, and whether it
                   \* was reviewed after it was last submitted
    automatic,     \* whether the role is approved without a decision
    calls,         \* what each call has loaded and has still to save
    decreed,       \* history: the account as it was last meant to be
    links,         \* history: the passwords that reset links were issued for
    followed,      \* history: how often each link was followed
    disturbed      \* history: two calls overlapped, or one died

person == <<account, decreed, links, followed>>
vars == <<person, roles, verifications, automatic, calls, disturbed>>

Passwords == 0..MaxResets

ActiveVerification ==
    {"pending", "under_review", "needs_more_information", "approved", "suspended"}

(* VerificationRequest.VALID_STATUS_TRANSITIONS                            *)
ValidVerification ==
    [pending |-> {"under_review", "rejected"},
     under_review |-> {"approved", "rejected", "needs_more_information"},
     needs_more_information |-> {"under_review", "pending"},
     approved |-> {"suspended", "expired"},
     suspended |-> {"under_review"},
     rejected |-> {"pending"},
     expired |-> {"pending"}]

Decisions == {"approved", "rejected", "needs_more_information", "suspended", "expired"}

OpenRole == {"pending", "approved"}

NoRole == [status |-> "absent", by |-> "nobody"]
NoVerification == [status |-> "absent", by |-> "nobody", reviewed |-> FALSE]

Idle == [step |-> "idle", row |-> "none", next |-> "none", by |-> "nobody",
         account |-> [suspended |-> FALSE, password |-> 0],
         verification |-> NoVerification]

Init ==
    /\ account = [suspended |-> FALSE, password |-> 0]
    /\ roles = [r \in Requests |-> NoRole]
    /\ verifications = [r \in Requests |-> NoVerification]
    /\ automatic \in BOOLEAN
    /\ calls = [c \in Calls |-> Idle]
    /\ decreed = account /\ links = {} /\ followed = [p \in Passwords |-> 0]
    /\ disturbed = FALSE

(* The history notices if a call is under way.                             *)
Notice == disturbed' = (disturbed \/ \E d \in Calls : calls[d] # Idle)

Begin(c, loaded) ==
    /\ calls[c] = Idle
    /\ calls' = [calls EXCEPT ![c] = loaded]
    /\ Notice
    /\ UNCHANGED <<person, roles, verifications, automatic>>

(* No request of a suspended user is authenticated. *)
BeginOwn(c, loaded) == ~account.suspended /\ Begin(c, loaded)

Go(c, from, to) ==
    /\ calls[c].step = from
    /\ calls' = [calls EXCEPT ![c] = IF to = "idle" THEN Idle ELSE [@ EXCEPT !.step = to]]
    /\ UNCHANGED <<automatic, disturbed>>

-----------------------------------------------------------------------------
(* The account.                                                            *)
BeginProfile(c) == BeginOwn(c, [Idle EXCEPT !.step = "profile", !.account = account])

UpdateProfile(c) ==
    /\ Go(c, "profile", "idle")
    /\ account' = calls[c].account
    /\ UNCHANGED <<decreed, links, followed, roles, verifications>>

ForgotPassword ==
    /\ links' = links \cup {account.password}
    /\ UNCHANGED <<account, decreed, followed, roles, verifications, automatic, calls, disturbed>>

(* A link carries a digest of the password that it was issued for.         *)
CheckIssued(link) == link \in links                              \* fault
CheckToken(link) == link \in links /\ link = account.password

BeginReset(c, link) ==
    /\ CheckToken(link)
    /\ Begin(c, [Idle EXCEPT !.step = "reset", !.account.password = link])

(* A new password has a new salt, and so a digest of its own.              *)
ResetPassword(c) ==
    /\ Go(c, "reset", "idle")
    /\ decreed.password < MaxResets
    /\ decreed' = [decreed EXCEPT !.password = @ + 1]
    /\ account' = [account EXCEPT !.password = decreed'.password]
    /\ followed' = [followed EXCEPT ![calls[c].account.password] = @ + 1]
    /\ UNCHANGED <<links, roles, verifications>>

Suspend(suspended) ==
    /\ account' = [account EXCEPT !.suspended = suspended]
    /\ decreed' = [decreed EXCEPT !.suspended = suspended]
    /\ Notice
    /\ UNCHANGED <<links, followed, roles, verifications, automatic, calls>>

-----------------------------------------------------------------------------
(* Roles.                                                                  *)
OpenRoles == {r \in Requests : roles[r].status \in OpenRole}

BeginRole(c) == OpenRoles = {} /\ BeginOwn(c, [Idle EXCEPT !.step = "role"])

(* unique_open_or_approved_user_role                                       *)
RoleFitsAlways(r, next) == TRUE                                  \* fault
RoleFits(r, next) == next \in OpenRole => OpenRoles \subseteq {r}

SaveRole(r, row) ==
    roles' = IF RoleFits(r, row.status) THEN [roles EXCEPT ![r] = row] ELSE roles

RequestRole(c, r) ==
    /\ roles[r] = NoRole
    /\ Go(c, "role", "idle")
    /\ SaveRole(r, [NoRole EXCEPT !.status = IF automatic THEN "approved" ELSE "pending"])
    /\ UNCHANGED <<person, verifications>>

(* The user can be an administrator too.                                   *)
MayDecideAny(by) == TRUE                                         \* fault
MayDecide(by) == by # "user"

BeginRoleDecision(c, r, next, by) ==
    /\ roles[r] # NoRole /\ MayDecide(by)
    /\ Begin(c, [Idle EXCEPT !.step = "decide_role", !.row = r, !.next = next, !.by = by])

DecideRole(c) ==
    /\ Go(c, "decide_role", "idle")
    /\ SaveRole(calls[c].row, [status |-> calls[c].next, by |-> calls[c].by])
    /\ UNCHANGED <<person, verifications>>

-----------------------------------------------------------------------------
(* Verifications.                                                          *)
(* uniq_active_verification_per_user_type                                  *)
FitsAlways(r, next) == TRUE                                      \* fault
Fits(r, next) ==
    next \in ActiveVerification =>
        \A s \in Requests \ {r} : verifications[s].status \notin ActiveVerification

SaveVerification(r, row) ==
    verifications' =
        IF Fits(r, row.status) THEN [verifications EXCEPT ![r] = row] ELSE verifications

CreateVerification(r) ==
    /\ ~account.suspended
    /\ verifications[r] = NoVerification
    /\ SaveVerification(r, [NoVerification EXCEPT !.status = "pending"])
    /\ UNCHANGED <<person, roles, automatic, calls, disturbed>>

Load(step, r) == [Idle EXCEPT !.step = step, !.row = r, !.verification = verifications[r]]

BeginUpdate(c, r) == verifications[r] # NoVerification /\ BeginOwn(c, Load("update", r))

UpdateVerification(c) ==
    /\ Go(c, "update", "idle")
    /\ SaveVerification(calls[c].row, calls[c].verification)
    /\ UNCHANGED <<person, roles>>

MayMove(r, next) ==
    /\ verifications[r] # NoVerification
    /\ next \in ValidVerification[verifications[r].status]

BeginResubmit(c, r) == MayMove(r, "pending") /\ BeginOwn(c, Load("resubmit", r))

(* The status is saved before the date; if it does not fit, the request    *)
(* fails.                                                                  *)
Resubmit(c) ==
    LET r == calls[c].row
    IN  /\ Go(c, "resubmit", IF Fits(r, "pending") THEN "stamp" ELSE "idle")
        /\ SaveVerification(r, [verifications[r] EXCEPT !.status = "pending"])
        /\ UNCHANGED <<person, roles>>

ReviewStands(row) == row                                         \* fault
Submitted(row) == [row EXCEPT !.reviewed = FALSE]

StampSubmission(c) ==
    /\ Go(c, "stamp", "idle")
    /\ verifications' = [verifications EXCEPT ![calls[c].row] = Submitted(@)]
    /\ UNCHANGED <<person, roles>>

BeginDecision(c, r, next, by) ==
    /\ MayMove(r, next) /\ MayDecide(by)
    /\ Begin(c, [Load("decide", r) EXCEPT !.next = next, !.by = by])

DecideVerification(c) ==
    /\ Go(c, "decide", "idle")
    /\ SaveVerification(calls[c].row,
                        [status |-> calls[c].next, by |-> calls[c].by, reviewed |-> TRUE])
    /\ UNCHANGED <<person, roles>>

(* Only the admin site takes a request into review.                        *)
TakeIntoReview(r) ==
    /\ MayMove(r, "under_review")
    /\ verifications' = [verifications EXCEPT ![r].status = "under_review"]
    /\ Notice
    /\ UNCHANGED <<person, roles, automatic, calls>>

Die(c) ==
    /\ Failures /\ calls[c] # Idle
    /\ calls' = [calls EXCEPT ![c] = Idle]
    /\ disturbed' = TRUE
    /\ UNCHANGED <<person, roles, verifications, automatic>>

-----------------------------------------------------------------------------
Accounting(c) ==
    \/ BeginProfile(c) \/ UpdateProfile(c)
    \/ \E link \in Passwords : BeginReset(c, link)
    \/ ResetPassword(c)

Deciders == {"user", "administrator"}

Choosing(c) ==
    \/ BeginRole(c) \/ DecideRole(c)
    \/ \E r \in Requests :
          \/ RequestRole(c, r)
          \/ \E next \in {"approved", "rejected"}, by \in Deciders :
                BeginRoleDecision(c, r, next, by)

Verifying(c) ==
    \/ \E r \in Requests :
          \/ BeginUpdate(c, r) \/ BeginResubmit(c, r)
          \/ \E next \in Decisions, by \in Deciders : BeginDecision(c, r, next, by)
    \/ UpdateVerification(c) \/ Resubmit(c) \/ StampSubmission(c) \/ DecideVerification(c)

Next ==
    \/ ForgotPassword
    \/ \E suspended \in BOOLEAN : Suspend(suspended)
    \/ \E r \in Requests : CreateVerification(r) \/ TakeIntoReview(r)
    \/ \E c \in Calls : Accounting(c) \/ Choosing(c) \/ Verifying(c) \/ Die(c)

Spec == Init /\ [][Next]_vars

-----------------------------------------------------------------------------
(* Properties *)

(* Rows keep their types.                                                  *)
TypeOK ==
    /\ account \in [suspended : BOOLEAN, password : Passwords]
    /\ \A r \in Requests :
          /\ roles[r].status \in OpenRole \cup {"absent", "rejected"}
          /\ verifications[r].status \in DOMAIN ValidVerification \cup {"absent"}

(* Without overlap no edit of a profile undoes a suspension or brings back *)
(* an old password, and a reset link sets a password once.                 *)
AccountStands ==
    ~disturbed =>
        /\ account = decreed
        /\ \A link \in Passwords : followed[link] <= 1

(* However calls overlap, a user has one open request of a role, and one   *)
(* active verification of a type: what is decided, resubmitted or edited   *)
(* meanwhile either fits or fails.                                         *)
OneOpenRequest ==
    \A r, s \in Requests :
        r # s => /\ {roles[r].status, roles[s].status} \ OpenRole # {}
                 /\ {verifications[r].status, verifications[s].status}
                        \ ActiveVerification # {}

(* However calls overlap, a role that is not given to everybody, and a     *)
(* verification, is approved by somebody else.                             *)
OthersDecide ==
    \A r \in Requests :
        /\ roles[r].status = "approved" /\ ~automatic => roles[r].by = "administrator"
        /\ verifications[r].status = "approved" => verifications[r].by = "administrator"

(* Without overlap a request that waits for review was submitted after its *)
(* last review, and one that is decided was reviewed since.                *)
ReviewFollowsSubmission ==
    ~disturbed /\ (\A c \in Calls : calls[c] = Idle) =>
        \A r \in Requests :
            /\ verifications[r].status = "pending" => ~verifications[r].reviewed
            /\ verifications[r].status \in Decisions => verifications[r].reviewed
=============================================================================
