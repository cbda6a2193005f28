------------------------------ MODULE Providers ------------------------------
(***************************************************************************)
(* The profile of one service provider, its moderation and its appeals     *)
(* (apps/services).  The owner edits, submits and deactivates the profile  *)
(* and appeals against warnings and suspensions; administrators decide.    *)
(* Every endpoint loads the profile, checks what it loaded, and saves some *)
(* of the columns, or all of them, without a lock or a transaction.        *)
(*                                                                         *)
(* A definition marked "fault" is a variant of the one after it with a     *)
(* plausible mistake, to show that a property notices it.                  *)
(***************************************************************************)
EXTENDS Naturals, Sequences

CONSTANTS
    Calls,       \* requests that can be in progress at the same time
    Terms,       \* kinds of suspension, ProviderSuspensionType
    MaxWarnings, \* bound: warnings issued from which on no warn begins
    MaxAppeals,  \* bound: appeals from which on none is filed
    Failures     \* whether the process of a call can die

ASSUME ProvidersAssumption ==
    /\ "none" \notin Terms
    /\ MaxWarnings \in Nat /\ MaxAppeals \in Nat
    /\ Failures \in BOOLEAN

VARIABLES
    profile,   \* status, warning_count, suspension_type and appeal_status
    appeals,   \* the ProviderAppeal rows, oldest first
    calls,     \* what each call has loaded and has still to save
    issued,    \* history: warnings that administrators gave
    touched,   \* history: the appeal that was filed or decided last
    disturbed  \* history: two calls overlapped, or one died

vars == <<profile, appeals, calls, issued, touched, disturbed>>

ProviderStatus == {"draft", "pending_review", "active", "needs_more_information",
                   "rejected", "suspended", "inactive", "archived"}

AppealType == {"warning", "suspension"}

(* under_review and closed are declared and never set. *)
AppealStatus == {"submitted", "approved", "rejected", "reopened"}

OpenAppeal == {"submitted", "reopened"}

Columns == [status : ProviderStatus, warnings : Nat,
            term : Terms \cup {"none"}, appeal : AppealStatus \cup {"none"}]

NewProfile == [status |-> "draft", warnings |-> 0, term |-> "none", appeal |-> "none"]

Idle == [step |-> "idle", loaded |-> NewProfile, row |-> 0,
         type |-> "warning", verdict |-> "submitted", older |-> FALSE]

Rows == DOMAIN appeals

Init ==
    /\ profile = NewProfile
    /\ appeals = <<>>
    /\ calls = [c \in Calls |-> Idle]
    /\ issued = 0 /\ touched = 0 /\ disturbed = FALSE

-----------------------------------------------------------------------------
(* What the owner may ask for, by the status that the call loads.  A       *)
(* profile is complete or not by data that the model leaves out, so a      *)
(* submission may be refused at any time.                                  *)
Editable(s) == s \notin {"pending_review", "suspended"}

SubmittableAnyway ==                                             \* fault
    {"draft", "rejected", "needs_more_information", "suspended"}
Submittable == {"draft", "rejected", "needs_more_information"}

OwnerSteps(s) ==
    (IF Editable(s) THEN {"patch"} ELSE {})
    \cup (IF s \in Submittable THEN {"submit"} ELSE {})
    \cup (IF s = "active" THEN {"deactivate"} ELSE {})

(* An administrator may decide whatever the status is. *)
AdminSteps == {"approve", "reject", "request_info", "warn", "suspend", "reactivate"}

Begin(c, loaded) ==
    /\ calls[c] = Idle
    /\ calls' = [calls EXCEPT ![c] = loaded]
    /\ disturbed' = (disturbed \/ \E d \in Calls : calls[d] # Idle)
    /\ UNCHANGED <<profile, appeals, issued, touched>>

(* What a save will write of the row as it was loaded. *)
Kept(step) == CASE step = "patch" -> profile
                [] step = "warn" -> [NewProfile EXCEPT !.warnings = profile.warnings]
                [] OTHER -> NewProfile

Load(c, step) ==
    /\ step \in OwnerSteps(profile.status) \cup AdminSteps
    /\ step = "warn" => issued < MaxWarnings
    /\ Begin(c, [Idle EXCEPT !.step = step, !.loaded = Kept(step)])

Go(c, state) == calls' = [calls EXCEPT ![c] = state]
End(c) == Go(c, Idle)

(* A call saves and ends; appeals are not concerned. *)
Saves(c, step, columns) ==
    /\ calls[c].step = step
    /\ profile' = columns
    /\ End(c)
    /\ UNCHANGED <<appeals, touched, disturbed>>

(* serializer.save() writes every column as it was loaded. *)
SavePatch(c) == Saves(c, "patch", calls[c].loaded) /\ UNCHANGED issued

(* submit_for_review, deactivate, approve, reject and                      *)
(* request_more_information save the status and no other column modelled   *)
(* here: approve leaves suspension_type as it was.                         *)
StatusAfter ==
    [submit |-> "pending_review", deactivate |-> "inactive", approve |-> "active",
     reject |-> "rejected", request_info |-> "needs_more_information"]

SaveStatus(c) ==
    \E step \in DOMAIN StatusAfter :
        /\ Saves(c, step, [profile EXCEPT !.status = StatusAfter[step]])
        /\ UNCHANGED issued

(* warning_count + 1 is computed from the loaded row. *)
WarnTwice(c) ==                                                  \* fault
    /\ Saves(c, "warn", [profile EXCEPT !.warnings = calls[c].loaded.warnings + 2])
    /\ issued' = issued + 1

Warn(c) ==
    /\ Saves(c, "warn", [profile EXCEPT !.warnings = calls[c].loaded.warnings + 1])
    /\ issued' = issued + 1

SuspendedOnly(p, term) == [p EXCEPT !.status = "suspended"]      \* fault
Suspended(p, term) == [p EXCEPT !.status = "suspended", !.term = term]

(* The history remembers which calls had loaded their row before.          *)
Suspend(c) ==
    /\ calls[c].step = "suspend"
    /\ \E term \in Terms : profile' = Suspended(profile, term)
    /\ calls' = [d \in Calls |-> IF d = c \/ calls[d] = Idle THEN Idle
                                 ELSE [calls[d] EXCEPT !.older = TRUE]]
    /\ UNCHANGED <<appeals, issued, touched, disturbed>>

ReactivatedAndClosed(p) ==                                       \* fault
    [p EXCEPT !.status = "active", !.term = "none", !.appeal = "closed"]
Reactivated(p) == [p EXCEPT !.status = "active", !.term = "none", !.appeal = "none"]

Reactivate(c) == Saves(c, "reactivate", Reactivated(profile)) /\ UNCHANGED issued

-----------------------------------------------------------------------------
(* The owner files an appeal: checks, insertion and the copy of its status *)
(* in the profile are three accesses.                                      *)
NoOpenAppealSubmitted(type) ==                                   \* fault
    \A a \in Rows : appeals[a].type = type => appeals[a].status # "reopened"

NoOpenAppeal(type) ==
    \A a \in Rows : appeals[a].type = type => appeals[a].status \notin OpenAppeal

BeginAppeal(c, type) ==
    /\ Len(appeals) < MaxAppeals
    /\ type = "suspension" => profile.status = "suspended"
    /\ type = "warning" => profile.warnings # 0
    /\ NoOpenAppeal(type)
    /\ Begin(c, [Idle EXCEPT !.step = "file", !.type = type])

FileAppeal(c) ==
    /\ calls[c].step = "file"
    /\ appeals' = Append(appeals, [type |-> calls[c].type, status |-> "submitted"])
    /\ touched' = Len(appeals) + 1
    /\ Go(c, [calls[c] EXCEPT !.step = "copy", !.row = Len(appeals) + 1])
    /\ UNCHANGED <<profile, issued, disturbed>>

(* An administrator approves, rejects or reopens any appeal, at any time   *)
(* and as often as he likes.                                               *)
BeginDecision(c, a, verdict) ==
    Begin(c, [Idle EXCEPT !.step = "decide", !.row = a, !.verdict = verdict,
                          !.type = appeals[a].type])

Decide(c) ==
    /\ calls[c].step = "decide"
    /\ appeals' = [appeals EXCEPT ![calls[c].row].status = calls[c].verdict]
    /\ touched' = calls[c].row
    /\ Go(c, [calls[c] EXCEPT !.step = "copy"])
    /\ UNCHANGED <<profile, issued, disturbed>>

(* The copy is followed, if a suspension appeal was approved, by           *)
(* reactivate, which clears it again.                                      *)
CopyOnlyDecisions(c) ==                                          \* fault
    /\ calls[c].step = "copy"
    /\ profile' = IF calls[c].verdict = "submitted" THEN profile
                  ELSE [profile EXCEPT !.appeal = calls[c].verdict]
    /\ IF calls[c].verdict = "approved" /\ calls[c].type = "suspension"
       THEN Go(c, [Idle EXCEPT !.step = "reactivate"])
       ELSE End(c)
    /\ UNCHANGED <<appeals, issued, touched, disturbed>>

CopyAppeal(c) ==
    /\ calls[c].step = "copy"
    /\ profile' = [profile EXCEPT !.appeal = calls[c].verdict]
    /\ IF calls[c].verdict = "approved" /\ calls[c].type = "suspension"
       THEN Go(c, [Idle EXCEPT !.step = "reactivate"])
       ELSE End(c)
    /\ UNCHANGED <<appeals, issued, touched, disturbed>>

(* The process of a call ends: what it saved stays saved. *)
Die(c) ==
    /\ Failures
    /\ calls[c] # Idle
    /\ End(c)
    /\ disturbed' = TRUE
    /\ UNCHANGED <<profile, appeals, issued, touched>>

Moderation ==
    \E c \in Calls :
        \/ \E step \in AdminSteps : Load(c, step)
        \/ Warn(c)
        \/ Suspend(c)
        \/ Reactivate(c)
        \/ \E a \in Rows, verdict \in AppealStatus \ {"submitted"} :
              BeginDecision(c, a, verdict)
        \/ Decide(c)

Owner ==
    \E c \in Calls :
        \/ \E step \in {"patch", "submit", "deactivate"} : Load(c, step)
        \/ SavePatch(c)
        \/ \E type \in AppealType : BeginAppeal(c, type)
        \/ FileAppeal(c)

Next == Moderation \/ Owner \/ \E c \in Calls : SaveStatus(c) \/ CopyAppeal(c) \/ Die(c)

Spec == Init /\ [][Next]_vars

-----------------------------------------------------------------------------
(* Properties *)

(* What the columns and the calls in progress can hold. *)
TypeOK ==
    /\ profile \in Columns
    /\ appeals \in Seq([type : AppealType, status : AppealStatus])
    /\ calls \in [Calls -> [
          step : {"idle", "patch", "submit", "deactivate", "file", "decide", "copy"}
                 \cup AdminSteps,
          loaded : Columns, row : Nat, type : AppealType, verdict : AppealStatus,
          older : BOOLEAN]]
    /\ issued \in Nat /\ touched \in Nat /\ disturbed \in BOOLEAN

Quiet == \A c \in Calls : calls[c] = Idle

(* Whatever calls overlap or die and however old the rows are that they    *)
(* save: a suspended profile says for how long it is suspended, and no     *)
(* provider is warned more often than administrators warned him.           *)
SanctionsAreBacked ==
    /\ profile.status = "suspended" => profile.term # "none"
    /\ profile.warnings <= issued

(* While calls do not overlap, no warning is lost, at most one appeal of   *)
(* a kind waits for its first decision, and the appeal status that the     *)
(* profile shows is that of the appeal handled last, or none after a       *)
(* reactivation.                                                           *)
GovernanceAgrees ==
    ~disturbed =>
        /\ profile.warnings = issued
        /\ \A a, b \in Rows :
              /\ appeals[a].status = "submitted" /\ appeals[b].status = "submitted"
              /\ appeals[a].type = appeals[b].type
              => a = b
        /\ Quiet /\ profile.appeal # "none" =>
              /\ touched \in Rows
              /\ profile.appeal = appeals[touched].status

LeavesSuspension == profile.status = "suspended" /\ profile'.status # "suspended"

(* A suspension ends by a decision of an administrator.  The only calls of *)
(* the owner that can end it loaded the profile before it was imposed.     *)
SuspensionStands ==
    [][LeavesSuspension =>
          \E c \in Calls : calls[c].step \in AdminSteps \/ calls[c].older]_vars
=============================================================================
