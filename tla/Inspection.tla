------------------------------ MODULE Inspection ------------------------------
(***************************************************************************)
(* One property inspection request, its assignments to inspectors and its  *)
(* report (apps/inspections).  Requesters, inspectors and administrators   *)
(* call independent endpoints; each loads what it needs in one query,      *)
(* checks it, and saves in one or more updates, with neither a lock nor a  *)
(* transaction.  A call is cut at every read and write of the database.    *)
(*                                                                         *)
(* Every call that only an inspector may make can also be made by an       *)
(* administrator, so who calls matters for accept and decline alone.       *)
(*                                                                         *)
(* A definition marked "fault" is a variant of the one after it with a     *)
(* plausible mistake, to show that a property notices it.                  *)
(***************************************************************************)
EXTENDS Naturals, Sequences

CONSTANTS
    Calls,            \* requests that can be in progress at the same time
    Inspectors,       \* users that user_is_inspector accepts
    AdminInspectors,  \* those of them who are administrators
    Nobody,           \* no inspector
    MaxAssignments,   \* bound: rows from which on no assign begins
    Failures          \* whether the process of a call can die

ASSUME InspectionAssumption ==
    /\ AdminInspectors \subseteq Inspectors
    /\ Nobody \notin Inspectors
    /\ MaxAssignments \in Nat
    /\ Failures \in BOOLEAN

VARIABLES
    request,     \* InspectionRequest.status and .assigned_inspector
    assignments, \* the InspectionAssignment rows, oldest first
    report,      \* InspectionReport.status, and deleted_at
    calls,       \* what each call has loaded and has still to save
    filed,       \* history: a report was submitted
    signed,      \* history: a report was approved
    older,       \* history: calls under way since before the status changed
    disturbed    \* history: two calls overlapped, or one died while it assigned

vars == <<request, assignments, report, calls, filed, signed, older, disturbed>>

(* InspectionRequest.VALID_STATUS_TRANSITIONS *)
ValidTransitions ==
    [requested |-> {"under_review", "needs_more_information", "approved",
                    "cancelled", "rejected", "expired"},
     under_review |-> {"needs_more_information", "approved", "cancelled", "rejected"},
     needs_more_information |-> {"under_review", "cancelled", "rejected"},
     approved |-> {"assigned", "scheduled", "cancelled"},
     assigned |-> {"scheduled", "cancelled"},
     scheduled |-> {"in_progress", "cancelled"},
     in_progress |-> {"report_submitted", "cancelled"},
     report_submitted |-> {"report_under_review", "completed"},
     report_under_review |-> {"report_submitted", "completed", "rejected"},
     completed |-> {},
     cancelled |-> {"requested"},
     rejected |-> {"requested"},
     expired |-> {}]

RequestStatus == DOMAIN ValidTransitions

ReportStatus ==
    {"absent", "draft", "submitted", "needs_revision", "approved", "rejected"}

AssignmentStatus == {"assigned", "accepted", "declined", "reassigned"}

Active == {"assigned", "accepted"}

IsActive(a) == assignments[a].status \in Active

Rows == DOMAIN assignments

Idle == [step |-> "idle", status |-> "requested", inspector |-> Nobody,
         row |-> 0, saves |-> <<>>, report |-> "absent"]

Init ==
    /\ request = [status |-> "requested", inspector |-> Nobody]
    /\ assignments = <<>>
    /\ report = [status |-> "absent", deleted |-> FALSE]
    /\ calls = [c \in Calls |-> Idle]
    /\ filed = FALSE /\ signed = FALSE /\ older = {} /\ disturbed = FALSE

-----------------------------------------------------------------------------
(* A call starts and keeps what it will need of what it loaded; the        *)
(* history notices if another call is under way.                           *)
Begin(c, loaded) ==
    /\ calls[c] = Idle
    /\ calls' = [calls EXCEPT ![c] = loaded]
    /\ disturbed' = (disturbed \/ \E d \in Calls : calls[d] # Idle)
    /\ UNCHANGED <<request, assignments, report, filed, signed>>

(* The call goes on, or ends when it has nothing more to save. *)
Go(c, state) == calls' = [calls EXCEPT ![c] = state]

End(c) == Go(c, Idle)

(* transition_to saves the status column and no other; the check was made  *)
(* on the status that the call had loaded.  assign has more to save.       *)
SaveStatus(c) ==
    /\ calls[c].saves # <<>>
    /\ calls[c].step \in {"transition", "assign"}
    /\ request' = [request EXCEPT !.status = Head(calls[c].saves)]
    /\ IF calls[c].step = "transition" /\ Len(calls[c].saves) = 1
       THEN End(c)
       ELSE Go(c, [calls[c] EXCEPT !.saves = Tail(calls[c].saves),
                      !.status = IF calls[c].step = "assign"
                                 THEN Head(calls[c].saves) ELSE calls[c].status])
    /\ UNCHANGED <<assignments, report, filed, signed, disturbed>>

(* What cancel, reject, request_information, reopen, schedule, start and   *)
(* provide_information move the request to.                                *)
Targets(s) ==
    (ValidTransitions[s] \cap
        {"cancelled", "rejected", "needs_more_information", "requested",
         "scheduled", "in_progress"})
    \cup (IF s = "needs_more_information" THEN {"under_review"} ELSE {})

BeginTransition(c) ==
    \E next \in Targets(request.status) :
        Begin(c, [Idle EXCEPT !.step = "transition", !.saves = <<next>>])

(* approve and assign take a request that was not reviewed yet through     *)
(* under_review.                                                           *)
PathToApproved(s) ==
    CASE s = "requested" -> <<"under_review", "approved">>
      [] s = "under_review" -> <<"approved">>
      [] OTHER -> <<>>

BeginApprove(c) ==
    /\ PathToApproved(request.status) # <<>>
    /\ Begin(c, [Idle EXCEPT !.step = "transition",
                             !.saves = PathToApproved(request.status)])

-----------------------------------------------------------------------------
(* Assignment.  An administrator names an inspector; the previous active   *)
(* assignment, the latest one, is looked up before the new row is inserted *)
(* and marked after it.                                                    *)
BeginAssign(c, i) ==
    /\ Len(assignments) < MaxAssignments
    /\ Begin(c, [Idle EXCEPT !.step = "find", !.inspector = i,
                             !.status = request.status,
                             !.saves = PathToApproved(request.status)])

FindPrevious(c) ==
    /\ calls[c].step = "find"
    /\ \/ \E a \in Rows :
             /\ IsActive(a)
             /\ \A b \in Rows : IsActive(b) => b <= a
             /\ Go(c, [calls[c] EXCEPT !.step = "insert", !.row = a])
       \/ /\ \A a \in Rows : ~IsActive(a)
          /\ Go(c, [calls[c] EXCEPT !.step = "insert"])
    /\ UNCHANGED <<request, assignments, report, filed, signed, disturbed>>

InsertAssignment(c) ==
    /\ calls[c].step = "insert"
    /\ assignments' = Append(assignments, [inspector |-> calls[c].inspector,
                                           status |-> "assigned"])
    /\ Go(c, [calls[c] EXCEPT !.step = IF calls[c].row = 0 THEN "assign"
                                                           ELSE "mark"])
    /\ UNCHANGED <<request, report, filed, signed, disturbed>>

MarkOnlyUnanswered(c) ==                                         \* fault
    /\ calls[c].step = "mark"
    /\ assignments' = IF assignments[calls[c].row].status = "assigned"
                      THEN [assignments EXCEPT ![calls[c].row].status = "reassigned"]
                      ELSE assignments
    /\ Go(c, [calls[c] EXCEPT !.step = "assign"])
    /\ UNCHANGED <<request, report, filed, signed, disturbed>>

MarkPrevious(c) ==
    /\ calls[c].step = "mark"
    /\ assignments' = [assignments EXCEPT ![calls[c].row].status = "reassigned"]
    /\ Go(c, [calls[c] EXCEPT !.step = "assign"])
    /\ UNCHANGED <<request, report, filed, signed, disturbed>>

(* can_transition_to(ASSIGNED), else the status stays as it was loaded.  *)
AssignedAnyway(s) == "assigned"                                  \* fault
AssignedFrom(s) == IF "assigned" \in ValidTransitions[s] THEN "assigned" ELSE s

(* assign ends with a save of all columns. *)
SaveAssigned(c) ==
    /\ calls[c].step = "assign"
    /\ calls[c].saves = <<>>
    /\ request' = [status |-> AssignedFrom(calls[c].status),
                   inspector |-> calls[c].inspector]
    /\ End(c)
    /\ UNCHANGED <<assignments, report, filed, signed, disturbed>>

(* An inspector finds the active assignments that name him; to an          *)
(* administrator none is hidden.                                           *)
Finds(a) == IsActive(a) \/ assignments[a].inspector \in AdminInspectors

BeginAnswer(c, a) ==
    /\ Finds(a)
    /\ \/ Begin(c, [Idle EXCEPT !.step = "accept", !.row = a,
                                !.inspector = assignments[a].inspector,
                                !.status = request.status])
       \/ Begin(c, [Idle EXCEPT !.step = "decline", !.row = a])

Accept(c) ==
    /\ calls[c].step = "accept"
    /\ assignments' = [assignments EXCEPT ![calls[c].row].status = "accepted"]
    /\ Go(c, [calls[c] EXCEPT !.step = "take"])
    /\ UNCHANGED <<request, report, filed, signed, disturbed>>

(* The save names status, so it writes what was loaded if nothing else.  *)
TakeRequest(c) ==
    /\ calls[c].step = "take"
    /\ request' = [status |-> AssignedFrom(calls[c].status),
                   inspector |-> calls[c].inspector]
    /\ End(c)
    /\ UNCHANGED <<assignments, report, filed, signed, disturbed>>

(* A declined request keeps its assigned_inspector. *)
DeclineRejects(c) ==                                             \* fault
    /\ calls[c].step = "decline"
    /\ assignments' = [assignments EXCEPT ![calls[c].row].status = "rejected"]
    /\ End(c)
    /\ UNCHANGED <<request, report, filed, signed, disturbed>>

Decline(c) ==
    /\ calls[c].step = "decline"
    /\ assignments' = [assignments EXCEPT ![calls[c].row].status = "declined"]
    /\ End(c)
    /\ UNCHANGED <<request, report, filed, signed, disturbed>>

-----------------------------------------------------------------------------
(* The report: one row for a request, for ever, since deletion only hides  *)
(* it.                                                                     *)
Visible == report.status # "absent" /\ ~report.deleted

CreateReport ==
    /\ report.status = "absent"
    /\ report' = [status |-> "draft", deleted |-> FALSE]
    /\ UNCHANGED <<request, assignments, calls, filed, signed, disturbed>>

DeleteReport ==
    /\ Visible
    /\ report' = [report EXCEPT !.deleted = TRUE]
    /\ UNCHANGED <<request, assignments, calls, filed, signed, disturbed>>

(* request_revision and reject look at no status. *)
SendBack(next) ==
    /\ Visible
    /\ report' = [report EXCEPT !.status = next]
    /\ UNCHANGED <<request, assignments, calls, filed, signed, disturbed>>

(* An update saves all columns as they were loaded, deleted_at included. *)
BeginEdit(c) ==
    /\ Visible
    /\ Begin(c, [Idle EXCEPT !.step = "edit", !.report = report.status])

SaveEdit(c) ==
    /\ calls[c].step = "edit"
    /\ report' = [status |-> calls[c].report, deleted |-> FALSE]
    /\ End(c)
    /\ UNCHANGED <<request, assignments, filed, signed, disturbed>>

BeginSubmit(c) ==
    /\ Visible
    /\ Begin(c, [Idle EXCEPT !.step = "submit", !.status = request.status])

SubmitReportLate(c) ==                                           \* fault
    /\ calls[c].step = "submit"
    /\ IF calls[c].status = "in_progress"
       THEN /\ request' = [request EXCEPT !.status = "report_submitted"]
            /\ Go(c, [calls[c] EXCEPT !.status = "report_submitted"])
            /\ UNCHANGED <<report, filed>>
       ELSE /\ report' = [report EXCEPT !.status = "submitted"]
            /\ filed' = TRUE
            /\ End(c)
            /\ UNCHANGED request
    /\ UNCHANGED <<assignments, signed, disturbed>>

(* submit looks at no status of the report.  From scheduled it asks for a  *)
(* transition that the table does not have, and ends with an exception.    *)
SubmitReport(c) ==
    /\ calls[c].step = "submit"
    /\ report' = [report EXCEPT !.status = "submitted"]
    /\ filed' = TRUE
    /\ IF calls[c].status = "in_progress"
       THEN Go(c, [Idle EXCEPT !.step = "transition",
                               !.saves = <<"report_submitted">>])
       ELSE End(c)
    /\ UNCHANGED <<request, assignments, signed, disturbed>>

BeginApproveReport(c) ==
    /\ Visible
    /\ Begin(c, [Idle EXCEPT !.step = "sign", !.status = request.status])

ApproveReportLate(c) ==                                          \* fault
    /\ calls[c].step = "sign"
    /\ IF calls[c].status \in {"report_submitted", "report_under_review"}
       THEN /\ request' = [request EXCEPT !.status = "completed"]
            /\ Go(c, [calls[c] EXCEPT !.status = "completed"])
            /\ UNCHANGED <<report, signed>>
       ELSE /\ report' = [report EXCEPT !.status = "approved"]
            /\ signed' = TRUE
            /\ End(c)
            /\ UNCHANGED request
    /\ UNCHANGED <<assignments, filed, disturbed>>

ApproveReport(c) ==
    /\ calls[c].step = "sign"
    /\ report' = [report EXCEPT !.status = "approved"]
    /\ signed' = TRUE
    /\ IF calls[c].status \in {"report_submitted", "report_under_review"}
       THEN Go(c, [Idle EXCEPT !.step = "transition", !.saves = <<"completed">>])
       ELSE End(c)
    /\ UNCHANGED <<request, assignments, filed, disturbed>>

(* The process of a call ends: what it saved stays saved. *)
Die(c) ==
    /\ Failures
    /\ calls[c] # Idle
    /\ End(c)
    /\ disturbed' = (disturbed \/ calls[c].step \in {"mark", "assign"})
    /\ UNCHANGED <<request, assignments, report, filed, signed>>

Requests == \E c \in Calls : BeginTransition(c) \/ BeginApprove(c) \/ SaveStatus(c)

Assigning ==
    \E c \in Calls :
        \/ \E i \in Inspectors : BeginAssign(c, i)
        \/ FindPrevious(c)
        \/ InsertAssignment(c)
        \/ MarkPrevious(c)
        \/ SaveAssigned(c)
        \/ \E a \in Rows : BeginAnswer(c, a)
        \/ Accept(c)
        \/ TakeRequest(c)
        \/ Decline(c)

Reporting ==
    \/ CreateReport
    \/ DeleteReport
    \/ \E next \in {"needs_revision", "rejected"} : SendBack(next)
    \/ \E c \in Calls :
          \/ BeginEdit(c)
          \/ SaveEdit(c)
          \/ BeginSubmit(c)
          \/ SubmitReport(c)
          \/ BeginApproveReport(c)
          \/ ApproveReport(c)

(* History: a call under way gets old when another one changes the status. *)
Age == older' = {c \in Calls :
                    /\ calls[c] # Idle /\ calls'[c] # Idle
                    /\ \/ c \in older
                       \/ calls'[c] = calls[c] /\ request'.status # request.status}

Next ==
    /\ Requests \/ Assigning \/ Reporting \/ \E c \in Calls : Die(c)
    /\ Age

Spec == Init /\ [][Next]_vars

-----------------------------------------------------------------------------
(* Properties *)

(* What the columns and the calls in progress can hold. *)
TypeOK ==
    /\ request \in [status : RequestStatus, inspector : Inspectors \cup {Nobody}]
    /\ assignments \in Seq([inspector : Inspectors, status : AssignmentStatus])
    /\ report \in [status : ReportStatus, deleted : BOOLEAN]
    /\ calls \in [Calls -> [
          step : {"idle", "transition", "find", "insert", "mark", "assign",
                  "accept", "take", "decline", "edit", "submit", "sign"},
          status : RequestStatus,
          inspector : Inspectors \cup {Nobody},
          row : Rows \cup {0},
          saves : Seq(RequestStatus),
          report : ReportStatus]]
    /\ filed \in BOOLEAN /\ signed \in BOOLEAN /\ disturbed \in BOOLEAN
    /\ older \subseteq Calls

Quiet == \A c \in Calls : calls[c] = Idle

(* A request is with one inspector: through any sequence of assignments,   *)
(* answers and reassignments that do not overlap, calls that die included  *)
(* unless it is between the saves of assign, at most one assignment is     *)
(* active and it names the request's assigned_inspector.  Requests that    *)
(* were ever assigned to an administrator are excepted: he still finds an  *)
(* assignment that was taken from him or that he declined, and may accept  *)
(* it again.                                                               *)
OneInspector ==
    /\ ~disturbed /\ Quiet
    /\ \A a \in Rows : assignments[a].inspector \notin AdminInspectors
    => \A a \in Rows :
          IsActive(a) => /\ request.inspector = assignments[a].inspector
                         /\ \A b \in Rows \ {a} : ~IsActive(b)

(* What the requester paid for was done: whatever calls overlap, die or    *)
(* save what they loaded long ago, a request that shows a submitted report *)
(* had one submitted, and a completed request had one submitted and one    *)
(* approved.                                                               *)
CompletionIsEarned ==
    /\ request.status \in {"report_submitted", "completed"} => filed
    /\ request.status = "completed" => signed

(* However calls overlap or die, the status moves as declared, unless a    *)
(* call saves that was under way when another one changed the status.      *)
(* So a closed request is left by reopening it and by such calls alone,    *)
(* although assign and accept write the status with every save, and the    *)
(* saves of approve and assign follow from each other.                     *)
StatusMovesAsDeclared ==
    [][\/ request'.status \in {request.status} \cup ValidTransitions[request.status]
       \/ \E c \in older : calls'[c] # calls[c]]_vars
=============================================================================
