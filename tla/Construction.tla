---------------------------- MODULE Construction ----------------------------
(***************************************************************************)
(* One construction project, its milestones, the inspections that some of  *)
(* them wait for, and the progress updates that contractors report and     *)
(* managers approve (apps/construction).  Each endpoint loads rows, decides*)
(* by what it loaded, and saves; an edit saves every column that it loaded.*)
(* Only the effects of an approved update are one transaction.             *)
(*                                                                         *)
(* A definition marked "fault" is a variant of the one after it with a     *)
(* plausible mistake, to show that a property notices it.                  *)
(***************************************************************************)
EXTENDS Naturals, FiniteSets, Functions

CONSTANTS
    Calls,       \* requests that can be in progress at the same time
    Milestones,  \* milestones of the project
    Heavy,       \* those of weight 3; the others have weight 1
    NoMilestone, \* what an update of the whole project reports about
    Updates,     \* progress updates
    Values,      \* the percentages that are reported, 100 among them
    ByHand,      \* the statuses that managers ask for
    Failures     \* whether the process of a call can die

VARIABLES
    project,    \* ConstructionProject.status, overall_progress
    milestones, \* ConstructionMilestone.status, progress_percent,
                \* requires_inspection, and whether it is not deleted
    inspected,  \* the furthest status of an inspection linked to each milestone
    updates,    \* ConstructionProgressUpdate.status, milestone, current_progress
    calls,      \* what each call has loaded and has still to save
    waived,     \* history: milestones completed by hand, or gated by an edit
    outdated,   \* history: milestones changed since the last approved update,
                \* or calls overlapped
    disturbed   \* history: two calls overlapped, or one died

vars == <<project, milestones, inspected, updates, calls, waived, outdated, disturbed>>

ValidTransitions ==
    [draft |-> {"planned", "cancelled"},
     planned |-> {"active", "cancelled", "on_hold"},
     active |-> {"paused", "on_hold", "completed", "cancelled"},
     paused |-> {"active", "cancelled"},
     on_hold |-> {"active", "cancelled"},
     completed |-> {"archived"},
     cancelled |-> {"archived"},
     archived |-> {}]

NoRow == [status |-> "absent", progress |-> 0, gate |-> FALSE, live |-> FALSE]

NoUpdate == [status |-> "absent", milestone |-> NoMilestone, progress |-> 0, live |-> FALSE]

Idle == [step |-> "idle", milestone |-> NoMilestone, row |-> NoRow, update |-> NoMilestone,
         project |-> [status |-> "draft", progress |-> 0]]

Init ==
    /\ project = Idle.project
    /\ milestones = [m \in Milestones |-> NoRow]
    /\ inspected = [m \in Milestones |-> "none"]
    /\ updates = [u \in Updates |-> NoUpdate]
    /\ calls = [c \in Calls |-> Idle]
    /\ waived = {}
    /\ outdated = FALSE /\ disturbed = FALSE

(* calculate_project_progress, with the milestones as given: the mean by   *)
(* weight of those that are not deleted, skipped or cancelled.             *)
Weight(m) == IF m \in Heavy THEN 3 ELSE 1

Overall(rows) ==
    LET counted == {m \in Milestones : rows[m].live /\ rows[m].status # "skipped"}
        total(f) == SumFunctionOnSet(f, counted)
    IN  IF counted = {} THEN 0
        ELSE total([m \in Milestones |-> rows[m].progress * Weight(m)])
             \div total([m \in Milestones |-> Weight(m)])

(* mark_completed_if_allowed: the row with its status and full progress.   *)
CompletedIfLinked(m, row) ==                                     \* fault
    [row EXCEPT !.progress = 100,
                !.status = IF row.gate /\ inspected[m] = "none"
                           THEN "awaiting_inspection" ELSE "completed"]
CompletedIfAllowed(m, row) ==
    [row EXCEPT !.progress = 100,
                !.status = IF row.gate /\ inspected[m] # "completed"
                           THEN "awaiting_inspection" ELSE "completed"]

(* The transaction of an approval holds the row of its milestone.          *)
Free(m) == \A c \in Calls : calls[c].step = "commit" => calls[c].milestone # m

Begin(c, loaded) ==
    /\ calls[c] = Idle
    /\ calls' = [calls EXCEPT ![c] = loaded]
    /\ disturbed' = (disturbed \/ \E d \in Calls : calls[d] # Idle)
    /\ outdated' = (outdated \/ disturbed')
    /\ UNCHANGED <<project, milestones, inspected, updates, waived>>

Go(c, from, to) ==
    /\ calls[c].step = from
    /\ calls' = [calls EXCEPT ![c].step = to]

End(c, from) ==
    /\ calls[c].step = from
    /\ calls' = [calls EXCEPT ![c] = Idle]

BeginMilestone(c, step, m, row) ==
    /\ milestones[m].live
    /\ Begin(c, [Idle EXCEPT !.step = step, !.milestone = m, !.row = row])

(* The columns status and progress_percent of a milestone.                 *)
SaveProgressOf(m, row) ==
    /\ Free(m)
    /\ milestones' = [milestones EXCEPT ![m].status = row.status,
                                        ![m].progress = row.progress]

-----------------------------------------------------------------------------
(* The project.  transition and an edit.                                   *)
BeginTransition(c, next) ==
    /\ next \in ValidTransitions[project.status]
    /\ Begin(c, [Idle EXCEPT !.step = "transition",
                             !.project = [status |-> next, progress |-> project.progress]])

SaveTransition(c) ==
    /\ End(c, "transition")
    /\ LET next == calls[c].project.status
       IN  /\ project' = [status |-> next,
                          progress |-> IF next = "completed" THEN 100 ELSE project.progress]
           /\ outdated' = (outdated \/ next = "completed")
    /\ UNCHANGED <<milestones, inspected, updates, waived, disturbed>>

BeginEditProject(c) ==
    Begin(c, [Idle EXCEPT !.step = "edit_project", !.project = project])

SaveProject(c) ==
    /\ End(c, "edit_project")
    /\ project' = calls[c].project
    /\ UNCHANGED <<milestones, inspected, updates, waived, outdated, disturbed>>

-----------------------------------------------------------------------------
(* Milestones.                                                             *)
CreateMilestone(m, gate) ==
    /\ milestones[m] = NoRow
    /\ milestones' = [milestones EXCEPT ![m] = [NoRow EXCEPT !.status = "not_started",
                                                             !.gate = gate, !.live = TRUE]]
    /\ outdated' = TRUE
    /\ disturbed' = (disturbed \/ \E c \in Calls : calls[c] # Idle)
    /\ UNCHANGED <<project, inspected, updates, calls, waived>>

DeleteMilestone(m) ==
    /\ milestones[m].live /\ Free(m)
    /\ milestones' = [milestones EXCEPT ![m].live = FALSE]
    /\ outdated' = TRUE
    /\ disturbed' = (disturbed \/ \E c \in Calls : calls[c] # Idle)
    /\ UNCHANGED <<project, inspected, updates, calls, waived>>

BeginEditMilestone(c, m, gate) ==
    BeginMilestone(c, "edit", m, [milestones[m] EXCEPT !.gate = gate])

SaveMilestone(c) ==
    LET m == calls[c].milestone
        row == calls[c].row
    IN  /\ End(c, "edit") /\ Free(m)
        /\ milestones' = [milestones EXCEPT ![m] = row]
        /\ waived' = IF row.gate /\ ~milestones[m].gate THEN waived \cup {m} ELSE waived
        /\ UNCHANGED <<project, inspected, updates, outdated, disturbed>>

(* progress: a percentage, a status or both.  A reduction needs a reason,  *)
(* which the caller can always give.                                       *)
BeginProgress(c, m, value, status) ==
    /\ milestones[m].progress # value \/ milestones[m].status # status
    /\ BeginMilestone(c, "progress", m, [milestones[m] EXCEPT !.progress = value,
                                                              !.status = status])

SaveProgress(c) ==
    LET m == calls[c].milestone
        row == calls[c].row
    IN  /\ End(c, "progress")
        /\ SaveProgressOf(m, IF row.progress = 100 THEN CompletedIfAllowed(m, row) ELSE row)
        /\ waived' = IF row.progress # 100 /\ row.status = "completed"
                           /\ milestones[m].status # "completed"
                     THEN waived \cup {m} ELSE waived
        /\ outdated' = TRUE
        /\ UNCHANGED <<project, inspected, updates, disturbed>>

(* request_inspection creates the request and its link, then saves the     *)
(* milestone.                                                              *)
BeginRequest(c, m) == BeginMilestone(c, "link", m, milestones[m])

AddLink(c) ==
    LET m == calls[c].milestone
    IN  /\ Go(c, "link", "await")
        /\ inspected' = [inspected EXCEPT ![m] = IF @ = "none" THEN "requested" ELSE @]
        /\ UNCHANGED <<project, milestones, updates, waived, outdated, disturbed>>

AwaitInspection(c) ==
    LET m == calls[c].milestone
    IN  /\ End(c, "await") /\ Free(m)
        /\ milestones' = [milestones EXCEPT ![m].status = "awaiting_inspection"]
        /\ outdated' = (outdated \/ milestones[m].status = "skipped")
        /\ UNCHANGED <<project, inspected, updates, waived, disturbed>>

(* A linked inspection runs its own course: see Inspection.                *)
CompleteInspection(m) ==
    /\ inspected[m] = "requested"
    /\ inspected' = [inspected EXCEPT ![m] = "completed"]
    /\ UNCHANGED <<project, milestones, updates, calls, waived, outdated, disturbed>>

-----------------------------------------------------------------------------
(* Progress updates.                                                       *)
SaveUpdate(u, row) ==
    /\ updates' = [updates EXCEPT ![u] = row]
    /\ UNCHANGED <<project, milestones, inspected, calls, waived, outdated, disturbed>>

CreateUpdate(u, m, value) ==
    /\ updates[u] = NoUpdate
    /\ m # NoMilestone => milestones[m].status # "absent"
    /\ SaveUpdate(u, [status |-> "draft", milestone |-> m, progress |-> value, live |-> TRUE])

(* submit and reject do not ask for a status; only a draft can be deleted. *)
SubmitUpdate(u) ==
    updates[u].live /\ SaveUpdate(u, [updates[u] EXCEPT !.status = "submitted"])

RejectUpdate(u) ==
    updates[u].live /\ SaveUpdate(u, [updates[u] EXCEPT !.status = "rejected"])

DeleteUpdate(u) ==
    updates[u].status = "draft" /\ SaveUpdate(u, [updates[u] EXCEPT !.live = FALSE])

(* approve loads the update with its milestone, saves its status, and only *)
(* then starts the transaction that applies it.                            *)
BeginApprove(c, u) ==
    LET m == updates[u].milestone
    IN  /\ updates[u].live
        /\ Begin(c, [Idle EXCEPT !.step = "approve", !.update = u, !.milestone = m,
                                 !.row = IF m = NoMilestone THEN NoRow ELSE milestones[m]])

ApproveUpdate(c) ==
    /\ Go(c, "approve", "apply")
    /\ updates' = [updates EXCEPT ![calls[c].update].status = "approved"]
    /\ UNCHANGED <<project, milestones, inspected, waived, outdated, disturbed>>

WithRow(m, row) ==
    IF m = NoMilestone THEN milestones
    ELSE [milestones EXCEPT ![m].status = row.status, ![m].progress = row.progress]

(* The milestone is written first, and the project is then computed from   *)
(* the rows that the transaction sees.                                     *)
Applied(c) ==
    LET m == calls[c].milestone
        value == updates[calls[c].update].progress
        row == IF value = 100 /\ m # NoMilestone THEN CompletedIfAllowed(m, calls[c].row)
               ELSE [calls[c].row EXCEPT !.status = "in_progress", !.progress = value]
    IN  [calls[c] EXCEPT !.step = "commit", !.row = row,
                         !.project.progress = Overall(WithRow(m, row))]

AppliedLate(c) == [Applied(c) EXCEPT !.project.progress = Overall(milestones)]  \* fault
Apply(c) == Applied(c)

ApplyUpdate(c) ==
    /\ calls[c].step = "apply" /\ Free(calls[c].milestone)
    /\ calls' = [calls EXCEPT ![c] = Apply(c)]
    /\ UNCHANGED <<project, milestones, inspected, updates, waived, outdated, disturbed>>

CommitUpdate(c) ==
    /\ End(c, "commit")
    /\ milestones' = WithRow(calls[c].milestone, calls[c].row)
    /\ project' = [project EXCEPT !.progress = calls[c].project.progress]
    /\ outdated' = disturbed
    /\ UNCHANGED <<inspected, updates, waived, disturbed>>

Die(c) ==
    /\ Failures /\ calls[c] # Idle
    /\ calls' = [calls EXCEPT ![c] = Idle]
    /\ disturbed' = TRUE /\ outdated' = TRUE
    /\ UNCHANGED <<project, milestones, inspected, updates, waived>>

-----------------------------------------------------------------------------
Saving(c) ==
    \/ SaveTransition(c) \/ SaveProject(c)
    \/ SaveMilestone(c) \/ SaveProgress(c) \/ AddLink(c) \/ AwaitInspection(c)
    \/ ApproveUpdate(c) \/ ApplyUpdate(c) \/ CommitUpdate(c)
    \/ Die(c)

Loading(c) ==
    \/ \E next \in DOMAIN ValidTransitions : BeginTransition(c, next)
    \/ BeginEditProject(c)
    \/ \E m \in Milestones :
          \/ \E gate \in BOOLEAN : BeginEditMilestone(c, m, gate)
          \/ \E value \in Values \cup {milestones[m].progress},
                status \in ByHand \cup {milestones[m].status} :
                BeginProgress(c, m, value, status)
          \/ BeginRequest(c, m)
    \/ \E u \in Updates : BeginApprove(c, u)

OneStep ==
    \/ \E m \in Milestones :
          \/ \E gate \in BOOLEAN : CreateMilestone(m, gate)
          \/ DeleteMilestone(m) \/ CompleteInspection(m)
    \/ \E u \in Updates :
          \/ \E m \in Milestones \cup {NoMilestone}, value \in Values : CreateUpdate(u, m, value)
          \/ SubmitUpdate(u) \/ RejectUpdate(u) \/ DeleteUpdate(u)

Next == OneStep \/ \E c \in Calls : Loading(c) \/ Saving(c)

Spec == Init /\ [][Next]_vars

-----------------------------------------------------------------------------
(* Properties *)

MilestoneStatus == {"absent", "not_started", "awaiting_inspection"} \cup ByHand
                      \cup {"in_progress", "completed"}

(* Rows keep their types, and percentages their range.                     *)
TypeOK ==
    /\ project.status \in DOMAIN ValidTransitions /\ project.progress \in 0..100
    /\ milestones \in [Milestones -> [status : MilestoneStatus, gate : BOOLEAN,
                                     progress : Values \cup {0, 100}, live : BOOLEAN]]
    /\ inspected \in [Milestones -> {"none", "requested", "completed"}]
    /\ \A u \in Updates : updates[u].milestone \in Milestones \cup {NoMilestone}

(* A gated milestone is completed only when an inspection of it is, however*)
(* calls overlap, die or save what they loaded long ago; except where a    *)
(* manager wrote the status by hand or raised the gate later.              *)
GateHolds ==
    \A m \in Milestones \ waived :
        milestones[m].status = "completed" /\ milestones[m].gate => inspected[m] = "completed"

(* Without overlap, the project's progress is that of its milestones from  *)
(* the moment that an update is approved until one of them is changed in   *)
(* another way.                                                            *)
OverallAgrees == ~outdated => project.progress = Overall(milestones)

(* What a test calls for: test_completed_inspection_required_before_       *)
(* inspection_milestone_completes.                                         *)
MilestoneIsInspected ==
    \A m \in Milestones :
        milestones[m].status = "completed" /\ milestones[m].gate => inspected[m] = "completed"
=============================================================================
