----------------------------- MODULE MCInspection -----------------------------
(* Instances of Inspection and Construction for TLC: a behaviour moves     *)
(* either an inspection request or a construction project, to which an     *)
(* inspection is only a status.                                            *)
EXTENDS Inspection, TLC

CONSTANTS Milestones, Heavy, NoMilestone, Updates, Values, ByHand  \* of Construction

ASSUME SitePartsAssumption ==
    /\ NoMilestone \notin Milestones
    /\ Values \subseteq 0..100
    /\ "absent" \notin ByHand

VARIABLES
    part,                                      \* the part that moves
    project, milestones, inspected, updates,   \* Construction
    work, waived, outdated, overlapped

site == <<project, milestones, inspected, updates, work, waived, outdated, overlapped>>

Site == INSTANCE Construction WITH calls <- work, disturbed <- overlapped

Unused == "unused"

PartsInit ==
    /\ Init
    /\ \/ /\ part = "request"
          /\ project = Unused /\ milestones = Unused /\ inspected = Unused
          /\ updates = Unused /\ work = Unused /\ waived = Unused
          /\ outdated = Unused /\ overlapped = Unused
       \/ part = "site" /\ Site!Init

PartsNext ==
    \/ part = "request" /\ Next /\ UNCHANGED <<part, site>>
    \/ part = "site" /\ Site!Next /\ UNCHANGED <<part, vars>>

PartsSpec == PartsInit /\ [][PartsNext]_<<part, vars, site>>

Symmetry == Permutations(Calls) \cup Permutations(Inspectors \ AdminInspectors)

(* Overlap is explored with one assignment and no report, and more than    *)
(* that without overlap.                                                   *)
BoundedRequest ==
    disturbed => Len(assignments) <= 1 /\ (assignments = <<>> \/ report.status = "absent")

(* A project moves and is edited before it has milestones, which it can get*)
(* when it is completed, too.                                              *)
(* Two milestones are explored without overlap and gates, as they are      *)
(* reported on; overlap with one milestone that is reported complete or not*)
(* at all, since calls that move the project share no row with it; and     *)
(* updates that are not drafts with milestones that were not started.      *)
Used == {m \in Milestones : milestones[m] # Site!NoRow}
Seen == {milestones[m] : m \in Milestones} \cup {work[c].row : c \in Calls}
BoundedSite ==
    /\ Used # {} =>
          /\ project.status \in {"draft", "completed"}
          /\ \A c \in Calls : work[c].step \notin {"transition", "edit_project"}
    /\ \/ Used \subseteq Heavy
       \/ /\ Heavy \subseteq Used /\ project.status = "draft" /\ ~overlapped
          /\ \A m \in Milestones : inspected[m] = "none"
          /\ waived = {}
          /\ \A c \in Calls :
                work[c].step \in {"idle", "progress", "approve", "apply", "commit"}
          /\ \A u \in Updates : updates[u].status # "absent" => updates[u].live
          /\ \A row \in Seen : ~row.gate
    /\ (\E u \in Updates : \/ updates[u].status \in {"submitted", "rejected"}
                           \/ updates[u].status # "absent" /\ ~updates[u].live)
          => \A m \in Used : milestones[m].status = "not_started"
    /\ overlapped /\ Used # {} =>
          /\ waived = {} /\ project.status = "draft"
          /\ \A c \in Calls : work[c].step = "progress" => work[c].row.status = "completed"
          /\ \A u \in Updates : updates[u].live =>
                updates[u].milestone # NoMilestone /\ updates[u].progress # 50
          /\ \A row \in Seen : row.progress # 50 /\ row.status # "skipped"

Bounded == IF part = "request" THEN BoundedRequest ELSE BoundedSite

(* The properties of both parts.                                           *)
PartsTypeOK == IF part = "request" THEN TypeOK ELSE Site!TypeOK

(* A gated milestone is completed only after an inspection, and without    *)
(* overlap an approved update leaves the project with the progress of its  *)
(* milestones: see Construction.                                           *)
SiteAgrees == part = "site" => Site!GateHolds /\ Site!OverallAgrees

(* What a test calls for: see Construction.                                *)
MilestoneIsInspected == part = "site" => Site!MilestoneIsInspected
=============================================================================
