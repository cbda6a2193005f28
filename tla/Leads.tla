------------------------------- MODULE Leads -------------------------------
(***************************************************************************)
(* One user's inquiry about a property, the viewings and rental            *)
(* applications that follow from it, what the owner's people log about it  *)
(* as a lead, and the property assignment that lets one agent be put in    *)
(* charge of it (apps/properties).  Each endpoint loads rows, decides by   *)
(* what it loaded, and saves the columns that it changes.                  *)
(*                                                                         *)
(* A definition marked "fault" is a variant of the one after it with a     *)
(* plausible mistake, to show that a property notices it.                  *)
(***************************************************************************)
EXTENDS Naturals, FiniteSets

CONSTANTS
    Calls,        \* requests that can be in progress at the same time
    Viewings,     \* viewings of the inquiry
    NoViewing,    \* what an application without a viewing links
    Applications, \* applications of the same user
    MaxFollowUps, \* bound on the follow-ups that are logged
    Failures      \* whether the process of a call can die

VARIABLES
    inquiry,      \* Inquiry.status, pipeline_stage, follow_up_count, assigned_to
    viewings,     \* Viewing.status, and whether confirmed_datetime is set
    applications, \* RentalApplication.status, viewing
    followUps,    \* LeadActivity rows that are completed follow-ups
    grant,        \* PropertyAssignment of the agent: status, expires_at passed
    verified,     \* whether the agent has an approved verification
    calls,        \* what each call has loaded and has still to save
    entitled,     \* history: the agent could manage leads
    older,        \* history: calls under way since before what they decided by changed
    disturbed     \* history: two calls overlapped, or one died

vars == <<inquiry, viewings, applications, followUps, grant, verified, calls, entitled,
          older, disturbed>>

rows == <<viewings, applications>>
team == <<grant, verified, entitled>>

ValidStatus ==
    [new |-> {"contacted", "closed"},
     contacted |-> {"viewing_scheduled", "closed"},
     viewing_scheduled |-> {"negotiating", "closed"},
     negotiating |-> {"converted", "closed"},
     converted |-> {},
     closed |-> {}]

ValidStage ==
    [new |-> {"contacted", "qualified", "closed_lost"},
     contacted |-> {"qualified", "closed_lost"},
     qualified |-> {"viewing_scheduled", "closed_lost"},
     viewing_scheduled |-> {"application_started", "negotiating", "closed_lost"},
     application_started |-> {"application_submitted", "closed_lost"},
     application_submitted |-> {"negotiating", "closed_lost"},
     negotiating |-> {"converted", "closed_lost"},
     converted |-> {},
     closed_lost |-> {}]

ValidViewing ==
    [requested |-> {"confirmed", "rescheduled", "cancelled"},
     rescheduled |-> {"confirmed", "cancelled"},
     confirmed |-> {"completed", "cancelled"},
     completed |-> {},
     cancelled |-> {}]

ValidApplication ==
    [submitted |-> {"under_review", "withdrawn"},
     under_review |-> {"approved", "rejected", "withdrawn"},
     approved |-> {},
     rejected |-> {},
     withdrawn |-> {}]

(* transition_to accepts the status that a row already has, and does       *)
(* nothing then.                                                           *)
MayMove(table, from, to) == to \in {from} \cup table[from]

Absent == [status |-> "absent", fixed |-> FALSE]

NoApplication == [status |-> "absent", viewing |-> NoViewing]

Idle == [step |-> "idle", next |-> "none", status |-> "new", row |-> NoViewing, count |-> 0]

Init ==
    /\ inquiry = [status |-> "new", stage |-> "new", count |-> 0, assigned |-> FALSE]
    /\ viewings = [v \in Viewings |-> Absent]
    /\ applications = [a \in Applications |-> NoApplication]
    /\ followUps = 0
    /\ grant = [status |-> "absent", expired |-> FALSE]
    /\ verified \in BOOLEAN
    /\ calls = [c \in Calls |-> Idle]
    /\ entitled = FALSE /\ older = {} /\ disturbed = FALSE

Begin(c, step, next, row) ==
    /\ calls[c] = Idle
    /\ calls' = [calls EXCEPT ![c] = [step |-> step, next |-> next, row |-> row,
                                      status |-> inquiry.status, count |-> inquiry.count]]
    /\ disturbed' = (disturbed \/ \E d \in Calls : calls[d] # Idle)
    /\ UNCHANGED <<inquiry, rows, followUps, team>>

Go(c, from, to) ==
    /\ calls[c].step = from
    /\ calls' = [calls EXCEPT ![c] = IF to = "idle" THEN Idle ELSE [@ EXCEPT !.step = to]]
    /\ UNCHANGED disturbed

-----------------------------------------------------------------------------
(* The inquiry: the owner's status, the lead's stage, and follow-ups.      *)
BeginStatus(c, next) ==
    /\ next \in ValidStatus[inquiry.status]
    /\ Begin(c, "status", next, NoViewing)

UpdateStatus(c) ==
    /\ Go(c, "status", "idle")
    /\ inquiry' = [inquiry EXCEPT !.status = calls[c].next]
    /\ UNCHANGED <<rows, followUps, team>>

BeginStage(c, next) ==
    /\ next \in ValidStage[inquiry.stage]
    /\ Begin(c, "stage", next, NoViewing)

TransitionPipeline(c) ==
    /\ Go(c, "stage", "idle")
    /\ inquiry' = [inquiry EXCEPT !.stage = calls[c].next]
    /\ UNCHANGED <<rows, followUps, team>>

BeginLog(c) == followUps < MaxFollowUps /\ Begin(c, "log", "none", NoViewing)

LogActivity(c) ==
    /\ Go(c, "log", "count")
    /\ followUps < MaxFollowUps
    /\ followUps' = followUps + 1
    /\ UNCHANGED <<inquiry, rows, team>>

CountTwice(c) == inquiry.count + calls[c].count + 1              \* fault
Counted(c) == calls[c].count + 1

CountFollowUp(c) ==
    /\ Go(c, "count", "idle")
    /\ inquiry' = [inquiry EXCEPT !.count = Counted(c)]
    /\ UNCHANGED <<rows, followUps, team>>

-----------------------------------------------------------------------------
(* Viewings.                                                               *)
BeginViewing(c, v) ==
    /\ viewings[v] = Absent /\ inquiry.status # "closed"
    /\ \A d \in Calls : calls[d].row # v
    /\ Begin(c, "view", "none", v)

SaveViewing(c, status) ==
    viewings' = [viewings EXCEPT ![calls[c].row].status = status]

CreateViewing(c) ==
    /\ Go(c, "view", "idle") /\ SaveViewing(c, "requested")
    /\ UNCHANGED <<inquiry, applications, followUps, team>>

(* confirm and reschedule.                                                 *)
BeginDecision(c, v, next) ==
    /\ viewings[v] # Absent /\ MayMove(ValidViewing, viewings[v].status, next)
    /\ Begin(c, "decide", next, v)

ApplyViewingDecision(c) ==
    /\ Go(c, "decide", "details") /\ SaveViewing(c, calls[c].next)
    /\ UNCHANGED <<inquiry, applications, followUps, team>>

(* _mark_inquiry_viewing_scheduled works on the inquiry as it was loaded   *)
(* with the viewing.                                                       *)
MarkAlways(status) == "contact"                                  \* fault
NextMark(status) ==
    CASE status = "new" -> "contact"
      [] status = "contacted" -> "schedule"
      [] OTHER -> "idle"

SaveDetails(c) ==
    /\ Go(c, "details", NextMark(calls[c].status))
    /\ viewings' = [viewings EXCEPT ![calls[c].row].fixed = TRUE]
    /\ UNCHANGED <<inquiry, applications, followUps, team>>

MarkInquiry(c, from, status, to) ==
    /\ Go(c, from, to)
    /\ inquiry' = [inquiry EXCEPT !.status = status]
    /\ UNCHANGED <<rows, followUps, team>>

MarkContacted(c) == MarkInquiry(c, "contact", "contacted", "schedule")
MarkViewingScheduled(c) == MarkInquiry(c, "schedule", "viewing_scheduled", "idle")

(* cancel and complete.                                                    *)
BeginEnding(c, v, next) ==
    /\ viewings[v] # Absent /\ next \in ValidViewing[viewings[v].status]
    /\ Begin(c, "end", next, v)

EndViewing(c) ==
    /\ Go(c, "end", "idle") /\ SaveViewing(c, calls[c].next)
    /\ UNCHANGED <<inquiry, applications, followUps, team>>

-----------------------------------------------------------------------------
(* Applications.  The user has none that is active when the request is     *)
(* checked; no constraint of the database repeats that.                    *)
ActiveApplication == {"submitted", "under_review", "approved"}

ActiveApplications == {a \in Applications : applications[a].status \in ActiveApplication}

MayApplyAgain ==                                                 \* fault
    \A a \in ActiveApplications : applications[a].status = "approved"
MayApply == ActiveApplications = {}

LinkAny(v) == viewings[v] # Absent                               \* fault
MayLink(v) == viewings[v].status \in {"confirmed", "completed"}

BeginApplication(c, v) ==
    /\ MayApply
    /\ v = NoViewing \/ (v \in Viewings /\ MayLink(v))
    /\ Begin(c, "apply", "none", v)

SubmitApplication(c, a) ==
    /\ applications[a] = NoApplication
    /\ Go(c, "apply", "idle")
    /\ applications' = [applications EXCEPT ![a] = [status |-> "submitted",
                                                         viewing |-> calls[c].row]]
    /\ UNCHANGED <<inquiry, viewings, followUps, team>>

BeginReview(c, a, next) ==
    /\ applications[a] # NoApplication /\ next \in ValidApplication[applications[a].status]
    /\ Begin(c, "review", next, a)

TransitionApplication(c) ==
    /\ Go(c, "review", "idle")
    /\ applications' = [applications EXCEPT ![calls[c].row].status = calls[c].next]
    /\ UNCHANGED <<inquiry, viewings, followUps, team>>

-----------------------------------------------------------------------------
(* The agent.  A property manager needs an approved verification as well   *)
(* as an active assignment that has not expired.                           *)
CapableUnverified == grant.status = "active" /\ ~grant.expired   \* fault
Capable == grant.status = "active" /\ ~grant.expired /\ verified

(* Assignments are created pending or active, and edited to either; delete *)
(* revokes one and leaves the row, which an edit can still make active.    *)
GrantAssignment(status) ==
    /\ grant' = [status |-> status, expired |-> FALSE]
    /\ entitled' = (entitled \/ (status = "active" /\ verified))
    /\ UNCHANGED <<inquiry, rows, followUps, verified, calls, disturbed>>

RevokeAssignment ==
    /\ grant.status # "absent"
    /\ grant' = [grant EXCEPT !.status = "revoked"]
    /\ UNCHANGED <<inquiry, rows, followUps, verified, entitled, calls, disturbed>>

ExpireAssignment ==
    /\ grant.status # "absent"
    /\ grant' = [grant EXCEPT !.expired = TRUE]
    /\ UNCHANGED <<inquiry, rows, followUps, verified, entitled, calls, disturbed>>

(* The verification is decided and expires elsewhere: see                  *)
(* ListingVerification.                                                    *)
ChangeVerification ==
    /\ verified' = ~verified
    /\ entitled' = (entitled \/ (grant.status = "active" /\ ~grant.expired /\ ~verified))
    /\ UNCHANGED <<inquiry, rows, followUps, grant, calls, disturbed>>

BeginAssign(c, next) ==
    /\ next = "agent" => Capable
    /\ Begin(c, "assign", next, NoViewing)

AssignLead(c) ==
    /\ Go(c, "assign", "idle")
    /\ inquiry' = [inquiry EXCEPT !.assigned = (calls[c].next = "agent")]
    /\ UNCHANGED <<rows, followUps, team>>

Die(c) ==
    /\ Failures /\ calls[c] # Idle
    /\ calls' = [calls EXCEPT ![c] = Idle]
    /\ disturbed' = TRUE
    /\ UNCHANGED <<inquiry, rows, followUps, team>>

-----------------------------------------------------------------------------
Inquiring(c) ==
    \/ \E next \in DOMAIN ValidStatus : BeginStatus(c, next)
    \/ \E next \in DOMAIN ValidStage : BeginStage(c, next)
    \/ UpdateStatus(c) \/ TransitionPipeline(c)
    \/ BeginLog(c) \/ LogActivity(c) \/ CountFollowUp(c)
    \/ \E next \in {"agent", "nobody"} : BeginAssign(c, next)
    \/ AssignLead(c)

Viewing(c) ==
    \/ \E v \in Viewings :
          \/ BeginViewing(c, v)
          \/ \E next \in {"confirmed", "rescheduled"} : BeginDecision(c, v, next)
          \/ \E next \in {"completed", "cancelled"} : BeginEnding(c, v, next)
    \/ CreateViewing(c)
    \/ ApplyViewingDecision(c) \/ SaveDetails(c)
    \/ MarkContacted(c) \/ MarkViewingScheduled(c)
    \/ EndViewing(c)

Applying(c) ==
    \/ \E v \in Viewings \cup {NoViewing} : BeginApplication(c, v)
    \/ \E a \in Applications :
          \/ SubmitApplication(c, a)
          \/ \E next \in DOMAIN ValidApplication : BeginReview(c, a, next)
    \/ TransitionApplication(c)

Granting ==
    \/ \E status \in {"pending", "active"} : GrantAssignment(status)
    \/ RevokeAssignment \/ ExpireAssignment \/ ChangeVerification

(* History: a call under way gets old when another one changes the status, *)
(* the stage or the row by which it decided.                               *)
Stale(k) ==
    \/ /\ k.step \in {"status", "decide", "details", "contact", "schedule"}
       /\ inquiry'.status # inquiry.status
    \/ k.step = "stage" /\ inquiry'.stage # inquiry.stage
    \/ /\ k.step \in {"view", "decide", "end", "apply"} /\ k.row \in Viewings
       /\ viewings'[k.row].status # viewings[k.row].status
    \/ k.step = "apply" /\ ActiveApplications' # ActiveApplications
    \/ k.step = "review" /\ applications'[k.row].status # applications[k.row].status

Age == older' = {c \in Calls :
                    /\ calls[c] # Idle /\ calls'[c] # Idle
                    /\ c \in older \/ (calls'[c] = calls[c] /\ Stale(calls[c]))}

Next ==
    /\ \/ Granting
       \/ \E c \in Calls : Inquiring(c) \/ Viewing(c) \/ Applying(c) \/ Die(c)
    /\ Age

Spec == Init /\ [][Next]_vars

-----------------------------------------------------------------------------
(* Properties *)

(* Rows keep their types.                                                  *)
TypeOK ==
    /\ inquiry.status \in DOMAIN ValidStatus /\ inquiry.stage \in DOMAIN ValidStage
    /\ \A v \in Viewings : viewings[v].status \in DOMAIN ValidViewing \cup {"absent"}
    /\ \A a \in Applications :
          /\ applications[a].status \in DOMAIN ValidApplication \cup {"absent"}
          /\ applications[a].viewing \in Viewings \cup {NoViewing}

(* Without overlap a user has at most one active application for the       *)
(* property, whatever becomes of the earlier ones.                         *)
OneActiveApplication == ~disturbed => Cardinality(ActiveApplications) <= 1

(* Without overlap, the viewing that an application relies on is not a mere*)
(* request again: it stays confirmed until it takes place or is cancelled. *)
LinkedViewingStands ==
    ~disturbed =>
        \A a \in Applications :
            applications[a].viewing # NoViewing =>
                viewings[applications[a].viewing].status \in
                    {"confirmed", "completed", "cancelled"}

(* However calls overlap or die, no more follow-ups are counted than were  *)
(* logged; and without overlap none is lost.                               *)
FollowUpsAgree ==
    /\ inquiry.count <= followUps
    /\ ~disturbed /\ (\A c \in Calls : calls[c] = Idle) => inquiry.count = followUps

(* However calls overlap, a lead is in the hands only of an agent who at   *)
(* some time could manage the property's leads.                            *)
AssigneeWasEntitled == inquiry.assigned => entitled

(* However calls overlap or die, an inquiry and its stage, viewings and    *)
(* applications move as declared, an application is filed beside no active *)
(* one and relies on a viewing that was confirmed, unless a call saves     *)
(* that was under way when another one changed what it decided by.  So     *)
(* what is closed, converted or lost stays so once such calls have ended,  *)
(* even when a viewing of it is confirmed afterwards.                      *)
MovesFrom(table, before, after) ==
    before \in DOMAIN table => MayMove(table, before, after)

DeclaredUnlessOlder ==
    \/ \E c \in older : calls'[c] # calls[c]
    \/ /\ MovesFrom(ValidStatus, inquiry.status, inquiry'.status)
       /\ MovesFrom(ValidStage, inquiry.stage, inquiry'.stage)
       /\ \A v \in Viewings :
             MovesFrom(ValidViewing, viewings[v].status, viewings'[v].status)
       /\ \A a \in Applications :
             /\ MovesFrom(ValidApplication, applications[a].status, applications'[a].status)
             /\ applications'[a].viewing # applications[a].viewing =>
                   MayLink(applications'[a].viewing)
       /\ ActiveApplications = {} \/ ActiveApplications' \subseteq ActiveApplications

MovesAsDeclared == [][DeclaredUnlessOlder]_vars
=============================================================================
