--------------------------- MODULE InspectionProofs ---------------------------
(***************************************************************************)
(* Inspection requests, for any calls, inspectors and assignments, and     *)
(* construction projects, for any calls, milestones and updates.           *)
(***************************************************************************)
EXTENDS MCInspection, Sums, FiniteSetTheorems, SequenceTheorems, TLAPS

USE InspectionAssumption

Steps == {"idle", "transition", "find", "insert", "mark", "assign",
          "accept", "take", "decline", "edit", "submit", "sign"}

Assignment == [inspector : Inspectors, status : AssignmentStatus]

CallType == [step : Steps,
             status : RequestStatus,
             inspector : Inspectors \cup {Nobody},
             row : Nat,
             saves : Seq(RequestStatus),
             report : ReportStatus]

(* A call that is about to write an assignment knows its row, and one that *)
(* assigns knows whom.                                                     *)
KnowsRow(k, rows) ==
    /\ k.row \in rows \cup {0}
    /\ k.step \in {"mark", "accept", "take", "decline"} => k.row \in rows
    /\ k.step \in {"find", "insert"} => k.inspector \in Inspectors

TInv ==
    /\ request \in [status : RequestStatus, inspector : Inspectors \cup {Nobody}]
    /\ assignments \in Seq(Assignment)
    /\ report \in [status : ReportStatus, deleted : BOOLEAN]
    /\ calls \in [Calls -> CallType]
    /\ \A c \in Calls : KnowsRow(calls[c], Rows)
    /\ filed \in BOOLEAN /\ signed \in BOOLEAN /\ disturbed \in BOOLEAN

LEMMA Statuses ==
    /\ RequestStatus = {"requested", "under_review", "needs_more_information",
                        "approved", "assigned", "scheduled", "in_progress",
                        "report_submitted", "report_under_review", "completed",
                        "cancelled", "rejected", "expired"}
    /\ \A s \in RequestStatus : ValidTransitions[s] \subseteq RequestStatus
<1>1. RequestStatus = {"requested", "under_review", "needs_more_information",
                        "approved", "assigned", "scheduled", "in_progress",
                        "report_submitted", "report_under_review", "completed",
                        "cancelled", "rejected", "expired"}
  BY DEF RequestStatus, ValidTransitions
<1>2. ASSUME NEW s \in RequestStatus
      PROVE  ValidTransitions[s] \subseteq RequestStatus
  <2>1. ValidTransitions["requested"] \subseteq RequestStatus
        /\ ValidTransitions["under_review"] \subseteq RequestStatus
        /\ ValidTransitions["needs_more_information"] \subseteq RequestStatus
        /\ ValidTransitions["approved"] \subseteq RequestStatus
    BY <1>1 DEF ValidTransitions
  <2>2. ValidTransitions["assigned"] \subseteq RequestStatus
        /\ ValidTransitions["scheduled"] \subseteq RequestStatus
        /\ ValidTransitions["in_progress"] \subseteq RequestStatus
        /\ ValidTransitions["report_submitted"] \subseteq RequestStatus
    BY <1>1 DEF ValidTransitions
  <2>3. ValidTransitions["report_under_review"] \subseteq RequestStatus
        /\ ValidTransitions["completed"] \subseteq RequestStatus
        /\ ValidTransitions["cancelled"] \subseteq RequestStatus
        /\ ValidTransitions["rejected"] \subseteq RequestStatus
        /\ ValidTransitions["expired"] \subseteq RequestStatus
    BY <1>1 DEF ValidTransitions
  <2> QED BY <1>1, <2>1, <2>2, <2>3
<1> QED BY <1>1, <1>2

LEMMA Paths ==
    ASSUME NEW s \in RequestStatus
    PROVE  /\ PathToApproved(s) \in Seq(RequestStatus)
           /\ AssignedFrom(s) \in RequestStatus
           /\ Targets(s) \subseteq RequestStatus
<1>1. PathToApproved(s) \in Seq(RequestStatus)
  <2>1. <<"under_review", "approved">> \in Seq(RequestStatus)
        /\ <<"approved">> \in Seq(RequestStatus) /\ <<>> \in Seq(RequestStatus)
    BY Statuses
  <2> QED BY <2>1 DEF PathToApproved
<1>2. AssignedFrom(s) \in RequestStatus
  BY Statuses DEF AssignedFrom
<1>3. Targets(s) \subseteq RequestStatus
  BY Statuses DEF Targets
<1> QED BY <1>1, <1>2, <1>3

LEMMA IdleIsACall ==
    Idle \in CallType /\ Idle.step = "idle" /\ \A rows : KnowsRow(Idle, rows)
<1>1. <<>> \in Seq(RequestStatus)
  OBVIOUS
<1>2. "requested" \in RequestStatus
  BY Statuses
<1> QED BY <1>1, <1>2 DEF Idle, CallType, Steps, ReportStatus, KnowsRow

LEMMA TypeFollows == TInv /\ older \subseteq Calls => TypeOK
<1> SUFFICES ASSUME TInv, older \subseteq Calls PROVE TypeOK
  OBVIOUS
<1>1. ASSUME NEW c \in Calls
      PROVE  calls[c] \in [step : Steps, status : RequestStatus,
                           inspector : Inspectors \cup {Nobody},
                           row : Rows \cup {0},
                           saves : Seq(RequestStatus), report : ReportStatus]
  BY DEF TInv, CallType, KnowsRow
<1> QED BY <1>1 DEF TInv, TypeOK, Assignment, Steps

(* What has to be shown of a step in which one call goes on. *)
LEMMA CallGoesOn ==
    ASSUME TInv, NEW c \in Calls, NEW k,
           calls' = [calls EXCEPT ![c] = k], k \in CallType, KnowsRow(k, Rows'),
           Rows \subseteq Rows'
    PROVE  /\ calls' \in [Calls -> CallType]
           /\ \A d \in Calls : KnowsRow(calls'[d], Rows')
           /\ calls'[c] = k
           /\ \A d \in Calls \ {c} : calls'[d] = calls[d]
BY DEF TInv, KnowsRow

LEMMA TypeInit == Init => TInv
<1> SUFFICES ASSUME Init PROVE TInv
  OBVIOUS
<1>1. /\ calls \in [Calls -> CallType]
      /\ \A c \in Calls : KnowsRow(calls[c], Rows)
  BY IdleIsACall DEF Init
<1>2. request \in [status : RequestStatus, inspector : Inspectors \cup {Nobody}]
  BY Statuses DEF Init
<1>3. assignments \in Seq(Assignment)
  BY DEF Init
<1>4. report \in [status : ReportStatus, deleted : BOOLEAN]
  BY DEF Init, ReportStatus
<1> QED BY <1>1, <1>2, <1>3, <1>4 DEF Init, TInv

LEMMA BeginTypes ==
    ASSUME TInv, NEW c \in Calls, NEW k \in CallType, KnowsRow(k, Rows), Begin(c, k)
    PROVE  TInv'
<1>1. Rows' = Rows /\ KnowsRow(k, Rows')
  BY DEF Begin, Rows, KnowsRow
<1>2. calls' = [calls EXCEPT ![c] = k]
  BY DEF Begin
<1>3. disturbed' \in BOOLEAN
  BY DEF Begin
<1> QED BY <1>1, <1>2, <1>3, CallGoesOn DEF TInv, Begin

LEMMA SaveStatusTypes ==
    ASSUME TInv, NEW c \in Calls, SaveStatus(c)
    PROVE  TInv'
<1>1. /\ calls[c] \in CallType /\ KnowsRow(calls[c], Rows)
      /\ calls[c].saves \in Seq(RequestStatus) /\ calls[c].saves # <<>>
  BY DEF TInv, SaveStatus, CallType
<1>2. /\ Head(calls[c].saves) \in RequestStatus
      /\ Tail(calls[c].saves) \in Seq(RequestStatus)
  BY <1>1
<1> DEFINE s == IF calls[c].step = "assign"
                THEN Head(calls[c].saves) ELSE calls[c].status
           k == [calls[c] EXCEPT !.saves = Tail(calls[c].saves), !.status = s]
<1>3. s \in RequestStatus
  BY <1>1, <1>2 DEF CallType
<1>4. k \in CallType /\ KnowsRow(k, Rows)
  <2> HIDE DEF s
  <2> QED BY <1>1, <1>2, <1>3 DEF CallType, KnowsRow
<1>5. Rows' = Rows /\ KnowsRow(k, Rows') /\ KnowsRow(Idle, Rows')
  <2>1. Rows' = Rows
    BY DEF SaveStatus, Rows
  <2> QED BY <1>4, <2>1, IdleIsACall
<1>6. \/ calls' = [calls EXCEPT ![c] = Idle]
      \/ calls' = [calls EXCEPT ![c] = k]
  BY DEF SaveStatus, End, Go
<1>7. calls' \in [Calls -> CallType] /\ \A d \in Calls : KnowsRow(calls'[d], Rows')
  <2> HIDE DEF k
  <2> QED BY <1>4, <1>5, <1>6, IdleIsACall, CallGoesOn
<1> QED BY <1>2, <1>7 DEF TInv, SaveStatus

(* Answering an assignment, or marking it. *)
LEMMA RowChanges ==
    ASSUME TInv, NEW r \in Rows, NEW s \in AssignmentStatus,
           assignments' = [assignments EXCEPT ![r].status = s]
    PROVE  /\ assignments' \in Seq(Assignment)
           /\ Rows' = Rows
           /\ assignments'[r] = [inspector |-> assignments[r].inspector, status |-> s]
           /\ \A a \in Rows \ {r} : assignments'[a] = assignments[a]
<1>1. assignments \in Seq(Assignment) /\ Rows = 1..Len(assignments)
  BY DEF TInv, Rows
<1>2. assignments[r] \in Assignment
  BY <1>1
<1>3. [assignments[r] EXCEPT !.status = s]
         = [inspector |-> assignments[r].inspector, status |-> s]
  BY <1>2 DEF Assignment
<1>4. [assignments[r] EXCEPT !.status = s] \in Assignment
  BY <1>2 DEF Assignment
<1> DEFINE v == [assignments[r] EXCEPT !.status = s]
<1>5. assignments' = [assignments EXCEPT ![r] = v]
  OBVIOUS
<1>6. assignments' \in Seq(Assignment) /\ Len(assignments') = Len(assignments)
  <2> HIDE DEF v
  <2> QED BY <1>1, <1>4, <1>5
<1> QED BY <1>1, <1>3, <1>5, <1>6 DEF Rows

LEMMA RowAppended ==
    ASSUME TInv, NEW i \in Inspectors,
           assignments' = Append(assignments, [inspector |-> i, status |-> "assigned"])
    PROVE  /\ assignments' \in Seq(Assignment)
           /\ Rows' = Rows \cup {Len(assignments) + 1}
           /\ Len(assignments) + 1 \in Nat \ Rows
           /\ assignments'[Len(assignments) + 1] = [inspector |-> i, status |-> "assigned"]
           /\ \A a \in Rows : assignments'[a] = assignments[a]
<1>1. assignments \in Seq(Assignment) /\ Rows = 1..Len(assignments)
      /\ Len(assignments) \in Nat
  BY DEF TInv, Rows
<1>2. [inspector |-> i, status |-> "assigned"] \in Assignment
  BY DEF Assignment, AssignmentStatus
<1> QED BY <1>1, <1>2 DEF Rows

LEMMA TypeStep == TInv /\ [Next]_vars => TInv'
<1> SUFFICES ASSUME TInv, [Next]_vars PROVE TInv'
  OBVIOUS
<1>1. /\ request \in [status : RequestStatus, inspector : Inspectors \cup {Nobody}]
      /\ request.status \in RequestStatus
      /\ report \in [status : ReportStatus, deleted : BOOLEAN]
      /\ assignments \in Seq(Assignment)
      /\ \A a \in Rows : a \in Nat /\ assignments[a].inspector \in Inspectors
  <2>1. ASSUME NEW a \in Rows
        PROVE  a \in Nat /\ assignments[a] \in Assignment
    BY DEF TInv, Rows
  <2> QED BY <2>1 DEF TInv, Assignment
<1>2. \A c \in Calls : calls[c] \in CallType /\ KnowsRow(calls[c], Rows)
  BY DEF TInv
<1>3. ASSUME NEW c \in Calls, BeginTransition(c) PROVE TInv'
  <2>1. PICK next \in Targets(request.status) :
           Begin(c, [Idle EXCEPT !.step = "transition", !.saves = <<next>>])
    BY <1>3 DEF BeginTransition
  <2> DEFINE k == [Idle EXCEPT !.step = "transition", !.saves = <<next>>]
  <2>2. next \in RequestStatus /\ <<next>> \in Seq(RequestStatus)
    BY <1>1, Paths
  <2>3. k \in CallType /\ KnowsRow(k, Rows)
    BY <2>2, IdleIsACall DEF CallType, KnowsRow, Steps
  <2> QED BY <2>1, <2>3, BeginTypes
<1>4. ASSUME NEW c \in Calls, BeginApprove(c) PROVE TInv'
  <2> DEFINE k == [Idle EXCEPT !.step = "transition",
                               !.saves = PathToApproved(request.status)]
  <2>1. k \in CallType /\ KnowsRow(k, Rows)
    BY <1>1, Paths, IdleIsACall DEF CallType, KnowsRow, Steps
  <2> QED BY <1>4, <2>1, BeginTypes DEF BeginApprove
<1>5. ASSUME NEW c \in Calls, NEW i \in Inspectors, BeginAssign(c, i) PROVE TInv'
  <2> DEFINE k == [Idle EXCEPT !.step = "find", !.inspector = i,
                               !.status = request.status,
                               !.saves = PathToApproved(request.status)]
  <2>1. k \in CallType /\ KnowsRow(k, Rows)
    BY <1>1, Paths, IdleIsACall DEF CallType, KnowsRow, Steps
  <2> QED BY <1>5, <2>1, BeginTypes DEF BeginAssign
<1>6. ASSUME NEW c \in Calls, FindPrevious(c) PROVE TInv'
  <2>1. Rows' = Rows
    BY <1>6 DEF FindPrevious, Rows
  <2>2. ASSUME NEW a \in Rows \cup {0},
               Go(c, [calls[c] EXCEPT !.step = "insert", !.row = a])
        PROVE  TInv'
    <3> DEFINE k == [calls[c] EXCEPT !.step = "insert", !.row = a]
    <3>1. a \in Nat /\ calls[c].inspector \in Inspectors /\ calls[c] \in CallType
      <4>1. a \in Nat
        BY <1>1
      <4>2. calls[c].step = "find"
        BY <1>6 DEF FindPrevious
      <4> QED BY <1>2, <4>1, <4>2 DEF KnowsRow
    <3>2. k \in CallType /\ k.step = "insert" /\ k.row = a
          /\ k.inspector = calls[c].inspector
      BY <3>1 DEF CallType, Steps
    <3>3. KnowsRow(k, Rows)
      BY <3>1, <3>2 DEF KnowsRow
    <3>4. calls' = [calls EXCEPT ![c] = k]
      BY <2>2 DEF Go
    <3> HIDE DEF k
    <3> QED BY <1>6, <2>1, <3>2, <3>3, <3>4, CallGoesOn DEF TInv, FindPrevious
  <2>3. ASSUME Go(c, [calls[c] EXCEPT !.step = "insert"])
        PROVE  TInv'
    <3> DEFINE k == [calls[c] EXCEPT !.step = "insert"]
    <3>1. /\ calls[c] \in CallType /\ KnowsRow(calls[c], Rows)
          /\ calls[c].step = "find"
      BY <1>2, <1>6 DEF FindPrevious
    <3>2. /\ k \in CallType /\ k.step = "insert" /\ k.row = calls[c].row
          /\ k.inspector = calls[c].inspector
      BY <3>1 DEF CallType, Steps
    <3>3. KnowsRow(k, Rows)
      BY <3>1, <3>2 DEF KnowsRow
    <3>4. calls' = [calls EXCEPT ![c] = k]
      BY <2>3 DEF Go
    <3> HIDE DEF k
    <3> QED BY <1>6, <2>1, <3>2, <3>3, <3>4, CallGoesOn DEF TInv, FindPrevious
  <2> QED BY <1>6, <2>2, <2>3 DEF FindPrevious
<1>7. ASSUME NEW c \in Calls, InsertAssignment(c) PROVE TInv'
  <2>1. calls[c].inspector \in Inspectors
    BY <1>2, <1>7 DEF InsertAssignment, KnowsRow
  <2>2. assignments' \in Seq(Assignment) /\ Rows \subseteq Rows'
    BY <1>7, <2>1, RowAppended DEF InsertAssignment
  <2> DEFINE k == [calls[c] EXCEPT !.step =
                      IF calls[c].row = 0 THEN "assign" ELSE "mark"]
  <2>3. k \in CallType /\ KnowsRow(k, Rows')
    BY <1>2, <2>2 DEF CallType, KnowsRow, Steps
  <2>4. calls' = [calls EXCEPT ![c] = k]
    BY <1>7 DEF InsertAssignment, Go
  <2> HIDE DEF k
  <2> QED BY <1>7, <2>2, <2>3, <2>4, CallGoesOn DEF TInv, InsertAssignment
<1>8. ASSUME NEW c \in Calls, MarkPrevious(c) PROVE TInv'
  <2>1. calls[c].row \in Rows /\ "reassigned" \in AssignmentStatus
    BY <1>2, <1>8 DEF MarkPrevious, KnowsRow, AssignmentStatus
  <2>2. assignments' \in Seq(Assignment) /\ Rows' = Rows
    BY <1>8, <2>1, RowChanges DEF MarkPrevious
  <2> DEFINE k == [calls[c] EXCEPT !.step = "assign"]
  <2>3. k \in CallType /\ KnowsRow(k, Rows)
    BY <1>2 DEF CallType, KnowsRow, Steps
  <2>4. calls' = [calls EXCEPT ![c] = k]
    BY <1>8 DEF MarkPrevious, Go
  <2> HIDE DEF k
  <2> QED BY <1>8, <2>2, <2>3, <2>4, CallGoesOn DEF TInv, MarkPrevious
<1>9. ASSUME NEW c \in Calls, SaveAssigned(c) \/ TakeRequest(c) PROVE TInv'
  <2>1. Rows' = Rows /\ calls' = [calls EXCEPT ![c] = Idle]
    BY <1>9 DEF SaveAssigned, TakeRequest, End, Go, Rows
  <2>2. request' = [status |-> AssignedFrom(calls[c].status),
                    inspector |-> calls[c].inspector]
    BY <1>9 DEF SaveAssigned, TakeRequest
  <2>3. calls[c].status \in RequestStatus
        /\ calls[c].inspector \in Inspectors \cup {Nobody}
    BY <1>2 DEF CallType
  <2>4. request' \in [status : RequestStatus, inspector : Inspectors \cup {Nobody}]
    BY <2>2, <2>3, Paths
  <2> QED BY <1>9, <2>1, <2>4, IdleIsACall, CallGoesOn
          DEF TInv, SaveAssigned, TakeRequest
<1>10. ASSUME NEW c \in Calls, NEW a \in Rows, BeginAnswer(c, a) PROVE TInv'
  <2> DEFINE k == [Idle EXCEPT !.step = "accept", !.row = a,
                               !.inspector = assignments[a].inspector,
                               !.status = request.status]
             l == [Idle EXCEPT !.step = "decline", !.row = a]
  <2>1. k \in CallType /\ KnowsRow(k, Rows) /\ l \in CallType /\ KnowsRow(l, Rows)
    BY <1>1, IdleIsACall DEF CallType, KnowsRow, Steps
  <2>2. Begin(c, k) \/ Begin(c, l)
    BY <1>10 DEF BeginAnswer
  <2> HIDE DEF k, l
  <2> QED BY <2>1, <2>2, BeginTypes
<1>11. ASSUME NEW c \in Calls, Accept(c) PROVE TInv'
  <2>1. calls[c].row \in Rows /\ "accepted" \in AssignmentStatus
    BY <1>2, <1>11 DEF Accept, KnowsRow, AssignmentStatus
  <2>2. assignments' \in Seq(Assignment) /\ Rows' = Rows
    BY <1>11, <2>1, RowChanges DEF Accept
  <2> DEFINE k == [calls[c] EXCEPT !.step = "take"]
  <2>3. k \in CallType /\ KnowsRow(k, Rows)
    BY <1>2, <2>1 DEF CallType, KnowsRow, Steps
  <2>4. calls' = [calls EXCEPT ![c] = k]
    BY <1>11 DEF Accept, Go
  <2> HIDE DEF k
  <2> QED BY <1>11, <2>2, <2>3, <2>4, CallGoesOn DEF TInv, Accept
<1>12. ASSUME NEW c \in Calls, Decline(c) PROVE TInv'
  <2>1. calls[c].row \in Rows /\ "declined" \in AssignmentStatus
    BY <1>2, <1>12 DEF Decline, KnowsRow, AssignmentStatus
  <2>2. assignments' \in Seq(Assignment) /\ Rows' = Rows
    BY <1>12, <2>1, RowChanges DEF Decline
  <2>3. calls' = [calls EXCEPT ![c] = Idle]
    BY <1>12 DEF Decline, End, Go
  <2> QED BY <1>12, <2>2, <2>3, IdleIsACall, CallGoesOn DEF TInv, Decline
<1>13. ASSUME CreateReport \/ DeleteReport
              \/ \E next \in {"needs_revision", "rejected"} : SendBack(next)
       PROVE  TInv'
  <2>1. Rows' = Rows
    BY <1>13 DEF CreateReport, DeleteReport, SendBack, Rows
  <2>2. report' \in [status : ReportStatus, deleted : BOOLEAN]
    <3>1. CASE CreateReport
      BY <3>1 DEF CreateReport, ReportStatus
    <3>2. CASE DeleteReport
      BY <1>1, <3>2 DEF DeleteReport
    <3>3. ASSUME NEW next \in {"needs_revision", "rejected"}, SendBack(next)
          PROVE  report' \in [status : ReportStatus, deleted : BOOLEAN]
      BY <1>1, <3>3 DEF SendBack, ReportStatus
    <3> QED BY <1>13, <3>1, <3>2, <3>3
  <2> QED BY <1>13, <2>1, <2>2 DEF TInv, CreateReport, DeleteReport, SendBack
<1>14. ASSUME NEW c \in Calls, BeginEdit(c) PROVE TInv'
  <2> DEFINE k == [Idle EXCEPT !.step = "edit", !.report = report.status]
  <2>1. k \in CallType /\ KnowsRow(k, Rows)
    BY <1>1, IdleIsACall DEF CallType, KnowsRow, Steps
  <2> QED BY <1>14, <2>1, BeginTypes DEF BeginEdit
<1>15. ASSUME NEW c \in Calls, SaveEdit(c) PROVE TInv'
  <2>1. Rows' = Rows /\ calls' = [calls EXCEPT ![c] = Idle]
    BY <1>15 DEF SaveEdit, End, Go, Rows
  <2>2. report' \in [status : ReportStatus, deleted : BOOLEAN]
    BY <1>2, <1>15 DEF SaveEdit, CallType
  <2> QED BY <1>15, <2>1, <2>2, IdleIsACall, CallGoesOn DEF TInv, SaveEdit
<1>16. ASSUME NEW c \in Calls, BeginSubmit(c) \/ BeginApproveReport(c) PROVE TInv'
  <2> DEFINE k == [Idle EXCEPT !.step = "submit", !.status = request.status]
             l == [Idle EXCEPT !.step = "sign", !.status = request.status]
  <2>1. k \in CallType /\ KnowsRow(k, Rows) /\ l \in CallType /\ KnowsRow(l, Rows)
    BY <1>1, IdleIsACall DEF CallType, KnowsRow, Steps
  <2>2. Begin(c, k) \/ Begin(c, l)
    BY <1>16 DEF BeginSubmit, BeginApproveReport
  <2> HIDE DEF k, l
  <2> QED BY <2>1, <2>2, BeginTypes
<1>17. ASSUME NEW c \in Calls, SubmitReport(c) \/ ApproveReport(c) PROVE TInv'
  <2>1. Rows' = Rows
    BY <1>17 DEF SubmitReport, ApproveReport, Rows
  <2>2. report' \in [status : ReportStatus, deleted : BOOLEAN]
        /\ filed' \in BOOLEAN /\ signed' \in BOOLEAN
    BY <1>1, <1>17 DEF SubmitReport, ApproveReport, ReportStatus, TInv
  <2> DEFINE next(s) == [Idle EXCEPT !.step = "transition", !.saves = <<s>>]
  <2>3. ASSUME NEW s \in RequestStatus
        PROVE  next(s) \in CallType /\ KnowsRow(next(s), Rows)
    <3>1. <<s>> \in Seq(RequestStatus)
      OBVIOUS
    <3> QED BY <3>1, IdleIsACall DEF CallType, KnowsRow, Steps
  <2>4. \/ calls' = [calls EXCEPT ![c] = Idle]
        \/ calls' = [calls EXCEPT ![c] = next("report_submitted")]
        \/ calls' = [calls EXCEPT ![c] = next("completed")]
    BY <1>17 DEF SubmitReport, ApproveReport, End, Go
  <2>5. "report_submitted" \in RequestStatus /\ "completed" \in RequestStatus
    BY Statuses
  <2> HIDE DEF next
  <2>6. calls' \in [Calls -> CallType]
        /\ \A d \in Calls : KnowsRow(calls'[d], Rows')
    BY <2>1, <2>3, <2>4, <2>5, IdleIsACall, CallGoesOn
  <2> QED BY <1>17, <2>1, <2>2, <2>6 DEF TInv, SubmitReport, ApproveReport
<1>18. ASSUME NEW c \in Calls, Die(c) PROVE TInv'
  <2>1. Rows' = Rows /\ calls' = [calls EXCEPT ![c] = Idle]
    BY <1>18 DEF Die, End, Go, Rows
  <2> QED BY <1>18, <2>1, IdleIsACall, CallGoesOn DEF TInv, Die
<1>19. CASE UNCHANGED vars
  BY <1>19 DEF TInv, vars, Rows
<1> QED
  BY <1>3, <1>4, <1>5, <1>6, <1>7, <1>8, <1>9, <1>10, <1>11, <1>12, <1>13,
     <1>14, <1>15, <1>16, <1>17, <1>18, <1>19, SaveStatusTypes
     DEF Next, Requests, Assigning, Reporting

(* Requests, assignments, reports and calls keep their types, so that every *)
(* status a call saves is one of the table's and every row it writes exists. *)
THEOREM InspectionTypeCorrect == Spec => []TypeOK
<1>1. Init => older \subseteq Calls
  BY DEF Init
<1>2. older \subseteq Calls /\ [Next]_vars => (older \subseteq Calls)'
  BY DEF Next, Age, vars
<1> QED BY TypeInit, TypeStep, TypeFollows, <1>1, <1>2, PTL DEF Spec

-----------------------------------------------------------------------------
(* Completion.  A status is earned, given whether a report was submitted   *)
(* and whether one was approved; what a call loaded long ago and what it   *)
(* has still to save must be earned too.                                   *)
Earned(s, f, g) ==
    /\ s \in {"report_submitted", "report_under_review", "completed"} => f
    /\ s = "completed" => g

KnowsEarned(k, f, g) ==
    /\ Earned(k.status, f, g)
    /\ \A n \in DOMAIN k.saves : Earned(k.saves[n], f, g)

EInv ==
    /\ Earned(request.status, filed, signed)
    /\ \A c \in Calls : KnowsEarned(calls[c], filed, signed)

LEMMA EarnedOnTheWay ==
    ASSUME NEW s \in RequestStatus, NEW f, NEW g
    PROVE  /\ \A n \in DOMAIN PathToApproved(s) : Earned(PathToApproved(s)[n], f, g)
           /\ \A next \in Targets(s) : Earned(next, f, g)
           /\ Earned(s, f, g) => Earned(AssignedFrom(s), f, g)
           /\ KnowsEarned(Idle, f, g)
<1>1. \A n \in DOMAIN PathToApproved(s) : Earned(PathToApproved(s)[n], f, g)
  BY DEF PathToApproved, Earned
<1>2. \A next \in Targets(s) : Earned(next, f, g)
  BY DEF Targets, Earned
<1>3. Earned(s, f, g) => Earned(AssignedFrom(s), f, g)
  BY DEF AssignedFrom, Earned
<1>4. KnowsEarned(Idle, f, g)
  BY DEF Idle, KnowsEarned, Earned
<1> QED BY <1>1, <1>2, <1>3, <1>4

LEMMA EarnedGoesOn ==
    ASSUME TInv, EInv, NEW c \in Calls, NEW k,
           calls' = [calls EXCEPT ![c] = k],
           KnowsEarned(k, filed', signed'),
           filed => filed', signed => signed'
    PROVE  /\ \A d \in Calls : KnowsEarned(calls'[d], filed', signed')
           /\ Earned(request.status, filed', signed')
<1>1. \A d \in Calls \ {c} : calls'[d] = calls[d]
  BY DEF TInv
<1>2. calls'[c] = k
  BY DEF TInv
<1>3. ASSUME NEW s, Earned(s, filed, signed) PROVE Earned(s, filed', signed')
  BY <1>3 DEF Earned
<1> QED BY <1>1, <1>2, <1>3 DEF EInv, KnowsEarned

LEMMA BeginEarned ==
    ASSUME TInv, EInv, NEW c \in Calls, NEW k, KnowsEarned(k, filed, signed),
           Begin(c, k)
    PROVE  EInv'
<1>1. calls' = [calls EXCEPT ![c] = k] /\ UNCHANGED <<request, filed, signed>>
  BY DEF Begin
<1> QED BY <1>1, EarnedGoesOn DEF EInv

LEMMA EarnedInit == Init => EInv
<1> SUFFICES ASSUME Init PROVE EInv
  OBVIOUS
<1>1. "requested" \in RequestStatus
  BY Statuses
<1>2. \A c \in Calls : KnowsEarned(calls[c], filed, signed)
  BY <1>1, EarnedOnTheWay DEF Init
<1>3. Earned(request.status, filed, signed)
  BY DEF Init, Earned
<1> QED BY <1>2, <1>3 DEF EInv

LEMMA EarnedStep == TInv /\ EInv /\ [Next]_vars => EInv'
<1> SUFFICES ASSUME TInv, EInv, [Next]_vars PROVE EInv'
  OBVIOUS
<1>1. /\ request.status \in RequestStatus
      /\ Earned(request.status, filed, signed)
      /\ \A f, g : KnowsEarned(Idle, f, g)
  BY EarnedOnTheWay DEF TInv, EInv
<1>2. \A c \in Calls : calls[c] \in CallType /\ KnowsEarned(calls[c], filed, signed)
  BY DEF TInv, EInv
<1>3. ASSUME NEW c \in Calls, BeginTransition(c) PROVE EInv'
  <2>1. PICK next \in Targets(request.status) :
           Begin(c, [Idle EXCEPT !.step = "transition", !.saves = <<next>>])
    BY <1>3 DEF BeginTransition
  <2> DEFINE k == [Idle EXCEPT !.step = "transition", !.saves = <<next>>]
  <2>2. Earned(next, filed, signed)
    BY <1>1, <2>1, EarnedOnTheWay
  <2>3. k.status = Idle.status /\ k.saves = <<next>>
    BY IdleIsACall DEF CallType
  <2>4. KnowsEarned(k, filed, signed)
    BY <1>1, <2>2, <2>3 DEF KnowsEarned
  <2> QED BY <2>1, <2>4, BeginEarned
<1>4. ASSUME NEW c \in Calls,
             BeginApprove(c) \/ \E i \in Inspectors : BeginAssign(c, i)
      PROVE  EInv'
  <2> DEFINE path == PathToApproved(request.status)
             k == [Idle EXCEPT !.step = "transition", !.saves = path]
             l(i) == [Idle EXCEPT !.step = "find", !.inspector = i,
                                  !.status = request.status, !.saves = path]
  <2>1. \A n \in DOMAIN path : Earned(path[n], filed, signed)
    BY <1>1, EarnedOnTheWay
  <2>2. /\ k.status = Idle.status /\ k.saves = path
        /\ \A i : l(i).status = request.status /\ l(i).saves = path
    BY IdleIsACall DEF CallType
  <2>3. Begin(c, k) \/ \E i \in Inspectors : Begin(c, l(i))
    BY <1>4 DEF BeginApprove, BeginAssign
  <2> HIDE DEF k, l, path
  <2>4. KnowsEarned(k, filed, signed) /\ \A i : KnowsEarned(l(i), filed, signed)
    BY <1>1, <2>1, <2>2 DEF KnowsEarned
  <2> QED BY <2>3, <2>4, BeginEarned
<1>5. ASSUME NEW c \in Calls, SaveStatus(c) PROVE EInv'
  <2> DEFINE saves == calls[c].saves
             s == IF calls[c].step = "assign" THEN Head(saves) ELSE calls[c].status
             k == [calls[c] EXCEPT !.saves = Tail(saves), !.status = s]
  <2>1. saves \in Seq(RequestStatus) /\ saves # <<>>
    BY <1>2, <1>5 DEF SaveStatus, CallType
  <2>2. /\ Head(saves) = saves[1] /\ 1 \in DOMAIN saves
        /\ \A n \in DOMAIN Tail(saves) :
               n + 1 \in DOMAIN saves /\ Tail(saves)[n] = saves[n + 1]
    BY <2>1
  <2>3. Earned(Head(saves), filed, signed)
    BY <1>2, <2>2 DEF KnowsEarned
  <2>4. k.saves = Tail(saves) /\ k.status = s
    BY <1>2 DEF CallType
  <2>5. request'.status = Head(saves) /\ UNCHANGED <<filed, signed>>
    BY <1>5 DEF SaveStatus, TInv
  <2>6. \/ calls' = [calls EXCEPT ![c] = Idle]
        \/ calls' = [calls EXCEPT ![c] = k]
    BY <1>5 DEF SaveStatus, End, Go
  <2>7. KnowsEarned(k, filed, signed)
    <3> HIDE DEF k, saves
    <3>1. Earned(s, filed, signed)
      BY <1>2, <2>3 DEF KnowsEarned
    <3>2. \A n \in DOMAIN Tail(saves) : Earned(Tail(saves)[n], filed, signed)
      BY <1>2, <2>2 DEF KnowsEarned, saves
    <3> QED BY <2>4, <3>1, <3>2 DEF KnowsEarned
  <2> HIDE DEF k, saves
  <2>8. \A d \in Calls : KnowsEarned(calls'[d], filed', signed')
    BY <1>1, <2>5, <2>6, <2>7, EarnedGoesOn
  <2> QED BY <2>3, <2>5, <2>8 DEF EInv
<1>6. ASSUME NEW c \in Calls,
             \/ FindPrevious(c) \/ InsertAssignment(c) \/ MarkPrevious(c)
             \/ Accept(c)
      PROVE  EInv'
  <2>1. PICK k : /\ calls' = [calls EXCEPT ![c] = k]
                 /\ k.status = calls[c].status /\ k.saves = calls[c].saves
    <3> DEFINE at(st) == [calls[c] EXCEPT !.step = st]
               found(a) == [calls[c] EXCEPT !.step = "insert", !.row = a]
    <3>1. /\ \A st : at(st).status = calls[c].status /\ at(st).saves = calls[c].saves
          /\ \A a : found(a).status = calls[c].status /\ found(a).saves = calls[c].saves
      BY <1>2 DEF CallType
    <3>2. \/ \E st : calls' = [calls EXCEPT ![c] = at(st)]
          \/ \E a : calls' = [calls EXCEPT ![c] = found(a)]
      <4>1. CASE FindPrevious(c)
        BY <4>1 DEF FindPrevious, Go
      <4>2. CASE InsertAssignment(c)
        BY <4>2 DEF InsertAssignment, Go
      <4>3. CASE MarkPrevious(c) \/ Accept(c)
        BY <4>3 DEF MarkPrevious, Accept, Go
      <4> QED BY <1>6, <4>1, <4>2, <4>3
    <3> HIDE DEF at, found
    <3> QED BY <3>1, <3>2
  <2>2. UNCHANGED <<request, filed, signed>>
    BY <1>6 DEF FindPrevious, InsertAssignment, MarkPrevious, Accept
  <2>3. KnowsEarned(k, filed, signed)
    BY <1>2, <2>1 DEF KnowsEarned
  <2> QED BY <2>1, <2>2, <2>3, EarnedGoesOn DEF EInv
<1>7. ASSUME NEW c \in Calls, SaveAssigned(c) \/ TakeRequest(c) PROVE EInv'
  <2>1. /\ calls' = [calls EXCEPT ![c] = Idle] /\ UNCHANGED <<filed, signed>>
        /\ request'.status = AssignedFrom(calls[c].status)
    BY <1>7 DEF SaveAssigned, TakeRequest, End, Go
  <2>2. Earned(AssignedFrom(calls[c].status), filed, signed)
    BY <1>2, EarnedOnTheWay DEF CallType, KnowsEarned
  <2>3. \A d \in Calls : KnowsEarned(calls'[d], filed', signed')
    BY <1>1, <2>1, EarnedGoesOn
  <2> QED BY <2>1, <2>2, <2>3 DEF EInv
<1>8. ASSUME NEW c \in Calls, Decline(c) \/ SaveEdit(c) \/ Die(c) PROVE EInv'
  <2>1. calls' = [calls EXCEPT ![c] = Idle] /\ UNCHANGED <<request, filed, signed>>
    BY <1>8 DEF Decline, SaveEdit, Die, End, Go
  <2> QED BY <1>1, <2>1, EarnedGoesOn DEF EInv
<1>9. ASSUME CreateReport \/ DeleteReport
             \/ (\E next \in {"needs_revision", "rejected"} : SendBack(next))
             \/ UNCHANGED vars
      PROVE  EInv'
  BY <1>9 DEF CreateReport, DeleteReport, SendBack, EInv, vars
<1>10. ASSUME NEW c \in Calls,
              \/ \E a \in Rows : BeginAnswer(c, a)
              \/ BeginEdit(c) \/ BeginSubmit(c) \/ BeginApproveReport(c)
       PROVE  EInv'
  <2>1. PICK k : /\ Begin(c, k) /\ k.saves = <<>>
                 /\ k.status \in {Idle.status, request.status}
    <3> DEFINE answer(st, a, i) == [Idle EXCEPT !.step = st, !.row = a, !.inspector = i,
                                                !.status = request.status]
               decline(a) == [Idle EXCEPT !.step = "decline", !.row = a]
               edit == [Idle EXCEPT !.step = "edit", !.report = report.status]
               write(st) == [Idle EXCEPT !.step = st, !.status = request.status]
    <3>1. Idle.saves = <<>> /\ Idle \in CallType
      BY IdleIsACall DEF Idle
    <3>2. /\ \A st, a, i : /\ answer(st, a, i).saves = <<>>
                           /\ answer(st, a, i).status = request.status
          /\ \A a : decline(a).saves = <<>> /\ decline(a).status = Idle.status
          /\ edit.saves = <<>> /\ edit.status = Idle.status
          /\ \A st : write(st).saves = <<>> /\ write(st).status = request.status
      BY <3>1 DEF CallType
    <3>3. \/ \E st, a, i : Begin(c, answer(st, a, i))
          \/ \E a : Begin(c, decline(a))
          \/ Begin(c, edit)
          \/ \E st : Begin(c, write(st))
      <4>1. ASSUME NEW a \in Rows, BeginAnswer(c, a)
            PROVE  (\E st, b, i : Begin(c, answer(st, b, i)))
                     \/ \E b : Begin(c, decline(b))
        BY <4>1 DEF BeginAnswer
      <4>2. CASE BeginEdit(c)
        BY <4>2 DEF BeginEdit
      <4>3. CASE BeginSubmit(c) \/ BeginApproveReport(c)
        BY <4>3 DEF BeginSubmit, BeginApproveReport
      <4> QED BY <1>10, <4>1, <4>2, <4>3
    <3> HIDE DEF answer, decline, edit, write
    <3> QED BY <3>2, <3>3
  <2>2. KnowsEarned(k, filed, signed)
    BY <1>1, <2>1 DEF KnowsEarned
  <2> QED BY <2>1, <2>2, BeginEarned
<1>11. ASSUME NEW c \in Calls, SubmitReport(c) \/ ApproveReport(c) PROVE EInv'
  <2> DEFINE next(s) == [Idle EXCEPT !.step = "transition", !.saves = <<s>>]
  <2>1. \A s : next(s).status = Idle.status /\ next(s).saves = <<s>>
    BY IdleIsACall DEF CallType
  <2>2. request' = request /\ (filed => filed') /\ (signed => signed')
    BY <1>11 DEF SubmitReport, ApproveReport
  <2>3. PICK k : /\ calls' = [calls EXCEPT ![c] = k]
                 /\ \/ k = Idle
                    \/ k = next("report_submitted") /\ filed'
                    \/ k = next("completed") /\ filed' /\ signed'
    <3>1. ApproveReport(c)
             /\ calls[c].status \in {"report_submitted", "report_under_review"}
             => filed' /\ signed'
      BY <1>2 DEF ApproveReport, KnowsEarned, Earned
    <3> QED BY <1>11, <3>1 DEF SubmitReport, ApproveReport, End, Go
  <2> HIDE DEF next
  <2>4. KnowsEarned(k, filed', signed')
    BY <1>1, <2>1, <2>3 DEF KnowsEarned, Earned
  <2> QED BY <2>2, <2>3, <2>4, EarnedGoesOn DEF EInv
<1> QED
  BY <1>3, <1>4, <1>5, <1>6, <1>7, <1>8, <1>9, <1>10, <1>11
     DEF Next, Requests, Assigning, Reporting

(* Whatever calls overlap, however many, and wherever they die, a request  *)
(* shows a submitted report or completion only after the report was        *)
(* submitted, and completion only after one was approved.                  *)
THEOREM CompletionEarned == Spec => []CompletionIsEarned
<1>1. EInv => CompletionIsEarned
  BY DEF EInv, Earned, CompletionIsEarned
<1>2. TInv /\ EInv /\ [Next]_vars => (TInv /\ EInv)'
  BY TypeStep, EarnedStep
<1> QED BY TypeInit, EarnedInit, <1>1, <1>2, PTL DEF Spec

-----------------------------------------------------------------------------
(* Calls and the status.  As long as nobody else changes it, what a call   *)
(* loaded is still what is stored, and each status it will save may follow *)
(* the one before.  If nothing was disturbed one call at most is under way. *)
Chain(s, saves) ==
    /\ saves # <<>> => saves[1] \in ValidTransitions[s]
    /\ \A n \in DOMAIN saves :
          n + 1 \in DOMAIN saves => saves[n + 1] \in ValidTransitions[saves[n]]

Loaded == {"find", "insert", "mark", "assign", "accept", "take", "submit", "sign"}

KnowsStatus(k, s) ==
    /\ k.step \in Loaded => k.status = s
    /\ k.step \in Loaded \cup {"transition"} => Chain(s, k.saves)

AtMostOne == \A c, d \in Calls : c = d \/ calls[c] = Idle \/ calls[d] = Idle

SInv == /\ ~disturbed => AtMostOne
        /\ \A c \in Calls \ older : KnowsStatus(calls[c], request.status)

LEMMA ChainStarts ==
    ASSUME NEW s \in RequestStatus
    PROVE  /\ Chain(s, <<>>)
           /\ Chain(s, PathToApproved(s))
           /\ \A next \in Targets(s) : Chain(s, <<next>>)
           /\ s = "in_progress" => Chain(s, <<"report_submitted">>)
           /\ s \in {"report_submitted", "report_under_review"}
                 => Chain(s, <<"completed">>)
<1>1. \A next : Chain(s, <<next>>) <=> next \in ValidTransitions[s]
  BY DEF Chain
<1>2. /\ "completed" \in ValidTransitions["report_submitted"]
      /\ "completed" \in ValidTransitions["report_under_review"]
      /\ "report_submitted" \in ValidTransitions["in_progress"]
  BY DEF ValidTransitions
<1>3. /\ "under_review" \in ValidTransitions["requested"]
      /\ "approved" \in ValidTransitions["under_review"]
      /\ "under_review" \in ValidTransitions["needs_more_information"]
  BY DEF ValidTransitions
<1>4. Targets(s) \subseteq ValidTransitions[s]
  BY <1>3 DEF Targets
<1>5. Chain(s, <<>>)
  BY DEF Chain
<1>6. s = "requested" => Chain(s, <<"under_review", "approved">>)
  BY <1>3 DEF Chain
<1>7. Chain(s, PathToApproved(s))
  BY <1>1, <1>3, <1>5, <1>6 DEF PathToApproved
<1> QED BY <1>1, <1>2, <1>4, <1>5, <1>7

LEMMA IdleKnows == \A s : KnowsStatus(Idle, s)
BY IdleIsACall DEF KnowsStatus, Loaded

(* What has to be shown of a step in which one call goes on. *)
LEMMA GoesOn ==
    ASSUME TInv, SInv, Age, NEW c \in Calls, NEW k,
           calls[c] # Idle, calls' = [calls EXCEPT ![c] = k],
           disturbed => disturbed',
           c \notin older => KnowsStatus(k, request'.status)
    PROVE  SInv'
<1>1. calls'[c] = k /\ \A d \in Calls \ {c} : calls'[d] = calls[d]
  BY DEF TInv
<1>2. ASSUME ~disturbed' PROVE AtMostOne'
  <2>1. \A d \in Calls \ {c} : calls[d] = Idle
    BY <1>2 DEF SInv, AtMostOne
  <2> QED BY <1>1, <2>1 DEF AtMostOne
<1>3. ASSUME NEW d \in Calls \ older' PROVE KnowsStatus(calls'[d], request'.status)
  <2>1. CASE calls'[d] = Idle
    BY <2>1, IdleKnows
  <2>2. CASE d = c /\ calls'[d] # Idle
    <3>1. c \notin older
      BY <1>3, <2>2 DEF Age
    <3> QED BY <1>1, <2>2, <3>1
  <2>3. CASE d # c /\ calls'[d] # Idle
    <3>1. d \notin older /\ request'.status = request.status
      BY <1>1, <1>3, <2>3 DEF Age
    <3> QED BY <1>1, <2>3, <3>1 DEF SInv
  <2> QED BY <2>1, <2>2, <2>3
<1> QED BY <1>2, <1>3 DEF SInv

LEMMA BeginAlone ==
    ASSUME TInv, SInv, Age, NEW c \in Calls, NEW k, Begin(c, k),
           KnowsStatus(k, request.status)
    PROVE  SInv'
<1>1. /\ calls'[c] = k /\ \A d \in Calls \ {c} : calls'[d] = calls[d]
      /\ request' = request
  BY DEF TInv, Begin
<1>2. ASSUME ~disturbed' PROVE AtMostOne'
  BY <1>1, <1>2 DEF Begin, AtMostOne
<1>3. ASSUME NEW d \in Calls \ older' PROVE KnowsStatus(calls'[d], request'.status)
  <2>1. calls'[d] # Idle /\ d # c => d \notin older
    BY <1>1, <1>3 DEF Age
  <2> QED BY <1>1, <2>1, IdleKnows DEF SInv
<1> QED BY <1>2, <1>3 DEF SInv

LEMMA AloneInit == Init => SInv
BY IdleKnows DEF Init, SInv, AtMostOne

(* The calls that begin: what they load is what is stored. *)
LEMMA BeginsAlone ==
    ASSUME TInv, SInv, Age, NEW c \in Calls,
           \/ BeginTransition(c) \/ BeginApprove(c)
           \/ \E i \in Inspectors : BeginAssign(c, i)
           \/ \E a \in Rows : BeginAnswer(c, a)
           \/ BeginEdit(c) \/ BeginSubmit(c) \/ BeginApproveReport(c)
    PROVE  SInv' /\ request' = request
<1> DEFINE s == request.status
           path == PathToApproved(s)
           move(saves) == [Idle EXCEPT !.step = "transition", !.saves = saves]
           assign(i) == [Idle EXCEPT !.step = "find", !.inspector = i,
                                     !.status = s, !.saves = path]
           accept(a) == [Idle EXCEPT !.step = "accept", !.row = a,
                                     !.inspector = assignments[a].inspector,
                                     !.status = s]
           decline(a) == [Idle EXCEPT !.step = "decline", !.row = a]
           edit == [Idle EXCEPT !.step = "edit", !.report = report.status]
           write(st) == [Idle EXCEPT !.step = st, !.status = s]
<1>1. s \in RequestStatus
  BY DEF TInv
<1>2. Chain(s, <<>>) /\ Chain(s, path) /\ \A next \in Targets(s) : Chain(s, <<next>>)
  BY <1>1, ChainStarts
<1>3. Idle \in CallType /\ Idle.saves = <<>>
  BY IdleIsACall DEF Idle
<1>4. /\ \A saves : move(saves).step = "transition" /\ move(saves).saves = saves
      /\ \A i : /\ assign(i).step = "find" /\ assign(i).status = s
               /\ assign(i).saves = path
      /\ \A a : /\ accept(a).step = "accept" /\ accept(a).status = s
               /\ accept(a).saves = <<>>
      /\ \A a : decline(a).step = "decline"
      /\ edit.step = "edit"
      /\ \A st : /\ write(st).step = st /\ write(st).status = s
                /\ write(st).saves = <<>>
  BY <1>3 DEF CallType
<1>5. \/ \E next \in Targets(s) : Begin(c, move(<<next>>))
      \/ Begin(c, move(path))
      \/ \E i : Begin(c, assign(i))
      \/ \E a : Begin(c, accept(a)) \/ Begin(c, decline(a))
      \/ Begin(c, edit)
      \/ \E st \in {"submit", "sign"} : Begin(c, write(st))
  <2>1. ASSUME BeginTransition(c) PROVE \E next \in Targets(s) : Begin(c, move(<<next>>))
    BY <2>1 DEF BeginTransition
  <2>2. ASSUME BeginApprove(c) PROVE Begin(c, move(path))
    BY <2>2 DEF BeginApprove
  <2>3. ASSUME NEW i \in Inspectors, BeginAssign(c, i) PROVE Begin(c, assign(i))
    BY <2>3 DEF BeginAssign
  <2>4. ASSUME NEW a \in Rows, BeginAnswer(c, a)
        PROVE  Begin(c, accept(a)) \/ Begin(c, decline(a))
    BY <2>4 DEF BeginAnswer
  <2>5. ASSUME BeginEdit(c) PROVE Begin(c, edit)
    BY <2>5 DEF BeginEdit
  <2>6. ASSUME BeginSubmit(c) \/ BeginApproveReport(c)
        PROVE  \E st \in {"submit", "sign"} : Begin(c, write(st))
    BY <2>6 DEF BeginSubmit, BeginApproveReport
  <2> HIDE DEF s, path, move, assign, accept, decline, edit, write
  <2> QED BY <2>1, <2>2, <2>3, <2>4, <2>5, <2>6
<1> HIDE DEF path, move, assign, accept, decline, edit, write
<1>6. /\ \A next \in Targets(s) : KnowsStatus(move(<<next>>), s)
      /\ KnowsStatus(move(path), s)
      /\ \A i : KnowsStatus(assign(i), s)
      /\ \A a : KnowsStatus(accept(a), s)
      /\ \A a : KnowsStatus(decline(a), s)
      /\ KnowsStatus(edit, s)
      /\ \A st \in {"submit", "sign"} : KnowsStatus(write(st), s)
  BY <1>2, <1>4 DEF KnowsStatus, Loaded
<1>7. PICK k : Begin(c, k) /\ KnowsStatus(k, s)
  BY <1>5, <1>6
<1> QED BY <1>7, BeginAlone DEF Begin

LEMMA SavesAlone ==
    ASSUME TInv, SInv, Age, NEW c \in Calls, SaveStatus(c)
    PROVE  /\ SInv'
           /\ c \notin older => request'.status \in ValidTransitions[request.status]
           /\ request'.inspector = request.inspector
<1> DEFINE saves == calls[c].saves
           s == IF calls[c].step = "assign" THEN Head(saves) ELSE calls[c].status
           k == [calls[c] EXCEPT !.saves = Tail(saves), !.status = s]
<1>1. /\ calls[c] \in CallType
      /\ saves \in Seq(RequestStatus) /\ saves # <<>>
      /\ calls[c].step \in {"transition", "assign"}
  BY DEF TInv, SaveStatus, CallType
<1>2. /\ Head(saves) = saves[1] /\ 1 \in DOMAIN saves
      /\ \A n \in DOMAIN Tail(saves) :
             /\ n \in Nat
             /\ n + 1 \in DOMAIN saves /\ Tail(saves)[n] = saves[n + 1]
      /\ Tail(saves) # <<>> => 1 \in DOMAIN Tail(saves)
  BY <1>1
<1>3. k.step = calls[c].step /\ k.saves = Tail(saves) /\ k.status = s
  BY <1>1 DEF CallType
<1>4. /\ request'.status = Head(saves) /\ request'.inspector = request.inspector
      /\ disturbed' = disturbed
  BY DEF SaveStatus, TInv
<1>5. \/ calls' = [calls EXCEPT ![c] = Idle]
      \/ calls' = [calls EXCEPT ![c] = k]
  BY DEF SaveStatus, End, Go
<1> HIDE DEF saves, k
<1>6. ASSUME c \notin older
      PROVE  Chain(request.status, saves)
  <2>1. KnowsStatus(calls[c], request.status)
    BY <1>6 DEF SInv
  <2>2. calls[c].step \in Loaded \cup {"transition"}
    BY <1>1 DEF Loaded
  <2> QED BY <2>1, <2>2 DEF KnowsStatus, saves
<1>7. ASSUME c \notin older
      PROVE  Head(saves) \in ValidTransitions[request.status]
  BY <1>1, <1>2, <1>6, <1>7 DEF Chain
<1>8. ASSUME c \notin older
      PROVE  Chain(Head(saves), Tail(saves))
  <2>1. Tail(saves) # <<>> => Tail(saves)[1] \in ValidTransitions[Head(saves)]
    BY <1>2, <1>6, <1>8 DEF Chain
  <2>2. ASSUME NEW n \in DOMAIN Tail(saves), n + 1 \in DOMAIN Tail(saves)
        PROVE  Tail(saves)[n + 1] \in ValidTransitions[Tail(saves)[n]]
    BY <1>2, <1>6, <1>8, <2>2 DEF Chain
  <2> QED BY <2>1, <2>2 DEF Chain
<1>9. ASSUME c \notin older PROVE KnowsStatus(k, request'.status)
  BY <1>1, <1>3, <1>4, <1>8, <1>9 DEF KnowsStatus, Loaded
<1>10. calls[c] # Idle
  BY <1>1, IdleIsACall
<1> QED BY <1>4, <1>5, <1>7, <1>9, <1>10, IdleKnows, GoesOn

(* The other steps of a call that keep its status or end it. *)
LEMMA OtherStepsAlone ==
    ASSUME TInv, SInv, Age, NEW c \in Calls,
           \/ FindPrevious(c) \/ InsertAssignment(c) \/ MarkPrevious(c) \/ Accept(c)
           \/ SaveAssigned(c) \/ TakeRequest(c)
           \/ Decline(c) \/ SaveEdit(c) \/ Die(c)
           \/ SubmitReport(c) \/ ApproveReport(c)
    PROVE  /\ SInv'
           /\ c \notin older =>
                 request'.status \in {request.status, AssignedFrom(request.status)}
<1>1. calls[c] \in CallType /\ request.status \in RequestStatus
  BY DEF TInv
<1>2. ASSUME c \notin older PROVE KnowsStatus(calls[c], request.status)
  BY <1>2 DEF SInv
<1>3. ASSUME Die(c) PROVE SInv' /\ request' = request
  <2>1. /\ calls' = [calls EXCEPT ![c] = Idle] /\ calls[c] # Idle
        /\ request' = request /\ (disturbed => disturbed')
    BY <1>3 DEF Die, End, Go
  <2> QED BY <2>1, IdleKnows, GoesOn
<1>4. ASSUME FindPrevious(c) \/ InsertAssignment(c) \/ MarkPrevious(c) \/ Accept(c)
      PROVE  SInv' /\ request' = request
  <2> DEFINE at(st) == [calls[c] EXCEPT !.step = st]
             found(a) == [calls[c] EXCEPT !.step = "insert", !.row = a]
  <2>1. /\ \A st : /\ at(st).step = st /\ at(st).status = calls[c].status
                  /\ at(st).saves = calls[c].saves
        /\ \A a : /\ found(a).step = "insert" /\ found(a).status = calls[c].status
                 /\ found(a).saves = calls[c].saves
    BY <1>1 DEF CallType
  <2>2. \/ \E st \in Loaded : calls' = [calls EXCEPT ![c] = at(st)]
        \/ \E a : calls' = [calls EXCEPT ![c] = found(a)]
    <3>1. CASE FindPrevious(c)
      BY <3>1 DEF FindPrevious, Go, Loaded
    <3>2. CASE InsertAssignment(c)
      BY <3>2 DEF InsertAssignment, Go, Loaded
    <3>3. CASE MarkPrevious(c) \/ Accept(c)
      BY <3>3 DEF MarkPrevious, Accept, Go, Loaded
    <3> QED BY <1>4, <3>1, <3>2, <3>3
  <2>3. /\ calls[c].step \in Loaded /\ calls[c] # Idle
        /\ request' = request /\ disturbed' = disturbed
    BY <1>4, IdleIsACall
       DEF FindPrevious, InsertAssignment, MarkPrevious, Accept, Loaded
  <2> HIDE DEF at, found
  <2>4. PICK k : /\ calls' = [calls EXCEPT ![c] = k] /\ k.step \in Loaded
                 /\ k.status = calls[c].status /\ k.saves = calls[c].saves
    BY <2>1, <2>2 DEF Loaded
  <2>5. ASSUME c \notin older PROVE KnowsStatus(k, request.status)
    BY <1>2, <2>3, <2>4, <2>5 DEF KnowsStatus
  <2> QED BY <2>3, <2>4, <2>5, GoesOn
<1>5. ASSUME SaveAssigned(c) \/ TakeRequest(c) \/ Decline(c) \/ SaveEdit(c)
      PROVE  /\ SInv'
             /\ c \notin older =>
                   request'.status \in {request.status, AssignedFrom(request.status)}
  <2>1. /\ calls' = [calls EXCEPT ![c] = Idle] /\ calls[c] # Idle
        /\ disturbed' = disturbed
    BY <1>5, IdleIsACall DEF SaveAssigned, TakeRequest, Decline, SaveEdit, End, Go
  <2>2. SInv'
    BY <2>1, IdleKnows, GoesOn
  <2>3. ASSUME SaveAssigned(c) \/ TakeRequest(c), c \notin older
        PROVE  request'.status = AssignedFrom(request.status)
    <3>1. calls[c].status = request.status
      BY <1>2, <2>3 DEF SaveAssigned, TakeRequest, KnowsStatus, Loaded
    <3> QED BY <2>3, <3>1 DEF SaveAssigned, TakeRequest
  <2> QED BY <1>5, <2>2, <2>3 DEF Decline, SaveEdit
<1>6. ASSUME SubmitReport(c) \/ ApproveReport(c)
      PROVE  SInv' /\ request' = request
  <2> DEFINE next(s) == [Idle EXCEPT !.step = "transition", !.saves = <<s>>]
  <2>1. \A s : next(s).step = "transition" /\ next(s).saves = <<s>>
    BY IdleIsACall DEF CallType
  <2>2. /\ calls[c].step \in Loaded /\ calls[c] # Idle
        /\ request' = request /\ disturbed' = disturbed
    BY <1>6, IdleIsACall DEF SubmitReport, ApproveReport, Loaded
  <2>3. PICK k : /\ calls' = [calls EXCEPT ![c] = k]
                 /\ \/ k = Idle
                    \/ /\ k = next("report_submitted")
                       /\ calls[c].status = "in_progress"
                    \/ /\ k = next("completed")
                       /\ calls[c].status \in {"report_submitted", "report_under_review"}
    BY <1>6 DEF SubmitReport, ApproveReport, End, Go
  <2> HIDE DEF next
  <2>4. ASSUME c \notin older PROVE KnowsStatus(k, request.status)
    <3>1. calls[c].status = request.status
      BY <1>2, <2>2, <2>4 DEF KnowsStatus
    <3> QED BY <1>1, <2>1, <2>3, <3>1, IdleKnows, ChainStarts DEF KnowsStatus, Loaded
  <2> QED BY <2>2, <2>3, <2>4, GoesOn
<1> QED BY <1>3, <1>4, <1>5, <1>6 DEF SaveAssigned, TakeRequest, Decline, SaveEdit

LEMMA AloneStep ==
    TInv /\ SInv /\ [Next]_vars =>
        /\ SInv'
        /\ \/ request'.status \in ValidTransitions[request.status]
                                    \cup {request.status, AssignedFrom(request.status)}
           \/ \E c \in older : calls'[c] # calls[c]
<1> DEFINE Moves == request'.status \in ValidTransitions[request.status]
                             \cup {request.status, AssignedFrom(request.status)}
           ByOlder == \E c \in older : calls'[c] # calls[c]
<1> SUFFICES ASSUME TInv, SInv, [Next]_vars
             PROVE  SInv' /\ (Moves \/ ByOlder)
  OBVIOUS
<1>1. ASSUME UNCHANGED vars PROVE SInv' /\ Moves
  BY <1>1 DEF vars, SInv, AtMostOne
<1>2. ASSUME Age, CreateReport \/ DeleteReport
             \/ (\E next \in {"needs_revision", "rejected"} : SendBack(next))
      PROVE  SInv' /\ Moves
  <2>1. UNCHANGED <<request, calls, disturbed>>
    BY <1>2 DEF CreateReport, DeleteReport, SendBack
  <2>2. ASSUME NEW d \in Calls \ older' PROVE KnowsStatus(calls[d], request.status)
    <3>1. calls[d] = Idle \/ d \notin older
      BY <1>2, <2>1, <2>2 DEF Age
    <3> QED BY <3>1, IdleKnows DEF SInv
  <2> QED BY <2>1, <2>2 DEF SInv, AtMostOne
<1>3. ASSUME Age, NEW c \in Calls, SaveStatus(c)
      PROVE  SInv' /\ (Moves \/ ByOlder)
  <2>1. calls'[c] # calls[c]
    <3>1. calls[c] \in CallType
      BY DEF TInv
    <3>2. calls[c].saves \in Seq(RequestStatus) /\ calls[c].saves # <<>>
      BY <1>3, <3>1 DEF SaveStatus, CallType
    <3>3. Tail(calls[c].saves) # calls[c].saves
      <4>1. Len(calls[c].saves) \in Nat /\ Len(calls[c].saves) # 0
        BY <3>2
      <4>2. Len(Tail(calls[c].saves)) = Len(calls[c].saves) - 1
        BY <3>2, HeadTailProperties
      <4>3. Len(Tail(calls[c].saves)) # Len(calls[c].saves)
        BY <4>1, <4>2
      <4> QED BY <4>3
    <3>4. CASE calls' = [calls EXCEPT ![c] = Idle]
      BY <1>3, <3>4, IdleIsACall DEF SaveStatus, TInv
    <3>5. CASE \E st : calls' = [calls EXCEPT ![c] =
                          [calls[c] EXCEPT !.saves = Tail(calls[c].saves), !.status = st]]
      <4>1. PICK st : calls' = [calls EXCEPT ![c] =
                          [calls[c] EXCEPT !.saves = Tail(calls[c].saves), !.status = st]]
        BY <3>5
      <4>2. calls'[c].saves = Tail(calls[c].saves)
        BY <3>1, <4>1 DEF TInv, CallType
      <4> QED BY <3>3, <4>2
    <3> QED BY <1>3, <3>4, <3>5 DEF SaveStatus, End, Go
  <2> QED BY <1>3, <2>1, SavesAlone
<1>4. ASSUME Age, NEW c \in Calls,
             \/ FindPrevious(c) \/ InsertAssignment(c) \/ MarkPrevious(c) \/ Accept(c)
             \/ SaveAssigned(c) \/ TakeRequest(c)
             \/ Decline(c) \/ SaveEdit(c) \/ Die(c)
             \/ SubmitReport(c) \/ ApproveReport(c)
      PROVE  SInv' /\ (Moves \/ ByOlder)
  <2>1. request' = request \/ calls'[c] # calls[c]
    <3>1. SaveAssigned(c) \/ TakeRequest(c) => calls'[c] # calls[c]
      BY IdleIsACall DEF SaveAssigned, TakeRequest, End, Go, TInv
    <3> QED BY <1>4, <3>1
        DEF FindPrevious, InsertAssignment, MarkPrevious, Accept, Decline, SaveEdit, Die,
            SubmitReport, ApproveReport
  <2> QED BY <1>4, <2>1, OtherStepsAlone
<1> QED
  BY <1>1, <1>2, <1>3, <1>4, BeginsAlone
     DEF Next, Requests, Assigning, Reporting

(* For any calls and inspectors, whatever overlaps or dies: a status that  *)
(* the transitions do not allow is saved by a call alone that was under    *)
(* way when another one changed the status.                                *)
THEOREM StatusMoves == Spec => StatusMovesAsDeclared
<1> DEFINE Step == \/ request'.status \in {request.status} \cup ValidTransitions[request.status]
                   \/ \E c \in older : calls'[c] # calls[c]
<1>1. TInv /\ SInv /\ [Next]_vars => [Step]_vars
  <2>1. AssignedFrom(request.status) \in {request.status} \cup ValidTransitions[request.status]
    BY DEF AssignedFrom
  <2> QED BY <2>1, AloneStep
<1>2. TInv /\ SInv /\ [Next]_vars => (TInv /\ SInv)'
  BY TypeStep, AloneStep
<1> HIDE DEF Step
<1>3. Spec => [][Step]_vars
  BY TypeInit, AloneInit, <1>1, <1>2, PTL DEF Spec
<1> QED BY <1>3 DEF StatusMovesAsDeclared, Step

-----------------------------------------------------------------------------
(* One inspector.  While assign is between its saves two assignments may   *)
(* be active, or the active one may not be the request's; the call knows.  *)
Only(asg, S) == \A b \in DOMAIN asg : asg[b].status \in Active => b \in S

Agrees(asg, i) ==
    \A a \in DOMAIN asg :
        asg[a].status \in Active => i = asg[a].inspector /\ Only(asg, {a})

KnowsInspector(k, asg, i) ==
    /\ k.step \notin {"mark", "assign"} => Agrees(asg, i)
    /\ k.step = "insert" => Only(asg, {k.row})
    /\ k.step \in {"accept", "take"} =>
          asg[k.row].status \in Active /\ asg[k.row].inspector = k.inspector
    /\ k.step = "mark" =>
          \E last \in DOMAIN asg :
              /\ last # k.row /\ asg[last].inspector = k.inspector
              /\ Only(asg, {k.row, last})
    /\ k.step = "assign" =>
          \E last \in DOMAIN asg :
              asg[last].inspector = k.inspector /\ Only(asg, {last})

NoAdmins == \A a \in Rows : assignments[a].inspector \notin AdminInspectors

KnownBy(k) == KnowsInspector(k, assignments, request.inspector)

OInv ==
    ~disturbed /\ NoAdmins =>
        /\ Quiet => Agrees(assignments, request.inspector)
        /\ \A c \in Calls : calls[c] # Idle => KnownBy(calls[c])

LEMMA InspectorInit == Init => OInv
BY DEF Init, OInv, Agrees, Quiet

LEMMA IdleAgrees == \A asg, i : KnowsInspector(Idle, asg, i) <=> Agrees(asg, i)
BY IdleIsACall DEF KnowsInspector

LEMMA InspectorFollows ==
    ASSUME TInv, NEW c \in Calls, NEW k,
           calls'[c] = k, \A d \in Calls \ {c} : calls'[d] = Idle,
           KnowsInspector(k, assignments', request'.inspector)
    PROVE  OInv'
<1>1. ASSUME \A d \in Calls : calls'[d] = Idle
      PROVE  Agrees(assignments', request'.inspector)
  BY <1>1, IdleAgrees
<1> QED BY <1>1 DEF OInv, Quiet, KnownBy

(* A step of one call: what it knows before has to yield what it knows     *)
(* after.                                                                  *)
LEMMA InspectorGoesOn ==
    ASSUME TInv, SInv, OInv, NEW c \in Calls, NEW k,
           calls[c] # Idle, calls' = [calls EXCEPT ![c] = k],
           disturbed => disturbed', SInv',
           \A a \in Rows : a \in Rows' /\ assignments'[a].inspector = assignments[a].inspector,
           NoAdmins /\ KnownBy(calls[c])
             => KnowsInspector(k, assignments', request'.inspector)
    PROVE  OInv'
<1> SUFFICES ASSUME ~disturbed', NoAdmins' PROVE OInv'
  BY DEF OInv
<1>1. calls'[c] = k /\ \A d \in Calls \ {c} : calls'[d] = calls[d]
  BY DEF TInv
<1>2. \A d \in Calls \ {c} : calls[d] = Idle
  BY DEF SInv, AtMostOne
<1>3. NoAdmins
  BY DEF NoAdmins
<1>4. KnownBy(calls[c])
  BY <1>3 DEF OInv
<1> QED BY <1>1, <1>2, <1>3, <1>4, InspectorFollows

LEMMA InspectorBegins ==
    ASSUME TInv, OInv, NEW c \in Calls, NEW k, Begin(c, k),
           NoAdmins /\ Agrees(assignments, request.inspector) => KnownBy(k)
    PROVE  OInv'
<1> SUFFICES ASSUME ~disturbed', NoAdmins' PROVE OInv'
  BY DEF OInv
<1>1. /\ calls'[c] = k /\ \A d \in Calls \ {c} : calls'[d] = calls[d]
      /\ UNCHANGED <<assignments, request>>
  BY DEF Begin, TInv
<1>2. ~disturbed /\ Quiet
  BY DEF Begin, Quiet
<1>3. NoAdmins
  BY <1>1 DEF NoAdmins, Rows
<1>4. KnowsInspector(k, assignments', request'.inspector)
  BY <1>1, <1>2, <1>3 DEF OInv, KnownBy
<1> QED BY <1>1, <1>2, <1>4, InspectorFollows DEF Quiet

LEMMA InspectorBeginsAll ==
    ASSUME TInv, OInv, NEW c \in Calls,
           \/ BeginTransition(c) \/ BeginApprove(c)
           \/ \E i \in Inspectors : BeginAssign(c, i)
           \/ \E a \in Rows : BeginAnswer(c, a)
           \/ BeginEdit(c) \/ BeginSubmit(c) \/ BeginApproveReport(c)
    PROVE  OInv'
<1> DEFINE s == request.status
           path == PathToApproved(s)
           move(saves) == [Idle EXCEPT !.step = "transition", !.saves = saves]
           assign(i) == [Idle EXCEPT !.step = "find", !.inspector = i,
                                     !.status = s, !.saves = path]
           accept(a) == [Idle EXCEPT !.step = "accept", !.row = a,
                                     !.inspector = assignments[a].inspector,
                                     !.status = s]
           decline(a) == [Idle EXCEPT !.step = "decline", !.row = a]
           edit == [Idle EXCEPT !.step = "edit", !.report = report.status]
           write(st) == [Idle EXCEPT !.step = st, !.status = s]
           Plain == {"transition", "find", "decline", "edit", "submit", "sign"}
<1>1. Idle \in CallType
  BY IdleIsACall
<1>2. /\ \A saves : move(saves).step \in Plain
      /\ \A i : assign(i).step \in Plain
      /\ \A a : decline(a).step \in Plain
      /\ edit.step \in Plain
      /\ \A st \in {"submit", "sign"} : write(st).step \in Plain
      /\ \A a : /\ accept(a).step = "accept" /\ accept(a).row = a
               /\ accept(a).inspector = assignments[a].inspector
  BY <1>1 DEF CallType
<1>3. \/ \E saves : Begin(c, move(saves))
      \/ \E i : Begin(c, assign(i))
      \/ \E a : Begin(c, decline(a))
      \/ Begin(c, edit)
      \/ \E st \in {"submit", "sign"} : Begin(c, write(st))
      \/ \E a \in Rows : Finds(a) /\ Begin(c, accept(a))
  <2>1. ASSUME BeginTransition(c) \/ BeginApprove(c)
        PROVE  \E saves : Begin(c, move(saves))
    BY <2>1 DEF BeginTransition, BeginApprove
  <2>2. ASSUME NEW i \in Inspectors, BeginAssign(c, i) PROVE Begin(c, assign(i))
    BY <2>2 DEF BeginAssign
  <2>3. ASSUME NEW a \in Rows, BeginAnswer(c, a)
        PROVE  (Finds(a) /\ Begin(c, accept(a))) \/ Begin(c, decline(a))
    BY <2>3 DEF BeginAnswer
  <2>4. ASSUME BeginEdit(c) PROVE Begin(c, edit)
    BY <2>4 DEF BeginEdit
  <2>5. ASSUME BeginSubmit(c) \/ BeginApproveReport(c)
        PROVE  \E st \in {"submit", "sign"} : Begin(c, write(st))
    BY <2>5 DEF BeginSubmit, BeginApproveReport
  <2> HIDE DEF s, path, move, assign, accept, decline, edit, write
  <2> QED BY <2>1, <2>2, <2>3, <2>4, <2>5
<1> HIDE DEF s, path, move, assign, accept, decline, edit, write
<1>4. ASSUME NEW k, k.step \in Plain, Agrees(assignments, request.inspector)
      PROVE  KnownBy(k)
  BY <1>4 DEF KnownBy, KnowsInspector
<1>5. ASSUME NEW a \in Rows, Finds(a), NoAdmins,
             Agrees(assignments, request.inspector)
      PROVE  KnownBy(accept(a))
  BY <1>2, <1>5 DEF KnownBy, KnowsInspector, Finds, NoAdmins, IsActive
<1>6. PICK k : /\ Begin(c, k)
               /\ NoAdmins /\ Agrees(assignments, request.inspector) => KnownBy(k)
  <2> HIDE DEF Plain
  <2> QED BY <1>2, <1>3, <1>4, <1>5
<1> QED BY <1>6, InspectorBegins

LEMMA StatusChanges ==
    ASSUME TInv, NEW r \in Rows, NEW s \in AssignmentStatus,
           assignments' = [assignments EXCEPT ![r].status = s]
    PROVE  /\ Rows' = Rows
           /\ assignments'[r].status = s
           /\ \A a \in Rows : assignments'[a].inspector = assignments[a].inspector
           /\ \A a \in Rows \ {r} : assignments'[a] = assignments[a]
<1> DEFINE new == [inspector |-> assignments[r].inspector, status |-> s]
<1>1. new.status = s /\ new.inspector = assignments[r].inspector
  OBVIOUS
<1>2. /\ Rows' = Rows /\ assignments'[r] = new
      /\ \A a \in Rows \ {r} : assignments'[a] = assignments[a]
  BY RowChanges
<1> HIDE DEF new
<1> QED BY <1>1, <1>2

LEMMA InspectorStatus ==
    ASSUME TInv, SInv, OInv, SInv', NEW c \in Calls, SaveStatus(c)
    PROVE  OInv'
<1> DEFINE saves == calls[c].saves
           s == IF calls[c].step = "assign" THEN Head(saves) ELSE calls[c].status
           k == [calls[c] EXCEPT !.saves = Tail(saves), !.status = s]
<1>1. /\ calls[c] \in CallType
      /\ calls[c].step \in {"transition", "assign"}
      /\ UNCHANGED <<assignments, disturbed>>
      /\ request'.inspector = request.inspector
  BY SavesAlone DEF TInv, SaveStatus
<1>2. /\ k.step = calls[c].step /\ k.row = calls[c].row
      /\ k.inspector = calls[c].inspector
  BY <1>1 DEF CallType
<1>3. \/ calls' = [calls EXCEPT ![c] = Idle] /\ calls[c].step = "transition"
      \/ calls' = [calls EXCEPT ![c] = k]
  BY DEF SaveStatus, End, Go
<1>4. calls[c] # Idle
  BY <1>1, IdleIsACall
<1>5. /\ KnownBy(calls[c]) => KnowsInspector(k, assignments', request'.inspector)
      /\ KnownBy(calls[c]) /\ calls[c].step = "transition"
            => KnowsInspector(Idle, assignments', request'.inspector)
  <2> HIDE DEF k
  <2> QED BY <1>1, <1>2, IdleIsACall DEF KnownBy, KnowsInspector
<1>6. \A a \in Rows : a \in Rows' /\ assignments'[a].inspector = assignments[a].inspector
  BY <1>1 DEF Rows
<1> HIDE DEF k
<1>7. CASE calls' = [calls EXCEPT ![c] = Idle] /\ calls[c].step = "transition"
  BY <1>1, <1>4, <1>5, <1>6, <1>7, InspectorGoesOn
<1>8. CASE calls' = [calls EXCEPT ![c] = k]
  BY <1>1, <1>4, <1>5, <1>6, <1>8, InspectorGoesOn
<1> QED BY <1>3, <1>7, <1>8

LEMMA InspectorAssigns ==
    ASSUME TInv, SInv, OInv, SInv', NEW c \in Calls,
           FindPrevious(c) \/ InsertAssignment(c) \/ MarkPrevious(c) \/ SaveAssigned(c)
    PROVE  OInv'
<1>1. calls[c] \in CallType /\ KnowsRow(calls[c], Rows)
  BY DEF TInv
<1>2. ASSUME NEW st
      PROVE  LET k == [calls[c] EXCEPT !.step = st]
             IN  /\ k.step = st /\ k.row = calls[c].row
                 /\ k.inspector = calls[c].inspector
  BY <1>1 DEF CallType
<1>3. ASSUME FindPrevious(c) PROVE OInv'
  <2>1. /\ calls[c].step = "find"
        /\ UNCHANGED <<request, assignments, disturbed>>
    BY <1>3 DEF FindPrevious
  <2>2. calls[c] # Idle
    BY <2>1, IdleIsACall
  <2>3. \A a \in Rows : a \in Rows' /\ assignments'[a].inspector = assignments[a].inspector
    BY <2>1 DEF Rows
  <2>4. ASSUME NEW a \in Rows, IsActive(a),
               Go(c, [calls[c] EXCEPT !.step = "insert", !.row = a])
        PROVE  OInv'
    <3> DEFINE k == [calls[c] EXCEPT !.step = "insert", !.row = a]
    <3>1. k.step = "insert" /\ k.row = a
      BY <1>1 DEF CallType
    <3>2. calls' = [calls EXCEPT ![c] = k]
      BY <2>4 DEF Go
    <3> HIDE DEF k
    <3>3. KnownBy(calls[c]) => KnowsInspector(k, assignments', request'.inspector)
      BY <2>1, <2>4, <3>1 DEF KnownBy, KnowsInspector, Agrees, IsActive, Rows
    <3> QED BY <2>1, <2>2, <2>3, <3>2, <3>3, InspectorGoesOn
  <2>5. ASSUME \A a \in Rows : ~IsActive(a),
               Go(c, [calls[c] EXCEPT !.step = "insert"])
        PROVE  OInv'
    <3> DEFINE k == [calls[c] EXCEPT !.step = "insert"]
    <3>1. k.step = "insert"
      BY <1>2
    <3>2. calls' = [calls EXCEPT ![c] = k]
      BY <2>5 DEF Go
    <3> HIDE DEF k
    <3>3. KnownBy(calls[c]) => KnowsInspector(k, assignments', request'.inspector)
      BY <2>1, <2>5, <3>1 DEF KnownBy, KnowsInspector, Only, IsActive, Rows
    <3> QED BY <2>1, <2>2, <2>3, <3>2, <3>3, InspectorGoesOn
  <2> QED BY <1>3, <2>4, <2>5 DEF FindPrevious
<1>4. ASSUME InsertAssignment(c) PROVE OInv'
  <2> DEFINE st == IF calls[c].row = 0 THEN "assign" ELSE "mark"
             k == [calls[c] EXCEPT !.step = st]
             last == Len(assignments) + 1
  <2>1. /\ calls[c].step = "insert"
        /\ UNCHANGED <<request, disturbed>>
        /\ calls' = [calls EXCEPT ![c] = k]
    BY <1>4 DEF InsertAssignment, Go
  <2>2. calls[c] # Idle /\ calls[c].inspector \in Inspectors
    BY <1>1, <2>1, IdleIsACall DEF KnowsRow
  <2>3. /\ Rows' = Rows \cup {last} /\ last \notin Rows
        /\ assignments'[last].inspector = calls[c].inspector
        /\ \A a \in Rows : assignments'[a] = assignments[a]
    <3> DEFINE new == [inspector |-> calls[c].inspector, status |-> "assigned"]
    <3>1. new.inspector = calls[c].inspector
      OBVIOUS
    <3>2. assignments' = Append(assignments, new)
      BY <1>4 DEF InsertAssignment
    <3>3. /\ Rows' = Rows \cup {last} /\ last \notin Rows
          /\ assignments'[last] = new
          /\ \A a \in Rows : assignments'[a] = assignments[a]
      BY <2>2, <3>2, RowAppended
    <3> HIDE DEF new, last
    <3> QED BY <3>1, <3>3
  <2>4. k.step = st /\ k.row = calls[c].row /\ k.inspector = calls[c].inspector
    BY <1>2
  <2>5. calls[c].row \in Rows \cup {0} /\ 0 \notin Rows
    BY <1>1 DEF KnowsRow, Rows, TInv
  <2> HIDE DEF k, last
  <2>6. ASSUME KnownBy(calls[c])
        PROVE  KnowsInspector(k, assignments', request'.inspector)
    <3>1. Only(assignments, {calls[c].row})
      BY <2>1, <2>6 DEF KnownBy, KnowsInspector
    <3>2. Only(assignments', {calls[c].row, last})
      BY <2>3, <3>1 DEF Only, Rows
    <3>3. calls[c].row = 0 => Only(assignments', {last})
      BY <2>3, <2>5, <3>2 DEF Only, Rows
    <3>4. calls[c].row # 0 => last # calls[c].row
      BY <2>3, <2>5
    <3>5. last \in DOMAIN assignments'
      BY <2>3 DEF Rows
    <3> QED BY <2>3, <2>4, <3>2, <3>3, <3>4, <3>5 DEF KnowsInspector
  <2> QED BY <2>1, <2>2, <2>3, <2>6, InspectorGoesOn
<1>5. ASSUME MarkPrevious(c) PROVE OInv'
  <2> DEFINE k == [calls[c] EXCEPT !.step = "assign"]
             r == calls[c].row
  <2>1. /\ calls[c].step = "mark"
        /\ UNCHANGED <<request, disturbed>>
        /\ calls' = [calls EXCEPT ![c] = k]
        /\ assignments' = [assignments EXCEPT ![r].status = "reassigned"]
    BY <1>5 DEF MarkPrevious, Go
  <2>2. calls[c] # Idle /\ r \in Rows /\ "reassigned" \in AssignmentStatus
    BY <1>1, <2>1, IdleIsACall DEF KnowsRow, AssignmentStatus
  <2>3. /\ Rows' = Rows /\ assignments'[r].status = "reassigned"
        /\ \A a \in Rows : assignments'[a].inspector = assignments[a].inspector
        /\ \A a \in Rows \ {r} : assignments'[a] = assignments[a]
    BY <2>1, <2>2, StatusChanges
  <2>4. k.step = "assign" /\ k.inspector = calls[c].inspector
    BY <1>2
  <2> HIDE DEF k, r
  <2>5. ASSUME KnownBy(calls[c])
        PROVE  KnowsInspector(k, assignments', request'.inspector)
    <3>1. PICK last \in Rows : /\ last # r
                              /\ assignments[last].inspector = calls[c].inspector
                              /\ Only(assignments, {r, last})
      BY <2>1, <2>5 DEF KnownBy, KnowsInspector, Rows, r
    <3>2. Only(assignments', {last})
      BY <2>3, <3>1 DEF Only, Rows, Active
    <3> QED BY <2>3, <2>4, <3>1, <3>2 DEF KnowsInspector, Rows
  <2> QED BY <2>1, <2>2, <2>3, <2>5, InspectorGoesOn
<1>6. ASSUME SaveAssigned(c) PROVE OInv'
  <2>1. /\ calls[c].step = "assign"
        /\ UNCHANGED <<assignments, disturbed>>
        /\ calls' = [calls EXCEPT ![c] = Idle]
        /\ request'.inspector = calls[c].inspector
    BY <1>6 DEF SaveAssigned, End, Go
  <2>2. KnownBy(calls[c]) => KnowsInspector(Idle, assignments', request'.inspector)
    <3>1. KnownBy(calls[c]) => Agrees(assignments', request'.inspector)
      BY <2>1 DEF KnownBy, KnowsInspector, Agrees, Only
    <3> QED BY <3>1, IdleAgrees
  <2>3. calls[c] # Idle
    BY <2>1, IdleIsACall
  <2>4. \A a \in Rows : a \in Rows' /\ assignments'[a].inspector = assignments[a].inspector
    BY <2>1 DEF Rows
  <2> QED BY <2>1, <2>2, <2>3, <2>4, InspectorGoesOn
<1> QED BY <1>3, <1>4, <1>5, <1>6

LEMMA InspectorAnswers ==
    ASSUME TInv, SInv, OInv, SInv', NEW c \in Calls,
           Accept(c) \/ TakeRequest(c) \/ Decline(c)
    PROVE  OInv'
<1> DEFINE r == calls[c].row
<1>1. calls[c] \in CallType /\ KnowsRow(calls[c], Rows)
  BY DEF TInv
<1>2. calls[c].step \in {"accept", "take", "decline"}
  BY DEF Accept, TakeRequest, Decline
<1>3. calls[c] # Idle /\ r \in Rows
  BY <1>1, <1>2, IdleIsACall DEF KnowsRow
<1>4. ASSUME Accept(c) PROVE OInv'
  <2> DEFINE k == [calls[c] EXCEPT !.step = "take"]
  <2>1. /\ calls[c].step = "accept"
        /\ UNCHANGED <<request, disturbed>>
        /\ calls' = [calls EXCEPT ![c] = k]
        /\ assignments' = [assignments EXCEPT ![r].status = "accepted"]
        /\ "accepted" \in AssignmentStatus /\ "accepted" \in Active
    BY <1>4 DEF Accept, Go, AssignmentStatus, Active
  <2>2. /\ Rows' = Rows /\ assignments'[r].status = "accepted"
        /\ \A a \in Rows : assignments'[a].inspector = assignments[a].inspector
        /\ \A a \in Rows \ {r} : assignments'[a] = assignments[a]
    BY <1>3, <2>1, StatusChanges
  <2>3. k.step = "take" /\ k.inspector = calls[c].inspector /\ k.row = r
    BY <1>1 DEF CallType
  <2> HIDE DEF k, r
  <2>4. ASSUME KnownBy(calls[c])
        PROVE  KnowsInspector(k, assignments', request'.inspector)
    <3>1. /\ assignments[r].status \in Active
          /\ assignments[r].inspector = calls[c].inspector
          /\ Agrees(assignments, request.inspector)
      BY <2>1, <2>4 DEF KnownBy, KnowsInspector, r
    <3>2. \A a \in Rows : assignments'[a].status \in Active
                             <=> assignments[a].status \in Active
      BY <1>3, <2>1, <2>2, <3>1
    <3>3. Agrees(assignments', request'.inspector)
      BY <2>1, <2>2, <3>1, <3>2 DEF Agrees, Only, Rows
    <3> QED BY <1>3, <2>1, <2>2, <2>3, <3>1, <3>3 DEF KnowsInspector
  <2> QED BY <1>3, <2>1, <2>2, <2>4, InspectorGoesOn
<1>5. ASSUME TakeRequest(c) PROVE OInv'
  <2>1. /\ calls[c].step = "take"
        /\ UNCHANGED <<assignments, disturbed>>
        /\ calls' = [calls EXCEPT ![c] = Idle]
        /\ request'.inspector = calls[c].inspector
    BY <1>5 DEF TakeRequest, End, Go
  <2>2. KnownBy(calls[c]) => KnowsInspector(Idle, assignments', request'.inspector)
    <3>1. KnownBy(calls[c]) => Agrees(assignments', request'.inspector)
      BY <1>3, <2>1 DEF KnownBy, KnowsInspector, Agrees, Only, Rows
    <3> QED BY <3>1, IdleAgrees
  <2>3. \A a \in Rows : a \in Rows' /\ assignments'[a].inspector = assignments[a].inspector
    BY <2>1 DEF Rows
  <2> QED BY <1>3, <2>1, <2>2, <2>3, InspectorGoesOn
<1>6. ASSUME Decline(c) PROVE OInv'
  <2>1. /\ calls[c].step = "decline"
        /\ UNCHANGED <<request, disturbed>>
        /\ calls' = [calls EXCEPT ![c] = Idle]
        /\ assignments' = [assignments EXCEPT ![r].status = "declined"]
        /\ "declined" \in AssignmentStatus /\ "declined" \notin Active
    BY <1>6 DEF Decline, End, Go, AssignmentStatus, Active
  <2>2. /\ Rows' = Rows /\ assignments'[r].status = "declined"
        /\ \A a \in Rows : assignments'[a].inspector = assignments[a].inspector
        /\ \A a \in Rows \ {r} : assignments'[a] = assignments[a]
    BY <1>3, <2>1, StatusChanges
  <2> HIDE DEF r
  <2>3. ASSUME KnownBy(calls[c]) PROVE Agrees(assignments', request'.inspector)
    <3>1. Agrees(assignments, request.inspector)
      BY <2>1, <2>3 DEF KnownBy, KnowsInspector
    <3>2. \A a \in Rows : assignments'[a].status \in Active
                             => assignments[a].status \in Active
      BY <1>3, <2>1, <2>2
    <3> QED BY <2>1, <2>2, <3>1, <3>2 DEF Agrees, Only, Rows
  <2> QED BY <1>3, <2>1, <2>2, <2>3, IdleAgrees, InspectorGoesOn
<1> QED BY <1>4, <1>5, <1>6

LEMMA InspectorReports ==
    ASSUME TInv, SInv, OInv, SInv', NEW c \in Calls,
           SaveEdit(c) \/ SubmitReport(c) \/ ApproveReport(c)
    PROVE  OInv'
<1> DEFINE move(next) == [Idle EXCEPT !.step = "transition", !.saves = <<next>>]
<1>1. \A next : move(next).step = "transition"
  BY IdleIsACall DEF CallType
<1>2. PICK k : /\ calls' = [calls EXCEPT ![c] = k]
               /\ k = Idle \/ k.step = "transition"
  BY <1>1 DEF SaveEdit, SubmitReport, ApproveReport, End, Go
<1>3. /\ calls[c].step \in {"edit", "submit", "sign"}
      /\ UNCHANGED <<request, assignments, disturbed>>
  BY DEF SaveEdit, SubmitReport, ApproveReport
<1>4. calls[c] # Idle
  BY <1>3, IdleIsACall
<1>5. KnownBy(calls[c]) => KnowsInspector(k, assignments', request'.inspector)
  BY <1>2, <1>3, IdleAgrees DEF KnownBy, KnowsInspector
<1>6. \A a \in Rows : a \in Rows' /\ assignments'[a].inspector = assignments[a].inspector
  BY <1>3 DEF Rows
<1> QED BY <1>2, <1>3, <1>4, <1>5, <1>6, InspectorGoesOn

LEMMA InspectorStep == TInv /\ SInv /\ OInv /\ [Next]_vars => OInv'
<1> SUFFICES ASSUME TInv, SInv, OInv, [Next]_vars PROVE OInv'
  OBVIOUS
<1>1. SInv'
  BY AloneStep
<1>2. ASSUME CreateReport \/ DeleteReport
             \/ (\E next \in {"needs_revision", "rejected"} : SendBack(next))
             \/ UNCHANGED vars
      PROVE  OInv'
  <2>1. UNCHANGED <<request, assignments, calls, disturbed>>
    BY <1>2 DEF CreateReport, DeleteReport, SendBack, vars
  <2> QED BY <2>1 DEF OInv, Quiet, NoAdmins, Rows, KnownBy
<1>3. ASSUME NEW c \in Calls, Die(c) PROVE OInv'
  <2>1. /\ calls' = [calls EXCEPT ![c] = Idle] /\ calls[c] # Idle
        /\ UNCHANGED <<request, assignments>>
        /\ disturbed' = (disturbed \/ calls[c].step \in {"mark", "assign"})
    BY <1>3 DEF Die, End, Go
  <2>2. CASE disturbed'
    BY <2>2 DEF OInv
  <2>3. CASE ~disturbed'
    <3>1. KnownBy(calls[c]) => KnowsInspector(Idle, assignments', request'.inspector)
      BY <2>1, <2>3, IdleAgrees DEF KnownBy, KnowsInspector
    <3>2. \A a \in Rows : a \in Rows' /\ assignments'[a].inspector = assignments[a].inspector
      BY <2>1 DEF Rows
    <3> QED BY <1>1, <2>1, <2>3, <3>1, <3>2, InspectorGoesOn
  <2> QED BY <2>2, <2>3
<1> QED
  BY <1>1, <1>2, <1>3, InspectorBeginsAll, InspectorStatus, InspectorAssigns,
     InspectorAnswers, InspectorReports
     DEF Next, Requests, Assigning, Reporting

(* For any calls, inspectors and administrators, and any number of         *)
(* assignments: as long as no calls overlap and none dies, at most one     *)
(* assignment is active between calls, and it is that of the inspector     *)
(* the request names.                                                      *)
THEOREM OneInspectorAtATime == Spec => []OneInspector
<1>1. OInv => OneInspector
  BY DEF OInv, OneInspector, NoAdmins, Agrees, Only, IsActive, Rows
<1>2. TInv /\ SInv /\ OInv /\ [Next]_vars => (TInv /\ SInv /\ OInv)'
  BY TypeStep, AloneStep, InspectorStep
<1> QED BY TypeInit, AloneInit, InspectorInit, <1>1, <1>2, PTL DEF Spec

-----------------------------------------------------------------------------
(* The construction project.  Its progress is a mean of percentages by     *)
(* weight, and so one itself; it looks at the live milestones that are not *)
(* skipped, and at nothing of them but their progress.                     *)

Percentages == Values \cup {0, 100}
MilestoneRow == [status : Site!MilestoneStatus, gate : BOOLEAN,
                 progress : Percentages, live : BOOLEAN]
Made(rows) == {m \in Milestones : rows[m].status # "absent"}
Averaged(rows) == {m \in Milestones : rows[m].live /\ rows[m].status # "skipped"}
Reached(rows) == [m \in Milestones |-> rows[m].progress * Site!Weight(m)]
Weights == [m \in Milestones |-> Site!Weight(m)]

LEMMA SameSums == \A F, S : Site!SumFunctionOnSet(F, S) = SumFunctionOnSet(F, S)
BY DEF Site!SumFunctionOnSet, SumFunctionOnSet,
       Site!FoldFunctionOnSet, FoldFunctionOnSet,
       Site!MapThenFoldSet, MapThenFoldSet

LEMMA OverallIsMean ==
    ASSUME NEW rows
    PROVE  Site!Overall(rows) =
              IF Averaged(rows) = {} THEN 0
              ELSE SumFunctionOnSet(Reached(rows), Averaged(rows))
                      \div SumFunctionOnSet(Weights, Averaged(rows))
BY SameSums DEF Site!Overall, Averaged, Reached, Weights

LEMMA PercentagesAre == Percentages \subseteq 0..100
BY SitePartsAssumption DEF Percentages

LEMMA Quotient ==
    ASSUME NEW n \in Nat, NEW d \in Nat \ {0}, n <= 100 * d
    PROVE  n \div d \in 0..100
<1> DEFINE q == n \div d
           r == n % d
<1>1. q \in Int /\ r \in 0..(d - 1) /\ n = d * q + r
  OBVIOUS
<1> HIDE DEF q, r
<1>2. q >= 0
  <2>1. SUFFICES ASSUME q <= -1 PROVE FALSE
    BY <1>1
  <2>2. d * q <= d * (-1)
    BY <1>1, <2>1
  <2> QED
    BY <1>1, <2>2
<1>3. q <= 100
  <2>1. SUFFICES ASSUME q >= 101 PROVE FALSE
    BY <1>1
  <2>2. d * q >= d * 101
    BY <1>1, <2>1
  <2> QED
    BY <1>1, <2>2
<1> QED
  BY <1>1, <1>2, <1>3 DEF q

LEMMA OverallIsPercentage ==
    ASSUME NEW rows, rows \in [Milestones -> MilestoneRow], IsFiniteSet(Averaged(rows))
    PROVE  Site!Overall(rows) \in 0..100
<1> DEFINE S == Averaged(rows)
           F == Reached(rows)
           G == Weights
<1>1. CASE S = {}
  BY <1>1, OverallIsMean
<1>2. CASE S # {}
  <2>1. \A m \in S : m \in Milestones /\ rows[m].progress \in 0..100
    BY PercentagesAre DEF Averaged, MilestoneRow
  <2>2. \A m \in S : G[m] \in {1, 3} /\ F[m] = rows[m].progress * G[m]
    BY <2>1 DEF Weights, Reached, Site!Weight
  <2> HIDE DEF S, F, G
  <2>3. ASSUME NEW m \in S
        PROVE  F[m] \in Nat /\ G[m] \in Nat \ {0} /\ F[m] <= 100 * G[m]
    <3>1. CASE G[m] = 1
      BY <2>1, <2>2, <3>1
    <3>2. CASE G[m] = 3
      BY <2>1, <2>2, <3>2
    <3> QED
      BY <2>2, <3>1, <3>2
  <2>4. IsFiniteSet(S)
    BY DEF S
  <2>5. SumFunctionOnSet(F, S) \in Nat
    BY <2>3, <2>4, SumType
  <2>6. SumFunctionOnSet(G, S) \in Nat \ {0}
    BY <1>2, <2>3, <2>4, SumOfSome
  <2>7. SumFunctionOnSet(F, S) <= 100 * SumFunctionOnSet(G, S)
    <3>1. 100 \in Nat /\ \A m \in S : F[m] \in Nat /\ G[m] \in Nat /\ F[m] <= 100 * G[m]
      BY <2>3
    <3> QED
      BY <2>4, <3>1, SumAtMost
  <2>8. SumFunctionOnSet(F, S) \div SumFunctionOnSet(G, S) \in 0..100
    BY <2>5, <2>6, <2>7, Quotient
  <2> QED
    BY <1>2, <2>8, OverallIsMean DEF S, F, G
<1> QED
  BY <1>1, <1>2

LEMMA OverallLooksAt ==
    ASSUME NEW rows, NEW others, IsFiniteSet(Averaged(rows)),
           \A m \in Milestones :
              /\ others[m].live = rows[m].live /\ others[m].progress = rows[m].progress
              /\ others[m].status = "skipped" <=> rows[m].status = "skipped"
    PROVE  Site!Overall(others) = Site!Overall(rows)
<1>1. Averaged(others) = Averaged(rows)
  BY DEF Averaged
<1>2. \A m \in Averaged(rows) : Reached(others)[m] = Reached(rows)[m]
  BY DEF Averaged, Reached
<1>3. SumFunctionOnSet(Reached(others), Averaged(rows))
         = SumFunctionOnSet(Reached(rows), Averaged(rows))
  BY <1>2, SumSame
<1> QED
  BY <1>1, <1>3, OverallIsMean

-----------------------------------------------------------------------------
(* What is stored and what calls have loaded.                              *)
ProjectStatus == {"draft", "planned", "active", "paused", "on_hold",
                  "completed", "cancelled", "archived"}
SiteSteps == {"idle", "transition", "edit_project", "edit", "progress",
              "link", "await", "approve", "apply", "commit"}
ProjectRow == [status : ProjectStatus, progress : 0..100]
UpdateRow == [status : {"absent", "draft", "submitted", "rejected", "approved"},
              milestone : Milestones \cup {NoMilestone},
              progress : Percentages, live : BOOLEAN]
SiteCall == [step : SiteSteps, milestone : Milestones \cup {NoMilestone},
             row : MilestoneRow, update : Updates \cup {NoMilestone},
             project : ProjectRow]

(* A milestone that a call is about exists, and a row that it writes is    *)
(* that of an existing one.                                                *)
AboutMade(k, made) ==
    /\ k.step \in {"edit", "progress", "link", "await"} => k.milestone \in made
    /\ k.step \in {"approve", "apply", "commit"} =>
          k.update \in Updates /\ k.milestone \in made \cup {NoMilestone}
    /\ k.step \in {"edit", "progress", "commit"} => k.row.status # "absent"

SiteTypes ==
    /\ project \in ProjectRow
    /\ milestones \in [Milestones -> MilestoneRow]
    /\ IsFiniteSet(Made(milestones))
    /\ \A m \in Milestones : milestones[m].live => m \in Made(milestones)
    /\ inspected \in [Milestones -> {"none", "requested", "completed"}]
    /\ updates \in [Updates -> UpdateRow]
    /\ \A u \in Updates : updates[u].milestone \in Made(milestones) \cup {NoMilestone}
    /\ work \in [Calls -> SiteCall]
    /\ \A c \in Calls : AboutMade(work[c], Made(milestones))

LEMMA SiteStatuses == DOMAIN Site!ValidTransitions = ProjectStatus
BY DEF Site!ValidTransitions, ProjectStatus

LEMMA NoRowFacts ==
    /\ Site!NoRow \in MilestoneRow /\ Site!NoRow.status = "absent"
    /\ ~Site!NoRow.live /\ ~Site!NoRow.gate /\ Site!NoRow.progress = 0
BY DEF Site!NoRow, MilestoneRow, Site!MilestoneStatus, Percentages

LEMMA IdleWork ==
    /\ Site!Idle \in SiteCall /\ Site!Idle.step = "idle"
    /\ Site!Idle.project = [status |-> "draft", progress |-> 0]
    /\ Site!Idle.project \in ProjectRow
BY NoRowFacts DEF Site!Idle, SiteCall, SiteSteps, ProjectRow, ProjectStatus

-----------------------------------------------------------------------------
(* The steps, by what they read and write.                                 *)
WorkBecomes(c, k) ==
    /\ k \in SiteCall
    /\ work' = [work EXCEPT ![c] = k]

RowBecomes(m, row) ==
    /\ m \in Made(milestones)
    /\ row \in MilestoneRow /\ row.status # "absent"
    /\ milestones' = [milestones EXCEPT ![m] = row]

(* What a call knows of the rows when it has just loaded them.             *)
Loads(k) ==
    /\ k \in SiteCall /\ AboutMade(k, Made(milestones))
    /\ k.step \in {"transition", "edit_project", "edit", "progress", "link", "approve"}
    /\ k.step = "edit_project" => k.project = project
    /\ k.step = "edit" =>
          /\ k.row.status = milestones[k.milestone].status
          /\ k.row.progress = milestones[k.milestone].progress
          /\ k.row.live = milestones[k.milestone].live
    /\ k.step \in {"progress", "approve"} /\ k.milestone \in Milestones =>
          k.row.gate = milestones[k.milestone].gate

BeginFact(c) == \E k : Loads(k) /\ Site!Begin(c, k)

ProjectFact(c) ==
    /\ work[c].step \in {"transition", "edit_project"}
    /\ WorkBecomes(c, Site!Idle)
    /\ project' \in ProjectRow
    /\ \/ outdated'
       \/ project'.progress = project.progress
       \/ work[c].step = "edit_project" /\ project' = work[c].project
    /\ outdated => outdated'
    /\ UNCHANGED <<milestones, inspected, updates, waived, overlapped>>

EditFact(c) ==
    /\ work[c].step = "edit"
    /\ WorkBecomes(c, Site!Idle)
    /\ Site!Free(work[c].milestone)
    /\ RowBecomes(work[c].milestone, work[c].row)
    /\ waived' = IF work[c].row.gate /\ ~milestones[work[c].milestone].gate
                 THEN waived \cup {work[c].milestone} ELSE waived
    /\ UNCHANGED <<project, inspected, updates, outdated, overlapped>>

ProgressFact(c) ==
    /\ work[c].step = "progress"
    /\ WorkBecomes(c, Site!Idle)
    /\ Site!Free(work[c].milestone)
    /\ \E row :
          /\ RowBecomes(work[c].milestone, row)
          /\ row.gate = milestones[work[c].milestone].gate
          /\ \/ row.status # "completed"
             \/ work[c].row.gate => inspected[work[c].milestone] = "completed"
             \/ milestones[work[c].milestone].status = "completed"
             \/ work[c].milestone \in waived'
    /\ waived \subseteq waived'
    /\ outdated'
    /\ UNCHANGED <<project, inspected, updates, overlapped>>

LinkFact(c) ==
    /\ work[c].step = "link"
    /\ \E k : WorkBecomes(c, k) /\ k.step = "await" /\ k.milestone = work[c].milestone
    /\ inspected' \in [Milestones -> {"none", "requested", "completed"}]
    /\ \A m \in Milestones : inspected[m] = "completed" => inspected'[m] = "completed"
    /\ UNCHANGED <<project, milestones, updates, waived, outdated, overlapped>>

AwaitFact(c) ==
    /\ work[c].step = "await"
    /\ WorkBecomes(c, Site!Idle)
    /\ Site!Free(work[c].milestone)
    /\ \E row :
          /\ RowBecomes(work[c].milestone, row)
          /\ row.status = "awaiting_inspection"
          /\ row.gate = milestones[work[c].milestone].gate
          /\ row.live = milestones[work[c].milestone].live
          /\ row.progress = milestones[work[c].milestone].progress
    /\ outdated' = (outdated \/ milestones[work[c].milestone].status = "skipped")
    /\ UNCHANGED <<project, inspected, updates, waived, overlapped>>

ApproveFact(c) ==
    /\ work[c].step = "approve"
    /\ \E k : /\ WorkBecomes(c, k) /\ k.step = "apply" /\ k.update = work[c].update
              /\ k.milestone = work[c].milestone /\ k.row = work[c].row
    /\ updates' \in [Updates -> UpdateRow]
    /\ \A u \in Updates : updates'[u].milestone = updates[u].milestone
    /\ UNCHANGED <<project, milestones, inspected, waived, outdated, overlapped>>

ApplyFact(c) ==
    /\ work[c].step = "apply"
    /\ \E k : /\ WorkBecomes(c, k) /\ k.step = "commit" /\ k.update = work[c].update
              /\ k.milestone = work[c].milestone
              /\ k.row.status # "absent"
              /\ k.project.progress = Site!Overall(Site!WithRow(k.milestone, k.row))
              /\ k.row.status = "completed" /\ k.milestone # NoMilestone =>
                    (work[c].row.gate => inspected[k.milestone] = "completed")
    /\ UNCHANGED <<project, milestones, inspected, updates, waived, outdated, overlapped>>

CommitFact(c) ==
    /\ work[c].step = "commit"
    /\ WorkBecomes(c, Site!Idle)
    /\ project' \in ProjectRow /\ project'.progress = work[c].project.progress
    /\ milestones' = Site!WithRow(work[c].milestone, work[c].row)
    /\ \/ work[c].milestone = NoMilestone /\ milestones' = milestones
       \/ \E row :
             /\ RowBecomes(work[c].milestone, row)
             /\ row.gate = milestones[work[c].milestone].gate
             /\ row.status = work[c].row.status
    /\ outdated' = overlapped
    /\ UNCHANGED <<inspected, updates, waived, overlapped>>

DeathFact(c) ==
    /\ WorkBecomes(c, Site!Idle)
    /\ overlapped' /\ outdated'
    /\ UNCHANGED <<project, milestones, inspected, updates, waived>>

CreateFact(m) ==
    /\ m \in Milestones \ Made(milestones)
    /\ \E row :
          /\ row \in MilestoneRow /\ row.status = "not_started" /\ row.live
          /\ milestones' = [milestones EXCEPT ![m] = row]
    /\ outdated'
    /\ overlapped' = (overlapped \/ \E c \in Calls : work[c] # Site!Idle)
    /\ UNCHANGED <<project, inspected, updates, work, waived>>

DeleteFact(m) ==
    /\ \E row :
          /\ RowBecomes(m, row)
          /\ row.gate = milestones[m].gate /\ row.status = milestones[m].status
    /\ outdated'
    /\ overlapped' = (overlapped \/ \E c \in Calls : work[c] # Site!Idle)
    /\ UNCHANGED <<project, inspected, updates, work, waived>>

(* An inspection is completed, an update is written, or nothing happens.   *)
AsideFact ==
    /\ inspected' \in [Milestones -> {"none", "requested", "completed"}]
    /\ \A m \in Milestones : inspected[m] = "completed" => inspected'[m] = "completed"
    /\ updates' \in [Updates -> UpdateRow]
    /\ \A u \in Updates : updates'[u].milestone \in Made(milestones) \cup {NoMilestone}
    /\ UNCHANGED <<project, milestones, work, waived, outdated, overlapped>>

SiteStep ==
    \/ \E c \in Calls :
          \/ BeginFact(c) \/ ProjectFact(c) \/ EditFact(c) \/ ProgressFact(c)
          \/ LinkFact(c) \/ AwaitFact(c) \/ ApproveFact(c) \/ ApplyFact(c)
          \/ CommitFact(c) \/ DeathFact(c)
    \/ \E m \in Milestones : CreateFact(m) \/ DeleteFact(m)
    \/ AsideFact

-----------------------------------------------------------------------------
LEMMA CallOf ==
    ASSUME SiteTypes, NEW c \in Calls
    PROVE  /\ work[c] \in SiteCall /\ AboutMade(work[c], Made(milestones))
           /\ work[c].step \in SiteSteps
           /\ work[c].milestone \in Milestones \cup {NoMilestone}
           /\ work[c].row \in MilestoneRow /\ work[c].project \in ProjectRow
BY DEF SiteTypes, SiteCall

LEMMA RowOf ==
    ASSUME SiteTypes, NEW m \in Milestones
    PROVE  /\ milestones[m] \in MilestoneRow
           /\ milestones[m].status \in Site!MilestoneStatus
           /\ milestones[m].gate \in BOOLEAN /\ milestones[m].live \in BOOLEAN
           /\ milestones[m].progress \in Percentages
BY DEF SiteTypes, MilestoneRow

LEMMA MadeIsMilestone ==
    \A m : m \in Made(milestones) => m \in Milestones /\ milestones[m].status # "absent"
BY DEF Made

LEMMA ProjectBegins ==
    ASSUME SiteTypes, NEW c \in Calls,
           \/ \E next \in DOMAIN Site!ValidTransitions : Site!BeginTransition(c, next)
           \/ Site!BeginEditProject(c)
    PROVE  BeginFact(c)
<1>0. project \in ProjectRow
  BY DEF SiteTypes
<1>1. ASSUME NEW next \in DOMAIN Site!ValidTransitions, Site!BeginTransition(c, next)
      PROVE  BeginFact(c)
  <2> DEFINE p == [status |-> next, progress |-> project.progress]
             k == [Site!Idle EXCEPT !.step = "transition", !.project = p]
  <2>1. p \in ProjectRow /\ "transition" \in SiteSteps
    BY <1>0, SiteStatuses DEF ProjectRow, SiteSteps
  <2>2. k \in SiteCall /\ k.step = "transition"
    BY <2>1, IdleWork DEF SiteCall
  <2>3. Site!Begin(c, k)
    BY <1>1 DEF Site!BeginTransition
  <2> HIDE DEF k
  <2>4. Loads(k)
    BY <2>2 DEF Loads, AboutMade
  <2> QED
    BY <2>3, <2>4 DEF BeginFact
<1>2. ASSUME Site!BeginEditProject(c) PROVE BeginFact(c)
  <2> DEFINE k == [Site!Idle EXCEPT !.step = "edit_project", !.project = project]
  <2>1. "edit_project" \in SiteSteps
    BY DEF SiteSteps
  <2>2. k \in SiteCall /\ k.step = "edit_project" /\ k.project = project
    BY <1>0, <2>1, IdleWork DEF SiteCall
  <2>3. Site!Begin(c, k)
    BY <1>2 DEF Site!BeginEditProject
  <2> HIDE DEF k
  <2>4. Loads(k)
    BY <2>2 DEF Loads, AboutMade
  <2> QED
    BY <2>3, <2>4 DEF BeginFact
<1> QED
  BY <1>1, <1>2

LEMMA MilestoneBegins ==
    ASSUME SiteTypes, NEW c \in Calls, NEW m \in Milestones, NEW st, NEW row \in MilestoneRow,
           Site!BeginMilestone(c, st, m, row), st \in {"edit", "progress", "link"},
           st \in {"edit", "progress"} => row.status # "absent",
           st = "edit" =>
              /\ row.status = milestones[m].status
              /\ row.progress = milestones[m].progress /\ row.live = milestones[m].live,
           st = "progress" => row.gate = milestones[m].gate
    PROVE  BeginFact(c)
<1> DEFINE k == [Site!Idle EXCEPT !.step = st, !.milestone = m, !.row = row]
<1>1. st \in SiteSteps /\ milestones[m].live /\ Site!Begin(c, k)
  BY DEF SiteSteps, Site!BeginMilestone
<1>2. k \in SiteCall /\ k.step = st /\ k.milestone = m /\ k.row = row
  BY <1>1, IdleWork DEF SiteCall
<1>3. m \in Made(milestones)
  BY <1>1 DEF SiteTypes
<1> HIDE DEF k
<1>4. Loads(k)
  BY <1>2, <1>3 DEF Loads, AboutMade
<1> QED
  BY <1>1, <1>4 DEF BeginFact

LEMMA MilestoneLoads ==
    ASSUME SiteTypes, NEW c \in Calls, NEW m \in Milestones,
           \/ \E gate \in BOOLEAN : Site!BeginEditMilestone(c, m, gate)
           \/ \E value \in Values \cup {milestones[m].progress},
                status \in ByHand \cup {milestones[m].status} :
                Site!BeginProgress(c, m, value, status)
           \/ Site!BeginRequest(c, m)
    PROVE  BeginFact(c)
<1>1. /\ milestones[m] \in MilestoneRow
      /\ milestones[m].live => milestones[m].status # "absent"
  BY RowOf DEF SiteTypes, Made
<1>2. ASSUME NEW gate \in BOOLEAN, Site!BeginEditMilestone(c, m, gate) PROVE BeginFact(c)
  <2> DEFINE row == [milestones[m] EXCEPT !.gate = gate]
  <2>1. Site!BeginMilestone(c, "edit", m, row) /\ milestones[m].live
    BY <1>2 DEF Site!BeginEditMilestone, Site!BeginMilestone
  <2>2. /\ row \in MilestoneRow /\ row.status = milestones[m].status
        /\ row.progress = milestones[m].progress /\ row.live = milestones[m].live
    BY <1>1 DEF MilestoneRow
  <2> HIDE DEF row
  <2> QED
    BY <1>1, <2>1, <2>2, MilestoneBegins
<1>3. ASSUME NEW value \in Values \cup {milestones[m].progress},
             NEW status \in ByHand \cup {milestones[m].status},
             Site!BeginProgress(c, m, value, status)
      PROVE  BeginFact(c)
  <2> DEFINE row == [milestones[m] EXCEPT !.progress = value, !.status = status]
  <2>1. Site!BeginMilestone(c, "progress", m, row) /\ milestones[m].live
    BY <1>3 DEF Site!BeginProgress, Site!BeginMilestone
  <2>2. value \in Percentages /\ status \in Site!MilestoneStatus /\ status # "absent"
    BY <1>1, <2>1, RowOf, SitePartsAssumption DEF Percentages, Site!MilestoneStatus
  <2>3. row \in MilestoneRow /\ row.status = status /\ row.gate = milestones[m].gate
    BY <1>1, <2>2 DEF MilestoneRow
  <2> HIDE DEF row
  <2> QED
    BY <2>1, <2>2, <2>3, MilestoneBegins
<1>4. ASSUME Site!BeginRequest(c, m) PROVE BeginFact(c)
  BY <1>1, <1>4, MilestoneBegins DEF Site!BeginRequest
<1> QED
  BY <1>2, <1>3, <1>4

LEMMA ApproveBegins ==
    ASSUME SiteTypes, NEW c \in Calls, NEW u \in Updates, Site!BeginApprove(c, u)
    PROVE  BeginFact(c)
<1> DEFINE m == updates[u].milestone
           row == IF m = NoMilestone THEN Site!NoRow ELSE milestones[m]
           k == [Site!Idle EXCEPT !.step = "approve", !.update = u, !.milestone = m, !.row = row]
<1>1. m \in Made(milestones) \cup {NoMilestone} /\ Site!Begin(c, k)
  BY DEF SiteTypes, Site!BeginApprove
<1>2. m \in Milestones \cup {NoMilestone} /\ "approve" \in SiteSteps
  BY <1>1, MadeIsMilestone DEF SiteSteps
<1>3. row \in MilestoneRow /\ (m \in Milestones => row = milestones[m])
  BY <1>2, NoRowFacts, RowOf, SitePartsAssumption
<1> HIDE DEF m, row
<1>4. k \in SiteCall /\ k.step = "approve" /\ k.update = u /\ k.milestone = m /\ k.row = row
  BY <1>2, <1>3, IdleWork DEF SiteCall
<1> HIDE DEF k
<1>5. Loads(k)
  BY <1>1, <1>3, <1>4 DEF Loads, AboutMade
<1> QED
  BY <1>1, <1>5 DEF BeginFact

-----------------------------------------------------------------------------
LEMMA ProjectSaves ==
    ASSUME SiteTypes, NEW c \in Calls, Site!SaveTransition(c) \/ Site!SaveProject(c)
    PROVE  ProjectFact(c)
<1>0. project \in ProjectRow /\ work[c].project \in ProjectRow /\ Site!Idle \in SiteCall
  BY CallOf, IdleWork DEF SiteTypes
<1>1. ASSUME Site!SaveTransition(c) PROVE ProjectFact(c)
  <2> DEFINE next == work[c].project.status
             p == [status |-> next, progress |-> IF next = "completed" THEN 100 ELSE project.progress]
  <2>1. /\ work[c].step = "transition" /\ WorkBecomes(c, Site!Idle)
        /\ project' = p /\ outdated' = (outdated \/ next = "completed")
        /\ UNCHANGED <<milestones, inspected, updates, waived, overlapped>>
    BY <1>0, <1>1 DEF Site!SaveTransition, Site!End, WorkBecomes
  <2>2. p \in ProjectRow
    BY <1>0 DEF ProjectRow
  <2>3. next # "completed" => p.progress = project.progress
    OBVIOUS
  <2> HIDE DEF p
  <2>4. CASE next = "completed"
    BY <2>1, <2>2, <2>4 DEF ProjectFact
  <2>5. CASE next # "completed"
    BY <2>1, <2>2, <2>3, <2>5 DEF ProjectFact
  <2> QED
    BY <2>4, <2>5
<1>2. ASSUME Site!SaveProject(c) PROVE ProjectFact(c)
  BY <1>0, <1>2 DEF Site!SaveProject, Site!End, WorkBecomes, ProjectFact
<1> QED
  BY <1>1, <1>2

LEMMA EditSaves ==
    ASSUME SiteTypes, NEW c \in Calls, Site!SaveMilestone(c)
    PROVE  EditFact(c)
<1>1. /\ work[c].step = "edit" /\ WorkBecomes(c, Site!Idle)
      /\ Site!Free(work[c].milestone)
      /\ milestones' = [milestones EXCEPT ![work[c].milestone] = work[c].row]
      /\ waived' = IF work[c].row.gate /\ ~milestones[work[c].milestone].gate
                   THEN waived \cup {work[c].milestone} ELSE waived
      /\ UNCHANGED <<project, inspected, updates, outdated, overlapped>>
  BY IdleWork DEF Site!SaveMilestone, Site!End, WorkBecomes
<1>2. RowBecomes(work[c].milestone, work[c].row)
  BY <1>1, CallOf DEF AboutMade, RowBecomes
<1> QED
  BY <1>1, <1>2 DEF EditFact

(* The columns that a save of progress writes.                             *)
ColumnsWritten(m, st, n) ==
    \/ milestones' = [milestones EXCEPT ![m].status = st, ![m].progress = n]
    \/ n = milestones[m].progress /\ milestones' = [milestones EXCEPT ![m].status = st]

LEMMA ColumnsBecome ==
    ASSUME SiteTypes, NEW m \in Made(milestones),
           NEW st \in Site!MilestoneStatus \ {"absent"}, NEW n \in Percentages,
           ColumnsWritten(m, st, n)
    PROVE  \E row :
              /\ RowBecomes(m, row) /\ row.status = st /\ row.progress = n
              /\ row.gate = milestones[m].gate /\ row.live = milestones[m].live
<1> DEFINE row == [milestones[m] EXCEPT !.status = st, !.progress = n]
<1>1. m \in Milestones /\ milestones[m] \in MilestoneRow
  BY MadeIsMilestone, RowOf
<1>2. /\ row \in MilestoneRow /\ row.status = st /\ row.progress = n
      /\ row.gate = milestones[m].gate /\ row.live = milestones[m].live
  BY <1>1 DEF MilestoneRow
<1>3. milestones' = [milestones EXCEPT ![m] = row]
  <2>1. milestones \in [Milestones -> MilestoneRow]
    BY DEF SiteTypes
  <2>2. CASE milestones' = [milestones EXCEPT ![m].status = st, ![m].progress = n]
    BY <2>2
  <2>3. CASE n = milestones[m].progress /\ milestones' = [milestones EXCEPT ![m].status = st]
    <3>1. [milestones[m] EXCEPT !.status = st] = row
      BY <1>1, <2>3 DEF MilestoneRow
    <3>2. milestones' = [milestones EXCEPT ![m] = [milestones[m] EXCEPT !.status = st]]
      BY <2>3
    <3> QED
      BY <3>1, <3>2
  <2> QED
    BY <2>2, <2>3 DEF ColumnsWritten
<1> HIDE DEF row
<1>4. RowBecomes(m, row)
  BY <1>2, <1>3 DEF RowBecomes
<1> QED
  BY <1>2, <1>4

LEMMA CompletedRow ==
    ASSUME NEW m \in Milestones, NEW row \in MilestoneRow
    PROVE  /\ Site!CompletedIfAllowed(m, row) \in MilestoneRow
           /\ Site!CompletedIfAllowed(m, row).status \in {"awaiting_inspection", "completed"}
           /\ Site!CompletedIfAllowed(m, row).status = "completed" =>
                 (row.gate => inspected[m] = "completed")
<1> DEFINE st == IF row.gate /\ inspected[m] # "completed"
                 THEN "awaiting_inspection" ELSE "completed"
           new == [row EXCEPT !.progress = 100, !.status = st]
<1>1. Site!CompletedIfAllowed(m, row) = new
  BY DEF Site!CompletedIfAllowed
<1>2. /\ st \in {"awaiting_inspection", "completed"}
      /\ st = "completed" => (row.gate => inspected[m] = "completed")
  OBVIOUS
<1> HIDE DEF st
<1>3. st \in Site!MilestoneStatus /\ 100 \in Percentages
  BY <1>2 DEF Site!MilestoneStatus, Percentages
<1>4. new \in MilestoneRow /\ new.status = st
  BY <1>3 DEF MilestoneRow
<1> QED
  BY <1>1, <1>2, <1>4

LEMMA ProgressSaves ==
    ASSUME SiteTypes, NEW c \in Calls, Site!SaveProgress(c)
    PROVE  ProgressFact(c)
<1> DEFINE m == work[c].milestone
           row == work[c].row
           saved == IF row.progress = 100 THEN Site!CompletedIfAllowed(m, row) ELSE row
<1>1. /\ work[c].step = "progress" /\ WorkBecomes(c, Site!Idle)
      /\ Site!SaveProgressOf(m, saved)
      /\ waived' = IF row.progress # 100 /\ row.status = "completed"
                         /\ milestones[m].status # "completed"
                   THEN waived \cup {m} ELSE waived
      /\ outdated'
      /\ UNCHANGED <<project, inspected, updates, overlapped>>
  BY IdleWork DEF Site!SaveProgress, Site!End, WorkBecomes
<1>2. /\ m \in Made(milestones) /\ m \in Milestones
      /\ row \in MilestoneRow /\ row.status # "absent"
  BY <1>1, CallOf, MadeIsMilestone DEF AboutMade
<1>3. /\ saved \in MilestoneRow /\ saved.status # "absent"
      /\ \/ saved.status # "completed"
         \/ row.gate => inspected[m] = "completed"
         \/ milestones[m].status = "completed"
         \/ m \in waived'
  <2>1. CASE row.progress = 100
    BY <1>2, <2>1, CompletedRow
  <2>2. CASE row.progress # 100
    BY <1>1, <1>2, <2>2
  <2> QED
    BY <2>1, <2>2
<1> HIDE DEF m, row, saved
<1>4. saved.status \in Site!MilestoneStatus \ {"absent"} /\ saved.progress \in Percentages
  BY <1>3 DEF MilestoneRow
<1>5. /\ Site!Free(m)
      /\ milestones' = [milestones EXCEPT ![m].status = saved.status, ![m].progress = saved.progress]
  BY <1>1 DEF Site!SaveProgressOf
<1>6. PICK new : /\ RowBecomes(m, new) /\ new.status = saved.status
                 /\ new.gate = milestones[m].gate
  <2>1. ColumnsWritten(m, saved.status, saved.progress)
    BY <1>5 DEF ColumnsWritten
  <2> QED
    BY <1>2, <1>4, <2>1, ColumnsBecome
<1>7. waived \subseteq waived'
  BY <1>1
<1> QED
  BY <1>1, <1>3, <1>5, <1>6, <1>7 DEF ProgressFact, m, row

LEMMA AwaitSaves ==
    ASSUME SiteTypes, NEW c \in Calls, Site!AwaitInspection(c)
    PROVE  AwaitFact(c)
<1> DEFINE m == work[c].milestone
<1>1. /\ work[c].step = "await" /\ WorkBecomes(c, Site!Idle) /\ Site!Free(m)
      /\ milestones' = [milestones EXCEPT ![m].status = "awaiting_inspection"]
      /\ outdated' = (outdated \/ milestones[m].status = "skipped")
      /\ UNCHANGED <<project, inspected, updates, waived, overlapped>>
  BY IdleWork DEF Site!AwaitInspection, Site!End, WorkBecomes
<1>2. m \in Made(milestones) /\ milestones[m].progress \in Percentages
  BY <1>1, CallOf, MadeIsMilestone, RowOf DEF AboutMade
<1>3. "awaiting_inspection" \in Site!MilestoneStatus \ {"absent"}
  BY DEF Site!MilestoneStatus
<1> HIDE DEF m
<1>4. PICK new : /\ RowBecomes(m, new) /\ new.status = "awaiting_inspection"
                 /\ new.progress = milestones[m].progress
                 /\ new.gate = milestones[m].gate /\ new.live = milestones[m].live
  <2>1. ColumnsWritten(m, "awaiting_inspection", milestones[m].progress)
    BY <1>1 DEF ColumnsWritten
  <2> QED
    BY <1>2, <1>3, <2>1, ColumnsBecome
<1> QED
  BY <1>1, <1>4 DEF AwaitFact, m

LEMMA LinkSaves ==
    ASSUME SiteTypes, NEW c \in Calls, Site!AddLink(c)
    PROVE  LinkFact(c)
<1> DEFINE k == [work[c] EXCEPT !.step = "await"]
<1>1. /\ work[c].step = "link" /\ work' = [work EXCEPT ![c] = k]
      /\ inspected' = [inspected EXCEPT ![work[c].milestone] =
                          IF @ = "none" THEN "requested" ELSE @]
      /\ UNCHANGED <<project, milestones, updates, waived, outdated, overlapped>>
  BY DEF Site!AddLink, Site!Go
<1>2. k \in SiteCall /\ k.step = "await" /\ k.milestone = work[c].milestone
  BY CallOf DEF SiteCall, SiteSteps
<1> HIDE DEF k
<1>3. inspected \in [Milestones -> {"none", "requested", "completed"}]
  BY DEF SiteTypes
<1>4. /\ inspected' \in [Milestones -> {"none", "requested", "completed"}]
      /\ \A m \in Milestones : inspected[m] = "completed" => inspected'[m] = "completed"
  BY <1>1, <1>3
<1> QED
  BY <1>1, <1>2, <1>4 DEF LinkFact, WorkBecomes

LEMMA ApproveSaves ==
    ASSUME SiteTypes, NEW c \in Calls, Site!ApproveUpdate(c)
    PROVE  ApproveFact(c)
<1> DEFINE k == [work[c] EXCEPT !.step = "apply"]
           u == work[c].update
           row == [updates[u] EXCEPT !.status = "approved"]
<1>1. /\ work[c].step = "approve" /\ work' = [work EXCEPT ![c] = k]
      /\ updates' = [updates EXCEPT ![u] = row]
      /\ UNCHANGED <<project, milestones, inspected, waived, outdated, overlapped>>
  BY DEF Site!ApproveUpdate, Site!Go
<1>2. /\ k \in SiteCall /\ k.step = "apply" /\ k.update = u
      /\ k.milestone = work[c].milestone /\ k.row = work[c].row
  BY CallOf DEF SiteCall, SiteSteps
<1>3. u \in Updates /\ updates \in [Updates -> UpdateRow]
  BY <1>1, CallOf DEF SiteTypes, AboutMade
<1>4. row \in UpdateRow /\ row.milestone = updates[u].milestone
  BY <1>3 DEF UpdateRow
<1> HIDE DEF k, row
<1>5. /\ updates' \in [Updates -> UpdateRow]
      /\ \A v \in Updates : updates'[v].milestone = updates[v].milestone
  BY <1>1, <1>3, <1>4
<1> QED
  BY <1>1, <1>2, <1>5 DEF ApproveFact, WorkBecomes, u

LEMMA WithRowTypes ==
    ASSUME SiteTypes, NEW m \in Made(milestones) \cup {NoMilestone},
           NEW row \in MilestoneRow, row.status # "absent"
    PROVE  /\ Site!WithRow(m, row) \in [Milestones -> MilestoneRow]
           /\ IsFiniteSet(Averaged(Site!WithRow(m, row)))
<1> DEFINE rows == Site!WithRow(m, row)
<1>0. /\ milestones \in [Milestones -> MilestoneRow] /\ IsFiniteSet(Made(milestones))
      /\ \A n \in Milestones : milestones[n].live => n \in Made(milestones)
  BY DEF SiteTypes
<1>1. CASE m = NoMilestone
  <2>1. rows = milestones
    BY <1>1 DEF Site!WithRow
  <2>2. Averaged(rows) \subseteq Made(milestones)
    BY <1>0, <2>1 DEF Averaged
  <2> QED
    BY <1>0, <2>1, <2>2, FS_Subset
<1>2. CASE m \in Made(milestones)
  <2>1. m \in Milestones /\ m # NoMilestone
    BY <1>2, MadeIsMilestone, SitePartsAssumption
  <2> DEFINE new == [milestones[m] EXCEPT !.status = row.status, !.progress = row.progress]
  <2>2. /\ milestones[m] \in MilestoneRow
        /\ row.status \in Site!MilestoneStatus /\ row.progress \in Percentages
    BY <1>0, <2>1 DEF MilestoneRow
  <2>3. new \in MilestoneRow /\ new.live = milestones[m].live
    BY <2>2 DEF MilestoneRow
  <2>4. rows = [milestones EXCEPT ![m] = new]
    BY <1>0, <2>1 DEF Site!WithRow
  <2> HIDE DEF new, rows
  <2>5. rows \in [Milestones -> MilestoneRow]
    BY <1>0, <2>1, <2>3, <2>4
  <2>6. \A n \in Milestones : rows[n].live = milestones[n].live
    BY <1>0, <2>1, <2>3, <2>4
  <2>7. Averaged(rows) \subseteq Made(milestones)
    BY <1>0, <2>6 DEF Averaged
  <2> QED
    BY <1>0, <2>5, <2>7, FS_Subset DEF rows
<1> QED
  BY <1>1, <1>2

AppliedTo(m, old, value) ==
    IF value = 100 /\ m # NoMilestone THEN Site!CompletedIfAllowed(m, old)
    ELSE [old EXCEPT !.status = "in_progress", !.progress = value]

LEMMA AppliedRow ==
    ASSUME SiteTypes, NEW m \in Made(milestones) \cup {NoMilestone},
           NEW old \in MilestoneRow, NEW value \in Percentages
    PROVE  /\ AppliedTo(m, old, value) \in MilestoneRow
           /\ AppliedTo(m, old, value).status # "absent"
           /\ AppliedTo(m, old, value).status = "completed" /\ m # NoMilestone =>
                 (old.gate => inspected[m] = "completed")
<1> DEFINE row == AppliedTo(m, old, value)
<1>1. CASE value = 100 /\ m # NoMilestone
  <2>1. m \in Milestones
    BY <1>1, MadeIsMilestone
  <2> QED
    BY <1>1, <2>1, CompletedRow DEF AppliedTo
<1>2. CASE ~(value = 100 /\ m # NoMilestone)
  <2>1. row = [old EXCEPT !.status = "in_progress", !.progress = value]
    BY <1>2 DEF AppliedTo
  <2>2. "in_progress" \in Site!MilestoneStatus
    BY DEF Site!MilestoneStatus
  <2>3. row \in MilestoneRow /\ row.status = "in_progress"
    BY <2>1, <2>2 DEF MilestoneRow
  <2> QED
    BY <2>3
<1> QED
  BY <1>1, <1>2

LEMMA ApplySaves ==
    ASSUME SiteTypes, NEW c \in Calls, Site!ApplyUpdate(c)
    PROVE  ApplyFact(c)
<1> DEFINE m == work[c].milestone
           old == work[c].row
           value == updates[work[c].update].progress
           row == AppliedTo(m, old, value)
           n == Site!Overall(Site!WithRow(m, row))
           k == [work[c] EXCEPT !.step = "commit", !.row = row, !.project.progress = n]
<1>1. /\ work[c].step = "apply" /\ work' = [work EXCEPT ![c] = k]
      /\ UNCHANGED <<project, milestones, inspected, updates, waived, outdated, overlapped>>
  BY DEF Site!ApplyUpdate, Site!Apply, Site!Applied, AppliedTo
<1>2. /\ work[c] \in SiteCall /\ m \in Made(milestones) \cup {NoMilestone}
      /\ work[c].update \in Updates /\ old \in MilestoneRow /\ work[c].project \in ProjectRow
  BY <1>1, CallOf DEF AboutMade
<1>3. value \in Percentages
  BY <1>2 DEF SiteTypes, UpdateRow
<1> HIDE DEF m, old, value
<1>4. /\ row \in MilestoneRow /\ row.status # "absent"
      /\ row.status = "completed" /\ m # NoMilestone =>
            (old.gate => inspected[m] = "completed")
  BY <1>2, <1>3, AppliedRow
<1> HIDE DEF row
<1>5. n \in 0..100
  BY <1>2, <1>4, WithRowTypes, OverallIsPercentage
<1> DEFINE p == [work[c].project EXCEPT !.progress = n]
<1>6. p \in ProjectRow /\ p.progress = n
  BY <1>2, <1>5 DEF ProjectRow
<1>7. k = [work[c] EXCEPT !.step = "commit", !.row = row, !.project = p]
  BY <1>2 DEF SiteCall
<1> HIDE DEF n, p, k
<1>8. /\ k \in SiteCall /\ k.step = "commit" /\ k.update = work[c].update
      /\ k.milestone = m /\ k.row = row /\ k.project.progress = n
  BY <1>2, <1>4, <1>6, <1>7 DEF SiteCall, SiteSteps, m
<1> QED
  BY <1>1, <1>4, <1>8 DEF ApplyFact, WorkBecomes, n, m, old

LEMMA CommitSaves ==
    ASSUME SiteTypes, NEW c \in Calls, Site!CommitUpdate(c)
    PROVE  CommitFact(c)
<1> DEFINE m == work[c].milestone
           row == work[c].row
           p == [project EXCEPT !.progress = work[c].project.progress]
<1>1. /\ work[c].step = "commit" /\ WorkBecomes(c, Site!Idle)
      /\ milestones' = Site!WithRow(m, row) /\ project' = p
      /\ outdated' = overlapped
      /\ UNCHANGED <<inspected, updates, waived, overlapped>>
  BY IdleWork DEF Site!CommitUpdate, Site!End, WorkBecomes
<1>2. /\ m \in Made(milestones) \cup {NoMilestone}
      /\ row \in MilestoneRow /\ row.status # "absent" /\ work[c].project \in ProjectRow
      /\ project \in ProjectRow
  BY <1>1, CallOf DEF AboutMade, SiteTypes
<1>3. p \in ProjectRow /\ p.progress = work[c].project.progress
  BY <1>2 DEF ProjectRow
<1> HIDE DEF m, row, p
<1>4. \/ m = NoMilestone /\ milestones' = milestones
      \/ \E new : /\ RowBecomes(m, new) /\ new.gate = milestones[m].gate
                  /\ new.status = row.status
  <2>1. CASE m = NoMilestone
    BY <1>1, <2>1 DEF Site!WithRow
  <2>2. CASE m \in Made(milestones)
    <3>1. m # NoMilestone
      BY <2>2, MadeIsMilestone, SitePartsAssumption
    <3>2. ColumnsWritten(m, row.status, row.progress)
      BY <1>1, <3>1 DEF Site!WithRow, ColumnsWritten
    <3>3. row.status \in Site!MilestoneStatus \ {"absent"} /\ row.progress \in Percentages
      BY <1>2 DEF MilestoneRow
    <3>4. \E new : /\ RowBecomes(m, new) /\ new.status = row.status
                   /\ new.progress = row.progress
                   /\ new.gate = milestones[m].gate /\ new.live = milestones[m].live
      BY <2>2, <3>2, <3>3, ColumnsBecome
    <3> QED
      BY <3>4
  <2> QED
    BY <1>2, <2>1, <2>2
<1> QED
  BY <1>1, <1>3, <1>4 DEF CommitFact, m, row

LEMMA CallDies ==
    ASSUME NEW c \in Calls, Site!Die(c)
    PROVE  DeathFact(c)
BY IdleWork DEF Site!Die, DeathFact, WorkBecomes

LEMMA MilestoneCreated ==
    ASSUME SiteTypes, NEW m \in Milestones, NEW gate \in BOOLEAN, Site!CreateMilestone(m, gate)
    PROVE  CreateFact(m)
<1> DEFINE row == [Site!NoRow EXCEPT !.status = "not_started", !.gate = gate, !.live = TRUE]
<1>1. /\ milestones[m] = Site!NoRow /\ milestones' = [milestones EXCEPT ![m] = row]
      /\ outdated'
      /\ overlapped' = (overlapped \/ \E c \in Calls : work[c] # Site!Idle)
      /\ UNCHANGED <<project, inspected, updates, work, waived>>
  BY DEF Site!CreateMilestone
<1>2. "not_started" \in Site!MilestoneStatus
  BY DEF Site!MilestoneStatus
<1>3. row \in MilestoneRow /\ row.status = "not_started" /\ row.live
  BY <1>2, NoRowFacts DEF MilestoneRow
<1>4. m \notin Made(milestones)
  BY <1>1, NoRowFacts DEF Made
<1> QED
  BY <1>1, <1>3, <1>4 DEF CreateFact

LEMMA MilestoneDeleted ==
    ASSUME SiteTypes, NEW m \in Milestones, Site!DeleteMilestone(m)
    PROVE  DeleteFact(m)
<1> DEFINE row == [milestones[m] EXCEPT !.live = FALSE]
<1>1. /\ milestones[m].live /\ milestones' = [milestones EXCEPT ![m].live = FALSE]
      /\ outdated'
      /\ overlapped' = (overlapped \/ \E c \in Calls : work[c] # Site!Idle)
      /\ UNCHANGED <<project, inspected, updates, work, waived>>
  BY DEF Site!DeleteMilestone
<1>2. milestones[m] \in MilestoneRow /\ m \in Made(milestones)
  BY <1>1 DEF SiteTypes
<1>3. /\ row \in MilestoneRow /\ row.status = milestones[m].status
      /\ row.gate = milestones[m].gate
  BY <1>2 DEF MilestoneRow
<1>4. milestones' = [milestones EXCEPT ![m] = row]
  BY <1>1
<1> HIDE DEF row
<1>5. RowBecomes(m, row)
  BY <1>2, <1>3, <1>4, MadeIsMilestone DEF RowBecomes
<1> QED
  BY <1>1, <1>3, <1>5 DEF DeleteFact

LEMMA UpdateWritten ==
    ASSUME SiteTypes, NEW u \in Updates, NEW row \in UpdateRow,
           row.milestone \in Made(milestones) \cup {NoMilestone},
           Site!SaveUpdate(u, row)
    PROVE  AsideFact
<1>1. /\ updates' = [updates EXCEPT ![u] = row]
      /\ UNCHANGED <<project, milestones, inspected, work, waived, outdated, overlapped>>
  BY DEF Site!SaveUpdate
<1>2. /\ updates \in [Updates -> UpdateRow]
      /\ \A v \in Updates : updates[v].milestone \in Made(milestones) \cup {NoMilestone}
      /\ inspected \in [Milestones -> {"none", "requested", "completed"}]
  BY DEF SiteTypes
<1>3. /\ updates' \in [Updates -> UpdateRow]
      /\ \A v \in Updates : updates'[v].milestone \in Made(milestones) \cup {NoMilestone}
  BY <1>1, <1>2
<1> QED
  BY <1>1, <1>2, <1>3 DEF AsideFact

LEMMA UpdatesMove ==
    ASSUME SiteTypes, NEW u \in Updates,
           \/ \E m \in Milestones \cup {NoMilestone}, value \in Values : Site!CreateUpdate(u, m, value)
           \/ Site!SubmitUpdate(u) \/ Site!RejectUpdate(u) \/ Site!DeleteUpdate(u)
    PROVE  AsideFact
<1>0. updates[u] \in UpdateRow /\ updates[u].milestone \in Made(milestones) \cup {NoMilestone}
  BY DEF SiteTypes
<1>1. ASSUME NEW m \in Milestones \cup {NoMilestone}, NEW value \in Values,
             Site!CreateUpdate(u, m, value)
      PROVE  AsideFact
  <2> DEFINE row == [status |-> "draft", milestone |-> m, progress |-> value, live |-> TRUE]
  <2>1. (m # NoMilestone => milestones[m].status # "absent") /\ Site!SaveUpdate(u, row)
    BY <1>1 DEF Site!CreateUpdate
  <2>2. row \in UpdateRow /\ row.milestone = m
    BY DEF UpdateRow, Percentages
  <2>3. m \in Made(milestones) \cup {NoMilestone}
    BY <2>1 DEF Made
  <2> HIDE DEF row
  <2> QED
    BY <2>1, <2>2, <2>3, UpdateWritten
<1>2. ASSUME NEW st \in {"submitted", "rejected"},
             Site!SaveUpdate(u, [updates[u] EXCEPT !.status = st])
      PROVE  AsideFact
  <2> DEFINE row == [updates[u] EXCEPT !.status = st]
  <2>1. row \in UpdateRow /\ row.milestone = updates[u].milestone
    BY <1>0 DEF UpdateRow
  <2> HIDE DEF row
  <2>2. Site!SaveUpdate(u, row)
    BY <1>2 DEF row
  <2> QED
    BY <1>0, <2>1, <2>2, UpdateWritten
<1>3. ASSUME Site!DeleteUpdate(u) PROVE AsideFact
  <2> DEFINE row == [updates[u] EXCEPT !.live = FALSE]
  <2>1. row \in UpdateRow /\ row.milestone = updates[u].milestone
    BY <1>0 DEF UpdateRow
  <2>2. Site!SaveUpdate(u, row)
    BY <1>3 DEF Site!DeleteUpdate
  <2> HIDE DEF row
  <2> QED
    BY <1>0, <2>1, <2>2, UpdateWritten
<1> QED
  BY <1>1, <1>2, <1>3 DEF Site!SubmitUpdate, Site!RejectUpdate

LEMMA InspectionCompletes ==
    ASSUME SiteTypes, NEW m \in Milestones, Site!CompleteInspection(m)
    PROVE  AsideFact
<1>1. /\ inspected' = [inspected EXCEPT ![m] = "completed"]
      /\ UNCHANGED <<project, milestones, updates, work, waived, outdated, overlapped>>
  BY DEF Site!CompleteInspection
<1>2. /\ updates \in [Updates -> UpdateRow]
      /\ \A v \in Updates : updates[v].milestone \in Made(milestones) \cup {NoMilestone}
      /\ inspected \in [Milestones -> {"none", "requested", "completed"}]
  BY DEF SiteTypes
<1>3. /\ inspected' \in [Milestones -> {"none", "requested", "completed"}]
      /\ \A n \in Milestones : inspected[n] = "completed" => inspected'[n] = "completed"
  BY <1>1, <1>2
<1> QED
  BY <1>1, <1>2, <1>3 DEF AsideFact

(* Every step of the project is one of those.                              *)
LEMMA SiteStepsAre ==
    ASSUME SiteTypes, Site!Next \/ UNCHANGED site
    PROVE  SiteStep
<1>1. ASSUME NEW c \in Calls, Site!Loading(c) PROVE BeginFact(c)
  <2>1. ASSUME NEW m \in Milestones,
           \/ \E gate \in BOOLEAN : Site!BeginEditMilestone(c, m, gate)
           \/ \E value \in Values \cup {milestones[m].progress},
                status \in ByHand \cup {milestones[m].status} :
                Site!BeginProgress(c, m, value, status)
           \/ Site!BeginRequest(c, m)
        PROVE BeginFact(c)
    BY <2>1, MilestoneLoads
  <2>2. ASSUME NEW u \in Updates, Site!BeginApprove(c, u) PROVE BeginFact(c)
    BY <2>2, ApproveBegins
  <2>3. ASSUME \/ \E next \in DOMAIN Site!ValidTransitions : Site!BeginTransition(c, next)
               \/ Site!BeginEditProject(c)
        PROVE BeginFact(c)
    BY <2>3, ProjectBegins
  <2> QED
    BY <1>1, <2>1, <2>2, <2>3 DEF Site!Loading
<1>2. ASSUME NEW c \in Calls, Site!Saving(c) PROVE SiteStep
  <2>1. ASSUME Site!SaveTransition(c) \/ Site!SaveProject(c) PROVE ProjectFact(c)
    BY <2>1, ProjectSaves
  <2>2. ASSUME Site!SaveMilestone(c) PROVE EditFact(c)
    BY <2>2, EditSaves
  <2>3. ASSUME Site!SaveProgress(c) PROVE ProgressFact(c)
    BY <2>3, ProgressSaves
  <2>4. ASSUME Site!AddLink(c) PROVE LinkFact(c)
    BY <2>4, LinkSaves
  <2>5. ASSUME Site!AwaitInspection(c) PROVE AwaitFact(c)
    BY <2>5, AwaitSaves
  <2>6. ASSUME Site!ApproveUpdate(c) PROVE ApproveFact(c)
    BY <2>6, ApproveSaves
  <2>7. ASSUME Site!ApplyUpdate(c) PROVE ApplyFact(c)
    BY <2>7, ApplySaves
  <2>8. ASSUME Site!CommitUpdate(c) PROVE CommitFact(c)
    BY <2>8, CommitSaves
  <2>9. ASSUME Site!Die(c) PROVE DeathFact(c)
    BY <2>9, CallDies
  <2> QED
    BY <1>2, <2>1, <2>2, <2>3, <2>4, <2>5, <2>6, <2>7, <2>8, <2>9 DEF Site!Saving, SiteStep
<1>3. ASSUME Site!OneStep PROVE SiteStep
  <2>1. ASSUME NEW m \in Milestones, NEW gate \in BOOLEAN, Site!CreateMilestone(m, gate)
        PROVE CreateFact(m)
    BY <2>1, MilestoneCreated
  <2>2. ASSUME NEW m \in Milestones, Site!DeleteMilestone(m) PROVE DeleteFact(m)
    BY <2>2, MilestoneDeleted
  <2>3. ASSUME NEW m \in Milestones, Site!CompleteInspection(m) PROVE AsideFact
    BY <2>3, InspectionCompletes
  <2>4. ASSUME NEW u \in Updates,
           \/ \E m \in Milestones \cup {NoMilestone}, value \in Values : Site!CreateUpdate(u, m, value)
           \/ Site!SubmitUpdate(u) \/ Site!RejectUpdate(u) \/ Site!DeleteUpdate(u)
        PROVE AsideFact
    BY <2>4, UpdatesMove
  <2> QED
    BY <1>3, <2>1, <2>2, <2>3, <2>4 DEF Site!OneStep, SiteStep
<1>4. ASSUME UNCHANGED site PROVE SiteStep
  <2>1. UNCHANGED <<project, milestones, inspected, updates, work, waived, outdated, overlapped>>
    BY <1>4 DEF site
  <2>2. AsideFact
    BY <2>1 DEF AsideFact, SiteTypes
  <2> QED
    BY <2>2 DEF SiteStep
<1> QED
  BY <1>1, <1>2, <1>3, <1>4 DEF Site!Next, SiteStep

-----------------------------------------------------------------------------
(* The types are kept.                                                     *)
RowsKept ==
    /\ milestones' \in [Milestones -> MilestoneRow]
    /\ IsFiniteSet(Made(milestones'))
    /\ \A m \in Milestones : milestones'[m].live => m \in Made(milestones')
    /\ Made(milestones) \subseteq Made(milestones')

WorkKept ==
    /\ work' \in [Calls -> SiteCall]
    /\ \A c \in Calls : AboutMade(work'[c], Made(milestones'))

UpdatesKept ==
    /\ updates' \in [Updates -> UpdateRow]
    /\ \A u \in Updates : updates'[u].milestone \in Made(milestones') \cup {NoMilestone}

LEMMA RowPut ==
    ASSUME SiteTypes, NEW m \in Milestones, NEW row \in MilestoneRow, row.status # "absent",
           milestones' = [milestones EXCEPT ![m] = row]
    PROVE  RowsKept
<1>1. /\ milestones \in [Milestones -> MilestoneRow] /\ IsFiniteSet(Made(milestones))
      /\ \A n \in Milestones : milestones[n].live => n \in Made(milestones)
  BY DEF SiteTypes
<1>2. milestones' \in [Milestones -> MilestoneRow]
  BY <1>1
<1>3. \A n \in Milestones : milestones'[n] = IF n = m THEN row ELSE milestones[n]
  BY <1>1
<1>4. Made(milestones') = Made(milestones) \cup {m}
  BY <1>3 DEF Made
<1>5. IsFiniteSet(Made(milestones'))
  <2>1. IsFiniteSet(Made(milestones) \cup {m})
    BY <1>1, FS_AddElement
  <2> QED
    BY <1>4, <2>1
<1>6. \A n \in Milestones : milestones'[n].live => n \in Made(milestones')
  BY <1>1, <1>3, <1>4
<1> QED
  BY <1>2, <1>4, <1>5, <1>6 DEF RowsKept

LEMMA RowsStay == ASSUME SiteTypes, milestones' = milestones PROVE RowsKept
BY DEF SiteTypes, RowsKept

LEMMA RowMoves ==
    ASSUME SiteTypes, NEW m, NEW row, RowBecomes(m, row)
    PROVE  RowsKept
BY RowPut, MadeIsMilestone DEF RowBecomes

LEMMA AboutMore ==
    ASSUME NEW k, NEW made, NEW more, AboutMade(k, made), made \subseteq more
    PROVE  AboutMade(k, more)
BY DEF AboutMade

LEMMA CallPut ==
    ASSUME SiteTypes, RowsKept, NEW c \in Calls, NEW k, WorkBecomes(c, k),
           AboutMade(k, Made(milestones'))
    PROVE  WorkKept
<1>1. /\ work \in [Calls -> SiteCall] /\ k \in SiteCall
      /\ work' = [work EXCEPT ![c] = k]
      /\ \A d \in Calls : AboutMade(work[d], Made(milestones))
      /\ Made(milestones) \subseteq Made(milestones')
  BY DEF SiteTypes, WorkBecomes, RowsKept
<1>2. \A d \in Calls : work'[d] = IF d = c THEN k ELSE work[d]
  BY <1>1
<1>3. \A d \in Calls : AboutMade(work[d], Made(milestones'))
  BY <1>1, AboutMore
<1> QED
  BY <1>1, <1>2, <1>3 DEF WorkKept

LEMMA CallsStay == ASSUME SiteTypes, RowsKept, work' = work PROVE WorkKept
<1>1. \A d \in Calls : AboutMade(work[d], Made(milestones'))
  BY AboutMore DEF SiteTypes, RowsKept
<1> QED
  BY <1>1 DEF SiteTypes, WorkKept

LEMMA UpdatesStay == ASSUME SiteTypes, RowsKept, updates' = updates PROVE UpdatesKept
BY DEF SiteTypes, RowsKept, UpdatesKept

LEMMA IdleIsAboutNothing == \A made : AboutMade(Site!Idle, made)
BY IdleWork DEF AboutMade

LEMMA TypesAreKept ==
    ASSUME SiteTypes, RowsKept, WorkKept, UpdatesKept, project' \in ProjectRow,
           inspected' \in [Milestones -> {"none", "requested", "completed"}]
    PROVE  SiteTypes'
BY DEF SiteTypes, RowsKept, WorkKept, UpdatesKept

LEMMA TypesStay ==
    ASSUME SiteTypes, SiteStep
    PROVE  SiteTypes'
<1>0. /\ project \in ProjectRow
      /\ inspected \in [Milestones -> {"none", "requested", "completed"}]
  BY DEF SiteTypes
<1>1. ASSUME NEW c \in Calls, BeginFact(c) PROVE SiteTypes'
  <2>1. PICK k : Loads(k) /\ Site!Begin(c, k)
    BY <1>1 DEF BeginFact
  <2>2. /\ WorkBecomes(c, k) /\ AboutMade(k, Made(milestones))
        /\ UNCHANGED <<project, milestones, inspected, updates>>
    BY <2>1 DEF Loads, Site!Begin, WorkBecomes
  <2>3. RowsKept
    BY <2>2, RowsStay
  <2>4. WorkKept
    BY <2>2, <2>3, CallPut
  <2> QED
    BY <1>0, <2>2, <2>3, <2>4, UpdatesStay, TypesAreKept
<1>2. ASSUME NEW c \in Calls, RowsKept, WorkBecomes(c, Site!Idle),
             project' \in ProjectRow, UNCHANGED <<inspected, updates>>
      PROVE SiteTypes'
  BY <1>0, <1>2, CallPut, IdleIsAboutNothing, UpdatesStay, TypesAreKept
<1>3. ASSUME NEW c \in Calls, ProjectFact(c) PROVE SiteTypes'
  BY <1>2, <1>3, RowsStay DEF ProjectFact
<1>4. ASSUME NEW c \in Calls, EditFact(c) \/ ProgressFact(c) \/ AwaitFact(c) PROVE SiteTypes'
  <2>1. RowsKept
    BY <1>4, RowMoves DEF EditFact, ProgressFact, AwaitFact
  <2>2. WorkBecomes(c, Site!Idle) /\ UNCHANGED <<project, inspected, updates>>
    BY <1>4 DEF EditFact, ProgressFact, AwaitFact
  <2> QED
    BY <1>0, <1>2, <2>1, <2>2
<1>5. ASSUME NEW c \in Calls, LinkFact(c) PROVE SiteTypes'
  <2>1. PICK k : WorkBecomes(c, k) /\ k.step = "await" /\ k.milestone = work[c].milestone
    BY <1>5 DEF LinkFact
  <2>2. work[c].step = "link" /\ UNCHANGED <<project, milestones, updates>>
    BY <1>5 DEF LinkFact
  <2>3. AboutMade(k, Made(milestones'))
    BY <2>1, <2>2, CallOf DEF AboutMade
  <2>4. RowsKept
    BY <2>2, RowsStay
  <2>5. WorkKept
    BY <2>1, <2>3, <2>4, CallPut
  <2> QED
    BY <1>0, <1>5, <2>2, <2>4, <2>5, UpdatesStay, TypesAreKept DEF LinkFact
<1>6. ASSUME NEW c \in Calls, ApproveFact(c) PROVE SiteTypes'
  <2>1. PICK k : /\ WorkBecomes(c, k) /\ k.step = "apply" /\ k.update = work[c].update
                 /\ k.milestone = work[c].milestone /\ k.row = work[c].row
    BY <1>6 DEF ApproveFact
  <2>2. /\ work[c].step = "approve" /\ UNCHANGED <<project, milestones, inspected>>
        /\ updates' \in [Updates -> UpdateRow]
        /\ \A u \in Updates : updates'[u].milestone = updates[u].milestone
    BY <1>6 DEF ApproveFact
  <2>3. AboutMade(k, Made(milestones'))
    BY <2>1, <2>2, CallOf DEF AboutMade
  <2>4. RowsKept
    BY <2>2, RowsStay
  <2>5. WorkKept
    BY <2>1, <2>3, <2>4, CallPut
  <2>6. UpdatesKept
    BY <2>2 DEF SiteTypes, UpdatesKept
  <2> QED
    BY <1>0, <2>2, <2>4, <2>5, <2>6, TypesAreKept
<1>7. ASSUME NEW c \in Calls, ApplyFact(c) PROVE SiteTypes'
  <2>1. PICK k : /\ WorkBecomes(c, k) /\ k.step = "commit" /\ k.update = work[c].update
                 /\ k.milestone = work[c].milestone /\ k.row.status # "absent"
    BY <1>7 DEF ApplyFact
  <2>2. work[c].step = "apply" /\ UNCHANGED <<project, milestones, inspected, updates>>
    BY <1>7 DEF ApplyFact
  <2>3. AboutMade(k, Made(milestones'))
    BY <2>1, <2>2, CallOf DEF AboutMade
  <2>4. RowsKept
    BY <2>2, RowsStay
  <2>5. WorkKept
    BY <2>1, <2>3, <2>4, CallPut
  <2> QED
    BY <1>0, <2>2, <2>4, <2>5, UpdatesStay, TypesAreKept
<1>8. ASSUME NEW c \in Calls, CommitFact(c) PROVE SiteTypes'
  <2>1. RowsKept
    BY <1>8, RowMoves, RowsStay DEF CommitFact
  <2> QED
    BY <1>2, <1>8, <2>1 DEF CommitFact
<1>9. ASSUME NEW c \in Calls, DeathFact(c) PROVE SiteTypes'
  BY <1>0, <1>2, <1>9, RowsStay DEF DeathFact
<1>10. ASSUME NEW m \in Milestones, CreateFact(m) \/ DeleteFact(m) PROVE SiteTypes'
  <2>1. RowsKept
    <3>1. ASSUME CreateFact(m) PROVE RowsKept
      BY <3>1, RowPut DEF CreateFact
    <3>2. ASSUME DeleteFact(m) PROVE RowsKept
      BY <3>2, RowMoves DEF DeleteFact
    <3> QED
      BY <1>10, <3>1, <3>2
  <2>2. UNCHANGED <<project, inspected, updates, work>>
    BY <1>10 DEF CreateFact, DeleteFact
  <2> QED
    BY <1>0, <2>1, <2>2, CallsStay, UpdatesStay, TypesAreKept
<1>11. ASSUME AsideFact PROVE SiteTypes'
  <2>1. RowsKept /\ UNCHANGED <<project, milestones, work>>
    BY <1>11, RowsStay DEF AsideFact
  <2>2. UpdatesKept
    BY <1>11 DEF AsideFact, UpdatesKept
  <2> QED
    BY <1>0, <1>11, <2>1, <2>2, CallsStay, TypesAreKept DEF AsideFact
<1> QED
  BY <1>1, <1>3, <1>4, <1>5, <1>6, <1>7, <1>8, <1>9, <1>10, <1>11 DEF SiteStep

-----------------------------------------------------------------------------
(* A milestone is guarded while it is gated and not inspected, unless a    *)
(* manager overruled it.  It is not completed; no call will write that it  *)
(* is; and a call that computes its status knows of the gate.              *)
Guarded == {m \in Milestones \ waived : milestones[m].gate /\ inspected[m] # "completed"}

KnowsGate(k, guarded) ==
    k.milestone \in guarded =>
       /\ k.step \in {"edit", "commit"} => k.row.status # "completed"
       /\ k.step \in {"progress", "approve", "apply"} => k.row.gate

GateInv ==
    /\ \A m \in Guarded : milestones[m].status # "completed"
    /\ \A c \in Calls : KnowsGate(work[c], Guarded)

LEMMA KnowsLess ==
    ASSUME NEW k, NEW guarded, NEW fewer, KnowsGate(k, guarded), fewer \subseteq guarded
    PROVE  KnowsGate(k, fewer)
BY DEF KnowsGate

LEMMA IdleKnowsGate == \A guarded : KnowsGate(Site!Idle, guarded)
BY IdleWork DEF KnowsGate

LEMMA GateStays ==
    ASSUME SiteTypes, GateInv, Guarded' \subseteq Guarded, NEW c \in Calls, NEW k,
           WorkBecomes(c, k), KnowsGate(k, Guarded'),
           \A m \in Guarded' : milestones'[m].status # "completed"
    PROVE  GateInv'
<1>1. /\ work \in [Calls -> SiteCall] /\ work' = [work EXCEPT ![c] = k]
  BY DEF SiteTypes, WorkBecomes
<1>2. \A d \in Calls : work'[d] = IF d = c THEN k ELSE work[d]
  BY <1>1
<1>3. \A d \in Calls : KnowsGate(work[d], Guarded')
  BY KnowsLess DEF GateInv
<1>4. \A d \in Calls : KnowsGate(work'[d], Guarded')
  BY <1>2, <1>3
<1> QED
  BY <1>4 DEF GateInv

(* A row that keeps its gate guards no more, and is completed only if it   *)
(* was or if it is not guarded.                                            *)
LEMMA GateRow ==
    ASSUME SiteTypes, GateInv, NEW m, NEW row, RowBecomes(m, row),
           waived \subseteq waived', inspected' = inspected,
           row.gate /\ m \notin waived' => milestones[m].gate,
           m \in Guarded /\ m \notin waived' => row.status # "completed"
    PROVE  /\ Guarded' \subseteq Guarded
           /\ \A n \in Guarded' : milestones'[n].status # "completed"
<1>1. /\ m \in Milestones /\ milestones \in [Milestones -> MilestoneRow]
      /\ milestones' = [milestones EXCEPT ![m] = row]
  BY MadeIsMilestone DEF SiteTypes, RowBecomes
<1>2. \A n \in Milestones : milestones'[n] = IF n = m THEN row ELSE milestones[n]
  BY <1>1
<1>3. Guarded' \subseteq Guarded
  BY <1>1, <1>2 DEF Guarded
<1>4. ASSUME NEW n \in Guarded' PROVE milestones'[n].status # "completed"
  <2>1. n \in Milestones /\ n \notin waived' /\ n \in Guarded
    BY <1>3, <1>4 DEF Guarded
  <2> QED
    BY <1>2, <2>1 DEF GateInv
<1> QED
  BY <1>3, <1>4

LEMMA GateRests ==
    ASSUME GateInv, UNCHANGED <<milestones, waived>>,
           \A m \in Milestones : inspected[m] = "completed" => inspected'[m] = "completed"
    PROVE  /\ Guarded' \subseteq Guarded
           /\ \A m \in Guarded' : milestones'[m].status # "completed"
<1>1. Guarded' \subseteq Guarded
  BY DEF Guarded
<1> QED
  BY <1>1 DEF GateInv

LEMMA GuardedIs ==
    \A m \in Guarded : m \in Milestones /\ milestones[m].gate /\ inspected[m] # "completed"
BY DEF Guarded

LEMMA GateIsKept ==
    ASSUME SiteTypes, GateInv, SiteStep
    PROVE  GateInv'
<1>1. ASSUME NEW c \in Calls, BeginFact(c) PROVE GateInv'
  <2>1. PICK k : Loads(k) /\ Site!Begin(c, k)
    BY <1>1 DEF BeginFact
  <2>2. WorkBecomes(c, k) /\ UNCHANGED <<milestones, inspected, waived>>
    BY <2>1 DEF Loads, Site!Begin, WorkBecomes
  <2>3. KnowsGate(k, Guarded)
    BY <2>1, GuardedIs DEF Loads, KnowsGate, GateInv
  <2>4. Guarded' = Guarded
    BY <2>2 DEF Guarded
  <2> QED
    BY <2>2, <2>3, <2>4, GateRests, GateStays
<1>2. ASSUME NEW c \in Calls, WorkBecomes(c, Site!Idle),
             UNCHANGED <<milestones, inspected, waived>>
      PROVE GateInv'
  BY <1>2, GateRests, GateStays, IdleKnowsGate
<1>3. ASSUME NEW c \in Calls, ProjectFact(c) \/ DeathFact(c) PROVE GateInv'
  BY <1>2, <1>3 DEF ProjectFact, DeathFact
<1>4. ASSUME NEW c \in Calls, NEW row, RowBecomes(work[c].milestone, row),
             WorkBecomes(c, Site!Idle), waived \subseteq waived', inspected' = inspected,
             row.gate /\ work[c].milestone \notin waived' => milestones[work[c].milestone].gate,
             work[c].milestone \in Guarded /\ work[c].milestone \notin waived' =>
                row.status # "completed"
      PROVE GateInv'
  BY <1>4, GateRow, GateStays, IdleKnowsGate
<1>5. ASSUME NEW c \in Calls, EditFact(c) PROVE GateInv'
  <2>1. KnowsGate(work[c], Guarded)
    BY DEF GateInv
  <2>2. work[c].milestone \in Guarded => work[c].row.status # "completed"
    BY <1>5, <2>1 DEF EditFact, KnowsGate
  <2>3. /\ waived \subseteq waived'
        /\ work[c].row.gate /\ work[c].milestone \notin waived' => milestones[work[c].milestone].gate
    BY <1>5 DEF EditFact
  <2> QED
    BY <1>4, <1>5, <2>2, <2>3 DEF EditFact
<1>6. ASSUME NEW c \in Calls, ProgressFact(c) PROVE GateInv'
  <2> DEFINE m == work[c].milestone
  <2>1. PICK row :
           /\ RowBecomes(m, row) /\ row.gate = milestones[m].gate
           /\ \/ row.status # "completed"
              \/ work[c].row.gate => inspected[m] = "completed"
              \/ milestones[m].status = "completed"
              \/ m \in waived'
    BY <1>6 DEF ProgressFact
  <2>2. m \in Guarded => work[c].row.gate
    BY <1>6 DEF ProgressFact, GateInv, KnowsGate
  <2>3. m \in Guarded /\ m \notin waived' => row.status # "completed"
    BY <2>1, <2>2, GuardedIs DEF GateInv
  <2> QED
    BY <1>4, <1>6, <2>1, <2>3 DEF ProgressFact
<1>7. ASSUME NEW c \in Calls, LinkFact(c) PROVE GateInv'
  <2>1. PICK k : WorkBecomes(c, k) /\ k.step = "await"
    BY <1>7 DEF LinkFact
  <2>2. KnowsGate(k, Guarded')
    BY <2>1 DEF KnowsGate
  <2> QED
    BY <1>7, <2>1, <2>2, GateRests, GateStays DEF LinkFact
<1>8. ASSUME NEW c \in Calls, AwaitFact(c) PROVE GateInv'
  BY <1>4, <1>8 DEF AwaitFact
<1>9. ASSUME NEW c \in Calls, ApproveFact(c) PROVE GateInv'
  <2>1. PICK k : /\ WorkBecomes(c, k) /\ k.step = "apply"
                 /\ k.milestone = work[c].milestone /\ k.row = work[c].row
    BY <1>9 DEF ApproveFact
  <2>2. KnowsGate(k, Guarded)
    BY <1>9, <2>1 DEF KnowsGate, ApproveFact, GateInv
  <2>3. UNCHANGED <<milestones, inspected, waived>>
    BY <1>9 DEF ApproveFact
  <2> QED
    BY <2>1, <2>2, <2>3, GateRests, KnowsLess, GateStays
<1>10. ASSUME NEW c \in Calls, ApplyFact(c) PROVE GateInv'
  <2>1. PICK k : /\ WorkBecomes(c, k) /\ k.step = "commit"
                 /\ k.milestone = work[c].milestone
                 /\ k.row.status = "completed" /\ k.milestone # NoMilestone =>
                      (work[c].row.gate => inspected[k.milestone] = "completed")
    BY <1>10 DEF ApplyFact
  <2>2. k.milestone \in Guarded => work[c].row.gate
    BY <1>10, <2>1 DEF KnowsGate, ApplyFact, GateInv
  <2>3. KnowsGate(k, Guarded)
    BY <2>1, <2>2, GuardedIs, SitePartsAssumption DEF KnowsGate
  <2>4. UNCHANGED <<milestones, inspected, waived>>
    BY <1>10 DEF ApplyFact
  <2> QED
    BY <2>1, <2>3, <2>4, GateRests, KnowsLess, GateStays
<1>11. ASSUME NEW c \in Calls, CommitFact(c) PROVE GateInv'
  <2>1. CASE milestones' = milestones
    BY <1>2, <1>11, <2>1 DEF CommitFact
  <2>2. ASSUME NEW row, RowBecomes(work[c].milestone, row),
               row.gate = milestones[work[c].milestone].gate, row.status = work[c].row.status
        PROVE GateInv'
    <3>1. work[c].milestone \in Guarded => row.status # "completed"
      BY <1>11, <2>2 DEF CommitFact, GateInv, KnowsGate
    <3> QED
      BY <1>4, <1>11, <2>2, <3>1 DEF CommitFact
  <2> QED
    BY <1>11, <2>1, <2>2 DEF CommitFact
<1>12. ASSUME NEW m \in Milestones, CreateFact(m) PROVE GateInv'
  <2>1. PICK row : /\ row.status = "not_started"
                   /\ milestones' = [milestones EXCEPT ![m] = row]
    BY <1>12 DEF CreateFact
  <2>2. m \notin Made(milestones) /\ UNCHANGED <<inspected, work, waived>>
    BY <1>12 DEF CreateFact
  <2>3. \A n \in Milestones : milestones'[n] = IF n = m THEN row ELSE milestones[n]
    BY <2>1 DEF SiteTypes
  <2>4. Guarded' \subseteq Guarded \cup {m}
    BY <2>2, <2>3 DEF Guarded
  <2>5. \A n \in Guarded' : milestones'[n].status # "completed"
    <3>1. ASSUME NEW n \in Guarded', n # m PROVE milestones'[n].status # "completed"
      <4>1. n \in Guarded
        BY <2>4, <3>1
      <4> QED
        BY <2>3, <3>1, <4>1, GuardedIs DEF GateInv
    <3>2. milestones'[m].status # "completed"
      BY <2>1, <2>3
    <3> QED
      BY <3>1, <3>2
  <2>6. ASSUME NEW c \in Calls PROVE KnowsGate(work'[c], Guarded')
    <3>1. work'[c] = work[c] /\ KnowsGate(work[c], Guarded) /\ AboutMade(work[c], Made(milestones))
      BY <2>2, CallOf DEF GateInv
    <3>2. CASE work[c].milestone # m
      BY <2>4, <3>1, <3>2 DEF KnowsGate
    <3>3. CASE work[c].milestone = m
      <4>1. work[c].milestone \notin Made(milestones) \cup {NoMilestone}
        BY <2>2, <3>3, SitePartsAssumption
      <4> QED
        BY <3>1, <4>1 DEF KnowsGate, AboutMade
    <3> QED
      BY <3>2, <3>3
  <2> QED
    BY <2>5, <2>6 DEF GateInv
<1>13. ASSUME UNCHANGED work, Guarded' \subseteq Guarded,
              \A n \in Guarded' : milestones'[n].status # "completed"
       PROVE  GateInv'
  <2>1. \A c \in Calls : KnowsGate(work'[c], Guarded')
    BY <1>13, KnowsLess DEF GateInv
  <2> QED
    BY <1>13, <2>1 DEF GateInv
<1>14. ASSUME NEW m \in Milestones, DeleteFact(m) PROVE GateInv'
  <2>1. PICK row : /\ RowBecomes(m, row)
                   /\ row.gate = milestones[m].gate /\ row.status = milestones[m].status
    BY <1>14 DEF DeleteFact
  <2>2. m \in Guarded => row.status # "completed"
    BY <2>1 DEF GateInv
  <2>3. UNCHANGED <<inspected, work, waived>>
    BY <1>14 DEF DeleteFact
  <2>4. /\ Guarded' \subseteq Guarded
        /\ \A n \in Guarded' : milestones'[n].status # "completed"
    BY <2>1, <2>2, <2>3, GateRow
  <2> QED
    BY <1>13, <2>3, <2>4
<1>15. ASSUME AsideFact PROVE GateInv'
  BY <1>13, <1>15, GateRests DEF AsideFact
<1> QED
  BY <1>1, <1>3, <1>5, <1>6, <1>7, <1>8, <1>9, <1>10, <1>11, <1>12, <1>14, <1>15 DEF SiteStep

LEMMA GateIsHeld == ASSUME SiteTypes, GateInv PROVE Site!GateHolds
BY DEF Site!GateHolds, GateInv, Guarded

-----------------------------------------------------------------------------
(* While no calls have overlapped, at most one is under way, and what it   *)
(* loaded is what is stored; an approval that will be committed has        *)
(* computed the progress from what it will write.                          *)
AgreesNow(k) ==
    /\ k.step = "edit_project" => k.project.progress = project.progress
    /\ k.step = "edit" =>
          /\ k.row.status = milestones[k.milestone].status
          /\ k.row.progress = milestones[k.milestone].progress
          /\ k.row.live = milestones[k.milestone].live
    /\ k.step = "commit" =>
          k.project.progress = Site!Overall(Site!WithRow(k.milestone, k.row))

AloneInv ==
    /\ overlapped => outdated
    /\ ~overlapped => \A c, d \in Calls :
          work[c] # Site!Idle /\ work[d] # Site!Idle => c = d
    /\ ~overlapped => \A c \in Calls : AgreesNow(work[c])
    /\ ~outdated => project.progress = Site!Overall(milestones)

LEMMA IdleSiteAgrees == AgreesNow(Site!Idle)
BY IdleWork DEF AgreesNow

LEMMA IdleSiteAgreesThen == AgreesNow(Site!Idle)'
BY IdleWork DEF AgreesNow

(* One call goes on, and the others rest.                                  *)
LEMMA OneGoesOn ==
    ASSUME SiteTypes, AloneInv, NEW c \in Calls, NEW k, WorkBecomes(c, k),
           overlapped' => outdated',
           ~overlapped' => /\ ~overlapped
                           /\ \A d \in Calls \ {c} : work[d] = Site!Idle
                           /\ AgreesNow(k)',
           ~outdated' => project'.progress = Site!Overall(milestones')
    PROVE  AloneInv'
<1>1. work \in [Calls -> SiteCall] /\ work' = [work EXCEPT ![c] = k]
  BY DEF SiteTypes, WorkBecomes
<1>2. work'[c] = k /\ \A d \in Calls \ {c} : work'[d] = work[d]
  BY <1>1
<1>3. ASSUME ~overlapped'
      PROVE  /\ \A d \in Calls \ {c} : work'[d] = Site!Idle
             /\ \A d \in Calls : AgreesNow(work[d])'
  <2>1. \A d \in Calls \ {c} : work'[d] = Site!Idle
    BY <1>2, <1>3
  <2>2. ASSUME NEW d \in Calls PROVE AgreesNow(work[d])'
    <3>1. CASE d = c
      <4>1. AgreesNow(k)'
        BY <1>3
      <4> QED
        BY <1>2, <3>1, <4>1 DEF AgreesNow
    <3>2. CASE d # c
      <4>1. work'[d] = Site!Idle
        BY <2>1, <3>2
      <4> QED
        BY <4>1, IdleWork DEF AgreesNow
    <3> QED
      BY <3>1, <3>2
  <2> QED
    BY <2>1, <2>2
<1>4. ~overlapped' => \A d, e \in Calls :
         work'[d] # Site!Idle /\ work'[e] # Site!Idle => d = e
  BY <1>3
<1> QED
  BY <1>3, <1>4 DEF AloneInv

LEMMA OthersRest ==
    ASSUME AloneInv, ~overlapped, NEW c \in Calls, work[c].step # "idle"
    PROVE  \A d \in Calls \ {c} : work[d] = Site!Idle
BY IdleWork DEF AloneInv

(* A call that changed the rows but not what the mean looks at.            *)
LEMMA SameOverall ==
    ASSUME SiteTypes, NEW m, NEW row, RowBecomes(m, row),
           row.live = milestones[m].live, row.progress = milestones[m].progress,
           row.status = "skipped" <=> milestones[m].status = "skipped"
    PROVE  Site!Overall(milestones') = Site!Overall(milestones)
<1>1. /\ m \in Milestones /\ milestones \in [Milestones -> MilestoneRow]
      /\ milestones' = [milestones EXCEPT ![m] = row]
      /\ IsFiniteSet(Made(milestones))
      /\ \A n \in Milestones : milestones[n].live => n \in Made(milestones)
  BY MadeIsMilestone DEF SiteTypes, RowBecomes
<1>2. \A n \in Milestones : milestones'[n] = IF n = m THEN row ELSE milestones[n]
  BY <1>1
<1>3. Averaged(milestones) \subseteq Made(milestones)
  BY <1>1 DEF Averaged
<1>4. IsFiniteSet(Averaged(milestones))
  BY <1>1, <1>3, FS_Subset
<1>5. \A n \in Milestones :
         /\ milestones'[n].live = milestones[n].live
         /\ milestones'[n].progress = milestones[n].progress
         /\ milestones'[n].status = "skipped" <=> milestones[n].status = "skipped"
  BY <1>2
<1> QED
  BY <1>4, <1>5, OverallLooksAt

LEMMA AloneIsKept ==
    ASSUME SiteTypes, AloneInv, SiteStep
    PROVE  AloneInv'
<1>0. work \in [Calls -> SiteCall]
  BY DEF SiteTypes
<1>1. ASSUME NEW c \in Calls, BeginFact(c) PROVE AloneInv'
  <2>1. PICK k : Loads(k) /\ Site!Begin(c, k)
    BY <1>1 DEF BeginFact
  <2>2. /\ WorkBecomes(c, k) /\ work[c] = Site!Idle
        /\ overlapped' = (overlapped \/ \E d \in Calls : work[d] # Site!Idle)
        /\ outdated' = (outdated \/ overlapped')
        /\ UNCHANGED <<project, milestones>>
    BY <2>1 DEF Loads, Site!Begin, WorkBecomes
  <2>3. AgreesNow(k)'
    BY <2>1, <2>2 DEF Loads, AgreesNow
  <2>4. ~overlapped' => ~overlapped /\ \A d \in Calls \ {c} : work[d] = Site!Idle
    BY <2>2
  <2>5. ~outdated' => project'.progress = Site!Overall(milestones')
    BY <2>2 DEF AloneInv
  <2>6. overlapped' => outdated'
    BY <2>2
  <2> QED
    BY <2>2, <2>3, <2>4, <2>5, <2>6, OneGoesOn
(* The call that was under way goes on or ends.                            *)
<1>2. ASSUME NEW c \in Calls, NEW k, work[c].step # "idle", WorkBecomes(c, k),
             overlapped' = overlapped, overlapped => outdated',
             ~overlapped => AgreesNow(k)',
             ~outdated' => project'.progress = Site!Overall(milestones')
      PROVE AloneInv'
  BY <1>2, OthersRest, OneGoesOn
<1>3. ASSUME NEW c \in Calls, work[c].step # "idle", WorkBecomes(c, Site!Idle),
             overlapped' = overlapped, overlapped => outdated',
             ~outdated' => project'.progress = Site!Overall(milestones')
      PROVE AloneInv'
  BY <1>2, <1>3, IdleSiteAgreesThen
<1>4. ASSUME NEW c \in Calls, ProjectFact(c) PROVE AloneInv'
  <2>1. /\ work[c].step \in {"transition", "edit_project"} /\ WorkBecomes(c, Site!Idle)
        /\ overlapped' = overlapped /\ milestones' = milestones
        /\ outdated => outdated'
        /\ \/ outdated'
           \/ project'.progress = project.progress
           \/ work[c].step = "edit_project" /\ project' = work[c].project
    BY <1>4 DEF ProjectFact
  <2>2. ASSUME ~outdated' PROVE project'.progress = Site!Overall(milestones')
    <3>1. /\ ~outdated /\ ~overlapped
          /\ project.progress = Site!Overall(milestones) /\ AgreesNow(work[c])
      BY <2>1, <2>2 DEF AloneInv
    <3> QED
      BY <2>1, <2>2, <3>1 DEF AgreesNow
  <2> QED
    BY <1>3, <2>1, <2>2 DEF AloneInv
<1>5. ASSUME NEW c \in Calls, EditFact(c) PROVE AloneInv'
  <2>1. /\ work[c].step = "edit" /\ WorkBecomes(c, Site!Idle)
        /\ RowBecomes(work[c].milestone, work[c].row)
        /\ UNCHANGED <<project, outdated, overlapped>>
    BY <1>5 DEF EditFact
  <2>2. ASSUME ~outdated' PROVE project'.progress = Site!Overall(milestones')
    <3>1. project.progress = Site!Overall(milestones) /\ AgreesNow(work[c])
      BY <2>1, <2>2 DEF AloneInv
    <3>2. Site!Overall(milestones') = Site!Overall(milestones)
      BY <2>1, <3>1, SameOverall DEF AgreesNow
    <3> QED
      BY <2>1, <3>1, <3>2
  <2> QED
    BY <1>3, <2>1, <2>2 DEF AloneInv
<1>6. ASSUME NEW c \in Calls, ProgressFact(c) PROVE AloneInv'
  BY <1>3, <1>6 DEF ProgressFact
<1>7. ASSUME NEW c \in Calls, NEW k, work[c].step # "idle", WorkBecomes(c, k),
             k.step \in {"await", "apply"},
             UNCHANGED <<project, milestones, outdated, overlapped>>
      PROVE AloneInv'
  <2>1. AgreesNow(k)'
    BY <1>7 DEF AgreesNow
  <2> QED
    BY <1>2, <1>7, <2>1 DEF AloneInv
<1>8. ASSUME NEW c \in Calls, LinkFact(c) \/ ApproveFact(c) PROVE AloneInv'
  <2>1. ASSUME LinkFact(c) PROVE AloneInv'
    BY <1>7, <2>1 DEF LinkFact
  <2>2. ASSUME ApproveFact(c) PROVE AloneInv'
    BY <1>7, <2>2 DEF ApproveFact
  <2> QED
    BY <1>8, <2>1, <2>2
<1>9. ASSUME NEW c \in Calls, AwaitFact(c) PROVE AloneInv'
  <2> DEFINE m == work[c].milestone
  <2>1. /\ work[c].step = "await" /\ WorkBecomes(c, Site!Idle)
        /\ outdated' = (outdated \/ milestones[m].status = "skipped")
        /\ UNCHANGED <<project, overlapped>>
    BY <1>9 DEF AwaitFact
  <2>2. PICK row : /\ RowBecomes(m, row) /\ row.status = "awaiting_inspection"
                   /\ row.live = milestones[m].live
                   /\ row.progress = milestones[m].progress
    BY <1>9 DEF AwaitFact
  <2>3. ASSUME ~outdated' PROVE project'.progress = Site!Overall(milestones')
    <3>1. ~outdated /\ milestones[m].status # "skipped"
      BY <2>1, <2>3
    <3>2. Site!Overall(milestones') = Site!Overall(milestones)
      BY <2>2, <3>1, SameOverall
    <3> QED
      BY <2>1, <3>1, <3>2 DEF AloneInv
  <2>4. overlapped => outdated'
    BY <2>1 DEF AloneInv
  <2> QED
    BY <1>3, <2>1, <2>3, <2>4
<1>10. ASSUME NEW c \in Calls, ApplyFact(c) PROVE AloneInv'
  <2>1. PICK k :
           /\ WorkBecomes(c, k) /\ k.step = "commit"
           /\ k.project.progress = Site!Overall(Site!WithRow(k.milestone, k.row))
    BY <1>10 DEF ApplyFact
  <2>2. work[c].step = "apply" /\ UNCHANGED <<project, milestones, outdated, overlapped>>
    BY <1>10 DEF ApplyFact
  <2>3. AgreesNow(k)'
    BY <2>1, <2>2 DEF AgreesNow, Site!WithRow
  <2> QED
    BY <1>2, <2>1, <2>2, <2>3 DEF AloneInv
<1>11. ASSUME NEW c \in Calls, CommitFact(c) PROVE AloneInv'
  <2>1. /\ work[c].step = "commit" /\ WorkBecomes(c, Site!Idle)
        /\ project'.progress = work[c].project.progress
        /\ milestones' = Site!WithRow(work[c].milestone, work[c].row)
        /\ outdated' = overlapped /\ overlapped' = overlapped
    BY <1>11 DEF CommitFact
  <2>2. ~overlapped => project'.progress = Site!Overall(milestones')
    BY <2>1 DEF AloneInv, AgreesNow
  <2> QED
    BY <1>3, <2>1, <2>2
<1>12. ASSUME NEW c \in Calls, DeathFact(c) PROVE AloneInv'
  BY <1>12, OneGoesOn DEF DeathFact
<1>13. ASSUME NEW m \in Milestones, CreateFact(m) \/ DeleteFact(m) PROVE AloneInv'
  <2>1. /\ outdated' /\ work' = work
        /\ overlapped' = (overlapped \/ \E c \in Calls : work[c] # Site!Idle)
    BY <1>13 DEF CreateFact, DeleteFact
  <2>2. ~overlapped' => \A c \in Calls : work'[c] = Site!Idle
    BY <2>1
  <2>3. ~overlapped' => \A c \in Calls : AgreesNow(work[c])'
    BY <2>2, IdleWork DEF AgreesNow
  <2> QED
    BY <2>1, <2>2, <2>3 DEF AloneInv
<1>14. ASSUME AsideFact PROVE AloneInv'
  <2>1. UNCHANGED <<project, milestones, work, outdated, overlapped>>
    BY <1>14 DEF AsideFact
  <2> QED
    BY <2>1 DEF AloneInv, AgreesNow, Site!WithRow
<1> QED
  BY <1>1, <1>4, <1>5, <1>6, <1>8, <1>9, <1>10, <1>11, <1>12, <1>13, <1>14 DEF SiteStep

-----------------------------------------------------------------------------
(* The project's inductive invariant.                                      *)
SiteInv == SiteTypes /\ GateInv /\ AloneInv

LEMMA SiteInvStarts == ASSUME Site!Init PROVE SiteInv
<1>1. /\ project = Site!Idle.project
      /\ milestones = [m \in Milestones |-> Site!NoRow]
      /\ inspected = [m \in Milestones |-> "none"]
      /\ updates = [u \in Updates |-> Site!NoUpdate]
      /\ work = [c \in Calls |-> Site!Idle]
      /\ outdated = FALSE /\ overlapped = FALSE
  BY DEF Site!Init
<1>2. \A m \in Milestones : milestones[m] = Site!NoRow
  BY <1>1
<1>3. Made(milestones) = {}
  BY <1>2, NoRowFacts DEF Made
<1>4. SiteTypes
  <2>1. Site!NoUpdate \in UpdateRow /\ Site!NoUpdate.milestone = NoMilestone
    BY DEF Site!NoUpdate, UpdateRow, Percentages
  <2>2. milestones \in [Milestones -> MilestoneRow] /\ work \in [Calls -> SiteCall]
    BY <1>1, NoRowFacts, IdleWork
  <2>3. /\ updates \in [Updates -> UpdateRow]
        /\ \A u \in Updates : updates[u].milestone = NoMilestone
    BY <1>1, <2>1
  <2>4. inspected \in [Milestones -> {"none", "requested", "completed"}]
    BY <1>1
  <2>5. IsFiniteSet(Made(milestones))
    BY <1>3, FS_EmptySet
  <2>6. \A m \in Milestones : ~milestones[m].live
    BY <1>2, NoRowFacts
  <2>7. \A c \in Calls : AboutMade(work[c], Made(milestones))
    BY <1>1, IdleIsAboutNothing
  <2> QED
    BY <1>1, <2>2, <2>3, <2>4, <2>5, <2>6, <2>7, IdleWork DEF SiteTypes
<1>5. GateInv
  <2>1. Guarded = {}
    BY <1>2, NoRowFacts DEF Guarded
  <2> QED
    BY <1>1, <2>1, IdleKnowsGate DEF GateInv
<1>6. AloneInv
  <2>1. Averaged(milestones) = {}
    BY <1>2, NoRowFacts DEF Averaged
  <2>2. Site!Overall(milestones) = 0
    BY <2>1, OverallIsMean
  <2> QED
    BY <1>1, <2>2, IdleSiteAgrees, IdleWork DEF AloneInv
<1> QED
  BY <1>4, <1>5, <1>6 DEF SiteInv

LEMMA SiteInvStays ==
    ASSUME SiteInv, Site!Next \/ UNCHANGED site
    PROVE  SiteInv'
<1>1. SiteStep
  BY SiteStepsAre DEF SiteInv
<1> QED
  BY <1>1, TypesStay, GateIsKept, AloneIsKept DEF SiteInv

LEMMA SiteInvShows ==
    ASSUME SiteInv
    PROVE  Site!TypeOK /\ Site!GateHolds /\ Site!OverallAgrees
<1>1. /\ project.status \in DOMAIN Site!ValidTransitions
      /\ project.progress \in 0..100
  BY SiteStatuses DEF SiteInv, SiteTypes, ProjectRow
<1>2. /\ milestones \in [Milestones -> [status : Site!MilestoneStatus, gate : BOOLEAN,
                                        progress : Values \cup {0, 100}, live : BOOLEAN]]
      /\ inspected \in [Milestones -> {"none", "requested", "completed"}]
  BY DEF SiteInv, SiteTypes, MilestoneRow, Percentages
<1>3. \A u \in Updates : updates[u].milestone \in Milestones \cup {NoMilestone}
  BY MadeIsMilestone DEF SiteInv, SiteTypes
<1>4. Site!TypeOK
  BY <1>1, <1>2, <1>3 DEF Site!TypeOK
<1> QED
  BY <1>4, GateIsHeld DEF SiteInv, AloneInv, Site!OverallAgrees

-----------------------------------------------------------------------------
(* Both parts.  A behaviour of the parts moves the request as its own      *)
(* specification does, or not at all.                                      *)
THEOREM PartsAreRequests == PartsSpec => Spec
<1>1. PartsInit => Init
  BY DEF PartsInit
<1>2. [PartsNext]_<<part, vars, site>> => [Next]_vars
  BY DEF PartsNext
<1> QED
  BY <1>1, <1>2, PTL DEF PartsSpec, Spec

(* The project keeps its invariant, whatever calls overlap or die.         *)
THEOREM PartsInvariant == PartsSpec => [](part = "site" => SiteInv)
<1>1. PartsInit => (part = "site" => SiteInv)
  BY SiteInvStarts DEF PartsInit
<1>2. (part = "site" => SiteInv) /\ [PartsNext]_<<part, vars, site>>
         => (part = "site" => SiteInv)'
  <2> SUFFICES ASSUME part = "site" => SiteInv, [PartsNext]_<<part, vars, site>>,
                      part' = "site"
               PROVE  SiteInv'
    OBVIOUS
  <2>1. part = "site" /\ (Site!Next \/ UNCHANGED site)
    BY DEF PartsNext
  <2> QED
    BY <2>1, SiteInvStays
<1> QED
  BY <1>1, <1>2, PTL DEF PartsSpec

(* Requests and projects keep their types, and percentages their range.    *)
THEOREM PartsTypeCorrect == PartsSpec => []PartsTypeOK
<1>1. TypeOK /\ (part = "site" => SiteInv) /\ part \in {"request", "site"} => PartsTypeOK
  BY SiteInvShows DEF PartsTypeOK
<1>2. PartsSpec => [](part \in {"request", "site"})
  <2>1. PartsInit => part \in {"request", "site"}
    BY DEF PartsInit
  <2>2. part \in {"request", "site"} /\ [PartsNext]_<<part, vars, site>>
           => (part \in {"request", "site"})'
    BY DEF PartsNext
  <2> QED
    BY <2>1, <2>2, PTL DEF PartsSpec
<1> QED
  BY <1>1, <1>2, PartsInvariant, PartsAreRequests, InspectionTypeCorrect, PTL

(* A gated milestone that no manager overruled is completed only when its  *)
(* inspection is; and without overlap an approved update leaves the        *)
(* project with the progress of its milestones.                            *)
THEOREM SiteStaysTrue == PartsSpec => []SiteAgrees
<1>1. (part = "site" => SiteInv) => SiteAgrees
  BY SiteInvShows DEF SiteAgrees
<1> QED
  BY <1>1, PartsInvariant, PTL
=============================================================================
