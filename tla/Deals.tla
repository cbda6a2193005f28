--------------------------------- MODULE Deals ---------------------------------
(***************************************************************************)
(* One property transaction with a payment milestone, its proofs and the   *)
(* disputes about both (apps/payments).  Each endpoint loads a row without *)
(* a lock, compares the status that it loaded with the declared            *)
(* transitions, and saves the new status.                                  *)
(*                                                                         *)
(* A definition marked "fault" is a variant of the one after it with a     *)
(* plausible mistake, to show that a property notices it.                  *)
(***************************************************************************)
EXTENDS Naturals

CONSTANTS
    Calls,    \* requests that can be in progress at the same time
    Disputes  \* identifiers of PaymentDispute rows

VARIABLES
    transaction, \* Transaction.status
    milestone,   \* PaymentMilestone.status, "absent" without a row
    proofs,      \* whether a PaymentProof row exists
    disputes,    \* PaymentDispute.status, and what the dispute is about
    calls,       \* what each call has loaded and has still to save; history: the
                 \* rows that other calls saved since then
    reviewed     \* history: a reviewer began to review the milestone

vars == <<transaction, milestone, proofs, disputes, calls, reviewed>>

TransactionTransitions ==
    [draft |-> {"active", "cancelled"},
     active |-> {"completed", "cancelled", "disputed"},
     disputed |-> {"active", "cancelled"},
     completed |-> {}, cancelled |-> {}]

MilestoneUnproven ==                                             \* fault
    [absent |-> {},
     pending |-> {"proof_uploaded", "under_review", "cancelled"},
     proof_uploaded |-> {"under_review", "cancelled"},
     under_review |-> {"accepted", "rejected", "disputed"},
     rejected |-> {"proof_uploaded", "cancelled"},
     disputed |-> {"under_review", "cancelled"},
     accepted |-> {}, cancelled |-> {}]
MilestoneTransitions ==
    [absent |-> {},
     pending |-> {"proof_uploaded", "cancelled"},
     proof_uploaded |-> {"under_review", "cancelled"},
     under_review |-> {"accepted", "rejected", "disputed"},
     rejected |-> {"proof_uploaded", "cancelled"},
     disputed |-> {"under_review", "cancelled"},
     accepted |-> {}, cancelled |-> {}]

DisputeStatus == {"open", "resolved", "closed"}

NoDispute == [status |-> "absent", milestone |-> FALSE]

Idle == [step |-> "idle", next |-> "none", transaction |-> FALSE, milestone |-> FALSE,
         older |-> {}]

Init ==
    /\ transaction = "draft"
    /\ milestone = "absent"
    /\ proofs = FALSE
    /\ disputes = [d \in Disputes |-> NoDispute]
    /\ calls = [c \in Calls |-> Idle]
    /\ reviewed = FALSE

Begin(c, loaded) ==
    /\ calls[c] = Idle
    /\ calls' = [calls EXCEPT ![c] = loaded]
    /\ UNCHANGED <<transaction, milestone, proofs, disputes, reviewed>>

(* A call ends and saves the rows written; who loaded them before is older *)
(* than they are.                                                          *)
Outdated(d, written) ==
    IF calls[d] = Idle THEN Idle ELSE [calls[d] EXCEPT !.older = @ \cup written]

Ends(c, step, written) ==
    /\ calls[c].step = step
    /\ calls' = [d \in Calls |-> IF d = c THEN Idle ELSE Outdated(d, written)]

(* can_transition_to, asked of the loaded status.                          *)
TransactionCan(next) == next \in TransactionTransitions[transaction]
MilestoneCan(next) == next \in MilestoneTransitions[milestone]

-----------------------------------------------------------------------------
(* activate_transaction, complete_transaction and cancel_transaction.      *)
BeginTransaction(c, next) ==
    /\ TransactionCan(next)
    /\ Begin(c, [Idle EXCEPT !.step = "transaction", !.next = next])

SaveTransaction(c) ==
    /\ Ends(c, "transaction", {"transaction"})
    /\ transaction' = calls[c].next
    /\ UNCHANGED <<milestone, proofs, disputes, reviewed>>

CreateMilestone ==
    /\ milestone = "absent"
    /\ milestone' = "pending"
    /\ UNCHANGED <<transaction, proofs, disputes, calls, reviewed>>

(* start_milestone_review, accept_milestone and reject_milestone: nobody   *)
(* looks at the transaction.  No endpoint calls cancel_milestone.          *)
ReviewerSteps == {"under_review", "accepted", "rejected"}

BeginMilestone(c, next) ==
    /\ MilestoneCan(next)
    /\ Begin(c, [Idle EXCEPT !.step = "milestone", !.next = next])

SaveMilestone(c) ==
    /\ Ends(c, "milestone", {"milestone"})
    /\ milestone' = calls[c].next
    /\ reviewed' = (reviewed \/ calls[c].next = "under_review")
    /\ UNCHANGED <<transaction, proofs, disputes>>

(* The buyer's proof and the milestone's status are saved together.        *)
BeginProof(c) ==
    /\ milestone \in {"pending", "rejected"}
    /\ Begin(c, [Idle EXCEPT !.step = "proof"])

SaveProof(c) ==
    /\ Ends(c, "proof", {"milestone"})
    /\ proofs' = TRUE
    /\ milestone' = "proof_uploaded"
    /\ UNCHANGED <<transaction, disputes, reviewed>>

-----------------------------------------------------------------------------
(* open_dispute decides by the loaded rows whether to mark the transaction *)
(* and the milestone; it inserts the dispute in any case.                  *)
DisputeAnyway(about) ==                                          \* fault
    [Idle EXCEPT !.step = "dispute", !.next = IF about THEN "milestone" ELSE "none",
                 !.transaction = TRUE, !.milestone = about /\ MilestoneCan("disputed")]
Dispute(about) ==
    [Idle EXCEPT !.step = "dispute", !.next = IF about THEN "milestone" ELSE "none",
                 !.transaction = TransactionCan("disputed"),
                 !.milestone = about /\ MilestoneCan("disputed")]

BeginDispute(c, about) ==
    /\ about => milestone # "absent"
    /\ Begin(c, Dispute(about))

Marked(c) == {row \in {"transaction", "milestone"} : calls[c][row]}

SaveDispute(c) ==
    /\ Ends(c, "dispute", Marked(c))
    /\ \E d \in Disputes :
          /\ disputes[d] = NoDispute
          /\ disputes' = [disputes EXCEPT
                             ![d] = [status |-> "open",
                                     milestone |-> calls[c].next = "milestone"]]
    /\ transaction' = IF calls[c].transaction THEN "disputed" ELSE transaction
    /\ milestone' = IF calls[c].milestone THEN "disputed" ELSE milestone
    /\ UNCHANGED <<proofs, reviewed>>

(* A dispute is resolved or closed, as often as anyone likes; the          *)
(* transaction stays disputed until somebody activates or cancels it.      *)
ResolveDispute(d, next) ==
    /\ disputes[d] # NoDispute
    /\ disputes' = [disputes EXCEPT ![d].status = next]
    /\ UNCHANGED <<transaction, milestone, proofs, calls, reviewed>>

Next ==
    \/ CreateMilestone
    \/ \E d \in Disputes, next \in {"resolved", "closed"} : ResolveDispute(d, next)
    \/ \E c \in Calls :
          \/ \E next \in {"active", "completed", "cancelled"} : BeginTransaction(c, next)
          \/ SaveTransaction(c)
          \/ \E next \in ReviewerSteps : BeginMilestone(c, next)
          \/ SaveMilestone(c)
          \/ BeginProof(c)
          \/ SaveProof(c)
          \/ \E about \in BOOLEAN : BeginDispute(c, about)
          \/ SaveDispute(c)

Spec == Init /\ [][Next]_vars

-----------------------------------------------------------------------------
(* Properties *)

(* Statuses are declared ones, and a dispute is about the deal or its      *)
(* milestone.                                                              *)
TypeOK ==
    /\ transaction \in DOMAIN TransactionTransitions
    /\ milestone \in DOMAIN MilestoneTransitions
    /\ proofs \in BOOLEAN
    /\ disputes \in [Disputes -> [status : DisputeStatus \cup {"absent"},
                                  milestone : BOOLEAN]]

(* However old the rows are that calls save: what shows as proven has a    *)
(* proof, what shows as accepted or rejected was reviewed, and what shows  *)
(* as disputed has a dispute about it.                                     *)
StatusHasEvidence ==
    /\ milestone \notin {"absent", "pending", "cancelled"} => proofs
    /\ milestone \in {"accepted", "rejected", "disputed"} => reviewed
    /\ transaction = "disputed" => \E d \in Disputes : disputes[d] # NoDispute
    /\ milestone = "disputed" => \E d \in Disputes : disputes[d].milestone

(* A transaction and a milestone move as declared, unless a call that had  *)
(* loaded the row before it got where it is now saves what it decided      *)
(* then.  So what was completed, accepted or cancelled, disputes included, *)
(* is open again by such calls alone, and stays closed once they have      *)
(* ended, however many come later and overlap.                             *)
ByOlder(row) == \E c \in Calls : row \in calls[c].older /\ calls'[c] = Idle

DeclaredUnlessOlder ==
    /\ transaction' \in {transaction} \cup TransactionTransitions[transaction]
          \/ ByOlder("transaction")
    /\ milestone = "absent" \/ ByOlder("milestone")
          \/ milestone' \in {milestone} \cup MilestoneTransitions[milestone]

ClosedDealsStay == [][DeclaredUnlessOlder]_vars
=============================================================================
