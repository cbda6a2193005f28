----------------------------- MODULE ServiceDesk -----------------------------
(***************************************************************************)
(* One quote request and one complaint of the services marketplace         *)
(* (apps/services).  Each endpoint loads the row, decides by the status    *)
(* that it loaded, and saves the status together with a time stamp.        *)
(*                                                                         *)
(* A definition marked "fault" is a variant of the one after it with a     *)
(* plausible mistake, to show that a property notices it.                  *)
(***************************************************************************)
EXTENDS Naturals

CONSTANT Calls  \* requests that can be in progress at the same time

VARIABLES
    quote,     \* QuoteRequest.status, and the stamps that are set
    complaint, \* ServiceComplaint.status, and the stamps that are set
    calls      \* what each call has loaded and has still to save; history: whether
               \* the quote request was saved by another call since then

vars == <<quote, complaint, calls>>

QuoteStatus == <<"submitted", "viewed", "responded", "closed">>

ComplaintStatus == {"open", "under_review", "awaiting_customer", "awaiting_provider",
                    "resolved", "rejected", "escalated", "closed"}

Stamped == {"resolved", "rejected", "escalated", "closed"}

Idle == [step |-> "idle", viewed |-> FALSE, older |-> FALSE]

(* Both rows exist: a quote request is created for an active provider, a   *)
(* complaint by anybody against a provider.                                *)
SubmitQuote == [status |-> "submitted", stamps |-> {}]
FileComplaint == [status |-> "open", stamps |-> {}]

Init ==
    /\ quote = SubmitQuote
    /\ complaint = FileComplaint
    /\ calls = [c \in Calls |-> Idle]

(* What the provider and administrators may ask for, by the loaded status; *)
(* nothing happens to a quote request that is past the step.               *)
FromAny ==                                                       \* fault
    [viewed |-> {"submitted"},
     responded |-> {"submitted", "viewed", "closed"},
     closed |-> {"submitted", "viewed", "responded"}]
From ==
    [viewed |-> {"submitted"},
     responded |-> {"submitted", "viewed"},
     closed |-> {"submitted", "viewed", "responded"}]

Load(c, step) ==
    /\ calls[c] = Idle
    /\ step \in DOMAIN From => quote.status \in From[step]
    /\ calls' = [calls EXCEPT ![c] = [step |-> step, older |-> FALSE,
                                      viewed |-> "viewed" \in quote.stamps]]
    /\ UNCHANGED <<quote, complaint>>

(* What becomes of the calls in progress when c saves the quote request.   *)
Outdated(d) == IF calls[d].step \in DOMAIN From THEN [calls[d] EXCEPT !.older = TRUE]
                                                ELSE calls[d]

SaveQuote(c, step, stamps) ==
    /\ calls[c].step = step
    /\ quote' = [status |-> step, stamps |-> quote.stamps \cup stamps]
    /\ calls' = [d \in Calls |-> IF d = c THEN Idle ELSE Outdated(d)]
    /\ UNCHANGED complaint

MarkViewed(c) == SaveQuote(c, "viewed", {"viewed"})

(* mark_responded also stamps viewed_at if that was not set when loaded.   *)
RespondUnseen(c) == SaveQuote(c, "responded", {"responded"})     \* fault
MarkResponded(c) ==
    SaveQuote(c, "responded", {"responded"} \cup IF calls[c].viewed THEN {} ELSE {"viewed"})

CloseQuote(c) == SaveQuote(c, "closed", {"closed"})

(* set_status takes a complaint from any status to any other.              *)
SetStatus(c, next) ==
    /\ calls[c].step = "complaint"
    /\ complaint' = [status |-> next, stamps |-> complaint.stamps \cup ({next} \cap Stamped)]
    /\ calls' = [calls EXCEPT ![c] = Idle]
    /\ UNCHANGED quote

Next ==
    \E c \in Calls :
        \/ \E step \in DOMAIN From \cup {"complaint"} : Load(c, step)
        \/ MarkViewed(c)
        \/ MarkResponded(c)
        \/ CloseQuote(c)
        \/ \E next \in ComplaintStatus \ {"open"} : SetStatus(c, next)

Spec == Init /\ [][Next]_vars

-----------------------------------------------------------------------------
(* Properties *)

(* However calls overlap, the time stamps tell the story that the status   *)
(* tells: what was answered was seen, and what is closed, resolved,        *)
(* rejected or escalated says since when.                                  *)
StampsFollowStatus ==
    /\ quote.status # "submitted" => quote.status \in quote.stamps
    /\ "responded" \in quote.stamps => "viewed" \in quote.stamps
    /\ complaint.status \in Stamped => complaint.status \in complaint.stamps

Position(s) == CHOOSE n \in DOMAIN QuoteStatus : QuoteStatus[n] = s

(* A quote request moves back by calls alone that had loaded it before it  *)
(* got where it is.  So a closed one is never open again once the calls    *)
(* have ended that were in progress when it was closed, however many come  *)
(* later and overlap.                                                      *)
ForwardUnlessOlder ==
    Position(quote'.status) < Position(quote.status) =>
        \E c \in Calls : calls[c].older /\ calls'[c] = Idle

QuoteMovesForward == [][ForwardUnlessOlder]_vars
=============================================================================
