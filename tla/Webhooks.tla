------------------------------- MODULE Webhooks -------------------------------
(***************************************************************************)
(* The intake of provider webhooks (apps/payments): a delivery is looked   *)
(* up by its event id and either recorded or marked as a duplicate.        *)
(* Providers deliver an event as often as they like, also at the same      *)
(* time, and the check of the signature may go differently each time.      *)
(*                                                                         *)
(* A definition marked "fault" is a variant of the one after it with a     *)
(* plausible mistake, to show that a property notices it.                  *)
(***************************************************************************)
EXTENDS Naturals

CONSTANTS
    Calls,        \* deliveries that can be in progress at the same time
    Events,       \* provider_event_id
    NoEvent,      \* none of them
    MaxDeliveries \* bound: deliveries of an event from which on none begins

VARIABLES
    ledger,     \* the ProviderWebhookEvent row of each event
    calls,      \* the deliveries in progress
    deliveries, \* history: how often each event was delivered
    answers     \* history: what each event was answered

vars == <<ledger, calls, deliveries, answers>>

NoRow == [signature |-> "none", processing |-> "none"]

Idle == [step |-> "idle", event |-> NoEvent, valid |-> FALSE]

Init ==
    /\ ledger = [e \in Events |-> NoRow]
    /\ calls = [c \in Calls |-> Idle]
    /\ deliveries = [e \in Events |-> 0]
    /\ answers = [e \in Events |-> {}]

(* The signature is checked and the event is looked up.                    *)
Receive(c, e, valid) ==
    /\ calls[c] = Idle
    /\ deliveries[e] < MaxDeliveries
    /\ calls' = [calls EXCEPT ![c] =
                    [step |-> IF ledger[e] = NoRow THEN "record" ELSE "mark",
                     event |-> e, valid |-> valid]]
    /\ deliveries' = [deliveries EXCEPT ![e] = @ + 1]
    /\ UNCHANGED <<ledger, answers>>

(* The row decides on the answer, not the delivery.                        *)
AnswerOfDelivery(c, row) == IF calls[c].valid THEN "accepted" ELSE "refused"  \* fault
Answer(c, row) == IF row.signature = "valid" THEN "accepted" ELSE "refused"

Finish(c, answer) ==
    /\ calls' = [calls EXCEPT ![c] = Idle]
    /\ answers' = [answers EXCEPT ![calls[c].event] = @ \cup {answer}]
    /\ UNCHANGED deliveries

RecordedAsProcessed(c) ==                                        \* fault
    [signature |-> IF calls[c].valid THEN "valid" ELSE "invalid",
     processing |-> "processed"]
Recorded(c) ==
    IF calls[c].valid THEN [signature |-> "valid", processing |-> "received"]
    ELSE [signature |-> "invalid", processing |-> "failed"]

(* The unique constraint refuses a second row with a server error.         *)
Record(c) ==
    /\ calls[c].step = "record"
    /\ IF ledger[calls[c].event] = NoRow
       THEN /\ ledger' = [ledger EXCEPT ![calls[c].event] = Recorded(c)]
            /\ Finish(c, Answer(c, Recorded(c)))
       ELSE /\ Finish(c, "error")
            /\ UNCHANGED ledger

MarkDuplicate(c) ==
    /\ calls[c].step = "mark"
    /\ ledger' = [ledger EXCEPT ![calls[c].event].processing = "duplicate"]
    /\ Finish(c, Answer(c, ledger[calls[c].event]))

Next ==
    \E c \in Calls :
        \/ \E e \in Events, valid \in BOOLEAN : Receive(c, e, valid)
        \/ Record(c)
        \/ MarkDuplicate(c)

Spec == Init /\ [][Next]_vars

-----------------------------------------------------------------------------
(* Properties *)

(* An event has one row, whose columns keep their types.                   *)
TypeOK ==
    /\ ledger \in [Events -> [signature : {"none", "valid", "invalid"},
                              processing : {"none", "received", "failed", "duplicate"}]]
    /\ deliveries \in [Events -> 0..MaxDeliveries]
    /\ answers \in [Events -> SUBSET {"accepted", "refused", "error"}]

(* However deliveries repeat and overlap: a provider is told that an event *)
(* was accepted only if its row says that the signature was valid, no      *)
(* event is both accepted and refused, and only what was delivered again   *)
(* counts as a duplicate.                                                  *)
AnswersAgree ==
    \A e \in Events :
        /\ "accepted" \in answers[e] => ledger[e].signature = "valid"
        /\ ~ {"accepted", "refused"} \subseteq answers[e]
        /\ ledger[e].processing = "duplicate" => deliveries[e] > 1
=============================================================================
