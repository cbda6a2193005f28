------------------------------- MODULE Escrow -------------------------------
(***************************************************************************)
(* One provider-backed escrow of a property transaction                    *)
(* (apps/payments/services.py, EscrowTransaction and its child tables).    *)
(*                                                                         *)
(* A definition marked "fault" is a variant of the one after it with a     *)
(* plausible mistake; nothing uses it, and it is there to show that a      *)
(* property notices the mistake.                                           *)
(*                                                                         *)
(* Every service function is one PostgreSQL transaction that first locks   *)
(* the escrow row, so it is one action here.  The exception is             *)
(* request_release: it reads the disputes of the transaction, which are    *)
(* written without that lock, and only afterwards the tables the lock      *)
(* protects.  It is two actions, and rowLock is the call that holds the    *)
(* row between them.                                                       *)
(*                                                                         *)
(* The records other parts of the system own and this one only reads are   *)
(* environment variables: disputeOpen (is a PaymentDispute of the          *)
(* transaction open or under review) and evidence (is the inspection or    *)
(* construction milestone a condition is linked to completed).             *)
(***************************************************************************)
EXTENDS Integers, FiniteSets

CONSTANTS
    ReleaseIds,       \* primary keys EscrowRelease rows can get
    RefundIds,        \* primary keys EscrowRefund rows can get
    ConditionIds,     \* primary keys EscrowCondition rows can get
    LinkedConditions, \* those linked to an inspection or a milestone
    EventIds,         \* provider_event_id values
    SettlementRefs,   \* provider_settlement_reference values
    Keys,             \* non-empty idempotency keys
    NoKey,            \* the empty idempotency key
    Expected,         \* expected_amount
    MaxAmount,        \* bound on the amounts callers send
    FeedTypes,        \* the kinds of funding event providers send
    FeeTypes,         \* the platform fee types callers agree
    Discrepancies     \* how far provider reports are from the balance

EventTypes ==
    {"funding_confirmed", "partial_funding_confirmed", "funding_reversed",
     "overpayment", "underpayment"}

ASSUME ConstantsAssumption ==
    /\ FeedTypes \subseteq EventTypes
    /\ Discrepancies \subseteq Nat
    /\ LinkedConditions \subseteq ConditionIds
    /\ NoKey \notin Keys
    /\ Expected \in Nat \ {0}
    /\ MaxAmount \in Nat

VARIABLES
    status,          \* EscrowTransaction.status, NoEscrow before the row exists
    fundingStatus,   \* .funding_status
    confirmed,       \* .confirmed_funded_amount
    releaseStatus,   \* .release_status
    refundStatus,    \* .refund_status
    reconciliation,  \* .reconciliation_status
    feeStatus,       \* .fee_status
    events,          \* EscrowFundingEvent rows by provider_event_id
    conditions,      \* EscrowCondition rows
    releases,        \* EscrowRelease rows
    refunds,         \* EscrowRefund rows
    settlements,     \* references of the EscrowSettlement rows
    rowLock,         \* the request_release call that holds the escrow row
    disputeOpen,     \* environment: an open or under-review dispute exists
    evidence,        \* environment: the linked record is completed
    lateFunding,     \* history: funding confirmed after an instruction existed
    clamped,         \* history: a reversal was larger than the balance
    opened           \* history: the releases there were, and the call in
                     \* progress, when the present dispute was opened

moneyVars == <<fundingStatus, confirmed, events, lateFunding, clamped>>
instructionVars == <<releaseStatus, refundStatus, releases, refunds>>
reportVars == <<reconciliation, feeStatus, settlements>>
environmentVars == <<disputeOpen, opened, evidence>>
vars == <<status, moneyVars, instructionVars, reportVars, conditions,
          rowLock, environmentVars>>

-----------------------------------------------------------------------------
(* Data *)

NoEscrow == "no_escrow"

EscrowStatus ==
    {"draft", "awaiting_provider", "awaiting_funding", "partially_funded",
     "funded", "conditions_pending", "release_pending", "released",
     "refund_pending", "refunded", "disputed", "cancelled", "failed"}

FundingStatus ==
    {"funding_expected", "funding_claimed", "partially_confirmed",
     "confirmed_by_provider", "reversed"}

InstructionStatus ==
    {"not_requested", "requested", "approved", "sent_to_provider",
     "confirmed", "failed", "cancelled"}

AllKeys == Keys \cup {NoKey}

(* A row that does not exist yet has status "not_requested".  needs is a   *)
(* history field: the required conditions the escrow had at the request.   *)
Instruction ==
    [status : InstructionStatus, amount : Nat, key : AllKeys,
     needs : SUBSET ConditionIds]

NoInstruction ==
    [status |-> "not_requested", amount |-> 0, key |-> NoKey, needs |-> {}]

NoEvent == [type |-> "none", amount |-> 0]
FundingEvent == [type : EventTypes, amount : Nat]

Condition ==
    [status : {"absent", "pending", "satisfied", "failed", "waived"},
     required : BOOLEAN]
NoCondition == [status |-> "absent", required |-> FALSE]

ActiveStatuses == {"requested", "approved", "sent_to_provider"}

HasActiveRelease ==
    \E r \in ReleaseIds : releases[r].status \in ActiveStatuses
HasActiveRefund ==
    \E r \in RefundIds : refunds[r].status \in ActiveStatuses

Exists(row) == row.status # "not_requested"
AnyInstruction ==
    \/ \E r \in ReleaseIds : Exists(releases[r])
    \/ \E r \in RefundIds : Exists(refunds[r])

RequiredConditions ==
    {c \in ConditionIds : conditions[c].status # "absent"
                          /\ conditions[c].required}

LinkedConditionsSatisfied ==                                      \* fault
    \A c \in RequiredConditions \cap LinkedConditions :
        conditions[c].status # "pending"
RequiredConditionsSatisfied ==
    \A c \in RequiredConditions : conditions[c].status # "pending"

(* EscrowTransaction.VALID_TRANSITIONS, the declared state machine.  No    *)
(* service consults it.                                                    *)
ValidTransitions ==
    [s \in EscrowStatus |->
        CASE s = "draft" -> {"awaiting_provider", "cancelled"}
          [] s = "awaiting_provider" ->
                {"awaiting_funding", "cancelled", "failed"}
          [] s = "awaiting_funding" ->
                {"partially_funded", "funded", "disputed", "cancelled",
                 "failed"}
          [] s = "partially_funded" ->
                {"funded", "refund_pending", "disputed", "failed"}
          [] s = "funded" ->
                {"conditions_pending", "release_pending", "refund_pending",
                 "disputed"}
          [] s = "conditions_pending" ->
                {"release_pending", "refund_pending", "disputed"}
          [] s = "release_pending" -> {"released", "disputed", "failed"}
          [] s = "refund_pending" -> {"refunded", "disputed", "failed"}
          [] s = "disputed" ->
                {"conditions_pending", "release_pending", "refund_pending",
                 "cancelled"}
          [] OTHER -> {}]

-----------------------------------------------------------------------------
(* Calls.  rowLock is FreeRow or the pending request_release call.         *)

FreeRow == [held |-> FALSE, key |-> NoKey, amount |-> 0]
Call == [held : BOOLEAN, key : AllKeys, amount : Nat]

NoDispute == [rows |-> {}, call |-> FreeRow]

Init ==
    /\ status = NoEscrow
    /\ fundingStatus = "funding_expected"
    /\ confirmed = 0
    /\ releaseStatus = "not_requested"
    /\ refundStatus = "not_requested"
    /\ reconciliation = "not_checked"
    /\ feeStatus = "not_applicable"
    /\ events = [e \in EventIds |-> NoEvent]
    /\ conditions = [c \in ConditionIds |-> NoCondition]
    /\ releases = [r \in ReleaseIds |-> NoInstruction]
    /\ refunds = [r \in RefundIds |-> NoInstruction]
    /\ settlements = {}
    /\ rowLock = FreeRow
    /\ disputeOpen = FALSE
    /\ opened = NoDispute
    /\ evidence = [c \in LinkedConditions |-> FALSE]
    /\ lateFunding = FALSE
    /\ clamped = FALSE

(* The row can be locked: it exists and no other call holds it. *)
RowAvailable == status # NoEscrow /\ ~rowLock.held

(* create_escrow_transaction.  A manual or sandbox provider opens the case *)
(* at once; an API provider still has to return its reference.  A platform *)
(* fee is agreed now or never.  A second call returns the existing row.    *)
CreateEscrow(mode, feeType) ==
    /\ status = NoEscrow
    /\ status' = IF mode = "api" THEN "awaiting_provider"
                                 ELSE "awaiting_funding"
    /\ feeStatus' = IF feeType = "none" THEN "not_applicable"
                                        ELSE "calculated"
    /\ UNCHANGED <<moneyVars, instructionVars, reconciliation, settlements,
                   conditions, rowLock, environmentVars>>

ResetByProviderReference ==                                       \* fault
    /\ RowAvailable
    /\ status' = "awaiting_funding"
    /\ UNCHANGED <<moneyVars, instructionVars, reportVars, conditions,
                   rowLock, environmentVars>>

(* record_provider_reference *)
RecordProviderReference ==
    /\ RowAvailable
    /\ status' = IF status = "awaiting_provider" THEN "awaiting_funding"
                                                 ELSE status
    /\ UNCHANGED <<moneyVars, instructionVars, reportVars, conditions,
                   rowLock, environmentVars>>

(* The deduplication of record_funding_event. *)
KnownEventIfConfirmed(e) == events[e].type = "funding_confirmed"  \* fault
KnownEvent(e) == events[e] # NoEvent

(* A reversal cannot take the balance below zero. *)
UncheckedReversal(amount) == confirmed - amount                   \* fault
AfterReversal(amount) == IF amount > confirmed THEN 0 ELSE confirmed - amount

OverExpected(balance) == balance > Expected                       \* fault
FullyFunded(balance) == balance >= Expected

(* record_funding_event.  A provider_event_id that is already recorded     *)
(* changes nothing.  There is no test of the escrow's status.              *)
RecordFundingEvent(e, type, amount) ==
    /\ RowAvailable
    /\ ~KnownEvent(e)
    /\ amount > 0
    /\ events' = [events EXCEPT ![e] = [type |-> type, amount |-> amount]]
    /\ IF type = "funding_reversed"
       THEN /\ confirmed' = AfterReversal(amount)
            /\ clamped' = (clamped \/ amount > confirmed)
            /\ fundingStatus' = "reversed"
            /\ UNCHANGED <<status, lateFunding>>
       ELSE /\ confirmed' = confirmed + amount
            /\ IF FullyFunded(confirmed + amount)
               THEN /\ status' = "funded"
                    /\ fundingStatus' = "confirmed_by_provider"
               ELSE /\ status' = "partially_funded"
                    /\ fundingStatus' = "partially_confirmed"
            /\ lateFunding' = (lateFunding \/ AnyInstruction)
            /\ UNCHANGED clamped
    /\ UNCHANGED <<instructionVars, reportVars, conditions, rowLock,
                   environmentVars>>

CreateConditionAnyStatus(c, required) ==                          \* fault
    /\ RowAvailable
    /\ conditions[c] = NoCondition
    /\ conditions' = [conditions EXCEPT
                         ![c] = [status |-> "pending", required |-> required]]
    /\ status' = "conditions_pending"
    /\ UNCHANGED <<moneyVars, instructionVars, reportVars, rowLock,
                   environmentVars>>

(* create_escrow_condition *)
CreateCondition(c, required) ==
    /\ RowAvailable
    /\ conditions[c] = NoCondition
    /\ conditions' = [conditions EXCEPT
                         ![c] = [status |-> "pending", required |-> required]]
    /\ status' = IF status = "funded" THEN "conditions_pending" ELSE status
    /\ UNCHANGED <<moneyVars, instructionVars, reportVars, rowLock,
                   environmentVars>>

(* satisfy_escrow_condition: whatever its present status, a condition is   *)
(* satisfied once its linked record, if any, is completed.                 *)
SatisfyCondition(c) ==
    /\ RowAvailable
    /\ conditions[c] # NoCondition
    /\ c \in LinkedConditions => evidence[c]
    /\ conditions' = [conditions EXCEPT ![c].status = "satisfied"]
    /\ UNCHANGED <<status, moneyVars, instructionVars, reportVars, rowLock,
                   environmentVars>>

BeginReleaseInDispute(key, amount) ==                             \* fault
    /\ RowAvailable
    /\ rowLock' = [held |-> TRUE, key |-> key, amount |-> amount]
    /\ UNCHANGED <<status, moneyVars, instructionVars, reportVars,
                   conditions, environmentVars>>

(* request_release, first part: lock the row and read the disputes. *)
BeginRelease(key, amount) ==
    /\ RowAvailable
    /\ ~disputeOpen
    /\ rowLock' = [held |-> TRUE, key |-> key, amount |-> amount]
    /\ UNCHANGED <<status, moneyVars, instructionVars, reportVars,
                   conditions, environmentVars>>

KeyUsedByActiveRow(rows, ids, key) ==                             \* fault
    key # NoKey /\ \E r \in ids : rows[r].status \in ActiveStatuses
                                  /\ rows[r].key = key
KeyUsed(rows, ids, key) ==
    key # NoKey /\ \E r \in ids : Exists(rows[r]) /\ rows[r].key = key

(* An amount of 0, or none, means the confirmed balance. *)
Requested(amount) == IF amount = 0 THEN confirmed ELSE amount

PayableUnchecked(amount) == amount > 0                            \* fault
Payable(amount) == amount > 0 /\ amount <= confirmed

ReleaseEligibleAgain ==                                           \* fault
    status \in {"funded", "conditions_pending", "release_pending"}
ReleaseEligible == status \in {"funded", "conditions_pending", "disputed"}
RefundEligible == status \in {"partially_funded", "funded", "disputed"}

CanReleaseDuringRefund(key, amount) ==                            \* fault
    /\ ~KeyUsed(releases, ReleaseIds, key)
    /\ ReleaseEligible
    /\ RequiredConditionsSatisfied
    /\ Payable(Requested(amount))
CanRelease(key, amount) ==
    /\ ~KeyUsed(releases, ReleaseIds, key)
    /\ ~HasActiveRefund
    /\ ReleaseEligible
    /\ RequiredConditionsSatisfied
    /\ Payable(Requested(amount))

(* request_release, second part: a known key returns its row, a failed     *)
(* check raises, and otherwise the row is written; each way the commit or  *)
(* rollback frees the row.                                                 *)
FinishRelease(r) ==
    /\ rowLock.held
    /\ CanRelease(rowLock.key, rowLock.amount)
    /\ ~Exists(releases[r])
    /\ releases' = [releases EXCEPT
                       ![r] = [status |-> "requested",
                               amount |-> Requested(rowLock.amount),
                               key |-> rowLock.key,
                               needs |-> RequiredConditions]]
    /\ status' = "release_pending"
    /\ releaseStatus' = "requested"
    /\ rowLock' = FreeRow
    /\ UNCHANGED <<moneyVars, refundStatus, refunds, reportVars, conditions,
                   environmentVars>>

RefuseRelease ==
    /\ rowLock.held
    /\ ~CanRelease(rowLock.key, rowLock.amount)
    /\ rowLock' = FreeRow
    /\ UNCHANGED <<status, moneyVars, instructionVars, reportVars,
                   conditions, environmentVars>>

ApproveReleaseCurrentBalance(r) ==                                \* fault
    /\ RowAvailable
    /\ releases[r].status = "requested"
    /\ releases' = [releases EXCEPT ![r].status = "sent_to_provider",
                                    ![r].amount = confirmed]
    /\ releaseStatus' = "sent_to_provider"
    /\ UNCHANGED <<status, moneyVars, refundStatus, refunds, reportVars,
                   conditions, rowLock, environmentVars>>

(* approve_release: neither disputes, conditions nor funds are looked at   *)
(* again.                                                                  *)
ApproveRelease(r) ==
    /\ RowAvailable
    /\ releases[r].status = "requested"
    /\ releases' = [releases EXCEPT ![r].status = "sent_to_provider"]
    /\ releaseStatus' = "sent_to_provider"
    /\ UNCHANGED <<status, moneyVars, refundStatus, refunds, reportVars,
                   conditions, rowLock, environmentVars>>

ConfirmReleaseRowOnly(r) ==                                       \* fault
    /\ RowAvailable
    /\ releases[r].status \in {"sent_to_provider", "approved"}
    /\ releases' = [releases EXCEPT ![r].status = "confirmed"]
    /\ status' = "released"
    /\ UNCHANGED <<moneyVars, releaseStatus, refundStatus, refunds,
                   reportVars, conditions, rowLock, environmentVars>>

(* confirm_release *)
ConfirmRelease(r) ==
    /\ RowAvailable
    /\ releases[r].status \in {"sent_to_provider", "approved"}
    /\ releases' = [releases EXCEPT ![r].status = "confirmed"]
    /\ releaseStatus' = "confirmed"
    /\ status' = "released"
    /\ UNCHANGED <<moneyVars, refundStatus, refunds, reportVars, conditions,
                   rowLock, environmentVars>>

(* request_refund: it does not look at the disputes. *)
RequestRefund(r, key, amount) ==
    /\ RowAvailable
    /\ ~KeyUsed(refunds, RefundIds, key)
    /\ ~HasActiveRelease
    /\ RefundEligible
    /\ Payable(Requested(amount))
    /\ ~Exists(refunds[r])
    /\ refunds' = [refunds EXCEPT
                      ![r] = [status |-> "requested",
                              amount |-> Requested(amount),
                              key |-> key,
                              needs |-> {}]]
    /\ status' = "refund_pending"
    /\ refundStatus' = "requested"
    /\ UNCHANGED <<moneyVars, releaseStatus, releases, reportVars,
                   conditions, rowLock, environmentVars>>

(* approve_refund *)
ApproveRefund(r) ==
    /\ RowAvailable
    /\ refunds[r].status = "requested"
    /\ refunds' = [refunds EXCEPT ![r].status = "sent_to_provider"]
    /\ refundStatus' = "sent_to_provider"
    /\ UNCHANGED <<status, moneyVars, releaseStatus, releases, reportVars,
                   conditions, rowLock, environmentVars>>

ConfirmRefundRowOnly(r) ==                                        \* fault
    /\ RowAvailable
    /\ refunds[r].status \in {"sent_to_provider", "approved"}
    /\ refunds' = [refunds EXCEPT ![r].status = "confirmed"]
    /\ refundStatus' = "confirmed"
    /\ UNCHANGED <<status, moneyVars, releaseStatus, releases, reportVars,
                   conditions, rowLock, environmentVars>>

(* confirm_refund *)
ConfirmRefund(r) ==
    /\ RowAvailable
    /\ refunds[r].status \in {"sent_to_provider", "approved"}
    /\ refunds' = [refunds EXCEPT ![r].status = "confirmed"]
    /\ refundStatus' = "confirmed"
    /\ status' = "refunded"
    /\ UNCHANGED <<moneyVars, releaseStatus, releases, reportVars,
                   conditions, rowLock, environmentVars>>

(* record_settlement: a second settlement with the same reference violates *)
(* the table's unique constraint and is rolled back.                       *)
RecordSettlement(ref, platformFee) ==
    /\ RowAvailable
    /\ ref \notin settlements
    /\ settlements' = settlements \cup {ref}
    /\ feeStatus' = IF platformFee > 0 THEN "settled" ELSE feeStatus
    /\ UNCHANGED <<status, moneyVars, instructionVars, reconciliation,
                   conditions, rowLock, environmentVars>>

(* reconcile_escrow *)
ReconcileEscrow(providerAmount, providerStatus) ==
    /\ RowAvailable
    /\ reconciliation' =
          IF providerAmount = confirmed /\ providerStatus = status
          THEN "matched" ELSE "mismatch"
    /\ UNCHANGED <<status, moneyVars, instructionVars, feeStatus,
                   settlements, conditions, rowLock, environmentVars>>

-----------------------------------------------------------------------------
(* The environment: disputes are opened and resolved, and linked records   *)
(* are completed or reopened, without the escrow's row lock.               *)

DisputeChanges ==
    /\ disputeOpen' = ~disputeOpen
    /\ opened' = IF disputeOpen THEN NoDispute
                 ELSE [rows |-> {r \in ReleaseIds : Exists(releases[r])},
                       call |-> rowLock]
    /\ UNCHANGED <<status, moneyVars, instructionVars, reportVars,
                   conditions, rowLock, evidence>>

EvidenceChanges(c) ==
    /\ evidence' = [evidence EXCEPT ![c] = ~evidence[c]]
    /\ UNCHANGED <<status, moneyVars, instructionVars, reportVars,
                   conditions, rowLock, disputeOpen, opened>>

Environment ==
    \/ DisputeChanges
    \/ \E c \in LinkedConditions : EvidenceChanges(c)

Setup ==
    \/ \E mode \in {"manual", "sandbox", "api"},
          feeType \in FeeTypes : CreateEscrow(mode, feeType)
    \/ RecordProviderReference

Funding ==
    \E e \in EventIds, type \in FeedTypes, amount \in 1..MaxAmount :
        RecordFundingEvent(e, type, amount)

ConditionStep ==
    \E c \in ConditionIds :
        \/ \E required \in BOOLEAN : CreateCondition(c, required)
        \/ SatisfyCondition(c)

Release ==
    \/ \E key \in AllKeys, amount \in 0..MaxAmount : BeginRelease(key, amount)
    \/ RefuseRelease
    \/ \E r \in ReleaseIds :
          FinishRelease(r) \/ ApproveRelease(r) \/ ConfirmRelease(r)

Refund ==
    \E r \in RefundIds :
        \/ \E key \in AllKeys, amount \in 0..MaxAmount :
              RequestRefund(r, key, amount)
        \/ ApproveRefund(r)
        \/ ConfirmRefund(r)

Reporting ==
    \/ \E ref \in SettlementRefs, fee \in {0, 1} : RecordSettlement(ref, fee)
    \/ \E d \in Discrepancies, s \in {status, "disputed"} :
          ReconcileEscrow(confirmed + d, s)

Operations == Setup \/ Funding \/ ConditionStep \/ Release \/ Refund
              \/ Reporting

Next == Operations \/ Environment

Spec == Init /\ [][Next]_vars
-----------------------------------------------------------------------------
(* Properties *)

(* The values each column can hold. *)
TypeOK ==
    /\ status \in EscrowStatus \cup {NoEscrow}
    /\ fundingStatus \in FundingStatus
    /\ confirmed \in Nat
    /\ releaseStatus \in InstructionStatus
    /\ refundStatus \in InstructionStatus
    /\ reconciliation \in {"not_checked", "matched", "mismatch"}
    /\ feeStatus \in {"not_applicable", "calculated", "settled"}
    /\ events \in [EventIds -> FundingEvent \cup {NoEvent}]
    /\ conditions \in [ConditionIds -> Condition]
    /\ releases \in [ReleaseIds -> Instruction]
    /\ refunds \in [RefundIds -> Instruction]
    /\ settlements \subseteq SettlementRefs
    /\ rowLock \in Call
    /\ disputeOpen \in BOOLEAN
    /\ opened \in [rows : SUBSET ReleaseIds, call : Call]
    /\ evidence \in [LinkedConditions -> BOOLEAN]
    /\ lateFunding \in BOOLEAN
    /\ clamped \in BOOLEAN

(* The provider is never asked to pay the same money in two directions: a  *)
(* release and a refund are not in progress together, also when a late     *)
(* funding event has put the escrow back to funded in between              *)
(* (request_release, request_refund).                                      *)
NoReleaseWithRefund == ~(HasActiveRelease /\ HasActiveRefund)

(* A retried request finds the row of its idempotency key: the lookup      *)
(* under the row lock makes the unique constraints on (escrow,             *)
(* idempotency_key) unreachable, so no retry ends in an IntegrityError.    *)
OneRowPerKey ==
    /\ \A r, s \in ReleaseIds :
          Exists(releases[r]) /\ Exists(releases[s]) /\ r # s
          /\ releases[r].key = releases[s].key => releases[r].key = NoKey
    /\ \A r, s \in RefundIds :
          Exists(refunds[r]) /\ Exists(refunds[s]) /\ r # s
          /\ refunds[r].key = refunds[s].key => refunds[r].key = NoKey

(* Whatever happens between request, approval and confirmation, every      *)
(* condition that was required when a release was requested is satisfied   *)
(* for as long as the release exists: approve_release and confirm_release  *)
(* need not look again, because nothing makes a condition pending again.   *)
ReleaseHonoursConditions ==
    \A r \in ReleaseIds : \A c \in releases[r].needs :
        conditions[c].status = "satisfied"

(* Each funding_status says what the ledger says: confirmed by the         *)
(* provider means the full expected amount is there, partially confirmed   *)
(* means some but not all of it, and expected means nothing is recorded    *)
(* (record_funding_event recomputes both columns from the new balance).    *)
FundingStatusAgrees ==
    /\ fundingStatus = "confirmed_by_provider" => confirmed >= Expected
    /\ fundingStatus = "partially_confirmed" =>
          confirmed > 0 /\ confirmed < Expected
    /\ fundingStatus = "funding_expected" =>
          confirmed = 0 /\ \A e \in EventIds : events[e] = NoEvent

(* The escrow's own release_status and refund_status are copies of the     *)
(* status of one of its rows, the one that changed last; with several rows *)
(* in progress the copy must still name a row that exists.                 *)
CopiesNameARow ==
    /\ IF releaseStatus = "not_requested"
       THEN \A r \in ReleaseIds : ~Exists(releases[r])
       ELSE \E r \in ReleaseIds : releases[r].status = releaseStatus
    /\ IF refundStatus = "not_requested"
       THEN \A r \in RefundIds : ~Exists(refunds[r])
       ELSE \E r \in RefundIds : refunds[r].status = refundStatus

(* A pending escrow can be finished: there is an instruction in progress   *)
(* to approve or confirm.  A final status has the confirmed instruction    *)
(* that put it there.                                                      *)
StatusIsBacked ==
    /\ status = "release_pending" => HasActiveRelease
    /\ status = "refund_pending" => HasActiveRefund
    /\ status = "released" =>
          \E r \in ReleaseIds : releases[r].status = "confirmed"
    /\ status = "refunded" =>
          \E r \in RefundIds : refunds[r].status = "confirmed"

(* As long as no funding is confirmed after the first release or refund    *)
(* was requested, the pending statuses and the instructions in progress    *)
(* are two views of one fact.                                              *)
StatusTracksInstruction ==
    ~lateFunding => /\ HasActiveRelease <=> status = "release_pending"
                    /\ HasActiveRefund <=> status = "refund_pending"

(* Under the same condition an escrow pays out once: of all release and    *)
(* refund rows ever requested, with or without idempotency keys and by     *)
(* however many callers, there is at most one.  The locks alone give this  *)
(* only because both requests leave the statuses they start from.          *)
SingleInstruction ==
    ~lateFunding =>
        /\ \A r, s \in ReleaseIds :
              Exists(releases[r]) /\ Exists(releases[s]) => r = s
        /\ \A r, s \in RefundIds :
              Exists(refunds[r]) /\ Exists(refunds[s]) => r = s
        /\ \A r \in ReleaseIds, s \in RefundIds :
              ~(Exists(releases[r]) /\ Exists(refunds[s]))

(* The two instruction tables stay apart, keep one row for each request    *)
(* and agree with the escrow: the four together.                           *)
InstructionsAgree ==
    /\ NoReleaseWithRefund
    /\ OneRowPerKey
    /\ StatusTracksInstruction
    /\ SingleInstruction

(* The columns of the escrow are copies and sums of its other tables, and  *)
(* none of them is left behind: the three together.                        *)
ColumnsAgree == FundingStatusAgrees /\ CopiesNameARow /\ StatusIsBacked

(* As long as no funding came late, the service functions other than       *)
(* record_funding_event follow EscrowTransaction.VALID_TRANSITIONS, which  *)
(* none of them consults.                                                  *)
WorkflowFollowsDeclaration ==
    [][status' # status /\ status # NoEscrow /\ events' = events
         /\ ~lateFunding
       => status' \in ValidTransitions[status]]_vars

(* However many calls ask again while a dispute stays open, with or        *)
(* without keys and after late funding, one release at most appears: what  *)
(* the one request_release call asked for that had read the disputes       *)
(* before this one was opened.                                             *)
Escaped(r) == disputeOpen /\ Exists(releases[r]) /\ r \notin opened.rows

DisputeAdmitsOneCall ==
    \A r \in ReleaseIds : Escaped(r) =>
        /\ opened.call.held /\ ~rowLock.held
        /\ releases[r].key = opened.call.key
        /\ opened.call.amount \in {0, releases[r].amount}
        /\ \A s \in ReleaseIds : Escaped(s) => s = r

-----------------------------------------------------------------------------
(* A statement of the documents that the code does not keep *)

(* docs/RealityNG-Escrow-State-Machine.md, Dispute Rule: an open or        *)
(* under-review PaymentDispute blocks release.  Here, of a release that    *)
(* was requested before: it goes no further while the dispute is open.     *)
DisputeBlocksRelease ==
    [][disputeOpen =>
         \A r \in ReleaseIds : Exists(releases[r]) =>
             releases'[r].status = releases[r].status]_vars
=============================================================================
