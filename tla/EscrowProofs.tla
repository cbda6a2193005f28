---------------------------- MODULE EscrowProofs ----------------------------
(***************************************************************************)
(* Theorems about Escrow for every set of rows, events, keys and           *)
(* conditions, every expected amount and every bound on amounts.           *)
(***************************************************************************)
EXTENDS EscrowRefinement, EscrowMoney, Sums

(* The steps that touch an instruction table; every other step leaves both *)
(* tables and their copies in the escrow row as they are.                  *)
InstructionStep ==
    \/ \E r \in ReleaseIds :
          FinishRelease(r) \/ ApproveRelease(r) \/ ConfirmRelease(r)
    \/ \E r \in RefundIds :
          \/ \E key \in AllKeys, amount \in 0..MaxAmount :
                RequestRefund(r, key, amount)
          \/ ApproveRefund(r)
          \/ ConfirmRefund(r)

LEMMA OtherStepsAreQuiet ==
    ASSUME [Next]_vars
    PROVE  InstructionStep \/ UNCHANGED instructionVars
<1>1. CASE Setup
  BY <1>1 DEF Setup, CreateEscrow, RecordProviderReference, instructionVars
<1>2. CASE Funding
  BY <1>2 DEF Funding, RecordFundingEvent, instructionVars
<1>3. CASE ConditionStep
  BY <1>3 DEF ConditionStep, CreateCondition, SatisfyCondition,
              instructionVars
<1>4. CASE Release
  BY <1>4 DEF Release, BeginRelease, RefuseRelease, InstructionStep,
              instructionVars
<1>5. CASE Refund
  BY <1>5 DEF Refund, InstructionStep
<1>6. CASE Reporting
  BY <1>6 DEF Reporting, RecordSettlement, ReconcileEscrow, instructionVars
<1>7. CASE Environment
  BY <1>7 DEF Environment, DisputeChanges, EvidenceChanges, instructionVars
<1>8. CASE UNCHANGED vars
  BY <1>8 DEF vars, instructionVars
<1> QED
  BY <1>1, <1>2, <1>3, <1>4, <1>5, <1>6, <1>7, <1>8 DEF Next, Operations

-----------------------------------------------------------------------------
(* Type correctness *)

LEMMA TypeInit == Init => TypeOK
<1> SUFFICES ASSUME Init PROVE TypeOK
  OBVIOUS
<1>1. NoInstruction \in Instruction
  BY DEF NoInstruction, Instruction, InstructionStatus, AllKeys
<1>2. NoCondition \in Condition /\ FreeRow \in Call
  BY DEF NoCondition, Condition, FreeRow, Call, AllKeys
<1> QED
  BY <1>1, <1>2 DEF NoDispute, Init, TypeOK, InstructionStatus, FundingStatus

(* A row of an instruction table moves to another status. *)
LEMMA RowMoves ==
    ASSUME NEW Ids, NEW rows \in [Ids -> Instruction], NEW r \in Ids,
           NEW s \in InstructionStatus
    PROVE  [rows EXCEPT ![r].status = s] \in [Ids -> Instruction]
BY DEF Instruction

LEMMA TypeStep ==
    ASSUME TypeOK, [Next]_vars
    PROVE  TypeOK'
<1> USE ConstantsAssumption
<1>1. ASSUME NEW mode \in {"manual", "sandbox", "api"},
             NEW feeType \in FeeTypes, CreateEscrow(mode, feeType)
      PROVE  TypeOK'
  BY <1>1 DEF TypeOK, CreateEscrow, EscrowStatus, moneyVars,
              instructionVars, environmentVars
<1>2. CASE RecordProviderReference
  BY <1>2 DEF TypeOK, RecordProviderReference, EscrowStatus, moneyVars,
              instructionVars, reportVars, environmentVars
<1>3. ASSUME NEW e \in EventIds, NEW type \in FeedTypes,
             NEW amount \in 1..MaxAmount, RecordFundingEvent(e, type, amount)
      PROVE  TypeOK'
  <2>1. events' \in [EventIds -> FundingEvent \cup {NoEvent}]
    <3>1. [type |-> type, amount |-> amount] \in FundingEvent
      BY DEF FundingEvent
    <3> QED
      BY <1>3, <3>1 DEF TypeOK, RecordFundingEvent
  <2>2. clamped' \in BOOLEAN /\ lateFunding' \in BOOLEAN
    <3>1. CASE type = "funding_reversed"
      BY <1>3, <3>1, Zenon DEF TypeOK, RecordFundingEvent
    <3>2. CASE type # "funding_reversed"
      BY <1>3, <3>2, Zenon DEF TypeOK, RecordFundingEvent
    <3> QED
      BY <3>1, <3>2
  <2>3. /\ confirmed' \in Nat
        /\ fundingStatus' \in FundingStatus
        /\ status' \in EscrowStatus \cup {NoEscrow}
    BY <1>3 DEF TypeOK, RecordFundingEvent, AfterReversal, EscrowStatus,
                FundingStatus
  <2> QED
    BY <1>3, <2>1, <2>2, <2>3 DEF TypeOK, RecordFundingEvent, instructionVars,
                            reportVars, environmentVars
<1>4. ASSUME NEW c \in ConditionIds, NEW required \in BOOLEAN,
             CreateCondition(c, required)
      PROVE  TypeOK'
  BY <1>4 DEF TypeOK, CreateCondition, Condition, EscrowStatus, moneyVars,
              instructionVars, reportVars, environmentVars
<1>5. ASSUME NEW c \in ConditionIds, SatisfyCondition(c)
      PROVE  TypeOK'
  BY <1>5 DEF TypeOK, SatisfyCondition, Condition, moneyVars,
              instructionVars, reportVars, environmentVars
<1>6. ASSUME NEW key \in AllKeys, NEW amount \in 0..MaxAmount,
             BeginRelease(key, amount)
      PROVE  TypeOK'
  BY <1>6 DEF TypeOK, BeginRelease, Call, moneyVars, instructionVars,
              reportVars, environmentVars
<1>7. CASE RefuseRelease
  BY <1>7 DEF TypeOK, RefuseRelease, FreeRow, Call, AllKeys, moneyVars,
              instructionVars, reportVars, environmentVars
<1>8. ASSUME NEW r \in ReleaseIds, FinishRelease(r)
      PROVE  TypeOK'
  BY <1>8 DEF TypeOK, FinishRelease, FreeRow, Call, AllKeys, Requested,
              RequiredConditions, Instruction, InstructionStatus,
              EscrowStatus, moneyVars, reportVars, environmentVars
<1>9. ASSUME NEW r \in ReleaseIds, ApproveRelease(r)
      PROVE  TypeOK'
  <2>1. releases' \in [ReleaseIds -> Instruction]
    BY <1>9, RowMoves DEF TypeOK, ApproveRelease, InstructionStatus
  <2> QED
    BY <1>9, <2>1
       DEF TypeOK, ApproveRelease, InstructionStatus, EscrowStatus,
           moneyVars, reportVars, environmentVars
<1>10. ASSUME NEW r \in ReleaseIds, ConfirmRelease(r)
       PROVE  TypeOK'
  <2>1. releases' \in [ReleaseIds -> Instruction]
    BY <1>10, RowMoves DEF TypeOK, ConfirmRelease, InstructionStatus
  <2> QED
    BY <1>10, <2>1
       DEF TypeOK, ConfirmRelease, InstructionStatus, EscrowStatus,
           moneyVars, reportVars, environmentVars
<1>11. ASSUME NEW r \in RefundIds, NEW key \in AllKeys,
              NEW amount \in 0..MaxAmount, RequestRefund(r, key, amount)
       PROVE  TypeOK'
  BY <1>11 DEF TypeOK, RequestRefund, Requested, Instruction,
               InstructionStatus, EscrowStatus, moneyVars, reportVars,
               environmentVars
<1>12. ASSUME NEW r \in RefundIds, ApproveRefund(r)
       PROVE  TypeOK'
  <2>1. refunds' \in [RefundIds -> Instruction]
    BY <1>12, RowMoves DEF TypeOK, ApproveRefund, InstructionStatus
  <2> QED
    BY <1>12, <2>1
       DEF TypeOK, ApproveRefund, InstructionStatus, EscrowStatus,
           moneyVars, reportVars, environmentVars
<1>13. ASSUME NEW r \in RefundIds, ConfirmRefund(r)
       PROVE  TypeOK'
  <2>1. refunds' \in [RefundIds -> Instruction]
    BY <1>13, RowMoves DEF TypeOK, ConfirmRefund, InstructionStatus
  <2> QED
    BY <1>13, <2>1
       DEF TypeOK, ConfirmRefund, InstructionStatus, EscrowStatus,
           moneyVars, reportVars, environmentVars
<1>14. ASSUME NEW ref \in SettlementRefs, NEW fee \in {0, 1},
              RecordSettlement(ref, fee)
       PROVE  TypeOK'
  BY <1>14 DEF TypeOK, RecordSettlement, moneyVars, instructionVars,
               environmentVars
<1>15. ASSUME NEW d \in Discrepancies, NEW s \in {status, "disputed"},
              ReconcileEscrow(confirmed + d, s)
       PROVE  TypeOK'
  BY <1>15 DEF TypeOK, ReconcileEscrow, moneyVars, instructionVars,
               environmentVars
<1>16. CASE DisputeChanges
  BY <1>16 DEF TypeOK, DisputeChanges, NoDispute, FreeRow, Call, AllKeys,
               moneyVars, instructionVars, reportVars
<1>17. ASSUME NEW c \in LinkedConditions, EvidenceChanges(c)
       PROVE  TypeOK'
  BY <1>17 DEF TypeOK, EvidenceChanges, moneyVars, instructionVars,
               reportVars
<1>18. CASE UNCHANGED vars
  BY <1>18 DEF TypeOK, vars, moneyVars, instructionVars, reportVars,
               environmentVars
<1> QED
  BY <1>1, <1>2, <1>3, <1>4, <1>5, <1>6, <1>7, <1>8, <1>9, <1>10, <1>11,
     <1>12, <1>13, <1>14, <1>15, <1>16, <1>17, <1>18
     DEF Next, Operations, Environment, Setup, Funding, ConditionStep,
         Release, Refund, Reporting

(* Every column keeps to its declared values. *)
THEOREM TypeCorrect == Spec => []TypeOK
BY TypeInit, TypeStep, PTL DEF Spec

-----------------------------------------------------------------------------
(* Exclusion of the two directions, and idempotency keys *)

LEMMA ExclusionStep ==
    ASSUME TypeOK, NoReleaseWithRefund, [Next]_vars
    PROVE  NoReleaseWithRefund'
<1> USE DEF NoReleaseWithRefund, HasActiveRelease, HasActiveRefund,
            ActiveStatuses, TypeOK, Instruction
<1>1. ASSUME NEW r \in ReleaseIds, FinishRelease(r)
      PROVE  NoReleaseWithRefund'
  BY <1>1 DEF FinishRelease, CanRelease
<1>2. ASSUME NEW r \in ReleaseIds, ApproveRelease(r) \/ ConfirmRelease(r)
      PROVE  NoReleaseWithRefund'
  BY <1>2 DEF ApproveRelease, ConfirmRelease
<1>3. ASSUME NEW r \in RefundIds, NEW key \in AllKeys,
             NEW amount \in 0..MaxAmount, RequestRefund(r, key, amount)
      PROVE  NoReleaseWithRefund'
  BY <1>3 DEF RequestRefund
<1>4. ASSUME NEW r \in RefundIds, ApproveRefund(r) \/ ConfirmRefund(r)
      PROVE  NoReleaseWithRefund'
  BY <1>4 DEF ApproveRefund, ConfirmRefund
<1>5. CASE UNCHANGED instructionVars
  BY <1>5 DEF instructionVars
<1> QED
  BY <1>1, <1>2, <1>3, <1>4, <1>5, OtherStepsAreQuiet DEF InstructionStep

(* No release and refund are ever in progress together, whatever funding   *)
(* events, disputes and retries come in between.                           *)
THEOREM DirectionsExcludeEachOther == Spec => []NoReleaseWithRefund
<1>1. Init => NoReleaseWithRefund
  BY DEF Init, NoReleaseWithRefund, HasActiveRelease, ActiveStatuses,
         NoInstruction
<1> QED
  BY <1>1, TypeCorrect, ExclusionStep, PTL DEF Spec

LEMMA KeyStep ==
    ASSUME TypeOK, OneRowPerKey, [Next]_vars
    PROVE  OneRowPerKey'
<1> USE DEF OneRowPerKey, Exists, TypeOK, Instruction
<1>1. ASSUME NEW r \in ReleaseIds, FinishRelease(r)
      PROVE  OneRowPerKey'
  BY <1>1 DEF FinishRelease, CanRelease, KeyUsed
<1>2. ASSUME NEW r \in ReleaseIds, ApproveRelease(r) \/ ConfirmRelease(r)
      PROVE  OneRowPerKey'
  <2>1. \A s \in ReleaseIds :
           /\ releases'[s].key = releases[s].key
           /\ releases'[s].status = "not_requested" =>
                 releases[s].status = "not_requested"
    BY <1>2 DEF ApproveRelease, ConfirmRelease
  <2>2. /\ \A s \in ReleaseIds : releases[s].status = "not_requested" =>
                                   releases'[s].status = "not_requested"
        /\ refunds' = refunds
    BY <1>2 DEF ApproveRelease, ConfirmRelease
  <2> QED
    BY <2>1, <2>2
<1>3. ASSUME NEW r \in RefundIds, NEW key \in AllKeys,
             NEW amount \in 0..MaxAmount, RequestRefund(r, key, amount)
      PROVE  OneRowPerKey'
  BY <1>3 DEF RequestRefund, KeyUsed
<1>4. ASSUME NEW r \in RefundIds, ApproveRefund(r) \/ ConfirmRefund(r)
      PROVE  OneRowPerKey'
  <2>1. \A s \in RefundIds :
           /\ refunds'[s].key = refunds[s].key
           /\ refunds'[s].status = "not_requested" =>
                 refunds[s].status = "not_requested"
    BY <1>4 DEF ApproveRefund, ConfirmRefund
  <2>2. /\ \A s \in RefundIds : refunds[s].status = "not_requested" =>
                                  refunds'[s].status = "not_requested"
        /\ releases' = releases
    BY <1>4 DEF ApproveRefund, ConfirmRefund
  <2> QED
    BY <2>1, <2>2
<1>5. CASE UNCHANGED instructionVars
  BY <1>5 DEF instructionVars
<1> QED
  BY <1>1, <1>2, <1>3, <1>4, <1>5, OtherStepsAreQuiet DEF InstructionStep

(* The unique constraints on idempotency keys are never reached.           *)
THEOREM RetriesFindTheirRow == Spec => []OneRowPerKey
<1>1. Init => OneRowPerKey
  BY DEF Init, OneRowPerKey, Exists, NoInstruction
<1> QED
  BY <1>1, TypeCorrect, KeyStep, PTL DEF Spec

-----------------------------------------------------------------------------
(* Conditions.  The invariant needs to know that no service sets the       *)
(* declared statuses "failed" and "waived": a required condition that is   *)
(* not pending is then satisfied.                                          *)

ConditionInv ==
    /\ ReleaseHonoursConditions
    /\ \A c \in ConditionIds :
          conditions[c].status \in {"absent", "pending", "satisfied"}

LEMMA ConditionStepLemma ==
    ASSUME TypeOK, ConditionInv, [Next]_vars
    PROVE  ConditionInv'
<1> USE DEF ConditionInv, ReleaseHonoursConditions, TypeOK, Instruction,
            Condition
<1>1. ASSUME NEW c \in ConditionIds, NEW required \in BOOLEAN,
             CreateCondition(c, required)
      PROVE  ConditionInv'
  BY <1>1 DEF CreateCondition, NoCondition, instructionVars
<1>2. ASSUME NEW c \in ConditionIds, SatisfyCondition(c)
      PROVE  ConditionInv'
  BY <1>2 DEF SatisfyCondition, instructionVars
<1>3. ASSUME NEW r \in ReleaseIds, FinishRelease(r)
      PROVE  ConditionInv'
  <2>1. \A c \in RequiredConditions : conditions[c].status = "satisfied"
    BY <1>3 DEF FinishRelease, CanRelease, RequiredConditionsSatisfied,
                RequiredConditions
  <2> QED
    BY <1>3, <2>1 DEF FinishRelease
<1>4. ASSUME NEW r \in ReleaseIds, ApproveRelease(r) \/ ConfirmRelease(r)
      PROVE  ConditionInv'
  BY <1>4 DEF ApproveRelease, ConfirmRelease
<1>5. CASE UNCHANGED <<releases, conditions>>
  BY <1>5
<1>6. ASSUME NEW c \in ConditionIds
      PROVE  SatisfyCondition(c) \/ (\E required \in BOOLEAN :
               CreateCondition(c, required)) => ConditionInv'
  BY <1>1, <1>2
<1> QED
  BY <1>3, <1>4, <1>5, <1>6
     DEF Next, Operations, Environment, Setup, Funding, ConditionStep,
         Release, Refund, Reporting, CreateEscrow, RecordProviderReference,
         RecordFundingEvent, BeginRelease, RefuseRelease, RequestRefund,
         ApproveRefund, ConfirmRefund, RecordSettlement, ReconcileEscrow,
         DisputeChanges, EvidenceChanges, vars, instructionVars

(* A condition required when a release was requested stays satisfied       *)
(* through approval and confirmation.                                      *)
THEOREM ConditionsHonoured == Spec => []ReleaseHonoursConditions
<1>1. Init => ConditionInv
  BY DEF Init, ConditionInv, ReleaseHonoursConditions, NoInstruction,
         NoCondition
<1>2. ConditionInv => ReleaseHonoursConditions
  BY DEF ConditionInv
<1> QED
  BY <1>1, <1>2, TypeCorrect, ConditionStepLemma, PTL DEF Spec

-----------------------------------------------------------------------------
(* One payout.  SingleInstruction is not inductive: that a second request  *)
(* is refused follows from the status, so the invariant ties every status  *)
(* a request can start from to the absence of instructions.                *)

AfterRequest == {"release_pending", "released", "refund_pending", "refunded"}

PayoutInv ==
    /\ ~lateFunding => (AnyInstruction => status \in AfterRequest)
    /\ StatusTracksInstruction
    /\ SingleInstruction

LEMMA PayoutStep ==
    ASSUME TypeOK, PayoutInv, [Next]_vars
    PROVE  PayoutInv'
<1> USE DEF PayoutInv, StatusTracksInstruction, SingleInstruction,
            AnyInstruction, Exists, HasActiveRelease, HasActiveRefund,
            ActiveStatuses, AfterRequest, TypeOK, Instruction
<1>1. CASE Setup
  BY <1>1 DEF Setup, CreateEscrow, RecordProviderReference, NoEscrow,
              moneyVars, instructionVars
<1>2. CASE Funding
  <2>1. PICK e \in EventIds, type \in FeedTypes, amount \in 1..MaxAmount :
             RecordFundingEvent(e, type, amount)
    BY <1>2 DEF Funding
  <2>2. CASE type = "funding_reversed"
    BY <2>1, <2>2 DEF RecordFundingEvent, instructionVars
  <2>3. CASE type # "funding_reversed"
    <3>1. /\ lateFunding' = (lateFunding \/ AnyInstruction)
          /\ status' \in {"funded", "partially_funded"}
          /\ releases' = releases /\ refunds' = refunds
      BY <2>1, <2>3 DEF RecordFundingEvent, instructionVars
    <3>2. SUFFICES ASSUME ~lateFunding' PROVE PayoutInv'
      OBVIOUS
    <3>3. ~AnyInstruction
      BY ONLY <3>1, <3>2
    <3> QED
      BY <3>1, <3>3
  <2> QED
    BY <2>2, <2>3
<1>3. CASE ConditionStep
  BY <1>3 DEF ConditionStep, CreateCondition, SatisfyCondition, moneyVars,
              instructionVars
<1>4. CASE Release
  <2>1. ASSUME NEW key \in AllKeys, NEW amount \in 0..MaxAmount,
               BeginRelease(key, amount) \/ RefuseRelease
        PROVE  PayoutInv'
    BY <2>1 DEF BeginRelease, RefuseRelease, moneyVars, instructionVars
  <2>2. ASSUME NEW r \in ReleaseIds, FinishRelease(r)
        PROVE  PayoutInv'
    BY <2>2 DEF FinishRelease, CanRelease, ReleaseEligible, moneyVars
  <2>3. ASSUME NEW r \in ReleaseIds, ApproveRelease(r)
        PROVE  PayoutInv'
    BY <2>3 DEF ApproveRelease, moneyVars
  <2>4. ASSUME NEW r \in ReleaseIds, ConfirmRelease(r)
        PROVE  PayoutInv'
    BY <2>4 DEF ConfirmRelease, moneyVars
  <2>5. RefuseRelease => PayoutInv'
    BY DEF RefuseRelease, moneyVars, instructionVars
  <2> QED
    BY <1>4, <2>1, <2>2, <2>3, <2>4, <2>5 DEF Release
<1>5. CASE Refund
  <2>1. ASSUME NEW r \in RefundIds, NEW key \in AllKeys,
               NEW amount \in 0..MaxAmount, RequestRefund(r, key, amount)
        PROVE  PayoutInv'
    BY <2>1 DEF RequestRefund, RefundEligible, moneyVars
  <2>2. ASSUME NEW r \in RefundIds, ApproveRefund(r)
        PROVE  PayoutInv'
    BY <2>2 DEF ApproveRefund, moneyVars
  <2>3. ASSUME NEW r \in RefundIds, ConfirmRefund(r)
        PROVE  PayoutInv'
    BY <2>3 DEF ConfirmRefund, moneyVars
  <2> QED
    BY <1>5, <2>1, <2>2, <2>3 DEF Refund
<1>6. CASE Reporting
  BY <1>6 DEF Reporting, RecordSettlement, ReconcileEscrow, moneyVars,
              instructionVars
<1>7. CASE Environment
  BY <1>7 DEF Environment, DisputeChanges, EvidenceChanges, moneyVars,
              instructionVars
<1>8. CASE UNCHANGED vars
  BY <1>8 DEF vars, moneyVars, instructionVars
<1> QED
  BY <1>1, <1>2, <1>3, <1>4, <1>5, <1>6, <1>7, <1>8 DEF Next, Operations

LEMMA PayoutInit == Init => PayoutInv
BY DEF Init, PayoutInv, StatusTracksInstruction, SingleInstruction,
       AnyInstruction, Exists, HasActiveRelease, HasActiveRefund,
       ActiveStatuses, NoInstruction, NoEscrow

(* Without funding after the first request an escrow has at most one       *)
(* payment instruction, whoever asks and however often.                    *)
THEOREM OnePayout == Spec => []SingleInstruction
<1>1. PayoutInv => SingleInstruction
  BY DEF PayoutInv
<1> QED
  BY <1>1, PayoutInit, TypeCorrect, PayoutStep, PTL DEF Spec

(* Without funding after the first request the pending statuses say        *)
(* exactly which instruction is in progress.                               *)
THEOREM StatusTracks == Spec => []StatusTracksInstruction
<1>1. PayoutInv => StatusTracksInstruction
  BY DEF PayoutInv
<1> QED
  BY <1>1, PayoutInit, TypeCorrect, PayoutStep, PTL DEF Spec

-----------------------------------------------------------------------------
(* Refinement of Payouts *)

(* One entry of the book changes when one row does. *)
LEMMA EntryMoves ==
    ASSUME NEW r \in ReleaseIds \cup RefundIds, NEW s,
           \A i \in (ReleaseIds \cup RefundIds) \ {r} : Book'[i] = Book[i],
           Book'[r] = [Book[r] EXCEPT !.stage = s]
    PROVE  Book' = [Book EXCEPT ![r].stage = s]
BY DEF Book

LEMMA EntryMade ==
    ASSUME NEW r \in ReleaseIds \cup RefundIds, NEW s, NEW a,
           \A i \in (ReleaseIds \cup RefundIds) \ {r} : Book'[i] = Book[i],
           Book'[r] = [stage |-> s, amount |-> a]
    PROVE  Book' = [Book EXCEPT ![r].stage = s, ![r].amount = a]
<1>1. PICK x, y : Book[r] = [stage |-> x, amount |-> y]
  BY DEF Book, AsEntry
<1>2. [[Book[r] EXCEPT !.stage = s] EXCEPT !.amount = a]
        = [stage |-> s, amount |-> a]
  <2>1. [Book[r] EXCEPT !.stage = s] = [stage |-> s, amount |-> y]
    BY <1>1
  <2>2. [[stage |-> s, amount |-> y] EXCEPT !.amount = a]
          = [stage |-> s, amount |-> a]
    OBVIOUS
  <2> QED
    BY <2>1, <2>2, Zenon
<1>3. Book'[r] = [[Book[r] EXCEPT !.stage = s] EXCEPT !.amount = a]
  BY <1>2
<1>4. Book' = [Book EXCEPT ![r] = Book'[r]]
  BY DEF Book
<1>5. [Book EXCEPT ![r].stage = s, ![r].amount = a]
        = [Book EXCEPT ![r] = [[Book[r] EXCEPT !.stage = s] EXCEPT !.amount = a]]
  BY DEF Book
<1> QED
  BY <1>3, <1>4, <1>5

LEMMA BookStep ==
    ASSUME TypeOK, NoReleaseWithRefund, [Next]_vars
    PROVE  [P!Next]_Book
<1> USE DisjointIds
<1>1. ASSUME NEW r \in ReleaseIds, FinishRelease(r)
      PROVE  P!Request(r)
  <2>1. PICK a \in Nat \ {0} : a = Requested(rowLock.amount)
    BY <1>1 DEF FinishRelease, CanRelease, Payable, Requested, TypeOK, Call
  <2>2. Book[r].stage = "none" /\ r \in P!Ids
    BY <1>1 DEF FinishRelease, Exists, Book, AsEntry, Stage, P!Ids
  <2>3. \A j \in P!Opposite(r) : ~P!InProgress(j)
    BY <1>1 DEF FinishRelease, CanRelease, HasActiveRefund, ActiveStatuses,
                Book, AsEntry, Stage, TypeOK, Instruction, P!Opposite, P!InProgress
  <2>4. Book' = [Book EXCEPT ![r].stage = "requested", ![r].amount = a]
    <3>1. Book'[r] = [stage |-> "requested", amount |-> a]
      BY <1>1, <2>1 DEF FinishRelease, Book, AsEntry, Stage, TypeOK
    <3>2. \A i \in (ReleaseIds \cup RefundIds) \ {r} : Book'[i] = Book[i]
      BY <1>1 DEF FinishRelease, Book, AsEntry, TypeOK
    <3> QED
      BY <3>1, <3>2, EntryMade
  <2>5. Book'[r].amount = a
    BY <1>1, <2>1 DEF FinishRelease, Book, AsEntry, TypeOK
  <2> QED
    BY <2>1, <2>2, <2>3, <2>4, <2>5 DEF P!Request
<1>2. ASSUME NEW r \in ReleaseIds, ApproveRelease(r)
      PROVE  P!Instruct(r)
  <2> USE DEF ApproveRelease, Book, AsEntry, Stage, TypeOK, Instruction
  <2>1. Book'[r] = [Book[r] EXCEPT !.stage = "sent"]
    BY <1>2
  <2>2. \A i \in (ReleaseIds \cup RefundIds) \ {r} : Book'[i] = Book[i]
    BY <1>2
  <2>3. Book[r].stage = "requested"
    BY <1>2
  <2> HIDE DEF ApproveRelease, Book, AsEntry, Stage, TypeOK, Instruction
  <2> QED
    BY <2>1, <2>2, <2>3, EntryMoves DEF P!Instruct
<1>3. ASSUME NEW r \in ReleaseIds, ConfirmRelease(r)
      PROVE  P!Confirm(r)
  <2> USE DEF ConfirmRelease, Book, AsEntry, Stage, TypeOK, Instruction
  <2>1. Book'[r] = [Book[r] EXCEPT !.stage = "confirmed"]
    BY <1>3
  <2>2. \A i \in (ReleaseIds \cup RefundIds) \ {r} : Book'[i] = Book[i]
    BY <1>3
  <2>3. Book[r].stage = "sent"
    BY <1>3
  <2> HIDE DEF ConfirmRelease, Book, AsEntry, Stage, TypeOK, Instruction
  <2> QED
    BY <2>1, <2>2, <2>3, EntryMoves DEF P!Confirm
<1>4. ASSUME NEW r \in RefundIds, NEW key \in AllKeys,
             NEW amount \in 0..MaxAmount, RequestRefund(r, key, amount)
      PROVE  P!Request(r)
  <2>1. PICK a \in Nat \ {0} : a = Requested(amount)
    BY <1>4 DEF RequestRefund, Payable, Requested, TypeOK, Call
  <2>2. Book[r].stage = "none" /\ r \in P!Ids
    BY <1>4 DEF RequestRefund, Exists, Book, AsEntry, Stage, P!Ids
  <2>3. \A j \in P!Opposite(r) : ~P!InProgress(j)
    BY <1>4 DEF RequestRefund, HasActiveRelease, ActiveStatuses, Book, AsEntry,
                Stage, TypeOK, Instruction, P!Opposite, P!InProgress
  <2>4. Book' = [Book EXCEPT ![r].stage = "requested", ![r].amount = a]
    <3>1. Book'[r] = [stage |-> "requested", amount |-> a]
      BY <1>4, <2>1 DEF RequestRefund, Book, AsEntry, Stage, TypeOK
    <3>2. \A i \in (ReleaseIds \cup RefundIds) \ {r} : Book'[i] = Book[i]
      BY <1>4 DEF RequestRefund, Book, AsEntry, TypeOK
    <3> QED
      BY <3>1, <3>2, EntryMade
  <2>5. Book'[r].amount = a
    BY <1>4, <2>1 DEF RequestRefund, Book, AsEntry, TypeOK
  <2> QED
    BY <2>1, <2>2, <2>3, <2>4, <2>5 DEF P!Request
<1>5. ASSUME NEW r \in RefundIds, ApproveRefund(r)
      PROVE  P!Instruct(r)
  <2> USE DEF ApproveRefund, Book, AsEntry, Stage, TypeOK, Instruction
  <2>1. Book'[r] = [Book[r] EXCEPT !.stage = "sent"]
    BY <1>5
  <2>2. \A i \in (ReleaseIds \cup RefundIds) \ {r} : Book'[i] = Book[i]
    BY <1>5
  <2>3. Book[r].stage = "requested"
    BY <1>5
  <2> HIDE DEF ApproveRefund, Book, AsEntry, Stage, TypeOK, Instruction
  <2> QED
    BY <2>1, <2>2, <2>3, EntryMoves DEF P!Instruct
<1>6. ASSUME NEW r \in RefundIds, ConfirmRefund(r)
      PROVE  P!Confirm(r)
  <2> USE DEF ConfirmRefund, Book, AsEntry, Stage, TypeOK, Instruction
  <2>1. Book'[r] = [Book[r] EXCEPT !.stage = "confirmed"]
    BY <1>6
  <2>2. \A i \in (ReleaseIds \cup RefundIds) \ {r} : Book'[i] = Book[i]
    BY <1>6
  <2>3. Book[r].stage = "sent"
    BY <1>6
  <2> HIDE DEF ConfirmRefund, Book, AsEntry, Stage, TypeOK, Instruction
  <2> QED
    BY <2>1, <2>2, <2>3, EntryMoves DEF P!Confirm
<1>7. CASE UNCHANGED instructionVars
  BY <1>7 DEF instructionVars, Book, AsEntry
<1> QED
  BY <1>1, <1>2, <1>3, <1>4, <1>5, <1>6, <1>7, OtherStepsAreQuiet
     DEF InstructionStep, P!Next, P!Ids

(* The two instruction tables stay apart, keep one row for each request    *)
(* and agree with the escrow.                                              *)
THEOREM InstructionsStayInStep == Spec => []InstructionsAgree
BY DirectionsExcludeEachOther, RetriesFindTheirRow, StatusTracks, OnePayout, PTL
DEF InstructionsAgree

(* The escrow implements Payouts: amounts are fixed at the request, stages *)
(* are neither skipped nor repeated, and directions never overlap.         *)
THEOREM ImplementsPayouts == Spec => PayoutsSpec
<1>1. Init => P!Init
  BY DisjointIds
     DEF Init, Book, AsEntry, Stage, NoInstruction, P!Init, P!Ids, P!Blank
<1>2. TypeOK /\ NoReleaseWithRefund /\ [Next]_vars => [P!Next]_Book
  BY BookStep
<1> QED
  BY <1>1, <1>2, TypeCorrect, DirectionsExcludeEachOther, PTL
     DEF Spec, PayoutsSpec, P!Spec

-----------------------------------------------------------------------------
(* The declared state machine *)

LEMMA DeclaredStep ==
    ASSUME TypeOK, PayoutInv, [Next]_vars,
           status' # status, status # NoEscrow, events' = events, ~lateFunding
    PROVE  status' \in ValidTransitions[status]
<1> USE DEF ValidTransitions, EscrowStatus
<1>1. CASE Setup
  BY <1>1 DEF Setup, CreateEscrow, RecordProviderReference
<1>2. CASE Funding
  <2>1. PICK e \in EventIds, type \in FeedTypes, amount \in 1..MaxAmount :
             RecordFundingEvent(e, type, amount)
    BY <1>2 DEF Funding
  <2>2. events'[e].amount = amount /\ events[e].amount = 0 /\ amount > 0
    BY <2>1 DEF RecordFundingEvent, KnownEvent, TypeOK, NoEvent
  <2> QED
    BY <2>2
<1>3. CASE ConditionStep
  BY <1>3 DEF ConditionStep, CreateCondition, SatisfyCondition
<1>4. ASSUME NEW r \in ReleaseIds, FinishRelease(r)
      PROVE  status' \in ValidTransitions[status]
  BY <1>4 DEF FinishRelease, CanRelease, ReleaseEligible
<1>5. ASSUME NEW r \in ReleaseIds, ConfirmRelease(r)
      PROVE  status' \in ValidTransitions[status]
  BY <1>5 DEF ConfirmRelease, PayoutInv, StatusTracksInstruction,
              HasActiveRelease, ActiveStatuses
<1>6. ASSUME NEW r \in RefundIds, NEW key \in AllKeys,
             NEW amount \in 0..MaxAmount, RequestRefund(r, key, amount)
      PROVE  status' \in ValidTransitions[status]
  BY <1>6 DEF RequestRefund, RefundEligible
<1>7. ASSUME NEW r \in RefundIds, ConfirmRefund(r)
      PROVE  status' \in ValidTransitions[status]
  BY <1>7 DEF ConfirmRefund, PayoutInv, StatusTracksInstruction,
              HasActiveRefund, ActiveStatuses
<1> QED
  BY <1>1, <1>2, <1>3, <1>4, <1>5, <1>6, <1>7
     DEF Next, Operations, Environment, Release, Refund, Reporting,
         BeginRelease, RefuseRelease, ApproveRelease, ApproveRefund,
         RecordSettlement, ReconcileEscrow, DisputeChanges, EvidenceChanges,
         vars

(* Apart from recording funding, and until funding follows a request, the  *)
(* services keep to VALID_TRANSITIONS without consulting it.               *)
THEOREM FollowsDeclaration == Spec => WorkflowFollowsDeclaration
<1>1. TypeOK /\ PayoutInv /\ [Next]_vars =>
        [status' # status /\ status # NoEscrow /\ events' = events
           /\ ~lateFunding
         => status' \in ValidTransitions[status]]_vars
  BY DeclaredStep
<1> QED
  BY <1>1, TypeCorrect, PayoutInit, PayoutStep, PTL
     DEF Spec, WorkflowFollowsDeclaration

-----------------------------------------------------------------------------
(* The escrow's columns.  The three parts do not lean on each other, but   *)
(* each is lost by another kind of step.                                   *)

LEMMA FundingStatusStep ==
    ASSUME TypeOK, FundingStatusAgrees, [Next]_vars
    PROVE  FundingStatusAgrees'
<1>1. ASSUME NEW e \in EventIds, NEW type \in FeedTypes,
             NEW amount \in 1..MaxAmount, RecordFundingEvent(e, type, amount)
      PROVE  FundingStatusAgrees'
  <2>1. CASE type = "funding_reversed"
    BY <1>1, <2>1 DEF RecordFundingEvent, FundingStatusAgrees
  <2>2. CASE type # "funding_reversed"
    BY <1>1, <2>2, ConstantsAssumption
       DEF RecordFundingEvent, FundingStatusAgrees, FullyFunded, TypeOK
  <2> QED
    BY <2>1, <2>2
<1>2. ASSUME UNCHANGED <<fundingStatus, confirmed, events>>
      PROVE  FundingStatusAgrees'
  BY <1>2 DEF FundingStatusAgrees
<1>3. Funding => FundingStatusAgrees'
  BY <1>1 DEF Funding
<1> QED
  BY <1>2, <1>3
     DEF Next, Operations, Environment, Setup, ConditionStep, Release, Refund,
         Reporting, CreateEscrow, RecordProviderReference, CreateCondition,
         SatisfyCondition, BeginRelease, RefuseRelease, FinishRelease,
         ApproveRelease, ConfirmRelease, RequestRefund, ApproveRefund,
         ConfirmRefund, RecordSettlement, ReconcileEscrow, DisputeChanges,
         EvidenceChanges, vars, moneyVars

LEMMA CopiesStep ==
    ASSUME TypeOK, CopiesNameARow, [Next]_vars
    PROVE  CopiesNameARow'
<1> USE DEF CopiesNameARow, Exists, TypeOK, Instruction
<1>1. ASSUME NEW r \in ReleaseIds, FinishRelease(r)
      PROVE  CopiesNameARow'
  BY <1>1 DEF FinishRelease
<1>2. ASSUME NEW r \in ReleaseIds, ApproveRelease(r) \/ ConfirmRelease(r)
      PROVE  CopiesNameARow'
  BY <1>2 DEF ApproveRelease, ConfirmRelease
<1>3. ASSUME NEW r \in RefundIds, NEW key \in AllKeys,
             NEW amount \in 0..MaxAmount, RequestRefund(r, key, amount)
      PROVE  CopiesNameARow'
  BY <1>3 DEF RequestRefund
<1>4. ASSUME NEW r \in RefundIds, ApproveRefund(r) \/ ConfirmRefund(r)
      PROVE  CopiesNameARow'
  BY <1>4 DEF ApproveRefund, ConfirmRefund
<1>5. CASE UNCHANGED instructionVars
  BY <1>5 DEF instructionVars
<1> QED
  BY <1>1, <1>2, <1>3, <1>4, <1>5, OtherStepsAreQuiet DEF InstructionStep

(* A row in progress or confirmed is not lost: whatever an instruction     *)
(* step does to the tables, it backs the status it leaves behind.          *)
LEMMA BackedStep ==
    ASSUME TypeOK, StatusIsBacked, [Next]_vars
    PROVE  StatusIsBacked'
<1> USE DEF StatusIsBacked, HasActiveRelease, HasActiveRefund,
            ActiveStatuses, TypeOK, Instruction
<1>1. ASSUME NEW r \in ReleaseIds, FinishRelease(r)
      PROVE  StatusIsBacked'
  BY <1>1 DEF FinishRelease
<1>2. ASSUME NEW r \in ReleaseIds, ApproveRelease(r)
      PROVE  StatusIsBacked'
  BY <1>2 DEF ApproveRelease
<1>3. ASSUME NEW r \in ReleaseIds, ConfirmRelease(r)
      PROVE  StatusIsBacked'
  BY <1>3 DEF ConfirmRelease
<1>4. ASSUME NEW r \in RefundIds, NEW key \in AllKeys,
             NEW amount \in 0..MaxAmount, RequestRefund(r, key, amount)
      PROVE  StatusIsBacked'
  BY <1>4 DEF RequestRefund
<1>5. ASSUME NEW r \in RefundIds, ApproveRefund(r)
      PROVE  StatusIsBacked'
  BY <1>5 DEF ApproveRefund
<1>6. ASSUME NEW r \in RefundIds, ConfirmRefund(r)
      PROVE  StatusIsBacked'
  BY <1>6 DEF ConfirmRefund
<1>7. ASSUME UNCHANGED instructionVars,
             \/ status' = status
             \/ status' \in {"awaiting_provider", "awaiting_funding",
                             "partially_funded", "funded",
                             "conditions_pending"}
      PROVE  StatusIsBacked'
  BY <1>7 DEF instructionVars
<1>8. \/ InstructionStep
      \/ status' = status
      \/ status' \in {"awaiting_provider", "awaiting_funding",
                      "partially_funded", "funded", "conditions_pending"}
  BY DEF Next, Operations, Environment, Setup, Funding, ConditionStep,
         Release, Refund, Reporting, CreateEscrow, RecordProviderReference,
         RecordFundingEvent, CreateCondition, SatisfyCondition, BeginRelease,
         RefuseRelease, RecordSettlement, ReconcileEscrow, DisputeChanges,
         EvidenceChanges, InstructionStep, vars
<1> QED
  BY <1>1, <1>2, <1>3, <1>4, <1>5, <1>6, <1>7, <1>8, OtherStepsAreQuiet
     DEF InstructionStep

(* Every column that repeats what another table says stays true to it: the *)
(* funding status to the balance, the copies to a row, the status to the   *)
(* instruction behind it.                                                  *)
THEOREM ColumnsStayTrue == Spec => []ColumnsAgree
<1>1. Init => ColumnsAgree
  BY DEF Init, ColumnsAgree, FundingStatusAgrees, CopiesNameARow,
         StatusIsBacked, Exists, NoInstruction, NoEscrow
<1>2. TypeOK /\ ColumnsAgree /\ [Next]_vars => ColumnsAgree'
  BY FundingStatusStep, CopiesStep, BackedStep DEF ColumnsAgree
<1> QED
  BY <1>1, <1>2, TypeCorrect, PTL DEF Spec

-----------------------------------------------------------------------------
(* Disputes *)

(* A call in progress while a dispute is open is the one that was in       *)
(* progress when it was opened, and has not made its release yet.          *)
HolderIsOlder ==
    disputeOpen /\ rowLock.held =>
        rowLock = opened.call /\ \A r \in ReleaseIds : ~Escaped(r)

DisputeInv == HolderIsOlder /\ DisputeAdmitsOneCall

LEMMA DisputeStep ==
    ASSUME TypeOK, TypeOK', DisputeInv, [Next]_vars
    PROVE  DisputeInv'
<1> USE DEF DisputeInv, HolderIsOlder, DisputeAdmitsOneCall, Escaped, Exists
<1>1. ASSUME NEW r \in ReleaseIds, FinishRelease(r)
      PROVE  DisputeInv'
  <2>1. /\ rowLock.held /\ rowLock' = FreeRow /\ ~rowLock'.held
        /\ UNCHANGED <<disputeOpen, opened>>
    BY <1>1 DEF FinishRelease, FreeRow, environmentVars
  <2>2. /\ \A s \in ReleaseIds : s # r => releases'[s] = releases[s]
        /\ releases'[r].key = rowLock.key
        /\ rowLock.amount \in {0, releases'[r].amount}
    BY <1>1 DEF FinishRelease, TypeOK, Requested
  <2> QED
    BY <2>1, <2>2
<1>2. ASSUME NEW r \in ReleaseIds, ApproveRelease(r) \/ ConfirmRelease(r)
      PROVE  DisputeInv'
  <2>1. UNCHANGED <<rowLock, disputeOpen, opened>>
    BY <1>2 DEF ApproveRelease, ConfirmRelease, environmentVars
  <2>2. \A s \in ReleaseIds : /\ releases'[s].key = releases[s].key
                              /\ releases'[s].amount = releases[s].amount
                              /\ Exists(releases'[s]) => Exists(releases[s])
    BY <1>2 DEF ApproveRelease, ConfirmRelease, TypeOK, Instruction
  <2> QED
    BY <2>1, <2>2
<1>3. CASE DisputeChanges
  <2>1. UNCHANGED <<releases, rowLock>>
    BY <1>3 DEF DisputeChanges, instructionVars
  <2>2. CASE disputeOpen
    BY <1>3, <2>2 DEF DisputeChanges
  <2>3. CASE ~disputeOpen
    <3>1. /\ opened'.rows = {r \in ReleaseIds : Exists(releases[r])}
          /\ opened'.call = rowLock
      BY <1>3, <2>3 DEF DisputeChanges
    <3> QED
      BY <2>1, <3>1
  <2> QED
    BY <2>2, <2>3
<1>4. ASSUME NEW key \in AllKeys, NEW amount \in 0..MaxAmount,
             BeginRelease(key, amount)
      PROVE  DisputeInv'
  BY <1>4 DEF BeginRelease, environmentVars
<1>5. CASE RefuseRelease
  BY <1>5 DEF RefuseRelease, FreeRow, instructionVars, environmentVars
<1>6. CASE UNCHANGED <<releases, rowLock, disputeOpen, opened>>
  BY <1>6
<1> QED
  BY <1>1, <1>2, <1>3, <1>4, <1>5, <1>6
     DEF Next, Operations, Environment, Setup, Funding, ConditionStep,
         Release, Refund, Reporting, CreateEscrow, RecordProviderReference,
         RecordFundingEvent, CreateCondition, SatisfyCondition,
         RequestRefund, ApproveRefund, ConfirmRefund, RecordSettlement,
         ReconcileEscrow, EvidenceChanges, vars, instructionVars,
         environmentVars

(* For any number of calls, keys and funding events: while a dispute stays *)
(* open one release at most appears, that of the request_release call that *)
(* had read the disputes when it was opened.                               *)
THEOREM OneReleaseEscapes == Spec => []DisputeAdmitsOneCall
<1>1. Init => DisputeInv
  BY DEF Init, DisputeInv, HolderIsOlder, DisputeAdmitsOneCall, Escaped
<1>2. TypeOK /\ TypeOK' /\ DisputeInv /\ [Next]_vars => DisputeInv'
  BY DisputeStep
<1>3. DisputeInv => DisputeAdmitsOneCall
  BY DEF DisputeInv
<1> QED
  BY <1>1, <1>2, <1>3, TypeCorrect, PTL DEF Spec

-----------------------------------------------------------------------------
(* The balance.  Sums over the ledger change by the one event a step       *)
(* records, so the invariant needs the recorded events to be finite.  That *)
(* payouts stay below what came in follows from each single instruction    *)
(* staying below it, because there is at most one.                         *)

Recorded == {e \in EventIds : KnownEvent(e)}
Received == EventTotal(Confirmations)
Returned == EventTotal(Reversals)

MoneyInv ==
    /\ IsFiniteSet(Recorded)
    /\ LedgerAgrees
    /\ ~lateFunding =>
          /\ \A r \in ReleaseIds : Exists(releases[r]) =>
                releases[r].amount <= Received
          /\ \A r \in RefundIds : Exists(refunds[r]) =>
                refunds[r].amount <= Received

LEMMA LedgerParts ==
    /\ Confirmations \subseteq Recorded /\ Reversals \subseteq Recorded
    /\ Confirmations \subseteq EventIds /\ Reversals \subseteq EventIds
BY DEF Confirmations, Reversals, Recorded, KnownEvent, NoEvent

LEMMA LedgerAmounts ==
    ASSUME TypeOK
    PROVE  \A e \in EventIds :
              Amounts(events)[e] = events[e].amount /\ events[e].amount \in Nat
BY DEF TypeOK, Amounts, FundingEvent, NoEvent

LEMMA TotalsAreNumbers ==
    ASSUME TypeOK, IsFiniteSet(Recorded)
    PROVE  Received \in Nat /\ Returned \in Nat
<1>1. IsFiniteSet(Confirmations) /\ IsFiniteSet(Reversals)
  BY LedgerParts, FS_Subset
<1>2. /\ \A e \in Confirmations : Amounts(events)[e] \in Nat
      /\ \A e \in Reversals : Amounts(events)[e] \in Nat
  BY LedgerParts, LedgerAmounts
<1>3. SumFunctionOnSet(Amounts(events), Confirmations) \in Nat
  BY <1>1, <1>2, SumType
<1>4. SumFunctionOnSet(Amounts(events), Reversals) \in Nat
  BY <1>1, <1>2, SumType
<1> QED
  BY <1>3, <1>4 DEF Received, Returned, EventTotal

(* A new event adds its amount to the total of its kind and leaves the     *)
(* other total alone.                                                      *)
LEMMA TotalsGrow ==
    ASSUME TypeOK, TypeOK', IsFiniteSet(Recorded),
           NEW e \in EventIds, NEW type \in FeedTypes,
           NEW amount \in 1..MaxAmount, RecordFundingEvent(e, type, amount)
    PROVE  /\ IsFiniteSet(Recorded')
           /\ type = "funding_reversed" =>
                 Received' = Received /\ Returned' = Returned + amount
           /\ type # "funding_reversed" =>
                 Received' = Received + amount /\ Returned' = Returned
<1> DEFINE old == Amounts(events)
           new == Amounts(events')
<1>1. /\ e \notin Recorded
      /\ events' = [events EXCEPT ![e] = [type |-> type, amount |-> amount]]
      /\ amount > 0
  BY DEF RecordFundingEvent, Recorded
<1>2. /\ events'[e] = [type |-> type, amount |-> amount]
      /\ \A f \in EventIds \ {e} : events'[f] = events[f]
  BY <1>1 DEF TypeOK
<1>3. events'[e].type = type /\ events'[e].amount = amount /\ events'[e] # NoEvent
  BY <1>1, <1>2 DEF NoEvent
<1>4. new[e] = amount /\ \A f \in EventIds \ {e} : new[f] = old[f]
  <2>1. \A f \in EventIds : new[f] = events'[f].amount /\ old[f] = events[f].amount
    BY DEF TypeOK, Amounts
  <2> QED
    BY <1>2, <1>3, <2>1
<1>5. /\ Recorded' = Recorded \cup {e}
      /\ type = "funding_reversed" =>
            Confirmations' = Confirmations /\ Reversals' = Reversals \cup {e}
      /\ type # "funding_reversed" =>
            Confirmations' = Confirmations \cup {e} /\ Reversals' = Reversals
  <2>1. events[e] = NoEvent
    BY <1>1 DEF Recorded, KnownEvent
  <2> QED
    BY <1>2, <1>3, <2>1
       DEF Recorded, Confirmations, Reversals, KnownEvent, NoEvent
<1>6. \A f \in EventIds : new[f] \in Int /\ old[f] \in Int
  <2>1. \A f \in EventIds : events'[f].amount \in Nat /\ events[f].amount \in Nat
    BY DEF TypeOK, FundingEvent, NoEvent
  <2> QED
    BY <2>1 DEF TypeOK, Amounts
<1> HIDE DEF old, new
<1>7. ASSUME NEW S \in SUBSET EventIds, IsFiniteSet(S), e \notin S
      PROVE  /\ SumFunctionOnSet(new, S) = SumFunctionOnSet(old, S)
             /\ SumFunctionOnSet(new, S \cup {e}) = SumFunctionOnSet(old, S) + amount
  <2>1. \A f \in S : new[f] = old[f]
    BY <1>4, <1>7
  <2>2. SumFunctionOnSet(new, S) = SumFunctionOnSet(old, S)
    BY <1>7, <2>1, SumSame
  <2>3. \A f \in S \cup {e} : new[f] \in Int
    BY <1>6
  <2>4. SumFunctionOnSet(new, S \cup {e}) = new[e] + SumFunctionOnSet(new, S)
    BY <1>7, <2>3, SumAdds
  <2>5. SumFunctionOnSet(old, S) \in Int
    BY <1>6, <1>7, SumType
  <2> QED
    BY <1>4, <2>2, <2>4, <2>5
<1>8. /\ IsFiniteSet(Confirmations) /\ Confirmations \in SUBSET EventIds
      /\ IsFiniteSet(Reversals) /\ Reversals \in SUBSET EventIds
      /\ e \notin Confirmations /\ e \notin Reversals
  BY <1>1, LedgerParts, FS_Subset
<1>9. IsFiniteSet(Recorded')
  BY <1>5, FS_AddElement
<1>10. /\ Received = SumFunctionOnSet(old, Confirmations)
       /\ Returned = SumFunctionOnSet(old, Reversals)
       /\ Received' = SumFunctionOnSet(new, Confirmations')
       /\ Returned' = SumFunctionOnSet(new, Reversals')
  BY DEF Received, Returned, EventTotal, old, new, Amounts
<1>11. /\ SumFunctionOnSet(new, Confirmations) = Received
       /\ SumFunctionOnSet(new, Confirmations \cup {e}) = Received + amount
       /\ SumFunctionOnSet(new, Reversals) = Returned
       /\ SumFunctionOnSet(new, Reversals \cup {e}) = Returned + amount
  BY <1>7, <1>8, <1>10
<1> QED
  BY <1>5, <1>9, <1>10, <1>11

(* The steps that record nothing leave the ledger, the balance and the     *)
(* histories as they are; those that make no row leave its amount.         *)
LEMMA MoneyQuietStep ==
    ASSUME TypeOK, MoneyInv, UNCHANGED moneyVars,
           \A r \in ReleaseIds : Exists(releases'[r]) =>
              \/ Exists(releases[r]) /\ releases'[r].amount = releases[r].amount
              \/ releases'[r].amount <= confirmed,
           \A r \in RefundIds : Exists(refunds'[r]) =>
              \/ Exists(refunds[r]) /\ refunds'[r].amount = refunds[r].amount
              \/ refunds'[r].amount <= confirmed,
           TypeOK'
    PROVE  MoneyInv'
<1>1. /\ Recorded' = Recorded /\ Received' = Received /\ Returned' = Returned
      /\ Confirmations' = Confirmations /\ Reversals' = Reversals
      /\ confirmed' = confirmed /\ clamped' = clamped
      /\ lateFunding' = lateFunding
  BY DEF moneyVars, Recorded, Received, Returned, EventTotal, Amounts,
         Confirmations, Reversals, KnownEvent
<1>2. LedgerAgrees /\ LedgerAgrees' /\ confirmed <= Received
  BY <1>1 DEF MoneyInv, LedgerAgrees, Received, Returned
<1>3. confirmed \in Nat /\ Received \in Nat
  BY TotalsAreNumbers DEF MoneyInv, TypeOK
<1>4. ASSUME ~lateFunding, NEW r \in ReleaseIds, Exists(releases'[r])
      PROVE  releases'[r].amount <= Received
  <2>1. releases'[r].amount \in Nat
    BY DEF TypeOK, Instruction
  <2>2. Exists(releases[r]) => releases[r].amount <= Received
    BY <1>4 DEF MoneyInv
  <2> QED
    BY <1>2, <1>3, <1>4, <2>1, <2>2
<1>5. ASSUME ~lateFunding, NEW r \in RefundIds, Exists(refunds'[r])
      PROVE  refunds'[r].amount <= Received
  <2>1. refunds'[r].amount \in Nat
    BY DEF TypeOK, Instruction
  <2>2. Exists(refunds[r]) => refunds[r].amount <= Received
    BY <1>5 DEF MoneyInv
  <2> QED
    BY <1>2, <1>3, <1>5, <2>1, <2>2
<1>6. IsFiniteSet(Recorded')
  BY <1>1 DEF MoneyInv
<1>7. ~lateFunding' =>
          /\ \A r \in ReleaseIds : Exists(releases'[r]) =>
                releases'[r].amount <= Received'
          /\ \A r \in RefundIds : Exists(refunds'[r]) =>
                refunds'[r].amount <= Received'
  BY <1>1, <1>4, <1>5
<1> QED
  BY <1>2, <1>6, <1>7 DEF MoneyInv, Exists

LEMMA MoneyFundingStep ==
    ASSUME TypeOK, TypeOK', MoneyInv, Funding
    PROVE  MoneyInv'
<1>1. PICK e \in EventIds, type \in FeedTypes, amount \in 1..MaxAmount :
           RecordFundingEvent(e, type, amount)
  BY DEF Funding
<1>2. amount \in Nat /\ amount > 0 /\ confirmed \in Nat /\ Received \in Nat
      /\ Returned \in Nat /\ IsFiniteSet(Recorded)
  BY TotalsAreNumbers, ConstantsAssumption DEF MoneyInv, TypeOK
<1>3. /\ IsFiniteSet(Recorded')
      /\ type = "funding_reversed" =>
            Received' = Received /\ Returned' = Returned + amount
      /\ type # "funding_reversed" =>
            Received' = Received + amount /\ Returned' = Returned
  BY <1>1, <1>2, TotalsGrow
<1>4. /\ confirmed <= Received /\ confirmed >= Received - Returned
      /\ ~clamped => confirmed = Received - Returned
  BY DEF MoneyInv, LedgerAgrees, Received, Returned
<1>5. releases' = releases /\ refunds' = refunds
  BY <1>1 DEF RecordFundingEvent, instructionVars
<1>6. ~lateFunding =>
          /\ \A r \in ReleaseIds : Exists(releases[r]) =>
                releases[r].amount <= Received
          /\ \A r \in RefundIds : Exists(refunds[r]) =>
                refunds[r].amount <= Received
  BY DEF MoneyInv
<1>7. /\ confirmed' <= Received' /\ confirmed' >= Received' - Returned'
      /\ ~clamped' => confirmed' = Received' - Returned'
  <2>1. CASE type = "funding_reversed"
    <3>1. /\ confirmed' = AfterReversal(amount)
          /\ ~clamped' => ~clamped /\ ~(amount > confirmed)
      BY <1>1, <2>1 DEF RecordFundingEvent
    <3>2. Received' = Received /\ Returned' = Returned + amount
      BY <1>3, <2>1
    <3>3. CASE amount > confirmed
      <4>1. confirmed' = 0 /\ clamped'
        BY <3>1, <3>3 DEF AfterReversal
      <4>2. 0 <= Received /\ 0 >= Received - (Returned + amount)
        BY <1>2, <1>4, <3>3
      <4> QED
        BY <3>2, <4>1, <4>2
    <3>4. CASE ~(amount > confirmed)
      <4>1. confirmed' = confirmed - amount /\ (~clamped' => ~clamped)
        BY <3>1, <3>4 DEF AfterReversal
      <4>2. confirmed - amount <= Received
            /\ confirmed - amount >= Received - (Returned + amount)
        BY <1>2, <1>4
      <4>3. ~clamped => confirmed - amount = Received - (Returned + amount)
        BY <1>2, <1>4
      <4> QED
        BY <3>2, <4>1, <4>2, <4>3
    <3> QED
      BY <3>3, <3>4
  <2>2. CASE type # "funding_reversed"
    <3>1. confirmed' = confirmed + amount /\ clamped' = clamped
      BY <1>1, <2>2 DEF RecordFundingEvent
    <3> QED
      BY <1>2, <1>3, <1>4, <2>2, <3>1
  <2> QED
    BY <2>1, <2>2
<1>8. ~lateFunding' =>
          /\ \A r \in ReleaseIds : Exists(releases'[r]) =>
                releases'[r].amount <= Received'
          /\ \A r \in RefundIds : Exists(refunds'[r]) =>
                refunds'[r].amount <= Received'
  <2>1. CASE type = "funding_reversed"
    <3>1. lateFunding' = lateFunding
      BY <1>1, <2>1 DEF RecordFundingEvent
    <3>2. Received' = Received
      BY <1>3, <2>1
    <3> QED
      BY ONLY <1>5, <1>6, <3>1, <3>2 DEF Exists
  <2>2. CASE type # "funding_reversed"
    <3>1. lateFunding' = (lateFunding \/ AnyInstruction)
      BY <1>1, <2>2 DEF RecordFundingEvent
    <3> QED
      BY <1>5, <3>1 DEF AnyInstruction
  <2> QED
    BY <2>1, <2>2
<1> QED
  BY <1>3, <1>7, <1>8 DEF MoneyInv, LedgerAgrees, Received, Returned, Exists

LEMMA MoneyStep ==
    ASSUME TypeOK, TypeOK', MoneyInv, [Next]_vars
    PROVE  MoneyInv'
<1> USE DEF Exists
<1>1. CASE Funding
  BY <1>1, MoneyFundingStep
<1>2. ASSUME NEW r \in ReleaseIds, FinishRelease(r)
      PROVE  MoneyInv'
  <2>1. /\ UNCHANGED <<moneyVars, refunds>>
        /\ releases' = [releases EXCEPT
                          ![r] = [status |-> "requested",
                                  amount |-> Requested(rowLock.amount),
                                  key |-> rowLock.key,
                                  needs |-> RequiredConditions]]
        /\ Requested(rowLock.amount) <= confirmed
    BY <1>2 DEF FinishRelease, CanRelease, Payable
  <2>2. \A s \in ReleaseIds : \/ releases'[s] = releases[s]
                              \/ releases'[s].amount <= confirmed
    BY <2>1 DEF TypeOK
  <2> QED
    BY <2>1, <2>2, MoneyQuietStep
<1>3. ASSUME NEW r \in ReleaseIds, ApproveRelease(r) \/ ConfirmRelease(r)
      PROVE  MoneyInv'
  <2>1. /\ UNCHANGED <<moneyVars, refunds>>
        /\ \A s \in ReleaseIds : /\ releases'[s].amount = releases[s].amount
                                 /\ Exists(releases'[s]) => Exists(releases[s])
    BY <1>3 DEF ApproveRelease, ConfirmRelease, TypeOK, Instruction
  <2> QED
    BY <2>1, MoneyQuietStep
<1>4. ASSUME NEW r \in RefundIds, NEW key \in AllKeys,
             NEW amount \in 0..MaxAmount, RequestRefund(r, key, amount)
      PROVE  MoneyInv'
  <2>1. /\ UNCHANGED <<moneyVars, releases>>
        /\ refunds' = [refunds EXCEPT
                         ![r] = [status |-> "requested",
                                 amount |-> Requested(amount),
                                 key |-> key, needs |-> {}]]
        /\ Requested(amount) <= confirmed
    BY <1>4 DEF RequestRefund, Payable
  <2>2. \A s \in RefundIds : \/ refunds'[s] = refunds[s]
                             \/ refunds'[s].amount <= confirmed
    BY <2>1 DEF TypeOK
  <2> QED
    BY <2>1, <2>2, MoneyQuietStep
<1>5. ASSUME NEW r \in RefundIds, ApproveRefund(r) \/ ConfirmRefund(r)
      PROVE  MoneyInv'
  <2>1. /\ UNCHANGED <<moneyVars, releases>>
        /\ \A s \in RefundIds : /\ refunds'[s].amount = refunds[s].amount
                                /\ Exists(refunds'[s]) => Exists(refunds[s])
    BY <1>5 DEF ApproveRefund, ConfirmRefund, TypeOK, Instruction
  <2> QED
    BY <2>1, MoneyQuietStep
<1>6. CASE UNCHANGED <<moneyVars, releases, refunds>>
  BY <1>6, MoneyQuietStep
<1>7. \/ Funding
      \/ InstructionStep
      \/ UNCHANGED <<moneyVars, releases, refunds>>
  BY DEF Next, Operations, Environment, Setup, ConditionStep,
         Release, Refund, Reporting, CreateEscrow, RecordProviderReference,
         CreateCondition, SatisfyCondition, BeginRelease,
         RefuseRelease, RecordSettlement, ReconcileEscrow, DisputeChanges,
         EvidenceChanges, InstructionStep, instructionVars, vars
<1> QED
  BY <1>1, <1>2, <1>3, <1>4, <1>5, <1>6, <1>7 DEF InstructionStep

LEMMA MoneyInit == Init => MoneyInv
<1> SUFFICES ASSUME Init PROVE MoneyInv
  OBVIOUS
<1>1. Recorded = {} /\ Confirmations = {} /\ Reversals = {}
  BY DEF Init, Recorded, Confirmations, Reversals, KnownEvent, NoEvent
<1>2. Received = 0 /\ Returned = 0 /\ IsFiniteSet(Recorded)
  BY <1>1, SumOverNothing, FS_EmptySet DEF Received, Returned, EventTotal
<1>3. confirmed = 0 /\ (\A r \in ReleaseIds : ~Exists(releases[r]))
      /\ (\A r \in RefundIds : ~Exists(refunds[r]))
  BY DEF Init, NoInstruction, Exists
<1> QED
  BY <1>2, <1>3 DEF MoneyInv, LedgerAgrees, Received, Returned

(* The sum over at most one row is that row's amount, or nothing.          *)
LEMMA SumOverOne ==
    ASSUME NEW F, NEW S, \A x, y \in S : x = y, \A x \in S : F[x] \in Nat
    PROVE  \/ S = {} /\ SumFunctionOnSet(F, S) = 0
           \/ \E x \in S : SumFunctionOnSet(F, S) = F[x]
<1>1. CASE S = {}
  BY <1>1, SumOverNothing
<1>2. ASSUME NEW x \in S PROVE SumFunctionOnSet(F, S) = F[x]
  <2>1. S = {x} /\ S \ {x} = {}
    OBVIOUS
  <2>2. IsFiniteSet(S)
    BY <2>1, FS_Singleton
  <2>3. SumFunctionOnSet(F, S) = F[x] + SumFunctionOnSet(F, S \ {x})
    BY <2>2, SumTakes
  <2> QED
    BY <2>1, <2>3, SumOverNothing
<1> QED
  BY <1>1, <1>2

LEMMA OnePayoutIsCovered ==
    ASSUME TypeOK, SingleInstruction, MoneyInv
    PROVE  PayoutCovered
<1> SUFFICES ASSUME ~lateFunding PROVE PaidOut <= Received
  BY DEF PayoutCovered, Received
<1> DEFINE out == ConfirmedRows(releases)
           back == ConfirmedRows(refunds)
<1>1. /\ out \subseteq ReleaseIds /\ back \subseteq RefundIds
      /\ \A r \in out : Exists(releases[r])
      /\ \A r \in back : Exists(refunds[r])
  BY DEF ConfirmedRows, TypeOK, Exists
<1>2. /\ \A r, s \in out : r = s
      /\ \A r, s \in back : r = s
      /\ out = {} \/ back = {}
  BY <1>1 DEF SingleInstruction
<1>3. /\ \A r \in out : /\ Amounts(releases)[r] \in Nat
                        /\ Amounts(releases)[r] <= Received
      /\ \A r \in back : /\ Amounts(refunds)[r] \in Nat
                         /\ Amounts(refunds)[r] <= Received
  <2>1. /\ \A r \in ReleaseIds : /\ Amounts(releases)[r] = releases[r].amount
                                 /\ releases[r].amount \in Nat
        /\ \A r \in RefundIds : /\ Amounts(refunds)[r] = refunds[r].amount
                                /\ refunds[r].amount \in Nat
    BY DEF TypeOK, Amounts, Instruction
  <2> QED
    BY <1>1, <2>1 DEF MoneyInv
<1> HIDE DEF out, back
<1>4. \/ out = {} /\ SumFunctionOnSet(Amounts(releases), out) = 0
      \/ \E r \in out : SumFunctionOnSet(Amounts(releases), out) = Amounts(releases)[r]
  BY <1>2, <1>3, SumOverOne
<1>5. \/ back = {} /\ SumFunctionOnSet(Amounts(refunds), back) = 0
      \/ \E r \in back : SumFunctionOnSet(Amounts(refunds), back) = Amounts(refunds)[r]
  BY <1>2, <1>3, SumOverOne
<1>6. Received \in Nat
  BY TotalsAreNumbers DEF MoneyInv
<1>7. PaidOut = SumFunctionOnSet(Amounts(releases), out)
                + SumFunctionOnSet(Amounts(refunds), back)
  BY DEF PaidOut, out, back
<1> QED
  BY <1>2, <1>3, <1>4, <1>5, <1>6, <1>7

(* The balance is confirmations minus reversals, each event counted once,  *)
(* however many there are; and until funding follows a request no more is  *)
(* paid out than the provider confirmed.                                   *)
THEOREM MoneyStaysTrue == Spec => []MoneyAgrees
<1>1. MoneyInv => LedgerAgrees
  BY DEF MoneyInv
<1>2. TypeOK /\ SingleInstruction /\ MoneyInv => PayoutCovered
  BY OnePayoutIsCovered
<1>3. TypeOK /\ TypeOK' /\ MoneyInv /\ [Next]_vars => MoneyInv'
  BY MoneyStep
<1> QED
  BY <1>1, <1>2, <1>3, MoneyInit, TypeCorrect, OnePayout, PTL
     DEF Spec, MoneyAgrees
=============================================================================
