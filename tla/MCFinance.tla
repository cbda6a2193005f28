------------------------------- MODULE MCFinance -------------------------------
(* Instances for TLC of the payments components beside the escrow, and of  *)
(* the accounts and roles that entitle people to use them: a financing     *)
(* application, a property transaction, the webhook intake and a user.     *)
(* They share no column, so a behaviour chooses one of them and moves its  *)
(* variables alone.                                                        *)
EXTENDS Financing, TLC

CONSTANTS
    Disputes,                      \* of Deals
    Events, NoEvent, MaxDeliveries, \* of Webhooks
    Rows, MaxResets, Failures      \* of Identity

ASSUME FinanceAssumption == MaxDeliveries \in Nat /\ MaxResets \in Nat

VARIABLES
    part,                                                   \* the part that moves
    work,                                                   \* calls of the other parts
    transaction, milestone, proofs, disputes, reviewed,     \* Deals
    ledger, deliveries, answers,                            \* Webhooks
    account, roles, verifications, automatic,               \* Identity
    decreed, links, followed,
    overlapped                                              \* Identity

deal == <<transaction, milestone, proofs, disputes, reviewed>>
intake == <<ledger, deliveries, answers>>
person == <<account, roles, verifications, automatic, decreed, links, followed>>
others == <<work, deal, intake, person, overlapped>>

Deals == INSTANCE Deals WITH calls <- work
Webhooks == INSTANCE Webhooks WITH calls <- work
Identity == INSTANCE Identity WITH Requests <- Rows, calls <- work, disturbed <- overlapped

Unused == "unused"
NoDeal == /\ transaction = Unused /\ milestone = Unused /\ proofs = Unused
          /\ disputes = Unused /\ reviewed = Unused
NoIntake == ledger = Unused /\ deliveries = Unused /\ answers = Unused
NoPerson == /\ account = Unused /\ roles = Unused /\ verifications = Unused
            /\ automatic = Unused /\ decreed = Unused /\ links = Unused
            /\ followed = Unused

PartsInit ==
    /\ Init
    /\ \/ /\ part = "financing" /\ work = Unused /\ overlapped = Unused
          /\ NoDeal /\ NoIntake /\ NoPerson
       \/ part = "deal" /\ Deals!Init /\ NoIntake /\ NoPerson /\ overlapped = Unused
       \/ part = "webhooks" /\ Webhooks!Init /\ NoDeal /\ NoPerson /\ overlapped = Unused
       \/ part = "person" /\ Identity!Init /\ NoDeal /\ NoIntake

PartsNext ==
    \/ part = "financing" /\ Next /\ UNCHANGED <<part, others>>
    \/ part = "deal" /\ Deals!Next /\ UNCHANGED <<part, vars, intake, person, overlapped>>
    \/ part = "webhooks" /\ Webhooks!Next /\ UNCHANGED <<part, vars, deal, person, overlapped>>
    \/ part = "person" /\ Identity!Next /\ UNCHANGED <<part, vars, deal, intake>>

PartsSpec == PartsInit /\ [][PartsNext]_<<part, vars, others>>

Symmetry == Permutations(Calls) \cup Permutations(Rows)

(* An account, a role and a verification share no row: one of them moves,  *)
(* except that a suspension can stop the others.                           *)
BoundedPerson ==
    LET NoAccount == links = {} /\ \A c \in Calls : work[c].step # "profile"
        NoChoice == \A r \in Rows : roles[r] = Identity!NoRole
        NoProof == \A r \in Rows : verifications[r] = Identity!NoVerification
        NoRequest == \A c \in Calls : work[c].step # "role"
    IN  \/ NoAccount /\ NoChoice /\ NoRequest
        \/ NoAccount /\ NoProof
        \/ NoChoice /\ NoProof /\ NoRequest

Bounded == part = "person" => BoundedPerson

(* The types of the parts. *)
PartsTypeOK ==
    /\ part = "financing" => TypeOK
    /\ part = "deal" => Deals!TypeOK
    /\ part = "webhooks" => Webhooks!TypeOK
    /\ part = "person" => Identity!TypeOK

(* A status of a deal has its evidence, and every answer to a webhook      *)
(* agrees with the ledger: see Deals and Webhooks.                         *)
RecordsAgree ==
    /\ part = "deal" => Deals!StatusHasEvidence
    /\ part = "webhooks" => Webhooks!AnswersAgree

(* An account is as it was last meant to be, and requests are decided once *)
(* and by others: see Identity.                                            *)
IdentityAgrees ==
    part = "person" =>
        /\ Identity!AccountStands
        /\ Identity!OneOpenRequest
        /\ Identity!OthersDecide
        /\ Identity!ReviewFollowsSubmission

(* Only calls that are older than a closed deal open it: see Deals.        *)
ClosedDealsStay == [][part = "deal" => Deals!DeclaredUnlessOlder]_<<deal, work>>
=============================================================================
