-------------------------- MODULE EscrowRefinement --------------------------
(***************************************************************************)
(* The escrow's release and refund tables implement Payouts.               *)
(***************************************************************************)
EXTENDS Escrow

(* Both tables have UUID primary keys, so no row is in both. *)
ASSUME DisjointIds == ReleaseIds \cap RefundIds = {}

Stage(rowStatus) ==
    CASE rowStatus = "requested" -> "requested"
      [] rowStatus \in {"approved", "sent_to_provider"} -> "sent"
      [] rowStatus = "confirmed" -> "confirmed"
      [] OTHER -> "none"

AsEntry(row) == [stage |-> Stage(row.status), amount |-> row.amount]

Book == [i \in ReleaseIds \cup RefundIds |->
            AsEntry(IF i \in ReleaseIds THEN releases[i] ELSE refunds[i])]

P == INSTANCE Payouts WITH Releases <- ReleaseIds, Refunds <- RefundIds,
                           book <- Book

(* Every behaviour of the escrow is, seen through its two instruction      *)
(* tables, a behaviour of Payouts: no amount changes after the request, no *)
(* instruction skips or repeats a stage, and no two directions overlap     *)
(* (request_, approve_ and confirm_release and _refund).                   *)
PayoutsSpec == P!Spec
=============================================================================
