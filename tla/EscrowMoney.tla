----------------------------- MODULE EscrowMoney -----------------------------
(***************************************************************************)
(* What the money columns of an escrow add up to, as sums over the ledger  *)
(* and the instruction tables.                                             *)
(***************************************************************************)
EXTENDS Escrow, Functions

Confirmations == {e \in EventIds : KnownEvent(e)
                                   /\ events[e].type # "funding_reversed"}
Reversals == {e \in EventIds : events[e].type = "funding_reversed"}

Amounts(rows) == [i \in DOMAIN rows |-> rows[i].amount]
ConfirmedRows(rows) == {i \in DOMAIN rows : rows[i].status = "confirmed"}

EventTotal(ids) == SumFunctionOnSet(Amounts(events), ids)

PaidOut == SumFunctionOnSet(Amounts(releases), ConfirmedRows(releases))
           + SumFunctionOnSet(Amounts(refunds), ConfirmedRows(refunds))

(* confirmed_funded_amount is a running total of the funding ledger: with  *)
(* each provider_event_id counted once however often it is delivered, it   *)
(* is confirmations minus reversals.  A reversal delivered before the      *)
(* confirmation it takes back is cut off at zero, and then the total is    *)
(* only bounded: too high, never too low (record_funding_event).           *)
LedgerAgrees ==
    LET in == EventTotal(Confirmations)
        out == EventTotal(Reversals)
    IN  /\ confirmed <= in
        /\ confirmed >= in - out
        /\ ~clamped => confirmed = in - out

(* Without funding after the first instruction, everything paid out was    *)
(* confirmed by the provider first.                                        *)
PayoutCovered == ~lateFunding => PaidOut <= EventTotal(Confirmations)

(* The balance is what came in, and covers what goes out: both together.   *)
MoneyAgrees == LedgerAgrees /\ PayoutCovered

(* docs/RealityNG-Sprint-14-Financial-Threat-Model.md, "Duplicate release  *)
(* instruction | double payment": the release idempotency key and state    *)
(* locking keep an escrow from paying out more than was paid in.           *)
NoDoublePayment == PaidOut <= EventTotal(Confirmations)
=============================================================================
