------------------------------ MODULE Payouts ------------------------------
(***************************************************************************)
(* What the payments component promises about payment instructions,        *)
(* without funding, conditions, disputes, locks or statuses of the escrow: *)
(* an instruction is requested for a fixed amount, then sent to the        *)
(* provider, then confirmed by it, each once and in this order, and the    *)
(* two directions are never in progress together.                          *)
(***************************************************************************)
EXTENDS Integers

CONSTANTS Releases, Refunds  \* identities of instructions, by direction

VARIABLE book  \* the instruction of each identity

Ids == Releases \cup Refunds

Blank == [stage |-> "none", amount |-> 0]
Entry == [stage : {"none", "requested", "sent", "confirmed"}, amount : Nat]

InProgress(i) == book[i].stage \in {"requested", "sent"}

Opposite(i) == IF i \in Releases THEN Refunds ELSE Releases

Init == book = [i \in Ids |-> Blank]

(* The amount is any positive one. *)
Request(i) ==
    /\ book[i].stage = "none"
    /\ \A j \in Opposite(i) : ~InProgress(j)
    /\ book'[i].amount \in Nat \ {0}
    /\ book' = [book EXCEPT ![i].stage = "requested",
                            ![i].amount = book'[i].amount]

Instruct(i) ==
    /\ book[i].stage = "requested"
    /\ book' = [book EXCEPT ![i].stage = "sent"]

Confirm(i) ==
    /\ book[i].stage = "sent"
    /\ book' = [book EXCEPT ![i].stage = "confirmed"]

Next ==
    \E i \in Ids : Request(i) \/ Instruct(i) \/ Confirm(i)

Spec == Init /\ [][Next]_book
=============================================================================
