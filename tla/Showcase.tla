------------------------------- MODULE Showcase -------------------------------
(***************************************************************************)
(* The trades, the service areas or the portfolio images of one provider   *)
(* (apps/services): a list of which one item is flagged, as primary or as  *)
(* cover.  Saving a flagged item clears the flag of the others in the same *)
(* transaction; everything else that an endpoint does is a separate        *)
(* access to the database.                                                 *)
(*                                                                         *)
(* Deleting an item hides its row and goes through save() as well, so      *)
(* whatever saves an item that was loaded as flagged clears the others.    *)
(*                                                                         *)
(* A definition marked "fault" is a variant of the one after it with a     *)
(* plausible mistake, to show that a property notices it.                  *)
(***************************************************************************)
EXTENDS Naturals, FiniteSets

CONSTANTS
    Calls,     \* requests that can be in progress at the same time
    Items,     \* identifiers of rows
    NoItem,    \* none of them
    Portfolio, \* whether the list is the portfolio
    MaxCount   \* SERVICE_PORTFOLIO_IMAGE_MAX_COUNT

VARIABLES
    rows,      \* the rows of the list
    calls,     \* what each call has loaded and has still to save
    unset,     \* history: the owner took the flag from an item
    disturbed  \* history: two calls overlapped, or one died

vars == <<rows, calls, unset, disturbed>>

Idle == [step |-> "idle", item |-> NoItem, flagged |-> FALSE, wasFlagged |-> FALSE]

Init ==
    /\ rows = [i \in Items |-> [row |-> "none", flagged |-> FALSE]]
    /\ calls = [c \in Calls |-> Idle]
    /\ unset = FALSE /\ disturbed = FALSE

Alive == {i \in Items : rows[i].row = "alive"}

Flagged == {i \in Alive : rows[i].flagged}

(* The others lose the flag if the item was loaded, or is saved, with it.  *)
(* Hidden rows are left alone.                                             *)
ClearNone(item, flagged) == rows                                 \* fault
ClearOthers(item, flagged) ==
    IF flagged
    THEN [i \in Items |-> IF i \in Alive \ {item}
                          THEN [rows[i] EXCEPT !.flagged = FALSE] ELSE rows[i]]
    ELSE rows

Begin(c, loaded) ==
    /\ calls[c] = Idle
    /\ calls' = [calls EXCEPT ![c] = loaded]
    /\ disturbed' = (disturbed \/ \E d \in Calls : calls[d] # Idle)
    /\ UNCHANGED <<rows, unset>>

Go(c, state) == calls' = [calls EXCEPT ![c] = state]
End(c) == Go(c, Idle)

-----------------------------------------------------------------------------
(* An item is added: the portfolio has a limit, and the first item of a    *)
(* list is flagged.  Limit, emptiness and insertion are three accesses.    *)
WithinLimitLate == Portfolio => Cardinality(Alive) <= MaxCount   \* fault
WithinLimit == Portfolio => Cardinality(Alive) < MaxCount

BeginAdd(c, flagged) ==
    /\ WithinLimit
    /\ Begin(c, [Idle EXCEPT !.step = "add", !.flagged = flagged])

FlagFirst(c) ==
    /\ calls[c].step = "add"
    /\ Go(c, [calls[c] EXCEPT !.step = "insert",
                              !.flagged = calls[c].flagged \/ Alive = {}])
    /\ UNCHANGED <<rows, unset, disturbed>>

InsertItem(c) ==
    /\ calls[c].step = "insert"
    /\ \E i \in Items :
          /\ rows[i].row = "none"
          /\ rows' = [ClearOthers(i, calls[c].flagged) EXCEPT
                         ![i] = [row |-> "alive", flagged |-> calls[c].flagged]]
    /\ End(c)
    /\ UNCHANGED <<unset, disturbed>>

(* An edit saves every column as it was loaded, deleted_at included, with  *)
(* the flag as the owner may have changed it.                              *)
BeginEdit(c, i, flagged) ==
    Begin(c, [Idle EXCEPT !.step = "edit", !.item = i, !.flagged = flagged,
                          !.wasFlagged = rows[i].flagged])

SaveEdit(c) ==
    /\ calls[c].step = "edit"
    /\ rows' = [ClearOthers(calls[c].item, calls[c].flagged) EXCEPT
                   ![calls[c].item] = [row |-> "alive", flagged |-> calls[c].flagged]]
    /\ unset' = (unset \/ (calls[c].wasFlagged /\ ~calls[c].flagged))
    /\ End(c)
    /\ UNCHANGED disturbed

(* set_as_cover, called by cover and for a replacement, and the save of a  *)
(* replaced primary: they save the flag and no other column.               *)
BeginCover(c, i) ==
    /\ Portfolio
    /\ Begin(c, [Idle EXCEPT !.step = "flag", !.item = i])

SaveFlag(c) ==
    /\ calls[c].step = "flag"
    /\ rows' = [ClearOthers(calls[c].item, TRUE) EXCEPT ![calls[c].item].flagged = TRUE]
    /\ End(c)
    /\ UNCHANGED <<unset, disturbed>>

(* reorder loads all images and saves display_order of each: save() takes  *)
(* the flag from all others when it comes to the image that was loaded as  *)
(* cover.                                                                  *)
BeginReorder(c) ==
    /\ Portfolio
    /\ \E i \in Alive :
          /\ Flagged \subseteq {i}
          /\ Begin(c, [Idle EXCEPT !.step = "reorder", !.item = i,
                                   !.wasFlagged = rows[i].flagged])

SaveReorder(c) ==
    /\ calls[c].step = "reorder"
    /\ rows' = ClearOthers(calls[c].item, calls[c].wasFlagged)
    /\ End(c)
    /\ UNCHANGED <<unset, disturbed>>

(* An item is deleted; if no flagged one is left, another takes the flag.  *)
(* For images this is only looked at when the cover was deleted.           *)
BeginDelete(c, i) ==
    Begin(c, [Idle EXCEPT !.step = "delete", !.item = i, !.wasFlagged = rows[i].flagged])

DeleteItem(c) ==
    /\ calls[c].step = "delete"
    /\ rows' = [ClearOthers(calls[c].item, calls[c].wasFlagged) EXCEPT
                   ![calls[c].item].row = "deleted"]
    /\ Go(c, [calls[c] EXCEPT !.step = "replace"])
    /\ UNCHANGED <<unset, disturbed>>

CountsHidden(c) == \A i \in Items : ~rows[i].flagged              \* fault
NeedsReplacement(c) ==
    /\ Portfolio => calls[c].wasFlagged
    /\ Flagged = {}

Replace(c) ==
    /\ calls[c].step = "replace"
    /\ IF NeedsReplacement(c) /\ Alive # {}
       THEN \E i \in Alive : Go(c, [Idle EXCEPT !.step = "flag", !.item = i])
       ELSE End(c)
    /\ UNCHANGED <<rows, unset, disturbed>>

(* The process of a call ends, or the database refuses its next save       *)
(* because a concurrent transaction flagged another item.                  *)
Die(c) ==
    /\ calls[c] # Idle
    /\ End(c)
    /\ disturbed' = TRUE
    /\ UNCHANGED <<rows, unset>>

Adding ==
    \E c \in Calls :
        \/ \E flagged \in BOOLEAN : BeginAdd(c, flagged)
        \/ FlagFirst(c)
        \/ InsertItem(c)

Changing ==
    \E c \in Calls :
        \/ \E i \in Alive : \/ \E flagged \in BOOLEAN : BeginEdit(c, i, flagged)
                            \/ BeginCover(c, i)
                            \/ BeginDelete(c, i)
        \/ SaveEdit(c)
        \/ SaveFlag(c)
        \/ BeginReorder(c)
        \/ SaveReorder(c)
        \/ DeleteItem(c)
        \/ Replace(c)

Next == Adding \/ Changing \/ \E c \in Calls : Die(c)

Spec == Init /\ [][Next]_vars

-----------------------------------------------------------------------------
(* Properties *)

(* Items are there, deleted or neither, and calls are at a known step.     *)
TypeOK ==
    /\ rows \in [Items -> [row : {"none", "alive", "deleted"}, flagged : BOOLEAN]]
    /\ calls \in [Calls -> [step : {"idle", "add", "insert", "edit", "flag",
                                    "reorder", "delete", "replace"},
                            item : Items \cup {NoItem},
                            flagged : BOOLEAN, wasFlagged : BOOLEAN]]
    /\ unset \in BOOLEAN /\ disturbed \in BOOLEAN

(* Whatever calls overlap, two items of a list are never flagged, and each *)
(* call but one can exceed the portfolio's limit by one image.             *)
ListWithinBounds ==
    /\ Cardinality(Flagged) <= 1
    /\ Portfolio => Cardinality(Alive) < MaxCount + Cardinality(Calls)

Quiet == \A c \in Calls : calls[c] = Idle

(* Without overlap a list that is not empty has its flagged item, through  *)
(* any sequence of additions, edits, deletions and reorderings in which    *)
(* the owner does not take the flag away himself: a profile that had a     *)
(* primary trade can still be submitted.                                   *)
FlagIsKept ==
    ~disturbed /\ ~unset /\ Quiet => Alive = {} \/ Flagged # {}
=============================================================================
