----------------------------- MODULE ThreadLog -----------------------------
(***************************************************************************)
(* What a conversation promises its clients: a log that only grows at its  *)
(* end, each entry once, and readers that move forward through it.         *)
(***************************************************************************)
EXTENDS Naturals, Sequences

CONSTANTS Entries, Readers

VARIABLES
    log,       \* the visible entries
    position   \* how many of them each reader has read

Init == log = <<>> /\ position = [r \in Readers |-> 0]

Grow(e) ==
    /\ \A i \in DOMAIN log : log[i] # e
    /\ log' = Append(log, e)
    /\ UNCHANGED position

Read(r, n) ==
    /\ n \in position[r] + 1 .. Len(log)
    /\ position' = [position EXCEPT ![r] = n]
    /\ UNCHANGED log

Next ==
    \/ \E e \in Entries : Grow(e)
    \/ \E r \in Readers : \E n \in 1..Len(log) : Read(r, n)

Spec == Init /\ [][Next]_<<log, position>>
=============================================================================
