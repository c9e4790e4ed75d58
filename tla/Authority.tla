------------------------------ MODULE Authority ------------------------------
(***************************************************************************)
(* What the budget ledger promises the principal: the first commitment fixes     *)
(* the granted total for good, every commitment is within what is left of it,    *)
(* is counted once, and is never given back.                                *)
(***************************************************************************)
EXTENDS Integers

CONSTANTS
    Amounts,   \* what may be committed at once
    Totals     \* what may be granted

VARIABLES
    granted,   \* the total, 0 before the first commitment
    committed  \* the sum of all commitments

Init == granted = 0 /\ committed = 0

Commit(amount, t) ==
    /\ granted \in {0, t}
    /\ committed + amount <= t
    /\ granted' = t
    /\ committed' = committed + amount

Next == \E amount \in Amounts, t \in Totals : Commit(amount, t)

Spec == Init /\ [][Next]_<<granted, committed>>
=============================================================================
