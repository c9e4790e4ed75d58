----------------------------- MODULE AtomicState -----------------------------
(***************************************************************************)
(* What run_store.py promises its callers: the state of a run is one value  *)
(* that is replaced atomically and survives every crash.  A commit whose    *)
(* caller died took effect wholly or not at all; a read returns the last    *)
(* committed value; nothing follows a closed state.  Module Lifecycle is    *)
(* written against this promise; module RunStore keeps it.                 *)
(***************************************************************************)
EXTENDS Integers

CONSTANTS NoState, Projections

VARIABLES
    value,     \* the state of the run, NoState before it is planned
    returned   \* the state a caller was last told

Init == value = NoState /\ returned = NoState

Sequence(v) == IF v = NoState THEN 0 ELSE v.event_sequence

Commit ==
    /\ value = NoState \/ value.lifecycle # "closed"
    /\ value' \in Projections
    /\ value'.event_sequence = Sequence(value) + 1
    /\ UNCHANGED returned

Tell ==
    /\ value # NoState
    /\ returned' = value
    /\ UNCHANGED value

Next == Commit \/ Tell

Spec == Init /\ [][Next]_<<value, returned>>
=============================================================================
