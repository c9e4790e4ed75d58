----------------------------- MODULE RunContract -----------------------------
(***************************************************************************)
(* What one run promises the principal who pays for it (CONTEXT.md, invariants   *)
(* 1, 2 and 6): pods are ordered at most once and never supplied without an       *)
(* order; and from a provider that supplies one pod per order the run has at      *)
(* most one pod in its life, closes only when nothing is billed, and is billed     *)
(* for nothing afterwards.                                                  *)
(***************************************************************************)
EXTENDS Integers

CONSTANTS
    Pods,
    Exact     \* the provider supplies at most one pod per order

VARIABLES
    stage,    \* of the run: none, open, closed
    orders,   \* create requests sent
    used,     \* the pods that were ever supplied
    billed    \* the ones that still exist

Init == stage = "none" /\ orders = 0 /\ used = {} /\ billed = {}

Open ==
    /\ stage = "none"
    /\ stage' = "open"
    /\ UNCHANGED <<orders, used, billed>>

Order ==
    /\ stage = "open"
    /\ orders = 0
    /\ orders' = 1
    /\ UNCHANGED <<stage, used, billed>>

Supply(p) ==
    /\ orders = 1
    /\ p \notin used
    /\ Exact => stage = "open" /\ used = {}
    /\ used' = used \cup {p}
    /\ billed' = billed \cup {p}
    /\ UNCHANGED <<stage, orders>>

Release(p) ==
    /\ p \in billed
    /\ billed' = billed \ {p}
    /\ UNCHANGED <<stage, orders, used>>

Close ==
    /\ stage = "open"
    /\ Exact => billed = {}
    /\ stage' = "closed"
    /\ UNCHANGED <<orders, used, billed>>

Next == Open \/ Order \/ Close \/ \E p \in Pods : Supply(p) \/ Release(p)

Spec == Init /\ [][Next]_<<stage, orders, used, billed>>
=============================================================================
