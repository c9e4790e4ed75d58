------------------------- MODULE AdmissionInvariant -------------------------
(***************************************************************************)
(* The inductive invariant of Admission: what the holder of the admission lock    *)
(* may rely on, and how the ledger and the planned runs have to do with each     *)
(* other.                                                                  *)
(***************************************************************************)
EXTENDS Admission

Preparing == {"reserve", "directory", "request", "commit"}

(* A caller past Admit holds the lock. *)
LockInv == \A c \in Clients : pc[c] \in Preparing \cup {"active", "launch"} => lock = c

(* While the holder prepares its run no other run exists that is not closed:     *)
(* runs may leave the active ones meanwhile, but only the holder adds to them.   *)
ChoiceInv == \A c \in Clients :
    /\ pc[c] \in Preparing => chosen[c] \in Runs /\ Active = {} /\ Unreadable \subseteq {chosen[c]}
    /\ pc[c] = "launch" => Unreadable = {}

AtMostOne == \A q, r \in Active : q = r

(* How far the holder is with its run, and that its reservation is in the ledger. *)
PlanInv == \A c \in Clients :
    /\ pc[c] # "idle" => call[c].cap \in Amounts
    /\ pc[c] = "reserve" => run[chosen[c]] = "none" /\ reserved[chosen[c]] = 0
    /\ pc[c] = "reserve" => call[c].total # Unscoped
    /\ pc[c] = "directory" => run[chosen[c]] = "none"
    /\ pc[c] = "request" => run[chosen[c]] = "empty"
    /\ pc[c] = "commit" => run[chosen[c]] = "request" /\ charge[chosen[c]] = call[c]
    /\ pc[c] \in Preparing \ {"reserve"} /\ call[c].total # Unscoped =>
          reserved[chosen[c]] = call[c].cap /\ total = call[c].total

(* A run planned under the budget is in the ledger with its cap. *)
ChargeInv == \A r \in Scoped : charge[r].total = total /\ charge[r].cap = reserved[r]

LedgerInv == ReservedSum <= total

AdmissionInv ==
    /\ TypeOK /\ LockInv /\ ChoiceInv /\ AtMostOne
    /\ PlanInv /\ ChargeInv /\ LedgerInv
=============================================================================
