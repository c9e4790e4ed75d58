-------------------------- MODULE LifecycleInvariant --------------------------
(***************************************************************************)
(* The inductive invariant behind the properties of Lifecycle, part by part. *)
(* TLC checks it on the small instances; LifecycleProofs proves it.          *)
(***************************************************************************)
EXTENDS Lifecycle

NeverCreated == owed = 0 /\ \A p \in Pods : pod[p] = "unborn"

(* Where the supervisor is, and what it relies on there. *)
SupervisorInv ==
    /\ pc = "reconcile" => lifecycle \in {"planned", "provisioning", "starting", "deleting"}
    /\ pc \in {"creating", "answer"} => lifecycle = "provisioning" /\ provision = "dispatched"
    /\ pc = "creating" => NeverCreated
    /\ pc \in {"execute", "record_result"} => lifecycle \in {"running", "deleting"}
    /\ pc \in {"re_execute", "record_disposition"} => lifecycle \in {"recovering", "deleting"}
    /\ pc = "fail_closed" => lifecycle \in {"recovering", "deleting"}
    /\ pc \in {"execute", "record_result", "re_execute", "record_disposition"} =>
          resource # NoPod /\ quarantined = {} /\ recovery_reason = "none"
    /\ pc \in {"record_result", "record_disposition"} => observation # NoObservation
    /\ pc = "finished" => lifecycle = "closed"
    /\ lifecycle = "unplanned" => pc = "unlaunched"

(* The result and the disposition are recorded exactly when the run leaves  *)
(* its work.                                                               *)
ResultInv ==
    /\ lifecycle \in {"unplanned", "planned", "provisioning", "starting", "running"} =>
          workload_result = "none" /\ disposition = "none" /\ recovery_reason = "none"
    /\ lifecycle = "recovering" =>
          /\ workload_result # "none"
          /\ recovery_reason = "none" => disposition = "none" /\ resource # NoPod
    /\ lifecycle \in {"deleting", "closed"} => workload_result # "none" /\ disposition # "none"

(* One create at most, and nothing at the provider before it is dispatched. *)
CreateInv ==
    /\ attempts \in {0, 1}
    /\ attempts = 0 <=> provision \in {"absent", "intended"}
    /\ attempts = 0 => NeverCreated
    /\ provision = "failed" => NeverCreated
    /\ (provision = "rejected" /\ resource = NoPod) => NeverCreated
    /\ lifecycle \in {"unplanned", "planned"} => provision = "absent"
    /\ lifecycle \in {"provisioning", "starting", "running"} => provision # "absent"
    /\ lifecycle = "provisioning" => provision \notin {"rejected"}
    /\ owed <= Copies
    /\ Copies = 1 =>
          /\ \A p \in Pods : pod[p] # "unborn" => owed = 0
          /\ \A p, q \in Pods : pod[p] # "unborn" /\ pod[q] # "unborn" => p = q

(* The recorded pods exist, and all but the primary one have been listed. *)
ResourceInv ==
    /\ resource = NoPod => quarantined = {}
    /\ quarantined # {} => resource \in quarantined
    /\ \A p \in Known : pod[p] # "unborn"
    /\ \A p \in quarantined \ {resource} : p \notin hidden
    /\ lifecycle \in {"unplanned", "planned", "provisioning"} => resource = NoPod
    /\ lifecycle \in {"starting", "running"} => resource # NoPod /\ quarantined = {}
    /\ lifecycle = "recovering" => quarantined = {}
    /\ provision \in {"observed", "conflict"} => resource # NoPod

(* The clock. *)
TimeInv ==
    /\ \A p \in Pods : Alive(p) => now < Deadline + TermLag
    /\ dispatched_at <= now
    /\ absence_first <= now

(* A confirmed absence is a fact about the provider. *)
AbsenceInv ==
    /\ resolution # NoResolution => absence_confirmed
    /\ absence_confirmed =>
        /\ lifecycle \in {"deleting", "closed"}
        /\ resource = NoPod
        /\ DeadlineRequired =>
              /\ resolution # NoResolution
              /\ resolution.first >= Deadline
              /\ resolution.confirmed - resolution.first >= AbsenceGrace
              /\ resolution.confirmed <= now

ResolvedForGood == resource # NoPod \/ provision = "absent" \/ absence_confirmed

(* The closeout proofs build on each other. *)
CloseoutInv ==
    /\ (delete_acknowledged \/ acked # {}) =>
          lifecycle \in {"deleting", "closed"} /\ ResolvedForGood
    /\ acked \subseteq DeleteTargets
    /\ provider_not_found =>
          /\ delete_acknowledged
          /\ \A p \in quarantined \ {resource} : ~Alive(p)
          /\ quarantined = {} /\ resource # NoPod => ~Alive(resource)
    /\ scope # NoScope => provider_not_found /\ scope = CurrentSpendScope
    /\ lifecycle = "closed" =>
          /\ provider_not_found
          /\ scope = CurrentSpendScope
          /\ resource # NoPod => ~Alive(resource)

(* All parts together. *)
Inductive ==
    /\ TypeOK
    /\ SupervisorInv
    /\ ResultInv
    /\ CreateInv
    /\ ResourceInv
    /\ TimeInv
    /\ AbsenceInv
    /\ CloseoutInv
=============================================================================
