--------------------------- MODULE RunPodProvider ---------------------------
(***************************************************************************)
(* The provider side of one run: the pods RunPod holds for the run's create *)
(* operation, as the adapter runpod_provider.RunPodProvider lets the        *)
(* lifecycle controller see and change them.                                *)
(*                                                                         *)
(* RunPod itself is external and is modelled by what the adapter relies on: *)
(*  - a create that reached RunPod makes at most Copies pods, at any time   *)
(*    before the terminateAfter deadline (a lost answer does not stop it);  *)
(*  - a new pod may stay out of the pod LIST for a while, but a lookup by   *)
(*    its exact ID finds it; once listed, it stays listed until it is gone; *)
(*  - a pod may vanish at any time and never comes back;                    *)
(*  - terminateAfter is enforced at most TermLag after Deadline;            *)
(*  - any later observation of a pod may fail the admission checks.         *)
(***************************************************************************)
EXTENDS Integers, FiniteSets

CONSTANTS
    Pods,        \* identities of the pods RunPod may create
    Copies,      \* pods one create request can produce (1, or more for a faulty provider)
    Deadline,    \* provider.terminate_at
    TermLag      \* how late RunPod may enforce terminateAfter

ASSUME ProviderAssumption ==
    /\ Copies \in Nat \ {0}
    /\ Deadline \in Nat
    /\ TermLag \in Nat

VARIABLES
    pod,         \* what each pod is doing
    bad,         \* pods whose observation fails _checked_observation
    hidden,      \* pods the list does not show yet
    owed,        \* pods RunPod may still create for requests it received
    baseline,    \* the account is charged for something else than this run
    now          \* wall clock

providerVars == <<pod, bad, hidden, owed, baseline, now>>

\* "created" stands for every ProviderResourceState but RUNNING: the lifecycle
\* only asks whether a pod is running.
PodState == {"unborn", "created", "running", "terminating", "gone"}

ProviderTypeOK ==
    /\ pod \in [Pods -> PodState]
    /\ bad \subseteq Pods
    /\ hidden \subseteq Pods
    /\ owed \in Nat
    /\ baseline \in BOOLEAN
    /\ now \in Nat

ProviderInit ==
    /\ pod = [p \in Pods |-> "unborn"]
    /\ bad = {}
    /\ hidden = {}
    /\ owed = 0
    /\ baseline \in BOOLEAN
    /\ now = 0

(* A pod that exists and is billed. *)
Alive(p) == p \in Pods /\ pod[p] \in {"created", "running", "terminating"}

-----------------------------------------------------------------------------
(* What the adapter returns.                                               *)

(* find_resources: every listed pod of the create operation. *)
FindResources == {p \in Pods : Alive(p) /\ p \notin hidden}

(* find_resources raises ProviderRejected, naming every match, as soon as   *)
(* one match fails its check.                                              *)
FindRejected == FindResources \cap bad # {}

(* get by exact ID: the pod, None, or ProviderRejected. *)
GetFinds(p) == Alive(p) /\ p \notin bad
GetRejected(p) == Alive(p) /\ p \in bad

(* api.delete_pod(p): what may have become of the pods when it answered.   *)
DeletePod(p) == [pod EXCEPT ![p] = IF Alive(p) THEN "terminating" ELSE @]

(* A failed check deletes the offending pod before it raises; the outcome  *)
(* of that delete is not reported, so it may have been lost.               *)
DeleteRejectedPod(p) ==
    /\ pod' \in {pod, DeletePod(p)}
    /\ UNCHANGED <<bad, hidden, owed, baseline, now>>

DeleteRejectedMatch == \E p \in FindResources \cap bad : DeleteRejectedPod(p)

(* The POST of create reaches RunPod. *)
PostCreate ==
    /\ owed' = owed + Copies
    /\ UNCHANGED <<pod, bad, hidden, baseline, now>>

(* start_pod took effect. *)
StartPod(p) ==
    /\ pod' = [pod EXCEPT ![p] = "running"]
    /\ UNCHANGED <<bad, hidden, owed, baseline, now>>

(* myself.currentSpendPerHr is zero. *)
AccountSpendIsZero == ~baseline /\ \A p \in Pods : ~Alive(p)

-----------------------------------------------------------------------------
(* Steps RunPod takes on its own.                                          *)

Birth(p) ==
    /\ owed > 0
    /\ now < Deadline
    /\ pod[p] = "unborn"
    /\ owed' = owed - 1
    /\ pod' = [pod EXCEPT ![p] = "created"]
    /\ hidden' \in {hidden, hidden \cup {p}}
    /\ UNCHANGED <<bad, baseline, now>>

BecomeListed(p) ==
    /\ p \in hidden
    /\ Alive(p)
    /\ hidden' = hidden \ {p}
    /\ UNCHANGED <<pod, bad, owed, baseline, now>>

BecomeRunning(p) ==
    /\ pod[p] = "created"
    /\ pod' = [pod EXCEPT ![p] = "running"]
    /\ UNCHANGED <<bad, hidden, owed, baseline, now>>

(* The rate, image, encryption or volume attestation no longer checks. *)
BecomeBad(p) ==
    /\ Alive(p)
    /\ p \notin bad
    /\ bad' = bad \cup {p}
    /\ UNCHANGED <<pod, hidden, owed, baseline, now>>

(* The pod is removed: a delete completed, terminateAfter was enforced, or *)
(* RunPod lost it.                                                        *)
Vanish(p) ==
    /\ Alive(p)
    /\ pod' = [pod EXCEPT ![p] = "gone"]
    /\ UNCHANGED <<bad, hidden, owed, baseline, now>>

(* A removal RunPod owes: it accepted a delete, or the deadline has passed. *)
Remove(p) == (pod[p] = "terminating" \/ now >= Deadline) /\ Vanish(p)

(* Time cannot pass the enforcement of terminateAfter. *)
MayTick == \A p \in Pods : Alive(p) => now + 1 < Deadline + TermLag

ProviderStep ==
    \/ \E p \in Pods : Birth(p)
    \/ \E p \in Pods : BecomeListed(p)
    \/ \E p \in Pods : BecomeRunning(p)
    \/ \E p \in Pods : BecomeBad(p)
    \/ \E p \in Pods : Vanish(p)
=============================================================================
