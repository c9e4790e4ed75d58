------------------------------ MODULE Lifecycle ------------------------------
(***************************************************************************)
(* The life of one run: the durable projection that lifecycle.py's         *)
(* LifecycleController commits, the supervisor process that drives it      *)
(* (application.SupervisorEngine.drive), the operator who may stop the run, *)
(* and the provider (RunPodProvider).                                      *)
(*                                                                         *)
(* Atomicity.  Every controller method holds the run's flock, so two of     *)
(* them never interleave; drive, however, chooses a method from a status    *)
(* it read without the lock, and an operator stop may come in between.  A   *)
(* provider query followed by the commit of what it showed is one action.   *)
(* A create is split (dispatch committed, POST received, answer committed): *)
(* a crash may fall between any two.  A commit is atomic here; module       *)
(* RunStore shows why that is justified.                                   *)
(***************************************************************************)
EXTENDS RunPodProvider

CONSTANTS
    NoPod,            \* state["resource"] is None
    VisibilityGrace,  \* _PROVISION_VISIBILITY_GRACE_SECONDS
    AbsenceGrace,     \* _PROVISION_ABSENCE_GRACE_SECONDS
    NetworkVolume,    \* request.provider.network_volume_id is set
    MaxFaults         \* bound on crashes, forced restarts and failed provider calls

ASSUME LifecycleAssumption ==
    /\ NoPod \notin Pods
    /\ VisibilityGrace \in Nat \ {0}
    /\ AbsenceGrace \in Nat \ {0}
    /\ NetworkVolume \in BOOLEAN
    /\ MaxFaults \in Nat

(* The absence window is only evidence if RunPod enforces terminateAfter   *)
(* within it.                                                             *)
ASSUME EnforcementAssumption == TermLag <= AbsenceGrace

VARIABLES
    \* the durable projection
    lifecycle, workload_result, disposition, recovery_reason,
    resource, quarantined,
    pinned,               \* state.json, which execute reads, names the pod; followed
                          \* until the run leaves its work
    provision,            \* operations.provision.status, "absent" before it exists
    attempts, dispatched_at,
    acked,                \* delete_acknowledged_resource_ids
    delete_acknowledged, provider_not_found,
    absence_confirmed, absence_first, resolution,
    spend, scope,
    \* the supervisor process
    pc, observation,
    faults

runVars == <<lifecycle, workload_result, disposition, recovery_reason>>
resourceVars == <<resource, quarantined, pinned>>
provisionVars == <<provision, attempts, dispatched_at>>
absenceVars == <<absence_confirmed, absence_first, resolution>>
deleteVars == <<acked, delete_acknowledged, provider_not_found>>
spendVars == <<spend, scope>>
closeoutVars == <<absenceVars, deleteVars, spendVars>>
durableVars == <<runVars, resourceVars, provisionVars, closeoutVars>>
vars == <<durableVars, pc, observation, faults, providerVars>>

NoTime == -1
NoResolution == [first |-> NoTime, confirmed |-> NoTime]
NoScope == [kind |-> "none", id |-> NoPod]
NoObservation == [result |-> "none", disposition |-> "none"]

(* _UNCERTAIN_PROVISION_STATUSES *)
Uncertain == {"dispatched", "outcome_unknown", "unresolved"}

LifecycleState == {"unplanned", "planned", "provisioning", "starting",
                   "running", "recovering", "deleting", "closed"}
WorkloadResult == {"none", "succeeded", "failed", "cancelled"}
Disposition == {"none", "verified", "partial_recovered", "unavailable"}
ScopeKind == {"none", "resource", "run", "operation_not_dispatched",
              "operation_deadline", "account"}

(* What RunPodRemoteExecutor.execute can return. *)
Observations ==
    {[result |-> "succeeded", disposition |-> "verified"],
     [result |-> "failed", disposition |-> "partial_recovered"],
     [result |-> "failed", disposition |-> "unavailable"]}

TypeOK ==
    /\ ProviderTypeOK
    /\ lifecycle \in LifecycleState
    /\ workload_result \in WorkloadResult
    /\ disposition \in Disposition
    /\ recovery_reason \in {"none", "duplicate_provider_resources",
          "provision_dispatch_unresolved", "resource_disappeared_before_start"}
    /\ resource \in Pods \cup {NoPod}
    /\ quarantined \subseteq Pods
    /\ pinned \in BOOLEAN
    /\ provision \in Uncertain \cup
          {"absent", "intended", "failed", "rejected", "conflict", "observed"}
    /\ attempts \in Nat
    /\ dispatched_at \in Nat
    /\ acked \subseteq Pods
    /\ delete_acknowledged \in BOOLEAN
    /\ provider_not_found \in BOOLEAN
    /\ absence_confirmed \in BOOLEAN
    /\ absence_first \in Nat \cup {NoTime}
    /\ resolution \in [first : Nat \cup {NoTime}, confirmed : Nat \cup {NoTime}]
    /\ spend \in {"none", "zero", "positive"}
    /\ scope \in [kind : ScopeKind, id : Pods \cup {NoPod}]
    /\ pc \in {"unlaunched", "down", "top", "reconcile", "creating", "answer", "execute",
               "re_execute", "record_result", "record_disposition", "fail_closed",
               "finished"}
    /\ observation \in Observations \cup {NoObservation}
    /\ faults \in Nat

Init ==
    /\ ProviderInit
    /\ lifecycle = "unplanned"
    /\ workload_result = "none"
    /\ disposition = "none"
    /\ recovery_reason = "none"
    /\ resource = NoPod
    /\ quarantined = {}
    /\ pinned = FALSE
    /\ provision = "absent"
    /\ attempts = 0
    /\ dispatched_at = 0
    /\ acked = {}
    /\ delete_acknowledged = FALSE
    /\ provider_not_found = FALSE
    /\ absence_confirmed = FALSE
    /\ absence_first = NoTime
    /\ resolution = NoResolution
    /\ spend = "none"
    /\ scope = NoScope
    /\ pc = "unlaunched"
    /\ observation = NoObservation
    /\ faults = 0

-----------------------------------------------------------------------------
(* Helpers.                                                                *)

Several(S) == \E p, q \in S : p # q

(* The pods the controller has durably recorded. *)
Known == quarantined \cup ({resource} \ {NoPod})

(* The step returns to the top of drive's loop. *)
Return == pc' = "top" /\ UNCHANGED <<observation, faults>>

(* The step raises: the process exits and systemd restarts it later.  What  *)
(* it held in memory is lost.                                              *)
Raise == pc' = "down" /\ observation' = NoObservation /\ UNCHANGED faults

(* A provider call failed, or the process died in the middle of the step. *)
Fault ==
    /\ faults < MaxFaults
    /\ faults' = faults + 1
    /\ pc' = "down"
    /\ observation' = NoObservation

(* The commit of a projection that names the pod: the journal entry is what   *)
(* counts; a process that dies before it replaces state.json leaves the old   *)
(* file (module RunStore), and no later step but another commit mends it.    *)
CommitPod ==
    \/ Return /\ pinned' = TRUE
    \/ Fault /\ UNCHANGED pinned

(* The run is given up: cancelled, without artifacts. *)
Abandon(next) ==
    /\ workload_result' = "cancelled"
    /\ disposition' = "unavailable"
    /\ lifecycle' = next

(* Every match is recorded; matches[0] becomes the primary resource. *)
Quarantine(ids) ==
    /\ quarantined' = ids
    /\ resource' \in ids
    /\ UNCHANGED pinned

(* _record_provider_rejection, but for the status of the operation. *)
RecordRejection(ids) ==
    /\ Abandon("deleting")
    /\ IF ids = {} THEN UNCHANGED resourceVars ELSE Quarantine(ids)
    /\ UNCHANGED <<recovery_reason, closeoutVars>>

(* _record_provisioned *)
RecordProvisioned(p) ==
    /\ provision' = "observed"
    /\ resource' = p
    /\ lifecycle' = "starting"
    /\ UNCHANGED <<workload_result, disposition, recovery_reason, quarantined,
                   attempts, dispatched_at, closeoutVars>>

(* Mutations of RequestStop: the stop records no disposition; it overwrites   *)
(* the result.                                                             *)
StopWithoutDisposition ==
    /\ lifecycle \notin {"unplanned", "closed"}
    /\ workload_result' = IF workload_result = "none" THEN "cancelled" ELSE workload_result
    /\ lifecycle' = "deleting"
    /\ UNCHANGED <<disposition, recovery_reason, resourceVars, provisionVars, closeoutVars>>

StopOverwritesResult ==
    /\ lifecycle \notin {"unplanned", "closed"}
    /\ workload_result' = "cancelled"
    /\ disposition' = IF disposition = "none" THEN "unavailable" ELSE disposition
    /\ lifecycle' = "deleting"
    /\ UNCHANGED <<recovery_reason, resourceVars, provisionVars, closeoutVars>>

(* request_stop on a run that is not closed. *)
RequestStop ==
    /\ lifecycle \notin {"unplanned", "closed"}
    /\ workload_result' = IF workload_result = "none" THEN "cancelled" ELSE workload_result
    /\ disposition' = IF disposition = "none" THEN "unavailable" ELSE disposition
    /\ lifecycle' = "deleting"
    /\ UNCHANGED <<recovery_reason, resourceVars, provisionVars, closeoutVars>>

-----------------------------------------------------------------------------
(* Planning, the operator, and the supervisor process.                     *)

(* JobRunner.run: plan, then launch the supervisor.  A launch that fails      *)
(* leaves a planned run without a unit.                                     *)
Plan ==
    /\ lifecycle = "unplanned"
    /\ lifecycle' = "planned"
    /\ pc' \in {"top", "unlaunched"}
    /\ UNCHANGED <<workload_result, disposition, recovery_reason, resourceVars,
                   provisionVars, closeoutVars, observation, faults, providerVars>>

(* The run flock is held while a create is in flight. *)
FlockFree == pc \notin {"creating", "answer"}

(* JobRunner.stop commits the stop first; its second half is Wake.  A closed  *)
(* run is left as it is.                                                    *)
OperatorStop ==
    /\ FlockFree
    /\ RequestStop
    /\ UNCHANGED <<pc, observation, faults, providerVars>>

(* _wake_or_launch, of stop or recover: the unit is restarted wherever it is,  *)
(* in the middle of a provider call too, or launched again.                  *)
Wake ==
    /\ lifecycle # "unplanned"
    /\ IF pc \in {"unlaunched", "down", "finished"} THEN UNCHANGED faults
       ELSE faults < MaxFaults /\ faults' = faults + 1
    /\ pc' = "top"
    /\ observation' = NoObservation
    /\ UNCHANGED <<durableVars, providerVars>>

(* systemd restarts the unit that failed; without a unit nothing does. *)
Restart ==
    /\ pc = "down"
    /\ pc' = "top"
    /\ UNCHANGED <<durableVars, observation, faults, providerVars>>

(* The process dies; or the host goes down, and the transient unit with it. *)
Crash ==
    /\ pc \notin {"unlaunched", "finished"}
    /\ faults < MaxFaults
    /\ faults' = faults + 1
    /\ pc' \in {"down", "unlaunched"}
    /\ observation' = NoObservation
    /\ UNCHANGED <<durableVars, providerVars>>

(* Mutation of MustNotDispatch: the recovery reason is not looked at. *)
DispatchDespiteReason == workload_result = "none" \/ quarantined # {}

(* _recovery_must_not_dispatch_workload *)
MustNotDispatch ==
    \/ workload_result = "none"
    \/ recovery_reason # "none"
    \/ quarantined # {}

(* The branch drive takes on the status it reads. *)
Branch ==
    CASE lifecycle \in {"planned", "provisioning", "starting", "deleting"} -> "reconcile"
      [] lifecycle = "running" -> "execute"
      [] lifecycle = "recovering" ->
            IF MustNotDispatch THEN "fail_closed"
            ELSE IF observation = NoObservation THEN "re_execute"
            ELSE "record_disposition"
      [] OTHER -> "finished"

ReadStatus ==
    /\ pc = "top"
    /\ pc' = Branch
    /\ UNCHANGED <<durableVars, observation, faults, providerVars>>

Executing == pc \in {"execute", "re_execute"}

(* executor.execute: a success takes artifacts verified against a live pod. *)
Execute ==
    /\ Executing
    /\ pinned
    /\ observation' \in Observations
    /\ observation'.result = "succeeded" => Alive(resource)
    /\ pc' = IF pc = "execute" THEN "record_result" ELSE "record_disposition"
    /\ UNCHANGED <<durableVars, faults, providerVars>>

(* execute raises: state.json does not name the pod, or, until the deadline    *)
(* makes it return at once, its look-up, host-key scan or bootstrap failed.   *)
ExecuteRaises ==
    /\ Executing
    /\ ~pinned \/ now < Deadline
    /\ Raise
    /\ UNCHANGED <<durableVars, providerVars>>

(* Mutation of RecordResult: a result is recorded over the one of a stop. *)
RecordAnyResult ==
    /\ pc = "record_result"
    /\ workload_result' = observation.result
    /\ lifecycle' = "recovering"
    /\ Return
    /\ UNCHANGED <<disposition, recovery_reason, resourceVars, provisionVars,
                   closeoutVars, providerVars>>

(* record_workload_result *)
RecordResult ==
    /\ pc = "record_result"
    /\ \/ /\ workload_result = observation.result
          /\ Return
          /\ UNCHANGED durableVars
       \/ /\ workload_result \notin {"none", observation.result}
          /\ Raise
          /\ UNCHANGED durableVars
       \/ /\ workload_result = "none"
          /\ workload_result' = observation.result
          /\ lifecycle' = "recovering"
          /\ Return
          /\ UNCHANGED <<disposition, recovery_reason, resourceVars,
                         provisionVars, closeoutVars>>
    /\ UNCHANGED providerVars

(* record_artifact_disposition; the detail of a stop differs from the      *)
(* executor's, so an existing disposition is a conflict.                   *)
RecordDisposition ==
    /\ pc = "record_disposition"
    /\ \/ /\ disposition # "none"
          /\ Raise
          /\ UNCHANGED durableVars
       \/ /\ disposition = "none"
          /\ disposition' = observation.disposition
          /\ lifecycle' = "deleting"
          /\ Return
          /\ UNCHANGED <<workload_result, recovery_reason, resourceVars,
                         provisionVars, closeoutVars>>
    /\ UNCHANGED providerVars

(* drive stops a run it must not hand to the executor. *)
FailClosed ==
    /\ pc = "fail_closed"
    /\ RequestStop
    /\ Return
    /\ UNCHANGED providerVars

-----------------------------------------------------------------------------
(* reconcile: one durable step, chosen by the lifecycle read under the lock.  *)
(* Its branch for running, recovering and closed is never taken: between the  *)
(* status and the lock only a stop can commit (LifecycleInvariant proves it). *)

At(state) == pc = "reconcile" /\ lifecycle = state

IntendProvision ==
    /\ At("planned")
    /\ provision' = "intended"
    /\ lifecycle' = "provisioning"
    /\ Return
    /\ UNCHANGED <<workload_result, disposition, recovery_reason, resourceVars,
                   attempts, dispatched_at, closeoutVars, providerVars>>

ProvisionRejected ==
    /\ At("provisioning")
    /\ FindRejected
    /\ provision' = "rejected"
    /\ RecordRejection(FindResources)
    /\ DeleteRejectedMatch
    /\ Return
    /\ UNCHANGED <<attempts, dispatched_at>>

ProvisionConflict ==
    /\ At("provisioning")
    /\ ~FindRejected
    /\ Several(FindResources)
    /\ recovery_reason' = "duplicate_provider_resources"
    /\ provision' = "conflict"
    /\ Quarantine(FindResources)
    /\ Abandon("deleting")
    /\ Return
    /\ UNCHANGED <<attempts, dispatched_at, closeoutVars, providerVars>>

ProvisionAdopt ==
    /\ At("provisioning")
    /\ ~FindRejected
    /\ \E p \in Pods : FindResources = {p} /\ RecordProvisioned(p)
    /\ CommitPod
    /\ UNCHANGED providerVars

(* Mutations of ProvisionPending: an empty list sends the create again; the    *)
(* wait has no end.                                                        *)
RetryCreate ==
    /\ At("provisioning")
    /\ FindResources = {}
    /\ provision # "intended"
    /\ attempts' = attempts + 1
    /\ provision' = "dispatched"
    /\ dispatched_at' = now
    /\ pc' = "creating"
    /\ UNCHANGED <<runVars, resourceVars, closeoutVars, observation, faults, providerVars>>

PendingForever ==
    /\ At("provisioning")
    /\ FindResources = {}
    /\ provision # "intended"
    /\ Return
    /\ UNCHANGED <<durableVars, providerVars>>

(* _record_provision_visibility_pending: the create is never sent again. *)
ProvisionPending ==
    /\ At("provisioning")
    /\ FindResources = {}
    /\ provision # "intended"
    /\ now - dispatched_at < VisibilityGrace
    /\ Return
    /\ UNCHANGED <<durableVars, providerVars>>

ProvisionUnresolved ==
    /\ At("provisioning")
    /\ FindResources = {}
    /\ provision # "intended"
    /\ now - dispatched_at >= VisibilityGrace
    /\ provision' = "unresolved"
    /\ recovery_reason' = "provision_dispatch_unresolved"
    /\ Abandon("recovering")
    /\ Return
    /\ UNCHANGED <<attempts, dispatched_at, resourceVars, closeoutVars, providerVars>>

ProvisionDispatch ==
    /\ At("provisioning")
    /\ FindResources = {}
    /\ provision = "intended"
    /\ attempts' = attempts + 1
    /\ provision' = "dispatched"
    /\ dispatched_at' = now
    /\ pc' = "creating"
    /\ UNCHANGED <<runVars, resourceVars, closeoutVars, observation, faults, providerVars>>

CreatePost ==
    /\ pc = "creating"
    /\ pc' = "answer"
    /\ PostCreate
    /\ UNCHANGED <<durableVars, observation, faults>>

(* RunPod answers with a pod it created. *)
CreateSucceeds ==
    /\ pc = "answer"
    /\ \E p \in Pods \ bad : pod[p] # "unborn" /\ RecordProvisioned(p)
    /\ CommitPod
    /\ UNCHANGED providerVars

(* The pod in the answer fails its check and is deleted at once. *)
CreateRejected ==
    /\ pc = "answer"
    /\ \E p \in bad :
          /\ pod[p] # "unborn"
          /\ RecordRejection({p})
          /\ DeleteRejectedPod(p)
    /\ provision' = "rejected"
    /\ Return
    /\ UNCHANGED <<attempts, dispatched_at>>

(* The transport failed, before or after the request reached RunPod. *)
CreateOutcomeUnknown ==
    /\ pc \in {"creating", "answer"}
    /\ Raise
    /\ provision' = "outcome_unknown"
    /\ UNCHANGED <<runVars, resourceVars, attempts, dispatched_at, closeoutVars,
                   providerVars>>

(* The adapter refuses the request before it sends it.  After the POST its     *)
(* checks reject the pod (CreateRejected), and an I/O error while it notes the *)
(* pod's ID is no ProviderError: the process dies with the create dispatched  *)
(* (Crash).  The policy files it has just written are taken to be readable.   *)
CreateRefused ==
    /\ pc = "creating"
    /\ \/ provision' = "rejected" /\ RecordRejection({}) /\ Return
       \/ provision' = "failed" /\ Raise
             /\ UNCHANGED <<runVars, resourceVars, closeoutVars>>
    /\ UNCHANGED <<attempts, dispatched_at, providerVars>>

-----------------------------------------------------------------------------
(* _reconcile_start                                                        *)

StartMissing ==
    /\ At("starting")
    /\ ~Alive(resource)
    /\ recovery_reason' = "resource_disappeared_before_start"
    /\ Abandon("deleting")
    /\ Return
    /\ UNCHANGED <<resourceVars, provisionVars, closeoutVars, providerVars>>

StartRejected ==
    /\ At("starting")
    /\ GetRejected(resource)
    /\ RecordRejection({resource})
    /\ DeleteRejectedPod(resource)
    /\ Return
    /\ UNCHANGED provisionVars

(* The pod in start's answer fails its check. *)
StartAnswerRejected ==
    /\ At("starting")
    /\ GetFinds(resource)
    /\ pod[resource] # "running"
    /\ RecordRejection({resource})
    /\ pod' \in {[pod EXCEPT ![resource] = "running"], DeletePod(resource)}
    /\ bad' = bad \cup {resource}
    /\ Return
    /\ UNCHANGED <<provisionVars, hidden, owed, baseline, now>>

StartObserved ==
    /\ At("starting")
    /\ GetFinds(resource)
    /\ pod[resource] = "running"
    /\ lifecycle' = "running"
    /\ CommitPod
    /\ UNCHANGED <<workload_result, disposition, recovery_reason, resource, quarantined,
                   provisionVars, closeoutVars, providerVars>>

(* start is acknowledged; the pod may or may not run already. *)
StartCall ==
    /\ At("starting")
    /\ GetFinds(resource)
    /\ pod[resource] # "running"
    /\ \/ StartPod(resource) /\ lifecycle' = "running"
       \/ UNCHANGED providerVars /\ lifecycle' = "starting"
    /\ CommitPod
    /\ UNCHANGED <<workload_result, disposition, recovery_reason, resource, quarantined,
                   provisionVars, closeoutVars>>

(* start's outcome is unknown, or start failed; both commit and then raise. *)
StartFails ==
    /\ At("starting")
    /\ GetFinds(resource)
    /\ pod[resource] # "running"
    /\ StartPod(resource) \/ UNCHANGED providerVars
    /\ Fault
    /\ pinned' \in {pinned, TRUE}
    /\ UNCHANGED <<runVars, resource, quarantined, provisionVars, closeoutVars>>

-----------------------------------------------------------------------------
(* _reconcile_delete, first part: was a pod created at all?                *)

NeedsResolution ==
    /\ At("deleting")
    /\ disposition # "none"
    /\ resource = NoPod
    /\ provision # "absent"
    /\ ~absence_confirmed

(* Nothing is listed for the operation. *)
NothingFound == NeedsResolution /\ FindResources = {}

(* Mutation of DeadlineRequired: only a lost answer is taken for uncertain.   *)
DeadlineIfAnswerLost == attempts > 0 /\ provision = "outcome_unknown"

(* deadline_resolution_required *)
DeadlineRequired == attempts > 0 /\ provision \in Uncertain

ResolveRejected ==
    /\ NeedsResolution
    /\ FindRejected
    /\ Quarantine(FindResources)
    /\ DeleteRejectedMatch
    /\ absence_first' = NoTime
    /\ Return
    /\ UNCHANGED <<runVars, provisionVars, absence_confirmed, resolution,
                   deleteVars, spendVars>>

ResolveDuplicates ==
    /\ NeedsResolution
    /\ ~FindRejected
    /\ Several(FindResources)
    /\ Quarantine(FindResources)
    /\ Return
    /\ UNCHANGED <<runVars, provisionVars, closeoutVars, providerVars>>

ResolveAdopt ==
    /\ NeedsResolution
    /\ ~FindRejected
    /\ \E p \in Pods : FindResources = {p} /\ resource' = p
    /\ absence_first' = NoTime
    /\ Return
    /\ UNCHANGED <<runVars, quarantined, pinned, provisionVars, absence_confirmed,
                   resolution, deleteVars, spendVars, providerVars>>

ResolveNotDispatched ==
    /\ NothingFound
    /\ attempts = 0
    /\ absence_confirmed' = TRUE
    /\ Return
    /\ UNCHANGED <<runVars, resourceVars, provisionVars, absence_first, resolution,
                   deleteVars, spendVars, providerVars>>

(* Before the deadline an uncertain create proves nothing. *)
ResolveTooEarly ==
    /\ NothingFound
    /\ DeadlineRequired
    /\ now < Deadline
    /\ absence_first' = NoTime
    /\ Return
    /\ UNCHANGED <<runVars, resourceVars, provisionVars, absence_confirmed,
                   resolution, deleteVars, spendVars, providerVars>>

(* The clock may judge absence, and the window has started. *)
MayJudgeAbsence ==
    /\ NothingFound
    /\ attempts > 0
    /\ DeadlineRequired => now >= Deadline

WindowOpen ==
    /\ absence_first # NoTime
    /\ DeadlineRequired => absence_first >= Deadline

ResolveWindowStarts ==
    /\ MayJudgeAbsence
    /\ ~WindowOpen
    /\ absence_first' = now
    /\ Return
    /\ UNCHANGED <<runVars, resourceVars, provisionVars, absence_confirmed,
                   resolution, deleteVars, spendVars, providerVars>>

ResolveWindowPending ==
    /\ MayJudgeAbsence
    /\ WindowOpen
    /\ now - absence_first < AbsenceGrace
    /\ Return
    /\ UNCHANGED <<durableVars, providerVars>>

(* Mutation of ResolveConfirmed: the deadline proof is not recorded. *)
ConfirmedWithoutProof ==
    /\ MayJudgeAbsence
    /\ WindowOpen
    /\ now - absence_first >= AbsenceGrace
    /\ absence_confirmed' = TRUE
    /\ Return
    /\ UNCHANGED <<runVars, resourceVars, provisionVars, absence_first, resolution,
                   deleteVars, spendVars, providerVars>>

ResolveConfirmed ==
    /\ MayJudgeAbsence
    /\ WindowOpen
    /\ now - absence_first >= AbsenceGrace
    /\ absence_confirmed' = TRUE
    /\ resolution' = IF DeadlineRequired
                     THEN [first |-> absence_first, confirmed |-> now]
                     ELSE resolution
    /\ Return
    /\ UNCHANGED <<runVars, resourceVars, provisionVars, absence_first,
                   deleteVars, spendVars, providerVars>>

-----------------------------------------------------------------------------
(* _reconcile_delete, second part: delete, confirm, account, close.        *)

Resolved ==
    /\ At("deleting")
    /\ disposition # "none"
    /\ resource # NoPod \/ provision = "absent" \/ absence_confirmed

DeleteTargets == IF quarantined # {} THEN quarantined ELSE Known

DeletePending == DeleteTargets \ acked

(* pending_ids[0]: the primary resource heads the list. *)
NextToDelete == {p \in DeletePending : resource \in DeletePending => p = resource}

DeleteNotRequired ==
    /\ Resolved
    /\ ~delete_acknowledged
    /\ DeletePending = {}
    /\ delete_acknowledged' = TRUE
    /\ Return
    /\ UNCHANGED <<runVars, resourceVars, provisionVars, absenceVars, acked,
                   provider_not_found, spendVars, providerVars>>

(* delete is acknowledged, or the pod was absent already. *)
DeleteCall ==
    /\ Resolved
    /\ ~delete_acknowledged
    /\ \E p \in NextToDelete :
          /\ pod' = DeletePod(p)
          /\ acked' = acked \cup {p}
    /\ delete_acknowledged' = (DeleteTargets \subseteq acked')
    /\ Return
    /\ UNCHANGED <<runVars, resourceVars, provisionVars, absenceVars,
                   provider_not_found, spendVars, bad, hidden, owed, baseline, now>>

(* delete's outcome is unknown, or delete failed. *)
DeleteFails ==
    /\ Resolved
    /\ ~delete_acknowledged
    /\ \E p \in NextToDelete : pod' \in {pod, DeletePod(p)}
    /\ Fault
    /\ UNCHANGED <<durableVars, bad, hidden, owed, baseline, now>>

NeedsAbsence == Resolved /\ delete_acknowledged /\ ~provider_not_found

(* The provider no longer shows what was deleted. *)
ProviderAbsent ==
    IF quarantined # {} THEN FindResources = {}
    ELSE resource = NoPod \/ ~Alive(resource)

AbsenceConfirmed ==
    /\ NeedsAbsence
    /\ ProviderAbsent
    /\ provider_not_found' = TRUE
    /\ Return
    /\ UNCHANGED <<runVars, resourceVars, provisionVars, absenceVars, acked,
                   delete_acknowledged, spendVars, providerVars>>

(* The look-up raises ProviderRejected, after it deleted the bad pod. *)
AbsenceRejected ==
    /\ NeedsAbsence
    /\ IF quarantined # {} THEN FindRejected /\ DeleteRejectedMatch
       ELSE resource # NoPod /\ GetRejected(resource) /\ DeleteRejectedPod(resource)
    /\ Raise
    /\ UNCHANGED durableVars

AbsencePending ==
    /\ NeedsAbsence
    /\ IF quarantined # {} THEN FindResources # {} /\ ~FindRejected
       ELSE resource # NoPod /\ GetFinds(resource)
    /\ Return
    /\ UNCHANGED <<durableVars, providerVars>>

(* _provision_resolution_is_complete *)
ResolutionComplete ==
    (resource = NoPod /\ DeadlineRequired) =>
        /\ absence_confirmed
        /\ resolution # NoResolution
        /\ resolution.first >= Deadline
        /\ resolution.confirmed - resolution.first >= AbsenceGrace

(* Mutation of CurrentSpendScope: the deadline proof earns no scope. *)
ScopeWithoutDeadlineProof ==
    [kind |-> IF resource # NoPod THEN "resource"
              ELSE IF NetworkVolume /\ provision = "absent" THEN "run"
              ELSE IF NetworkVolume /\ attempts = 0 THEN "operation_not_dispatched"
              ELSE "account",
     id |-> resource]

(* _current_spend_scope *)
CurrentSpendScope ==
    LET kind ==
          CASE resource # NoPod -> "resource"
            [] resource = NoPod /\ ~NetworkVolume -> "account"
            [] resource = NoPod /\ NetworkVolume /\ provision = "absent" -> "run"
            [] resource = NoPod /\ NetworkVolume /\ provision # "absent" ->
                  IF attempts = 0 THEN "operation_not_dispatched"
                  ELSE IF provision \in Uncertain /\ ResolutionComplete
                       THEN "operation_deadline"
                       ELSE "account"
    IN [kind |-> kind, id |-> resource]

(* The spend the scope shows; exact-ID spend is the live pod's rate. *)
SpendIsZero ==
    CASE CurrentSpendScope.kind = "resource" -> ~Alive(resource)
      [] CurrentSpendScope.kind = "account" -> AccountSpendIsZero
      [] OTHER -> TRUE

NeedsSpend == Resolved /\ delete_acknowledged /\ provider_not_found

(* A scope that differs from the recorded one, or a closeout that          *)
(* _assert_closeout_ready refuses, raises for ever (see CloseoutNotRefused). *)
ScopeAgrees == scope \in {NoScope, CurrentSpendScope}

CloseoutReady == ScopeAgrees /\ ResolutionComplete

SpendRejected ==
    /\ NeedsSpend
    /\ resource # NoPod
    /\ GetRejected(resource)
    /\ DeleteRejectedPod(resource)
    /\ Raise
    /\ UNCHANGED durableVars

SpendObserved ==
    /\ NeedsSpend
    /\ ScopeAgrees
    /\ ~SpendIsZero
    /\ resource \notin bad
    /\ spend' = "positive"
    /\ scope' = CurrentSpendScope
    /\ Return
    /\ UNCHANGED <<runVars, resourceVars, provisionVars, absenceVars, deleteVars,
                   providerVars>>

Close ==
    /\ NeedsSpend
    /\ CloseoutReady
    /\ SpendIsZero
    /\ spend' = "zero"
    /\ scope' = CurrentSpendScope
    /\ lifecycle' = "closed"
    /\ Return
    /\ UNCHANGED <<workload_result, disposition, recovery_reason, resourceVars,
                   provisionVars, absenceVars, deleteVars, providerVars>>

-----------------------------------------------------------------------------
(* Time matters while a comparison with the clock can still change.        *)
TimeMatters ==
    \/ now < Deadline + TermLag
    \/ attempts > 0 /\ now - dispatched_at < VisibilityGrace
    \/ absence_first # NoTime /\ now - absence_first < AbsenceGrace

Tick ==
    /\ lifecycle # "unplanned"
    /\ TimeMatters
    /\ MayTick
    /\ now' = now + 1
    /\ UNCHANGED <<durableVars, pc, observation, faults, pod, bad, hidden, owed, baseline>>

Provider == ProviderStep /\ UNCHANGED <<durableVars, pc, observation, faults>>

(* _reconcile_provision *)
ReconcileProvision ==
    \/ ProvisionRejected \/ ProvisionConflict \/ ProvisionAdopt
    \/ ProvisionPending \/ ProvisionUnresolved \/ ProvisionDispatch

(* The provider.create call inside it, from dispatch to outcome. *)
Create ==
    \/ CreatePost \/ CreateSucceeds \/ CreateRejected \/ CreateRefused
    \/ CreateOutcomeUnknown

ReconcileStart ==
    \/ StartMissing \/ StartRejected \/ StartAnswerRejected
    \/ StartObserved \/ StartCall

ResolveProvision ==
    \/ ResolveRejected \/ ResolveDuplicates \/ ResolveAdopt \/ ResolveNotDispatched
    \/ ResolveTooEarly \/ ResolveWindowStarts \/ ResolveWindowPending \/ ResolveConfirmed

ReconcileDelete ==
    \/ DeleteNotRequired \/ DeleteCall
    \/ AbsenceConfirmed \/ AbsenceRejected \/ AbsencePending
    \/ SpendRejected \/ SpendObserved \/ Close

(* The supervisor process outside reconcile and execute. *)
Drive ==
    \/ Restart \/ ReadStatus
    \/ RecordResult \/ RecordDisposition \/ FailClosed

Supervisor ==
    \/ Drive
    \/ IntendProvision
    \/ ReconcileProvision
    \/ Create
    \/ ReconcileStart
    \/ ResolveProvision
    \/ ReconcileDelete

Execution == Execute \/ ExecuteRaises

Failure == Crash \/ StartFails \/ DeleteFails

Next ==
    \/ Plan
    \/ OperatorStop
    \/ Wake
    \/ Supervisor
    \/ Execution
    \/ Failure
    \/ Tick
    \/ Provider

Spec == Init /\ [][Next]_vars

(* Fairness.  A unit that was launched restarts without a burst limit, and    *)
(* every call of reconcile times out, so the supervisor keeps taking steps;   *)
(* RunPod completes the deletes it accepted and enforces terminateAfter; time *)
(* passes.  Nothing is asked of execute, whose transfers run without a        *)
(* timeout and may never return.  Launches by the operator, crashes, stops    *)
(* and every other provider step may or may not happen.                     *)
Fairness ==
    /\ WF_vars(Supervisor)
    /\ WF_vars(Tick)
    /\ \A p \in Pods :
          WF_vars(Remove(p) /\ UNCHANGED <<durableVars, pc, observation, faults>>)

FairSpec == Spec /\ Fairness

-----------------------------------------------------------------------------
(* Properties.                                                             *)

(* A retry never creates a second resource (CONTEXT.md invariant 2): over   *)
(* every crash, unknown outcome, stop and restart, _reconcile_provision      *)
(* dispatches at most one create, and RunPod is asked for nothing before     *)
(* that dispatch is durable (invariant 1).                                  *)
SingleCreate ==
    /\ attempts <= 1
    /\ attempts = 0 => owed = 0 /\ \A p \in Pods : pod[p] = "unborn"

(* closed is evidence (CONTEXT.md invariant 6): when _reconcile_delete has   *)
(* closed the run no pod of it is billed, and none will be born later.  Only  *)
(* a provider that creates several pods for one request can leave one, and   *)
(* then never one the controller has recorded.                              *)
ClosedMeansNoCompute ==
    lifecycle = "closed" =>
        /\ \A p \in Pods : Alive(p) => Copies > 1 /\ Known # {} /\ p \notin Known
        /\ Known = {} => owed = 0 \/ now >= Deadline

(* The run as the principal sees it: its whole life, with every retry, crash,  *)
(* stop and late pod in it, is one of RunContract.                          *)
Stage == CASE lifecycle = "unplanned" -> "none"
           [] lifecycle = "closed" -> "closed"
           [] OTHER -> "open"
Used == {p \in Pods : pod[p] # "unborn"}
Billed == {p \in Pods : Alive(p)}

Contract == INSTANCE RunContract WITH
    Exact <- Copies = 1, stage <- Stage, orders <- attempts, used <- Used, billed <- Billed

HonoursContract == Contract!Spec

(* Evidence once recorded is never withdrawn or replaced, whichever of the   *)
(* supervisor and the operator comes first: the workload result, the         *)
(* disposition, the pods to delete, the acknowledgements, the spend scope.   *)
KeepsEvidence ==
    /\ workload_result # "none" => workload_result' = workload_result
    /\ disposition # "none" => disposition' = disposition
    /\ Known \subseteq Known'
    /\ acked \subseteq acked'
    /\ delete_acknowledged => delete_acknowledged'
    /\ provider_not_found => provider_not_found'
    /\ scope # NoScope => scope' = scope

EvidenceIsStable == [][KeepsEvidence]_vars

(* A run on its way to deletion is not pulled back by a workload result that  *)
(* arrives after the stop; a closed run stays closed.                       *)
OnlyOnward ==
    /\ lifecycle = "closed" => lifecycle' = "closed"
    /\ lifecycle = "deleting" => lifecycle' \in {"deleting", "closed"}

NoWayBack == [][OnlyOnward]_vars

(* Deleting and closed runs have their result and disposition recorded       *)
(* (_reconcile_delete raises otherwise), and no pod is deleted, by the        *)
(* controller's own delete call, before that.                               *)
DispositionBeforeDelete ==
    /\ lifecycle \in {"deleting", "closed"} =>
          workload_result # "none" /\ disposition # "none"
    /\ acked # {} => disposition # "none"

(* The spend step never meets a scope other than the one it recorded, nor a   *)
(* closeout that _assert_closeout_ready refuses: either would raise at every  *)
(* restart and the run could never close.                                    *)
CloseoutNotRefused == NeedsSpend => CloseoutReady

(* The executor is only ever given a run with one recorded, never quarantined *)
(* pod, although drive decides on a status that may be stale.                *)
ExecuteOnlyAdmitted ==
    pc \in {"execute", "re_execute", "record_result", "record_disposition"} =>
        resource # NoPod /\ quarantined = {} /\ recovery_reason = "none"

(* A network-volume run is charged at account scope, where retained storage   *)
(* keeps the spend positive, only if its create was refused before it was     *)
(* sent: every uncertain create gets its own scope.                          *)
AccountScopeIsExceptional ==
    (NetworkVolume /\ scope.kind = "account") =>
        provision \in {"failed", "rejected"} /\ \A p \in Pods : pod[p] = "unborn"

(* An account whose other charges never end keeps a run without a pod open. *)
StuckOnAccountSpend == baseline /\ scope.kind = "account"

(* What only an operator can end: no unit drives the run (a failed launch, a  *)
(* host that went down); execute is inside a call that does not return; or    *)
(* state.json never got the pod and execute raises at every restart.        *)
NeedsOperator ==
    \/ pc = "unlaunched"
    \/ Executing
    \/ lifecycle = "running" /\ ~pinned

(* Every planned run closes, over every crash, refusal, lost answer and late   *)
(* pod, unless it is left for good in a place that only an operator can end,  *)
(* or its account-wide spend never drops to zero.  The steps of drive and of  *)
(* reconcile themselves never go in circles.                                *)
EventuallyCloses ==
    \/ (lifecycle = "planned") ~> (lifecycle = "closed" \/ StuckOnAccountSpend)
    \/ <>[]NeedsOperator

=============================================================================
