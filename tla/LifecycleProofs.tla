--------------------------- MODULE LifecycleProofs ---------------------------
(***************************************************************************)
(* Proofs about Lifecycle, for every set of pods, every deadline, grace      *)
(* period, number of copies and number of faults.                            *)
(*                                                                         *)
(* The properties are not inductive on their own: that a closed run has no   *)
(* live pod depends on what the recorded evidence says about the provider at  *)
(* every earlier point.  Inductive (module LifecycleInvariant) says it; it is  *)
(* shown to hold initially and to be preserved, one lemma per part of the     *)
(* controller and one case per action, and the properties are read off it.    *)
(***************************************************************************)
EXTENDS LifecycleInvariant, TLAPS

USE ProviderAssumption, LifecycleAssumption

-----------------------------------------------------------------------------
(* What a commit that names the pod leaves behind. *)
LEMMA CommitTypes ==
    ASSUME TypeOK, CommitPod
    PROVE  /\ pinned' \in BOOLEAN
           /\ pc' \in {"top", "down"}
           /\ observation' \in {observation, NoObservation}
           /\ faults' \in Nat
<1>1. pinned' \in BOOLEAN
  BY Zenon DEF TypeOK, CommitPod
<1>2. faults' \in Nat
  BY DEF TypeOK, CommitPod, Return, Fault
<1> QED
  BY <1>1, <1>2 DEF CommitPod, Return, Fault

(* Every step of the model keeps the types. *)
LEMMA TypeStep == TypeOK /\ [Next]_vars => TypeOK'
<1> SUFFICES ASSUME TypeOK, [Next]_vars PROVE TypeOK'
  OBVIOUS
<1> USE DEF TypeOK, ProviderTypeOK, vars, durableVars, runVars, resourceVars,
        provisionVars, absenceVars, deleteVars, spendVars, closeoutVars,
        providerVars, PodState, NoTime, NoResolution, NoScope, NoObservation,
        Uncertain, LifecycleState, WorkloadResult, Disposition, ScopeKind
<1>1. CASE Plan
  BY <1>1 DEF Plan
<1>2. CASE OperatorStop
  BY <1>2 DEF OperatorStop, FlockFree, RequestStop
<1>3. CASE Wake
  BY <1>3 DEF Wake
<1>4. CASE Restart
  BY <1>4 DEF Restart
<1>5. CASE ReadStatus
  BY <1>5 DEF ReadStatus, Branch, MustNotDispatch
<1>6. CASE Execution
  BY <1>6 DEF Execution, Execute, ExecuteRaises, Executing, Raise
<1>7. CASE RecordResult
  BY <1>7 DEF RecordResult, Observations, Return, Raise
<1>8. CASE RecordDisposition
  BY <1>8 DEF RecordDisposition, Observations, Return, Raise
<1>9. CASE FailClosed
  BY <1>9 DEF FailClosed, RequestStop, Return
<1>10. CASE Crash
  BY <1>10 DEF Crash
<1>11. CASE IntendProvision
  BY <1>11 DEF IntendProvision, At, Return
<1>12. CASE ProvisionRejected
  BY <1>12 DEF ProvisionRejected, At, Return, FindRejected, FindResources, Alive,
     RecordRejection, Quarantine, Abandon, DeleteRejectedMatch, DeleteRejectedPod,
     DeletePod
<1>13. CASE ProvisionConflict
  BY <1>13 DEF ProvisionConflict, At, Return, FindRejected, FindResources, Alive,
     Several, Quarantine, Abandon
<1>14. CASE ProvisionAdopt
  BY <1>14, CommitTypes DEF ProvisionAdopt, At, FindRejected, FindResources, Alive,
     RecordProvisioned
<1>15. CASE ProvisionPending
  BY <1>15 DEF ProvisionPending, At, Return
<1>16. CASE ProvisionUnresolved
  BY <1>16 DEF ProvisionUnresolved, At, Return, Abandon
<1>17. CASE ProvisionDispatch
  BY <1>17 DEF ProvisionDispatch, At
<1>18. CASE CreatePost
  BY <1>18 DEF CreatePost, PostCreate
<1>19. CASE CreateSucceeds
  BY <1>19, CommitTypes DEF CreateSucceeds, RecordProvisioned
<1>20. CASE CreateRejected
  BY <1>20 DEF CreateRejected, Return, RecordRejection, Quarantine, Abandon,
     DeleteRejectedPod, DeletePod, Alive
<1>21. CASE CreateRefused
  BY <1>21 DEF CreateRefused, Return, Raise, RecordRejection, Abandon
<1>22. CASE CreateOutcomeUnknown
  BY <1>22 DEF CreateOutcomeUnknown, Raise
<1>23. CASE StartMissing
  BY <1>23 DEF StartMissing, At, Return, Abandon, Alive
<1>24. CASE StartRejected
  BY <1>24 DEF StartRejected, At, Return, GetRejected, Alive, RecordRejection,
     Quarantine, Abandon, DeleteRejectedPod, DeletePod
<1>25. CASE StartAnswerRejected
  BY <1>25 DEF StartAnswerRejected, At, Return, GetFinds, Alive, RecordRejection,
     Quarantine, Abandon, DeletePod
<1>26. CASE StartObserved
  BY <1>26, CommitTypes DEF StartObserved, At, GetFinds, Alive
<1>27. CASE StartCall
  BY <1>27, CommitTypes DEF StartCall, At, GetFinds, Alive, StartPod
<1>28. CASE StartFails
  <2>1. pinned' \in BOOLEAN
    BY <1>28, Zenon DEF StartFails
  <2> QED
    BY <1>28, <2>1 DEF StartFails, At, Fault, GetFinds, Alive, StartPod
<1>29. CASE ResolveRejected
  BY <1>29 DEF ResolveRejected, NeedsResolution, At, Return, FindRejected,
     FindResources, Alive, Quarantine, DeleteRejectedMatch, DeleteRejectedPod,
     DeletePod
<1>30. CASE ResolveDuplicates
  BY <1>30 DEF ResolveDuplicates, NeedsResolution, At, Return, FindRejected,
     FindResources, Alive, Several, Quarantine
<1>31. CASE ResolveAdopt
  BY <1>31 DEF ResolveAdopt, NeedsResolution, At, Return, FindRejected,
     FindResources, Alive
<1>32. CASE ResolveNotDispatched
  BY <1>32 DEF ResolveNotDispatched, NothingFound, NeedsResolution, At, Return
<1>33. CASE ResolveTooEarly
  BY <1>33 DEF ResolveTooEarly, NothingFound, NeedsResolution, At, Return,
     DeadlineRequired
<1>34. CASE ResolveWindowStarts
  BY <1>34 DEF ResolveWindowStarts, MayJudgeAbsence, WindowOpen, NothingFound,
     NeedsResolution, At, Return, DeadlineRequired
<1>35. CASE ResolveWindowPending
  BY <1>35 DEF ResolveWindowPending, MayJudgeAbsence, WindowOpen, NothingFound,
     NeedsResolution, At, Return, DeadlineRequired
<1>36. CASE ResolveConfirmed
  BY <1>36 DEF ResolveConfirmed, MayJudgeAbsence, WindowOpen, NothingFound,
     NeedsResolution, At, Return, DeadlineRequired
<1>37. CASE DeleteNotRequired
  BY <1>37 DEF DeleteNotRequired, Resolved, At, Return, DeletePending,
     DeleteTargets, Known
<1>38. CASE DeleteCall
  BY <1>38 DEF DeleteCall, Resolved, At, Return, NextToDelete, DeletePending,
     DeleteTargets, Known, DeletePod, Alive
<1>39. CASE DeleteFails
  BY <1>39 DEF DeleteFails, Resolved, At, Fault, NextToDelete, DeletePending,
     DeleteTargets, Known, DeletePod, Alive
<1>40. CASE AbsenceConfirmed
  BY <1>40 DEF AbsenceConfirmed, NeedsAbsence, Resolved, At, Return, ProviderAbsent,
     FindResources, Alive
<1>41. CASE AbsenceRejected
  BY <1>41 DEF AbsenceRejected, NeedsAbsence, Resolved, At, Raise, FindRejected,
     FindResources, Alive, GetRejected, DeleteRejectedMatch, DeleteRejectedPod,
     DeletePod
<1>42. CASE AbsencePending
  BY <1>42 DEF AbsencePending, NeedsAbsence, Resolved, At, Return
<1>43. CASE SpendRejected
  BY <1>43 DEF SpendRejected, NeedsSpend, Resolved, At, Raise, GetRejected, Alive,
     DeleteRejectedPod, DeletePod
<1>44. CASE SpendObserved
  BY <1>44 DEF SpendObserved, At, CloseoutReady, ScopeAgrees, CurrentSpendScope, NeedsSpend,
     Resolved, Return
<1>45. CASE Close
  BY <1>45 DEF Close, Alive, At, CloseoutReady, ScopeAgrees, CurrentSpendScope, NeedsSpend,
     Resolved, Return, SpendIsZero
<1>46. CASE Tick
  BY <1>46 DEF Tick, TimeMatters, MayTick, Alive
<1>47. CASE Provider
  BY <1>47 DEF Provider, ProviderStep, Birth, BecomeListed, BecomeRunning,
     BecomeBad, Vanish, Alive
<1>48. CASE UNCHANGED vars
  BY <1>48
<1> QED
  BY <1>1, <1>2, <1>3, <1>4, <1>5, <1>6, <1>7, <1>8, <1>9, <1>10, <1>11, <1>12,
     <1>13, <1>14, <1>15, <1>16, <1>17, <1>18, <1>19, <1>20, <1>21, <1>22, <1>23,
     <1>24, <1>25, <1>26, <1>27, <1>28, <1>29, <1>30, <1>31, <1>32, <1>33, <1>34,
     <1>35, <1>36, <1>37, <1>38, <1>39, <1>40, <1>41, <1>42, <1>43, <1>44, <1>45,
     <1>46, <1>47, <1>48
     DEF Next, Supervisor, Drive, ReconcileProvision, Create, ReconcileStart,
         ResolveProvision, ReconcileDelete, Failure

(* The initial state has the types. *)
LEMMA TypeInit == Init => TypeOK
<1> SUFFICES ASSUME Init PROVE TypeOK
  OBVIOUS
<1>1. ProviderTypeOK
  BY DEF Init, ProviderInit, ProviderTypeOK, PodState
<1>2. /\ resolution \in [first : Nat \cup {NoTime}, confirmed : Nat \cup {NoTime}]
      /\ scope \in [kind : ScopeKind, id : Pods \cup {NoPod}]
      /\ observation \in Observations \cup {NoObservation}
  BY DEF Init, NoResolution, NoScope, ScopeKind
<1> QED
  BY <1>1, <1>2 DEF Init, TypeOK, NoTime, Uncertain, LifecycleState, WorkloadResult,
     Disposition

(* The projection, the supervisor and the provider keep their types in every  *)
(* behaviour: no status, scope or recorded pod outside what the code writes.  *)
THEOREM TypeCorrect == Spec => []TypeOK
<1>1. Init => TypeOK
  BY TypeInit
<1>2. TypeOK /\ [Next]_vars => TypeOK'
  BY TypeStep
<1> QED
  BY <1>1, <1>2, PTL DEF Spec

-----------------------------------------------------------------------------
(* The spend scope and the completeness of the resolution are functions of    *)
(* five variables.                                                          *)
LEMMA ScopeFrame ==
    UNCHANGED <<resource, provision, attempts, absence_confirmed, resolution>>
      => /\ CurrentSpendScope' = CurrentSpendScope
         /\ ResolutionComplete' = ResolutionComplete
BY DEF CurrentSpendScope, ResolutionComplete, DeadlineRequired

(* The operator and the supervisor loop: they move the lifecycle and record  *)
(* the result and the disposition.  The interesting cases are the recordings  *)
(* after a stop that came while the executor ran.                            *)
LEMMA DriveInd ==
    ASSUME Inductive, TypeOK', Plan \/ OperatorStop \/ Wake \/ Drive \/ Execution \/ Crash
    PROVE  Inductive'
<1> USE ScopeFrame DEF Inductive, SupervisorInv, ResultInv, CreateInv, ResourceInv,
        TimeInv, AbsenceInv, CloseoutInv, NeverCreated, Known, DeadlineRequired,
        ResolvedForGood, DeleteTargets, TypeOK, ProviderTypeOK, Alive, runVars,
        resourceVars, provisionVars, absenceVars, deleteVars, spendVars,
        closeoutVars, durableVars, providerVars, PodState, NoTime, NoResolution,
        NoScope, NoObservation, Uncertain, LifecycleState, WorkloadResult,
        Disposition, ScopeKind
<1>1. CASE Plan
  BY <1>1 DEF Plan
<1>2. CASE OperatorStop
  BY <1>2 DEF OperatorStop, FlockFree, RequestStop
<1>3. CASE Wake
  BY <1>3 DEF Wake
<1>4. CASE Restart
  BY <1>4 DEF Restart
<1>5. CASE ReadStatus
  BY <1>5 DEF ReadStatus, Branch, MustNotDispatch
<1>6. CASE Execution
  BY <1>6 DEF Execution, Execute, ExecuteRaises, Executing, Raise, Observations
<1>7. CASE RecordResult
  BY <1>7 DEF RecordResult, Observations, Return, Raise
<1>8. CASE RecordDisposition
  BY <1>8 DEF RecordDisposition, Observations, Return, Raise
<1>9. CASE FailClosed
  BY <1>9 DEF FailClosed, RequestStop, Return
<1>10. CASE Crash
  BY <1>10 DEF Crash
<1> QED
  BY <1>1, <1>2, <1>3, <1>4, <1>5, <1>6, <1>7, <1>8, <1>9, <1>10 DEF Drive

(* Provisioning up to the durable dispatch of the create. *)
LEMMA ProvisionInd ==
    ASSUME Inductive, TypeOK', IntendProvision \/ ReconcileProvision
    PROVE  Inductive'
<1> USE ScopeFrame DEF Inductive, SupervisorInv, ResultInv, CreateInv, ResourceInv,
        TimeInv, AbsenceInv, CloseoutInv, NeverCreated, Known, DeadlineRequired,
        ResolvedForGood, DeleteTargets, TypeOK, ProviderTypeOK, Alive, runVars,
        resourceVars, provisionVars, absenceVars, deleteVars, spendVars,
        closeoutVars, durableVars, providerVars, PodState, NoTime, NoResolution,
        NoScope, NoObservation, Uncertain, LifecycleState, WorkloadResult,
        Disposition, ScopeKind
<1>1. CASE IntendProvision
  BY <1>1 DEF IntendProvision, At, Return
<1>2. CASE ProvisionRejected
  BY <1>2 DEF ProvisionRejected, At, Return, FindRejected, FindResources,
     RecordRejection, Quarantine, Abandon, DeleteRejectedMatch, DeleteRejectedPod,
     DeletePod
<1>3. CASE ProvisionConflict
  BY <1>3 DEF ProvisionConflict, At, Return, FindRejected, FindResources, Several,
     Quarantine, Abandon
<1>4. CASE ProvisionAdopt
  BY <1>4 DEF ProvisionAdopt, At, CommitPod, Return, Fault, FindRejected, FindResources,
     RecordProvisioned
<1>5. CASE ProvisionPending
  BY <1>5 DEF ProvisionPending, At, Return
<1>6. CASE ProvisionUnresolved
  BY <1>6 DEF ProvisionUnresolved, At, Return, Abandon
<1>7. CASE ProvisionDispatch
  BY <1>7 DEF ProvisionDispatch, At
<1> QED
  BY <1>1, <1>2, <1>3, <1>4, <1>5, <1>6, <1>7 DEF ReconcileProvision

(* The create call: nothing is owed before the POST, and no second POST can   *)
(* follow because the status has left "intended" for good.                   *)
LEMMA CreateInd ==
    ASSUME Inductive, TypeOK', Create
    PROVE  Inductive'
<1> USE ScopeFrame DEF Inductive, SupervisorInv, ResultInv, CreateInv, ResourceInv,
        TimeInv, AbsenceInv, CloseoutInv, NeverCreated, Known, DeadlineRequired,
        ResolvedForGood, DeleteTargets, TypeOK, ProviderTypeOK, Alive, runVars,
        resourceVars, provisionVars, absenceVars, deleteVars, spendVars,
        closeoutVars, durableVars, providerVars, PodState, NoTime, NoResolution,
        NoScope, NoObservation, Uncertain, LifecycleState, WorkloadResult,
        Disposition, ScopeKind
<1>1. CASE CreatePost
  BY <1>1 DEF CreatePost, PostCreate
<1>2. CASE CreateSucceeds
  BY <1>2 DEF CreateSucceeds, RecordProvisioned, CommitPod, Return, Fault
<1>3. CASE CreateRejected
  BY <1>3 DEF CreateRejected, Return, RecordRejection, Quarantine, Abandon,
     DeleteRejectedPod, DeletePod
<1>4. CASE CreateRefused
  BY <1>4 DEF CreateRefused, Return, Raise, RecordRejection, Abandon
<1>5. CASE CreateOutcomeUnknown
  BY <1>5 DEF CreateOutcomeUnknown, Raise
<1> QED
  BY <1>1, <1>2, <1>3, <1>4, <1>5 DEF Create

(* Starting the pod. *)
LEMMA StartInd ==
    ASSUME Inductive, TypeOK', ReconcileStart \/ StartFails
    PROVE  Inductive'
<1> USE ScopeFrame DEF Inductive, SupervisorInv, ResultInv, CreateInv, ResourceInv,
        TimeInv, AbsenceInv, CloseoutInv, NeverCreated, Known, DeadlineRequired,
        ResolvedForGood, DeleteTargets, TypeOK, ProviderTypeOK, Alive, runVars,
        resourceVars, provisionVars, absenceVars, deleteVars, spendVars,
        closeoutVars, durableVars, providerVars, PodState, NoTime, NoResolution,
        NoScope, NoObservation, Uncertain, LifecycleState, WorkloadResult,
        Disposition, ScopeKind
<1>1. CASE StartMissing
  BY <1>1 DEF StartMissing, At, Return, Abandon
<1>2. CASE StartRejected
  BY <1>2 DEF StartRejected, At, Return, GetRejected, RecordRejection, Quarantine,
     Abandon, DeleteRejectedPod, DeletePod
<1>3. CASE StartAnswerRejected
  BY <1>3 DEF StartAnswerRejected, At, Return, GetFinds, RecordRejection,
     Quarantine, Abandon, DeletePod
<1>4. CASE StartObserved
  BY <1>4 DEF StartObserved, At, CommitPod, Return, Fault, GetFinds
<1>5. CASE StartCall
  BY <1>5 DEF StartCall, At, CommitPod, Return, Fault, GetFinds, StartPod
<1>6. CASE StartFails
  BY <1>6 DEF StartFails, At, Fault, GetFinds, StartPod
<1> QED
  BY <1>1, <1>2, <1>3, <1>4, <1>5, <1>6 DEF ReconcileStart

(* Resolving a create whose pod is not known: the adopted pods exist, and a   *)
(* confirmed absence of an uncertain create carries its deadline proof.      *)
LEMMA ResolveInd ==
    ASSUME Inductive, TypeOK', ResolveProvision
    PROVE  Inductive'
<1> USE ScopeFrame DEF Inductive, SupervisorInv, ResultInv, CreateInv, ResourceInv,
        TimeInv, AbsenceInv, CloseoutInv, NeverCreated, Known, DeadlineRequired,
        ResolvedForGood, DeleteTargets, TypeOK, ProviderTypeOK, Alive, runVars,
        resourceVars, provisionVars, absenceVars, deleteVars, spendVars,
        closeoutVars, durableVars, providerVars, PodState, NoTime, NoResolution,
        NoScope, NoObservation, Uncertain, LifecycleState, WorkloadResult,
        Disposition, ScopeKind
<1>1. CASE ResolveRejected
  BY <1>1 DEF ResolveRejected, NeedsResolution, At, Return, FindRejected,
     FindResources, Quarantine, DeleteRejectedMatch, DeleteRejectedPod, DeletePod
<1>2. CASE ResolveDuplicates
  BY <1>2 DEF ResolveDuplicates, NeedsResolution, At, Return, FindRejected,
     FindResources, Several, Quarantine
<1>3. CASE ResolveAdopt
  BY <1>3 DEF ResolveAdopt, NeedsResolution, At, Return, FindRejected, FindResources
<1>4. CASE ResolveNotDispatched
  BY <1>4 DEF ResolveNotDispatched, NothingFound, NeedsResolution, At, Return
<1>5. CASE ResolveTooEarly
  BY <1>5 DEF ResolveTooEarly, NothingFound, NeedsResolution, At, Return
<1>6. CASE ResolveWindowStarts
  BY <1>6 DEF ResolveWindowStarts, MayJudgeAbsence, WindowOpen, NothingFound,
     NeedsResolution, At, Return
<1>7. CASE ResolveWindowPending
  BY <1>7 DEF ResolveWindowPending, MayJudgeAbsence, WindowOpen, NothingFound,
     NeedsResolution, At, Return
<1>8. CASE ResolveConfirmed
  BY <1>8 DEF ResolveConfirmed, MayJudgeAbsence, WindowOpen, NothingFound,
     NeedsResolution, At, Return
<1> QED
  BY <1>1, <1>2, <1>3, <1>4, <1>5, <1>6, <1>7, <1>8 DEF ResolveProvision

(* Deleting and closing: each closeout proof rests on the one before. *)
LEMMA DeleteInd ==
    ASSUME Inductive, TypeOK', ReconcileDelete \/ DeleteFails
    PROVE  Inductive'
<1> USE ScopeFrame DEF Inductive, SupervisorInv, ResultInv, CreateInv, ResourceInv,
        TimeInv, AbsenceInv, CloseoutInv, NeverCreated, Known, DeadlineRequired,
        ResolvedForGood, DeleteTargets, TypeOK, ProviderTypeOK, Alive, runVars,
        resourceVars, provisionVars, absenceVars, deleteVars, spendVars,
        closeoutVars, durableVars, providerVars, PodState, NoTime, NoResolution,
        NoScope, NoObservation, Uncertain, LifecycleState, WorkloadResult,
        Disposition, ScopeKind
<1>1. CASE DeleteNotRequired
  BY <1>1 DEF DeleteNotRequired, Resolved, At, Return, DeletePending
<1>2. CASE DeleteCall
  BY <1>2 DEF DeleteCall, Resolved, At, Return, NextToDelete, DeletePending,
     DeletePod
<1>3. CASE DeleteFails
  BY <1>3 DEF DeleteFails, Resolved, At, Fault, NextToDelete, DeletePending,
     DeletePod
<1>4. CASE AbsenceConfirmed
  BY <1>4 DEF AbsenceConfirmed, NeedsAbsence, Resolved, At, Return, ProviderAbsent,
     FindResources
<1>5. CASE AbsenceRejected
  BY <1>5 DEF AbsenceRejected, NeedsAbsence, Resolved, At, Raise, FindRejected,
     FindResources, GetRejected, DeleteRejectedMatch, DeleteRejectedPod, DeletePod
<1>6. CASE AbsencePending
  BY <1>6 DEF AbsencePending, NeedsAbsence, Resolved, At, Return
<1>7. CASE SpendRejected
  BY <1>7 DEF SpendRejected, NeedsSpend, Resolved, At, Raise, GetRejected,
     DeleteRejectedPod, DeletePod
<1>8. CASE SpendObserved
  BY <1>8 DEF SpendObserved, NeedsSpend, Resolved, At, Return, CloseoutReady, ScopeAgrees
<1>9. CASE Close
  BY <1>9 DEF Close, NeedsSpend, Resolved, At, Return, CloseoutReady, ScopeAgrees, SpendIsZero,
     CurrentSpendScope
<1> QED
  BY <1>1, <1>2, <1>3, <1>4, <1>5, <1>6, <1>7, <1>8, <1>9 DEF ReconcileDelete

(* Time and the provider: no pod outlives the enforcement of terminateAfter,   *)
(* and no pod the closeout relies on comes back.                             *)
LEMMA EnvironmentInd ==
    ASSUME Inductive, TypeOK', Tick \/ Provider
    PROVE  Inductive'
<1> USE ScopeFrame DEF Inductive, SupervisorInv, ResultInv, CreateInv, ResourceInv,
        TimeInv, AbsenceInv, CloseoutInv, NeverCreated, Known, DeadlineRequired,
        ResolvedForGood, DeleteTargets, TypeOK, ProviderTypeOK, Alive, runVars,
        resourceVars, provisionVars, absenceVars, deleteVars, spendVars,
        closeoutVars, durableVars, providerVars, PodState, NoTime, NoResolution,
        NoScope, NoObservation, Uncertain, LifecycleState, WorkloadResult,
        Disposition, ScopeKind
<1>1. CASE Tick
  BY <1>1 DEF Tick, TimeMatters, MayTick
<1>2. CASE Provider
  BY <1>2 DEF Provider, ProviderStep, Birth, BecomeListed, BecomeRunning, BecomeBad,
     Vanish
<1> QED
  BY <1>1, <1>2

(* Stuttering keeps the invariant. *)
LEMMA StutterInd ==
    ASSUME Inductive, TypeOK', UNCHANGED vars
    PROVE  Inductive'
BY ScopeFrame
   DEF Inductive, SupervisorInv, ResultInv, CreateInv, ResourceInv, TimeInv,
       AbsenceInv, CloseoutInv, NeverCreated, Known, DeadlineRequired,
       ResolvedForGood, DeleteTargets, Alive, vars, durableVars, runVars,
       resourceVars, provisionVars, absenceVars, deleteVars, spendVars,
       closeoutVars, providerVars

(* The invariant holds before the run is planned. *)
LEMMA InductiveInit == Init => Inductive
<1> SUFFICES ASSUME Init PROVE Inductive
  OBVIOUS
<1>1. TypeOK
  BY TypeInit
<1>2. SupervisorInv /\ ResultInv /\ CreateInv /\ ResourceInv
  BY DEF Init, ProviderInit, SupervisorInv, ResultInv, CreateInv, ResourceInv,
         NeverCreated, Known
<1>3. TimeInv /\ AbsenceInv /\ CloseoutInv
  BY DEF Init, ProviderInit, TimeInv, AbsenceInv, CloseoutInv, Alive, NoTime,
         DeleteTargets, Known
<1> QED
  BY <1>1, <1>2, <1>3 DEF Inductive

(* Every step of the model keeps the invariant. *)
LEMMA InductiveStep == Inductive /\ [Next]_vars => Inductive'
<1> SUFFICES ASSUME Inductive, [Next]_vars PROVE Inductive'
  OBVIOUS
<1>1. TypeOK'
  BY TypeStep DEF Inductive
<1>2. CASE Plan \/ OperatorStop \/ Wake \/ Drive \/ Execution \/ Crash
  BY <1>1, <1>2, DriveInd
<1>3. CASE IntendProvision \/ ReconcileProvision
  BY <1>1, <1>3, ProvisionInd
<1>4. CASE Create
  BY <1>1, <1>4, CreateInd
<1>5. CASE ReconcileStart \/ StartFails
  BY <1>1, <1>5, StartInd
<1>6. CASE ResolveProvision
  BY <1>1, <1>6, ResolveInd
<1>7. CASE ReconcileDelete \/ DeleteFails
  BY <1>1, <1>7, DeleteInd
<1>8. CASE Tick \/ Provider
  BY <1>1, <1>8, EnvironmentInd
<1>9. CASE UNCHANGED vars
  BY <1>1, <1>9, StutterInd
<1> QED
  BY <1>2, <1>3, <1>4, <1>5, <1>6, <1>7, <1>8, <1>9 DEF Next, Supervisor, Failure

(* The evidence the projection holds is at all times true of the provider and  *)
(* of the supervisor's position: the strengthening all the safety properties   *)
(* are read off.                                                            *)
THEOREM InductiveInvariant == Spec => []Inductive
<1>1. Init => Inductive
  BY InductiveInit
<1>2. Inductive /\ [Next]_vars => Inductive'
  BY InductiveStep
<1> QED
  BY <1>1, <1>2, PTL DEF Spec

-----------------------------------------------------------------------------
(* Over any number of crashes, restarts, lost answers and stops, at most one   *)
(* create is dispatched, and nothing exists at the provider before it.        *)
THEOREM SingleCreateSafe == Spec => []SingleCreate
<1>1. Inductive => SingleCreate
  BY DEF Inductive, CreateInv, SingleCreate, NeverCreated, TypeOK
<1> QED
  BY <1>1, InductiveInvariant, PTL

(* What the invariant says of a closed run: the recorded pods are gone, and a    *)
(* create that left no record was never sent or its deadline has passed.         *)
LEMMA ClosedState == Inductive => ClosedMeansNoCompute
<1> SUFFICES ASSUME Inductive, lifecycle = "closed"
             PROVE  /\ \A p \in Pods : Alive(p) => Copies > 1 /\ Known # {} /\ p \notin Known
                    /\ Known = {} => owed = 0 \/ now >= Deadline
  BY DEF ClosedMeansNoCompute
<1> USE DEF Inductive, TypeOK, ProviderTypeOK
<1>1. provider_not_found /\ delete_acknowledged /\ ResolvedForGood
  BY DEF CloseoutInv
<1>2. CASE resource # NoPod
  <2>1. \A p \in Known : ~Alive(p)
    BY <1>1, <1>2 DEF CloseoutInv, ResourceInv, Known
  <2>2. \A p \in Pods : Alive(p) => Copies > 1
    BY <1>2, <2>1 DEF CreateInv, ResourceInv, Known, Alive
  <2> QED
    BY <1>2, <2>1, <2>2 DEF Known
<1>3. CASE resource = NoPod
  <2>1. NeverCreated \/ (DeadlineRequired /\ absence_confirmed)
    BY <1>1, <1>3 DEF ResolvedForGood, CreateInv, ResourceInv, DeadlineRequired, Uncertain
  <2>2. CASE NeverCreated
    BY <2>2 DEF NeverCreated, Alive
  <2>3. CASE DeadlineRequired /\ absence_confirmed
    <3>1. now >= Deadline + AbsenceGrace
      BY <2>3 DEF AbsenceInv, NoResolution, NoTime
    <3> QED
      BY <3>1, EnforcementAssumption DEF TimeInv
  <2> QED
    BY <2>1, <2>2, <2>3
<1> QED
  BY <1>2, <1>3

(* A closed run has no live pod, if RunPod enforces terminateAfter within the   *)
(* absence window and makes one pod per create; otherwise at most pods the     *)
(* controller never recorded.                                               *)
THEOREM ClosedMeansNoComputeSafe == Spec => []ClosedMeansNoCompute
BY ClosedState, InductiveInvariant, PTL

(* The closeout step is never refused: no run is trapped in a restart loop by  *)
(* its own evidence.                                                        *)
THEOREM CloseoutNotRefusedSafe == Spec => []CloseoutNotRefused
<1>1. Inductive => CloseoutNotRefused
  BY DEF Inductive, CloseoutInv, AbsenceInv, CreateInv, CloseoutNotRefused, NeedsSpend,
         Resolved, CloseoutReady, ScopeAgrees, ResolutionComplete, DeadlineRequired, Uncertain
<1> QED
  BY <1>1, InductiveInvariant, PTL

(* _current_spend_scope falls back to the account only for a network-volume run     *)
(* whose create was refused: the absence of every other create was confirmed       *)
(* after its deadline by then, and that proof earns a scope of its own.           *)
THEOREM AccountScopeIsExceptionalSafe == Spec => []AccountScopeIsExceptional
<1>1. Inductive => AccountScopeIsExceptional
  <2> SUFFICES ASSUME Inductive, NetworkVolume, scope.kind = "account"
               PROVE  provision \in {"failed", "rejected"} /\ \A p \in Pods : pod[p] = "unborn"
    BY DEF AccountScopeIsExceptional
  <2>1. scope = CurrentSpendScope /\ ResolvedForGood
    BY DEF Inductive, CloseoutInv, NoScope
  <2>2. /\ resource = NoPod /\ provision # "absent" /\ attempts # 0
        /\ ~(provision \in Uncertain /\ ResolutionComplete)
    BY <2>1 DEF CurrentSpendScope
  <2>3. provision \notin Uncertain
    BY <2>1, <2>2 DEF Inductive, CreateInv, AbsenceInv, ResolvedForGood, ResolutionComplete,
                      DeadlineRequired
  <2>4. provision \in {"failed", "rejected"}
    BY <2>2, <2>3 DEF Inductive, TypeOK, CreateInv, ResourceInv, Uncertain
  <2> QED
    BY <2>2, <2>4 DEF Inductive, CreateInv, NeverCreated
<1> QED
  BY <1>1, InductiveInvariant, PTL

(* The executor only ever works on one recorded pod that is not quarantined.   *)
THEOREM ExecuteOnlyAdmittedSafe == Spec => []ExecuteOnlyAdmitted
<1>1. Inductive => ExecuteOnlyAdmitted
  BY DEF Inductive, SupervisorInv, ExecuteOnlyAdmitted
<1> QED
  BY <1>1, InductiveInvariant, PTL

(* Whoever takes a step, recorded evidence is kept and the lifecycle does not   *)
(* turn back.  The delicate cases are the recordings after a stop, which the   *)
(* invariant shows to meet a result or a disposition already there.           *)
LEMMA EvidenceStep == Inductive /\ [Next]_vars => [KeepsEvidence /\ OnlyOnward]_vars
<1>1. SUFFICES ASSUME Inductive, [Next]_vars PROVE KeepsEvidence /\ OnlyOnward
    OBVIOUS
<1>2. KeepsEvidence /\ OnlyOnward
  <2> USE <1>1 DEF KeepsEvidence, OnlyOnward, vars, durableVars, runVars, resourceVars,
          provisionVars, closeoutVars, absenceVars, deleteVars, spendVars,
          providerVars, Known, Inductive, SupervisorInv, ResultInv, ResourceInv
  <2>1. CASE Plan
    BY <2>1 DEF Plan
  <2>2. CASE OperatorStop
    BY <2>2 DEF OperatorStop, FlockFree, RequestStop
  <2>3. CASE Wake
    BY <2>3 DEF Wake
  <2>4. CASE Restart
    BY <2>4 DEF Restart
  <2>5. CASE ReadStatus
    BY <2>5 DEF ReadStatus, Branch, MustNotDispatch
  <2>6. CASE Execution
    BY <2>6 DEF Execution, Execute, ExecuteRaises, Executing, Raise, Observations
  <2>7. CASE RecordResult
    BY <2>7 DEF RecordResult, Observations, Return, Raise
  <2>8. CASE RecordDisposition
    BY <2>8 DEF RecordDisposition, Observations, Return, Raise
  <2>9. CASE FailClosed
    BY <2>9 DEF FailClosed, RequestStop, Return
  <2>10. CASE Crash
    BY <2>10 DEF Crash
  <2>11. CASE IntendProvision
    BY <2>11 DEF IntendProvision, At, Return
  <2>12. CASE ProvisionRejected
    BY <2>12 DEF ProvisionRejected, At, Return, FindRejected, FindResources, Alive,
       RecordRejection, Quarantine, Abandon, DeleteRejectedMatch, DeleteRejectedPod,
       DeletePod
  <2>13. CASE ProvisionConflict
    BY <2>13 DEF ProvisionConflict, At, Return, FindRejected, FindResources, Alive,
       Several, Quarantine, Abandon
  <2>14. CASE ProvisionAdopt
    BY <2>14 DEF ProvisionAdopt, At, CommitPod, Return, Fault, FindRejected, FindResources,
       Alive, RecordProvisioned
  <2>15. CASE ProvisionPending
    BY <2>15 DEF ProvisionPending, At, Return
  <2>16. CASE ProvisionUnresolved
    BY <2>16 DEF ProvisionUnresolved, At, Return, Abandon
  <2>17. CASE ProvisionDispatch
    BY <2>17 DEF ProvisionDispatch, At
  <2>18. CASE CreatePost
    BY <2>18 DEF CreatePost, PostCreate
  <2>19. CASE CreateSucceeds
    BY <2>19 DEF CreateSucceeds, RecordProvisioned, CommitPod, Return, Fault
  <2>20. CASE CreateRejected
    BY <2>20 DEF CreateRejected, Return, RecordRejection, Quarantine, Abandon,
       DeleteRejectedPod, DeletePod, Alive
  <2>21. CASE CreateRefused
    BY <2>21 DEF CreateRefused, Return, Raise, RecordRejection, Abandon
  <2>22. CASE CreateOutcomeUnknown
    BY <2>22 DEF CreateOutcomeUnknown, Raise
  <2>23. CASE StartMissing
    BY <2>23 DEF StartMissing, At, Return, Abandon, Alive
  <2>24. CASE StartRejected
    BY <2>24 DEF StartRejected, At, Return, GetRejected, Alive, RecordRejection,
       Quarantine, Abandon, DeleteRejectedPod, DeletePod
  <2>25. CASE StartAnswerRejected
    BY <2>25 DEF StartAnswerRejected, At, Return, GetFinds, Alive, RecordRejection,
       Quarantine, Abandon, DeletePod
  <2>26. CASE StartObserved
    BY <2>26 DEF StartObserved, At, CommitPod, Return, Fault, GetFinds, Alive
  <2>27. CASE StartCall
    BY <2>27 DEF StartCall, At, CommitPod, Return, Fault, GetFinds, Alive, StartPod
  <2>28. CASE StartFails
    BY <2>28 DEF StartFails, At, Fault, GetFinds, Alive, StartPod
  <2>29. CASE ResolveRejected
    BY <2>29 DEF ResolveRejected, NeedsResolution, At, Return, FindRejected,
       FindResources, Alive, Quarantine, DeleteRejectedMatch, DeleteRejectedPod,
       DeletePod
  <2>30. CASE ResolveDuplicates
    BY <2>30 DEF ResolveDuplicates, NeedsResolution, At, Return, FindRejected,
       FindResources, Alive, Several, Quarantine
  <2>31. CASE ResolveAdopt
    BY <2>31 DEF ResolveAdopt, NeedsResolution, At, Return, FindRejected,
       FindResources, Alive
  <2>32. CASE ResolveNotDispatched
    BY <2>32 DEF ResolveNotDispatched, NothingFound, NeedsResolution, At, Return
  <2>33. CASE ResolveTooEarly
    BY <2>33 DEF ResolveTooEarly, NothingFound, NeedsResolution, At, Return,
       DeadlineRequired
  <2>34. CASE ResolveWindowStarts
    BY <2>34 DEF ResolveWindowStarts, MayJudgeAbsence, WindowOpen, NothingFound,
       NeedsResolution, At, Return, DeadlineRequired
  <2>35. CASE ResolveWindowPending
    BY <2>35 DEF ResolveWindowPending, MayJudgeAbsence, WindowOpen, NothingFound,
       NeedsResolution, At, Return, DeadlineRequired
  <2>36. CASE ResolveConfirmed
    BY <2>36 DEF ResolveConfirmed, MayJudgeAbsence, WindowOpen, NothingFound,
       NeedsResolution, At, Return, DeadlineRequired
  <2>37. CASE DeleteNotRequired
    BY <2>37 DEF DeleteNotRequired, Resolved, At, Return, DeletePending,
       DeleteTargets, Known
  <2>38. CASE DeleteCall
    BY <2>38 DEF DeleteCall, Resolved, At, Return, NextToDelete, DeletePending,
       DeleteTargets, Known, DeletePod, Alive
  <2>39. CASE DeleteFails
    BY <2>39 DEF DeleteFails, Resolved, At, Fault, NextToDelete, DeletePending,
       DeleteTargets, Known, DeletePod, Alive
  <2>40. CASE AbsenceConfirmed
    BY <2>40 DEF AbsenceConfirmed, NeedsAbsence, Resolved, At, Return,
       ProviderAbsent, FindResources, Alive
  <2>41. CASE AbsenceRejected
    BY <2>41 DEF AbsenceRejected, NeedsAbsence, Resolved, At, Raise, FindRejected,
       FindResources, Alive, GetRejected, DeleteRejectedMatch, DeleteRejectedPod,
       DeletePod
  <2>42. CASE AbsencePending
    BY <2>42 DEF AbsencePending, NeedsAbsence, Resolved, At, Return
  <2>43. CASE SpendRejected
    BY <2>43 DEF SpendRejected, NeedsSpend, Resolved, At, Raise, GetRejected, Alive,
       DeleteRejectedPod, DeletePod
  <2>44. CASE SpendObserved
    BY <2>44 DEF SpendObserved, NeedsSpend, Resolved, At, Return, CloseoutReady, ScopeAgrees
  <2>45. CASE Close
    BY <2>45 DEF Close, NeedsSpend, Resolved, At, Return, CloseoutReady, ScopeAgrees,
       SpendIsZero, CurrentSpendScope, Alive
  <2>46. CASE Tick
    BY <2>46 DEF Tick, TimeMatters, MayTick, Alive
  <2>47. CASE Provider
    BY <2>47 DEF Provider, ProviderStep, Birth, BecomeListed, BecomeRunning,
       BecomeBad, Vanish, Alive
  <2>48. CASE UNCHANGED vars
    BY <2>48
  <2> QED
    BY <2>1, <2>2, <2>3, <2>4, <2>5, <2>6, <2>7, <2>8, <2>9, <2>10, <2>11, <2>12,
       <2>13, <2>14, <2>15, <2>16, <2>17, <2>18, <2>19, <2>20, <2>21, <2>22, <2>23,
       <2>24, <2>25, <2>26, <2>27, <2>28, <2>29, <2>30, <2>31, <2>32, <2>33, <2>34,
       <2>35, <2>36, <2>37, <2>38, <2>39, <2>40, <2>41, <2>42, <2>43, <2>44, <2>45,
       <2>46, <2>47, <2>48
       DEF Next, Supervisor, Drive, ReconcileProvision, Create, ReconcileStart,
           ResolveProvision, ReconcileDelete, Failure
<1> QED
  BY <1>2

(* Evidence once recorded is never withdrawn or replaced. *)
THEOREM EvidenceIsStableSafe == Spec => EvidenceIsStable
<1>1. [KeepsEvidence /\ OnlyOnward]_vars => [KeepsEvidence]_vars
  OBVIOUS
<1> QED
  BY <1>1, EvidenceStep, InductiveInvariant, PTL DEF Spec, EvidenceIsStable

(* No step pulls a run back from deletion or from closed. *)
THEOREM NoWayBackSafe == Spec => NoWayBack
<1>1. [KeepsEvidence /\ OnlyOnward]_vars => [OnlyOnward]_vars
  OBVIOUS
<1> QED
  BY <1>1, EvidenceStep, InductiveInvariant, PTL DEF Spec, NoWayBack

(* No pod is deleted and no run closed before its result and disposition are   *)
(* recorded.                                                                *)
THEOREM DispositionBeforeDeleteSafe == Spec => []DispositionBeforeDelete
<1>1. Inductive => DispositionBeforeDelete
  BY DEF Inductive, ResultInv, CloseoutInv, DispositionBeforeDelete
<1> QED
  BY <1>1, InductiveInvariant, PTL

-----------------------------------------------------------------------------
(* The contract.  Nearly every step of the controller is invisible to the      *)
(* principal; the lemmas say what makes a step so.                            *)

(* A delete or a start changes no pod's existence. *)
LEMMA PodsKept ==
    ASSUME TypeOK, NEW p \in Pods,
           \/ pod' = pod
           \/ pod' = DeletePod(p)
           \/ Alive(p) /\ pod' = [pod EXCEPT ![p] = "running"]
    PROVE  Used' = Used /\ Billed' = Billed
BY DEF TypeOK, ProviderTypeOK, PodState, DeletePod, Alive, Used, Billed

(* A step that sends no create, moves no pod in or out of existence and neither  *)
(* opens nor closes the run is a stuttering step of the contract.             *)
Unseen ==
    /\ attempts' = attempts
    /\ Used' = Used /\ Billed' = Billed
    /\ \/ lifecycle' = lifecycle
       \/ lifecycle \notin {"unplanned", "closed"} /\ lifecycle' \notin {"unplanned", "closed"}

ContractVars == <<Stage, attempts, Used, Billed>>

LEMMA UnseenStutters == ASSUME Unseen PROVE UNCHANGED ContractVars
BY DEF Unseen, ContractVars, Stage

(* The supervisor loop and the operator. *)
LEMMA DriveUnseen ==
    ASSUME Inductive, OperatorStop \/ Wake \/ Drive \/ Execution \/ Crash
    PROVE  Unseen
<1> USE DEF Unseen, durableVars, runVars, resourceVars, provisionVars, closeoutVars, providerVars
<1>1. Used' = Used /\ Billed' = Billed /\ attempts' = attempts
  BY DEF OperatorStop, RequestStop, Wake, Drive, Restart, ReadStatus, Execution, Execute,
     ExecuteRaises, RecordResult, RecordDisposition, FailClosed, Crash, Used, Billed, Alive
<1>2. CASE OperatorStop
  BY <1>1, <1>2 DEF OperatorStop, RequestStop
<1>3. CASE Wake \/ Restart \/ ReadStatus \/ Execution \/ Crash
  BY <1>1, <1>3 DEF Wake, Restart, ReadStatus, Execution, Execute, ExecuteRaises, Crash
<1>4. CASE RecordResult
  BY <1>1, <1>4 DEF RecordResult, Inductive, SupervisorInv
<1>5. CASE RecordDisposition
  BY <1>1, <1>5 DEF RecordDisposition, Inductive, SupervisorInv
<1>6. CASE FailClosed
  BY <1>1, <1>6 DEF FailClosed, RequestStop
<1> QED
  BY <1>2, <1>3, <1>4, <1>5, <1>6 DEF Drive

(* Provisioning and the create call, but for the durable dispatch. *)
LEMMA ProvisionUnseen ==
    ASSUME Inductive, IntendProvision \/ ReconcileProvision \/ Create, ~ProvisionDispatch
    PROVE  Unseen
<1> USE DEF Unseen, durableVars, runVars, resourceVars, provisionVars, closeoutVars,
            providerVars, At
<1>1. CASE IntendProvision \/ ProvisionConflict \/ ProvisionAdopt \/ ProvisionPending
           \/ ProvisionUnresolved
  BY <1>1 DEF IntendProvision, ProvisionConflict, ProvisionAdopt, ProvisionPending,
     ProvisionUnresolved, RecordProvisioned, Abandon, Used, Billed, Alive
<1>2. CASE ProvisionRejected
  <2>1. PICK p \in FindResources \cap bad : DeleteRejectedPod(p)
    BY <1>2 DEF ProvisionRejected, DeleteRejectedMatch
  <2>2. Used' = Used /\ Billed' = Billed
    BY <2>1, PodsKept DEF DeleteRejectedPod, FindResources, Inductive
  <2> QED
    BY <1>2, <2>2 DEF ProvisionRejected, RecordRejection, Abandon
<1>3. CASE CreatePost \/ CreateSucceeds \/ CreateRefused \/ CreateOutcomeUnknown
  BY <1>3 DEF CreatePost, PostCreate, CreateSucceeds, RecordProvisioned, CreateRefused,
     RecordRejection, Abandon, CreateOutcomeUnknown, Used, Billed, Alive,
     Inductive, SupervisorInv
<1>4. CASE CreateRejected
  <2>1. PICK p \in bad : RecordRejection({p}) /\ DeleteRejectedPod(p)
    BY <1>4 DEF CreateRejected
  <2>2. Used' = Used /\ Billed' = Billed
    BY <2>1, PodsKept DEF DeleteRejectedPod, Inductive, TypeOK, ProviderTypeOK
  <2> QED
    BY <1>4, <2>1, <2>2 DEF CreateRejected, RecordRejection, Abandon, Inductive, SupervisorInv
<1> QED
  BY <1>1, <1>2, <1>3, <1>4 DEF ReconcileProvision, Create

(* Starting the pod. *)
LEMMA StartUnseen ==
    ASSUME Inductive, ReconcileStart \/ StartFails
    PROVE  Unseen
<1> USE DEF Unseen, durableVars, runVars, resourceVars, provisionVars, closeoutVars,
            providerVars, At
<1>1. TypeOK /\ lifecycle = "starting"
  BY DEF Inductive, ReconcileStart, StartMissing, StartRejected, StartAnswerRejected,
     StartObserved, StartCall, StartFails
<1>2. resource \in Pods
  BY <1>1 DEF Inductive, ResourceInv, TypeOK
<1>3. Used' = Used /\ Billed' = Billed
  <2>1. \/ pod' = pod
        \/ pod' = DeletePod(resource)
        \/ Alive(resource) /\ pod' = [pod EXCEPT ![resource] = "running"]
    BY DEF ReconcileStart, StartMissing, StartRejected, StartAnswerRejected, StartObserved,
       StartCall, StartFails, StartPod, DeleteRejectedPod, GetFinds
  <2> QED
    BY <1>1, <1>2, <2>1, PodsKept
<1> QED
  BY <1>1, <1>3 DEF ReconcileStart, StartMissing, StartRejected, StartAnswerRejected,
     StartObserved, StartCall, StartFails, RecordRejection, Abandon

(* Resolving the create: the pods it finds are recorded, none is made. *)
LEMMA ResolveUnseen ==
    ASSUME Inductive, ResolveProvision
    PROVE  Unseen
<1> USE DEF Unseen, durableVars, runVars, resourceVars, provisionVars, closeoutVars,
            providerVars
<1>1. CASE ResolveRejected
  <2>1. PICK p \in FindResources \cap bad : DeleteRejectedPod(p)
    BY <1>1 DEF ResolveRejected, DeleteRejectedMatch
  <2>2. Used' = Used /\ Billed' = Billed
    BY <2>1, PodsKept DEF DeleteRejectedPod, FindResources, Inductive
  <2> QED
    BY <1>1, <2>2 DEF ResolveRejected
<1>2. CASE ~ResolveRejected
  BY <1>2 DEF ResolveProvision, ResolveDuplicates, ResolveAdopt, ResolveNotDispatched,
     ResolveTooEarly, ResolveWindowStarts, ResolveWindowPending, ResolveConfirmed, Used,
     Billed, Alive
<1> QED
  BY <1>1, <1>2

(* Deleting, up to the close: a deleted pod is billed until RunPod removes it. *)
LEMMA DeleteUnseen ==
    ASSUME Inductive, ReconcileDelete \/ DeleteFails, ~Close
    PROVE  Unseen
<1> USE DEF Unseen, durableVars, runVars, resourceVars, provisionVars, closeoutVars,
            providerVars
<1>1. TypeOK
  BY DEF Inductive
<1>2. CASE DeleteCall \/ DeleteFails
  <2>1. PICK p \in NextToDelete : pod' \in {pod, DeletePod(p)}
    BY <1>2 DEF DeleteCall, DeleteFails
  <2>2. p \in Pods
    BY <1>1, <2>1 DEF NextToDelete, DeletePending, DeleteTargets, Known, TypeOK
  <2>3. Used' = Used /\ Billed' = Billed
    BY <1>1, <2>1, <2>2, PodsKept
  <2> QED
    BY <1>2, <2>3 DEF DeleteCall, DeleteFails
<1>3. CASE AbsenceRejected \/ SpendRejected
  <2>1. PICK p \in Pods : DeleteRejectedPod(p)
    BY <1>3 DEF AbsenceRejected, SpendRejected, DeleteRejectedMatch, FindResources,
       GetRejected, Alive
  <2>2. Used' = Used /\ Billed' = Billed
    BY <1>1, <2>1, PodsKept DEF DeleteRejectedPod
  <2> QED
    BY <1>3, <2>2 DEF AbsenceRejected, SpendRejected
<1>4. CASE DeleteNotRequired \/ AbsenceConfirmed \/ AbsencePending \/ SpendObserved
  BY <1>4 DEF DeleteNotRequired, AbsenceConfirmed, AbsencePending, SpendObserved, Used,
     Billed, Alive
<1> QED
  BY <1>2, <1>3, <1>4 DEF ReconcileDelete

(* RunPod's own steps.  A pod is only supplied to the one create; from an exact  *)
(* provider it is the first, and it does not come after the close: a closed run  *)
(* has a recorded pod, or was never created, or is past its deadline.            *)
LEMMA ProviderContract ==
    ASSUME Inductive, Provider
    PROVE  [Contract!Next]_ContractVars
<1>1. TypeOK /\ ProviderTypeOK
  BY DEF Inductive, TypeOK
<1>2. UNCHANGED <<attempts, lifecycle, Stage>>
  BY DEF Provider, durableVars, runVars, provisionVars, Stage
<1>3. CASE \E p \in Pods : Birth(p)
  <2>1. PICK p \in Pods : Birth(p)
    BY <1>3
  <2>2. attempts = 1
    BY <2>1 DEF Birth, Inductive, CreateInv, NeverCreated
  <2>3. p \notin Used /\ Used' = Used \cup {p} /\ Billed' = Billed \cup {p}
    BY <1>1, <2>1 DEF Birth, Used, Billed, Alive, ProviderTypeOK, PodState
  <2>4. ASSUME Copies = 1 PROVE Stage = "open" /\ Used = {}
    <3>1. Used = {}
      BY <2>1, <2>4 DEF Birth, Inductive, CreateInv, Used
    <3>2. lifecycle # "unplanned"
      BY <2>2 DEF Inductive, CreateInv
    <3>3. lifecycle # "closed"
      <4>1. Known = {}
        BY <1>1, <3>1 DEF Inductive, ResourceInv, Used, Known, TypeOK
      <4> QED
        BY <1>1, <2>1, <4>1, ClosedState DEF ClosedMeansNoCompute, Birth, ProviderTypeOK
    <3> QED
      BY <3>1, <3>2, <3>3 DEF Stage
  <2>5. Contract!Supply(p)
    BY <1>2, <2>2, <2>3, <2>4 DEF Contract!Supply
  <2> QED
    BY <2>5 DEF Contract!Next
<1>4. CASE \E p \in Pods : BecomeListed(p) \/ BecomeRunning(p) \/ BecomeBad(p)
  <2>1. PICK p \in Pods : BecomeListed(p) \/ BecomeRunning(p) \/ BecomeBad(p)
    BY <1>4
  <2>2. Used' = Used /\ Billed' = Billed
    BY <1>1, <2>1, PodsKept DEF BecomeListed, BecomeRunning, BecomeBad, Alive
  <2> QED
    BY <1>2, <2>2 DEF ContractVars
<1>5. CASE \E p \in Pods : Vanish(p)
  <2>1. PICK p \in Pods : Vanish(p)
    BY <1>5
  <2>2. p \in Billed /\ Used' = Used /\ Billed' = Billed \ {p}
    BY <1>1, <2>1 DEF Vanish, Used, Billed, Alive, ProviderTypeOK, PodState
  <2>3. Contract!Release(p)
    BY <1>2, <2>2 DEF Contract!Release
  <2> QED
    BY <2>3 DEF Contract!Next
<1> QED
  BY <1>3, <1>4, <1>5 DEF Provider, ProviderStep

(* The close: what the closed state says of the pods already held before it, for  *)
(* Close touches none of them.                                              *)
LEMMA CloseContract ==
    ASSUME Inductive, Inductive', Close
    PROVE  Contract!Close
<1>1. UNCHANGED <<pod, attempts, Used, Billed>>
  BY DEF Close, provisionVars, providerVars, Used, Billed, Alive
<1>2. Stage = "open" /\ Stage' = "closed"
  BY DEF Close, NeedsSpend, Resolved, At, Stage
<1>3. ASSUME Copies = 1 PROVE Billed = {}
  <2>1. ClosedMeansNoCompute' => \A p \in Pods : ~Alive(p)'
    BY <1>3 DEF ClosedMeansNoCompute, Close
  <2>2. ClosedMeansNoCompute'
    <3>1. (Inductive => ClosedMeansNoCompute)'
      BY ClosedState, PTL
    <3> QED
      BY <3>1
  <2> QED
    BY <1>1, <2>1, <2>2 DEF Billed, Alive
<1> QED
  BY <1>1, <1>2, <1>3 DEF Contract!Close

(* Every step of the model is a step of the contract or none. *)
LEMMA ContractStep == Inductive /\ [Next]_vars => [Contract!Next]_ContractVars
<1> SUFFICES ASSUME Inductive, [Next]_vars PROVE [Contract!Next]_ContractVars
  OBVIOUS
<1>1. CASE Plan
  <2>1. Stage = "none" /\ Stage' = "open"
    BY <1>1 DEF Plan, Stage
  <2>2. UNCHANGED <<attempts, Used, Billed>>
    BY <1>1 DEF Plan, provisionVars, providerVars, Used, Billed, Alive
  <2> QED
    BY <2>1, <2>2 DEF Contract!Next, Contract!Open
<1>2. CASE ProvisionDispatch
  <2>1. attempts = 0 /\ attempts' = 1
    BY <1>2 DEF ProvisionDispatch, Inductive, CreateInv
  <2>2. Stage = "open" /\ UNCHANGED <<Stage, Used, Billed>>
    BY <1>2 DEF ProvisionDispatch, At, runVars, providerVars, Stage, Used, Billed, Alive
  <2> QED
    BY <2>1, <2>2 DEF Contract!Next, Contract!Order
<1>3. CASE Close
  BY <1>3, InductiveStep, CloseContract DEF Contract!Next
<1>4. CASE Provider
  BY <1>4, ProviderContract
<1>5. CASE Tick \/ UNCHANGED vars
  BY <1>5 DEF Tick, vars, durableVars, runVars, provisionVars, providerVars, ContractVars,
     Stage, Used, Billed, Alive
<1>6. CASE OperatorStop \/ Wake \/ Drive \/ Execution \/ Crash
  BY <1>6, DriveUnseen, UnseenStutters
<1>7. CASE (IntendProvision \/ ReconcileProvision \/ Create) /\ ~ProvisionDispatch
  BY <1>7, ProvisionUnseen, UnseenStutters
<1>8. CASE ReconcileStart \/ StartFails
  BY <1>8, StartUnseen, UnseenStutters
<1>9. CASE ResolveProvision
  BY <1>9, ResolveUnseen, UnseenStutters
<1>10. CASE (ReconcileDelete \/ DeleteFails) /\ ~Close
  BY <1>10, DeleteUnseen, UnseenStutters
<1> QED
  BY <1>1, <1>2, <1>3, <1>4, <1>5, <1>6, <1>7, <1>8, <1>9, <1>10
     DEF Next, Supervisor, Failure

(* The run honours its contract with the principal: one order at most, no pod   *)
(* without it; and, from a provider that makes one pod per create, one pod in    *)
(* the run's life, a close only when nothing is billed, and no bill after it.   *)
THEOREM HonoursContractSafe == Spec => HonoursContract
<1>1. Init => Contract!Init
  BY DEF Init, ProviderInit, Contract!Init, Stage, Used, Billed, Alive
<1>2. Inductive /\ [Next]_vars => [Contract!Next]_<<Stage, attempts, Used, Billed>>
  BY ContractStep DEF ContractVars
<1> QED
  BY <1>1, <1>2, InductiveInvariant, PTL DEF Spec, HonoursContract, Contract!Spec

=============================================================================
