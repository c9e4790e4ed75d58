------------------------ MODULE LaunchBarrierProofs --------------------------
(***************************************************************************)
(* Proofs about LaunchBarrier: the composition of execute and the runner       *)
(* implements Runner, so Runner's invariant holds of it, and with it what the  *)
(* barrier promises, for any inputs, phases, deadlines and number of deaths   *)
(* on either side.                                                          *)
(***************************************************************************)
EXTENDS BarrierInvariant, RunnerProofs

-----------------------------------------------------------------------------
(* What the runner's own steps leave alone. *)
LEMMA RunnerKeeps ==
    ASSUME RunnerInv, AuthorizedOnce, Start \/ Run \/ RequestStop \/ ChildExits \/ Crash
    PROVE  /\ token' = token
           /\ status.state # "none" => status'.state # "none"
           /\ Authorized' => Authorized \/ token = "valid"
           /\ terminal # NoTerminal => terminal' = terminal /\ spawned' = spawned
           /\ AuthorizedOnce'
  <1> DEFINE Kept ==
        /\ token' = token
        /\ status.state # "none" => status'.state # "none"
        /\ Authorized' => Authorized \/ token = "valid"
        /\ terminal # NoTerminal => terminal' = terminal /\ spawned' = spawned
        /\ AuthorizedOnce'
  <1>j. events \in Journal /\ RunnerInv
    BY DEF RunnerInv, TypeOK, Journal
  <1>s. events' = events => Authorized' = Authorized /\ AuthorizedOnce'
    BY DEF Authorized, Recorded, AuthorizedOnce, OneAuthorization
  <1>r. ASSUME NEW kind, NEW p, Record(kind, p), kind # "launch_authorized"
        PROVE  (Authorized' <=> Authorized) /\ AuthorizedOnce'
    <2>1. Authorized' <=> Authorized
      BY <1>j, <1>r, JournalGrows
    <2>2. AuthorizedOnce'
      BY <1>j, <1>r DEF AuthorizedOnce, OneAuthorization, Record, Journal
    <2> QED
      BY <2>1, <2>2
  <1>1. CASE Start
    BY <1>1, <1>s, <1>j DEF Start, StartTerminal, StartAfterFailure, StartInterrupted, StartUnfit,
       StartFit, Starting, CleanStart, Publish, RunnerInv, TypeOK
  <1>2. CASE RecordReady
    <2>1. Record(IF events = << >> THEN "ready" ELSE "runner_resumed", NoPhase)
      BY <1>2 DEF RecordReady
    <2> QED
      BY <1>2, <1>r, <2>1 DEF RecordReady
  <1>3. CASE PublishReady \/ LaunchFails \/ WaitHeartbeat
    BY <1>3, <1>s DEF PublishReady, LaunchFails, WaitHeartbeat, Publish
  <1>4. CASE Launch
    <2>1. CASE Authorized
      BY <1>4, <1>s, <2>1 DEF Launch
    <2>2. CASE ~Authorized
      <3>1. Record("launch_authorized", NoPhase)
        BY <1>4, <2>2 DEF Launch
      <3>2. \A i \in DOMAIN events : events[i].kind # "launch_authorized"
        BY <2>2 DEF AuthorizedOnce, Authorized, Recorded
      <3>3. AuthorizedOnce'
        BY <3>1, <3>2, <1>j DEF AuthorizedOnce, OneAuthorization, Record, Journal
      <3> QED
        BY <1>4, <3>3 DEF Launch
    <2> QED
      BY <2>1, <2>2
  <1>5. CASE PhaseDisabled \/ PhaseStarts
    <2>1. \E p : Record("phase_disabled", p) \/ Record("phase_started", p)
      BY <1>5 DEF PhaseDisabled, PhaseStarts
    <2> QED
      BY <1>5, <1>r, <2>1 DEF PhaseDisabled, PhaseStarts
  <1>6. CASE LimitBeforePhase \/ Heartbeat \/ PhaseExits \/ PhaseTerminated \/ PhasesEnd \/ Tick
    BY <1>6, <1>s DEF LimitBeforePhase, Heartbeat, PhaseExits, PhaseTerminated, PhasesEnd, Tick,
       Publish, memory, clock
  <1>7. CASE Spawn
    BY <1>7, <1>s, <1>j DEF Spawn, RunnerInv, TerminalInv
  <1>8. CASE SpawnFails \/ PhaseCompletes \/ PhaseFails \/ TerminalEvent
    BY <1>8, <1>r DEF SpawnFails, PhaseCompletes, PhaseFails, TerminalEvent
  <1>9. CASE WriteTerminalOnce \/ TerminalStatus
    BY <1>9, <1>s DEF WriteTerminalOnce, TerminalStatus, Publish
  <1>10. CASE RequestStop \/ ChildExits \/ Crash
    BY <1>10, <1>s DEF RequestStop, ChildExits, Crash, memory, clock
  <1> QED
    BY <1>1, <1>2, <1>3, <1>4, <1>5, <1>6, <1>7, <1>8, <1>9, <1>10 DEF Run

(* Seen from the runner, a step of the barrier is a step of Runner or none: the    *)
(* token is put in place only after a status was seen, and putting it there again  *)
(* changes nothing.                                                          *)
LEMMA BarrierStepIsRunnerStep == BarrierInv /\ [BarrierNext]_barrierVars => [Next]_vars
  <1> SUFFICES ASSUME BarrierInv, [BarrierNext]_barrierVars PROVE [Next]_vars
    OBVIOUS
  <1>t. ASSUME TokenAppears, seen PROVE [Next]_vars
    <2>1. token \in {"absent", "valid"} /\ status.state # "none"
      BY <1>t DEF BarrierInv, RunnerInv, TypeOK, Handshake
    <2>2. CASE token = "absent"
      BY <1>t, <2>1, <2>2 DEF TokenAppears, Next, PublishToken
    <2>3. CASE token = "valid"
      BY <1>t, <2>3 DEF TokenAppears, vars
    <2> QED
      BY <2>1, <2>2, <2>3
  <1>1. CASE RunnerStep
    BY <1>1 DEF RunnerStep, StartOnPod, Next
  <1>2. CASE RenameToken \/ RenameUnanswered \/ LateRename
    <2>1. seen
      BY <1>2 DEF BarrierInv, Progress, RenameToken, RenameUnanswered, LateRename
    <2> QED
      BY <1>2, <1>t, <2>1 DEF RenameToken, RenameUnanswered, LateRename
  <1>3. CASE \/ Execute \/ DeadlineReached \/ StartupDeadlineReached
             \/ Connected \/ NotConnected \/ HostKeyScanned
             \/ UploadBootstrap \/ BootstrapUploaded
             \/ IdentityMismatch \/ HeartbeatStale \/ SeenReady \/ SeenRunning \/ SeenTerminal
             \/ InputsPublished \/ UploadInput \/ InputsUploaded
             \/ TokenPublished \/ StageToken \/ WriteTokenReceipt \/ LaunchRefused
             \/ Mirrored \/ Recovered
             \/ StartupRaises \/ Killed \/ TransferFails \/ TimePasses
    BY <1>3 DEF Execute, DeadlineReached, StartupDeadlineReached, Connected, NotConnected,
       HostKeyScanned, UploadBootstrap, BootstrapUploaded, IdentityMismatch, HeartbeatStale,
       SeenReady, SeenRunning, SeenTerminal, InputsPublished, UploadInput, InputsUploaded,
       TokenPublished, StageToken, WriteTokenReceipt, LaunchRefused, StartupRaises, Killed, Ends,
       Mirrored, Recovered, TransferFails, TimePasses
  <1>4. CASE UNCHANGED barrierVars
    BY <1>4 DEF barrierVars
  <1> QED
    BY <1>1, <1>2, <1>3, <1>4 DEF BarrierNext, ExecutorStep, LoopStep, TransferStep, ExecutorFault

(* Every step of the composition keeps the barrier's invariant.                 *)
LEMMA BarrierStep == BarrierInv /\ [BarrierNext]_barrierVars => BarrierInv'
  <1> SUFFICES ASSUME BarrierInv, [BarrierNext]_barrierVars PROVE BarrierInv'
    OBVIOUS
  <1>r. RunnerInv'
    BY BarrierStepIsRunnerStep, InvStep DEF BarrierInv
  <1>u. UNCHANGED vars => AuthorizedOnce' /\ Authorized' = Authorized
    BY DEF BarrierInv, Handshake, AuthorizedOnce, OneAuthorization, Authorized, Recorded,
           vars, memory, clock
  <1>a. TokenAppears => AuthorizedOnce' /\ Authorized' = Authorized
    BY DEF BarrierInv, Handshake, AuthorizedOnce, OneAuthorization, Authorized, Recorded,
           TokenAppears
  <1>o. RunnerInv /\ AuthorizedOnce /\ TypeOK'
    BY <1>r DEF BarrierInv, Handshake, RunnerInv
  <1> USE LaunchBarrierAssumption
      DEF BarrierInv, BarrierTypeOK, Progress, Handshake, pod, files, call, executor
  <1>1. CASE Execute
    <2>1. started' \in BOOLEAN
      BY <1>1 DEF Execute
    <2>2. BarrierTypeOK'
      BY <1>1, <1>r, <1>o, <2>1 DEF Execute, vars
    <2>3. Progress'
      BY <1>1, <1>r, <1>o, <2>1 DEF Execute, vars
    <2>4. Handshake'
      BY <1>1, <1>r, <1>o, <1>u, <1>a, <2>1 DEF Execute, vars
    <2> QED
      BY <1>r, <2>2, <2>3, <2>4
  <1>2. CASE DeadlineReached
    BY <1>2, <1>r, <1>o, <1>u DEF DeadlineReached, Return, vars
  <1>3. CASE StartupDeadlineReached
    BY <1>3, <1>r, <1>o, <1>u DEF StartupDeadlineReached, Return, vars
  <1>4. CASE Connected
    BY <1>4, <1>r, <1>o, <1>u DEF Connected, Go, Polls, vars
  <1>5. CASE NotConnected
    BY <1>5, <1>r, <1>o, <1>u DEF NotConnected, Return, vars
  <1>6. CASE HostKeyScanned
    BY <1>6, <1>r, <1>o, <1>u DEF HostKeyScanned, Go, vars
  <1>7. CASE UploadBootstrap
    BY <1>7, <1>r, <1>o, <1>u DEF UploadBootstrap, Go, vars
  <1>8. CASE BootstrapUploaded
    BY <1>8, <1>r, <1>o, <1>u DEF BootstrapUploaded, Go, vars
  <1>9. CASE IdentityMismatch
    BY <1>9, <1>r, <1>o, <1>u DEF IdentityMismatch, Fetched, Polls, StatusServed, Return, vars
  <1>10. CASE HeartbeatStale
    BY <1>10, <1>r, <1>o, <1>u DEF HeartbeatStale, Fetched, Polls, StatusServed, Return, vars
  <1>11. CASE SeenReady
    BY <1>11, <1>r, <1>o, <1>u DEF SeenReady, Fetched, Polls, StatusServed, IdentityMatches, GoStarted, vars
  <1>12. CASE SeenRunning
    BY <1>12, <1>r, <1>o, <1>u DEF SeenRunning, Fetched, Polls, StatusServed, GoStarted, vars
  <1>13. CASE SeenTerminal
    <2>1. terminal # NoTerminal
      BY <1>13 DEF SeenTerminal, RunnerInv, TerminalInv
    <2> QED
      BY <1>13, <1>r, <1>o, <1>u, <2>1 DEF SeenTerminal, Fetched, Polls, StatusServed, GoStarted,
         vars
  <1>14. CASE InputsPublished
    BY <1>14, <1>r, <1>o, <1>u DEF InputsPublished, Go, vars
  <1>15. CASE UploadInput
    BY <1>15, <1>r, <1>o, <1>u DEF UploadInput, Go, vars
  <1>16. CASE InputsUploaded
    BY <1>16, <1>r, <1>o, <1>u DEF InputsUploaded, Go, vars
  <1>17. CASE TokenPublished
    BY <1>17, <1>r, <1>o, <1>u DEF TokenPublished, Go, vars
  <1>18. CASE StageToken
    BY <1>18, <1>r, <1>o, <1>u DEF StageToken, Go, vars
  <1>19. CASE WriteTokenReceipt
    BY <1>19, <1>r, <1>o, <1>u DEF WriteTokenReceipt, Go, vars
  <1>20. CASE LaunchRefused
    BY <1>20, <1>r, <1>o, <1>u DEF LaunchRefused, Return, vars
  <1>21. CASE StartupRaises
    <2>1. started' \in BOOLEAN /\ renaming' \in BOOLEAN
      BY <1>21 DEF StartupRaises, Ends
    <2>2. BarrierTypeOK'
      BY <1>21, <1>r, <1>o, <2>1 DEF StartupRaises, Ends, vars
    <2>3. Progress'
      BY <1>21, <1>r, <1>o, <2>1 DEF StartupRaises, Ends, vars
    <2>4. Handshake'
      BY <1>21, <1>r, <1>o, <1>u, <1>a, <2>1 DEF StartupRaises, Ends, vars
    <2> QED
      BY <1>r, <2>2, <2>3, <2>4
  <1>22. CASE Killed
    <2>1. started' \in BOOLEAN /\ renaming' \in BOOLEAN
      BY <1>22 DEF Killed, Ends
    <2>2. BarrierTypeOK'
      BY <1>22, <1>r, <1>o, <2>1 DEF Killed, Ends, vars
    <2>3. Progress'
      BY <1>22, <1>r, <1>o, <2>1 DEF Killed, Ends, vars
    <2>4. Handshake'
      BY <1>22, <1>r, <1>o, <1>u, <1>a, <2>1 DEF Killed, Ends, vars
    <2> QED
      BY <1>r, <2>2, <2>3, <2>4
  <1>23. CASE TransferFails
    BY <1>23, <1>r, <1>o, <1>u DEF TransferFails, Go, vars
  <1>24. CASE TimePasses
    BY <1>24, <1>r, <1>o, <1>u DEF TimePasses, Looping, StartupPassed, DeadlinePassed, vars
  <1>25. CASE RenameToken
    BY <1>25, <1>r, <1>o, <1>u, <1>a DEF RenameToken, Go, TokenAppears, vars
  <1>26. CASE RenameUnanswered
    <2>1. renaming' \in BOOLEAN
      BY <1>26 DEF RenameUnanswered, Go, TokenAppears
    <2>2. BarrierTypeOK'
      BY <1>26, <1>r, <1>o, <2>1 DEF RenameUnanswered, Go, TokenAppears, vars
    <2>3. Progress'
      BY <1>26, <1>r, <1>o, <2>1 DEF RenameUnanswered, Go, TokenAppears, vars
    <2>4. Handshake'
      BY <1>26, <1>r, <1>o, <1>u, <1>a, <2>1 DEF RenameUnanswered, Go, TokenAppears, vars
    <2> QED
      BY <1>r, <2>2, <2>3, <2>4
  <1>27. CASE LateRename
    BY <1>27, <1>r, <1>o, <1>u, <1>a DEF LateRename, TokenAppears, vars
  <1>28. CASE Mirrored
    BY <1>28, <1>r, <1>o, <1>u DEF Mirrored, Go, Return, vars
  <1>29. CASE Recovered
    BY <1>29, <1>r, <1>o, <1>u DEF Recovered, Go, Return, vars
  <1>30. CASE RunnerStep
    <2>1. /\ token' = token
          /\ status.state # "none" => status'.state # "none"
          /\ Authorized' => Authorized \/ token = "valid"
          /\ terminal # NoTerminal => terminal' = terminal
          /\ AuthorizedOnce'
      BY <1>30, <1>o, RunnerKeeps DEF RunnerStep, StartOnPod
    <2> QED
      BY <1>30, <1>r, <1>o, <2>1, NoTerminalAssumption DEF RunnerStep, Outcomes
  <1>31. CASE UNCHANGED barrierVars
    BY <1>31, <1>r, <1>o, <1>u DEF barrierVars, vars
  <1> QED
    BY <1>1, <1>2, <1>3, <1>4, <1>5, <1>6, <1>7, <1>8, <1>9, <1>10, <1>11,
       <1>12, <1>13, <1>14, <1>15, <1>16, <1>17, <1>18, <1>19, <1>20, <1>21,
       <1>22, <1>23, <1>24, <1>25, <1>26, <1>27, <1>28, <1>29, <1>30, <1>31
       DEF BarrierNext, ExecutorStep, LoopStep, TransferStep, ExecutorFault

(* Before the pod has booted and before execute was called.                    *)
LEMMA BarrierStart == BarrierInit => BarrierInv
  <1> SUFFICES ASSUME BarrierInit PROVE BarrierInv
    OBVIOUS
  <1>1. RunnerInv
    BY InvInit DEF BarrierInit
  <1>2. BarrierTypeOK
    <2>1. /\ matching \in BOOLEAN /\ renaming \in BOOLEAN /\ inputReceipt \in BOOLEAN
          /\ tokenReceipt \in BOOLEAN /\ seen \in BOOLEAN /\ started \in BOOLEAN
      BY DEF BarrierInit
    <2> QED
      BY <1>1, <2>1, LaunchBarrierAssumption DEF RunnerInv, BarrierTypeOK, BarrierInit
  <1>3. ~Authorized /\ AuthorizedOnce
    BY DEF BarrierInit, Init, Authorized, Recorded, AuthorizedOnce, OneAuthorization
  <1>4. Progress /\ Handshake
    BY <1>3, LaunchBarrierAssumption DEF Progress, Handshake, BarrierInit, Init
  <1> QED
    BY <1>1, <1>2, <1>4 DEF BarrierInv

(* The invariant holds of the composition, whichever side dies when.             *)
THEOREM BarrierInvariantSafe == BarrierSpec => []BarrierInv
  BY BarrierStart, BarrierStep, PTL DEF BarrierSpec

(* Seen from the runner, execute with its retries, restarts and late renames is    *)
(* the one step PublishToken with a valid token: every theorem about Runner holds   *)
(* of the composition.                                                       *)
THEOREM ImplementsRunnerSafe == BarrierSpec => ImplementsRunner
  <1>1. BarrierInit => Init
    BY DEF BarrierInit
  <1> QED
    BY <1>1, BarrierStepIsRunnerStep, BarrierInvariantSafe, PTL
       DEF BarrierSpec, ImplementsRunner, Spec

(* What Runner promises, the composition keeps, over deaths of either side: each    *)
(* phase once and in order, success earned, the cap over restarts, no shown child   *)
(* behind a terminal result.                                                 *)
THEOREM CompositionKeepsRunner ==
    BarrierSpec => [](/\ PhaseOnceInOrder /\ SuccessIsEarned
                      /\ BudgetSurvivesRestarts /\ SurvivorWasNeverShown)
  BY ImplementsRunnerSafe, PhaseOnceInOrderSafe, SuccessIsEarnedSafe,
     BudgetSurvivesRestartsSafe, SurvivorWasNeverShownSafe, PTL DEF ImplementsRunner

(* A phase that was ever spawned was spawned once, by the runner the request names,  *)
(* on a pod with every input, under the one token that was published to it: neither   *)
(* side knows all of this, the launch protocol makes it so.                     *)
THEOREM LaunchedProperlySafe == BarrierSpec => []LaunchedProperly
  <1>1. BarrierInv /\ PhaseOnceInOrder => LaunchedProperly
    BY DEF BarrierInv, RunnerInv, TypeOK, Progress, Handshake, PhaseOnceInOrder,
           LaunchedProperly
  <1> QED
    BY <1>1, BarrierInvariantSafe, CompositionKeepsRunner, PTL

(* No input and no token goes to a pod whose runner's identity was not seen to      *)
(* match: the input receipt, which every later step needs, is written under it.   *)
THEOREM IdentityFirstSafe == BarrierSpec => []IdentityFirst
  <1>1. BarrierInv => IdentityFirst
    BY DEF BarrierInv, RunnerInv, TypeOK, Progress, Handshake, IdentityFirst
  <1> QED
    BY <1>1, BarrierInvariantSafe, PTL

(* A runner that may start a phase has every input.                               *)
THEOREM LaunchIsCompleteSafe == BarrierSpec => []LaunchIsComplete
  <1>1. BarrierInv => LaunchIsComplete
    BY DEF BarrierInv, RunnerInv, TypeOK, Progress, Handshake, LaunchIsComplete
  <1> QED
    BY <1>1, BarrierInvariantSafe, PTL

(* What the two publication receipts say is true of the pod.                      *)
THEOREM ReceiptsAreTrueSafe == BarrierSpec => []ReceiptsAreTrue
  <1>1. BarrierInv => ReceiptsAreTrue
    BY DEF BarrierInv, Progress, ReceiptsAreTrue
  <1> QED
    BY <1>1, BarrierInvariantSafe, PTL

(* A token that is published again or lands late is journaled as one               *)
(* authorization.                                                            *)
THEOREM OneAuthorizationSafe == BarrierSpec => []OneAuthorization
  <1>1. BarrierInv => OneAuthorization
    BY DEF BarrierInv, Handshake, AuthorizedOnce
  <1> QED
    BY <1>1, BarrierInvariantSafe, PTL

(* A success that execute returns was one on the pod, on all the inputs.           *)
THEOREM SuccessIsTrueSafe == BarrierSpec => []SuccessIsTrue
  <1>1. BarrierInv => SuccessIsTrue
    BY DEF BarrierInv, RunnerInv, TerminalInv, Earned, Progress, Handshake, SuccessIsTrue
  <1> QED
    BY <1>1, BarrierInvariantSafe, PTL

(* No phase is spawned once terminal-result.json exists, though a token may          *)
(* still land.                                                               *)
THEOREM LateTokenIsInertSafe == BarrierSpec => LateTokenIsInert
  <1>1. BarrierInv /\ [BarrierNext]_barrierVars
        => [terminal # NoTerminal => spawned' = spawned]_barrierVars
    <2> SUFFICES ASSUME BarrierInv, [BarrierNext]_barrierVars, terminal # NoTerminal
                 PROVE  spawned' = spawned
      OBVIOUS
    <2>1. [Next]_vars
      BY BarrierStepIsRunnerStep
    <2>2. CASE Start \/ Run \/ RequestStop \/ ChildExits \/ Crash
      BY <2>2, RunnerKeeps DEF BarrierInv, Handshake
    <2>3. CASE PublishToken \/ UNCHANGED vars
      BY <2>3 DEF PublishToken, vars
    <2> QED
      BY <2>1, <2>2, <2>3 DEF Next
  <1> QED
    BY <1>1, BarrierInvariantSafe, PTL DEF BarrierSpec, LateTokenIsInert
=============================================================================
