---------------------------- MODULE RunnerProofs -----------------------------
(***************************************************************************)
(* Proofs about Runner for any number of phases, any set of enabled ones, any *)
(* cap and any number of crashes.  RunnerInv is the inductive invariant; the  *)
(* proof of a step that writes to the journal goes through what the record    *)
(* adds to the derived sets (JournalGrows), that of every other step through   *)
(* their not changing (JournalSame).                                        *)
(***************************************************************************)
EXTENDS RunnerInvariant, TLAPS

Journal == Seq([kind : Kinds, phase : Phases \cup {NoPhase}])

(* A step that leaves events.jsonl alone leaves what it says alone.           *)
LEMMA JournalSame ==
    ASSUME events' = events
    PROVE  /\ Authorized' = Authorized
           /\ Completed' = Completed /\ Failed' = Failed
           /\ \A q \in Phases : Started(q)' = Started(q) /\ Disabled(q)' = Disabled(q)
  BY DEF Authorized, Completed, Failed, Started, Disabled, Recorded

(* One more record makes true what it says and nothing else.                 *)
LEMMA RecordAdds ==
    ASSUME events \in Journal, NEW kind, NEW p, NEW kinds, NEW q,
           events' = Append(events, [kind |-> kind, phase |-> p])
    PROVE  Recorded(kinds, q)' <=> Recorded(kinds, q) \/ (kind \in kinds /\ p = q)
  BY DEF Recorded, Journal

(* What _append_event of one kind does to what _recover_history reads.        *)
LEMMA JournalGrows ==
    ASSUME events \in Journal, NEW kind, NEW p, Record(kind, p)
    PROVE  /\ Authorized' <=> Authorized \/ (kind = "launch_authorized" /\ p = NoPhase)
           /\ \A q \in Phases :
                /\ q \in Completed' <=> q \in Completed \/ (kind = "phase_completed" /\ p = q)
                /\ q \in Failed' <=> q \in Failed \/ (kind \in {"phase_failed", "phase_start_failed"} /\ p = q)
                /\ Started(q)' <=> Started(q) \/ (kind = "phase_started" /\ p = q)
                /\ Disabled(q)' <=> Disabled(q) \/ (kind = "phase_disabled" /\ p = q)
           /\ stamped' = elapsed
  BY RecordAdds DEF Record, Authorized, Completed, Failed, Started, Disabled

(* Every step of the runner and its surroundings keeps the types.            *)
LEMMA TypeStep == TypeOK /\ PlaceInv /\ [Next]_vars => TypeOK'
  <1> SUFFICES ASSUME TypeOK, PlaceInv, [Next]_vars PROVE TypeOK'
    OBVIOUS
  <1> USE RunnerAssumption, NoTerminalAssumption DEF TypeOK, Phases, NoPhase
  <1>r. ASSUME NEW kind \in Kinds, NEW p \in Phases \cup {NoPhase}, Record(kind, p)
        PROVE  /\ events' \in Seq([kind : Kinds, phase : Phases \cup {NoPhase}])
               /\ stamped' \in 0..Cap
    BY <1>r DEF Record
  <1>p. pc \in {"spawn", "polling"} => phase \in Phases
    BY DEF PlaceInv
  <1>f. Failed \subseteq Phases /\ Interrupted \subseteq Phases
    BY DEF Failed, Interrupted
  <1>1. CASE StartTerminal
    BY <1>1, <1>f DEF StartTerminal, Starting, Publish, Continue, memory, clock
  <1>2. CASE StartAfterFailure
    BY <1>2, <1>f DEF StartAfterFailure, Starting, Finish, Outcomes, memory, clock
  <1>3. CASE StartInterrupted
    BY <1>3, <1>f DEF StartInterrupted, Starting, Finish, Outcomes, memory, clock
  <1>4. CASE StartUnfit
    BY <1>4, <1>f DEF StartUnfit, CleanStart, Starting, Finish, Outcomes, memory, clock
  <1>5. CASE StartFit
    BY <1>5, <1>f DEF StartFit, CleanStart, Starting, Continue, memory, clock
  <1>6. CASE RecordReady
    BY <1>6, <1>r DEF RecordReady, Continue, Kinds, memory, clock
  <1>7. CASE PublishReady
    BY <1>7 DEF PublishReady, Publish, Continue, memory, clock
  <1>8. CASE LaunchFails
    BY <1>8 DEF LaunchFails, Finish, Outcomes, memory, clock
  <1>9. CASE Launch
    BY <1>9, <1>r DEF Launch, Continue, Kinds, memory, clock
  <1>10. CASE WaitHeartbeat
    BY <1>10 DEF WaitHeartbeat, Publish, memory, clock
  <1>11. CASE PhaseDisabled
    BY <1>11, <1>r DEF PhaseDisabled, Continue, NextPhase, Kinds, memory, clock
  <1>12. CASE LimitBeforePhase
    BY <1>12 DEF LimitBeforePhase, Finish, Outcomes, memory, clock
  <1>13. CASE PhaseStarts
    BY <1>13, <1>r, <1>f DEF PhaseStarts, NextPhase, Kinds, memory, clock
  <1>14. CASE Spawn
    BY <1>14, <1>p DEF Spawn, Continue, memory, clock
  <1>15. CASE SpawnFails
    BY <1>15, <1>r DEF SpawnFails, Finish, Kinds, Outcomes, memory, clock
  <1>16. CASE Heartbeat
    BY <1>16, <1>p DEF Heartbeat, Publish, memory, clock
  <1>17. CASE PhaseExits
    BY <1>17 DEF PhaseExits, Publish, Continue, memory, clock
  <1>18. CASE PhaseCompletes
    BY <1>18, <1>r DEF PhaseCompletes, Continue, Kinds, memory, clock
  <1>19. CASE PhaseFails
    BY <1>19, <1>r DEF PhaseFails, Finish, Kinds, Outcomes, memory, clock
  <1>20. CASE PhaseTerminated
    BY <1>20 DEF PhaseTerminated, Finish, Outcomes, memory, clock
  <1>21. CASE PhasesEnd
    BY <1>21 DEF PhasesEnd, Finish, Outcomes, memory, clock
  <1>22. CASE Tick
    BY <1>22 DEF Tick, LimitReached, memory, clock
  <1>23. CASE WriteTerminalOnce
    BY <1>23 DEF WriteTerminalOnce, Continue, memory, clock
  <1>24. CASE TerminalEvent
    BY <1>24, <1>r DEF TerminalEvent, Continue, Kinds, memory, clock
  <1>25. CASE TerminalStatus
    BY <1>25 DEF TerminalStatus, Publish, Continue, memory, clock
  <1>26. CASE RequestStop
    BY <1>26 DEF RequestStop, memory, clock
  <1>27. CASE PublishToken
    BY <1>27 DEF PublishToken, memory, clock
  <1>28. CASE ChildExits
    BY <1>28 DEF ChildExits, memory, clock
  <1>29. CASE Crash
    <2>1. process' \in [Phases -> {"none", "running", "zero", "nonzero", "killed"}]
      BY <1>29 DEF Crash
    <2>2. unterminated' \in BOOLEAN
      BY <1>29 DEF Crash
    <2>3. /\ crashes' \in Nat
          /\ elapsed' \in 0..Cap
          /\ pc' = "down" /\ phase' = NoPhase /\ result' = NoTerminal /\ stop' = FALSE
          /\ UNCHANGED <<events, terminal, status, token, spawned, shown, stamped, ran>>
      BY <1>29 DEF Crash, PriorElapsed
    <2> QED
      BY <2>1, <2>2, <2>3
  <1>30. CASE UNCHANGED vars
    BY <1>30 DEF vars, memory, clock
  <1> QED
    BY <1>1, <1>2, <1>3, <1>4, <1>5, <1>6, <1>7, <1>8, <1>9, <1>10, <1>11,
       <1>12, <1>13, <1>14, <1>15, <1>16, <1>17, <1>18, <1>19, <1>20, <1>21,
       <1>22, <1>23, <1>24, <1>25, <1>26, <1>27, <1>28, <1>29, <1>30
       DEF Next, Start, Run

(* At most one phase is open, and only an open one has a running child; the    *)
(* rest spells out the derived sets.                                        *)
LEMMA JournalFacts ==
    ASSUME RunnerInv
    PROVE  /\ \A p, q \in Phases : Open(p) /\ Open(q) => p = q
           /\ \A p \in Phases : process[p] = "running" => Open(p)
           /\ Failed \subseteq Phases
           /\ \A p : p \in Interrupted <=> p \in Phases /\ Open(p) /\ p \notin Failed
           /\ \A p \in Phases : p \in Settled <=> p \in Completed \/ Disabled(p)
  <1>1. \A p, q \in Phases : Open(p) /\ Open(q) => p = q
    BY RunnerAssumption DEF RunnerInv, JournalInv, Open, Phases
  <1>2. \A p \in Phases : process[p] = "running" => Open(p)
    BY DEF RunnerInv, JournalInv, ChildInv, Open
  <1>3. /\ Failed \subseteq Phases
        /\ \A p : p \in Interrupted <=> p \in Phases /\ Open(p) /\ p \notin Failed
        /\ \A p \in Phases : p \in Settled <=> p \in Completed \/ Disabled(p)
    BY DEF Failed, Interrupted, Settled, Completed, Disabled, Open, Started
  <1> QED
    BY <1>1, <1>2, <1>3

(* Every step keeps the invariant; one step per action, and under those that    *)
(* write to the journal one per conjunct.                                   *)
LEMMA InvStep == RunnerInv /\ [Next]_vars => RunnerInv'
  <1> SUFFICES ASSUME RunnerInv, [Next]_vars PROVE RunnerInv'
    OBVIOUS
  <1>t. TypeOK /\ TypeOK'
    BY TypeStep DEF RunnerInv
  <1>j. events \in Journal
    BY DEF RunnerInv, TypeOK, Journal
  <1>f. /\ \A p, q \in Phases : Open(p) /\ Open(q) => p = q
        /\ \A p \in Phases : process[p] = "running" => Open(p)
        /\ Failed \subseteq Phases
        /\ \A p : p \in Interrupted <=> p \in Phases /\ Open(p) /\ p \notin Failed
        /\ \A p \in Phases : p \in Settled <=> p \in Completed \/ Disabled(p)
    BY JournalFacts
  <1>s. events' = events =>
        /\ Authorized' = Authorized
        /\ Completed' = Completed /\ Failed' = Failed
        /\ \A q \in Phases : Started(q)' = Started(q) /\ Disabled(q)' = Disabled(q)
    BY JournalSame
  <1> USE RunnerAssumption, NoTerminalAssumption
      DEF RunnerInv, TypeOK, JournalInv, ChildInv, PlaceInv, TerminalInv, ClockInv, Open,
          Earned, Concluded, Phases, NoPhase, Outcomes
  <1>1. CASE StartTerminal
    BY <1>1, <1>t, <1>f, <1>s DEF StartTerminal, Starting, Publish, Continue, memory, clock
  <1>2. CASE StartAfterFailure
    BY <1>2, <1>t, <1>f, <1>s DEF StartAfterFailure, Starting, Finish, memory, clock
  <1>3. CASE StartInterrupted
    BY <1>3, <1>t, <1>f, <1>s DEF StartInterrupted, Starting, Finish, memory, clock
  <1>4. CASE StartUnfit
    BY <1>4, <1>t, <1>f, <1>s DEF StartUnfit, CleanStart, Starting, Finish, memory, clock
  <1>5. CASE StartFit
    BY <1>5, <1>t, <1>f, <1>s DEF StartFit, CleanStart, Starting, Continue, memory, clock
  <1>6. CASE RecordReady
    <2>p. Record(IF events = << >> THEN "ready" ELSE "runner_resumed", NoPhase)
      BY <1>6 DEF RecordReady
    <2>g. /\ Authorized' <=> Authorized
          /\ \A q \in Phases :
               /\ q \in Completed' <=> q \in Completed
               /\ q \in Failed' <=> q \in Failed
               /\ Started(q)' <=> Started(q)
               /\ Disabled(q)' <=> Disabled(q)
          /\ stamped' = elapsed
      BY <1>j, <2>p, JournalGrows
    <2>1. JournalInv'
      BY <1>6, <1>t, <1>f, <2>p, <2>g DEF RecordReady, Continue, memory, clock
    <2>2. ChildInv'
      BY <1>6, <1>t, <1>f, <2>p, <2>g DEF RecordReady, Continue, memory, clock
    <2>3. PlaceInv'
      BY <1>6, <1>t, <1>f, <2>p, <2>g DEF RecordReady, Continue, memory, clock
    <2>4. TerminalInv'
      BY <1>6, <1>t, <1>f, <2>p, <2>g DEF RecordReady, Continue, memory, clock
    <2>5. ClockInv'
      BY <1>6, <1>t, <1>f, <2>p, <2>g DEF RecordReady, Continue, memory, clock
    <2> QED
      BY <1>t, <2>1, <2>2, <2>3, <2>4, <2>5
  <1>7. CASE PublishReady
    BY <1>7, <1>t, <1>f, <1>s DEF PublishReady, Publish, Continue, memory, clock
  <1>8. CASE LaunchFails
    BY <1>8, <1>t, <1>f, <1>s DEF LaunchFails, Finish, memory, clock
  <1>9. CASE Launch
    BY <1>9, <1>t, <1>j, <1>f, <1>s, JournalGrows DEF Launch, Continue, memory, clock
  <1>10. CASE WaitHeartbeat
    BY <1>10, <1>t, <1>f, <1>s DEF WaitHeartbeat, Publish, memory, clock
  <1>11. CASE PhaseDisabled
    <2>p. PICK p \in Phases \ Enabled : NextPhase(p) /\ Record("phase_disabled", p)
      BY <1>11 DEF PhaseDisabled
    <2>g. /\ Authorized' <=> Authorized
          /\ \A q \in Phases :
               /\ q \in Completed' <=> q \in Completed
               /\ q \in Failed' <=> q \in Failed
               /\ Started(q)' <=> Started(q)
               /\ Disabled(q)' <=> Disabled(q) \/ q = p
          /\ stamped' = elapsed
      BY <1>j, <2>p, JournalGrows
    <2>1. JournalInv'
      BY <1>11, <1>t, <1>f, <2>p, <2>g DEF PhaseDisabled, Continue, NextPhase, memory, clock
    <2>2. ChildInv'
      BY <1>11, <1>t, <1>f, <2>p, <2>g DEF PhaseDisabled, Continue, NextPhase, memory, clock
    <2>3. PlaceInv'
      BY <1>11, <1>t, <1>f, <2>p, <2>g DEF PhaseDisabled, Continue, NextPhase, memory, clock
    <2>4. TerminalInv'
      BY <1>11, <1>t, <1>f, <2>p, <2>g DEF PhaseDisabled, Continue, NextPhase, memory, clock
    <2>5. ClockInv'
      BY <1>11, <1>t, <1>f, <2>p, <2>g DEF PhaseDisabled, Continue, NextPhase, memory, clock
    <2> QED
      BY <1>t, <2>1, <2>2, <2>3, <2>4, <2>5
  <1>12. CASE LimitBeforePhase
    BY <1>12, <1>t, <1>f, <1>s DEF LimitBeforePhase, Finish, NextPhase, memory, clock
  <1>13. CASE PhaseStarts
    <2>p. PICK p \in Enabled : NextPhase(p) /\ Record("phase_started", p) /\ phase' = p
      BY <1>13 DEF PhaseStarts
    <2>g. /\ Authorized' <=> Authorized
          /\ \A q \in Phases :
               /\ q \in Completed' <=> q \in Completed
               /\ q \in Failed' <=> q \in Failed
               /\ Started(q)' <=> Started(q) \/ q = p
               /\ Disabled(q)' <=> Disabled(q)
          /\ stamped' = elapsed
      BY <1>j, <2>p, JournalGrows
    <2>1. JournalInv'
      BY <1>13, <1>t, <1>f, <2>p, <2>g DEF PhaseStarts, NextPhase, memory, clock
    <2>2. ChildInv'
      BY <1>13, <1>t, <1>f, <2>p, <2>g DEF PhaseStarts, NextPhase, memory, clock
    <2>3. PlaceInv'
      BY <1>13, <1>t, <1>f, <2>p, <2>g DEF PhaseStarts, NextPhase, memory, clock
    <2>4. TerminalInv'
      BY <1>13, <1>t, <1>f, <2>p, <2>g DEF PhaseStarts, NextPhase, memory, clock
    <2>5. ClockInv'
      BY <1>13, <1>t, <1>f, <2>p, <2>g DEF PhaseStarts, NextPhase, memory, clock
    <2> QED
      BY <1>t, <2>1, <2>2, <2>3, <2>4, <2>5
  <1>14. CASE Spawn
    BY <1>14, <1>t, <1>f, <1>s DEF Spawn, Continue, memory, clock
  <1>15. CASE SpawnFails
    BY <1>15, <1>t, <1>j, <1>f, <1>s, JournalGrows DEF SpawnFails, Finish, memory, clock
  <1>16. CASE Heartbeat
    BY <1>16, <1>t, <1>f, <1>s DEF Heartbeat, Publish, memory, clock
  <1>17. CASE PhaseExits
    BY <1>17, <1>t, <1>f, <1>s DEF PhaseExits, Publish, Continue, memory, clock
  <1>18. CASE PhaseCompletes
    <2>p. Record("phase_completed", phase)
      BY <1>18 DEF PhaseCompletes
    <2>g. /\ Authorized' <=> Authorized
          /\ \A q \in Phases :
               /\ q \in Completed' <=> q \in Completed \/ q = phase
               /\ q \in Failed' <=> q \in Failed
               /\ Started(q)' <=> Started(q)
               /\ Disabled(q)' <=> Disabled(q)
          /\ stamped' = elapsed
      BY <1>j, <2>p, JournalGrows
    <2>1. JournalInv'
      BY <1>18, <1>t, <1>f, <2>p, <2>g DEF PhaseCompletes, Continue, memory, clock
    <2>2. ChildInv'
      BY <1>18, <1>t, <1>f, <2>p, <2>g DEF PhaseCompletes, Continue, memory, clock
    <2>3. PlaceInv'
      BY <1>18, <1>t, <1>f, <2>p, <2>g DEF PhaseCompletes, Continue, memory, clock
    <2>4. TerminalInv'
      BY <1>18, <1>t, <1>f, <2>p, <2>g DEF PhaseCompletes, Continue, memory, clock
    <2>5. ClockInv'
      BY <1>18, <1>t, <1>f, <2>p, <2>g DEF PhaseCompletes, Continue, memory, clock
    <2> QED
      BY <1>t, <2>1, <2>2, <2>3, <2>4, <2>5
  <1>19. CASE PhaseFails
    BY <1>19, <1>t, <1>j, <1>f, <1>s, JournalGrows DEF PhaseFails, Finish, memory, clock
  <1>20. CASE PhaseTerminated
    BY <1>20, <1>t, <1>f, <1>s DEF PhaseTerminated, Finish, memory, clock
  <1>21. CASE PhasesEnd
    BY <1>21, <1>t, <1>f, <1>s DEF PhasesEnd, Finish, memory, clock
  <1>22. CASE Tick
    BY <1>22, <1>t, <1>f, <1>s DEF Tick, LimitReached, memory, clock
  <1>23. CASE WriteTerminalOnce
    BY <1>23, <1>t, <1>f, <1>s DEF WriteTerminalOnce, Continue, memory, clock
  <1>24. CASE TerminalEvent
    <2>p. Record("terminal", phase)
      BY <1>24 DEF TerminalEvent
    <2>g. /\ Authorized' <=> Authorized
          /\ \A q \in Phases :
               /\ q \in Completed' <=> q \in Completed
               /\ q \in Failed' <=> q \in Failed
               /\ Started(q)' <=> Started(q)
               /\ Disabled(q)' <=> Disabled(q)
          /\ stamped' = elapsed
      BY <1>j, <2>p, JournalGrows
    <2>1. JournalInv'
      BY <1>24, <1>t, <1>f, <2>p, <2>g DEF TerminalEvent, Continue, memory, clock
    <2>2. ChildInv'
      BY <1>24, <1>t, <1>f, <2>p, <2>g DEF TerminalEvent, Continue, memory, clock
    <2>3. PlaceInv'
      BY <1>24, <1>t, <1>f, <2>p, <2>g DEF TerminalEvent, Continue, memory, clock
    <2>4. TerminalInv'
      BY <1>24, <1>t, <1>f, <2>p, <2>g DEF TerminalEvent, Continue, memory, clock
    <2>5. ClockInv'
      BY <1>24, <1>t, <1>f, <2>p, <2>g DEF TerminalEvent, Continue, memory, clock
    <2> QED
      BY <1>t, <2>1, <2>2, <2>3, <2>4, <2>5
  <1>25. CASE TerminalStatus
    BY <1>25, <1>t, <1>f, <1>s DEF TerminalStatus, Publish, Continue, memory, clock
  <1>26. CASE RequestStop
    BY <1>26, <1>t, <1>f, <1>s DEF RequestStop, memory, clock
  <1>27. CASE PublishToken
    BY <1>27, <1>t, <1>f, <1>s DEF PublishToken, memory, clock
  <1>28. CASE ChildExits
    BY <1>28, <1>t, <1>f, <1>s DEF ChildExits, memory, clock
  <1>29. CASE Crash
    BY <1>29, <1>t, <1>f, <1>s DEF Crash, PriorElapsed, Appending, memory, clock
  <1>30. CASE UNCHANGED vars
    BY <1>30, <1>s DEF vars, memory, clock
  <1> QED
    BY <1>1, <1>2, <1>3, <1>4, <1>5, <1>6, <1>7, <1>8, <1>9, <1>10, <1>11,
       <1>12, <1>13, <1>14, <1>15, <1>16, <1>17, <1>18, <1>19, <1>20, <1>21,
       <1>22, <1>23, <1>24, <1>25, <1>26, <1>27, <1>28, <1>29, <1>30
       DEF Next, Start, Run

(* A pod on which no runner has run.                                         *)
LEMMA InvInit == Init => RunnerInv
  <1> SUFFICES ASSUME Init PROVE RunnerInv
    OBVIOUS
  <1> USE RunnerAssumption, NoTerminalAssumption DEF Init, Phases, NoPhase, Outcomes
  <1>1. TypeOK
    <2>1. events \in Seq([kind : Kinds, phase : Phases \cup {NoPhase}])
      OBVIOUS
    <2>2. unterminated \in BOOLEAN /\ stop \in BOOLEAN
      OBVIOUS
    <2>3. /\ status \in [state : {"none", "ready", "running", "terminal"},
                        child : Phases \cup {NoPhase}]
          /\ process \in [Phases -> {"none", "running", "zero", "nonzero", "killed"}]
          /\ spawned \in [Phases -> Nat]
      OBVIOUS
    <2>4. /\ elapsed \in 0..Cap /\ stamped \in 0..Cap /\ ran \in Nat /\ crashes \in Nat
          /\ shown \subseteq Phases
      OBVIOUS
    <2> QED
      BY <2>1, <2>2, <2>3, <2>4 DEF TypeOK
  <1>2. /\ ~Authorized /\ Completed = {} /\ Failed = {}
        /\ \A p \in Phases : ~Started(p) /\ ~Disabled(p)
    BY DEF Authorized, Completed, Failed, Started, Disabled, Recorded
  <1>3. JournalInv /\ ChildInv /\ PlaceInv /\ TerminalInv /\ ClockInv
    BY <1>2 DEF JournalInv, ChildInv, PlaceInv, TerminalInv, ClockInv, Open, Earned, Concluded
  <1> QED
    BY <1>1, <1>3 DEF RunnerInv

(* The invariant holds in every state of every execution, over any number of    *)
(* crashes at any step.                                                     *)
THEOREM RunnerInvariantSafe == Spec => []RunnerInv
  BY InvInit, InvStep, PTL DEF Spec

(* run spawns an enabled phase at most once, under a journaled authorization, and only     *)
(* after every enabled phase before it exited with 0: a phase with a child has a   *)
(* start record, and a start record means all earlier phases are completed.     *)
THEOREM PhaseOnceInOrderSafe == Spec => []PhaseOnceInOrder
  <1>1. RunnerInv => PhaseOnceInOrder
    BY RunnerAssumption DEF RunnerInv, JournalInv, ChildInv, PhaseOnceInOrder
  <1> QED
    BY <1>1, RunnerInvariantSafe, PTL

(* A succeeded terminal-result.json means every enabled phase exited with 0.     *)
THEOREM SuccessIsEarnedSafe == Spec => []SuccessIsEarned
  <1>1. RunnerInv => SuccessIsEarned
    BY DEF RunnerInv, TerminalInv, Earned, SuccessIsEarned
  <1> QED
    BY <1>1, RunnerInvariantSafe, PTL

(* A phase that runs although terminal-result.json exists was never shown in a    *)
(* heartbeat: _terminate_recorded_process_group finds every child that was.      *)
THEOREM SurvivorWasNeverShownSafe == Spec => []SurvivorWasNeverShown
  <1>1. RunnerInv => SurvivorWasNeverShown
    BY DEF RunnerInv, TerminalInv, Concluded, SurvivorWasNeverShown
  <1> QED
    BY <1>1, RunnerInvariantSafe, PTL

(* The phases together never run longer than the caps allow, though each        *)
(* incarnation of the runner starts a clock of its own: what the clock loses in    *)
(* a crash belongs to an open phase, and after an open phase nothing runs.      *)
THEOREM BudgetSurvivesRestartsSafe == Spec => []BudgetSurvivesRestarts
  <1>1. RunnerInv => BudgetSurvivesRestarts
    BY DEF RunnerInv, ClockInv, BudgetSurvivesRestarts
  <1> QED
    BY <1>1, RunnerInvariantSafe, PTL

(* _write_terminal_once is never undone, and no later process publishes          *)
(* another state than terminal.                                              *)
THEOREM TerminalIsFinalSafe == Spec => TerminalIsFinal
  <1> DEFINE Final ==
        /\ terminal # NoTerminal => terminal' = terminal
        /\ status.state = "terminal" => status'.state = "terminal" /\ terminal # NoTerminal
  <1>1. ASSUME RunnerInv, [Next]_vars PROVE [Final]_vars
    <2> USE <1>1, RunnerAssumption, NoTerminalAssumption
        DEF RunnerInv, TypeOK, TerminalInv, memory, clock, Final
    <2>1. CASE Start
      BY <2>1 DEF Start, StartTerminal, StartAfterFailure, StartInterrupted, StartUnfit,
                  StartFit, Starting, CleanStart, Publish
    <2>2. CASE RecordReady \/ PublishReady \/ LaunchFails \/ Launch \/ WaitHeartbeat
      BY <2>2 DEF RecordReady, PublishReady, LaunchFails, Launch, WaitHeartbeat, Publish
    <2>3. CASE \/ PhaseDisabled \/ LimitBeforePhase \/ PhaseStarts \/ Spawn \/ SpawnFails
               \/ Heartbeat \/ PhaseExits \/ PhaseCompletes \/ PhaseFails \/ PhaseTerminated
               \/ PhasesEnd \/ Tick
      BY <2>3 DEF PhaseDisabled, LimitBeforePhase, PhaseStarts, NextPhase, Spawn, SpawnFails,
                  Heartbeat, PhaseExits, PhaseCompletes, PhaseFails, PhaseTerminated,
                  PhasesEnd, Tick, Publish
    <2>4. CASE WriteTerminalOnce \/ TerminalEvent \/ TerminalStatus
      BY <2>4 DEF WriteTerminalOnce, TerminalEvent, TerminalStatus, Publish
    <2>5. CASE RequestStop \/ PublishToken \/ ChildExits \/ Crash
      BY <2>5 DEF RequestStop, PublishToken, ChildExits, Crash
    <2> QED
      BY <2>1, <2>2, <2>3, <2>4, <2>5 DEF Next, Run
  <1>2. RunnerInv /\ [Next]_vars => [Final]_vars
    BY <1>1
  <1> QED
    BY <1>2, RunnerInvariantSafe, PTL DEF Spec, TerminalIsFinal
=============================================================================
