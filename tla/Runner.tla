------------------------------- MODULE Runner --------------------------------
(***************************************************************************)
(* runner.RemoteRunner: the process on the pod that waits for the launch     *)
(* token and runs the phases of one request, each at most once.  Its memory  *)
(* is lost in a crash; events.jsonl, status.json and terminal-result.json    *)
(* remain, and so may the child process of the phase that was running.       *)
(*                                                                         *)
(* What the constructor recovers from the journal (_recover_history) is      *)
(* derived from events here; while the process lives its own fields say the  *)
(* same.  A record cut short by a crash is truncated by the next start and    *)
(* therefore never appears; one that only lacks its newline stops every start. *)
(***************************************************************************)
EXTENDS Integers, Sequences

CONSTANTS
    Last,        \* the phases are 1..Last, in PHASE_ORDER
    Enabled,     \* the phases the request enables
    NoTerminal,  \* terminal-result.json does not exist
    Cap,         \* the elapsed cap, or the cost cap in time at the hourly price
    MaxCrashes   \* bound on crashes

Phases == 1..Last

ASSUME RunnerAssumption ==
    /\ Last \in Nat \ {0}
    /\ Enabled \subseteq Phases
    /\ Cap \in Nat \ {0}
    /\ MaxCrashes \in Nat

Outcomes == {"succeeded", "failed", "stopped", "timed_out", "limit_exceeded"}
Kinds == {"ready", "runner_resumed", "launch_authorized", "phase_started",
          "phase_completed", "phase_failed", "phase_start_failed",
          "phase_disabled", "terminal"}
NoPhase == 0

ASSUME NoTerminalAssumption == NoTerminal \notin Outcomes

VARIABLES
    events,      \* the complete records of events.jsonl
    unterminated,\* its last record lacks only the newline
    terminal,    \* the outcome in terminal-result.json
    status,      \* status.json: the state and whose pid it shows
    token,       \* the launch token on the run's storage
    process,     \* the child process of each phase
    spawned,     \* how often each phase was started (history)
    shown,       \* the phases whose live child status.json has shown (history)
    elapsed,     \* _elapsed_seconds; without a process, what the next one starts from
    stamped,     \* the latest elapsed time in events.jsonl or status.json
    ran,         \* how long the phases ran in all, under a live runner (history)
    pc, phase, result, stop,  \* the runner's memory
    crashes

memory == <<pc, phase, result, stop>>
clock == <<elapsed, stamped, ran>>
vars == <<events, unterminated, terminal, status, token, process, spawned, shown,
          clock, memory, crashes>>

TypeOK ==
    /\ events \in Seq([kind : Kinds, phase : Phases \cup {NoPhase}])
    /\ unterminated \in BOOLEAN
    /\ terminal \in Outcomes \cup {NoTerminal}
    /\ status \in [state : {"none", "ready", "running", "terminal"},
                   child : Phases \cup {NoPhase}]
    /\ token \in {"absent", "valid", "invalid"}
    /\ process \in [Phases -> {"none", "running", "zero", "nonzero", "killed"}]
    /\ spawned \in [Phases -> Nat]
    /\ shown \subseteq Phases
    /\ elapsed \in 0..Cap /\ stamped \in 0..Cap /\ ran \in Nat
    /\ pc \in {"down", "resume", "ready", "waiting", "phases", "spawn", "polling", "exited",
               "finish", "finish_event", "finish_status", "done"}
    /\ phase \in Phases \cup {NoPhase}
    /\ result \in Outcomes \cup {NoTerminal}
    /\ stop \in BOOLEAN
    /\ crashes \in Nat

Init ==
    /\ events = << >>
    /\ unterminated = FALSE
    /\ terminal = NoTerminal
    /\ status = [state |-> "none", child |-> NoPhase]
    /\ token = "absent"
    /\ process = [p \in Phases |-> "none"]
    /\ spawned = [p \in Phases |-> 0]
    /\ shown = {}
    /\ elapsed = 0 /\ stamped = 0 /\ ran = 0
    /\ pc = "down"
    /\ phase = NoPhase
    /\ result = NoTerminal
    /\ stop = FALSE
    /\ crashes = 0

-----------------------------------------------------------------------------
(* What the journal says.                                                  *)

Recorded(kinds, p) == \E i \in DOMAIN events : events[i].kind \in kinds /\ events[i].phase = p

Authorized == Recorded({"launch_authorized"}, NoPhase)

Completed == {p \in Phases : Recorded({"phase_completed"}, p)}
Settled == Completed \cup {p \in Phases : Recorded({"phase_disabled"}, p)}
Failed == {p \in Phases : Recorded({"phase_failed", "phase_start_failed"}, p)}

(* Mutation of Interrupted: a phase without an outcome is forgotten. *)
InterruptedForgotten == {}

(* Started, and its outcome is not in the journal. *)
Interrupted == {p \in Phases : Recorded({"phase_started"}, p)} \ (Completed \cup Failed)

(* _append_event, _publish_status *)
Record(kind, p) ==
    /\ events' = Append(events, [kind |-> kind, phase |-> p])
    /\ stamped' = elapsed

Publish(state, p) ==
    /\ status' = [state |-> state, child |-> p]
    /\ stamped' = elapsed

(* return self._finish(self._terminal_result(outcome, ..., p)) *)
Finish(outcome, p) ==
    /\ result' = outcome
    /\ phase' = p
    /\ pc' = "finish"
    /\ UNCHANGED stop

Continue(label) == pc' = label /\ UNCHANGED <<phase, result, stop>>

-----------------------------------------------------------------------------
(* A new runner process: __init__ and the first half of run.                *)

Starting == pc = "down" /\ ~unterminated

StartTerminal ==
    /\ Starting
    /\ terminal # NoTerminal
    /\ Publish("terminal", NoPhase)
    /\ Continue("done")
    /\ UNCHANGED <<events, unterminated, terminal, token, process, spawned, shown,
                   elapsed, ran, crashes>>

StartAfterFailure ==
    /\ Starting
    /\ terminal = NoTerminal
    /\ \E p \in Failed : Finish("failed", p)
    /\ UNCHANGED <<events, unterminated, terminal, status, token, process, spawned,
                   shown, clock, crashes>>

(* Mutation of StartInterrupted: the recorded child is not killed. *)
StartWithoutKill ==
    /\ Starting
    /\ terminal = NoTerminal
    /\ Failed = {}
    /\ \E p \in Interrupted : Finish("failed", p)
    /\ UNCHANGED <<events, unterminated, terminal, status, token, process, spawned,
                   shown, clock, crashes>>

(* The phase is not run again.  _terminate_recorded_process_group kills the   *)
(* child, if status.json shows it.                                          *)
StartInterrupted ==
    /\ Starting
    /\ terminal = NoTerminal
    /\ Failed = {}
    /\ \E p \in Interrupted :
          /\ Finish("failed", p)
          /\ process' = IF status.child = p /\ process[p] = "running"
                        THEN [process EXCEPT ![p] = "killed"]
                        ELSE process
    /\ UNCHANGED <<events, unterminated, terminal, status, token, spawned, shown,
                   clock, crashes>>

(* Mutation of CleanStart: the terminal result is not looked at. *)
StartDespiteTerminal == Starting /\ Failed = {} /\ Interrupted = {}

CleanStart ==
    /\ Starting
    /\ terminal = NoTerminal
    /\ Failed = {}
    /\ Interrupted = {}

(* The identity of the image or the storage is not what the request asks.    *)
StartUnfit ==
    /\ CleanStart
    /\ Finish("failed", NoPhase)
    /\ UNCHANGED <<events, unterminated, terminal, status, token, process, spawned,
                   shown, clock, crashes>>

StartFit ==
    /\ CleanStart
    /\ Continue("resume")
    /\ UNCHANGED <<events, unterminated, terminal, status, token, process, spawned,
                   shown, clock, crashes>>

RecordReady ==
    /\ pc = "resume"
    /\ Record(IF events = << >> THEN "ready" ELSE "runner_resumed", NoPhase)
    /\ Continue("ready")
    /\ UNCHANGED <<unterminated, terminal, status, token, process, spawned, shown,
                   elapsed, ran, crashes>>

PublishReady ==
    /\ pc = "ready"
    /\ Publish("ready", NoPhase)
    /\ Continue("waiting")
    /\ UNCHANGED <<events, unterminated, terminal, token, process, spawned, shown,
                   elapsed, ran, crashes>>

-----------------------------------------------------------------------------
(* _wait_for_launch_authorization                                          *)

(* Mutation of LaunchFails: no timeout. *)
LaunchWithoutTimeout ==
    /\ pc = "waiting"
    /\ stop \/ token = "invalid"
    /\ Finish("failed", NoPhase)
    /\ UNCHANGED <<events, unterminated, terminal, status, token, process, spawned,
                   shown, clock, crashes>>

LaunchFails ==
    /\ pc = "waiting"
    /\ stop \/ token # "valid"      \* stopped, invalid token, or timeout
    /\ Finish("failed", NoPhase)
    /\ UNCHANGED <<events, unterminated, terminal, status, token, process, spawned,
                   shown, clock, crashes>>

(* Mutation of Launch: every incarnation records an authorization. *)
LaunchAnew ==
    /\ pc = "waiting"
    /\ ~stop
    /\ token = "valid"
    /\ Record("launch_authorized", NoPhase)
    /\ Continue("phases")
    /\ UNCHANGED <<unterminated, terminal, status, token, process, spawned, shown,
                   elapsed, ran, crashes>>

Launch ==
    /\ pc = "waiting"
    /\ ~stop
    /\ token = "valid"
    /\ IF Authorized THEN UNCHANGED <<events, stamped>>
                     ELSE Record("launch_authorized", NoPhase)
    /\ Continue("phases")
    /\ UNCHANGED <<unterminated, terminal, status, token, process, spawned, shown,
                   elapsed, ran, crashes>>

(* The ready status is published again while the runner waits. *)
WaitHeartbeat ==
    /\ pc = "waiting"
    /\ Publish("ready", NoPhase)
    /\ UNCHANGED <<events, unterminated, terminal, token, process, spawned, shown,
                   elapsed, ran, memory, crashes>>

-----------------------------------------------------------------------------
(* The loop over PHASE_ORDER, and _run_phase.                               *)

NextPhase(p) ==
    /\ pc = "phases"
    /\ p \in Phases \ Settled
    /\ \A q \in Phases \ Settled : p <= q

PhaseDisabled ==
    /\ \E p \in Phases \ Enabled : NextPhase(p) /\ Record("phase_disabled", p)
    /\ Continue("phases")
    /\ UNCHANGED <<unterminated, terminal, status, token, process, spawned, shown,
                   elapsed, ran, crashes>>

LimitReached == elapsed >= Cap

LimitBeforePhase ==
    /\ LimitReached
    /\ \E p \in Enabled : NextPhase(p) /\ Finish("limit_exceeded", phase)
    /\ UNCHANGED <<events, unterminated, terminal, status, token, process, spawned,
                   shown, clock, crashes>>

PhaseStarts ==
    /\ ~LimitReached
    /\ \E p \in Enabled : NextPhase(p) /\ Record("phase_started", p) /\ phase' = p
    /\ pc' = "spawn"
    /\ UNCHANGED <<unterminated, terminal, status, token, process, spawned, shown,
                   result, stop,
                   elapsed, ran, crashes>>

Spawn ==
    /\ pc = "spawn"
    /\ process' = [process EXCEPT ![phase] = "running"]
    /\ spawned' = [spawned EXCEPT ![phase] = @ + 1]
    /\ Continue("polling")
    /\ UNCHANGED <<events, unterminated, terminal, status, token, shown,
                   clock, crashes>>

SpawnFails ==
    /\ pc = "spawn"
    /\ Record("phase_start_failed", phase)
    /\ Finish("failed", phase)
    /\ UNCHANGED <<unterminated, terminal, status, token, process, spawned, shown,
                   elapsed, ran, crashes>>

Heartbeat ==
    /\ pc = "polling"
    /\ process[phase] = "running"
    /\ Publish("running", phase)
    /\ shown' = shown \cup {phase}
    /\ UNCHANGED <<events, unterminated, terminal, token, process, spawned, memory,
                   elapsed, ran, crashes>>

(* poll returns an exit code: publish it, then journal it. *)
PhaseExits ==
    /\ pc = "polling"
    /\ process[phase] # "running"
    /\ Publish("running", phase)
    /\ Continue("exited")
    /\ UNCHANGED <<events, unterminated, terminal, token, process, spawned, shown,
                   elapsed, ran, crashes>>

(* Mutation of PhaseCompletes: the exit code is not looked at. *)
CompletesAnyway ==
    /\ pc = "exited"
    /\ Record("phase_completed", phase)
    /\ Continue("phases")
    /\ UNCHANGED <<unterminated, terminal, status, token, process, spawned, shown,
                   elapsed, ran, crashes>>

PhaseCompletes ==
    /\ pc = "exited"
    /\ process[phase] = "zero"
    /\ Record("phase_completed", phase)
    /\ Continue("phases")
    /\ UNCHANGED <<unterminated, terminal, status, token, process, spawned, shown,
                   elapsed, ran, crashes>>

PhaseFails ==
    /\ pc = "exited"
    /\ process[phase] # "zero"
    /\ Record("phase_failed", phase)
    /\ Finish("failed", phase)
    /\ UNCHANGED <<unterminated, terminal, status, token, process, spawned, shown,
                   elapsed, ran, crashes>>

(* A stop, the phase's timeout or a cap: _terminate_process_group.  The child  *)
(* may have exited since the loop polled it; the outcome is the same.         *)
PhaseTerminated ==
    /\ pc = "polling"
    /\ process' = [process EXCEPT ![phase] = IF @ = "running" THEN "killed" ELSE @]
    /\ \/ stop /\ Finish("stopped", phase)
       \/ ~stop /\ Finish("timed_out", phase)
       \/ ~stop /\ LimitReached /\ Finish("limit_exceeded", phase)
    /\ UNCHANGED <<events, unterminated, terminal, status, token, spawned, shown,
                   clock, crashes>>

(* Every phase is settled; the declared artifacts check, or they do not. *)
PhasesEnd ==
    /\ pc = "phases"
    /\ Phases \subseteq Settled
    /\ \E outcome \in {"succeeded", "failed"} : Finish(outcome, phase)
    /\ UNCHANGED <<events, unterminated, terminal, status, token, process, spawned,
                   shown, clock, crashes>>

(* Time passes in the two loops; beyond the cap it makes no difference, and     *)
(* the loop over a phase does not go on there.  Time spent between them is left *)
(* out, and so is the time without a process, which the code does not count.   *)
Tick ==
    /\ pc \in {"waiting", "polling"}
    /\ ~LimitReached
    /\ elapsed' = elapsed + 1
    /\ ran' = IF pc = "polling" THEN ran + 1 ELSE ran
    /\ UNCHANGED <<events, unterminated, terminal, status, token, process, spawned,
                   shown, stamped, memory, crashes>>

-----------------------------------------------------------------------------
(* _finish: terminal-result.json by link(2), never replaced; event; status. *)

WriteTerminalOnce ==
    /\ pc = "finish"
    /\ terminal' = IF terminal = NoTerminal THEN result ELSE terminal
    /\ Continue("finish_event")
    /\ UNCHANGED <<events, unterminated, status, token, process, spawned, shown,
                   clock, crashes>>

TerminalEvent ==
    /\ pc = "finish_event"
    /\ Record("terminal", phase)
    /\ Continue("finish_status")
    /\ UNCHANGED <<unterminated, terminal, status, token, process, spawned, shown,
                   elapsed, ran, crashes>>

TerminalStatus ==
    /\ pc = "finish_status"
    /\ Publish("terminal", NoPhase)
    /\ Continue("done")
    /\ UNCHANGED <<events, unterminated, terminal, token, process, spawned, shown,
                   elapsed, ran, crashes>>

-----------------------------------------------------------------------------
(* The runner's surroundings.                                              *)

(* SIGTERM or SIGINT. *)
RequestStop ==
    /\ pc # "down"
    /\ stop' = TRUE
    /\ UNCHANGED <<events, unterminated, terminal, status, token, process, spawned,
                   shown, pc, phase, result, clock, crashes>>

(* The controller publishes the launch token after it has seen a ready status;  *)
(* by then the runner may have gone on, or down.  LaunchBarrier has the detail. *)
PublishToken ==
    /\ status.state # "none"
    /\ token = "absent"
    /\ token' \in {"valid", "invalid"}
    /\ UNCHANGED <<events, unterminated, terminal, status, process, spawned, shown,
                   memory, clock, crashes>>

(* A phase's process ends by itself, with or without the runner. *)
ChildExits ==
    /\ \E p \in Phases :
          /\ process[p] = "running"
          /\ \E code \in {"zero", "nonzero"} : process' = [process EXCEPT ![p] = code]
    /\ UNCHANGED <<events, unterminated, terminal, status, token, spawned, shown,
                   memory, clock, crashes>>

(* Mutation of PriorElapsed: a new process begins at 0. *)
PriorForgotten == 0

(* _prior_elapsed_seconds, read by the process that follows a crash. *)
PriorElapsed == stamped

Appending == pc \in {"resume", "waiting", "phases", "spawn", "exited", "finish_event"}

(* The runner dies, with its container or alone; a record may be left without *)
(* its newline.                                                            *)
Crash ==
    /\ pc # "down"
    /\ crashes < MaxCrashes
    /\ crashes' = crashes + 1
    /\ pc' = "down"
    /\ phase' = NoPhase
    /\ result' = NoTerminal
    /\ stop' = FALSE
    /\ elapsed' = PriorElapsed
    /\ process' \in {process,
          [p \in Phases |-> IF process[p] = "running" THEN "killed" ELSE process[p]]}
    /\ unterminated' \in BOOLEAN
    /\ unterminated' => Appending
    /\ UNCHANGED <<events, terminal, status, token, spawned, shown, stamped, ran>>

Start == StartTerminal \/ StartAfterFailure \/ StartInterrupted \/ StartUnfit \/ StartFit

Run ==
    \/ RecordReady \/ PublishReady \/ LaunchFails \/ Launch \/ WaitHeartbeat
    \/ PhaseDisabled \/ LimitBeforePhase \/ PhaseStarts \/ Spawn \/ SpawnFails
    \/ Heartbeat \/ PhaseExits \/ PhaseCompletes \/ PhaseFails \/ PhaseTerminated
    \/ PhasesEnd \/ Tick
    \/ WriteTerminalOnce \/ TerminalEvent \/ TerminalStatus

Next == Start \/ Run \/ RequestStop \/ PublishToken \/ ChildExits \/ Crash

Spec == Init /\ [][Next]_vars

(* A runner that is not killed keeps running; whether it is started again     *)
(* after a crash is not assumed.                                           *)
FairSpec == Spec /\ WF_vars(Run)

-----------------------------------------------------------------------------
(* Properties.                                                             *)

(* A restart may resume a waiting, running or terminal state but is never a   *)
(* second workload (docs/security-and-operations.md:43-45): over every crash, *)
(* whether or not the child outlives the runner, run spawns each phase at     *)
(* most once, only if it is enabled, only under a journaled authorization, and  *)
(* only after every enabled phase before it exited with 0; so no two phases run  *)
(* at a time either.                                                        *)
PhaseOnceInOrder ==
    \A p \in Phases : spawned[p] > 0 =>
        /\ spawned[p] = 1
        /\ p \in Enabled /\ Authorized
        /\ \A q \in Enabled : q < p => process[q] = "zero"

(* A succeeded terminal result is earned: every enabled phase exited with 0,   *)
(* possibly under several incarnations of the runner.                        *)
SuccessIsEarned ==
    terminal = "succeeded" => \A p \in Enabled : process[p] = "zero"

(* terminal-result.json is written once and the status it led to is never      *)
(* taken back by a restart.                                                 *)
TerminalIsFinal ==
    [][/\ terminal # NoTerminal => terminal' = terminal
       /\ status.state = "terminal" => status'.state = "terminal" /\ terminal # NoTerminal]_vars

(* When the terminal result is published, a phase still runs only if its       *)
(* runner died before the first heartbeat showed the child's pid.            *)
SurvivorWasNeverShown ==
    terminal # NoTerminal =>
        \A p \in Phases : process[p] = "running" => p \notin shown

(* A restart hands no budget back: what the phases ran under all incarnations   *)
(* of the runner together stays within the caps (_limit_reason,                *)
(* _prior_elapsed_seconds), though each incarnation starts its own clock.      *)
BudgetSurvivesRestarts == ran <= Cap

(* A runner that is not killed reaches a terminal result: it does not wait      *)
(* for a token, a phase or an exit for ever.                                 *)
ReachesTerminal == (pc # "down") ~> (terminal # NoTerminal \/ pc = "down")
=============================================================================
