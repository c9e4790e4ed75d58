-------------------------- MODULE RunnerInvariant ---------------------------
(***************************************************************************)
(* The inductive invariant of Runner: what the journal, the children and the  *)
(* place where the runner stands have to do with each other.                *)
(***************************************************************************)
EXTENDS Runner

Started(p) == Recorded({"phase_started"}, p)
Disabled(p) == Recorded({"phase_disabled"}, p)
Open(p) == Started(p) /\ p \notin Completed

(* Phases are started in order, an outcome follows its start, and only the      *)
(* phase started last may have no success.                                  *)
JournalInv == \A p \in Phases :
    /\ Started(p) => p \in Enabled /\ Authorized
    /\ Started(p) => \A q \in Enabled : q < p => q \in Completed
    /\ p \in Completed => Started(p) /\ process[p] = "zero"
    /\ p \in Failed => Open(p) /\ process[p] # "running"
    /\ Disabled(p) => p \notin Enabled

(* A child exists exactly if its phase was spawned, after its start. *)
ChildInv == \A p \in Phases :
    /\ spawned[p] = IF process[p] = "none" THEN 0 ELSE 1
    /\ process[p] # "none" => Started(p)
    /\ p \in shown => process[p] # "none"
    /\ p \in shown /\ process[p] = "running" => status.child = p

(* Where the runner stands. *)
PlaceInv ==
    /\ pc \in {"resume", "ready", "waiting", "phases"} => \A p \in Phases : ~Open(p)
    /\ pc = "phases" => Authorized
    /\ pc \in {"spawn", "polling", "exited"} => phase \in Phases /\ Open(phase) /\ phase \notin Failed
    /\ pc = "spawn" => process[phase] = "none"
    /\ pc \in {"polling", "exited"} => process[phase] # "none"
    /\ pc = "exited" => process[phase] # "running"
    /\ pc = "finish" => result \in Outcomes

(* The terminal result, before and after it is written. *)
Earned == Authorized /\ \A p \in Enabled : process[p] = "zero"
Concluded == \A p \in shown : process[p] # "running"

TerminalInv ==
    /\ pc \notin {"down", "finish_event", "finish_status", "done"} => terminal = NoTerminal
    /\ pc \in {"finish_event", "finish_status", "done"} => terminal # NoTerminal
    /\ status.state = "terminal" => terminal # NoTerminal
    /\ pc = "finish" /\ result = "succeeded" => Earned
    /\ terminal = "succeeded" => Earned
    /\ pc = "finish" \/ terminal # NoTerminal => Concluded

(* The time the phases ran is in the journal unless a phase is open, and then   *)
(* no later one will run.                                                   *)
ClockInv ==
    /\ stamped <= elapsed
    /\ ran <= Cap
    /\ (\A p \in Phases : ~Open(p)) => ran <= stamped
    /\ pc \in {"spawn", "polling", "exited"} => ran <= elapsed

RunnerInv == TypeOK /\ JournalInv /\ ChildInv /\ PlaceInv /\ TerminalInv /\ ClockInv
=============================================================================
