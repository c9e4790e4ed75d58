------------------------------ MODULE RunStore -------------------------------
(***************************************************************************)
(* run_store.py: the directory of one run.  The journal events.jsonl is     *)
(* authoritative, state.json is a projection replaced after the journal     *)
(* append, and the closeout receipt is written last.  Every writer and      *)
(* reader holds the run's flock, which a crash releases at any step; a crash *)
(* inside the append leaves part of a record behind.                        *)
(*                                                                         *)
(* One reader does not take the lock or look at the journal: the remote     *)
(* executor reads the resource ID from state.json itself (_resource_id).    *)
(***************************************************************************)
EXTENDS Integers, Sequences

CONSTANTS
    Requests,   \* request bodies a caller may plan the run with
    NoRequest,
    NoState,    \* a file that does not exist, a state not found
    MaxEvents,  \* bound on the journal
    MaxCrashes  \* bound on crashes

ASSUME RunStoreAssumption ==
    /\ NoRequest \notin Requests
    /\ MaxEvents \in Nat
    /\ MaxCrashes \in Nat

LifecycleState == {"planned", "provisioning", "starting", "running",
                   "recovering", "deleting", "closed"}

(* Of a projection the store reads the sequence and the lifecycle, the      *)
(* executor the resource.                                                  *)
Projections == [event_sequence : Nat \ {0}, lifecycle : LifecycleState,
                resource : BOOLEAN]

ASSUME NoStateAssumption == NoState \notin Projections

VARIABLES
    request,    \* request.json
    events,     \* the complete records of events.jsonl, as their projections
    tail,       \* what follows the last newline of events.jsonl
    state,      \* state.json
    receipt,    \* receipts/closeout-receipt.json
    pc,         \* what the holder of the flock does next, "free" without one
    projection, \* what it is committing
    returned,   \* the last state a caller was told
    executor,   \* the supervisor: not executing, about to read state.json, ...
    crashes

files == <<request, events, tail, state, receipt>>
vars == <<files, pc, projection, returned, executor, crashes>>

TypeOK ==
    /\ request \in Requests \cup {NoRequest}
    /\ events \in Seq(Projections)
    /\ tail \in {"none", "torn", "unterminated"}
    /\ state \in Projections \cup {NoState}
    /\ receipt \in Projections \cup {NoState}
    /\ pc \in {"free", "commit", "append", "replace", "receipt"}
    /\ projection \in Projections \cup {NoState}
    /\ returned \in Projections \cup {NoState}
    /\ executor \in {"idle", "resource", "dispatched", "failed"}
    /\ crashes \in Nat

Init ==
    /\ request = NoRequest
    /\ events = << >>
    /\ tail = "none"
    /\ state = NoState
    /\ receipt = NoState
    /\ pc = "free"
    /\ projection = NoState
    /\ returned = NoState
    /\ executor = "idle"
    /\ crashes = 0

-----------------------------------------------------------------------------
(* Reading.                                                                *)

Sequence(s) == IF s = NoState THEN 0 ELSE s.event_sequence

(* Mutation of EffectiveState: state.json is preferred to the journal. *)
SnapshotFirst ==
    IF state = NoState /\ events # << >> THEN events[Len(events)] ELSE state

(* _effective_state *)
EffectiveState ==
    IF events # << >> /\ events[Len(events)].event_sequence >= Sequence(state)
    THEN events[Len(events)]
    ELSE state

(* _read_events raises on a tail that is a complete record but for its      *)
(* newline, and truncates any other tail.                                  *)
Readable == tail # "unterminated"
Repair == tail' = "none"

Closed(s) == s # NoState /\ s.lifecycle = "closed"

(* Mutation of EnsureReceipt: any state is given a receipt. *)
ReceiptForAny(s) == receipt' = s

(* _ensure_closeout_receipt: write it if it is missing, raise if it differs. *)
ReceiptAgrees(s) == Closed(s) => receipt \in {NoState, s}
EnsureReceipt(s) == receipt' = IF Closed(s) THEN s ELSE receipt

(* Mutation of ReadState: the reader does not take the lock. *)
ReadWithoutLock ==
    /\ Readable
    /\ EffectiveState # NoState
    /\ ReceiptAgrees(EffectiveState)
    /\ Repair
    /\ EnsureReceipt(EffectiveState)
    /\ returned' = EffectiveState
    /\ UNCHANGED <<request, events, state, pc, projection, executor, crashes>>

(* read_state, and read_closeout_receipt, which calls it. *)
ReadState ==
    /\ pc = "free"
    /\ Readable
    /\ EffectiveState # NoState
    /\ ReceiptAgrees(EffectiveState)
    /\ Repair
    /\ EnsureReceipt(EffectiveState)
    /\ returned' = EffectiveState
    /\ UNCHANGED <<request, events, state, pc, projection, executor, crashes>>

-----------------------------------------------------------------------------
(* Writing.                                                                *)

(* The projection a commit makes of a lifecycle and a resource. *)
Project(lifecycle, resource) ==
    [event_sequence |-> Len(events) + 1, lifecycle |-> lifecycle, resource |-> resource]

(* create_run; with another request than the recorded one it raises.        *)
CreateRun(r) ==
    /\ pc = "free"
    /\ Len(events) < MaxEvents
    /\ request \in {NoRequest, r}
    /\ request = r => Readable /\ EffectiveState = NoState
    /\ request' = r
    /\ Repair
    /\ projection' = Project("planned", FALSE)
    /\ pc' = "commit"
    /\ UNCHANGED <<events, state, receipt, returned, executor, crashes>>

CreateExisting(r) ==
    /\ pc = "free"
    /\ request = r
    /\ Readable
    /\ EffectiveState # NoState
    /\ Repair
    /\ returned' = EffectiveState
    /\ UNCHANGED <<request, events, state, receipt, pc, projection, executor, crashes>>

(* How the controller's commits move the lifecycle: on, not at all, or to a  *)
(* stop.                                                                   *)
NextLifecycle(l) ==
    CASE l = "planned" -> {"provisioning", "deleting"}
      [] l = "provisioning" -> {"provisioning", "starting", "recovering", "deleting"}
      [] l = "starting" -> {"starting", "running", "deleting"}
      [] l = "running" -> {"recovering", "deleting"}
      [] l = "recovering" -> {"deleting"}
      [] l = "deleting" -> {"deleting", "closed"}
      [] OTHER -> {}

(* A transaction reads the current state and commits its successor.  A pod   *)
(* is recorded on the way to starting, or found while deleting; only a stop  *)
(* commits while the supervisor executes the workload.                      *)
Transaction ==
    /\ pc = "free"
    /\ Len(events) < MaxEvents
    /\ Readable
    /\ EffectiveState # NoState
    /\ Repair
    /\ \E l \in NextLifecycle(EffectiveState.lifecycle), found \in BOOLEAN :
          /\ executor = "idle" \/ l = "deleting"
          /\ l = "starting" => found
          /\ l \notin {"starting", "deleting"} => found = EffectiveState.resource
          /\ EffectiveState.resource => found
          /\ projection' = Project(l, found)
    /\ pc' = "commit"
    /\ UNCHANGED <<request, events, state, receipt, returned, executor, crashes>>

(* commit_state: append, replace, receipt.  The append takes several writes. *)
AppendStarts ==
    /\ pc = "commit"
    /\ tail' = "torn"
    /\ pc' = "append"
    /\ UNCHANGED <<request, events, state, receipt, projection, returned, executor, crashes>>

AppendEnds ==
    /\ pc = "append"
    /\ tail = "torn"
    /\ events' = Append(events, projection)
    /\ tail' = "none"
    /\ pc' = "replace"
    /\ UNCHANGED <<request, state, receipt, projection, returned, executor, crashes>>

ReplaceState ==
    /\ pc = "replace"
    /\ state' = projection
    /\ IF Closed(projection)
       THEN pc' = "receipt" /\ UNCHANGED returned
       ELSE pc' = "free" /\ returned' = projection
    /\ UNCHANGED <<request, events, tail, receipt, projection, executor, crashes>>

WriteReceipt ==
    /\ pc = "receipt"
    /\ receipt' = projection
    /\ pc' = "free"
    /\ returned' = projection
    /\ UNCHANGED <<request, events, tail, state, projection, executor, crashes>>

(* The holder of the lock dies, or its write fails.  The append may have     *)
(* stopped anywhere, the byte before the newline included.                  *)
Crash ==
    /\ pc # "free"
    /\ crashes < MaxCrashes
    /\ crashes' = crashes + 1
    /\ pc' = "free"
    /\ IF pc = "append" THEN tail' \in {"torn", "unterminated"} ELSE UNCHANGED tail
    /\ UNCHANGED <<request, events, state, receipt, projection, returned, executor>>

-----------------------------------------------------------------------------
(* The supervisor hands a running run to the remote executor.               *)
Execute ==
    /\ executor = "idle"
    /\ pc = "free"
    /\ Readable
    /\ EffectiveState # NoState
    /\ EffectiveState.lifecycle = "running"
    /\ Repair
    /\ executor' = "resource"
    /\ returned' = EffectiveState
    /\ UNCHANGED <<request, events, state, receipt, pc, projection, crashes>>

(* _resource_id reads state.json, without the lock and without the journal. *)
ReadResource ==
    /\ executor = "resource"
    /\ executor' = IF state # NoState /\ state.resource THEN "dispatched" ELSE "failed"
    /\ UNCHANGED <<files, pc, projection, returned, crashes>>

(* execute returned, raised, or died with the supervisor. *)
ExecuteEnds ==
    /\ executor \in {"dispatched", "failed"}
    /\ executor' = "idle"
    /\ UNCHANGED <<files, pc, projection, returned, crashes>>

Next ==
    \/ ReadState
    \/ \E r \in Requests : CreateRun(r) \/ CreateExisting(r)
    \/ Transaction
    \/ AppendStarts \/ AppendEnds \/ ReplaceState \/ WriteReceipt
    \/ Crash
    \/ Execute \/ ReadResource \/ ExecuteEnds

Spec == Init /\ [][Next]_vars

-----------------------------------------------------------------------------
(* Properties.                                                             *)

(* commit_state and read_state keep the promise of AtomicState: a commit     *)
(* takes effect at one instant, whichever of its three writes a crash cuts   *)
(* off, and the state the code assembles from journal and state.json is      *)
(* always the last one committed.                                           *)
Promise == INSTANCE AtomicState WITH value <- EffectiveState
KeepsPromise == Promise!Spec

(* Nobody truncates a record that is being written: _read_lock keeps readers, *)
(* which repair torn tails, away from an append in progress.                 *)
AppendIsExclusive == pc = "append" => tail = "torn"

(* state.json is always a projection that is in the journal, so losing it, or *)
(* preferring the journal to it in _effective_state, loses nothing.          *)
StateIsJournaled ==
    state # NoState =>
        /\ state.event_sequence \in 1..Len(events)
        /\ events[state.event_sequence] = state

(* A closeout receipt on disk is the closed state itself: whichever of        *)
(* commit_state and a later read_state wrote it, _ensure_closeout_receipt     *)
(* never finds one that differs, which would make the run unreadable.        *)
ReceiptIsTrue ==
    receipt # NoState => Closed(receipt) /\ receipt = EffectiveState

(* What makes them hold at every step: request.json comes first, the journal  *)
(* is numbered without gaps and nothing follows a closed state; a commit in   *)
(* progress carries the next number before its append and is the last record  *)
(* after it.                                                               *)
JournalInv ==
    /\ request = NoRequest => events = << >> /\ pc = "free"
    /\ \A i \in 1..Len(events) : events[i].event_sequence = i
    /\ \A i \in 1..(Len(events) - 1) : events[i].lifecycle # "closed"
    /\ pc \in {"commit", "append"} =>
          /\ projection \in Projections
          /\ projection.event_sequence = Len(events) + 1
          /\ events # << >> => events[Len(events)].lifecycle # "closed"
    /\ pc \in {"replace", "receipt"} => events # << >> /\ projection = events[Len(events)]
    /\ pc = "receipt" => Closed(projection)

Inductive ==
    /\ TypeOK
    /\ JournalInv
    /\ StateIsJournaled
    /\ ReceiptIsTrue
    /\ AppendIsExclusive

-----------------------------------------------------------------------------
(* What the documents say and the code does not do.                        *)

(* run_store.py: "if a process dies between the journal fsync and the         *)
(* projection replace, the latest journal projection is used on recovery".   *)
(* A running run has a recorded pod, so the executor should find its ID.     *)
ResourceIsReadable == executor # "failed"
=============================================================================
