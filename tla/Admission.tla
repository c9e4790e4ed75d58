------------------------------ MODULE Admission ------------------------------
(***************************************************************************)
(* application.JobRunner.run, called by several processes on one host: the   *)
(* approval, the one-active-run rule under the store's admission lock, the   *)
(* reservation of the run's full cap in budget.BudgetLedger, and the run      *)
(* directory up to the launch of the supervisor.  A caller may die at any      *)
(* step, which releases the lock and leaves what it had written.             *)
(* Amounts are small integers for the decimals of the code.                 *)
(***************************************************************************)
EXTENDS Integers, FiniteSets, FiniteSetsExt

CONSTANTS
    Clients,   \* processes that call run
    Runs,      \* fresh run IDs
    Amounts,   \* caps and approvals
    Totals,    \* aggregate authorities a caller may pass with the budget scope
    Nobody,    \* the admission lock is free
    NoRun

ASSUME AdmissionAssumption ==
    /\ Nobody \notin Clients
    /\ NoRun \notin Runs
    /\ IsFiniteSet(Runs)
    /\ Amounts \subseteq Nat \ {0}
    /\ Totals \subseteq Nat \ {0}

Unscoped == 0   \* the caller passes no budget scope
NoLedger == 0   \* the scope's ledger does not exist

VARIABLES
    lock,      \* holder of .admission.lock
    pc,        \* where each client is in run
    call,      \* its arguments: cap of the bundle, total of the budget
    chosen,    \* the run ID it drew
    run,       \* the directory of each run
    charge,    \* cap and total of each planned run, as its client passed them
    total,     \* total_authorized_usd of the ledger
    reserved   \* its reservations, 0 where there is none

vars == <<lock, pc, call, chosen, run, charge, total, reserved>>

Calls == [cap : Amounts \cup {0}, total : Totals \cup {Unscoped}]
NoCall == [cap |-> 0, total |-> Unscoped]

TypeOK ==
    /\ lock \in Clients \cup {Nobody}
    /\ pc \in [Clients -> {"idle", "admit", "active", "reserve", "directory",
                           "request", "commit", "launch"}]
    /\ call \in [Clients -> Calls]
    /\ chosen \in [Clients -> Runs \cup {NoRun}]
    /\ run \in [Runs -> {"none", "empty", "request", "active", "closed"}]
    /\ charge \in [Runs -> Calls]
    /\ total \in Totals \cup {NoLedger}
    /\ reserved \in [Runs -> Amounts \cup {0}]

Init ==
    /\ lock = Nobody
    /\ pc = [c \in Clients |-> "idle"]
    /\ call = [c \in Clients |-> NoCall]
    /\ chosen = [c \in Clients |-> NoRun]
    /\ run = [r \in Runs |-> "none"]
    /\ charge = [r \in Runs |-> NoCall]
    /\ total = NoLedger
    /\ reserved = [r \in Runs |-> 0]

Goto(c, label) == pc' = [pc EXCEPT ![c] = label]

(* run returns or raises, or the process dies: the lock is free again.       *)
Leave(c) ==
    /\ Goto(c, "idle")
    /\ lock' = IF lock = c THEN Nobody ELSE lock
    /\ call' = [call EXCEPT ![c] = NoCall]
    /\ chosen' = [chosen EXCEPT ![c] = NoRun]

(* The job's cap is within the explicit approval. *)
Approve(c) ==
    /\ pc[c] = "idle"
    /\ \E cap, approved \in Amounts, t \in Totals \cup {Unscoped} :
          /\ cap <= approved
          /\ call' = [call EXCEPT ![c] = [cap |-> cap, total |-> t]]
    /\ Goto(c, "admit")
    /\ UNCHANGED <<lock, chosen, run, charge, total, reserved>>

(* Mutation of Admit: the admission lock is not taken. *)
AdmitWithoutLock(c) ==
    /\ pc[c] = "admit"
    /\ Goto(c, "active")
    /\ UNCHANGED <<lock, call, chosen, run, charge, total, reserved>>

Admit(c) ==
    /\ pc[c] = "admit"
    /\ lock = Nobody
    /\ lock' = c
    /\ Goto(c, "active")
    /\ UNCHANGED <<call, chosen, run, charge, total, reserved>>

(* active_run_ids reads the state of every run directory and raises on one    *)
(* that has none.                                                          *)
Unreadable == {r \in Runs : run[r] \in {"empty", "request"}}
Active == {r \in Runs : run[r] = "active"}

RefuseActive(c) ==
    /\ pc[c] = "active"
    /\ Unreadable \cup Active # {}
    /\ Leave(c)
    /\ UNCHANGED <<run, charge, total, reserved>>

(* Mutation of DrawRun: a run directory without a journal is passed over. *)
DrawDespiteUnreadable(c) ==
    /\ pc[c] = "active"
    /\ Active = {}
    /\ \E r \in Runs : run[r] = "none" /\ reserved[r] = 0 /\ chosen' = [chosen EXCEPT ![c] = r]
    /\ Goto(c, IF call[c].total = Unscoped THEN "directory" ELSE "reserve")
    /\ UNCHANGED <<lock, call, run, charge, total, reserved>>

DrawRun(c) ==
    /\ pc[c] = "active"
    /\ Unreadable \cup Active = {}
    /\ \E r \in Runs : run[r] = "none" /\ reserved[r] = 0 /\ chosen' = [chosen EXCEPT ![c] = r]
    /\ Goto(c, IF call[c].total = Unscoped THEN "directory" ELSE "reserve")
    /\ UNCHANGED <<lock, call, run, charge, total, reserved>>

(* Mutation of ReservedSum: a closed run gives its reservation back. *)
ReservedByOpenRuns ==
    MapThenSumSet(LAMBDA r : reserved[r], {r \in Runs : run[r] # "closed"})

(* BudgetLedger.reserve, under the ledger's own lock.  Nothing is refunded.   *)
ReservedSum == MapThenSumSet(LAMBDA r : reserved[r], Runs)

MayReserve(c) ==
    /\ total \in {NoLedger, call[c].total}
    /\ ReservedSum + call[c].cap <= call[c].total

(* Mutation of Reserve: the entry holds the new sum, not the run's cap. *)
ReserveSum(c) ==
    /\ pc[c] = "reserve"
    /\ MayReserve(c)
    /\ total' = call[c].total
    /\ reserved' = [reserved EXCEPT ![chosen[c]] = ReservedSum + call[c].cap]
    /\ Goto(c, "directory")
    /\ UNCHANGED <<lock, call, chosen, run, charge>>

Reserve(c) ==
    /\ pc[c] = "reserve"
    /\ MayReserve(c)
    /\ total' = call[c].total
    /\ reserved' = [reserved EXCEPT ![chosen[c]] = call[c].cap]
    /\ Goto(c, "directory")
    /\ UNCHANGED <<lock, call, chosen, run, charge>>

RefuseBudget(c) ==
    /\ pc[c] = "reserve"
    /\ ~MayReserve(c)
    /\ Leave(c)
    /\ UNCHANGED <<run, charge, total, reserved>>

(* The tokens and keys are the first files of the run's directory. *)
MakeDirectory(c) ==
    /\ pc[c] = "directory"
    /\ run' = [run EXCEPT ![chosen[c]] = "empty"]
    /\ Goto(c, "request")
    /\ UNCHANGED <<lock, call, chosen, charge, total, reserved>>

(* create_run: request.json, then the first journal record. *)
WriteRequest(c) ==
    /\ pc[c] = "request"
    /\ run' = [run EXCEPT ![chosen[c]] = "request"]
    /\ charge' = [charge EXCEPT ![chosen[c]] = call[c]]
    /\ Goto(c, "commit")
    /\ UNCHANGED <<lock, call, chosen, total, reserved>>

CommitPlanned(c) ==
    /\ pc[c] = "commit"
    /\ run' = [run EXCEPT ![chosen[c]] = "active"]
    /\ Goto(c, "launch")
    /\ UNCHANGED <<lock, call, chosen, charge, total, reserved>>

(* systemd accepts the unit or refuses it; the run is planned either way.     *)
Launch(c) ==
    /\ pc[c] = "launch"
    /\ Leave(c)
    /\ UNCHANGED <<run, charge, total, reserved>>

(* The process dies, or a step raises: half a budget, a file that fails. *)
Die(c) ==
    /\ pc[c] # "idle"
    /\ Leave(c)
    /\ UNCHANGED <<run, charge, total, reserved>>

(* The supervisor closes a run, at any time and without the admission lock.   *)
Close(r) ==
    /\ run[r] = "active"
    /\ run' = [run EXCEPT ![r] = "closed"]
    /\ UNCHANGED <<lock, pc, call, chosen, charge, total, reserved>>

Next ==
    \/ \E c \in Clients :
          \/ Approve(c) \/ Admit(c) \/ RefuseActive(c) \/ DrawRun(c)
          \/ Reserve(c) \/ RefuseBudget(c) \/ MakeDirectory(c)
          \/ WriteRequest(c) \/ CommitPlanned(c) \/ Launch(c) \/ Die(c)
    \/ \E r \in Runs : Close(r)

Spec == Init /\ [][Next]_vars

-----------------------------------------------------------------------------
(* Properties.                                                             *)

(* Two callers of JobRunner.run never both get a run that is still active,     *)
(* although the check and the first journal record are many steps apart.     *)
OneActiveRun == Cardinality(Active) <= 1

(* The caps of all runs ever planned under a budget scope stay within the one  *)
(* total the principal granted, over refusals, crashes between reservation    *)
(* and plan, and calls that pass another total.                             *)
Scoped == {r \in Runs : run[r] \in {"active", "closed"} /\ charge[r].total # Unscoped}

SpendWithinAuthority ==
    /\ \A r \in Scoped : charge[r].total = total
    /\ MapThenSumSet(LAMBDA r : charge[r].cap, Scoped) <= total

(* Seen from the principal who grants the total, budget.BudgetLedger is one      *)
(* counter (Authority), whatever number of callers meet at it, die between its    *)
(* steps, or pass another total.                                            *)
Ledger == INSTANCE Authority WITH granted <- total, committed <- ReservedSum

ImplementsAuthority == Ledger!Spec

(* The directories that a dead caller left before the first journal record.       *)
Orphans == {r \in Unreadable : \A c \in Clients : chosen[c] # r}

(* One of them is the end of JobRunner.run on this host: active_run_ids raises    *)
(* for every later caller, so no run is planned and nothing is reserved again,    *)
(* and no step of the code removes it.                                       *)
OrphanBlocks ==
    [][Orphans # {} => /\ Orphans \subseteq Orphans'
                       /\ Active' \subseteq Active
                       /\ reserved' = reserved]_vars

-----------------------------------------------------------------------------
(* What the documents say and the code does not do.                        *)

(* run_store.py: "A crash after writing request.json but before the first      *)
(* event is safe to resume with the same immutable request."  run never       *)
(* resumes: each call draws a new ID.  A call that holds the admission lock    *)
(* and meets such a run gets RunNotFoundError from active_run_ids, and so does *)
(* every call after it.                                                     *)
CrashIsSafe == \A c \in Clients : pc[c] = "active" => \A r \in Runs : run[r] # "request"
=============================================================================
