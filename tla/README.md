# TLA+ specification of runpod-jobrunner

`runpod-jobrunner` runs one paid batch job on one rented GPU pod. It must never
pay for a second pod, never report a run as closed while something is still
billed, and never lose the record of what became of the job's artifacts, although
the controller process, the provider's answers, the SFTP link and the pod itself
may all fail at any moment. This directory holds the models of the parts that
carry those promises, the TLC runs over small instances, and the TLAPS proofs
that hold for every value of the constants.

Paths below are relative to `src/runpod_jobrunner/` of the repository unless they
name a document.

## 1. The system

### Components

| Part | State it keeps | Operations | Hard behaviour |
|---|---|---|---|
| Lifecycle controller, `lifecycle.py` | the run's projection: lifecycle, workload result, disposition, provision/start/delete operations, pods, closeout proofs | `plan`, `reconcile`, `record_workload_result`, `record_artifact_disposition`, `request_stop` | a create whose answer is lost; pods listed late; duplicates; absence and spend as evidence |
| Supervisor engine, `application.py` `SupervisorEngine.drive` | the observation of the executor, in memory only | reads the status, calls one controller method or the executor, repeats | decides on a status read without the lock; dies anywhere; is restarted by systemd |
| Run admission, `application.py` `JobRunner.run` | the store's admission lock, the run directory as it is built | approve, check for an active run, reserve, create, launch | two callers at once; a caller that dies half way |
| Budget ledger, `budget.py` | one JSON file per scope | `reserve` | totals that differ between calls, reservations of runs that never start |
| Run store, `run_store.py` | `request.json`, `events.jsonl`, `state.json`, closeout receipt | `create_run`, `transaction`/`commit_state`, `read_state`, `read_closeout_receipt` | a crash between any two writes; torn tails repaired by readers |
| RunPod adapter, `runpod_provider.py`, `provider.py` | none | `find_resources`, `create`, `get`, `start`, `delete`, `spend` | outcome unknown after a POST; a check that fails after the pod exists |
| Remote runner, `runner.py` | event journal, `status.json`, `terminal-result.json`, the child process | launch barrier, phases, limits, `_finish` | restarts while a child still lives; a phase whose outcome was never recorded; caps measured by a process that may die |
| Remote executor, `remote_executor.py` | receipts and mirrored files under the run directory | connectivity, inputs, launch token, polling, incremental mirror, acknowledgements, final recovery | every remote call may have an unknown outcome; restart in every step |
| SFTP transfer, `transfer.py` | none | `discover`, `fetch`, `download`, `upload`, `publish_atomic` | a rename that lands after its caller gave up |
| Acknowledgement and launch tokens, `incremental_ack.py`, `launch_authorization.py` | a key and a token per run | sign, verify | bind exactly one receipt, one run |
| Supervision, `supervision.py` | systemd units | `launch`, `wake` | `wake` kills a supervisor in the middle of a call |
| Status endpoint, `status_http.py` | none | serves `status.json` to an authenticated caller | a restarted runner serves the record its predecessor left |
| Bundle, identity, protocol, local executor, CLI | none | read, parse, validate, print | none that outlives a call |

### How they interact

`JobRunner.run` admits a job and launches a systemd unit. The unit runs `drive`,
which reads the run's status and calls either the controller (which holds the
run's `flock`, asks the provider and commits one state through the run store) or
the remote executor (which talks to the runner on the pod over HTTP status and
SFTP and returns one observation). An operator's `stop` commits through the same
controller from another process and then restarts the unit. The runner on the pod
is on its own: it sees the controller only as files that appear in its storage.

## 2. Modules

| Module | Models | Checked by |
|---|---|---|
| `RunPodProvider` | the provider as the adapter shows it (RunPod itself is external) | through `Lifecycle` |
| `Lifecycle` | projection, controller, `drive`, operator, clock, provider | `MCLifecycle`, two configurations |
| `LifecycleInvariant` | the inductive invariant of `Lifecycle` | `Lifecycle.cfg` and the proofs |
| `RunContract` | what one run promises the principal: one order, one pod, nothing billed after the close | as the target of a refinement |
| `LifecycleProofs` | invariant, properties and refinement of `Lifecycle` | TLAPS |
| `AtomicState` | what the run store promises: one atomic, durable value | as the target of a refinement |
| `RunStore` | the run directory write by write; the executor's unlocked read | `MCRunStore`, two configurations |
| `RunStoreProofs` | invariant and refinement of `RunStore` | TLAPS |
| `Runner` | the runner process on the pod, its children and its clock | `Runner.cfg` |
| `RunnerInvariant`, `RunnerProofs` | inductive invariant of `Runner` and its theorems | TLAPS |
| `LaunchBarrier` | `execute` up to the launch and its result, the status endpoint, and the runner: extends `Runner` and implements it | two configurations |
| `BarrierInvariant` | the inductive invariant of the composition | `LaunchBarrier.cfg` and the proofs |
| `LaunchBarrierProofs` | invariant of the composition, the refinement | TLAPS |
| `Admission` | concurrent calls of `JobRunner.run`, and the ledger | `MCAdmission`, two configurations |
| `Authority` | what the budget ledger promises: one total, commitments within it, none given back | as the target of a refinement |
| `AdmissionInvariant` | the inductive invariant of `Admission` | `Admission.cfg` and the proofs |
| `AdmissionProofs` | one active run, the sum of the caps, the refinement, what an abandoned directory does | TLAPS |
| `SumTheorems` | sums over finite sets: what adding, replacing and enlarging do | TLAPS |
| `IncrementalMirror` | the executor's polling loop from a running workload to its return | three configurations |
| `MirrorInvariant` | the inductive invariant of `IncrementalMirror` | `IncrementalMirror.cfg` and the proofs |
| `IncrementalMirrorProofs` | the theorems about `IncrementalMirror` | TLAPS |

The `MC` modules only add symmetry sets. `PROJECT.json` maps every definition to the
lines it stands for.

### `Lifecycle` with `RunPodProvider`

The durable variables are the fields of the projection (`provision` is
`operations.provision.status`, `acked` is `delete_acknowledged_resource_ids`, and
so on); `pc` and `observation` are the supervisor's memory; `pod`, `bad`, `hidden`,
`owed` are the provider. A controller method holds the flock and makes at most one
provider call that changes anything, so a provider query and the commit of what it
showed are one action: other processes only see the commit, and a provider that
moves between query and commit could as well have moved after it. What is split is
what a crash can split: `ProvisionDispatch` (the intent is durable), `CreatePost`
(the request reached RunPod), the answer; and delete and start, which may take
effect while the caller dies (`DeleteFails`, `StartFails`). A crash before a query's
commit is a crash before the action.

`_reconcile_provision` is `ReconcileProvision` and `Create`, `_reconcile_start` is
`ReconcileStart`, `_reconcile_delete` is `ResolveProvision` (was a pod created at
all?) and `ReconcileDelete` (delete, confirm absence, account, close). `drive` is
`ReadStatus`, which reads without the lock, followed by the chosen step: between
the two an `OperatorStop` may commit. Of an observed pod the controller only asks
whether it runs and whether it passes the adapter's checks, so all checks are the
one predicate `bad`, which may become true at any time.

`pc = "unlaunched"` is a run that no unit drives: `Plan` ends there when `systemd-run`
fails, and `Crash` may, when the host goes down and the transient unit with it. systemd
restarts only a unit that exists (`Restart`, from `down`); an unlaunched run waits for an
operator's `recover` or `stop` (`Wake`) and until then blocks every later admission.

`execute` reads the pod's ID from `state.json`, not from the journal. `pinned` says that
`state.json` names the pod: a commit that records one (`CommitPod`) may die after its journal
entry and leave the old file. `Execute` yields an observation only of a pinned run;
`ExecuteRaises` is the read that fails, at every restart as long as the run is not pinned, and
any other exception of `execute` before the deadline. How long `execute` takes is left open.

`CreateRefused` is a refusal before the request is sent. After the POST the adapter's checks
give `CreateRejected`, and an `OSError` while it notes the pod's ID is no `ProviderError`: the
process dies with the create dispatched, which is a `Crash`.

Left out: the text of error records, the operation IDs (one operation of each
kind exists in a run), `max_steps` of `drive` (the unit is restarted and goes on),
and failures of read-only provider calls, which commit an error record and change
nothing else.

`RunContract` is the run as the principal who pays for it sees it: a stage (none, open,
closed), the orders sent, the pods ever supplied and the ones still billed. `Lifecycle`
implements it with `stage <- Stage`, `orders <- attempts`, `used <- Used`,
`billed <- Billed`; the promises about a single pod and about the close are made for a
provider that makes one pod per create (`Exact <- Copies = 1`).

### `RunStore` and `AtomicState`

Each write of a commit is an action: `AppendStarts`, `AppendEnds`, `ReplaceState`,
`WriteReceipt`. `Crash` releases the flock after any of them and leaves the append
torn, or complete but for its newline. `EffectiveState` is `_effective_state`. The
projection keeps what the store itself and its readers look at: the sequence, the
lifecycle and whether a pod is recorded. `AtomicState` is the abstract
specification: a value that is replaced at one instant, and callers who are told
the last value. `RunStore` implements it under `value <- EffectiveState`; this is
what allows `Lifecycle` to treat a commit as atomic.

### `Runner`

`events`, `terminal` and `status` are the three files, `process` the child of each
phase, which a crash of the runner may or may not take along. The constructor's
`_recover_history` is not state: it is derived from the journal (`Completed`,
`Failed`, `Interrupted`). `spawned` and `shown` are history variables that no
action reads. `_finish` is three actions, because a crash may fall between the
terminal result, its event and its status. The artifact check is a choice of
outcome; the token's contents are valid, invalid or absent.

The caps on elapsed time and cost are one cap in units of time, since the cost is the
time at a constant price. `elapsed` is `_elapsed_seconds` of the living process; each
record and status stamps it (`stamped`), and the next process starts from the latest
stamp (`PriorElapsed`). The time since the stamp is lost in a crash. `ran` is a history
variable: how long the phases ran under a runner in all. Time passes in the two loops
(`Tick`); what passes elsewhere is left out.

### `LaunchBarrier`

`Runner` lets a token appear once a status exists. `LaunchBarrier` extends it and puts
`execute` in the place of that step: connectivity and host key, the two bootstrap files
without which the entrypoint does not start the runner, the polling loop, the
identity check, the inputs file by file, the token as a copy and a rename, the two
publication receipts, the startup and provider deadlines, and the result `execute`
returns. Time passes in every step of a call, transfers included (`TimePasses`); the deadlines
are looked at only between the calls of a loop. The seconds between a death and the unit's
restart are left out. `matching` says whether the runner on the image is the one the request names.
The status endpoint has no state: it serves `status.json` while a runner process is up,
be the record its own or its predecessor's (`StatusServed`).

`Killed` is the death of the controller at any step, `StartupRaises` an exception that
leaves `execute` and `drive`; the unit calls `execute` again over the same files. A rename
without an answer has happened, never happens, or stays `renaming` and happens later.
What `execute` does while the workload runs (`Mirrored`) and after its terminal status
(`Recovered`) is a choice of outcomes here, at the end of a transfer of any length, and the
subject of `IncrementalMirror`. `ImplementsRunner` states that the composition is a behaviour of
`Runner`'s `Spec` with its own variables: all of `Runner`'s properties carry over.

### `Admission`

One `pc` per caller of `run`, the admission lock, the run directories as they grow
(`empty`, `request`, `active`, `closed`), and one ledger. `BudgetLedger.reserve` is one
action, since it holds the ledger's own lock and replaces the file atomically. `charge`
remembers what the caller passed, which the ledger is compared with. `Authority` is the
ledger as the principal sees it, one counter under one total; `Admission` implements it with
`granted <- total` and `committed <- ReservedSum`.

### `IncrementalMirror`

Three parties: the worker, which completes, rewrites and, once acknowledged,
prunes checkpoints; the controller's disk, written file by file; and the polling
loop. Every SFTP call may end in `Unavailable`, a lost rename stays in `inflight` and
may `Land` at any later time, and `Crash` empties the loop's memory. A manifest and
its payload are one content out of three; a receipt is identified with its bytes,
because the acknowledgement binds them by hash. What follows a `_failed`,
`_incremental_failure` or `_permanent_failure` is the disposition `execute` returns, with
the kind of failure that led to it. What a pass has read is forgotten at its end
(`Forget`), and the worker's steps after the return, which nobody sees, are left out
(`Observed`).

Of a manifest the loop sees its size and rclone's `ModTime` (`remote_executor.py:468-472`),
which is in whole seconds over SFTP and which the worker may set. Contents may or may not
differ in size, so other bytes may or may not show to `TakeOther` and `fetch`; and `Change`
writes the manifest again at a new time or at any time it may have had. `reused` remembers
the manifests for which the time stood still or went back: of those the listing may look like
an earlier version. A manifest and its payload share one directory of their own, since the
pattern fixes name and depth.

## 3. Runs

### Runs that pass

| Run | Instance | Shows |
|---|---|---|
| `lifecycle` | network volume, a create that makes up to 2 pods, deadline 3, graces 2, 2 faults; 2.0 M states | at most one create; `closed` means nothing recorded is billed, through quarantine and partial deletion; result and disposition before any delete; the closeout never blocks itself; the executor only gets an admitted run; account scope only after a refused create; evidence and direction are stable; the invariant of the proofs |
| `lifecycle_liveness` | encrypted volume, 2 pod identities, one pod per create, 2 faults, fairness; 164 k states | every planned run closes, unless account-wide spend never drops or it is left for good where only an operator gets it on; the run's life is one of `RunContract` |
| `run_store` | 7 events, 3 crashes, 2 requests; 33 k states | the store implements `AtomicState`; nobody cuts off a record being written; a receipt is the closed state; the invariant of the proofs |
| `runner` | 3 phases, the second disabled, cap 2, 3 crashes, fairness; 273 k states | each phase once and in order, so that no two run together; the cap holds over restarts; success is earned; a survivor was never shown in `status.json`; the terminal result is final and is reached |
| `launch` | 1 phase, 2 inputs, startup 1, deadline 2, 1 crash of the runner, any number of deaths of the controller, fairness; 467 k states | nothing leaves before the identity is seen; no authorization without every input; receipts are true; one authorization; a returned success is true; a late token starts nothing; `execute` ends unless one transfer never does; the composition implements `Runner`; the invariant of the proofs |
| `admission` | 2 callers, 3 runs, caps {1,2}, totals {3,4}; 49 k states | one active run; caps within the one granted total; the ledger implements `Authority`; the invariant of the proofs |
| `mirror` | 3 checkpoints, limit 2, 1 rewrite at a new or an old time, 1 fault; 2.4 M states | acknowledgements are true and never replaced; the limit holds over restarts; `partial_recovered` is true; at a terminal status every completion file has its verified receipt; the invariant of the proofs |
| `mirror_liveness` | 2 checkpoints, 1 rewrite, 2 faults, fairness; 839 k states | a completed checkpoint is mirrored and acknowledged unless `execute` returns or one transfer never ends |

### Runs that find a disagreement

Each states what a document or comment of the repository says, and TLC shows what
the code does instead. The findings in `PROJECT.json` quote the lines.

- `run_store_resource`: two crashes in consecutive commits leave a `state.json` without
  the pod that the journal records; the executor reads `state.json` directly and
  fails at every restart.
- `admission_crash`: a death between `request.json` and the first event is not resumed by
  anything, and every later `run` fails on the directory it left.
- `mirror_disposition`: a verified checkpoint whose manifest was touched is pending again; a
  crash there, and a later failure of the mirroring contract, report `unavailable`, although
  the checkpoint was acknowledged and the worker may have deleted it for that.
  `docs/security-and-operations.md` promises `partial_recovered`.
- `launch_startup`: the README bounds the time from the pod's creation to its first
  authenticated status by the launch timeout. The deadline is a local of `execute`: a
  host-key scan or bootstrap upload that fails raises through `drive`, and the unit calls
  `execute` again with a new deadline, up to the provider's own one.

Other behaviours are worth knowing. An encrypted-volume run stopped before any create is
dispatched closes at *account* scope, where `docs/security-and-operations.md:37-38` promises
run or operation scope; it waits for the whole account to spend nothing
(`CurrentSpendScope`). A stale heartbeat or the deadline is reported as `unavailable` even
over verified checkpoints (`Lost`). A crash between the workload result and the disposition
executes again, and the second observation may be worse than the first: a succeeded run
can close as `unavailable`. And a manifest written again with the same bytes gets a new
receipt, which the acknowledgement on disk does not bind, so that the run fails. The reverse
happens too: a manifest written again with other bytes of the same size under an unchanged
modification time is neither fetched nor rejected, where `docs/security-and-operations.md:107-109`
has the controller "reject a changed completion record for the same remote path"
(`NothingLeftBehind` states the exception). And a run whose `systemd-run` failed stays planned,
with no unit, until an operator recovers or stops it.

### Bounds, and why they are enough

- `Pods` of two: duplicates need two, as does a second pod that would break the contract,
  and no action treats a third differently; pods are symmetric.
- `Deadline`, `TermLag` and the graces are small but leave room for a dispatch, an
  observation and a stop before, at and after each of them. All comparisons in the
  code are between differences of these times; `Tick` stops once no comparison can
  change any more (`TimeMatters`), which keeps the state space finite without hiding a
  case.
- `MaxFaults` of two lets a second failure strike the recovery from the first. The
  proofs need no bound.
- `MaxEvents = 7` is the shortest journal that passes every lifecycle state from plan to close;
  three crashes allow two lost projections in a row and one more. The proofs have no bound
  on either.
- The runner has three phases with the disabled one in the middle, so that a phase
  follows a disabled one; three crashes allow one in each of waiting, running and finishing.
  A cap of two lets one phase use up part of it before a crash and another meet the rest.
- In `LaunchBarrier` the number of phases does not matter to the launch, so there is one. Two
  inputs allow a death between them; one crash of the runner allows a record left by a
  predecessor; the startup deadline is shorter than the provider's, so that each of them
  strikes first in some behaviour. The controller's deaths are not bounded.
- Three run IDs for two callers allow a closed run, an active one and an abandoned
  reservation together; totals 3 and 4 make the sum meet the limit exactly and miss it.
- Three checkpoints against a limit of two make the limit bite, also after a prune.

Deadlock checking is off where the system may stop: `RunStore` (the journal's bound,
or a record without its newline, which the code refuses to read by design), `Runner`
(done, or not started again), `IncrementalMirror` and `LaunchBarrier` (`execute` has returned). `Lifecycle` and `Admission` are
checked for deadlock.

### Fairness

- `Lifecycle`, `FairSpec`: weak fairness of the supervisor's own steps (a unit that exists has
  `Restart=on-failure` without a burst limit, and every call to RunPod has a timeout of 30 s), of
  the clock, and of the removals RunPod owes (an accepted delete, an expired
  `terminateAfter`). No fairness of `execute`, which may hang in a transfer or raise; of the
  operator, who alone gets an unlaunched run on; of crashes, of births, of listing, or of one
  controller branch over another. Crashes are bounded, since a supervisor killed at
  every step would never close a run. `EventuallyCloses` therefore excepts a run that stays for
  good in `NeedsOperator`: no unit, inside `execute`, or running without a pod in `state.json`.
  Each of the exceptions is needed: without any one of them TLC finds the run that stays open.
- `Runner`, `FairSpec`: weak fairness of the runner's own steps. Phases need not end by
  themselves: the timeout is a runner step. A restart after a crash is not assumed; the
  property therefore speaks of a runner that is up.
- `LaunchBarrier`, `FairBarrierSpec`: weak fairness of the passing of time and of the steps of
  `execute` that make at most one call with a timeout (`LoopStep`: pod lookup 30 s, `ssh-keyscan`
  10 s a host, status request 15 s). Nothing is assumed of the runner, of late renames, or of a
  transfer: `transfer.py` runs rclone without a timeout for everything but `discover`
  (lines 266, 297, 315, 348, 476). `ExecuteReturns` says that `execute` ends however the transfers
  fail and however long they take, unless one of them never ends (`InTransfer` for ever); the
  code does not bound that case, and only the provider's `terminateAfter` ends the pod then.
- `IncrementalMirror`, `FairSpec`: weak fairness of the polling loop outside its transfers, which
  the supervisor restarts. Nothing is assumed of the worker, of a transfer, or that a lost rename
  lands; `EventuallyMirrored` has the same exception.

### Mutants

Every property of a passing run has a mutation, defined next to the operator it changes
(its comment starts with "Mutation of"), which breaks it: the create is sent again on an
empty list, a reader repairs the journal without the lock, the token is copied in place, the
input receipt is written before the upload, a new runner's clock begins at 0, the admission
lock is not taken, a directory without a journal is passed over, a closed run gives its
reservation back, the acknowledgement is signed anew, the outcome is not looked at, the status is read
after the listing, and others. `PROJECT.json` lists them.

## 4. Proofs

### What is proved

`LifecycleProofs`, for all pods, copies, deadlines, graces, volumes and any number of
faults:

- `TypeCorrect`, `InductiveInvariant`;
- `SingleCreateSafe`: at most one create is dispatched, and nothing reaches RunPod before
  the dispatch is durable;
- `ClosedMeansNoComputeSafe`: a closed run has no live pod; only with `Copies > 1` may one
  be left, never one the controller recorded, and none is born later;
- `CloseoutNotRefusedSafe`: the spend step never meets a scope other than the recorded one,
  nor a closeout that `_assert_closeout_ready` refuses;
- `ExecuteOnlyAdmittedSafe`, `DispositionBeforeDeleteSafe`;
- `AccountScopeIsExceptionalSafe`: a network-volume run is charged at account scope only if
  its create was refused;
- `EvidenceIsStableSafe`, `NoWayBackSafe`: action properties, from the same invariant;
- `HonoursContractSafe`: the refinement `Spec => RunContract!Spec`.

`RunStoreProofs`, for journals of any length and any number of crashes:
`InductiveInvariant`, `ReceiptIsTrueSafe`, `AppendIsExclusiveSafe`, and `KeepsPromiseSafe`,
the refinement `Spec => AtomicState!Spec` with `EffectiveState` as the value.

`RunnerProofs`, for any number of phases, any of them enabled, any cap and any number of
crashes: `RunnerInvariantSafe`, `PhaseOnceInOrderSafe`, `SuccessIsEarnedSafe`,
`SurvivorWasNeverShownSafe`, `BudgetSurvivesRestartsSafe`, and the action property
`TerminalIsFinalSafe`.

`LaunchBarrierProofs`, for any inputs and deadlines besides: `BarrierInvariantSafe`;
`ImplementsRunnerSafe`, the refinement `BarrierSpec => Spec`, and `CompositionKeepsRunner`,
which carries `Runner`'s safety over by it; `IdentityFirstSafe`, `LaunchIsCompleteSafe`,
`ReceiptsAreTrueSafe`, `OneAuthorizationSafe`, `SuccessIsTrueSafe`; `LaunchedProperlySafe`, that
a phase ever spawned was spawned once, by the runner the request names, with every input and
a published token; and the action property `LateTokenIsInertSafe`.

`AdmissionProofs`, for any callers, any finite set of run IDs, any amounts and totals:

- `AdmissionInvariantSafe`, `OneActiveRunSafe`;
- `SpendWithinAuthoritySafe`: the caps of all runs planned under a scope sum up to no more
  than its total;
- `ImplementsAuthoritySafe`: the refinement `Spec => Authority!Spec`;
- `OrphanBlocksSafe`: the disagreement that `admission_crash` finds, for every instance: from a
  directory that a dead caller left without a journal on, no run becomes active and nothing
  is reserved, and no step removes the directory.

`IncrementalMirrorProofs`, for any finite set of manifests, any limit and any number of
changes and faults: `MirrorInvariantSafe`, `AckIsTrueSafe`, `LimitHoldsSafe`,
`PartialIsTrueSafe`, `NothingLeftBehindSafe`, and the action property `AckIsStableSafe`.

### Assumptions

`ProviderAssumption` and `LifecycleAssumption` only type the constants.
`EnforcementAssumption`, `TermLag <= AbsenceGrace`, is the one assumption about the world:
RunPod enforces `terminateAfter` within the absence window the controller waits after
the deadline. Without it the closeout of an uncertain create proves nothing: a pod could
outlive the window in which its absence is judged. The provider model adds that no pod is born after the deadline, that the policy files the
adapter has just written for a create can be read after the POST (if not, `create` would raise
an error that the controller records as `failed`, and a later stop could close the run without
the deadline proof), that a
listed pod stays listed while it exists, and that a pod that is gone stays gone. The
clock never goes back. `RunStoreAssumption` and `NoStateAssumption` type the constants of
the store; that an `fsync` lasts and `rename` is atomic is built into its actions.
`RunnerAssumption`, `NoTerminalAssumption`, `LaunchBarrierAssumption`, `AdmissionAssumption` and
`MirrorAssumption` type the constants of theirs; that there are finitely many run IDs and
manifests is true of strings of bounded length. `IncrementalMirror` assumes nothing of the
modification times; where its theorem compares bytes, it says so (`reused`).

### The argument for `Lifecycle`

None of the properties is inductive. `LifecycleInvariant` conjoins what the controller
relies on without checking it again:

- `SupervisorInv`: what holds where the supervisor stands, although it decided on an
  old status. It shows that `reconcile`'s branch for running, recovering and closed runs
  is never taken, and that a create in flight is the run's first.
- `ResultInv`: result and disposition exist exactly from the moment the run leaves its
  work; the case that a recovering run without a reason has a pod and no disposition
  is what makes handing it to the executor right.
- `CreateInv`: attempts and the provision status agree, nothing exists at the provider
  before the dispatch or after a refusal, and a faithful provider makes one pod.
- `ResourceInv`: recorded pods exist; every quarantined pod but the primary has been
  *listed*, so that an empty list later proves its absence. The primary may come from a
  create's answer and have never been listed, which is why the spend look-up by exact ID
  is needed before the run may close.
- `TimeInv`: no pod lives past `Deadline + TermLag`, and recorded times lie in the past.
- `AbsenceInv`: a confirmed absence carries its deadline proof. With `TimeInv` and
  `EnforcementAssumption` it follows that nothing is alive.
- `CloseoutInv`: each closeout proof implies the ones before it, and the recorded scope is
  still the current one. A pod found late cannot change the scope, because
  no resolution runs after an absence was confirmed or a pod was recorded.

The step lemma is split by groups of actions (`DriveInd`, `ProvisionInd`, `CreateInd`,
`StartInd`, `ResolveInd`, `DeleteInd`, `EnvironmentInd`), each one step per action;
`ScopeFrame` states once what the spend scope depends on.

For the contract nearly every action is a stutter: `Unseen` says what makes it one, and the
lemmas `DriveUnseen` to `DeleteUnseen` show it, group by group. A delete or a start changes no
pod's existence (`PodsKept`). What remains is `Plan` (Open), `ProvisionDispatch` (Order: the
invariant says that no create was sent before), the provider's `Birth` and `Vanish` (Supply,
Release) and `Close`. The hard case is `Birth`: from an exact provider a pod that is born is
the first, and the run is not closed, since a closed run has a recorded pod, or was never
created, or is past the deadline after which nothing is born (`ClosedState`).

### The argument for `RunStore`

`JournalInv` numbers the journal without gaps, puts a closed state last, and says of a
commit in progress that it carries the next number before its append and is the last
record after it. `EffectiveIsLast` follows: what `_effective_state` assembles is
the last record. A commit takes effect in `AppendEnds`; every other write is a
stutter or a `Tell` of the abstract specification.

### The argument for `Runner` and `LaunchBarrier`

A phase is *open* if it was started and not completed. `JournalInv` says that a phase is
started only when every enabled phase before it is completed, so at most one is open, and
that a completed phase's child exited with 0. `ChildInv` says that a child exists only for
a started phase, and that a running child which was shown is the one `status.json` names:
this is what a restarted runner needs in order to kill it. `PlaceInv` and `TerminalInv` tie
the runner's position to the journal and the result. `ClockInv` is the argument for the
cap: what the clock loses in a crash belongs to an open phase, after an open phase no
other is run, and if none is open the time the phases ran is in the journal.

`BarrierInv` adds what outlives a call of `execute`: the input receipt is written under a
matching identity and with all inputs there, and every later step, late renames included,
happens under that receipt (`Progress`); the token is absent or valid, and an
authorization in the journal means that it is there (`Handshake`). A status that was seen
means that one was published, which makes the token's appearance Runner's `PublishToken`
and its repetition a stutter. `RunnerInv` is then kept by `InvStep`, without a second proof.

### The argument for `Admission`

Past `Admit` a caller holds the lock (`LockInv`), and from `DrawRun` to `CommitPlanned` no run
is active (`ChoiceInv`): the supervisor can only take runs out of the active ones.
`PlanInv` follows the reservation from the ledger to the plan, over directories and requests
that a death leaves behind; so every run planned under the scope is in the ledger with its
cap and its total (`ChargeInv`), and the sum of the planned caps is at most the sum of the
reservations, which `Reserve` keeps within the total (`LedgerInv`).

The sums are `MapThenSumSet`, a fold over a set. `SumTheorems` proves what the argument needs of
them (`TotalUpdate`: changing one entry changes the sum by the difference; `TotalMonotone`: a
subset with smaller entries has a smaller sum) by the least counterexample: among the
subsets of a finite set for which a claim fails there is one that contains no other; it has an
element, and without it the claim holds (`LeastSubset`).
The well-founded induction this replaces takes the claim as an operator, which the provers
cannot instantiate.

### The argument for `IncrementalMirror`

What is on disk for a manifest only grows towards the content of its receipt, which
`Conflicts` keeps (`ReceiptInv`); so what was whole stays whole, an acknowledgement, signed
over a verified receipt, stays true, and the one on disk, of which everything on the pod
or in flight is a copy, never changes (`AckInv`). `TimeInv` says that a modification time
names one content of a manifest unless it was reused, so that a receipt that matches a listing
has the listed content, with that exception. `FinalInv` follows a pass that began with a terminal
status: the pod no longer changes, so every listed manifest is still to do or done, with a
verified receipt of the listed time.

### Only model-checked

Liveness (`EventuallyCloses`, `ReachesTerminal`, `ExecuteReturns`, `EventuallyMirrored`), which
needs fairness and is out of the prover's reach. Every safety property of a passing run is
also a theorem. The inductive invariants are checked by the runs before they are proved
(`RunnerInv` as a part of `BarrierInv`).

## 5. Not modelled

- `bundle.py`, `identity.py`, `protocol.py`, `cli.py`: no state that outlives a call; their
  outcomes are choices in the models that call them.
- HTTP, GraphQL, encodings, the volume key file and the operation files of the adapter;
  `MemoryRunPod` and `LocalRunnerExecutor`, which are for tests and local use.
- The contents of tokens, keys and signatures, and the path validation of `transfer.py`.
- A clock set back, a pid reused after a restart,
  a second pod of the same create that appears after a single one was recorded and closed:
  listed as hazards in `PROJECT.json`.

## 6. Plan

1. `Lifecycle` over an abstract executor that `LaunchBarrier` and `IncrementalMirror` implement,
   so that the observations `Execute` chooses from are the ones `execute` returns.
2. The operation files of the adapter (`resource-id` and its neighbours), whose exclusive
   creation and write are two steps.
3. The safety half of the liveness properties, as theorems: a measure of the runner, and of
   the closeout, that no step raises and every step of the fair process lowers.
