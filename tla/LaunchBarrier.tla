---------------------------- MODULE LaunchBarrier ----------------------------
(***************************************************************************)
(* remote_executor.RunPodRemoteExecutor.execute up to the launch, composed   *)
(* with the runner on the pod (Runner): connectivity, bootstrap, the status   *)
(* endpoint between the two, upload of the inputs, publication of the launch  *)
(* token, and the result execute returns.  Runner's PublishToken is replaced  *)
(* by these steps; that they implement it is the property ImplementsRunner.   *)
(*                                                                         *)
(* The controller's process may die at any step and is started again by its   *)
(* unit; the files of the run directory, the files on the pod and a rename    *)
(* that is under way there remain.  The mirroring of checkpoints while the    *)
(* workload runs is IncrementalMirror's subject.                            *)
(***************************************************************************)
EXTENDS Runner

CONSTANTS
    Inputs,      \* the files of controller.input_files
    Startup,     \* launch_authorization.timeout_seconds, as execute counts it
    Deadline,    \* provider.terminate_at
    NoResult,    \* execute has not returned
    Kills        \* whether the supervisor's process may be killed

ASSUME LaunchBarrierAssumption ==
    /\ Startup \in Nat \ {0}
    /\ Deadline \in Nat
    /\ NoResult \notin {"succeeded", "failed"}
    /\ Kills \in BOOLEAN

BootstrapFiles == {"request.json", "status-token"}

VARIABLES
    matching,    \* the runner on the image is the one the request names
    bootstrap,   \* the bootstrap files that are on the pod
    uploaded,    \* the input files that are complete on the pod
    renaming,    \* a rename of the token that got no answer may still happen
    inputReceipt,\* receipts/launch/input-publication.json exists
    tokenReceipt,\* receipts/launch/authorization-publication.json exists
    seen,        \* remote-status.json exists: an authenticated status was received
    epc,         \* where execute is
    started,     \* startup_deadline is infinite
    waited,      \* time since this call of execute began
    now,         \* time since the pod was created, while execute is on
    observation  \* the result of the ExecutionObservation

pod == <<matching, bootstrap, uploaded, renaming>>
files == <<inputReceipt, tokenReceipt, seen>>
call == <<epc, started, waited, observation>>
executor == <<pod, files, call, now>>

BarrierTypeOK ==
    /\ TypeOK
    /\ matching \in BOOLEAN
    /\ bootstrap \subseteq BootstrapFiles
    /\ uploaded \subseteq Inputs
    /\ renaming \in BOOLEAN
    /\ inputReceipt \in BOOLEAN /\ tokenReceipt \in BOOLEAN
    /\ seen \in BOOLEAN
    /\ epc \in {"down", "connect", "scan", "bootstrap", "polling", "inputs", "token",
                "rename", "published", "mirroring", "recovering", "returned"}
    /\ started \in BOOLEAN
    /\ waited \in 0..Startup
    /\ now \in 0..Deadline
    /\ observation \in {NoResult, "succeeded", "failed"}

BarrierInit ==
    /\ Init
    /\ matching \in BOOLEAN
    /\ bootstrap = {}
    /\ uploaded = {}
    /\ renaming = FALSE
    /\ inputReceipt = FALSE /\ tokenReceipt = FALSE
    /\ seen = FALSE
    /\ epc = "down"
    /\ started = FALSE
    /\ waited = 0
    /\ now = 0
    /\ observation = NoResult

-----------------------------------------------------------------------------
(* execute: from the pod's address to the polling loop.                      *)

Go(label) == epc' = label /\ UNCHANGED <<started, waited, observation>>

Return(value) ==
    /\ epc' = "returned"
    /\ observation' = value
    /\ UNCHANGED <<started, waited>>

(* Both loops of execute test the provider's deadline, then the startup one.  *)
DeadlinePassed == now >= Deadline
StartupPassed == ~started /\ waited >= Startup
Looping == epc \in {"connect", "polling"}

Execute ==
    /\ epc = "down"
    /\ epc' = "connect"
    /\ started' = FALSE
    /\ waited' = 0
    /\ UNCHANGED <<vars, observation, pod, files, now>>

(* Mutation of DeadlineReached: the polling loop does not test it. *)
DeadlineWhileConnecting ==
    /\ epc = "connect" /\ DeadlinePassed
    /\ Return("failed")
    /\ UNCHANGED <<vars, pod, files, now>>

DeadlineReached ==
    /\ Looping /\ DeadlinePassed
    /\ Return("failed")
    /\ UNCHANGED <<vars, pod, files, now>>

StartupDeadlineReached ==
    /\ Looping /\ ~DeadlinePassed /\ StartupPassed
    /\ Return("failed")
    /\ UNCHANGED <<vars, pod, files, now>>

Polls(label) == epc = label /\ ~DeadlinePassed /\ ~StartupPassed

(* _wait_for_connectivity: the pod has its storage and an SSH port. *)
Connected ==
    /\ Polls("connect")
    /\ Go("scan")
    /\ UNCHANGED <<vars, pod, files, now>>

(* The pod is gone, or has other storage than the request asks. *)
NotConnected ==
    /\ Polls("connect")
    /\ Return("failed")
    /\ UNCHANGED <<vars, pod, files, now>>

HostKeyScanned ==
    /\ epc = "scan"
    /\ Go("bootstrap")
    /\ UNCHANGED <<vars, pod, files, now>>

UploadBootstrap ==
    /\ epc = "bootstrap"
    /\ \E f \in BootstrapFiles \ bootstrap : bootstrap' = bootstrap \cup {f}
    /\ Go("bootstrap")
    /\ UNCHANGED <<vars, matching, uploaded, renaming, files, now>>

BootstrapUploaded ==
    /\ epc = "bootstrap"
    /\ bootstrap = BootstrapFiles
    /\ Go("polling")
    /\ UNCHANGED <<vars, pod, files, now>>

(* The call ends without a result, or with one that is not recorded yet and      *)
(* is lost.  The unit starts the supervisor again.                           *)
Ends ==
    /\ epc' = "down"
    /\ observation' = NoResult
    /\ started' = FALSE
    /\ waited' = 0
    /\ UNCHANGED <<vars, matching, bootstrap, uploaded, files, now>>

(* A pod lookup, host-key scan or bootstrap upload that fails is not caught by   *)
(* execute nor by drive.                                                     *)
StartupRaises ==
    /\ epc \in {"connect", "scan", "bootstrap"}
    /\ Ends
    /\ UNCHANGED renaming

(* The process is killed; a rename it was waiting for may still happen.         *)
Killed ==
    /\ Kills
    /\ epc # "down"
    /\ Ends
    /\ renaming' \in {renaming, renaming \/ epc = "rename"}

-----------------------------------------------------------------------------
(* The polling loop.  The endpoint of status_http answers with status.json     *)
(* while the runner's process lives, be the record its own or one that an      *)
(* earlier process left; without a record it answers 503.  No answer and 503    *)
(* are polled again: they are steps that change nothing.                     *)

StatusServed == pc # "down" /\ status.state # "none"

(* An authenticated status: remote-status.json is written before it is judged. *)
Fetched ==
    /\ Polls("polling")
    /\ StatusServed
    /\ seen' = TRUE

(* startup_deadline = inf *)
GoStarted(label) ==
    /\ epc' = label
    /\ started' = TRUE
    /\ waited' = 0
    /\ UNCHANGED observation

(* Mutation of IdentityMatches: the status is not compared with the request. *)
IdentityUnchecked == TRUE

(* _remote_identity_error *)
IdentityMatches == matching

IdentityMismatch ==
    /\ Fetched
    /\ ~IdentityMatches
    /\ Return("failed")
    /\ UNCHANGED <<vars, pod, inputReceipt, tokenReceipt, now>>

(* The heartbeat in the record is old.  Only a runner in one of its two loops   *)
(* renews it: not one that has just been started again over an old record, that *)
(* waits for a child to end, or that hashes the artifacts.                    *)
HeartbeatStale ==
    /\ Fetched
    /\ IdentityMatches
    /\ status.state # "terminal"
    /\ pc # "waiting"
    /\ Return("failed")
    /\ UNCHANGED <<vars, pod, inputReceipt, tokenReceipt, now>>

SeenReady ==
    /\ Fetched
    /\ IdentityMatches
    /\ status.state = "ready"
    /\ GoStarted("inputs")
    /\ UNCHANGED <<vars, pod, inputReceipt, tokenReceipt, now>>

SeenRunning ==
    /\ Fetched
    /\ IdentityMatches
    /\ status.state = "running"
    /\ GoStarted("mirroring")
    /\ UNCHANGED <<vars, pod, inputReceipt, tokenReceipt, now>>

(* The terminal result in the status is immutable: it is what terminal holds. *)
SeenTerminal ==
    /\ Fetched
    /\ IdentityMatches
    /\ status.state = "terminal"
    /\ GoStarted("recovering")
    /\ UNCHANGED <<vars, pod, inputReceipt, tokenReceipt, now>>

(* The checkpoints are mirrored, or not this time; or they break the contract. *)
Mirrored ==
    /\ epc = "mirroring"
    /\ Go("polling") \/ Return("failed")
    /\ UNCHANGED <<vars, pod, files, now>>

(* Mutations of Recovered: the outcome is not looked at; it takes the place of    *)
(* the result.                                                             *)
RecoveredAnyOutcome ==
    /\ epc = "recovering"
    /\ Go("polling") \/ Return("failed") \/ Return("succeeded")
    /\ UNCHANGED <<vars, pod, files, now>>

RecoveredAsOutcome ==
    /\ epc = "recovering"
    /\ Return(terminal)
    /\ UNCHANGED <<vars, pod, files, now>>

(* The last checkpoints are mirrored and the artifacts recovered, and the        *)
(* outcome is returned; a recovery that fails is a failure whatever the outcome,  *)
(* an unavailable one is tried again.                                        *)
Recovered ==
    /\ epc = "recovering"
    /\ \/ Go("polling")
       \/ Return("failed")
       \/ terminal = "succeeded" /\ Return("succeeded")
    /\ UNCHANGED <<vars, pod, files, now>>

-----------------------------------------------------------------------------
(* _ensure_inputs_uploaded and _ensure_launch_published.                     *)

InputsPublished ==
    /\ epc = "inputs"
    /\ inputReceipt
    /\ Go("token")
    /\ UNCHANGED <<vars, pod, files, now>>

(* upload: rclone copies the files one by one and leaves equal ones alone. *)
UploadInput ==
    /\ epc = "inputs"
    /\ ~inputReceipt
    /\ \E f \in Inputs \ uploaded : uploaded' = uploaded \cup {f}
    /\ Go("inputs")
    /\ UNCHANGED <<vars, matching, bootstrap, renaming, files, now>>

(* Mutation of InputsUploaded: the receipt is written before the upload. *)
ReceiptBeforeUpload ==
    /\ epc = "inputs"
    /\ ~inputReceipt
    /\ inputReceipt' = TRUE
    /\ Go("inputs")
    /\ UNCHANGED <<vars, pod, tokenReceipt, seen, now>>

InputsUploaded ==
    /\ epc = "inputs"
    /\ ~inputReceipt
    /\ uploaded = Inputs
    /\ inputReceipt' = TRUE
    /\ Go("token")
    /\ UNCHANGED <<vars, pod, tokenReceipt, seen, now>>

TokenPublished ==
    /\ epc = "token"
    /\ tokenReceipt
    /\ Go("polling")
    /\ UNCHANGED <<vars, pod, files, now>>

(* Mutation of StageToken: the token is copied to its place, not beside it. *)
CopyTokenInPlace ==
    /\ epc = "token"
    /\ ~tokenReceipt
    /\ token' = "invalid"
    /\ Go("rename")
    /\ UNCHANGED <<events, unterminated, terminal, status, process, spawned, shown, clock,
                   memory, crashes, pod, files, now>>

(* publish_atomic: a copy under another name, which nobody reads ... *)
StageToken ==
    /\ epc = "token"
    /\ ~tokenReceipt
    /\ Go("rename")
    /\ UNCHANGED <<vars, pod, files, now>>

(* ... and a rename on the pod. *)
TokenAppears ==
    /\ token' = "valid"
    /\ UNCHANGED <<events, unterminated, terminal, status, process, spawned, shown, clock,
                   memory, crashes>>

RenameToken ==
    /\ epc = "rename"
    /\ TokenAppears
    /\ Go("published")
    /\ UNCHANGED <<pod, files, now>>

WriteTokenReceipt ==
    /\ epc = "published"
    /\ tokenReceipt' = TRUE
    /\ Go("polling")
    /\ UNCHANGED <<vars, pod, inputReceipt, seen, now>>

(* TransferUnavailable: the next poll tries again. *)
TransferFails ==
    /\ epc \in {"inputs", "token"}
    /\ Go("polling")
    /\ UNCHANGED <<vars, pod, files, now>>

(* Mutation of RenameUnanswered: an unknown outcome is taken for success. *)
RenameAssumed ==
    /\ epc = "rename"
    /\ Go("published")
    /\ renaming' = TRUE
    /\ UNCHANGED <<vars, matching, bootstrap, uploaded, files, now>>

(* The rename happened, may still happen, or never does. *)
RenameUnanswered ==
    /\ epc = "rename"
    /\ Go("polling")
    /\ \/ TokenAppears /\ UNCHANGED renaming
       \/ renaming' = TRUE /\ UNCHANGED vars
       \/ UNCHANGED <<vars, renaming>>
    /\ UNCHANGED <<matching, bootstrap, uploaded, files, now>>

(* The local inputs or the local token are not what the request pins. *)
LaunchRefused ==
    /\ epc \in {"inputs", "token"}
    /\ Return("failed")
    /\ UNCHANGED <<vars, pod, files, now>>

-----------------------------------------------------------------------------
(* The surroundings.                                                       *)

LateRename ==
    /\ renaming
    /\ renaming' = FALSE
    /\ TokenAppears
    /\ UNCHANGED <<matching, bootstrap, uploaded, files, call, now>>

(* Time passes while execute is on, inside its calls as well as between them.    *)
(* The few seconds of a restart are left out.                               *)
TimePasses ==
    /\ epc \notin {"down", "returned"}
    /\ ~DeadlinePassed
    /\ now' = now + 1
    /\ waited' = IF started \/ waited = Startup THEN waited ELSE waited + 1
    /\ UNCHANGED <<vars, pod, files, epc, started, observation>>

(* The container's entrypoint starts the runner once both bootstrap files are   *)
(* there.  The rest of the runner's steps are its own.                       *)
StartOnPod == bootstrap = BootstrapFiles /\ Start

RunnerStep ==
    /\ StartOnPod \/ Run \/ RequestStop \/ ChildExits \/ Crash
    /\ UNCHANGED executor

(* The steps of execute's loops and the receipts it writes: at most one call     *)
(* that has a timeout (pod lookup, ssh-keyscan, status request).              *)
LoopStep ==
    \/ Execute \/ DeadlineReached \/ StartupDeadlineReached
    \/ Connected \/ NotConnected \/ HostKeyScanned
    \/ IdentityMismatch \/ HeartbeatStale \/ SeenReady \/ SeenRunning \/ SeenTerminal
    \/ InputsPublished \/ TokenPublished \/ WriteTokenReceipt

(* The steps that an rclone run without a timeout has to end.                  *)
TransferStep ==
    \/ UploadBootstrap \/ BootstrapUploaded
    \/ UploadInput \/ InputsUploaded \/ LaunchRefused
    \/ StageToken \/ RenameToken
    \/ Mirrored \/ Recovered

ExecutorStep == LoopStep \/ TransferStep

ExecutorFault == StartupRaises \/ Killed \/ TransferFails \/ RenameUnanswered

BarrierNext == ExecutorStep \/ ExecutorFault \/ LateRename \/ TimePasses \/ RunnerStep

barrierVars == <<vars, executor>>

BarrierSpec == BarrierInit /\ [][BarrierNext]_barrierVars

(* The executor's process, while it lives, goes on between its transfers, and      *)
(* time passes.  Nothing is asked of a transfer: rclone runs without a timeout.  *)
FairBarrierSpec ==
    BarrierSpec /\ WF_barrierVars(LoopStep) /\ WF_barrierVars(TimePasses)

-----------------------------------------------------------------------------
(* Properties.                                                             *)

(* Seen from the runner the executor is Runner's PublishToken: the token        *)
(* appears once, whole, after some status was published, whatever is lost,      *)
(* late or repeated on the way (publish_atomic).                             *)
ImplementsRunner == Spec

(* No input and no token leaves the controller before a status of the runner    *)
(* the request names was seen (README.md:69-74), also by a controller that was   *)
(* started again or that acts on a rename it lost sight of.                   *)
IdentityFirst ==
    uploaded # {} \/ renaming \/ token # "absent" => matching /\ seen

(* A runner that may start a phase has every input: none is missing when the     *)
(* token is there or on its way, over unavailable transfers, restarts on both    *)
(* sides and receipts written in between (_ensure_inputs_uploaded before        *)
(* _ensure_launch_published).                                               *)
LaunchIsComplete ==
    renaming \/ token # "absent" \/ Authorized => uploaded = Inputs

(* A publication receipt in the run directory is true of the pod: it is what     *)
(* keeps a restarted controller from uploading again (README.md:75).           *)
ReceiptsAreTrue ==
    /\ inputReceipt => uploaded = Inputs
    /\ tokenReceipt => inputReceipt /\ token = "valid"

(* Token replay is no authority for a second workload                         *)
(* (docs/security-and-operations.md:43-45): a token that is published again, or   *)
(* lands late, is journaled as an authorization once.                         *)
OneAuthorization ==
    \A i, j \in DOMAIN events :
        events[i].kind = "launch_authorized" /\ events[j].kind = "launch_authorized"
        => i = j

(* Once terminal-result.json exists nothing is started any more, though the       *)
(* token of a controller that did not know may still land.                    *)
LateTokenIsInert == [][terminal # NoTerminal => spawned' = spawned]_barrierVars

(* What execute returns as succeeded was a success on the pod: the terminal       *)
(* result says so, every enabled phase exited with 0, and it ran on all inputs.  *)
SuccessIsTrue ==
    observation = "succeeded" =>
        /\ terminal = "succeeded"
        /\ \A p \in Enabled : process[p] = "zero"
        /\ uploaded = Inputs

(* A phase that was ever spawned was spawned once, by the runner the request     *)
(* names, with every input there and the token published (run, execute).         *)
LaunchedProperly ==
    \A p \in Phases : spawned[p] > 0 =>
        spawned[p] = 1 /\ matching /\ uploaded = Inputs /\ token = "valid"

(* Where execute waits for an rclone that has no timeout. *)
InTransfer ==
    \/ epc \in {"bootstrap", "rename", "mirroring", "recovering"}
    \/ epc = "inputs" /\ ~inputReceipt
    \/ epc = "token" /\ ~tokenReceipt

(* execute does not go on for ever: it returns or its process dies, whatever the   *)
(* runner does, however its transfers fail and however long they take, unless    *)
(* one transfer never ends.                                                  *)
ExecuteReturns ==
    \/ (epc # "down") ~> (epc \in {"down", "returned"})
    \/ <>[]InTransfer

(* The controller bounds the interval from provider creation to the first        *)
(* authenticated worker status by the launch-authorization timeout              *)
(* (README.md:77-79).  The code starts the interval anew with every call of      *)
(* execute, and a host-key scan or bootstrap upload that fails ends the call      *)
(* without a result: it polls on.                                            *)
StartupIsBounded == Polls("connect") \/ Polls("polling") => seen \/ now <= Startup
=============================================================================
