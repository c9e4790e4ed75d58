-------------------------- MODULE IncrementalMirror --------------------------
(***************************************************************************)
(* The polling loop of remote_executor.RunPodRemoteExecutor.execute once the  *)
(* workload runs: mirroring of the checkpoints the worker completes, signed    *)
(* acknowledgements of them, and the artifact disposition the loop returns.    *)
(* The supervisor may die between any two durable writes and runs execute     *)
(* again; every SFTP call may end with an unknown outcome; the worker goes on  *)
(* between any two calls.                                                   *)
(*                                                                         *)
(* The bytes of a completion manifest are a content; whether two contents have *)
(* the same size is left open.  Its payload files carry the same content, and  *)
(* are its own: the pattern fixes name and depth, so every manifest has its    *)
(* directory.  A modification time is what the listing shows: whole seconds,   *)
(* and the worker may set it, so it need not change when the bytes do.  A      *)
(* receipt is identified with its bytes, which the acknowledgement's          *)
(* local_receipt_sha256 binds.                                             *)
(***************************************************************************)
EXTENDS Integers, FiniteSets, FiniteSetsExt

CONSTANTS
    Manifests,      \* remote paths of completion manifests, in listing order
    MaxManifests,   \* _MAX_INCREMENTAL_MANIFESTS
    MaxChanges,     \* bound: times the worker touches or rewrites a manifest
    MaxFaults       \* bound: crashes and unknown SFTP outcomes

ASSUME MirrorAssumption ==
    /\ Manifests \subseteq Nat
    /\ IsFiniteSet(Manifests)
    /\ MaxManifests \in Nat \ {0}
    /\ MaxChanges \in Nat
    /\ MaxFaults \in Nat

Contents == {"first", "second", "malformed"}
Modified == 0 .. MaxChanges

None == [status |-> "none", content |-> "none", modified_at |-> 0]
Pruned == [None EXCEPT !.status = "pruned"]
RemoteFiles == [status : {"file"}, content : Contents, modified_at : Modified]
Receipts == [status : {"pending", "verified"}, content : Contents, modified_at : Modified]

VARIABLES
    \* the pod
    worker,        \* running, or the terminal result of the workload
    remote,        \* the completion manifest at each path
    remote_ack,    \* the acknowledgement in the worker's directory
    inflight,      \* server-side renames of acknowledgements that got no answer
    changes,
    reused,        \* manifests whose time may have stood for other bytes before
    \* the controller's run directory
    acks,          \* the job configures incremental_mirror_ack
    receipt,       \* receipts/incremental-state
    files,         \* payload under receipts/incremental: none, some of it, content
    completion,    \* the completion manifest under receipts/incremental
    ack,           \* receipts/incremental-acks: the receipt it binds
    publication,   \* receipts/incremental-ack-state: the acknowledgement published
    \* the supervisor's memory
    pc,
    verified,      \* _verified_incremental_receipts
    terminal,      \* the status this pass started from
    listing,       \* what discover returned
    todo,          \* manifests this pass has still to mirror
    fetched,       \* the manifest's content as fetched
    result,        \* the ExecutionObservation, once execute has returned
    faults

history == <<changes, reused>>
pod == <<worker, remote, remote_ack, inflight, history>>
disk == <<acks, receipt, files, completion, ack, publication>>
memory == <<pc, verified, terminal, listing, todo, fetched, result, faults>>
vars == <<worker, remote, remote_ack, inflight, changes, reused,
          acks, receipt, files, completion, ack, publication,
          pc, verified, terminal, listing, todo, fetched, result, faults>>

NoResult == [disposition |-> "none", reason |-> "none"]
Dispositions == {"verified", "partial_recovered", "unavailable"}
Reasons == {"lost", "terminal", "status", "contract"}
Outcomes == {"succeeded", "failed", "failed_bare"}   \* bare: no artifact manifest receipt

TypeOK ==
    /\ worker \in {"running"} \cup Outcomes
    /\ remote \in [Manifests -> RemoteFiles \cup {None, Pruned}]
    /\ remote_ack \in [Manifests -> Receipts \cup {None}]
    /\ inflight \subseteq Manifests \X Receipts
    /\ changes \in 0 .. MaxChanges
    /\ reused \subseteq Manifests
    /\ acks \in BOOLEAN
    /\ receipt \in [Manifests -> Receipts \cup {None}]
    /\ files \in [Manifests -> Contents \cup {"none", "some"}]
    /\ completion \in [Manifests -> Contents \cup {"none"}]
    /\ ack \in [Manifests -> Receipts \cup {None}]
    /\ publication \in [Manifests -> Receipts \cup {None}]
    /\ pc \in {"poll", "discover", "next", "fetch", "payload", "place", "complete",
               "verify", "ack", "find", "publish", "readback", "recover", "returned"}
    /\ verified \subseteq Manifests
    /\ terminal \in BOOLEAN
    /\ listing \in [Manifests -> RemoteFiles \cup {None, Pruned}]
    /\ todo \subseteq Manifests
    /\ fetched \in Contents \cup {"none"}
    /\ result \in [disposition : Dispositions, reason : Reasons] \cup {NoResult}
    /\ faults \in 0 .. MaxFaults

Nothing(x) == [m \in Manifests |-> x]

Init ==
    /\ worker = "running"
    /\ remote = Nothing(None)
    /\ remote_ack = Nothing(None)
    /\ inflight = {}
    /\ changes = 0
    /\ reused = {}
    /\ acks \in BOOLEAN
    /\ receipt = Nothing(None)
    /\ files = Nothing("none")
    /\ completion = Nothing("none")
    /\ ack = Nothing(None)
    /\ publication = Nothing(None)
    /\ pc = "poll"
    /\ verified = {}
    /\ terminal = FALSE
    /\ listing = Nothing(None)
    /\ todo = {}
    /\ fetched = "none"
    /\ result = NoResult
    /\ faults = 0

-----------------------------------------------------------------------------
(* The worker, which is the job's own program.                             *)

IsFile(r) == r.status = "file"

(* After execute has returned nobody looks at the pod again: it is deleted.   *)
Observed == result = NoResult

Save(m) ==
    /\ Observed
    /\ worker = "running"
    /\ remote[m] = None
    /\ \E c \in {"first", "malformed"} :
          remote' = [remote EXCEPT ![m] = [status |-> "file", content |-> c, modified_at |-> 0]]
    /\ UNCHANGED <<worker, remote_ack, inflight, history, disk, memory>>

(* It writes the manifest again, with the same bytes or with others, at a new    *)
(* time or at one the file may have had: in the same second, or set back.      *)
Change(m) ==
    /\ Observed
    /\ worker = "running"
    /\ IsFile(remote[m])
    /\ changes < MaxChanges
    /\ changes' = changes + 1
    /\ \E c \in {remote[m].content, "second"}, t \in 0 .. changes' :
          /\ remote' = [remote EXCEPT ![m] = [status |-> "file", content |-> c,
                                              modified_at |-> t]]
          /\ reused' = IF t = changes' THEN reused \ {m} ELSE reused \cup {m}
    /\ UNCHANGED <<worker, remote_ack, inflight, disk, memory>>

(* It gives a checkpoint up once an acknowledgement of these bytes arrived.   *)
Prune(m) ==
    /\ Observed
    /\ worker = "running"
    /\ IsFile(remote[m])
    /\ remote_ack[m].content = remote[m].content
    /\ remote' = [remote EXCEPT ![m] = Pruned]
    /\ UNCHANGED <<worker, remote_ack, inflight, history, disk, memory>>

Finish ==
    /\ Observed
    /\ worker = "running"
    /\ worker' \in Outcomes
    /\ UNCHANGED <<remote, remote_ack, inflight, history, disk, memory>>

(* A rename whose answer was lost takes effect late. *)
Land(m) ==
    /\ \E r \in Receipts :
          /\ <<m, r>> \in inflight
          /\ inflight' = inflight \ {<<m, r>>}
          /\ remote_ack' = [remote_ack EXCEPT ![m] = r]
    /\ UNCHANGED <<worker, remote, history, disk, memory>>

-----------------------------------------------------------------------------
(* How a pass of the loop ends.                                            *)

Current == Min(todo)   \* the manifest whose turn it is

Whole(m, c) == files[m] = c /\ completion[m] = c

(* _has_verified_incremental_artifacts *)
HasVerified == \E m \in Manifests :
    receipt[m].status = "verified" /\ Whole(m, receipt[m].content)

(* What a pass has read is not used by the next one.                         *)
Forget ==
    /\ terminal' = FALSE
    /\ listing' = Nothing(None)
    /\ todo' = {}
    /\ fetched' = "none"

Return(disposition, reason) ==
    /\ result' = [disposition |-> disposition, reason |-> reason]
    /\ pc' = "returned"
    /\ Forget
    /\ UNCHANGED <<pod, disk, verified, faults>>

(* What a failure reports: the receipts verified by this process or on disk.  *)
FailureDisposition == IF verified # {} \/ HasVerified THEN "partial_recovered" ELSE "unavailable"

(* _incremental_failure, and a final recovery that fails.                    *)
Fail == Return(FailureDisposition, "contract")

(* _failed: a stale heartbeat, or the provider's termination deadline.       *)
Lost ==
    /\ pc = "poll"
    /\ Return("unavailable", "lost")

(* _permanent_failure: the status is not this run's, or not a status.        *)
StatusRefused ==
    /\ pc = "poll"
    /\ Return(FailureDisposition, "status")

(* TransferUnavailable defers the rest of the pass to the next poll.         *)
Defer ==
    /\ faults < MaxFaults
    /\ faults' = faults + 1
    /\ pc' = "poll"
    /\ Forget
    /\ UNCHANGED <<disk, verified, result>>

(* The supervisor dies and execute starts over with an empty memory.  A       *)
(* rename it had asked for may still land.                                  *)
Crash ==
    /\ pc # "returned"
    /\ faults < MaxFaults
    /\ faults' = faults + 1
    /\ \/ inflight' = inflight
       \/ pc = "publish" /\ inflight' = inflight \cup {<<Current, ack[Current]>>}
    /\ pc' = "poll"
    /\ verified' = {}
    /\ Forget
    /\ UNCHANGED <<worker, remote, remote_ack, history, disk, result>>

-----------------------------------------------------------------------------
(* One pass.                                                               *)

(* The status is read before the listing, so a terminal one is a promise      *)
(* that the listing is complete.                                            *)
Poll ==
    /\ pc = "poll"
    /\ terminal' = (worker # "running")
    /\ pc' = "discover"
    /\ UNCHANGED <<pod, disk, verified, listing, todo, fetched, result, faults>>

Listed == {m \in Manifests : IsFile(remote[m])}

Discover ==
    /\ pc = "discover"
    /\ Cardinality(Listed) <= MaxManifests
    /\ listing' = [m \in Manifests |-> IF m \in Listed THEN remote[m] ELSE None]
    /\ todo' = Listed
    /\ pc' = "next"
    /\ UNCHANGED <<pod, disk, verified, terminal, fetched, result, faults>>

DiscoverTooMany ==
    /\ pc = "discover"
    /\ Cardinality(Listed) > MaxManifests
    /\ Fail

(* A verified receipt of the listed size and time needs no second transfer.     *)
(* Other bytes may or may not show in the size.                             *)
Matches(m) ==
    /\ receipt[m].status = "verified"
    /\ receipt[m].modified_at = listing[m].modified_at

SizeMayDiffer(m) == receipt[m].content # listing[m].content

(* Mutation of TakeMatching: a matching receipt ends the manifest's turn.     *)
TakeMatchingWithoutAck ==
    /\ pc = "next" /\ todo # {}
    /\ Matches(Current)
    /\ verified' = verified \cup {Current}
    /\ todo' = todo \ {Current}
    /\ UNCHANGED <<pod, disk, pc, terminal, listing, fetched, result, faults>>

TakeMatching ==
    /\ pc = "next" /\ todo # {}
    /\ Matches(Current)
    /\ IF Current \in verified \/ Whole(Current, receipt[Current].content)
       THEN /\ verified' = verified \cup {Current}
            /\ pc' = "ack"
            /\ UNCHANGED <<pod, disk, terminal, listing, todo, fetched, result, faults>>
       ELSE Fail

TakeOther ==
    /\ pc = "next" /\ todo # {}
    /\ Matches(Current) => SizeMayDiffer(Current)
    /\ pc' = "fetch"
    /\ UNCHANGED <<pod, disk, verified, terminal, listing, todo, fetched, result, faults>>

(* The listed file is gone, or was changed and has another size. *)
FetchRefused ==
    /\ pc = "fetch"
    /\ remote[Current].content # listing[Current].content
    /\ Fail

(* Mutation of Conflicts: the bytes of an earlier receipt are not compared.   *)
NeverConflicts(m, c) == FALSE

Conflicts(m, c) == receipt[m] # None /\ receipt[m].content # c

(* Mutation of WithinLimits: only what is listed now counts. *)
ListedWithinLimits(m) == Cardinality(Listed) <= MaxManifests

(* _enforce_incremental_run_limits: pending and verified receipts count.     *)
WithinLimits(m) ==
    Cardinality({m} \cup {n \in Manifests : receipt[n] # None}) <= MaxManifests

FetchFails ==
    /\ pc = "fetch"
    /\ IsFile(remote[Current])
    /\ LET c == remote[Current].content IN
          \/ c = "malformed" /\ Fail
          \/ c # "malformed" /\ Conflicts(Current, c) /\ Fail
          \/ /\ c # "malformed"
             /\ ~Conflicts(Current, c)
             /\ ~WithinLimits(Current)
             /\ Fail

(* Mutation of Fetch: the checkpoint counts as verified when it is pending.   *)
VerifiedWhenFetched ==
    /\ pc = "fetch"
    /\ IsFile(remote[Current])
    /\ remote[Current].content # "malformed"
    /\ ~Conflicts(Current, remote[Current].content)
    /\ WithinLimits(Current)
    /\ fetched' = remote[Current].content
    /\ receipt' = [receipt EXCEPT ![Current] =
                     [status |-> "pending", content |-> remote[Current].content,
                      modified_at |-> listing[Current].modified_at]]
    /\ verified' = verified \cup {Current}
    /\ pc' = "payload"
    /\ UNCHANGED <<pod, acks, files, completion, ack, publication,
                   terminal, listing, todo, result, faults>>

(* The pending receipt holds the content just read under the time of the     *)
(* listing.                                                                *)
Fetch ==
    /\ pc = "fetch"
    /\ IsFile(remote[Current])
    /\ remote[Current].content # "malformed"
    /\ ~Conflicts(Current, remote[Current].content)
    /\ WithinLimits(Current)
    /\ fetched' = remote[Current].content
    /\ receipt' = [receipt EXCEPT ![Current] =
                     [status |-> "pending", content |-> remote[Current].content,
                      modified_at |-> listing[Current].modified_at]]
    /\ pc' = "payload"
    /\ UNCHANGED <<pod, acks, files, completion, ack, publication,
                   verified, terminal, listing, todo, result, faults>>

PayloadCached ==
    /\ pc = "payload"
    /\ files[Current] = fetched
    /\ pc' = "complete"
    /\ UNCHANGED <<pod, disk, verified, terminal, listing, todo, fetched, result, faults>>

(* The reserve of free space would be touched, or the files are not there as  *)
(* the manifest declares them.                                              *)
PayloadRefused ==
    /\ pc = "payload"
    /\ files[Current] # fetched
    /\ Fail

(* Verified in staging, then moved into place one file at a time.            *)
Download ==
    /\ pc = "payload"
    /\ files[Current] # fetched
    /\ remote[Current].content = fetched
    /\ files' = [files EXCEPT ![Current] = "some"]
    /\ pc' = "place"
    /\ UNCHANGED <<pod, acks, receipt, completion, ack, publication,
                   verified, terminal, listing, todo, fetched, result, faults>>

PublishFiles ==
    /\ pc = "place"
    /\ files' = [files EXCEPT ![Current] = fetched]
    /\ pc' = "complete"
    /\ UNCHANGED <<pod, acks, receipt, completion, ack, publication,
                   verified, terminal, listing, todo, fetched, result, faults>>

Complete ==
    /\ pc = "complete"
    /\ completion' = [completion EXCEPT ![Current] = fetched]
    /\ pc' = "verify"
    /\ UNCHANGED <<pod, acks, receipt, files, ack, publication,
                   verified, terminal, listing, todo, fetched, result, faults>>

(* Mutation of Verify: the receipt on disk stays pending. *)
VerifyInMemory ==
    /\ pc = "verify"
    /\ verified' = verified \cup {Current}
    /\ pc' = "ack"
    /\ UNCHANGED <<pod, acks, receipt, files, completion, ack, publication,
                   terminal, listing, todo, fetched, result, faults>>

Verify ==
    /\ pc = "verify"
    /\ receipt' = [receipt EXCEPT ![Current].status = "verified"]
    /\ verified' = verified \cup {Current}
    /\ pc' = "ack"
    /\ UNCHANGED <<pod, acks, files, completion, ack, publication,
                   terminal, listing, todo, fetched, result, faults>>

-----------------------------------------------------------------------------
(* _publish_incremental_ack                                                *)

(* The manifest's turn is over. *)
Turn ==
    /\ todo' = todo \ {Current}
    /\ listing' = [listing EXCEPT ![Current] = None]
    /\ fetched' = "none"
    /\ pc' = "next"
    /\ UNCHANGED <<pod, acks, receipt, files, completion, ack,
                   verified, terminal, result, faults>>

NoAck ==
    /\ pc = "ack"
    /\ ~acks
    /\ Turn
    /\ UNCHANGED publication

(* Mutation of PersistAck: the acknowledgement is signed anew each time.     *)
SignAnew ==
    /\ pc = "ack"
    /\ acks
    /\ ack' = [ack EXCEPT ![Current] = receipt[Current]]
    /\ pc' = "find"
    /\ UNCHANGED <<pod, acks, receipt, files, completion, publication,
                   verified, terminal, listing, todo, fetched, result, faults>>

(* The acknowledgement is on disk before any byte of it leaves, and one that   *)
(* is on disk is used again.                                                *)
PersistAck ==
    /\ pc = "ack"
    /\ acks
    /\ ack[Current] \in {None, receipt[Current]}
    /\ ack' = [ack EXCEPT ![Current] = receipt[Current]]
    /\ pc' = "find"
    /\ UNCHANGED <<pod, acks, receipt, files, completion, publication,
                   verified, terminal, listing, todo, fetched, result, faults>>

(* verify_ack: the one on disk binds another receipt; or the key cannot sign. *)
AckRefused ==
    /\ pc = "ack"
    /\ acks
    /\ Fail

AlreadyPublished ==
    /\ pc = "find"
    /\ publication[Current] # None
    /\ IF publication[Current] = ack[Current]
       THEN Turn /\ UNCHANGED publication
       ELSE Fail

FindAck ==
    /\ pc = "find"
    /\ publication[Current] = None
    /\ pc' = IF remote_ack[Current] = None THEN "publish" ELSE "readback"
    /\ UNCHANGED <<pod, disk, verified, terminal, listing, todo, fetched, result, faults>>

PublishAtomic ==
    /\ pc = "publish"
    /\ remote_ack' = [remote_ack EXCEPT ![Current] = ack[Current]]
    /\ pc' = "readback"
    /\ UNCHANGED <<worker, remote, inflight, history, disk,
                   verified, terminal, listing, todo, fetched, result, faults>>

(* The rename was asked for and no answer came. *)
PublishUnknown ==
    /\ pc = "publish"
    /\ inflight' = inflight \cup {<<Current, ack[Current]>>}
    /\ Defer
    /\ UNCHANGED <<worker, remote, remote_ack, history>>

Readback ==
    /\ pc = "readback"
    /\ IF remote_ack[Current] = ack[Current]
       THEN /\ publication' = [publication EXCEPT ![Current] = ack[Current]]
            /\ Turn
       ELSE Fail

(* Every SFTP call of a pass may fail in a way that says nothing.            *)
Unavailable ==
    /\ pc \in {"discover", "fetch", "payload", "find", "publish", "readback", "recover"}
    /\ Defer
    /\ UNCHANGED pod

-----------------------------------------------------------------------------
(* The end of a pass.                                                      *)

(* Mutation of EndPass: the status is looked at after the listing. *)
EndPassByStatus ==
    /\ pc = "next" /\ todo = {}
    /\ pc' = IF worker # "running" THEN "recover" ELSE "poll"
    /\ Forget
    /\ UNCHANGED <<pod, disk, verified, result, faults>>

EndPass ==
    /\ pc = "next" /\ todo = {}
    /\ pc' = IF terminal THEN "recover" ELSE "poll"
    /\ Forget
    /\ UNCHANGED <<pod, disk, verified, result, faults>>

(* _recover_artifacts: the final artifacts of the terminal record. *)
Recover ==
    /\ pc = "recover"
    /\ \/ worker = "succeeded" /\ Return("verified", "terminal")
       \/ worker = "failed" /\ Return("partial_recovered", "terminal")
       \/ worker = "failed_bare" /\ Return("unavailable", "terminal")
       \/ worker # "failed_bare" /\ Fail

-----------------------------------------------------------------------------
WorkerStep ==
    \/ \E m \in Manifests : Save(m) \/ Change(m) \/ Prune(m) \/ Land(m)
    \/ Finish

ExecutorStep ==
    \/ Poll \/ Lost \/ StatusRefused \/ Discover \/ DiscoverTooMany \/ TakeMatching \/ TakeOther
    \/ FetchRefused \/ FetchFails \/ Fetch
    \/ PayloadCached \/ PayloadRefused \/ Download \/ PublishFiles \/ Complete \/ Verify
    \/ NoAck \/ PersistAck \/ AckRefused \/ AlreadyPublished \/ FindAck
    \/ PublishAtomic \/ PublishUnknown \/ Readback \/ Unavailable
    \/ EndPass \/ Recover

Next == WorkerStep \/ ExecutorStep \/ Crash

Spec == Init /\ [][Next]_vars

(* Where execute waits for an rclone that has no timeout (discover has one). *)
InTransfer ==
    \/ pc \in {"fetch", "publish", "readback", "recover"}
    \/ pc = "payload" /\ files[Current] # fetched

(* The supervisor is restarted and its loop goes on between the transfers;      *)
(* faults are bounded, and nothing is assumed of a transfer, of the worker or   *)
(* of a rename whose answer was lost.                                       *)
FairSpec == Spec /\ WF_vars(~InTransfer /\ ExecutorStep)

-----------------------------------------------------------------------------
(* Properties.                                                             *)

(* The worker deletes a checkpoint on the strength of its acknowledgement: one *)
(* that is there, or may still land, is the one on the controller's disk, and  *)
(* the checkpoint it names is whole in the receipt tree whatever crashed or    *)
(* was transferred again since (_publish_incremental_ack, _mirror_incremental_ *)
(* manifest).                                                              *)
AckIsTrue == \A m \in Manifests :
    \A a \in {remote_ack[m]} \cup {r \in Receipts : <<m, r>> \in inflight} :
        a # None => ack[m] = a /\ Whole(m, a.content)

(* Once visible, an acknowledgement is never replaced by another one: not by a *)
(* retry after an unknown outcome, not by a rename that lands late            *)
(* (publish_atomic overwrites its target).                                  *)
AckIsStable == [][\A m \in Manifests :
    remote_ack[m] # None => remote_ack'[m] = remote_ack[m]]_vars

(* _MAX_INCREMENTAL_MANIFESTS bounds what a run leaves on the controller over  *)
(* its whole life, restarts and checkpoints the worker has pruned included.   *)
LimitHolds == Cardinality({m \in Manifests : receipt[m] # None}) <= MaxManifests

(* partial_recovered on a failure of the contract names a checkpoint that is  *)
(* whole on disk, although the decision trusts a set held in memory           *)
(* (_incremental_failure, _permanent_failure).                              *)
PartialIsTrue ==
    result.disposition = "partial_recovered" /\ result.reason # "terminal" =>
        \E m \in Manifests : completion[m] # "none" /\ Whole(m, completion[m])

(* When execute goes on to the final artifacts no completion file of the pod      *)
(* is left behind, the last ones included (the order of status and listing):     *)
(* each has a verified receipt of the time it is listed with, the files of that   *)
(* receipt are whole on disk, and it is acknowledged if the job asks for it.  The  *)
(* bytes are the pod's, unless the worker wrote the manifest again under a time    *)
(* it may have had before: of that the fingerprint shows nothing.               *)
NothingLeftBehind ==
    pc = "recover" =>
        \A m \in Manifests : IsFile(remote[m]) =>
            /\ receipt[m].status = "verified"
            /\ receipt[m].modified_at = remote[m].modified_at
            /\ Whole(m, receipt[m].content)
            /\ m \in reused \/ receipt[m].content = remote[m].content
            /\ acks => remote_ack[m] # None

(* A completed checkpoint is mirrored, and acknowledged if the job asks for    *)
(* it, unless execute returns first or one transfer never ends: an unknown      *)
(* outcome or a crash at any step is made good by a later pass               *)
(* (_mirror_incremental_artifacts).                                         *)
Mirrored(m) ==
    /\ completion[m] # "none" /\ Whole(m, completion[m])
    /\ acks => remote_ack[m] # None

EventuallyMirrored ==
    \/ \A m \in Manifests : IsFile(remote[m]) ~> (Mirrored(m) \/ result # NoResult)
    \/ <>[]InTransfer

-----------------------------------------------------------------------------
(* What the documents say and the code does not do.                        *)

(* docs/security-and-operations.md:118-122, of a conflict, an exceeded limit or  *)
(* a mismatch: "Any prior verified checkpoint is reported as                  *)
(* `partial_recovered`".  A receipt that turned pending again, because its       *)
(* manifest was only touched, is not counted once the memory of it is gone,      *)
(* although its acknowledgement was published (_has_verified_incremental_        *)
(* artifacts).                                                              *)
AcknowledgedIsReported ==
    result.disposition = "unavailable" /\ result.reason = "contract" =>
        \A m \in Manifests : publication[m] = None
=============================================================================
