-------------------------- MODULE BarrierInvariant ---------------------------
(***************************************************************************)
(* The inductive invariant of LaunchBarrier: Runner's, and what the controller   *)
(* and the pod may rely on of each other across their deaths.                *)
(***************************************************************************)
EXTENDS LaunchBarrier, RunnerInvariant

(* How far execute and the pod's files have got.  Each fact that the next step   *)
(* relies on outlives the call that established it.                          *)
Progress ==
    /\ epc \in {"inputs", "token", "rename", "published"} => matching /\ seen
    /\ uploaded # {} => matching /\ seen
    /\ epc \in {"token", "rename", "published"} => inputReceipt
    /\ renaming => inputReceipt
    /\ token = "valid" => inputReceipt
    /\ inputReceipt => matching /\ seen /\ uploaded = Inputs
    /\ epc = "published" \/ tokenReceipt => token = "valid"

(* The journal has at most one authorization, and it belongs to no phase.      *)
AuthorizedOnce ==
    /\ OneAuthorization
    /\ \A i \in DOMAIN events :
          events[i].kind = "launch_authorized" => events[i].phase = NoPhase

(* What the two sides know of each other. *)
Handshake ==
    /\ token # "invalid"
    /\ seen => status.state # "none"
    /\ Authorized => token = "valid"
    /\ epc = "recovering" => terminal # NoTerminal
    /\ observation = "succeeded" => terminal = "succeeded"
    /\ AuthorizedOnce

BarrierInv == RunnerInv /\ BarrierTypeOK /\ Progress /\ Handshake
=============================================================================
