--------------------------- MODULE MirrorInvariant ---------------------------
(***************************************************************************)
(* The inductive invariant of IncrementalMirror.  What is on disk for a        *)
(* manifest only grows towards one content, whatever the passes and the       *)
(* crashes in between; what is signed, and what is published, rests on that.   *)
(***************************************************************************)
EXTENDS IncrementalMirror

(* A receipt's content never changes, and what was once whole stays whole.      *)
ReceiptInv == \A m \in Manifests :
    /\ files[m] \in {"none", "some", receipt[m].content}
    /\ completion[m] \in {"none", receipt[m].content}
    /\ receipt[m] = None => files[m] = "none"
    /\ receipt[m].content # "malformed"
    /\ receipt[m].status = "verified" => Whole(m, receipt[m].content)
    /\ m \in verified \/ ack[m] # None =>
          receipt[m] # None /\ Whole(m, receipt[m].content)
    /\ ack[m] # None => ack[m].content = receipt[m].content

(* What the pod has of an acknowledgement is the one on disk. *)
AckInv == \A m \in Manifests :
    /\ remote_ack[m] # None => remote_ack[m] = ack[m]
    /\ \A r \in Receipts : <<m, r>> \in inflight => ack[m] = r
    /\ publication[m] # None => remote_ack[m] # None

(* Where the pass is. *)
Transfer == {"payload", "place", "complete", "verify"}
Acknowledge == {"ack", "find", "publish", "readback"}

PassInv ==
    /\ pc \in {"fetch"} \cup Transfer \cup Acknowledge => todo # {}
    /\ pc \in Transfer => receipt[Current] # None /\ fetched = receipt[Current].content
    /\ pc \in {"complete", "verify"} => files[Current] = fetched
    /\ pc = "verify" => completion[Current] = fetched
    /\ pc \in Acknowledge => receipt[Current].status = "verified"
    /\ pc \in {"find", "publish", "readback"} => ack[Current] = receipt[Current]
    /\ pc \in {"poll", "discover", "recover", "returned"} => todo = {}
    /\ pc \in {"poll", "recover", "returned"} => ~terminal
    /\ pc = "returned" <=> result # NoResult

(* A modification time names one content of the manifest, unless it was reused. *)
Names(r, m) ==
    /\ remote[m] # None
    /\ r.modified_at <= changes
    /\ IsFile(remote[m]) /\ m \notin reused /\ r.modified_at = remote[m].modified_at =>
          r.content = remote[m].content

TimeInv == \A m \in Manifests :
    /\ IsFile(remote[m]) => remote[m].modified_at <= changes
    /\ m \in todo => IsFile(listing[m]) /\ Names(listing[m], m)
    /\ receipt[m] # None => Names(receipt[m], m)

(* A pass that began with a terminal status sees a pod that does not change.    *)
Done(m) ==
    /\ receipt[m].status = "verified"
    /\ receipt[m].modified_at = remote[m].modified_at
    /\ acks => remote_ack[m] # None

FinalInv ==
    /\ terminal \/ pc = "recover" => worker # "running"
    /\ terminal => \A m \in todo : listing[m] = remote[m]
    /\ (terminal /\ pc # "discover") \/ pc = "recover" =>
          \A m \in Manifests : IsFile(remote[m]) => m \in todo \/ Done(m)
    /\ terminal /\ pc \in Transfer \cup Acknowledge =>
          receipt[Current].modified_at = remote[Current].modified_at

MirrorInv ==
    /\ TypeOK /\ ReceiptInv /\ AckInv /\ PassInv /\ TimeInv /\ FinalInv
    /\ LimitHolds /\ PartialIsTrue
=============================================================================
