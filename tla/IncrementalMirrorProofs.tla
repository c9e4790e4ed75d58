----------------------- MODULE IncrementalMirrorProofs -----------------------
(***************************************************************************)
(* Proofs about IncrementalMirror, for any finite set of manifests, any limit   *)
(* on them and any number of changes, crashes and unanswered calls.  The steps  *)
(* that end execute, that end a manifest's turn and that leave a part of the    *)
(* state alone have a lemma each; MirrorStep goes through the rest.           *)
(***************************************************************************)
EXTENDS MirrorInvariant, WellFoundedInduction, FiniteSetTheorems, TLAPS

(* A set of naturals contains its minimum.                                      *)
LEMMA MinIsMember == ASSUME NEW S, S \subseteq Nat, S # {} PROVE Min(S) \in S
  <1> DEFINE Less == OpToRel(<, Nat)
  <1>1. PICK x \in S : \A y \in S : ~(<<y, x>> \in Less)
    <2> HIDE DEF Less
    <2>1. IsWellFoundedOn(Less, Nat)
      BY NatLessThanWellFounded DEF Less
    <2> QED
      BY <2>1, WFMin
  <1>2. Less = {ss \in Nat \X Nat : ss[1] < ss[2]}
    BY Zenon DEF OpToRel
  <1>3. \A y \in S : x <= y
    <2> HIDE DEF Less
    <2> SUFFICES ASSUME NEW y \in S, y < x PROVE FALSE
      OBVIOUS
    <2>1. <<y, x>> \in Nat \X Nat /\ <<y, x>>[1] < <<y, x>>[2]
      OBVIOUS
    <2> QED
      BY <1>1, <1>2, <2>1
  <1> QED
    BY <1>3 DEF Min

(* The manifest whose turn it is, is one that is left to do.                    *)
LEMMA CurrentIsMember ==
    ASSUME TypeOK, todo # {}
    PROVE  Current \in todo /\ Current \in Manifests
  BY MinIsMember, MirrorAssumption DEF TypeOK, Current

(* What the records of the state look like.                                     *)
LEMMA Changed ==
    ASSUME TypeOK
    PROVE  /\ todo' = todo => Current' = Current
           /\ \A m \in Manifests : receipt[m] # None => receipt[m] \in Receipts
           /\ \A m \in Manifests : ack[m] # None => ack[m] \in Receipts
           /\ None.content = "none" /\ None.status = "none" /\ ~IsFile(None) /\ ~IsFile(Pruned)
           /\ None \notin Receipts
  BY DEF TypeOK, Current, None, Pruned, IsFile, Receipts

(* A receipt verified in memory or on disk stands for a whole checkpoint: the   *)
(* evidence of partial_recovered.                                               *)
LEMMA VerifiedIsWhole ==
    ASSUME MirrorInv, verified # {} \/ HasVerified
    PROVE  \E m \in Manifests : completion[m] # "none" /\ Whole(m, completion[m])
  <1>1. PICK m \in Manifests : receipt[m] # None /\ Whole(m, receipt[m].content)
    BY DEF MirrorInv, TypeOK, ReceiptInv, HasVerified, None
  <1>2. receipt[m].content # "none"
    BY <1>1 DEF MirrorInv, TypeOK, Receipts, Contents
  <1> QED
    BY <1>1, <1>2 DEF Whole

(* execute returns: with partial_recovered only over a verified receipt, or after *)
(* the terminal recovery.                                                       *)
LEMMA ReturnKeeps ==
    ASSUME MirrorInv, NEW d \in Dispositions, NEW why \in Reasons, Return(d, why),
           pc # "returned",
           d = "partial_recovered" /\ why # "terminal" => verified # {} \/ HasVerified
    PROVE  MirrorInv'
  <1>c. todo # {} => Current \in todo /\ Current \in Manifests
    BY CurrentIsMember DEF MirrorInv
  <1>k. /\ todo' = todo => Current' = Current
        /\ \A m \in Manifests : receipt[m] # None => receipt[m] \in Receipts
        /\ \A m \in Manifests : ack[m] # None => ack[m] \in Receipts
        /\ None.content = "none" /\ None.status = "none" /\ ~IsFile(None) /\ ~IsFile(Pruned)
        /\ None \notin Receipts
    BY Changed DEF MirrorInv
  <1> USE MirrorAssumption DEF MirrorInv, pod, history, disk, memory
  <1>1. TypeOK'
    BY <1>c, <1>k, VerifiedIsWhole DEF TypeOK, NoResult, Reasons, Dispositions, Return,
       Forget, Nothing
  <1>2. ReceiptInv'
    BY <1>c, <1>k, VerifiedIsWhole DEF ReceiptInv, Whole, Return, Forget, Nothing
  <1>3. AckInv'
    BY <1>c, <1>k, VerifiedIsWhole DEF AckInv, Return, Forget, Nothing
  <1>4. PassInv'
    BY <1>c, <1>k, VerifiedIsWhole DEF PassInv, Transfer, Acknowledge, NoResult,
       Dispositions, Return, Forget, Nothing
  <1>5. TimeInv'
    BY <1>c, <1>k, VerifiedIsWhole DEF TimeInv, Names, IsFile, Return, Forget, Nothing
  <1>6. FinalInv'
    BY <1>c, <1>k, VerifiedIsWhole DEF FinalInv, Transfer, Acknowledge, Done, Whole, IsFile,
       Return, Forget, Nothing
  <1>7. LimitHolds'
    BY <1>c, <1>k, VerifiedIsWhole DEF LimitHolds, Return, Forget, Nothing
  <1>8. PartialIsTrue'
    BY <1>c, <1>k, VerifiedIsWhole DEF PartialIsTrue, Whole, Return, Forget, Nothing
  <1> QED
    BY <1>1, <1>2, <1>3, <1>4, <1>5, <1>6, <1>7, <1>8

(* _incremental_failure at any place of a pass.                                 *)
LEMMA FailKeeps == ASSUME MirrorInv, Fail, pc # "returned" PROVE MirrorInv'
  BY ReturnKeeps DEF Fail, FailureDisposition, Dispositions, Reasons

(* The parts of the invariant that rest on few variables.                       *)
LEMMA Frame ==
    ASSUME MirrorInv
    PROVE  /\ UNCHANGED <<receipt, files, completion, ack, verified>> => ReceiptInv'
           /\ UNCHANGED <<ack, remote_ack, inflight, publication>> => AckInv'
           /\ UNCHANGED receipt => LimitHolds'
           /\ UNCHANGED <<files, completion, result>> => PartialIsTrue'
  BY DEF MirrorInv, ReceiptInv, AckInv, LimitHolds, PartialIsTrue, Whole

(* The turn of a manifest ends once it is verified, and acknowledged if the job *)
(* asks for it.                                                                 *)
LEMMA TurnKeeps ==
    ASSUME MirrorInv, Turn, pc \in Acknowledge, acks => remote_ack[Current] # None,
           publication' \in [Manifests -> Receipts \cup {None}]
    PROVE  TypeOK' /\ PassInv' /\ TimeInv' /\ FinalInv'
  <1>c. Current \in todo /\ Current \in Manifests
    BY CurrentIsMember DEF MirrorInv, PassInv
  <1> USE DEF MirrorInv, Turn, pod, history
  <1>1. TypeOK'
    BY <1>c DEF TypeOK
  <1>2. PassInv'
    BY DEF PassInv, Transfer, Acknowledge
  <1>3. TimeInv'
    BY <1>c DEF TimeInv, Names, TypeOK
  <1>4. FinalInv'
    <2>1. terminal /\ IsFile(remote[Current]) => Done(Current)
      BY <1>c DEF PassInv, FinalInv, Done
    <2>2. \A m \in Manifests : (Done(m)' <=> Done(m)) /\ (IsFile(remote[m])' <=> IsFile(remote[m]))
      BY DEF Done, IsFile
    <2> QED
      BY <1>c, <2>1, <2>2 DEF FinalInv, TypeOK, Transfer, Acknowledge
  <1> QED
    BY <1>1, <1>2, <1>3, <1>4

(* Every step of the worker, the loop and its crashes keeps the invariant; one  *)
(* step per action, and under it one per part that the action can disturb.      *)
LEMMA MirrorStep == MirrorInv /\ [Next]_vars => MirrorInv'
  <1> SUFFICES ASSUME MirrorInv, [Next]_vars PROVE MirrorInv'
    OBVIOUS
  <1>c. todo # {} => Current \in todo /\ Current \in Manifests
    BY CurrentIsMember DEF MirrorInv
  <1>k. /\ todo' = todo => Current' = Current
        /\ \A m \in Manifests : receipt[m] # None => receipt[m] \in Receipts
        /\ \A m \in Manifests : ack[m] # None => ack[m] \in Receipts
        /\ None.content = "none" /\ None.status = "none" /\ ~IsFile(None) /\ ~IsFile(Pruned)
        /\ None \notin Receipts
    BY Changed DEF MirrorInv
  <1>d. /\ remote \in [Manifests -> RemoteFiles \cup {None, Pruned}]
        /\ listing \in [Manifests -> RemoteFiles \cup {None, Pruned}]
        /\ remote_ack \in [Manifests -> Receipts \cup {None}]
        /\ receipt \in [Manifests -> Receipts \cup {None}]
        /\ files \in [Manifests -> Contents \cup {"none", "some"}]
        /\ completion \in [Manifests -> Contents \cup {"none"}]
        /\ ack \in [Manifests -> Receipts \cup {None}]
        /\ publication \in [Manifests -> Receipts \cup {None}]
    BY DEF MirrorInv, TypeOK
  <1>f. /\ UNCHANGED <<receipt, files, completion, ack, verified>> => ReceiptInv'
        /\ UNCHANGED <<ack, remote_ack, inflight, publication>> => AckInv'
        /\ UNCHANGED receipt => LimitHolds'
        /\ UNCHANGED <<files, completion, result>> => PartialIsTrue'
    BY Frame
  <1> USE MirrorAssumption DEF MirrorInv, pod, history, disk, memory
  <1>1. ASSUME NEW m \in Manifests, Save(m) PROVE MirrorInv'
    <2>1. ReceiptInv' /\ AckInv' /\ LimitHolds' /\ PartialIsTrue'
      BY <1>1, <1>f DEF Save
    <2>2. TypeOK'
      BY <1>1, <1>c, <1>k, <1>d DEF TypeOK, RemoteFiles, Contents, Modified, Save,
         Observed
    <2>3. PassInv'
      BY <1>1, <1>c, <1>k, <1>d DEF PassInv, Transfer, Acknowledge, Save, Observed
    <2>4. TimeInv'
      BY <1>1, <1>c, <1>k, <1>d DEF TimeInv, Names, IsFile, None, Pruned, RemoteFiles,
         Modified, TypeOK, Save, Observed
    <2>5. FinalInv'
      BY <1>1, <1>c, <1>k, <1>d DEF FinalInv, Transfer, Acknowledge, Done, Whole,
         IsFile, Save, Observed
    <2> QED
      BY <2>1, <2>2, <2>3, <2>4, <2>5
  <1>2. ASSUME NEW m \in Manifests, Change(m) PROVE MirrorInv'
    <2>1. ReceiptInv' /\ AckInv' /\ LimitHolds' /\ PartialIsTrue'
      BY <1>2, <1>f DEF Change
    <2>2. remote[m] \in RemoteFiles /\ IsFile(remote[m])
      BY <1>2, <1>d DEF Change, IsFile, None, Pruned, RemoteFiles
    <2>3. PICK content \in Contents, t \in 0 .. changes' :
            /\ remote' = [remote EXCEPT ![m] = [status |-> "file", content |-> content,
                                                modified_at |-> t]]
            /\ reused' = IF t = changes' THEN reused \ {m} ELSE reused \cup {m}
      BY <1>2, <2>2 DEF Change, RemoteFiles, Contents
    <2>4. /\ changes \in Nat /\ changes' = changes + 1 /\ changes' \in 0 .. MaxChanges
          /\ t \in Modified
      BY <1>2, <2>3 DEF Change, TypeOK, Modified
    <2>5. TypeOK'
      BY <1>2, <2>3, <2>4 DEF Change, TypeOK, RemoteFiles
    <2>6. PassInv'
      BY <1>2, <1>k DEF Change, PassInv, Transfer, Acknowledge
    <2>7. TimeInv'
      <3>1. ASSUME NEW r, NEW n \in Manifests, Names(r, n), r.modified_at \in Nat
            PROVE  Names(r, n)'
        <4>1. CASE n = m
          <5>1. remote'[m] = [status |-> "file", content |-> content, modified_at |-> t]
            BY <1>d, <2>3
          <5>2. t = changes' \/ m \in reused'
            BY <2>3
          <5> QED
            BY <2>4, <3>1, <4>1, <5>1, <5>2 DEF Names, IsFile, None
        <4>2. CASE n # m
          <5>1. remote'[n] = remote[n] /\ (n \in reused' <=> n \in reused)
            BY <1>d, <2>3, <4>2
          <5> QED
            BY <2>4, <3>1, <5>1 DEF Names, IsFile
        <4> QED
          BY <4>1, <4>2
      <3>2. \A n \in Manifests :
              /\ IsFile(listing[n]) => listing[n].modified_at \in Nat
              /\ receipt[n] # None => receipt[n].modified_at \in Nat
              /\ IsFile(remote[n]) => remote[n].modified_at \in Nat
        BY <1>d, <1>k DEF IsFile, RemoteFiles, Receipts, Modified
      <3>3. ASSUME NEW n \in Manifests, IsFile(remote'[n])
            PROVE  remote'[n].modified_at <= changes'
        <4>1. CASE n = m
          BY <1>d, <2>3, <2>4, <4>1
        <4>2. CASE n # m
          BY <1>d, <2>3, <2>4, <3>2, <3>3, <4>2 DEF TimeInv
        <4> QED
          BY <4>1, <4>2
      <3>4. UNCHANGED <<todo, listing, receipt>>
        BY <1>2 DEF Change
      <3> QED
        BY <3>1, <3>2, <3>3, <3>4 DEF TimeInv, IsFile
    <2>8. FinalInv'
      BY <1>2 DEF Change, FinalInv
    <2> QED
      BY <2>1, <2>5, <2>6, <2>7, <2>8
  <1>3. ASSUME NEW m \in Manifests, Prune(m) PROVE MirrorInv'
    <2>1. ReceiptInv' /\ AckInv' /\ LimitHolds' /\ PartialIsTrue'
      BY <1>3, <1>f DEF Prune
    <2>2. TypeOK'
      BY <1>3, <1>c, <1>k, <1>d DEF TypeOK, Prune, Observed
    <2>3. PassInv'
      BY <1>3, <1>c, <1>k, <1>d DEF PassInv, Transfer, Acknowledge, Prune, Observed
    <2>4. TimeInv'
      BY <1>3, <1>c, <1>k, <1>d DEF TimeInv, Names, IsFile, None, Pruned, Prune,
         Observed
    <2>5. FinalInv'
      BY <1>3, <1>c, <1>k, <1>d DEF FinalInv, Transfer, Acknowledge, Done, Whole,
         IsFile, Prune, Observed
    <2> QED
      BY <2>1, <2>2, <2>3, <2>4, <2>5
  <1>4. ASSUME NEW m \in Manifests, Land(m) PROVE MirrorInv'
    <2>1. ReceiptInv' /\ LimitHolds' /\ PartialIsTrue'
      BY <1>4, <1>f DEF Land
    <2>2. TypeOK'
      BY <1>4, <1>c, <1>k, <1>d DEF TypeOK, Land
    <2>3. AckInv'
      BY <1>4, <1>c, <1>k, <1>d DEF AckInv, Land
    <2>4. PassInv'
      BY <1>4, <1>c, <1>k, <1>d DEF PassInv, Transfer, Acknowledge, Land
    <2>5. TimeInv'
      BY <1>4, <1>c, <1>k, <1>d DEF TimeInv, Names, IsFile, Land
    <2>6. FinalInv'
      BY <1>4, <1>c, <1>k, <1>d DEF FinalInv, Transfer, Acknowledge, Done, Whole,
         IsFile, Land
    <2> QED
      BY <2>1, <2>2, <2>3, <2>4, <2>5, <2>6
  <1>5. CASE Finish
    <2>1. ReceiptInv' /\ AckInv' /\ LimitHolds' /\ PartialIsTrue'
      BY <1>5, <1>f DEF Finish
    <2>2. TypeOK'
      BY <1>5, <1>c, <1>k, <1>d DEF TypeOK, Finish, Observed
    <2>3. PassInv'
      BY <1>5, <1>c, <1>k, <1>d DEF PassInv, Transfer, Acknowledge, Finish, Observed
    <2>4. TimeInv'
      BY <1>5, <1>c, <1>k, <1>d DEF TimeInv, Names, IsFile, Finish, Observed
    <2>5. FinalInv'
      BY <1>5, <1>c, <1>k, <1>d DEF FinalInv, Transfer, Acknowledge, Done, Whole,
         IsFile, Finish, Observed
    <2> QED
      BY <2>1, <2>2, <2>3, <2>4, <2>5
  <1>6. CASE Poll
    <2>1. ReceiptInv' /\ AckInv' /\ LimitHolds' /\ PartialIsTrue'
      BY <1>6, <1>f DEF Poll
    <2>2. TypeOK'
      BY <1>6, <1>c, <1>k, <1>d DEF TypeOK, Poll
    <2>3. PassInv'
      BY <1>6, <1>c, <1>k, <1>d DEF PassInv, Transfer, Acknowledge, Poll
    <2>4. TimeInv'
      BY <1>6, <1>c, <1>k, <1>d DEF TimeInv, Names, IsFile, Poll
    <2>5. FinalInv'
      BY <1>6, <1>c, <1>k, <1>d DEF FinalInv, Transfer, Acknowledge, Done, Whole,
         IsFile, PassInv, Poll
    <2> QED
      BY <2>1, <2>2, <2>3, <2>4, <2>5
  <1>7. CASE Discover
    <2>1. ReceiptInv' /\ AckInv' /\ LimitHolds' /\ PartialIsTrue'
      BY <1>7, <1>f DEF Discover
    <2>2. TypeOK'
      BY <1>7, <1>c, <1>k, <1>d DEF TypeOK, Discover, Listed
    <2>3. PassInv'
      BY <1>7, <1>c, <1>k, <1>d DEF PassInv, Transfer, Acknowledge, Discover, Listed
    <2>4. TimeInv'
      BY <1>7, <1>c, <1>k, <1>d DEF TimeInv, Names, IsFile, None, Pruned, RemoteFiles,
         Modified, Discover, Listed
    <2>5. FinalInv'
      BY <1>7, <1>c, <1>k, <1>d DEF FinalInv, Transfer, Acknowledge, Done, Whole,
         IsFile, Discover, Listed
    <2> QED
      BY <2>1, <2>2, <2>3, <2>4, <2>5
  <1>8. CASE TakeMatching
    <2> SUFFICES ASSUME ~Fail PROVE MirrorInv'
      BY <1>8, FailKeeps DEF TakeMatching
    <2>1. /\ pc = "next" /\ todo # {} /\ Matches(Current) /\ pc' = "ack"
          /\ Current \in verified \/ Whole(Current, receipt[Current].content)
          /\ verified' = verified \cup {Current}
          /\ UNCHANGED <<pod, disk, terminal, listing, todo, fetched, result, faults>>
      BY <1>8 DEF TakeMatching
    <2>2. AckInv' /\ LimitHolds' /\ PartialIsTrue'
      BY <1>8, <1>f, <2>1 DEF TakeMatching, Matches
    <2>3. TypeOK'
      BY <1>8, <2>1, <1>c, <1>k, <1>d DEF TypeOK, TakeMatching, Matches
    <2>4. ReceiptInv'
      BY <1>8, <2>1, <1>c, <1>k, <1>d DEF ReceiptInv, Whole, TakeMatching, Matches
    <2>5. PassInv'
      BY <1>8, <2>1, <1>c, <1>k, <1>d DEF PassInv, Transfer, Acknowledge, TakeMatching,
         Matches
    <2>6. TimeInv'
      BY <1>8, <2>1, <1>c, <1>k, <1>d DEF TimeInv, Names, IsFile, TakeMatching, Matches
    <2>7. FinalInv'
      <3>1. terminal => receipt[Current].modified_at = remote[Current].modified_at
        BY <1>c, <2>1 DEF Matches, FinalInv
      <3>2. \A m \in Manifests : (Done(m)' <=> Done(m)) /\ (IsFile(remote[m])' <=> IsFile(remote[m]))
        BY <2>1 DEF Done, IsFile
      <3> QED
        BY <1>k, <2>1, <3>1, <3>2 DEF FinalInv, Transfer, Acknowledge
    <2> QED
      BY <2>2, <2>3, <2>4, <2>5, <2>6, <2>7
  <1>9. CASE TakeOther
    <2>1. ReceiptInv' /\ AckInv' /\ LimitHolds' /\ PartialIsTrue'
      BY <1>9, <1>f DEF TakeOther
    <2>2. TypeOK'
      BY <1>9, <1>c, <1>k, <1>d DEF TypeOK, TakeOther
    <2>3. PassInv'
      BY <1>9, <1>c, <1>k, <1>d DEF PassInv, Transfer, Acknowledge, TakeOther
    <2>4. TimeInv'
      BY <1>9, <1>c, <1>k, <1>d DEF TimeInv, Names, IsFile, TakeOther
    <2>5. FinalInv'
      BY <1>9, <1>c, <1>k, <1>d DEF FinalInv, Transfer, Acknowledge, Done, Whole,
         IsFile, TakeOther
    <2> QED
      BY <2>1, <2>2, <2>3, <2>4, <2>5
  <1>10. CASE Fetch
    <2>1. AckInv' /\ PartialIsTrue'
      BY <1>10, <1>f DEF Fetch
    <2>2. TypeOK'
      BY <1>10, <1>c, <1>k, <1>d DEF TypeOK, RemoteFiles, Receipts, Contents, Modified,
         IsFile, PassInv, TimeInv, None, Pruned, Fetch, Conflicts, WithinLimits
    <2>3. ReceiptInv'
      BY <1>10, <1>c, <1>k, <1>d DEF ReceiptInv, Whole, Fetch, Conflicts, WithinLimits
    <2>4. LimitHolds'
      <3>1. {n \in Manifests : receipt'[n] # None}
            = {Current} \cup {n \in Manifests : receipt[n] # None}
        BY <1>10, <1>c, <1>d DEF Fetch, PassInv, None
      <3> QED
        BY <1>10, <3>1 DEF LimitHolds, Fetch, WithinLimits
    <2>5. PassInv'
      BY <1>10, <1>c, <1>k, <1>d DEF PassInv, Transfer, Acknowledge, None, Fetch,
         Conflicts, WithinLimits
    <2>6. TimeInv'
      BY <1>10, <1>c, <1>k, <1>d DEF TimeInv, Names, IsFile, None, PassInv, RemoteFiles,
         Receipts, Modified, Fetch, Conflicts, WithinLimits
    <2>7. FinalInv'
      BY <1>10, <1>c, <1>k, <1>d DEF FinalInv, Transfer, Acknowledge, Done, Whole,
         IsFile, PassInv, Fetch, Conflicts, WithinLimits
    <2> QED
      BY <2>1, <2>2, <2>3, <2>4, <2>5, <2>6, <2>7
  <1>11. CASE PayloadCached
    <2>1. ReceiptInv' /\ AckInv' /\ LimitHolds' /\ PartialIsTrue'
      BY <1>11, <1>f DEF PayloadCached
    <2>2. TypeOK'
      BY <1>11, <1>c, <1>k, <1>d DEF TypeOK, PayloadCached
    <2>3. PassInv'
      BY <1>11, <1>c, <1>k, <1>d DEF PassInv, Transfer, Acknowledge, PayloadCached
    <2>4. TimeInv'
      BY <1>11, <1>c, <1>k, <1>d DEF TimeInv, Names, IsFile, PayloadCached
    <2>5. FinalInv'
      BY <1>11, <1>c, <1>k, <1>d DEF FinalInv, Transfer, Acknowledge, Done, Whole,
         IsFile, PayloadCached
    <2> QED
      BY <2>1, <2>2, <2>3, <2>4, <2>5
  <1>12. CASE Download
    <2>1. AckInv' /\ LimitHolds'
      BY <1>12, <1>f DEF Download
    <2>2. TypeOK'
      BY <1>12, <1>c, <1>k, <1>d DEF TypeOK, Download
    <2>3. ReceiptInv'
      BY <1>12, <1>c, <1>k, <1>d DEF ReceiptInv, Whole, PassInv, Transfer, Download
    <2>4. PartialIsTrue'
      BY <1>12, <1>c, <1>k, <1>d DEF PartialIsTrue, Whole, PassInv, NoResult, Download
    <2>5. PassInv'
      BY <1>12, <1>c, <1>k, <1>d DEF PassInv, Transfer, Acknowledge, Download
    <2>6. TimeInv'
      BY <1>12, <1>c, <1>k, <1>d DEF TimeInv, Names, IsFile, Download
    <2>7. FinalInv'
      BY <1>12, <1>c, <1>k, <1>d DEF FinalInv, Transfer, Acknowledge, Done, Whole,
         IsFile, PassInv, Download
    <2> QED
      BY <2>1, <2>2, <2>3, <2>4, <2>5, <2>6, <2>7
  <1>13. CASE PublishFiles
    <2>1. AckInv' /\ LimitHolds'
      BY <1>13, <1>f DEF PublishFiles
    <2>2. TypeOK'
      BY <1>13, <1>c, <1>k, <1>d DEF TypeOK, PublishFiles
    <2>3. ReceiptInv'
      BY <1>13, <1>c, <1>k, <1>d DEF ReceiptInv, Whole, PassInv, Transfer, PublishFiles
    <2>4. PartialIsTrue'
      BY <1>13, <1>c, <1>k, <1>d DEF PartialIsTrue, Whole, PassInv, NoResult,
         PublishFiles
    <2>5. PassInv'
      BY <1>13, <1>c, <1>k, <1>d DEF PassInv, Transfer, Acknowledge, PublishFiles
    <2>6. TimeInv'
      BY <1>13, <1>c, <1>k, <1>d DEF TimeInv, Names, IsFile, PublishFiles
    <2>7. FinalInv'
      BY <1>13, <1>c, <1>k, <1>d DEF FinalInv, Transfer, Acknowledge, Done, Whole,
         IsFile, PassInv, PublishFiles
    <2> QED
      BY <2>1, <2>2, <2>3, <2>4, <2>5, <2>6, <2>7
  <1>14. CASE Complete
    <2>1. AckInv' /\ LimitHolds'
      BY <1>14, <1>f DEF Complete
    <2>2. TypeOK'
      BY <1>14, <1>c, <1>k, <1>d DEF TypeOK, Complete
    <2>3. ReceiptInv'
      BY <1>14, <1>c, <1>k, <1>d DEF ReceiptInv, Whole, PassInv, Transfer, Complete
    <2>4. PartialIsTrue'
      BY <1>14, <1>c, <1>k, <1>d DEF PartialIsTrue, Whole, PassInv, NoResult, Complete
    <2>5. PassInv'
      BY <1>14, <1>c, <1>k, <1>d DEF PassInv, Transfer, Acknowledge, Complete
    <2>6. TimeInv'
      BY <1>14, <1>c, <1>k, <1>d DEF TimeInv, Names, IsFile, Complete
    <2>7. FinalInv'
      BY <1>14, <1>c, <1>k, <1>d DEF FinalInv, Transfer, Acknowledge, Done, Whole,
         IsFile, PassInv, Complete
    <2> QED
      BY <2>1, <2>2, <2>3, <2>4, <2>5, <2>6, <2>7
  <1>15. CASE Verify
    <2>1. AckInv' /\ PartialIsTrue'
      BY <1>15, <1>f DEF Verify
    <2>2. TypeOK'
      BY <1>15, <1>c, <1>k, <1>d DEF TypeOK, Receipts, PassInv, Transfer, Contents,
         Verify
    <2>3. ReceiptInv'
      <3>1. /\ receipt[Current] \in Receipts /\ Whole(Current, receipt[Current].content)
            /\ receipt' = [receipt EXCEPT ![Current] = [receipt[Current] EXCEPT !.status = "verified"]]
        BY <1>15, <1>c, <1>k DEF Verify, PassInv, Transfer, Whole
      <3>2. \A n \in Manifests :
              /\ receipt'[n].content = receipt[n].content
              /\ receipt'[n] = None <=> receipt[n] = None
              /\ n # Current => receipt'[n] = receipt[n]
        BY <1>c, <1>d, <3>1 DEF Receipts, None
      <3> QED
        BY <1>15, <1>k, <3>1, <3>2 DEF Verify, ReceiptInv, Whole
    <2>4. LimitHolds'
      <3>1. {n \in Manifests : receipt'[n] # None} = {n \in Manifests : receipt[n] # None}
        BY <1>15, <1>c, <1>d DEF Verify, PassInv, Transfer, None, Receipts
      <3> QED
        BY <1>15, <3>1 DEF LimitHolds
    <2>5. PassInv'
      BY <1>15, <1>c, <1>k, <1>d DEF PassInv, Transfer, Acknowledge, Receipts, None,
         Verify
    <2>6. TimeInv'
      BY <1>15, <1>c, <1>k, <1>d DEF TimeInv, Names, IsFile, PassInv, Transfer,
         Receipts, Verify
    <2>7. FinalInv'
      BY <1>15, <1>c, <1>k, <1>d DEF FinalInv, Transfer, Acknowledge, Done, Whole,
         IsFile, Verify
    <2> QED
      BY <2>1, <2>2, <2>3, <2>4, <2>5, <2>6, <2>7
  <1>16. CASE NoAck
    <2>1. TypeOK' /\ PassInv' /\ TimeInv' /\ FinalInv'
      BY <1>16, <1>d, TurnKeeps DEF NoAck, Acknowledge
    <2>2. ReceiptInv' /\ AckInv' /\ LimitHolds' /\ PartialIsTrue'
      BY <1>16, <1>f DEF NoAck, Turn
    <2> QED
      BY <2>1, <2>2
  <1>17. CASE PersistAck
    <2>1. LimitHolds' /\ PartialIsTrue'
      BY <1>17, <1>f DEF PersistAck
    <2>2. TypeOK'
      BY <1>17, <1>c, <1>k, <1>d DEF TypeOK, PersistAck
    <2>3. ReceiptInv'
      BY <1>17, <1>c, <1>k, <1>d DEF ReceiptInv, Whole, PassInv, Acknowledge, PersistAck
    <2>4. AckInv'
      BY <1>17, <1>c, <1>k, <1>d DEF AckInv, PassInv, Acknowledge, PersistAck
    <2>5. PassInv'
      BY <1>17, <1>c, <1>k, <1>d DEF PassInv, Transfer, Acknowledge, PersistAck
    <2>6. TimeInv'
      BY <1>17, <1>c, <1>k, <1>d DEF TimeInv, Names, IsFile, PersistAck
    <2>7. FinalInv'
      BY <1>17, <1>c, <1>k, <1>d DEF FinalInv, Transfer, Acknowledge, Done, Whole,
         IsFile, PersistAck
    <2> QED
      BY <2>1, <2>2, <2>3, <2>4, <2>5, <2>6, <2>7
  <1>18. CASE AlreadyPublished
    <2>1. CASE publication[Current] = ack[Current]
      <3>1. remote_ack[Current] # None
        BY <1>18, <1>c DEF AlreadyPublished, AckInv, PassInv, Acknowledge
      <3>2. TypeOK' /\ PassInv' /\ TimeInv' /\ FinalInv'
        BY <1>18, <1>d, <2>1, <3>1, TurnKeeps DEF AlreadyPublished, Acknowledge
      <3>3. ReceiptInv' /\ AckInv' /\ LimitHolds' /\ PartialIsTrue'
        BY <1>18, <1>f, <2>1 DEF AlreadyPublished, Turn
      <3> QED
        BY <3>2, <3>3
    <2>2. CASE publication[Current] # ack[Current]
      BY <1>18, <2>2, FailKeeps DEF AlreadyPublished
    <2> QED
      BY <2>1, <2>2
  <1>19. CASE FindAck
    <2>1. ReceiptInv' /\ AckInv' /\ LimitHolds' /\ PartialIsTrue'
      BY <1>19, <1>f DEF FindAck
    <2>2. TypeOK'
      BY <1>19, <1>c, <1>k, <1>d DEF TypeOK, FindAck
    <2>3. PassInv'
      BY <1>19, <1>c, <1>k, <1>d DEF PassInv, Transfer, Acknowledge, FindAck
    <2>4. TimeInv'
      BY <1>19, <1>c, <1>k, <1>d DEF TimeInv, Names, IsFile, FindAck
    <2>5. FinalInv'
      BY <1>19, <1>c, <1>k, <1>d DEF FinalInv, Transfer, Acknowledge, Done, Whole,
         IsFile, FindAck
    <2> QED
      BY <2>1, <2>2, <2>3, <2>4, <2>5
  <1>20. CASE PublishAtomic
    <2>1. ReceiptInv' /\ LimitHolds' /\ PartialIsTrue'
      BY <1>20, <1>f DEF PublishAtomic
    <2>2. TypeOK'
      BY <1>20, <1>c, <1>k, <1>d DEF TypeOK, PublishAtomic
    <2>3. AckInv'
      BY <1>20, <1>c, <1>k, <1>d DEF AckInv, PassInv, Acknowledge, PublishAtomic
    <2>4. PassInv'
      BY <1>20, <1>c, <1>k, <1>d DEF PassInv, Transfer, Acknowledge, PublishAtomic
    <2>5. TimeInv'
      BY <1>20, <1>c, <1>k, <1>d DEF TimeInv, Names, IsFile, PublishAtomic
    <2>6. FinalInv'
      BY <1>20, <1>c, <1>k, <1>d DEF FinalInv, Transfer, Acknowledge, Done, Whole,
         IsFile, PassInv, PublishAtomic
    <2> QED
      BY <2>1, <2>2, <2>3, <2>4, <2>5, <2>6
  <1>21. CASE PublishUnknown
    <2>1. ReceiptInv' /\ LimitHolds' /\ PartialIsTrue'
      BY <1>21, <1>f DEF PublishUnknown, Defer, Forget
    <2>2. TypeOK'
      <3>1. faults' \in 0 .. MaxFaults
        BY <1>21 DEF PublishUnknown, TypeOK, Defer
      <3>2. terminal' \in BOOLEAN
        BY <1>21 DEF PublishUnknown, Defer, Forget
      <3>3. inflight' \subseteq Manifests \X Receipts
        <4>1. pc = "publish" => <<Current, ack[Current]>> \in Manifests \X Receipts
          BY <1>c, <1>k DEF PassInv, Acknowledge
        <4> QED
          BY <1>21, <4>1 DEF PublishUnknown, TypeOK
      <3> QED
        BY <1>21, <3>1, <3>2, <3>3 DEF PublishUnknown, TypeOK, Defer, Forget, Nothing
    <2>3. AckInv'
      BY <1>21, <1>c, <1>k, <1>d DEF AckInv, PublishUnknown, Defer, Forget, Nothing
    <2>4. PassInv'
      BY <1>21, <1>c, <1>k, <1>d DEF PassInv, Transfer, Acknowledge, PublishUnknown,
         Defer, Forget, Nothing
    <2>5. TimeInv'
      BY <1>21, <1>c, <1>k, <1>d DEF TimeInv, Names, IsFile, PublishUnknown, Defer,
         Forget, Nothing
    <2>6. FinalInv'
      BY <1>21, <1>c, <1>k, <1>d DEF FinalInv, Transfer, Acknowledge, Done, Whole,
         IsFile, PublishUnknown, Defer, Forget, Nothing
    <2> QED
      BY <2>1, <2>2, <2>3, <2>4, <2>5, <2>6
  <1>22. CASE Readback
    <2>1. CASE remote_ack[Current] = ack[Current]
      <3>1. ack[Current] \in Receipts /\ remote_ack[Current] # None
        BY <1>22, <1>c, <1>k, <2>1 DEF Readback, PassInv, Acknowledge
      <3>2. publication' = [publication EXCEPT ![Current] = ack[Current]] /\ Turn
        BY <1>22, <2>1 DEF Readback
      <3>3. TypeOK' /\ PassInv' /\ TimeInv' /\ FinalInv'
        BY <1>22, <1>d, <3>1, <3>2, TurnKeeps DEF Readback, Acknowledge
      <3>4. ReceiptInv' /\ LimitHolds' /\ PartialIsTrue'
        BY <1>f, <3>2 DEF Turn
      <3>5. AckInv'
        BY <1>d, <3>1, <3>2 DEF Turn, AckInv
      <3> QED
        BY <3>3, <3>4, <3>5
    <2>2. CASE remote_ack[Current] # ack[Current]
      BY <1>22, <2>2, FailKeeps DEF Readback
    <2> QED
      BY <2>1, <2>2
  <1>23. CASE Unavailable
    <2>1. ReceiptInv' /\ AckInv' /\ LimitHolds' /\ PartialIsTrue'
      BY <1>23, <1>f DEF Unavailable, Defer, Forget
    <2>2. TypeOK'
      <3>1. faults' \in 0 .. MaxFaults
        BY <1>23 DEF Unavailable, TypeOK, Defer
      <3>2. terminal' \in BOOLEAN
        BY <1>23 DEF Unavailable, Defer, Forget
      <3>3. inflight' \subseteq Manifests \X Receipts
        <4>1. pc = "publish" => <<Current, ack[Current]>> \in Manifests \X Receipts
          BY <1>c, <1>k DEF PassInv, Acknowledge
        <4> QED
          BY <1>23, <4>1 DEF Unavailable, TypeOK
      <3> QED
        BY <1>23, <3>1, <3>2, <3>3 DEF Unavailable, TypeOK, Defer, Forget, Nothing
    <2>3. PassInv'
      BY <1>23, <1>c, <1>k, <1>d DEF PassInv, Transfer, Acknowledge, Unavailable, Defer,
         Forget, Nothing
    <2>4. TimeInv'
      BY <1>23, <1>c, <1>k, <1>d DEF TimeInv, Names, IsFile, Unavailable, Defer, Forget,
         Nothing
    <2>5. FinalInv'
      BY <1>23, <1>c, <1>k, <1>d DEF FinalInv, Transfer, Acknowledge, Done, Whole,
         IsFile, Unavailable, Defer, Forget, Nothing
    <2> QED
      BY <2>1, <2>2, <2>3, <2>4, <2>5
  <1>24. CASE EndPass
    <2>1. ReceiptInv' /\ AckInv' /\ LimitHolds' /\ PartialIsTrue'
      BY <1>24, <1>f DEF EndPass, Forget
    <2>2. TypeOK'
      BY <1>24, <1>c, <1>k, <1>d DEF TypeOK, EndPass, Forget, Nothing
    <2>3. PassInv'
      BY <1>24, <1>c, <1>k, <1>d DEF PassInv, Transfer, Acknowledge, EndPass, Forget,
         Nothing
    <2>4. TimeInv'
      BY <1>24, <1>c, <1>k, <1>d DEF TimeInv, Names, IsFile, EndPass, Forget, Nothing
    <2>5. FinalInv'
      BY <1>24, <1>c, <1>k, <1>d DEF FinalInv, Transfer, Acknowledge, Done, Whole,
         IsFile, EndPass, Forget, Nothing
    <2> QED
      BY <2>1, <2>2, <2>3, <2>4, <2>5
  <1>25. CASE Crash
    <2>1. LimitHolds' /\ PartialIsTrue'
      BY <1>25, <1>f DEF Crash, Forget
    <2>2. TypeOK'
      <3>1. faults' \in 0 .. MaxFaults
        BY <1>25 DEF Crash, TypeOK, Defer
      <3>2. terminal' \in BOOLEAN
        BY <1>25 DEF Crash, Defer, Forget
      <3>3. inflight' \subseteq Manifests \X Receipts
        <4>1. pc = "publish" => <<Current, ack[Current]>> \in Manifests \X Receipts
          BY <1>c, <1>k DEF PassInv, Acknowledge
        <4> QED
          BY <1>25, <4>1 DEF Crash, TypeOK
      <3> QED
        BY <1>25, <3>1, <3>2, <3>3 DEF Crash, TypeOK, Defer, Forget, Nothing
    <2>3. ReceiptInv'
      BY <1>25, <1>c, <1>k, <1>d DEF ReceiptInv, Whole, Crash, Forget, Nothing
    <2>4. AckInv'
      BY <1>25, <1>c, <1>k, <1>d DEF AckInv, Crash, Forget, Nothing
    <2>5. PassInv'
      BY <1>25, <1>c, <1>k, <1>d DEF PassInv, Transfer, Acknowledge, Crash, Forget,
         Nothing
    <2>6. TimeInv'
      BY <1>25, <1>c, <1>k, <1>d DEF TimeInv, Names, IsFile, Crash, Forget, Nothing
    <2>7. FinalInv'
      BY <1>25, <1>c, <1>k, <1>d DEF FinalInv, Transfer, Acknowledge, Done, Whole,
         IsFile, Crash, Forget, Nothing
    <2> QED
      BY <2>1, <2>2, <2>3, <2>4, <2>5, <2>6, <2>7
  <1>26. CASE UNCHANGED vars
    <2>1. ReceiptInv' /\ AckInv' /\ LimitHolds' /\ PartialIsTrue'
      BY <1>26, <1>f DEF vars
    <2>2. TypeOK'
      BY <1>26, <1>c, <1>k, <1>d DEF TypeOK, vars
    <2>3. PassInv'
      BY <1>26, <1>c, <1>k, <1>d DEF PassInv, Transfer, Acknowledge, vars
    <2>4. TimeInv'
      BY <1>26, <1>c, <1>k, <1>d DEF TimeInv, Names, IsFile, vars
    <2>5. FinalInv'
      BY <1>26, <1>c, <1>k, <1>d DEF FinalInv, Transfer, Acknowledge, Done, Whole,
         IsFile, vars
    <2> QED
      BY <2>1, <2>2, <2>3, <2>4, <2>5
  <1>27. CASE DiscoverTooMany \/ FetchRefused \/ FetchFails \/ PayloadRefused \/ AckRefused
    BY <1>27, FailKeeps DEF DiscoverTooMany, FetchRefused, FetchFails, PayloadRefused,
       AckRefused
  <1>28. CASE Lost \/ StatusRefused \/ Recover
    BY <1>28, FailKeeps, ReturnKeeps
       DEF Lost, StatusRefused, Recover, FailureDisposition, Dispositions, Reasons
  <1> QED
    BY <1>1, <1>2, <1>3, <1>4, <1>5, <1>6, <1>7, <1>8, <1>9, <1>10, <1>11, <1>12, <1>13,
       <1>14, <1>15, <1>16, <1>17, <1>18, <1>19, <1>20, <1>21, <1>22, <1>23, <1>24,
       <1>25, <1>26, <1>27, <1>28 DEF Next, WorkerStep, ExecutorStep

(* A run whose worker has saved nothing.                                         *)
LEMMA MirrorStart == Init => MirrorInv
  <1> SUFFICES ASSUME Init PROVE MirrorInv
    OBVIOUS
  <1> USE MirrorAssumption DEF Init, Nothing
  <1>1. TypeOK
    <2>1. acks \in BOOLEAN /\ terminal \in BOOLEAN
      OBVIOUS
    <2>2. changes \in 0 .. MaxChanges /\ faults \in 0 .. MaxFaults
      OBVIOUS
    <2> QED
      BY <2>1, <2>2 DEF TypeOK
  <1>2. ReceiptInv /\ AckInv /\ PassInv /\ TimeInv /\ FinalInv /\ PartialIsTrue
    BY DEF ReceiptInv, AckInv, PassInv, Transfer, Acknowledge, TimeInv, FinalInv, PartialIsTrue,
       Whole, IsFile, None, NoResult
  <1>3. LimitHolds
    <2>1. {m \in Manifests : receipt[m] # None} = {}
      OBVIOUS
    <2> QED
      BY <2>1, FS_EmptySet DEF LimitHolds
  <1> QED
    BY <1>1, <1>2, <1>3 DEF MirrorInv

(* The invariant holds over every interleaving of worker, loop, late renames and   *)
(* crashes.                                                                     *)
THEOREM MirrorInvariantSafe == Spec => []MirrorInv
  BY MirrorStart, MirrorStep, PTL DEF Spec

(* An acknowledgement the worker sees, or may still come to see, is the one on       *)
(* disk, and its checkpoint is whole there: PersistAck signs only a verified         *)
(* receipt, and what was whole once is never written again.                       *)
THEOREM AckIsTrueSafe == Spec => []AckIsTrue
  <1>1. MirrorInv => AckIsTrue
    <2> SUFFICES ASSUME MirrorInv, NEW m \in Manifests, NEW a, a # None,
                        a = remote_ack[m] \/ (a \in Receipts /\ <<m, a>> \in inflight)
                 PROVE  ack[m] = a /\ Whole(m, a.content)
      BY DEF AckIsTrue
    <2>1. ack[m] = a
      BY DEF MirrorInv, AckInv
    <2> QED
      BY <2>1 DEF MirrorInv, ReceiptInv
  <1> QED
    BY <1>1, MirrorInvariantSafe, PTL

(* An acknowledgement on the pod is never replaced by another one, since whatever      *)
(* is renamed over it is the acknowledgement on disk, which does not change.      *)
THEOREM AckIsStableSafe == Spec => AckIsStable
  <1> DEFINE Stable == \A m \in Manifests : remote_ack[m] # None => remote_ack'[m] = remote_ack[m]
  <1>1. ASSUME MirrorInv, [Next]_vars PROVE Stable
    <2>1. CASE remote_ack' = remote_ack
      BY <2>1
    <2>2. ASSUME NEW m \in Manifests, Land(m) PROVE Stable
      BY <1>1, <2>2 DEF Land, MirrorInv, AckInv, TypeOK
    <2>3. CASE PublishAtomic
      BY <1>1, <2>3 DEF PublishAtomic, MirrorInv, AckInv, TypeOK
    <2> QED
      <3>1. \/ PublishAtomic \/ (\E m \in Manifests : Land(m))
            \/ remote_ack' = remote_ack
        BY <1>1
           DEF Next, WorkerStep, Save, Change, Prune, Finish, ExecutorStep, Poll, Lost,
               StatusRefused, Discover, DiscoverTooMany, TakeMatching, TakeOther, FetchRefused,
               FetchFails, Fetch, PayloadCached, PayloadRefused, Download, PublishFiles, Complete,
               Verify, NoAck, PersistAck, AckRefused, AlreadyPublished, FindAck, PublishUnknown,
               Readback, Unavailable, EndPass, Recover, Crash, Turn, Fail, Return, Defer, pod, history, vars
      <3> QED
        BY <2>1, <2>2, <2>3, <3>1
  <1>2. MirrorInv /\ [Next]_vars => [Stable]_vars
    BY <1>1
  <1> QED
    BY <1>2, MirrorInvariantSafe, PTL DEF Spec, AckIsStable

(* A run never keeps receipts of more manifests than the limit allows.               *)
THEOREM LimitHoldsSafe == Spec => []LimitHolds
  <1>1. MirrorInv => LimitHolds
    BY DEF MirrorInv
  <1> QED
    BY <1>1, MirrorInvariantSafe, PTL

(* partial_recovered on a failure of the contract names a checkpoint that is whole.   *)
THEOREM PartialIsTrueSafe == Spec => []PartialIsTrue
  <1>1. MirrorInv => PartialIsTrue
    BY DEF MirrorInv
  <1> QED
    BY <1>1, MirrorInvariantSafe, PTL

(* When the final recovery begins, every completion file on the pod has a verified     *)
(* receipt of its time, whole on disk and, if the job asks for it, acknowledged: a     *)
(* status read before the listing was terminal, so the listing was complete.  The      *)
(* receipt's bytes are the pod's unless a rewrite reused a modification time.          *)
THEOREM NothingLeftBehindSafe == Spec => []NothingLeftBehind
  <1>1. MirrorInv => NothingLeftBehind
    BY DEF MirrorInv, TypeOK, ReceiptInv, PassInv, TimeInv, Names, FinalInv, Done,
       NothingLeftBehind, IsFile, None
  <1> QED
    BY <1>1, MirrorInvariantSafe, PTL
=============================================================================
