--------------------------- MODULE RunStoreProofs ----------------------------
(***************************************************************************)
(* RunStore keeps the promise of AtomicState, for journals of any length and *)
(* any number of crashes.                                                  *)
(***************************************************************************)
EXTENDS RunStore, TLAPS

(* Journal and state.json together always show the last journal record.     *)
LEMMA EffectiveIsLast ==
    ASSUME Inductive
    PROVE  /\ events # << >> => EffectiveState = events[Len(events)]
           /\ events = << >> => EffectiveState = NoState
  BY NoStateAssumption DEF Inductive, TypeOK, JournalInv, StateIsJournaled, EffectiveState,
     Sequence, Projections

(* The initial state of a run directory that does not exist yet.            *)
LEMMA InductiveInit == Init => Inductive
  BY NoStateAssumption DEF Init, Inductive, TypeOK, JournalInv, StateIsJournaled, ReceiptIsTrue,
     AppendIsExclusive, Closed, Projections

(* Every step of the store keeps the invariant; one step per operation.      *)
LEMMA InductiveStep == Inductive /\ [Next]_vars => Inductive'
  <1> SUFFICES ASSUME Inductive, [Next]_vars PROVE Inductive'
    OBVIOUS
  <1>e. /\ events # << >> => EffectiveState = events[Len(events)]
        /\ events = << >> => EffectiveState = NoState
    BY EffectiveIsLast
  <1> USE RunStoreAssumption, NoStateAssumption
          DEF Inductive, TypeOK, JournalInv, StateIsJournaled, ReceiptIsTrue,
              AppendIsExclusive, Closed, vars, files
  <1>1. CASE ReadState
    BY <1>1 DEF ReadState, Readable, Repair, ReceiptAgrees, EnsureReceipt, EffectiveState, Sequence
  <1>2. ASSUME NEW r \in Requests, CreateRun(r) PROVE Inductive'
    <2>1. events = << >>
      <3>1. SUFFICES ASSUME events # << >> PROVE FALSE
        OBVIOUS
      <3>2. EffectiveState \in Projections
        BY <3>1, <1>e
      <3>3. request \in {NoRequest, r} /\ (request = r => EffectiveState = NoState)
        BY <1>2 DEF CreateRun
      <3> QED
        BY <3>1, <3>2, <3>3
    <2>2. projection' \in Projections /\ projection'.event_sequence = 1
      BY <1>2, <2>1 DEF CreateRun, Project, Projections, LifecycleState
    <2>3. EffectiveState' = EffectiveState
      BY <1>2 DEF CreateRun, EffectiveState, Sequence
    <2>4. /\ request' = r /\ pc' = "commit" /\ tail' = "none"
          /\ UNCHANGED <<events, state, receipt, returned, executor, crashes>>
      BY <1>2 DEF CreateRun, Repair
    <2>5. TypeOK' /\ JournalInv'
      BY <2>1, <2>2, <2>4
    <2>6. StateIsJournaled' /\ ReceiptIsTrue' /\ AppendIsExclusive'
      BY <2>3, <2>4
    <2> QED
      BY <2>5, <2>6
  <1>3. ASSUME NEW r \in Requests, CreateExisting(r) PROVE Inductive'
    BY <1>3 DEF CreateExisting, Repair, EffectiveState, Sequence
  <1>4. CASE Transaction
    BY <1>4 DEF Transaction, Repair, Readable, Project, EffectiveState, Sequence, Projections,
       LifecycleState, NextLifecycle
  <1>5. CASE AppendStarts
    BY <1>5 DEF AppendStarts, EffectiveState, Sequence
  <1>6. CASE AppendEnds
    BY <1>6 DEF AppendEnds, EffectiveState, Sequence, Projections
  <1>7. CASE ReplaceState
    BY <1>7 DEF ReplaceState, EffectiveState, Sequence, Projections
  <1>8. CASE WriteReceipt
    BY <1>8 DEF WriteReceipt, EffectiveState, Sequence, Projections
  <1>9. CASE Crash
    BY <1>9 DEF Crash, EffectiveState, Sequence
  <1>10. CASE Execute
    BY <1>10 DEF Execute, Repair, EffectiveState, Sequence
  <1>11. CASE ReadResource
    BY <1>11 DEF ReadResource, EffectiveState, Sequence
  <1>12. CASE ExecuteEnds
    BY <1>12 DEF ExecuteEnds, EffectiveState, Sequence
  <1>13. CASE UNCHANGED vars
    BY <1>13 DEF EffectiveState, Sequence
  <1> QED
    BY <1>1, <1>2, <1>3, <1>4, <1>5, <1>6, <1>7, <1>8, <1>9, <1>10, <1>11, <1>12, <1>13 DEF Next

(* The store's invariant holds of every run directory at every instant.      *)
THEOREM InductiveInvariant == Spec => []Inductive
  BY InductiveInit, InductiveStep, PTL DEF Spec

(* A receipt on disk is the closed state itself, so a closed run never turns  *)
(* unreadable because of its receipt.                                       *)
THEOREM ReceiptIsTrueSafe == Spec => []ReceiptIsTrue
  <1>1. Inductive => ReceiptIsTrue
    BY DEF Inductive
  <1> QED
    BY <1>1, InductiveInvariant, PTL

(* A record that is being appended is not truncated by a reader that repairs    *)
(* torn tails: whoever holds the write lock finds its own torn record.       *)
THEOREM AppendIsExclusiveSafe == Spec => []AppendIsExclusive
  <1>1. Inductive => AppendIsExclusive
    BY DEF Inductive
  <1> QED
    BY <1>1, InductiveInvariant, PTL

(* Every step of the store is a commit, a telling, or no step at all of       *)
(* AtomicState.  Only the end of an append is a commit.                      *)
LEMMA PromiseStep ==
    Inductive /\ Inductive' /\ [Next]_vars => [Promise!Next]_<<EffectiveState, returned>>
  <1> SUFFICES ASSUME Inductive, Inductive', [Next]_vars
               PROVE  [Promise!Next]_<<EffectiveState, returned>>
    OBVIOUS
  <1>e. /\ events # << >> => EffectiveState = events[Len(events)]
        /\ events = << >> => EffectiveState = NoState
        /\ events' # << >> => EffectiveState' = events'[Len(events')]
        /\ events' = << >> => EffectiveState' = NoState
    <2>1. (events # << >> => EffectiveState = events[Len(events)])
          /\ (events = << >> => EffectiveState = NoState)
      BY EffectiveIsLast
    <2>2. (events' # << >> => EffectiveState' = events'[Len(events')])
          /\ (events' = << >> => EffectiveState' = NoState)
      BY NoStateAssumption, SMTT(60)
         DEF Inductive, TypeOK, JournalInv, StateIsJournaled, EffectiveState, Sequence, Projections
    <2> QED
      BY <2>1, <2>2
  <1>s. events' = events => EffectiveState' = EffectiveState
    BY <1>e
  <1>t. EffectiveState' = EffectiveState /\ EffectiveState # NoState
        /\ returned' = EffectiveState
        => [Promise!Next]_<<EffectiveState, returned>>
    BY DEF Promise!Next, Promise!Tell
  <1>u. EffectiveState' = EffectiveState /\ returned' = returned
        => [Promise!Next]_<<EffectiveState, returned>>
    OBVIOUS
  <1>1. CASE ReadState
    BY <1>1, <1>s, <1>t DEF ReadState
  <1>2. ASSUME NEW r \in Requests, CreateRun(r)
        PROVE  [Promise!Next]_<<EffectiveState, returned>>
    BY <1>2, <1>s, <1>u DEF CreateRun
  <1>3. ASSUME NEW r \in Requests, CreateExisting(r)
        PROVE  [Promise!Next]_<<EffectiveState, returned>>
    BY <1>3, <1>s, <1>t DEF CreateExisting
  <1>4. CASE Transaction
    BY <1>4, <1>s, <1>u DEF Transaction
  <1>5. CASE AppendStarts
    BY <1>5, <1>s, <1>u DEF AppendStarts
  <1>6. CASE AppendEnds
    <2>1. /\ events' = Append(events, projection)
          /\ projection \in Projections
          /\ projection.event_sequence = Len(events) + 1
          /\ events # << >> => events[Len(events)].lifecycle # "closed"
          /\ returned' = returned
      BY <1>6 DEF AppendEnds, Inductive, JournalInv
    <2>2. EffectiveState' = projection
      BY <1>e, <2>1 DEF Inductive, TypeOK
    <2>3. Promise!Sequence(EffectiveState) = Len(events)
      BY <1>e, NoStateAssumption DEF Promise!Sequence, Inductive, TypeOK, JournalInv
    <2>4. Promise!Commit
      BY <1>e, <2>1, <2>2, <2>3 DEF Promise!Commit
    <2> QED
      BY <2>4 DEF Promise!Next
  <1>7. CASE ReplaceState
    <2>1. events # << >> /\ projection = EffectiveState /\ EffectiveState # NoState
      BY <1>7, <1>e, NoStateAssumption DEF ReplaceState, Inductive, JournalInv, TypeOK
    <2> QED
      BY <1>7, <2>1, <1>s, <1>t, <1>u DEF ReplaceState
  <1>8. CASE WriteReceipt
    <2>1. events # << >> /\ projection = EffectiveState /\ EffectiveState # NoState
      BY <1>8, <1>e, NoStateAssumption DEF WriteReceipt, Inductive, JournalInv, TypeOK
    <2> QED
      BY <1>8, <2>1, <1>s, <1>t DEF WriteReceipt
  <1>9. CASE Crash
    BY <1>9, <1>s, <1>u DEF Crash
  <1>10. CASE Execute
    BY <1>10, <1>s, <1>t DEF Execute
  <1>11. CASE ReadResource
    BY <1>11, <1>s, <1>u DEF ReadResource, files
  <1>12. CASE ExecuteEnds
    BY <1>12, <1>s, <1>u DEF ExecuteEnds, files
  <1>13. CASE UNCHANGED vars
    BY <1>13, <1>s, <1>u DEF vars, files
  <1> QED
    BY <1>1, <1>2, <1>3, <1>4, <1>5, <1>6, <1>7, <1>8, <1>9, <1>10, <1>11, <1>12, <1>13 DEF Next

(* The journal, its projection and the receipt implement one atomic, durable  *)
(* value: what module Lifecycle assumes of every commit.                     *)
THEOREM KeepsPromiseSafe == Spec => KeepsPromise
  <1>1. Init => Promise!Init
    BY DEF Init, Promise!Init, EffectiveState
  <1> QED
    BY <1>1, InductiveInvariant, PromiseStep, PTL DEF Spec, KeepsPromise, Promise!Spec
=============================================================================
