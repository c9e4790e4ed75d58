--------------------------- MODULE AdmissionProofs ---------------------------
(***************************************************************************)
(* One active run, and spending within the granted total, for any number of      *)
(* callers and of run IDs; that the ledger is the counter of Authority; and       *)
(* what a directory without a journal does to every later call.               *)
(***************************************************************************)
EXTENDS AdmissionInvariant, SumTheorems

-----------------------------------------------------------------------------
(* The ledger.                                                              *)

(* The ledger's sum, for the reservations f. *)
LEMMA LedgerType ==
  ASSUME NEW f \in [Runs -> Amounts \cup {0}]
  PROVE  f \in [Runs -> Nat] /\ f \in [Runs -> Int] /\ Total(f, Runs) \in Int
  <1>1. Amounts \cup {0} \subseteq Nat /\ IsFiniteSet(Runs)
    BY AdmissionAssumption
  <1>2. \A r \in Runs : f[r] \in Nat
    BY <1>1
  <1>3. f \in [Runs -> Nat]
    BY <1>2
  <1>4. f \in [Runs -> Int]
    BY <1>3
  <1> QED
    BY <1>1, <1>3, <1>4, TotalType

(* ReservedSum is that sum, before and after a step. *)
LEMMA LedgerSum == ReservedSum = Total(reserved, Runs) /\ ReservedSum' = Total(reserved', Runs)
  BY DEF ReservedSum, Total, MapThenSumSet, MapThenFoldSet

(* A reservation for a run that has none adds its cap to the sum, whichever way    *)
(* the ledger's file lists the runs.                                         *)
LEMMA ReserveAdds ==
  ASSUME NEW f \in [Runs -> Amounts \cup {0}], NEW q \in Runs, f[q] = 0, NEW a \in Amounts
  PROVE  Total([f EXCEPT ![q] = a], Runs) = Total(f, Runs) + a
  <1> DEFINE h == [f EXCEPT ![q] = a]
  <1>1. h \in [Runs -> Amounts \cup {0}] /\ h[q] = a /\ \A x \in Runs \ {q} : f[x] = h[x]
    OBVIOUS
  <1> HIDE DEF h
  <1>2. f \in [Runs -> Int] /\ h \in [Runs -> Int] /\ Total(f, Runs) \in Int
    BY <1>1, LedgerType
  <1>3. Runs \in SUBSET Runs /\ IsFiniteSet(Runs) /\ a \in Int
    BY AdmissionAssumption
  <1>4. Total(h, Runs) = Total(f, Runs) - f[q] + h[q]
    BY <1>1, <1>2, <1>3, TotalUpdate
  <1>5. Total(h, Runs) = Total(f, Runs) + a
    BY <1>1, <1>2, <1>3, <1>4
  <1> QED
    BY <1>5 DEF h

-----------------------------------------------------------------------------
(* The invariant.                                                           *)

(* Nobody is admitted, no run exists and nothing is reserved. *)
LEMMA AdmissionInit == Init => AdmissionInv
  <1> SUFFICES ASSUME Init PROVE AdmissionInv
    OBVIOUS
  <1>1. TypeOK
    BY AdmissionAssumption DEF Init, TypeOK, Calls, NoCall, Unscoped, NoLedger
  <1>2. LockInv /\ ChoiceInv /\ AtMostOne /\ PlanInv /\ ChargeInv
    BY DEF Init, LockInv, Preparing, ChoiceInv, AtMostOne, Active, PlanInv, ChargeInv, Scoped, Unscoped, NoCall
  <1>3. LedgerInv
    <2>1. reserved \in [Runs -> Int] /\ Runs \in SUBSET Runs /\ IsFiniteSet(Runs)
      BY AdmissionAssumption DEF Init
    <2>2. Total(reserved, Runs) = 0
      BY <2>1, TotalZero DEF Init
    <2> QED
      BY <2>2, LedgerSum DEF Init, LedgerInv, NoLedger
  <1> QED
    BY <1>1, <1>2, <1>3 DEF AdmissionInv

(* Every step of a caller, and of the supervisor that closes a run, keeps the     *)
(* invariant.  The runs that are active change in CommitPlanned, which adds the    *)
(* caller's run to none, and in Close; the ledger changes in Reserve.           *)
LEMMA AdmissionStep == AdmissionInv /\ [Next]_vars => AdmissionInv'
  <1> SUFFICES ASSUME AdmissionInv, [Next]_vars PROVE AdmissionInv'
    OBVIOUS
  <1> USE AdmissionAssumption DEF AdmissionInv, TypeOK, LockInv, ChoiceInv, AtMostOne, Preparing,
                                  PlanInv, ChargeInv
  <1>s. run' = run => Active' = Active /\ Unreadable' = Unreadable
    BY DEF Active, Unreadable
  <1>p. run' = run /\ charge' = charge => Scoped' = Scoped
    BY DEF Scoped
  <1>m. reserved' = reserved /\ total' = total => LedgerInv'
    BY LedgerSum DEF LedgerInv
  <1>l. ASSUME NEW c \in Clients, Leave(c), UNCHANGED <<run, charge, total, reserved>>
        PROVE  AdmissionInv'
    BY <1>l, <1>s, <1>p, <1>m DEF Leave, Goto, Calls, NoCall, Unscoped
  <1>1. ASSUME NEW c \in Clients, Approve(c) PROVE AdmissionInv'
    BY <1>1, <1>s, <1>p, <1>m DEF Approve, Goto, Calls, Unscoped
  <1>2. ASSUME NEW c \in Clients, Admit(c) PROVE AdmissionInv'
    BY <1>2, <1>s, <1>p, <1>m DEF Admit, Goto
  <1>3. ASSUME NEW c \in Clients,
               RefuseActive(c) \/ RefuseBudget(c) \/ Launch(c) \/ Die(c)
        PROVE  AdmissionInv'
    BY <1>3, <1>l DEF RefuseActive, RefuseBudget, Launch, Die
  <1>4. ASSUME NEW c \in Clients, DrawRun(c) PROVE AdmissionInv'
    BY <1>4, <1>s, <1>p, <1>m DEF DrawRun, Goto
  <1>5. ASSUME NEW c \in Clients, Reserve(c) PROVE AdmissionInv'
    <2>1. /\ call[c].cap \in Amounts /\ call[c].total \in Totals
          /\ chosen[c] \in Runs /\ run[chosen[c]] = "none" /\ reserved[chosen[c]] = 0
      BY <1>5 DEF Reserve, Calls
    <2>2. TypeOK'
      BY <1>5, <2>1 DEF Reserve, Goto
    <2>3. LedgerInv'
      <3>1. reserved' = [reserved EXCEPT ![chosen[c]] = call[c].cap]
        BY <1>5 DEF Reserve
      <3>2. reserved \in [Runs -> Amounts \cup {0}]
        OBVIOUS
      <3>3. Total(reserved', Runs) = Total(reserved, Runs) + call[c].cap
        BY ONLY <2>1, <3>1, <3>2, ReserveAdds
      <3> QED
        BY <1>5, <3>3, LedgerSum DEF Reserve, MayReserve, LedgerInv
    <2>4. ChargeInv'
      <3>1. \A r \in Scoped : total' = total /\ r # chosen[c]
        BY <1>5, <2>1 DEF Reserve, MayReserve, Scoped, Unscoped, NoLedger
      <3> QED
        BY <1>5, <1>p, <2>1, <3>1 DEF Reserve
    <2>5. LockInv' /\ ChoiceInv' /\ AtMostOne' /\ PlanInv'
      BY <1>5, <1>s, <2>1 DEF Reserve, Goto
    <2> QED
      BY <2>2, <2>3, <2>4, <2>5
  <1>6. ASSUME NEW c \in Clients, MakeDirectory(c) PROVE AdmissionInv'
    BY <1>6, <1>m DEF MakeDirectory, Goto, Active, Unreadable, Scoped
  <1>7. ASSUME NEW c \in Clients, WriteRequest(c) PROVE AdmissionInv'
    BY <1>7, <1>m DEF WriteRequest, Goto, Active, Unreadable, Scoped
  <1>8. ASSUME NEW c \in Clients, CommitPlanned(c) PROVE AdmissionInv'
    BY <1>8, <1>m DEF CommitPlanned, Goto, Active, Unreadable, Scoped
  <1>9. ASSUME NEW r \in Runs, Close(r) PROVE AdmissionInv'
    BY <1>9, <1>m DEF Close, Active, Unreadable, Scoped
  <1>10. CASE UNCHANGED vars
    BY <1>10, <1>s, <1>p, <1>m DEF vars
  <1> QED
    BY <1>1, <1>2, <1>3, <1>4, <1>5, <1>6, <1>7, <1>8, <1>9, <1>10 DEF Next

(* The invariant holds of every interleaving of callers, deaths and closings.     *)
THEOREM AdmissionInvariantSafe == Spec => []AdmissionInv
  BY AdmissionInit, AdmissionStep, PTL DEF Spec

(* Two callers never both get a run that is still active: the admission lock       *)
(* covers active_run_ids, the reservation and create_run.                       *)
THEOREM OneActiveRunSafe == Spec => []OneActiveRun
  <1>1. AdmissionInv => OneActiveRun
    <2> SUFFICES ASSUME AdmissionInv PROVE Cardinality(Active) <= 1
      BY DEF OneActiveRun
    <2>1. CASE Active = {}
      BY <2>1, FS_EmptySet
    <2>2. CASE Active # {}
      <3>1. PICK r : Active = {r}
        BY <2>2 DEF AdmissionInv, AtMostOne
      <3> QED
        BY <3>1, FS_Singleton
    <2> QED
      BY <2>1, <2>2
  <1> QED
    BY <1>1, AdmissionInvariantSafe, PTL

(* The caps of the runs planned under the budget add up to no more than the total:   *)
(* each is in the ledger, which adds up at least as much.                        *)
THEOREM SpendWithinAuthoritySafe == Spec => []SpendWithinAuthority
  <1>1. AdmissionInv => SpendWithinAuthority
    <2> SUFFICES ASSUME AdmissionInv PROVE SpendWithinAuthority
      OBVIOUS
    <2> DEFINE cap == [r \in Runs |-> charge[r].cap]
               spent == MapThenSumSet(LAMBDA r : charge[r].cap, Scoped)
    <2>1. Scoped \in SUBSET Runs /\ Runs \in SUBSET Runs /\ IsFiniteSet(Runs)
      BY AdmissionAssumption DEF Scoped
    <2>2. cap \in [Runs -> Int] /\ reserved \in [Runs -> Amounts \cup {0}]
      <3>1. \A r \in Runs : charge[r].cap \in Amounts \cup {0}
        BY DEF AdmissionInv, TypeOK, Calls
      <3>2. Amounts \cup {0} \subseteq Int
        BY AdmissionAssumption
      <3> QED
        BY <3>1, <3>2 DEF AdmissionInv, TypeOK
    <2>3. spent = Total(cap, Scoped)
      BY <2>1 DEF Total, MapThenSumSet, MapThenFoldSet
    <2>4. reserved \in [Runs -> Nat] /\ reserved \in [Runs -> Int] /\ Total(reserved, Runs) \in Int
      BY <2>2, LedgerType
    <2>5. \A r \in Scoped : cap[r] = reserved[r]
      BY <2>1 DEF AdmissionInv, ChargeInv
    <2> HIDE DEF cap
    <2>6. Total(cap, Scoped) = Total(reserved, Scoped)
      BY <2>1, <2>2, <2>4, <2>5, TotalAgree
    <2>7. Total(reserved, Scoped) <= Total(reserved, Runs)
      BY <2>1, <2>4, TotalMonotone
    <2>8. Total(reserved, Scoped) \in Int
      BY <2>1, <2>4, TotalType
    <2>9. total \in Int
      BY AdmissionAssumption DEF AdmissionInv, TypeOK, NoLedger
    <2>10. Total(reserved, Runs) <= total
      BY LedgerSum DEF AdmissionInv, LedgerInv
    <2>11. spent <= total
      BY <2>3, <2>4, <2>6, <2>7, <2>8, <2>9, <2>10
    <2> QED
      BY <2>11 DEF SpendWithinAuthority, AdmissionInv, ChargeInv
  <1> QED
    BY <1>1, AdmissionInvariantSafe, PTL

(* A step of a caller that reserves is a commitment of its cap; every other step     *)
(* leaves the counter alone.                                                  *)
THEOREM ImplementsAuthoritySafe == Spec => ImplementsAuthority
  <1>1. Init => Ledger!Init
    <2> SUFFICES ASSUME Init PROVE Ledger!Init
      OBVIOUS
    <2>1. reserved \in [Runs -> Int] /\ Runs \in SUBSET Runs /\ IsFiniteSet(Runs)
      BY AdmissionAssumption DEF Init
    <2>2. Total(reserved, Runs) = 0
      BY <2>1, TotalZero DEF Init
    <2> QED
      BY <2>2, LedgerSum DEF Init, Ledger!Init, NoLedger
  <1>2. AdmissionInv /\ [Next]_vars => [Ledger!Next]_<<total, ReservedSum>>
    <2> SUFFICES ASSUME AdmissionInv, [Next]_vars
                 PROVE  [Ledger!Next]_<<total, ReservedSum>>
      OBVIOUS
    <2>s. total' = total /\ reserved' = reserved => UNCHANGED <<total, ReservedSum>>
      BY LedgerSum
    <2>1. ASSUME NEW c \in Clients, Reserve(c) PROVE Ledger!Next
      <3>1. /\ call[c].cap \in Amounts /\ call[c].total \in Totals
            /\ chosen[c] \in Runs /\ reserved[chosen[c]] = 0
        BY <2>1 DEF Reserve, AdmissionInv, TypeOK, PlanInv, ChoiceInv, Preparing, Calls
      <3>2. reserved' = [reserved EXCEPT ![chosen[c]] = call[c].cap]
        BY <2>1 DEF Reserve
      <3>3. Total(reserved', Runs) = Total(reserved, Runs) + call[c].cap
        BY <3>1, <3>2, ReserveAdds DEF AdmissionInv, TypeOK
      <3>4. Ledger!Commit(call[c].cap, call[c].total)
        BY <2>1, <3>3, LedgerSum DEF Reserve, MayReserve, Ledger!Commit, NoLedger
      <3> QED
        BY <3>1, <3>4 DEF Ledger!Next
    <2>2. ASSUME NEW c \in Clients,
                 \/ Approve(c) \/ Admit(c) \/ RefuseActive(c) \/ DrawRun(c)
                 \/ RefuseBudget(c) \/ MakeDirectory(c)
                 \/ WriteRequest(c) \/ CommitPlanned(c) \/ Launch(c) \/ Die(c)
          PROVE  total' = total /\ reserved' = reserved
      BY <2>2 DEF Approve, Admit, RefuseActive, DrawRun, RefuseBudget, MakeDirectory,
                  WriteRequest, CommitPlanned, Launch, Die
    <2>3. ASSUME NEW r \in Runs, Close(r) PROVE total' = total /\ reserved' = reserved
      BY <2>3 DEF Close
    <2>4. CASE UNCHANGED vars
      BY <2>4, <2>s DEF vars
    <2> QED
      BY <2>s, <2>1, <2>2, <2>3, <2>4 DEF Next
  <1> QED
    BY <1>1, <1>2, AdmissionInvariantSafe, PTL DEF Spec, ImplementsAuthority, Ledger!Spec

(* A directory without a journal is never read, removed or finished, and every call   *)
(* that meets it under the admission lock raises: while it was left, and because     *)
(* of the lock, no other caller can have been past that check.                    *)
THEOREM OrphanBlocksSafe == Spec => OrphanBlocks
  <1> DEFINE Blocked == Orphans # {} => /\ Orphans \subseteq Orphans'
                                       /\ Active' \subseteq Active
                                       /\ reserved' = reserved
  <1>1. AdmissionInv /\ [Next]_vars => Blocked
    <2> SUFFICES ASSUME AdmissionInv, [Next]_vars, Orphans # {}
                 PROVE  /\ Orphans \subseteq Orphans'
                        /\ Active' \subseteq Active
                        /\ reserved' = reserved
      OBVIOUS
    <2>1. Unreadable # {} /\ \A c \in Clients : pc[c] \notin Preparing \cup {"launch"}
      BY DEF Orphans, AdmissionInv, ChoiceInv, Preparing
    <2>2. ASSUME NEW c \in Clients, Leave(c) \/ chosen' = chosen, run' = run
          PROVE  Orphans \subseteq Orphans' /\ Active' = Active
      BY <2>2, AdmissionAssumption
         DEF Leave, Orphans, Unreadable, Active, AdmissionInv, TypeOK
    <2>3. ASSUME NEW c \in Clients,
                 \/ Approve(c) \/ Admit(c) \/ RefuseActive(c) \/ Die(c)
          PROVE  run' = run /\ reserved' = reserved /\ (Leave(c) \/ chosen' = chosen)
      BY <2>3 DEF Approve, Admit, RefuseActive, Die
    <2>4. ASSUME NEW c \in Clients,
                 \/ DrawRun(c) \/ Reserve(c) \/ RefuseBudget(c) \/ MakeDirectory(c)
                 \/ WriteRequest(c) \/ CommitPlanned(c) \/ Launch(c)
          PROVE  FALSE
      BY <2>1, <2>4 DEF DrawRun, Reserve, RefuseBudget, MakeDirectory, WriteRequest,
                        CommitPlanned, Launch, Preparing
    <2>5. ASSUME NEW r \in Runs, Close(r)
          PROVE  Orphans \subseteq Orphans' /\ Active' \subseteq Active /\ reserved' = reserved
      BY <2>5 DEF Close, Orphans, Unreadable, Active, AdmissionInv, TypeOK
    <2>6. CASE UNCHANGED vars
      BY <2>6 DEF vars, Orphans, Unreadable, Active
    <2> QED
      BY <2>2, <2>3, <2>4, <2>5, <2>6 DEF Next
  <1>2. AdmissionInv /\ [Next]_vars => [Blocked]_vars
    BY <1>1
  <1> QED
    BY <1>2, AdmissionInvariantSafe, PTL DEF Spec, OrphanBlocks
=============================================================================
