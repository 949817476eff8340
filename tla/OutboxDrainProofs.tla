-------------------------- MODULE OutboxDrainProofs --------------------------
(***************************************************************************)
(* A graceful shutdown leaves nothing behind: theorems about               *)
(* activeDispatchCount and the events a process is working on.  None of    *)
(* them limits how many operators reprocess the DLQ at once.               *)
(***************************************************************************)
EXTENDS OutboxProcessorProofs, FiniteSetTheorems

USE DispatchersAssumption, HostAssumption, BoundsAssumption

DrainInv == TypeOK /\ ActiveCountsDispatches

LEMMA BusyFinite ==
  ASSUME NEW p \in Processes
  PROVE  IsFiniteSet(Busy(p)) /\ Cardinality(Busy(p)) \in Nat
<1>1. Busy(p) \subseteq Dispatchers
  BY DEF Busy
<1> QED
  BY <1>1, FS_Subset, FS_CardinalityType

(* A step that starts and ends no dispatch and no process. *)
LEMMA SameBusy ==
  ASSUME DrainInv,
         \A d \in Dispatchers : pc'[d] = "idle" <=> pc[d] = "idle",
         active' = active,
         \A p \in Processes : life'[p] = "down" => life[p] = "down"
  PROVE  ActiveCountsDispatches'
<1>1. \A p \in Processes : Busy(p)' = Busy(p)
  BY DEF Busy
<1> QED
  BY <1>1 DEF DrainInv, ActiveCountsDispatches

(* The end of a dispatch, of the normal kind or by an exception. *)
LEMMA EndOfDispatch ==
  ASSUME DrainInv, NEW d \in Dispatchers, pc[d] # "idle",
         pc' = [pc EXCEPT ![d] = "idle"], Finish(Host[d]), UNCHANGED life
  PROVE  ActiveCountsDispatches'
<1> USE DEF DrainInv, TypeOK
<1>1. Host[d] \in Processes
  OBVIOUS
<1>2. d \in Busy(Host[d]) /\ Busy(Host[d])' = Busy(Host[d]) \ {d}
  BY DEF Busy
<1>3. Cardinality(Busy(Host[d]))' = Cardinality(Busy(Host[d])) - 1
  <2>1. Cardinality(Busy(Host[d]) \ {d}) = Cardinality(Busy(Host[d])) - 1
    BY <1>1, <1>2, BusyFinite, FS_RemoveElement
  <2> QED
    BY <1>2, <2>1
<1>4. \A p \in Processes : p # Host[d] => Busy(p)' = Busy(p)
  BY DEF Busy
<1>5. \A p \in Processes : active'[p] = IF p = Host[d] THEN active[p] - 1 ELSE active[p]
  BY <1>1 DEF Finish
<1>6. \A p \in Processes : Busy(p)' \subseteq Busy(p)
  BY <1>2, <1>4
<1> QED
  BY <1>3, <1>4, <1>5, <1>6 DEF ActiveCountsDispatches

LEMMA EndOfProcess ==
  ASSUME DrainInv, NEW p \in Processes, Kill(p)
  PROVE  ActiveCountsDispatches'
<1> USE DEF DrainInv, TypeOK
<1>1. Busy(p)' = {}
  BY DEF Busy, Kill
<1>2. \A q \in Processes : q # p => Busy(q)' = Busy(q)
  BY DEF Busy, Kill
<1>3. active'[p] = 0 /\ \A q \in Processes : q # p => active'[q] = active[q]
  BY DEF Kill
<1>4. \A q \in Processes : q # p => life'[q] = life[q]
  BY DEF Kill
<1> QED
  BY <1>1, <1>2, <1>3, <1>4, FS_EmptySet DEF ActiveCountsDispatches

LEMMA StartOfDispatch ==
  ASSUME DrainInv, NEW d \in Dispatchers, NEW force \in BOOLEAN, DispatchPending(d, force)
  PROVE  ActiveCountsDispatches'
<1> USE DEF DrainInv, TypeOK, DispatchPending
<1>1. Host[d] \in Processes
  OBVIOUS
<1>2. d \notin Busy(Host[d]) /\ Busy(Host[d])' = Busy(Host[d]) \cup {d}
  BY DEF Busy
<1>3. Cardinality(Busy(Host[d]))' = Cardinality(Busy(Host[d])) + 1
  BY <1>1, <1>2, BusyFinite, FS_AddElement
<1>4. \A p \in Processes : p # Host[d] => Busy(p)' = Busy(p)
  BY DEF Busy
<1>5. \A p \in Processes : active'[p] = IF p = Host[d] THEN active[p] + 1 ELSE active[p]
  BY <1>1 DEF Start
<1> QED
  BY <1>3, <1>4, <1>5 DEF ActiveCountsDispatches

LEMMA NextDrain == DrainInv /\ [Next]_vars => DrainInv'
<1> SUFFICES ASSUME DrainInv, [Next]_vars PROVE DrainInv'
  OBVIOUS
<1>0. TypeOK'
  BY NextTypes DEF DrainInv
<1> SUFFICES ActiveCountsDispatches'
  BY <1>0 DEF DrainInv
<1> USE DEF tables, worker, admin, host, history
<1>1. ASSUME NEW d \in Dispatchers,
             \/ SelectBatch(d) \/ Claim(d) \/ LoadEvent(d) \/ ConsumeOk(d) \/ ConsumeError(d)
             \/ SavePublished(d) \/ SavePublishedFault(d) \/ SaveRetry(d) \/ DeadLetter(d)
      PROVE  ActiveCountsDispatches'
  <2>1. \A c \in Dispatchers : pc'[c] = "idle" <=> pc[c] = "idle"
    BY <1>1
    DEF DrainInv, TypeOK, SelectBatch, Claim, LoadEvent, ConsumeOk, ConsumeError, AttemptFails,
        SavePublished, SavePublishedFault, SaveRetry, DeadLetter, Release
  <2>2. UNCHANGED <<active, life>>
    BY <1>1
    DEF SelectBatch, Claim, LoadEvent, ConsumeOk, ConsumeError, SavePublished,
        SavePublishedFault, SaveRetry, DeadLetter
  <2> QED
    BY <2>1, <2>2, SameBusy
<1>2. ASSUME NEW d \in Dispatchers, ClaimMiss(d) PROVE ActiveCountsDispatches'
  BY <1>2, SameBusy DEF ClaimMiss
<1>3. ASSUME NEW d \in Dispatchers, DispatchDone(d) \/ Abort(d) PROVE ActiveCountsDispatches'
  BY <1>3, EndOfDispatch DEF DispatchDone, Abort
<1>4. ASSUME NEW d \in Dispatchers, AbortPoller(d) PROVE ActiveCountsDispatches'
  BY <1>4, EndOfProcess DEF AbortPoller
<1>5. ASSUME NEW p \in Processes, Crash(p) \/ Drained(p) \/ ShutdownTimeout(p)
      PROVE  ActiveCountsDispatches'
  BY <1>5, EndOfProcess DEF Crash, Drained, ShutdownTimeout
<1>6. ASSUME NEW p \in Processes, Shutdown(p) \/ Restart(p) PROVE ActiveCountsDispatches'
  BY <1>6, SameBusy DEF Shutdown, Restart, DrainInv, TypeOK
<1>7. ASSUME NEW a \in Admins,
             \/ ReprocessBatch(a) \/ FindDlq(a) \/ MissDlq(a) \/ FindFault(a)
             \/ RestoreEvent(a) \/ RestoreFault(a)
      PROVE  ActiveCountsDispatches'
  BY <1>7, SameBusy
  DEF ReprocessBatch, FindDlq, MissDlq, FindFault, RestoreEvent, RestoreFault
<1>8. ASSUME NEW e \in Events, Emit(e) \/ TimePasses(e) PROVE ActiveCountsDispatches'
  BY <1>8, SameBusy DEF Emit, TimePasses
<1>9. CASE UNCHANGED vars
  BY <1>9, SameBusy DEF vars
<1> QED
  BY <1>1, <1>2, <1>3, <1>4, <1>5, <1>6, <1>7, <1>8, <1>9, StartOfDispatch
  DEF Next, DispatchStep, ReprocessStep

LEMMA InitDrain == Init => DrainInv
<1> SUFFICES ASSUME Init PROVE ActiveCountsDispatches
  BY InitTypes DEF DrainInv
<1>1. \A p \in Processes : Busy(p) = {}
  BY DEF Init, Busy
<1> QED
  BY <1>1, FS_EmptySet DEF Init, ActiveCountsDispatches

(* activeDispatchCount is exact whichever way dispatches end, so the loop  *)
(* of onModuleDestroy waits for all of them and for nothing else.          *)
THEOREM DrainCountIsExact == Spec => []ActiveCountsDispatches
<1>1. DrainInv => ActiveCountsDispatches
  BY DEF DrainInv
<1> QED
  BY <1>1, InitDrain, NextDrain, PTL DEF Spec

(* A PROCESSING row is worked on as long as nothing failed or was killed.  *)
LEMMA NextHeld ==
  ASSUME DrainInv, DrainInv', NoSilentOrphan, [Next]_vars
  PROVE  NoSilentOrphan'
<1> DEFINE calm == used["fault"] + used["crash"] + used["timeout"] = 0
<1> USE DEF tables, worker, admin, host, history
<1>0. TypeOK /\ TypeOK' /\ ActiveCountsDispatches
  BY DEF DrainInv
<1>1. \A k \in Kinds : used[k] \in Nat /\ used'[k] \in Nat
  BY <1>0 DEF TypeOK
<1>2. ASSUME NEW k \in {"fault", "crash", "timeout"}, Spend(k) PROVE NoSilentOrphan'
  <2>1. used'[k] = used[k] + 1
    BY <1>0, <1>2 DEF Spend, TypeOK, Kinds
  <2>2. used'["fault"] + used'["crash"] + used'["timeout"] # 0
    BY <1>1, <2>1 DEF Kinds
  <2> QED
    BY <2>2 DEF NoSilentOrphan
<1>3. ASSUME \A k \in {"fault", "crash", "timeout"} : used'[k] = used[k],
             \A e \in Events : outbox'[e].status = "PROCESSING" =>
               outbox[e].status = "PROCESSING",
             \A d \in Dispatchers :
               pc[d] \in Holding => pc'[d] \in Holding /\ claim'[d] = claim[d]
      PROVE  NoSilentOrphan'
  BY <1>3 DEF NoSilentOrphan, Orphaned
<1>4. ASSUME NEW e \in Events, Emit(e) PROVE NoSilentOrphan'
  <2>1. \A f \in Events : outbox'[f].status = "PROCESSING" => outbox[f].status = "PROCESSING"
    BY <1>0, <1>4 DEF Emit, FreshRow, TypeOK
  <2> QED
    BY <1>3, <1>4, <2>1 DEF Emit
<1>5. ASSUME NEW e \in Events, TimePasses(e) PROVE NoSilentOrphan'
  <2>1. PICK w \in When : outbox' = [outbox EXCEPT ![e].nextRetryAt = w]
    BY <1>5, Zenon DEF TimePasses, When
  <2>2. \A f \in Events : outbox'[f].status = outbox[f].status
    BY <1>0, <2>1, WhenOnly DEF TypeOK
  <2> QED
    BY <1>3, <1>5, <2>2 DEF TimePasses
<1>6. ASSUME NEW d \in Dispatchers,
             \/ \E force \in BOOLEAN : DispatchPending(d, force)
             \/ SelectBatch(d) \/ ClaimMiss(d) \/ DispatchDone(d) \/ LoadEvent(d)
             \/ ConsumeOk(d) \/ ConsumeError(d)
      PROVE  NoSilentOrphan'
  <2>1. \A c \in Dispatchers : pc[c] \in Holding => pc'[c] \in Holding /\ claim'[c] = claim[c]
    BY <1>0, <1>6
    DEF TypeOK, DispatchPending, SelectBatch, ClaimMiss, DispatchDone, LoadEvent, ConsumeOk,
        ConsumeError, AttemptFails, Holding
  <2>2. UNCHANGED <<outbox, used>>
    BY <1>6
    DEF DispatchPending, SelectBatch, ClaimMiss, DispatchDone, LoadEvent, ConsumeOk, ConsumeError
  <2> QED
    BY <1>3, <2>1, <2>2
<1>7. ASSUME NEW d \in Dispatchers, Claim(d) PROVE NoSilentOrphan'
  <2>1. PICK e \in Events : /\ outbox' = [outbox EXCEPT ![e].status = "PROCESSING"]
                            /\ claim' = [claim EXCEPT ![d] = e]
    BY <1>0, <1>7, Zenon DEF Claim, TypeOK
  <2>2. \A f \in Events : f # e => outbox'[f].status = outbox[f].status
    BY <1>0, <2>1, StatusOnly DEF TypeOK, Statuses
  <2>3. /\ pc[d] = "loop" /\ pc'[d] = "claimed" /\ claim'[d] = e /\ used' = used
        /\ \A c \in Dispatchers \ {d} : pc'[c] = pc[c] /\ claim'[c] = claim[c]
    BY <1>0, <1>7, <2>1 DEF Claim, TypeOK
  <2>4. ~Orphaned(e)'
    BY <2>3 DEF Orphaned, Holding
  <2>5. \A f \in Events : f # e /\ ~Orphaned(f) => ~Orphaned(f)'
    BY <2>2, <2>3 DEF Orphaned, Holding
  <2> QED
    BY <2>3, <2>4, <2>5 DEF NoSilentOrphan
<1>8. ASSUME NEW d \in Dispatchers, SavePublished(d) \/ SaveRetry(d) \/ DeadLetter(d)
      PROVE  NoSilentOrphan'
  <2> DEFINE e == claim[d]
  <2>1. /\ e \in Events /\ outbox[e] \in Row /\ loaded[d] \in Nat
        /\ used' = used
        /\ \A c \in Dispatchers \ {d} : pc'[c] = pc[c] /\ claim'[c] = claim[c]
        /\ \A f \in Events : f # e => outbox'[f] = outbox[f]
    BY <1>0, <1>8
    DEF TypeOK, Holding, SavePublished, SaveRetry, DeadLetter, Release
  <2>2. outbox'[e].status # "PROCESSING"
    <3>1. CASE SavePublished(d)
      <4>1. outbox'[e] = [outbox[e] EXCEPT !.status = "PUBLISHED", !.retryCount = loaded[d]]
        BY <1>0, <2>1, <3>1 DEF SavePublished, TypeOK
      <4> QED
        BY <2>1, <4>1 DEF Row
    <3>2. CASE SaveRetry(d) \/ DeadLetter(d)
      BY <1>0, <2>1, <3>2 DEF SaveRetry, DeadLetter, TypeOK
    <3> QED
      BY <1>8, <3>1, <3>2
  <2>3. \A f \in Events : ~Orphaned(f) => ~Orphaned(f)'
    BY <2>1, <2>2 DEF Orphaned
  <2> QED
    BY <2>1, <2>3 DEF NoSilentOrphan
<1>9. ASSUME NEW p \in Processes, Drained(p) PROVE NoSilentOrphan'
  <2>1. Busy(p) = {}
    BY <1>0, <1>9, BusyFinite, FS_EmptySet DEF Drained, Quiet, ActiveCountsDispatches
  <2>2. \A d \in Dispatchers : pc[d] \in Holding => Host[d] # p
    BY <2>1 DEF Busy, Holding
  <2>3. \A d \in Dispatchers : pc[d] \in Holding => pc'[d] = pc[d] /\ claim'[d] = claim[d]
    BY <1>9, <2>2 DEF Drained, Kill
  <2> QED
    BY <1>3, <1>9, <2>3 DEF Drained
<1>10. ASSUME NEW p \in Processes, Shutdown(p) PROVE NoSilentOrphan'
  BY <1>0, <1>3, <1>10 DEF Shutdown, Spend, TypeOK
<1>11. ASSUME NEW p \in Processes, Restart(p) PROVE NoSilentOrphan'
  BY <1>3, <1>11 DEF Restart
<1>12. ASSUME NEW a \in Admins, ReprocessBatch(a) PROVE NoSilentOrphan'
  BY <1>0, <1>3, <1>12 DEF ReprocessBatch, Spend, TypeOK
<1>13. ASSUME NEW a \in Admins, FindDlq(a) \/ MissDlq(a) PROVE NoSilentOrphan'
  BY <1>3, <1>13 DEF FindDlq, MissDlq
<1>14. ASSUME NEW a \in Admins, RestoreEvent(a) PROVE NoSilentOrphan'
  <2>1. \A f \in Events : outbox'[f].status = "PROCESSING" => outbox[f].status = "PROCESSING"
    BY <1>0, <1>14 DEF RestoreEvent, FreshRow, TypeOK
  <2> QED
    BY <1>3, <1>14, <2>1 DEF RestoreEvent
<1>15. CASE UNCHANGED vars
  BY <1>3, <1>15 DEF vars
<1>16. CASE \/ \E d \in Dispatchers : SavePublishedFault(d) \/ Abort(d) \/ AbortPoller(d)
            \/ \E a \in Admins : FindFault(a) \/ RestoreFault(a)
            \/ \E p \in Processes : Crash(p) \/ ShutdownTimeout(p)
  BY <1>2, <1>16
  DEF SavePublishedFault, Abort, AbortPoller, FindFault, RestoreFault, Crash, ShutdownTimeout
<1> QED
  BY <1>4, <1>5, <1>6, <1>7, <1>8, <1>9, <1>10, <1>11, <1>12, <1>13, <1>14, <1>15, <1>16
  DEF Next, DispatchStep, ReprocessStep

(* A deployment that drains in time, however many there are and whatever   *)
(* the consumers do, leaves no event in PROCESSING without a dispatch:     *)
(* onModuleDestroy.                                                        *)
THEOREM DrainLeavesNothing == Spec => []NoSilentOrphan
<1>1. Init => NoSilentOrphan
  BY DEF Init, NoSilentOrphan, Orphaned
<1> QED
  BY <1>1, InitDrain, NextDrain, NextHeld, PTL DEF Spec
=============================================================================
