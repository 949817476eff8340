------------------------ MODULE OutboxProcessorProofs ------------------------
(***************************************************************************)
(* Theorems about OutboxProcessor, for every set of events, dispatchers    *)
(* and processes, every batch size and retry limit and every number of     *)
(* faults, crashes and deployments.                                        *)
(***************************************************************************)
EXTENDS OutboxProcessor, TLAPS

USE EventsAssumption, RowAssumption, HostAssumption, PollersAssumption, BoundsAssumption

(* The initial tables, activations and processes are well formed. *)
LEMMA InitTypes == Init => TypeOK
BY DEF Init, TypeOK, Row, Statuses, When, Pcs, Holding

LEMMA FreshRowType == FreshRow \in Row
BY DEF FreshRow, Row, Statuses, When

LEMMA StatusUpdate ==
  ASSUME outbox \in [Events -> Row], NEW e \in Events, NEW s \in Statuses
  PROVE  [outbox EXCEPT ![e].status = s] \in [Events -> Row]
<1> DEFINE r == [outbox[e] EXCEPT !.status = s]
<1>1. outbox[e] \in Row
  OBVIOUS
<1>2. r \in Row
  BY <1>1 DEF Row
<1> QED
  BY <1>2

LEMMA WhenUpdate ==
  ASSUME outbox \in [Events -> Row], NEW e \in Events, NEW w \in When
  PROVE  [outbox EXCEPT ![e].nextRetryAt = w] \in [Events -> Row]
<1> DEFINE r == [outbox[e] EXCEPT !.nextRetryAt = w]
<1>1. outbox[e] \in Row
  OBVIOUS
<1>2. r \in Row
  BY <1>1 DEF Row
<1> QED
  BY <1>2

LEMMA SpendType ==
  ASSUME TypeOK, NEW k \in Kinds, Spend(k)
  PROVE  used' \in [Kinds -> Nat]
BY DEF TypeOK, Spend

LEMMA KillType ==
  ASSUME TypeOK, NEW p \in Processes, Kill(p)
  PROVE  /\ pc' \in [Dispatchers -> Pcs]
         /\ forced' \in [Dispatchers -> BOOLEAN]
         /\ batch' \in [Dispatchers -> SUBSET Events]
         /\ claim' \in [Dispatchers -> Events \cup {NoEvent}]
         /\ \A d \in Dispatchers : claim'[d] \in Events <=> pc'[d] \in Holding
         /\ loaded' \in [Dispatchers -> Nat]
         /\ targets' \in [Admins -> SUBSET Nat]
         /\ found' \in [Admins -> DlqRow \cup {NoRow}]
         /\ life' \in [Processes -> {"up", "draining", "down"}]
         /\ active' \in [Processes -> Int]
<1> USE DEF TypeOK, Kill
<1>1. pc' \in [Dispatchers -> Pcs]
  BY DEF Pcs
<1>2. forced' \in [Dispatchers -> BOOLEAN]
  OBVIOUS
<1>3. batch' \in [Dispatchers -> SUBSET Events]
  OBVIOUS
<1>4. claim' \in [Dispatchers -> Events \cup {NoEvent}]
  OBVIOUS
<1>5. \A d \in Dispatchers : claim'[d] \in Events <=> pc'[d] \in Holding
  BY DEF Holding
<1>6. loaded' \in [Dispatchers -> Nat]
  OBVIOUS
<1>7. targets' \in [Admins -> SUBSET Nat]
  OBVIOUS
<1>8. found' \in [Admins -> DlqRow \cup {NoRow}]
  OBVIOUS
<1>9. life' \in [Processes -> {"up", "draining", "down"}]
  OBVIOUS
<1>10. active' \in [Processes -> Int]
  OBVIOUS
<1> QED
  BY <1>1, <1>2, <1>3, <1>4, <1>5, <1>6, <1>7, <1>8, <1>9, <1>10

(* Each kind of step keeps the tables, activations and processes well formed. *)
LEMMA NextTypes == TypeOK /\ [Next]_vars => TypeOK'
<1> SUFFICES ASSUME TypeOK, [Next]_vars PROVE TypeOK'
  OBVIOUS
<1> USE DEF TypeOK, tables, worker, admin, host, history
<1>1. ASSUME NEW e \in Events, Emit(e) PROVE TypeOK'
  BY <1>1, FreshRowType DEF Emit
<1>2. ASSUME NEW e \in Events, TimePasses(e) PROVE TypeOK'
  <2>1. PICK w \in When : outbox' = [outbox EXCEPT ![e].nextRetryAt = w]
    BY <1>2, Zenon DEF TimePasses, When
  <2>2. outbox' \in [Events -> Row]
    BY <2>1, WhenUpdate
  <2> QED
    BY <1>2, <2>2 DEF TimePasses
<1>3. ASSUME NEW d \in Dispatchers, NEW force \in BOOLEAN, DispatchPending(d, force)
      PROVE TypeOK'
  BY <1>3 DEF DispatchPending, Start, Pcs, Holding
<1>4. ASSUME NEW d \in Dispatchers, SelectBatch(d) PROVE TypeOK'
  BY <1>4 DEF SelectBatch, Batches, Selectable, Pcs, Holding
<1>5. ASSUME NEW d \in Dispatchers, Claim(d) PROVE TypeOK'
  <2>1. PICK e \in Events :
          /\ outbox' = [outbox EXCEPT ![e].status = "PROCESSING"]
          /\ claim' = [claim EXCEPT ![d] = e]
          /\ batch' = [batch EXCEPT ![d] = @ \ {e}]
    BY <1>5 DEF Claim
  <2>2. outbox' \in [Events -> Row]
    BY <2>1, StatusUpdate DEF Statuses
  <2> QED
    BY <1>5, <2>1, <2>2 DEF Claim, Pcs, Holding
<1>6. ASSUME NEW d \in Dispatchers, ClaimMiss(d) PROVE TypeOK'
  BY <1>6 DEF ClaimMiss
<1>7. ASSUME NEW d \in Dispatchers, LoadEvent(d) PROVE TypeOK'
  BY <1>7 DEF LoadEvent, Row, Pcs, Holding
<1>8. ASSUME NEW d \in Dispatchers, ConsumeOk(d) PROVE TypeOK'
  BY <1>8 DEF ConsumeOk, Pcs, Holding
<1>9. ASSUME NEW d \in Dispatchers, ConsumeError(d) PROVE TypeOK'
  BY <1>9 DEF ConsumeError, AttemptFails, Pcs, Holding
<1>10. ASSUME NEW d \in Dispatchers, SavePublished(d) PROVE TypeOK'
  BY <1>10 DEF SavePublished, Release, Row, Statuses, Pcs, Holding
<1>11. ASSUME NEW d \in Dispatchers, SavePublishedFault(d) PROVE TypeOK'
  BY <1>11, SpendType DEF SavePublishedFault, AttemptFails, Kinds, Pcs, Holding
<1>12. ASSUME NEW d \in Dispatchers, SaveRetry(d) PROVE TypeOK'
  BY <1>12 DEF SaveRetry, Release, Row, Statuses, Pcs, Holding
<1>13. ASSUME NEW d \in Dispatchers, DeadLetter(d) PROVE TypeOK'
  BY <1>13 DEF DeadLetter, Release, Row, Statuses, When, DlqRow, Pcs, Holding
<1>14. ASSUME NEW d \in Dispatchers, DispatchDone(d) PROVE TypeOK'
  BY <1>14 DEF DispatchDone, Finish, Pcs, Holding
<1>15. ASSUME NEW d \in Dispatchers, Abort(d) PROVE TypeOK'
  BY <1>15, SpendType DEF Abort, Finish, Kinds, Pcs, Holding
<1>16. ASSUME NEW d \in Dispatchers, AbortPoller(d) PROVE TypeOK'
  BY <1>16, SpendType, KillType DEF AbortPoller, Kinds
<1>17. ASSUME NEW a \in Admins, ReprocessBatch(a) PROVE TypeOK'
  BY <1>17, SpendType DEF ReprocessBatch, DlqRow, Kinds
<1>18. ASSUME NEW a \in Admins, FindDlq(a) PROVE TypeOK'
  BY <1>18 DEF FindDlq
<1>19. ASSUME NEW a \in Admins, MissDlq(a) PROVE TypeOK'
  BY <1>19 DEF MissDlq
<1>20. ASSUME NEW a \in Admins, FindFault(a) PROVE TypeOK'
  BY <1>20, SpendType DEF FindFault, Kinds
<1>21. ASSUME NEW a \in Admins, RestoreEvent(a) PROVE TypeOK'
  BY <1>21, FreshRowType DEF RestoreEvent, DlqRow
<1>22. ASSUME NEW a \in Admins, RestoreFault(a) PROVE TypeOK'
  BY <1>22, SpendType DEF RestoreFault, Kinds
<1>23. ASSUME NEW p \in Processes, Crash(p) PROVE TypeOK'
  BY <1>23, SpendType, KillType DEF Crash, Kinds
<1>24. ASSUME NEW p \in Processes, Shutdown(p) PROVE TypeOK'
  BY <1>24, SpendType DEF Shutdown, Kinds
<1>25. ASSUME NEW p \in Processes, Drained(p) PROVE TypeOK'
  BY <1>25, KillType DEF Drained
<1>26. ASSUME NEW p \in Processes, ShutdownTimeout(p) PROVE TypeOK'
  BY <1>26, SpendType, KillType DEF ShutdownTimeout, Kinds
<1>27. ASSUME NEW p \in Processes, Restart(p) PROVE TypeOK'
  BY <1>27 DEF Restart
<1>28. ASSUME UNCHANGED vars PROVE TypeOK'
  BY <1>28 DEF vars
<1> QED
  BY <1>1, <1>2, <1>3, <1>4, <1>5, <1>6, <1>7, <1>8, <1>9, <1>10, <1>11, <1>12, <1>13,
     <1>14, <1>15, <1>16, <1>17, <1>18, <1>19, <1>20, <1>21, <1>22, <1>23, <1>24, <1>25,
     <1>26, <1>27, <1>28
  DEF Next, DispatchStep, ReprocessStep

(* Every reachable state is well formed. *)
THEOREM TypeCorrect == Spec => []TypeOK
BY InitTypes, NextTypes, PTL DEF Spec
------------------------------------------------------------------------------
(***************************************************************************)
(* The inductive invariant.  ExclusiveClaim and DlqMatchesOutbox are not   *)
(* inductive alone: a dispatcher that buries an event must know that the   *)
(* event has no DLQ row yet, an operator that restores one that the row it *)
(* read is still there, and the retry counts of the row, of the loaded     *)
(* entity and of the history must agree while an attempt is under way.     *)
(***************************************************************************)
HeldCounts ==
  /\ \A e \in Events : outbox[e].status = "NONE" => failures[e] = 0
  /\ \A d \in Dispatchers :
       /\ pc[d] \in Holding => outbox[claim[d]].retryCount < MaxRetries
       /\ pc[d] \in {"consuming", "consumed", "failed"} =>
            loaded[d] = outbox[claim[d]].retryCount
       /\ pc[d] \in {"claimed", "consuming", "consumed"} =>
            failures[claim[d]] = outbox[claim[d]].retryCount
       /\ pc[d] = "failed" => failures[claim[d]] = outbox[claim[d]].retryCount + 1

(* A DLQ row goes only together with the DEAD_LETTER status of its event,  *)
(* however many operators reprocess at once.                               *)
LEMMA NextListed == TypeOK /\ BuriedIsListed /\ [Next]_vars => BuriedIsListed'
<1> SUFFICES ASSUME TypeOK, BuriedIsListed, [Next]_vars, NEW e \in Events,
                    outbox'[e].status = "DEAD_LETTER"
             PROVE  \E row \in dlq' : row.source = e
  BY DEF BuriedIsListed
<1>1. outbox[e].status = "DEAD_LETTER" => \E row \in dlq : row.source = e
  BY DEF BuriedIsListed
<1>2. ASSUME NEW d \in Dispatchers, DeadLetter(d)
      PROVE  \E row \in dlq' : row.source = e
  <2>1. CASE claim[d] = e
    <3> DEFINE row == [id |-> nextId, source |-> claim[d], failedAttemptCount |-> loaded[d] + 1]
    <3>1. row \in dlq' /\ row.source = e
      BY <1>2, <2>1 DEF DeadLetter
    <3> HIDE DEF row
    <3> QED
      BY <3>1
  <2>2. CASE claim[d] # e
    <3>1. outbox'[e] = outbox[e] /\ dlq \subseteq dlq'
      BY <1>2, <2>2 DEF DeadLetter, TypeOK
    <3> QED
      BY <1>1, <3>1
  <2> QED
    BY <2>1, <2>2
<1>3. ASSUME NEW a \in Admins, RestoreEvent(a)
      PROVE  \E row \in dlq' : row.source = e
  <2>1. found[a].source # e /\ outbox'[e] = outbox[e]
    BY <1>3 DEF RestoreEvent, FreshRow, TypeOK
  <2> QED
    BY <1>1, <1>3, <2>1 DEF RestoreEvent
<1>4. ASSUME dlq' = dlq, outbox'[e].status = "DEAD_LETTER" => outbox[e].status = "DEAD_LETTER"
      PROVE  \E row \in dlq' : row.source = e
  BY <1>1, <1>4
<1>5. ASSUME NEW f \in Events, Emit(f) \/ TimePasses(f)
      PROVE  \E row \in dlq' : row.source = e
  <2>1. outbox \in [Events -> Row] /\ outbox[e] \in Row
    BY DEF TypeOK
  <2>2. CASE Emit(f)
    <3>1. outbox'[e] = FreshRow \/ outbox'[e] = outbox[e]
      BY <2>1, <2>2 DEF Emit
    <3> QED
      BY <1>4, <2>2, <3>1 DEF Emit, FreshRow
  <2>3. CASE TimePasses(f)
    <3>1. PICK when : outbox' = [outbox EXCEPT ![f].nextRetryAt = when]
      BY <2>3 DEF TimePasses
    <3>2. outbox'[e] = outbox[e] \/ outbox'[e] = [outbox[e] EXCEPT !.nextRetryAt = when]
      BY <2>1, <3>1
    <3>3. outbox'[e].status = outbox[e].status
      BY <2>1, <3>2 DEF Row
    <3> QED
      BY <1>4, <2>3, <3>3 DEF TimePasses
  <2> QED
    BY <1>5, <2>2, <2>3
<1>6. ASSUME NEW d \in Dispatchers, Claim(d) \/ SavePublished(d) \/ SaveRetry(d)
      PROVE  \E row \in dlq' : row.source = e
  <2>1. outbox \in [Events -> Row] /\ outbox[e] \in Row
    BY DEF TypeOK
  <2>2. CASE Claim(d)
    <3>1. PICK f \in batch[d] : outbox' = [outbox EXCEPT ![f].status = "PROCESSING"]
      BY <2>2 DEF Claim
    <3>2. outbox'[e] = outbox[e] \/ outbox'[e] = [outbox[e] EXCEPT !.status = "PROCESSING"]
      BY <2>1, <3>1
    <3> QED
      BY <1>4, <2>1, <2>2, <3>2 DEF Claim, Row
  <2>3. CASE SavePublished(d)
    <3>1. \/ outbox'[e] = outbox[e]
          \/ outbox'[e] = [outbox[e] EXCEPT !.status = "PUBLISHED", !.retryCount = loaded[d]]
      BY <2>1, <2>3 DEF SavePublished
    <3> QED
      BY <1>4, <2>1, <2>3, <3>1 DEF SavePublished, Row
  <2>4. CASE SaveRetry(d)
    <3>1. outbox'[e] = outbox[e] \/ outbox'[e].status = "PENDING"
      BY <2>1, <2>4 DEF SaveRetry
    <3> QED
      BY <1>4, <2>4, <3>1 DEF SaveRetry
  <2> QED
    BY <1>6, <2>2, <2>3, <2>4
<1>7. CASE UNCHANGED <<outbox, dlq>>
  BY <1>4, <1>7
<1> QED
  BY <1>2, <1>3, <1>5, <1>6, <1>7
  DEF Next, vars, tables, DispatchStep, ReprocessStep, DispatchPending, SelectBatch, ClaimMiss,
      LoadEvent, ConsumeOk, ConsumeError, DispatchDone, SavePublishedFault, Abort, AbortPoller,
      ReprocessBatch, FindDlq, MissDlq, FindFault, RestoreFault, Crash, Shutdown, Drained,
      ShutdownTimeout, Restart

(* Every DEAD_LETTER event is listed in the DLQ, for any number of         *)
(* concurrent reprocess requests: reprocessDlqEvent and processSingleEvent.*)
THEOREM BuriedEventsAreListed == Spec => []BuriedIsListed
<1>1. Init => BuriedIsListed
  BY DEF Init, BuriedIsListed
<1> QED
  BY <1>1, NextListed, TypeCorrect, PTL DEF Spec

SuccessCounts ==
  /\ \A e \in Events :
       outbox[e].status \in {"NONE", "PENDING", "DEAD_LETTER"} => succeeded[e] <= used["fault"]
  /\ \A d \in Dispatchers :
       /\ pc[d] \in {"claimed", "consuming", "failed"} => succeeded[claim[d]] <= used["fault"]
       /\ pc[d] = "consumed" => succeeded[claim[d]] > 0

FoundInDlq == \A a \in Admins : found[a] # NoRow => found[a] \in dlq

IInv ==
  /\ TypeOK
  /\ ExclusiveClaim
  /\ DlqMatchesOutbox
  /\ RetryAccounting
  /\ ConsumedOnce
  /\ HeldCounts
  /\ SuccessCounts
  /\ FoundInDlq

LEMMA InitInvariant == Init => IInv
<1> SUFFICES ASSUME Init PROVE IInv
  OBVIOUS
<1>1. TypeOK
  BY InitTypes
<1>2. ExclusiveClaim /\ DlqMatchesOutbox
  BY DEF Init, ExclusiveClaim, DlqMatchesOutbox, BuriedIsListed, Holding
<1>3. RetryAccounting /\ ConsumedOnce
  BY DEF Init, RetryAccounting, ConsumedOnce, Kinds
<1>4. HeldCounts /\ SuccessCounts /\ FoundInDlq
  BY DEF Init, HeldCounts, SuccessCounts, FoundInDlq, Holding, Kinds
<1> QED
  BY <1>1, <1>2, <1>3, <1>4 DEF IInv

(* A step preserves the invariant when it leaves alone what the tables say *)
(* of status and retries, and starts no new attempt: all steps of a        *)
(* dispatch but those of an attempt, and every end of a dispatch or of a   *)
(* process.                                                                *)
LEMMA Undisturbed ==
  ASSUME IInv, TypeOK',
         \A e \in Events : /\ outbox'[e].status = outbox[e].status
                           /\ outbox'[e].retryCount = outbox[e].retryCount,
         dlq' = dlq,
         \A d \in Dispatchers :
           pc'[d] \in Holding => /\ pc'[d] = pc[d]
                                 /\ claim'[d] = claim[d]
                                 /\ loaded'[d] = loaded[d],
         succeeded' = succeeded,
         failures' = failures,
         used'["fault"] >= used["fault"],
         \A a \in Admins : found'[a] # NoRow => found'[a] \in dlq
  PROVE  IInv'
<1> USE DEF IInv
<1>0. /\ used["fault"] \in Nat /\ used'["fault"] \in Nat
      /\ \A e \in Events : succeeded[e] \in Nat /\ failures[e] \in Nat
      /\ \A d \in Dispatchers : pc'[d] \in Holding => claim[d] \in Events
      /\ \A row \in dlq : row.source \in Events
  BY DEF TypeOK, Kinds, DlqRow
<1>1. ExclusiveClaim'
  <2>1. ASSUME NEW d1 \in Dispatchers, NEW d2 \in Dispatchers,
               pc'[d1] \in Holding, claim'[d1] = claim'[d2]
        PROVE  d1 = d2
    <3>1. claim'[d2] \in Events
      BY <2>1 DEF TypeOK
    <3>2. pc'[d2] \in Holding
      BY <3>1 DEF TypeOK
    <3> QED
      BY <2>1, <3>2 DEF ExclusiveClaim
  <2>2. \A d \in Dispatchers : pc'[d] \in Holding => outbox'[claim'[d]].status = "PROCESSING"
    BY <1>0 DEF ExclusiveClaim
  <2> QED
    BY <2>1, <2>2 DEF ExclusiveClaim
<1>2. DlqMatchesOutbox'
  BY <1>0 DEF DlqMatchesOutbox, BuriedIsListed
<1>3. RetryAccounting'
  BY <1>0 DEF RetryAccounting, RetriesLeft
<1>4. ConsumedOnce'
  BY <1>0 DEF ConsumedOnce
<1>5. HeldCounts'
  BY <1>0 DEF HeldCounts, Holding
<1>6. SuccessCounts'
  BY <1>0 DEF SuccessCounts, Holding
<1>7. FoundInDlq'
  BY DEF FoundInDlq
<1> QED
  BY <1>1, <1>2, <1>3, <1>4, <1>5, <1>6, <1>7

LEMMA SpendCounts ==
  ASSUME TypeOK, NEW k \in Kinds, Spend(k)
  PROVE  used'["fault"] >= used["fault"]
<1> used["fault"] \in Nat /\ "fault" \in Kinds
  BY DEF TypeOK, Kinds
<1> QED
  BY DEF Spend, TypeOK

(* The end of a process disturbs no attempt of another one. *)
LEMMA KillHeld ==
  ASSUME TypeOK, NEW p \in Processes, Kill(p)
  PROVE  /\ \A d \in Dispatchers :
              pc'[d] \in Holding => /\ pc'[d] = pc[d]
                                    /\ claim'[d] = claim[d]
                                    /\ loaded'[d] = loaded[d]
         /\ \A a \in Admins : found'[a] # NoRow => found'[a] = found[a]
<1> USE DEF TypeOK, Kill
<1>1. ASSUME NEW d \in Dispatchers, pc'[d] \in Holding
      PROVE  pc'[d] = pc[d] /\ claim'[d] = claim[d] /\ loaded'[d] = loaded[d]
  <2>1. Host[d] # p
    BY <1>1 DEF Holding
  <2> QED
    BY <2>1
<1>2. \A a \in Admins : found'[a] # NoRow => found'[a] = found[a]
  OBVIOUS
<1> QED
  BY <1>1, <1>2

LEMMA WhenOnly ==
  ASSUME outbox \in [Events -> Row], NEW e \in Events, NEW w \in When,
         outbox' = [outbox EXCEPT ![e].nextRetryAt = w]
  PROVE  \A f \in Events : /\ outbox'[f].status = outbox[f].status
                           /\ outbox'[f].retryCount = outbox[f].retryCount
<1> SUFFICES ASSUME NEW f \in Events
    PROVE /\ outbox'[f].status = outbox[f].status
          /\ outbox'[f].retryCount = outbox[f].retryCount
  OBVIOUS
<1>1. CASE f # e
  BY <1>1
<1>2. CASE f = e
  <2>1. outbox[e] \in Row
    OBVIOUS
  <2>2. outbox'[e] = [outbox[e] EXCEPT !.nextRetryAt = w]
    OBVIOUS
  <2> QED
    BY <1>2, <2>1, <2>2 DEF Row
<1> QED
  BY <1>1, <1>2

(* The steps that are no part of an attempt. *)
LEMMA QuietSteps ==
  ASSUME IInv, TypeOK',
         \/ \E e \in Events : TimePasses(e)
         \/ \E d \in Dispatchers :
              \/ \E force \in BOOLEAN : DispatchPending(d, force)
              \/ SelectBatch(d) \/ ClaimMiss(d) \/ DispatchDone(d)
              \/ Abort(d) \/ AbortPoller(d)
         \/ \E a \in Admins :
              \/ ReprocessBatch(a) \/ FindDlq(a) \/ MissDlq(a) \/ FindFault(a)
              \/ RestoreFault(a)
         \/ \E p \in Processes :
              \/ Crash(p) \/ Shutdown(p) \/ Drained(p) \/ ShutdownTimeout(p) \/ Restart(p)
         \/ UNCHANGED vars
  PROVE  IInv'
<1> USE DEF tables, worker, admin, host, history
<1>0. TypeOK /\ FoundInDlq /\ used["fault"] \in Nat
  BY DEF IInv, TypeOK, Kinds
<1>1. ASSUME NEW e \in Events, TimePasses(e) PROVE IInv'
  <2>1. PICK w \in When : outbox' = [outbox EXCEPT ![e].nextRetryAt = w]
    BY <1>1, Zenon DEF TimePasses, When
  <2>2. \A f \in Events : /\ outbox'[f].status = outbox[f].status
                          /\ outbox'[f].retryCount = outbox[f].retryCount
    BY <1>0, <2>1, WhenOnly DEF TypeOK
  <2> QED
    BY <1>0, <1>1, <2>2, Undisturbed DEF TimePasses, FoundInDlq
<1>2. ASSUME NEW d \in Dispatchers, NEW force \in BOOLEAN, DispatchPending(d, force)
      PROVE IInv'
  <2>1. \A c \in Dispatchers : pc'[c] \in Holding => pc'[c] = pc[c]
    BY <1>0, <1>2 DEF DispatchPending, TypeOK, Holding
  <2> QED
    BY <1>0, <1>2, <2>1, Undisturbed DEF DispatchPending, FoundInDlq
<1>3. ASSUME NEW d \in Dispatchers, SelectBatch(d) PROVE IInv'
  <2>1. \A c \in Dispatchers : pc'[c] \in Holding => pc'[c] = pc[c]
    BY <1>0, <1>3 DEF SelectBatch, TypeOK, Holding
  <2> QED
    BY <1>0, <1>3, <2>1, Undisturbed DEF SelectBatch, FoundInDlq
<1>4. ASSUME NEW d \in Dispatchers, ClaimMiss(d) PROVE IInv'
  BY <1>0, <1>4, Undisturbed DEF ClaimMiss, FoundInDlq
<1>5. ASSUME NEW d \in Dispatchers, DispatchDone(d) PROVE IInv'
  <2>1. \A c \in Dispatchers : pc'[c] \in Holding => pc'[c] = pc[c]
    BY <1>0, <1>5 DEF DispatchDone, TypeOK, Holding
  <2> QED
    BY <1>0, <1>5, <2>1, Undisturbed DEF DispatchDone, FoundInDlq
<1>6. ASSUME NEW d \in Dispatchers, Abort(d) PROVE IInv'
  <2>1. \A c \in Dispatchers :
          pc'[c] \in Holding => pc'[c] = pc[c] /\ claim'[c] = claim[c] /\ loaded'[c] = loaded[c]
    BY <1>0, <1>6 DEF Abort, TypeOK, Holding
  <2>2. used'["fault"] >= used["fault"]
    BY <1>0, <1>6, SpendCounts DEF Abort, Kinds
  <2> QED
    BY <1>0, <1>6, <2>1, <2>2, Undisturbed DEF Abort, FoundInDlq
<1>7. ASSUME NEW p \in Processes, Kill(p), UNCHANGED <<tables, history>>,
             used'["fault"] >= used["fault"]
      PROVE  IInv'
  BY <1>0, <1>7, KillHeld, Undisturbed DEF FoundInDlq
<1>8. ASSUME NEW d \in Dispatchers, AbortPoller(d) PROVE IInv'
  BY <1>0, <1>7, <1>8, SpendCounts DEF AbortPoller, Kinds
<1>9. ASSUME NEW p \in Processes, Crash(p) \/ ShutdownTimeout(p) \/ Drained(p) PROVE IInv'
  BY <1>0, <1>7, <1>9, SpendCounts DEF Crash, ShutdownTimeout, Drained, Kinds
<1>10. ASSUME NEW p \in Processes, Shutdown(p) PROVE IInv'
  BY <1>0, <1>10, SpendCounts, Undisturbed DEF Shutdown, FoundInDlq, Kinds
<1>11. ASSUME NEW p \in Processes, Restart(p) PROVE IInv'
  BY <1>0, <1>11, Undisturbed DEF Restart, FoundInDlq
<1>12. ASSUME NEW a \in Admins, ReprocessBatch(a) PROVE IInv'
  BY <1>0, <1>12, SpendCounts, Undisturbed DEF ReprocessBatch, FoundInDlq, Kinds
<1>13. ASSUME NEW a \in Admins, FindDlq(a) PROVE IInv'
  <2>1. \A b \in Admins : found'[b] # NoRow => found'[b] \in dlq
    BY <1>0, <1>13 DEF FindDlq, FoundInDlq, TypeOK
  <2> QED
    BY <1>0, <1>13, <2>1, Undisturbed DEF FindDlq
<1>14. ASSUME NEW a \in Admins, MissDlq(a) PROVE IInv'
  BY <1>0, <1>14, Undisturbed DEF MissDlq, FoundInDlq
<1>15. ASSUME NEW a \in Admins, FindFault(a) PROVE IInv'
  BY <1>0, <1>15, SpendCounts, Undisturbed DEF FindFault, FoundInDlq, Kinds
<1>16. ASSUME NEW a \in Admins, RestoreFault(a) PROVE IInv'
  <2>1. \A b \in Admins : found'[b] # NoRow => found'[b] \in dlq
    BY <1>0, <1>16 DEF RestoreFault, FoundInDlq, TypeOK
  <2> QED
    BY <1>0, <1>16, <2>1, SpendCounts, Undisturbed DEF RestoreFault, Kinds
<1>17. ASSUME UNCHANGED vars PROVE IInv'
  BY <1>0, <1>17, Undisturbed DEF vars, FoundInDlq
<1> QED
  BY <1>1, <1>2, <1>3, <1>4, <1>5, <1>6, <1>8, <1>9, <1>10, <1>11, <1>12, <1>13, <1>14,
     <1>15, <1>16, <1>17

(* The counters and rows an attempt deals with are of the right kind. *)
LEMMA Numbers ==
  ASSUME TypeOK
  PROVE  /\ used["fault"] \in Nat
         /\ \A e \in Events : /\ outbox[e] \in Row
                              /\ outbox[e].retryCount \in Nat
                              /\ succeeded[e] \in Nat
                              /\ failures[e] \in Nat
         /\ \A d \in Dispatchers : pc[d] \in Holding => claim[d] \in Events
         /\ \A row \in dlq : row.source \in Events
BY DEF TypeOK, Row, DlqRow, Kinds

(* What an update of the status alone does to the rows. *)
LEMMA StatusOnly ==
  ASSUME outbox \in [Events -> Row], NEW e \in Events, NEW s \in Statuses,
         outbox' = [outbox EXCEPT ![e].status = s]
  PROVE  /\ \A f \in Events : outbox'[f].retryCount = outbox[f].retryCount
         /\ \A f \in Events : f # e => outbox'[f].status = outbox[f].status
         /\ outbox'[e].status = s
<1>1. \A f \in Events : f # e => outbox'[f] = outbox[f]
  OBVIOUS
<1>2. outbox'[e] = [outbox[e] EXCEPT !.status = s] /\ outbox[e] \in Row
  OBVIOUS
<1>3. outbox'[e].status = s /\ outbox'[e].retryCount = outbox[e].retryCount
  BY <1>2 DEF Row
<1> QED
  BY <1>1, <1>3

LEMMA EmitStep ==
  ASSUME IInv, TypeOK', NEW e \in Events, Emit(e)
  PROVE  IInv'
<1> USE DEF IInv, Emit, FreshRow, tables, worker, admin, host, history
<1>1. /\ outbox[e].status = "NONE"
      /\ outbox'[e].status = "PENDING" /\ outbox'[e].retryCount = 0
      /\ \A f \in Events : f # e => outbox'[f] = outbox[f]
  BY DEF TypeOK
<1>2. \A d \in Dispatchers : pc[d] \in Holding => claim[d] \in Events /\ claim[d] # e
  BY <1>1, Numbers DEF ExclusiveClaim
<1>3. ExclusiveClaim'
  BY <1>1, <1>2 DEF ExclusiveClaim
<1>4. \A row \in dlq : row.source \in Events /\ row.source # e
  BY <1>1, Numbers DEF DlqMatchesOutbox, BuriedIsListed
<1>5. DlqMatchesOutbox'
  BY <1>1, <1>4 DEF DlqMatchesOutbox, BuriedIsListed
<1>6. failures[e] = 0
  BY <1>1 DEF HeldCounts
<1>7. RetryAccounting'
  BY <1>1, <1>6, Numbers DEF RetryAccounting, RetriesLeft
<1>8. ConsumedOnce'
  BY <1>1 DEF ConsumedOnce
<1>9. HeldCounts'
  BY <1>1, <1>2 DEF HeldCounts, Holding
<1>10. SuccessCounts'
  BY <1>1 DEF SuccessCounts
<1>11. FoundInDlq'
  BY DEF FoundInDlq
<1> QED
  BY <1>3, <1>5, <1>7, <1>8, <1>9, <1>10, <1>11

LEMMA ClaimStep ==
  ASSUME IInv, TypeOK', NEW d \in Dispatchers, Claim(d)
  PROVE  IInv'
<1> USE DEF IInv, tables, worker, admin, host, history
<1>1. PICK e \in Events :
        /\ outbox[e].status = "PENDING"
        /\ outbox' = [outbox EXCEPT ![e].status = "PROCESSING"]
        /\ claim' = [claim EXCEPT ![d] = e]
  BY Zenon DEF Claim, Claimable, TypeOK
<1>2. /\ \A f \in Events : outbox'[f].retryCount = outbox[f].retryCount
      /\ \A f \in Events : f # e => outbox'[f].status = outbox[f].status
      /\ outbox'[e].status = "PROCESSING"
  BY <1>1, StatusOnly DEF TypeOK, Statuses
<1>3. /\ pc'[d] = "claimed" /\ claim'[d] = e
      /\ \A c \in Dispatchers \ {d} : pc'[c] = pc[c] /\ claim'[c] = claim[c]
      /\ UNCHANGED <<dlq, loaded, found, used, succeeded, failures>>
  BY <1>1 DEF Claim, TypeOK
<1>4. \A c \in Dispatchers \ {d} : pc[c] \in Holding => claim[c] \in Events /\ claim[c] # e
  BY <1>1, Numbers DEF ExclusiveClaim
<1>5. ExclusiveClaim'
  <2>1. ASSUME NEW d1 \in Dispatchers, NEW d2 \in Dispatchers,
               pc'[d1] \in Holding, claim'[d1] = claim'[d2]
        PROVE  d1 = d2
    <3>1. claim'[d2] \in Events /\ pc'[d2] \in Holding
      BY <2>1 DEF TypeOK
    <3> QED
      BY <1>3, <1>4, <2>1, <3>1 DEF ExclusiveClaim
  <2>2. \A c \in Dispatchers : pc'[c] \in Holding => outbox'[claim'[c]].status = "PROCESSING"
    BY <1>2, <1>3, <1>4 DEF ExclusiveClaim
  <2> QED
    BY <2>1, <2>2 DEF ExclusiveClaim
<1>6. \A row \in dlq : row.source \in Events /\ row.source # e
  BY <1>1, Numbers DEF DlqMatchesOutbox, BuriedIsListed
<1>7. DlqMatchesOutbox'
  BY <1>2, <1>3, <1>6 DEF DlqMatchesOutbox, BuriedIsListed
<1>8. RetryAccounting'
  BY <1>2, <1>3 DEF RetryAccounting, RetriesLeft
<1>9. ConsumedOnce'
  BY <1>2, <1>3 DEF ConsumedOnce
<1>10. failures[e] = outbox[e].retryCount /\ outbox[e].retryCount < MaxRetries
  BY <1>1 DEF RetryAccounting, RetriesLeft
<1>11. HeldCounts'
  BY <1>2, <1>3, <1>4, <1>10 DEF HeldCounts, Holding
<1>12. SuccessCounts'
  BY <1>1, <1>2, <1>3 DEF SuccessCounts
<1>13. FoundInDlq'
  BY <1>3 DEF FoundInDlq
<1> QED
  BY <1>5, <1>7, <1>8, <1>9, <1>11, <1>12, <1>13

(* A failed database call is what makes an attempt fail: the save of a     *)
(* consumed event, and calls of the consumer in modules that extend this.  *)
AttemptFault(d) ==
  /\ pc[d] \in {"consuming", "consumed"}
  /\ Spend("fault")
  /\ AttemptFails(d)
  /\ UNCHANGED <<tables, forced, batch, claim, loaded, admin, host, succeeded>>

(* The steps of an attempt between the claim and the outcome. *)
LEMMA AttemptStep ==
  ASSUME IInv, TypeOK', NEW d \in Dispatchers,
         \/ LoadEvent(d) \/ ConsumeOk(d) \/ ConsumeError(d) \/ AttemptFault(d)
  PROVE  IInv'
<1> DEFINE e == claim[d]
<1> USE DEF IInv, tables, worker, admin, host, history
<1>1. pc[d] \in Holding /\ e \in Events
  BY Numbers DEF LoadEvent, ConsumeOk, ConsumeError, AttemptFault, Holding
<1>2. /\ pc'[d] \in Holding
      /\ \A c \in Dispatchers \ {d} : pc'[c] = pc[c] /\ loaded'[c] = loaded[c]
      /\ UNCHANGED <<outbox, dlq, claim, found>>
  BY DEF LoadEvent, ConsumeOk, ConsumeError, AttemptFault, AttemptFails, Holding, TypeOK
<1>3. \A c \in Dispatchers \ {d} : pc[c] \in Holding => claim[c] \in Events /\ claim[c] # e
  BY <1>1, Numbers DEF ExclusiveClaim
<1>4. outbox[e].status = "PROCESSING"
  BY <1>1 DEF ExclusiveClaim
<1>5. \A c \in Dispatchers : pc'[c] \in Holding <=> pc[c] \in Holding
  BY <1>1, <1>2
<1>6. ExclusiveClaim' /\ DlqMatchesOutbox' /\ FoundInDlq'
  BY <1>2, <1>5 DEF ExclusiveClaim, DlqMatchesOutbox, BuriedIsListed, FoundInDlq
<1>7. outbox[e].retryCount \in Nat /\ outbox[e].retryCount < MaxRetries
  BY <1>1, Numbers DEF HeldCounts
<1>8. CASE LoadEvent(d)
  <2>1. /\ pc[d] = "claimed" /\ pc'[d] = "consuming" /\ loaded'[d] = outbox[e].retryCount
        /\ UNCHANGED <<used, succeeded, failures>>
    BY <1>8 DEF LoadEvent, TypeOK
  <2>2. RetryAccounting' /\ ConsumedOnce'
    BY <1>2, <2>1 DEF RetryAccounting, ConsumedOnce
  <2>3. HeldCounts'
    BY <1>1, <1>2, <2>1 DEF HeldCounts, Holding
  <2>4. SuccessCounts'
    BY <1>2, <2>1 DEF SuccessCounts
  <2> QED
    BY <1>6, <2>2, <2>3, <2>4
<1>9. CASE ConsumeOk(d)
  <2>1. /\ pc[d] = "consuming" /\ pc'[d] = "consumed" /\ succeeded'[e] = succeeded[e] + 1
        /\ \A f \in Events : f # e => succeeded'[f] = succeeded[f]
        /\ UNCHANGED <<used, loaded, failures>>
    BY <1>1, <1>9 DEF ConsumeOk, TypeOK
  <2>2. succeeded[e] <= used["fault"]
    BY <2>1 DEF SuccessCounts
  <2>3. RetryAccounting'
    BY <1>2, <2>1 DEF RetryAccounting
  <2>4. ConsumedOnce'
    BY <1>1, <1>2, <1>4, <2>1, <2>2, Numbers DEF ConsumedOnce
  <2>5. HeldCounts'
    BY <1>1, <1>2, <2>1 DEF HeldCounts, Holding
  <2>6. SuccessCounts'
    BY <1>1, <1>2, <1>3, <1>4, <2>1, <2>2, Numbers DEF SuccessCounts, Holding
  <2> QED
    BY <1>6, <2>3, <2>4, <2>5, <2>6
<1>10. CASE ConsumeError(d) \/ AttemptFault(d)
  <2>1. /\ pc[d] \in {"consuming", "consumed"} /\ pc'[d] = "failed"
        /\ failures'[e] = failures[e] + 1
        /\ \A f \in Events : f # e => failures'[f] = failures[f]
        /\ UNCHANGED <<loaded, succeeded>>
    BY <1>1, <1>10 DEF ConsumeError, AttemptFault, AttemptFails, TypeOK
  <2>2. failures[e] = outbox[e].retryCount
    BY <2>1 DEF HeldCounts
  <2>3. RetryAccounting'
    BY <1>2, <1>4, <1>7, <2>1, <2>2, Numbers DEF RetryAccounting
  <2>4. HeldCounts'
    BY <1>1, <1>2, <1>3, <1>4, <2>1, <2>2 DEF HeldCounts, Holding
  <2>5. used'["fault"] >= used["fault"] /\ succeeded[e] <= used'["fault"]
    <3>1. CASE ConsumeError(d)
      BY <3>1, Numbers DEF ConsumeError, SuccessCounts
    <3>2. CASE AttemptFault(d)
      <4>1. used'["fault"] = used["fault"] + 1
        BY <3>2 DEF AttemptFault, Spend, TypeOK, Kinds
      <4>2. succeeded[e] <= 1 + used["fault"]
        BY <1>1 DEF ConsumedOnce
      <4> QED
        BY <1>1, <4>1, <4>2, Numbers
    <3> QED
      BY <1>10, <3>1, <3>2
  <2>6. used'["fault"] \in Nat
    BY DEF TypeOK, Kinds
  <2>7. ConsumedOnce'
    BY <1>2, <2>1, <2>5, <2>6, Numbers DEF ConsumedOnce
  <2>8. SuccessCounts'
    BY <1>1, <1>2, <1>3, <1>4, <2>1, <2>5, <2>6, Numbers DEF SuccessCounts, Holding
  <2> QED
    BY <1>6, <2>3, <2>4, <2>7, <2>8
<1> QED
  BY <1>8, <1>9, <1>10

(* What is common to the three outcomes of an attempt: the dispatcher lets *)
(* go of the event, and only the row of that event changes.                *)
LEMMA Outcome ==
  ASSUME IInv, TypeOK', NEW d \in Dispatchers,
         SavePublished(d) \/ SaveRetry(d) \/ DeadLetter(d)
  PROVE  /\ claim[d] \in Events
         /\ pc[d] \in {"consumed", "failed"}
         /\ outbox[claim[d]].status = "PROCESSING"
         /\ loaded[d] = outbox[claim[d]].retryCount
         /\ pc'[d] = "loop"
         /\ \A c \in Dispatchers \ {d} :
              /\ pc'[c] = pc[c] /\ claim'[c] = claim[c] /\ loaded'[c] = loaded[c]
              /\ pc[c] \in Holding => claim[c] \in Events /\ claim[c] # claim[d]
         /\ \A f \in Events : f # claim[d] => outbox'[f] = outbox[f]
         /\ UNCHANGED <<found, used, succeeded, failures>>
<1> USE DEF IInv, tables, worker, admin, host, history
<1>1. pc[d] \in {"consumed", "failed"}
  BY DEF SavePublished, SaveRetry, DeadLetter
<1>2. claim[d] \in Events /\ pc[d] \in Holding
  BY <1>1, Numbers DEF Holding
<1>3. outbox[claim[d]].status = "PROCESSING"
  BY <1>2 DEF ExclusiveClaim
<1>4. loaded[d] = outbox[claim[d]].retryCount
  BY <1>1 DEF HeldCounts
<1>5. /\ pc'[d] = "loop"
      /\ \A c \in Dispatchers \ {d} :
           pc'[c] = pc[c] /\ claim'[c] = claim[c] /\ loaded'[c] = loaded[c]
      /\ UNCHANGED <<found, used, succeeded, failures>>
  BY DEF SavePublished, SaveRetry, DeadLetter, Release, TypeOK
<1>6. \A c \in Dispatchers \ {d} : pc[c] \in Holding => claim[c] \in Events /\ claim[c] # claim[d]
  BY <1>2, Numbers DEF ExclusiveClaim
<1>7. \A f \in Events : f # claim[d] => outbox'[f] = outbox[f]
  BY <1>2 DEF SavePublished, SaveRetry, DeadLetter, TypeOK
<1> QED
  BY <1>1, <1>2, <1>3, <1>4, <1>5, <1>6, <1>7

LEMMA OutcomeHeld ==
  ASSUME IInv, TypeOK', NEW d \in Dispatchers,
         SavePublished(d) \/ SaveRetry(d) \/ DeadLetter(d),
         outbox'[claim[d]].status # "NONE"
  PROVE  ExclusiveClaim' /\ HeldCounts'
<1> USE Outcome DEF IInv
<1>1. \A c \in Dispatchers : pc'[c] \in Holding => c # d /\ pc[c] \in Holding
  BY DEF Holding
<1>2. ASSUME NEW d1 \in Dispatchers, NEW d2 \in Dispatchers,
             pc'[d1] \in Holding, claim'[d1] = claim'[d2]
      PROVE  d1 = d2
  <2>1. pc'[d2] \in Holding
    BY <1>2 DEF TypeOK
  <2> QED
    BY <1>1, <1>2, <2>1 DEF ExclusiveClaim
<1>3. \A c \in Dispatchers : pc'[c] \in Holding => outbox'[claim'[c]].status = "PROCESSING"
  BY <1>1 DEF ExclusiveClaim
<1>4. HeldCounts'
  BY <1>1 DEF HeldCounts, Holding
<1> QED
  BY <1>2, <1>3, <1>4 DEF ExclusiveClaim

LEMMA SavePublishedStep ==
  ASSUME IInv, TypeOK', NEW d \in Dispatchers, SavePublished(d)
  PROVE  IInv'
<1> DEFINE e == claim[d]
<1> USE DEF IInv, tables, worker, admin, host, history
<1>0. /\ e \in Events /\ outbox[e].status = "PROCESSING"
      /\ pc'[d] = "loop"
      /\ \A c \in Dispatchers \ {d} :
           /\ pc'[c] = pc[c] /\ claim'[c] = claim[c]
           /\ pc[c] \in Holding => claim[c] \in Events /\ claim[c] # e
      /\ \A f \in Events : f # e => outbox'[f] = outbox[f]
      /\ UNCHANGED <<found, used, succeeded, failures>>
  BY Outcome
<1>1. /\ pc[d] = "consumed" /\ UNCHANGED dlq
      /\ outbox' = [outbox EXCEPT ![e].status = "PUBLISHED", ![e].retryCount = loaded[d]]
  BY DEF SavePublished
<1>2. outbox'[e].status = "PUBLISHED"
  <2>1. outbox'[e] = [outbox[e] EXCEPT !.status = "PUBLISHED", !.retryCount = loaded[d]]
    BY <1>0, <1>1 DEF TypeOK
  <2>2. outbox[e] \in Row
    BY <1>0, Numbers
  <2> QED
    BY <2>1, <2>2 DEF Row
<1>3. ExclusiveClaim' /\ HeldCounts'
  BY <1>2, OutcomeHeld
<1>4. \A row \in dlq : row.source \in Events /\ row.source # e
  BY <1>0, Numbers DEF DlqMatchesOutbox, BuriedIsListed
<1>5. DlqMatchesOutbox'
  <2>1. \A row \in dlq' : outbox'[row.source].status = "DEAD_LETTER"
    BY <1>0, <1>1, <1>4 DEF DlqMatchesOutbox, BuriedIsListed
  <2>2. \A r1, r2 \in dlq' : r1.source = r2.source => r1 = r2
    BY <1>1 DEF DlqMatchesOutbox, BuriedIsListed
  <2>3. \A f \in Events : outbox'[f].status = "DEAD_LETTER" => outbox[f].status = "DEAD_LETTER"
    BY <1>0, <1>2
  <2>4. \A f \in Events : outbox'[f].status = "DEAD_LETTER" => \E row \in dlq' : row.source = f
    BY <1>1, <2>3 DEF DlqMatchesOutbox, BuriedIsListed
  <2> QED
    BY <2>1, <2>2, <2>4 DEF DlqMatchesOutbox, BuriedIsListed
<1>6. RetryAccounting'
  BY <1>0, <1>1, <1>2 DEF RetryAccounting
<1>7. succeeded[e] > 0
  BY <1>1 DEF SuccessCounts
<1>8. ConsumedOnce'
  BY <1>0, <1>2, <1>7 DEF ConsumedOnce
<1>9. SuccessCounts'
  BY <1>0, <1>2 DEF SuccessCounts
<1>10. FoundInDlq'
  BY <1>0, <1>1 DEF FoundInDlq
<1> QED
  BY <1>3, <1>5, <1>6, <1>8, <1>9, <1>10

LEMMA SaveRetryStep ==
  ASSUME IInv, TypeOK', NEW d \in Dispatchers, SaveRetry(d)
  PROVE  IInv'
<1> DEFINE e == claim[d]
<1> USE Outcome DEF IInv, tables, worker, admin, host, history
<1>1. /\ pc[d] = "failed" /\ UNCHANGED dlq /\ loaded[d] + 1 < MaxRetries
      /\ outbox'[e].status = "PENDING" /\ outbox'[e].retryCount = loaded[d] + 1
  BY DEF SaveRetry, RetriesLeft, TypeOK
<1>2. ExclusiveClaim' /\ HeldCounts'
  BY <1>1, OutcomeHeld
<1>3. \A row \in dlq : row.source \in Events /\ row.source # e
  BY Numbers DEF DlqMatchesOutbox, BuriedIsListed
<1>4. DlqMatchesOutbox'
  BY <1>1, <1>3 DEF DlqMatchesOutbox, BuriedIsListed
<1>5. failures[e] = loaded[d] + 1
  BY <1>1 DEF HeldCounts
<1>6. RetryAccounting'
  BY <1>1, <1>5 DEF RetryAccounting, RetriesLeft
<1>7. succeeded[e] <= used["fault"]
  BY <1>1 DEF SuccessCounts
<1>8. ConsumedOnce' /\ SuccessCounts'
  BY <1>1, <1>7 DEF ConsumedOnce, SuccessCounts
<1>9. FoundInDlq'
  BY <1>1 DEF FoundInDlq
<1> QED
  BY <1>2, <1>4, <1>6, <1>8, <1>9

LEMMA DeadLetterStep ==
  ASSUME IInv, TypeOK', NEW d \in Dispatchers, DeadLetter(d)
  PROVE  IInv'
<1> DEFINE e == claim[d]
           buried == [id |-> nextId, source |-> e, failedAttemptCount |-> loaded[d] + 1]
<1> USE Outcome DEF IInv, tables, worker, admin, host, history
<1>1. /\ pc[d] = "failed" /\ ~(loaded[d] + 1 < MaxRetries)
      /\ outbox'[e].status = "DEAD_LETTER" /\ outbox'[e].retryCount = loaded[d] + 1
      /\ dlq' = dlq \cup {buried}
  BY DEF DeadLetter, RetriesLeft, TypeOK
<1>2. ExclusiveClaim' /\ HeldCounts'
  BY <1>1, OutcomeHeld
<1>3. \A row \in dlq : row.source \in Events /\ row.source # e
  BY Numbers DEF DlqMatchesOutbox, BuriedIsListed
<1>4. DlqMatchesOutbox'
  <2>1. \A row \in dlq' : outbox'[row.source].status = "DEAD_LETTER"
    BY <1>1, <1>3 DEF DlqMatchesOutbox, BuriedIsListed
  <2>2. \A r1, r2 \in dlq' : r1.source = r2.source => r1 = r2
    BY <1>1, <1>3 DEF DlqMatchesOutbox, BuriedIsListed
  <2>3. \A f \in Events : outbox'[f].status = "DEAD_LETTER" => \E row \in dlq' : row.source = f
    <3>1. ASSUME NEW f \in Events, outbox'[f].status = "DEAD_LETTER"
          PROVE  \E row \in dlq' : row.source = f
      <4>1. CASE f = e
        <5>1. buried \in dlq' /\ buried.source = f
          BY <1>1, <4>1
        <5> QED
          BY <5>1
      <4>2. CASE f # e
        BY <1>1, <3>1, <4>2 DEF DlqMatchesOutbox, BuriedIsListed
      <4> QED
        BY <4>1, <4>2
    <3> QED
      BY <3>1
  <2> QED
    BY <2>1, <2>2, <2>3 DEF DlqMatchesOutbox, BuriedIsListed
<1>5. failures[e] = loaded[d] + 1 /\ loaded[d] + 1 = MaxRetries
  BY <1>1, Numbers DEF HeldCounts, Holding
<1>6. RetryAccounting'
  BY <1>1, <1>5 DEF RetryAccounting, RetriesLeft
<1>7. succeeded[e] <= used["fault"]
  BY <1>1 DEF SuccessCounts
<1>8. ConsumedOnce' /\ SuccessCounts'
  BY <1>1, <1>7 DEF ConsumedOnce, SuccessCounts
<1>9. FoundInDlq'
  BY <1>1 DEF FoundInDlq
<1> QED
  BY <1>2, <1>4, <1>6, <1>8, <1>9

(* Here one operator at a time matters: the row that was read is still in  *)
(* the DLQ, so that its event is DEAD_LETTER and nobody works on it.       *)
LEMMA RestoreStep ==
  ASSUME SingleAdmin, IInv, TypeOK', NEW a \in Admins, RestoreEvent(a)
  PROVE  IInv'
<1> DEFINE row == found[a]
           e == row.source
<1> USE DEF IInv, tables, worker, admin, host, history
<1>1. row \in dlq /\ e \in Events
  BY Numbers DEF RestoreEvent, FoundInDlq
<1>2. outbox[e].status = "DEAD_LETTER"
  BY <1>1 DEF DlqMatchesOutbox, BuriedIsListed
<1>3. /\ outbox'[e].status = "PENDING" /\ outbox'[e].retryCount = 0
      /\ \A f \in Events : f # e => outbox'[f] = outbox[f]
      /\ failures'[e] = 0 /\ \A f \in Events : f # e => failures'[f] = failures[f]
      /\ dlq' = dlq \ {row}
      /\ UNCHANGED <<pc, claim, loaded, used, succeeded>>
  BY <1>1 DEF RestoreEvent, FreshRow, TypeOK
<1>4. \A d \in Dispatchers : pc[d] \in Holding => claim[d] \in Events /\ claim[d] # e
  BY <1>2, Numbers DEF ExclusiveClaim
<1>5. ExclusiveClaim'
  BY <1>3, <1>4 DEF ExclusiveClaim
<1>6. \A r \in dlq' : r \in dlq /\ r.source \in Events /\ r.source # e
  BY <1>1, <1>3, Numbers DEF DlqMatchesOutbox, BuriedIsListed
<1>7. DlqMatchesOutbox'
  <2>1. \A f \in Events : outbox'[f].status = "DEAD_LETTER" => \E r \in dlq' : r.source = f
    BY <1>3 DEF DlqMatchesOutbox, BuriedIsListed
  <2> QED
    BY <1>3, <1>6, <2>1 DEF DlqMatchesOutbox, BuriedIsListed
<1>8. RetryAccounting'
  BY <1>3, <1>6 DEF RetryAccounting, RetriesLeft
<1>9. ConsumedOnce'
  BY <1>3 DEF ConsumedOnce
<1>10. HeldCounts'
  BY <1>3, <1>4 DEF HeldCounts, Holding
<1>11. SuccessCounts'
  BY <1>2, <1>3 DEF SuccessCounts
<1>12. FoundInDlq'
  BY DEF RestoreEvent, SingleAdmin, FoundInDlq, TypeOK
<1> QED
  BY <1>5, <1>7, <1>8, <1>9, <1>10, <1>11, <1>12

LEMMA NextInvariant == SingleAdmin /\ IInv /\ [Next]_vars => IInv'
<1> SUFFICES ASSUME SingleAdmin, IInv, [Next]_vars PROVE IInv'
  OBVIOUS
<1>1. TypeOK'
  BY NextTypes DEF IInv
<1>2. \A d \in Dispatchers : SavePublishedFault(d) => AttemptFault(d)
  BY DEF SavePublishedFault, AttemptFault
<1> QED
  BY <1>1, <1>2, QuietSteps, EmitStep, ClaimStep, AttemptStep, SavePublishedStep, SaveRetryStep,
     DeadLetterStep, RestoreStep
  DEF Next, DispatchStep, ReprocessStep

THEOREM Invariance == ASSUME SingleAdmin PROVE Spec => []IInv
BY InitInvariant, NextInvariant, PTL DEF Spec

(* While operators reprocess the DLQ one at a time, no event is ever       *)
(* processed by two dispatches: the claiming UPDATE of processSingleEvent. *)
THEOREM ClaimsAreExclusive == ASSUME SingleAdmin PROVE Spec => []ExclusiveClaim
BY Invariance, PTL DEF IInv

(* Under the same condition the two tables agree on what is dead-lettered. *)
THEOREM DlqIsExact == ASSUME SingleAdmin PROVE Spec => []DlqMatchesOutbox
BY Invariance, PTL DEF IInv

(* Every failed attempt is counted, and the last one buries the event. *)
THEOREM RetriesAreCounted == ASSUME SingleAdmin PROVE Spec => []RetryAccounting
BY Invariance, PTL DEF IInv

(* Only a failed database call lets an event be consumed once more. *)
THEOREM DuplicatesCostFaults == ASSUME SingleAdmin PROVE Spec => []ConsumedOnce
BY Invariance, PTL DEF IInv
------------------------------------------------------------------------------
(***************************************************************************)
(* Refinement: every step moves at most one event, and only along a stage  *)
(* of EventLifecycle.                                                      *)
(***************************************************************************)
LEMMA Names ==
  /\ StageOf("NONE") = "absent"
  /\ StageOf("PENDING") = "queued"
  /\ StageOf("PROCESSING") = "inflight"
  /\ StageOf("PUBLISHED") = "delivered"
  /\ StageOf("DEAD_LETTER") = "buried"
BY DEF StageOf

(* A step that changes no status is a stutter of the abstract events. *)
LEMMA SameStages ==
  ASSUME \A e \in Events : outbox'[e].status = outbox[e].status
  PROVE  stage' = stage
BY DEF stage

(* A step that changes the row of e alone moves e alone. *)
LEMMA OneStage ==
  ASSUME NEW e \in Events, NEW s, NEW t,
         outbox[e].status = s,
         outbox'[e].status = t,
         \A f \in Events : f # e => outbox'[f].status = outbox[f].status
  PROVE  Lifecycle!Move(e, StageOf(s), StageOf(t))
<1>1. stage[e] = StageOf(s)
  BY DEF stage
<1>2. stage' = [f \in Events |-> StageOf(outbox'[f].status)]
  BY DEF stage
<1>3. [stage EXCEPT ![e] = StageOf(t)] =
        [f \in Events |-> IF f = e THEN StageOf(t) ELSE StageOf(outbox[f].status)]
  BY DEF stage
<1>4. stage' = [stage EXCEPT ![e] = StageOf(t)]
  BY <1>2, <1>3
<1> QED
  BY <1>1, <1>4 DEF Lifecycle!Move

LEMMA InitMaps == Init => Lifecycle!Init
BY Names DEF Init, stage, Lifecycle!Init

(* The steps of an attempt that write the row. *)
LEMMA StepMaps ==
  ASSUME SingleAdmin, IInv, IInv', [Next]_vars
  PROVE  [Lifecycle!Next]_stage
<1> USE DEF IInv, tables, worker, admin, host, history
<1> USE Names DEF Lifecycle!Next
<1>1. ASSUME NEW e \in Events, Emit(e) PROVE Lifecycle!Next
  <2>1. /\ outbox[e].status = "NONE" /\ outbox'[e].status = "PENDING"
        /\ \A f \in Events : f # e => outbox'[f] = outbox[f]
    BY <1>1 DEF Emit, FreshRow, TypeOK
  <2>2. Lifecycle!Move(e, StageOf("NONE"), StageOf("PENDING"))
    BY <2>1, OneStage
  <2> QED
    BY <2>2 DEF Lifecycle!Record
<1>2. ASSUME NEW d \in Dispatchers, Claim(d) PROVE Lifecycle!Next
  <2>1. PICK e \in Events : /\ outbox[e].status = "PENDING"
                            /\ outbox' = [outbox EXCEPT ![e].status = "PROCESSING"]
    BY <1>2, Zenon DEF Claim, Claimable, TypeOK
  <2>2. /\ outbox'[e].status = "PROCESSING"
        /\ \A f \in Events : f # e => outbox'[f].status = outbox[f].status
    BY <2>1, StatusOnly DEF TypeOK, Statuses
  <2>3. Lifecycle!Move(e, StageOf("PENDING"), StageOf("PROCESSING"))
    BY <2>1, <2>2, OneStage
  <2> QED
    BY <2>3 DEF Lifecycle!Take
<1>3. ASSUME NEW d \in Dispatchers, SavePublished(d) \/ SaveRetry(d) \/ DeadLetter(d)
      PROVE  Lifecycle!Next
  <2> DEFINE e == claim[d]
  <2>1. /\ e \in Events /\ outbox[e].status = "PROCESSING"
        /\ \A f \in Events : f # e => outbox'[f] = outbox[f]
    BY <1>3, Outcome
  <2>2. ASSUME NEW t, outbox'[e].status = t
        PROVE  Lifecycle!Move(e, StageOf("PROCESSING"), StageOf(t))
    BY <2>1, <2>2, OneStage
  <2>3. CASE SavePublished(d)
    <3>1. outbox'[e].status = "PUBLISHED"
      <4>1. outbox'[e] = [outbox[e] EXCEPT !.status = "PUBLISHED", !.retryCount = loaded[d]]
        BY <2>1, <2>3 DEF SavePublished, TypeOK
      <4>2. outbox[e] \in Row
        BY <2>1, Numbers
      <4> QED
        BY <4>1, <4>2 DEF Row
    <3>2. Lifecycle!Move(e, StageOf("PROCESSING"), StageOf("PUBLISHED"))
      BY <2>2, <3>1
    <3> QED
      BY <2>1, <3>2 DEF Lifecycle!Finish
  <2>4. CASE SaveRetry(d)
    <3>1. outbox'[e].status = "PENDING"
      BY <2>1, <2>4 DEF SaveRetry, TypeOK
    <3>2. Lifecycle!Move(e, StageOf("PROCESSING"), StageOf("PENDING"))
      BY <2>2, <3>1
    <3> QED
      BY <2>1, <3>2 DEF Lifecycle!Requeue
  <2>5. CASE DeadLetter(d)
    <3>1. outbox'[e].status = "DEAD_LETTER"
      BY <2>1, <2>5 DEF DeadLetter, TypeOK
    <3>2. Lifecycle!Move(e, StageOf("PROCESSING"), StageOf("DEAD_LETTER"))
      BY <2>2, <3>1
    <3> QED
      BY <2>1, <3>2 DEF Lifecycle!Bury
  <2> QED
    BY <1>3, <2>3, <2>4, <2>5
<1>4. ASSUME NEW a \in Admins, RestoreEvent(a) PROVE Lifecycle!Next
  <2> DEFINE e == found[a].source
  <2>1. found[a] \in dlq /\ e \in Events
    BY <1>4, Numbers DEF RestoreEvent, FoundInDlq
  <2>2. /\ outbox[e].status = "DEAD_LETTER" /\ outbox'[e].status = "PENDING"
        /\ \A f \in Events : f # e => outbox'[f] = outbox[f]
    BY <1>4, <2>1 DEF RestoreEvent, FreshRow, DlqMatchesOutbox, BuriedIsListed, TypeOK
  <2>3. Lifecycle!Move(e, StageOf("DEAD_LETTER"), StageOf("PENDING"))
    BY <2>1, <2>2, OneStage
  <2> QED
    BY <2>1, <2>3 DEF Lifecycle!Revive
<1>5. ASSUME NEW e \in Events, TimePasses(e) PROVE stage' = stage
  <2>1. PICK w \in When : outbox' = [outbox EXCEPT ![e].nextRetryAt = w]
    BY <1>5, Zenon DEF TimePasses, When
  <2>2. \A f \in Events : outbox'[f].status = outbox[f].status
    BY <2>1, WhenOnly DEF TypeOK
  <2> QED
    BY <2>2, SameStages
<1>6. ASSUME UNCHANGED outbox PROVE stage' = stage
  BY <1>6, SameStages
<1>7. CASE \E d \in Dispatchers :
             \/ \E force \in BOOLEAN : DispatchPending(d, force)
             \/ SelectBatch(d) \/ ClaimMiss(d) \/ DispatchDone(d) \/ LoadEvent(d)
             \/ ConsumeOk(d) \/ ConsumeError(d) \/ SavePublishedFault(d)
             \/ Abort(d) \/ AbortPoller(d)
  BY <1>6, <1>7
  DEF DispatchPending, SelectBatch, ClaimMiss, DispatchDone, LoadEvent, ConsumeOk,
      ConsumeError, SavePublishedFault, Abort, AbortPoller
<1>8. CASE \E a \in Admins :
             \/ ReprocessBatch(a) \/ FindDlq(a) \/ MissDlq(a) \/ FindFault(a)
             \/ RestoreFault(a)
  BY <1>6, <1>8 DEF ReprocessBatch, FindDlq, MissDlq, FindFault, RestoreFault
<1>9. CASE \E p \in Processes :
             \/ Crash(p) \/ Shutdown(p) \/ Drained(p) \/ ShutdownTimeout(p) \/ Restart(p)
  BY <1>6, <1>9 DEF Crash, Shutdown, Drained, ShutdownTimeout, Restart
<1>10. CASE UNCHANGED vars
  BY <1>6, <1>10 DEF vars
<1> QED
  BY <1>1, <1>2, <1>3, <1>4, <1>5, <1>7, <1>8, <1>9, <1>10
  DEF Next, DispatchStep, ReprocessStep

(* While operators reprocess one at a time, the outbox implements the      *)
(* lifecycle it promises: taken by one consumer, delivered or buried for   *)
(* good, revived only from the DLQ.                                        *)
THEOREM OutboxImplementsLifecycle == ASSUME SingleAdmin PROVE Spec => ImplementsLifecycle
<1>1. Init => Lifecycle!Init
  BY InitMaps
<1>2. IInv /\ IInv' /\ [Next]_vars => [Lifecycle!Next]_stage
  BY StepMaps
<1>3. Spec => []IInv
  BY Invariance
<1> QED
  BY <1>1, <1>2, <1>3, PTL DEF Spec, ImplementsLifecycle, Lifecycle!Spec
=============================================================================
