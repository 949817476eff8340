--------------------------- MODULE OutboxProcessor ---------------------------
(***************************************************************************)
(* The transactional outbox: rows recorded by the order services, the      *)
(* dispatches that consume them (started by a timer or by an HTTP call),   *)
(* the dead letter queue, its reprocessing by operators, and the life of   *)
(* the processes all of them run in.                                       *)
(*                                                                         *)
(* A step is what runs between two awaits.  A TypeORM transaction is one   *)
(* step; a save overwrites the row with the columns of the loaded entity.  *)
(***************************************************************************)
EXTENDS Integers, FiniteSets

CONSTANTS
  Events,       \* outbox rows that may be recorded
  CreatedAt,    \* second in which each row is created (datetime('now'))
  Dispatchers,  \* concurrent activations of dispatchPending
  Pollers,      \* the dispatchers that the setInterval timer starts
  Admins,       \* concurrent activations of reprocessDlqBatch
  Processes,    \* operating system processes
  Graceful,     \* processes that run onModuleDestroy before they exit
  Host,         \* process in which a dispatcher or an admin request runs
  MaxRetries,   \* OutboxEvent.maxRetries
  Limit,        \* batch size of a dispatch
  Max,          \* bound on each kind of disturbance, see Kinds
  NoEvent,
  NoRow

(* Bounded disturbances: a database call that fails, a process that dies,  *)
(* a shutdown that waits in vain, a deployment, a DLQ reprocess request.   *)
Kinds == {"fault", "crash", "timeout", "deploy", "reprocess"}

When == {"passed", "today", "later"}

DlqRow == [id : Nat, source : Events, failedAttemptCount : Nat]

ASSUME DispatchersAssumption == IsFiniteSet(Dispatchers)
ASSUME EventsAssumption == NoEvent \notin Events /\ CreatedAt \in [Events -> Nat]
ASSUME RowAssumption == NoRow \notin DlqRow
ASSUME HostAssumption == Host \in [Dispatchers \cup Admins -> Processes]
ASSUME PollersAssumption == Pollers \subseteq Dispatchers /\ Graceful \subseteq Processes
ASSUME BoundsAssumption ==
  /\ MaxRetries \in Nat \ {0}
  /\ Limit \in Nat \ {0}
  /\ Max \in [Kinds -> Nat]
(* Only the worker installs shutdown hooks, and it has no admin routes. *)
ASSUME WorkerAssumption ==
  \A x \in Dispatchers \cup Admins : Host[x] \in Graceful => x \in Pollers

VARIABLES
  outbox,     \* table outbox_events
  dlq,        \* table dead_letter_events
  nextId,     \* identifier of the next DLQ row; identifiers are never reused
  pc,         \* where each dispatcher stands
  forced,     \* its force argument
  batch,      \* events it selected and has not tried yet
  claim,      \* event it is processing
  loaded,     \* retryCount of that event as findOne returned it
  targets,    \* DLQ ids an admin request has still to reprocess
  found,      \* DLQ row it has read and not yet restored
  life,       \* life of each process
  active,     \* activeDispatchCount of each process
  used,       \* disturbances so far
  succeeded,  \* history: successful consumptions of each event
  failures    \* history: failed attempts since it was last recorded or restored

tables == <<outbox, dlq, nextId>>
worker == <<pc, forced, batch, claim, loaded>>
admin  == <<targets, found>>
host   == <<life, active>>
history == <<succeeded, failures>>
vars == <<tables, worker, admin, host, used, history>>

Statuses == {"NONE", "PENDING", "PROCESSING", "PUBLISHED", "DEAD_LETTER"}
Row == [status : Statuses, retryCount : Nat, nextRetryAt : When]

Init ==
  /\ outbox = [e \in Events |-> [status |-> "NONE", retryCount |-> 0, nextRetryAt |-> "passed"]]
  /\ dlq = {}
  /\ nextId = 0
  /\ pc = [d \in Dispatchers |-> "idle"]
  /\ forced = [d \in Dispatchers |-> FALSE]
  /\ batch = [d \in Dispatchers |-> {}]
  /\ claim = [d \in Dispatchers |-> NoEvent]
  /\ loaded = [d \in Dispatchers |-> 0]
  /\ targets = [a \in Admins |-> {}]
  /\ found = [a \in Admins |-> NoRow]
  /\ life = [p \in Processes |-> "up"]
  /\ active = [p \in Processes |-> 0]
  /\ used = [k \in Kinds |-> 0]
  /\ succeeded = [e \in Events |-> 0]
  /\ failures = [e \in Events |-> 0]

Spend(k) ==
  /\ used[k] < Max[k]
  /\ used' = [used EXCEPT ![k] = @ + 1]

(***************************************************************************)
(* Rows.                                                                   *)
(***************************************************************************)
FreshRow == [status |-> "PENDING", retryCount |-> 0, nextRetryAt |-> "passed"]

(* An order service commits a row together with the change it announces. *)
Emit(e) ==
  /\ outbox[e].status = "NONE"
  /\ \A f \in Events : CreatedAt[f] < CreatedAt[e] => outbox[f].status # "NONE"
  /\ outbox' = [outbox EXCEPT ![e] = FreshRow]
  /\ UNCHANGED <<dlq, nextId, worker, admin, host, used, history>>

(* Time passes: "later" is an instant of a coming UTC day, "today" one that *)
(* is still ahead today, "passed" NULL or an instant that has come.         *)
TimePasses(e) ==
  /\ outbox[e].status = "PENDING"
  /\ \/ /\ outbox[e].nextRetryAt = "later"
        /\ outbox' = [outbox EXCEPT ![e].nextRetryAt = "today"]
     \/ /\ outbox[e].nextRetryAt = "today"
        /\ outbox' = [outbox EXCEPT ![e].nextRetryAt = "passed"]
  /\ UNCHANGED <<dlq, nextId, worker, admin, host, used, history>>

(* The query compares the stored text "YYYY-MM-DD hh:mm:ss.mmm" with the    *)
(* ISO text "YYYY-MM-DDThh:mm:ss.mmmZ": on the same day the blank sorts     *)
(* before the T, whatever the times are.                                    *)
TextNotAfterNow(when) == when # "later"

(* Faulty variant of Selectable: only rows whose nextRetryAt is NULL. *)
SelectableIfNull(force) ==
  {e \in Events : outbox[e].status = "PENDING" /\ (force \/ outbox[e].retryCount = 0)}

Selectable(force) ==
  {e \in Events : /\ outbox[e].status = "PENDING"
                  /\ force \/ TextNotAfterNow(outbox[e].nextRetryAt)}

Oldest(e, S) == \A f \in S : CreatedAt[e] <= CreatedAt[f]

(* The Limit oldest; rows created in the same second come in any order. *)
Batches(force) ==
  LET rows == Selectable(force)
      size == IF Cardinality(rows) < Limit THEN Cardinality(rows) ELSE Limit
  IN  {B \in SUBSET rows : Cardinality(B) = size /\ \A e \in B : Oldest(e, rows \ B)}

(***************************************************************************)
(* A dispatch.                                                             *)
(***************************************************************************)
(* Faulty variants of Start and Finish: not counted, no finally clause. *)
StartUncounted(p)  == UNCHANGED active
FinishUncounted(p) == UNCHANGED active

Start(p)  == active' = [active EXCEPT ![p] = @ + 1]
Finish(p) == active' = [active EXCEPT ![p] = @ - 1]

(* Faulty variant of DispatchPending: shuttingDown is not looked at. *)
DispatchWhileDraining(d, force) ==
  /\ pc[d] = "idle"
  /\ life[Host[d]] # "down"
  /\ d \in Pollers => ~force
  /\ pc' = [pc EXCEPT ![d] = "select"]
  /\ forced' = [forced EXCEPT ![d] = force]
  /\ Start(Host[d])
  /\ UNCHANGED <<tables, batch, claim, loaded, admin, life, used, history>>

DispatchPending(d, force) ==
  /\ pc[d] = "idle"
  /\ life[Host[d]] = "up"
  /\ d \in Pollers => ~force
  /\ pc' = [pc EXCEPT ![d] = "select"]
  /\ forced' = [forced EXCEPT ![d] = force]
  /\ Start(Host[d])
  /\ UNCHANGED <<tables, batch, claim, loaded, admin, life, used, history>>

SelectBatch(d) ==
  /\ pc[d] = "select"
  /\ \E B \in Batches(forced[d]) : batch' = [batch EXCEPT ![d] = B]
  /\ pc' = [pc EXCEPT ![d] = "loop"]
  /\ UNCHANGED <<tables, forced, claim, loaded, admin, host, used, history>>

(* Faulty variant of Claimable: the row is found by its id alone. *)
ClaimableById(e) == outbox[e].status # "NONE"

(* WHERE clause of the claiming UPDATE. *)
Claimable(e) == outbox[e].status = "PENDING"

Claim(d) ==
  /\ pc[d] = "loop"
  /\ \E e \in batch[d] :
       /\ Oldest(e, batch[d])
       /\ Claimable(e)
       /\ outbox' = [outbox EXCEPT ![e].status = "PROCESSING"]
       /\ claim' = [claim EXCEPT ![d] = e]
       /\ batch' = [batch EXCEPT ![d] = @ \ {e}]
  /\ pc' = [pc EXCEPT ![d] = "claimed"]
  /\ UNCHANGED <<dlq, nextId, forced, loaded, admin, host, used, history>>

ClaimMiss(d) ==
  /\ pc[d] = "loop"
  /\ \E e \in batch[d] :
       /\ Oldest(e, batch[d])
       /\ ~Claimable(e)
       /\ batch' = [batch EXCEPT ![d] = @ \ {e}]
  /\ UNCHANGED <<tables, pc, forced, claim, loaded, admin, host, used, history>>

LoadEvent(d) ==
  /\ pc[d] = "claimed"
  /\ loaded' = [loaded EXCEPT ![d] = outbox[claim[d]].retryCount]
  /\ pc' = [pc EXCEPT ![d] = "consuming"]
  /\ UNCHANGED <<tables, forced, batch, claim, admin, host, used, history>>

ConsumeOk(d) ==
  /\ pc[d] = "consuming"
  /\ pc' = [pc EXCEPT ![d] = "consumed"]
  /\ succeeded' = [succeeded EXCEPT ![claim[d]] = @ + 1]
  /\ UNCHANGED <<tables, forced, batch, claim, loaded, admin, host, used, failures>>

(* Faulty variant of AttemptFails: the error is swallowed. *)
AttemptSwallowed(d) ==
  /\ pc' = [pc EXCEPT ![d] = "loop"]
  /\ UNCHANGED failures

(* The attempt failed: control reaches the catch clause. *)
AttemptFails(d) ==
  /\ pc' = [pc EXCEPT ![d] = "failed"]
  /\ failures' = [failures EXCEPT ![claim[d]] = @ + 1]

ConsumeError(d) ==
  /\ pc[d] = "consuming"
  /\ AttemptFails(d)
  /\ UNCHANGED <<tables, forced, batch, claim, loaded, admin, host, used, succeeded>>

(* The dispatcher is done with its event and returns to the loop. *)
Release(d) ==
  /\ pc' = [pc EXCEPT ![d] = "loop"]
  /\ claim' = [claim EXCEPT ![d] = NoEvent]
  /\ loaded' = [loaded EXCEPT ![d] = 0]

SavePublished(d) ==
  /\ pc[d] = "consumed"
  /\ outbox' = [outbox EXCEPT ![claim[d]].status = "PUBLISHED",
                              ![claim[d]].retryCount = loaded[d]]
  /\ Release(d)
  /\ UNCHANGED <<dlq, nextId, forced, batch, admin, host, used, history>>

(* The save of a consumed event fails inside the try: a failed attempt. *)
SavePublishedFault(d) ==
  /\ pc[d] = "consumed"
  /\ Spend("fault")
  /\ AttemptFails(d)
  /\ UNCHANGED <<tables, forced, batch, claim, loaded, admin, host, succeeded>>

(* Faulty variant of RetriesLeft: one attempt too many. *)
RetriesLeftOrEqual(count) == count <= MaxRetries

RetriesLeft(count) == count < MaxRetries

SaveRetry(d) ==
  /\ pc[d] = "failed"
  /\ RetriesLeft(loaded[d] + 1)
  /\ \E when \in When :
       outbox' = [outbox EXCEPT ![claim[d]] =
                   [status |-> "PENDING", retryCount |-> loaded[d] + 1, nextRetryAt |-> when]]
  /\ Release(d)
  /\ UNCHANGED <<dlq, nextId, forced, batch, admin, host, used, history>>

DeadLetter(d) ==
  /\ pc[d] = "failed"
  /\ ~RetriesLeft(loaded[d] + 1)
  /\ outbox' = [outbox EXCEPT ![claim[d]] =
                 [status |-> "DEAD_LETTER", retryCount |-> loaded[d] + 1, nextRetryAt |-> "passed"]]
  /\ dlq' = dlq \cup {[id |-> nextId, source |-> claim[d], failedAttemptCount |-> loaded[d] + 1]}
  /\ nextId' = nextId + 1
  /\ Release(d)
  /\ UNCHANGED <<forced, batch, admin, host, used, history>>

DispatchDone(d) ==
  /\ pc[d] = "loop"
  /\ batch[d] = {}
  /\ pc' = [pc EXCEPT ![d] = "idle"]
  /\ forced' = [forced EXCEPT ![d] = FALSE]
  /\ Finish(Host[d])
  /\ UNCHANGED <<tables, batch, claim, loaded, admin, life, used, history>>

(***************************************************************************)
(* The end of a process: everything it was doing stops where it stands.    *)
(***************************************************************************)
Kill(p) ==
  LET stopped(x) == Host[x] = p
  IN  /\ life' = [life EXCEPT ![p] = "down"]
      /\ active' = [active EXCEPT ![p] = 0]
      /\ pc' = [d \in Dispatchers |-> IF stopped(d) THEN "idle" ELSE pc[d]]
      /\ forced' = [d \in Dispatchers |-> IF stopped(d) THEN FALSE ELSE forced[d]]
      /\ batch' = [d \in Dispatchers |-> IF stopped(d) THEN {} ELSE batch[d]]
      /\ claim' = [d \in Dispatchers |-> IF stopped(d) THEN NoEvent ELSE claim[d]]
      /\ loaded' = [d \in Dispatchers |-> IF stopped(d) THEN 0 ELSE loaded[d]]
      /\ targets' = [a \in Admins |-> IF stopped(a) THEN {} ELSE targets[a]]
      /\ found' = [a \in Admins |-> IF stopped(a) THEN NoRow ELSE found[a]]

(* A database call outside the try throws out of dispatchPending: its      *)
(* finally clause counts the dispatch down and the rest of the batch is    *)
(* dropped.  An HTTP call answers 500.                                     *)
Abort(d) ==
  /\ d \notin Pollers
  /\ \/ pc[d] \in {"select", "claimed", "failed"}
     \/ pc[d] = "loop" /\ batch[d] # {}
  /\ Spend("fault")
  /\ pc' = [pc EXCEPT ![d] = "idle"]
  /\ forced' = [forced EXCEPT ![d] = FALSE]
  /\ batch' = [batch EXCEPT ![d] = {}]
  /\ claim' = [claim EXCEPT ![d] = NoEvent]
  /\ loaded' = [loaded EXCEPT ![d] = 0]
  /\ Finish(Host[d])
  /\ UNCHANGED <<tables, admin, life, history>>

(* The promise of a timer's dispatch is dropped ("void"), so the same      *)
(* failure is an unhandled rejection, which ends the process.              *)
AbortPoller(d) ==
  /\ d \in Pollers
  /\ \/ pc[d] \in {"select", "claimed", "failed"}
     \/ pc[d] = "loop" /\ batch[d] # {}
  /\ Spend("fault")
  /\ Kill(Host[d])
  /\ UNCHANGED <<tables, history>>

Crash(p) ==
  /\ life[p] # "down"
  /\ Spend("crash")
  /\ Kill(p)
  /\ UNCHANGED <<tables, history>>

Shutdown(p) ==
  /\ p \in Graceful
  /\ life[p] = "up"
  /\ Spend("deploy")
  /\ life' = [life EXCEPT ![p] = "draining"]
  /\ UNCHANGED <<tables, worker, admin, active, history>>

(* Faulty variant of Quiet: the shutdown does not wait. *)
QuietAtOnce(p) == life[p] = "draining"

(* The loop of onModuleDestroy ends because no dispatch is active. *)
Quiet(p) == active[p] = 0

Drained(p) ==
  /\ life[p] = "draining"
  /\ Quiet(p)
  /\ Kill(p)
  /\ UNCHANGED <<tables, used, history>>

(* It ends because ten seconds have passed, and the process exits. *)
ShutdownTimeout(p) ==
  /\ life[p] = "draining"
  /\ ~Quiet(p)
  /\ Spend("timeout")
  /\ Kill(p)
  /\ UNCHANGED <<tables, history>>

Restart(p) ==
  /\ life[p] = "down"
  /\ life' = [life EXCEPT ![p] = "up"]
  /\ UNCHANGED <<tables, worker, admin, active, used, history>>

(***************************************************************************)
(* Reprocessing of the dead letter queue.                                  *)
(***************************************************************************)
ReprocessBatch(a) ==
  /\ targets[a] = {} /\ found[a] = NoRow
  /\ life[Host[a]] # "down"
  /\ Spend("reprocess")
  /\ \E rows \in SUBSET dlq \ {{}} :
       targets' = [targets EXCEPT ![a] = {row.id : row \in rows}]
  /\ UNCHANGED <<tables, worker, found, host, history>>

(* reprocessDlqEvent reads the row before its transaction. *)
FindDlq(a) ==
  /\ found[a] = NoRow
  /\ \E row \in dlq :
       /\ row.id \in targets[a]
       /\ found' = [found EXCEPT ![a] = row]
       /\ targets' = [targets EXCEPT ![a] = @ \ {row.id}]
  /\ UNCHANGED <<tables, worker, host, used, history>>

(* The row is gone, which throws; the batch goes on with the next. *)
MissDlq(a) ==
  /\ found[a] = NoRow
  /\ \E i \in targets[a] :
       /\ \A row \in dlq : row.id # i
       /\ targets' = [targets EXCEPT ![a] = @ \ {i}]
  /\ UNCHANGED <<tables, worker, found, host, used, history>>

(* So it does when the read fails. *)
FindFault(a) ==
  /\ found[a] = NoRow
  /\ Spend("fault")
  /\ \E i \in targets[a] : targets' = [targets EXCEPT ![a] = @ \ {i}]
  /\ UNCHANGED <<tables, worker, found, host, history>>

(* Faulty variants of RestoreEvent: the DLQ row stays, or goes alone. *)
RestoreEventOnly(a) ==
  /\ found[a] # NoRow
  /\ outbox' = [outbox EXCEPT ![found[a].source] = FreshRow]
  /\ failures' = [failures EXCEPT ![found[a].source] = 0]
  /\ found' = [found EXCEPT ![a] = NoRow]
  /\ UNCHANGED <<dlq, nextId, worker, targets, host, used, succeeded>>

RemoveDlqOnly(a) ==
  /\ found[a] # NoRow
  /\ dlq' = dlq \ {found[a]}
  /\ found' = [found EXCEPT ![a] = NoRow]
  /\ UNCHANGED <<outbox, nextId, worker, targets, host, used, history>>

(* The transaction: the outbox row starts over and the DLQ row is removed. *)
RestoreEvent(a) ==
  /\ found[a] # NoRow
  /\ outbox' = [outbox EXCEPT ![found[a].source] = FreshRow]
  /\ dlq' = dlq \ {found[a]}
  /\ failures' = [failures EXCEPT ![found[a].source] = 0]
  /\ found' = [found EXCEPT ![a] = NoRow]
  /\ UNCHANGED <<nextId, worker, targets, host, used, succeeded>>

RestoreFault(a) ==
  /\ found[a] # NoRow
  /\ Spend("fault")
  /\ found' = [found EXCEPT ![a] = NoRow]
  /\ UNCHANGED <<tables, worker, targets, host, history>>

DispatchStep(d) ==
  \/ SelectBatch(d)
  \/ Claim(d)
  \/ ClaimMiss(d)
  \/ LoadEvent(d)
  \/ ConsumeOk(d)
  \/ ConsumeError(d)
  \/ SavePublished(d)
  \/ SaveRetry(d)
  \/ DeadLetter(d)
  \/ DispatchDone(d)

ReprocessStep(a) == FindDlq(a) \/ MissDlq(a) \/ RestoreEvent(a)

Next ==
  \/ \E e \in Events : Emit(e) \/ TimePasses(e)
  \/ \E d \in Dispatchers :
       \/ \E force \in BOOLEAN : DispatchPending(d, force)
       \/ DispatchStep(d)
       \/ SavePublishedFault(d)
       \/ Abort(d)
       \/ AbortPoller(d)
  \/ \E a \in Admins :
       \/ ReprocessBatch(a)
       \/ ReprocessStep(a)
       \/ FindFault(a)
       \/ RestoreFault(a)
  \/ \E p \in Processes :
       \/ Crash(p)
       \/ Shutdown(p)
       \/ Drained(p)
       \/ ShutdownTimeout(p)
       \/ Restart(p)

Spec == Init /\ [][Next]_vars

(* A started dispatch or request goes on, the timer of a live process      *)
(* fires, time passes, a drained process exits and a supervisor restarts   *)
(* what is down.  No HTTP dispatch, deployment or request need ever come.  *)
Fairness ==
  /\ \A d \in Dispatchers : WF_vars(DispatchStep(d))
  /\ \A d \in Pollers : WF_vars(DispatchPending(d, FALSE))
  /\ \A a \in Admins : WF_vars(ReprocessStep(a))
  /\ \A e \in Events : WF_vars(TimePasses(e))
  /\ \A p \in Processes : WF_vars(Drained(p)) /\ WF_vars(Restart(p))

FairSpec == Spec /\ Fairness
------------------------------------------------------------------------------
(***************************************************************************)
(* Properties.                                                             *)
(***************************************************************************)
Pcs == {"idle", "select", "loop", "claimed", "consuming", "consumed", "failed"}

Holding == {"claimed", "consuming", "consumed", "failed"}

(* The shape of the tables, of each activation and of each process. *)
TypeOK ==
  /\ outbox \in [Events -> Row]
  /\ dlq \subseteq DlqRow
  /\ nextId \in Nat
  /\ pc \in [Dispatchers -> Pcs]
  /\ forced \in [Dispatchers -> BOOLEAN]
  /\ batch \in [Dispatchers -> SUBSET Events]
  /\ claim \in [Dispatchers -> Events \cup {NoEvent}]
  /\ \A d \in Dispatchers : claim[d] \in Events <=> pc[d] \in Holding
  /\ loaded \in [Dispatchers -> Nat]
  /\ targets \in [Admins -> SUBSET Nat]
  /\ found \in [Admins -> DlqRow \cup {NoRow}]
  /\ life \in [Processes -> {"up", "draining", "down"}]
  /\ active \in [Processes -> Int]
  /\ used \in [Kinds -> Nat]
  /\ succeeded \in [Events -> Nat]
  /\ failures \in [Events -> Nat]

(* No dispatch works on e and none ever will: only PENDING rows are selected. *)
Orphaned(e) ==
  /\ outbox[e].status = "PROCESSING"
  /\ \A d \in Dispatchers : ~(pc[d] \in Holding /\ claim[d] = e)

Busy(p) == {d \in Dispatchers : Host[d] = p /\ pc[d] # "idle"}

(* No two dispatches, in whatever processes, ever process the same event,  *)
(* and an event being processed is PROCESSING in the table: the claiming   *)
(* UPDATE in processSingleEvent.                                           *)
ExclusiveClaim ==
  /\ \A d1, d2 \in Dispatchers :
       pc[d1] \in Holding /\ claim[d1] = claim[d2] => d1 = d2
  /\ \A d \in Dispatchers :
       pc[d] \in Holding => outbox[claim[d]].status = "PROCESSING"

(* A DEAD_LETTER event is listed in the DLQ, so that it can be reprocessed, *)
(* however many operators reprocess at once: the restoring transaction     *)
(* removes a DLQ row only together with the event's DEAD_LETTER status.    *)
BuriedIsListed ==
  \A e \in Events :
    outbox[e].status = "DEAD_LETTER" => \E row \in dlq : row.source = e

(* The DLQ holds exactly one row for each DEAD_LETTER event and none for   *)
(* any other, through retries, aborts and reprocessing by an operator: the *)
(* two transactions that write both tables.                                *)
DlqMatchesOutbox ==
  /\ \A row \in dlq : outbox[row.source].status = "DEAD_LETTER"
  /\ \A r1, r2 \in dlq : r1.source = r2.source => r1 = r2
  /\ BuriedIsListed

(* retryCount counts every failed attempt, also one whose consumption      *)
(* succeeded and whose save failed; an event is buried after exactly       *)
(* MaxRetries of them and the DLQ row says so.  processSingleEvent and     *)
(* README.md have this boundary; BuriedWhenExceeded is another.            *)
RetryAccounting ==
  /\ \A e \in Events :
       /\ failures[e] <= MaxRetries
       /\ outbox[e].status \in {"PENDING", "DEAD_LETTER"} => outbox[e].retryCount = failures[e]
       /\ outbox[e].status = "PENDING" => RetriesLeft(failures[e])
  /\ \A row \in dlq : row.failedAttemptCount = MaxRetries

(* An event is consumed successfully at most once more than database calls *)
(* have failed, and a PUBLISHED event was: only the save that follows the  *)
(* consumption can make the processor consume again what succeeded.        *)
ConsumedOnce ==
  \A e \in Events :
    /\ succeeded[e] <= 1 + used["fault"]
    /\ outbox[e].status = "PUBLISHED" => succeeded[e] > 0

(* A PROCESSING row has a dispatch that works on it, unless a database call *)
(* failed, a process died or a shutdown gave up waiting: a deployment that  *)
(* drains in time leaves no event behind (onModuleDestroy).                 *)
NoSilentOrphan ==
  used["fault"] + used["crash"] + used["timeout"] = 0 =>
    \A e \in Events : ~Orphaned(e)

(* activeDispatchCount is the number of dispatches in progress, whichever  *)
(* way they end, and none outlives its process.                            *)
ActiveCountsDispatches ==
  \A p \in Processes :
    /\ active[p] = Cardinality(Busy(p))
    /\ life[p] = "down" => Busy(p) = {}

(* Without force, no dispatch claims an event before its nextRetryAt. *)
BackoffHonoured ==
  [][\A d \in Dispatchers, e \in Events :
       ~forced[d] /\ claim[d] = NoEvent /\ claim'[d] = e =>
         outbox[e].nextRetryAt = "passed"]_vars

(* One request at a time may reprocess the DLQ. *)
SingleAdmin == \A a, b \in Admins : a = b

(* An event is buried when the number of its failed attempts exceeds       *)
(* maxRetries, the number of retries allowed: what docs/architecture.md    *)
(* says of processSingleEvent, and a comment in it.                        *)
BuriedWhenExceeded ==
  \A e \in Events : outbox[e].status = "DEAD_LETTER" => failures[e] > MaxRetries

(* A process that is told to stop does so, although its timer has fired    *)
(* again and again and its polls overlap: once shuttingDown is set no new  *)
(* dispatch starts, and those in progress end.                             *)
DrainEnds == \A p \in Processes : life[p] = "draining" ~> life[p] = "down"

(* What a row says of its event in the terms of EventLifecycle. *)
StageOf(status) ==
  CASE status = "NONE" -> "absent"
    [] status = "PENDING" -> "queued"
    [] status = "PROCESSING" -> "inflight"
    [] status = "PUBLISHED" -> "delivered"
    [] status = "DEAD_LETTER" -> "buried"

stage == [e \in Events |-> StageOf(outbox[e].status)]

Lifecycle == INSTANCE EventLifecycle WITH Events <- Events, stage <- stage

(* Every event goes through the stages of EventLifecycle and no others. *)
ImplementsLifecycle == Lifecycle!Spec

(* Every recorded event is eventually published or dead-lettered. *)
EventsSettle == Lifecycle!EventuallySettled

(* Every recorded event is eventually published, dead-lettered or orphaned; *)
(* with NoSilentOrphan, it settles unless something was killed or failed.  *)
EventsSettleOrOrphaned ==
  \A e \in Events :
    stage[e] \in {"queued", "inflight"} ~> Lifecycle!Settled(e) \/ Orphaned(e)
=============================================================================
