---------------------------- MODULE OrdersService ----------------------------
(***************************************************************************)
(* The creation of orders: concurrent requests of clients that send again  *)
(* what failed, the idempotency key, identifiers that may collide, the     *)
(* unique constraints of the tables, and the seed script, which writes an  *)
(* order of its own without a transaction.                                 *)
(*                                                                         *)
(* A step is what runs between two awaits.  save() of TypeORM looks for a  *)
(* row with the entity's id and updates it, or else inserts one; a         *)
(* transaction writes in one step.                                         *)
(***************************************************************************)
EXTENDS Integers, Sequences, FiniteSets

CONSTANTS
  Clients,      \* each has one order to place
  Seeder,       \* the seed script
  Key,          \* Idempotency-Key header of each client; the key of the script
  NoKey,        \* no header; NULL in the database
  Blank,        \* an empty header: no key for the code, a value for the database
  Processes,
  Host,         \* process that serves a client, or that runs the script
  SequenceSize,
  Random,       \* the random bits that end an identifier of a process
  MaxAttempts,  \* maxIdGenerationAttempts
  MaxClock,     \* bound on the clock, but for a generator that waits
  MaxSends,     \* bound on requests
  MaxDisturbed, \* bound on disturbances
  NoId

Creators == Clients \cup {Seeder}

(* A database call fails, a process dies, the clock is set back: of each   *)
(* kind one at most.                                                       *)
Kinds == {"fault", "crash", "back"}

ASSUME SequenceSizeAssumption == SequenceSize \in Nat \ {0}
ASSUME SeederAssumption == \A c \in Clients : c # Seeder /\ Key[c] # Key[Seeder]
ASSUME SeedKeyAssumption == Key[Seeder] \notin {NoKey, Blank}
ASSUME HostAssumption == Host \in [Creators -> Processes]
(* The random bits of the script are never those of a process that serves *)
(* clients: two draws of 62 bits.                                         *)
ASSUME RandomAssumption == \A c \in Clients : Random[Host[c]] \cap Random[Host[Seeder]] = {}
ASSUME BoundsAssumption == MaxAttempts \in Nat \ {0} /\ MaxDisturbed \in Nat

VARIABLES
  clock, wentBack, lastTimestampMs, sequence, waiting,  \* see UuidV7
  orders,      \* table orders
  dependents,  \* ids of orders that have a row in each other table
  pc,          \* where each creator stands
  id,          \* identifier it has generated
  attempt,     \* its attempt to find an unused one
  seen,        \* save() has found a row with that identifier
  answer,      \* order a client was answered with
  sent,        \* requests so far
  disturbed    \* disturbances so far

generator == <<clock, wentBack, lastTimestampMs, sequence, waiting>>
tables    == <<orders, dependents>>
request   == <<pc, id, attempt, seen>>
budget    == <<sent, disturbed>>
vars == <<generator, tables, request, answer, budget>>

Uuid == INSTANCE UuidV7

Tables == {"payments", "inventory_reservations", "shipments", "outbox_events"}

Init ==
  /\ Uuid!Init
  /\ orders = {}
  /\ dependents = [t \in Tables |-> {}]
  /\ pc = [c \in Creators |-> "idle"]
  /\ id = [c \in Creators |-> NoId]
  /\ attempt = [c \in Creators |-> 1]
  /\ seen = [c \in Creators |-> FALSE]
  /\ answer = [c \in Creators |-> NoId]
  /\ sent = 0
  /\ disturbed = {}

Disturb(k) ==
  /\ k \notin disturbed
  /\ Cardinality(disturbed) < MaxDisturbed
  /\ disturbed' = disturbed \cup {k}
  /\ UNCHANGED sent

At(c, where) == pc[c] = where /\ Host[c] \notin waiting

Goto(c, where) == pc' = [pc EXCEPT ![c] = where]

(* if (idempotencyKey): an empty key is none. *)
Keyed(c) == Key[c] \notin {NoKey, Blank}

Registered(k) == {row \in orders : row.key = k}

(* The request ends, or the script and its process. *)
End(c) ==
  /\ Goto(c, "idle")
  /\ id' = [id EXCEPT ![c] = NoId]
  /\ attempt' = [attempt EXCEPT ![c] = 1]
  /\ seen' = [seen EXCEPT ![c] = FALSE]
  /\ IF c = Seeder THEN Uuid!Restart(Host[c]) ELSE UNCHANGED generator
  /\ UNCHANGED tables

Answer(c, orderId) ==
  /\ End(c)
  /\ answer' = [answer EXCEPT ![c] = orderId]
  /\ UNCHANGED budget

Refuse(c) == End(c) /\ UNCHANGED <<answer, budget>>

(***************************************************************************)
(* POST orders, and the beginning of the script.                           *)
(***************************************************************************)
(* The generator has issued, and random bits complete the identifier. *)
Identify(c) ==
  /\ \E bits \in Random[Host[c]] :
       id' = [id EXCEPT ![c] = [timestampMs |-> lastTimestampMs'[Host[c]],
                                seq |-> sequence'[Host[c]], random |-> bits]]
  /\ Goto(c, "save")

generateUuidV7(c) ==
  \/ (Uuid!IssueInNewMs(Host[c]) \/ Uuid!IssueInSameMs(Host[c])) /\ Identify(c)
  \/ Uuid!Overrun(Host[c]) /\ Goto(c, "wait") /\ UNCHANGED id

(* A client that has no answer sends, and sends again. *)
Send(c) ==
  /\ At(c, "idle")
  /\ answer[c] = NoId
  /\ sent < MaxSends
  /\ sent' = sent + 1
  /\ IF Keyed(c)
       THEN Goto(c, "lookup") /\ UNCHANGED <<generator, id>>
       ELSE generateUuidV7(c)
  /\ UNCHANGED <<tables, attempt, seen, answer, disturbed>>

(* findOne by key, before anything else or after a violation of the key. *)
FindExisting(c) ==
  /\ At(c, "lookup") \/ At(c, "reread")
  /\ \E row \in Registered(Key[c]) : Answer(c, row.id)

FindNothing(c) ==
  /\ At(c, "lookup")
  /\ Registered(Key[c]) = {}
  /\ generateUuidV7(c)
  /\ UNCHANGED <<tables, attempt, seen, answer, budget>>

EndWait(c) ==
  /\ pc[c] = "wait"
  /\ Uuid!IssueAfterWait(Host[c])
  /\ Identify(c)
  /\ UNCHANGED <<tables, attempt, seen, answer, budget>>

(***************************************************************************)
(* The transaction of create.                                              *)
(***************************************************************************)
Row(c) == [id |-> id[c], key |-> Key[c], by |-> c]

(* save(order) begins by looking for a row with its id. *)
SaveOrder(c) ==
  /\ c \in Clients
  /\ At(c, "save")
  /\ seen' = [seen EXCEPT ![c] = \E row \in orders : row.id = id[c]]
  /\ Goto(c, "write")
  /\ UNCHANGED <<generator, tables, id, attempt, answer, budget>>

(* UNIQUE constraint failed: orders.id, for a row that came in meanwhile. *)
IdTaken(c) == ~seen[c] /\ \E row \in orders : row.id = id[c]

(* Faulty variant of KeyTaken: no unique constraint on the key. *)
KeyNotUnique(c) == FALSE

(* UNIQUE constraint failed: orders.idempotencyKey.  NULL is never equal. *)
KeyTaken(c) ==
  /\ Key[c] # NoKey
  /\ \E row \in Registered(Key[c]) : row.id # id[c] \/ ~seen[c]

(* Faulty variant of OrderIdTaken: no unique constraint on orderId. *)
OrderIdNotUnique(c) == FALSE

(* UNIQUE constraint failed: payments.orderId. *)
OrderIdTaken(c) == id[c] \in dependents["payments"]

Commit(c) ==
  /\ At(c, "write")
  /\ ~IdTaken(c) /\ ~KeyTaken(c) /\ ~OrderIdTaken(c)
  /\ orders' = {row \in orders : row.id # id[c]} \cup {Row(c)}
  /\ dependents' = [t \in Tables |-> dependents[t] \cup {id[c]}]
  /\ Goto(c, "committed")
  /\ UNCHANGED <<generator, id, attempt, seen, answer, budget>>

(* Faulty variant of IdempotencyViolation: no second look. *)
ViolationRethrown(c) ==
  /\ At(c, "write")
  /\ KeyTaken(c)
  /\ Refuse(c)

(* Another identifier, while there are attempts left. *)
Retry(c) ==
  IF attempt[c] < MaxAttempts
    THEN /\ generateUuidV7(c)
         /\ attempt' = [attempt EXCEPT ![c] = @ + 1]
         /\ UNCHANGED <<tables, seen, answer, budget>>
    ELSE Refuse(c)

(* Which of two violations SQLite reports is not the code's to say.  The    *)
(* text of this one, "orders.idempotencyKey", contains "orders.id", so that *)
(* a request whose key is empty goes on as after a violation of the id.     *)
IdempotencyViolation(c) ==
  /\ At(c, "write")
  /\ KeyTaken(c)
  /\ IF Keyed(c)
       THEN /\ Goto(c, "reread")
            /\ UNCHANGED <<generator, tables, id, attempt, seen, answer, budget>>
       ELSE Retry(c)

OrderIdViolation(c) ==
  /\ At(c, "write")
  /\ IdTaken(c)
  /\ Retry(c)

(* Any other error is thrown again. *)
OtherViolation(c) ==
  /\ At(c, "write")
  /\ ~IdTaken(c) /\ ~KeyTaken(c) /\ OrderIdTaken(c)
  /\ Refuse(c)

FindById(c) ==
  /\ At(c, "committed")
  /\ Answer(c, id[c])

(***************************************************************************)
(* The seed script: every row on its own.                                  *)
(***************************************************************************)
(* Faulty variant of NextTable: the event before the rows it is about. *)
EventFirst(t) ==
  CASE t = "orders" -> "outbox_events"
    [] t = "outbox_events" -> "payments"
    [] t = "payments" -> "inventory_reservations"
    [] t = "inventory_reservations" -> "shipments"
    [] t = "shipments" -> "seeded"

NextTable(t) ==
  CASE t = "orders" -> "payments"
    [] t = "payments" -> "inventory_reservations"
    [] t = "inventory_reservations" -> "shipments"
    [] t = "shipments" -> "outbox_events"
    [] t = "outbox_events" -> "seeded"

SeedOrder ==
  /\ At(Seeder, "save")
  /\ orders' = orders \cup {Row(Seeder)}
  /\ Goto(Seeder, NextTable("orders"))
  /\ UNCHANGED <<generator, dependents, id, attempt, seen, answer, budget>>

SeedDependent ==
  /\ pc[Seeder] \in Tables
  /\ dependents' = [dependents EXCEPT ![pc[Seeder]] = @ \cup {id[Seeder]}]
  /\ Goto(Seeder, NextTable(pc[Seeder]))
  /\ UNCHANGED <<generator, orders, id, attempt, seen, answer, budget>>

SeedDone ==
  /\ At(Seeder, "seeded")
  /\ Answer(Seeder, id[Seeder])

(***************************************************************************)
(* Failures, and the clock.                                                *)
(***************************************************************************)
(* A database call fails: 500, whether or not the order is committed. *)
Fault(c) ==
  /\ c \in Clients
  /\ \E at \in {"lookup", "save", "write", "reread", "committed"} : At(c, at)
  /\ Disturb("fault")
  /\ End(c)
  /\ UNCHANGED answer

(* The script dies of a failed call as well: its rejection is not handled. *)
Crash(p) ==
  LET stopped(c) == Host[c] = p
  IN  /\ \E c \in Creators : stopped(c) /\ pc[c] # "idle"
      /\ Disturb("crash")
      /\ Uuid!Restart(p)
      /\ pc' = [c \in Creators |-> IF stopped(c) THEN "idle" ELSE pc[c]]
      /\ id' = [c \in Creators |-> IF stopped(c) THEN NoId ELSE id[c]]
      /\ attempt' = [c \in Creators |-> IF stopped(c) THEN 1 ELSE attempt[c]]
      /\ seen' = [c \in Creators |-> IF stopped(c) THEN FALSE ELSE seen[c]]
      /\ UNCHANGED <<tables, answer>>

Tick ==
  /\ clock < MaxClock \/ \E p \in waiting : clock <= lastTimestampMs[p]
  /\ Uuid!SetClock(clock + 1)
  /\ UNCHANGED <<tables, request, answer, budget>>

ClockBack ==
  /\ Disturb("back")
  /\ \E t \in 0 .. clock - 1 : Uuid!SetClock(t)
  /\ UNCHANGED <<tables, request, answer>>

Step(c) ==
  \/ FindExisting(c)
  \/ FindNothing(c)
  \/ EndWait(c)
  \/ SaveOrder(c)
  \/ Commit(c)
  \/ IdempotencyViolation(c)
  \/ OrderIdViolation(c)
  \/ OtherViolation(c)
  \/ FindById(c)

SeedStep == SeedOrder \/ SeedDependent \/ SeedDone

Next ==
  \/ \E c \in Creators : Send(c) \/ Step(c) \/ Fault(c)
  \/ SeedStep
  \/ \E p \in Processes : Crash(p)
  \/ Tick
  \/ ClockBack

Spec == Init /\ [][Next]_vars

(* A request that was sent goes on and time passes; the script need not. *)
FairSpec ==
  /\ Spec
  /\ \A c \in Clients : WF_vars(Step(c))
  /\ WF_vars(Tick)
------------------------------------------------------------------------------
(***************************************************************************)
(* Properties.                                                             *)
(***************************************************************************)
Ids == [timestampMs : Nat, seq : 0 .. SequenceSize - 1, random : UNION {Random[p] : p \in Processes}]

Pcs ==
  {"idle", "lookup", "wait", "save", "write", "reread", "committed", "seeded"} \cup Tables

(* The tables, the requests and the generators. *)
TypeOK ==
  /\ Uuid!TypeOK
  /\ orders \subseteq [id : Ids, key : {Key[c] : c \in Creators}, by : Creators]
  /\ dependents \in [Tables -> SUBSET {row.id : row \in orders}]
  /\ pc \in [Creators -> Pcs]
  /\ id \in [Creators -> Ids \cup {NoId}]
  /\ attempt \in [Creators -> 1 .. MaxAttempts]
  /\ seen \in [Creators -> BOOLEAN]
  /\ answer \in [Creators -> Ids \cup {NoId}]
  /\ sent \in Nat
  /\ disturbed \subseteq Kinds

(* One idempotency key, one order, and one answer to all who sent it, with *)
(* however many requests at once, retries after failures and crashes: the  *)
(* look before the transaction, the constraint on orders.idempotencyKey    *)
(* and the second look of create.                                          *)
Idempotent ==
  /\ \A r1, r2 \in orders : r1.key = r2.key /\ r1.key # NoKey => r1 = r2
  /\ \A c, d \in Clients :
       Keyed(c) /\ Key[c] = Key[d] /\ NoId \notin {answer[c], answer[d]} => answer[c] = answer[d]

(* An order whose creation is announced has all its rows, and every order  *)
(* is announced but for one the seed script left behind: the transaction   *)
(* of create, and the order in which the script saves.                     *)
AnnouncedIsComplete ==
  \A row \in orders :
    /\ row.id \in dependents["outbox_events"] => \A t \in Tables : row.id \in dependents[t]
    /\ \/ row.id \in dependents["outbox_events"]
       \/ row.by = Seeder /\ (pc[Seeder] # "idle" \/ "crash" \in disturbed)

(* Without a step back of the clock the generators' identifiers increase. *)
IdsIncrease == Uuid!IdsIncrease

Registry ==
  INSTANCE OrderRegistry WITH Clients <- Creators, book <- orders, answer <- answer

(* Orders are registered once and never change, not even when identifiers  *)
(* collide, where save() updates the order that has the id: the constraint *)
(* on payments.orderId undoes that.                                        *)
ImplementsRegistry == Registry!Spec

(* Every request ends, also when a call fails, the process dies or the     *)
(* clock is set back under the busy loop, and one with a key ends with an  *)
(* order unless there was such a disturbance: neither the loop, nor the    *)
(* attempts to find an identifier, nor a lost race for the key stand in    *)
(* its way (create and nextTimestampAndSequence).                          *)
RequestsAnswered ==
  /\ [][\A c \in Clients :
          Keyed(c) /\ pc[c] # "idle" /\ pc'[c] = "idle" => answer'[c] # NoId \/ disturbed' # {}]_vars
  /\ \A c \in Clients : []<>(pc[c] = "idle")
=============================================================================
