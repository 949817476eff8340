------------------------- MODULE OrdersRegistryProofs -------------------------
(***************************************************************************)
(* Proofs about the tables and the answers of OrdersService, for every     *)
(* number of clients and processes, every assignment of keys to clients,   *)
(* every budget of requests, faults and crashes: orders have the rows they *)
(* are announced with, keys stand for one order, and orders are registered *)
(* as OrderRegistry promises.                                              *)
(***************************************************************************)
EXTENDS OrdersServiceProofs

(***************************************************************************)
(* The inductive invariant.                                                *)
(***************************************************************************)
Made(c, i) == i \in Ids /\ i.random \in Random[Host[c]]

(* Whose a row is, and that a client's comes with all others. *)
RowOf(row, deps) ==
  /\ row.key = Key[row.by]
  /\ Made(row.by, row.id)
  /\ row.by \in Clients => \A t \in Tables : row.id \in deps[t]

(* The constraints on orders.id and orders.idempotencyKey. *)
Unique(rows) ==
  \A r1, r2 \in rows :
    r1.id = r2.id \/ (r1.key = r2.key /\ r1.key # NoKey) => r1 = r2

(* The tables the script has been through when it stands at one. *)
Through ==
  [payments               |-> {},
   inventory_reservations |-> {"payments"},
   shipments              |-> {"payments", "inventory_reservations"},
   outbox_events          |-> {"payments", "inventory_reservations", "shipments"},
   seeded                 |-> Tables]

ScriptRun(rows, deps, where, i) ==
  /\ where \in {"wait", "save"} => \A row \in rows : row.key # Key[Seeder]
  /\ where \in DOMAIN Through =>
       /\ [id |-> i, key |-> Key[Seeder], by |-> Seeder] \in rows
       /\ \A t \in Through[where] : i \in deps[t]

(* Every row but the one of a script at work, or of one that crashed, is   *)
(* announced, and what is announced is complete.                           *)
Announced(row, deps, where, crashed) ==
  /\ row.id \in deps["outbox_events"] => \A t \in Tables : row.id \in deps[t]
  /\ row.id \in deps["outbox_events"] \/ (row.by = Seeder /\ (where \in Tables \/ crashed))

(* What a request has in hand where it stands. *)
Request(c, where, i, rows) ==
  /\ where \in {"save", "write", "reread", "committed"} => Made(c, i)
  /\ where \in {"lookup", "reread"} => Keyed(c)
  /\ where = "committed" => [id |-> i, key |-> Key[c], by |-> c] \in rows
  /\ where \in {"write", "reread", "committed"} => c \in Clients
  /\ where \in DOMAIN Through => c = Seeder

(* A client is answered with an order it is entitled to, and then rests. *)
Answered(c, where, orderId, rows) ==
  orderId # NoId =>
    /\ where = "idle"
    /\ \E row \in rows : row.id = orderId /\ row.key = Key[c] /\ (row.key = NoKey => row.by = c)

RowsInv ==
  /\ \A row \in orders : RowOf(row, dependents)
  /\ Unique(orders)
  /\ ScriptRun(orders, dependents, pc[Seeder], id[Seeder])
  /\ \A row \in orders : Announced(row, dependents, pc[Seeder], "crash" \in disturbed)
  /\ \A c \in Creators : Request(c, pc[c], id[c], orders)
  /\ \A c \in Creators : Answered(c, pc[c], answer[c], orders)

RequestTypes ==
  /\ pc \in [Creators -> Pcs]
  /\ id \in [Creators -> Ids \cup {NoId}]
  /\ attempt \in [Creators -> 1 .. MaxAttempts]
  /\ seen \in [Creators -> BOOLEAN]
  /\ answer \in [Creators -> Ids \cup {NoId}]

BudgetTypes == sent \in Nat /\ disturbed \subseteq Kinds

TableTypes ==
  /\ orders \subseteq [id : Ids, key : {Key[c] : c \in Creators}, by : Creators]
  /\ dependents \in [Tables -> SUBSET {row.id : row \in orders}]

Types == RequestTypes /\ BudgetTypes /\ TableTypes

Inv == GeneratorInv /\ Types /\ RowsInv

LEMMA TypesSuffice == GeneratorInv /\ Types => TypeOK
BY DEF GeneratorInv, Types, RequestTypes, BudgetTypes, TableTypes, TypeOK
------------------------------------------------------------------------------
(***************************************************************************)
(* The pieces of the actions.                                              *)
(***************************************************************************)
LEMMA HostIsProcess == \A c \in Creators : Host[c] \in Processes
BY HostAssumption

LEMMA SeederIsCreator == Seeder \in Creators /\ Clients \subseteq Creators /\ Seeder \notin Clients
BY SeederAssumption DEF Creators

LEMMA StandsApart == DOMAIN Through = Tables \cup {"seeded"}
BY DEF Through, Tables

(* An identifier of one creator is none of the script's. *)
LEMMA ScriptIdsApart ==
  \A c \in Clients : \A i : ~(Made(c, i) /\ Made(Seeder, i))
BY RandomAssumption DEF Made

(* What is issued is the reading of the clock. *)
LEMMA IssueStamps ==
  ASSUME Uuid!TypeOK, Uuid!TypeOK', NEW p \in Processes, Uuid!Issues(p)
  PROVE  lastTimestampMs'[p] \in Nat /\ sequence'[p] \in 0 .. SequenceSize - 1
<1>1. lastTimestampMs'[p] = clock
  BY DEF Uuid!TypeOK, Uuid!Issues, Uuid!IssueInNewMs, Uuid!IssueInSameMs, Uuid!IssueAfterWait, Uuid!Issue
<1> QED
  BY <1>1 DEF Uuid!TypeOK, Uuid!Sequences12

LEMMA IdentifyMakes ==
  ASSUME Uuid!TypeOK, Uuid!TypeOK', NEW c \in Creators, Uuid!Issues(Host[c]), Identify(c), RequestTypes
  PROVE  /\ pc' = [pc EXCEPT ![c] = "save"]
         /\ id' = [id EXCEPT ![c] = id'[c]]
         /\ Made(c, id'[c])
<1>1. PICK bits \in Random[Host[c]] :
        id' = [id EXCEPT ![c] = [timestampMs |-> lastTimestampMs'[Host[c]],
                                 seq |-> sequence'[Host[c]], random |-> bits]]
  BY DEF Identify
<1>2. id'[c] = [timestampMs |-> lastTimestampMs'[Host[c]], seq |-> sequence'[Host[c]], random |-> bits]
  BY <1>1 DEF RequestTypes
<1>3. bits \in UNION {Random[p] : p \in Processes}
  BY HostIsProcess
<1>4. id'[c] \in Ids
  BY <1>2, <1>3, HostIsProcess, IssueStamps DEF Ids
<1>5. id'[c].random \in Random[Host[c]]
  BY <1>2
<1>6. id' = [id EXCEPT ![c] = id'[c]]
  BY <1>1, <1>2
<1>7. pc' = [pc EXCEPT ![c] = "save"]
  BY DEF Identify, Goto
<1> QED
  BY <1>4, <1>5, <1>6, <1>7 DEF Made

(* A generator that issues leads to save(), one that waits keeps waiting. *)
LEMMA GenerateMakes ==
  ASSUME Uuid!TypeOK, Uuid!TypeOK', NEW c \in Creators, generateUuidV7(c), RequestTypes
  PROVE  \/ /\ pc' = [pc EXCEPT ![c] = "save"]
            /\ id' = [id EXCEPT ![c] = id'[c]]
            /\ Made(c, id'[c])
         \/ /\ pc' = [pc EXCEPT ![c] = "wait"]
            /\ id' = id
BY IdentifyMakes DEF generateUuidV7, Uuid!Issues, Goto

(* A request has only what is its own in hand. *)
LEMMA EndRests ==
  ASSUME NEW c \in Creators, End(c), RequestTypes
  PROVE  /\ pc' = [pc EXCEPT ![c] = "idle"]
         /\ id' = [id EXCEPT ![c] = NoId]
         /\ attempt' = [attempt EXCEPT ![c] = 1]
         /\ seen' = [seen EXCEPT ![c] = FALSE]
         /\ UNCHANGED tables
         /\ answer' \in [Creators -> Ids \cup {NoId}] => RequestTypes'
<1>1. 1 \in 1 .. MaxAttempts /\ "idle" \in Pcs
  BY BoundsAssumption DEF Pcs
<1>2. /\ pc' = [pc EXCEPT ![c] = "idle"]
      /\ id' = [id EXCEPT ![c] = NoId]
      /\ attempt' = [attempt EXCEPT ![c] = 1]
      /\ seen' = [seen EXCEPT ![c] = FALSE]
      /\ UNCHANGED tables
  BY DEF End, Goto
<1>3. pc' \in [Creators -> Pcs] /\ attempt' \in [Creators -> 1 .. MaxAttempts]
  BY <1>1, <1>2 DEF RequestTypes
<1>4. id' \in [Creators -> Ids \cup {NoId}] /\ seen' \in [Creators -> BOOLEAN]
  BY <1>2 DEF RequestTypes
<1> QED
  BY <1>2, <1>3, <1>4 DEF RequestTypes

(* What the invariant asks of a step that leaves the tables alone: that the *)
(* creator that takes it has in hand what it needs where it goes, and that  *)
(* it does not leave the script's rows half written.                        *)
LEMMA MoveKeepsRows ==
  ASSUME RowsInv, NEW c \in Creators, UNCHANGED tables, disturbed \subseteq disturbed',
         \A d \in Creators \ {c} : pc'[d] = pc[d] /\ id'[d] = id[d] /\ answer'[d] = answer[d],
         Request(c, pc'[c], id'[c], orders),
         Answered(c, pc'[c], answer'[c], orders),
         c = Seeder => pc[c] \notin Tables /\ ScriptRun(orders, dependents, pc'[c], id'[c])
  PROVE  RowsInv'
<1>1. \A d \in Creators : Request(d, pc'[d], id'[d], orders) /\ Answered(d, pc'[d], answer'[d], orders)
  BY DEF RowsInv
<1>2. ScriptRun(orders, dependents, pc'[Seeder], id'[Seeder])
  BY SeederIsCreator DEF RowsInv
<1>3. \A row \in orders : Announced(row, dependents, pc'[Seeder], "crash" \in disturbed')
  BY SeederIsCreator DEF RowsInv, Announced
<1>4. orders' = orders /\ dependents' = dependents
  BY DEF tables
<1> QED
  BY <1>1, <1>2, <1>3, <1>4 DEF RowsInv, Request, Answered, ScriptRun, Announced, RowOf, Unique, Made, Keyed, Ids

(* Nothing is asked of a creator at rest. *)
LEMMA AtRest ==
  ASSUME NEW c \in Creators, NEW i, NEW rows, NEW deps
  PROVE  Request(c, "idle", i, rows) /\ ScriptRun(rows, deps, "idle", i)
BY DEF Request, ScriptRun, Through

LEMMA BudgetNext == BudgetTypes /\ [Next]_vars => BudgetTypes' /\ disturbed \subseteq disturbed'
<1> SUFFICES ASSUME BudgetTypes, [Next]_vars PROVE BudgetTypes' /\ disturbed \subseteq disturbed'
  OBVIOUS
<1>1. UNCHANGED budget \/ (sent' = sent + 1 /\ disturbed' = disturbed) \/ (\E k \in Kinds : Disturb(k))
  <2>1. ASSUME NEW c \in Creators, Step(c) PROVE UNCHANGED budget
    BY <2>1 DEF Step, FindExisting, FindNothing, EndWait, SaveOrder, Commit, IdempotencyViolation,
                OrderIdViolation, OtherViolation, FindById, Retry, Refuse, Answer
  <2>2. SeedStep => UNCHANGED budget
    BY DEF SeedStep, SeedOrder, SeedDependent, SeedDone, Answer
  <2> QED
    BY <2>1, <2>2 DEF Next, vars, budget, Send, Fault, Crash, Tick, ClockBack, Kinds
<1> QED
  BY <1>1 DEF BudgetTypes, budget, Disturb
------------------------------------------------------------------------------
(***************************************************************************)
(* The steps that leave the tables alone.                                  *)
(***************************************************************************)
LEMMA FindExistingKeepsInv ==
  ASSUME Inv, NEW c \in Creators, FindExisting(c)
  PROVE  RequestTypes' /\ RowsInv'
<1> USE DEF Inv, Types
<1>1. PICK row \in Registered(Key[c]) : Answer(c, row.id)
  BY DEF FindExisting
<1>2. row \in orders /\ row.key = Key[c] /\ row.id \in Ids
  BY <1>1 DEF Registered, TableTypes
<1>3. End(c) /\ answer' = [answer EXCEPT ![c] = row.id] /\ UNCHANGED budget
  BY <1>1 DEF Answer
<1>4. pc[c] \in {"lookup", "reread"}
  BY DEF FindExisting, At
<1>5. Keyed(c)
  BY <1>4 DEF RowsInv, Request
<1>6. RequestTypes'
  BY <1>2, <1>3, EndRests DEF RequestTypes
<1>7. Answered(c, pc'[c], answer'[c], orders)
  BY <1>2, <1>3, <1>5, EndRests DEF RequestTypes, Answered, Keyed
<1>8. RowsInv'
  BY <1>3, <1>4, <1>7, EndRests, AtRest, MoveKeepsRows DEF RequestTypes, Tables, budget
<1> QED
  BY <1>6, <1>8

LEMMA RefuseKeepsInv ==
  ASSUME Inv, NEW c \in Creators, End(c), UNCHANGED answer, disturbed \subseteq disturbed', c \in Clients
  PROVE  RequestTypes' /\ RowsInv'
<1> USE DEF Inv, Types
<1>1. RequestTypes'
  BY EndRests DEF RequestTypes
<1>2. Answered(c, pc'[c], answer'[c], orders)
  BY EndRests DEF RequestTypes, RowsInv, Answered
<1>3. RowsInv'
  BY <1>2, EndRests, AtRest, SeederIsCreator, MoveKeepsRows DEF RequestTypes
<1> QED
  BY <1>1, <1>3

(* An identifier is generated for a request that is entitled to one. *)
LEMMA GenerateKeepsInv ==
  ASSUME Inv, NEW c \in Creators,
         \/ pc' = [pc EXCEPT ![c] = "save"] /\ id' = [id EXCEPT ![c] = id'[c]] /\ Made(c, id'[c])
         \/ pc' = [pc EXCEPT ![c] = "wait"] /\ id' = id,
         UNCHANGED <<tables, seen, answer>>, disturbed \subseteq disturbed',
         attempt' \in [Creators -> 1 .. MaxAttempts],
         answer[c] = NoId,
         c = Seeder => pc[c] \notin Tables /\ Registered(Key[Seeder]) = {}
  PROVE  RequestTypes' /\ RowsInv'
<1> USE DEF Inv, Types
<1>1. pc' \in [Creators -> Pcs] /\ id' \in [Creators -> Ids \cup {NoId}]
  BY DEF RequestTypes, Pcs, Made
<1>2. RequestTypes'
  BY <1>1 DEF RequestTypes
<1>3. pc'[c] \in {"save", "wait"} /\ (pc'[c] = "save" => Made(c, id'[c]))
  BY DEF RequestTypes
<1>4. Request(c, pc'[c], id'[c], orders)
  BY <1>3 DEF Request, Through
<1>5. c = Seeder => ScriptRun(orders, dependents, pc'[c], id'[c])
  BY <1>3 DEF ScriptRun, Through, Registered
<1>6. Answered(c, pc'[c], answer'[c], orders)
  BY DEF Answered
<1>7. \A d \in Creators \ {c} : pc'[d] = pc[d] /\ id'[d] = id[d] /\ answer'[d] = answer[d]
  BY DEF RequestTypes
<1>8. RowsInv'
  BY <1>4, <1>5, <1>6, <1>7, MoveKeepsRows
<1> QED
  BY <1>2, <1>8

LEMMA SendKeepsInv ==
  ASSUME Inv, GeneratorInv', NEW c \in Creators, Send(c)
  PROVE  RequestTypes' /\ RowsInv'
<1> USE DEF Inv, Types
<1>1. pc[c] = "idle" /\ answer[c] = NoId /\ UNCHANGED <<tables, attempt, seen, answer, disturbed>>
  BY DEF Send, At
<1>2. CASE Keyed(c)
  <2>1. pc' = [pc EXCEPT ![c] = "lookup"] /\ id' = id
    BY <1>2 DEF Send, Goto
  <2>2. RequestTypes'
    BY <1>1, <2>1 DEF RequestTypes, Pcs
  <2>3. Request(c, pc'[c], id'[c], orders) /\ ScriptRun(orders, dependents, pc'[c], id'[c])
    BY <1>2, <2>1 DEF RequestTypes, Request, ScriptRun, Through
  <2>4. Answered(c, pc'[c], answer'[c], orders)
    BY <1>1 DEF Answered
  <2>5. RowsInv'
    BY <1>1, <2>1, <2>3, <2>4, MoveKeepsRows DEF RequestTypes, Tables
  <2> QED
    BY <2>2, <2>5
<1>3. CASE ~Keyed(c)
  <2>1. c # Seeder
    BY <1>3, SeedKeyAssumption DEF Keyed
  <2>2. generateUuidV7(c)
    BY <1>3 DEF Send
  <2> QED
    BY <1>1, <2>1, <2>2, GenerateMakes, GenerateKeepsInv DEF GeneratorInv, RequestTypes
<1> QED
  BY <1>2, <1>3

LEMMA FindNothingKeepsInv ==
  ASSUME Inv, GeneratorInv', NEW c \in Creators, FindNothing(c)
  PROVE  RequestTypes' /\ RowsInv'
<1> USE DEF Inv, Types
<1>1. /\ pc[c] = "lookup" /\ Registered(Key[c]) = {} /\ generateUuidV7(c)
      /\ UNCHANGED <<tables, attempt, seen, answer, disturbed>>
  BY DEF FindNothing, At, budget
<1>2. answer[c] = NoId
  BY <1>1 DEF RowsInv, Answered
<1> QED
  BY <1>1, <1>2, GenerateMakes, GenerateKeepsInv DEF GeneratorInv, RequestTypes, Tables

LEMMA EndWaitKeepsInv ==
  ASSUME Inv, GeneratorInv', NEW c \in Creators, EndWait(c)
  PROVE  RequestTypes' /\ RowsInv'
<1> USE DEF Inv, Types
<1>1. /\ pc[c] = "wait" /\ Uuid!Issues(Host[c]) /\ Identify(c)
      /\ UNCHANGED <<tables, attempt, seen, answer, disturbed>>
  BY DEF EndWait, budget, Uuid!Issues
<1>2. answer[c] = NoId
  BY <1>1 DEF RowsInv, Answered
<1>3. c = Seeder => Registered(Key[Seeder]) = {}
  BY <1>1 DEF RowsInv, ScriptRun, Registered
<1> QED
  BY <1>1, <1>2, <1>3, IdentifyMakes, GenerateKeepsInv DEF GeneratorInv, RequestTypes, Tables

LEMMA SaveOrderKeepsInv ==
  ASSUME Inv, NEW c \in Creators, SaveOrder(c)
  PROVE  RequestTypes' /\ RowsInv'
<1> USE DEF Inv, Types
<1>1. /\ c \in Clients /\ pc[c] = "save" /\ pc' = [pc EXCEPT ![c] = "write"]
      /\ UNCHANGED <<tables, id, attempt, answer, disturbed>>
  BY DEF SaveOrder, At, Goto, budget
<1>2. seen' \in [Creators -> BOOLEAN]
  BY DEF SaveOrder, RequestTypes
<1>3. RequestTypes'
  BY <1>1, <1>2 DEF RequestTypes, Pcs
<1>4. Request(c, pc'[c], id'[c], orders) /\ Answered(c, pc'[c], answer'[c], orders)
  BY <1>1 DEF RequestTypes, RowsInv, Request, Answered, Through
<1>5. RowsInv'
  BY <1>1, <1>4, SeederIsCreator, MoveKeepsRows DEF RequestTypes
<1> QED
  BY <1>3, <1>5

(* A violated constraint leads to another identifier, or ends the request. *)
LEMMA RetryKeepsInv ==
  ASSUME Inv, GeneratorInv', NEW c \in Creators, pc[c] = "write", Retry(c)
  PROVE  RequestTypes' /\ RowsInv'
<1> USE DEF Inv, Types
<1>1. c \in Clients /\ c # Seeder /\ answer[c] = NoId
  BY SeederIsCreator DEF RowsInv, Request, Answered
<1>2. CASE attempt[c] < MaxAttempts
  <2>1. /\ generateUuidV7(c) /\ UNCHANGED <<tables, seen, answer, disturbed>>
        /\ attempt' = [attempt EXCEPT ![c] = attempt[c] + 1]
    BY <1>2 DEF Retry, budget
  <2>2. attempt[c] + 1 \in 1 .. MaxAttempts
    BY <1>2, BoundsAssumption DEF RequestTypes
  <2>3. attempt' \in [Creators -> 1 .. MaxAttempts]
    BY <2>1, <2>2 DEF RequestTypes
  <2> QED
    BY <1>1, <2>1, <2>3, GenerateMakes, GenerateKeepsInv DEF GeneratorInv
<1>3. CASE ~(attempt[c] < MaxAttempts)
  BY <1>1, <1>3, RefuseKeepsInv DEF Retry, Refuse, budget
<1> QED
  BY <1>2, <1>3

LEMMA ViolationsKeepInv ==
  ASSUME Inv, GeneratorInv', NEW c \in Creators,
         IdempotencyViolation(c) \/ OrderIdViolation(c) \/ OtherViolation(c)
  PROVE  RequestTypes' /\ RowsInv'
<1> USE DEF Inv, Types
<1>1. pc[c] = "write"
  BY DEF IdempotencyViolation, OrderIdViolation, OtherViolation, At
<1>2. c \in Clients /\ c # Seeder
  BY <1>1, SeederIsCreator DEF RowsInv, Request
<1>3. CASE Retry(c)
  BY <1>1, <1>3, RetryKeepsInv
<1>4. CASE Refuse(c)
  BY <1>2, <1>4, RefuseKeepsInv DEF Refuse, budget
<1>5. CASE /\ Keyed(c) /\ Goto(c, "reread")
           /\ UNCHANGED <<generator, tables, id, attempt, seen, answer, budget>>
  <2>1. pc' = [pc EXCEPT ![c] = "reread"] /\ UNCHANGED <<tables, id, attempt, seen, answer, disturbed>>
    BY <1>5 DEF Goto, budget
  <2>2. RequestTypes'
    BY <2>1 DEF RequestTypes, Pcs
  <2>3. Request(c, pc'[c], id'[c], orders) /\ Answered(c, pc'[c], answer'[c], orders)
    BY <1>1, <1>2, <1>5, <2>1 DEF RequestTypes, RowsInv, Request, Answered, Through
  <2>4. RowsInv'
    BY <1>2, <2>1, <2>3, MoveKeepsRows DEF RequestTypes
  <2> QED
    BY <2>2, <2>4
<1> QED
  BY <1>3, <1>4, <1>5 DEF IdempotencyViolation, OrderIdViolation, OtherViolation

(* A client and the script are answered with the row they have written. *)
LEMMA OwnAnswerKeepsInv ==
  ASSUME Inv, NEW c \in Creators, FindById(c) \/ (c = Seeder /\ SeedDone)
  PROVE  RequestTypes' /\ RowsInv'
<1> USE DEF Inv, Types
<1>1. End(c) /\ answer' = [answer EXCEPT ![c] = id[c]] /\ disturbed' = disturbed
  BY DEF FindById, SeedDone, Answer, budget
<1>2. pc[c] \in {"committed", "seeded"}
  BY DEF FindById, SeedDone, At
<1>3. Row(c) \in orders
  BY <1>2 DEF FindById, SeedDone, RowsInv, Request, ScriptRun, Through, Row
<1>4. RequestTypes'
  BY <1>1, EndRests DEF RequestTypes
<1>5. Answered(c, pc'[c], answer'[c], orders)
  BY <1>1, <1>3, EndRests DEF RequestTypes, Answered, Row
<1>6. RowsInv'
  BY <1>1, <1>2, <1>5, EndRests, AtRest, MoveKeepsRows DEF RequestTypes, Tables
<1> QED
  BY <1>4, <1>6
------------------------------------------------------------------------------
(***************************************************************************)
(* The steps that write.                                                   *)
(***************************************************************************)
(* What the constraints leave of save(): an identifier nobody has, and a   *)
(* key nobody has registered.                                              *)
LEMMA CommitIsNew ==
  ASSUME Inv, NEW c \in Creators, Commit(c)
  PROVE  /\ c \in Clients /\ c # Seeder /\ answer[c] = NoId /\ Made(c, id[c])
         /\ \A row \in orders : row.id # id[c]
         /\ Key[c] # NoKey => Registered(Key[c]) = {}
         /\ orders' = orders \cup {Row(c)}
<1> USE DEF Inv, Types
<1>1. pc[c] = "write" /\ ~KeyTaken(c) /\ id[c] \notin dependents["payments"]
  BY DEF Commit, At, OrderIdTaken
<1>2. c \in Clients /\ c # Seeder /\ answer[c] = NoId /\ Made(c, id[c])
  BY <1>1, SeederIsCreator DEF RowsInv, Request, Answered
<1>3. ASSUME NEW row \in orders, row.id = id[c] PROVE FALSE
  <2>1. RowOf(row, dependents) /\ row.by \in Creators
    BY DEF RowsInv, TableTypes
  <2>2. CASE row.by \in Clients
    BY <1>1, <1>3, <2>1, <2>2 DEF RowOf, Tables
  <2>3. CASE row.by = Seeder
    BY <1>2, <1>3, <2>1, <2>3, ScriptIdsApart DEF RowOf
  <2> QED
    BY <2>1, <2>2, <2>3 DEF Creators
<1>4. Key[c] # NoKey => Registered(Key[c]) = {}
  BY <1>1, <1>3 DEF KeyTaken, Registered
<1>5. orders' = orders \cup {Row(c)}
  BY <1>3 DEF Commit
<1> QED
  BY <1>2, <1>3, <1>4, <1>5

LEMMA RowTyped ==
  ASSUME NEW c \in Creators, id[c] \in Ids
  PROVE  Row(c) \in [id : Ids, key : {Key[d] : d \in Creators}, by : Creators]
BY DEF Row

LEMMA CommitKeepsInv ==
  ASSUME Inv, NEW c \in Creators, Commit(c)
  PROVE  RequestTypes' /\ TableTypes' /\ RowsInv'
<1> USE DEF Inv, Types
<1>1. /\ c \in Clients /\ c # Seeder /\ answer[c] = NoId /\ Made(c, id[c])
      /\ \A row \in orders : row.id # id[c]
      /\ Key[c] # NoKey => Registered(Key[c]) = {}
      /\ orders' = orders \cup {Row(c)}
  BY CommitIsNew
<1>2. /\ dependents' = [t \in Tables |-> dependents[t] \cup {id[c]}]
      /\ pc' = [pc EXCEPT ![c] = "committed"]
      /\ UNCHANGED <<id, attempt, seen, answer, disturbed>>
  BY DEF Commit, Goto, budget
<1>3. Row(c).id = id[c] /\ Row(c).key = Key[c] /\ Row(c).by = c
  BY DEF Row
<1>4. RequestTypes'
  BY <1>2 DEF RequestTypes, Pcs
<1>5. TableTypes'
  <2>1. orders' \subseteq [id : Ids, key : {Key[d] : d \in Creators}, by : Creators]
    BY <1>1, RowTyped DEF TableTypes, Made
  <2>2. \A t \in Tables : dependents'[t] \subseteq {row.id : row \in orders'}
    BY <1>1, <1>2, <1>3 DEF TableTypes
  <2> QED
    BY <1>2, <2>1, <2>2 DEF TableTypes
<1>6. \A t \in Tables : dependents'[t] = dependents[t] \cup {id[c]}
  BY <1>2
<1>7. \A row \in orders' : RowOf(row, dependents')
  BY <1>1, <1>3, <1>6 DEF RowsInv, RowOf
<1>8. Unique(orders')
  BY <1>1, <1>3 DEF RowsInv, Unique, Registered
<1>9. pc'[Seeder] = pc[Seeder] /\ id'[Seeder] = id[Seeder]
  BY <1>1, <1>2, SeederIsCreator DEF RequestTypes
<1>10. ScriptRun(orders', dependents', pc'[Seeder], id'[Seeder])
  <2>1. Key[c] # Key[Seeder]
    BY <1>1, SeederAssumption
  <2>2. \A where \in DOMAIN Through : Through[where] \subseteq Tables
    BY DEF Through, Tables
  <2> QED
    BY <1>1, <1>3, <1>6, <1>9, <2>1, <2>2 DEF RowsInv, ScriptRun
<1>11. \A row \in orders' : Announced(row, dependents', pc'[Seeder], "crash" \in disturbed')
  <2>1. "outbox_events" \in Tables
    BY DEF Tables
  <2> QED
    BY <1>1, <1>2, <1>3, <1>6, <1>9, <2>1 DEF RowsInv, Announced
<1>12. \A d \in Creators : Request(d, pc'[d], id'[d], orders')
  <2>1. Request(c, "committed", id[c], orders')
    BY <1>1 DEF Request, Through, Row
  <2>2. \A d \in Creators \ {c} : Request(d, pc[d], id[d], orders')
    BY <1>1 DEF RowsInv, Request
  <2> QED
    BY <1>2, <2>1, <2>2 DEF RequestTypes
<1>13. \A d \in Creators : Answered(d, pc'[d], answer'[d], orders')
  BY <1>1, <1>2 DEF RowsInv, Answered, RequestTypes
<1> QED
  BY <1>4, <1>5, <1>7, <1>8, <1>10, <1>11, <1>12, <1>13
     DEF RowsInv, RowOf, Unique, ScriptRun, Announced, Request, Answered, Made, Keyed, Ids

(* The script registers its key once, under an identifier of its own. *)
LEMMA SeedIsNew ==
  ASSUME Inv, SeedOrder
  PROVE  /\ Made(Seeder, id[Seeder]) /\ answer[Seeder] = NoId
         /\ \A row \in orders : row.id # id[Seeder] /\ row.key # Key[Seeder] /\ row.by # Seeder
<1> USE DEF Inv, Types
<1>1. pc[Seeder] = "save"
  BY DEF SeedOrder, At
<1>2. Made(Seeder, id[Seeder]) /\ answer[Seeder] = NoId
  BY <1>1, SeederIsCreator DEF RowsInv, Request, Answered
<1>3. \A row \in orders : row.key # Key[Seeder]
  BY <1>1 DEF RowsInv, ScriptRun
<1>4. ASSUME NEW row \in orders PROVE row.by \in Clients /\ Made(row.by, row.id)
  BY <1>3, SeederIsCreator DEF RowsInv, RowOf, TableTypes, Creators
<1> QED
  BY <1>2, <1>3, <1>4, ScriptIdsApart, SeederIsCreator

LEMMA SeedOrderKeepsInv ==
  ASSUME Inv, SeedOrder
  PROVE  RequestTypes' /\ TableTypes' /\ RowsInv'
<1> USE DEF Inv, Types
<1>1. /\ Made(Seeder, id[Seeder]) /\ answer[Seeder] = NoId
      /\ \A row \in orders : row.id # id[Seeder] /\ row.key # Key[Seeder] /\ row.by # Seeder
  BY SeedIsNew
<1>2. /\ orders' = orders \cup {Row(Seeder)}
      /\ pc' = [pc EXCEPT ![Seeder] = "payments"]
      /\ UNCHANGED <<dependents, id, attempt, seen, answer, disturbed>>
  BY DEF SeedOrder, Goto, NextTable, budget
<1>3. Row(Seeder).id = id[Seeder] /\ Row(Seeder).key = Key[Seeder] /\ Row(Seeder).by = Seeder
  BY DEF Row
<1>4. RequestTypes'
  BY <1>2 DEF RequestTypes, Pcs, Tables
<1>5. TableTypes'
  <2>1. orders' \subseteq [id : Ids, key : {Key[d] : d \in Creators}, by : Creators]
    BY <1>1, <1>2, RowTyped, SeederIsCreator DEF TableTypes, Made
  <2> QED
    BY <1>2, <2>1 DEF TableTypes
<1>6. pc'[Seeder] = "payments" /\ \A d \in Creators \ {Seeder} : pc'[d] = pc[d]
  BY <1>2, SeederIsCreator DEF RequestTypes
<1>7. \A row \in orders' : RowOf(row, dependents)
  BY <1>1, <1>2, <1>3, SeederIsCreator DEF RowsInv, RowOf
<1>8. Unique(orders')
  BY <1>1, <1>2, <1>3 DEF RowsInv, Unique
<1>9. ScriptRun(orders', dependents, "payments", id[Seeder])
  BY <1>2 DEF ScriptRun, Through, Row
<1>10. \A row \in orders' : Announced(row, dependents, "payments", "crash" \in disturbed)
  <2>1. id[Seeder] \notin dependents["outbox_events"]
    BY <1>1 DEF TableTypes, Tables
  <2>2. \A row \in orders : row.id \in dependents["outbox_events"] \/ row.by = Seeder
    BY DEF RowsInv, Announced
  <2>3. "payments" \in Tables
    BY DEF Tables
  <2> QED
    BY <1>1, <1>2, <1>3, <2>1, <2>2, <2>3 DEF RowsInv, Announced
<1>11. \A d \in Creators : Request(d, pc'[d], id[d], orders')
  <2>1. Request(Seeder, "payments", id[Seeder], orders')
    BY DEF Request
  <2>2. \A d \in Creators \ {Seeder} : Request(d, pc[d], id[d], orders')
    BY <1>2 DEF RowsInv, Request
  <2> QED
    BY <1>6, <2>1, <2>2
<1>12. \A d \in Creators : Answered(d, pc'[d], answer[d], orders')
  BY <1>1, <1>2, <1>6 DEF RowsInv, Answered
<1> QED
  BY <1>2, <1>4, <1>5, <1>6, <1>7, <1>8, <1>9, <1>10, <1>11, <1>12
     DEF RowsInv, RowOf, Unique, ScriptRun, Announced, Request, Answered, Made, Keyed, Ids

(* The order of the script's tables: the event comes last. *)
LEMMA NextTableFollows ==
  ASSUME NEW t \in Tables
  PROVE  /\ NextTable(t) \in DOMAIN Through /\ NextTable(t) \in Pcs
         /\ Through[NextTable(t)] = Through[t] \cup {t}
         /\ t = "outbox_events" => NextTable(t) = "seeded" /\ Through[NextTable(t)] = Tables
         /\ t # "outbox_events" => NextTable(t) \in Tables
BY DEF Tables, Through, NextTable, Pcs

LEMMA SeedDependentKeepsInv ==
  ASSUME Inv, SeedDependent
  PROVE  RequestTypes' /\ TableTypes' /\ RowsInv'
<1> USE DEF Inv, Types
<1> DEFINE t == pc[Seeder]
           i == id[Seeder]
<1>1. /\ t \in Tables
      /\ dependents' = [dependents EXCEPT ![t] = dependents[t] \cup {i}]
      /\ pc' = [pc EXCEPT ![Seeder] = NextTable(t)]
      /\ UNCHANGED <<orders, id, attempt, seen, answer, disturbed>>
  BY DEF SeedDependent, Goto, budget
<1>2. \A u \in Tables : dependents'[u] = IF u = t THEN dependents[u] \cup {i} ELSE dependents[u]
  BY <1>1 DEF TableTypes
<1>3. Row(Seeder) \in orders /\ \A u \in Through[t] : i \in dependents[u]
  BY <1>1, StandsApart DEF RowsInv, ScriptRun, Row
<1>4. pc'[Seeder] = NextTable(t) /\ \A d \in Creators \ {Seeder} : pc'[d] = pc[d]
  BY <1>1, SeederIsCreator DEF RequestTypes
<1>5. RequestTypes'
  BY <1>1, NextTableFollows DEF RequestTypes
<1>6. TableTypes'
  <2>1. i \in {row.id : row \in orders}
    BY <1>3 DEF Row
  <2> QED
    BY <1>1, <2>1 DEF TableTypes
<1>7. \A row \in orders : RowOf(row, dependents')
  BY <1>2 DEF RowsInv, RowOf
<1>8. ScriptRun(orders, dependents', NextTable(t), i)
  <2>1. \A u \in Through[NextTable(t)] : u \in Tables /\ i \in dependents'[u]
    <3>1. \A w \in DOMAIN Through : Through[w] \subseteq Tables
      BY DEF Through, Tables
    <3> QED
      BY <1>1, <1>2, <1>3, <3>1, NextTableFollows
  <2>2. NextTable(t) \notin {"wait", "save"}
    BY <1>1 DEF NextTable, Tables
  <2> QED
    BY <1>3, <2>1, <2>2 DEF ScriptRun, Row
<1>9. \A row \in orders : Announced(row, dependents', NextTable(t), "crash" \in disturbed)
  <2>1. SUFFICES ASSUME NEW row \in orders
                 PROVE  Announced(row, dependents', NextTable(t), "crash" \in disturbed)
    OBVIOUS
  <2>2. row.by = Seeder => row.id = i
    BY <1>3, SeedKeyAssumption DEF RowsInv, Unique, RowOf, Row
  <2>3. "outbox_events" \in Tables
    BY DEF Tables
  <2>4. CASE t # "outbox_events"
    BY <1>1, <1>2, <2>3, <2>4, NextTableFollows DEF RowsInv, Announced
  <2>5. CASE t = "outbox_events"
    <3>1. \A u \in Tables : i \in dependents'[u]
      BY <1>1, <1>2, <1>3, <2>5, NextTableFollows
    <3>2. row.id \in dependents["outbox_events"] => \A u \in Tables : row.id \in dependents'[u]
      BY <1>2 DEF RowsInv, Announced
    <3>3. row.id \in dependents'["outbox_events"] => \A u \in Tables : row.id \in dependents'[u]
      BY <1>2, <2>3, <3>1, <3>2
    <3>4. row.id \in dependents'["outbox_events"]
      BY <1>2, <2>2, <2>3, <3>1 DEF RowsInv, Announced
    <3> QED
      BY <3>3, <3>4 DEF Announced
  <2> QED
    BY <2>4, <2>5
<1>10. \A d \in Creators : Request(d, pc'[d], id[d], orders)
  <2>1. Request(Seeder, NextTable(t), i, orders)
    BY <1>1 DEF Request, NextTable, Tables
  <2> QED
    BY <1>4, <2>1 DEF RowsInv
<1>11. \A d \in Creators : Answered(d, pc'[d], answer[d], orders)
  <2>1. t # "idle"
    BY <1>1 DEF Tables
  <2> QED
    BY <1>4, <2>1, SeederIsCreator DEF RowsInv, Answered
<1> HIDE DEF t, i
<1>12. RowsInv'
  BY <1>1, <1>4, <1>7, <1>8, <1>9, <1>10, <1>11
     DEF RowsInv, RowOf, Unique, ScriptRun, Announced, Request, Answered, Made, Keyed, Ids, t, i
<1> QED
  BY <1>5, <1>6, <1>12

(* A crash forgets the requests of a process and leaves the tables alone. *)
LEMMA CrashKeepsInv ==
  ASSUME Inv, NEW p \in Processes, Crash(p)
  PROVE  RequestTypes' /\ RowsInv'
<1> USE DEF Inv, Types
<1> DEFINE stopped(c) == Host[c] = p
<1>1. /\ pc' = [c \in Creators |-> IF stopped(c) THEN "idle" ELSE pc[c]]
      /\ id' = [c \in Creators |-> IF stopped(c) THEN NoId ELSE id[c]]
      /\ attempt' = [c \in Creators |-> IF stopped(c) THEN 1 ELSE attempt[c]]
      /\ seen' = [c \in Creators |-> IF stopped(c) THEN FALSE ELSE seen[c]]
      /\ UNCHANGED <<orders, dependents, answer>>
      /\ disturbed' = disturbed \cup {"crash"}
  BY DEF Crash, tables, Disturb
<1>2. \A c \in Creators : (pc'[c] = pc[c] /\ id'[c] = id[c]) \/ pc'[c] = "idle"
  BY <1>1
<1>3. RequestTypes'
  <2>1. 1 \in 1 .. MaxAttempts /\ "idle" \in Pcs
    BY BoundsAssumption DEF Pcs
  <2>2. pc' \in [Creators -> Pcs] /\ id' \in [Creators -> Ids \cup {NoId}]
    BY <1>1, <2>1 DEF RequestTypes
  <2>3. attempt' \in [Creators -> 1 .. MaxAttempts] /\ seen' \in [Creators -> BOOLEAN]
    BY <1>1, <2>1 DEF RequestTypes
  <2> QED
    BY <1>1, <2>2, <2>3 DEF RequestTypes
<1>4. \A c \in Creators : Request(c, pc'[c], id'[c], orders) /\ Answered(c, pc'[c], answer[c], orders)
  BY <1>2, AtRest DEF RowsInv, Answered
<1>5. ScriptRun(orders, dependents, pc'[Seeder], id'[Seeder])
  BY <1>2, AtRest, SeederIsCreator DEF RowsInv
<1>6. \A row \in orders : Announced(row, dependents, pc'[Seeder], "crash" \in disturbed')
  BY <1>1 DEF RowsInv, Announced
<1>7. RowsInv'
  BY <1>1, <1>4, <1>5, <1>6 DEF RowsInv, RowOf, Unique, ScriptRun, Announced, Request, Answered, Made, Keyed, Ids
<1> QED
  BY <1>3, <1>7

LEMMA IdleKeepsInv ==
  ASSUME Inv, UNCHANGED <<tables, request, answer>>, disturbed \subseteq disturbed'
  PROVE  RequestTypes' /\ RowsInv'
<1> USE DEF Inv, Types
<1>1. UNCHANGED <<orders, dependents, pc, id, attempt, seen, answer>>
  BY DEF tables, request
<1>2. RequestTypes'
  BY <1>1 DEF RequestTypes
<1>3. \A row \in orders : Announced(row, dependents, pc[Seeder], "crash" \in disturbed')
  BY DEF RowsInv, Announced
<1>4. RowsInv'
  BY <1>1, <1>3 DEF RowsInv, RowOf, Unique, ScriptRun, Announced, Request, Answered, Made, Keyed, Ids
<1> QED
  BY <1>2, <1>4
------------------------------------------------------------------------------
LEMMA InvInit == Init => Inv
<1> SUFFICES ASSUME Init PROVE Inv
  OBVIOUS
<1>1. GeneratorInv
  BY GeneratorInit DEF Init
<1>2. RequestTypes
  <2>1. 1 \in 1 .. MaxAttempts /\ "idle" \in Pcs
    BY BoundsAssumption DEF Pcs
  <2> QED
    BY <2>1 DEF Init, RequestTypes
<1>3. BudgetTypes
  BY DEF Init, BudgetTypes
<1>4. TableTypes
  BY DEF Init, TableTypes
<1>5. RowsInv
  <2>1. \A c \in Creators : Request(c, pc[c], id[c], orders) /\ Answered(c, pc[c], answer[c], orders)
    BY AtRest DEF Init, Answered
  <2>2. ScriptRun(orders, dependents, pc[Seeder], id[Seeder])
    BY AtRest, SeederIsCreator DEF Init
  <2> QED
    BY <2>1, <2>2 DEF Init, RowsInv, Unique
<1> QED
  BY <1>1, <1>2, <1>3, <1>4, <1>5 DEF Inv, Types

LEMMA TablesMove ==
  ASSUME Inv, UNCHANGED tables
  PROVE  TableTypes'
BY DEF Inv, Types, TableTypes, tables, Ids

LEMMA InvNext == Inv /\ [Next]_vars => Inv'
<1> SUFFICES ASSUME Inv, [Next]_vars PROVE Inv'
  OBVIOUS
<1>1. GeneratorInv'
  BY GeneratorNext, NextIsGeneratorStep DEF Inv
<1>2. BudgetTypes' /\ disturbed \subseteq disturbed'
  BY BudgetNext DEF Inv, Types
<1>3. ASSUME NEW c \in Creators, Send(c) PROVE RequestTypes' /\ TableTypes' /\ RowsInv'
  BY <1>1, <1>3, SendKeepsInv, TablesMove DEF Send
<1>4. ASSUME NEW c \in Creators, Step(c) PROVE RequestTypes' /\ TableTypes' /\ RowsInv'
  <2>1. CASE FindExisting(c)
    BY <2>1, FindExistingKeepsInv, TablesMove DEF FindExisting, Answer, End
  <2>2. CASE FindNothing(c)
    BY <1>1, <2>2, FindNothingKeepsInv, TablesMove DEF FindNothing
  <2>3. CASE EndWait(c)
    BY <1>1, <2>3, EndWaitKeepsInv, TablesMove DEF EndWait
  <2>4. CASE SaveOrder(c)
    BY <2>4, SaveOrderKeepsInv, TablesMove DEF SaveOrder
  <2>5. CASE Commit(c)
    BY <2>5, CommitKeepsInv
  <2>6. CASE IdempotencyViolation(c) \/ OrderIdViolation(c) \/ OtherViolation(c)
    BY <1>1, <2>6, ViolationsKeepInv, TablesMove
       DEF IdempotencyViolation, OrderIdViolation, OtherViolation, Retry, Refuse, End
  <2>7. CASE FindById(c)
    BY <2>7, OwnAnswerKeepsInv, TablesMove DEF FindById, Answer, End
  <2> QED
    BY <1>4, <2>1, <2>2, <2>3, <2>4, <2>5, <2>6, <2>7 DEF Step
<1>5. ASSUME NEW c \in Creators, Fault(c) PROVE RequestTypes' /\ TableTypes' /\ RowsInv'
  BY <1>2, <1>5, RefuseKeepsInv, TablesMove DEF Fault, End
<1>6. ASSUME SeedStep PROVE RequestTypes' /\ TableTypes' /\ RowsInv'
  <2>1. CASE SeedDone
    <3>1. UNCHANGED tables
      BY <2>1 DEF SeedDone, Answer, End
    <3> QED
      BY <2>1, <3>1, OwnAnswerKeepsInv, SeederIsCreator, TablesMove
  <2> QED
    BY <1>6, <2>1, SeedOrderKeepsInv, SeedDependentKeepsInv DEF SeedStep
<1>7. ASSUME NEW p \in Processes, Crash(p) PROVE RequestTypes' /\ TableTypes' /\ RowsInv'
  BY <1>7, CrashKeepsInv, TablesMove DEF Crash
<1>8. ASSUME Tick \/ ClockBack \/ UNCHANGED vars PROVE RequestTypes' /\ TableTypes' /\ RowsInv'
  <2>1. UNCHANGED <<tables, request, answer>>
    BY <1>8 DEF Tick, ClockBack, vars
  <2>2. UNCHANGED tables
    BY <2>1
  <2> QED
    BY <1>2, <2>1, <2>2, IdleKeepsInv, TablesMove
<1> QED
  BY <1>1, <1>2, <1>3, <1>4, <1>5, <1>6, <1>7, <1>8 DEF Next, Inv, Types

(* The generators, the types and the rows, together. *)
THEOREM RowsInvariance == Spec => []Inv
<1> QED
  BY InvInit, InvNext, PTL DEF Spec
------------------------------------------------------------------------------
(* Every reachable state of the service has the types of TypeOK: the       *)
(* tables, the requests and the generators, for any number of clients.     *)
THEOREM OrdersTypeCorrect == Spec => []TypeOK
<1>1. Inv => TypeOK
  BY TypesSuffice DEF Inv
<1> QED
  BY <1>1, RowsInvariance, PTL

(* One idempotency key, one order, and one answer to all who sent it, for  *)
(* any number of clients, with however many retries, faults and crashes:   *)
(* the two looks of create and the constraint on orders.idempotencyKey.    *)
THEOREM OneKeyOneOrder == Spec => []Idempotent
<1>1. Inv => Idempotent
  <2> SUFFICES ASSUME Inv PROVE Idempotent
    OBVIOUS
  <2>1. ASSUME NEW c \in Clients, NEW d \in Clients,
               Keyed(c), Key[c] = Key[d], answer[c] # NoId, answer[d] # NoId
        PROVE  answer[c] = answer[d]
    <3>1. PICK r1 \in orders : r1.id = answer[c] /\ r1.key = Key[c]
      BY <2>1, SeederIsCreator DEF Inv, RowsInv, Answered
    <3>2. PICK r2 \in orders : r2.id = answer[d] /\ r2.key = Key[d]
      BY <2>1, SeederIsCreator DEF Inv, RowsInv, Answered
    <3> QED
      BY <2>1, <3>1, <3>2 DEF Inv, RowsInv, Unique, Keyed
  <2> QED
    BY <2>1 DEF Idempotent, Inv, RowsInv, Unique
<1> QED
  BY <1>1, RowsInvariance, PTL

(* An order whose creation is announced has all its rows, and every order  *)
(* is announced but for one the seed script left behind: the transaction   *)
(* of create, and the order in which the script saves.                     *)
THEOREM AnnouncedOrdersAreComplete == Spec => []AnnouncedIsComplete
<1>1. Inv => AnnouncedIsComplete
  <2>1. "idle" \notin Tables
    BY DEF Tables
  <2> QED
    BY <2>1 DEF Inv, RowsInv, Announced, AnnouncedIsComplete
<1> QED
  BY <1>1, RowsInvariance, PTL
------------------------------------------------------------------------------
(***************************************************************************)
(* The orders implement the registry.                                      *)
(***************************************************************************)
LEMMA CommitRegisters ==
  ASSUME Inv, NEW c \in Creators, orders' = orders \cup {Row(c)}, answer' = answer,
         \A row \in orders : row.id # id[c],
         Key[c] # NoKey => \A row \in orders : row.key # Key[c]
  PROVE  Registry!Next
<1>1. Registry!Register(c, Row(c).id)
  BY DEF Registry!Register, Registry!Clash, Row
<1>2. Row(c) \in orders'
  OBVIOUS
<1> QED
  BY <1>1, <1>2 DEF Registry!Next

LEMMA AnswerIsRegistryStep ==
  ASSUME Inv, NEW c \in Creators, NEW row \in orders, Answer(c, row.id), answer[c] = NoId,
         row.key = Key[c], row.key = NoKey => row.by = c
  PROVE  Registry!Next
<1>1. Registry!Answer(c, row)
  BY DEF Registry!Answer, Registry!EntitledTo, Answer, End, tables
<1> QED
  BY <1>1 DEF Registry!Next

LEMMA StepsOfRegistry == Inv /\ [Next]_vars => [Registry!Next]_<<orders, answer>>
<1> SUFFICES ASSUME Inv, [Next]_vars, ~UNCHANGED <<orders, answer>> PROVE Registry!Next
  OBVIOUS
<1>1. ASSUME NEW c \in Creators, FindExisting(c) PROVE Registry!Next
  <2>1. PICK row \in orders : row.key = Key[c] /\ Answer(c, row.id)
    BY <1>1 DEF FindExisting, Registered
  <2>2. answer[c] = NoId /\ Key[c] # NoKey
    BY <1>1 DEF FindExisting, At, Inv, RowsInv, Request, Answered, Keyed
  <2> QED
    BY <2>1, <2>2, AnswerIsRegistryStep
<1>2. ASSUME NEW c \in Creators, Commit(c) PROVE Registry!Next
  BY <1>2, CommitIsNew, CommitRegisters DEF Commit, Registered
<1>3. ASSUME NEW c \in Creators, FindById(c) \/ (c = Seeder /\ SeedDone) PROVE Registry!Next
  <2>1. pc[c] \in {"committed", "seeded"} /\ Answer(c, id[c])
    BY <1>3 DEF FindById, SeedDone, At
  <2>2. Row(c) \in orders
    BY <1>3 DEF FindById, SeedDone, At, Inv, RowsInv, Request, ScriptRun, Through, Row
  <2>3. answer[c] = NoId
    BY <2>1 DEF Inv, RowsInv, Answered
  <2>4. Row(c).id = id[c] /\ Row(c).key = Key[c] /\ Row(c).by = c
    BY DEF Row
  <2> QED
    BY <2>1, <2>2, <2>3, <2>4, AnswerIsRegistryStep
<1>4. CASE SeedOrder
  BY <1>4, SeedIsNew, CommitRegisters, SeederIsCreator DEF SeedOrder
<1>5. ASSUME NEW c \in Creators, IdempotencyViolation(c) \/ OrderIdViolation(c) \/ OtherViolation(c)
      PROVE  FALSE
  BY <1>5 DEF IdempotencyViolation, OrderIdViolation, OtherViolation, Retry, Refuse, End, tables
<1>6. ASSUME NEW c \in Creators, Step(c) PROVE Registry!Next
  <2>1. ~FindNothing(c) /\ ~EndWait(c) /\ ~SaveOrder(c)
    BY DEF FindNothing, EndWait, SaveOrder, tables
  <2> QED
    BY <1>1, <1>2, <1>3, <1>5, <1>6, <2>1 DEF Step
<1>7. CASE SeedStep
  <2>1. ~SeedDependent
    BY DEF SeedDependent
  <2> QED
    BY <1>3, <1>4, <1>7, <2>1, SeederIsCreator DEF SeedStep
<1>8. \A c \in Creators : ~Send(c) /\ ~Fault(c)
  BY DEF Send, Fault, End, tables
<1>9. ~Tick /\ ~ClockBack /\ ~UNCHANGED vars /\ \A p \in Processes : ~Crash(p)
  BY DEF Tick, ClockBack, vars, Crash, tables
<1> QED
  BY <1>6, <1>7, <1>8, <1>9 DEF Next

(* The orders and the answers are the registry's, for any number of        *)
(* clients: no order changes or goes once registered, not even when two    *)
(* identifiers collide, and no answer names another's order.               *)
THEOREM OrdersImplementRegistry == Spec => ImplementsRegistry
<1>1. Init => Registry!Init
  BY DEF Init, Registry!Init
<1> QED
  BY <1>1, RowsInvariance, StepsOfRegistry, PTL DEF Spec, ImplementsRegistry, Registry!Spec
=============================================================================
