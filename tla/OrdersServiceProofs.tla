------------------------- MODULE OrdersServiceProofs -------------------------
(***************************************************************************)
(* Proofs about the creation of orders: the generator of identifiers, for  *)
(* every number of clients and processes, every size of the sequence and   *)
(* every behaviour of the clock.                                           *)
(***************************************************************************)
EXTENDS OrdersService, TLAPS

(* The sequence that follows stays within its bits. *)
LEMMA SuccessorInRange == \A s \in Uuid!Sequences12 : Uuid!Successor(s) \in Uuid!Sequences12
<1> SUFFICES ASSUME NEW s \in Uuid!Sequences12
             PROVE  (s + 1) % SequenceSize \in 0 .. SequenceSize - 1
  BY DEF Uuid!Successor, Uuid!Sequences12
<1>1. SequenceSize \in Nat /\ SequenceSize > 0 /\ s + 1 \in Int
  BY SequenceSizeAssumption DEF Uuid!Sequences12
<1> QED
  BY <1>1

(* Unless it is exhausted, the sequence grows: only then does it wrap. *)
LEMMA SuccessorGrows == \A s \in Uuid!Sequences12 : Uuid!Successor(s) # 0 => s < Uuid!Successor(s)
<1> SUFFICES ASSUME NEW s \in Uuid!Sequences12, (s + 1) % SequenceSize # 0
             PROVE  s < (s + 1) % SequenceSize
  BY DEF Uuid!Successor
<1>1. SequenceSize \in Nat /\ SequenceSize > 0 /\ s \in Nat /\ s + 1 <= SequenceSize
  BY SequenceSizeAssumption DEF Uuid!Sequences12
<1>2. CASE s + 1 = SequenceSize
  BY <1>1, <1>2
<1>3. CASE s + 1 < SequenceSize
  <2>1. (s + 1) % SequenceSize = s + 1
    BY <1>1, <1>3
  <2> QED
    BY <1>1, <2>1
<1> QED
  BY <1>1, <1>2, <1>3
------------------------------------------------------------------------------
(* A clock that was never set back is not behind what it has stamped. *)
StampedByNow == ~wentBack => \A p \in Processes : lastTimestampMs[p] <= clock

GeneratorInv == Uuid!TypeOK /\ StampedByNow

LEMMA GeneratorInit == Uuid!Init => GeneratorInv
<1> SUFFICES ASSUME Uuid!Init PROVE GeneratorInv
  OBVIOUS
<1>1. 0 \in Uuid!Sequences12
  BY SequenceSizeAssumption DEF Uuid!Sequences12
<1>2. Uuid!TypeOK
  BY <1>1 DEF Uuid!Init, Uuid!TypeOK
<1>3. \A p \in Processes : lastTimestampMs[p] = -1
  BY DEF Uuid!Init
<1>4. StampedByNow
  <2>1. clock = 0 /\ -1 <= 0
    BY DEF Uuid!Init
  <2> QED
    BY <1>3, <2>1 DEF StampedByNow
<1> QED
  BY <1>2, <1>4 DEF GeneratorInv

(* What issuing an identifier does to the invariant. *)
LEMMA IssueKeepsInv ==
  ASSUME GeneratorInv, NEW p \in Processes, NEW seq \in Uuid!Sequences12, Uuid!Issue(p, clock, seq),
         UNCHANGED <<clock, wentBack>>, waiting' \subseteq waiting
  PROVE  GeneratorInv'
<1>1. Uuid!TypeOK'
  BY DEF GeneratorInv, Uuid!TypeOK, Uuid!Issue, Uuid!Sequences12
<1>2. StampedByNow'
  BY DEF GeneratorInv, Uuid!TypeOK, StampedByNow, Uuid!Issue
<1> QED
  BY <1>1, <1>2 DEF GeneratorInv

LEMMA GeneratorNext == GeneratorInv /\ [Uuid!Next]_(Uuid!vars) => GeneratorInv'
<1> SUFFICES ASSUME GeneratorInv, [Uuid!Next]_(Uuid!vars) PROVE GeneratorInv'
  OBVIOUS
<1>1. ASSUME NEW t \in Nat, Uuid!SetClock(t) PROVE GeneratorInv'
  <2>1. /\ clock' = t /\ wentBack' = (wentBack \/ t < clock)
        /\ UNCHANGED <<lastTimestampMs, sequence, waiting>>
    BY <1>1 DEF Uuid!SetClock, Uuid!generator
  <2>2. Uuid!TypeOK'
    BY <2>1 DEF GeneratorInv, Uuid!TypeOK, Uuid!Sequences12
  <2>3. ASSUME ~wentBack', NEW p \in Processes PROVE lastTimestampMs[p] <= t
    <3>1. ~wentBack /\ ~(t < clock)
      BY <2>1, <2>3
    <3>2. lastTimestampMs[p] <= clock
      BY <3>1 DEF GeneratorInv, StampedByNow
    <3> QED
      BY <3>1, <3>2 DEF GeneratorInv, Uuid!TypeOK
  <2> QED
    BY <2>1, <2>2, <2>3 DEF GeneratorInv, StampedByNow
<1>2. ASSUME NEW p \in Processes, Uuid!IssueInNewMs(p) PROVE GeneratorInv'
  <2>1. PICK seq \in Uuid!Sequences12 : Uuid!Issue(p, clock, seq)
    BY <1>2 DEF Uuid!IssueInNewMs
  <2> QED
    BY <1>2, <2>1, IssueKeepsInv DEF Uuid!IssueInNewMs
<1>3. ASSUME NEW p \in Processes, Uuid!IssueInSameMs(p) PROVE GeneratorInv'
  <2>1. Uuid!Successor(sequence[p]) \in Uuid!Sequences12
    BY SuccessorInRange DEF GeneratorInv, Uuid!TypeOK
  <2> QED
    BY <1>3, <2>1, IssueKeepsInv DEF Uuid!IssueInSameMs
<1>4. ASSUME NEW p \in Processes, Uuid!Overrun(p) PROVE GeneratorInv'
  <2>1. 0 \in Uuid!Sequences12
    BY SequenceSizeAssumption DEF Uuid!Sequences12
  <2> QED
    BY <1>4, <2>1 DEF GeneratorInv, Uuid!TypeOK, StampedByNow, Uuid!Overrun
<1>5. ASSUME NEW p \in Processes, Uuid!IssueAfterWait(p) PROVE GeneratorInv'
  <2>1. PICK seq \in Uuid!Sequences12 : Uuid!Issue(p, clock, seq)
    BY <1>5 DEF Uuid!IssueAfterWait
  <2> QED
    BY <1>5, <2>1, IssueKeepsInv DEF Uuid!IssueAfterWait
<1>6. ASSUME NEW p \in Processes, Uuid!Restart(p) PROVE GeneratorInv'
  <2>1. 0 \in Uuid!Sequences12
    BY SequenceSizeAssumption DEF Uuid!Sequences12
  <2> QED
    BY <1>6, <2>1 DEF GeneratorInv, Uuid!TypeOK, StampedByNow, Uuid!Restart
<1>7. CASE UNCHANGED Uuid!vars
  BY <1>7 DEF GeneratorInv, Uuid!TypeOK, StampedByNow, Uuid!vars, Uuid!generator
<1> QED
  BY <1>1, <1>2, <1>3, <1>4, <1>5, <1>6, <1>7 DEF Uuid!Next, Uuid!Issues

(***************************************************************************)
(* Every step of the service is one of the generator, or leaves it alone.  *)
(***************************************************************************)
LEMMA GenerateIsStep ==
  ASSUME NEW c \in Creators, generateUuidV7(c)
  PROVE  Uuid!Next
<1>1. Host[c] \in Processes
  BY HostAssumption
<1> QED
  BY <1>1 DEF generateUuidV7, Uuid!Next, Uuid!Issues

LEMMA EndIsStep ==
  ASSUME NEW c \in Creators, End(c)
  PROVE  [Uuid!Next]_(Uuid!vars)
<1>1. Host[c] \in Processes
  BY HostAssumption
<1>2. CASE Uuid!Restart(Host[c])
  BY <1>1, <1>2 DEF Uuid!Next
<1>3. CASE UNCHANGED generator
  BY <1>3 DEF generator, Uuid!vars, Uuid!generator
<1> QED
  BY <1>2, <1>3 DEF End

LEMMA StepIsGeneratorStep ==
  ASSUME NEW c \in Creators, Step(c)
  PROVE  [Uuid!Next]_(Uuid!vars)
<1>1. CASE FindExisting(c)
  BY <1>1, EndIsStep DEF FindExisting, Answer
<1>2. CASE FindNothing(c)
  BY <1>2, GenerateIsStep DEF FindNothing
<1>3. CASE EndWait(c)
  <2>1. Host[c] \in Processes
    BY HostAssumption
  <2> QED
    BY <1>3, <2>1 DEF EndWait, Uuid!Next, Uuid!Issues
<1>4. CASE SaveOrder(c) \/ Commit(c)
  BY <1>4 DEF SaveOrder, Commit, generator, Uuid!vars, Uuid!generator
<1>5. CASE IdempotencyViolation(c)
  <2>1. UNCHANGED generator \/ generateUuidV7(c) \/ End(c)
    BY <1>5 DEF IdempotencyViolation, Retry, Refuse
  <2> QED
    BY <2>1, GenerateIsStep, EndIsStep DEF generator, Uuid!vars, Uuid!generator
<1>6. CASE OrderIdViolation(c)
  BY <1>6, GenerateIsStep, EndIsStep DEF OrderIdViolation, Retry, Refuse
<1>7. CASE OtherViolation(c)
  BY <1>7, EndIsStep DEF OtherViolation, Refuse
<1>8. CASE FindById(c)
  BY <1>8, EndIsStep DEF FindById, Answer
<1> QED
  BY <1>1, <1>2, <1>3, <1>4, <1>5, <1>6, <1>7, <1>8 DEF Step

LEMMA NextIsGeneratorStep == GeneratorInv /\ [Next]_vars => [Uuid!Next]_(Uuid!vars)
<1> SUFFICES ASSUME GeneratorInv, [Next]_vars PROVE [Uuid!Next]_(Uuid!vars)
  OBVIOUS
<1>1. ASSUME NEW c \in Creators, Send(c) PROVE [Uuid!Next]_(Uuid!vars)
  <2>1. UNCHANGED generator \/ generateUuidV7(c)
    BY <1>1 DEF Send
  <2> QED
    BY <2>1, GenerateIsStep DEF generator, Uuid!vars, Uuid!generator
<1>2. ASSUME NEW c \in Creators, Step(c) PROVE [Uuid!Next]_(Uuid!vars)
  BY <1>2, StepIsGeneratorStep
<1>3. ASSUME NEW c \in Creators, Fault(c) PROVE [Uuid!Next]_(Uuid!vars)
  BY <1>3, EndIsStep DEF Fault
<1>4. CASE SeedStep
  <2>1. UNCHANGED generator \/ End(Seeder)
    BY <1>4 DEF SeedStep, SeedOrder, SeedDependent, SeedDone, Answer
  <2> QED
    BY <2>1, EndIsStep DEF Creators, generator, Uuid!vars, Uuid!generator
<1>5. ASSUME NEW p \in Processes, Crash(p) PROVE [Uuid!Next]_(Uuid!vars)
  BY <1>5 DEF Crash, Uuid!Next
<1>6. CASE Tick
  <2>1. clock + 1 \in Nat
    BY DEF GeneratorInv, Uuid!TypeOK
  <2> QED
    BY <1>6, <2>1 DEF Tick, Uuid!Next
<1>7. CASE ClockBack
  <2>1. PICK t \in 0 .. clock - 1 : Uuid!SetClock(t)
    BY <1>7 DEF ClockBack
  <2>2. t \in Nat
    BY <2>1
  <2> QED
    BY <2>1, <2>2 DEF Uuid!Next
<1>8. CASE UNCHANGED vars
  BY <1>8 DEF vars, generator, Uuid!vars, Uuid!generator
<1> QED
  BY <1>1, <1>2, <1>3, <1>4, <1>5, <1>6, <1>7, <1>8 DEF Next
------------------------------------------------------------------------------
(* Identifiers of a process increase as long as the clock is never set     *)
(* back, whatever the size of the sequence and the number issued within a  *)
(* millisecond.                                                            *)
THEOREM IdentifiersIncrease == Spec => IdsIncrease
<1> DEFINE Increase(p) ==
      Uuid!Issues(p) /\ ~wentBack =>
        Uuid!Less(lastTimestampMs[p], sequence[p], lastTimestampMs'[p], sequence'[p])
<1>1. ASSUME GeneratorInv, NEW p \in Processes, Uuid!Issues(p), ~wentBack
      PROVE  Increase(p)
  <2>1. lastTimestampMs[p] \in Int /\ clock \in Int /\ lastTimestampMs[p] <= clock
    BY <1>1 DEF GeneratorInv, Uuid!TypeOK, StampedByNow
  <2>2. CASE Uuid!IssueInNewMs(p)
    <3>1. lastTimestampMs'[p] = clock
      BY <1>1, <2>2 DEF Uuid!IssueInNewMs, Uuid!Issue, GeneratorInv, Uuid!TypeOK
    <3> QED
      BY <2>1, <2>2, <3>1 DEF Uuid!IssueInNewMs, Uuid!Less
  <2>3. CASE Uuid!IssueInSameMs(p)
    <3>1. lastTimestampMs'[p] = clock /\ sequence'[p] = Uuid!Successor(sequence[p])
      BY <1>1, <2>3 DEF Uuid!IssueInSameMs, Uuid!Issue, GeneratorInv, Uuid!TypeOK
    <3>2. sequence[p] < Uuid!Successor(sequence[p])
      BY <1>1, <2>3, SuccessorGrows DEF Uuid!IssueInSameMs, Uuid!Exhausted, GeneratorInv, Uuid!TypeOK
    <3> QED
      BY <2>3, <3>1, <3>2 DEF Uuid!IssueInSameMs, Uuid!Less
  <2>4. CASE Uuid!IssueAfterWait(p)
    <3>1. lastTimestampMs'[p] = clock
      BY <1>1, <2>4 DEF Uuid!IssueAfterWait, Uuid!Issue, GeneratorInv, Uuid!TypeOK
    <3> QED
      BY <2>1, <2>4, <3>1 DEF Uuid!IssueAfterWait, Uuid!Less
  <2> QED
    BY <1>1, <2>2, <2>3, <2>4 DEF Uuid!Issues
<1>2. GeneratorInv => \A p \in Processes : Increase(p)
  BY <1>1
<1>3. GeneratorInv /\ [Uuid!Next]_(Uuid!vars) => [\A p \in Processes : Increase(p)]_(Uuid!vars)
  BY <1>2
<1>4. Init => Uuid!Init
  BY DEF Init
<1> QED
  BY GeneratorInit, GeneratorNext, NextIsGeneratorStep, <1>3, <1>4, PTL
  DEF Spec, IdsIncrease, Uuid!IdsIncrease
=============================================================================
