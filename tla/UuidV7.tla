------------------------------- MODULE UuidV7 -------------------------------
(***************************************************************************)
(* The generator of order identifiers: what nextTimestampAndSequence puts  *)
(* into the first 64 bits, for processes that keep its module variables    *)
(* and read a clock they do not control.  The 62 random bits that follow   *)
(* are chosen by the module that uses this one.                            *)
(***************************************************************************)
EXTENDS Integers

CONSTANTS
  Processes,
  SequenceSize  \* 4096, the values of the 12 bits of rand_a

VARIABLES
  clock,            \* what Date.now() returns
  wentBack,         \* history: the clock has been set back
  lastTimestampMs,  \* module variables of each process
  sequence,
  waiting           \* processes in the busy loop that waits for the next ms

generator == <<lastTimestampMs, sequence, waiting>>
vars == <<clock, wentBack, generator>>

Sequences12 == 0 .. SequenceSize - 1

Init ==
  /\ clock = 0
  /\ wentBack = FALSE
  /\ lastTimestampMs = [p \in Processes |-> -1]
  /\ sequence = [p \in Processes |-> 0]
  /\ waiting = {}

SetClock(t) ==
  /\ clock' = t
  /\ wentBack' = (wentBack \/ t < clock)
  /\ UNCHANGED generator

(* Faulty variant of Successor: the sequence is not masked to 12 bits. *)
SuccessorUnmasked(s) == s + 1

Successor(s) == (s + 1) % SequenceSize

Issue(p, timestampMs, seq) ==
  /\ lastTimestampMs' = [lastTimestampMs EXCEPT ![p] = timestampMs]
  /\ sequence' = [sequence EXCEPT ![p] = seq]

(* The clock shows another ms than last time, a later or an earlier one: *)
(* the sequence starts at a random value.                                *)
IssueInNewMs(p) ==
  /\ p \notin waiting
  /\ clock # lastTimestampMs[p]
  /\ \E seq \in Sequences12 : Issue(p, clock, seq)
  /\ UNCHANGED <<clock, wentBack, waiting>>

(* Faulty variant of Exhausted: the sequence may wrap within a ms. *)
NeverExhausted(p) == FALSE

Exhausted(p) == Successor(sequence[p]) = 0

IssueInSameMs(p) ==
  /\ p \notin waiting
  /\ clock = lastTimestampMs[p]
  /\ ~Exhausted(p)
  /\ Issue(p, clock, Successor(sequence[p]))
  /\ UNCHANGED <<clock, wentBack, waiting>>

(* The busy loop blocks the whole process. *)
Overrun(p) ==
  /\ p \notin waiting
  /\ clock = lastTimestampMs[p]
  /\ Exhausted(p)
  /\ sequence' = [sequence EXCEPT ![p] = 0]
  /\ waiting' = waiting \cup {p}
  /\ UNCHANGED <<clock, wentBack, lastTimestampMs>>

IssueAfterWait(p) ==
  /\ p \in waiting
  /\ clock > lastTimestampMs[p]
  /\ \E seq \in Sequences12 : Issue(p, clock, seq)
  /\ waiting' = waiting \ {p}
  /\ UNCHANGED <<clock, wentBack>>

(* A new process: the module variables start over. *)
Restart(p) ==
  /\ lastTimestampMs' = [lastTimestampMs EXCEPT ![p] = -1]
  /\ sequence' = [sequence EXCEPT ![p] = 0]
  /\ waiting' = waiting \ {p}
  /\ UNCHANGED <<clock, wentBack>>

Issues(p) == IssueInNewMs(p) \/ IssueInSameMs(p) \/ IssueAfterWait(p)

Next ==
  \/ \E t \in Nat : SetClock(t)
  \/ \E p \in Processes : Issues(p) \/ Overrun(p) \/ Restart(p)

Spec == Init /\ [][Next]_vars
------------------------------------------------------------------------------
(***************************************************************************)
(* Properties.                                                             *)
(***************************************************************************)
TypeOK ==
  /\ clock \in Nat
  /\ wentBack \in BOOLEAN
  /\ lastTimestampMs \in [Processes -> Nat \cup {-1}]
  /\ sequence \in [Processes -> Sequences12]
  /\ waiting \subseteq Processes

Less(t1, s1, t2, s2) == t1 < t2 \/ (t1 = t2 /\ s1 < s2)

(* While the clock is never set back, what a process issues is greater than *)
(* all it has issued, and so distinct before any random bit, however many   *)
(* identifiers it generates in a millisecond: the sequence and the busy     *)
(* loop of nextTimestampAndSequence.                                        *)
IdsIncrease ==
  [][\A p \in Processes :
       Issues(p) /\ ~wentBack =>
         Less(lastTimestampMs[p], sequence[p], lastTimestampMs'[p], sequence'[p])]_vars
=============================================================================
