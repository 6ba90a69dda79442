--------------------------- MODULE JobQueueProofs ---------------------------
(***************************************************************************)
(* Proofs about the job queue, for any set of tasks and any number of      *)
(* consumers.                                                              *)
(***************************************************************************)
EXTENDS JobQueue, SequenceTheorems, TLAPS

\* Moving the head of the second sequence to the end of the first leaves their
\* concatenation as it is: what Pop does to `popped' and `items'.
LEMMA MoveHead ==
  ASSUME NEW S, NEW s \in Seq(S), NEW t \in Seq(S), t # <<>>
  PROVE  Append(s, Head(t)) \o Tail(t) = s \o t
<1>1. Head(t) \in S /\ Tail(t) \in Seq(S) /\ t = <<Head(t)>> \o Tail(t)
  BY HeadTailProperties
<1>2. Append(s, Head(t)) = s \o <<Head(t)>>
  BY <1>1, AppendIsConcat
<1> QED
  BY <1>1, <1>2, ConcatAssociative

\* Appending to the second sequence appends to the concatenation: what Push
\* does to `items' and `pushed'.
LEMMA AppendRight ==
  ASSUME NEW S, NEW s \in Seq(S), NEW t \in Seq(S), NEW x \in S
  PROVE  s \o Append(t, x) = Append(s \o t, x)
<1>1. s \o t \in Seq(S) /\ <<x>> \in Seq(S)
  BY ConcatProperties
<1>2. Append(t, x) = t \o <<x>> /\ Append(s \o t, x) = (s \o t) \o <<x>>
  BY <1>1, AppendIsConcat
<1> QED
  BY <1>1, <1>2, ConcatAssociative

-----------------------------------------------------------------------------
\* A task held for a consumer has been taken off the list.
HandedOver == \A c \in Consumers : got[c] # NoJob => got[c] \in Entries(popped)

\* The inductive invariant.
QueueInv == TypeOK /\ FifoExactlyOnce /\ HandedOver /\ HandedToOne

\* The head of the list is not among the tasks that were taken off.
LEMMA HeadIsNew ==
  ASSUME QueueInv, items # <<>>
  PROVE  Head(items) \notin Entries(popped)
<1>1. popped \in Seq(Jobs) /\ items \in Seq(Jobs) /\ pushed = popped \o items
  BY DEF QueueInv, TypeOK, FifoExactlyOnce
<1>2. /\ pushed \in Seq(Jobs)
      /\ Len(pushed) = Len(popped) + Len(items)
      /\ \A i \in 1 .. Len(pushed) :
            pushed[i] = IF i <= Len(popped) THEN popped[i] ELSE items[i - Len(popped)]
  BY <1>1, ConcatProperties
<1>3. Len(items) >= 1 /\ Head(items) = items[1]
  BY <1>1
<1>4. pushed[Len(popped) + 1] = Head(items) /\ Len(popped) + 1 \in DOMAIN pushed
  BY <1>1, <1>2, <1>3
<1> SUFFICES ASSUME NEW i \in DOMAIN popped, popped[i] = Head(items)
             PROVE  FALSE
  BY DEF Entries
<1>5. i \in DOMAIN pushed /\ pushed[i] = Head(items) /\ i # Len(popped) + 1
  BY <1>1, <1>2, <1>3
<1> QED
  BY <1>4, <1>5 DEF QueueInv, FifoExactlyOnce

\* Initially nothing is on the list and nobody is in PopWait.
LEMMA QueueInit == Init => QueueInv
<1> SUFFICES ASSUME Init PROVE QueueInv
  OBVIOUS
<1> USE DEF Init
<1>1. TypeOK
  <2>1. items \in Seq(Jobs) /\ pushed \in Seq(Jobs) /\ popped \in Seq(Jobs)
    OBVIOUS
  <2>2. cpc \in [Consumers -> ConsumerStates] /\ got \in [Consumers -> Jobs \cup {NoJob}]
    BY DEF ConsumerStates
  <2>3. \A c \in Consumers : got[c] # NoJob <=> cpc[c] = "job"
    OBVIOUS
  <2>4. blocked \in BOOLEAN /\ cancelled \in BOOLEAN
    OBVIOUS
  <2> QED
    BY <2>1, <2>2, <2>3, <2>4 DEF TypeOK
<1>2. FifoExactlyOnce
  BY ConcatEmptySeq DEF FifoExactlyOnce
<1> QED
  BY <1>1, <1>2 DEF QueueInv, HandedOver, HandedToOne

\* Push of a task that was not pushed before.
LEMMA PushInv ==
  ASSUME QueueInv, NEW j \in Jobs \ Entries(pushed), Push(j)
  PROVE  QueueInv'
<1>1. TypeOK /\ FifoExactlyOnce
  BY DEF QueueInv
<1>2. TypeOK'
  <2>1. cpc' \in [Consumers -> ConsumerStates] /\ \A c \in Consumers : cpc'[c] = "job" <=> cpc[c] = "job"
    BY <1>1 DEF TypeOK, Push, Notify, Parked, ConsumerStates
  <2>2. items' \in Seq(Jobs) /\ pushed' \in Seq(Jobs)
    <3>1. Append(items, j) \in Seq(Jobs) /\ Append(pushed, j) \in Seq(Jobs)
      BY <1>1, AppendProperties DEF TypeOK
    <3> QED
      BY <1>1, <3>1, Zenon DEF TypeOK, Push
  <2>3. UNCHANGED <<blocked, got, cancelled, popped>>
    BY DEF Push
  <2> QED
    BY <1>1, <2>1, <2>2, <2>3 DEF TypeOK
<1>3. FifoExactlyOnce'
  <2>1. CASE blocked
    BY <1>1, <2>1 DEF Push, FifoExactlyOnce
  <2>2. CASE ~blocked
    <3>1. items' = Append(items, j) /\ pushed' = Append(pushed, j) /\ popped' = popped
      BY <2>2 DEF Push
    <3>2. pushed' = popped' \o items'
      <4>1. popped \o Append(items, j) = Append(popped \o items, j)
        BY <1>1, AppendRight DEF TypeOK
      <4> QED
        BY <1>1, <3>1, <4>1 DEF FifoExactlyOnce
    <3>3. \A i, k \in DOMAIN pushed' : pushed'[i] = pushed'[k] => i = k
      <4>1. /\ DOMAIN pushed = 1 .. Len(pushed) /\ Len(pushed) \in Nat
            /\ DOMAIN pushed' = 1 .. Len(pushed) + 1
            /\ \A i \in 1 .. Len(pushed) : pushed'[i] = pushed[i]
            /\ pushed'[Len(pushed) + 1] = j
        BY <1>1, <3>1, AppendProperties DEF TypeOK
      <4>2. \A i \in 1 .. Len(pushed) : pushed[i] # j
        BY <4>1 DEF Entries
      <4> QED
        BY <1>1, <4>1, <4>2 DEF FifoExactlyOnce
    <3> QED
      BY <3>2, <3>3 DEF FifoExactlyOnce
  <2> QED
    BY <2>1, <2>2
<1>4. HandedOver' /\ HandedToOne'
  BY DEF QueueInv, HandedOver, HandedToOne, Push, Entries
<1> QED
  BY <1>2, <1>3, <1>4 DEF QueueInv

\* A consumer is handed the head of the list.
LEMMA PopJobInv ==
  ASSUME QueueInv, NEW c \in Consumers, PopJob(c)
  PROVE  QueueInv'
<1>1. TypeOK /\ FifoExactlyOnce /\ HandedOver /\ HandedToOne
  BY DEF QueueInv
<1>2. Head(items) \in Jobs /\ Tail(items) \in Seq(Jobs)
  BY <1>1, HeadTailProperties DEF TypeOK, PopJob
<1>3. TypeOK'
  BY <1>1, <1>2, NoJobAssumption DEF TypeOK, PopJob, Goto, ConsumerStates
<1>4. FifoExactlyOnce'
  BY <1>1, MoveHead DEF TypeOK, FifoExactlyOnce, PopJob
<1>5. Entries(popped') = Entries(popped) \cup {Head(items)}
  <2>1. /\ DOMAIN popped = 1 .. Len(popped) /\ Len(popped) \in Nat
        /\ DOMAIN popped' = 1 .. Len(popped) + 1
        /\ \A i \in 1 .. Len(popped) : popped'[i] = popped[i]
        /\ popped'[Len(popped) + 1] = Head(items)
    BY <1>1, <1>2, AppendProperties DEF TypeOK, PopJob
  <2> QED
    BY <2>1 DEF Entries
<1>6. HandedOver'
  BY <1>1, <1>5 DEF HandedOver, PopJob, TypeOK
<1>7. HandedToOne'
  <2>1. Head(items) \notin Entries(popped)
    BY HeadIsNew DEF PopJob
  <2> QED
    BY <1>1, <2>1 DEF HandedOver, HandedToOne, PopJob, TypeOK
<1> QED
  BY <1>3, <1>4, <1>6, <1>7 DEF QueueInv

\* Every other step leaves the list, and hands no task to anybody.
LEMMA OtherStepsInv ==
  ASSUME QueueInv,
         \/ Block \/ Unblock \/ Cancel
         \/ \E c \in Consumers : \/ PopWaitCall(c) \/ PopNil(c) \/ CheckBlocked(c)
                                 \/ Select(c) \/ CancelWakes(c) \/ Return(c)
  PROVE  QueueInv'
<1>1. UNCHANGED <<items, pushed, popped>>
  BY DEF Block, Unblock, Cancel, PopWaitCall, PopNil, CheckBlocked, Select, CancelWakes, Return
<1>2. TypeOK'
  BY NoJobAssumption DEF QueueInv, TypeOK, ConsumerStates, Goto, Block, Unblock, Cancel,
     PopWaitCall, PopNil, CheckBlocked, Select, CancelWakes, Return
<1>3. \A c \in Consumers : got'[c] \in {got[c], NoJob}
  BY DEF QueueInv, TypeOK, Block, Unblock, Cancel, PopWaitCall, PopNil, CheckBlocked,
     Select, CancelWakes, Return
<1>4. FifoExactlyOnce'
  BY <1>1 DEF QueueInv, FifoExactlyOnce
<1>5. HandedOver' /\ HandedToOne'
  BY <1>1, <1>3 DEF QueueInv, HandedOver, HandedToOne, Entries
<1> QED
  BY <1>2, <1>4, <1>5 DEF QueueInv

LEMMA QueueStep == QueueInv /\ [Next]_queueVars => QueueInv'
<1> SUFFICES ASSUME QueueInv, [Next]_queueVars PROVE QueueInv'
  OBVIOUS
<1>1. CASE \E j \in Jobs \ Entries(pushed) : Push(j)
  BY <1>1, PushInv
<1>2. CASE \E c \in Consumers : PopJob(c)
  BY <1>2, PopJobInv
<1>3. CASE \/ Block \/ Unblock \/ Cancel
           \/ \E c \in Consumers : \/ PopWaitCall(c) \/ PopNil(c) \/ CheckBlocked(c)
                                   \/ Select(c) \/ CancelWakes(c) \/ Return(c)
  BY <1>3, OtherStepsInv
<1>4. CASE UNCHANGED queueVars
  BY <1>4 DEF queueVars, QueueInv, TypeOK, FifoExactlyOnce, HandedOver, HandedToOne, Entries
<1> QED
  BY <1>1, <1>2, <1>3, <1>4 DEF Next, PopWaitStep

-----------------------------------------------------------------------------
\* The inductive invariant holds in every reachable state of the queue.
THEOREM QueueSafe == Spec => []QueueInv
BY QueueInit, QueueStep, PTL DEF Spec

\* The queue is well-typed, a parked consumer holds no job and only one that has been
\* handed a job does.
THEOREM QueueTyped == Spec => []TypeOK
<1>1. QueueInv => TypeOK
  BY DEF QueueInv
<1> QED
  BY <1>1, QueueSafe, PTL

\* Tasks leave the queue in the order of the calls of Push and once each,
\* whatever the number of goroutines in Push and PopWait.
THEOREM QueueFifo == Spec => []FifoExactlyOnce
<1>1. QueueInv => FifoExactlyOnce
  BY DEF QueueInv
<1> QED
  BY <1>1, QueueSafe, PTL

\* Two concurrent callers of PopWait are never handed the same task.
THEOREM QueueHandsToOne == Spec => []HandedToOne
<1>1. QueueInv => HandedToOne
  BY DEF QueueInv
<1> QED
  BY <1>1, QueueSafe, PTL
=============================================================================
