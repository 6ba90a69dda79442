--------------------------- MODULE EventLoopProofs ---------------------------
(***************************************************************************)
(* Proofs about the event loop, for any finite set of tasks and any number *)
(* of goroutines that schedule them.                                       *)
(***************************************************************************)
EXTENDS EventLoop, SequenceTheorems, FiniteSetTheorems, TLAPS

\* The lemmas about the queue, for the queue of the loop.
QP == INSTANCE JobQueueProofs WITH
        Jobs <- Tasks, Consumers <- {Loop}, NoJob <- NoTask

Closing == {"exit", "exitrun", "done"}

-----------------------------------------------------------------------------
(* The inductive invariant.                                                *)

\* A task between wg.Add and queue.Push belongs to one goroutine and was not
\* pushed before; a task on the list was created.
CallInv ==
  /\ \A p \in Callers : call[p] # NoTask => call[p] \in Created /\ call[p] \notin Entries(pushed)
  /\ \A p, q \in Callers : call[p] # NoTask /\ call[p] = call[q] => p = q
  /\ Entries(pushed) \subseteq Created
  /\ \A t \in Tasks : kind[t] = "stop" => t = StopTask

\* The tasks off the list are those executed and, where the loop is between the
\* two, the one that PopWait returns or that is executed.
PoppedInv ==
  /\ loopPc = "run" => popped = Append(ran, job)
  /\ got[Loop] # NoTask => popped = Append(ran, got[Loop])
  /\ loopPc \in {"none", "head", "reply", "finish"} => popped = ran
  /\ loopPc = "popwait" /\ got[Loop] = NoTask => popped = ran
  /\ loopPc \in Closing => popped = ran \/ \E t \in Tasks : popped = Append(ran, t)
  /\ loopPc \in {"reply", "finish"} => ran # <<>> /\ ran[Len(ran)] = job

\* What loop.running says.  The queue is never blocked, hence an error of
\* PopWait is the one of the context.
RunningInv ==
  /\ loopPc \in {"popwait", "run"} => running
  /\ loopPc \in {"head", "reply", "finish"} /\ ~running => Stopped
  /\ loopPc \in Closing /\ ~cancelled => Stopped
  /\ cpc[Loop] = "err" => cancelled
  /\ ~blocked

\* The loop lives from Start on, Stop comes later, and the loop ends when no exit
\* handler is left.
ExitInv ==
  /\ mainPc = "init" <=> loopPc = "none"
  /\ StopTask \in Created => mainPc # "init"
  /\ registered = exited \o (IF loopPc = "exitrun" THEN <<job>> ELSE <<>>) \o exitQueue
  /\ loopPc = "done" => exitQueue = <<>>

LoopInv ==
  TypeOK /\ CallInv /\ PoppedInv /\ RunningInv /\ ExitInv /\ WgBalance

LEMMA LoopInit == Init => LoopInv /\ QP!QueueInv
<1> SUFFICES ASSUME Init PROVE LoopInv /\ QP!QueueInv
  OBVIOUS
<1>1. QP!QueueInv
  <2>1. QP!Init
    BY DEF Init, Q!Init, QP!Init
  <2> QED
    BY <2>1, QP!QueueInit, LoopAssumption
<1>2. TypeOK
  <2>1. Q!TypeOK
    BY <1>1 DEF QP!QueueInv, QP!TypeOK, Q!TypeOK, QP!ConsumerStates, Q!ConsumerStates
  <2>2. /\ wg \in Nat /\ job = NoTask /\ loopPc = "none" /\ mainPc = "init" /\ panic = "none"
        /\ kind \in [Tasks -> Kinds]
        /\ call \in [Callers -> Tasks \cup {NoTask}]
        /\ waits \in [Clients -> Tasks \cup {NoTask}]
        /\ cpc[Loop] = "out"
    BY DEF Init, Q!Init, Kinds
  <2>3. running \in BOOLEAN
    BY DEF Init
  <2>4. exitQueue = <<>> /\ ran = <<>> /\ registered = <<>> /\ exited = <<>>
    BY DEF Init
  <2> QED
    BY <2>1, <2>2, <2>3, <2>4 DEF TypeOK, LoopStates, MainStates
<1>3. CallInv
  BY DEF Init, Q!Init, CallInv, Entries, Created
<1>4. PoppedInv
  BY DEF Init, Q!Init, PoppedInv, Closing
<1>5. RunningInv
  BY DEF Init, Q!Init, RunningInv, Closing
<1>6. ExitInv
  <2>1. <<>> \o <<>> \o <<>> = <<>>
    BY ConcatEmptySeq
  <2> QED
    BY <2>1 DEF Init, ExitInv, Created
<1>7. WgBalance
  <2>1. Unfinished = {}
    BY DEF Init, Unfinished, Created
  <2> QED
    BY <2>1, FS_EmptySet DEF Init, WgBalance, Alive
<1> QED
  BY <1>1, <1>2, <1>3, <1>4, <1>5, <1>6, <1>7 DEF LoopInv

-----------------------------------------------------------------------------
(* The loop drives its queue as JobQueue says it may be driven.            *)

LEMMA QueueSimulation ==
  ASSUME CallInv, [Next]_vars
  PROVE  [QP!Next]_(QP!queueVars)
<1> USE DEF Loop
<1>1. ASSUME NEW p \in Callers, SchedulePush(p) PROVE QP!Next
  <2>1. call[p] \in Tasks \ QP!Entries(pushed)
    BY <1>1 DEF CallInv, Created, SchedulePush, Entries, QP!Entries
  <2>2. QP!Push(call[p])
    BY <1>1 DEF SchedulePush, Q!Push, QP!Push, Q!Notify, QP!Notify, Q!Parked, QP!Parked
  <2> QED
    BY <2>1, <2>2 DEF QP!Next
<1>2. CASE LoopPop
  <2>1. QP!PopWaitStep("loop")
    BY <1>2 DEF LoopPop, Q!PopWaitStep, Q!PopJob, Q!PopNil, Q!CheckBlocked, Q!Select,
       Q!CancelWakes, Q!Goto, QP!PopWaitStep, QP!PopJob, QP!PopNil, QP!CheckBlocked,
       QP!Select, QP!CancelWakes, QP!Goto
  <2> QED
    BY <2>1 DEF QP!Next
<1>3. CASE LoopGot
  <2>1. QP!Return("loop")
    BY <1>3 DEF LoopGot, Q!Return, QP!Return
  <2> QED
    BY <2>1 DEF QP!Next
<1>4. CASE LoopHead
  <2>1. QP!PopWaitCall("loop") \/ UNCHANGED qVars
    BY <1>4 DEF LoopHead, Q!PopWaitCall, QP!PopWaitCall, Q!Goto, QP!Goto
  <2> QED
    BY <2>1 DEF QP!Next, QP!queueVars, qVars
<1>5. CASE Cancel
  BY <1>5 DEF Cancel, Q!Cancel, QP!Cancel, QP!Next
<1>6. ASSUME NEW p \in Callers, NEW t \in Tasks, NEW k \in Kinds, Schedule(p, t, k)
      PROVE  UNCHANGED qVars
  BY <1>6 DEF Schedule, ScheduleAdd
<1>7. ASSUME NEW p \in Callers, NEW h \in Handlers, OnExit(p, h)
      PROVE  UNCHANGED qVars
  BY <1>7 DEF OnExit
<1>8. ASSUME NEW c \in Clients, Reply(c) PROVE UNCHANGED qVars
  BY <1>8 DEF Reply
<1>9. ASSUME \/ TaskEnds \/ TaskDone \/ ExitPop \/ ExitEnds \/ RunEnds \/ LuaError
             \/ Start \/ Stop \/ Wait \/ WaitReturns
     PROVE UNCHANGED qVars
  BY <1>9 DEF TaskEnds, TaskDone, ExitPop, ExitEnds, RunEnds, LuaError, Start, Stop,
     ScheduleAdd, Wait, WaitReturns
<1>11. UNCHANGED vars => UNCHANGED qVars
  BY DEF vars
<1>10. UNCHANGED qVars => UNCHANGED QP!queueVars
  BY DEF qVars, QP!queueVars
<1> QED
  BY <1>1, <1>2, <1>3, <1>4, <1>5, <1>6, <1>7, <1>8, <1>9, <1>10, <1>11 DEF Next, LoopStep

-----------------------------------------------------------------------------
(* What the steps that touch the queue do, in terms of the loop.           *)

rest == <<wg, running, loopPc, job, exitQueue, registered, exited, kind, call, waits, mainPc, panic, ran>>

LEMMA PopFacts ==
  ASSUME TypeOK, RunningInv, LoopPop
  PROVE  /\ loopPc = "popwait" /\ got[Loop] = NoTask
         /\ cpc'[Loop] # "out"
         /\ cpc'[Loop] = "err" => cancelled
         /\ \/ /\ got'[Loop] = Head(items) /\ got'[Loop] # NoTask
               /\ popped' = Append(popped, Head(items))
            \/ got'[Loop] = NoTask /\ popped' = popped
         /\ UNCHANGED <<blocked, cancelled, pushed>>
         /\ UNCHANGED rest
<1> USE DEF Loop
<1>1. /\ cpc \in [{"loop"} -> Q!ConsumerStates]
      /\ got \in [{"loop"} -> Tasks \cup {NoTask}]
      /\ got["loop"] # NoTask <=> cpc["loop"] = "job"
  BY DEF TypeOK, Q!TypeOK
<1>2. loopPc = "popwait" /\ UNCHANGED rest
  BY DEF LoopPop, rest, exitVars, callVars
<1>3. CASE Q!PopJob("loop")
  <2>1. Head(items) \in Tasks
    BY <1>3, HeadTailProperties DEF TypeOK, Q!TypeOK, Q!PopJob
  <2> QED
    BY <1>1, <1>2, <1>3, <2>1, LoopAssumption DEF Q!PopJob, Q!Goto, Q!ConsumerStates
<1>4. CASE Q!PopNil("loop") \/ Q!CheckBlocked("loop") \/ Q!Select("loop") \/ Q!CancelWakes("loop")
  BY <1>1, <1>2, <1>4 DEF Q!PopNil, Q!CheckBlocked, Q!Select, Q!CancelWakes, Q!Goto, Q!ConsumerStates, RunningInv
<1> QED
  BY <1>3, <1>4 DEF LoopPop, Q!PopWaitStep

LEMMA GotFacts ==
  ASSUME TypeOK, LoopGot
  PROVE  /\ cpc[Loop] \in {"job", "err"} /\ cpc'[Loop] = "out"
         /\ got[Loop] \in Tasks \/ got[Loop] = NoTask
         /\ got[Loop] # NoTask <=> cpc[Loop] = "job"
         /\ got'[Loop] = NoTask
         /\ UNCHANGED <<items, blocked, cancelled, pushed, popped>>
         /\ UNCHANGED <<wg, exitQueue, registered, exited, kind, call, waits, mainPc, panic, ran>>
BY DEF Loop, TypeOK, Q!TypeOK, LoopGot, Q!Return, exitVars, callVars

LEMMA PushFacts ==
  ASSUME TypeOK, CallInv, RunningInv, NEW p \in Callers, SchedulePush(p)
  PROVE  /\ call[p] \in Tasks /\ call[p] # NoTask
         /\ pushed' = Append(pushed, call[p])
         /\ Entries(pushed') = Entries(pushed) \cup {call[p]}
         /\ cpc'[Loop] = "out" <=> cpc[Loop] = "out"
         /\ cpc'[Loop] = "err" <=> cpc[Loop] = "err"
         /\ UNCHANGED <<blocked, got, cancelled, popped>>
         /\ UNCHANGED <<wg, running, loopPc, job, exitQueue, registered, exited, kind, panic, ran>>
<1> USE DEF Loop
<1>1. call[p] \in Tasks /\ call[p] # NoTask
  BY DEF CallInv, Created, SchedulePush
<1>2. pushed' = Append(pushed, call[p]) /\ Q!Notify
  BY DEF SchedulePush, Q!Push, RunningInv
<1>3. Entries(pushed') = Entries(pushed) \cup {call[p]}
  <2>1. pushed \in Seq(Tasks)
    BY DEF TypeOK, Q!TypeOK
  <2>2. /\ DOMAIN pushed = 1 .. Len(pushed) /\ Len(pushed) \in Nat
        /\ DOMAIN pushed' = 1 .. Len(pushed) + 1
        /\ \A i \in 1 .. Len(pushed) : pushed'[i] = pushed[i]
        /\ pushed'[Len(pushed) + 1] = call[p]
    BY <1>1, <1>2, <2>1, AppendProperties
  <2> QED
    BY <2>2 DEF Entries
<1>4. (cpc'[Loop] = "out" <=> cpc[Loop] = "out") /\ (cpc'[Loop] = "err" <=> cpc[Loop] = "err")
  <2>1. cpc \in [{"loop"} -> Q!ConsumerStates]
    BY DEF TypeOK, Q!TypeOK
  <2> QED
    BY <1>2, <2>1 DEF Q!Notify, Q!Parked
<1>5. /\ UNCHANGED <<blocked, got, cancelled, popped>>
      /\ UNCHANGED <<wg, running, loopPc, job, exitQueue, registered, exited, kind, panic, ran>>
  BY DEF SchedulePush, Q!Push, exitVars
<1> QED
  BY <1>1, <1>2, <1>3, <1>4, <1>5

LEMMA HeadFacts ==
  ASSUME TypeOK, LoopHead
  PROVE  /\ loopPc = "head" /\ cpc[Loop] = "out"
         /\ IF running THEN loopPc' = "popwait" /\ cpc'[Loop] = "pop"
                       ELSE loopPc' = "exit" /\ cpc'[Loop] = "out"
         /\ UNCHANGED <<items, blocked, got, cancelled, pushed, popped>>
         /\ UNCHANGED <<wg, running, job, exitQueue, registered, exited, kind, call, waits, mainPc, panic, ran>>
BY DEF Loop, TypeOK, Q!TypeOK, LoopHead, Q!PopWaitCall, Q!Goto, qVars, exitVars, callVars

-----------------------------------------------------------------------------
(* Each part of the invariant is preserved.                                *)

LEMMA CallStep ==
  ASSUME LoopInv, [Next]_vars
  PROVE  CallInv'
<1> USE DEF LoopInv, CallInv
<1>1. TypeOK /\ CallInv /\ RunningInv
  OBVIOUS
<1>2. ASSUME NEW p \in Callers, NEW t \in Tasks, NEW k \in Kinds, ScheduleAdd(p, t, k),
             k # "unused", k = "stop" => t = StopTask
      PROVE  CallInv'
  <2>1. /\ call' = [call EXCEPT ![p] = t] /\ kind' = [kind EXCEPT ![t] = k]
        /\ kind[t] = "unused" /\ pushed' = pushed
    BY <1>2 DEF ScheduleAdd, qVars
  <2>2. call \in [Callers -> Tasks \cup {NoTask}] /\ kind \in [Tasks -> Kinds]
    BY DEF TypeOK
  <2>3. Created' = Created \cup {t} /\ t \notin Created
    BY <1>2, <2>1, <2>2 DEF Created
  <2> QED
    BY <1>2, <2>1, <2>2, <2>3, LoopAssumption DEF Entries
<1>3. ASSUME NEW p \in Callers, NEW t \in Tasks, NEW k \in Kinds, Schedule(p, t, k)
      PROVE  CallInv'
  BY <1>2, <1>3 DEF Schedule, KindsOf
<1>4. CASE Stop
  BY <1>2, <1>4, LoopAssumption DEF Stop, Callers, Main, Kinds
<1>5. ASSUME NEW p \in Callers, SchedulePush(p) PROVE CallInv'
  <2>1. call' = [call EXCEPT ![p] = NoTask] /\ kind' = kind
    BY <1>5 DEF SchedulePush
  <2>2. Entries(pushed') = Entries(pushed) \cup {call[p]} /\ call[p] # NoTask
    BY <1>1, <1>5, PushFacts
  <2>3. call \in [Callers -> Tasks \cup {NoTask}]
    BY DEF TypeOK
  <2> QED
    BY <2>1, <2>2, <2>3 DEF Created
<1>6. ASSUME UNCHANGED <<kind, call, pushed>> PROVE CallInv'
  BY <1>6 DEF Created, Entries
<1>7. CASE LoopPop
  BY <1>1, <1>6, <1>7, PopFacts DEF rest
<1>8. CASE LoopGot
  BY <1>1, <1>6, <1>8, GotFacts
<1>9. CASE LoopHead
  BY <1>1, <1>6, <1>9, HeadFacts
<1>10. ASSUME \/ TaskEnds \/ TaskDone \/ ExitPop \/ ExitEnds \/ RunEnds \/ LuaError
              \/ Start \/ Wait \/ WaitReturns
       PROVE  CallInv'
  BY <1>6, <1>10 DEF TaskEnds, TaskDone, ExitPop, ExitEnds, RunEnds, LuaError, Start,
     Wait, WaitReturns, qVars, callVars
<1>11. CASE Cancel
  BY <1>6, <1>11 DEF Cancel, Q!Cancel, callVars
<1>12. ASSUME NEW c \in Clients, Reply(c) PROVE CallInv'
  BY <1>6, <1>12 DEF Reply, qVars
<1>13. ASSUME NEW p \in Callers, NEW h \in Handlers, OnExit(p, h) PROVE CallInv'
  BY <1>6, <1>13 DEF OnExit, qVars, callVars
<1>14. CASE UNCHANGED vars
  BY <1>6, <1>14 DEF vars, qVars, callVars
<1> QED
  BY <1>3, <1>4, <1>5, <1>7, <1>8, <1>9, <1>10, <1>11, <1>12, <1>13, <1>14 DEF Next, LoopStep

\* The steps that neither touch the queue nor move the loop.
LEMMA Frame ==
  ASSUME \/ \E p \in Callers, t \in Tasks, k \in Kinds : ScheduleAdd(p, t, k)
         \/ \E p \in Callers, h \in Handlers : OnExit(p, h)
         \/ LuaError \/ Wait \/ WaitReturns \/ UNCHANGED vars
  PROVE  /\ UNCHANGED <<items, blocked, cpc, got, cancelled, pushed, popped>>
         /\ UNCHANGED <<running, loopPc, job, ran>>
BY DEF ScheduleAdd, OnExit, LuaError, Wait, WaitReturns, vars, qVars

LEMMA StopIsScheduled == Stop => \E p \in Callers, t \in Tasks, k \in Kinds : ScheduleAdd(p, t, k)
BY LoopAssumption DEF Stop, Callers, Main, Kinds

LEMMA ScheduleIsScheduled ==
  ASSUME NEW p \in Callers, NEW t \in Tasks, NEW k \in Kinds, Schedule(p, t, k)
  PROVE  \E q \in Callers, u \in Tasks, l \in Kinds : ScheduleAdd(q, u, l)
BY DEF Schedule

LEMMA PoppedStep ==
  ASSUME LoopInv, [Next]_vars
  PROVE  PoppedInv'
<1> USE DEF PoppedInv
<1>1. TypeOK /\ CallInv /\ RunningInv /\ PoppedInv
  BY DEF LoopInv
<1>2. ASSUME UNCHANGED <<running, loopPc, job, ran, got, popped>> PROVE PoppedInv'
  BY <1>1, <1>2
<1>3. ASSUME NEW p \in Callers, SchedulePush(p) PROVE PoppedInv'
  BY <1>1, <1>2, <1>3, PushFacts DEF SchedulePush
<1>4. CASE LoopPop
  <2>1. loopPc = "popwait" /\ UNCHANGED <<loopPc, job, ran>>
    BY <1>1, <1>4, PopFacts DEF rest
  <2>2. popped = ran
    BY <1>1, <1>4, PopFacts
  <2>3. \/ popped' = Append(popped, got'[Loop])
        \/ got'[Loop] = NoTask /\ popped' = popped
    BY <1>1, <1>4, PopFacts
  <2>4. got'[Loop] = NoTask => popped' = ran'
    BY <1>1, <1>4, <2>1, <2>2, PopFacts
  <2> QED
    BY <2>1, <2>2, <2>3, <2>4 DEF Closing
<1>5. CASE LoopGot
  <2>1. loopPc = "popwait" /\ ran' = ran
    BY <1>5 DEF LoopGot
  <2>2. IF cpc[Loop] = "job" /\ ~cancelled
          THEN loopPc' = "run" /\ job' = got[Loop]
          ELSE loopPc' = "exit" /\ job' = NoTask
    BY <1>5 DEF LoopGot
  <2> QED
    BY <1>1, <1>5, <2>1, <2>2, GotFacts DEF Closing
<1>6. CASE LoopHead
  BY <1>1, <1>6, HeadFacts DEF Closing, TypeOK, Q!TypeOK, Loop
<1>7. CASE TaskEnds
  <2>1. job \in Tasks /\ ran \in Seq(Tasks) /\ ran' = Append(ran, job)
    BY <1>1, <1>7 DEF TypeOK, TaskEnds
  <2>2. ran' # <<>> /\ ran'[Len(ran')] = job
    BY <2>1, AppendProperties
  <2>3. got[Loop] = NoTask
    BY <1>1, <1>7 DEF TypeOK, Q!TypeOK, Loop, TaskEnds
  <2> QED
    BY <1>1, <1>7, <2>1, <2>2, <2>3 DEF TaskEnds, qVars, Closing
<1>8. CASE TaskDone \/ (\E c \in Clients : Reply(c)) \/ RunEnds \/ ExitPop \/ ExitEnds
  <2>1. /\ UNCHANGED <<got, popped, ran>>
        /\ \/ loopPc' \in Closing /\ loopPc \in Closing
           \/ loopPc = "reply" /\ loopPc' = "finish" /\ job' = job
           \/ loopPc = "finish" /\ loopPc' = "head"
    BY <1>8 DEF TaskDone, Reply, RunEnds, ExitPop, ExitEnds, qVars, Closing
  <2> QED
    BY <1>1, <2>1 DEF Closing
<1>9. CASE Start
  <2>1. loopPc = "none"
    BY <1>9 DEF Start, LoopInv, ExitInv
  <2> QED
    BY <1>1, <1>9, <2>1 DEF Start, qVars, Closing
<1>10. CASE Cancel
  BY <1>2, <1>10 DEF Cancel, Q!Cancel
<1>11. ASSUME \/ \E p \in Callers, t \in Tasks, k \in Kinds : ScheduleAdd(p, t, k)
              \/ \E p \in Callers, h \in Handlers : OnExit(p, h)
              \/ LuaError \/ Wait \/ WaitReturns \/ UNCHANGED vars
       PROVE  PoppedInv'
  BY <1>2, <1>11, Frame
<1> QED
  BY <1>3, <1>4, <1>5, <1>6, <1>7, <1>8, <1>9, <1>10, <1>11, StopIsScheduled,
     ScheduleIsScheduled DEF Next, LoopStep

LEMMA RunningStep ==
  ASSUME LoopInv, [Next]_vars
  PROVE  RunningInv'
<1> USE DEF RunningInv
<1>1. TypeOK /\ CallInv /\ RunningInv
  BY DEF LoopInv
<1>2. ASSUME UNCHANGED <<running, loopPc, ran, cpc, cancelled, blocked>> PROVE RunningInv'
  BY <1>1, <1>2 DEF Stopped
<1>3. ASSUME NEW p \in Callers, SchedulePush(p) PROVE RunningInv'
  BY <1>1, <1>3, PushFacts DEF SchedulePush, Stopped
<1>4. CASE LoopPop
  BY <1>1, <1>4, PopFacts DEF rest, Closing
<1>5. CASE LoopGot
  <2>1. /\ loopPc = "popwait" /\ ran' = ran
        /\ running' = (running /\ ~(cpc[Loop] = "job" /\ cancelled))
        /\ loopPc' = IF cpc[Loop] = "job" /\ ~cancelled THEN "run" ELSE "exit"
    BY <1>5 DEF LoopGot
  <2>2. /\ cpc[Loop] = "job" \/ (cpc[Loop] = "err" /\ cancelled)
        /\ cpc'[Loop] = "out" /\ UNCHANGED <<blocked, cancelled>>
    BY <1>1, <1>5, GotFacts
  <2>3. IF cpc[Loop] = "job" /\ ~cancelled
          THEN loopPc' = "run" /\ running'
          ELSE loopPc' = "exit" /\ cancelled'
    BY <1>1, <2>1, <2>2
  <2> QED
    BY <1>1, <2>2, <2>3 DEF Closing
<1>6. CASE LoopHead
  BY <1>1, <1>6, HeadFacts DEF Closing, Stopped
<1>7. CASE TaskEnds
  <2>1. job \in Tasks /\ ran \in Seq(Tasks) /\ ran' = Append(ran, job)
    BY <1>1, <1>7 DEF TypeOK, TaskEnds
  <2>2. ran' # <<>> /\ ran'[Len(ran')] = job
    BY <2>1, AppendProperties
  <2>3. kind[job] = "stop" => job = StopTask
    BY <1>1, <2>1 DEF CallInv
  <2>4. running
    BY <1>1, <1>7 DEF TaskEnds
  <2>5. loopPc' \in {"reply", "finish"} /\ (~running' => kind[job] = "stop") /\ UNCHANGED <<cpc, cancelled, blocked>>
    BY <1>7, <2>4 DEF TaskEnds, qVars
  <2> QED
    BY <1>1, <2>2, <2>3, <2>5 DEF Stopped, Closing
<1>8. CASE TaskDone \/ (\E c \in Clients : Reply(c)) \/ RunEnds \/ ExitPop \/ ExitEnds
  <2>1. /\ UNCHANGED <<running, ran, cpc, cancelled, blocked>>
        /\ \/ loopPc' \in Closing /\ loopPc \in Closing
           \/ loopPc = "reply" /\ loopPc' = "finish"
           \/ loopPc = "finish" /\ loopPc' = "head"
    BY <1>8 DEF TaskDone, Reply, RunEnds, ExitPop, ExitEnds, qVars, Closing
  <2> QED
    BY <1>1, <2>1 DEF Closing, Stopped
<1>9. CASE Start
  BY <1>1, <1>9 DEF Start, qVars, Closing
<1>10. CASE Cancel
  BY <1>1, <1>10 DEF Cancel, Q!Cancel, Closing, Stopped
<1>11. ASSUME \/ \E p \in Callers, t \in Tasks, k \in Kinds : ScheduleAdd(p, t, k)
              \/ \E p \in Callers, h \in Handlers : OnExit(p, h)
              \/ LuaError \/ Wait \/ WaitReturns \/ UNCHANGED vars
       PROVE  RunningInv'
  BY <1>2, <1>11, Frame
<1> QED
  BY <1>3, <1>4, <1>5, <1>6, <1>7, <1>8, <1>9, <1>10, <1>11, StopIsScheduled,
     ScheduleIsScheduled DEF Next, LoopStep

LEMMA ExitStep ==
  ASSUME LoopInv, [Next]_vars
  PROVE  ExitInv'
<1> USE DEF ExitInv
<1>1. TypeOK /\ CallInv /\ RunningInv /\ ExitInv
  BY DEF LoopInv
<1>2. exited \in Seq(Handlers) /\ exitQueue \in Seq(Handlers) /\ registered \in Seq(Handlers)
  BY <1>1 DEF TypeOK
<1>3. ASSUME UNCHANGED <<exitQueue, registered, exited, loopPc, job>>,
             mainPc' = mainPc \/ (mainPc # "init" /\ mainPc' # "init"),
             StopTask \in Created' => StopTask \in Created \/ mainPc # "init"
      PROVE  ExitInv'
  BY <1>1, <1>3
<1>4. ASSUME UNCHANGED <<exitQueue, registered, exited, kind>>,
             mainPc' = mainPc \/ (mainPc # "init" /\ mainPc' # "init"),
             loopPc # "none" /\ loopPc' # "none",
             loopPc # "exitrun" /\ loopPc' # "exitrun",
             loopPc' = "done" => exitQueue = <<>>
      PROVE  ExitInv'
  BY <1>1, <1>4 DEF Created
<1>5. ASSUME NEW p \in Callers, NEW t \in Tasks, NEW k \in Kinds, Schedule(p, t, k)
      PROVE  ExitInv'
  BY <1>1, <1>3, <1>5 DEF Schedule, ScheduleAdd, exitVars, Created, TypeOK
<1>6. CASE Stop
  BY <1>1, <1>3, <1>6 DEF Stop, ScheduleAdd, exitVars
<1>7. ASSUME NEW p \in Callers, SchedulePush(p) PROVE ExitInv'
  <2>1. UNCHANGED <<exitQueue, registered, exited, loopPc, job, kind>>
    BY <1>1, <1>7, PushFacts
  <2>2. mainPc' = mainPc \/ (mainPc # "init" /\ mainPc' # "init")
    BY <1>1, <1>7 DEF SchedulePush, CallInv
  <2> QED
    BY <1>3, <2>1, <2>2 DEF Created
<1>8. ASSUME NEW p \in Callers, NEW h \in Handlers, OnExit(p, h) PROVE ExitInv'
  <2>1. /\ exitQueue' = Append(exitQueue, h) /\ registered' = Append(registered, h)
        /\ UNCHANGED <<exited, loopPc, job, mainPc, kind>>
    BY <1>8 DEF OnExit, callVars
  <2>2. loopPc \in {"none", "run", "exitrun"}
    BY <1>1, <1>8, LoopAssumption DEF OnExit, MaySchedule, Main, Loop
  <2> DEFINE middle == IF loopPc = "exitrun" THEN <<job>> ELSE <<>>
  <2>3. middle \in Seq(Handlers)
    BY <1>1 DEF TypeOK
  <2>4. exited \o middle \in Seq(Handlers)
    BY <1>2, <2>3, ConcatProperties
  <2>5. ASSUME NEW s \in Seq(Handlers)
        PROVE  s \o Append(exitQueue, h) = Append(s \o exitQueue, h)
    BY <1>2, <1>8, QP!AppendRight, LoopAssumption
  <2>6. registered' = (exited \o middle) \o exitQueue'
    BY <1>1, <2>1, <2>4, <2>5
  <2> QED
    BY <1>1, <2>1, <2>2, <2>6 DEF Created
<1>9. CASE LoopPop
  BY <1>1, <1>4, <1>9, PopFacts DEF rest
<1>10. CASE LoopGot
  <2>1. loopPc = "popwait" /\ loopPc' \in {"run", "exit"}
    BY <1>10 DEF LoopGot
  <2> QED
    BY <1>1, <1>4, <1>10, <2>1, GotFacts
<1>11. CASE LoopHead
  BY <1>1, <1>4, <1>11, HeadFacts
<1>12. CASE TaskEnds \/ (\E c \in Clients : Reply(c))
  BY <1>4, <1>12 DEF TaskEnds, Reply, exitVars, callVars
<1>13. CASE TaskDone \/ RunEnds
  BY <1>4, <1>13 DEF TaskDone, RunEnds, WgDone, exitVars, callVars
<1>14. CASE ExitPop
  <2>1. /\ loopPc = "exit" /\ loopPc' = "exitrun" /\ job' = Head(exitQueue)
        /\ exitQueue # <<>> /\ exitQueue' = Tail(exitQueue)
        /\ UNCHANGED <<registered, exited, mainPc, kind>>
    BY <1>14 DEF ExitPop, callVars
  <2>2. Head(exitQueue) \in Handlers /\ Tail(exitQueue) \in Seq(Handlers)
    BY <1>2, <2>1, HeadTailProperties
  <2>3. exited \o <<>> = exited
    BY <1>2, ConcatEmptySeq
  <2>4. Append(exited, Head(exitQueue)) \o Tail(exitQueue) = exited \o exitQueue
    BY <1>2, <2>1, QP!MoveHead, LoopAssumption
  <2>5. Append(exited, Head(exitQueue)) = exited \o <<Head(exitQueue)>>
    BY <1>2, <2>2, AppendIsConcat
  <2> QED
    BY <1>1, <2>1, <2>3, <2>4, <2>5 DEF Created
<1>15. CASE ExitEnds
  <2>1. /\ loopPc = "exitrun" /\ loopPc' = "exit" /\ exited' = Append(exited, job)
        /\ UNCHANGED <<exitQueue, registered, mainPc, kind>>
    BY <1>15 DEF ExitEnds, callVars
  <2>2. job \in Handlers
    BY <1>1, <2>1 DEF TypeOK
  <2>3. exited' = exited \o <<job>> /\ exited' \in Seq(Handlers)
    BY <1>2, <2>1, <2>2, AppendIsConcat, AppendProperties
  <2>4. exited' \o <<>> = exited'
    BY <2>3, ConcatEmptySeq
  <2> QED
    BY <1>1, <2>1, <2>3, <2>4 DEF Created
<1>16. CASE Start
  BY <1>1, <1>16 DEF Start, exitVars, callVars, Created
<1>17. CASE Wait \/ WaitReturns
  BY <1>3, <1>17 DEF Wait, WaitReturns, exitVars, callVars, Created
<1>18. CASE Cancel \/ LuaError \/ UNCHANGED vars
  BY <1>3, <1>18 DEF Cancel, LuaError, exitVars, callVars, vars, Created
<1> QED
  BY <1>5, <1>6, <1>7, <1>8, <1>9, <1>10, <1>11, <1>12, <1>13, <1>14, <1>15, <1>16, <1>17,
     <1>18 DEF Next, LoopStep

-----------------------------------------------------------------------------
(* The counter of the WaitGroup.                                           *)

\* What was executed is the beginning of what was pushed.
LEMMA RanIsPrefix ==
  ASSUME LoopInv, QP!QueueInv
  PROVE  /\ ran \in Seq(Tasks) /\ pushed \in Seq(Tasks) /\ Len(ran) <= Len(pushed)
         /\ \A i \in DOMAIN ran : i \in DOMAIN pushed /\ ran[i] = pushed[i]
         /\ loopPc = "run" => Len(ran) + 1 \in DOMAIN pushed /\ pushed[Len(ran) + 1] = job
         /\ \A i, j \in DOMAIN pushed : pushed[i] = pushed[j] => i = j
<1>1. /\ ran \in Seq(Tasks) /\ popped \in Seq(Tasks) /\ items \in Seq(Tasks)
      /\ pushed \in Seq(Tasks) /\ pushed = popped \o items
      /\ \A i, j \in DOMAIN pushed : pushed[i] = pushed[j] => i = j
  BY DEF LoopInv, TypeOK, QP!QueueInv, QP!TypeOK, QP!FifoExactlyOnce
<1>2. popped = ran \/ \E t \in Tasks : popped = Append(ran, t)
  BY DEF LoopInv, TypeOK, Q!TypeOK, PoppedInv, LoopStates, Closing, Loop
<1>3. /\ Len(ran) <= Len(popped) /\ Len(ran) \in Nat /\ Len(popped) \in Nat
      /\ \A i \in 1 .. Len(ran) : popped[i] = ran[i]
  BY <1>1, <1>2, AppendProperties
<1>4. /\ Len(pushed) = Len(popped) + Len(items) /\ Len(items) \in Nat
      /\ \A i \in 1 .. Len(popped) : pushed[i] = popped[i]
  BY <1>1, ConcatProperties
<1>5. loopPc = "run" => Len(ran) + 1 = Len(popped) /\ popped[Len(ran) + 1] = job
  BY <1>1, AppendProperties DEF LoopInv, PoppedInv, TypeOK
<1>6. DOMAIN ran = 1 .. Len(ran) /\ DOMAIN pushed = 1 .. Len(pushed)
  BY <1>1
<1> QED
  BY <1>1, <1>3, <1>4, <1>5, <1>6

LEMMA RanWasCreated ==
  ASSUME LoopInv, QP!QueueInv
  PROVE  /\ Entries(ran) \subseteq Entries(pushed)
         /\ Entries(pushed) \subseteq Created
         /\ loopPc = "run" => job \in Created /\ job \notin Entries(ran)
<1>1. Entries(ran) \subseteq Entries(pushed)
  BY RanIsPrefix DEF Entries
<1>2. Entries(pushed) \subseteq Created
  BY DEF LoopInv, CallInv
<1>3. ASSUME loopPc = "run" PROVE job \in Created /\ job \notin Entries(ran)
  <2>1. job \in Created
    BY <1>2, <1>3, RanIsPrefix DEF Entries
  <2>2. ASSUME NEW i \in DOMAIN ran, ran[i] = job PROVE FALSE
    <3>1. i \in DOMAIN pushed /\ pushed[i] = job /\ i # Len(ran) + 1
      BY <2>2, RanIsPrefix
    <3> QED
      BY <1>3, <3>1, RanIsPrefix
  <2> QED
    BY <2>1, <2>2 DEF Entries
<1> QED
  BY <1>1, <1>2, <1>3

LEMMA WgStep ==
  ASSUME LoopInv, QP!QueueInv, [Next]_vars
  PROVE  WgBalance'
<1>1. TypeOK /\ CallInv /\ RunningInv /\ PoppedInv /\ ExitInv /\ WgBalance
  BY DEF LoopInv
<1>2. IsFiniteSet(Unfinished) /\ Cardinality(Unfinished) \in Nat
  BY LoopAssumption, FS_Subset, FS_CardinalityType DEF Unfinished, Created
<1>3. ASSUME Unfinished' = Unfinished, Alive' = Alive, wg' = wg PROVE WgBalance'
  BY <1>1, <1>3 DEF WgBalance
<1>4. ASSUME UNCHANGED <<wg, loopPc, job, ran, kind>> PROVE WgBalance'
  BY <1>3, <1>4 DEF Unfinished, Created, Alive, Entries
<1>5. ASSUME NEW p \in Callers, NEW t \in Tasks, NEW k \in Kinds, ScheduleAdd(p, t, k), k # "unused"
      PROVE  WgBalance'
  <2>1. /\ kind' = [kind EXCEPT ![t] = k] /\ kind[t] = "unused" /\ kind \in [Tasks -> Kinds]
        /\ wg' = wg + 1 /\ UNCHANGED <<loopPc, job, ran>>
    BY <1>1, <1>5 DEF ScheduleAdd, TypeOK
  <2>2. Created' = Created \cup {t} /\ t \notin Created
    BY <1>5, <2>1 DEF Created
  <2>3. t \notin Entries(ran)
    BY <2>2, RanWasCreated
  <2>4. Unfinished' = Unfinished \cup {t} /\ t \notin Unfinished
    BY <2>1, <2>2, <2>3 DEF Unfinished, Entries
  <2>5. Cardinality(Unfinished') = Cardinality(Unfinished) + 1
    BY <1>2, <2>4, FS_AddElement
  <2> QED
    BY <1>1, <1>2, <2>1, <2>5 DEF WgBalance, Alive
<1>6. ASSUME NEW p \in Callers, NEW t \in Tasks, NEW k \in Kinds, Schedule(p, t, k)
      PROVE  WgBalance'
  BY <1>5, <1>6 DEF Schedule, KindsOf
<1>7. CASE Stop
  BY <1>5, <1>7, LoopAssumption DEF Stop, Callers, Main, Kinds
<1>8. ASSUME NEW p \in Callers, SchedulePush(p) PROVE WgBalance'
  BY <1>1, <1>4, <1>8, PushFacts
<1>9. CASE LoopPop
  BY <1>1, <1>4, <1>9, PopFacts DEF rest
<1>10. CASE LoopGot \/ LoopHead
  <2>1. /\ loopPc \in {"popwait", "head"} /\ loopPc' \in {"popwait", "run", "exit"}
        /\ UNCHANGED <<wg, ran, kind>>
    BY <1>10 DEF LoopGot, LoopHead, callVars
  <2> QED
    BY <1>3, <2>1 DEF Unfinished, Created, Alive, Entries
<1>11. CASE TaskEnds
  <2>1. /\ loopPc = "run" /\ loopPc' \in {"reply", "finish"} /\ ran' = Append(ran, job)
        /\ UNCHANGED <<wg, job, kind>>
    BY <1>11 DEF TaskEnds, callVars
  <2>2. ran \in Seq(Tasks) /\ job \in Tasks
    BY <1>1, <2>1 DEF TypeOK
  <2>3. /\ DOMAIN ran = 1 .. Len(ran) /\ Len(ran) \in Nat
        /\ DOMAIN ran' = 1 .. Len(ran) + 1
        /\ \A i \in 1 .. Len(ran) : ran'[i] = ran[i]
        /\ ran'[Len(ran) + 1] = job
    BY <2>1, <2>2, AppendProperties
  <2>4. Entries(ran') = Entries(ran) \cup {job}
    BY <2>3 DEF Entries
  <2>5. job \in Created /\ job \notin Entries(ran)
    BY <2>1, RanWasCreated
  <2>6. Unfinished' = Unfinished
    BY <2>1, <2>4, <2>5 DEF Unfinished, Created, Entries
  <2> QED
    BY <1>3, <2>1, <2>6 DEF Alive
<1>12. CASE \E c \in Clients : Reply(c)
  BY <1>3, <1>12 DEF Reply, Unfinished, Created, Alive, Entries
<1>13. CASE TaskDone
  <2>1. /\ loopPc = "finish" /\ loopPc' = "head" /\ wg' = wg - 1
        /\ UNCHANGED <<ran, kind>>
    BY <1>13 DEF TaskDone, WgDone, callVars
  <2>2. job \in Entries(ran)
    <3>1. ran # <<>> /\ ran[Len(ran)] = job /\ ran \in Seq(Tasks)
      BY <1>1, <2>1 DEF PoppedInv, TypeOK
    <3>2. Len(ran) \in DOMAIN ran
      BY <3>1
    <3> QED
      BY <3>1, <3>2 DEF Entries
  <2>3. job \in Created
    BY <2>2, RanWasCreated
  <2>4. job \in Unfinished /\ Unfinished' = Unfinished \ {job}
    BY <2>1, <2>2, <2>3 DEF Unfinished, Created, Entries
  <2>5. Cardinality(Unfinished') = Cardinality(Unfinished) - 1
    BY <1>2, <2>4, FS_RemoveElement
  <2> QED
    BY <1>1, <1>2, <2>1, <2>5 DEF WgBalance, Alive
<1>14. CASE ExitPop \/ ExitEnds
  <2>1. /\ loopPc \in {"exit", "exitrun"} /\ loopPc' \in {"exit", "exitrun"}
        /\ UNCHANGED <<wg, ran, kind>>
    BY <1>14 DEF ExitPop, ExitEnds, callVars
  <2> QED
    BY <1>3, <2>1 DEF Unfinished, Created, Alive, Entries
<1>15. CASE RunEnds
  <2>1. /\ loopPc = "exit" /\ loopPc' = "done" /\ wg' = wg - 1 /\ UNCHANGED <<ran, kind>>
    BY <1>15 DEF RunEnds, WgDone, callVars
  <2>2. Unfinished' = Unfinished
    BY <2>1 DEF Unfinished, Created, Entries
  <2> QED
    BY <1>1, <1>2, <2>1, <2>2 DEF WgBalance, Alive
<1>16. CASE Start
  <2>1. loopPc = "none" /\ loopPc' = "head" /\ wg' = wg + 1 /\ UNCHANGED <<ran, kind>>
    BY <1>1, <1>16 DEF Start, callVars, ExitInv
  <2>2. Unfinished' = Unfinished
    BY <2>1 DEF Unfinished, Created, Entries
  <2> QED
    BY <1>1, <1>2, <2>1, <2>2 DEF WgBalance, Alive
<1>17. ASSUME NEW p \in Callers, NEW h \in Handlers, OnExit(p, h) PROVE WgBalance'
  BY <1>4, <1>17 DEF OnExit, callVars
<1>18. CASE Wait \/ WaitReturns \/ Cancel \/ LuaError \/ UNCHANGED vars
  BY <1>4, <1>18 DEF Wait, WaitReturns, Cancel, LuaError, callVars, vars
<1> QED
  BY <1>6, <1>7, <1>8, <1>9, <1>10, <1>11, <1>12, <1>13, <1>14, <1>15, <1>16, <1>17,
     <1>18 DEF Next, LoopStep

-----------------------------------------------------------------------------
(* The types.                                                              *)

\* The counter never goes below zero: what is decremented was counted.
LEMMA WgPositive ==
  ASSUME LoopInv, QP!QueueInv
  PROVE  loopPc \in {"finish", "exit"} => wg - 1 \in Nat
<1>1. IsFiniteSet(Unfinished) /\ Cardinality(Unfinished) \in Nat
  BY LoopAssumption, FS_Subset, FS_CardinalityType DEF Unfinished, Created
<1> QED
  BY <1>1 DEF LoopInv, WgBalance, Alive

LEMMA TypeStep ==
  ASSUME LoopInv, QP!QueueInv, QP!QueueInv', [Next]_vars
  PROVE  TypeOK'
<1>1. TypeOK /\ CallInv /\ RunningInv /\ PoppedInv /\ ExitInv
  BY DEF LoopInv
<1>2. Q!TypeOK'
  BY DEF QP!QueueInv, QP!TypeOK, Q!TypeOK, QP!ConsumerStates, Q!ConsumerStates
<1> DEFINE JobOK ==
      /\ loopPc \in {"run", "reply", "finish"} => job \in Tasks
      /\ loopPc = "exitrun" => job \in Handlers
      /\ loopPc \notin {"run", "reply", "finish", "exitrun"} => job = NoTask
      /\ loopPc = "popwait" <=> cpc[Loop] # "out"
      /\ loopPc \in LoopStates
      /\ running \in BOOLEAN
<1> DEFINE HistoryOK ==
      /\ exitQueue \in Seq(Handlers) /\ registered \in Seq(Handlers) /\ exited \in Seq(Handlers)
      /\ ran \in Seq(Tasks)
<1> DEFINE CallerOK ==
      /\ kind \in [Tasks -> Kinds]
      /\ call \in [Callers -> Tasks \cup {NoTask}]
      /\ waits \in [Clients -> Tasks \cup {NoTask}]
<1> DEFINE MainOK == wg \in Nat /\ mainPc \in MainStates /\ panic \in {"none", "lua", "waitgroup"}
<1>3. JobOK /\ HistoryOK /\ CallerOK /\ MainOK
  BY <1>1 DEF TypeOK
<1>4. JobOK'
  <2>1. CASE UNCHANGED <<loopPc, job, running, cpc>>
    BY <1>3, <2>1
  <2>2. ASSUME NEW p \in Callers, SchedulePush(p) PROVE JobOK'
    BY <1>1, <1>3, <2>2, PushFacts
  <2>3. CASE LoopPop
    BY <1>1, <1>3, <2>3, PopFacts DEF rest
  <2>4. CASE LoopHead
    BY <1>1, <1>3, <2>4, HeadFacts DEF LoopStates
  <2>5. CASE LoopGot
    <3>1. cpc'[Loop] = "out" /\ (cpc[Loop] = "job" => got[Loop] \in Tasks)
      BY <1>1, <2>5, GotFacts
    <3> QED
      BY <1>3, <2>5, <3>1 DEF LoopGot, LoopStates
  <2>6. CASE TaskEnds \/ (\E c \in Clients : Reply(c)) \/ TaskDone \/ ExitEnds \/ RunEnds
    BY <1>3, <2>6 DEF TaskEnds, Reply, TaskDone, ExitEnds, RunEnds, qVars, LoopStates
  <2>7. CASE ExitPop
    BY <1>3, <2>7, HeadTailProperties DEF ExitPop, qVars, LoopStates
  <2>8. CASE Start
    BY <1>1, <1>3, <2>8 DEF Start, qVars, LoopStates, ExitInv
  <2>9. CASE Cancel
    BY <2>1, <2>9 DEF Cancel, Q!Cancel
  <2>10. ASSUME \/ \E p \in Callers, t \in Tasks, k \in Kinds : ScheduleAdd(p, t, k)
                \/ \E p \in Callers, h \in Handlers : OnExit(p, h)
                \/ LuaError \/ Wait \/ WaitReturns \/ UNCHANGED vars
         PROVE  JobOK'
    BY <2>1, <2>10, Frame
  <2> QED
    BY <2>2, <2>3, <2>4, <2>5, <2>6, <2>7, <2>8, <2>9, <2>10, StopIsScheduled,
       ScheduleIsScheduled DEF Next, LoopStep
<1>5. HistoryOK'
  <2>1. CASE UNCHANGED <<exitQueue, registered, exited, ran>>
    BY <1>3, <2>1
  <2>2. CASE TaskEnds
    BY <1>3, <2>2, AppendProperties DEF TaskEnds, exitVars
  <2>3. CASE ExitPop
    BY <1>3, <2>3, HeadTailProperties DEF ExitPop
  <2>4. CASE ExitEnds
    BY <1>3, <2>4, AppendProperties DEF ExitEnds
  <2>5. ASSUME NEW p \in Callers, NEW h \in Handlers, OnExit(p, h) PROVE HistoryOK'
    BY <1>3, <2>5, AppendProperties DEF OnExit
  <2>6. ASSUME NEW p \in Callers, SchedulePush(p) PROVE HistoryOK'
    BY <2>1, <2>6 DEF SchedulePush, exitVars
  <2>7. ASSUME NEW p \in Callers, NEW t \in Tasks, NEW k \in Kinds, ScheduleAdd(p, t, k)
        PROVE  HistoryOK'
    BY <2>1, <2>7 DEF ScheduleAdd, exitVars
  <2>8. ASSUME \/ LoopHead \/ LoopPop \/ LoopGot \/ TaskDone \/ RunEnds \/ LuaError
               \/ Start \/ Wait \/ WaitReturns \/ Cancel \/ UNCHANGED vars
        PROVE  HistoryOK'
    BY <2>1, <2>8 DEF LoopHead, LoopPop, LoopGot, TaskDone, RunEnds, LuaError, Start, Wait,
       WaitReturns, Cancel, exitVars, vars
  <2>9. CASE \E c \in Clients : Reply(c)
    BY <2>1, <2>9 DEF Reply, exitVars
  <2> QED
    BY <2>2, <2>3, <2>4, <2>5, <2>6, <2>7, <2>8, <2>9, StopIsScheduled,
       ScheduleIsScheduled DEF Next, LoopStep
<1>6. CallerOK'
  <2>1. CASE UNCHANGED <<kind, call, waits>>
    BY <1>3, <2>1
  <2>2. ASSUME NEW p \in Callers, NEW t \in Tasks, NEW k \in Kinds, ScheduleAdd(p, t, k)
        PROVE  CallerOK'
    BY <1>3, <2>2 DEF ScheduleAdd
  <2>3. ASSUME NEW p \in Callers, SchedulePush(p) PROVE CallerOK'
    <3>1. call[p] \in Tasks
      BY <1>1, <2>3, PushFacts
    <3> QED
      BY <1>3, <2>3, <3>1 DEF SchedulePush
  <2>4. ASSUME NEW c \in Clients, Reply(c) PROVE CallerOK'
    BY <1>3, <2>4 DEF Reply
  <2>5. ASSUME NEW p \in Callers, NEW h \in Handlers, OnExit(p, h) PROVE CallerOK'
    BY <2>1, <2>5 DEF OnExit, callVars
  <2>6. ASSUME \/ LoopHead \/ LoopPop \/ LoopGot \/ TaskEnds \/ TaskDone \/ ExitPop \/ ExitEnds
               \/ RunEnds \/ LuaError \/ Start \/ Wait \/ WaitReturns \/ Cancel \/ UNCHANGED vars
        PROVE  CallerOK'
    BY <2>1, <2>6 DEF LoopHead, LoopPop, LoopGot, TaskEnds, TaskDone, ExitPop, ExitEnds, RunEnds,
       LuaError, Start, Wait, WaitReturns, Cancel, callVars, vars
  <2> QED
    BY <2>2, <2>3, <2>4, <2>5, <2>6, StopIsScheduled, ScheduleIsScheduled DEF Next, LoopStep
<1>7. MainOK'
  <2>1. CASE UNCHANGED <<wg, mainPc, panic>>
    BY <1>3, <2>1
  <2>2. ASSUME NEW p \in Callers, NEW t \in Tasks, NEW k \in Kinds, ScheduleAdd(p, t, k)
        PROVE  MainOK'
    BY <1>3, <2>2 DEF ScheduleAdd
  <2>3. ASSUME NEW p \in Callers, SchedulePush(p) PROVE MainOK'
    BY <1>3, <2>3 DEF SchedulePush, MainStates
  <2>4. CASE TaskDone \/ RunEnds
    BY <1>3, <2>4, WgPositive DEF TaskDone, RunEnds, WgDone, MainStates
  <2>5. CASE Start \/ Wait \/ WaitReturns \/ LuaError
    BY <1>3, <2>5 DEF Start, Wait, WaitReturns, LuaError, MainStates
  <2>6. ASSUME \/ LoopHead \/ LoopPop \/ LoopGot \/ TaskEnds \/ ExitPop \/ ExitEnds
               \/ Cancel \/ UNCHANGED vars
        PROVE  MainOK'
    BY <2>1, <2>6 DEF LoopHead, LoopPop, LoopGot, TaskEnds, ExitPop, ExitEnds, Cancel, vars
  <2>7. CASE \E c \in Clients : Reply(c)
    BY <2>1, <2>7 DEF Reply
  <2>8. CASE \E p \in Callers, h \in Handlers : OnExit(p, h)
    BY <2>1, <2>8 DEF OnExit
  <2> QED
    BY <2>2, <2>3, <2>4, <2>5, <2>6, <2>7, <2>8, StopIsScheduled, ScheduleIsScheduled
    DEF Next, LoopStep
<1> QED
  BY <1>2, <1>4, <1>5, <1>6, <1>7 DEF TypeOK

-----------------------------------------------------------------------------
(* The theorems.                                                           *)

\* The inductive invariant, together with the one of the queue, holds in every
\* reachable state of the loop.
THEOREM LoopSafe == Spec => [](LoopInv /\ QP!QueueInv)
<1>1. Init => LoopInv /\ QP!QueueInv
  BY LoopInit
<1>2. LoopInv /\ QP!QueueInv /\ [Next]_vars => (LoopInv /\ QP!QueueInv)'
  <2> SUFFICES ASSUME LoopInv, QP!QueueInv, [Next]_vars
               PROVE  LoopInv' /\ QP!QueueInv'
    OBVIOUS
  <2>1. QP!QueueInv'
    <3>1. CallInv
      BY DEF LoopInv
    <3> QED
      BY <3>1, QueueSimulation, QP!QueueStep, LoopAssumption
  <2>2. TypeOK'
    BY <2>1, TypeStep
  <2> QED
    BY <2>1, <2>2, CallStep, PoppedStep, RunningStep, ExitStep, WgStep DEF LoopInv
<1> QED
  BY <1>1, <1>2, PTL DEF Spec

\* Type correctness of the loop and of its queue.
THEOREM LoopTyped == Spec => []TypeOK
<1>1. LoopInv => TypeOK
  BY DEF LoopInv
<1> QED
  BY <1>1, LoopSafe, PTL

\* The WaitGroup counts the unfinished tasks and the loop: Add and Done pair up
\* whatever the order in which the goroutines schedule.
THEOREM LoopCounts == Spec => []WgBalance
<1>1. LoopInv => WgBalance
  BY DEF LoopInv
<1> QED
  BY <1>1, LoopSafe, PTL

\* A loop that was not cancelled has executed, when it stops, exactly the tasks
\* pushed before Stop, in that order.
THEOREM LoopBarrier == Spec => []StopIsABarrier
<1>1. LoopInv /\ QP!QueueInv => StopIsABarrier
  BY RanIsPrefix DEF LoopInv, RunningInv, StopIsABarrier, Closing
<1> QED
  BY <1>1, LoopSafe, PTL

\* The counter is zero only when nothing is left to do.
LEMMA ZeroMeansQuiet ==
  ASSUME LoopInv, QP!QueueInv, wg = 0, mainPc # "init"
  PROVE  loopPc = "done" /\ InCall = {} /\ Created \subseteq Entries(ran) /\ registered = exited
<1>1. IsFiniteSet(Unfinished) /\ Cardinality(Unfinished) \in Nat
  BY LoopAssumption, FS_Subset, FS_CardinalityType DEF Unfinished, Created
<1>2. Cardinality(Unfinished) = 0 /\ ~Alive
  BY <1>1 DEF LoopInv, WgBalance
<1>3. loopPc = "done"
  BY <1>2 DEF Alive, LoopInv, ExitInv
<1>4. Unfinished = {}
  BY <1>1, <1>2, FS_EmptySet
<1>5. Created \subseteq Entries(ran)
  BY <1>4 DEF Unfinished
<1>6. InCall = {}
  <2>1. Entries(ran) \subseteq Entries(pushed)
    BY RanWasCreated
  <2> QED
    BY <1>5, <2>1 DEF InCall, LoopInv, CallInv
<1>7. registered = exited
  <2>1. exited \in Seq(Handlers) /\ exited \o <<>> = exited
    BY ConcatEmptySeq DEF LoopInv, TypeOK
  <2> QED
    BY <1>3, <2>1 DEF LoopInv, ExitInv
<1> QED
  BY <1>3, <1>5, <1>6, <1>7

\* When Wait returns, the loop has ended and everything that was scheduled by
\* any goroutine was executed.
THEOREM LoopWait == Spec => WaitQuiesces
<1>1. ASSUME LoopInv, QP!QueueInv, [Next]_vars, mainPc # "returned", mainPc' = "returned"
      PROVE  loopPc = "done" /\ InCall = {} /\ Created \subseteq Entries(ran) /\ registered = exited
  <2>1. Wait \/ WaitReturns
    <3>1. TypeOK /\ CallInv /\ RunningInv
      BY <1>1 DEF LoopInv
    <3>2. ASSUME NEW p \in Callers, SchedulePush(p) PROVE mainPc' # "returned"
      BY <1>1, <3>2 DEF SchedulePush
    <3>3. CASE LoopPop \/ LoopHead
      BY <1>1, <3>1, <3>3, PopFacts, HeadFacts DEF rest
    <3>4. ASSUME \/ \E p \in Callers, t \in Tasks, k \in Kinds : ScheduleAdd(p, t, k)
                 \/ \E p \in Callers, h \in Handlers : OnExit(p, h)
                 \/ \E c \in Clients : Reply(c)
                 \/ LoopGot \/ TaskEnds \/ TaskDone \/ ExitPop \/ ExitEnds \/ RunEnds
                 \/ LuaError \/ Start \/ Cancel \/ UNCHANGED vars
          PROVE  mainPc' # "returned"
      BY <1>1, <3>4 DEF ScheduleAdd, OnExit, Reply, LoopGot, TaskEnds, TaskDone, ExitPop,
         ExitEnds, RunEnds, WgDone, LuaError, Start, Cancel, vars
    <3> QED
      BY <1>1, <3>2, <3>3, <3>4, StopIsScheduled, ScheduleIsScheduled DEF Next, LoopStep
  <2>2. wg = 0 /\ mainPc # "init"
    BY <1>1, <2>1 DEF Wait, WaitReturns
  <2> QED
    BY <1>1, <2>2, ZeroMeansQuiet
<1>2. LoopInv /\ QP!QueueInv /\ [Next]_vars =>
        [mainPc # "returned" /\ mainPc' = "returned" =>
           /\ loopPc = "done"
           /\ InCall = {}
           /\ Created \subseteq Entries(ran)
           /\ registered = exited]_vars
  BY <1>1
<1> QED
  BY <1>2, LoopSafe, PTL DEF Spec, WaitQuiesces

-----------------------------------------------------------------------------
(* The refinement.                                                         *)

\* The variables of SerialExecutor, as the loop implements them.
Active == IF loopPc = "run" THEN job ELSE NoTask
Exiting == IF loopPc = "exitrun" THEN job ELSE NoTask
execState == <<Phase, Pending, Active, ran, exitQueue, Exiting, exited>>

LEMMA ExecStutter == UNCHANGED execState => UNCHANGED Exec!execVars
BY DEF execState, Exec!execVars, Active, Exiting

LEMMA ExecInit == Init => Exec!Init
<1> SUFFICES ASSUME Init PROVE Exec!Init
  OBVIOUS
<1>1. loopPc = "none" /\ got[Loop] = NoTask /\ items = <<>>
  BY DEF Init, Q!Init, Loop
<1> QED
  BY <1>1 DEF Init, Exec!Init, Phase, Pending

\* Every step of the loop is a step of the executor or changes nothing in it.
LEMMA ExecStep ==
  ASSUME LoopInv, [Next]_vars
  PROVE  [Exec!Next]_(Exec!execVars)
<1>1. TypeOK /\ CallInv /\ RunningInv /\ ExitInv
  BY DEF LoopInv
<1>2. /\ items \in Seq(Tasks)
      /\ got[Loop] \in Tasks \cup {NoTask}
      /\ got[Loop] # NoTask <=> cpc[Loop] = "job"
      /\ loopPc # "popwait" => cpc[Loop] = "out" /\ got[Loop] = NoTask
  BY <1>1 DEF TypeOK, Q!TypeOK, Loop
<1>3. ASSUME UNCHANGED <<items, got, loopPc, job, ran, exitQueue, exited>>
      PROVE  UNCHANGED Exec!execVars
  BY <1>3, ExecStutter DEF execState, Phase, Pending, Active, Exiting
<1>4. ASSUME NEW p \in Callers, SchedulePush(p) PROVE Exec!Next
  <2>1. /\ call[p] \in Tasks
        /\ UNCHANGED <<got, loopPc, job, ran, exitQueue, exited>>
    BY <1>1, <1>4, PushFacts
  <2>2. items' = Append(items, call[p])
    BY <1>1, <1>4 DEF SchedulePush, Q!Push, RunningInv
  <2>3. Pending' = Append(Pending, call[p])
    <3>1. CASE got[Loop] = NoTask
      BY <2>1, <2>2, <3>1 DEF Pending
    <3>2. CASE got[Loop] # NoTask
      <4>1. <<got[Loop]>> \in Seq(Tasks)
        BY <1>2, <3>2
      <4>2. <<got[Loop]>> \o Append(items, call[p]) = Append(<<got[Loop]>> \o items, call[p])
        BY <1>2, <2>1, <4>1, QP!AppendRight, LoopAssumption
      <4> QED
        BY <2>1, <2>2, <3>2, <4>2 DEF Pending
    <3> QED
      BY <3>1, <3>2
  <2>4. Exec!Submit(call[p])
    BY <2>1, <2>3 DEF Exec!Submit, Phase
  <2> QED
    BY <2>1, <2>4 DEF Exec!Next
<1>5. CASE LoopPop
  <2>1. UNCHANGED <<loopPc, job, ran, exitQueue, exited>>
    BY <1>1, <1>5, PopFacts DEF rest
  <2>2. Pending' = Pending
    <3>1. CASE Q!PopJob(Loop)
      <4>1. items # <<>> /\ items' = Tail(items) /\ got' = [got EXCEPT ![Loop] = Head(items)]
        BY <3>1 DEF Q!PopJob
      <4>2. Head(items) \in Tasks /\ Tail(items) \in Seq(Tasks)
        BY <1>2, <4>1, HeadTailProperties
      <4>3. got'[Loop] = Head(items) /\ Head(items) # NoTask /\ got[Loop] = NoTask
        BY <1>1, <1>5, <4>1, <4>2, PopFacts, LoopAssumption DEF TypeOK, Q!TypeOK
      <4>4. <<Head(items)>> \o Tail(items) = items
        BY <1>2, <4>1
      <4> QED
        BY <4>1, <4>3, <4>4 DEF Pending
    <3>2. CASE Q!PopNil(Loop) \/ Q!CheckBlocked(Loop) \/ Q!Select(Loop) \/ Q!CancelWakes(Loop)
      BY <3>2 DEF Pending, Q!PopNil, Q!CheckBlocked, Q!Select, Q!CancelWakes
    <3> QED
      BY <1>5, <3>1, <3>2 DEF LoopPop, Q!PopWaitStep
  <2> QED
    BY <2>1, <2>2, ExecStutter DEF execState, Phase, Active, Exiting
<1>6. CASE LoopHead
  <2>1. /\ loopPc = "head" /\ loopPc' = IF running THEN "popwait" ELSE "exit"
        /\ UNCHANGED <<items, got, job, ran, exitQueue, exited>>
    BY <1>1, <1>6, HeadFacts
  <2>2. CASE running
    BY <2>1, <2>2, ExecStutter DEF execState, Phase, Pending, Active, Exiting
  <2>3. CASE ~running
    <3>1. Exec!Close
      BY <2>1, <2>3 DEF Exec!Close, Phase, Pending
    <3> QED
      BY <3>1 DEF Exec!Next
  <2> QED
    BY <2>2, <2>3
<1>7. CASE LoopGot
  <2>1. /\ loopPc = "popwait" /\ UNCHANGED <<ran, exitQueue, exited>>
        /\ IF cpc[Loop] = "job" /\ ~cancelled
             THEN loopPc' = "run" /\ job' = got[Loop]
             ELSE loopPc' = "exit" /\ job' = NoTask
    BY <1>7 DEF LoopGot, exitVars
  <2>2. got'[Loop] = NoTask /\ items' = items
    BY <1>1, <1>7, GotFacts
  <2>3. Pending' = items
    BY <2>2 DEF Pending
  <2>4. CASE cpc[Loop] = "job"
    <3>1. got[Loop] \in Tasks /\ got[Loop] # NoTask
      BY <1>2, <2>4
    <3>2. Pending # <<>> /\ Head(Pending) = got[Loop] /\ Tail(Pending) = items
      BY <1>2, <3>1 DEF Pending
    <3>3. CASE cancelled
      <4>1. Exec!Close
        BY <2>1, <2>3, <2>4, <3>2, <3>3 DEF Exec!Close, Phase
      <4> QED
        BY <4>1 DEF Exec!Next
    <3>4. CASE ~cancelled
      <4>1. Exec!Begin
        BY <2>1, <2>3, <2>4, <3>2, <3>4 DEF Exec!Begin, Phase
      <4> QED
        BY <4>1 DEF Exec!Next
    <3> QED
      BY <3>3, <3>4
  <2>5. CASE cpc[Loop] # "job"
    <3>1. Pending = items
      BY <1>2, <2>5 DEF Pending
    <3>2. Exec!Close
      BY <2>1, <2>3, <2>5, <3>1 DEF Exec!Close, Phase
    <3> QED
      BY <3>2 DEF Exec!Next
  <2> QED
    BY <2>4, <2>5
<1>8. CASE TaskEnds
  <2>1. /\ loopPc = "run" /\ loopPc' \in {"reply", "finish"} /\ ran' = Append(ran, job)
        /\ UNCHANGED <<items, got, job, exitQueue, exited>>
    BY <1>8 DEF TaskEnds, qVars, exitVars
  <2>2. job # NoTask
    BY <1>1, <2>1, LoopAssumption DEF TypeOK
  <2>3. Exec!Finish
    BY <2>1, <2>2 DEF Exec!Finish, Phase, Pending
  <2> QED
    BY <2>3 DEF Exec!Next
<1>9. CASE TaskDone \/ (\E c \in Clients : Reply(c))
  <2>1. /\ loopPc \in {"reply", "finish"} /\ loopPc' \in {"finish", "head"}
        /\ UNCHANGED <<items, got, ran, exitQueue, exited>>
    BY <1>9 DEF TaskDone, Reply, qVars, exitVars
  <2> QED
    BY <2>1, ExecStutter DEF execState, Phase, Pending, Active, Exiting
<1>10. ASSUME NEW p \in Callers, NEW h \in Handlers, OnExit(p, h) PROVE Exec!Next
  <2>1. /\ exitQueue' = Append(exitQueue, h)
        /\ UNCHANGED <<items, got, loopPc, job, ran, exited>>
    BY <1>10 DEF OnExit, qVars
  <2>2. loopPc # "done"
    BY <1>1, <1>10, LoopAssumption DEF OnExit, MaySchedule, ExitInv, Main, Loop
  <2>3. Exec!Register(h)
    BY <2>1, <2>2 DEF Exec!Register, Phase, Pending
  <2> QED
    BY <2>3 DEF Exec!Next
<1>11. CASE ExitPop
  <2>1. /\ loopPc = "exit" /\ loopPc' = "exitrun" /\ exitQueue # <<>>
        /\ job' = Head(exitQueue) /\ exitQueue' = Tail(exitQueue)
        /\ UNCHANGED <<items, got, ran, exited>>
    BY <1>11 DEF ExitPop, qVars
  <2>2. Exec!BeginExit
    BY <2>1 DEF Exec!BeginExit, Phase, Pending
  <2> QED
    BY <2>2 DEF Exec!Next
<1>12. CASE ExitEnds
  <2>1. /\ loopPc = "exitrun" /\ loopPc' = "exit" /\ exited' = Append(exited, job)
        /\ UNCHANGED <<items, got, ran, exitQueue>>
    BY <1>12 DEF ExitEnds, qVars
  <2>2. job # NoTask
    BY <1>1, <2>1, LoopAssumption DEF TypeOK
  <2>3. Exec!FinishExit
    BY <2>1, <2>2 DEF Exec!FinishExit, Phase, Pending
  <2> QED
    BY <2>3 DEF Exec!Next
<1>13. CASE RunEnds
  <2>1. /\ loopPc = "exit" /\ loopPc' = "done" /\ exitQueue = <<>>
        /\ UNCHANGED <<items, got, ran, exitQueue, exited>>
    BY <1>13 DEF RunEnds, qVars, exitVars
  <2>2. Exec!Closed
    BY <2>1 DEF Exec!Closed, Phase, Pending
  <2> QED
    BY <2>2 DEF Exec!Next
<1>14. CASE Start
  <2>1. loopPc = "none" /\ loopPc' = "head" /\ UNCHANGED <<items, got, ran, exitQueue, exited>>
    BY <1>1, <1>14 DEF Start, qVars, exitVars, ExitInv
  <2> QED
    BY <2>1, ExecStutter DEF execState, Phase, Pending, Active, Exiting
<1>15. ASSUME \/ \E p \in Callers, t \in Tasks, k \in Kinds : ScheduleAdd(p, t, k)
              \/ Wait \/ WaitReturns \/ LuaError \/ UNCHANGED vars
       PROVE  UNCHANGED Exec!execVars
  BY <1>3, <1>15 DEF ScheduleAdd, Wait, WaitReturns, LuaError, vars, qVars, exitVars
<1>16. CASE Cancel
  BY <1>3, <1>16 DEF Cancel, Q!Cancel, exitVars
<1> QED
  BY <1>4, <1>5, <1>6, <1>7, <1>8, <1>9, <1>10, <1>11, <1>12, <1>13, <1>14, <1>15, <1>16,
     StopIsScheduled, ScheduleIsScheduled DEF Next, LoopStep

\* The loop implements a serial executor: one task at a time in the order of
\* submission, then one exit handler at a time in the order of registration.
THEOREM LoopImplementsExecutor == Spec => ImplementsExecutor
<1>1. Init => Exec!Init
  BY ExecInit
<1>2. LoopInv /\ [Next]_vars => [Exec!Next]_(Exec!execVars)
  BY ExecStep
<1> QED
  BY <1>1, <1>2, LoopSafe, PTL DEF Spec, ImplementsExecutor, Exec!Spec
=============================================================================
