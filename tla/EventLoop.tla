------------------------------ MODULE EventLoop ------------------------------
(***************************************************************************)
(* The event loop (pkg/loop/loop.go): the goroutine that executes run, the *)
(* goroutines that schedule tasks on it, and the main goroutine, which     *)
(* creates, starts and stops the loop and waits for it (cmd/envel.go).     *)
(*                                                                         *)
(* The queue of tasks is the one of JobQueue, with the loop as its only    *)
(* consumer; nothing in the program blocks a loop's queue.  A step is one  *)
(* operation on state that two goroutines share: a call of WaitGroup.Add,  *)
(* of Queue.Push or of WaitGroup.Wait, a step of PopWait, the handshake on *)
(* the channel of ScheduleAndWait.  Lua code runs on the loop only (and on *)
(* the main goroutine before the loop starts).                             *)
(***************************************************************************)
EXTENDS Naturals, Sequences, FiniteSets

CONSTANTS
  Tasks,        \* the tasks that can be scheduled, each at most once
  StopTask,     \* the one that Stop schedules
  Handlers,     \* the exit handlers that can be registered, each at most once
  Clients,      \* goroutines that are neither the loop nor main
  NoTask,       \* no task, no handler
  Cancellable   \* whether the context given to Start can be cancelled

ASSUME LoopAssumption ==
  /\ IsFiniteSet(Tasks)
  /\ StopTask \in Tasks
  /\ NoTask \notin Tasks
  /\ NoTask \notin Handlers
  /\ "main" \notin Clients
  /\ "loop" \notin Clients
  /\ Cancellable \in BOOLEAN

VARIABLES
  items, blocked, cpc, got, cancelled, pushed, popped,  \* JobQueue: loop.queue
  wg,         \* the counter of loop.wg
  running,    \* loop.running
  loopPc,     \* where run is
  job,        \* the task or exit handler that run executes
  exitQueue,  \* the list of loop.exitQueue
  kind,       \* what each task is: see Kinds
  call,       \* the task of each goroutine between wg.Add and queue.Push
  waits,      \* the task whose channel each client receives from
  mainPc,     \* where the main goroutine is
  panic,      \* what made the process crash
  ran,        \* history: the tasks that were executed, in that order
  registered, \* history: the exit handlers registered, in that order
  exited      \* history: the exit handlers executed, in that order

Loop == "loop"
Main == "main"
Callers == Clients \cup {Loop, Main}

\* "async": scheduled by Go code (callbacks are called in protected mode);
\* "lua": a Lua function scheduled with __schedule, called unprotected;
\* "wait": scheduled by ScheduleAndWait; "stop": scheduled by Stop.
Kinds == {"unused", "async", "lua", "wait", "stop"}

LoopStates == {"none", "head", "popwait", "run", "reply", "finish", "exit", "exitrun", "done"}

\* "init": in New; "up": waits for a signal, or is in Stop; "wait": calls Wait;
\* "blocked": parked in it; "released": woken by the last Done.
MainStates == {"init", "up", "wait", "blocked", "released", "returned"}

Q == INSTANCE JobQueue WITH
       Jobs <- Tasks, Consumers <- {Loop}, NoJob <- NoTask

qVars == <<items, blocked, cpc, got, cancelled, pushed, popped>>
exitVars == <<exitQueue, registered, exited>>
callVars == <<kind, call, waits>>
vars == <<qVars, wg, running, loopPc, job, exitVars, callVars, mainPc, panic, ran>>

Entries(s) == {s[i] : i \in DOMAIN s}
Created == {t \in Tasks : kind[t] # "unused"}
InCall == {p \in Callers : call[p] # NoTask}

\* A loop between Start and the end of run.
Alive == loopPc \notin {"none", "done"}

\* The process ends when main returns or a goroutine panics.
Halted == panic # "none" \/ mainPc = "returned"

Init ==
  /\ Q!Init
  /\ wg = 0
  /\ running = FALSE
  /\ loopPc = "none"
  /\ job = NoTask
  /\ exitQueue = <<>>
  /\ kind = [t \in Tasks |-> "unused"]
  /\ call = [p \in Callers |-> NoTask]
  /\ waits = [c \in Clients |-> NoTask]
  /\ mainPc = "init"
  /\ panic = "none"
  /\ ran = <<>>
  /\ registered = <<>>
  /\ exited = <<>>

-----------------------------------------------------------------------------
(* Scheduling.                                                             *)

\* Lua code runs on main while New executes InitVM, then on the loop, in tasks
\* and in exit handlers.  The goroutines it starts schedule at any time.
MaySchedule(p) ==
  \/ p \in Clients /\ waits[p] = NoTask
  \/ p = Main /\ mainPc = "init"
  \/ p = Loop /\ loopPc \in {"run", "exitrun"}

KindsOf(p) == IF p \in Clients THEN {"async", "wait"} ELSE {"async", "lua"}

\* Mutant: the counter is not incremented.
ScheduleAddUncounted(p, t, k) ==
  /\ ~Halted
  /\ call[p] = NoTask
  /\ kind[t] = "unused"
  /\ call' = [call EXCEPT ![p] = t]
  /\ kind' = [kind EXCEPT ![t] = k]
  /\ UNCHANGED <<qVars, wg, running, loopPc, job, exitVars, waits, mainPc, panic, ran>>

\* loop.wg.Add(1) of Schedule: the task is counted before it is on the list.
ScheduleAdd(p, t, k) ==
  /\ ~Halted
  /\ call[p] = NoTask
  /\ kind[t] = "unused"
  /\ call' = [call EXCEPT ![p] = t]
  /\ kind' = [kind EXCEPT ![t] = k]
  /\ wg' = wg + 1
  /\ UNCHANGED <<qVars, running, loopPc, job, exitVars, waits, mainPc, panic, ran>>

\* Schedule, ScheduleAndWait and __schedule up to queue.Push.
Schedule(p, t, k) ==
  /\ MaySchedule(p)
  /\ t # StopTask
  /\ k \in KindsOf(p)
  /\ ScheduleAdd(p, t, k)

\* Mutant: Stop clears loop.running itself.
StopAtOnce ==
  /\ ~Halted
  /\ mainPc = "up"
  /\ mainPc' = "wait"
  /\ running' = FALSE
  /\ UNCHANGED <<qVars, wg, loopPc, job, exitVars, callVars, panic, ran>>

\* Stop: main schedules the task that clears loop.running.
Stop ==
  /\ mainPc = "up"
  /\ ScheduleAdd(Main, StopTask, "stop")

\* Mutant: nobody receives from the channel of ScheduleAndWait.
SchedulePushNoReceive(p) ==
  /\ ~Halted
  /\ call[p] # NoTask
  /\ Q!Push(call[p])
  /\ call' = [call EXCEPT ![p] = NoTask]
  /\ mainPc' = IF call[p] = StopTask THEN "wait" ELSE mainPc
  /\ UNCHANGED <<wg, running, loopPc, job, exitVars, kind, waits, panic, ran>>

\* queue.Push of Schedule.  ScheduleAndWait goes on to receive from its
\* channel, main goes on to Wait.
SchedulePush(p) ==
  /\ ~Halted
  /\ call[p] # NoTask
  /\ Q!Push(call[p])
  /\ call' = [call EXCEPT ![p] = NoTask]
  /\ waits' = IF kind[call[p]] = "wait" THEN [waits EXCEPT ![p] = call[p]] ELSE waits
  /\ mainPc' = IF call[p] = StopTask THEN "wait" ELSE mainPc
  /\ UNCHANGED <<wg, running, loopPc, job, exitVars, kind, panic, ran>>

\* on_exit, from InitVM or from a task or an exit handler.
OnExit(p, h) ==
  /\ ~Halted
  /\ p \in {Loop, Main}
  /\ MaySchedule(p)
  /\ call[p] = NoTask
  /\ h \notin Entries(registered)
  /\ exitQueue' = Append(exitQueue, h)
  /\ registered' = Append(registered, h)
  /\ UNCHANGED <<qVars, wg, running, loopPc, job, exited, callVars, mainPc, panic, ran>>

-----------------------------------------------------------------------------
(* loop.run.                                                               *)

\* loop.wg.Done(): at zero it releases the goroutine parked in Wait.
WgDone ==
  /\ wg' = wg - 1
  /\ mainPc' = IF wg = 1 /\ mainPc = "blocked" THEN "released" ELSE mainPc

\* The condition of the first loop of run, and the call of PopWait.
LoopHead ==
  /\ ~Halted
  /\ loopPc = "head"
  /\ IF running
       THEN loopPc' = "popwait" /\ Q!PopWaitCall(Loop)
       ELSE loopPc' = "exit" /\ UNCHANGED qVars
  /\ UNCHANGED <<wg, running, job, exitVars, callVars, mainPc, panic, ran>>

LoopPop ==
  /\ ~Halted
  /\ loopPc = "popwait"
  /\ Q!PopWaitStep(Loop)
  /\ UNCHANGED <<wg, running, loopPc, job, exitVars, callVars, mainPc, panic, ran>>

\* Mutant: an error of PopWait is not the end of the loop.
LoopGotRetries ==
  /\ ~Halted
  /\ loopPc = "popwait"
  /\ Q!Return(Loop)
  /\ IF cpc[Loop] = "job" /\ ~cancelled
       THEN loopPc' = "run" /\ job' = got[Loop]
       ELSE loopPc' = "head" /\ job' = NoTask
  /\ UNCHANGED <<wg, running, exitVars, callVars, mainPc, panic, ran>>

\* PopWait has returned.  A task that comes with a cancelled context is dropped.
LoopGot ==
  /\ ~Halted
  /\ loopPc = "popwait"
  /\ Q!Return(Loop)
  /\ IF cpc[Loop] = "job" /\ ~cancelled
       THEN loopPc' = "run" /\ job' = got[Loop]
       ELSE loopPc' = "exit" /\ job' = NoTask
  /\ running' = (running /\ ~(cpc[Loop] = "job" /\ cancelled))
  /\ UNCHANGED <<wg, exitVars, callVars, mainPc, panic, ran>>

\* The task returns.  The one of Stop has cleared loop.running.
TaskEnds ==
  /\ ~Halted
  /\ loopPc = "run"
  /\ call[Loop] = NoTask
  /\ ran' = Append(ran, job)
  /\ loopPc' = IF kind[job] = "wait" THEN "reply" ELSE "finish"
  /\ running' = (running /\ kind[job] # "stop")
  /\ UNCHANGED <<qVars, wg, job, exitVars, callVars, mainPc, panic>>

\* The deferred ch <- true of ScheduleAndWait, which blocks the loop until the
\* caller receives.
Reply(c) ==
  /\ ~Halted
  /\ loopPc = "reply"
  /\ waits[c] = job
  /\ waits' = [waits EXCEPT ![c] = NoTask]
  /\ loopPc' = "finish"
  /\ UNCHANGED <<qVars, wg, running, job, exitVars, kind, call, mainPc, panic, ran>>

\* Mutant: the counter is decremented for the tasks of Go code only.
TaskDoneUncounted ==
  /\ ~Halted
  /\ loopPc = "finish"
  /\ loopPc' = "head"
  /\ job' = NoTask
  /\ IF kind[job] = "lua" THEN UNCHANGED <<wg, mainPc>> ELSE WgDone
  /\ UNCHANGED <<qVars, running, exitVars, callVars, panic, ran>>

\* The deferred wg.Done() of Schedule.
TaskDone ==
  /\ ~Halted
  /\ loopPc = "finish"
  /\ loopPc' = "head"
  /\ job' = NoTask
  /\ WgDone
  /\ UNCHANGED <<qVars, running, exitVars, callVars, panic, ran>>

\* A Lua error in a function called with neither Protect nor a recover around
\* it: the panic ends the process.
LuaError ==
  /\ ~Halted
  /\ call[Loop] = NoTask
  /\ \/ loopPc = "run" /\ kind[job] = "lua"
     \/ loopPc = "exitrun"
  /\ panic' = "lua"
  /\ UNCHANGED <<qVars, wg, running, loopPc, job, exitVars, callVars, mainPc, ran>>

\* The second loop of run: exitQueue.Pop finds a handler ...
ExitPop ==
  /\ ~Halted
  /\ loopPc = "exit"
  /\ exitQueue # <<>>
  /\ loopPc' = "exitrun"
  /\ job' = Head(exitQueue)
  /\ exitQueue' = Tail(exitQueue)
  /\ UNCHANGED <<qVars, wg, running, registered, exited, callVars, mainPc, panic, ran>>

\* ... which returns ...
ExitEnds ==
  /\ ~Halted
  /\ loopPc = "exitrun"
  /\ call[Loop] = NoTask
  /\ loopPc' = "exit"
  /\ job' = NoTask
  /\ exited' = Append(exited, job)
  /\ UNCHANGED <<qVars, wg, running, exitQueue, registered, callVars, mainPc, panic, ran>>

\* Mutant: the handlers that handlers register are left behind.
RunEndsEarly ==
  /\ ~Halted
  /\ loopPc = "exit"
  /\ exitQueue = <<>> \/ exited # <<>>
  /\ loopPc' = "done"
  /\ WgDone
  /\ UNCHANGED <<qVars, running, job, exitVars, callVars, panic, ran>>

\* ... or nil, and the deferred wg.Done() of run follows.
RunEnds ==
  /\ ~Halted
  /\ loopPc = "exit"
  /\ exitQueue = <<>>
  /\ loopPc' = "done"
  /\ WgDone
  /\ UNCHANGED <<qVars, running, job, exitVars, callVars, panic, ran>>

-----------------------------------------------------------------------------
(* The main goroutine, and the context.                                    *)

\* Start: wg.Add(1), and the new goroutine sets loop.running, which no other
\* goroutine can have read before.
Start ==
  /\ ~Halted
  /\ mainPc = "init"
  /\ call[Main] = NoTask
  /\ mainPc' = "up"
  /\ loopPc' = "head"
  /\ running' = TRUE
  /\ wg' = wg + 1
  /\ UNCHANGED <<qVars, job, exitVars, callVars, panic, ran>>

\* Wait: WaitGroup.Wait returns at once when the counter is zero.
Wait ==
  /\ ~Halted
  /\ mainPc = "wait"
  /\ mainPc' = IF wg = 0 THEN "returned" ELSE "blocked"
  /\ UNCHANGED <<qVars, wg, running, loopPc, job, exitVars, callVars, panic, ran>>

\* Mutant: the woken goroutine does not look at the counter again.
WaitReturnsUnchecked ==
  /\ ~Halted
  /\ mainPc = "released"
  /\ mainPc' = "returned"
  /\ UNCHANGED <<qVars, wg, running, loopPc, job, exitVars, callVars, panic, ran>>

\* The woken goroutine looks at the counter again, and panics if Add was called
\* in between.
WaitReturns ==
  /\ ~Halted
  /\ mainPc = "released"
  /\ IF wg = 0
       THEN mainPc' = "returned" /\ UNCHANGED panic
       ELSE panic' = "waitgroup" /\ UNCHANGED mainPc
  /\ UNCHANGED <<qVars, wg, running, loopPc, job, exitVars, callVars, ran>>

Cancel ==
  /\ ~Halted
  /\ Cancellable
  /\ loopPc # "none"
  /\ ~cancelled
  /\ Q!Cancel
  /\ UNCHANGED <<wg, running, loopPc, job, exitVars, callVars, mainPc, panic, ran>>

-----------------------------------------------------------------------------
LoopStep ==
  \/ LoopHead \/ LoopPop \/ LoopGot \/ TaskEnds \/ TaskDone
  \/ ExitPop \/ ExitEnds \/ RunEnds \/ \E c \in Clients : Reply(c)

Next ==
  \/ \E p \in Callers, t \in Tasks, k \in Kinds : Schedule(p, t, k)
  \/ \E p \in Callers : SchedulePush(p)
  \/ \E p \in Callers, h \in Handlers : OnExit(p, h)
  \/ LoopStep \/ LuaError
  \/ Start \/ Stop \/ Wait \/ WaitReturns \/ Cancel

Spec == Init /\ [][Next]_vars

\* Every goroutine that can take a step is scheduled; Lua functions return.
\* Signals, errors and cancellation need not come.
Fairness ==
  /\ WF_vars(LoopStep)
  /\ \A p \in Callers : WF_vars(SchedulePush(p))
  /\ WF_vars(Start) /\ WF_vars(Wait) /\ WF_vars(WaitReturns)

FairSpec == Spec /\ Fairness

-----------------------------------------------------------------------------
\* The values of the variables, and how the pc of the loop, its consumer state
\* in the queue and the task it holds go together.
TypeOK ==
  /\ Q!TypeOK
  /\ wg \in Nat
  /\ running \in BOOLEAN
  /\ loopPc \in LoopStates
  /\ loopPc \in {"run", "reply", "finish"} => job \in Tasks
  /\ loopPc = "exitrun" => job \in Handlers
  /\ loopPc \notin {"run", "reply", "finish", "exitrun"} => job = NoTask
  /\ loopPc = "popwait" <=> cpc[Loop] # "out"
  /\ exitQueue \in Seq(Handlers)
  /\ kind \in [Tasks -> Kinds]
  /\ call \in [Callers -> Tasks \cup {NoTask}]
  /\ waits \in [Clients -> Tasks \cup {NoTask}]
  /\ mainPc \in MainStates
  /\ panic \in {"none", "lua", "waitgroup"}
  /\ ran \in Seq(Tasks)
  /\ registered \in Seq(Handlers)
  /\ exited \in Seq(Handlers)

\* The tasks whose wg.Done() is still to come.
Unfinished ==
  {t \in Created : t \notin Entries(ran) \/ (t = job /\ loopPc \in {"reply", "finish"})}

\* The counter of the WaitGroup is the number of tasks that were scheduled and
\* have not ended, those between wg.Add and queue.Push and those a cancelled
\* loop drops included, and one for the loop itself: Add and Done pair up
\* whatever the order in which goroutines schedule (Schedule, Start, run).
WgBalance == wg = Cardinality(Unfinished) + (IF Alive THEN 1 ELSE 0)

\* When Wait returns the loop has ended, every task that any goroutine began to
\* schedule was executed and every exit handler was (Wait, Schedule, run).
WaitQuiesces ==
  [][mainPc # "returned" /\ mainPc' = "returned" =>
       /\ loopPc = "done"
       /\ InCall = {}
       /\ Created \subseteq Entries(ran)
       /\ registered = exited]_vars

\* The task that ended last is the one of Stop.
Stopped == ran # <<>> /\ ran[Len(ran)] = StopTask

\* A loop that was not cancelled stops at the stop task and not before: it has
\* executed exactly the tasks pushed before Stop, and then Stop's own.  A
\* cancelled one has executed the first of those pushed (Stop, run, and
\* Test_LoopSequence, which expects ten tasks to run before a later Stop).
StopIsABarrier ==
  loopPc \in {"exit", "exitrun", "done"} =>
    /\ Len(ran) <= Len(pushed)
    /\ \A i \in DOMAIN ran : ran[i] = pushed[i]
    /\ ~cancelled => Stopped

-----------------------------------------------------------------------------
(* The loop implements a serial executor.                                  *)

Phase ==
  CASE loopPc \in {"exit", "exitrun"} -> "exiting"
    [] loopPc = "done" -> "closed"
    [] OTHER -> "open"

\* The task that PopWait is returning is still to begin.
Pending == IF got[Loop] = NoTask THEN items ELSE <<got[Loop]>> \o items

Exec == INSTANCE SerialExecutor WITH
          None <- NoTask, phase <- Phase, pending <- Pending,
          active <- (IF loopPc = "run" THEN job ELSE NoTask),
          finished <- ran, atExit <- exitQueue,
          exiting <- (IF loopPc = "exitrun" THEN job ELSE NoTask)

\* Tasks and exit handlers are executed one at a time and in the order of their
\* submission, no task once the loop is stopping, every handler before it ends.
ImplementsExecutor == Exec!Spec

-----------------------------------------------------------------------------
\* The loop is parked in PopWait beside a task: Push found no receiver.
MissedWakeup == cpc[Loop] = "parked" /\ items # <<>>

\* What is on the list when the loop comes back to PopWait is executed, unless
\* the loop stops before: a wake-up is missed only on an empty list (PopWait).
AwakeDrains ==
  \A t \in Tasks :
    (loopPc = "head" /\ t \in Entries(items))
      ~> (t \in Entries(ran) \/ Phase # "open" \/ Halted)

\* A task was counted that the stopped loop will not execute.
Stranded == loopPc = "done" /\ ~(Created \subseteq Entries(ran))

\* Once Stop has pushed its task, or the context is cancelled, the loop ends, its exit
\* handlers included, and when main has called Stop the program ends: Wait returns.
\* There are two reasons why it may not, and no other: the wake-up of the stop task
\* was missed, for which a cancellation makes up, or a task was scheduled that the
\* loop does not come to any more (Stop, Wait, run).
StopEndsProgram ==
  StopTask \in Entries(pushed) \/ cancelled
    ~> \/ Halted
       \/ loopPc = "done" /\ mainPc = "up"
       \/ [](MissedWakeup /\ ~cancelled)
       \/ []Stranded
=============================================================================
