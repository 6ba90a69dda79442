-------------------------------- MODULE Timer --------------------------------
(***************************************************************************)
(* The timer of pkg/core/timer.go: the goroutine that executes run, the    *)
(* goroutines that call Start, Stop and Again, and the goroutines that run *)
(* starts to stop a single-shot timer.  A step is one critical section of  *)
(* Timer.lock, one operation on Timer.wg, or one branch of the select of   *)
(* run.                                                                    *)
(*                                                                         *)
(* Every successful Start makes a channel and a goroutine; both are named  *)
(* by its number.  Time is not modelled: the ticker of a runner may fire   *)
(* whenever the runner waits in its select.                                *)
(***************************************************************************)
EXTENDS Naturals, FiniteSets

CONSTANTS
  Callers,     \* goroutines that use the timer: the event loop, a poller
  SingleShot,  \* TimerOptions.SingleShot
  MaxStarts,   \* bound: how often Start starts the timer
  MaxTicks     \* bound: how often the ticker of one runner fires

ASSUME TimerAssumption ==
  /\ SingleShot \in BOOLEAN
  /\ MaxStarts \in Nat
  /\ MaxTicks \in Nat

Runs == 1 .. MaxStarts

\* The goroutine that tick n of runner r starts to stop a single-shot timer.
Stoppers == Runs \X (1 .. MaxTicks)

Procs == Callers \cup Stoppers

ASSUME CallersAssumption == Callers \cap Stoppers = {}

VARIABLES
  stopCh,      \* the channel in Timer.stopCh, 0 for nil
  closedChs,   \* the channels that were closed
  wg,          \* the counter of Timer.wg
  starts,      \* how often Start started a runner
  runPc,       \* where each runner is
  ticks,       \* how often the ticker of each runner fired: the callbacks scheduled
  pc,          \* where each caller and stopper is
  restart,     \* the callers whose Stop is the first half of Again
  held,        \* a call panicked inside the critical section: lock is never released
  crashed,     \* a panic ended the process
  stoppedBy    \* history: who closed each channel

vars == <<stopCh, closedChs, wg, starts, runPc, ticks, pc, restart, held, crashed, stoppedBy>>

RunStates == {"unborn", "begin", "select", "leave", "gone"}

\* "start", "stop": about to lock; "wait": calls wg.Wait; "parked": in it;
\* "released": woken by the last Done; "error": the call panicked and the caller
\* recovered; "dead": the goroutine has ended.
ProcStates == {"idle", "error", "start", "stop", "wait", "parked", "released", "dead"}

Live(r) == runPc[r] \in {"begin", "select", "leave"}
LiveRuns == {r \in Runs : Live(r)}

InStop(p) == pc[p] \in {"stop", "wait", "parked", "released"}

\* Timer.lock can be taken.
Free == ~held /\ ~crashed

Init ==
  /\ stopCh = 0
  /\ closedChs = {}
  /\ wg = 0
  /\ starts = 0
  /\ runPc = [r \in Runs |-> "unborn"]
  /\ ticks = [r \in Runs |-> 0]
  /\ pc = [p \in Procs |-> IF p \in Callers THEN "idle" ELSE "dead"]
  /\ restart = {}
  /\ held = FALSE
  /\ crashed = FALSE
  /\ stoppedBy = [r \in Runs |-> {}]

runVars == <<runPc, ticks>>
callVars == <<pc, restart>>

-----------------------------------------------------------------------------
(* The callers.                                                            *)

\* Mutant: the goroutine of a tick stops the timer again and again.
AfterForever(p) == IF p \in Callers THEN "idle" ELSE "stop"

\* What a goroutine does when its call has returned.
After(p) == IF p \in Callers THEN "idle" ELSE "dead"

\* timerStart, timerStop and timerAgain, and the calls from Go.
Call(p, op) ==
  /\ ~crashed
  /\ p \in Callers
  /\ pc[p] \in {"idle", "error"}
  /\ pc' = [pc EXCEPT ![p] = IF op = "start" THEN "start" ELSE "stop"]
  /\ restart' = IF op = "again" THEN restart \cup {p} ELSE restart
  /\ UNCHANGED <<stopCh, closedChs, wg, starts, runVars, held, crashed, stoppedBy>>

\* timer:start() and timer:stop() of lib/envel/timer.lua look at is_started
\* first, in a critical section of its own.
CheckedCall(p, op) ==
  /\ Free
  /\ op \in {"start", "stop"}
  /\ (op = "start") = (stopCh = 0)
  /\ Call(p, op)

\* Start: a timer whose channel is closed and not yet reset still counts as
\* started.
Start(p) ==
  /\ Free
  /\ pc[p] = "start"
  /\ IF stopCh = 0
       THEN /\ starts < MaxStarts
            /\ starts' = starts + 1
            /\ stopCh' = starts + 1
            /\ wg' = wg + 1
            /\ runPc' = [runPc EXCEPT ![starts + 1] = "begin"]
       ELSE UNCHANGED <<stopCh, wg, starts, runPc>>
  /\ pc' = [pc EXCEPT ![p] = "idle"]
  /\ UNCHANGED <<closedChs, ticks, restart, held, crashed, stoppedBy>>

\* A panic in a call made by the program: it ends the process, unless the call
\* was made by a Lua function called in protected mode, which returns an error.
Panic(p) ==
  \/ /\ p \in Callers
     /\ pc' = [pc EXCEPT ![p] = "error"]
     /\ restart' = restart \ {p}
     /\ UNCHANGED crashed
  \/ crashed' = TRUE /\ UNCHANGED callVars

\* The critical section of Stop.  Closing a channel twice panics between Lock
\* and Unlock, which is not deferred.
StopLock(p) ==
  /\ Free
  /\ pc[p] = "stop"
  /\ IF stopCh \in closedChs
       THEN /\ held' = TRUE
            /\ Panic(p)
            /\ UNCHANGED <<closedChs, stoppedBy>>
       ELSE /\ closedChs' = IF stopCh = 0 THEN closedChs ELSE closedChs \cup {stopCh}
            /\ stoppedBy' = IF stopCh = 0 THEN stoppedBy ELSE [stoppedBy EXCEPT ![stopCh] = {p}]
            /\ pc' = [pc EXCEPT ![p] = "wait"]
            /\ UNCHANGED <<restart, held, crashed>>
  /\ UNCHANGED <<stopCh, wg, starts, runVars>>

\* Mutant: the second half of Again is not forgotten.
StopDoneAgain(p) ==
  /\ pc' = [pc EXCEPT ![p] = IF p \in restart THEN "start" ELSE After(p)]
  /\ UNCHANGED restart

\* Stop has returned; Again goes on to Start.
StopDone(p) ==
  /\ pc' = [pc EXCEPT ![p] = IF p \in restart THEN "start" ELSE After(p)]
  /\ restart' = restart \ {p}

\* Mutant: Stop does not wait for the runner.
StopWaitNot(p) ==
  /\ ~crashed
  /\ pc[p] = "wait"
  /\ StopDone(p)
  /\ UNCHANGED <<stopCh, closedChs, wg, starts, runVars, held, crashed, stoppedBy>>

\* wg.Wait of Stop, outside of the critical section.
StopWait(p) ==
  /\ ~crashed
  /\ pc[p] = "wait"
  /\ IF wg = 0
       THEN StopDone(p)
       ELSE pc' = [pc EXCEPT ![p] = "parked"] /\ UNCHANGED restart
  /\ UNCHANGED <<stopCh, closedChs, wg, starts, runVars, held, crashed, stoppedBy>>

\* The woken goroutine looks at the counter again, and panics if a Start added
\* to it in between.  Timer.lock is not held here.
StopWoken(p) ==
  /\ ~crashed
  /\ pc[p] = "released"
  /\ IF wg = 0 THEN StopDone(p) /\ UNCHANGED crashed ELSE Panic(p)
  /\ UNCHANGED <<stopCh, closedChs, wg, starts, runVars, held, stoppedBy>>

-----------------------------------------------------------------------------
(* run.                                                                    *)

Moves(r, from, to) == runPc[r] = from /\ runPc' = [runPc EXCEPT ![r] = to]

\* run takes the lock to read Timer.stopCh, which is still its own channel, and
\* enters the select.
RunBegin(r) ==
  /\ Free
  /\ Moves(r, "begin", "select")
  /\ UNCHANGED <<stopCh, closedChs, wg, starts, ticks, callVars, held, crashed, stoppedBy>>

\* time.NewTicker panics if the timeout is not positive, which ends the process: the
\* deferred function before it does not matter any more.  It is the first runner that
\* finds out, since there is no second one then.
RunPanics(r) ==
  /\ Free
  /\ r = 1
  /\ runPc[r] = "begin"
  /\ crashed' = TRUE
  /\ UNCHANGED <<stopCh, closedChs, wg, starts, runVars, callVars, held, stoppedBy>>

\* The ticker: a goroutine schedules the callback, and another one stops a
\* single-shot timer.
RunTick(r) ==
  /\ ~crashed
  /\ runPc[r] = "select"
  /\ ticks[r] < MaxTicks
  /\ ticks' = [ticks EXCEPT ![r] = @ + 1]
  /\ pc' = IF SingleShot THEN [pc EXCEPT ![<<r, ticks[r] + 1>>] = "stop"] ELSE pc
  /\ UNCHANGED <<stopCh, closedChs, wg, starts, runPc, restart, held, crashed, stoppedBy>>

\* The channel is closed.
RunStopped(r) ==
  /\ ~crashed
  /\ r \in closedChs
  /\ Moves(r, "select", "leave")
  /\ UNCHANGED <<stopCh, closedChs, wg, starts, ticks, callVars, held, crashed, stoppedBy>>

\* Mutant: the deferred function calls wg.Done() and leaves stopCh set.
RunLeaveNoReset(r) ==
  /\ Free
  /\ Moves(r, "leave", "gone")
  /\ wg' = wg - 1
  /\ pc' = [p \in Procs |-> IF wg = 1 /\ pc[p] = "parked" THEN "released" ELSE pc[p]]
  /\ UNCHANGED <<stopCh, closedChs, starts, ticks, restart, held, crashed, stoppedBy>>

\* Mutant: wg.Done() is forgotten.
RunLeaveNoDone(r) ==
  /\ Free
  /\ Moves(r, "leave", "gone")
  /\ stopCh' = 0
  /\ UNCHANGED <<closedChs, wg, starts, ticks, callVars, held, crashed, stoppedBy>>

\* The deferred function of run, under the lock.
RunLeave(r) ==
  /\ Free
  /\ Moves(r, "leave", "gone")
  /\ stopCh' = 0
  /\ wg' = wg - 1
  /\ pc' = [p \in Procs |-> IF wg = 1 /\ pc[p] = "parked" THEN "released" ELSE pc[p]]
  /\ UNCHANGED <<closedChs, starts, ticks, restart, held, crashed, stoppedBy>>

RunStep(r) == RunBegin(r) \/ RunStopped(r) \/ RunLeave(r)
StopStep(p) == StopLock(p) \/ StopWait(p) \/ StopWoken(p)

Next ==
  \/ \E p \in Callers, op \in {"start", "stop", "again"} : Call(p, op) \/ CheckedCall(p, op)
  \/ \E p \in Callers : Start(p)
  \/ \E p \in Procs : StopStep(p)
  \/ \E r \in Runs : RunPanics(r) \/ RunTick(r) \/ RunStep(r)

Spec == Init /\ [][Next]_vars

\* A goroutine that can go on does.  The select of run picks the closed channel
\* at some time, whatever its ticker does.
Fairness ==
  /\ \A r \in Runs : WF_vars(RunStep(r))
  /\ \A p \in Procs : WF_vars(StopStep(p))

FairSpec == Spec /\ Fairness

-----------------------------------------------------------------------------
TypeOK ==
  /\ stopCh \in 0 .. MaxStarts
  /\ closedChs \subseteq Runs
  /\ wg \in Nat
  /\ starts \in 0 .. MaxStarts
  /\ runPc \in [Runs -> RunStates]
  /\ ticks \in [Runs -> 0 .. MaxTicks]
  /\ pc \in [Procs -> ProcStates]
  /\ restart \subseteq {p \in Callers : InStop(p)}
  /\ held \in BOOLEAN
  /\ crashed \in BOOLEAN
  /\ stoppedBy \in [Runs -> SUBSET Procs]

\* Whatever concurrent callers do, a timer has one runner or none, it is the one
\* whose channel is in Timer.stopCh, and the WaitGroup counts it (Start, run).
SingleRunner ==
  /\ LiveRuns = IF stopCh = 0 THEN {} ELSE {stopCh}
  /\ wg = IF stopCh = 0 THEN 0 ELSE 1

\* When a Stop returns no runner is left: the one it stopped, and any that
\* another goroutine started while it waited, have ended (Stop).
StopIsSynchronous ==
  [][\A p \in Procs :
       InStop(p) /\ pc'[p] \in {"idle", "start", "dead"} => LiveRuns' = {}]_vars

\* A call of Stop ends, with the error of a panic at worst, unless it waits for
\* ever for the runner of a later Start that nobody stops: the goroutines that
\* close a channel, call wg.Done and wait never block each other (Stop, run).
StopEndsOrWaits ==
  \A p \in Procs :
    InStop(p) ~> \/ ~InStop(p) \/ held \/ crashed
                 \/ [](stopCh # 0 /\ stopCh \notin closedChs)

\* "SingleShot configures the timer to automatically stop after the first timeout": it
\* is stopped by the goroutine that one of its ticks has started, and a run started later
\* can be stopped by such a goroutine of an earlier run only if somebody else has stopped
\* that run before (run, Stop).
SingleShotStops ==
  \A r \in Runs : \A p \in stoppedBy[r] \cap Stoppers :
    p[1] = r \/ (p[1] < r /\ p \notin stoppedBy[p[1]] /\ p[1] \in closedChs)
=============================================================================
