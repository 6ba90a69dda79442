----------------------------- MODULE TimerProofs -----------------------------
(***************************************************************************)
(* Proofs about the timer, for any number of callers, starts and ticks.    *)
(***************************************************************************)
EXTENDS Timer, TLAPS

\* The runners that were started are the first `starts' ones, and only their
\* channels can be closed.
StartsInv ==
  /\ \A r \in Runs : runPc[r] = "unborn" <=> r > starts
  /\ \A r \in closedChs : r <= starts
  /\ stopCh <= starts

TimerInv == TypeOK /\ SingleRunner /\ StartsInv

LEMMA TimerInit == Init => TimerInv
<1> SUFFICES ASSUME Init PROVE TimerInv
  OBVIOUS
<1> USE TimerAssumption DEF Init
<1>1. TypeOK
  <2>1. /\ stopCh \in 0 .. MaxStarts /\ closedChs \subseteq Runs /\ wg \in Nat
        /\ starts \in 0 .. MaxStarts
        /\ runPc \in [Runs -> RunStates] /\ ticks \in [Runs -> 0 .. MaxTicks]
    BY DEF RunStates
  <2>2. pc \in [Procs -> ProcStates]
    BY DEF ProcStates
  <2>3. restart \subseteq {p \in Callers : InStop(p)} /\ stoppedBy \in [Runs -> SUBSET Procs]
    OBVIOUS
  <2>4. held \in BOOLEAN /\ crashed \in BOOLEAN
    OBVIOUS
  <2> QED
    BY <2>1, <2>2, <2>3, <2>4 DEF TypeOK
<1>2. SingleRunner
  BY DEF SingleRunner, LiveRuns, Live
<1>3. StartsInv
  BY DEF StartsInv, Runs
<1> QED
  BY <1>1, <1>2, <1>3 DEF TimerInv

\* What Panic and StopDone do to the caller.
LEMMA PanicTyped ==
  ASSUME TypeOK, NEW p \in Procs, InStop(p), Panic(p)
  PROVE  /\ pc' \in [Procs -> ProcStates] /\ crashed' \in BOOLEAN
         /\ restart' \subseteq {q \in Callers : InStop(q)'}
<1>1. CASE crashed' = TRUE /\ UNCHANGED callVars
  BY <1>1 DEF callVars, TypeOK, InStop
<1>2. CASE /\ p \in Callers
           /\ pc' = [pc EXCEPT ![p] = "error"]
           /\ restart' = restart \ {p}
           /\ UNCHANGED crashed
  BY <1>2 DEF TypeOK, InStop, ProcStates
<1> QED
  BY <1>1, <1>2 DEF Panic

LEMMA StopDoneTyped ==
  ASSUME TypeOK, NEW p \in Procs, StopDone(p)
  PROVE  /\ pc' \in [Procs -> ProcStates]
         /\ restart' \subseteq {q \in Callers : InStop(q)'}
BY DEF TypeOK, StopDone, After, InStop, ProcStates

LEMMA TimerTypeStep ==
  ASSUME TimerInv, [Next]_vars
  PROVE  TypeOK'
<1> USE DEF TimerInv
<1>1. ASSUME NEW p \in Callers, NEW op \in {"start", "stop", "again"}, Call(p, op)
      PROVE  TypeOK'
  <2>1. pc' \in [Procs -> ProcStates]
    BY <1>1 DEF Call, TypeOK, ProcStates, Procs
  <2>2. restart' \subseteq {q \in Callers : InStop(q)'}
    BY <1>1 DEF Call, TypeOK, InStop, Procs
  <2> QED
    BY <1>1, <2>1, <2>2 DEF Call, TypeOK, runVars
<1>2. ASSUME NEW p \in Callers, Start(p) PROVE TypeOK'
  <2>1. /\ pc' \in [Procs -> ProcStates]
        /\ restart' \subseteq {q \in Callers : InStop(q)'}
    BY <1>2 DEF Start, TypeOK, InStop, Procs, ProcStates
  <2>2. /\ stopCh' \in 0 .. MaxStarts /\ wg' \in Nat /\ starts' \in 0 .. MaxStarts
        /\ runPc' \in [Runs -> RunStates]
    <3>1. CASE stopCh = 0
      <4>1. /\ starts < MaxStarts /\ starts' = starts + 1 /\ stopCh' = starts + 1 /\ wg' = wg + 1
            /\ runPc' = [runPc EXCEPT ![starts + 1] = "begin"]
        BY <1>2, <3>1 DEF Start
      <4>2. starts' \in 0 .. MaxStarts /\ stopCh' \in 0 .. MaxStarts /\ wg' \in Nat
        BY <4>1, TimerAssumption DEF TypeOK
      <4>3. runPc' \in [Runs -> RunStates]
        BY <4>1 DEF TypeOK, RunStates
      <4> QED
        BY <4>2, <4>3
    <3>2. CASE stopCh # 0
      BY <1>2, <3>2 DEF Start, TypeOK
    <3> QED
      BY <3>1, <3>2
  <2> QED
    BY <1>2, <2>1, <2>2 DEF Start, TypeOK
<1>3. ASSUME NEW p \in Procs, StopLock(p) PROVE TypeOK'
  <2>1. InStop(p) /\ UNCHANGED <<stopCh, wg, starts, runPc, ticks>>
    BY <1>3 DEF StopLock, InStop, runVars
  <2>2. CASE stopCh \in closedChs
    <3>1. held' = TRUE /\ Panic(p) /\ UNCHANGED <<closedChs, stoppedBy>>
      BY <1>3, <2>2 DEF StopLock
    <3> QED
      BY <2>1, <3>1, PanicTyped DEF TypeOK
  <2>3. CASE stopCh \notin closedChs
    <3>1. /\ pc' = [pc EXCEPT ![p] = "wait"] /\ UNCHANGED <<restart, held, crashed>>
          /\ closedChs' = IF stopCh = 0 THEN closedChs ELSE closedChs \cup {stopCh}
          /\ stoppedBy' = IF stopCh = 0 THEN stoppedBy ELSE [stoppedBy EXCEPT ![stopCh] = {p}]
      BY <1>3, <2>3 DEF StopLock
    <3>2. /\ pc' \in [Procs -> ProcStates]
          /\ restart' \subseteq {q \in Callers : InStop(q)'}
      BY <3>1 DEF TypeOK, InStop, ProcStates
    <3>3. closedChs' \subseteq Runs /\ stoppedBy' \in [Runs -> SUBSET Procs]
      BY <3>1, TimerAssumption DEF TypeOK, Runs
    <3> QED
      BY <2>1, <3>1, <3>2, <3>3 DEF TypeOK
  <2> QED
    BY <2>2, <2>3
<1>4. ASSUME NEW p \in Procs, StopWait(p) PROVE TypeOK'
  <2>1. UNCHANGED <<stopCh, closedChs, wg, starts, runPc, ticks, held, crashed, stoppedBy>>
    BY <1>4 DEF StopWait, runVars
  <2>2. /\ pc' \in [Procs -> ProcStates]
        /\ restart' \subseteq {q \in Callers : InStop(q)'}
    <3>1. CASE wg = 0
      BY <1>4, <3>1, StopDoneTyped DEF StopWait
    <3>2. CASE wg # 0
      <4>1. pc[p] = "wait" /\ pc' = [pc EXCEPT ![p] = "parked"] /\ restart' = restart
        BY <1>4, <3>2 DEF StopWait
      <4>2. pc' \in [Procs -> ProcStates] /\ \A q \in Procs : InStop(q) => InStop(q)'
        BY <4>1 DEF TypeOK, InStop, ProcStates
      <4> QED
        BY <4>1, <4>2 DEF TypeOK, Procs
    <3> QED
      BY <3>1, <3>2
  <2> QED
    BY <2>1, <2>2 DEF TypeOK
<1>5. ASSUME NEW p \in Procs, StopWoken(p) PROVE TypeOK'
  <2>1. InStop(p) /\ UNCHANGED <<stopCh, closedChs, wg, starts, runPc, ticks, held, stoppedBy>>
    BY <1>5 DEF StopWoken, InStop, runVars
  <2>2. /\ pc' \in [Procs -> ProcStates] /\ crashed' \in BOOLEAN
        /\ restart' \subseteq {q \in Callers : InStop(q)'}
    <3>1. CASE wg = 0
      BY <1>5, <3>1, StopDoneTyped DEF StopWoken, TypeOK
    <3>2. CASE wg # 0
      BY <1>5, <2>1, <3>2, PanicTyped DEF StopWoken
    <3> QED
      BY <3>1, <3>2
  <2> QED
    BY <2>1, <2>2 DEF TypeOK
<1>6. ASSUME NEW r \in Runs, RunTick(r) PROVE TypeOK'
  <2>1. /\ ticks' = [ticks EXCEPT ![r] = @ + 1] /\ ticks[r] < MaxTicks
        /\ pc' = IF SingleShot THEN [pc EXCEPT ![<<r, ticks[r] + 1>>] = "stop"] ELSE pc
        /\ UNCHANGED <<stopCh, closedChs, wg, starts, runPc, restart, held, crashed, stoppedBy>>
    BY <1>6 DEF RunTick
  <2>2. ticks' \in [Runs -> 0 .. MaxTicks]
    BY <2>1, TimerAssumption DEF TypeOK
  <2>3. pc' \in [Procs -> ProcStates] /\ restart' \subseteq {q \in Callers : InStop(q)'}
    <3>1. CASE SingleShot
      <4>1. pc' = [pc EXCEPT ![<<r, ticks[r] + 1>>] = "stop"] /\ restart' = restart
        BY <2>1, <3>1
      <4>2. pc' \in [Procs -> ProcStates] /\ \A q \in Procs : InStop(q) => InStop(q)'
        BY <4>1 DEF TypeOK, InStop, ProcStates
      <4> QED
        BY <4>1, <4>2 DEF TypeOK, Procs
    <3>2. CASE ~SingleShot
      BY <2>1, <3>2 DEF TypeOK, InStop
    <3> QED
      BY <3>1, <3>2
  <2> QED
    BY <2>1, <2>2, <2>3 DEF TypeOK
<1>7. ASSUME NEW r \in Runs, RunBegin(r) \/ RunStopped(r) PROVE TypeOK'
  BY <1>7 DEF RunBegin, RunStopped, Moves, TypeOK, RunStates, callVars, InStop
<1>8. ASSUME NEW r \in Runs, RunLeave(r) PROVE TypeOK'
  <2>1. /\ runPc[r] = "leave" /\ runPc' = [runPc EXCEPT ![r] = "gone"]
        /\ stopCh' = 0 /\ wg' = wg - 1
        /\ pc' = [p \in Procs |-> IF wg = 1 /\ pc[p] = "parked" THEN "released" ELSE pc[p]]
        /\ UNCHANGED <<closedChs, starts, ticks, restart, held, crashed, stoppedBy>>
    BY <1>8 DEF RunLeave, Moves
  <2>2. wg = 1
    BY <2>1 DEF SingleRunner, LiveRuns, Live
  <2>3. pc' \in [Procs -> ProcStates] /\ \A p \in Procs : InStop(p) => InStop(p)'
    BY <2>1 DEF TypeOK, ProcStates, InStop
  <2>4. restart' \subseteq {q \in Callers : InStop(q)'}
    BY <2>1, <2>3 DEF TypeOK, Procs
  <2>5. stopCh' \in 0 .. MaxStarts /\ wg' \in Nat /\ runPc' \in [Runs -> RunStates]
    BY <2>1, <2>2, TimerAssumption DEF TypeOK, RunStates
  <2> QED
    BY <2>1, <2>3, <2>4, <2>5 DEF TypeOK
<1>9. CASE UNCHANGED vars
  BY <1>9 DEF vars, runVars, callVars, TypeOK, InStop
<1>10. ASSUME NEW r \in Runs, RunPanics(r) PROVE TypeOK'
  BY <1>10 DEF RunPanics, runVars, callVars, TypeOK, InStop
<1> QED
  BY <1>1, <1>2, <1>3, <1>4, <1>5, <1>6, <1>7, <1>8, <1>9, <1>10 DEF Next, CheckedCall, StopStep, RunStep

LEMMA TimerRunnerStep ==
  ASSUME TimerInv, [Next]_vars
  PROVE  SingleRunner' /\ StartsInv'
<1> USE DEF TimerInv
<1>1. CASE UNCHANGED <<stopCh, closedChs, wg, starts, runPc>>
  BY <1>1 DEF SingleRunner, StartsInv, LiveRuns, Live
<1>2. ASSUME NEW p \in Callers, Start(p) PROVE SingleRunner' /\ StartsInv'
  <2>1. CASE stopCh # 0
    BY <1>1, <1>2, <2>1 DEF Start
  <2>2. CASE stopCh = 0
    <3>1. /\ starts' = starts + 1 /\ stopCh' = starts + 1 /\ wg' = wg + 1 /\ closedChs' = closedChs
          /\ runPc' = [runPc EXCEPT ![starts + 1] = "begin"]
          /\ starts + 1 \in Runs /\ starts \in Nat
      BY <1>2, <2>2, TimerAssumption DEF Start, Runs, TypeOK
    <3>2. LiveRuns' = {starts + 1}
      BY <2>2, <3>1 DEF LiveRuns, Live, SingleRunner, TypeOK
    <3>3. SingleRunner'
      BY <2>2, <3>1, <3>2 DEF SingleRunner
    <3>4. StartsInv'
      BY <3>1, TimerAssumption DEF StartsInv, TypeOK, Runs
    <3> QED
      BY <3>3, <3>4
  <2> QED
    BY <2>1, <2>2
<1>3. ASSUME NEW p \in Procs, StopLock(p) PROVE SingleRunner' /\ StartsInv'
  <2>1. /\ closedChs' \subseteq closedChs \cup {stopCh}
        /\ UNCHANGED <<stopCh, wg, starts, runPc>>
    BY <1>3 DEF StopLock, runVars
  <2> QED
    BY <2>1 DEF SingleRunner, StartsInv, LiveRuns, Live
<1>4. ASSUME NEW r \in Runs, RunBegin(r) \/ RunStopped(r) PROVE SingleRunner' /\ StartsInv'
  <2>1. /\ Live(r) /\ runPc' \in {[runPc EXCEPT ![r] = "select"], [runPc EXCEPT ![r] = "leave"]}
        /\ UNCHANGED <<stopCh, closedChs, wg, starts>>
    BY <1>4 DEF RunBegin, RunStopped, Moves, Live
  <2>2. LiveRuns' = LiveRuns
    BY <2>1 DEF LiveRuns, Live, TypeOK
  <2> QED
    BY <2>1, <2>2 DEF SingleRunner, StartsInv, TypeOK, Live
<1>5. ASSUME NEW r \in Runs, RunLeave(r) PROVE SingleRunner' /\ StartsInv'
  <2>1. /\ Live(r) /\ runPc' = [runPc EXCEPT ![r] = "gone"] /\ stopCh' = 0 /\ wg' = wg - 1
        /\ UNCHANGED <<closedChs, starts>>
    BY <1>5 DEF RunLeave, Moves, Live
  <2>2. LiveRuns = {r} /\ wg = 1
    BY <2>1 DEF SingleRunner, LiveRuns
  <2>3. LiveRuns' = {}
    BY <2>1, <2>2 DEF LiveRuns, Live, TypeOK
  <2>4. StartsInv'
    BY <2>1 DEF StartsInv, TypeOK, Live
  <2> QED
    BY <2>1, <2>2, <2>3, <2>4 DEF SingleRunner
<1>6. ASSUME \/ \E p \in Callers, op \in {"start", "stop", "again"} : Call(p, op)
             \/ \E p \in Procs : StopWait(p) \/ StopWoken(p)
             \/ \E r \in Runs : RunPanics(r) \/ RunTick(r)
             \/ UNCHANGED vars
      PROVE  UNCHANGED <<stopCh, closedChs, wg, starts, runPc>>
  BY <1>6 DEF Call, StopWait, StopWoken, RunPanics, RunTick, runVars, vars
<1> QED
  BY <1>1, <1>2, <1>3, <1>4, <1>5, <1>6 DEF Next, CheckedCall, StopStep, RunStep

-----------------------------------------------------------------------------
\* The inductive invariant holds in every reachable state.
THEOREM TimerSafe == Spec => []TimerInv
<1>1. TimerInv /\ [Next]_vars => TimerInv'
  BY TimerTypeStep, TimerRunnerStep DEF TimerInv
<1> QED
  BY TimerInit, <1>1, PTL DEF Spec

\* A timer has at most one runner, the one of its channel, and its WaitGroup
\* counts it, whatever concurrent callers of Start, Stop and Again do.
THEOREM TimerSingleRunner == Spec => []SingleRunner
<1>1. TimerInv => SingleRunner
  BY DEF TimerInv
<1> QED
  BY <1>1, TimerSafe, PTL

\* Every step type checks (Timer).
THEOREM TimerTyped == Spec => []TypeOK
<1>1. TimerInv => TypeOK
  BY DEF TimerInv
<1> QED
  BY <1>1, TimerSafe, PTL

\* A Stop returns only in a state without a runner: the counter that its wg.Wait
\* saw at zero counts the runners.
LEMMA StopStepSynchronous ==
  ASSUME TimerInv, [Next]_vars, NEW p \in Procs, InStop(p), pc'[p] \in {"idle", "start", "dead"}
  PROVE  LiveRuns' = {}
<1> USE DEF TimerInv
<1>1. ASSUME wg = 0, UNCHANGED runPc PROVE LiveRuns' = {}
  BY <1>1 DEF SingleRunner, LiveRuns, Live, TypeOK
<1>2. ASSUME NEW q \in Callers, NEW op \in {"start", "stop", "again"}, Call(q, op) PROVE FALSE
  BY <1>2 DEF Call, InStop, TypeOK
<1>3. ASSUME NEW q \in Callers, Start(q) PROVE FALSE
  BY <1>3 DEF Start, InStop, TypeOK
<1>4. ASSUME NEW q \in Procs, Panic(q) PROVE pc'[p] = pc[p] \/ pc'[p] = "error"
  BY <1>4 DEF Panic, TypeOK, callVars
<1>5. ASSUME NEW q \in Procs, StopLock(q) PROVE FALSE
  <2>1. CASE stopCh \in closedChs
    BY <1>4, <1>5, <2>1 DEF StopLock, InStop
  <2>2. CASE stopCh \notin closedChs
    BY <1>5, <2>2 DEF StopLock, InStop, TypeOK
  <2> QED
    BY <2>1, <2>2
<1>6. ASSUME NEW q \in Procs, StopWait(q) PROVE LiveRuns' = {}
  <2>1. CASE wg = 0
    BY <1>1, <1>6, <2>1 DEF StopWait, runVars
  <2>2. CASE wg # 0
    BY <1>6, <2>2 DEF StopWait, InStop, TypeOK
  <2> QED
    BY <2>1, <2>2
<1>7. ASSUME NEW q \in Procs, StopWoken(q) PROVE LiveRuns' = {}
  <2>1. CASE wg = 0
    BY <1>1, <1>7, <2>1 DEF StopWoken, runVars
  <2>2. CASE wg # 0
    BY <1>4, <1>7, <2>2 DEF StopWoken, InStop
  <2> QED
    BY <2>1, <2>2
<1>8. ASSUME NEW r \in Runs, RunTick(r) PROVE FALSE
  <2>1. pc' = IF SingleShot THEN [pc EXCEPT ![<<r, ticks[r] + 1>>] = "stop"] ELSE pc
    BY <1>8 DEF RunTick
  <2>2. pc'[p] = pc[p] \/ pc'[p] = "stop"
    BY <2>1 DEF TypeOK
  <2> QED
    BY <2>2 DEF InStop
<1>9. ASSUME NEW r \in Runs, RunPanics(r) \/ RunBegin(r) \/ RunStopped(r) \/ RunLeave(r) PROVE FALSE
  BY <1>9 DEF RunPanics, RunBegin, RunStopped, RunLeave, callVars, InStop
<1>10. CASE UNCHANGED vars
  BY <1>10 DEF vars, callVars, InStop
<1> QED
  BY <1>2, <1>3, <1>5, <1>6, <1>7, <1>8, <1>9, <1>10 DEF Next, CheckedCall, StopStep, RunStep

\* When a Stop returns no runner is left, whoever stopped or restarted the timer
\* in the meantime.
THEOREM TimerStopIsSynchronous == Spec => StopIsSynchronous
<1>1. ASSUME TimerInv, [Next]_vars
      PROVE  [\A p \in Procs :
                InStop(p) /\ pc'[p] \in {"idle", "start", "dead"} => LiveRuns' = {}]_vars
  BY <1>1, StopStepSynchronous
<1> QED
  BY <1>1, TimerSafe, PTL DEF Spec, StopIsSynchronous
-----------------------------------------------------------------------------
(* The goroutines that stop a single-shot timer.                           *)

\* The goroutine of a tick starts with its tick.
Begun(p) == p[2] <= ticks[p[1]]

\* A runner leaves only when its channel is closed, and a goroutine of a tick, which
\* comes from a runner that was started, gets to Stop's critical section once.
StopperInv ==
  /\ stopCh \in {0, starts}
  /\ \A r \in Runs : runPc[r] \in {"leave", "gone"} => r \in closedChs
  /\ \A r \in Runs : ticks[r] > 0 => r <= starts
  /\ \A p \in Stoppers : pc[p] # "dead" => Begun(p)
  /\ \A p \in Stoppers, r \in Runs : p \in stoppedBy[r] => pc[p] # "stop" /\ Begun(p)
  /\ SingleShotStops

LEMMA StopperInit == Init => StopperInv
<1> SUFFICES ASSUME Init PROVE StopperInv
  OBVIOUS
<1>1. \A p \in Stoppers : pc[p] = "dead"
  BY CallersAssumption DEF Init, Procs
<1> QED
  BY <1>1 DEF Init, StopperInv, SingleShotStops

\* The goroutine of a tick is not a caller, and names a runner.
LEMMA StopperIs ==
  ASSUME NEW p \in Stoppers
  PROVE  p \in Procs /\ p \notin Callers /\ p[1] \in Runs /\ p[2] \in 1 .. MaxTicks /\ p = <<p[1], p[2]>>
BY CallersAssumption DEF Stoppers, Procs

\* A step in which nobody begins a tick or closes a channel.
LEMMA StopperKept ==
  ASSUME StopperInv, UNCHANGED <<ticks, stoppedBy>>, closedChs' = closedChs,
         starts' >= starts, starts \in Nat, starts' \in Nat, stopCh' \in {0, starts'},
         \A r \in Runs : runPc'[r] \in {"leave", "gone"} => runPc[r] \in {"leave", "gone"} \/ r \in closedChs,
         \A p \in Stoppers : pc'[p] = pc[p] \/ (pc[p] # "dead" /\ pc'[p] # "stop")
  PROVE  StopperInv'
<1>1. \A r \in Runs : ticks'[r] > 0 => r <= starts'
  BY DEF StopperInv, Runs
<1>2. SingleShotStops'
  BY DEF StopperInv, SingleShotStops
<1> QED
  BY <1>1, <1>2 DEF StopperInv, Begun

LEMMA StopperStep ==
  ASSUME TimerInv, StopperInv, [Next]_vars
  PROVE  StopperInv'
<1> USE DEF TimerInv
<1>0. starts \in Nat /\ stopCh \in {0, starts}
  BY TimerAssumption DEF TypeOK, StopperInv
<1>1. ASSUME NEW q \in Callers, NEW op \in {"start", "stop", "again"}, Call(q, op)
      PROVE  StopperInv'
  <2>1. \A p \in Stoppers : pc'[p] = pc[p]
    BY <1>1, StopperIs DEF Call, TypeOK
  <2> QED
    BY <1>0, <1>1, <2>1, StopperKept DEF Call, runVars
<1>2. ASSUME NEW q \in Callers, Start(q) PROVE StopperInv'
  <2>1. \A p \in Stoppers : pc'[p] = pc[p]
    BY <1>2, StopperIs DEF Start, TypeOK
  <2>2. UNCHANGED <<ticks, stoppedBy, closedChs>>
    BY <1>2 DEF Start
  <2>3. CASE stopCh = 0
    <3>1. starts' = starts + 1 /\ stopCh' = starts + 1 /\ runPc' = [runPc EXCEPT ![starts + 1] = "begin"]
      BY <1>2, <2>3 DEF Start
    <3>2. \A r \in Runs : runPc'[r] \in {"leave", "gone"} => runPc[r] \in {"leave", "gone"}
      BY <3>1 DEF TypeOK
    <3> QED
      BY <1>0, <2>1, <2>2, <3>1, <3>2, StopperKept
  <2>4. CASE stopCh # 0
    <3>1. UNCHANGED <<starts, stopCh, runPc>>
      BY <1>2, <2>4 DEF Start
    <3> QED
      BY <1>0, <2>1, <2>2, <3>1, StopperKept
  <2> QED
    BY <2>3, <2>4
<1>3. ASSUME NEW q \in Procs, Panic(q) PROVE \A p \in Stoppers : pc'[p] = pc[p]
  BY <1>3, StopperIs DEF Panic, TypeOK, callVars
<1>4. ASSUME NEW q \in Procs, pc[q] # "dead", StopDone(q)
      PROVE  \A p \in Stoppers : pc'[p] = pc[p] \/ (pc[p] # "dead" /\ pc'[p] # "stop")
  BY <1>4, StopperIs DEF StopDone, After, TypeOK
<1>5. ASSUME NEW q \in Procs, StopLock(q) PROVE StopperInv'
  <2>1. pc[q] = "stop" /\ UNCHANGED <<stopCh, starts, runPc, ticks>>
    BY <1>5 DEF StopLock, runVars
  <2>2. CASE stopCh \in closedChs
    <3>1. Panic(q) /\ UNCHANGED <<closedChs, stoppedBy>>
      BY <1>5, <2>2 DEF StopLock
    <3> QED
      BY <1>0, <1>3, <2>1, <3>1, StopperKept
  <2>3. CASE stopCh = 0 /\ stopCh \notin closedChs
    <3>1. pc' = [pc EXCEPT ![q] = "wait"] /\ UNCHANGED <<closedChs, stoppedBy>>
      BY <1>5, <2>3 DEF StopLock
    <3>2. \A p \in Stoppers : pc'[p] = pc[p] \/ (pc[p] # "dead" /\ pc'[p] # "stop")
      BY <2>1, <3>1 DEF TypeOK
    <3> QED
      BY <1>0, <2>1, <3>1, <3>2, StopperKept
  \* The channel of the runner is closed.
  <2>4. CASE stopCh # 0 /\ stopCh \notin closedChs
    <3>1. /\ pc' = [pc EXCEPT ![q] = "wait"] /\ closedChs' = closedChs \cup {stopCh}
          /\ stoppedBy' = [stoppedBy EXCEPT ![stopCh] = {q}]
          /\ stopCh = starts /\ stopCh \in Runs
      BY <1>0, <1>5, <2>4 DEF StopLock, TypeOK, Runs
    <3>2. \A p \in Stoppers : pc'[p] = IF p = q THEN "wait" ELSE pc[p]
      BY <3>1, StopperIs DEF TypeOK
    <3>3. \A r \in Runs : stoppedBy'[r] = IF r = stopCh THEN {q} ELSE stoppedBy[r]
      BY <3>1 DEF TypeOK
    <3>4. q \in Stoppers => Begun(q)
      BY <2>1 DEF StopperInv
    <3>5. \A p \in Stoppers, r \in Runs : p \in stoppedBy'[r] => pc'[p] # "stop" /\ Begun(p)'
      BY <2>1, <3>2, <3>3, <3>4 DEF StopperInv, Begun
    <3>6. ASSUME q \in Stoppers, q[1] # stopCh
          PROVE  q[1] < stopCh /\ q \notin stoppedBy[q[1]] /\ q[1] \in closedChs
      <4>1. q[1] \in Runs /\ q[1] <= starts
        BY <3>4, <3>6, StopperIs, TimerAssumption DEF StopperInv, Begun, TypeOK
      <4>2. runPc[q[1]] = "gone"
        BY <2>4, <3>6, <4>1, TimerAssumption DEF SingleRunner, LiveRuns, Live, StartsInv, TypeOK, RunStates, Runs
      <4>3. q \notin stoppedBy[q[1]]
        BY <2>1, <3>6, <4>1 DEF StopperInv
      <4> QED
        BY <3>1, <3>6, <4>1, <4>2, <4>3 DEF StopperInv, Runs
    <3>7. SingleShotStops'
      <4> SUFFICES ASSUME NEW r \in Runs, NEW p \in stoppedBy'[r] \cap Stoppers, p[1] # r
                   PROVE  p[1] < r /\ p \notin stoppedBy'[p[1]] /\ p[1] \in closedChs'
        BY DEF SingleShotStops
      <4>1. CASE r = stopCh
        <5>1. p = q
          BY <3>3, <4>1
        <5> QED
          BY <3>1, <3>3, <3>6, <4>1, <5>1, StopperIs
      <4>2. CASE r # stopCh
        <5>1. p \in stoppedBy[r] /\ p # q
          BY <2>1, <3>3, <4>2 DEF StopperInv
        <5>2. p[1] < r /\ p \notin stoppedBy[p[1]] /\ p[1] \in closedChs
          BY <5>1 DEF StopperInv, SingleShotStops
        <5> QED
          BY <3>1, <3>3, <5>1, <5>2, StopperIs
      <4> QED
        BY <4>1, <4>2
    <3>8. \A p \in Stoppers : pc'[p] # "dead" => Begun(p)'
      BY <2>1, <3>2, <3>4 DEF StopperInv, Begun
    <3> QED
      BY <2>1, <3>1, <3>5, <3>7, <3>8 DEF StopperInv
  <2> QED
    BY <2>2, <2>3, <2>4
<1>6. ASSUME NEW q \in Procs, StopWait(q) \/ StopWoken(q) PROVE StopperInv'
  <2>1. pc[q] \in {"wait", "released"} /\ UNCHANGED <<stopCh, starts, runPc, ticks, closedChs, stoppedBy>>
    BY <1>6 DEF StopWait, StopWoken, runVars
  <2>2. StopDone(q) \/ Panic(q) \/ pc' = [pc EXCEPT ![q] = "parked"]
    BY <1>6 DEF StopWait, StopWoken
  <2>3. \A p \in Stoppers : pc'[p] = pc[p] \/ (pc[p] # "dead" /\ pc'[p] # "stop")
    <3>1. CASE StopDone(q)
      BY <1>4, <2>1, <3>1
    <3>2. CASE Panic(q)
      BY <1>3, <3>2
    <3>3. CASE pc' = [pc EXCEPT ![q] = "parked"]
      BY <2>1, <3>3, StopperIs DEF TypeOK
    <3> QED
      BY <2>2, <3>1, <3>2, <3>3
  <2> QED
    BY <1>0, <2>1, <2>3, StopperKept
<1>7. ASSUME NEW q \in Runs, RunTick(q) PROVE StopperInv'
  <2>1. /\ runPc[q] = "select" /\ ticks' = [ticks EXCEPT ![q] = @ + 1]
        /\ pc' = IF SingleShot THEN [pc EXCEPT ![<<q, ticks[q] + 1>>] = "stop"] ELSE pc
        /\ UNCHANGED <<stopCh, closedChs, starts, runPc, stoppedBy>>
    BY <1>7 DEF RunTick
  <2>2. \A r \in Runs : ticks[r] \in Nat /\ ticks'[r] = IF r = q THEN ticks[r] + 1 ELSE ticks[r]
    BY <2>1, TimerAssumption DEF TypeOK
  <2>3. q <= starts
    BY <2>1 DEF StartsInv, TypeOK, Runs
  <2>4. \A p \in Stoppers : Begun(p) => Begun(p)' /\ p # <<q, ticks[q] + 1>>
    BY <2>2, StopperIs DEF Begun
  <2>5. \A p \in Stoppers : pc'[p] = pc[p] \/ (p = <<q, ticks[q] + 1>> /\ Begun(p)')
    BY <2>1, <2>2, StopperIs DEF Begun, TypeOK
  <2>6. SingleShotStops'
    BY <2>1 DEF StopperInv, SingleShotStops
  <2>7. \A p \in Stoppers : pc'[p] # "dead" => Begun(p)'
    BY <2>4, <2>5 DEF StopperInv
  <2>8. \A p \in Stoppers, r \in Runs : p \in stoppedBy'[r] => pc'[p] # "stop" /\ Begun(p)'
    BY <2>1, <2>4, <2>5 DEF StopperInv
  <2>9. \A r \in Runs : ticks'[r] > 0 => r <= starts'
    BY <2>1, <2>2, <2>3 DEF StopperInv
  <2> QED
    BY <2>1, <2>6, <2>7, <2>8, <2>9 DEF StopperInv
<1>8. ASSUME NEW q \in Runs, RunBegin(q) \/ RunStopped(q) PROVE StopperInv'
  <2>1. \A r \in Runs : runPc'[r] \in {"leave", "gone"} => runPc[r] \in {"leave", "gone"} \/ r \in closedChs
    BY <1>8 DEF RunBegin, RunStopped, Moves, TypeOK
  <2> QED
    BY <1>0, <1>8, <2>1, StopperKept DEF RunBegin, RunStopped, callVars
<1>9. ASSUME NEW q \in Runs, RunLeave(q) PROVE StopperInv'
  <2>1. runPc[q] = "leave" /\ runPc' = [runPc EXCEPT ![q] = "gone"]
    BY <1>9 DEF RunLeave, Moves
  <2>2. \A r \in Runs : runPc'[r] \in {"leave", "gone"} => runPc[r] \in {"leave", "gone"}
    BY <2>1 DEF TypeOK
  <2>3. \A p \in Stoppers : pc'[p] = pc[p] \/ (pc[p] # "dead" /\ pc'[p] # "stop")
    BY <1>9, StopperIs DEF RunLeave
  <2> QED
    BY <1>0, <1>9, <2>2, <2>3, StopperKept DEF RunLeave
<1>10. CASE UNCHANGED vars \/ \E r \in Runs : RunPanics(r)
  BY <1>0, <1>10, StopperKept DEF RunPanics, vars, runVars, callVars
<1> QED
  BY <1>1, <1>2, <1>5, <1>6, <1>7, <1>8, <1>9, <1>10 DEF Next, CheckedCall, StopStep, RunStep

\* The channel of a run is closed by a goroutine of one of its own ticks, or by one of
\* an earlier run that somebody else has stopped: of any number of overlapping ticks no
\* goroutine stops two runs (run, Stop).
THEOREM TimerSingleShotStops == Spec => []SingleShotStops
<1>1. TimerInv /\ StopperInv /\ [Next]_vars => StopperInv'
  BY StopperStep
<1>2. StopperInv => SingleShotStops
  BY DEF StopperInv
<1> QED
  BY StopperInit, TimerSafe, <1>1, <1>2, PTL DEF Spec
=============================================================================
