----------------------------- MODULE WatchProofs -----------------------------
(***************************************************************************)
(* Proofs about a watch, for any number of polls, starts and ticks.  They  *)
(* use what TimerProofs shows of the timer.                                *)
(***************************************************************************)
EXTENDS Watch, FiniteSetTheorems, TLAPS

TP == INSTANCE TimerProofs WITH Callers <- Pollers \cup {lua}, SingleShot <- FALSE

\* What a watch makes of its timer.  Only the loop stops it, so that its channel is
\* closed only while the loop waits for the runner.
StopInv ==
  /\ ~held /\ ~crashed
  /\ \A p \in Pollers : pc[p] \in {"idle", "start"}
  /\ stopCh \in closedChs => pc[lua] \in {"wait", "parked"}

\* The loop is in no call of the timer when it has none to wait for.
IdleInv == loop \in {"idle", "turn", "assigned"} => Returned

\* One thing at a time goes on: the timer runs, a tick waits for the loop, the loop
\* begins a poll, or a poll is under way.
OneInv ==
  /\ \A p, q \in InFlight : p = q
  /\ InFlight # {} => stopCh = 0 /\ due = 0 /\ loop \notin {"new", "begin", "tick"} /\ pc[lua] # "start"
  /\ due > 0 => due = 1 /\ loop \notin {"new", "begin", "tick"} /\ pc[lua] # "start"
  /\ loop = "new" => stopCh = 0 /\ pc[lua] = "idle"
  /\ loop = "tick" =>
       pc[lua] \in {"stop", "wait", "parked"} \/ (pc[lua] \in {"idle", "error", "released"} /\ stopCh = 0)
  /\ loop = "begin" => pc[lua] \in {"start", "idle"}
  /\ pc[lua] = "start" => stopCh = 0
  /\ restart = {}

Undisturbed == ~backlog /\ "start" \notin scripted

Typed ==
  /\ due \in Nat
  /\ loop \in LoopStates
  /\ poll \in [Pollers -> PollStates]
  /\ backlog \in BOOLEAN

WatchInv ==
  /\ TP!TimerInv
  /\ StopInv
  /\ IdleInv
  /\ Typed
  /\ Undisturbed => OneInv

-----------------------------------------------------------------------------
(* The watch uses the timer as one of its callers may.                     *)

TimerSteps ==
  \/ \E op \in {"start", "stop", "again"} : T!Call(lua, op)
  \/ \E p \in Pollers : T!Call(p, "start")
  \/ \E p \in Pollers \cup {lua} : T!Start(p)
  \/ T!StopStep(lua) /\ ~crashed'
  \/ \E r \in T!Runs : T!RunTick(r) \/ T!RunStep(r)
  \/ UNCHANGED timerVars

LEMMA CallersApart ==
  /\ lua \in TP!Procs /\ Pollers \subseteq TP!Procs /\ lua \notin Pollers
  /\ (Pollers \cup {lua}) \cap TP!Stoppers = {}
BY WatchAssumption DEF TP!Procs, TP!Stoppers, T!Stoppers, TP!Runs, T!Runs

LEMMA StopTimerStep ==
  ASSUME StopTimer PROVE T!Call(lua, "stop") \/ (UNCHANGED timerVars /\ stopCh = 0)
BY DEF StopTimer

LEMMA WatchTimerSteps ==
  ASSUME [Next]_vars PROVE TimerSteps
<1>1. CASE UNCHANGED timerVars
  BY <1>1 DEF TimerSteps
<1>2. CASE Begin
  BY <1>2 DEF Begin, TimerInit, TimerSteps
<1>3. CASE Begun \/ TickCallback
  BY <1>1, <1>3, StopTimerStep DEF Begun, TickCallback, TimerSteps
<1>4. CASE LoopInTimer
  BY <1>4 DEF LoopInTimer, TimerSteps
<1>5. ASSUME NEW op \in {"start", "stop", "again"}, ScriptCalls(op) PROVE TimerSteps
  BY <1>5 DEF ScriptCalls, T!CheckedCall, TimerSteps
<1>6. ASSUME NEW p \in Pollers, DoneCallback(p) PROVE TimerSteps
  BY <1>1, <1>6 DEF DoneCallback, T!CheckedCall, TimerSteps
<1>7. ASSUME NEW p \in Pollers, EndPoll(p) \/ Restart(p) PROVE TimerSteps
  BY <1>7 DEF EndPoll, Restart, TimerSteps
<1>8. ASSUME NEW r \in T!Runs, Tick(r) \/ Runner(r) PROVE TimerSteps
  BY <1>8 DEF Tick, Runner, TimerSteps
<1>9. ASSUME NEW p \in Pollers,
             \/ StartPoll(p) \/ DoneFails(p) \/ (\E on \in BOOLEAN : Answered(p, on))
             \/ AnsweredError(p) \/ Compare(p) \/ Assign(p) \/ Emit(p)
      PROVE  UNCHANGED timerVars
  BY <1>9 DEF StartPoll, DoneFails, Answered, AnsweredError, Compare, Assign, Emit
<1>10. ASSUME \/ StartFails \/ CallReturns \/ (\E on \in BOOLEAN : Turn(on))
              \/ TurnFails \/ TurnAssigns \/ TurnEmits \/ UNCHANGED vars
       PROVE  UNCHANGED timerVars
  BY <1>10 DEF StartFails, CallReturns, Turn, TurnFails, TurnAssigns, TurnEmits, vars
<1> QED
  BY <1>1, <1>2, <1>3, <1>4, <1>5, <1>6, <1>7, <1>8, <1>9, <1>10 DEF Next, LoopStep, Goroutine

LEMMA TimerSimulation ==
  ASSUME TimerSteps PROVE [TP!Next]_(TP!vars)
<1>1. ASSUME NEW p \in Pollers \cup {lua}, NEW op \in {"start", "stop", "again"}, T!Call(p, op)
      PROVE  TP!Next
  <2>1. TP!Call(p, op)
    BY <1>1 DEF T!Call, TP!Call, T!runVars, TP!runVars
  <2> QED
    BY <2>1 DEF TP!Next
<1>2. ASSUME NEW p \in Pollers \cup {lua}, T!Start(p) PROVE TP!Next
  <2>1. TP!Start(p)
    BY <1>2 DEF T!Start, TP!Start, T!Free, TP!Free
  <2> QED
    BY <2>1 DEF TP!Next
<1>3. CASE T!StopStep(lua)
  <2>1. CASE T!StopLock(lua)
    BY <2>1, CallersApart DEF T!StopLock, TP!StopLock, T!Free, TP!Free, T!Panic, TP!Panic, T!runVars,
       TP!runVars, T!callVars, TP!callVars, TP!Next, TP!StopStep
  <2>2. CASE T!StopWait(lua)
    BY <2>2, CallersApart DEF T!StopWait, TP!StopWait, T!StopDone, TP!StopDone, T!After, TP!After,
       T!runVars, TP!runVars, TP!Next, TP!StopStep
  <2>3. CASE T!StopWoken(lua)
    BY <2>3, CallersApart DEF T!StopWoken, TP!StopWoken, T!StopDone, TP!StopDone, T!After, TP!After,
       T!Panic, TP!Panic, T!callVars, TP!callVars, T!runVars, TP!runVars, TP!Next, TP!StopStep
  <2> QED
    BY <1>3, <2>1, <2>2, <2>3 DEF T!StopStep
<1>4. ASSUME NEW r \in T!Runs, T!RunTick(r) PROVE TP!Next
  <2>1. r \in TP!Runs /\ TP!RunTick(r)
    BY <1>4 DEF T!RunTick, TP!RunTick, T!Runs, TP!Runs
  <2> QED
    BY <2>1 DEF TP!Next
<1>5. ASSUME NEW r \in T!Runs, T!RunStep(r) PROVE TP!Next
  <2>1. r \in TP!Runs /\ TP!RunStep(r)
    BY <1>5 DEF T!RunStep, TP!RunStep, T!RunBegin, TP!RunBegin, T!RunStopped, TP!RunStopped,
       T!RunLeave, TP!RunLeave, T!Moves, TP!Moves, T!Free, TP!Free, T!callVars, TP!callVars,
       T!Runs, TP!Runs, T!Procs, TP!Procs, T!Stoppers, TP!Stoppers
  <2> QED
    BY <2>1 DEF TP!Next
<1>6. ASSUME UNCHANGED timerVars PROVE UNCHANGED TP!vars
  BY <1>6 DEF timerVars, TP!vars
<1> QED
  BY <1>1, <1>2, <1>3, <1>4, <1>5, <1>6 DEF TimerSteps

LEMMA WatchInit == Init => WatchInv
<1> SUFFICES ASSUME Init PROVE WatchInv
  OBVIOUS
<1>1. TP!TimerInv
  <2>1. TP!Init
    BY DEF Init, T!Init, TP!Init, T!Runs, TP!Runs, T!Procs, TP!Procs, T!Stoppers, TP!Stoppers
  <2> QED
    BY <2>1, TP!TimerInit, CallersApart, WatchAssumption
<1>2. /\ stopCh = 0 /\ closedChs = {} /\ ~held /\ ~crashed /\ restart = {}
      /\ \A p \in Pollers \cup {lua} : pc[p] = "idle"
  BY DEF Init, T!Init, T!Procs
<1>3. StopInv
  BY <1>2 DEF StopInv
<1>4. OneInv
  BY <1>2 DEF OneInv, InFlight, Init
<1>5. Typed
  BY DEF Typed, Init, LoopStates, PollStates
<1> QED
  BY <1>1, <1>3, <1>4, <1>5 DEF WatchInv, IdleInv, Init

LEMMA TimerKept ==
  ASSUME TP!TimerInv, TimerSteps PROVE TP!TimerInv'
BY TimerSimulation, TP!TimerTypeStep, TP!TimerRunnerStep, CallersApart, WatchAssumption DEF TP!TimerInv

\* What the invariant of the timer says.
LEMMA TimerFacts ==
  ASSUME TP!TimerInv
  PROVE  /\ stopCh \in Nat /\ wg \in Nat /\ starts \in Nat
         /\ stopCh = 0 <=> wg = 0
         /\ 0 \notin closedChs /\ starts + 1 \notin closedChs
         /\ pc = [p \in TP!Procs |-> pc[p]]
         /\ \A r \in T!Runs : runPc[r] = "select" => stopCh # 0
<1> USE WatchAssumption DEF TP!TimerInv
<1>1. stopCh \in Nat /\ wg \in Nat /\ starts \in Nat /\ closedChs \subseteq 1 .. MaxStarts
  BY DEF TP!TypeOK, TP!Runs
<1>2. stopCh = 0 <=> wg = 0
  BY DEF TP!SingleRunner
<1>3. 0 \notin closedChs /\ starts + 1 \notin closedChs
  BY <1>1 DEF TP!StartsInv
<1>4. pc = [p \in TP!Procs |-> pc[p]]
  BY DEF TP!TypeOK
<1>5. \A r \in T!Runs : runPc[r] = "select" => stopCh # 0
  BY DEF TP!SingleRunner, TP!LiveRuns, TP!Live, TP!Runs, T!Runs
<1> QED
  BY <1>1, <1>2, <1>3, <1>4, <1>5

\* What a step of the loop's Stop does.
LEMMA StopStepFacts ==
  ASSUME TP!TimerInv, StopInv, T!StopStep(lua), ~crashed'
  PROVE  /\ ~held' /\ stopCh' = stopCh /\ restart' \subseteq restart
         /\ pc'[lua] \in {"wait", "parked"} => restart' = restart
         /\ \A p \in Pollers : pc'[p] = pc[p]
         /\ \/ pc[lua] = "stop" /\ pc'[lua] = "wait"
            \/ pc[lua] = "wait" /\ pc'[lua] = "parked" /\ closedChs' = closedChs
            \/ /\ pc[lua] \in {"wait", "released"} /\ closedChs' = closedChs
               /\ IF stopCh = 0 THEN pc'[lua] = IF lua \in restart THEN "start" ELSE "idle"
                                ELSE pc[lua] = "released" /\ pc'[lua] = "error"
<1> USE CallersApart, TimerFacts
<1>1. CASE T!StopLock(lua)
  <2>1. stopCh \notin closedChs
    BY <1>1 DEF StopInv, T!StopLock
  <2> QED
    BY <1>1, <2>1 DEF T!StopLock, StopInv
<1>2. CASE T!StopWait(lua)
  BY <1>2 DEF T!StopWait, T!StopDone, T!After, StopInv
<1>3. CASE T!StopWoken(lua)
  BY <1>3 DEF T!StopWoken, T!StopDone, T!After, T!Panic, T!callVars, StopInv
<1> QED
  BY <1>1, <1>2, <1>3 DEF T!StopStep

LEMMA StopKept ==
  ASSUME TP!TimerInv, StopInv, TimerSteps PROVE StopInv'
<1> USE CallersApart, TimerFacts
<1>1. ASSUME NEW op \in {"start", "stop", "again"}, T!Call(lua, op) PROVE StopInv'
  BY <1>1 DEF T!Call, StopInv
<1>2. ASSUME NEW p \in Pollers, T!Call(p, "start") PROVE StopInv'
  BY <1>2 DEF T!Call, StopInv
<1>3. ASSUME NEW p \in Pollers \cup {lua}, T!Start(p) PROVE StopInv'
  <2>1. pc[p] = "start" /\ pc' = [pc EXCEPT ![p] = "idle"]
    BY <1>3 DEF T!Start
  <2>2. closedChs' = closedChs /\ stopCh' \in {stopCh, starts + 1} /\ ~held' /\ ~crashed'
    BY <1>3 DEF T!Start, StopInv
  <2> QED
    BY <2>1, <2>2 DEF StopInv
<1>4. ASSUME T!StopStep(lua), ~crashed' PROVE StopInv'
  BY <1>4, StopStepFacts DEF StopInv
<1>5. ASSUME NEW r \in T!Runs, T!RunTick(r) \/ T!RunBegin(r) \/ T!RunStopped(r) PROVE StopInv'
  BY <1>5 DEF T!RunTick, T!RunBegin, T!RunStopped, T!callVars, StopInv
<1>6. ASSUME NEW r \in T!Runs, T!RunLeave(r) PROVE StopInv'
  <2>1. /\ pc' = [p \in T!Procs |-> IF wg = 1 /\ pc[p] = "parked" THEN "released" ELSE pc[p]]
        /\ stopCh' = 0 /\ UNCHANGED <<closedChs, held, crashed>>
    BY <1>6 DEF T!RunLeave
  <2> QED
    BY <2>1 DEF StopInv, T!Procs
<1>7. CASE UNCHANGED timerVars
  BY <1>7 DEF timerVars, StopInv
<1> QED
  BY <1>1, <1>2, <1>3, <1>4, <1>5, <1>6, <1>7 DEF TimerSteps, T!RunStep

LEMMA CallFacts ==
  ASSUME TP!TimerInv, NEW p \in Pollers \cup {lua}, NEW op \in {"start", "stop"}, T!Call(p, op)
  PROVE  /\ pc'[p] = op
         /\ p # lua => pc'[lua] = pc[lua]
         /\ UNCHANGED <<stopCh, restart>>
BY CallersApart, TimerFacts DEF T!Call

LEMMA StartFacts ==
  ASSUME TP!TimerInv, NEW p \in Pollers \cup {lua}, T!Start(p)
  PROVE  /\ pc'[p] = "idle"
         /\ p # lua => pc'[lua] = pc[lua]
         /\ UNCHANGED restart
BY CallersApart, TimerFacts DEF T!Start

LEMMA IdleKept ==
  ASSUME TP!TimerInv, StopInv, IdleInv, [Next]_vars PROVE IdleInv'
<1> USE CallersApart DEF IdleInv
<1>1. CASE Begin \/ (\E op \in {"start", "stop", "again"} : ScriptCalls(op))
  BY <1>1 DEF Begin, ScriptCalls, LoopGoes
<1>2. CASE Begun
  BY <1>2 DEF Begun, LoopGoes, timerVars, Returned
<1>3. CASE TickCallback
  BY <1>3 DEF TickCallback, LoopGoes
<1>4. CASE LoopInTimer
  <2>1. loop' = (IF pc'[lua] = "error" THEN "idle" ELSE loop) /\ pc[lua] \notin {"idle", "error"}
    BY <1>4, StopStepFacts DEF LoopInTimer, T!Start
  <2> QED
    BY <2>1 DEF Returned
<1>5. ASSUME \/ StartFails \/ CallReturns \/ (\E on \in BOOLEAN : Turn(on))
             \/ TurnFails \/ TurnAssigns \/ TurnEmits \/ UNCHANGED vars
             \/ \E p \in Pollers : StartPoll(p)
      PROVE  IdleInv'
  BY <1>5 DEF StartFails, CallReturns, Turn, TurnFails, TurnAssigns, TurnEmits, StartPoll, vars,
     timerVars, relayVars, LoopGoes, Returned
<1>6. ASSUME NEW p \in Pollers, DoneCallback(p) PROVE IdleInv'
  BY <1>6 DEF DoneCallback, LoopGoes, timerVars, Returned
<1>7. ASSUME NEW p \in Pollers,
             \/ DoneFails(p) \/ (\E on \in BOOLEAN : Answered(p, on)) \/ AnsweredError(p)
             \/ Compare(p) \/ Assign(p) \/ Emit(p)
      PROVE  IdleInv'
  BY <1>7 DEF DoneFails, Answered, AnsweredError, Compare, Assign, Emit, timerVars, Returned
<1>8. ASSUME NEW p \in Pollers, EndPoll(p) PROVE IdleInv'
  BY <1>8, CallFacts DEF EndPoll, Returned
<1>9. ASSUME NEW p \in Pollers, Restart(p) PROVE IdleInv'
  BY <1>9, StartFacts DEF Restart, Returned
<1>10. ASSUME NEW r \in T!Runs, Tick(r) PROVE IdleInv'
  BY <1>10 DEF Tick, T!RunTick, Returned
<1>11. ASSUME NEW r \in T!Runs, Runner(r) PROVE IdleInv'
  BY <1>11 DEF Runner, T!RunStep, T!RunBegin, T!RunStopped, T!RunLeave, T!callVars, T!Procs, Returned
<1> QED
  BY <1>1, <1>2, <1>3, <1>4, <1>5, <1>6, <1>7, <1>8, <1>9, <1>10, <1>11 DEF Next, LoopStep, Goroutine

-----------------------------------------------------------------------------
(* One thing at a time.                                                    *)

\* A step that the loop's own timer calls and the polls leave no trace of.
LEMMA OneUnchanged ==
  ASSUME OneInv, UNCHANGED <<stopCh, pc, restart, due, loop>>, InFlight' = InFlight
  PROVE  OneInv'
BY DEF OneInv, IdleInv, Returned

LEMMA TickFacts ==
  ASSUME NEW r \in T!Runs, Tick(r)
  PROVE  backlog' \in BOOLEAN /\ (~backlog' => ~backlog /\ ~(due > 0) /\ loop \notin {"begin", "tick"})
<1>1. backlog' = (backlog \/ due > 0 \/ loop \in {"begin", "tick"})
  BY DEF Tick
<1> QED
  BY <1>1, Zenon

\* The steps of the loop.
LEMMA OneLoopStep ==
  ASSUME TP!TimerInv, StopInv, IdleInv, Typed, OneInv, Undisturbed',
         \/ Begin \/ Begun \/ TickCallback \/ LoopInTimer \/ StartFails \/ CallReturns
         \/ \E op \in {"start", "stop", "again"} : ScriptCalls(op)
         \/ \E on \in BOOLEAN : Turn(on)
         \/ TurnFails \/ TurnAssigns \/ TurnEmits
  PROVE  OneInv'
<1>1. CASE Begin
  <2>1. /\ loop = "new" /\ loop' = "begin" /\ pc'[lua] = "start"
        /\ UNCHANGED <<stopCh, restart, due, poll>>
    BY <1>1, CallFacts DEF Begin, TimerInit, LoopGoes
  <2> QED
    BY <2>1 DEF OneInv, InFlight
<1>2. ASSUME loop \in {"begin", "idle"}, loop' = "tick", StopTimer, Returned, UNCHANGED poll,
             due' = 0, InFlight = {}
      PROVE  OneInv'
  <2>1. UNCHANGED <<stopCh, restart>> /\ (pc'[lua] = "stop" \/ (pc'[lua] = pc[lua] /\ stopCh = 0))
    BY <1>2, StopTimerStep, CallFacts DEF timerVars
  <2> QED
    BY <1>2, <2>1 DEF OneInv, InFlight, Returned
<1>3. CASE Begun
  <2>1. /\ Returned /\ loop = "begin" /\ UNCHANGED <<due, poll>>
        /\ loop' = IF kind = "command" THEN "tick" ELSE "idle"
        /\ IF kind = "command" THEN StopTimer ELSE UNCHANGED timerVars
    BY <1>3 DEF Begun, LoopGoes
  <2>2. due = 0 /\ InFlight = {}
    BY <2>1 DEF OneInv, Typed
  <2>3. CASE kind = "command"
    BY <1>2, <2>1, <2>2, <2>3
  <2>4. CASE kind # "command"
    BY <2>1, <2>2, <2>4 DEF OneInv, InFlight, timerVars, Returned
  <2> QED
    BY <2>3, <2>4
<1>4. CASE TickCallback
  <2>1. due > 0 /\ loop = "idle" /\ loop' = "tick" /\ due' = due - 1 /\ StopTimer /\ UNCHANGED poll
    BY <1>4 DEF TickCallback, LoopGoes
  <2>2. due' = 0 /\ InFlight = {} /\ Returned
    BY <2>1 DEF OneInv, IdleInv, Typed
  <2> QED
    BY <1>2, <2>1, <2>2
<1>5. CASE LoopInTimer
  <2>1. UNCHANGED <<due, poll>> /\ loop' = IF pc'[lua] = "error" THEN "idle" ELSE loop
    BY <1>5 DEF LoopInTimer
  <2>2. CASE T!Start(lua)
    <3>1. pc[lua] = "start" /\ pc'[lua] = "idle" /\ restart' = restart
      BY <2>2, StartFacts DEF T!Start
    <3>2. due = 0 /\ InFlight = {} /\ loop \in {"begin", "call"}
      BY <3>1 DEF OneInv, IdleInv, Returned, Typed, LoopStates
    <3> QED
      BY <2>1, <3>1, <3>2 DEF OneInv, InFlight
  <2>3. CASE T!StopStep(lua)
    <3>1. /\ ~held' /\ stopCh' = stopCh /\ restart' \subseteq restart
          /\ \/ pc[lua] = "stop" /\ pc'[lua] = "wait"
             \/ pc[lua] = "wait" /\ pc'[lua] = "parked"
             \/ /\ pc[lua] \in {"wait", "released"}
                /\ IF stopCh = 0 THEN pc'[lua] = IF lua \in restart THEN "start" ELSE "idle"
                                 ELSE pc[lua] = "released" /\ pc'[lua] = "error"
      BY <1>5, <2>3, StopStepFacts DEF LoopInTimer
    <3>2. loop \in {"tick", "call"}
      BY <3>1 DEF OneInv, IdleInv, Returned, Typed, LoopStates
    <3>3. CASE pc'[lua] = "error"
      <4>1. loop = "call" /\ loop' = "idle"
        BY <2>1, <3>1, <3>2, <3>3 DEF OneInv
      <4> QED
        BY <2>1, <3>1, <3>3, <4>1 DEF OneInv, InFlight, Returned
    <3>4. CASE pc'[lua] # "error"
      BY <2>1, <3>1, <3>2, <3>4 DEF OneInv, InFlight
    <3> QED
      BY <3>3, <3>4
  <2> QED
    BY <1>5, <2>2, <2>3 DEF LoopInTimer
<1>6. CASE StartFails \/ CallReturns
  <2>1. Returned /\ loop \in {"tick", "call"} /\ loop' = "idle" /\ UNCHANGED <<timerVars, due, poll>>
    BY <1>6 DEF StartFails, CallReturns, LoopGoes
  <2> QED
    BY <2>1 DEF OneInv, InFlight, timerVars, Returned
<1>7. ASSUME NEW op \in {"start", "stop", "again"}, ScriptCalls(op) PROVE OneInv'
  <2>1. op = "stop"
    BY <1>7 DEF ScriptCalls, Undisturbed
  <2>2. /\ T!Call(lua, "stop") /\ loop = "idle" /\ loop' = "call" /\ UNCHANGED <<due, poll>>
    BY <1>7, <2>1 DEF ScriptCalls, T!CheckedCall, LoopGoes
  <2>3. pc'[lua] = "stop" /\ UNCHANGED <<stopCh, restart>>
    BY <2>2, CallFacts
  <2> QED
    BY <2>2, <2>3 DEF OneInv, InFlight
<1>8. ASSUME (\E on \in BOOLEAN : Turn(on)) \/ TurnFails \/ TurnAssigns \/ TurnEmits PROVE OneInv'
  <2>1. /\ loop \in {"idle", "turn", "assigned"} /\ loop' \in {"idle", "turn", "assigned"}
        /\ UNCHANGED <<timerVars, due, poll>>
    BY <1>8 DEF Turn, TurnFails, TurnAssigns, TurnEmits, LoopGoes, relayVars
  <2> QED
    BY <2>1 DEF OneInv, InFlight, timerVars, Returned
<1> QED
  BY <1>1, <1>3, <1>4, <1>5, <1>6, <1>7, <1>8

\* The steps of the polls and of the timer.
LEMMA OnePollStep ==
  ASSUME TP!TimerInv, StopInv, IdleInv, Typed, OneInv, Undisturbed',
         \/ \E p \in Pollers : \/ StartPoll(p) \/ DoneCallback(p) \/ DoneFails(p)
                              \/ (\E on \in BOOLEAN : Answered(p, on)) \/ AnsweredError(p)
                              \/ Goroutine(p)
         \/ \E r \in T!Runs : Tick(r) \/ Runner(r)
  PROVE  OneInv'
<1>1. ASSUME NEW p \in Pollers, StartPoll(p) PROVE OneInv'
  <2>1. /\ Returned /\ loop = "tick" /\ loop' = "idle" /\ poll' = [poll EXCEPT ![p] = "request"]
        /\ UNCHANGED <<timerVars, due>>
    BY <1>1 DEF StartPoll, LoopGoes, PollGoes
  <2>2. due = 0 /\ InFlight = {} /\ stopCh = 0
    BY <2>1 DEF OneInv, IdleInv, Returned, Typed
  <2>3. InFlight' \subseteq {p}
    BY <2>1, <2>2 DEF InFlight
  <2> QED
    BY <2>1, <2>2, <2>3 DEF OneInv, timerVars, Returned
<1>2. ASSUME NEW p \in Pollers, poll[p] # "none", poll' = [poll EXCEPT ![p] = "none"]
      PROVE  InFlight' = {} /\ stopCh = 0 /\ due = 0 /\ loop \notin {"new", "begin", "tick"} /\ pc[lua] # "start"
  BY <1>2 DEF OneInv, InFlight, Typed
<1>3. ASSUME NEW p \in Pollers, DoneCallback(p) PROVE OneInv'
  <2>1. /\ loop = "idle" /\ loop' = "call" /\ T!Call(lua, "start") /\ due' = due
    <3>1. stopCh = 0
      BY <1>2, <1>3 DEF DoneCallback, PollGoes
    <3> QED
      BY <1>3, <3>1 DEF DoneCallback, LoopGoes, T!CheckedCall
  <2>2. pc'[lua] = "start" /\ UNCHANGED <<stopCh, restart>>
    BY <2>1, CallFacts
  <2>3. InFlight' = {} /\ due = 0 /\ stopCh = 0
    BY <1>2, <1>3 DEF DoneCallback, PollGoes
  <2> QED
    BY <2>1, <2>2, <2>3 DEF OneInv
<1>4. ASSUME NEW p \in Pollers, DoneFails(p) PROVE OneInv'
  <2>1. UNCHANGED <<timerVars, due, loop>> /\ InFlight' = {}
    BY <1>2, <1>4 DEF DoneFails, PollGoes
  <2> QED
    BY <2>1 DEF OneInv, timerVars, Returned
<1>5. ASSUME NEW p \in Pollers,
             (\E on \in BOOLEAN : Answered(p, on)) \/ AnsweredError(p) \/ Compare(p) \/ Assign(p) \/ Emit(p)
      PROVE  OneInv'
  <2>1. UNCHANGED <<timerVars, due, loop>>
    BY <1>5 DEF Answered, AnsweredError, Compare, Assign, Emit
  <2>2. InFlight' \subseteq InFlight
    BY <1>5 DEF Answered, AnsweredError, Compare, Assign, Emit, PollGoes, InFlight, Typed
  <2> QED
    BY <2>1, <2>2 DEF OneInv, timerVars, Returned
<1>6. ASSUME NEW p \in Pollers, EndPoll(p) PROVE OneInv'
  <2>1. /\ T!Call(p, "start") /\ UNCHANGED <<due, loop>>
    BY <1>6 DEF EndPoll
  <2>2. pc'[lua] = pc[lua] /\ UNCHANGED <<stopCh, restart>>
    BY <2>1, CallFacts, CallersApart
  <2>3. InFlight' \subseteq InFlight
    BY <1>6 DEF EndPoll, PollGoes, InFlight, Typed
  <2> QED
    BY <2>1, <2>2, <2>3 DEF OneInv, IdleInv, Returned
<1>7. ASSUME NEW p \in Pollers, Restart(p) PROVE OneInv'
  <2>1. /\ T!Start(p) /\ UNCHANGED <<due, loop>>
    BY <1>7 DEF Restart
  <2>2. pc'[lua] = pc[lua] /\ restart' = restart
    BY <2>1, StartFacts, CallersApart
  <2>3. InFlight' = {} /\ due = 0 /\ loop \notin {"new", "begin", "tick"} /\ pc[lua] # "start"
    BY <1>2, <1>7 DEF Restart, PollGoes
  <2> QED
    BY <2>1, <2>2, <2>3 DEF OneInv, IdleInv, Returned
<1>8. ASSUME NEW r \in T!Runs, Tick(r) PROVE OneInv'
  <2>1. /\ due = 0 /\ loop \notin {"begin", "tick"} /\ due' = 1 /\ UNCHANGED <<loop, poll>>
    BY <1>8, TickFacts DEF Tick, Undisturbed, Typed
  <2>2. runPc[r] = "select" /\ UNCHANGED <<stopCh, pc, restart>>
    BY <1>8 DEF Tick, T!RunTick
  <2>3. stopCh # 0
    BY <2>2, TimerFacts
  <2> QED
    BY <2>1, <2>2, <2>3 DEF OneInv, InFlight, Returned
<1>9. ASSUME NEW r \in T!Runs, Runner(r) PROVE OneInv'
  <2>1. T!RunStep(r) /\ UNCHANGED <<due, loop, poll>>
    BY <1>9 DEF Runner
  <2>2. CASE T!RunBegin(r) \/ T!RunStopped(r)
    BY <2>1, <2>2 DEF T!RunBegin, T!RunStopped, T!callVars, OneInv, InFlight, Returned
  <2>3. CASE T!RunLeave(r)
    <3>1. /\ pc'[lua] = pc[lua] \/ (pc[lua] = "parked" /\ pc'[lua] = "released")
          /\ stopCh' = 0 /\ restart' = restart
      BY <2>3, CallersApart DEF T!RunLeave, T!Procs
    <3> QED
      BY <2>1, <3>1 DEF OneInv, InFlight, Returned
  <2> QED
    BY <2>1, <2>2, <2>3 DEF T!RunStep
<1> QED
  BY <1>1, <1>3, <1>4, <1>5, <1>6, <1>7, <1>8, <1>9 DEF Goroutine

-----------------------------------------------------------------------------
LEMMA Monotone ==
  ASSUME backlog \in BOOLEAN, [Next]_vars, Undisturbed' PROVE Undisturbed
<1> USE DEF Undisturbed
<1>1. ASSUME NEW r \in T!Runs, Tick(r) \/ Runner(r) PROVE Undisturbed
  BY <1>1, TickFacts DEF Tick, Runner
<1>2. ASSUME \/ \E p \in Pollers : \/ StartPoll(p) \/ DoneCallback(p) \/ DoneFails(p)
                                  \/ (\E on \in BOOLEAN : Answered(p, on)) \/ AnsweredError(p)
                                  \/ Compare(p) \/ Assign(p) \/ Emit(p) \/ EndPoll(p) \/ Restart(p)
             \/ \E op \in {"start", "stop", "again"} : ScriptCalls(op)
             \/ \E on \in BOOLEAN : Turn(on)
             \/ Begin \/ Begun \/ TickCallback \/ LoopInTimer \/ StartFails \/ CallReturns
             \/ TurnFails \/ TurnAssigns \/ TurnEmits \/ UNCHANGED vars
      PROVE  backlog' = backlog /\ scripted \subseteq scripted'
  BY <1>2 DEF StartPoll, DoneCallback, DoneFails, Answered, AnsweredError, Compare, Assign, Emit,
     EndPoll, Restart, ScriptCalls, Turn, Begin, Begun, TickCallback, LoopInTimer, StartFails,
     CallReturns, TurnFails, TurnAssigns, TurnEmits, vars
<1> QED
  BY <1>1, <1>2 DEF Next, LoopStep, Goroutine

LEMMA TypedKept ==
  ASSUME Typed, [Next]_vars PROVE Typed'
<1> USE DEF Typed, LoopStates, PollStates, LoopGoes, PollGoes
<1>1. CASE Begin \/ Begun \/ TickCallback \/ LoopInTimer \/ StartFails \/ CallReturns
  BY <1>1 DEF Begin, Begun, TickCallback, LoopInTimer, StartFails, CallReturns
<1>2. ASSUME \/ \E op \in {"start", "stop", "again"} : ScriptCalls(op)
             \/ \E on \in BOOLEAN : Turn(on)
             \/ TurnFails \/ TurnAssigns \/ TurnEmits \/ UNCHANGED vars
      PROVE  Typed'
  BY <1>2 DEF ScriptCalls, Turn, TurnFails, TurnAssigns, TurnEmits, vars
<1>3. ASSUME NEW p \in Pollers, StartPoll(p) \/ DoneCallback(p) \/ DoneFails(p) PROVE Typed'
  BY <1>3 DEF StartPoll, DoneCallback, DoneFails
<1>4. ASSUME NEW p \in Pollers, (\E on \in BOOLEAN : Answered(p, on)) \/ AnsweredError(p) \/ Goroutine(p)
      PROVE  Typed'
  BY <1>4 DEF Answered, AnsweredError, Goroutine, Compare, Assign, Emit, EndPoll, Restart
<1>5. ASSUME NEW r \in T!Runs, Tick(r) \/ Runner(r) PROVE Typed'
  BY <1>5, TickFacts DEF Tick, Runner
<1> QED
  BY <1>1, <1>2, <1>3, <1>4, <1>5 DEF Next, LoopStep

\* The inductive invariant of a watch holds in every reachable state.
THEOREM WatchSafe == Spec => []WatchInv
<1>1. ASSUME WatchInv, [Next]_vars PROVE WatchInv'
  <2>1. TP!TimerInv' /\ StopInv'
    BY <1>1, WatchTimerSteps, TimerKept, StopKept DEF WatchInv
  <2>2. IdleInv' /\ Typed'
    BY <1>1, IdleKept, TypedKept DEF WatchInv
  <2>3. ASSUME Undisturbed' PROVE OneInv'
    <3>1. OneInv
      BY <1>1, <2>3, Monotone DEF WatchInv, Typed
    <3>2. CASE UNCHANGED vars
      BY <3>1, <3>2, OneUnchanged DEF vars, timerVars, InFlight
    <3>3. CASE Next
      BY <1>1, <2>3, <3>1, <3>3, OneLoopStep, OnePollStep DEF Next, LoopStep, WatchInv
    <3> QED
      BY <1>1, <3>2, <3>3
  <2> QED
    BY <2>1, <2>2, <2>3 DEF WatchInv
<1> QED
  BY WatchInit, <1>1, PTL DEF Spec

\* The timer of a watch never closes a channel twice: although pollers start it at any
\* time, only the loop stops it, one call after the other (spawn.watch, watch_relay,
\* watch_realtime).
THEOREM WatchStopsOnce == Spec => []StopsOnce
<1>1. WatchInv => StopsOnce
  BY DEF WatchInv, StopInv, StopsOnce
<1> QED
  BY <1>1, WatchSafe, PTL

\* Two polls of a watch are under way at once only if a tick came before the timer was
\* stopped for the tick before, or the script started the timer.
THEOREM WatchNoOverlap == Spec => []OverlapNeedsBacklog
<1>1. ASSUME WatchInv, Cardinality(InFlight) > 1 PROVE ~Undisturbed
  <2> SUFFICES ASSUME OneInv PROVE FALSE
    BY <1>1 DEF WatchInv
  <2>1. CASE InFlight = {}
    BY <1>1, <2>1, FS_EmptySet
  <2>2. CASE InFlight # {}
    <3>1. PICK p \in InFlight : TRUE
      BY <2>2
    <3>2. InFlight = {p}
      BY <3>1 DEF OneInv
    <3> QED
      BY <1>1, <3>2, FS_Singleton
  <2> QED
    BY <2>1, <2>2
<1>2. WatchInv => OverlapNeedsBacklog
  BY <1>1 DEF OverlapNeedsBacklog, Undisturbed
<1> QED
  BY <1>2, WatchSafe, PTL

-----------------------------------------------------------------------------
(* currentRelayState and what the listeners were told.                     *)

WriterStates == {"request", "answered", "changed", "assigned"}

\* Unless polls and turn_on have overlapped only one of them writes, and what it has
\* assigned is what it is about to tell.
RelayInv ==
  /\ \A p \in Pollers : poll[p] \in WriterStates =>
       /\ loop \notin {"turn", "assigned"}
       /\ kind = "relay" => \A q \in Pollers : poll[q] \in WriterStates => p = q
       /\ kind # "relay" => poll[p] = "request"
       /\ poll[p] = "assigned" => current = answer[p]
  /\ loop \in {"turn", "assigned"} => kind = "relay"
  /\ loop = "assigned" => current = goal
  /\ told = current \/ loop = "assigned" \/ \E p \in Pollers : poll[p] = "assigned"

ToldInv ==
  /\ poll \in [Pollers -> PollStates]
  /\ mixed \in BOOLEAN
  /\ mixed \/ RelayInv

LEMMA ToldInit == Init => ToldInv
BY DEF Init, ToldInv, RelayInv, WriterStates, PollStates

\* The steps that neither write nor tell anything.
LEMMA RelayKept ==
  ASSUME RelayInv, UNCHANGED <<kind, current, told>>,
         \A p \in Pollers : poll'[p] = poll[p] /\ (poll[p] = "assigned" => answer'[p] = answer[p]),
         loop' = loop \/ {loop, loop'} \cap {"turn", "assigned"} = {},
         goal' = goal
  PROVE  RelayInv'
BY DEF RelayInv, WriterStates

LEMMA RelayLoopStep ==
  ASSUME ToldInv, RelayInv, ~mixed',
         \/ (\E on \in BOOLEAN : Turn(on)) \/ TurnFails \/ TurnAssigns \/ TurnEmits
         \/ \E p \in Pollers : StartPoll(p)
  PROVE  RelayInv'
<1>1. ASSUME NEW on \in BOOLEAN, Turn(on) PROVE RelayInv'
  <2>1. mixed' = (mixed \/ Writers # {})
    BY <1>1 DEF Turn
  <2>2. Writers = {}
    BY <2>1, Zenon
  <2> QED
    BY <1>1, <2>2 DEF Turn, LoopGoes, RelayInv, WriterStates, Writers
<1>2. CASE TurnFails \/ TurnAssigns \/ TurnEmits
  BY <1>2 DEF TurnFails, TurnAssigns, TurnEmits, LoopGoes, RelayInv, WriterStates
<1>3. ASSUME NEW p \in Pollers, StartPoll(p) PROVE RelayInv'
  <2>1. mixed' = (mixed \/ (kind = "relay" /\ Writers # {}))
    BY <1>3 DEF StartPoll
  <2>2. kind = "relay" => Writers = {}
    BY <2>1, Zenon
  <2>3. /\ loop = "tick" /\ loop' = "idle" /\ poll' = [poll EXCEPT ![p] = "request"]
        /\ UNCHANGED <<kind, relayVars>>
    BY <1>3 DEF StartPoll, LoopGoes, PollGoes
  <2>4. poll'[p] = "request" /\ \A q \in Pollers \ {p} : poll'[q] = poll[q]
    BY <2>3 DEF ToldInv
  <2>5. \A q \in Pollers : poll[q] = "assigned" => kind = "relay"
    BY DEF RelayInv, WriterStates
  <2> QED
    BY <1>3, <2>2, <2>3, <2>4, <2>5 DEF RelayInv, WriterStates, Writers, relayVars, StartPoll, PollGoes
<1> QED
  BY <1>1, <1>2, <1>3

LEMMA RelayPollStep ==
  ASSUME ToldInv, RelayInv, NEW p \in Pollers,
         \/ (\E on \in BOOLEAN : Answered(p, on)) \/ AnsweredError(p) \/ Goroutine(p)
         \/ DoneCallback(p) \/ DoneFails(p)
  PROVE  RelayInv'
<1> USE DEF PollGoes, ToldInv
<1>1. ASSUME NEW on \in BOOLEAN, Answered(p, on) PROVE RelayInv'
  BY <1>1 DEF Answered, RelayInv, WriterStates
<1>2. ASSUME poll[p] \notin {"assigned", "changed"}, NEW to \in {"over", "start", "none"},
             poll' = [poll EXCEPT ![p] = to], UNCHANGED <<kind, relayVars>>,
             loop' = loop \/ {loop, loop'} \cap {"turn", "assigned"} = {}
      PROVE  RelayInv'
  BY <1>2 DEF RelayInv, WriterStates, relayVars
<1>3. CASE AnsweredError(p)
  BY <1>2, <1>3 DEF AnsweredError
<1>4. CASE Compare(p)
  BY <1>4 DEF Compare, RelayInv, WriterStates
<1>5. CASE Assign(p)
  BY <1>5 DEF Assign, RelayInv, WriterStates
<1>6. CASE Emit(p)
  BY <1>6 DEF Emit, RelayInv, WriterStates
<1>7. CASE EndPoll(p) \/ Restart(p)
  BY <1>2, <1>7 DEF EndPoll, Restart
<1>8. CASE DoneCallback(p) \/ DoneFails(p)
  BY <1>2, <1>8 DEF DoneCallback, DoneFails, LoopGoes, relayVars
<1> QED
  BY <1>1, <1>3, <1>4, <1>5, <1>6, <1>7, <1>8 DEF Goroutine

LEMMA RelayStep ==
  ASSUME WatchInv, ToldInv, RelayInv, [Next]_vars, ~mixed' PROVE RelayInv'
<1>1. CASE \/ Begin \/ Begun \/ TickCallback \/ StartFails \/ CallReturns
           \/ \E op \in {"start", "stop", "again"} : ScriptCalls(op)
  <2>1. UNCHANGED <<kind, poll, relayVars>>
    BY <1>1 DEF Begin, Begun, TickCallback, StartFails, CallReturns, ScriptCalls
  <2>2. {loop, loop'} \cap {"turn", "assigned"} = {}
    BY <1>1 DEF Begin, Begun, TickCallback, StartFails, CallReturns, ScriptCalls, LoopGoes
  <2> QED
    BY <2>1, <2>2, RelayKept DEF relayVars
<1>2. CASE LoopInTimer
  <2>1. /\ loop' = (IF pc'[lua] = "error" THEN "idle" ELSE loop) /\ UNCHANGED <<kind, poll, relayVars>>
        /\ pc[lua] \notin {"idle", "error"}
    BY <1>2, StopStepFacts DEF LoopInTimer, T!Start, WatchInv
  <2>2. loop \notin {"turn", "assigned"}
    BY <2>1 DEF WatchInv, IdleInv, Returned
  <2> QED
    BY <2>1, <2>2, RelayKept DEF relayVars
<1>3. ASSUME UNCHANGED vars \/ \E r \in T!Runs : Tick(r) \/ Runner(r) PROVE RelayInv'
  BY <1>3, RelayKept DEF vars, Tick, Runner, relayVars
<1> QED
  BY <1>1, <1>2, <1>3, RelayLoopStep, RelayPollStep DEF Next, LoopStep

LEMMA MixedKept ==
  ASSUME mixed \in BOOLEAN, [Next]_vars PROVE mixed' \in BOOLEAN /\ (mixed => mixed')
<1>1. ASSUME (\E on \in BOOLEAN : Turn(on)) \/ (\E p \in Pollers : StartPoll(p))
      PROVE  mixed' \in BOOLEAN /\ (mixed => mixed')
  <2>1. mixed' = (mixed \/ Writers # {}) \/ mixed' = (mixed \/ (kind = "relay" /\ Writers # {}))
    BY <1>1 DEF Turn, StartPoll
  <2> QED
    BY <2>1, Zenon
<1>2. ASSUME ~ \E on \in BOOLEAN : Turn(on), ~ \E p \in Pollers : StartPoll(p)
      PROVE  mixed' = mixed
  BY <1>2 DEF Next, LoopStep, Goroutine, DoneCallback, DoneFails, Answered, AnsweredError, Compare,
     Assign, Emit, EndPoll, Restart, ScriptCalls, Begin, Begun, TickCallback, LoopInTimer, StartFails,
     CallReturns, TurnFails, TurnAssigns, TurnEmits, vars, Tick, Runner
<1> QED
  BY <1>1, <1>2

\* What the listeners were told last is what currentRelayState holds, or is about to be
\* told, as long as polls and turn_on have not overlapped (hs1xxWatchRelay, hs1xxTurnOn).
THEOREM WatchToldIsCurrent == Spec => []ToldIsCurrent
<1>1. ASSUME WatchInv, ToldInv, [Next]_vars PROVE ToldInv'
  <2>1. poll' \in [Pollers -> PollStates]
    BY <1>1, TypedKept DEF WatchInv, Typed
  <2>2. mixed' \in BOOLEAN /\ (mixed => mixed')
    BY <1>1, MixedKept DEF ToldInv
  <2> QED
    BY <1>1, <2>1, <2>2, RelayStep DEF ToldInv
<1>2. ToldInv => ToldIsCurrent
  BY DEF ToldInv, RelayInv, ToldIsCurrent
<1> QED
  BY ToldInit, WatchSafe, <1>1, <1>2, PTL DEF Spec
-----------------------------------------------------------------------------
(* The types.                                                              *)

RelayTyped ==
  /\ answer \in [Pollers -> BOOLEAN]
  /\ {goal, current, told, mixed, backlog} \subseteq BOOLEAN
  /\ scripted \subseteq {"start", "stop", "error"}

LEMMA RelayTypedKept ==
  ASSUME RelayTyped, Typed', [Next]_vars
  PROVE  RelayTyped'
<1> USE DEF RelayTyped, relayVars
<1>0. mixed' \in BOOLEAN /\ backlog' \in BOOLEAN
  BY MixedKept DEF Typed
<1>1. CASE Begin \/ Begun \/ TickCallback \/ LoopInTimer \/ StartFails \/ CallReturns
  BY <1>0, <1>1 DEF Begin, Begun, TickCallback, LoopInTimer, StartFails, CallReturns
<1>2. ASSUME \/ \E op \in {"start", "stop", "again"} : ScriptCalls(op)
             \/ \E on \in BOOLEAN : Turn(on)
             \/ TurnFails \/ TurnAssigns \/ TurnEmits \/ UNCHANGED vars
      PROVE  RelayTyped'
  BY <1>0, <1>2 DEF ScriptCalls, Turn, TurnFails, TurnAssigns, TurnEmits, vars
<1>3. ASSUME NEW p \in Pollers, StartPoll(p) \/ DoneCallback(p) \/ DoneFails(p) PROVE RelayTyped'
  BY <1>0, <1>3 DEF StartPoll, DoneCallback, DoneFails
<1>4. ASSUME NEW p \in Pollers, Compare(p) PROVE RelayTyped'
  <2>1. (answer[p] /\ ~current) \in BOOLEAN
    OBVIOUS
  <2> QED
    BY <1>0, <1>4, <2>1 DEF Compare
<1>5. ASSUME NEW p \in Pollers,
             \/ (\E on \in BOOLEAN : Answered(p, on)) \/ AnsweredError(p) \/ Assign(p) \/ Emit(p)
             \/ EndPoll(p) \/ Restart(p)
      PROVE  RelayTyped'
  BY <1>0, <1>5 DEF Answered, AnsweredError, Assign, Emit, EndPoll, Restart
<1>6. ASSUME NEW r \in T!Runs, Tick(r) \/ Runner(r) PROVE RelayTyped'
  BY <1>0, <1>6 DEF Tick, Runner
<1> QED
  BY <1>1, <1>2, <1>3, <1>4, <1>5, <1>6 DEF Next, LoopStep, Goroutine

\* The state of a watch and of its timer is well-typed.
THEOREM WatchTyped == Spec => []TypeOK
<1>1. Init => RelayTyped
  BY DEF Init, RelayTyped
<1>2. ASSUME WatchInv, WatchInv', RelayTyped, [Next]_vars PROVE RelayTyped'
  BY <1>2, RelayTypedKept DEF WatchInv
<1>3. ASSUME WatchInv, RelayTyped PROVE TypeOK
  <2>1. T!TypeOK
    BY <1>3 DEF WatchInv, TP!TimerInv, T!TypeOK, TP!TypeOK, T!Runs, TP!Runs, T!RunStates, TP!RunStates,
       T!Procs, TP!Procs, T!ProcStates, TP!ProcStates, T!Stoppers, TP!Stoppers, T!InStop, TP!InStop
  <2> QED
    BY <1>3, <2>1 DEF WatchInv, Typed, RelayTyped, TypeOK
<1> QED
  BY WatchSafe, <1>1, <1>2, <1>3, PTL DEF Spec

-----------------------------------------------------------------------------
(* A watch goes on.                                                        *)

\* The script has not stopped the watch, and nothing it depends on has failed.
Unhindered == scripted \cap {"stop", "error"} = {}

\* Every call of the timer that is not part of the callback of a tick ends with a
\* timer that runs: it is a Start, or the Stop that a Start follows.
GoesOnInv ==
  /\ loop = "begin" => pc[lua] = "start" \/ (pc[lua] = "idle" /\ stopCh # 0)
  /\ loop = "call" /\ Unhindered =>
       pc[lua] = "start" \/ (Returned /\ stopCh # 0) \/ (T!InStop(lua) /\ lua \in restart)
  /\ loop \in {"idle", "turn", "assigned"} /\ Unhindered /\ InFlight = {} => stopCh # 0

\* A runner leaves only while the loop waits for it.
LEMMA LeaveFacts ==
  ASSUME TP!TimerInv, TP!StopperInv, StopInv, NEW r \in T!Runs, T!RunLeave(r)
  PROVE  /\ pc[lua] \in {"wait", "parked"}
         /\ pc'[lua] = pc[lua] \/ (pc[lua] = "parked" /\ pc'[lua] = "released")
         /\ UNCHANGED restart
<1>1. runPc[r] = "leave" /\ r \in TP!Runs
  BY DEF T!RunLeave, T!Moves, T!Runs, TP!Runs
<1>2. r \in closedChs /\ stopCh = r
  BY <1>1 DEF TP!StopperInv, TP!TimerInv, TP!SingleRunner, TP!LiveRuns, TP!Live
<1>3. pc[lua] \in {"wait", "parked"}
  BY <1>2 DEF StopInv
<1> QED
  BY <1>3, CallersApart DEF T!RunLeave, T!Procs

\* A Start leaves a timer that is started.
LEMMA Started ==
  ASSUME TP!TimerInv, NEW p \in Pollers \cup {lua}, T!Start(p) PROVE stopCh' # 0
BY TimerFacts DEF T!Start

LEMMA GoesOnKept ==
  ASSUME GoesOnInv, UNCHANGED <<stopCh, pc, restart, scripted>>, InFlight' = {} => InFlight = {},
         loop' = loop \/ {loop, loop'} \subseteq {"idle", "turn", "assigned"}
  PROVE  GoesOnInv'
BY DEF GoesOnInv, Unhindered, Returned, T!InStop

LEMMA GoesOnLoopStep ==
  ASSUME TP!TimerInv, StopInv, IdleInv, GoesOnInv,
         \/ Begin \/ Begun \/ TickCallback \/ LoopInTimer \/ StartFails \/ CallReturns
         \/ \E op \in {"start", "stop", "again"} : ScriptCalls(op)
         \/ \E on \in BOOLEAN : Turn(on)
         \/ TurnFails \/ TurnAssigns \/ TurnEmits
  PROVE  GoesOnInv'
<1>1. CASE Begin
  BY <1>1, CallFacts DEF Begin, TimerInit, LoopGoes, GoesOnInv
<1>2. CASE Begun
  BY <1>2 DEF Begun, LoopGoes, GoesOnInv, timerVars, Returned, Unhindered
<1>3. CASE TickCallback
  BY <1>3 DEF TickCallback, LoopGoes, GoesOnInv
<1>4. CASE StartFails
  BY <1>4 DEF StartFails, LoopGoes, GoesOnInv, Unhindered
<1>5. CASE CallReturns
  BY <1>5 DEF CallReturns, LoopGoes, GoesOnInv, Unhindered, Returned, T!InStop, timerVars
<1>6. ASSUME NEW op \in {"start", "stop", "again"}, ScriptCalls(op) PROVE GoesOnInv'
  <2>1. loop' = "call" /\ T!Call(lua, op) /\ scripted' = scripted \cup {IF op = "stop" THEN "stop" ELSE "start"}
    BY <1>6 DEF ScriptCalls, LoopGoes, T!CheckedCall
  <2>2. CASE op = "start"
    BY <2>1, <2>2, CallFacts DEF GoesOnInv
  <2>3. CASE op = "stop"
    BY <2>1, <2>3 DEF GoesOnInv, Unhindered
  <2>4. CASE op = "again"
    <3>1. pc'[lua] = "stop" /\ lua \in restart'
      BY <2>1, <2>4, CallersApart, TimerFacts DEF T!Call
    <3> QED
      BY <2>1, <3>1 DEF GoesOnInv, T!InStop
  <2> QED
    BY <2>2, <2>3, <2>4
<1>7. ASSUME (\E on \in BOOLEAN : Turn(on)) \/ TurnFails \/ TurnAssigns \/ TurnEmits PROVE GoesOnInv'
  <2>1. UNCHANGED <<stopCh, pc, restart, scripted, poll>>
    BY <1>7 DEF Turn, TurnFails, TurnAssigns, TurnEmits, timerVars
  <2>2. {loop, loop'} \subseteq {"idle", "turn", "assigned"}
    BY <1>7 DEF Turn, TurnFails, TurnAssigns, TurnEmits, LoopGoes
  <2> QED
    BY <2>1, <2>2, GoesOnKept DEF InFlight
<1>8. CASE LoopInTimer
  <2>1. UNCHANGED <<poll, scripted>> /\ loop' = IF pc'[lua] = "error" THEN "idle" ELSE loop
    BY <1>8 DEF LoopInTimer
  <2>2. CASE T!Start(lua)
    <3>1. stopCh' # 0 /\ pc'[lua] = "idle" /\ pc[lua] = "start"
      BY <2>2, StartFacts, Started DEF T!Start
    <3> QED
      BY <2>1, <3>1 DEF GoesOnInv, Unhindered, Returned
  <2>3. CASE T!StopStep(lua) /\ ~crashed'
    <3>1. pc[lua] \in {"stop", "wait", "released"} /\ stopCh' = stopCh
      BY <2>3, StopStepFacts
    <3>2. loop \notin {"begin", "idle", "turn", "assigned"}
      BY <3>1 DEF GoesOnInv, IdleInv, Returned
    <3>3. CASE pc'[lua] \in {"wait", "parked"}
      <4>1. restart' = restart
        BY <2>3, <3>3, StopStepFacts
      <4> QED
        BY <2>1, <3>1, <3>2, <3>3, <4>1 DEF GoesOnInv, Unhindered, Returned, T!InStop
    <3>4. CASE pc'[lua] = "error"
      <4>1. stopCh # 0
        BY <2>3, <3>4, StopStepFacts
      <4> QED
        BY <2>1, <3>1, <3>4, <4>1 DEF GoesOnInv
    <3>5. CASE pc'[lua] = IF lua \in restart THEN "start" ELSE "idle"
      BY <2>1, <3>1, <3>2, <3>5 DEF GoesOnInv, Unhindered, Returned, T!InStop
    <3> QED
      BY <2>3, <3>3, <3>4, <3>5, StopStepFacts
  <2> QED
    BY <1>8, <2>2, <2>3 DEF LoopInTimer
<1> QED
  BY <1>1, <1>2, <1>3, <1>4, <1>5, <1>6, <1>7, <1>8

LEMMA GoesOnPollStep ==
  ASSUME TP!TimerInv, TP!StopperInv, StopInv, IdleInv, Typed, GoesOnInv,
         \/ \E p \in Pollers : \/ StartPoll(p) \/ DoneCallback(p) \/ DoneFails(p)
                              \/ (\E on \in BOOLEAN : Answered(p, on)) \/ AnsweredError(p)
                              \/ Goroutine(p)
         \/ \E r \in T!Runs : Tick(r) \/ Runner(r)
  PROVE  GoesOnInv'
<1>1. ASSUME NEW p \in Pollers, StartPoll(p) PROVE GoesOnInv'
  <2>1. loop' = "idle" /\ poll' = [poll EXCEPT ![p] = "request"]
    BY <1>1 DEF StartPoll, LoopGoes, PollGoes
  <2>2. InFlight' # {}
    BY <2>1 DEF InFlight, Typed
  <2> QED
    BY <2>1, <2>2 DEF GoesOnInv
<1>2. ASSUME NEW p \in Pollers, DoneCallback(p) PROVE GoesOnInv'
  <2>1. CASE stopCh = 0
    <3>1. loop' = "call" /\ T!Call(lua, "start")
      BY <1>2, <2>1 DEF DoneCallback, LoopGoes, T!CheckedCall
    <3> QED
      BY <3>1, CallFacts DEF GoesOnInv
  <2>2. CASE stopCh # 0
    BY <1>2, <2>2 DEF DoneCallback, LoopGoes, timerVars, GoesOnInv
  <2> QED
    BY <2>1, <2>2
<1>3. ASSUME NEW p \in Pollers, DoneFails(p) PROVE GoesOnInv'
  BY <1>3 DEF DoneFails, GoesOnInv, Unhindered
<1>4. ASSUME NEW p \in Pollers,
             (\E on \in BOOLEAN : Answered(p, on)) \/ AnsweredError(p) \/ Compare(p) \/ Assign(p) \/ Emit(p)
      PROVE  GoesOnInv'
  <2>1. UNCHANGED <<stopCh, pc, restart, scripted, loop>>
    BY <1>4 DEF Answered, AnsweredError, Compare, Assign, Emit, timerVars
  <2>2. InFlight' = {} => InFlight = {}
    BY <1>4 DEF Answered, AnsweredError, Compare, Assign, Emit, PollGoes, InFlight, Typed
  <2> QED
    BY <2>1, <2>2, GoesOnKept
<1>5. ASSUME NEW p \in Pollers, EndPoll(p) PROVE GoesOnInv'
  <2>1. loop' = loop /\ scripted' = scripted /\ T!Call(p, "start")
    BY <1>5 DEF EndPoll
  <2>2. pc'[lua] = pc[lua] /\ UNCHANGED <<stopCh, restart>>
    BY <2>1, CallFacts, CallersApart
  <2>3. InFlight' = {} => InFlight = {}
    BY <1>5 DEF EndPoll, PollGoes, InFlight, Typed
  <2> QED
    BY <2>1, <2>2, <2>3 DEF GoesOnInv, Unhindered, Returned, T!InStop
<1>6. ASSUME NEW p \in Pollers, Restart(p) PROVE GoesOnInv'
  <2>1. loop' = loop /\ scripted' = scripted /\ T!Start(p)
    BY <1>6 DEF Restart
  <2>2. pc'[lua] = pc[lua] /\ restart' = restart /\ stopCh' # 0
    BY <2>1, StartFacts, Started, CallersApart
  <2> QED
    BY <2>1, <2>2 DEF GoesOnInv, Unhindered, Returned, T!InStop
<1>7. ASSUME NEW r \in T!Runs, Tick(r) PROVE GoesOnInv'
  BY <1>7, GoesOnKept DEF Tick, T!RunTick, InFlight
<1>8. ASSUME NEW r \in T!Runs, Runner(r) PROVE GoesOnInv'
  <2>1. T!RunStep(r) /\ UNCHANGED <<loop, poll, scripted>>
    BY <1>8 DEF Runner
  <2>2. CASE T!RunBegin(r) \/ T!RunStopped(r)
    BY <2>1, <2>2, GoesOnKept DEF T!RunBegin, T!RunStopped, T!callVars, InFlight
  <2>3. CASE T!RunLeave(r)
    <3>1. /\ pc[lua] \in {"wait", "parked"} /\ pc'[lua] \in {"wait", "parked", "released"}
          /\ restart' = restart
      BY <2>3, LeaveFacts
    <3> QED
      BY <2>1, <3>1 DEF GoesOnInv, IdleInv, Unhindered, Returned, T!InStop
  <2> QED
    BY <2>1, <2>2, <2>3 DEF T!RunStep
<1> QED
  BY <1>1, <1>2, <1>3, <1>4, <1>5, <1>6, <1>7, <1>8 DEF Goroutine

\* A watch whose script has not stopped it and which has met no error goes on: also if a
\* Start found the timer stopped and not yet reset, and did nothing (spawn.watch,
\* watch_relay, watch_realtime).
THEOREM WatchKeepsGoing == Spec => []WatchGoesOn
<1>1. Init => TP!StopperInv /\ GoesOnInv
  <2> SUFFICES ASSUME Init PROVE TP!StopperInv /\ GoesOnInv
    OBVIOUS
  <2>1. TP!Init
    BY DEF Init, T!Init, TP!Init, T!Runs, TP!Runs, T!Procs, TP!Procs, T!Stoppers, TP!Stoppers
  <2>2. TP!StopperInv
    BY <2>1, TP!StopperInit, CallersApart, WatchAssumption
  <2> QED
    BY <2>2 DEF Init, GoesOnInv
<1>2. ASSUME WatchInv, TP!StopperInv, [Next]_vars PROVE TP!StopperInv'
  BY <1>2, WatchTimerSteps, TimerSimulation, TP!StopperStep, CallersApart, WatchAssumption DEF WatchInv
<1>3. ASSUME WatchInv, TP!StopperInv, GoesOnInv, [Next]_vars PROVE GoesOnInv'
  <2>1. CASE UNCHANGED vars
    BY <1>3, <2>1, GoesOnKept DEF vars, timerVars, InFlight
  <2>2. CASE Next
    BY <1>3, <2>2, GoesOnLoopStep, GoesOnPollStep DEF Next, LoopStep, WatchInv
  <2> QED
    BY <1>3, <2>1, <2>2
<1>4. ASSUME WatchInv, GoesOnInv PROVE WatchGoesOn
  <2> SUFFICES ASSUME loop \in {"idle", "turn", "assigned"}, Unhindered, InFlight = {}
               PROVE  stopCh \notin closedChs \cup {0}
    BY <1>4 DEF WatchGoesOn, Unhindered, WatchInv, Typed, LoopStates
  <2> QED
    BY <1>4 DEF GoesOnInv, WatchInv, StopInv, IdleInv, Returned
<1> QED
  BY WatchSafe, <1>1, <1>2, <1>3, <1>4, PTL DEF Spec
=============================================================================
