-------------------------------- MODULE Watch --------------------------------
(***************************************************************************)
(* A watch: a periodic timer whose callback stops it, starts a poll, and   *)
(* has it started again when the poll is over.  There are three kinds:     *)
(*   "command"   spawn.watch of lib/envel/spawn.lua, a process; the loop   *)
(*               starts the timer again in its done callback               *)
(*   "relay"     watch_relay of hs1xx.go, a request of a goroutine, which  *)
(*               starts the timer itself, and whose result is compared     *)
(*               with currentRelayState                                    *)
(*   "realtime"  watch_realtime, the same without a state to compare       *)
(*                                                                         *)
(* The timer is module Timer, used by the event loop (lua) and by the      *)
(* pollers.  The loop does one thing at a time: while it is in a call of   *)
(* the timer or waits for turn_on it begins no callback.  The timeout is   *)
(* positive: with another the process ends when the first runner begins    *)
(* (RunPanics of Timer), and there is no watch to speak of.                *)
(***************************************************************************)
EXTENDS Naturals, FiniteSets

CONSTANTS
  lua,        \* the event loop
  Pollers,    \* bound: the polls under way at a time
  MaxStarts,  \* bound: see Timer
  MaxTicks    \* bound: see Timer

VARIABLES
  stopCh, closedChs, wg, starts, runPc, ticks, pc, restart, held, crashed, stoppedBy,
  kind,       \* which of the three watches
  due,        \* ticks whose callback has not begun: on the queue, or about to be
  loop,       \* what the event loop is doing
  poll,       \* where each poll is
  answer,     \* what the device answered to each poll
  goal,       \* TRUE in turn_on, FALSE in turn_off
  current,    \* HS1xx.currentRelayState
  told,       \* history: the state the listeners were told last
  mixed,      \* history: two of the polls and turn_on were under way at once
  backlog,    \* history: a tick came before the timer was stopped for the one before
  scripted    \* history: what the script's functions did to the watch

timerVars == <<stopCh, closedChs, wg, starts, runPc, ticks, pc, restart, held, crashed, stoppedBy>>
relayVars == <<answer, goal, current, told>>
vars == <<timerVars, kind, due, loop, poll, relayVars, mixed, backlog, scripted>>

T == INSTANCE Timer WITH Callers <- Pollers \cup {lua}, SingleShot <- FALSE

ASSUME WatchAssumption ==
  /\ lua \notin Pollers
  /\ (Pollers \cup {lua}) \cap T!Stoppers = {}
  /\ MaxStarts \in Nat /\ MaxTicks \in Nat

\* "begin": in Init of the timer; "tick": in the callback of a tick, until the poll
\* is started; "call": in a call of the timer by the script or by a done callback;
\* "turn", "assigned": in turn_on or turn_off.
LoopStates == {"new", "begin", "idle", "tick", "call", "turn", "assigned"}

\* "over": all is done but the start of the timer; "start": in it.
PollStates == {"none", "request", "answered", "changed", "assigned", "over", "start"}

InFlight == {p \in Pollers : poll[p] # "none"}
\* The polls that may still change currentRelayState.
Writers == {p \in Pollers : poll[p] \in {"request", "answered", "changed", "assigned"}}

\* The loop is in no call of the timer.
Returned == pc[lua] \in {"idle", "error"}

LoopGoes(from, to) == loop \in from /\ loop' = to
PollGoes(p, from, to) == poll[p] = from /\ poll' = [poll EXCEPT ![p] = to]

Init ==
  /\ T!Init
  /\ kind \in {"command", "relay", "realtime"}
  /\ due = 0
  /\ loop = "new"
  /\ poll = [p \in Pollers |-> "none"]
  /\ answer = [p \in Pollers |-> FALSE]
  /\ goal = FALSE
  /\ current = FALSE
  /\ told = FALSE
  /\ mixed = FALSE
  /\ backlog = FALSE
  /\ scripted = {}

-----------------------------------------------------------------------------
(* The watch on the event loop.                                            *)

\* Init of the timer, with Autostart and without CallNow.
TimerInit == T!Call(lua, "start")

\* The watch makes its timer.
Begin ==
  /\ LoopGoes({"new"}, "begin")
  /\ TimerInit
  /\ UNCHANGED <<kind, due, poll, relayVars, mixed, backlog, scripted>>

\* Mutant: the callback of a watch does not stop the timer.
StopNothing == UNCHANGED timerVars

\* The callback stops the timer; that of a command looks at is_started first.
StopTimer ==
  IF kind = "command" /\ stopCh = 0 THEN UNCHANGED timerVars ELSE T!Call(lua, "stop")

\* The timer is started.  spawn.watch has the callback called at once.
Begun ==
  /\ Returned
  /\ LoopGoes({"begin"}, IF kind = "command" THEN "tick" ELSE "idle")
  /\ IF kind = "command" THEN StopTimer ELSE UNCHANGED timerVars
  /\ UNCHANGED <<kind, due, poll, relayVars, mixed, backlog, scripted>>

\* The ticker fires; a goroutine schedules the callback.
Tick(r) ==
  /\ T!RunTick(r)
  /\ due' = due + 1
  /\ backlog' = (backlog \/ due > 0 \/ loop \in {"begin", "tick"})
  /\ UNCHANGED <<kind, loop, poll, relayVars, mixed, scripted>>

\* The loop begins the callback of a tick.
TickCallback ==
  /\ due > 0
  /\ LoopGoes({"idle"}, "tick")
  /\ due' = due - 1
  /\ StopTimer
  /\ UNCHANGED <<kind, poll, relayVars, mixed, backlog, scripted>>

\* A step of Stop, or of the Start after it.  A panic is the error of the Lua
\* function, called in protected mode, which ends it.
LoopInTimer ==
  /\ T!StopStep(lua) \/ T!Start(lua)
  /\ ~crashed'
  /\ loop' = IF pc'[lua] = "error" THEN "idle" ELSE loop
  /\ UNCHANGED <<kind, due, poll, relayVars, mixed, backlog, scripted>>

\* Stop has returned: the poll is started.
StartPoll(p) ==
  /\ Returned
  /\ LoopGoes({"tick"}, "idle")
  /\ PollGoes(p, "none", "request")
  /\ mixed' = (mixed \/ (kind = "relay" /\ Writers # {}))
  /\ UNCHANGED <<timerVars, kind, due, relayVars, backlog, scripted>>

\* on_start fails, or the program cannot be executed: the callback ends in an error.
StartFails ==
  /\ kind = "command"
  /\ Returned
  /\ LoopGoes({"tick"}, "idle")
  /\ scripted' = scripted \cup {"error"}
  /\ UNCHANGED <<timerVars, kind, due, poll, relayVars, mixed, backlog>>

\* The script calls a method of what the watch returned: a Lua timer for a command,
\* the userdata for a device.
ScriptCalls(op) ==
  /\ LoopGoes({"idle"}, "call")
  /\ IF kind = "command" /\ op # "again" THEN T!CheckedCall(lua, op) ELSE T!Call(lua, op)
  /\ scripted' = scripted \cup {IF op = "stop" THEN "stop" ELSE "start"}
  /\ UNCHANGED <<kind, due, poll, relayVars, mixed, backlog>>

CallReturns ==
  /\ Returned
  /\ LoopGoes({"call"}, "idle")
  /\ UNCHANGED <<timerVars, kind, due, poll, relayVars, mixed, backlog, scripted>>

-----------------------------------------------------------------------------
(* turn_on and turn_off, in which the loop waits for the device.           *)

Turn(on) ==
  /\ kind = "relay"
  /\ LoopGoes({"idle"}, "turn")
  /\ goal' = on
  /\ mixed' = (mixed \/ Writers # {})
  /\ UNCHANGED <<timerVars, kind, due, poll, answer, current, told, backlog, scripted>>

\* The request fails: an error is returned.
TurnFails ==
  /\ LoopGoes({"turn"}, "idle")
  /\ goal' = FALSE
  /\ UNCHANGED <<timerVars, kind, due, poll, answer, current, told, mixed, backlog, scripted>>

TurnAssigns ==
  /\ LoopGoes({"turn"}, "assigned")
  /\ current' = goal
  /\ UNCHANGED <<timerVars, kind, due, poll, answer, goal, told, mixed, backlog, scripted>>

\* Mutant: the listeners are told what currentRelayState held when they were last.
TurnEmitsNot ==
  /\ LoopGoes({"assigned"}, "idle")
  /\ UNCHANGED <<timerVars, kind, due, poll, relayVars, mixed, backlog, scripted>>

\* Both signals are emitted.
TurnEmits ==
  /\ LoopGoes({"assigned"}, "idle")
  /\ told' = goal
  /\ goal' = FALSE
  /\ UNCHANGED <<timerVars, kind, due, poll, answer, current, mixed, backlog, scripted>>

-----------------------------------------------------------------------------
(* The polls.                                                              *)

\* The command exits, or the device answers.  Its relay can be switched in other
\* ways than turn_on, so that any answer is possible.
Answered(p, on) ==
  /\ PollGoes(p, "request", IF kind = "relay" THEN "answered" ELSE "over")
  /\ on => kind = "relay"
  /\ answer' = [answer EXCEPT ![p] = on]
  /\ UNCHANGED <<timerVars, kind, due, loop, goal, current, told, mixed, backlog, scripted>>

\* Mutant: the timer is not started after a failed request.
AnsweredErrorEnds(p) ==
  /\ kind # "command"
  /\ PollGoes(p, "request", "none")
  /\ UNCHANGED <<timerVars, kind, due, loop, relayVars, mixed, backlog, scripted>>

\* The request fails.
AnsweredError(p) ==
  /\ kind # "command"
  /\ PollGoes(p, "request", "over")
  /\ UNCHANGED <<timerVars, kind, due, loop, relayVars, mixed, backlog, scripted>>

\* currentRelayState is compared, assigned and told by the poller's goroutine,
\* without a lock.
Compare(p) ==
  /\ PollGoes(p, "answered", IF current # answer[p] THEN "changed" ELSE "over")
  /\ answer' = [answer EXCEPT ![p] = @ /\ ~current]
  /\ UNCHANGED <<timerVars, kind, due, loop, goal, current, told, mixed, backlog, scripted>>

Assign(p) ==
  /\ PollGoes(p, "changed", "assigned")
  /\ current' = answer[p]
  /\ UNCHANGED <<timerVars, kind, due, loop, answer, goal, told, mixed, backlog, scripted>>

Emit(p) ==
  /\ PollGoes(p, "assigned", "over")
  /\ told' = answer[p]
  /\ answer' = [answer EXCEPT ![p] = FALSE]
  /\ UNCHANGED <<timerVars, kind, due, loop, goal, current, mixed, backlog, scripted>>

\* The deferred Start of the goroutine, whatever the poll has come to.
EndPoll(p) ==
  /\ kind # "command"
  /\ PollGoes(p, "over", "start")
  /\ T!Call(p, "start")
  /\ UNCHANGED <<kind, due, loop, relayVars, mixed, backlog, scripted>>

Restart(p) ==
  /\ PollGoes(p, "start", "none")
  /\ T!Start(p)
  /\ UNCHANGED <<kind, due, loop, relayVars, mixed, backlog, scripted>>

\* The done callback of a command: on_done, then t1:start().
DoneCallback(p) ==
  /\ kind = "command"
  /\ PollGoes(p, "over", "none")
  /\ LoopGoes({"idle"}, IF stopCh = 0 THEN "call" ELSE "idle")
  /\ IF stopCh = 0 THEN T!CheckedCall(lua, "start") ELSE UNCHANGED timerVars
  /\ UNCHANGED <<kind, due, relayVars, mixed, backlog, scripted>>

\* An error in on_done ends the callback before the start.
DoneFails(p) ==
  /\ kind = "command"
  /\ loop = "idle"
  /\ PollGoes(p, "over", "none")
  /\ scripted' = scripted \cup {"error"}
  /\ UNCHANGED <<timerVars, kind, due, loop, relayVars, mixed, backlog>>

-----------------------------------------------------------------------------
Runner(r) ==
  /\ T!RunStep(r)
  /\ UNCHANGED <<kind, due, loop, poll, relayVars, mixed, backlog, scripted>>

LoopStep ==
  \/ Begin \/ Begun \/ TickCallback \/ LoopInTimer \/ StartFails \/ CallReturns
  \/ \E p \in Pollers : StartPoll(p) \/ DoneCallback(p) \/ DoneFails(p)

Goroutine(p) == Compare(p) \/ Assign(p) \/ Emit(p) \/ EndPoll(p) \/ Restart(p)

Next ==
  \/ LoopStep
  \/ \E op \in {"start", "stop", "again"} : ScriptCalls(op)
  \/ \E on \in BOOLEAN : Turn(on)
  \/ TurnFails \/ TurnAssigns \/ TurnEmits
  \/ \E p \in Pollers : (\E on \in BOOLEAN : Answered(p, on)) \/ AnsweredError(p) \/ Goroutine(p)
  \/ \E r \in T!Runs : Tick(r) \/ Runner(r)

Spec == Init /\ [][Next]_vars

\* Goroutines go on, and so does the loop when it can.  Devices and commands need
\* not answer.
Fairness ==
  /\ WF_vars(LoopStep)
  /\ \A p \in Pollers : WF_vars(Goroutine(p))
  /\ \A r \in T!Runs : WF_vars(Runner(r))

FairSpec == Spec /\ Fairness

-----------------------------------------------------------------------------
TypeOK ==
  /\ T!TypeOK
  /\ due \in Nat
  /\ loop \in LoopStates
  /\ poll \in [Pollers -> PollStates]
  /\ answer \in [Pollers -> BOOLEAN]
  /\ {goal, current, told, mixed, backlog} \subseteq BOOLEAN
  /\ scripted \subseteq {"start", "stop", "error"}

\* Two polls of a watch are under way at once only if a tick came before the loop
\* had stopped the timer for the tick before, or the script started the timer
\* itself: a stopped timer has no tick left, and none comes before the poll has
\* started it again (spawn.watch, watch_relay, watch_realtime).
OverlapNeedsBacklog ==
  Cardinality(InFlight) > 1 => backlog \/ "start" \in scripted

\* The loop is the only one to call Stop of the timer of a watch, so that it never
\* closes a channel twice, which would leave the lock held, although pollers start
\* the timer again at any time (spawn.watch, watch_relay, watch_realtime).
StopsOnce == ~held

\* A Stop of the loop returns, unless a poller starts the timer before the loop
\* waits for the runner it has stopped.  Then the loop, which alone would stop the
\* new runner, waits for ever; with a command this cannot happen (StopTimer).
StopReturns ==
  T!InStop(lua) ~> \/ ~T!InStop(lua)
                   \/ (kind # "command" /\ [](stopCh # 0 /\ stopCh \notin closedChs))

\* A watch goes on: its timer runs, or a poll is under way that will start it, or
\* the loop is about to start a poll; unless the script has stopped it, or one of
\* the script's functions or the command has failed.  Also a Start that finds the
\* timer not yet stopped, and does nothing, is followed by another (Restart).
WatchGoesOn ==
  \/ stopCh \notin closedChs \cup {0}
  \/ InFlight # {}
  \/ loop \in {"new", "begin", "tick", "call"}
  \/ scripted \cap {"stop", "error"} # {}

\* The listeners were told the state that currentRelayState holds, or are about to
\* be, as long as polls and turn_on have not overlapped (hs1xxWatchRelay).
ToldIsCurrent ==
  \/ told = current
  \/ mixed
  \/ loop = "assigned"
  \/ \E p \in Pollers : poll[p] = "assigned"

\* "we don't run the command multiple times if it takes longer to execute than the
\* configured timeout": at most one command runs (spawn.watch).
OneCommand == kind = "command" => Cardinality({p \in Pollers : poll[p] = "request"}) <= 1
=============================================================================
