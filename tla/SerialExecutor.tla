--------------------------- MODULE SerialExecutor ---------------------------
(***************************************************************************)
(* What the event loop promises to the code that schedules on it (the Loop *)
(* interface of pkg/loop/loop.go and the comments of its methods), with    *)
(* the queue, the goroutines and the counters left out.  Tasks are         *)
(* executed one at a time, in the order in which they were submitted; a    *)
(* loop that is closed executes no further task, then executes the exit    *)
(* handlers, one at a time and in the order of their registration.         *)
(***************************************************************************)
EXTENDS Naturals, Sequences

CONSTANTS
  Tasks,      \* the tasks that can be submitted
  Handlers,   \* the exit handlers that can be registered
  None        \* no task and no handler is being executed

VARIABLES
  phase,      \* "open": executes tasks; "exiting": handlers; "closed": nothing
  pending,    \* submitted, not yet begun
  active,     \* the task being executed
  finished,   \* executed, in that order
  atExit,     \* the handlers registered and not yet begun
  exiting,    \* the handler being executed
  exited      \* the handlers executed

execVars == <<phase, pending, active, finished, atExit, exiting, exited>>

Init ==
  /\ phase = "open"
  /\ pending = <<>>
  /\ active = None
  /\ finished = <<>>
  /\ atExit = <<>>
  /\ exiting = None
  /\ exited = <<>>

\* Any goroutine, at any time, the closed loop's callers included.
Submit(t) ==
  /\ pending' = Append(pending, t)
  /\ UNCHANGED <<phase, active, finished, atExit, exiting, exited>>

Begin ==
  /\ phase = "open"
  /\ active = None
  /\ pending # <<>>
  /\ active' = Head(pending)
  /\ pending' = Tail(pending)
  /\ UNCHANGED <<phase, finished, atExit, exiting, exited>>

Finish ==
  /\ active # None
  /\ active' = None
  /\ finished' = Append(finished, active)
  /\ UNCHANGED <<phase, pending, atExit, exiting, exited>>

\* The loop stops between two tasks.  One that was cancelled may drop the task
\* it was about to begin.
Close ==
  /\ phase = "open"
  /\ active = None
  /\ phase' = "exiting"
  /\ pending' \in {pending} \cup (IF pending # <<>> THEN {Tail(pending)} ELSE {})
  /\ UNCHANGED <<active, finished, atExit, exiting, exited>>

Register(h) ==
  /\ phase # "closed"
  /\ atExit' = Append(atExit, h)
  /\ UNCHANGED <<phase, pending, active, finished, exiting, exited>>

BeginExit ==
  /\ phase = "exiting"
  /\ exiting = None
  /\ atExit # <<>>
  /\ exiting' = Head(atExit)
  /\ atExit' = Tail(atExit)
  /\ UNCHANGED <<phase, pending, active, finished, exited>>

FinishExit ==
  /\ exiting # None
  /\ exiting' = None
  /\ exited' = Append(exited, exiting)
  /\ UNCHANGED <<phase, pending, active, finished, atExit>>

\* No handler is left behind.
Closed ==
  /\ phase = "exiting"
  /\ exiting = None
  /\ atExit = <<>>
  /\ phase' = "closed"
  /\ UNCHANGED <<pending, active, finished, atExit, exiting, exited>>

Next ==
  \/ \E t \in Tasks : Submit(t)
  \/ \E h \in Handlers : Register(h)
  \/ Begin \/ Finish \/ Close \/ BeginExit \/ FinishExit \/ Closed

Spec == Init /\ [][Next]_execVars
=============================================================================
