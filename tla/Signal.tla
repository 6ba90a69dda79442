------------------------------- MODULE Signal -------------------------------
(***************************************************************************)
(* One topic of a signal of pkg/signal/signal.go, with the callbacks of    *)
(* pkg/callback that carry an emission to the event loop.  Lua code, which *)
(* runs on the loop, connects, disconnects and emits; goroutines (the      *)
(* poller of hs1xx.go) emit too.  Signal.lock lets emissions overlap and   *)
(* keeps connect and disconnect out of them; a step of an emission is one  *)
(* iteration of the loop in Emit or EmitFrom, which schedules one callback.*)
(*                                                                         *)
(* The queue of the loop is the sequence jobs: module JobQueue shows that  *)
(* it hands out what was pushed, once and in order.  No job is refused     *)
(* here, the loop is not being stopped.                                    *)
(***************************************************************************)
EXTENDS Naturals, Sequences, FiniteSets, SequencesExt

CONSTANTS
  Funcs,           \* Lua functions that are connected
  Goroutines,      \* goroutines that emit
  Lua,             \* the thread of the event loop
  Nil,             \* a nil Callback in the slice of the topic
  MaxEmits,        \* bound: emissions
  MaxConnects,     \* bound: calls of connect_signal
  MaxDisconnects   \* bound: calls of disconnect_signal

ASSUME SignalAssumption ==
  /\ Nil \notin Funcs
  /\ Lua \notin Goroutines
  /\ MaxEmits \in Nat
  /\ MaxConnects \in Nat
  /\ MaxDisconnects \in Nat

Emitters == Goroutines \cup {Lua}

VARIABLES
  handlers,      \* listeners[name]: the subscribers of the topic, in connect order
  emitting,      \* the emission under way in each emitter, NoEmission for none
  jobs,          \* the callbacks scheduled on the loop, <<emission, function>>
  crashed,       \* a panic in a goroutine ended the process
  calls,         \* history: the callbacks the loop ran
  subscribed,    \* history: the functions connected and not disconnected
  wanted,        \* history: the subscribers of each emission, when it began
  emitter,       \* history: who made each emission
  connects, disconnects   \* how many calls were made

vars == <<handlers, emitting, jobs, crashed, calls, subscribed, wanted, emitter,
          connects, disconnects>>

NoEmission == [emission |-> 0, at |-> 0]

Emissions == DOMAIN wanted

\* The loop does one thing at a time, and no emission reads the topic.
Unlocked == \A p \in Emitters : emitting[p] = NoEmission
LuaRuns == ~crashed /\ emitting[Lua] = NoEmission

Init ==
  /\ handlers = <<>>
  /\ emitting = [p \in Emitters |-> NoEmission]
  /\ jobs = <<>>
  /\ crashed = FALSE
  /\ calls = <<>>
  /\ subscribed = <<>>
  /\ wanted = <<>>
  /\ emitter = <<>>
  /\ connects = 0
  /\ disconnects = 0

-----------------------------------------------------------------------------
\* connect_signal
Connect(f) ==
  /\ LuaRuns /\ Unlocked
  /\ connects < MaxConnects
  /\ handlers' = Append(handlers, f)
  /\ subscribed' = Append(subscribed, f)
  /\ connects' = connects + 1
  /\ UNCHANGED <<emitting, jobs, crashed, calls, wanted, emitter, disconnects>>

\* The slice of the topic once its i-th element was removed: the shortened
\* slice is not stored back, so the topic keeps its length and ends in nil; only
\* a slice that got empty is deleted.
Removed(i) ==
  IF Len(handlers) = 1 THEN <<>> ELSE Append(RemoveAt(handlers, i), Nil)

\* Mutant: disconnect_signal takes the lock only to delete the topic.
DisconnectUnlocked(f) ==
  /\ LuaRuns
  /\ Unlocked \/ Len(handlers) > 1
  /\ disconnects < MaxDisconnects
  /\ disconnects' = disconnects + 1
  /\ \E i \in 1 .. Len(handlers) :
       /\ handlers[i] = f
       /\ \A j \in 1 .. i - 1 : handlers[j] \notin {f, Nil}
       /\ handlers' = Removed(i)
       /\ subscribed' = RemoveFirst(subscribed, f)
  /\ UNCHANGED <<emitting, jobs, crashed, calls, wanted, emitter, connects>>

\* disconnect_signal: the first match is removed.  A nil in front of it panics in
\* Callable, which is an error of the Lua function that called.
Disconnect(f) ==
  /\ LuaRuns /\ Unlocked
  /\ disconnects < MaxDisconnects
  /\ disconnects' = disconnects + 1
  /\ \E i \in 1 .. Len(handlers) :
       /\ handlers[i] = f
       /\ \A j \in 1 .. i - 1 : handlers[j] \notin {f, Nil}
       /\ handlers' = Removed(i)
       /\ subscribed' = RemoveFirst(subscribed, f)
  /\ UNCHANGED <<emitting, jobs, crashed, calls, wanted, emitter, connects>>

\* Emit and EmitFrom take the read lock; a topic without subscribers is done.
EmitBegin(p) ==
  /\ ~crashed
  /\ emitting[p] = NoEmission
  /\ Len(wanted) < MaxEmits
  /\ wanted' = Append(wanted, subscribed)
  /\ emitter' = Append(emitter, p)
  /\ emitting' = IF handlers = <<>> THEN emitting
                 ELSE [emitting EXCEPT ![p] = [emission |-> Len(wanted) + 1, at |-> 1]]
  /\ UNCHANGED <<handlers, jobs, crashed, calls, subscribed, connects, disconnects>>

\* Mutant: one iteration too many.
AdvanceTooFar(p) ==
  emitting' = [emitting EXCEPT ![p] =
                 IF @.at > Len(handlers) THEN NoEmission ELSE [emission |-> @.emission, at |-> @.at + 1]]

\* The emission of p goes on to the next handler, or returns.
Advance(p) ==
  emitting' = [emitting EXCEPT ![p] =
                 IF @.at = Len(handlers) THEN NoEmission ELSE [emission |-> @.emission, at |-> @.at + 1]]

\* One iteration: cb.Do or cb.From schedules the callback on the loop.
EmitNext(p) ==
  /\ ~crashed
  /\ emitting[p] # NoEmission
  /\ handlers[emitting[p].at] # Nil
  /\ jobs' = Append(jobs, <<emitting[p].emission, handlers[emitting[p].at]>>)
  /\ Advance(p)
  /\ UNCHANGED <<handlers, crashed, calls, subscribed, wanted, emitter, connects, disconnects>>

\* A nil handler panics.  On the loop this is an error of the Lua function that
\* emitted, in a goroutine it ends the process.
EmitPanics(p) ==
  /\ ~crashed
  /\ emitting[p] # NoEmission
  /\ handlers[emitting[p].at] = Nil
  /\ IF p = Lua
       THEN emitting' = [emitting EXCEPT ![p] = NoEmission] /\ UNCHANGED crashed
       ELSE crashed' = TRUE /\ UNCHANGED emitting
  /\ UNCHANGED <<handlers, jobs, calls, subscribed, wanted, emitter, connects, disconnects>>

\* Mutant: the callback is dropped.
CallbackDropped ==
  /\ LuaRuns
  /\ jobs # <<>>
  /\ jobs' = Tail(jobs)
  /\ UNCHANGED <<handlers, emitting, crashed, calls, subscribed, wanted, emitter,
                 connects, disconnects>>

\* The loop runs the oldest callback, the function that From scheduled.
Callback ==
  /\ LuaRuns
  /\ jobs # <<>>
  /\ calls' = Append(calls, Head(jobs))
  /\ jobs' = Tail(jobs)
  /\ UNCHANGED <<handlers, emitting, crashed, subscribed, wanted, emitter, connects, disconnects>>

EmitStep(p) == EmitNext(p) \/ EmitPanics(p)

Next ==
  \/ \E f \in Funcs : Connect(f) \/ Disconnect(f)
  \/ \E p \in Emitters : EmitBegin(p) \/ EmitStep(p)
  \/ Callback

Spec == Init /\ [][Next]_vars

\* Goroutines go on, and the loop serves its queue (AwakeDrains of EventLoop).
Fairness == WF_vars(Callback) /\ \A p \in Emitters : WF_vars(EmitStep(p))

FairSpec == Spec /\ Fairness

-----------------------------------------------------------------------------
TypeOK ==
  /\ handlers \in Seq(Funcs \cup {Nil})
  /\ \A p \in Emitters :
       \/ emitting[p] = NoEmission
       \/ emitting[p].emission \in Emissions /\ emitting[p].at \in 1 .. Len(handlers)
  /\ jobs \in Seq(Emissions \X Funcs)
  /\ calls \in Seq(Emissions \X Funcs)
  /\ crashed \in BOOLEAN

\* The callbacks that were scheduled, in the order of the loop, and of which call of
\* its emission the i-th one is.
Scheduled == calls \o jobs
Place(i) == Cardinality({j \in 1 .. i : Scheduled[j][1] = Scheduled[i][1]})

\* An emission calls the functions that were connected when it began, each once and in
\* connect order, and a function sees the emissions of one emitter in the order they
\* were made; whatever other emissions overlap with them, and whoever waits to connect
\* or disconnect (Emit, signalConnect, signalDisconnect).
DeliversInOrder ==
  /\ \A i \in DOMAIN Scheduled :
       LET e == Scheduled[i][1]
       IN Place(i) <= Len(wanted[e]) /\ Scheduled[i][2] = wanted[e][Place(i)]
  /\ \A i, j \in DOMAIN Scheduled :
       i < j /\ Scheduled[i][2] = Scheduled[j][2]
             /\ emitter[Scheduled[i][1]] = emitter[Scheduled[j][1]]
         => Scheduled[i][1] <= Scheduled[j][1]

Called(e) ==
  /\ e \in Emissions
  /\ \A i \in 1 .. Len(wanted[e]) : Contains(calls, <<e, wanted[e][i]>>)

\* An emission is delivered: if the topic has no nil yet, each of its functions is
\* called in the end, also if it is disconnected meanwhile, unless another
\* emission ends the process (Emit, EmitFrom).
Delivered ==
  \A e \in 1 .. MaxEmits :
    e \in Emissions /\ ~Contains(handlers, Nil)
      ~> crashed \/ Called(e)
=============================================================================
