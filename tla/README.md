# A verification of envel

envel is a home-automation daemon: Go code around one Lua VM, whose scripts run on
one event loop.  Timers, processes, message brokers and devices live in goroutines
that schedule callbacks on this loop.  This directory models the parts of it whose
correctness depends on the order of events, checks the models with TLC on small
instances, and proves the main results with TLAPS for all instances.

Paths below are relative to the root of the repository.  `PROJECT.json` holds, for
every definition, the lines it models; for every run, what it checks; the hazards of
the code with the properties that cover them; and the findings.

## Inventory

| Component | State | Operations | What is hard about it | What makes it correct |
|---|---|---|---|---|
| job queue `pkg/loop/queue.go` | linked list, `blocked`, `waitCh` | `Push`, `Pop`, `PopWait`, `Block`, `Unblock` | `PopWait` is four steps, with no lock held when it parks; `Push` sends on an unbuffered channel and does not wait | order, each job once; who waits is woken |
| event loop `pkg/loop/loop.go`, `cmd/envel.go` | two queues, `running`, a WaitGroup | `Schedule`, `ScheduleAndWait`, `Stop`, `Wait`, `run`, `on_exit` | the WaitGroup is changed by every goroutine, also during `Wait`; stopping is a task | one task at a time, in order; Stop is a barrier; Wait returns when and only when all is done |
| callback `pkg/callback` | none | `From`, `Do`, `BindChannel` | the channel it returns gets no value if the loop stops | one call per request |
| timer `pkg/core/timer.go`, `lib/envel/timer.lua` | `stopCh`, a WaitGroup, a lock | `Start`, `Stop`, `Again`, `IsStarted`, `Init`, `run` | `Stop` waits outside of the lock; a single-shot timer is stopped by a goroutine of its own | one runner; `Stop` is synchronous and ends |
| watches: `spawn.watch` of `lib/envel/spawn.lua`, `watch_relay` and `watch_realtime` of `tplink/hs1xx/hs1xx.go` | a timer, `currentRelayState` | start, tick, poll, restart; `turn_on`, `turn_off` | ticks queued before the timer was stopped; goroutines that start what the loop stops; a state shared without a lock | one poll at a time; it goes on; listeners know the state |
| signal `pkg/signal` | functions per topic, RWMutex; metatables | connect, disconnect, emit; `Extend`, `GetSignal` | emissions overlap; a disconnect changes a shared slice; metatables are shared by values | every subscriber once, in order; a value's own signal, and its own methods |
| exec `pkg/core/exec.go` | a process, two pipes, three goroutines | start, line callbacks, done callback | the three goroutines do not wait for each other; the pipes close under the readers | every line once, in order; all goroutines end |
| reader `pkg/core/reader.go` | a source, a goroutine with a buffer | `read`, `close`, `from_string`, `with_line_callback` | reads block the loop, for which the goroutine waits; both take from one source | no byte lost or given twice; lines are lines; reads return |
| http `pkg/http` | none, the body is a reader | request | blocks the loop until the answer, and again in each read of the body | the request returns |
| mqtt `pkg/bindings/mqtt` | the client | connect, subscribe, publish, unsubscribe, close | waits for the broker on the loop, handlers wait for the loop; reconnects by itself | calls return; who subscribed is served, who unsubscribed is left alone |
| dbus `pkg/bindings/dbus` | connection, notify table | signals, calls, notifications | glue | |
| stream `lib/envel/stream` | subscriptions (a graph), subjects | subscribe, next, error, complete, unsubscribe, operators | re-entrant calls while lists are iterated; teardown order | nothing after the end; each teardown once |
| smarthome `lib/envel/smarthome` | item values, interface status, bindings | set, bind, unbind, publish | signals of several items and homes | the home publishes what the items hold |
| device, rules `lib/envel` | sensor properties, rules | set, add_rule | dead-bands, clean-up | |
| metrics, plugins | none of interest | glue | | |

The components interact in three ways.  Go code calls `Schedule` (mostly through a
callback) from any goroutine; the loop runs the scheduled function, which calls Lua;
Lua calls the bindings, on the loop.  Nothing but the loop touches the Lua VM after
`New`, so the shared state is the Go state of each component, the queue and the
WaitGroup.  Many bindings wait on the loop (for a timer's runner, a broker, a response),
and many goroutines wait for the loop (for a callback): who may wait for whom is the
question that most of the liveness properties below ask.

## Modules

| Module | Models | Runs | Proofs |
|---|---|---|---|
| `JobQueue` | `queue.go` | `MCJobQueue*` | `JobQueueProofs` |
| `SerialExecutor` | what the Loop interface promises (abstract) | as a property of `EventLoop` | |
| `EventLoop` | `loop.go` with `main`, composed with `JobQueue` | `MCEventLoop` | `EventLoopProofs` |
| `Timer` | `timer.go`, its Lua wrapper's checks | `MCTimer` | `TimerProofs` |
| `Watch` | `spawn.watch`, `hs1xx.go`, composed with `Timer` | `MCWatch*` | `WatchProofs` |
| `Signal` | a topic of `signal.go`, with callbacks | `MCSignal` | `SignalProofs` |
| `Extend` | `Extend` and `GetSignal` of `signal.go`, with `newHs1xx` and `AddNotify` as their callers | `MCExtend*` | `SignalProofs` |
| `Exec` | `exec.go` with `WithLineCallback` | `MCExec` | `ExecProofs` |
| `Reader` | `reader.go`, over strings and the bodies of `http/loader.go` | `MCReader` | `ReaderProofs` |
| `MqttClient` | `mqtt.go`, the client library as external | `MCMqttClient` | `MqttProofs` |

An operator whose comment starts with "Mutant" is a wrong version of the action that
follows it, used only to see that a property notices; no specification uses it.
Variables marked "history" in their declaration are not in the program.

**JobQueue.**  A step is one critical section of `Queue.lock` or one operation on
`waitCh` outside of it.  `Push` holds the lock until its non-blocking send is over, so it
is one step (`Push`, with `Notify`).  `PopWait` is `PopWaitCall`, `PopJob` or `PopNil`
(its call of `Pop`), `CheckBlocked`, `Select`, and then `CancelWakes` or the `Notify` of
some Push, which takes it back to its beginning.  `cpc` says where each consumer is.

**EventLoop** instantiates `JobQueue` with the loop as its only consumer and adds the
WaitGroup, `running`, the exit queue and the callers.  `Schedule` is two steps for every
caller, `wg.Add` and `queue.Push`, because other goroutines run in between;
`ScheduleAndWait` has a third, the handshake `Reply`.  `kind` tells what a task is: Go
code, a Lua function given to `__schedule` (called unprotected, so that an error in it
is a panic: `LuaError`), `ScheduleAndWait`'s or `Stop`'s.  Lua code runs in `InitVM` on the
main goroutine, then in tasks and exit handlers on the loop: `MaySchedule`.
`sync.WaitGroup` is modelled with the check of a woken waiter that panics if the
counter is not zero.  `Halted` states have no successors: the process has ended.

**SerialExecutor** has no queue, goroutine or counter: tasks are submitted, begun one at
a time in that order and finished; after `Close` none begins; then the exit handlers
run, also those registered meanwhile, and then the loop is closed.  The refinement
mapping is at the end of `EventLoop` (`Exec`): what `PopWait` is returning is still pending.

**Timer.**  A step is one critical section of `Timer.lock`, one operation on the
WaitGroup, or one branch of the select in `run`.  Every successful `Start` makes a
channel and a runner with a number.  The callers are the event loop and, as in
`hs1xx.go`, a poller goroutine; each tick of a single-shot timer adds a goroutine that
stops it (`Stoppers`).  `Panic` ends the process unless a Lua function called in
protected mode catches it (`pc` = "error"), in which case the lock stays held.
`CheckedCall` is the Lua wrapper, which looks at `is_started` first, in another critical
section.

**Watch** instantiates `Timer`, periodic, with the event loop (`lua`) and the pollers as its
callers, and adds what the loop is doing, where each poll is, and `due`, the ticks whose
callback has not begun.  The three kinds of watch are one module because they are one
protocol: the callback stops the timer, starts a poll, and the poll's end starts the timer.
They differ in who starts it: the poller's goroutine (`EndPoll`, `Restart`) or the loop in
the done callback of a command (`DoneCallback`), and a relay compares its answer with
`currentRelayState` (`Compare`, `Assign`, `Emit`, one memory access each).  `Turn` is
`turn_on` and `turn_off`, in which the loop waits for the device.  The script may call
`start`, `stop` and `again` whenever the loop is idle (`ScriptCalls`).

**Signal.**  One topic.  `EmitBegin` takes the read lock, each `EmitNext` is one iteration
of Emit or EmitFrom, which schedules one callback.  Connect and disconnect run on the
loop and exclude emissions (write lock).  `Removed` is the slice after a disconnect: same
length, shifted, nil at the end, unless the only element was removed.  A nil panics in
`EmitPanics`: a Lua error on the loop, the end of the process in a goroutine.

**Extend.**  The graph of values, their metatables (`meta`) and the `__index` of each table
(`index`).  Values are named by their role and the number of the object they were made for;
those of a type are shared.  Extending an object is `Extend`, and then a step per turn of its
loop (`WalkOn`, `WalkEnds`, `WalkEndsAnew`), so that a loop that does not end is a behaviour.
`GetSignal` is an operator, the first signal above a value.  The four kinds of objects are the
callers in the code: plugs, which share the metatable of their type; the notify table, which has
its own; plain tables and instances of a class, which scripts give to `extend`.

**Exec.**  One call.  `written`, `taken` and `used` count the lines of a stream written, out
of the pipe, and returned by `ReadString`.  `WaitReturns` is `c.Wait`: it closes the read
ends, as os/exec documents for `StdoutPipe`.  Readers and the waiting goroutine schedule
callbacks on the loop and (the readers) wait for them.  `StartFails` covers a program
that cannot be started, whose readers run already.

**Reader.**  One reader, over a string or a body whose bytes `Arrive` one by one and which
ends, fails or is closed.  A read is a call (`Read`) and then one `Take` per Read of the source,
each of any size the source may return, until the result; `TakeEnd` is the end of the file or
an error.  The goroutine of `with_line_callback` fills its buffer (`Fill`), moves bytes to a
line (`Scan`), and waits for the loop (`Callback`), which comes only when no read blocks it.
Bytes are positions, so that who got which can be told.  `RacingReads` is the data race of a read
and a fill on the `bytes.Buffer` of `from_string`, with the outcomes a build can produce.

**MqttClient.**  Calls (`Connect`, `Subscribe`, `Unsubscribe`, `Publish`) put the loop into
`call`, in which it runs nothing else.  The library reads what is on the `wire` in order,
completes tokens (`ReadAck`), and puts messages into the `inbox` while it has room; `Dispatch`
takes one message at a time to its `Handler`, which schedules a callback and waits (`busy`).
The broker may grant or deny a subscription; both end in an acknowledgement, which completes the
token without an error, and `mqttSubscribe` looks at nothing else (mqtt.go:158-162).  `unserved`
remembers what was denied, or forgotten with the connection, since it was granted last.  Losing the connection loses the wire, the subscriptions of a clean session, and perhaps the request of
a waiting call (`Lost`); the library reconnects.  The broker, network and library are external:
modelled from the options `mqtt.go` sets and the methods it calls.  `Disconnect` is one step
that ends the call that waits; the quiescence of the library's disconnect is left out.

## Runs, and what they show

Runs that pass:

| Run | Bounds | Shows |
|---|---|---|
| `MCJobQueue` | 3 jobs, 2 consumers | FIFO, exactly once; a cancelled context ends every PopWait |
| `MCEventLoop` | 2 tasks and Stop's, 2 clients, 2 exit handlers, cancellable | types, balance of the WaitGroup, Stop is a barrier, Wait quiesces, refinement of `SerialExecutor`; tasks seen at the loop's head are executed; after Stop or a cancellation the program ends, with two exceptions that are part of the property |
| `MCTimer` | single shot, 2 callers, 2 starts, 1 tick each | one runner; none left when a Stop returns; a Stop ends unless a runner that was started later is never stopped; whose stop hits which run of a single-shot timer |
| `MCWatch` | 2 polls at a time, 2 starts, 2 ticks each | when polls overlap; no channel is closed twice; the watch goes on; listeners know the relay's state; Stop returns unless a poller starts the timer meanwhile |
| `MCSignal` | 2 functions, 1 goroutine and the loop, 3 emissions, 3 connects, 2 disconnects | order and number of the deliveries, order per emitter; delivery while the topic has no hole |
| `MCExtend` | 5 objects of 4 kinds | which signal a value finds; methods are kept; when Extend does not return |
| `MCExec` | 2 streams of 3 lines, pipes of 2 | no gap in a stream, what was taken is delivered; all goroutines end, a full pipe is drained |
| `MCReader` | 4 bytes, 2 reads, size 2 | every byte once; lines are lines; reads return and the goroutine ends |
| `MCMqttClient` | 2 topics, channel of 1, 3 messages, 1 lost connection | at most one callback after an unsubscribe; who subscribed is served, unless denied or forgotten; calls return unless the wait is circular |

The runs with liveness properties use `FairSpec` (`FairExtendSpec` in `Extend`) and no symmetry,
which is not sound for liveness.

These bounds let every action fire and every overlap of two actors happen: two consumers race
for a job, two emissions overlap and a third follows, a stop overlaps with a start and
with a stop of a goroutine that is late by one run; two ticks are due before the first callback;
a third plug is extended after two, with an object of another kind between them; a
read of two bytes crosses a newline that the line callback buffers; the channel of messages
is full, a handler waits, and an acknowledgement is behind a third message.  A second tick of one
runner is beyond `MCTimer`; for any number of ticks there are the theorems of `TimerProofs`.  `MaxStarts`,
`MaxTicks`, `Pollers`, `MaxEmits`, `MaxConnects`, `MaxDisconnects`, `MaxLines`, `MaxBytes`,
`MaxReads`, `MaxObjects`, `MaxMessages` and `MaxDrops` bound counters that the code does not; the sets
of tasks and handlers are used up, which bounds the rest.  Deadlock is not checked: every
model stops when its bound is used up, and the program when it has ended.

Runs in which TLC finds a violation, each of something that a comment says of the code:

| Run | The code |
|---|---|
| `MCJobQueueWakeup` | a Push between `PopWait`'s empty Pop and its select wakes nobody (queue.go:90) |
| `MCWatchOverlap` | ticks queued before the timer was stopped start a second command (spawn.lua:75) |
| `MCExtendOwn` | two plugs have one signal (signal.go:82, hs1xx.go:68), while sensors and `onSignal` connect to the one that emits (rc.lua:89, rules.lua:139) |

More disagreements between code and comments are the exceptions of properties that pass, which
say that nothing else can go wrong:

* `StopEndsProgram`: a task scheduled after Stop, counted and never executed, keeps `Wait`
  from returning (loop.go:133), and so does a missed wake-up of the stop task (queue.go:90).
* `StopEndsOrWaits`: a second Stop closes the channel again, with the lock held
  (timer.go:139; only callers other than the loop can do that, `StopsOnce`), and a Stop waits for the
  runner of a later Start (timer.go:143), as `StopReturns` says for the watches.
* `SingleShotStops`: the stop of a single-shot tick hits the restarted timer (timer.go:129).
* `Delivered`: after a disconnect an emission panics at a nil in the slice, and misses
  subscribers (signal.go:172).
* `TakenIsDelivered` speaks only of lines that were taken: those still in a pipe are lost when
  the process has exited (exec.go:76).
* `SubscribedIsServed`: subscribe returns also when the broker has denied the subscription
  (mqtt.go:160), and after a lost connection with a clean session the subscriptions are gone
  (mqtt.go:101); nobody is told.
* `CallReturns`: the circular wait of a call, a handler and a full channel (mqtt.go:158).
* `EveryByteOnce`: `from_string` with `with_line_callback` and a read is a data race; and a read
  that fails loses what it had taken (reader.go:161).
* `ExtendReturns`: the third plug makes `newHs1xx` loop for ever (signal.go:67).

More of what the models do is not stated as a property, because it can be read off one
line: `Unblock` assigns TRUE as `Block` does (queue.go:56); `Listeners` counts the nil that
a disconnect leaves (signal.go:172); a single-shot timer can fire twice before the
goroutine that stops it has come (timer.go:125), and a timeout of zero or less panics in the runner and ends the process
(timer.go:119, `RunPanics`); blank lines are not called
(reader.go:243); lines may be called after the done callback (exec.go:96); the last
argument of `unsubscribe` is ignored (mqtt.go:230); stopping a watch while a poll is under way is
undone by the poll's deferred start (hs1xx.go:221); the `http_only` field of a cookie holds its
`Secure` (http/loader.go:173, not modelled).

## Fairness

`FairSpec` of each module assumes that a goroutine that can take a step in the
code modelled takes one: weak fairness of the steps of consumers, of `LoopStep`, of
a Push that was begun, of the runners and stops of a timer, of emissions, pollers, readers
and the waiting goroutine.  The Go scheduler gives that, it preempts.  In `Timer` weak
fairness is per runner of everything but its ticks, since Go's select takes a ready channel
at random, not a ticker for ever.  Lua functions are assumed to return.

In `MqttClient` and `Reader` the callbacks have strong fairness, because script calls that block
the loop disable them again and again: the loop's queue is first in, first out (`JobQueue`), so
a callback is begun after finitely many other tasks, and a callback that was begun ends however often
it calls the binding.

Of the environment little is assumed: signals, cancellation, calls, errors, answers of
devices, the output and the exit of a process need not come.  A body of http ends, because the
client has a timeout of 30 seconds (http/loader.go:116); a broker to which the client is
connected answers, and the library reconnects (mqtt.go:101).  In `Signal`, `Exec` and these two
the loop serves its queue, which holds while it is not stopped, up to the missed wake-up.

## Proofs

Every theorem holds for all values of the constants that satisfy the module's ASSUME:
any number of jobs, consumers, goroutines, tasks, handlers, starts and ticks; of emissions,
subscribers, lines, bytes, reads and extended values.

`JobQueueProofs`.  The inductive invariant `QueueInv` joins types, FIFO and the fact
that a consumer's job is one of those popped, at a place of its own.  From it `QueueFifo` and
`QueueHandsToOne`.  FIFO is inductive alone, the second is not: that two consumers hold
different jobs needs that a job at the head is new, which needs that pushed jobs differ.

`EventLoopProofs`.  `LoopInv` has six parts: types; the calls under way (a task between
Add and Push is not on the list); what was popped is what ran, then what the loop holds;
`running` and the stop task; the exit handlers; and the balance of the WaitGroup, where
the work is: a task is unfinished from its Add to its Done, so each step changes the set
by one member or none.  From it follow `LoopCounts`, `LoopBarrier`, and `LoopWait`: at
zero nothing is unfinished and the loop has ended.  `LoopImplementsExecutor` maps
each step to a step of `SerialExecutor` or to a stutter, using the invariant and
`JobQueueProofs` for the queue inside.

`TimerProofs`.  `TimerInv` is types, `SingleRunner`, and `StartsInv`: runners are born in
order of number and only born ones have channels.  `SingleRunner` is inductive only with it:
a new runner must not be one that lived.  `TimerStopIsSynchronous` follows, since Stop
returns on a zero counter, and the counter counts the runners.  `TimerSingleShotStops` has an
invariant of its own beside it, `StopperInv`: a runner leaves only when its channel is closed, and
the goroutine that a tick has started gets to Stop's critical section once.  Without the first,
a run whose channel is open could have been left; without the second, one tick could stop
two runs.

`WatchProofs`.  The invariant of the timer is inherited: every step of a watch is a step of the
timer or leaves it alone, which `TimerProofs` has dealt with.  Added to it are `StopInv` (the loop is the only
one that is ever in Stop, and a closed channel is the one it waits for), `IdleInv`, and
`OneInv`: as long as no tick came early and the script has started nothing (`Undisturbed`), a poll under way means
that the timer is stopped, no callback is due, and the loop is not starting another.
`WatchNoOverlap` follows from the last, `WatchStopsOnce` from the first; the latter is what the composition
adds: `Timer` alone can close a channel twice, a watch cannot, since pollers only start.
`WatchKeepsGoing` needs `GoesOnInv`, about each place the loop can be in: the call of the timer it is
in ends with a timer that runs, as long as the script did not stop it, unless a poll is under
way which will start it.  That a runner leaves only while the loop, in Stop, waits for it
comes from `StopperInv`.
`WatchToldIsCurrent` needs `RelayInv`: which of the loop and the pollers is between its assignment and
its emission, at most one of them unless they were mixed.

`SignalProofs`, first half.  `DeliversInOrder` is stated about what was scheduled, the callbacks called and
those in the queue: the n-th callback of an emission is for the n-th function that was connected when it
began, and the emissions of one emitter do not mix.  It says nothing of the slice of handlers, so
`SignalInv` ties the slice to what is connected.  `Agrees`: up to the first nil they are the same, and
they are the same if there is no nil.  `UnderWay`: the emission that an emitter is in is its last one, the
slice agrees with what was connected when it began, and it has scheduled exactly the callbacks in front of where it is.
`Placed` and `Ordered` are the two halves of the property.  That a disconnect preserves
`Agrees` is `RemovedAgrees`: the shift and the nil at the end, against a list without the element.

`SignalProofs`, second half: `Extend`.  `ExtendInv` says of
each kind of object what its way up is made of: `SharedInv` for the types and for each signal and proxy that was made,
`OwnInv` for objects with a metatable of their own, `DeviceInv` and `InstanceInv` for those with a
shared one, where the first object of the kind has made the way and the later ones found it, and
`WalkInv` for where a walk can be.  The last is needed because later plugs may go round for ever in a circle
that goes through the methods of signals: the invariant says that nothing is changed meanwhile
that an earlier object needs.  `WayUp` turns it into the first four steps of every walk, whatever is
above them; from it follow `ExtendSignalOfType` and `ExtendMethodsKept`.  The recursive function in `Nth` needs
an induction, which is done by hand, on the least number of steps of a counterexample (`LeastNat`,
`WalkExists`, `NthNext`).

`ExecProofs`.  `LinesWithoutGap` is stated line by line, over what was scheduled: in front of
the callback for a line are those of all text lines before it, and none of later ones.  That does not say
how far `ReadString` has come, hence `ExecInv`: what was scheduled are the text lines up to `used`, all of them, no end was reported
while a reader reads, and a reader that has ended has used what it took (`StreamInv`); and one
callback at most is waiting per reader (`WaitsInv`), which knows it is waiting.  `ExecTakenIsDelivered` is
what is left of `StreamInv` when a reader ends.

`ReaderProofs`.  Both properties are about bytes as positions: `Pieces` are the places bytes can be in,
the results, the lines called, and what the read, the goroutine's line and its buffer hold.
`ReaderEveryByteOnce` is inductive with types and `SourceInv`, but each step moves a prefix
of one piece to another, which has to leave all positions in one place only.
`ReaderLinesAreSplit` speaks of a source that has ended, so its invariants speak of the lines of what has
come so far, where a last line without newline is none.  `ReadsInv`: as long as only lines were read, each result is a
line that begins where the one before ended, and the read under way holds the bytes from such a place on,
without a newline.  `CallsInv`: as long as only the goroutine has read, there are a byte `s`, up to which every text line
was called and nothing else was, and a byte `m`, such that its line is `s + 1 .. m` and its buffer
what follows.

`MqttProofs`.  `MqttInv` is types and four parts.  `HandlerInv`: one callback at most is scheduled or
under way, since the dispatcher waits for it; with `LateInv`, no callback of a topic came late while one is still
scheduled, this gives `MqttOneLate`.  `AckInv`: an acknowledgement on the wire belongs to the call under way,
which has been answered, and there is one only; with `ServedInv`, for what is acknowledged to a subscribe the
broker has a subscription, or has denied or forgotten it, and what an unsubscribe names is no longer counted as
subscribed, this gives `MqttServed`: without `AckInv` a call could end with the acknowledgement of another.

The proofs assume nothing but the constants' assumptions (finite set of tasks, distinct
names).  Every invariant and action property that a passing run checks is proved, and so is the
refinement.  Only model-checked: the liveness properties, for which the prover has no rules of
fairness, and the disagreements, which are single behaviours.

## Not modelled, and why

* The text of output, tables, metrics and logs; the Lua language: a Lua function is a
  task that returns, or fails.
* The time of timers: a tick may come at any time.  The watches of `Watch` have a positive timeout:
  with another the process ends when the first runner begins (`RunPanics` of `Timer`).
* Partial lines in pipes: a line is read whole or not at all in `Exec` (`Reader` has bytes).  Descendants of a process
  that keep its pipes open after its exit: the readers then see no end of file before
  `c.Wait` closes the pipes, which is one of the orders in `Exec`.
* Stopping the loop under timers, emissions and processes: `EventLoop` shows what becomes
  of any task scheduled then; the other modules have a loop that runs.
* Unsynchronised reads of `loop.running`: it is written and read on the loop's goroutine only.
* Calls of hs1xx, dbus and http that have no state (sysinfo, realtime, requests), the conversion of
  their results to tables, prometheus, plugins.
* A read with a size of zero or less, and two calls of `with_line_callback` on one reader.

## Plan

Done: `JobQueue`, `SerialExecutor`, `EventLoop`, `Timer`, `Watch`, `Signal`, `Extend`, `Exec`,
`Reader`, `MqttClient`.  What remains, in this order:

1. `Subscription`, `Subject`, `Share`: the stream library with re-entrant unsubscribe and
   complete.  Abstract: the grammar next* (error | complete)? per observer.
2. `Debounce`: debounceTime over Timer and the loop, as `Watch` is.
3. `Smarthome`: items, interfaces and homes over signals; what a home has published last
   against what the items hold; bind and unbind.
4. `Sensor`, `Rules`: the property setter as an operator, triggers and clean-up.
