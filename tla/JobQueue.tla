------------------------------ MODULE JobQueue ------------------------------
(***************************************************************************)
(* The job queue of the event loop (pkg/loop/queue.go): a list protected   *)
(* by Queue.lock, and the unbuffered channel Queue.waitCh over which Push  *)
(* tries to wake a goroutine blocked in PopWait.                           *)
(*                                                                         *)
(* A step is one critical section of Queue.lock, or one operation on       *)
(* waitCh outside of it.  Push holds the lock from the append to the       *)
(* non-blocking send, so it is one step.  PopWait is four: Pop under the   *)
(* lock, the read of `blocked' under the lock, and, with no lock held, the *)
(* select that parks the goroutine and the event that ends the select.     *)
(***************************************************************************)
EXTENDS Naturals, Sequences

CONSTANTS
  Jobs,        \* the tasks that can be pushed, each at most once
  Consumers,   \* the goroutines that call PopWait
  NoJob        \* the nil Task

ASSUME NoJobAssumption == NoJob \notin Jobs

VARIABLES
  items,       \* the list from Queue.head to Queue.tail
  blocked,     \* Queue.blocked
  cpc,         \* where each consumer is in PopWait
  got,         \* the task PopWait is returning to each consumer
  cancelled,   \* ctx.Err() # nil for the context given to PopWait
  pushed,      \* history: the tasks put on the list, in that order
  popped       \* history: the tasks taken off the list, in that order

queueVars == <<items, blocked, cpc, got, cancelled, pushed, popped>>

\* "out": not in PopWait; "job" and "err": PopWait returned a task or an error.
ConsumerStates == {"out", "pop", "check", "select", "parked", "job", "err"}

Entries(s) == {s[i] : i \in DOMAIN s}
Parked == {c \in Consumers : cpc[c] = "parked"}

Init ==
  /\ items = <<>>
  /\ blocked = FALSE
  /\ cpc = [c \in Consumers |-> "out"]
  /\ got = [c \in Consumers |-> NoJob]
  /\ cancelled = FALSE
  /\ pushed = <<>>
  /\ popped = <<>>

-----------------------------------------------------------------------------
\* The select with a default branch at the end of Push: a receiver parked on
\* waitCh is woken and calls PopWait again; with no receiver the send is lost.
Notify ==
  \/ \E c \in Parked : cpc' = [cpc EXCEPT ![c] = "pop"]
  \/ Parked = {} /\ cpc' = cpc

\* Mutant: Pop leaves the tail of an emptied list set, and the next Push links
\* its node behind a node that is no longer on the list.
PushStaleTail(j) ==
  /\ IF blocked
       THEN UNCHANGED <<items, pushed, cpc>>
       ELSE /\ items' = IF items = <<>> /\ popped # <<>> THEN <<>> ELSE Append(items, j)
            /\ pushed' = Append(pushed, j)
            /\ Notify
  /\ UNCHANGED <<blocked, got, cancelled, popped>>

\* Push: the error it returns while the queue is blocked leaves no trace in
\* the queue.
Push(j) ==
  /\ IF blocked
       THEN UNCHANGED <<items, pushed, cpc>>
       ELSE /\ items' = Append(items, j)
            /\ pushed' = Append(pushed, j)
            /\ Notify
  /\ UNCHANGED <<blocked, got, cancelled, popped>>

Block ==
  /\ blocked' = TRUE
  /\ UNCHANGED <<items, cpc, got, cancelled, pushed, popped>>

\* "Unblock unblocks the queue and allows new items to be added": it assigns
\* TRUE as well, so a queue that was blocked once refuses every later Push.
Unblock ==
  /\ blocked' = TRUE
  /\ UNCHANGED <<items, cpc, got, cancelled, pushed, popped>>

-----------------------------------------------------------------------------
Goto(c, from, to) == cpc[c] = from /\ cpc' = [cpc EXCEPT ![c] = to]

PopWaitCall(c) ==
  /\ Goto(c, "out", "pop")
  /\ UNCHANGED <<items, blocked, got, cancelled, pushed, popped>>

\* PopWait's call of Pop finds a task.
PopJob(c) ==
  /\ items # <<>>
  /\ Goto(c, "pop", "job")
  /\ got' = [got EXCEPT ![c] = Head(items)]
  /\ items' = Tail(items)
  /\ popped' = Append(popped, Head(items))
  /\ UNCHANGED <<blocked, cancelled, pushed>>

\* PopWait's call of Pop returns nil.
PopNil(c) ==
  /\ items = <<>>
  /\ Goto(c, "pop", "check")
  /\ UNCHANGED <<items, blocked, got, cancelled, pushed, popped>>

\* The read of `blocked', in a critical section of its own.
CheckBlocked(c) ==
  /\ Goto(c, "check", IF blocked THEN "err" ELSE "select")
  /\ UNCHANGED <<items, blocked, got, cancelled, pushed, popped>>

\* Entering the select: no sender ever waits on waitCh, so only ctx.Done()
\* can be ready.
Select(c) ==
  /\ Goto(c, "select", IF cancelled THEN "err" ELSE "parked")
  /\ UNCHANGED <<items, blocked, got, cancelled, pushed, popped>>

\* Mutant: the test of the context is inverted.
CancelInverted(c) ==
  /\ ~cancelled
  /\ Goto(c, "parked", "err")
  /\ UNCHANGED <<items, blocked, got, cancelled, pushed, popped>>

\* ctx.Done() ends the select of a parked consumer.
CancelWakes(c) ==
  /\ cancelled
  /\ Goto(c, "parked", "err")
  /\ UNCHANGED <<items, blocked, got, cancelled, pushed, popped>>

\* Mutant: the task stays with the consumer after PopWait has returned it.
ReturnKeepsTask(c) ==
  /\ cpc[c] \in {"job", "err"}
  /\ cpc' = [cpc EXCEPT ![c] = "out"]
  /\ UNCHANGED <<items, blocked, got, cancelled, pushed, popped>>

\* The caller of PopWait takes its result.
Return(c) ==
  /\ cpc[c] \in {"job", "err"}
  /\ cpc' = [cpc EXCEPT ![c] = "out"]
  /\ got' = [got EXCEPT ![c] = NoJob]
  /\ UNCHANGED <<items, blocked, cancelled, pushed, popped>>

\* The steps of a PopWait that has been called and has not yet returned.
PopWaitStep(c) ==
  \/ PopJob(c) \/ PopNil(c) \/ CheckBlocked(c) \/ Select(c) \/ CancelWakes(c)

Cancel == cancelled' = TRUE /\ UNCHANGED <<items, blocked, cpc, got, pushed, popped>>

-----------------------------------------------------------------------------
Next ==
  \/ \E j \in Jobs \ Entries(pushed) : Push(j)
  \/ Block
  \/ Unblock
  \/ Cancel
  \/ \E c \in Consumers : PopWaitCall(c) \/ PopWaitStep(c) \/ Return(c)

Spec == Init /\ [][Next]_queueVars

\* A goroutine inside PopWait keeps being scheduled.
FairSpec == Spec /\ \A c \in Consumers : WF_queueVars(PopWaitStep(c))

-----------------------------------------------------------------------------
\* The values of the variables, and which of them go together: a task is held
\* for a consumer exactly when its PopWait has returned one.
TypeOK ==
  /\ items \in Seq(Jobs)
  /\ blocked \in BOOLEAN
  /\ cpc \in [Consumers -> ConsumerStates]
  /\ got \in [Consumers -> Jobs \cup {NoJob}]
  /\ \A c \in Consumers : got[c] # NoJob <=> cpc[c] = "job"
  /\ cancelled \in BOOLEAN
  /\ pushed \in Seq(Jobs)
  /\ popped \in Seq(Jobs)

\* Tasks leave the queue in the order in which concurrent callers of Push got
\* the lock, and each of them once, whatever the number of consumers
\* (Queue.Push, Queue.Pop).
FifoExactlyOnce ==
  /\ pushed = popped \o items
  /\ \A i, j \in DOMAIN pushed : pushed[i] = pushed[j] => i = j

\* No two callers of PopWait are handed the same task.
HandedToOne ==
  \A c, d \in Consumers : got[c] # NoJob /\ got[c] = got[d] => c = d

\* Cancelling the context ends every PopWait, the one of a consumer that
\* missed the wake-up of a task included.
CancelReleases ==
  \A c \in Consumers : cancelled ~> cpc[c] \in {"out", "job", "err"}

\* "PopWait ... will block until either the context is cancelled or a job
\* becomes available": no goroutine stays parked beside a task it could take.
BlocksOnlyWhileEmpty == Parked # {} => items = <<>>
=============================================================================
