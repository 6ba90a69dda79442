-------------------------------- MODULE Exec --------------------------------
(***************************************************************************)
(* One call of exec (pkg/core/exec.go): the process it starts, the pipes   *)
(* of its two streams, the goroutine that waits for the process, and the   *)
(* goroutine that Reader.WithLineCallback (pkg/core/reader.go) starts for  *)
(* each stream.  These goroutines schedule callbacks on the event loop,    *)
(* whose queue is the sequence jobs (module JobQueue).                     *)
(*                                                                         *)
(* A stream is the sequence of the lines written to it.  Of a line it only *)
(* matters whether it is blank.  A last line that lacks its newline is a   *)
(* line: ReadString returns it together with the end of the file.          *)
(***************************************************************************)
EXTENDS Naturals, Sequences, SequencesExt

CONSTANTS
  MaxLines,   \* bound: lines the process writes to a stream
  PipeSize    \* the lines that fit into a pipe

ASSUME ExecAssumption == MaxLines \in Nat /\ PipeSize \in Nat \ {0}

Streams == {"stdout", "stderr"}

VARIABLES
  process,    \* "starting", "failed", "running", "exited"
  hasLine,    \* a line callback was given
  hasDone,    \* a done callback was given
  written,    \* the lines written to each stream
  taken,      \* how many of them a bufio.Reader took out of the pipe
  used,       \* how many of those ReadString returned
  closed,     \* the read ends of the pipes are closed
  reader,     \* where the goroutine of WithLineCallback is
  waiter,     \* where the goroutine of call is
  jobs,       \* the callbacks scheduled on the loop
  calls       \* history: the callbacks that ran

vars == <<process, hasLine, hasDone, written, taken, used, closed, reader, waiter, jobs, calls>>

\* "line", "end": waits for a line callback, for the last one.
ReaderStates == {"read", "line", "end", "gone"}
WaiterStates == {"none", "wait", "report", "called", "gone"}

\* A callback: of which goroutine, why, and for which line.
Job(of, why, n) == [of |-> of, why |-> why, line |-> n]
JobSet == [of : Streams \cup {"process"}, why : {"line", "eof", "error", "done"},
           line : 0 .. MaxLines]

\* call up to c.Start: the readers are started before the process.
Init ==
  /\ process = "starting"
  /\ hasLine \in BOOLEAN
  /\ hasDone \in BOOLEAN
  /\ written = [s \in Streams |-> <<>>]
  /\ taken = [s \in Streams |-> 0]
  /\ used = [s \in Streams |-> 0]
  /\ closed = FALSE
  /\ reader = [s \in Streams |-> IF hasLine THEN "read" ELSE "gone"]
  /\ waiter = "none"
  /\ jobs = <<>>
  /\ calls = <<>>

processVars == <<process, hasLine, hasDone, written>>
readerVars == <<taken, used, reader>>

-----------------------------------------------------------------------------
(* The process.                                                           *)

\* c.Start, and the goroutine that waits.
Start ==
  /\ process = "starting"
  /\ process' = "running"
  /\ waiter' = "wait"
  /\ UNCHANGED <<hasLine, hasDone, written, readerVars, closed, jobs, calls>>

\* c.Start fails and closes the pipes; call raises an error.
StartFails ==
  /\ process = "starting"
  /\ process' = "failed"
  /\ closed' = TRUE
  /\ UNCHANGED <<hasLine, hasDone, written, readerVars, waiter, jobs, calls>>

\* The process writes a line, once there is room in the pipe.
Write(s, line) ==
  /\ process = "running"
  /\ hasLine
  /\ Len(written[s]) < MaxLines
  /\ Len(written[s]) - taken[s] < PipeSize
  /\ written' = [written EXCEPT ![s] = Append(@, line)]
  /\ UNCHANGED <<process, hasLine, hasDone, readerVars, closed, waiter, jobs, calls>>

\* It exits, or is killed.
Exit ==
  /\ process = "running"
  /\ process' = "exited"
  /\ UNCHANGED <<hasLine, hasDone, written, readerVars, closed, waiter, jobs, calls>>

\* c.Wait reaps the process and closes the read ends of the pipes, read or not.
WaitReturns ==
  /\ process = "exited"
  /\ waiter = "wait"
  /\ closed' = TRUE
  /\ waiter' = "report"
  /\ UNCHANGED <<processVars, readerVars, jobs, calls>>

\* The done callback is scheduled, with the reason and the code or signal.
Report ==
  /\ waiter = "report"
  /\ waiter' = IF hasDone THEN "called" ELSE "gone"
  /\ jobs' = IF hasDone THEN Append(jobs, Job("process", "done", 0)) ELSE jobs
  /\ UNCHANGED <<processVars, readerVars, closed, calls>>

-----------------------------------------------------------------------------
(* WithLineCallback.                                                      *)

\* Mutant: the reader fetches again and drops what is in its buffer.
FillDrops(s) ==
  /\ reader[s] = "read"
  /\ ~closed
  /\ taken[s] < Len(written[s])
  /\ \E n \in taken[s] + 1 .. Len(written[s]) :
       taken' = [taken EXCEPT ![s] = n] /\ used' = [used EXCEPT ![s] = n - 1]
  /\ UNCHANGED <<processVars, reader, closed, waiter, jobs, calls>>

\* Mutant: one line more than there is.
FillPast(s) ==
  /\ reader[s] = "read"
  /\ used[s] = taken[s]
  /\ ~closed
  /\ \E n \in taken[s] + 1 .. Len(written[s]) + 1 : taken' = [taken EXCEPT ![s] = n]
  /\ UNCHANGED <<processVars, used, reader, closed, waiter, jobs, calls>>

\* The buffer of the bufio.Reader is empty: it reads what is in the pipe, or as
\* much of it as fits.
Fill(s) ==
  /\ reader[s] = "read"
  /\ used[s] = taken[s]
  /\ ~closed
  /\ \E n \in taken[s] + 1 .. Len(written[s]) : taken' = [taken EXCEPT ![s] = n]
  /\ UNCHANGED <<processVars, used, reader, closed, waiter, jobs, calls>>

\* ReadString returns a line: unless it is blank the callback is scheduled, and
\* the goroutine waits for it.
ReadLine(s) ==
  /\ reader[s] = "read"
  /\ used[s] < taken[s]
  /\ used' = [used EXCEPT ![s] = @ + 1]
  /\ IF written[s][used[s] + 1] = "blank"
       THEN UNCHANGED <<jobs, reader>>
       ELSE /\ jobs' = Append(jobs, Job(s, "line", used[s] + 1))
            /\ reader' = [reader EXCEPT ![s] = "line"]
  /\ UNCHANGED <<processVars, taken, closed, waiter, calls>>

\* Mutant: the end of the file is reported only when the pipe was not closed.
ReadEndsQuietly(s) ==
  /\ reader[s] = "read"
  /\ used[s] = taken[s]
  /\ ~closed
  /\ process = "exited" /\ taken[s] = Len(written[s])
  /\ jobs' = Append(jobs, Job(s, "eof", 0))
  /\ reader' = [reader EXCEPT ![s] = "end"]
  /\ UNCHANGED <<processVars, taken, used, closed, waiter, calls>>

\* Mutant: a closed pipe ends the goroutine at once.
ReadEndsEarly(s) ==
  /\ reader[s] = "read"
  /\ closed \/ (process = "exited" /\ taken[s] = Len(written[s]))
  /\ jobs' = Append(jobs, Job(s, IF closed THEN "error" ELSE "eof", 0))
  /\ reader' = [reader EXCEPT ![s] = "end"]
  /\ UNCHANGED <<processVars, taken, used, closed, waiter, calls>>

\* ReadString fails, with io.EOF after the last line, or because the pipe was
\* closed: a last callback, without a line.
ReadEnds(s) ==
  /\ reader[s] = "read"
  /\ used[s] = taken[s]
  /\ closed \/ (process = "exited" /\ taken[s] = Len(written[s]))
  /\ jobs' = Append(jobs, Job(s, IF closed THEN "error" ELSE "eof", 0))
  /\ reader' = [reader EXCEPT ![s] = "end"]
  /\ UNCHANGED <<processVars, taken, used, closed, waiter, calls>>

-----------------------------------------------------------------------------
\* The loop runs the oldest callback, and the goroutine that scheduled it goes on.
Callback ==
  /\ jobs # <<>>
  /\ LET job == Head(jobs) IN
       /\ calls' = Append(calls, job)
       /\ jobs' = Tail(jobs)
       /\ reader' = IF job.of = "process" THEN reader
                    ELSE [reader EXCEPT ![job.of] = IF job.why = "line" THEN "read" ELSE "gone"]
       /\ waiter' = IF job.of = "process" THEN "gone" ELSE waiter
  /\ UNCHANGED <<processVars, taken, used, closed>>

ReaderStep(s) == Fill(s) \/ ReadLine(s) \/ ReadEnds(s)
WaiterStep == WaitReturns \/ Report

Next ==
  \/ Start \/ StartFails \/ Exit
  \/ \E s \in Streams, line \in {"text", "blank"} : Write(s, line)
  \/ WaiterStep
  \/ \E s \in Streams : ReaderStep(s)
  \/ Callback

Spec == Init /\ [][Next]_vars

\* Goroutines go on and the loop serves its queue; the process need not exit.
Fairness == WF_vars(Callback) /\ WF_vars(WaiterStep) /\ \A s \in Streams : WF_vars(ReaderStep(s))

FairSpec == Spec /\ Fairness

-----------------------------------------------------------------------------
\* The callbacks that were scheduled, in the order of the loop.
Scheduled == calls \o jobs

TypeOK ==
  /\ process \in {"starting", "failed", "running", "exited"}
  /\ written \in [Streams -> Seq({"text", "blank"})]
  /\ \A s \in Streams : used[s] \in 0 .. taken[s] /\ taken[s] \in 0 .. Len(written[s])
  /\ reader \in [Streams -> ReaderStates]
  /\ waiter \in WaiterStates
  /\ jobs \in Seq(JobSet)
  /\ calls \in Seq(JobSet)

\* The callbacks of a stream are called for its lines from the first on, without a
\* gap and in the order they were written, and then once more for the end, also
\* if the pipe is closed before it was read (WithLineCallback).
LinesWithoutGap ==
  \A i \in DOMAIN Scheduled, s \in Streams :
    LET line == Scheduled[i].line
        before == {Scheduled[j] : j \in 1 .. i - 1}
    IN Scheduled[i].of = s =>
         /\ \A job \in before : job.of = s => job.why = "line"
         /\ Scheduled[i].why = "line" =>
              /\ line \in DOMAIN written[s] /\ written[s][line] = "text"
              /\ \A job \in before : job.of = s => job.line < line
              /\ \A n \in 1 .. line - 1 :
                   written[s][n] = "text" => Job(s, "line", n) \in before

\* What a goroutine took out of a pipe is not lost when the pipe is closed: when
\* it ends it has called back for every line it took (WithLineCallback, call).
\* With LinesWithoutGap: a stream is cut off at its end or not at all.
TakenIsDelivered ==
  \A s \in Streams :
    reader[s] \in {"end", "gone"} =>
      \A i \in 1 .. taken[s] :
        written[s][i] = "text" => Contains(Scheduled, Job(s, "line", i))

\* Nobody waits for ever for the loop, which waits for none of them.  Once the process
\* has ended, or failed to start, all goroutines end: each reader has reported its end
\* and the exit was reported.  A process that waits for room in a pipe gets it (call,
\* WithLineCallback).
NobodyWaits ==
  /\ process \in {"exited", "failed"} ~>
       /\ \A s \in Streams : reader[s] = "gone"
       /\ waiter \in {"none", "gone"}
  /\ \A s \in Streams :
       Len(written[s]) - taken[s] = PipeSize /\ process = "running"
         ~> Len(written[s]) - taken[s] < PipeSize \/ process # "running"
=============================================================================
