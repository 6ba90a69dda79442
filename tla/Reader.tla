-------------------------------- MODULE Reader --------------------------------
(***************************************************************************)
(* A reader of pkg/core/reader.go over a string (from_string) or over the  *)
(* body of an HTTP response (pkg/http/loader.go).  Lua reads from it on    *)
(* the event loop, which is blocked until data or the end has come, while  *)
(* the goroutine of with_line_callback reads from it too, ahead into its   *)
(* buffer, and waits for the loop after each line.                         *)
(*                                                                         *)
(* A byte is a newline ("nl") or not ("x").  Bytes are named by their      *)
(* position, so that it can be told who got which.                         *)
(***************************************************************************)
EXTENDS Naturals, Sequences, SequencesExt, FiniteSetsExt

CONSTANTS
  MaxBytes,  \* bound: the length of the source
  MaxReads,  \* bound: calls of read
  Sizes      \* the sizes given to read

ASSUME ReaderAssumption == MaxBytes \in Nat /\ MaxReads \in Nat /\ Sizes \subseteq Nat \ {0}

VARIABLES
  source,   \* "none", "string" or "body"
  data,     \* the bytes that have come
  end,      \* how they end: "open", "eof" or "error"
  closed,   \* the reader was closed
  pos,      \* how many bytes were read
  op,       \* what the loop waits for: "none", "http", or a mode of read; or "crashed"
  size,     \* the size given to read
  got,      \* the positions it has read so far
  liner,    \* the goroutine of with_line_callback
  buf,      \* the positions in its buffer
  part,     \* the positions of the line it is reading
  results,  \* history: what the reads returned
  lines,    \* history: the lines that were called
  raced     \* history: loop and goroutine read a string at once

sourceVars == <<source, data, end, closed>>
readVars == <<op, size, got>>
lineVars == <<liner, buf, part, lines>>
vars == <<sourceVars, pos, readVars, lineVars, results, raced>>

Modes == {"size", "all", "line"}

\* "call", "last": waits for the callback of a line, of a last line without a
\* newline; "end": for the callback without a line.
LinerStates == {"none", "read", "call", "last", "end", "gone"}

Bytes == {"x", "nl"}
Interval(m, n) == [i \in 1 .. n - m |-> m + i]
Available == Len(data) - pos

Init ==
  /\ source = "none"
  /\ data = <<>>
  /\ end = "open"
  /\ closed = FALSE
  /\ pos = 0
  /\ op = "none"
  /\ size = 0
  /\ got = <<>>
  /\ liner = "none"
  /\ buf = <<>>
  /\ part = <<>>
  /\ results = <<>>
  /\ lines = <<>>
  /\ raced = FALSE

-----------------------------------------------------------------------------
(* Where readers come from.                                                *)

FromString(s) ==
  /\ source = "none" /\ op = "none"
  /\ source' = "string"
  /\ data' = s
  /\ end' = "eof"
  /\ UNCHANGED <<closed, pos, readVars, lineVars, results, raced>>

\* httpDo waits on the loop for the header of the response, or for its timeout.
HttpDo ==
  /\ source = "none" /\ op = "none"
  /\ op' = "http"
  /\ UNCHANGED <<sourceVars, pos, size, got, lineVars, results, raced>>

HttpResponse(ok) ==
  /\ op = "http"
  /\ op' = "none"
  /\ source' = IF ok THEN "body" ELSE "none"
  /\ UNCHANGED <<data, end, closed, pos, size, got, lineVars, results, raced>>

\* More of the body comes.
Arrive(b) ==
  /\ source = "body" /\ end = "open"
  /\ Len(data) < MaxBytes
  /\ data' = Append(data, b)
  /\ UNCHANGED <<source, end, closed, pos, readVars, lineVars, results, raced>>

\* The body ends, or its connection breaks, or the timeout of the client is over,
\* which counts the time of reading the body, too.
BodyEnds(how) ==
  /\ source = "body" /\ end = "open"
  /\ end' = how
  /\ UNCHANGED <<source, data, closed, pos, readVars, lineVars, results, raced>>

-----------------------------------------------------------------------------
(* read and close on the loop.                                             *)

Idle == source # "none" /\ op = "none"

Read(mode, n) ==
  /\ Idle
  /\ Len(results) < MaxReads
  /\ op' = mode
  /\ size' = n
  /\ UNCHANGED <<sourceVars, pos, got, lineVars, results, raced>>

\* Mutant: what one read has read is given to the next one again.
ResultKeeps(bytes, why) ==
  /\ results' = Append(results, [mode |-> op, bytes |-> bytes, why |-> why])
  /\ op' = "none"
  /\ size' = 0
  /\ UNCHANGED got

Result(bytes, why) ==
  /\ results' = Append(results, [mode |-> op, bytes |-> bytes, why |-> why])
  /\ op' = "none"
  /\ got' = <<>>
  /\ size' = 0

\* Mutant: a line is read in larger pieces.
WantedAhead == IF op = "size" THEN size ELSE Available

\* How many bytes one Read of the source is asked for.
Wanted == CASE op = "size" -> size
            [] op = "all" -> Available
            [] op = "line" -> 1

\* A Read of the source returns n bytes; the read goes on or returns.
Takes(n) ==
  LET new == got \o Interval(pos, pos + n)
  IN IF op = "size" \/ (op = "line" /\ data[pos + n] = "nl")
       THEN Result(new, "bytes")
       ELSE got' = new /\ UNCHANGED <<op, size, results>>

\* A Read of a string returns all that is wanted, of a body what has come.
Given(wanted) ==
  LET most == Min({wanted, Available})
  IN IF source = "string" THEN {most} ELSE 1 .. most

Reading == op \in Modes /\ ~closed /\ Available > 0

Take ==
  /\ Reading
  /\ \E n \in Given(Wanted) : Takes(n) /\ pos' = pos + n
  /\ UNCHANGED <<sourceVars, lineVars, raced>>

\* Mutant: the reads go on after an error other than the end of the file.
TakeEndOfFile ==
  /\ op \in Modes
  /\ ~closed /\ Available = 0 /\ end = "eof"
  /\ Result(got, IF got = <<>> THEN "nil" ELSE "bytes")
  /\ UNCHANGED <<sourceVars, pos, lineVars, raced>>

\* A Read of the source has nothing to return but its end.  What was read is
\* returned, if it is anything: after an error it is lost, a read with a size
\* returns the empty string then.
TakeEnd ==
  /\ op \in Modes
  /\ closed \/ (Available = 0 /\ end # "open")
  /\ LET failed == closed \/ end = "error" IN
       Result(got, CASE failed /\ op = "size" -> "bytes"
                     [] failed -> "error"
                     [] ~failed /\ got = <<>> -> "nil"
                     [] OTHER -> "bytes")
  /\ UNCHANGED <<sourceVars, pos, lineVars, raced>>

\* close raises an error if the source is a string.
Close ==
  /\ Idle
  /\ source = "body"
  /\ closed' = TRUE
  /\ UNCHANGED <<source, data, end, pos, readVars, lineVars, results, raced>>

-----------------------------------------------------------------------------
(* with_line_callback.                                                     *)

\* Bound: once for a reader.
WithLineCallback ==
  /\ Idle
  /\ liner = "none"
  /\ liner' = "read"
  /\ UNCHANGED <<sourceVars, pos, readVars, buf, part, lines, results, raced>>

Filling == liner = "read" /\ buf = <<>> /\ ~closed /\ Available > 0

\* ReadString fills the empty buffer with what there is.
Fill ==
  /\ Filling
  /\ \E n \in Given(Available) : buf' = Interval(pos, pos + n) /\ pos' = pos + n
  /\ UNCHANGED <<sourceVars, readVars, liner, part, lines, results, raced>>

\* A string is a bytes.Buffer, which two goroutines may not read at once: both get
\* the same bytes, or one panics, which is an error of the read in Lua, and the end
\* of the process in the goroutine.
RacingReads ==
  /\ source = "string"
  /\ Reading /\ Filling
  /\ \/ /\ \E n \in Given(Wanted) : Takes(n) /\ pos' \in {pos + n, Len(data)}
        /\ buf' = Interval(pos, Len(data))
        /\ UNCHANGED liner
     \/ /\ Result(got, "error")
        /\ buf' = Interval(pos, Len(data))
        /\ pos' = Len(data)
        /\ UNCHANGED liner
     \/ /\ op' = "crashed"
        /\ liner' = "gone"
        /\ UNCHANGED <<pos, size, got, buf, results>>
  /\ raced' = TRUE
  /\ UNCHANGED <<sourceVars, part, lines>>

\* It moves a byte of the buffer to the line; an empty line is not called.
Scan ==
  /\ liner = "read" /\ buf # <<>>
  /\ buf' = Tail(buf)
  /\ IF data[Head(buf)] # "nl"
       THEN part' = Append(part, Head(buf)) /\ UNCHANGED liner
       ELSE /\ part' = IF part = <<>> THEN <<>> ELSE Append(part, Head(buf))
            /\ liner' = IF part = <<>> THEN "read" ELSE "call"
  /\ UNCHANGED <<sourceVars, pos, readVars, lines, results, raced>>

\* ReadString fails.  A last line without a newline is called first.
LinerEnds ==
  /\ liner = "read" /\ buf = <<>>
  /\ closed \/ (Available = 0 /\ end # "open")
  /\ liner' = IF part = <<>> THEN "end" ELSE "last"
  /\ UNCHANGED <<sourceVars, pos, readVars, buf, part, lines, results, raced>>

\* Mutant: a line is called with the line before it.
CallbackKeepsPart ==
  /\ op = "none"
  /\ liner \in {"call", "last", "end"}
  /\ liner' = CASE liner = "call" -> "read" [] liner = "last" -> "end" [] liner = "end" -> "gone"
  /\ lines' = IF liner = "end" THEN lines ELSE Append(lines, part)
  /\ UNCHANGED <<sourceVars, pos, readVars, buf, part, results, raced>>

\* The loop runs the callback that the goroutine waits for.
Callback ==
  /\ op = "none"
  /\ liner \in {"call", "last", "end"}
  /\ liner' = CASE liner = "call" -> "read" [] liner = "last" -> "end" [] liner = "end" -> "gone"
  /\ lines' = IF liner = "end" THEN lines ELSE Append(lines, part)
  /\ part' = IF liner = "end" THEN part ELSE <<>>
  /\ UNCHANGED <<sourceVars, pos, readVars, buf, results, raced>>

-----------------------------------------------------------------------------
LoopStep == Take \/ TakeEnd
Liner == Fill \/ Scan \/ LinerEnds

Next ==
  \/ \E n \in 0 .. MaxBytes : \E s \in [1 .. n -> Bytes] : FromString(s)
  \/ HttpDo \/ \E ok \in BOOLEAN : HttpResponse(ok)
  \/ \E b \in Bytes : Arrive(b)
  \/ \E how \in {"eof", "error"} : BodyEnds(how)
  \/ \E n \in Sizes : Read("size", n)
  \/ \E mode \in {"all", "line"} : Read(mode, 0)
  \/ Close \/ WithLineCallback
  \/ LoopStep \/ Liner \/ RacingReads \/ Callback

Spec == Init /\ [][Next]_vars

\* The client's timeout ends requests and bodies.  The loop comes to the callback
\* that the goroutine waits for, whatever is read in between: strong fairness.
Fairness ==
  /\ WF_vars(LoopStep) /\ WF_vars(Liner) /\ SF_vars(Callback)
  /\ WF_vars(HttpResponse(FALSE)) /\ WF_vars(BodyEnds("error"))

FairSpec == Spec /\ Fairness

-----------------------------------------------------------------------------
TypeOK ==
  /\ source \in {"none", "string", "body"}
  /\ end \in {"open", "eof", "error"}
  /\ closed \in BOOLEAN
  /\ pos \in 0 .. Len(data)
  /\ op \in Modes \cup {"none", "http", "crashed"}
  /\ liner \in LinerStates
  /\ raced \in BOOLEAN
  /\ got # <<>> => op \in {"all", "line", "crashed"}
  /\ ToSet(got) \cup ToSet(buf) \cup ToSet(part) \subseteq DOMAIN data

\* What reads returned to Lua or lost with an error, the lines that were called, and
\* what is on the way to them.
Pieces ==
  {<<"result", r, results[r].bytes>> : r \in DOMAIN results}
    \cup {<<"line", l, lines[l]>> : l \in DOMAIN lines}
    \cup {<<"got", 0, got>>, <<"part", 0, part>>, <<"buf", 0, buf>>}

Distinct(pieces) ==
  \A p, q \in pieces : \A i \in DOMAIN p[3], j \in DOMAIN q[3] :
    p[3][i] = q[3][j] => p = q /\ i = j

\* Every byte that was read from the source is returned or called once, or lost with
\* the error of the read that took it, however reads and the goroutine of
\* with_line_callback alternate; newlines of blank lines are not called (readerRead,
\* WithLineCallback).  Reads that race on a string are excepted.
EveryByteOnce ==
  ~raced =>
    /\ Distinct(Pieces)
    /\ \A b \in 1 .. pos : data[b] = "nl" \/ \E p \in Pieces : Contains(p[3], b)

\* The bytes from m + 1 to n are a line, with its newline, the last one perhaps without.
IsLine(m, n) ==
  /\ m < n
  /\ m = 0 \/ data[m] = "nl"
  /\ \A b \in m + 1 .. n - 1 : data[b] # "nl"
  /\ data[n] = "nl" \/ n = Len(data)

IsTextLine(m, n) == IsLine(m, n) /\ ~(n = m + 1 /\ data[n] = "nl")

\* Reading line by line, or with a line callback alone, gives the lines of the
\* source: successive reads of "*line" all of them, each from where the one before
\* ended, the callback in order those that are not blank, a last one without newline
\* included (readerRead, WithLineCallback).
LinesAreSplit ==
  ~raced /\ end = "eof" =>
    /\ liner = "none" /\ (\A r \in DOMAIN results : results[r].mode = "line" /\ results[r].why # "error") =>
         \A r \in DOMAIN results : results[r].bytes # <<>> =>
           \E m, n \in 0 .. Len(data) :
             /\ IsLine(m, n) /\ results[r].bytes = Interval(m, n)
             /\ IF r = 1 THEN m = 0
                ELSE results[r - 1].bytes # <<>> /\ Last(results[r - 1].bytes) = m
    /\ results = <<>> /\ liner = "gone" /\ ~closed =>
         /\ \A l \in DOMAIN lines : \E m, n \in 0 .. Len(data) :
              /\ IsTextLine(m, n) /\ lines[l] = Interval(m, n)
              /\ \A k \in 1 .. l - 1 : Last(lines[k]) <= m
         /\ \A m, n \in 0 .. Len(data) :
              IsTextLine(m, n) => Contains(lines, Interval(m, n))

\* A read on the loop returns: data comes, or the timeout of the client ends a request and
\* a body that does not come, also when the goroutine of with_line_callback has read ahead
\* what the loop waits for; and that goroutine ends, though it waits for the loop at each
\* line (readerRead, httpDo, WithLineCallback).
ReadReturns ==
  /\ op # "none" ~> op \in {"none", "crashed"}
  /\ liner # "none" ~> liner = "gone"
=============================================================================
