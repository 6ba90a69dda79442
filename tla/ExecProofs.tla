----------------------------- MODULE ExecProofs -----------------------------
(***************************************************************************)
(* Proofs about one call of exec, for any number of lines and any size of  *)
(* the pipes.                                                              *)
(***************************************************************************)
EXTENDS Exec, SequenceTheorems, TLAPS

\* How many lines there are, and that Go code counts them.
LinesInv ==
  /\ taken \in [Streams -> Nat]
  /\ used \in [Streams -> Nat]
  /\ \A s \in Streams : Len(written[s]) <= MaxLines

\* A goroutine that reads a stream waits for its callback: there is one at most.
WaitsInv ==
  /\ \A i, j \in DOMAIN jobs : jobs[i].of \in Streams /\ jobs[i].of = jobs[j].of => i = j
  /\ \A i \in DOMAIN jobs, s \in Streams :
       jobs[i].of = s => reader[s] = (IF jobs[i].why = "line" THEN "line" ELSE "end")

\* The line callbacks of a stream are those of its text lines up to where ReadString is.
\* There is no other one before the end, and it comes when the buffer is empty.
StreamInv(s) ==
  /\ \A i \in DOMAIN Scheduled :
       Scheduled[i].of = s /\ Scheduled[i].why = "line" =>
         /\ Scheduled[i].line \in 1 .. used[s]
         /\ written[s][Scheduled[i].line] = "text"
  /\ \A n \in 1 .. used[s] :
       written[s][n] = "text" => \E i \in DOMAIN Scheduled : Scheduled[i] = Job(s, "line", n)
  /\ reader[s] \in {"read", "line"} =>
       \A i \in DOMAIN Scheduled : Scheduled[i].of = s => Scheduled[i].why = "line"
  /\ reader[s] \in {"end", "gone"} => used[s] = taken[s]

ExecInv ==
  /\ TypeOK
  /\ LinesInv
  /\ WaitsInv
  /\ \A s \in Streams : StreamInv(s)
  /\ LinesWithoutGap

-----------------------------------------------------------------------------
(* Lemmas about the data.                                                  *)

LEMMA ExecInit == Init => ExecInv
<1> SUFFICES ASSUME Init PROVE ExecInv
  OBVIOUS
<1> USE ExecAssumption DEF Init
<1>1. \A S : <<>> \in Seq(S)
  BY EmptySeq
<1>2. Scheduled = <<>>
  BY DEF Scheduled
<1>3. TypeOK
  BY <1>1 DEF TypeOK, ReaderStates, WaiterStates
<1>4. LinesInv /\ WaitsInv
  BY DEF LinesInv, WaitsInv
<1>5. \A s \in Streams : StreamInv(s)
  BY <1>2 DEF StreamInv
<1>6. LinesWithoutGap
  BY <1>2 DEF LinesWithoutGap
<1> QED BY <1>3, <1>4, <1>5, <1>6 DEF ExecInv

\* A job comes last.
LEMMA JobAppended ==
  ASSUME TypeOK, NEW job \in JobSet, jobs' = Append(jobs, job), calls' = calls
  PROVE  /\ jobs' \in Seq(JobSet)
         /\ Scheduled \in Seq(JobSet)
         /\ Len(jobs') = Len(jobs) + 1
         /\ jobs'[Len(jobs) + 1] = job
         /\ \A i \in 1 .. Len(jobs) : jobs'[i] = jobs[i]
         /\ Len(Scheduled') = Len(Scheduled) + 1
         /\ Scheduled'[Len(Scheduled) + 1] = job
         /\ \A i \in 1 .. Len(Scheduled) : Scheduled'[i] = Scheduled[i]
<1>1. jobs \in Seq(JobSet) /\ calls \in Seq(JobSet)
  BY DEF TypeOK
<1> HIDE DEF JobSet
<1>2. Scheduled \in Seq(JobSet)
  BY <1>1, ConcatProperties DEF Scheduled
<1>3. Scheduled' = Append(Scheduled, job)
  <2>1. calls \o Append(jobs, job) = Append(calls \o jobs, job)
    BY <1>1
  <2> QED BY <2>1 DEF Scheduled
<1> QED BY <1>1, <1>2, <1>3, AppendProperties

\* Lines that are written come after those that were.
Extended ==
  \A s \in Streams :
    /\ Len(written[s]) <= Len(written'[s])
    /\ written'[s] \in Seq({"text", "blank"})
    /\ \A n \in 1 .. Len(written[s]) : written'[s][n] = written[s][n]

LEMMA GapKept ==
  ASSUME ExecInv, Scheduled' = Scheduled, Extended
  PROVE  LinesWithoutGap'
<1> SUFFICES ASSUME NEW i \in DOMAIN Scheduled, NEW s \in Streams, Scheduled[i].of = s
             PROVE  /\ \A j \in 1 .. i - 1 : Scheduled[j].of = s => Scheduled[j].why = "line"
                    /\ Scheduled[i].why = "line" =>
                         /\ Scheduled[i].line \in DOMAIN written'[s]
                         /\ written'[s][Scheduled[i].line] = "text"
                         /\ \A j \in 1 .. i - 1 :
                              Scheduled[j].of = s => Scheduled[j].line < Scheduled[i].line
                         /\ \A n \in 1 .. Scheduled[i].line - 1 :
                              written'[s][n] = "text" =>
                                \E j \in 1 .. i - 1 : Job(s, "line", n) = Scheduled[j]
  BY DEF LinesWithoutGap
<1>1. /\ \A j \in 1 .. i - 1 : Scheduled[j].of = s => Scheduled[j].why = "line"
      /\ Scheduled[i].why = "line" =>
           /\ Scheduled[i].line \in DOMAIN written[s]
           /\ written[s][Scheduled[i].line] = "text"
           /\ \A j \in 1 .. i - 1 :
                Scheduled[j].of = s => Scheduled[j].line < Scheduled[i].line
           /\ \A n \in 1 .. Scheduled[i].line - 1 :
                written[s][n] = "text" => \E j \in 1 .. i - 1 : Job(s, "line", n) = Scheduled[j]
  BY DEF ExecInv, LinesWithoutGap
<1>2. ASSUME Scheduled[i].why = "line"
      PROVE  /\ Scheduled[i].line \in DOMAIN written'[s]
             /\ written'[s][Scheduled[i].line] = "text"
             /\ \A n \in 1 .. Scheduled[i].line - 1 : written'[s][n] = written[s][n]
  <2>1. written[s] \in Seq({"text", "blank"}) /\ written'[s] \in Seq({"text", "blank"})
    BY DEF ExecInv, TypeOK, Extended
  <2>2. Scheduled[i].line \in 1 .. Len(written[s]) /\ written[s][Scheduled[i].line] = "text"
    BY <1>1, <1>2, <2>1
  <2> DEFINE line == Scheduled[i].line
  <2> HIDE DEF line
  <2>3. line \in DOMAIN written'[s] /\ \A n \in 1 .. line : written'[s][n] = written[s][n]
    BY <2>1, <2>2 DEF Extended, line
  <2> QED BY <2>2, <2>3 DEF line
<1> QED BY <1>1, <1>2

\* A callback may follow that is not one of a stream, or the next one of a stream.
LEMMA GapAppended ==
  ASSUME ExecInv, NEW job \in JobSet, jobs' = Append(jobs, job), UNCHANGED <<calls, written>>,
         job.of \in Streams =>
           /\ \A i \in DOMAIN Scheduled : Scheduled[i].of = job.of => Scheduled[i].why = "line"
           /\ job.why = "line" =>
                /\ job.line = used[job.of] + 1
                /\ job.line \in DOMAIN written[job.of] /\ written[job.of][job.line] = "text"
  PROVE  LinesWithoutGap'
<1> DEFINE n == Len(Scheduled)
<1>1. /\ Scheduled \in Seq(JobSet) /\ n \in Nat
      /\ DOMAIN Scheduled = 1 .. n /\ DOMAIN Scheduled' = 1 .. n + 1
      /\ Scheduled'[n + 1] = job
      /\ \A i \in 1 .. n : Scheduled'[i] = Scheduled[i]
  <2>1. TypeOK
    BY DEF ExecInv
  <2>2. jobs' \in Seq(JobSet) /\ calls' \in Seq(JobSet)
    BY <2>1, JobAppended DEF TypeOK
  <2>3. Scheduled' \in Seq(JobSet)
    BY <2>2, ConcatProperties DEF Scheduled
  <2> QED BY <2>1, <2>3, JobAppended
<1> HIDE DEF n
<1> SUFFICES ASSUME NEW i \in 1 .. n + 1, NEW s \in Streams, Scheduled'[i].of = s
             PROVE  /\ \A j \in 1 .. i - 1 : Scheduled'[j].of = s => Scheduled'[j].why = "line"
                    /\ Scheduled'[i].why = "line" =>
                         /\ Scheduled'[i].line \in DOMAIN written[s]
                         /\ written[s][Scheduled'[i].line] = "text"
                         /\ \A j \in 1 .. i - 1 :
                              Scheduled'[j].of = s => Scheduled'[j].line < Scheduled'[i].line
                         /\ \A k \in 1 .. Scheduled'[i].line - 1 :
                              written[s][k] = "text" =>
                                \E j \in 1 .. i - 1 : Job(s, "line", k) = Scheduled'[j]
  BY <1>1 DEF LinesWithoutGap
<1>2. CASE i # n + 1
  <2>1. /\ i \in 1 .. n /\ Scheduled'[i] = Scheduled[i]
        /\ \A j \in 1 .. i - 1 : Scheduled'[j] = Scheduled[j]
    BY <1>1, <1>2
  <2>2. /\ \A j \in 1 .. i - 1 : Scheduled[j].of = s => Scheduled[j].why = "line"
        /\ Scheduled[i].why = "line" =>
             /\ Scheduled[i].line \in DOMAIN written[s]
             /\ written[s][Scheduled[i].line] = "text"
             /\ \A j \in 1 .. i - 1 :
                  Scheduled[j].of = s => Scheduled[j].line < Scheduled[i].line
             /\ \A k \in 1 .. Scheduled[i].line - 1 :
                  written[s][k] = "text" => \E j \in 1 .. i - 1 : Job(s, "line", k) = Scheduled[j]
    BY <1>1, <2>1 DEF ExecInv, LinesWithoutGap
  <2> QED BY <2>1, <2>2
<1>3. CASE i = n + 1
  <2>1. /\ Scheduled'[i] = job /\ job.of = s
        /\ \A j \in 1 .. i - 1 : j \in DOMAIN Scheduled /\ Scheduled'[j] = Scheduled[j]
    BY <1>1, <1>3
  <2>2. \A j \in 1 .. i - 1 : Scheduled'[j].of = s => Scheduled'[j].why = "line"
    BY <2>1
  <2>3. ASSUME job.why = "line"
        PROVE  /\ \A j \in 1 .. i - 1 : Scheduled'[j].of = s => Scheduled'[j].line < job.line
               /\ \A k \in 1 .. job.line - 1 :
                    written[s][k] = "text" =>
                      \E j \in 1 .. i - 1 : Job(s, "line", k) = Scheduled'[j]
    <3>1. job.line = used[s] + 1 /\ used[s] \in Nat /\ StreamInv(s)
      BY <2>1, <2>3 DEF ExecInv, LinesInv
    <3>2. ASSUME NEW j \in 1 .. i - 1, Scheduled'[j].of = s
          PROVE  Scheduled'[j].line < job.line
      <4>1. Scheduled[j].line \in 1 .. used[s]
        BY <2>1, <2>2, <3>1, <3>2 DEF StreamInv
      <4> QED BY <2>1, <3>1, <4>1
    <3>3. ASSUME NEW k \in 1 .. job.line - 1, written[s][k] = "text"
          PROVE  \E j \in 1 .. i - 1 : Job(s, "line", k) = Scheduled'[j]
      <4>1. k \in 1 .. used[s]
        BY <3>1
      <4>2. PICK j \in DOMAIN Scheduled : Scheduled[j] = Job(s, "line", k)
        BY <3>1, <3>3, <4>1 DEF StreamInv
      <4> QED BY <1>1, <1>3, <4>2
    <3> QED BY <3>2, <3>3
  <2> QED BY <2>1, <2>2, <2>3
<1> QED BY <1>2, <1>3

-----------------------------------------------------------------------------
(* The steps.                                                              *)

\* The process goes on, and the goroutine that waits for it.
LEMMA ProcessStep ==
  ASSUME ExecInv, UNCHANGED <<written, taken, used, reader, jobs, calls>>,
         process' \in {"failed", "running", "exited"} \/ process' = process,
         waiter' \in WaiterStates \/ waiter' = waiter
  PROVE  ExecInv'
<1>1. Scheduled' = Scheduled
  BY DEF Scheduled
<1>2. TypeOK' /\ LinesInv' /\ WaitsInv'
  BY DEF ExecInv, TypeOK, LinesInv, WaitsInv
<1>3. \A s \in Streams : StreamInv(s)'
  BY <1>1 DEF ExecInv, StreamInv
<1>4. Extended
  BY DEF Extended, ExecInv, TypeOK
<1> QED BY <1>1, <1>2, <1>3, <1>4, GapKept DEF ExecInv

LEMMA WriteStep ==
  ASSUME ExecInv, NEW s \in Streams, NEW line \in {"text", "blank"}, Write(s, line)
  PROVE  ExecInv'
<1>1. /\ written' = [written EXCEPT ![s] = Append(written[s], line)]
      /\ Len(written[s]) < MaxLines
      /\ UNCHANGED <<process, taken, used, reader, waiter, jobs, calls>>
      /\ Scheduled' = Scheduled
  BY DEF Write, readerVars, Scheduled
<1>2. TypeOK /\ LinesInv
  BY DEF ExecInv
<1>3. ASSUME NEW r \in Streams
      PROVE  /\ written'[r] \in Seq({"text", "blank"})
             /\ Len(written'[r]) <= MaxLines
             /\ Len(written[r]) <= Len(written'[r])
             /\ \A n \in 1 .. Len(written[r]) : written'[r][n] = written[r][n]
  <2>1. written[r] \in Seq({"text", "blank"}) /\ Len(written[r]) <= MaxLines
    BY <1>2 DEF TypeOK, LinesInv
  <2>2. CASE r = s
    <3>1. written'[r] = Append(written[r], line)
      BY <1>1, <1>2, <2>2 DEF TypeOK
    <3> QED BY <1>1, <2>1, <2>2, <3>1, ExecAssumption
  <2>3. CASE r # s
    <3>1. written'[r] = written[r]
      BY <1>1, <1>2, <2>3 DEF TypeOK
    <3> QED BY <2>1, <3>1
  <2> QED BY <2>2, <2>3
<1>4. Extended
  BY <1>3 DEF Extended
<1>5. written' \in [Streams -> Seq({"text", "blank"})]
  BY <1>1, <1>2, <1>3 DEF TypeOK
<1>6. \A r \in Streams : used[r] \in 0 .. taken[r] /\ taken[r] \in 0 .. Len(written'[r])
  BY <1>2, <1>3 DEF TypeOK
<1>7. TypeOK'
  BY <1>1, <1>2, <1>5, <1>6 DEF TypeOK
<1>8. LinesInv' /\ WaitsInv'
  BY <1>1, <1>3 DEF ExecInv, LinesInv, WaitsInv
<1>9. ASSUME NEW r \in Streams
      PROVE  StreamInv(r)'
  <2>1. \A n \in 1 .. used[r] : n \in 1 .. Len(written[r])
    BY <1>2 DEF TypeOK, LinesInv
  <2>2. \A n \in 1 .. used[r] : written'[r][n] = written[r][n]
    BY <1>3, <2>1
  <2>3. StreamInv(r)
    BY DEF ExecInv
  <2>4. \A i \in DOMAIN Scheduled :
          Scheduled[i].of = r /\ Scheduled[i].why = "line" =>
            /\ Scheduled[i].line \in 1 .. used[r]
            /\ written'[r][Scheduled[i].line] = "text"
    BY <2>2, <2>3 DEF StreamInv
  <2>5. \A n \in 1 .. used[r] : written'[r][n] = "text" =>
          \E i \in DOMAIN Scheduled : Scheduled[i] = Job(r, "line", n)
    BY <2>2, <2>3 DEF StreamInv
  <2> QED BY <1>1, <2>3, <2>4, <2>5 DEF StreamInv
<1> QED BY <1>1, <1>4, <1>7, <1>8, <1>9, GapKept DEF ExecInv

\* The done callback.
LEMMA ReportStep ==
  ASSUME ExecInv, Report
  PROVE  ExecInv'
<1> DEFINE job == Job("process", "done", 0)
<1>1. UNCHANGED <<process, written, taken, used, reader, calls>> /\ waiter' \in WaiterStates
  BY DEF Report, processVars, readerVars, WaiterStates
<1>2. CASE jobs' = jobs
  BY <1>1, <1>2, ProcessStep
<1>3. CASE jobs' = Append(jobs, job)
  <2>1. job \in JobSet /\ job.of \notin Streams /\ TypeOK
    BY ExecAssumption DEF Job, JobSet, Streams, ExecInv
  <2> HIDE DEF job
  <2>2. /\ jobs' \in Seq(JobSet)
        /\ Scheduled \in Seq(JobSet)
        /\ Len(jobs') = Len(jobs) + 1
        /\ jobs'[Len(jobs) + 1] = job
        /\ \A i \in 1 .. Len(jobs) : jobs'[i] = jobs[i]
        /\ Len(Scheduled') = Len(Scheduled) + 1
        /\ Scheduled'[Len(Scheduled) + 1] = job
        /\ \A i \in 1 .. Len(Scheduled) : Scheduled'[i] = Scheduled[i]
    BY <1>1, <1>3, <2>1, JobAppended
  <2>3. /\ DOMAIN jobs = 1 .. Len(jobs) /\ DOMAIN jobs' = 1 .. Len(jobs) + 1 /\ Len(jobs) \in Nat
        /\ DOMAIN Scheduled = 1 .. Len(Scheduled) /\ Len(Scheduled) \in Nat
        /\ DOMAIN Scheduled' = 1 .. Len(Scheduled) + 1
    <3>1. jobs \in Seq(JobSet) /\ calls' \in Seq(JobSet) /\ Scheduled' \in Seq(JobSet)
      BY <1>1, <2>1, <2>2, ConcatProperties DEF TypeOK, Scheduled
    <3> HIDE DEF JobSet
    <3> QED BY <2>2, <3>1
  <2>4. TypeOK' /\ LinesInv'
    BY <1>1, <2>2 DEF ExecInv, TypeOK, LinesInv
  <2>5. WaitsInv'
    BY <1>1, <2>1, <2>2, <2>3 DEF ExecInv, WaitsInv
  <2>6. ASSUME NEW s \in Streams
        PROVE  StreamInv(s)'
    <3>1. \A i \in DOMAIN Scheduled' :
            Scheduled'[i].of = s => i \in DOMAIN Scheduled /\ Scheduled'[i] = Scheduled[i]
      BY <2>1, <2>2, <2>3
    <3>2. \A i \in DOMAIN Scheduled : i \in DOMAIN Scheduled' /\ Scheduled'[i] = Scheduled[i]
      BY <2>2, <2>3
    <3> QED BY <1>1, <3>1, <3>2 DEF ExecInv, StreamInv
  <2> QED BY <1>1, <1>3, <2>1, <2>4, <2>5, <2>6, GapAppended DEF ExecInv
<1> QED BY <1>2, <1>3 DEF Report

LEMMA FillStep ==
  ASSUME ExecInv, NEW s \in Streams, Fill(s)
  PROVE  ExecInv'
<1>1. PICK n \in taken[s] + 1 .. Len(written[s]) : taken' = [taken EXCEPT ![s] = n]
  BY DEF Fill
<1>2. /\ UNCHANGED <<process, written, used, reader, waiter, jobs, calls>>
      /\ reader[s] = "read" /\ used[s] = taken[s] /\ Scheduled' = Scheduled
  BY DEF Fill, processVars, Scheduled
<1>3. TypeOK /\ LinesInv
  BY DEF ExecInv
<1>4. taken[s] \in Nat /\ written[s] \in Seq({"text", "blank"})
  BY <1>3 DEF LinesInv, TypeOK
<1>5. n \in Nat /\ n \in 0 .. Len(written[s]) /\ used[s] \in 0 .. n
  BY <1>1, <1>2, <1>4
<1>6. taken' \in [Streams -> Nat] /\ \A r \in Streams : taken'[r] = IF r = s THEN n ELSE taken[r]
  BY <1>1, <1>3, <1>5 DEF LinesInv
<1>7. TypeOK'
  BY <1>2, <1>3, <1>5, <1>6 DEF TypeOK
<1>8. LinesInv' /\ WaitsInv'
  BY <1>2, <1>6 DEF ExecInv, LinesInv, WaitsInv
<1>9. \A r \in Streams : StreamInv(r)'
  BY <1>2, <1>6 DEF ExecInv, StreamInv
<1>10. Extended
  BY <1>2, <1>3 DEF Extended, TypeOK
<1> QED BY <1>2, <1>7, <1>8, <1>9, <1>10, GapKept DEF ExecInv

\* A stream schedules a callback: it is the only one, and the goroutine waits for it.
LEMMA StreamSchedules ==
  ASSUME ExecInv, NEW s \in Streams, reader[s] = "read",
         NEW why \in {"line", "eof", "error"}, NEW line \in 0 .. MaxLines,
         jobs' = Append(jobs, Job(s, why, line)),
         reader' = [reader EXCEPT ![s] = IF why = "line" THEN "line" ELSE "end"],
         used' = IF why = "line" THEN [used EXCEPT ![s] = used[s] + 1] ELSE used,
         IF why = "line"
           THEN /\ line = used[s] + 1 /\ used[s] < taken[s] /\ written[s][line] = "text"
           ELSE used[s] = taken[s],
         UNCHANGED <<processVars, taken, waiter, calls>>
  PROVE  ExecInv'
<1> DEFINE job == Job(s, why, line)
<1>1. UNCHANGED <<process, written, taken, waiter, calls>>
  BY DEF processVars
<1>2. /\ job \in JobSet /\ job.of = s /\ job.why = why /\ job.line = line
      /\ jobs' = Append(jobs, job)
  BY DEF Job, JobSet
<1>3. TypeOK /\ LinesInv /\ WaitsInv /\ StreamInv(s)
  BY DEF ExecInv
<1>4. /\ jobs' \in Seq(JobSet)
      /\ Scheduled \in Seq(JobSet)
      /\ Len(jobs') = Len(jobs) + 1
      /\ jobs'[Len(jobs) + 1] = job
      /\ \A i \in 1 .. Len(jobs) : jobs'[i] = jobs[i]
      /\ Len(Scheduled') = Len(Scheduled) + 1
      /\ Scheduled'[Len(Scheduled) + 1] = job
      /\ \A i \in 1 .. Len(Scheduled) : Scheduled'[i] = Scheduled[i]
  <2> HIDE DEF job
  <2> QED BY <1>1, <1>2, <1>3, JobAppended
<1>5. /\ DOMAIN jobs = 1 .. Len(jobs) /\ DOMAIN jobs' = 1 .. Len(jobs) + 1 /\ Len(jobs) \in Nat
      /\ DOMAIN Scheduled = 1 .. Len(Scheduled) /\ Len(Scheduled) \in Nat
      /\ DOMAIN Scheduled' = 1 .. Len(Scheduled) + 1
  <2>1. jobs \in Seq(JobSet) /\ calls' \in Seq(JobSet) /\ Scheduled' \in Seq(JobSet)
    BY <1>1, <1>3, <1>4, ConcatProperties DEF TypeOK, Scheduled
  <2> HIDE DEF JobSet, job
  <2> QED BY <1>4, <2>1
<1>6. used' \in [Streams -> Nat] /\ \A r \in Streams : used'[r] =
        IF r = s /\ why = "line" THEN used[r] + 1 ELSE used[r]
  BY <1>3 DEF LinesInv
<1>7. reader' \in [Streams -> ReaderStates] /\ \A r \in Streams : reader'[r] =
        IF r = s THEN (IF why = "line" THEN "line" ELSE "end") ELSE reader[r]
  BY <1>3 DEF TypeOK, ReaderStates
<1> HIDE DEF job
<1>8. TypeOK'
  <2>1. \A r \in Streams : used'[r] \in 0 .. taken[r]
    BY <1>3, <1>6 DEF TypeOK, LinesInv
  <2> QED BY <1>1, <1>3, <1>4, <1>7, <2>1 DEF TypeOK
<1>9. LinesInv'
  BY <1>1, <1>3, <1>6 DEF LinesInv
<1>10. WaitsInv'
  <2>1. \A i \in DOMAIN jobs : jobs[i].of # s
    BY <1>3 DEF WaitsInv
  <2> QED BY <1>2, <1>3, <1>4, <1>5, <1>7, <2>1 DEF WaitsInv
<1>11. ASSUME NEW r \in Streams
       PROVE  StreamInv(r)'
  <2>1. \A i \in DOMAIN Scheduled : i \in DOMAIN Scheduled' /\ Scheduled'[i] = Scheduled[i]
    BY <1>4, <1>5
  <2>2. CASE r # s
    <3>1. \A i \in DOMAIN Scheduled' :
            Scheduled'[i].of = r => i \in DOMAIN Scheduled /\ Scheduled'[i] = Scheduled[i]
      BY <1>2, <1>4, <1>5, <2>2
    <3>2. used'[r] = used[r] /\ reader'[r] = reader[r]
      BY <1>6, <1>7, <2>2
    <3> QED BY <1>1, <2>1, <3>1, <3>2 DEF ExecInv, StreamInv
  <2>3. CASE r = s
    <3>1. \A i \in DOMAIN Scheduled' :
            \/ i \in DOMAIN Scheduled /\ Scheduled'[i] = Scheduled[i]
            \/ i = Len(Scheduled) + 1 /\ Scheduled'[i] = job
      BY <1>4, <1>5
    <3>2. used[s] \in Nat
      BY <1>3 DEF LinesInv
    <3>3. \A i \in DOMAIN Scheduled : Scheduled[i].of = s => Scheduled[i].why = "line"
      BY <1>3 DEF StreamInv
    <3>4. ASSUME NEW i \in DOMAIN Scheduled', Scheduled'[i].of = s, Scheduled'[i].why = "line"
          PROVE  Scheduled'[i].line \in 1 .. used'[s] /\ written[s][Scheduled'[i].line] = "text"
      <4>1. CASE i \in DOMAIN Scheduled /\ Scheduled'[i] = Scheduled[i]
        <5>1. Scheduled[i].line \in 1 .. used[s] /\ written[s][Scheduled[i].line] = "text"
          BY <1>3, <3>4, <4>1 DEF StreamInv
        <5> QED BY <1>6, <3>2, <4>1, <5>1
      <4>2. CASE Scheduled'[i] = job
        BY <1>2, <1>6, <3>2, <3>4, <4>2
      <4> QED BY <3>1, <4>1, <4>2
    <3>5. ASSUME NEW n \in 1 .. used'[s], written[s][n] = "text"
          PROVE  \E i \in DOMAIN Scheduled' : Scheduled'[i] = Job(s, "line", n)
      <4>1. CASE n \in 1 .. used[s]
        <5>1. PICK i \in DOMAIN Scheduled : Scheduled[i] = Job(s, "line", n)
          BY <1>3, <3>5, <4>1 DEF StreamInv
        <5> QED BY <2>1, <5>1
      <4>2. CASE n \notin 1 .. used[s]
        <5>1. why = "line" /\ n = line
          BY <1>6, <3>2, <4>2
        <5>2. job = Job(s, "line", n)
          BY <5>1 DEF job
        <5>3. Len(Scheduled) + 1 \in DOMAIN Scheduled' /\ Scheduled'[Len(Scheduled) + 1] = Job(s, "line", n)
          BY <1>4, <1>5, <5>2
        <5> QED BY <5>3
      <4> QED BY <4>1, <4>2
    <3>6. reader'[s] \in {"read", "line"} =>
            \A i \in DOMAIN Scheduled' : Scheduled'[i].of = s => Scheduled'[i].why = "line"
      BY <1>2, <1>7, <3>1, <3>3
    <3>7. reader'[s] \in {"end", "gone"} => used'[s] = taken[s]
      BY <1>6, <1>7
    <3> QED BY <1>1, <2>3, <3>4, <3>5, <3>6, <3>7 DEF StreamInv
  <2> QED BY <2>2, <2>3
<1>12. LinesWithoutGap'
  <2>1. \A i \in DOMAIN Scheduled : Scheduled[i].of = s => Scheduled[i].why = "line"
    BY <1>3 DEF StreamInv
  <2>2. why = "line" => line = used[s] + 1 /\ line \in DOMAIN written[s] /\ written[s][line] = "text"
    BY <1>3 DEF TypeOK, LinesInv
  <2> QED BY <1>1, <1>2, <2>1, <2>2, GapAppended
<1> QED BY <1>8, <1>9, <1>10, <1>11, <1>12 DEF ExecInv

LEMMA ReadLineStep ==
  ASSUME ExecInv, NEW s \in Streams, ReadLine(s)
  PROVE  ExecInv'
<1>1. TypeOK /\ LinesInv
  BY DEF ExecInv
<1>2. /\ reader[s] = "read" /\ used[s] < taken[s]
      /\ used' = [used EXCEPT ![s] = used[s] + 1]
      /\ UNCHANGED <<processVars, taken, waiter, calls>>
  BY DEF ReadLine
<1>3. used[s] + 1 \in 1 .. Len(written[s]) /\ used[s] + 1 \in 0 .. MaxLines
  BY <1>1, <1>2, ExecAssumption DEF TypeOK, LinesInv
<1>4. CASE written[s][used[s] + 1] = "blank"
  <2>1. UNCHANGED <<process, written, taken, waiter, calls, jobs, reader>> /\ Scheduled' = Scheduled
    BY <1>2, <1>4 DEF ReadLine, processVars, Scheduled
  <2>2. used' \in [Streams -> Nat] /\ \A r \in Streams : used'[r] =
          IF r = s THEN used[r] + 1 ELSE used[r]
    BY <1>1, <1>2 DEF LinesInv
  <2>3. TypeOK' /\ LinesInv' /\ WaitsInv'
    <3>1. \A r \in Streams : used'[r] \in 0 .. taken[r]
      BY <1>1, <1>2, <2>2 DEF TypeOK, LinesInv
    <3>2. TypeOK'
      BY <1>1, <2>1, <3>1 DEF TypeOK
    <3> QED BY <2>1, <2>2, <3>2 DEF ExecInv, LinesInv, WaitsInv
  <2>4. ASSUME NEW r \in Streams
        PROVE  StreamInv(r)'
    <3>1. CASE r # s
      BY <2>1, <2>2, <3>1 DEF ExecInv, StreamInv
    <3>2. CASE r = s
      <4>1. used[s] \in Nat /\ used'[s] = used[s] + 1 /\ StreamInv(s)
        BY <1>1, <2>2 DEF ExecInv, LinesInv
      <4>2. \A n \in 1 .. used'[s] : written[s][n] = "text" => n \in 1 .. used[s]
        BY <1>4, <4>1
      <4>3. \A n \in 1 .. used[s] : n \in 1 .. used'[s]
        BY <4>1
      <4> QED BY <1>2, <2>1, <3>2, <4>1, <4>2, <4>3 DEF StreamInv
    <3> QED BY <3>1, <3>2
  <2>5. Extended
    BY <1>1, <2>1 DEF Extended, TypeOK
  <2> QED BY <2>1, <2>3, <2>4, <2>5, GapKept DEF ExecInv
<1>5. CASE written[s][used[s] + 1] # "blank"
  <2>1. /\ jobs' = Append(jobs, Job(s, "line", used[s] + 1))
        /\ reader' = [reader EXCEPT ![s] = "line"]
    BY <1>5 DEF ReadLine
  <2>2. written[s][used[s] + 1] = "text"
    BY <1>1, <1>3, <1>5 DEF TypeOK
  <2> QED BY <1>2, <1>3, <2>1, <2>2, StreamSchedules
<1> QED BY <1>4, <1>5

LEMMA ReadEndsStep ==
  ASSUME ExecInv, NEW s \in Streams, ReadEnds(s)
  PROVE  ExecInv'
<1>1. PICK why \in {"eof", "error"} : jobs' = Append(jobs, Job(s, why, 0))
  BY DEF ReadEnds
<1>2. /\ reader[s] = "read" /\ used[s] = taken[s]
      /\ reader' = [reader EXCEPT ![s] = "end"]
      /\ UNCHANGED <<processVars, taken, used, waiter, calls>>
  BY DEF ReadEnds
<1>3. 0 \in 0 .. MaxLines
  BY ExecAssumption
<1> QED BY <1>1, <1>2, <1>3, StreamSchedules

LEMMA CallbackStep ==
  ASSUME ExecInv, Callback
  PROVE  ExecInv'
<1> DEFINE job == Head(jobs)
<1>1. /\ jobs # <<>> /\ calls' = Append(calls, job) /\ jobs' = Tail(jobs)
      /\ reader' = IF job.of = "process" THEN reader
                   ELSE [reader EXCEPT ![job.of] = IF job.why = "line" THEN "read" ELSE "gone"]
      /\ waiter' = IF job.of = "process" THEN "gone" ELSE waiter
      /\ UNCHANGED <<process, written, taken, used>>
  BY DEF Callback, processVars
<1>2. TypeOK /\ LinesInv /\ WaitsInv
  BY DEF ExecInv
<1>3. /\ jobs \in Seq(JobSet) /\ job \in JobSet /\ job = jobs[1] /\ 1 \in DOMAIN jobs
      /\ jobs' \in Seq(JobSet) /\ calls' \in Seq(JobSet)
      /\ \A i \in DOMAIN jobs' : i + 1 \in DOMAIN jobs /\ i + 1 # 1 /\ jobs'[i] = jobs[i + 1] /\ i \in Nat
      /\ Scheduled' = Scheduled
  <2>1. calls \in Seq(JobSet) /\ jobs \in Seq(JobSet)
    BY <1>2 DEF TypeOK
  <2> HIDE DEF JobSet
  <2>2. Append(calls, Head(jobs)) \o Tail(jobs) = calls \o jobs
    BY <1>1, <2>1
  <2>3. Scheduled' = Scheduled
    BY <1>1, <2>2 DEF Scheduled
  <2>4. job \in JobSet /\ jobs' \in Seq(JobSet) /\ Len(jobs') = Len(jobs) - 1
    BY <1>1, <2>1, HeadTailProperties
  <2>5. calls' \in Seq(JobSet)
    BY <1>1, <2>1, <2>4, AppendProperties
  <2> QED BY <1>1, <2>1, <2>3, <2>4, <2>5
<1>4. /\ job.of \in Streams \/ job.of = "process"
      /\ job.of \in Streams => reader[job.of] = IF job.why = "line" THEN "line" ELSE "end"
  BY <1>2, <1>3 DEF JobSet, WaitsInv
<1>5. \A r \in Streams : r # "process"
  BY DEF Streams
<1>6. /\ reader' \in [Streams -> ReaderStates]
      /\ \A r \in Streams : reader'[r] =
           IF job.of = r THEN (IF job.why = "line" THEN "read" ELSE "gone") ELSE reader[r]
  BY <1>1, <1>2, <1>4, <1>5 DEF TypeOK, ReaderStates
<1> HIDE DEF job
<1>7. TypeOK' /\ LinesInv'
  <2>1. waiter' \in WaiterStates
    BY <1>1, <1>2 DEF TypeOK, WaiterStates
  <2>2. TypeOK'
    BY <1>1, <1>2, <1>3, <1>6, <2>1 DEF TypeOK
  <2> QED BY <1>1, <1>2, <2>2 DEF LinesInv
<1>8. WaitsInv'
  <2>1. \A i, j \in DOMAIN jobs' : jobs'[i].of \in Streams /\ jobs'[i].of = jobs'[j].of => i = j
    <3>1. \A i, j \in DOMAIN jobs : jobs[i].of \in Streams /\ jobs[i].of = jobs[j].of => i = j
      BY <1>2 DEF WaitsInv
    <3> QED BY <1>3, <3>1
  <2>2. ASSUME NEW i \in DOMAIN jobs', NEW s \in Streams, jobs'[i].of = s
        PROVE  reader'[s] = (IF jobs'[i].why = "line" THEN "line" ELSE "end")
    <3>1. i + 1 \in DOMAIN jobs /\ i + 1 # 1 /\ jobs'[i] = jobs[i + 1]
      BY <1>3
    <3>2. job.of # s
      BY <1>2, <1>3, <2>2, <3>1 DEF WaitsInv
    <3>3. reader'[s] = reader[s]
      BY <1>6, <3>2
    <3> QED BY <1>2, <2>2, <3>1, <3>3 DEF WaitsInv
  <2> QED BY <2>1, <2>2 DEF WaitsInv
<1>9. ASSUME NEW r \in Streams
      PROVE  StreamInv(r)'
  <2>1. StreamInv(r)
    BY DEF ExecInv
  <2>2. /\ reader'[r] \in {"read", "line"} => reader[r] \in {"read", "line"}
        /\ reader'[r] \in {"end", "gone"} => reader[r] \in {"end", "gone"}
    BY <1>4, <1>6
  <2> QED BY <1>1, <1>3, <2>1, <2>2 DEF StreamInv
<1>10. Extended
  BY <1>1, <1>2 DEF Extended, TypeOK
<1> QED BY <1>3, <1>7, <1>8, <1>9, <1>10, GapKept DEF ExecInv

LEMMA ExecStep == ExecInv /\ [Next]_vars => ExecInv'
<1> SUFFICES ASSUME ExecInv, [Next]_vars PROVE ExecInv'
  OBVIOUS
<1>1. CASE UNCHANGED vars
  BY <1>1, ProcessStep DEF vars
<1>2. CASE Start \/ StartFails \/ Exit \/ WaitReturns
  <2>1. /\ UNCHANGED <<written, taken, used, reader, jobs, calls>>
        /\ process' \in {"failed", "running", "exited"} \/ process' = process
        /\ waiter' \in WaiterStates \/ waiter' = waiter
    BY <1>2 DEF Start, StartFails, Exit, WaitReturns, processVars, readerVars, WaiterStates
  <2> QED BY <2>1, ProcessStep
<1>3. ASSUME NEW s \in Streams, NEW line \in {"text", "blank"}, Write(s, line) PROVE ExecInv'
  BY <1>3, WriteStep
<1>4. ASSUME NEW s \in Streams, ReaderStep(s) PROVE ExecInv'
  BY <1>4, FillStep, ReadLineStep, ReadEndsStep DEF ReaderStep
<1> QED BY <1>1, <1>2, <1>3, <1>4, ReportStep, CallbackStep DEF Next, WaiterStep

LEMMA ExecInvariant == Spec => []ExecInv
BY ExecInit, ExecStep, PTL DEF Spec

-----------------------------------------------------------------------------
\* The variables have their types, and ReadString returns no more than what was
\* taken out of the pipe, which is no more than what was written.
THEOREM ExecTyped == Spec => []TypeOK
<1>1. ExecInv => TypeOK
  BY DEF ExecInv
<1> QED BY ExecInvariant, <1>1, PTL

\* The callbacks of a stream come line by line, in order and without a gap, and its end
\* comes last, also when the pipe is closed while it is read (WithLineCallback).
THEOREM ExecLinesWithoutGap == Spec => []LinesWithoutGap
<1>1. ExecInv => LinesWithoutGap
  BY DEF ExecInv
<1> QED BY ExecInvariant, <1>1, PTL

\* When the goroutine of a stream ends it has called back for every line it took out of
\* the pipe (WithLineCallback, call).
THEOREM ExecTakenIsDelivered == Spec => []TakenIsDelivered
<1>1. ExecInv => TakenIsDelivered
  <2> SUFFICES ASSUME ExecInv, NEW s \in Streams, reader[s] \in {"end", "gone"},
                      NEW n \in 1 .. taken[s], written[s][n] = "text"
               PROVE  Contains(Scheduled, Job(s, "line", n))
    BY DEF TakenIsDelivered
  <2>1. StreamInv(s) /\ TypeOK
    BY DEF ExecInv
  <2>2. PICK i \in DOMAIN Scheduled : Scheduled[i] = Job(s, "line", n)
    BY <2>1 DEF StreamInv
  <2>3. DOMAIN Scheduled = 1 .. Len(Scheduled)
    BY <2>1 DEF TypeOK, Scheduled
  <2> QED BY <2>2, <2>3 DEF Contains
<1> QED BY ExecInvariant, <1>1, PTL

=============================================================================
