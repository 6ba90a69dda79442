---------------------------- MODULE ReaderProofs ----------------------------
(***************************************************************************)
(* Proofs about a reader, for sources of any length and any number of      *)
(* reads with any sizes.                                                   *)
(***************************************************************************)
EXTENDS Reader, SequenceTheorems, TLAPS

ResultSet == [mode : Modes, bytes : Seq(Nat), why : {"bytes", "nil", "error"}]

ReaderTypes ==
  /\ TypeOK
  /\ data \in Seq(Bytes)
  /\ got \in Seq(Nat) /\ buf \in Seq(Nat) /\ part \in Seq(Nat)
  /\ results \in Seq(ResultSet)
  /\ lines \in Seq(Seq(Nat))
  /\ op = "size" => size \in Nat \ {0}

\* Nothing was read before there is a source.
SourceInv ==
  /\ op = "http" => source = "none"
  /\ source = "none" =>
       /\ data = <<>> /\ end = "open" /\ closed = FALSE /\ pos = 0
       /\ op \in {"none", "http"} /\ liner = "none" /\ results = <<>> /\ lines = <<>>
       /\ got = <<>> /\ buf = <<>> /\ part = <<>>

-----------------------------------------------------------------------------
\* Bytes are in one place, and are there if they were read.
Covered == \A b \in 1 .. pos : data[b] = "nl" \/ \E p \in Pieces : Contains(p[3], b)
BytesInv ==
  ~raced =>
    /\ \A p \in Pieces : p[3] \in Seq(1 .. pos)
    /\ Distinct(Pieces)
    /\ Covered

-----------------------------------------------------------------------------
\* All was read that there is.
AtEnd == end = "eof" /\ pos = Len(data)

\* The bytes from m + 1 to n are a line of what has come.
Line(m, n) ==
  /\ m < n
  /\ m = 0 \/ data[m] = "nl"
  /\ \A b \in m + 1 .. n - 1 : data[b] # "nl"
  /\ data[n] = "nl" \/ (end = "eof" /\ n = Len(data))
TextLine(m, n) == Line(m, n) /\ ~(n = m + 1 /\ data[n] = "nl")

\* The line that the r-th read returns, or would return, begins behind m.
LineStarts(r, m) ==
  IF r = 1 THEN m = 0 ELSE results[r - 1].bytes # <<>> /\ Last(results[r - 1].bytes) = m

\* As long as only lines were read: what was returned, and what is being read.
OnlyLines ==
  /\ liner = "none" /\ ~raced
  /\ \A r \in DOMAIN results : results[r].mode = "line" /\ results[r].why # "error"
LineRead(r, m, n) == Line(m, n) /\ results[r].bytes = Interval(m, n) /\ LineStarts(r, m)
ReadingFrom(m) ==
  /\ got = Interval(m, pos)
  /\ \A b \in m + 1 .. pos : data[b] # "nl"
  /\ LineStarts(Len(results) + 1, m) \/ (AtEnd /\ m = pos)
  /\ m = 0 \/ data[m] = "nl" \/ (AtEnd /\ m = pos)
ReadsInv ==
  OnlyLines =>
    /\ \A r \in DOMAIN results :
         (results[r].bytes = <<>> /\ AtEnd) \/ \E m, n \in 0 .. pos : LineRead(r, m, n)
    /\ op \in {"none", "http", "line"} => \E m \in 0 .. pos : ReadingFrom(m)

\* As long as only the goroutine has read: what it has called up to the byte s, and
\* where it is in the line that begins there.
OnlyCalls == results = <<>> /\ got = <<>> /\ ~raced /\ ~closed /\ end # "error"
CalledUpTo(s) ==
  /\ \A l \in DOMAIN lines : \E m, n \in 0 .. s :
       /\ TextLine(m, n) /\ lines[l] = Interval(m, n)
       /\ \A k \in 1 .. l - 1 : Last(lines[k]) <= m
  /\ \A m, n \in 0 .. s : TextLine(m, n) => Contains(lines, Interval(m, n))
LinerAt(s, m) ==
  /\ part = Interval(s, m) /\ buf = Interval(m, pos)
  /\ \A b \in s + 1 .. m - 1 : data[b] # "nl"
  /\ liner \in {"read", "last"} /\ s < m => data[m] # "nl"
  /\ liner = "none" => pos = 0
  /\ liner = "call" => data[m] = "nl" /\ m > s + 1
  /\ liner = "last" => s < m
  /\ liner \in {"last", "end", "gone"} => AtEnd /\ m = pos
  /\ liner \in {"end", "gone"} => s = pos
LineStartsAt(s) == s = 0 \/ data[s] = "nl" \/ (AtEnd /\ s = pos)
CallsAt(s, m) == LineStartsAt(s) /\ CalledUpTo(s) /\ LinerAt(s, m)
CallsInv ==
  /\ OnlyCalls => \E s \in 0 .. pos : \E m \in s .. pos : CallsAt(s, m)
  /\ results = <<>> /\ ~raced /\ ~closed /\ end # "error" /\ liner = "gone" => got = <<>>

ReaderInv == ReaderTypes /\ SourceInv /\ BytesInv /\ ReadsInv /\ CallsInv

-----------------------------------------------------------------------------
(* Lemmas about the data.                                                  *)

LEMMA IntervalIs ==
  ASSUME NEW m \in Nat, NEW n \in Nat, m <= n
  PROVE  /\ Interval(m, n) \in Seq(Nat)
         /\ Len(Interval(m, n)) = n - m
         /\ \A i \in 1 .. n - m : Interval(m, n)[i] = m + i
         /\ m = n => Interval(m, n) = <<>>
         /\ m < n => Interval(m, n) # <<>> /\ Last(Interval(m, n)) = n
<1>1. n - m \in Nat /\ \A i \in 1 .. n - m : m + i \in m + 1 .. n
  OBVIOUS
<1>3. Interval(m, n) \in Seq(Nat)
  BY <1>1, IsASeq DEF Interval
<1>4. DOMAIN Interval(m, n) = 1 .. n - m /\ Len(Interval(m, n)) = n - m
  BY <1>1, <1>3 DEF Interval
<1>5. \A i \in 1 .. n - m : Interval(m, n)[i] = m + i
  BY DEF Interval
<1>6. m = n => Interval(m, n) = <<>>
  BY <1>3, <1>4
<1>7. ASSUME m < n
      PROVE  Interval(m, n) # <<>> /\ Last(Interval(m, n)) = n
  <2>1. n - m \in 1 .. n - m /\ m + (n - m) = n
    BY <1>7
  <2> QED BY <1>3, <1>4, <1>5, <2>1 DEF Last
<1> QED BY <1>3, <1>4, <1>5, <1>6, <1>7

LEMMA IntervalIn ==
  ASSUME NEW m \in Nat, NEW n \in Nat, m <= n, NEW B, \A b \in m + 1 .. n : b \in B
  PROVE  Interval(m, n) \in Seq(B)
<1>1. n - m \in Nat /\ \A i \in 1 .. n - m : m + i \in m + 1 .. n
  OBVIOUS
<1> QED BY <1>1, IsASeq DEF Interval

LEMMA IntervalContains ==
  ASSUME NEW m \in Nat, NEW n \in Nat, m <= n, NEW b \in m + 1 .. n
  PROVE  Contains(Interval(m, n), b)
<1>1. b - m \in 1 .. n - m /\ m + (b - m) = b
  OBVIOUS
<1>2. Len(Interval(m, n)) = n - m /\ Interval(m, n)[b - m] = b
  BY <1>1, IntervalIs
<1> QED BY <1>1, <1>2 DEF Contains

\* Adjacent intervals.
LEMMA IntervalsJoin ==
  ASSUME NEW m \in Nat, NEW k \in Nat, NEW n \in Nat, m <= k, k <= n
  PROVE  Interval(m, k) \o Interval(k, n) = Interval(m, n)
<1> DEFINE s == Interval(m, k)
           t == Interval(k, n)
           u == Interval(m, n)
<1>1. /\ s \in Seq(Nat) /\ Len(s) = k - m /\ \A i \in 1 .. k - m : s[i] = m + i
      /\ t \in Seq(Nat) /\ Len(t) = n - k /\ \A i \in 1 .. n - k : t[i] = k + i
      /\ u \in Seq(Nat) /\ Len(u) = n - m /\ \A i \in 1 .. n - m : u[i] = m + i
  <2>1. m <= n
    OBVIOUS
  <2> QED BY ONLY <2>1, IntervalIs, m \in Nat, k \in Nat, n \in Nat, m <= k, k <= n
<1> HIDE DEF s, t, u
<1>2. (k - m) + (n - k) = n - m
  OBVIOUS
<1>3. /\ s \o t \in Seq(Nat) /\ Len(s \o t) = n - m
      /\ \A i \in 1 .. n - m : (s \o t)[i] = IF i <= k - m THEN s[i] ELSE t[i - (k - m)]
  <2>1. s \in Seq(Nat) /\ t \in Seq(Nat) /\ Len(s) + Len(t) = n - m /\ Len(s) = k - m
    BY <1>1, <1>2
  <2> QED BY ONLY <2>1, ConcatProperties
<1>4. ASSUME NEW i \in 1 .. n - m
      PROVE  (s \o t)[i] = u[i]
  <2>1. CASE i <= k - m
    BY <1>1, <1>3, <2>1
  <2>2. CASE ~(i <= k - m)
    <3>1. i - (k - m) \in 1 .. n - k /\ k + (i - (k - m)) = m + i
      BY <2>2
    <3>2. (s \o t)[i] = t[i - (k - m)]
      BY <1>3, <2>2
    <3>3. t[i - (k - m)] = k + (i - (k - m)) /\ u[i] = m + i
      BY ONLY <1>1, <3>1, i \in 1 .. n - m
    <3> QED BY <3>1, <3>2, <3>3
  <2> QED BY <2>1, <2>2
<1>5. s \o t = u
  <2>1. Len(s \o t) = Len(u) /\ \A i \in 1 .. Len(s \o t) : (s \o t)[i] = u[i]
    BY <1>1, <1>3, <1>4
  <2> QED BY ONLY <1>1, <1>3, <2>1, SeqEqual
<1> QED BY <1>5 DEF s, t, u

\* The first byte of an interval, and the others.
LEMMA IntervalSplits ==
  ASSUME NEW m \in Nat, NEW n \in Nat, m < n
  PROVE  /\ Head(Interval(m, n)) = m + 1
         /\ Tail(Interval(m, n)) = Interval(m + 1, n)
<1> DEFINE s == Interval(m, n)
           t == Interval(m + 1, n)
<1>1. /\ s \in Seq(Nat) /\ Len(s) = n - m /\ \A i \in 1 .. n - m : s[i] = m + i
      /\ t \in Seq(Nat) /\ Len(t) = n - (m + 1) /\ \A i \in 1 .. n - (m + 1) : t[i] = m + 1 + i
  <2>1. m + 1 \in Nat /\ m + 1 <= n /\ m <= n
    OBVIOUS
  <2>2. t \in Seq(Nat) /\ Len(t) = n - (m + 1) /\ \A i \in 1 .. n - (m + 1) : t[i] = m + 1 + i
    BY ONLY <2>1, IntervalIs, m \in Nat, n \in Nat
  <2>3. s \in Seq(Nat) /\ Len(s) = n - m /\ \A i \in 1 .. n - m : s[i] = m + i
    BY ONLY <2>1, IntervalIs, m \in Nat, n \in Nat
  <2> QED BY <2>2, <2>3
<1> HIDE DEF s, t
<1>2. s # <<>> /\ Head(s) = s[1] /\ 1 \in 1 .. n - m
  BY <1>1
<1>3. /\ Tail(s) \in Seq(Nat) /\ Len(Tail(s)) = n - m - 1
      /\ \A i \in 1 .. n - m - 1 : Tail(s)[i] = s[i + 1]
  BY <1>1, <1>2, HeadTailProperties
<1>4. \A i \in 1 .. n - m - 1 : i + 1 \in 1 .. n - m /\ m + (i + 1) = m + 1 + i
  OBVIOUS
<1>5. Tail(s) = t
  <2>1. n - m - 1 = n - (m + 1)
    OBVIOUS
  <2>2. Len(Tail(s)) = Len(t) /\ \A i \in 1 .. Len(Tail(s)) : Tail(s)[i] = t[i]
    BY <1>1, <1>3, <1>4, <2>1
  <2> QED BY ONLY <1>1, <1>3, <2>2, SeqEqual
<1> QED BY <1>1, <1>2, <1>5 DEF s, t

\* What a Read of the source returns: something, if something is wanted.
LEMMA GivenIs ==
  ASSUME ReaderTypes, Available > 0, NEW wanted \in Nat \ {0}, NEW n \in Given(wanted)
  PROVE  n \in 1 .. Available /\ n <= wanted
<1>1. Available \in Nat
  BY DEF ReaderTypes, TypeOK, Available
<1>2. Min({wanted, Available}) = IF wanted <= Available THEN wanted ELSE Available
  BY <1>1 DEF Min
<1> QED BY <1>1, <1>2 DEF Given

\* One Read of the source for the loop.
LEMMA TakeIs ==
  ASSUME ReaderTypes, Reading, NEW n \in Given(Wanted)
  PROVE  /\ op \in Modes /\ ~closed /\ n \in 1 .. Available /\ pos \in Nat
         /\ pos + n \in 1 .. Len(data) /\ pos + n > pos
         /\ op = "line" => n = 1
         /\ got \o Interval(pos, pos + n) \in Seq(Nat)
<1>1. Wanted \in Nat \ {0} /\ (op = "line" => Wanted = 1)
  BY DEF Reading, ReaderTypes, TypeOK, Available, Modes, Wanted
<1>2. n \in 1 .. Available /\ n <= Wanted
  BY <1>1, GivenIs DEF Reading
<1>3. pos \in Nat /\ pos + n \in 1 .. Len(data) /\ pos + n > pos
  BY <1>2 DEF ReaderTypes, TypeOK, Available
<1>4. Interval(pos, pos + n) \in Seq(Nat)
  BY <1>3, IntervalIs
<1> QED BY <1>1, <1>2, <1>3, <1>4, ConcatProperties DEF Reading, ReaderTypes

-----------------------------------------------------------------------------
(* The types of the variables.                                             *)

\* Positions in the data, which only grows.
Positions(s) == \A i \in DOMAIN s : s[i] \in DOMAIN data

LEMMA PositionsAre ==
  ASSUME ReaderTypes
  PROVE  Positions(got) /\ Positions(buf) /\ Positions(part)
BY DEF ReaderTypes, TypeOK, Positions, ToSet

LEMMA ReaderInit == Init => ReaderInv
<1> SUFFICES ASSUME Init PROVE ReaderInv
  OBVIOUS
<1> USE DEF Init
<1>1. \A S : <<>> \in Seq(S)
  BY EmptySeq
<1>2. TypeOK
  <2>1. ToSet(<<>>) = {} /\ Len(<<>>) = 0
    BY DEF ToSet
  <2>2. pos \in 0 .. Len(data)
    BY <2>1
  <2>3. got = <<>> /\ ToSet(got) \cup ToSet(buf) \cup ToSet(part) \subseteq DOMAIN data
    BY <2>1
  <2> QED BY <2>2, <2>3 DEF TypeOK, LinerStates
<1>3. ReaderTypes /\ SourceInv
  BY <1>1, <1>2 DEF ReaderTypes, SourceInv
<1>4. Pieces = {<<"got", 0, <<>>>>, <<"part", 0, <<>>>>, <<"buf", 0, <<>>>>}
  BY DEF Pieces
<1>5. BytesInv
  BY <1>1, <1>4 DEF BytesInv, Distinct, Covered
<1>6. Interval(0, 0) = <<>>
  BY IntervalIs
<1>7. ReadsInv
  BY <1>6 DEF ReadsInv, ReadingFrom, LineStarts
<1>8. CallsAt(0, 0)
  BY <1>6 DEF CallsAt, LineStartsAt, CalledUpTo, LinerAt, TextLine, Line
<1>9. CallsInv
  BY <1>8 DEF CallsInv
<1> QED BY <1>3, <1>5, <1>7, <1>9 DEF ReaderInv

LEMMA ToSetIn ==
  ASSUME NEW s, NEW D, \A i \in DOMAIN s : s[i] \in D
  PROVE  ToSet(s) \subseteq D
BY DEF ToSet

\* A read that returns.
LEMMA ResultIs ==
  ASSUME ReaderTypes, op \in Modes, NEW bytes \in Seq(Nat), NEW why \in {"bytes", "nil", "error"},
         Result(bytes, why)
  PROVE  /\ results' \in Seq(ResultSet)
         /\ Len(results') = Len(results) + 1
         /\ \A r \in DOMAIN results : results'[r] = results[r]
         /\ results'[Len(results) + 1] = [mode |-> op, bytes |-> bytes, why |-> why]
         /\ op' = "none" /\ size' = 0 /\ got' = <<>>
<1>1. [mode |-> op, bytes |-> bytes, why |-> why] \in ResultSet /\ results \in Seq(ResultSet)
  BY DEF ResultSet, ReaderTypes
<1>2. results' = Append(results, [mode |-> op, bytes |-> bytes, why |-> why])
  BY DEF Result
<1>3. op' = "none" /\ size' = 0 /\ got' = <<>>
  BY DEF Result
<1> HIDE DEF ResultSet
<1> QED BY <1>1, <1>2, <1>3

\* What one Read of the source gives is returned, or the read goes on.
LEMMA TakesIs ==
  ASSUME ReaderTypes, Reading, NEW n \in Given(Wanted), Takes(n)
  PROVE  LET new == got \o Interval(pos, pos + n)
         IN /\ new \in Seq(Nat)
            /\ \/ /\ op = "size" \/ (op = "line" /\ data[pos + n] = "nl")
                  /\ Result(new, "bytes")
               \/ /\ op = "all" \/ (op = "line" /\ data[pos + n] # "nl")
                  /\ got' = new /\ UNCHANGED <<op, size, results>>
BY TakeIs DEF Takes, Reading, Modes

\* A state with the types, from those of the variables that actions change together.
LEMMA TypesFrom ==
  ASSUME source' \in {"none", "string", "body"}, end' \in {"open", "eof", "error"},
         closed' \in BOOLEAN, raced' \in BOOLEAN, liner' \in LinerStates,
         pos' \in 0 .. Len(data'), data' \in Seq(Bytes),
         op' \in Modes \cup {"none", "http", "crashed"},
         got' # <<>> => op' \in {"all", "line", "crashed"},
         op' = "size" => size' \in Nat \ {0},
         got' \in Seq(Nat), buf' \in Seq(Nat), part' \in Seq(Nat),
         Positions(got)', Positions(buf)', Positions(part)',
         results' \in Seq(ResultSet), lines' \in Seq(Seq(Nat))
  PROVE  ReaderTypes'
<1>1. ToSet(got') \cup ToSet(buf') \cup ToSet(part') \subseteq DOMAIN data'
  BY ToSetIn DEF Positions
<1> QED BY <1>1 DEF ReaderTypes, TypeOK

\* The types of what actions leave alone.
LEMMA TypesAre ==
  ASSUME ReaderTypes
  PROVE  /\ source \in {"none", "string", "body"} /\ end \in {"open", "eof", "error"}
         /\ closed \in BOOLEAN /\ raced \in BOOLEAN /\ liner \in LinerStates
         /\ pos \in 0 .. Len(data) /\ data \in Seq(Bytes)
         /\ op \in Modes \cup {"none", "http", "crashed"}
         /\ got # <<>> => op \in {"all", "line", "crashed"}
         /\ op = "size" => size \in Nat \ {0}
         /\ got \in Seq(Nat) /\ buf \in Seq(Nat) /\ part \in Seq(Nat)
         /\ Positions(got) /\ Positions(buf) /\ Positions(part)
         /\ results \in Seq(ResultSet) /\ lines \in Seq(Seq(Nat))
BY PositionsAre DEF ReaderTypes, TypeOK

\* Where a reader comes from, and its source.
LEMMA SourceTypes ==
  ASSUME ReaderTypes, SourceInv,
         \/ \E n \in 0 .. MaxBytes : \E s \in [1 .. n -> Bytes] : FromString(s)
         \/ HttpDo \/ \E ok \in BOOLEAN : HttpResponse(ok)
         \/ \E b \in Bytes : Arrive(b)
         \/ \E how \in {"eof", "error"} : BodyEnds(how)
         \/ \E n \in Sizes : Read("size", n)
         \/ \E mode \in {"all", "line"} : Read(mode, 0)
         \/ Close \/ WithLineCallback
  PROVE  ReaderTypes' /\ SourceInv'
<1> USE ReaderAssumption
<1>1. ASSUME NEW n \in 0 .. MaxBytes, NEW s \in [1 .. n -> Bytes], FromString(s)
      PROVE  ReaderTypes' /\ SourceInv'
  <2>1. s \in Seq(Bytes) /\ n \in Nat
    OBVIOUS
  <2>2. 0 \in 0 .. Len(s)
    BY <2>1
  <2>3. /\ source' = "string" /\ data' = s /\ end' = "eof" /\ source = "none" /\ op = "none"
        /\ UNCHANGED <<closed, pos, op, size, got, liner, buf, part, lines, results, raced>>
    BY <1>1 DEF FromString, readVars, lineVars
  <2>4. pos = 0 /\ got = <<>> /\ buf = <<>> /\ part = <<>>
    BY <2>3 DEF SourceInv
  <2>5. Positions(got)' /\ Positions(buf)' /\ Positions(part)'
    BY <2>3, <2>4 DEF Positions
  <2>6. ReaderTypes'
    BY <2>1, <2>2, <2>3, <2>4, <2>5, TypesAre, TypesFrom
  <2> QED BY <2>3, <2>6 DEF SourceInv
<1>2. ASSUME NEW b \in Bytes, Arrive(b)
      PROVE  ReaderTypes' /\ SourceInv'
  <2>1. /\ data' = Append(data, b) /\ source = "body"
        /\ UNCHANGED <<source, end, closed, pos, op, size, got, liner, buf, part, lines, results, raced>>
    BY <1>2 DEF Arrive, readVars, lineVars
  <2>2. data \in Seq(Bytes) /\ pos \in 0 .. Len(data)
    BY TypesAre
  <2>3. data' \in Seq(Bytes) /\ pos \in 0 .. Len(data') /\ \A i \in DOMAIN data : i \in DOMAIN data'
    BY <2>1, <2>2
  <2>4. Positions(got)' /\ Positions(buf)' /\ Positions(part)'
    BY <2>1, <2>3, TypesAre DEF Positions
  <2>5. ReaderTypes'
    BY <2>1, <2>3, <2>4, TypesAre, TypesFrom
  <2> QED BY <2>1, <2>5 DEF SourceInv
<1>3. CASE HttpDo \/ \E ok \in BOOLEAN : HttpResponse(ok)
  <2>1. /\ source' \in {"none", "string", "body"} /\ op' \in {"none", "http"} /\ source = "none"
        /\ op' = "http" => source' = "none"
        /\ UNCHANGED <<data, end, closed, pos, size, got, liner, buf, part, lines, results, raced>>
    BY <1>3 DEF HttpDo, HttpResponse, sourceVars, lineVars, SourceInv
  <2>2. Positions(got)' /\ Positions(buf)' /\ Positions(part)' /\ got = <<>>
    BY <2>1, TypesAre DEF Positions, SourceInv
  <2>3. ReaderTypes'
    BY <2>1, <2>2, TypesAre, TypesFrom
  <2> QED BY <2>1, <2>3 DEF SourceInv
<1>4. CASE (\E how \in {"eof", "error"} : BodyEnds(how)) \/ Close \/ WithLineCallback
  <2>1. /\ end' \in {"open", "eof", "error"} /\ closed' \in BOOLEAN /\ liner' \in LinerStates
        /\ source # "none"
        /\ UNCHANGED <<source, data, pos, op, size, got, buf, part, lines, results, raced>>
    BY <1>4, TypesAre DEF BodyEnds, Close, WithLineCallback, Idle, sourceVars, readVars, lineVars, LinerStates
  <2>2. Positions(got)' /\ Positions(buf)' /\ Positions(part)'
    BY <2>1, TypesAre DEF Positions
  <2>3. ReaderTypes'
    BY <2>1, <2>2, TypesAre, TypesFrom
  <2> QED BY <2>1, <2>3 DEF SourceInv
<1>5. CASE (\E n \in Sizes : Read("size", n)) \/ \E mode \in {"all", "line"} : Read(mode, 0)
  <2>1. /\ op' \in Modes /\ (op' = "size" => size' \in Nat \ {0}) /\ source # "none" /\ op = "none"
        /\ UNCHANGED <<source, data, end, closed, pos, got, liner, buf, part, lines, results, raced>>
    BY <1>5 DEF Read, Idle, sourceVars, lineVars, Modes
  <2>2. Positions(got)' /\ Positions(buf)' /\ Positions(part)' /\ got' = <<>>
    BY <2>1, TypesAre DEF Positions
  <2>3. ReaderTypes'
    BY <2>1, <2>2, TypesAre, TypesFrom
  <2> QED BY <2>1, <2>3 DEF SourceInv, Modes
<1> QED BY <1>1, <1>2, <1>3, <1>4, <1>5

\* The buffer of the goroutine is filled from the source.
LEMMA FilledIs ==
  ASSUME ReaderTypes, NEW k \in Nat, pos <= k, k <= Len(data)
  PROVE  Interval(pos, k) \in Seq(Nat) /\ \A i \in DOMAIN Interval(pos, k) : Interval(pos, k)[i] \in DOMAIN data
<1> DEFINE new == Interval(pos, k)
<1>1. data \in Seq(Bytes) /\ pos \in Nat
  BY TypesAre
<1>2. new \in Seq(Nat) /\ Len(new) = k - pos /\ \A i \in 1 .. k - pos : new[i] = pos + i
  BY <1>1, IntervalIs
<1>3. \A i \in 1 .. k - pos : pos + i \in 1 .. Len(data)
  BY <1>1
<1> HIDE DEF new
<1>4. new \in Seq(Nat) /\ \A i \in DOMAIN new : new[i] \in DOMAIN data
  BY <1>1, <1>2, <1>3
<1> QED BY <1>4 DEF new

\* What a Read of the source adds to what was read before are positions in the data.
LEMMA NewPositions ==
  ASSUME ReaderTypes, Reading, NEW n \in Given(Wanted)
  PROVE  \A i \in DOMAIN (got \o Interval(pos, pos + n)) :
           (got \o Interval(pos, pos + n))[i] \in DOMAIN data
<1> DEFINE new == Interval(pos, pos + n)
<1>1. data \in Seq(Bytes) /\ pos \in Nat /\ pos + n \in 1 .. Len(data) /\ pos <= pos + n /\ pos + n \in Nat
  BY TakeIs, TypesAre
<1>2. new \in Seq(Nat) /\ \A i \in DOMAIN new : new[i] \in DOMAIN data
  <2>1. pos + n <= Len(data)
    BY <1>1
  <2> QED BY <1>1, <2>1, FilledIs
<1>3. got \in Seq(Nat) /\ \A i \in DOMAIN got : got[i] \in DOMAIN data
  BY TypesAre DEF Positions
<1> HIDE DEF new
<1>4. /\ got \o new \in Seq(Nat) /\ Len(got \o new) = Len(got) + Len(new)
      /\ \A i \in 1 .. Len(got) + Len(new) :
           (got \o new)[i] = IF i <= Len(got) THEN got[i] ELSE new[i - Len(got)]
  BY ONLY <1>2, <1>3, ConcatProperties
<1>5. ASSUME NEW i \in 1 .. Len(got) + Len(new)
      PROVE  (got \o new)[i] \in DOMAIN data
  <2>1. CASE i <= Len(got)
    <3>1. i \in DOMAIN got
      BY <1>3, <2>1
    <3> QED BY <1>3, <1>4, <2>1, <3>1
  <2>2. CASE ~(i <= Len(got))
    <3>1. i - Len(got) \in DOMAIN new
      BY <1>2, <1>3, <2>2
    <3> QED BY <1>2, <1>4, <2>2, <3>1
  <2> QED BY <2>1, <2>2
<1>6. DOMAIN (got \o new) = 1 .. Len(got) + Len(new)
  BY <1>4
<1> QED BY <1>5, <1>6 DEF new

\* Reads on the loop.
LEMMA ReadTypes ==
  ASSUME ReaderTypes, SourceInv, Take \/ TakeEnd
  PROVE  ReaderTypes' /\ SourceInv'
<1>1. /\ UNCHANGED <<source, data, end, closed, liner, buf, part, lines, raced>> /\ op \in Modes
      /\ source # "none"
  BY DEF Take, TakeEnd, Reading, sourceVars, lineVars, SourceInv, Modes
<1>2. Positions(buf)' /\ Positions(part)'
  BY <1>1, TypesAre DEF Positions
<1>3. CASE Take
  <2>1. PICK n \in Given(Wanted) : Takes(n) /\ pos' = pos + n
    BY <1>3 DEF Take
  <2>2. Reading
    BY <1>3 DEF Take
  <2>3. pos' \in 0 .. Len(data') /\ n \in Nat /\ pos \in Nat
    BY <1>1, <2>1, <2>2, TakeIs, TypesAre DEF Available
  <2> DEFINE new == got \o Interval(pos, pos + n)
  <2>4. \A i \in DOMAIN new : new[i] \in DOMAIN data
    BY <2>2, NewPositions
  <2>5. /\ new \in Seq(Nat)
        /\ \/ Result(new, "bytes")
           \/ /\ op \in {"all", "line"} /\ got' = new /\ UNCHANGED <<op, size, results>>
    BY <2>1, <2>2, TakesIs
  <2> HIDE DEF new
  <2>6. /\ results' \in Seq(ResultSet) /\ got' \in Seq(Nat) /\ op' \in Modes \cup {"none"}
        /\ got' # <<>> => op' \in {"all", "line"}
        /\ op' = "size" => size' \in Nat \ {0}
        /\ \A i \in DOMAIN got' : got'[i] \in DOMAIN data
    <3>1. CASE Result(new, "bytes")
      <4>1. results' \in Seq(ResultSet) /\ op' = "none" /\ got' = <<>>
        BY <1>1, <2>5, <3>1, ResultIs
      <4> QED BY <4>1
    <3>2. CASE op \in {"all", "line"} /\ got' = new /\ UNCHANGED <<op, size, results>>
      BY <1>1, <2>4, <2>5, <3>2, TypesAre
    <3> QED BY <2>5, <3>1, <3>2
  <2>7. ReaderTypes'
    BY <1>1, <1>2, <2>3, <2>6, TypesAre, TypesFrom DEF Positions
  <2> QED BY <1>1, <2>6, <2>7 DEF SourceInv, Modes
<1>4. CASE TakeEnd
  <2>1. PICK why \in {"bytes", "nil", "error"} : Result(got, why)
    BY <1>4 DEF TakeEnd
  <2>2. pos' = pos /\ got \in Seq(Nat)
    BY <1>4, TypesAre DEF TakeEnd
  <2>3. results' \in Seq(ResultSet) /\ op' = "none" /\ got' = <<>>
    BY <1>1, <2>1, <2>2, ResultIs
  <2>4. ReaderTypes'
    BY <1>1, <1>2, <2>2, <2>3, TypesAre, TypesFrom DEF Positions
  <2> QED BY <1>1, <2>3, <2>4 DEF SourceInv
<1> QED BY <1>3, <1>4

\* The goroutine of with_line_callback.
LEMMA LinerTypes ==
  ASSUME ReaderTypes, SourceInv, Fill \/ Scan \/ LinerEnds \/ Callback
  PROVE  ReaderTypes' /\ SourceInv'
<1>1. /\ UNCHANGED <<source, data, end, closed, op, size, got, results, raced>> /\ source # "none"
  BY DEF Fill, Filling, Scan, LinerEnds, Callback, sourceVars, readVars, SourceInv
<1>2. Positions(got)'
  BY <1>1, TypesAre DEF Positions
<1>3. CASE Fill
  <2>1. PICK n \in Given(Available) : buf' = Interval(pos, pos + n) /\ pos' = pos + n
    BY <1>3 DEF Fill
  <2>2. Available \in Nat \ {0} /\ Available = Len(data) - pos /\ pos \in Nat /\ Len(data) \in Nat
    BY <1>3, TypesAre DEF Fill, Filling, Available
  <2>3. n \in 1 .. Available
    BY <2>2, GivenIs
  <2>4. pos + n \in Nat /\ pos <= pos + n /\ pos + n <= Len(data)
    BY <2>2, <2>3
  <2>5. buf' \in Seq(Nat) /\ \A i \in DOMAIN buf' : buf'[i] \in DOMAIN data
    BY <2>1, <2>4, FilledIs
  <2>6. UNCHANGED <<liner, part, lines>> /\ pos' \in 0 .. Len(data')
    BY <1>1, <1>3, <2>1, <2>4 DEF Fill
  <2>7. ReaderTypes'
    BY <1>1, <1>2, <2>5, <2>6, TypesAre, TypesFrom DEF Positions
  <2> QED BY <1>1, <2>7 DEF SourceInv
<1>4. CASE Scan
  <2>1. /\ buf # <<>> /\ buf' = Tail(buf) /\ UNCHANGED <<pos, lines>>
        /\ part' \in {part, <<>>, Append(part, Head(buf))} /\ liner' \in LinerStates
    BY <1>4, TypesAre DEF Scan, LinerStates
  <2>2. buf \in Seq(Nat) /\ part \in Seq(Nat) /\ Positions(buf) /\ Positions(part)
    BY TypesAre
  <2>3. /\ Head(buf) \in Nat /\ Head(buf) = buf[1] /\ Head(buf) \in DOMAIN data
        /\ buf' \in Seq(Nat) /\ \A i \in DOMAIN buf' : buf'[i] = buf[i + 1] /\ i + 1 \in DOMAIN buf
    <3>1. 1 \in DOMAIN buf /\ Head(buf) = buf[1]
      BY <2>1, <2>2
    <3>2. /\ buf' \in Seq(Nat) /\ Len(buf') = Len(buf) - 1
          /\ \A i \in 1 .. Len(buf') : buf'[i] = buf[i + 1]
      BY ONLY <2>1, <2>2, HeadTailProperties
    <3>3. \A i \in DOMAIN buf' : buf'[i] = buf[i + 1] /\ i + 1 \in DOMAIN buf
      BY <2>2, <3>2
    <3>4. buf[1] \in Nat /\ buf[1] \in DOMAIN data
      BY <2>2, <3>1 DEF Positions
    <3> QED BY <3>1, <3>2, <3>3, <3>4
  <2>4. part' \in Seq(Nat) /\ \A i \in DOMAIN part' : part'[i] \in DOMAIN data
    <3>1. Append(part, Head(buf)) \in Seq(Nat)
           /\ \A i \in DOMAIN Append(part, Head(buf)) : Append(part, Head(buf))[i] \in DOMAIN data
      <4> DEFINE byte == Head(buf)
      <4> HIDE DEF byte
      <4>1. /\ Append(part, byte) \in Seq(Nat) /\ Len(Append(part, byte)) = Len(part) + 1
            /\ \A i \in 1 .. Len(part) : Append(part, byte)[i] = part[i]
            /\ Append(part, byte)[Len(part) + 1] = byte
        BY <2>2, <2>3, AppendProperties DEF byte
      <4>2. byte \in DOMAIN data /\ \A i \in 1 .. Len(part) : part[i] \in DOMAIN data
        BY <2>2, <2>3 DEF Positions, byte
      <4>3. DOMAIN Append(part, byte) = 1 .. Len(part) + 1 /\ Len(part) \in Nat
        BY <2>2, <4>1
      <4>4. \A i \in 1 .. Len(part) + 1 : i = Len(part) + 1 \/ i \in 1 .. Len(part)
        BY <4>3
      <4> QED BY <4>1, <4>2, <4>3, <4>4 DEF byte
    <3>2. CASE part' = part
      BY <2>2, <3>2 DEF Positions
    <3>3. CASE part' = <<>>
      BY <3>3
    <3>4. CASE part' = Append(part, Head(buf))
      BY <3>1, <3>4
    <3> QED BY <2>1, <3>2, <3>3, <3>4
  <2>5. \A i \in DOMAIN buf' : buf'[i] \in DOMAIN data
    BY <2>2, <2>3 DEF Positions
  <2>6. ReaderTypes'
    BY <1>1, <1>2, <2>1, <2>3, <2>4, <2>5, TypesAre, TypesFrom DEF Positions
  <2> QED BY <1>1, <2>6 DEF SourceInv
<1>5. CASE LinerEnds \/ Callback
  <2>1. /\ liner' \in LinerStates /\ UNCHANGED <<pos, buf>>
        /\ part' = part \/ part' = <<>>
        /\ lines' = lines \/ lines' = Append(lines, part)
    BY <1>5 DEF LinerEnds, Callback, LinerStates
  <2>2. part' \in Seq(Nat) /\ lines' \in Seq(Seq(Nat))
    <3>1. part \in Seq(Nat) /\ lines \in Seq(Seq(Nat))
      BY TypesAre
    <3>2. Append(lines, part) \in Seq(Seq(Nat))
      BY <3>1, AppendProperties
    <3>3. lines' \in Seq(Seq(Nat))
      BY <2>1, <3>1, <3>2
    <3>4. part' \in Seq(Nat)
      <4>1. <<>> \in Seq(Nat)
        BY EmptySeq
      <4> QED BY <2>1, <3>1, <4>1
    <3> QED BY <3>3, <3>4
  <2>3. Positions(buf)' /\ Positions(part)'
    BY <1>1, <2>1, TypesAre DEF Positions
  <2>4. ReaderTypes'
    BY <1>1, <1>2, <2>1, <2>2, <2>3, TypesAre, TypesFrom DEF Positions
  <2> QED BY <1>1, <2>4 DEF SourceInv
<1> QED BY <1>3, <1>4, <1>5

\* Two reads of a string at once.
LEMMA RacingTypes ==
  ASSUME ReaderTypes, SourceInv, RacingReads
  PROVE  ReaderTypes' /\ SourceInv'
<1>1. /\ UNCHANGED <<source, data, end, closed, part, lines>> /\ source = "string" /\ raced' = TRUE
      /\ Reading /\ op \in Modes
  BY DEF RacingReads, sourceVars, Reading
<1>2. Positions(part)' /\ Positions(buf)
  BY <1>1, TypesAre DEF Positions
<1>3. /\ Len(data) \in Nat /\ pos \in Nat /\ pos <= Len(data)
      /\ Interval(pos, Len(data)) \in Seq(Nat)
      /\ \A i \in DOMAIN Interval(pos, Len(data)) : Interval(pos, Len(data))[i] \in DOMAIN data
  <2>1. Len(data) \in Nat /\ pos \in Nat /\ pos <= Len(data)
    BY TypesAre
  <2> QED BY <2>1, FilledIs
<1>4. CASE /\ \E n \in Given(Wanted) : Takes(n) /\ pos' \in {pos + n, Len(data)}
           /\ buf' = Interval(pos, Len(data))
           /\ UNCHANGED liner
  <2>1. PICK n \in Given(Wanted) : Takes(n) /\ pos' \in {pos + n, Len(data)}
    BY <1>4
  <2>2. pos' \in 0 .. Len(data')
    BY <1>1, <1>3, <2>1, TakeIs
  <2> DEFINE new == got \o Interval(pos, pos + n)
  <2>3. \A i \in DOMAIN new : new[i] \in DOMAIN data
    BY <1>1, NewPositions
  <2>4. /\ new \in Seq(Nat)
        /\ \/ Result(new, "bytes")
           \/ /\ op \in {"all", "line"} /\ got' = new /\ UNCHANGED <<op, size, results>>
    BY <1>1, <2>1, TakesIs
  <2> HIDE DEF new
  <2>5. /\ results' \in Seq(ResultSet) /\ got' \in Seq(Nat) /\ op' \in Modes \cup {"none"}
        /\ got' # <<>> => op' \in {"all", "line"}
        /\ op' = "size" => size' \in Nat \ {0}
        /\ \A i \in DOMAIN got' : got'[i] \in DOMAIN data
    <3>1. CASE Result(new, "bytes")
      <4>1. results' \in Seq(ResultSet) /\ op' = "none" /\ got' = <<>>
        BY <1>1, <2>4, <3>1, ResultIs
      <4> QED BY <4>1
    <3>2. CASE op \in {"all", "line"} /\ got' = new /\ UNCHANGED <<op, size, results>>
      BY <1>1, <2>3, <2>4, <3>2, TypesAre
    <3> QED BY <2>4, <3>1, <3>2
  <2>6. ReaderTypes'
    BY <1>1, <1>2, <1>3, <1>4, <2>2, <2>5, TypesAre, TypesFrom DEF Positions
  <2> QED BY <1>1, <2>5, <2>6 DEF SourceInv, Modes
<1>5. CASE /\ Result(got, "error")
           /\ buf' = Interval(pos, Len(data))
           /\ pos' = Len(data)
           /\ UNCHANGED liner
  <2>1. results' \in Seq(ResultSet) /\ op' = "none" /\ got' = <<>>
    BY <1>1, <1>5, TypesAre, ResultIs
  <2>2. pos' \in 0 .. Len(data')
    BY <1>1, <1>3, <1>5
  <2>3. ReaderTypes'
    BY <1>1, <1>2, <1>3, <1>5, <2>1, <2>2, TypesAre, TypesFrom DEF Positions
  <2> QED BY <1>1, <2>1, <2>3 DEF SourceInv
<1>6. CASE /\ op' = "crashed"
           /\ liner' = "gone"
           /\ UNCHANGED <<pos, size, got, buf, results>>
  <2>1. Positions(got)' /\ Positions(buf)'
    BY <1>1, <1>6, TypesAre DEF Positions
  <2>2. ReaderTypes'
    BY <1>1, <1>2, <1>6, <2>1, TypesAre, TypesFrom DEF LinerStates
  <2> QED BY <1>1, <1>6, <2>2 DEF SourceInv
<1> QED BY <1>4, <1>5, <1>6 DEF RacingReads

-----------------------------------------------------------------------------
(* Lemmas about pieces: what happens to the bytes of a list that becomes   *)
(* part of another one.                                                    *)

\* A piece gets another name.
LEMMA PieceRenamed ==
  ASSUME NEW P, NEW p, NEW x, p \notin P, x[3] = p[3], Distinct(P \cup {p})
  PROVE  Distinct(P \cup {x})
BY DEF Distinct

\* An empty piece.
LEMMA PieceEmpty ==
  ASSUME NEW P, NEW x, x[3] = <<>>, Distinct(P)
  PROVE  Distinct(P \cup {x})
BY DEF Distinct

\* Bytes that were not there before.
LEMMA PieceFresh ==
  ASSUME NEW m \in Nat, NEW n \in Nat, m <= n,
         NEW P, \A p \in P : p[3] \in Seq(1 .. m), Distinct(P),
         NEW x, x[3] = Interval(m, n)
  PROVE  Distinct(P \cup {x})
<1>1. DOMAIN x[3] = 1 .. n - m /\ \A j \in 1 .. n - m : x[3][j] = m + j
  BY IntervalIs
<1>2. \A p \in P : \A i \in DOMAIN p[3], j \in DOMAIN x[3] : p[3][i] # x[3][j]
  <2> SUFFICES ASSUME NEW p \in P, NEW i \in DOMAIN p[3], NEW j \in 1 .. n - m
               PROVE  p[3][i] # m + j
    BY <1>1
  <2>1. p[3][i] \in 1 .. m
    OBVIOUS
  <2> QED BY <2>1
<1>3. \A i, j \in DOMAIN x[3] : x[3][i] = x[3][j] => i = j
  BY <1>1
<1> QED BY <1>2, <1>3 DEF Distinct

\* Two pieces that become one.
LEMMA PiecesJoined ==
  ASSUME NEW P, NEW p, NEW q, NEW x, p \notin P, q \notin P, p # q,
         p[3] \in Seq(Nat), q[3] \in Seq(Nat), x[3] = p[3] \o q[3], Distinct(P \cup {p, q})
  PROVE  Distinct(P \cup {x})
<1> DEFINE s == p[3]
           t == q[3]
           u == x[3]
<1>1. /\ u \in Seq(Nat) /\ DOMAIN u = 1 .. Len(s) + Len(t)
      /\ \A j \in 1 .. Len(s) + Len(t) : u[j] = IF j <= Len(s) THEN s[j] ELSE t[j - Len(s)]
      /\ DOMAIN s = 1 .. Len(s) /\ DOMAIN t = 1 .. Len(t) /\ Len(s) \in Nat /\ Len(t) \in Nat
  <2>1. /\ s \o t \in Seq(Nat)
        /\ Len(s \o t) = Len(s) + Len(t)
        /\ \A j \in 1 .. Len(s) + Len(t) : (s \o t)[j] = IF j <= Len(s) THEN s[j] ELSE t[j - Len(s)]
    BY ConcatProperties
  <2>2. u = s \o t /\ s \in Seq(Nat) /\ t \in Seq(Nat)
    OBVIOUS
  <2> HIDE DEF s, t, u
  <2> QED BY <2>1, <2>2
<1> HIDE DEF s, t, u
<1>2. ASSUME NEW j \in DOMAIN u
      PROVE  \/ j \in DOMAIN s /\ u[j] = s[j]
             \/ j - Len(s) \in DOMAIN t /\ u[j] = t[j - Len(s)]
  <2>1. CASE j <= Len(s)
    BY <1>1, <2>1
  <2>2. CASE ~(j <= Len(s))
    <3>1. j - Len(s) \in DOMAIN t
      BY <1>1, <2>2
    <3> QED BY <1>1, <2>2, <3>1
  <2> QED BY <2>1, <2>2
<1>3. /\ \A a \in P : \A i \in DOMAIN a[3], j \in DOMAIN s : a[3][i] # s[j]
      /\ \A a \in P : \A i \in DOMAIN a[3], j \in DOMAIN t : a[3][i] # t[j]
      /\ \A i \in DOMAIN s, j \in DOMAIN t : s[i] # t[j]
      /\ \A i, j \in DOMAIN s : s[i] = s[j] => i = j
      /\ \A i, j \in DOMAIN t : t[i] = t[j] => i = j
  BY DEF Distinct, s, t
<1>4. \A a \in P : \A i \in DOMAIN a[3], j \in DOMAIN u : a[3][i] # u[j]
  BY <1>2, <1>3
<1>5. ASSUME NEW i \in DOMAIN u, NEW j \in DOMAIN u, u[i] = u[j]
      PROVE  i = j
  <2>1. i \in Nat /\ j \in Nat
    BY <1>1
  <2>2. i - Len(s) = j - Len(s) => i = j
    BY <1>1, <2>1
  <2> QED BY <1>2, <1>3, <1>5, <2>2
<1>6. \A a, b \in P : \A i \in DOMAIN a[3], j \in DOMAIN b[3] : a[3][i] = b[3][j] => a = b /\ i = j
  BY DEF Distinct
<1>7. /\ \A a \in P : \A i \in DOMAIN a[3], j \in DOMAIN x[3] : a[3][i] # x[3][j]
      /\ \A i, j \in DOMAIN x[3] : x[3][i] = x[3][j] => i = j
  BY <1>4, <1>5 DEF u
<1> SUFFICES ASSUME NEW a \in P \cup {x}, NEW b \in P \cup {x}, NEW i \in DOMAIN a[3], NEW j \in DOMAIN b[3],
                    a[3][i] = b[3][j]
             PROVE  a = b /\ i = j
  BY DEF Distinct
<1>8. CASE a \in P /\ b \in P
  BY <1>6, <1>8
<1>9. CASE a = x \/ b = x
  BY <1>7, <1>9
<1> QED BY <1>8, <1>9

\* The first byte of a piece is taken from it.
LEMMA PieceSplit ==
  ASSUME NEW P, NEW x, NEW h, NEW t, x \notin P, x[3] \in Seq(Nat), x[3] # <<>>,
         h[3] = <<Head(x[3])>>, t[3] = Tail(x[3]), Distinct(P \cup {x})
  PROVE  Distinct(P \cup {h, t})
<1> DEFINE u == x[3]
           v == t[3]
<1>1. u \in Seq(Nat) /\ u # <<>> /\ h[3] = <<u[1]>> /\ 1 \in DOMAIN u
  OBVIOUS
<1>2. v \in Seq(Nat) /\ Len(v) = Len(u) - 1 /\ \A i \in 1 .. Len(v) : v[i] = u[i + 1]
  BY <1>1, HeadTailProperties
<1>3. \A i \in DOMAIN v : i \in Nat /\ i + 1 \in DOMAIN u /\ i + 1 # 1 /\ v[i] = u[i + 1]
  <2> HIDE DEF u, v
  <2>1. DOMAIN v = 1 .. Len(v) /\ DOMAIN u = 1 .. Len(u) /\ Len(u) \in Nat
    BY <1>1, <1>2
  <2>2. \A i \in 1 .. Len(v) : i \in Nat /\ i + 1 \in 1 .. Len(u) /\ i + 1 # 1
    BY <1>2, <2>1
  <2> QED BY <1>2, <2>1, <2>2
<1>4. DOMAIN h[3] = {1} /\ h[3][1] = u[1]
  BY <1>1
<1> HIDE DEF u, v
<1>5. /\ \A a \in P : \A i \in DOMAIN a[3], j \in DOMAIN u : a[3][i] # u[j]
      /\ \A i, j \in DOMAIN u : u[i] = u[j] => i = j
  BY DEF Distinct, u
<1>6. /\ \A a \in P : \A i \in DOMAIN a[3], j \in DOMAIN v : a[3][i] # v[j]
      /\ \A a \in P : \A i \in DOMAIN a[3] : a[3][i] # u[1]
      /\ \A j \in DOMAIN v : v[j] # u[1]
  BY <1>1, <1>3, <1>5
<1>7. ASSUME NEW i \in DOMAIN v, NEW j \in DOMAIN v, v[i] = v[j]
      PROVE  i = j
  <2>1. i + 1 = j + 1
    BY <1>3, <1>5, <1>7
  <2> QED BY <1>3, <2>1
<1>8. \A a, b \in P : \A i \in DOMAIN a[3], j \in DOMAIN b[3] : a[3][i] = b[3][j] => a = b /\ i = j
  BY DEF Distinct
<1>9. /\ \A a \in P : \A i \in DOMAIN a[3], j \in DOMAIN t[3] : a[3][i] # t[3][j]
      /\ \A a \in P : \A i \in DOMAIN a[3], j \in DOMAIN h[3] : a[3][i] # h[3][j]
      /\ \A i \in DOMAIN t[3], j \in DOMAIN h[3] : t[3][i] # h[3][j]
      /\ \A i, j \in DOMAIN t[3] : t[3][i] = t[3][j] => i = j
      /\ \A i, j \in DOMAIN h[3] : i = j
  BY <1>4, <1>6, <1>7 DEF v
<1> SUFFICES ASSUME NEW a \in P \cup {h, t}, NEW b \in P \cup {h, t},
                    NEW i \in DOMAIN a[3], NEW j \in DOMAIN b[3], a[3][i] = b[3][j]
             PROVE  a = b /\ i = j
  BY DEF Distinct
<1>10. CASE a \in P /\ b \in P
  BY <1>8, <1>10
<1>11. ASSUME NEW c \in P, NEW d \in {h, t}, NEW k \in DOMAIN c[3], NEW l \in DOMAIN d[3]
       PROVE  c[3][k] # d[3][l]
  <2>1. CASE d = h
    BY ONLY <1>9, <1>11, <2>1
  <2>2. CASE d = t
    BY ONLY <1>9, <1>11, <2>2
  <2> QED BY <2>1, <2>2
<1>12. CASE a \in {h, t} /\ b \in {h, t}
  BY <1>9, <1>12
<1> QED BY <1>10, <1>11, <1>12

\* What is in one of two lists is in the list they make.
LEMMA ConcatContains ==
  ASSUME NEW S, NEW s \in Seq(S), NEW t \in Seq(S), NEW b, Contains(s, b) \/ Contains(t, b)
  PROVE  Contains(s \o t, b)
<1>1. /\ Len(s \o t) = Len(s) + Len(t)
      /\ \A j \in 1 .. Len(s) + Len(t) : (s \o t)[j] = IF j <= Len(s) THEN s[j] ELSE t[j - Len(s)]
      /\ Len(s) \in Nat /\ Len(t) \in Nat
  BY ConcatProperties
<1>2. CASE Contains(s, b)
  <2>1. PICK i \in 1 .. Len(s) : s[i] = b
    BY <1>2 DEF Contains
  <2>2. i \in 1 .. Len(s) + Len(t) /\ (s \o t)[i] = b
    BY <1>1, <2>1
  <2> QED BY <1>1, <2>2 DEF Contains
<1>3. CASE Contains(t, b)
  <2>1. PICK i \in 1 .. Len(t) : t[i] = b
    BY <1>3 DEF Contains
  <2>2. i + Len(s) \in 1 .. Len(s) + Len(t) /\ ~(i + Len(s) <= Len(s)) /\ i + Len(s) - Len(s) = i
    BY <1>1, <2>1
  <2>3. (s \o t)[i + Len(s)] = b
    BY <1>1, <2>1, <2>2
  <2> QED BY <1>1, <2>2, <2>3 DEF Contains
<1> QED BY <1>2, <1>3

-----------------------------------------------------------------------------
(* Every byte is in one place.                                             *)

ResultPieces == {<<"result", r, results[r].bytes>> : r \in DOMAIN results}
LinePieces == {<<"line", l, lines[l]>> : l \in DOMAIN lines}

LEMMA PiecesAre ==
  ASSUME ReaderTypes
  PROVE  /\ Pieces = ResultPieces \cup LinePieces \cup
                       {<<"got", 0, got>>, <<"part", 0, part>>, <<"buf", 0, buf>>}
         /\ \A p \in Pieces : p[3] \in Seq(Nat)
         /\ \A p \in ResultPieces \cup LinePieces : p[1] \in {"result", "line"}
<1>1. Pieces = ResultPieces \cup LinePieces \cup
                 {<<"got", 0, got>>, <<"part", 0, part>>, <<"buf", 0, buf>>}
  BY DEF Pieces, ResultPieces, LinePieces
<1>2. \A r \in DOMAIN results : results[r].bytes \in Seq(Nat)
  <2>1. \A r \in DOMAIN results : results[r] \in ResultSet
    BY DEF ReaderTypes
  <2> QED BY <2>1 DEF ResultSet
<1>3. \A l \in DOMAIN lines : lines[l] \in Seq(Nat)
  BY DEF ReaderTypes
<1>4. got \in Seq(Nat) /\ part \in Seq(Nat) /\ buf \in Seq(Nat)
  BY DEF ReaderTypes
<1> QED BY <1>1, <1>2, <1>3, <1>4 DEF ResultPieces, LinePieces

\* A read that returns adds a piece.
LEMMA ResultAdded ==
  ASSUME ReaderTypes, op \in Modes, NEW bytes \in Seq(Nat), NEW why \in {"bytes", "nil", "error"},
         Result(bytes, why)
  PROVE  ResultPieces' = ResultPieces \cup {<<"result", Len(results) + 1, bytes>>}
<1> DEFINE n == Len(results) + 1
<1>1. /\ results \in Seq(ResultSet) /\ results' \in Seq(ResultSet)
      /\ Len(results') = n
      /\ \A r \in DOMAIN results : results'[r] = results[r]
      /\ results'[n] = [mode |-> op, bytes |-> bytes, why |-> why]
  BY ResultIs DEF ReaderTypes
<1>2. DOMAIN results = 1 .. n - 1 /\ DOMAIN results' = 1 .. n /\ n \in Nat \ {0}
  <2> HIDE DEF ResultSet
  <2> QED BY <1>1
<1>3. DOMAIN results' = DOMAIN results \cup {n}
  <2> HIDE DEF n
  <2> QED BY <1>2
<1>4. results'[n].bytes = bytes
  BY <1>1
<1> HIDE DEF n
<1> QED BY <1>1, <1>3, <1>4 DEF ResultPieces, n

LEMMA LineAdded ==
  ASSUME ReaderTypes, lines' = Append(lines, part)
  PROVE  LinePieces' = LinePieces \cup {<<"line", Len(lines) + 1, part>>}
<1> DEFINE n == Len(lines) + 1
<1>1. lines \in Seq(Seq(Nat)) /\ part \in Seq(Nat)
  BY DEF ReaderTypes
<1>2. /\ DOMAIN lines = 1 .. n - 1 /\ DOMAIN lines' = 1 .. n /\ n \in Nat \ {0}
      /\ lines'[n] = part /\ \A l \in DOMAIN lines : lines'[l] = lines[l]
  BY <1>1, AppendProperties
<1> HIDE DEF n
<1>3. DOMAIN lines' = DOMAIN lines \cup {n}
  BY <1>2
<1> QED BY <1>2, <1>3 DEF LinePieces, n

\* Nothing was read.
LEMMA BytesKept ==
  ASSUME ReaderTypes, BytesInv, Pieces' = Pieces, pos' = pos, raced' = raced,
         \A b \in 1 .. pos : data'[b] = data[b]
  PROVE  BytesInv'
BY DEF BytesInv, Covered

LEMMA BytesSourceStep ==
  ASSUME ReaderTypes, SourceInv, BytesInv,
         \/ \E n \in 0 .. MaxBytes : \E s \in [1 .. n -> Bytes] : FromString(s)
         \/ HttpDo \/ \E ok \in BOOLEAN : HttpResponse(ok)
         \/ \E b \in Bytes : Arrive(b)
         \/ \E how \in {"eof", "error"} : BodyEnds(how)
         \/ \E n \in Sizes : Read("size", n)
         \/ \E mode \in {"all", "line"} : Read(mode, 0)
         \/ Close \/ WithLineCallback
  PROVE  BytesInv'
<1>1. UNCHANGED <<pos, got, buf, part, lines, results, raced>>
  BY DEF FromString, HttpDo, HttpResponse, Arrive, BodyEnds, Read, Close, WithLineCallback,
         readVars, lineVars, sourceVars
<1>2. Pieces' = Pieces
  BY <1>1 DEF Pieces
<1>3. \A b \in 1 .. pos : data'[b] = data[b]
  <2>1. CASE data' = data
    BY <2>1
  <2>2. CASE \E n \in 0 .. MaxBytes : \E s \in [1 .. n -> Bytes] : FromString(s)
    BY <2>2 DEF FromString, SourceInv
  <2>3. CASE \E b \in Bytes : Arrive(b)
    <3>1. PICK b \in Bytes : data' = Append(data, b)
      BY <2>3 DEF Arrive
    <3>2. data \in Seq(Bytes) /\ pos \in 0 .. Len(data)
      BY TypesAre
    <3> QED BY <3>1, <3>2
  <2> QED BY <2>1, <2>2, <2>3 DEF HttpDo, HttpResponse, BodyEnds, Read, Close, WithLineCallback, sourceVars
<1> QED BY <1>1, <1>2, <1>3, BytesKept

\* A Read of the source: what the loop had read so far gets longer, or is returned.
LEMMA BytesTakeStep ==
  ASSUME ReaderTypes, BytesInv, Take, ~raced
  PROVE  BytesInv'
<1>1. PICK n \in Given(Wanted) : Takes(n) /\ pos' = pos + n
  BY DEF Take
<1>2. /\ Reading /\ op \in Modes
      /\ UNCHANGED <<data, buf, part, lines, raced>>
  BY DEF Take, Reading, sourceVars, lineVars
<1> DEFINE more == Interval(pos, pos + n)
           new == got \o more
           P == ResultPieces \cup LinePieces \cup {<<"part", 0, part>>, <<"buf", 0, buf>>}
           g == <<"got", 0, got>>
           f == <<"more", 0, more>>
<1>3. /\ pos \in Nat /\ n \in Nat /\ pos + n \in Nat /\ pos <= pos + n
      /\ got \in Seq(Nat) /\ data \in Seq(Bytes) /\ pos + n \in 1 .. Len(data)
  BY <1>2, TakeIs, TypesAre DEF Available
<1>4. /\ Pieces = P \cup {g} /\ g \notin P /\ f \notin Pieces /\ g # f /\ f \notin P
      /\ \A p \in Pieces : p[3] \in Seq(1 .. pos)
      /\ Distinct(Pieces) /\ Covered
  <2>1. Pieces = P \cup {g}
    BY PiecesAre
  <2>2. \A p \in Pieces : p[1] \in {"result", "line", "got", "part", "buf"}
    BY PiecesAre
  <2>3. \A p \in P : p[1] # "got"
    BY PiecesAre
  <2> HIDE DEF P
  <2> QED BY <2>1, <2>2, <2>3 DEF BytesInv
<1> HIDE DEF P
<1>5. /\ more \in Seq(Nat) /\ more \in Seq(1 .. pos + n) /\ got \in Seq(1 .. pos + n)
      /\ new \in Seq(1 .. pos + n)
  <2>1. more \in Seq(Nat)
    BY <1>3, IntervalIs
  <2>2. \A b \in pos + 1 .. pos + n : b \in 1 .. pos + n
    BY <1>3
  <2>3. more \in Seq(1 .. pos + n)
    BY <1>3, <2>2, IntervalIn
  <2>4. got \in Seq(1 .. pos)
    <3>1. g \in Pieces /\ g[3] = got
      BY <1>4
    <3> QED BY <1>4, <3>1
  <2>5. 1 .. pos \subseteq 1 .. pos + n
    BY <1>3
  <2>6. got \in Seq(1 .. pos + n)
    BY <2>4, <2>5, SeqMonotonic
  <2> HIDE DEF more
  <2> QED BY <2>1, <2>3, <2>6, ConcatProperties
<1>6. Distinct(P \cup {g, f})
  <2>1. Distinct(Pieces \cup {f})
    BY <1>3, <1>4, PieceFresh
  <2>2. Pieces \cup {f} = P \cup {g, f}
    BY <1>4
  <2> QED BY <2>1, <2>2
<1>7. PICK x : /\ x[3] = new
               /\ Pieces' = P \cup {x} \/ Pieces' = (P \cup {x}) \cup {<<"got", 0, <<>>>>}
  <2>1. /\ new \in Seq(Nat)
        /\ \/ Result(new, "bytes")
           \/ got' = new /\ UNCHANGED <<op, size, results>>
    BY <1>1, <1>2, TakesIs
  <2> HIDE DEF new
  <2>3. Pieces' = ResultPieces' \cup LinePieces' \cup
                    {<<"got", 0, got'>>, <<"part", 0, part>>, <<"buf", 0, buf>>}
    BY <1>2 DEF Pieces, ResultPieces, LinePieces
  <2>4. LinePieces' = LinePieces
    BY <1>2 DEF LinePieces
  <2>5. CASE Result(new, "bytes")
    <3>1. got' = <<>> /\ ResultPieces' = ResultPieces \cup {<<"result", Len(results) + 1, new>>}
      BY <1>2, <2>1, <2>5, ResultIs, ResultAdded
    <3> QED BY <2>3, <2>4, <3>1 DEF P
  <2>6. CASE got' = new /\ UNCHANGED <<op, size, results>>
    <3>1. ResultPieces' = ResultPieces
      BY <2>6 DEF ResultPieces
    <3>2. <<"got", 0, new>>[3] = new
      OBVIOUS
    <3>3. Pieces' = P \cup {<<"got", 0, new>>}
      BY <2>3, <2>4, <2>6, <3>1 DEF P
    <3> QED BY <3>2, <3>3
  <2> QED BY <2>1, <2>5, <2>6
<1>8. Distinct(Pieces')
  <2>1. g[3] = got /\ f[3] = more /\ f[3] \in Seq(Nat) /\ g[3] \in Seq(Nat)
    BY <1>3, <1>5
  <2>2. x[3] = g[3] \o f[3]
    BY <1>7
  <2> HIDE DEF f, g
  <2>3. Distinct(P \cup {x})
    BY <1>4, <1>6, <2>1, <2>2, PiecesJoined
  <2>4. Distinct((P \cup {x}) \cup {<<"got", 0, <<>>>>})
    BY <2>3, PieceEmpty
  <2> QED BY <1>7, <2>3, <2>4
<1>9. \A p \in Pieces' : p[3] \in Seq(1 .. pos')
  <2>1. \A p \in P : p[3] \in Seq(1 .. pos + n)
    <3>1. 1 .. pos \subseteq 1 .. pos + n
      BY <1>3
    <3>2. \A p \in P : p[3] \in Seq(1 .. pos)
      BY <1>4
    <3> QED BY <3>1, <3>2, SeqMonotonic
  <2>2. x[3] \in Seq(1 .. pos + n)
    BY <1>5, <1>7
  <2>3. <<"got", 0, <<>>>>[3] \in Seq(1 .. pos + n)
    BY EmptySeq
  <2> QED BY <1>1, <1>7, <2>1, <2>2, <2>3
<1>10. Covered'
  <2> SUFFICES ASSUME NEW b \in 1 .. pos + n, data[b] # "nl"
               PROVE  \E p \in Pieces' : Contains(p[3], b)
    BY <1>1, <1>2 DEF Covered
  <2>1. CASE b \in 1 .. pos
    <3>1. PICK p \in Pieces : Contains(p[3], b)
      BY <1>4, <2>1 DEF Covered
    <3>2. CASE p \in P
      BY <1>7, <3>1, <3>2
    <3>3. CASE p = g
      <4>1. Contains(got, b)
        BY <3>1, <3>3
      <4>2. Contains(new, b)
        <5> HIDE DEF more
        <5> QED BY <1>5, <4>1, ConcatContains
      <4> QED BY <1>7, <4>2
    <3> QED BY <1>4, <3>1, <3>2, <3>3
  <2>2. CASE b \notin 1 .. pos
    <3>3. Contains(more, b)
      BY <1>3, <2>2, IntervalContains
    <3>4. Contains(new, b)
      <4> HIDE DEF more
      <4> QED BY <1>5, <3>3, ConcatContains
    <3> QED BY <1>7, <3>4
  <2> QED BY <2>1, <2>2
<1> QED BY <1>8, <1>9, <1>10 DEF BytesInv

\* A read that ends: what it has read is returned or lost with its error.
LEMMA BytesTakeEndStep ==
  ASSUME ReaderTypes, BytesInv, TakeEnd, ~raced
  PROVE  BytesInv'
<1>1. PICK why \in {"bytes", "nil", "error"} : Result(got, why)
  BY DEF TakeEnd
<1>2. op \in Modes /\ UNCHANGED <<data, buf, part, lines, raced, pos>>
  BY DEF TakeEnd, sourceVars, lineVars
<1> DEFINE P == ResultPieces \cup LinePieces \cup {<<"part", 0, part>>, <<"buf", 0, buf>>}
           g == <<"got", 0, got>>
           x == <<"result", Len(results) + 1, got>>
           e == <<"got", 0, <<>>>>
<1>3. g[3] = got /\ x[3] = got /\ e[3] = <<>> /\ got \in Seq(Nat)
  BY TypesAre
<1>4. Pieces = P \cup {g} /\ \A p \in P : p[1] # "got"
  BY PiecesAre
<1>5. Pieces' = P \cup {x, e}
  <2>1. got' = <<>> /\ ResultPieces' = ResultPieces \cup {x}
    BY <1>1, <1>2, <1>3, ResultIs, ResultAdded
  <2>2. Pieces' = ResultPieces' \cup LinePieces' \cup
                    {<<"got", 0, got'>>, <<"part", 0, part>>, <<"buf", 0, buf>>}
    BY <1>2 DEF Pieces, ResultPieces, LinePieces
  <2>3. LinePieces' = LinePieces
    BY <1>2 DEF LinePieces
  <2> HIDE DEF x
  <2> QED BY <2>1, <2>2, <2>3
<1>6. g \notin P
  BY <1>4
<1> HIDE DEF P, g, x, e
<1>7. /\ \A p \in Pieces : p[3] \in Seq(1 .. pos)
      /\ Distinct(Pieces) /\ Covered
  BY DEF BytesInv
<1>8. Distinct(Pieces')
  <2>1. Distinct(P \cup {x})
    BY <1>3, <1>4, <1>6, <1>7, PieceRenamed
  <2>2. Distinct((P \cup {x}) \cup {e})
    BY <1>3, <2>1, PieceEmpty
  <2>3. Pieces' = (P \cup {x}) \cup {e}
    BY <1>5
  <2> QED BY <2>2, <2>3
<1>9. \A p \in Pieces' : p[3] \in Seq(1 .. pos')
  <2>1. g \in Pieces /\ e[3] \in Seq(1 .. pos)
    BY <1>3, <1>4, EmptySeq
  <2> QED BY <1>2, <1>3, <1>4, <1>5, <1>7, <2>1
<1>10. Covered'
  <2> SUFFICES ASSUME NEW b \in 1 .. pos, data[b] # "nl"
               PROVE  \E p \in Pieces' : Contains(p[3], b)
    BY <1>2 DEF Covered
  <2>1. PICK p \in Pieces : Contains(p[3], b)
    BY <1>7 DEF Covered
  <2> QED BY <1>3, <1>4, <1>5, <2>1
<1> QED BY <1>8, <1>9, <1>10 DEF BytesInv

\* The goroutine fills its empty buffer.
LEMMA BytesFillStep ==
  ASSUME ReaderTypes, BytesInv, Fill, ~raced
  PROVE  BytesInv'
<1>1. PICK n \in Given(Available) : buf' = Interval(pos, pos + n) /\ pos' = pos + n
  BY DEF Fill
<1>2. buf = <<>> /\ UNCHANGED <<data, got, part, lines, results, raced>>
  BY DEF Fill, Filling, sourceVars, readVars
<1>3. pos \in Nat /\ n \in Nat /\ pos + n \in Nat /\ pos <= pos + n
  <2>1. Available \in Nat \ {0}
    BY TypesAre DEF Fill, Filling, Available
  <2>2. n \in 1 .. Available
    BY <2>1, GivenIs
  <2> QED BY <2>1, <2>2, TypesAre
<1> DEFINE P == ResultPieces \cup LinePieces \cup {<<"got", 0, got>>, <<"part", 0, part>>}
           x == <<"buf", 0, Interval(pos, pos + n)>>
<1>4. P \subseteq Pieces /\ (\A p \in Pieces : p \in P \/ p[3] = <<>>) /\ Pieces' = P \cup {x}
  <2>1. Pieces' = ResultPieces' \cup LinePieces' \cup
                    {<<"got", 0, got>>, <<"part", 0, part>>, <<"buf", 0, buf'>>}
    BY <1>2 DEF Pieces, ResultPieces, LinePieces
  <2>2. LinePieces' = LinePieces /\ ResultPieces' = ResultPieces
    BY <1>2 DEF LinePieces, ResultPieces
  <2>3. Pieces' = P \cup {x}
    BY <1>1, <2>1, <2>2
  <2>4. P \subseteq Pieces /\ Pieces = P \cup {<<"buf", 0, buf>>}
    BY PiecesAre
  <2>5. <<"buf", 0, buf>>[3] = <<>>
    BY <1>2
  <2> HIDE DEF P, x
  <2> QED BY <2>3, <2>4, <2>5
<1>5. x[3] = Interval(pos, pos + n)
  OBVIOUS
<1> HIDE DEF P, x
<1>6. /\ \A p \in P : p[3] \in Seq(1 .. pos)
      /\ Distinct(P)
  BY <1>4 DEF BytesInv, Distinct
<1>7. Distinct(Pieces')
  <2>1. Distinct(P \cup {x})
    BY ONLY <1>3, <1>5, <1>6, PieceFresh
  <2> QED BY <1>4, <2>1
<1>8. \A p \in Pieces' : p[3] \in Seq(1 .. pos')
  <2>1. \A p \in P : p[3] \in Seq(1 .. pos + n)
    <3>1. 1 .. pos \subseteq 1 .. pos + n
      BY <1>3
    <3> QED BY <1>6, <3>1, SeqMonotonic
  <2>2. x[3] \in Seq(1 .. pos + n)
    <3>1. \A b \in pos + 1 .. pos + n : b \in 1 .. pos + n
      BY <1>3
    <3> QED BY <1>3, <1>5, <3>1, IntervalIn
  <2> QED BY <1>1, <1>4, <2>1, <2>2
<1>9. Covered'
  <2> SUFFICES ASSUME NEW b \in 1 .. pos + n, data[b] # "nl"
               PROVE  \E p \in Pieces' : Contains(p[3], b)
    BY <1>1, <1>2 DEF Covered
  <2>1. CASE b \in 1 .. pos
    <3>1. PICK p \in Pieces : Contains(p[3], b)
      BY <2>1 DEF BytesInv, Covered
    <3>2. p[3] # <<>>
      BY <3>1 DEF Contains
    <3> QED BY <1>4, <3>1, <3>2
  <2>2. CASE b \notin 1 .. pos
    <3>3. Contains(x[3], b)
      BY <1>3, <1>5, <2>2, IntervalContains
    <3> QED BY <1>4, <3>3
  <2> QED BY <2>1, <2>2
<1> QED BY <1>7, <1>8, <1>9 DEF BytesInv

\* A byte of the buffer goes to the line, or is dropped: the newline of a blank line.
LEMMA BytesScanStep ==
  ASSUME ReaderTypes, BytesInv, Scan, ~raced
  PROVE  BytesInv'
<1> DEFINE P == ResultPieces \cup LinePieces \cup {<<"got", 0, got>>}
           d == <<"part", 0, part>>
           c == <<"buf", 0, buf>>
           h == <<"head", 0, <<Head(buf)>>>>
           t == <<"buf", 0, Tail(buf)>>
           y == <<"part", 0, part'>>
<1>1. /\ buf # <<>> /\ buf' = Tail(buf)
      /\ UNCHANGED <<data, pos, got, results, lines, raced>>
      /\ \/ part' = part \o <<Head(buf)>>
         \/ part' = <<>> /\ part = <<>> /\ data[Head(buf)] = "nl"
  <2>1. Append(part, Head(buf)) = part \o <<Head(buf)>>
    <3>1. buf # <<>> /\ buf \in Seq(Nat) /\ part \in Seq(Nat)
      BY TypesAre DEF Scan
    <3>2. Head(buf) \in Nat
      BY <3>1
    <3> QED BY <3>1, <3>2, AppendIsConcat
  <2> QED BY <2>1 DEF Scan, readVars, sourceVars
<1>2. /\ buf \in Seq(Nat) /\ part \in Seq(Nat) /\ <<Head(buf)>> \in Seq(Nat)
      /\ Head(buf) = buf[1] /\ Tail(buf) \in Seq(Nat)
      /\ Len(Tail(buf)) = Len(buf) - 1 /\ Len(buf) \in Nat \ {0}
      /\ \A i \in 1 .. Len(Tail(buf)) : Tail(buf)[i] = buf[i + 1]
  <2>1. buf \in Seq(Nat) /\ part \in Seq(Nat) /\ Head(buf) = buf[1] /\ Head(buf) \in Nat
        /\ Len(buf) \in Nat \ {0}
    <3>1. buf \in Seq(Nat) /\ part \in Seq(Nat) /\ buf # <<>>
      BY <1>1, TypesAre
    <3>2. Len(buf) \in Nat \ {0}
      BY ONLY <3>1, EmptySeq
    <3> QED BY ONLY <3>1, <3>2, HeadTailProperties
  <2> QED BY ONLY <1>1, <2>1, HeadTailProperties
<1>3. d[3] = part /\ c[3] = buf /\ h[3] = <<Head(buf)>> /\ t[3] = Tail(buf) /\ y[3] = part'
  OBVIOUS
<1>4. /\ Pieces = (P \cup {d}) \cup {c} /\ Pieces' = P \cup {y, t}
      /\ c \notin P \cup {d} /\ d \notin P \cup {t} /\ h \notin P \cup {t} /\ d # h
  <2>1. Pieces' = ResultPieces' \cup LinePieces' \cup
                    {<<"got", 0, got>>, <<"part", 0, part'>>, <<"buf", 0, buf'>>}
    BY <1>1 DEF Pieces, ResultPieces, LinePieces
  <2>2. LinePieces' = LinePieces /\ ResultPieces' = ResultPieces
    BY <1>1 DEF LinePieces, ResultPieces
  <2>3. Pieces = (P \cup {d}) \cup {c} /\ \A p \in P : p[1] \in {"result", "line", "got"}
    BY PiecesAre
  <2>4. d[1] = "part" /\ c[1] = "buf" /\ h[1] = "head" /\ t[1] = "buf"
    OBVIOUS
  <2>5. Pieces' = P \cup {y, t}
    BY <1>1, <2>1, <2>2
  <2> HIDE DEF P, d, c, h, t, y
  <2> QED BY <2>3, <2>4, <2>5
<1> HIDE DEF P, d, c, h, t, y
<1>5. /\ \A p \in Pieces : p[3] \in Seq(1 .. pos)
      /\ Distinct(Pieces) /\ Covered
  BY DEF BytesInv
<1>6. buf \in Seq(1 .. pos) /\ part \in Seq(1 .. pos)
  BY <1>3, <1>4, <1>5
<1>7. Distinct((P \cup {d}) \cup {h, t})
  <2>1. Distinct((P \cup {d}) \cup {c})
    BY <1>4, <1>5
  <2> QED BY <1>1, <1>2, <1>3, <1>4, <2>1, PieceSplit
<1>8. CASE part' = part \o <<Head(buf)>>
  <2>1. Distinct(Pieces')
    <3>1. (P \cup {d}) \cup {h, t} = (P \cup {t}) \cup {d, h} /\ Pieces' = (P \cup {t}) \cup {y}
      BY <1>4
    <3>2. Distinct((P \cup {t}) \cup {d, h})
      BY <1>7, <3>1
    <3>3. Distinct((P \cup {t}) \cup {y})
      BY <1>2, <1>3, <1>4, <1>8, <3>2, PiecesJoined
    <3> QED BY <3>1, <3>3
  <2>2. Head(buf) \in 1 .. pos /\ <<Head(buf)>> \in Seq(1 .. pos) /\ Tail(buf) \in Seq(1 .. pos)
    <3>1. Head(buf) \in 1 .. pos /\ Tail(buf) \in Seq(1 .. pos)
      BY ONLY <1>1, <1>6, HeadTailProperties
    <3> QED BY <3>1
  <2>3. part' \in Seq(1 .. pos)
    BY ONLY <1>6, <1>8, <2>2, ConcatProperties
  <2>4. \A p \in Pieces' : p[3] \in Seq(1 .. pos')
    <3>1. \A p \in P : p[3] \in Seq(1 .. pos)
      BY <1>4, <1>5
    <3>2. \A p \in Pieces' : p \in P \/ p[3] = part' \/ p[3] = Tail(buf)
      BY <1>3, <1>4
    <3> QED BY <1>1, <2>2, <2>3, <3>1, <3>2
  <2>5. Covered'
    <3> SUFFICES ASSUME NEW b \in 1 .. pos, data[b] # "nl"
                 PROVE  \E p \in Pieces' : Contains(p[3], b)
      BY <1>1 DEF Covered
    <3>1. PICK p \in Pieces : Contains(p[3], b)
      BY <1>5 DEF Covered
    <3>2. CASE p \in P
      BY <1>4, <3>1, <3>2
    <3>3. CASE p = d
      <4>1. Contains(part, b)
        BY <1>3, <3>1, <3>3
      <4>2. Contains(part', b)
        BY ONLY <1>2, <1>8, <4>1, ConcatContains
      <4> QED BY <1>3, <1>4, <4>2
    <3>4. CASE p = c
      <4>1. PICK i \in 1 .. Len(buf) : buf[i] = b
        BY <1>3, <3>1, <3>4 DEF Contains
      <4>2. CASE i = 1
        <5>1. Contains(<<Head(buf)>>, b)
          BY <1>2, <4>1, <4>2 DEF Contains
        <5>2. Contains(part', b)
          BY ONLY <1>2, <1>8, <5>1, ConcatContains
        <5> QED BY <1>3, <1>4, <5>2
      <4>3. CASE i # 1
        <5>1. i - 1 \in 1 .. Len(Tail(buf)) /\ (i - 1) + 1 = i
          BY <1>2, <4>1, <4>3
        <5>2. Contains(Tail(buf), b)
          BY <1>2, <4>1, <5>1 DEF Contains
        <5> QED BY <1>3, <1>4, <5>2
      <4> QED BY <4>2, <4>3
    <3> QED BY <1>4, <3>1, <3>2, <3>3, <3>4
  <2> QED BY <2>1, <2>4, <2>5 DEF BytesInv
<1>9. CASE part' = <<>> /\ part = <<>> /\ data[Head(buf)] = "nl"
  <2>1. y = d
    BY <1>9 DEF y, d
  <2>2. Distinct(Pieces')
    BY <1>4, <1>7, <2>1 DEF Distinct
  <2>3. Tail(buf) \in Seq(1 .. pos)
    BY ONLY <1>1, <1>6, HeadTailProperties
  <2>4. \A p \in Pieces' : p[3] \in Seq(1 .. pos')
    BY <1>1, <1>3, <1>4, <1>5, <2>1, <2>3
  <2>5. Covered'
    <3> SUFFICES ASSUME NEW b \in 1 .. pos, data[b] # "nl"
                 PROVE  \E p \in Pieces' : Contains(p[3], b)
      BY <1>1 DEF Covered
    <3>1. PICK p \in Pieces : Contains(p[3], b)
      BY <1>5 DEF Covered
    <3>2. CASE p \in P \cup {d}
      BY <1>4, <2>1, <3>1, <3>2
    <3>3. CASE p = c
      <4>1. PICK i \in 1 .. Len(buf) : buf[i] = b
        BY <1>3, <3>1, <3>3 DEF Contains
      <4>2. i # 1
        BY <1>2, <1>9, <4>1
      <4>3. i - 1 \in 1 .. Len(Tail(buf)) /\ (i - 1) + 1 = i
        BY <1>2, <4>1, <4>2
      <4>4. Contains(Tail(buf), b)
        BY <1>2, <4>1, <4>3 DEF Contains
      <4> QED BY <1>3, <1>4, <4>4
    <3> QED BY <1>4, <3>1, <3>2, <3>3
  <2> QED BY <2>2, <2>4, <2>5 DEF BytesInv
<1> QED BY <1>1, <1>8, <1>9

\* What the goroutine does with a line that is complete.
LEMMA BytesCallbackStep ==
  ASSUME ReaderTypes, BytesInv, LinerEnds \/ Callback, ~raced
  PROVE  BytesInv'
<1>1. UNCHANGED <<data, pos, got, buf, results, raced>>
  BY DEF LinerEnds, Callback, sourceVars, readVars
<1>2. CASE UNCHANGED <<part, lines>>
  <2>1. Pieces' = Pieces
    BY <1>1, <1>2 DEF Pieces
  <2> QED BY <1>1, <2>1, BytesKept
<1>3. CASE lines' = Append(lines, part) /\ part' = <<>>
  <2> DEFINE P == ResultPieces \cup LinePieces \cup {<<"got", 0, got>>, <<"buf", 0, buf>>}
             d == <<"part", 0, part>>
             x == <<"line", Len(lines) + 1, part>>
             e == <<"part", 0, <<>>>>
  <2>1. d[3] = part /\ x[3] = part /\ e[3] = <<>>
    OBVIOUS
  <2>2. Pieces = P \cup {d} /\ d \notin P
    <3>1. Pieces = P \cup {d} /\ \A p \in P : p[1] \in {"result", "line", "got", "buf"}
      BY PiecesAre
    <3> QED BY <3>1
  <2>3. Pieces' = (P \cup {x}) \cup {e}
    <3>1. Pieces' = ResultPieces' \cup LinePieces' \cup
                      {<<"got", 0, got>>, <<"part", 0, part'>>, <<"buf", 0, buf>>}
      BY <1>1 DEF Pieces, ResultPieces, LinePieces
    <3>2. ResultPieces' = ResultPieces
      BY <1>1 DEF ResultPieces
    <3>3. LinePieces' = LinePieces \cup {x}
      BY <1>3, LineAdded
    <3> HIDE DEF x
    <3> QED BY <1>3, <3>1, <3>2, <3>3
  <2> HIDE DEF P, d, x, e
  <2>4. /\ \A p \in Pieces : p[3] \in Seq(1 .. pos)
        /\ Distinct(Pieces) /\ Covered
    BY DEF BytesInv
  <2>5. Distinct(Pieces')
    <3>1. Distinct(P \cup {x})
      BY <2>1, <2>2, <2>4, PieceRenamed
    <3> QED BY <2>1, <2>3, <3>1, PieceEmpty
  <2>6. \A p \in Pieces' : p[3] \in Seq(1 .. pos')
    <3>1. e[3] \in Seq(1 .. pos)
      BY <2>1, EmptySeq
    <3> QED BY <1>1, <2>1, <2>2, <2>3, <2>4, <3>1
  <2>7. Covered'
    <3> SUFFICES ASSUME NEW b \in 1 .. pos, data[b] # "nl"
                 PROVE  \E p \in Pieces' : Contains(p[3], b)
      BY <1>1 DEF Covered
    <3>1. PICK p \in Pieces : Contains(p[3], b)
      BY <2>4 DEF Covered
    <3> QED BY <2>1, <2>2, <2>3, <3>1
  <2> QED BY <2>5, <2>6, <2>7 DEF BytesInv
<1> QED BY <1>2, <1>3 DEF LinerEnds, Callback

-----------------------------------------------------------------------------
(* The lines that are read.                                                *)

\* The source is given, or more of it comes, or its end.
DataKept ==
  /\ pos' = pos /\ Len(data') >= Len(data) /\ \A b \in 1 .. pos : data'[b] = data[b]
  /\ end = "open" \/ (end' = end /\ data' = data)

\* What was a line remains one.
LEMMA LineKept ==
  ASSUME ReaderTypes, NEW m \in 0 .. pos, NEW n \in 0 .. pos, Line(m, n),
         \A b \in 1 .. pos : data'[b] = data[b],
         end = "open" \/ (end' = end /\ data' = data)
  PROVE  Line(m, n)'
<1>1. pos \in Nat /\ n \in 1 .. pos /\ (m = 0 \/ m \in 1 .. pos)
  BY TypesAre DEF Line
<1>2. \A b \in m + 1 .. n - 1 : b \in 1 .. pos
  BY <1>1
<1> QED BY <1>1, <1>2 DEF Line

LEMMA ReadsKept ==
  ASSUME ReaderTypes, ReadsInv, DataKept, UNCHANGED <<got, results>>,
         liner' = "none" /\ ~raced' => liner = "none" /\ ~raced,
         op' \in {"none", "http", "line"} => op \in {"none", "http", "line"}
  PROVE  ReadsInv'
<1> SUFFICES ASSUME OnlyLines' PROVE ReadsInv'
  BY DEF ReadsInv
<1>1. OnlyLines /\ pos \in Nat
  BY TypesAre DEF OnlyLines
<1>2. AtEnd => AtEnd'
  BY DEF AtEnd, DataKept
<1>3. \A r, m : LineStarts(r, m) => LineStarts(r, m)'
  BY DEF LineStarts
<1>4. ASSUME NEW r \in DOMAIN results, NEW m \in 0 .. pos, NEW n \in 0 .. pos, LineRead(r, m, n)
      PROVE  LineRead(r, m, n)'
  BY <1>3, <1>4, LineKept DEF LineRead, DataKept
<1>5. ASSUME NEW m \in 0 .. pos, ReadingFrom(m)
      PROVE  ReadingFrom(m)'
  <2>1. \A b \in m + 1 .. pos : b \in 1 .. pos
    BY <1>1
  <2>2. m = 0 \/ m \in 1 .. pos
    BY <1>1
  <2>3. Interval(m, pos') = Interval(m, pos) /\ pos' = pos
    BY DEF DataKept
  <2>4. LineStarts(Len(results) + 1, m) => LineStarts(Len(results) + 1, m)'
    BY DEF LineStarts
  <2> QED BY <1>2, <1>5, <2>1, <2>2, <2>3, <2>4 DEF ReadingFrom, DataKept
<1> QED BY <1>1, <1>2, <1>4, <1>5 DEF ReadsInv, DataKept

\* Nothing was read yet.
LEMMA ReadsInitially ==
  ASSUME pos' = 0, got' = <<>>, results' = <<>>
  PROVE  ReadsInv'
<1>1. Interval(0, 0) = <<>>
  BY IntervalIs
<1>2. ReadingFrom(0)'
  BY <1>1 DEF ReadingFrom, LineStarts
<1>3. 0 \in 0 .. pos' /\ DOMAIN results' = {}
  OBVIOUS
<1> QED BY <1>2, <1>3 DEF ReadsInv

LEMMA ReadsSourceStep ==
  ASSUME ReaderTypes, SourceInv, ReadsInv,
         \/ \E n \in 0 .. MaxBytes : \E s \in [1 .. n -> Bytes] : FromString(s)
         \/ HttpDo \/ \E ok \in BOOLEAN : HttpResponse(ok)
         \/ \E b \in Bytes : Arrive(b)
         \/ \E how \in {"eof", "error"} : BodyEnds(how)
         \/ \E n \in Sizes : Read("size", n)
         \/ \E mode \in {"all", "line"} : Read(mode, 0)
         \/ Close \/ WithLineCallback
  PROVE  ReadsInv'
<1>1. CASE \/ \E n \in 0 .. MaxBytes : \E s \in [1 .. n -> Bytes] : FromString(s)
           \/ HttpDo \/ \E ok \in BOOLEAN : HttpResponse(ok)
  <2>1. source = "none" /\ UNCHANGED <<pos, got, results>>
    BY <1>1 DEF FromString, HttpDo, HttpResponse, SourceInv, readVars, sourceVars
  <2> QED BY <2>1, ReadsInitially DEF SourceInv
<1>2. CASE \E b \in Bytes : Arrive(b)
  <2>1. PICK b \in Bytes : data' = Append(data, b)
    BY <1>2 DEF Arrive
  <2>2. end = "open" /\ UNCHANGED <<pos, got, results, liner, raced, op>>
    BY <1>2 DEF Arrive, readVars, lineVars
  <2>3. data \in Seq(Bytes) /\ pos \in 0 .. Len(data)
    BY TypesAre
  <2>4. DataKept
    BY <2>1, <2>2, <2>3 DEF DataKept
  <2> QED BY <2>2, <2>4, ReadsKept
<1>3. CASE \/ \E how \in {"eof", "error"} : BodyEnds(how)
           \/ \E n \in Sizes : Read("size", n)
           \/ \E mode \in {"all", "line"} : Read(mode, 0)
           \/ Close \/ WithLineCallback
  <2>1. /\ UNCHANGED <<data, pos, got, results, raced>>
        /\ end = "open" \/ end' = end
        /\ liner' = "none" => liner = "none"
        /\ op' = op \/ op = "none"
    BY <1>3 DEF BodyEnds, Read, Close, WithLineCallback, Idle, sourceVars, readVars, lineVars
  <2>2. Len(data) \in Nat
    BY TypesAre
  <2>3. DataKept
    BY <2>1, <2>2 DEF DataKept
  <2> QED BY <2>1, <2>3, ReadsKept
<1> QED BY <1>1, <1>2, <1>3

\* A read takes bytes: it goes on with the line, or returns it.
LEMMA ReadsTakeStep ==
  ASSUME ReaderTypes, ReadsInv, Take
  PROVE  ReadsInv'
<1> SUFFICES ASSUME OnlyLines' PROVE ReadsInv'
  BY DEF ReadsInv
<1>1. PICK n \in Given(Wanted) : Takes(n) /\ pos' = pos + n
  BY DEF Take
<1>2. /\ Reading /\ op \in Modes /\ UNCHANGED <<data, end, liner, raced>> /\ Available > 0
  BY DEF Take, Reading, sourceVars, lineVars
<1>3. /\ pos \in Nat /\ n \in Nat /\ pos + n \in 1 .. Len(data) /\ pos < pos + n
      /\ data \in Seq(Bytes) /\ (op = "line" => n = 1) /\ results \in Seq(ResultSet)
  BY <1>2, TakeIs, TypesAre DEF Available
<1>4. ~AtEnd
  BY <1>2, TypesAre DEF AtEnd, Available
<1> DEFINE new == got \o Interval(pos, pos + n)
<1>0. PICK last, p : last = Len(results) + 1 /\ p = pos + 1
  OBVIOUS
<1>5. /\ new \in Seq(Nat)
      /\ \/ /\ op = "size" \/ (op = "line" /\ data[pos + n] = "nl")
            /\ Result(new, "bytes")
         \/ /\ op = "all" \/ (op = "line" /\ data[pos + n] # "nl")
            /\ got' = new /\ UNCHANGED <<op, size, results>>
  BY <1>1, <1>2, TakesIs
<1> HIDE DEF new
<1>6. /\ \A r \in DOMAIN results : r \in DOMAIN results' /\ results'[r] = results[r]
      /\ last \in Nat \ {0} /\ DOMAIN results = 1 .. last - 1
  <2>1. CASE Result(new, "bytes")
    <3>1. /\ results' \in Seq(ResultSet) /\ Len(results') = Len(results) + 1
          /\ \A r \in DOMAIN results : results'[r] = results[r]
      BY <1>2, <1>5, <2>1, ResultIs
    <3> HIDE DEF ResultSet
    <3> QED BY <1>0, <1>3, <3>1
  <2>2. CASE UNCHANGED results
    <3> HIDE DEF ResultSet
    <3> QED BY <1>0, <1>3, <2>2
  <2> QED BY <1>5, <2>1, <2>2
<1>7. OnlyLines
  BY <1>2, <1>6 DEF OnlyLines
<1>8. ASSUME NEW r \in DOMAIN results
      PROVE  \E m, k \in 0 .. pos' : LineRead(r, m, k)'
  <2>1. PICK m \in 0 .. pos, k \in 0 .. pos : LineRead(r, m, k)
    BY <1>4, <1>7 DEF ReadsInv
  <2>2. Line(m, k)'
    BY <1>2, <2>1, LineKept DEF LineRead
  <2>3. r = 1 \/ r - 1 \in DOMAIN results
    BY <1>6
  <2>4. LineStarts(r, m)'
    BY <1>6, <2>1, <2>3 DEF LineStarts, LineRead
  <2>5. m \in 0 .. pos' /\ k \in 0 .. pos' /\ results'[r].bytes = Interval(m, k)
    BY <1>1, <1>3, <1>6, <2>1 DEF LineRead
  <2> QED BY <2>2, <2>4, <2>5 DEF LineRead
<1>9. CASE op = "line"
  <2>1. PICK m \in 0 .. pos : ReadingFrom(m)
    BY <1>7, <1>9 DEF ReadsInv
  <2>2. m \in Nat /\ m <= pos /\ n = 1 /\ pos' = p /\ p = pos + 1 /\ pos <= p /\ p \in Nat
    BY <1>0, <1>1, <1>3, <1>9
  <2>3. new = Interval(m, p)
    <3>1. got = Interval(m, pos)
      BY <2>1 DEF ReadingFrom
    <3> QED BY <1>3, <2>2, <3>1, IntervalsJoin DEF new
  <2>4. /\ LineStarts(last, m) /\ (m = 0 \/ data[m] = "nl")
        /\ \A b \in m + 1 .. pos : data[b] # "nl"
    BY <1>0, <1>4, <2>1 DEF ReadingFrom
  <2>5. LineStarts(last, m)'
    <3>1. last = 1 \/ last - 1 \in DOMAIN results
      BY <1>6
    <3> QED BY <1>6, <2>4, <3>1 DEF LineStarts
  <2>6. CASE data[p] = "nl"
    <3>1. Result(new, "bytes")
      BY <1>5, <1>9, <2>2, <2>6
    <3>2. /\ Len(results') = last /\ results'[last].bytes = new /\ results' \in Seq(ResultSet)
          /\ got' = <<>>
      <4>1. /\ Len(results') = last /\ results' \in Seq(ResultSet) /\ got' = <<>>
            /\ results'[last] = [mode |-> op, bytes |-> new, why |-> "bytes"]
        BY <1>0, <1>2, <1>5, <3>1, ResultIs
      <4> QED BY <4>1
    <3>3. Line(m, p)'
      <4>1. p - 1 = pos /\ m < p
        BY <1>3, <2>2
      <4> QED BY <1>2, <2>4, <2>6, <4>1 DEF Line
    <3>4. LineRead(last, m, p)'
      BY <2>3, <2>5, <3>2, <3>3 DEF LineRead
    <3>5. ReadingFrom(p)'
      <4>1. Interval(p, p) = <<>>
        BY <2>2, IntervalIs
      <4>2. new # <<>> /\ Last(new) = p
        <5>1. m < p /\ m <= p
          BY <1>3, <2>2
        <5> QED BY ONLY <2>2, <2>3, <5>1, IntervalIs
      <4>3. last + 1 # 1 /\ last + 1 - 1 = last
        BY <1>6
      <4>4. LineStarts(last + 1, p)'
        BY <3>2, <4>2, <4>3 DEF LineStarts
      <4>5. \A b \in p + 1 .. p : FALSE
        BY <2>2
      <4> QED BY <1>2, <2>2, <2>6, <3>2, <4>1, <4>4, <4>5 DEF ReadingFrom
    <3>6. ASSUME NEW r \in DOMAIN results'
          PROVE  \E a, k \in 0 .. pos' : LineRead(r, a, k)'
      <4>1. r \in DOMAIN results \/ r = last
        <5> HIDE DEF ResultSet
        <5> QED BY <1>6, <3>2
      <4>2. m \in 0 .. pos' /\ p \in 0 .. pos'
        BY <1>3, <2>2
      <4> QED BY <1>8, <3>4, <4>1, <4>2
    <3>7. p \in 0 .. pos'
      BY <1>3, <2>2
    <3> QED BY <3>5, <3>6, <3>7 DEF ReadsInv
  <2>7. CASE data[p] # "nl"
    <3>1. got' = new /\ UNCHANGED <<op, results>>
      BY <1>5, <1>9, <2>2, <2>7
    <3>2. \A b \in m + 1 .. p : b \in m + 1 .. pos \/ b = p
      BY <1>3, <2>2
    <3>3. ReadingFrom(m)'
      BY <1>0, <1>2, <2>2, <2>3, <2>4, <2>5, <2>7, <3>1, <3>2 DEF ReadingFrom
    <3>4. m \in 0 .. pos'
      BY <1>3, <2>2
    <3> QED BY <1>8, <3>1, <3>3, <3>4 DEF ReadsInv
  <2> QED BY <2>6, <2>7
<1>10. CASE op # "line"
  <2>1. ~Result(new, "bytes")
    <3> SUFFICES ASSUME Result(new, "bytes") PROVE FALSE
      OBVIOUS
    <3>1. /\ Len(results') = last /\ results' \in Seq(ResultSet)
          /\ results'[last] = [mode |-> op, bytes |-> new, why |-> "bytes"]
      BY <1>0, <1>2, <1>5, ResultIs
    <3>2. last \in DOMAIN results'
      <4> HIDE DEF ResultSet
      <4> QED BY <1>6, <3>1
    <3> QED BY <1>10, <3>1, <3>2 DEF OnlyLines
  <2>2. op' = "all" /\ results' = results
    BY <1>5, <1>10, <2>1
  <2> QED BY <1>8, <2>2 DEF ReadsInv
<1> QED BY <1>9, <1>10

\* A read ends: it returns the last line, which has no newline, or nothing.
LEMMA ReadsTakeEndStep ==
  ASSUME ReaderTypes, ReadsInv, TakeEnd
  PROVE  ReadsInv'
<1> SUFFICES ASSUME OnlyLines' PROVE ReadsInv'
  BY DEF ReadsInv
<1> DEFINE failed == closed \/ end = "error"
           why == CASE failed /\ op = "size" -> "bytes"
                    [] failed -> "error"
                    [] ~failed /\ got = <<>> -> "nil"
                    [] OTHER -> "bytes"
<1>0. PICK last, p : last = Len(results) + 1 /\ p = pos
  OBVIOUS
<1>1. Result(got, why) /\ why \in {"bytes", "nil", "error"}
  BY DEF TakeEnd
<1>2. /\ op \in Modes /\ UNCHANGED <<data, end, pos, liner, raced>>
      /\ closed \/ (Available = 0 /\ end # "open")
  BY DEF TakeEnd, sourceVars, lineVars
<1>3. /\ results' \in Seq(ResultSet) /\ Len(results') = last
      /\ \A r \in DOMAIN results : results'[r] = results[r]
      /\ results'[last] = [mode |-> op, bytes |-> got, why |-> why]
      /\ op' = "none" /\ got' = <<>>
  BY <1>0, <1>1, <1>2, TypesAre, ResultIs
<1>4. /\ last \in Nat \ {0} /\ DOMAIN results = 1 .. last - 1 /\ DOMAIN results' = 1 .. last
      /\ pos \in Nat /\ Len(data) \in Nat
  <2>1. results \in Seq(ResultSet) /\ pos \in Nat /\ Len(data) \in Nat
    BY TypesAre
  <2> HIDE DEF ResultSet, why
  <2> QED BY <1>0, <1>3, <2>1
<1>5. op = "line" /\ why # "error"
  <2>1. results'[last].mode = "line" /\ results'[last].why # "error"
    BY <1>4 DEF OnlyLines
  <2> HIDE DEF why
  <2> QED BY <1>3, <2>1
<1>6. AtEnd
  BY <1>2, <1>4, <1>5, TypesAre DEF AtEnd, Available
<1> HIDE DEF why
<1>7. OnlyLines
  BY <1>2, <1>3, <1>4 DEF OnlyLines
<1>8. AtEnd'
  BY <1>2, <1>6 DEF AtEnd
<1>9. ASSUME NEW r \in 1 .. last, NEW m, LineStarts(r, m)
      PROVE  LineStarts(r, m)'
  <2>1. r = 1 \/ r - 1 \in DOMAIN results
    BY <1>4
  <2> QED BY <1>3, <1>9, <2>1 DEF LineStarts
<1>10. ASSUME NEW r \in DOMAIN results
       PROVE  (results'[r].bytes = <<>> /\ AtEnd') \/ \E m, n \in 0 .. pos' : LineRead(r, m, n)'
  <2>1. CASE results[r].bytes = <<>>
    BY <1>3, <1>8, <2>1
  <2>2. CASE results[r].bytes # <<>>
    <3>1. PICK m \in 0 .. pos, n \in 0 .. pos : LineRead(r, m, n)
      BY <1>7, <2>2 DEF ReadsInv
    <3>2. Line(m, n)'
      BY <1>2, <3>1, LineKept DEF LineRead
    <3>3. LineStarts(r, m)'
      BY <1>4, <1>9, <3>1 DEF LineRead
    <3> QED BY <1>2, <1>3, <3>1, <3>2, <3>3 DEF LineRead
  <2> QED BY <2>1, <2>2
<1>11. (results'[last].bytes = <<>> /\ AtEnd') \/ \E m, n \in 0 .. pos' : LineRead(last, m, n)'
  <2>1. results'[last].bytes = got
    BY <1>3
  <2>2. CASE got = <<>>
    BY <1>8, <2>1, <2>2
  <2>3. CASE got # <<>>
    <3>1. PICK m \in 0 .. pos : ReadingFrom(m)
      BY <1>5, <1>7 DEF ReadsInv
    <3>2. m < pos
      <4>1. m = pos => Interval(m, pos) = <<>>
        BY <1>4, IntervalIs
      <4>2. got = Interval(m, pos)
        BY <3>1 DEF ReadingFrom
      <4> QED BY <1>4, <2>3, <4>1, <4>2
    <3>3. \A b \in m + 1 .. pos - 1 : b \in m + 1 .. pos
      BY <1>4
    <3>4. LineStarts(last, m) /\ (m = 0 \/ data[m] = "nl") /\ got = Interval(m, pos)
          /\ \A b \in m + 1 .. pos : data[b] # "nl"
      BY <1>0, <1>4, <3>1, <3>2 DEF ReadingFrom
    <3>5. Line(m, p)'
      BY <1>0, <1>2, <1>6, <3>2, <3>3, <3>4 DEF Line, AtEnd
    <3>6. last \in 1 .. last /\ p \in 0 .. pos
      BY <1>0, <1>4
    <3>7. LineRead(last, m, p)'
      BY <1>0, <1>9, <2>1, <3>4, <3>5, <3>6 DEF LineRead
    <3> QED BY <1>2, <3>6, <3>7
  <2> QED BY <2>2, <2>3
<1>12. ReadingFrom(p)'
  <2>1. Interval(p, p) = <<>> /\ p \in Nat
    BY <1>0, <1>4, IntervalIs
  <2>2. \A b \in p + 1 .. p : FALSE
    BY <2>1
  <2> QED BY <1>0, <1>2, <1>3, <1>8, <2>1, <2>2 DEF ReadingFrom
<1>13. p \in 0 .. pos'
  BY <1>0, <1>2, <1>4
<1>14. \A r \in DOMAIN results' : r \in DOMAIN results \/ r = last
  BY <1>4
<1> QED BY <1>10, <1>11, <1>12, <1>13, <1>14 DEF ReadsInv

\* Once the goroutine reads, nothing is said of reads.
LEMMA ReadsLinerStep ==
  ASSUME Fill \/ Scan \/ LinerEnds \/ Callback \/ RacingReads
  PROVE  ReadsInv'
<1>1. liner' # "none" \/ raced'
  BY DEF Fill, Filling, Scan, LinerEnds, Callback, RacingReads
<1> QED BY <1>1 DEF ReadsInv, OnlyLines

-----------------------------------------------------------------------------
(* The lines that are called.                                              *)

\* Nothing was called yet.
LEMMA CallsInitially ==
  ASSUME pos' = 0, part' = <<>>, buf' = <<>>, lines' = <<>>, liner' = "none"
  PROVE  CallsInv'
<1>1. Interval(0, 0) = <<>>
  BY IntervalIs
<1>2. CallsAt(0, 0)'
  BY <1>1 DEF CallsAt, LineStartsAt, CalledUpTo, LinerAt, TextLine, Line
<1>3. 0 \in 0 .. pos'
  OBVIOUS
<1> QED BY <1>2, <1>3 DEF CallsInv

\* What is a line up to s was one before.
LEMMA TextLineWas ==
  ASSUME ReaderTypes, DataKept, NEW s \in 0 .. pos, LineStartsAt(s),
         NEW m \in 0 .. s, NEW n \in 0 .. s, TextLine(m, n)'
  PROVE  TextLine(m, n)
<1>1. pos \in Nat /\ Len(data) \in Nat /\ Len(data') \in Nat /\ pos <= Len(data)
  BY TypesAre DEF DataKept
<1>2. m < n /\ n \in 1 .. pos /\ m \in 0 .. pos
  BY <1>1 DEF TextLine, Line
<1>3. /\ data'[n] = data[n] /\ (m # 0 => data'[m] = data[m])
      /\ \A b \in m + 1 .. n - 1 : data'[b] = data[b]
  BY <1>1, <1>2 DEF DataKept
<1>4. CASE data'[n] = "nl"
  BY <1>2, <1>3, <1>4 DEF TextLine, Line
<1>5. CASE end' = "eof" /\ n = Len(data') /\ data'[n] # "nl"
  <2>1. n = Len(data) /\ n = s
    BY <1>1, <1>2, <1>5 DEF DataKept
  <2>2. end = "eof"
    BY <1>2, <1>3, <1>5, <2>1 DEF LineStartsAt, AtEnd, DataKept
  <2> QED BY <1>2, <1>3, <2>1, <2>2 DEF TextLine, Line
<1> QED BY <1>4, <1>5 DEF TextLine, Line

LEMMA CallsKept ==
  ASSUME ReaderTypes, CallsInv, DataKept, UNCHANGED <<got, buf, part, lines, results, raced>>,
         OnlyCalls' => OnlyCalls,
         liner' = liner \/ (liner = "none" /\ liner' = "read"),
         end' # "error" => end # "error", ~closed' => ~closed
  PROVE  CallsInv'
<1>1. pos \in Nat /\ Len(data) \in Nat /\ pos <= Len(data)
  BY TypesAre
<1>2. AtEnd => AtEnd'
  BY DEF AtEnd, DataKept
<1>3. ASSUME NEW s \in 0 .. pos, NEW m \in s .. pos, CallsAt(s, m)
      PROVE  CallsAt(s, m)'
  <2>1. m \in Nat /\ m <= pos /\ (s = 0 \/ s \in 1 .. pos) /\ (m = 0 \/ m \in 1 .. pos)
    BY <1>1
  <2>2. LineStartsAt(s)'
    BY <1>2, <1>3, <2>1 DEF CallsAt, LineStartsAt, DataKept
  <2>3. CalledUpTo(s)'
    <3>1. ASSUME NEW a \in 0 .. s, NEW b \in 0 .. s
          PROVE  TextLine(a, b) <=> TextLine(a, b)'
      <4>1. TextLine(a, b)' => TextLine(a, b)
        BY <1>3, TextLineWas DEF CallsAt
      <4>2. ASSUME TextLine(a, b) PROVE TextLine(a, b)'
        <5>1. a \in 0 .. pos /\ b \in 0 .. pos /\ Line(a, b)
          BY <1>1, <4>2 DEF TextLine
        <5>2. Line(a, b)'
          BY <5>1, LineKept DEF DataKept
        <5>3. b \in 1 .. pos
          BY <5>1 DEF Line
        <5> QED BY <4>2, <5>2, <5>3 DEF TextLine, DataKept
      <4> QED BY <4>1, <4>2
    <3> QED BY <1>3, <3>1 DEF CallsAt, CalledUpTo
  <2>4. LinerAt(s, m)'
    <3>1. LinerAt(s, m) /\ pos' = pos
      BY <1>3 DEF CallsAt, DataKept
    <3>2. \A b \in s + 1 .. m - 1 : b \in 1 .. pos
      BY <1>1, <2>1
    <3>3. CASE liner' = liner
      BY <1>2, <2>1, <3>1, <3>2, <3>3 DEF LinerAt, DataKept
    <3>4. CASE liner = "none" /\ liner' = "read"
      <4>1. s = 0 /\ m = 0
        BY <1>1, <2>1, <3>1, <3>4 DEF LinerAt
      <4> QED BY <2>1, <3>1, <3>2, <3>4, <4>1 DEF LinerAt, DataKept
    <3> QED BY <3>3, <3>4
  <2> QED BY <2>2, <2>3, <2>4 DEF CallsAt
<1>4. OnlyCalls' => \E s \in 0 .. pos' : \E m \in s .. pos' : CallsAt(s, m)'
  BY <1>3 DEF CallsInv, DataKept
<1> QED BY <1>4 DEF CallsInv

LEMMA CallsSourceStep ==
  ASSUME ReaderTypes, SourceInv, CallsInv,
         \/ \E n \in 0 .. MaxBytes : \E s \in [1 .. n -> Bytes] : FromString(s)
         \/ HttpDo \/ \E ok \in BOOLEAN : HttpResponse(ok)
         \/ \E b \in Bytes : Arrive(b)
         \/ \E how \in {"eof", "error"} : BodyEnds(how)
         \/ \E n \in Sizes : Read("size", n)
         \/ \E mode \in {"all", "line"} : Read(mode, 0)
         \/ Close \/ WithLineCallback
  PROVE  CallsInv'
<1>1. CASE \/ \E n \in 0 .. MaxBytes : \E s \in [1 .. n -> Bytes] : FromString(s)
           \/ HttpDo \/ \E ok \in BOOLEAN : HttpResponse(ok)
  <2>1. source = "none" /\ UNCHANGED <<pos, part, buf, lines, liner>>
    BY <1>1 DEF FromString, HttpDo, HttpResponse, SourceInv, lineVars, sourceVars
  <2> QED BY <2>1, CallsInitially DEF SourceInv
<1>2. CASE \E b \in Bytes : Arrive(b)
  <2>1. PICK b \in Bytes : data' = Append(data, b)
    BY <1>2 DEF Arrive
  <2>2. end = "open" /\ UNCHANGED <<pos, end, closed, got, buf, part, lines, results, liner, raced, op>>
    BY <1>2 DEF Arrive, readVars, lineVars
  <2>3. data \in Seq(Bytes) /\ pos \in 0 .. Len(data)
    BY TypesAre
  <2>4. DataKept
    BY <2>1, <2>2, <2>3 DEF DataKept
  <2> QED BY <2>2, <2>4, CallsKept DEF OnlyCalls
<1>3. CASE \/ \E how \in {"eof", "error"} : BodyEnds(how)
           \/ \E n \in Sizes : Read("size", n)
           \/ \E mode \in {"all", "line"} : Read(mode, 0)
           \/ Close \/ WithLineCallback
  <2>1. /\ UNCHANGED <<data, pos, got, buf, part, lines, results, raced>>
        /\ end = "open" \/ end' = end
        /\ ~closed' => ~closed
        /\ liner' = liner \/ (liner = "none" /\ liner' = "read")
    BY <1>3 DEF BodyEnds, Read, Close, WithLineCallback, Idle, sourceVars, readVars, lineVars
  <2>2. Len(data) \in Nat
    BY TypesAre
  <2>3. DataKept
    BY <2>1, <2>2 DEF DataKept
  <2>4. (end' # "error" => end # "error") /\ (OnlyCalls' => OnlyCalls)
    BY <2>1 DEF OnlyCalls
  <2> QED BY <2>1, <2>3, <2>4, CallsKept
<1> QED BY <1>1, <1>2, <1>3

\* When a read has taken something, nothing is said of the lines called; it cannot
\* after the end, where the goroutine has ended.
LEMMA CallsReadStep ==
  ASSUME ReaderTypes, CallsInv, Take \/ TakeEnd
  PROVE  CallsInv'
<1>1. CASE TakeEnd
  <2>1. PICK why \in {"bytes", "nil", "error"} : Result(got, why)
    BY <1>1 DEF TakeEnd
  <2>2. results' # <<>>
    <3>1. /\ results' \in Seq(ResultSet) /\ Len(results') = Len(results) + 1
          /\ results \in Seq(ResultSet)
      BY <1>1, <2>1, TypesAre, ResultIs DEF TakeEnd
    <3> HIDE DEF ResultSet
    <3> QED BY <3>1
  <2> QED BY <2>2 DEF CallsInv, OnlyCalls
<1>2. CASE Take
  <2>1. PICK n \in Given(Wanted) : Takes(n) /\ pos' = pos + n
    BY <1>2 DEF Take
  <2>2. Reading /\ op \in Modes /\ Available > 0 /\ UNCHANGED <<end, closed, liner, raced, data>>
    BY <1>2 DEF Take, Reading, sourceVars, lineVars
  <2> DEFINE new == got \o Interval(pos, pos + n)
  <2>3. /\ new \in Seq(Nat)
        /\ Result(new, "bytes") \/ (got' = new /\ UNCHANGED results)
    BY <2>1, <2>2, TakesIs
  <2>4. new # <<>>
    <3>1. pos \in Nat /\ pos + n \in Nat /\ pos < pos + n /\ got \in Seq(Nat)
      BY <2>2, TakeIs, TypesAre
    <3>2. Interval(pos, pos + n) \in Seq(Nat) /\ Interval(pos, pos + n) # <<>>
      BY <3>1, IntervalIs
    <3> DEFINE more == Interval(pos, pos + n)
    <3> HIDE DEF more
    <3>3. got \o more # <<>>
      BY ONLY <3>1, <3>2, ConcatEqualIffEmpty DEF more
    <3> QED BY <3>3 DEF more
  <2> HIDE DEF new
  <2>5. CASE Result(new, "bytes")
    <3>1. /\ results' \in Seq(ResultSet) /\ Len(results') = Len(results) + 1
          /\ results \in Seq(ResultSet)
      BY <2>2, <2>3, <2>5, TypesAre, ResultIs
    <3>2. results' # <<>>
      <4> HIDE DEF ResultSet
      <4> QED BY <3>1
    <3> QED BY <3>2 DEF CallsInv, OnlyCalls
  <2>6. CASE got' = new /\ UNCHANGED results
    <3>1. ~OnlyCalls'
      BY <2>4, <2>6 DEF OnlyCalls
    <3> SUFFICES ASSUME results = <<>>, ~raced, ~closed, end # "error", liner = "gone"
                 PROVE  FALSE
      BY <2>2, <2>6, <3>1 DEF CallsInv
    <3>2. \E s \in 0 .. pos : \E m \in s .. pos : CallsAt(s, m)
      BY DEF CallsInv, OnlyCalls
    <3>3. AtEnd
      BY <3>2 DEF CallsAt, LinerAt
    <3> QED BY <2>2, <3>3, TypesAre DEF AtEnd, Available
  <2> QED BY <2>3, <2>5, <2>6
<1> QED BY <1>1, <1>2

\* What was called depends on nothing else.
LEMMA CalledSame ==
  ASSUME UNCHANGED <<data, end, lines>>, NEW s, CalledUpTo(s)
  PROVE  CalledUpTo(s)'
BY DEF CalledUpTo, TextLine, Line

LEMMA CallsFillStep ==
  ASSUME ReaderTypes, CallsInv, Fill
  PROVE  CallsInv'
<1>1. PICK n \in Given(Available) : buf' = Interval(pos, pos + n) /\ pos' = pos + n
  BY DEF Fill
<1>2. /\ UNCHANGED <<data, end, closed, got, liner, part, lines, results, raced>>
      /\ liner = "read" /\ buf = <<>> /\ Available > 0
  BY DEF Fill, Filling, sourceVars, readVars
<1>3. pos \in Nat /\ pos + n \in Nat /\ pos <= pos + n /\ ~AtEnd
  <2>1. Available \in Nat \ {0}
    BY <1>2, TypesAre DEF Available
  <2>2. n \in 1 .. Available
    BY <2>1, GivenIs
  <2> QED BY <1>2, <2>1, <2>2, TypesAre DEF AtEnd, Available
<1> SUFFICES ASSUME OnlyCalls'
             PROVE  \E s \in 0 .. pos' : \E m \in s .. pos' : CallsAt(s, m)'
  BY <1>2 DEF CallsInv
<1>4. PICK s \in 0 .. pos : \E k \in s .. pos : CallsAt(s, k)
  BY <1>2 DEF CallsInv, OnlyCalls
<1>5. PICK m \in s .. pos : CallsAt(s, m)
  BY <1>4
<1>6. m = pos
  <2>1. m \in Nat /\ m <= pos
    BY <1>3
  <2>2. m < pos => Interval(m, pos) # <<>>
    BY <1>3, <2>1, IntervalIs
  <2>3. Interval(m, pos) = <<>>
    BY <1>2, <1>5 DEF CallsAt, LinerAt
  <2> QED BY <1>3, <2>1, <2>2, <2>3
<1>7. LineStartsAt(s)' /\ CalledUpTo(s)'
  BY <1>2, <1>3, <1>5, CalledSame DEF CallsAt, LineStartsAt
<1>8. LinerAt(s, m)'
  BY <1>1, <1>2, <1>5, <1>6 DEF CallsAt, LinerAt
<1>9. s \in 0 .. pos' /\ m \in s .. pos'
  BY <1>1, <1>3
<1> QED BY <1>7, <1>8, <1>9 DEF CallsAt

\* A line after s that ends at m is the only one up to m.
LEMMA NextLineIs ==
  ASSUME ReaderTypes, NEW s \in Nat, NEW m \in Nat, s < m, m <= pos, LineStartsAt(s),
         \A b \in s + 1 .. m - 1 : data[b] # "nl",
         NEW x \in 0 .. m, NEW y \in 0 .. m, Line(x, y), s < y
  PROVE  x = s /\ y = m
<1>1. pos \in Nat /\ Len(data) \in Nat /\ pos <= Len(data)
  BY TypesAre
<1>2. s = 0 \/ data[s] = "nl"
  BY <1>1 DEF LineStartsAt
<1>3. x < y
  BY DEF Line
<1>4. ~(x < s)
  <2> SUFFICES ASSUME x < s PROVE FALSE
    OBVIOUS
  <2>1. s \in x + 1 .. y - 1 /\ s # 0
    BY <1>3
  <2> QED BY <1>2, <2>1 DEF Line
<1>5. ~(s < x)
  <2> SUFFICES ASSUME s < x PROVE FALSE
    OBVIOUS
  <2>1. x \in s + 1 .. m - 1 /\ x # 0
    BY <1>3
  <2> QED BY <2>1 DEF Line
<1>6. ~(y < m)
  <2> SUFFICES ASSUME y < m PROVE FALSE
    OBVIOUS
  <2>1. y \in s + 1 .. m - 1 /\ y # Len(data)
    BY <1>1
  <2> QED BY <2>1 DEF Line
<1> QED BY <1>4, <1>5, <1>6

\* The line that was read is called.
LEMMA CalledNext ==
  ASSUME ReaderTypes, NEW s \in Nat, NEW m \in Nat, s < m, m <= pos, LineStartsAt(s),
         \A b \in s + 1 .. m - 1 : data[b] # "nl", TextLine(s, m), CalledUpTo(s),
         part = Interval(s, m), lines' = Append(lines, part), UNCHANGED <<data, end>>
  PROVE  CalledUpTo(m)'
<1>1. PICK last : last = Len(lines) + 1
  OBVIOUS
<1>2. /\ lines \in Seq(Seq(Nat)) /\ part \in Seq(Nat)
      /\ lines' \in Seq(Seq(Nat)) /\ Len(lines') = last /\ last \in Nat \ {0}
      /\ DOMAIN lines = 1 .. last - 1 /\ DOMAIN lines' = 1 .. last
      /\ lines'[last] = part /\ \A l \in 1 .. last - 1 : lines'[l] = lines[l]
  <2>1. lines \in Seq(Seq(Nat)) /\ part \in Seq(Nat)
    BY TypesAre
  <2> QED BY <1>1, <2>1, AppendProperties
<1>3. \A x, y : TextLine(x, y)' <=> TextLine(x, y)
  BY DEF TextLine, Line
<1>4. \A l \in DOMAIN lines : \E x, y \in 0 .. s :
        /\ TextLine(x, y) /\ lines[l] = Interval(x, y)
        /\ \A k \in 1 .. l - 1 : Last(lines[k]) <= x
  BY DEF CalledUpTo
<1>5. ASSUME NEW l \in 1 .. last
      PROVE  \E x, y \in 0 .. m :
               /\ TextLine(x, y) /\ lines'[l] = Interval(x, y)
               /\ \A k \in 1 .. l - 1 : Last(lines'[k]) <= x
  <2>1. \A k \in 1 .. l - 1 : k \in 1 .. last - 1 /\ lines'[k] = lines[k]
    BY <1>2
  <2>2. CASE l \in 1 .. last - 1
    <3>1. PICK x \in 0 .. s, y \in 0 .. s :
            /\ TextLine(x, y) /\ lines[l] = Interval(x, y)
            /\ \A k \in 1 .. l - 1 : Last(lines[k]) <= x
      BY <1>2, <1>4, <2>2
    <3>2. x \in 0 .. m /\ y \in 0 .. m /\ lines'[l] = Interval(x, y)
      BY <1>2, <2>2, <3>1
    <3>3. \A k \in 1 .. l - 1 : Last(lines'[k]) <= x
      BY <2>1, <3>1
    <3> QED BY <3>1, <3>2, <3>3
  <2>3. CASE l = last
    <3>1. ASSUME NEW k \in 1 .. last - 1
          PROVE  Last(lines[k]) <= s
      <4>1. PICK x \in 0 .. s, y \in 0 .. s : TextLine(x, y) /\ lines[k] = Interval(x, y)
        BY <1>2, <1>4
      <4>2. x \in Nat /\ y \in Nat /\ x < y /\ x <= y /\ y <= s
        BY <4>1 DEF TextLine, Line
      <4>3. Last(Interval(x, y)) = y
        BY ONLY <4>2, IntervalIs
      <4> QED BY <4>1, <4>2, <4>3
    <3>2. \A k \in 1 .. l - 1 : Last(lines'[k]) <= s
      BY <2>1, <3>1
    <3>3. s \in 0 .. m /\ m \in 0 .. m /\ lines'[l] = Interval(s, m)
      BY <1>2, <2>3
    <3> QED BY <3>2, <3>3
  <2>4. l \in 1 .. last - 1 \/ l = last
    BY <1>2
  <2> QED BY <2>2, <2>3, <2>4
<1>6. ASSUME NEW x \in 0 .. m, NEW y \in 0 .. m, TextLine(x, y)
      PROVE  Contains(lines', Interval(x, y))
  <2>1. CASE y <= s
    <3>1. x \in 0 .. s /\ y \in 0 .. s
      BY <1>6, <2>1 DEF TextLine, Line
    <3>2. PICK l \in 1 .. Len(lines) : lines[l] = Interval(x, y)
      BY <1>6, <3>1 DEF CalledUpTo, Contains
    <3>3. l \in 1 .. last - 1 /\ l \in 1 .. last
      BY <1>1, <1>2
    <3> QED BY <1>2, <3>2, <3>3 DEF Contains
  <2>2. CASE ~(y <= s)
    <3>1. x = s /\ y = m
      <4>1. s < y
        BY <2>2
      <4> QED BY <1>6, <4>1, NextLineIs DEF TextLine
    <3>2. last \in 1 .. last
      BY <1>2
    <3> QED BY <1>2, <3>1, <3>2 DEF Contains
  <2> QED BY <2>1, <2>2
<1> QED BY <1>2, <1>3, <1>5, <1>6 DEF CalledUpTo

\* The goroutine moves a byte to the line it reads.
LEMMA CallsScanStep ==
  ASSUME ReaderTypes, CallsInv, Scan
  PROVE  CallsInv'
<1>1. /\ UNCHANGED <<data, end, closed, got, pos, lines, results, raced>>
      /\ liner = "read" /\ buf # <<>> /\ buf' = Tail(buf) /\ liner' \in {"read", "call"}
      /\ IF data[Head(buf)] # "nl"
           THEN part' = Append(part, Head(buf)) /\ liner' = "read"
           ELSE /\ part' = IF part = <<>> THEN <<>> ELSE Append(part, Head(buf))
                /\ liner' = IF part = <<>> THEN "read" ELSE "call"
  BY DEF Scan, sourceVars, readVars
<1>2. pos \in Nat /\ Len(data) \in Nat /\ pos <= Len(data)
  BY TypesAre
<1> SUFFICES ASSUME OnlyCalls'
             PROVE  \E s \in 0 .. pos' : \E m \in s .. pos' : CallsAt(s, m)'
  BY <1>1 DEF CallsInv
<1>3. PICK s \in 0 .. pos : \E k \in s .. pos : CallsAt(s, k)
  BY <1>1 DEF CallsInv, OnlyCalls
<1>4. PICK m \in s .. pos : CallsAt(s, m)
  BY <1>3
<1>5. PICK p : p = m + 1
  OBVIOUS
<1>6. s \in Nat /\ m \in Nat /\ p \in Nat /\ s <= m /\ m <= p /\ m <= pos /\ s <= p /\ p = m + 1
  BY <1>2, <1>5
<1>7. part = Interval(s, m) /\ buf = Interval(m, pos)
  BY <1>4 DEF CallsAt, LinerAt
<1>8. m < pos /\ p <= pos
  <2>1. m = pos => Interval(m, pos) = <<>>
    BY <1>2, <1>6, IntervalIs
  <2> QED BY <1>1, <1>2, <1>6, <1>7, <2>1
<1>9. Head(buf) = p /\ buf' = Interval(p, pos)
  <2>1. Head(Interval(m, pos)) = m + 1 /\ Tail(Interval(m, pos)) = Interval(m + 1, pos)
    BY ONLY <1>2, <1>6, <1>8, IntervalSplits
  <2> QED BY <1>1, <1>5, <1>7, <2>1
<1>10. Append(part, p) = Interval(s, p)
  <2>1. Interval(s, m) \o Interval(m, p) = Interval(s, p)
    BY ONLY <1>6, IntervalsJoin
  <2>2. Interval(m, p) = <<p>>
    <3>1. /\ Interval(m, p) \in Seq(Nat) /\ Len(Interval(m, p)) = p - m
          /\ \A i \in 1 .. p - m : Interval(m, p)[i] = m + i
      BY ONLY <1>6, IntervalIs
    <3>2. p - m = 1 /\ 1 \in 1 .. p - m
      BY <1>6
    <3> DEFINE t == Interval(m, p)
    <3> HIDE DEF t
    <3>3. t \in Seq(Nat) /\ Len(t) = 1 /\ t[1] = p
      BY <1>6, <3>1, <3>2 DEF t
    <3>4. t = <<p>>
      BY <3>3
    <3> QED BY <3>4 DEF t
  <2>3. Append(part, p) = part \o <<p>>
    BY <1>6, TypesAre, AppendIsConcat
  <2> QED BY <1>7, <2>1, <2>2, <2>3
<1>11. /\ s = 0 \/ data[s] = "nl"
       /\ \A b \in s + 1 .. p - 1 : data[b] # "nl"
  <2>1. s = 0 \/ data[s] = "nl"
    BY <1>4, <1>6, <1>8 DEF CallsAt, LineStartsAt
  <2>2. \A b \in s + 1 .. p - 1 : b \in s + 1 .. m - 1 \/ (b = m /\ s < m)
    BY <1>6
  <2> QED BY <1>1, <1>4, <2>1, <2>2 DEF CallsAt, LinerAt
<1>12. CalledUpTo(s)' /\ LineStartsAt(s)'
  BY <1>1, <1>4, <1>11, CalledSame DEF CallsAt, LineStartsAt
<1>13. p \in s .. pos' /\ s \in 0 .. pos' /\ p \in 0 .. pos' /\ p \in p .. pos'
  BY <1>1, <1>2, <1>6, <1>8
<1>14. CASE data[p] # "nl"
  <2>1. part' = Interval(s, p) /\ liner' = "read"
    BY <1>1, <1>9, <1>10, <1>14
  <2>2. LinerAt(s, p)'
    BY <1>1, <1>9, <1>11, <1>14, <2>1 DEF LinerAt
  <2> QED BY <1>12, <1>13, <2>2 DEF CallsAt
<1>15. CASE data[p] = "nl" /\ part # <<>>
  <2>1. part' = Interval(s, p) /\ liner' = "call"
    BY <1>1, <1>9, <1>10, <1>15
  <2>2. s < m
    <3>1. s = m => Interval(s, m) = <<>>
      BY <1>6, IntervalIs
    <3> QED BY <1>6, <1>7, <1>15, <3>1
  <2>3. LinerAt(s, p)'
    BY <1>1, <1>6, <1>9, <1>11, <1>15, <2>1, <2>2 DEF LinerAt
  <2> QED BY <1>12, <1>13, <2>3 DEF CallsAt
<1>16. CASE data[p] = "nl" /\ part = <<>>
  <2>1. part' = <<>> /\ liner' = "read"
    BY <1>1, <1>9, <1>16
  <2>2. s = m
    <3>1. s < m => Interval(s, m) # <<>>
      BY <1>6, IntervalIs
    <3> QED BY <1>6, <1>7, <1>16, <3>1
  <2>3. CalledUpTo(p)'
    <3>1. \A x \in 0 .. s : x \in 0 .. p
      BY <1>6
    <3>2. \A l \in DOMAIN lines : \E x, y \in 0 .. p :
            /\ TextLine(x, y) /\ lines[l] = Interval(x, y)
            /\ \A k \in 1 .. l - 1 : Last(lines[k]) <= x
      BY <1>4, <3>1 DEF CallsAt, CalledUpTo
    <3>3. ASSUME NEW x \in 0 .. p, NEW y \in 0 .. p, TextLine(x, y)
          PROVE  Contains(lines, Interval(x, y))
      <4>1. CASE y <= s
        <5>1. x \in 0 .. s /\ y \in 0 .. s
          BY <3>3, <4>1, <1>6 DEF TextLine, Line
        <5> QED BY <1>4, <3>3, <5>1 DEF CallsAt, CalledUpTo
      <4>2. CASE ~(y <= s)
        <5>1. s < y /\ s < p
          BY <1>6, <2>2, <4>2
        <5>2. LineStartsAt(s) /\ Line(x, y)
          BY <1>4, <3>3 DEF CallsAt, TextLine
        <5>3. x = s /\ y = p
          BY <1>6, <1>8, <1>11, <5>1, <5>2, NextLineIs
        <5> QED BY <1>6, <1>16, <2>2, <3>3, <5>3 DEF TextLine
      <4> QED BY <4>1, <4>2
    <3>4. \A x, y : TextLine(x, y)' <=> TextLine(x, y)
      BY <1>1 DEF TextLine, Line
    <3> QED BY <1>1, <3>2, <3>3, <3>4 DEF CalledUpTo
  <2>4. LinerAt(p, p)'
    <3>1. Interval(p, p) = <<>>
      BY <1>6, IntervalIs
    <3>2. \A b \in p + 1 .. p - 1 : FALSE
      BY <1>6
    <3>3. ~(p < p)
      BY <1>6
    <3> QED BY <1>1, <1>9, <2>1, <3>1, <3>2, <3>3 DEF LinerAt
  <2>5. LineStartsAt(p)'
    BY <1>1, <1>16 DEF LineStartsAt
  <2> QED BY <1>13, <2>3, <2>4, <2>5 DEF CallsAt
<1> QED BY <1>14, <1>15, <1>16

\* The goroutine has come to the end of the source.
LEMMA CallsLinerEndsStep ==
  ASSUME ReaderTypes, CallsInv, LinerEnds
  PROVE  CallsInv'
<1>1. /\ UNCHANGED <<data, end, closed, got, pos, buf, part, lines, results, raced>>
      /\ liner = "read" /\ buf = <<>> /\ liner' = IF part = <<>> THEN "end" ELSE "last"
      /\ closed \/ (Available = 0 /\ end # "open")
  BY DEF LinerEnds, sourceVars, readVars
<1>2. pos \in Nat /\ Len(data) \in Nat /\ pos <= Len(data)
  BY TypesAre
<1> SUFFICES ASSUME OnlyCalls'
             PROVE  \E s \in 0 .. pos' : \E m \in s .. pos' : CallsAt(s, m)'
  BY <1>1 DEF CallsInv
<1>3. PICK s \in 0 .. pos : \E k \in s .. pos : CallsAt(s, k)
  BY <1>1 DEF CallsInv, OnlyCalls
<1>4. PICK m \in s .. pos : CallsAt(s, m)
  BY <1>3
<1>5. s \in Nat /\ m \in Nat /\ s <= m /\ m <= pos
  BY <1>2
<1>6. part = Interval(s, m) /\ buf = Interval(m, pos)
  BY <1>4 DEF CallsAt, LinerAt
<1>7. m = pos
  <2>1. m < pos => Interval(m, pos) # <<>>
    BY <1>2, <1>5, IntervalIs
  <2> QED BY <1>1, <1>2, <1>5, <1>6, <2>1
<1>8. AtEnd
  BY <1>1, <1>2, TypesAre DEF OnlyCalls, Available, AtEnd
<1>9. AtEnd' /\ CalledUpTo(s)' /\ LineStartsAt(s)'
  BY <1>1, <1>4, <1>8, CalledSame DEF CallsAt, LineStartsAt, AtEnd
<1>10. IF part = <<>> THEN s = m ELSE s < m
  <2>1. s < m => Interval(s, m) # <<>>
    BY <1>5, IntervalIs
  <2>2. s = m => Interval(s, m) = <<>>
    BY <1>5, IntervalIs
  <2> QED BY <1>5, <1>6, <2>1, <2>2
<1>11. LinerAt(s, m)'
  BY <1>1, <1>4, <1>7, <1>9, <1>10 DEF CallsAt, LinerAt
<1> QED BY <1>1, <1>9, <1>11 DEF CallsAt

\* The callback of a line was called.
LEMMA CallsCallbackStep ==
  ASSUME ReaderTypes, CallsInv, Callback
  PROVE  CallsInv'
<1>1. /\ UNCHANGED <<data, end, closed, got, pos, buf, results, raced>>
      /\ op = "none" /\ got = <<>>
      /\ \/ liner = "end" /\ liner' = "gone" /\ UNCHANGED <<part, lines>>
         \/ /\ \/ liner = "call" /\ liner' = "read"
               \/ liner = "last" /\ liner' = "end"
            /\ part' = <<>> /\ lines' = Append(lines, part)
  BY TypesAre DEF Callback, sourceVars, readVars
<1>2. pos \in Nat /\ Len(data) \in Nat /\ pos <= Len(data)
  BY TypesAre
<1> SUFFICES ASSUME OnlyCalls'
             PROVE  \E s \in 0 .. pos' : \E m \in s .. pos' : CallsAt(s, m)'
  BY <1>1 DEF CallsInv
<1>3. PICK s \in 0 .. pos : \E k \in s .. pos : CallsAt(s, k)
  BY <1>1 DEF CallsInv, OnlyCalls
<1>4. PICK m \in s .. pos : CallsAt(s, m)
  BY <1>3
<1>5. s \in Nat /\ m \in Nat /\ s <= m /\ m <= pos
  BY <1>2
<1>6. LinerAt(s, m) /\ CalledUpTo(s) /\ LineStartsAt(s)
  BY <1>4 DEF CallsAt
<1>7. CASE liner = "end" /\ liner' = "gone" /\ UNCHANGED <<part, lines>>
  <2>1. CalledUpTo(s)' /\ LineStartsAt(s)'
    BY <1>1, <1>6, <1>7, CalledSame DEF LineStartsAt, AtEnd
  <2>2. LinerAt(s, m)'
    BY <1>1, <1>6, <1>7 DEF LinerAt, AtEnd
  <2> QED BY <1>1, <2>1, <2>2 DEF CallsAt
<1>8. CASE /\ \/ liner = "call" /\ liner' = "read"
              \/ liner = "last" /\ liner' = "end"
           /\ part' = <<>> /\ lines' = Append(lines, part)
  <2>1. /\ s < m /\ part = Interval(s, m) /\ buf = Interval(m, pos)
        /\ \A b \in s + 1 .. m - 1 : data[b] # "nl"
    BY <1>5, <1>6, <1>8 DEF LinerAt
  <2>2. s = 0 \/ data[s] = "nl"
    BY <1>2, <1>5, <1>6, <2>1 DEF LineStartsAt
  <2>3. liner = "call" => data[m] = "nl" /\ m > s + 1
    BY <1>6 DEF LinerAt
  <2>4. liner = "last" => data[m] # "nl" /\ AtEnd /\ m = pos
    BY <1>6, <2>1 DEF LinerAt
  <2>5. TextLine(s, m)
    BY <1>5, <1>8, <2>1, <2>2, <2>3, <2>4 DEF TextLine, Line, AtEnd
  <2>6. CalledUpTo(m)'
    BY <1>1, <1>5, <1>6, <1>8, <2>1, <2>5, CalledNext
  <2>7. LineStartsAt(m)'
    BY <1>1, <1>8, <2>3, <2>4 DEF LineStartsAt, AtEnd
  <2>8. LinerAt(m, m)'
    <3>1. Interval(m, m) = <<>>
      BY <1>5, IntervalIs
    <3>2. (\A b \in m + 1 .. m - 1 : FALSE) /\ ~(m < m)
      BY <1>5
    <3> QED BY <1>1, <1>8, <2>1, <2>4, <3>1, <3>2 DEF LinerAt, AtEnd
  <2>9. m \in 0 .. pos' /\ m \in m .. pos'
    BY <1>1, <1>2, <1>5
  <2> QED BY <2>6, <2>7, <2>8, <2>9 DEF CallsAt
<1> QED BY <1>1, <1>7, <1>8

-----------------------------------------------------------------------------
(* The invariant, and what follows.                                        *)

LEMMA ReaderStep == ReaderInv /\ [Next]_vars => ReaderInv'
<1> SUFFICES ASSUME ReaderInv, [Next]_vars PROVE ReaderInv'
  OBVIOUS
<1>1. ReaderTypes /\ SourceInv /\ BytesInv /\ ReadsInv /\ CallsInv
  BY DEF ReaderInv
<1>2. CASE \/ \E n \in 0 .. MaxBytes : \E s \in [1 .. n -> Bytes] : FromString(s)
           \/ HttpDo \/ \E ok \in BOOLEAN : HttpResponse(ok)
           \/ \E b \in Bytes : Arrive(b)
           \/ \E how \in {"eof", "error"} : BodyEnds(how)
           \/ \E n \in Sizes : Read("size", n)
           \/ \E mode \in {"all", "line"} : Read(mode, 0)
           \/ Close \/ WithLineCallback
  <2>1. ReaderTypes' /\ SourceInv'
    BY ONLY <1>1, <1>2, SourceTypes
  <2>2. BytesInv'
    BY ONLY <1>1, <1>2, BytesSourceStep
  <2>3. ReadsInv'
    BY ONLY <1>1, <1>2, ReadsSourceStep
  <2>4. CallsInv'
    BY ONLY <1>1, <1>2, CallsSourceStep
  <2> QED BY <2>1, <2>2, <2>3, <2>4 DEF ReaderInv
<1>3. CASE LoopStep
  <2>1. CASE Take
    <3>1. ReaderTypes' /\ SourceInv'
      BY ONLY <1>1, <2>1, ReadTypes
    <3>2. BytesInv'
      <4>1. raced' = raced
        BY <2>1 DEF Take
      <4> QED BY <1>1, <2>1, <4>1, BytesTakeStep DEF BytesInv
    <3>3. ReadsInv' /\ CallsInv'
      BY ONLY <1>1, <2>1, ReadsTakeStep, CallsReadStep
    <3> QED BY <3>1, <3>2, <3>3 DEF ReaderInv
  <2>2. CASE TakeEnd
    <3>1. ReaderTypes' /\ SourceInv'
      BY ONLY <1>1, <2>2, ReadTypes
    <3>2. BytesInv'
      <4>1. raced' = raced
        BY <2>2 DEF TakeEnd
      <4> QED BY <1>1, <2>2, <4>1, BytesTakeEndStep DEF BytesInv
    <3>3. ReadsInv' /\ CallsInv'
      BY ONLY <1>1, <2>2, ReadsTakeEndStep, CallsReadStep
    <3> QED BY <3>1, <3>2, <3>3 DEF ReaderInv
  <2> QED BY <1>3, <2>1, <2>2 DEF LoopStep
<1>4. CASE Liner \/ Callback
  <2>1. Fill \/ Scan \/ LinerEnds \/ Callback
    BY <1>4 DEF Liner
  <2>2. ReaderTypes' /\ SourceInv'
    BY ONLY <1>1, <2>1, LinerTypes
  <2>3. BytesInv'
    <3>1. raced' = raced
      BY <2>1 DEF Fill, Scan, LinerEnds, Callback
    <3> QED BY <1>1, <2>1, <3>1, BytesFillStep, BytesScanStep, BytesCallbackStep DEF BytesInv
  <2>4. ReadsInv'
    BY ONLY <2>1, ReadsLinerStep
  <2>5. CallsInv'
    BY ONLY <1>1, <2>1, CallsFillStep, CallsScanStep, CallsLinerEndsStep, CallsCallbackStep
  <2> QED BY <2>2, <2>3, <2>4, <2>5 DEF ReaderInv
<1>5. CASE RacingReads
  <2>1. ReaderTypes' /\ SourceInv'
    BY ONLY <1>1, <1>5, RacingTypes
  <2>2. raced'
    BY <1>5 DEF RacingReads
  <2> QED BY <2>1, <2>2 DEF ReaderInv, BytesInv, ReadsInv, OnlyLines, CallsInv, OnlyCalls
<1>6. CASE UNCHANGED vars
  <2> USE <1>6 DEF vars, sourceVars, readVars, lineVars
  <2>1. ReaderTypes' /\ SourceInv'
    BY <1>1 DEF ReaderTypes, TypeOK, SourceInv
  <2>2. BytesInv'
    BY <1>1 DEF BytesInv, Pieces, Covered
  <2>3. ReadsInv'
    BY <1>1 DEF ReadsInv, OnlyLines, LineRead, Line, LineStarts, ReadingFrom, AtEnd
  <2>4. CallsInv'
    BY <1>1 DEF CallsInv, OnlyCalls, CallsAt, LineStartsAt, CalledUpTo, TextLine, Line, LinerAt, AtEnd
  <2> QED BY <2>1, <2>2, <2>3, <2>4 DEF ReaderInv
<1> QED BY <1>2, <1>3, <1>4, <1>5, <1>6 DEF Next

LEMMA ReaderInvariant == Spec => []ReaderInv
<1>1. Init => ReaderInv
  BY ReaderInit
<1>2. ReaderInv /\ [Next]_vars => ReaderInv'
  BY ReaderStep
<1> QED BY <1>1, <1>2, PTL DEF Spec

\* A reader and the goroutine of with_line_callback keep to their states: no more is
\* read than has come, and only a read of everything or of a line holds bytes back
\* (readerRead, WithLineCallback).
THEOREM ReaderTyped == Spec => []TypeOK
<1>1. ReaderInv => TypeOK
  BY DEF ReaderInv, ReaderTypes
<1> QED BY <1>1, ReaderInvariant, PTL

\* Whatever a read takes from the source it returns once, or loses with its error, and
\* what the goroutine reads ahead is called once, as long as the two do not race on a
\* string (readerRead, WithLineCallback).
THEOREM ReaderEveryByteOnce == Spec => []EveryByteOnce
<1>1. ReaderInv => EveryByteOnce
  BY DEF ReaderInv, BytesInv, Covered, EveryByteOnce
<1> QED BY <1>1, ReaderInvariant, PTL

\* The lines that successive reads of "*line" return, and those that a line callback
\* alone is called with, are the lines of the source, all of them, in their order
\* (readerRead, WithLineCallback).
THEOREM ReaderLinesAreSplit == Spec => []LinesAreSplit
<1>1. ASSUME ReaderInv PROVE LinesAreSplit
  <2>1. ReaderTypes /\ ReadsInv /\ CallsInv
    BY <1>1 DEF ReaderInv
  <2>2. pos \in Nat /\ Len(data) \in Nat /\ pos <= Len(data)
    BY <2>1, TypesAre
  <2> SUFFICES ASSUME ~raced, end = "eof" PROVE LinesAreSplit
    BY DEF LinesAreSplit
  <2>3. \A m, n : Line(m, n) <=> IsLine(m, n)
    BY DEF Line, IsLine
  <2>4. \A m, n : TextLine(m, n) <=> IsTextLine(m, n)
    BY <2>3 DEF TextLine, IsTextLine
  <2>5. \A m \in 0 .. pos : m \in 0 .. Len(data)
    BY <2>2
  <2>6. ASSUME liner = "none", \A r \in DOMAIN results : results[r].mode = "line" /\ results[r].why # "error",
               NEW r \in DOMAIN results, results[r].bytes # <<>>
        PROVE  \E m, n \in 0 .. Len(data) :
                 /\ IsLine(m, n) /\ results[r].bytes = Interval(m, n)
                 /\ IF r = 1 THEN m = 0
                    ELSE results[r - 1].bytes # <<>> /\ Last(results[r - 1].bytes) = m
    <3>1. PICK m \in 0 .. pos, n \in 0 .. pos : LineRead(r, m, n)
      BY <2>1, <2>6 DEF ReadsInv, OnlyLines
    <3> QED BY <2>3, <2>5, <3>1 DEF LineRead, LineStarts
  <2>7. ASSUME results = <<>>, liner = "gone", ~closed
        PROVE  /\ \A l \in DOMAIN lines : \E m, n \in 0 .. Len(data) :
                    /\ IsTextLine(m, n) /\ lines[l] = Interval(m, n)
                    /\ \A k \in 1 .. l - 1 : Last(lines[k]) <= m
               /\ \A m, n \in 0 .. Len(data) :
                    IsTextLine(m, n) => Contains(lines, Interval(m, n))
    <3>1. OnlyCalls
      BY <2>1, <2>7 DEF CallsInv, OnlyCalls
    <3>2. PICK s \in 0 .. pos : \E m \in s .. pos : CallsAt(s, m)
      BY <2>1, <3>1 DEF CallsInv
    <3>3. s = Len(data) /\ CalledUpTo(s)
      BY <2>7, <3>2 DEF CallsAt, LinerAt, AtEnd
    <3> QED BY <2>4, <3>3 DEF CalledUpTo
  <2> QED BY <2>6, <2>7 DEF LinesAreSplit
<1> QED BY <1>1, ReaderInvariant, PTL

=============================================================================
