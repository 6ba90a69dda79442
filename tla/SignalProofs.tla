---------------------------- MODULE SignalProofs ----------------------------
(***************************************************************************)
(* Proofs about signals: about a topic, for any functions, any number of   *)
(* goroutines, emissions, connects and disconnects; and, in the second     *)
(* half, about Extend and GetSignal, for any number of values that are     *)
(* extended.                                                               *)
(***************************************************************************)
EXTENDS Signal, Extend, FiniteSetTheorems, SequenceTheorems, WellFoundedInduction,
        NaturalsInduction, TLAPS


Emission == [emission : Nat, at : Nat]

HistoryInv ==
  /\ emitting \in [Emitters -> Emission]
  /\ subscribed \in Seq(Funcs)
  /\ wanted \in Seq(Seq(Funcs))
  /\ emitter \in Seq(Emitters)
  /\ Len(emitter) = Len(wanted)

\* What is in front of the first nil of the slice h is in the list s as well, at the
\* same place, and if h has no nil it is all of s.
Agrees(h, s) ==
  /\ \A k \in DOMAIN h : (\A j \in 1 .. k : h[j] # Nil) => k <= Len(s) /\ s[k] = h[k]
  /\ (\A j \in DOMAIN h : h[j] # Nil) => Len(s) = Len(h)

\* The places of an emission in a list of callbacks.
CallsOf(e, list) == {i \in DOMAIN list : list[i][1] = e}

\* An emission under way is the last one of its emitter.  The slice did not change since
\* it began, and it has scheduled the callbacks in front of the one it has come to.
UnderWay(p) ==
  LET e == emitting[p].emission
      at == emitting[p].at
  IN /\ emitter[e] = p
     /\ \A d \in Emissions : emitter[d] = p => d <= e
     /\ Agrees(handlers, wanted[e])
     /\ \A k \in 1 .. at - 1 : handlers[k] # Nil
     /\ Cardinality(CallsOf(e, Scheduled)) = at - 1

\* Each callback is for the function that its place in the emission says.
Placed ==
  \A i \in DOMAIN Scheduled :
    LET e == Scheduled[i][1]
    IN Place(i) <= Len(wanted[e]) /\ Scheduled[i][2] = wanted[e][Place(i)]

\* The callbacks of one emitter are in the order of its emissions.
Ordered ==
  \A i, j \in DOMAIN Scheduled :
    i < j /\ emitter[Scheduled[i][1]] = emitter[Scheduled[j][1]]
      => Scheduled[i][1] <= Scheduled[j][1]

SignalInv ==
  /\ TypeOK
  /\ HistoryInv
  /\ Agrees(handlers, subscribed)
  /\ \A p \in Emitters : emitting[p] # NoEmission => UnderWay(p)
  /\ Placed
  /\ Ordered

-----------------------------------------------------------------------------
(* Lemmas about the data.                                                  *)

\* A list without its i-th element.
LEMMA RemoveAtIs ==
  ASSUME NEW S, NEW s \in Seq(S), NEW i \in 1 .. Len(s)
  PROVE  /\ RemoveAt(s, i) \in Seq(S)
         /\ Len(RemoveAt(s, i)) = Len(s) - 1
         /\ \A k \in 1 .. Len(s) - 1 : RemoveAt(s, i)[k] = IF k < i THEN s[k] ELSE s[k + 1]
<1> DEFINE front == SubSeq(s, 1, i - 1)
           back == SubSeq(s, i + 1, Len(s))
<1>1. /\ front \in Seq(S)
      /\ Len(front) = i - 1
      /\ \A k \in 1 .. i - 1 : front[k] = s[k]
  OBVIOUS
<1>2. /\ back \in Seq(S)
      /\ Len(back) = Len(s) - i
      /\ \A k \in 1 .. Len(s) - i : back[k] = s[i + k]
  OBVIOUS
<1>3. /\ front \o back \in Seq(S)
      /\ Len(front \o back) = Len(s) - 1
      /\ \A k \in 1 .. Len(s) - 1 :
           (front \o back)[k] = IF k <= i - 1 THEN front[k] ELSE back[k - (i - 1)]
  <2> HIDE DEF front, back
  <2> QED BY <1>1, <1>2, ConcatProperties
<1>4. ASSUME NEW k \in 1 .. Len(s) - 1
      PROVE  (front \o back)[k] = IF k < i THEN s[k] ELSE s[k + 1]
  <2> HIDE DEF front, back
  <2>1. CASE k < i
    BY <2>1, <1>1, <1>3
  <2>2. CASE ~(k < i)
    <3>1. k - (i - 1) \in 1 .. Len(s) - i /\ i + (k - (i - 1)) = k + 1
      BY <2>2
    <3> QED BY <2>2, <3>1, <1>2, <1>3
  <2> QED BY <2>1, <2>2
<1> QED BY <1>3, <1>4 DEF RemoveAt

\* RemoveFirst removes the first match.
LEMMA RemoveFirstIs ==
  ASSUME NEW S, NEW s \in Seq(S), NEW f, NEW i \in 1 .. Len(s),
         s[i] = f, \A j \in 1 .. i - 1 : s[j] # f
  PROVE  RemoveFirst(s, f) = RemoveAt(s, i)
<1>1. SelectInSeq(s, LAMBDA v : v = f) = i
  <2> DEFINE I == {k \in 1 .. Len(s) : s[k] = f}
  <2>1. i \in I /\ \A k \in I : i <= k
    OBVIOUS
  <2>2. Min(I) = i
    BY <2>1 DEF Min
  <2> QED BY <2>1, <2>2 DEF SelectInSeq
<1> QED BY <1>1 DEF RemoveFirst

\* A function that is connected comes after all others, or after a nil.
LEMMA AppendAgrees ==
  ASSUME NEW h \in Seq(Funcs \cup {Nil}), NEW s \in Seq(Funcs), NEW f \in Funcs, Agrees(h, s)
  PROVE  Agrees(Append(h, f), Append(s, f))
<1>1. ASSUME NEW k \in DOMAIN Append(h, f), \A j \in 1 .. k : Append(h, f)[j] # Nil
      PROVE  k <= Len(s) + 1 /\ Append(s, f)[k] = Append(h, f)[k]
  <2>1. CASE k <= Len(h)
    <3>1. \A j \in 1 .. k : h[j] # Nil
      BY <1>1, <2>1
    <3> QED BY <2>1, <3>1 DEF Agrees
  <2>2. CASE k = Len(h) + 1
    <3>1. \A j \in DOMAIN h : h[j] # Nil
      BY <1>1, <2>2
    <3> QED BY <2>2, <3>1 DEF Agrees
  <2> QED BY <2>1, <2>2
<1>2. ASSUME \A j \in DOMAIN Append(h, f) : Append(h, f)[j] # Nil
      PROVE  Len(s) = Len(h)
  <2>1. \A j \in DOMAIN h : h[j] # Nil
    BY <1>2
  <2> QED BY <2>1 DEF Agrees
<1> QED BY <1>1, <1>2 DEF Agrees

\* disconnect_signal leaves a slice of the same length, which ends in nil, or none.
LEMMA RemovedAgrees ==
  ASSUME NEW h \in Seq(Funcs \cup {Nil}), NEW s \in Seq(Funcs), Agrees(h, s),
         NEW f \in Funcs, NEW i \in 1 .. Len(h),
         h[i] = f, \A j \in 1 .. i - 1 : h[j] \notin {f, Nil},
         NEW g, g = IF Len(h) = 1 THEN <<>> ELSE Append(RemoveAt(h, i), Nil)
  PROVE  /\ g \in Seq(Funcs \cup {Nil})
         /\ RemoveFirst(s, f) \in Seq(Funcs)
         /\ Agrees(g, RemoveFirst(s, f))
<1> USE SignalAssumption
<1>1. /\ i <= Len(s)
      /\ \A j \in 1 .. i : s[j] = h[j]
  BY DEF Agrees
<1>2. RemoveFirst(s, f) = RemoveAt(s, i)
  <2>1. s[i] = f /\ \A j \in 1 .. i - 1 : s[j] # f
    BY <1>1
  <2> QED BY <1>1, <2>1, RemoveFirstIs
<1> DEFINE r == RemoveAt(s, i)
<1>3. /\ r \in Seq(Funcs)
      /\ Len(r) = Len(s) - 1
      /\ \A k \in 1 .. Len(s) - 1 : r[k] = IF k < i THEN s[k] ELSE s[k + 1]
  BY <1>1, RemoveAtIs
<1>4. CASE Len(h) = 1
  <2>1. Len(s) = 1
    BY <1>4 DEF Agrees
  <2>2. Agrees(<<>>, r)
    BY <2>1, <1>3 DEF Agrees
  <2> QED BY <1>2, <1>3, <1>4, <2>2
<1>5. CASE Len(h) # 1
  <2> DEFINE c == RemoveAt(h, i)
  <2>1. /\ c \in Seq(Funcs \cup {Nil})
        /\ Len(c) = Len(h) - 1
        /\ \A k \in 1 .. Len(h) - 1 : c[k] = IF k < i THEN h[k] ELSE h[k + 1]
    BY RemoveAtIs
  <2>2. /\ g \in Seq(Funcs \cup {Nil})
        /\ Len(g) = Len(h)
        /\ g[Len(h)] = Nil
        /\ \A k \in 1 .. Len(h) - 1 : g[k] = IF k < i THEN h[k] ELSE h[k + 1]
    <3> HIDE DEF c
    <3>1. g = Append(c, Nil)
      BY <1>5 DEF c
    <3>2. Nil \in Funcs \cup {Nil}
      OBVIOUS
    <3>3. /\ g \in Seq(Funcs \cup {Nil})
          /\ Len(g) = Len(c) + 1
          /\ g[Len(c) + 1] = Nil
          /\ \A k \in 1 .. Len(c) : g[k] = c[k]
      BY ONLY <2>1, <3>1, <3>2, AppendProperties
    <3>4. Len(h) \in Nat
      OBVIOUS
    <3> QED BY <2>1, <3>3, <3>4
  <2>3. ASSUME NEW k \in DOMAIN g, \A j \in 1 .. k : g[j] # Nil
        PROVE  k <= Len(r) /\ r[k] = g[k]
    <3> HIDE DEF r, c
    <3>1. k \in 1 .. Len(h) - 1
      BY <2>2, <2>3
    <3>2. CASE k < i
      <4>1. k <= Len(s) - 1
        BY <3>1, <3>2, <1>1
      <4>2. k \in 1 .. Len(s) - 1 /\ k \in 1 .. i
        BY <3>1, <3>2, <4>1
      <4>3. r[k] = s[k] /\ s[k] = h[k]
        BY <3>2, <4>2, <1>1, <1>3
      <4>4. g[k] = h[k]
        BY <3>1, <3>2, <2>2
      <4> QED BY <4>1, <4>3, <4>4, <1>3
    <3>3. CASE k >= i
      <4>1. ASSUME NEW j \in 1 .. k + 1
            PROVE  h[j] # Nil
        <5>1. CASE j <= i
          BY <5>1
        <5>2. CASE j > i
          <6>1. j - 1 \in 1 .. k /\ ~(j - 1 < i) /\ j - 1 \in 1 .. Len(h) - 1 /\ j - 1 + 1 = j
            BY <5>2, <3>1
          <6>2. g[j - 1] = h[j]
            BY <6>1, <2>2
          <6> QED BY <6>1, <6>2, <2>3
        <5> QED BY <5>1, <5>2
      <4>2. k + 1 \in DOMAIN h
        BY <3>1
      <4>3. k + 1 <= Len(s) /\ s[k + 1] = h[k + 1]
        BY <4>1, <4>2 DEF Agrees
      <4>4. k \in 1 .. Len(s) - 1 /\ ~(k < i)
        BY <3>1, <3>3, <4>3
      <4>5. r[k] = s[k + 1]
        BY <4>4, <1>3
      <4>6. g[k] = h[k + 1]
        BY <3>1, <4>4, <2>2
      <4> QED BY <4>3, <4>4, <4>5, <4>6, <1>3
    <3> QED BY <3>1, <3>2, <3>3
  <2>4. Len(h) \in DOMAIN g
    BY <2>2
  <2>5. Agrees(g, r)
    <3> HIDE DEF r
    <3> QED BY <2>2, <2>3, <2>4 DEF Agrees
  <2> QED BY <1>2, <1>3, <2>2, <2>5
<1> QED BY <1>4, <1>5

\* How many callbacks an emission has in a list that gets longer.
LEMMA AppendCounts ==
  ASSUME NEW S, NEW list \in Seq(S), NEW c \in S, NEW e
  PROVE  /\ IsFiniteSet(CallsOf(e, list))
         /\ Cardinality(CallsOf(e, Append(list, c))) =
              IF c[1] = e THEN Cardinality(CallsOf(e, list)) + 1 ELSE Cardinality(CallsOf(e, list))
<1> DEFINE n == Len(list) + 1
<1>1. IsFiniteSet(CallsOf(e, list))
  <2>1. IsFiniteSet(1 .. Len(list))
    BY FS_Interval
  <2>2. CallsOf(e, list) \in SUBSET (1 .. Len(list))
    BY DEF CallsOf
  <2> QED BY <2>1, <2>2, FS_Subset
<1>2. CASE c[1] = e
  <2>1. CallsOf(e, Append(list, c)) = CallsOf(e, list) \cup {n}
    BY <1>2 DEF CallsOf
  <2>2. n \notin CallsOf(e, list)
    BY DEF CallsOf
  <2> HIDE DEF n
  <2> QED BY <1>1, <1>2, <2>1, <2>2, FS_AddElement
<1>3. CASE c[1] # e
  <2>1. CallsOf(e, Append(list, c)) = CallsOf(e, list)
    BY <1>3 DEF CallsOf
  <2> QED BY <1>1, <1>3, <2>1
<1> QED BY <1>1, <1>2, <1>3

-----------------------------------------------------------------------------
(* The invariant.                                                          *)

LEMMA SignalInit == Init => SignalInv
<1> SUFFICES ASSUME Init PROVE SignalInv
  OBVIOUS
<1> USE SignalAssumption DEF Init
<1>1. TypeOK
  <2>1. \A S : <<>> \in Seq(S)
    BY EmptySeq
  <2>2. \A p \in Emitters : emitting[p] = NoEmission
    OBVIOUS
  <2> QED BY <2>1, <2>2 DEF TypeOK
<1>2. HistoryInv
  BY DEF HistoryInv, NoEmission, Emission, Emitters
<1>3. Agrees(handlers, subscribed)
  BY DEF Agrees
<1>4. Placed /\ Ordered
  BY DEF Placed, Ordered, Scheduled
<1> QED BY <1>1, <1>2, <1>3, <1>4 DEF SignalInv

\* The callbacks are for emissions that were made.
LEMMA ScheduledTyped ==
  ASSUME TypeOK, HistoryInv
  PROVE  /\ Scheduled \in Seq(Emissions \X Funcs)
         /\ Emissions = 1 .. Len(wanted)
         /\ DOMAIN Scheduled = 1 .. Len(Scheduled)
         /\ \A i \in DOMAIN Scheduled : Scheduled[i][1] \in Emissions /\ Scheduled[i] \in Emissions \X Funcs
<1>1. Scheduled \in Seq(Emissions \X Funcs)
  BY ConcatProperties DEF Scheduled, TypeOK
<1> QED BY <1>1 DEF HistoryInv, Emissions

\* What holds of the callbacks goes on to hold where none is scheduled and no emission begins.
LEMMA ScheduledKept ==
  ASSUME SignalInv, Scheduled' = Scheduled, UNCHANGED <<wanted, emitter>>
  PROVE  Placed' /\ Ordered'
<1>1. Placed'
  BY DEF SignalInv, Placed, Place
<1>2. Ordered'
  BY DEF SignalInv, Ordered
<1> QED BY <1>1, <1>2

\* An emission that an action leaves alone stays as it is.
LEMMA UnderWayKept ==
  ASSUME SignalInv, NEW p \in Emitters, UnderWay(p), emitting'[p] = emitting[p],
         Scheduled' = Scheduled, UNCHANGED <<handlers, wanted, emitter>>
  PROVE  UnderWay(p)'
BY DEF UnderWay, Emissions

LEMMA ConnectStep ==
  ASSUME SignalInv, NEW f \in Funcs, Connect(f)
  PROVE  SignalInv'
<1> USE SignalAssumption DEF Connect
<1>1. Scheduled' = Scheduled
  BY DEF Scheduled
<1>2. handlers \in Seq(Funcs \cup {Nil}) /\ subscribed \in Seq(Funcs)
  BY DEF SignalInv, TypeOK, HistoryInv
<1>3. TypeOK'
  BY <1>2 DEF SignalInv, TypeOK, Emissions, Unlocked
<1>4. HistoryInv'
  BY <1>2 DEF SignalInv, HistoryInv
<1>5. Agrees(handlers, subscribed)'
  BY <1>2, AppendAgrees DEF SignalInv
<1>6. \A p \in Emitters : emitting'[p] = NoEmission
  BY DEF Unlocked
<1> QED BY <1>1, <1>3, <1>4, <1>5, <1>6, ScheduledKept DEF SignalInv

LEMMA DisconnectStep ==
  ASSUME SignalInv, NEW f \in Funcs, Disconnect(f)
  PROVE  SignalInv'
<1> USE SignalAssumption
<1>1. /\ Scheduled' = Scheduled
      /\ UNCHANGED <<emitting, jobs, crashed, calls, wanted, emitter>>
      /\ Unlocked
  BY DEF Disconnect, Scheduled
<1>2. handlers \in Seq(Funcs \cup {Nil}) /\ subscribed \in Seq(Funcs)
  BY DEF SignalInv, TypeOK, HistoryInv
<1>3. PICK i \in 1 .. Len(handlers) :
        /\ handlers[i] = f
        /\ \A j \in 1 .. i - 1 : handlers[j] \notin {f, Nil}
        /\ handlers' = Removed(i)
        /\ subscribed' = RemoveFirst(subscribed, f)
  BY DEF Disconnect
<1>4. /\ handlers' \in Seq(Funcs \cup {Nil})
      /\ subscribed' \in Seq(Funcs)
      /\ Agrees(handlers', subscribed')
  <2>1. handlers' = IF Len(handlers) = 1 THEN <<>> ELSE Append(RemoveAt(handlers, i), Nil)
    BY <1>3 DEF Removed
  <2>2. Agrees(handlers, subscribed)
    BY DEF SignalInv
  <2> HIDE DEF Agrees
  <2> QED BY <1>2, <1>3, <2>1, <2>2, RemovedAgrees
<1>5. TypeOK'
  BY <1>1, <1>4 DEF SignalInv, TypeOK, Emissions, Unlocked
<1>6. HistoryInv'
  BY <1>1, <1>4 DEF SignalInv, HistoryInv
<1>7. \A p \in Emitters : emitting'[p] = NoEmission
  BY <1>1 DEF Unlocked
<1>8. Agrees(handlers, subscribed)'
  BY <1>4 DEF Agrees
<1> QED BY <1>1, <1>5, <1>6, <1>7, <1>8, ScheduledKept DEF SignalInv

LEMMA EmitBeginStep ==
  ASSUME SignalInv, NEW p \in Emitters, EmitBegin(p)
  PROVE  SignalInv'
<1> USE SignalAssumption
<1> DEFINE n == Len(wanted) + 1
<1>1. Scheduled' = Scheduled /\ UNCHANGED <<handlers, jobs, crashed, calls, subscribed>>
  BY DEF EmitBegin, Scheduled
<1>2. TypeOK /\ HistoryInv
  BY DEF SignalInv
<1>3. /\ wanted' \in Seq(Seq(Funcs)) /\ Len(wanted') = n
      /\ wanted'[n] = subscribed /\ \A e \in 1 .. Len(wanted) : wanted'[e] = wanted[e]
      /\ emitter' \in Seq(Emitters) /\ Len(emitter') = n
      /\ emitter'[n] = p /\ \A e \in 1 .. Len(wanted) : emitter'[e] = emitter[e]
      /\ Emissions = 1 .. Len(wanted) /\ Emissions' = 1 .. n /\ n \in Nat
  BY <1>2 DEF EmitBegin, HistoryInv, Emissions
<1>4. Agrees(handlers, subscribed)'
  BY <1>1 DEF SignalInv, Agrees
<1>5. emitting' = IF handlers = <<>> THEN emitting
                  ELSE [emitting EXCEPT ![p] = [emission |-> n, at |-> 1]]
  BY DEF EmitBegin
<1>6. HistoryInv'
  <2>1. [emission |-> n, at |-> 1] \in Emission
    BY <1>3 DEF Emission
  <2>2. emitting' \in [Emitters -> Emission]
    BY <1>2, <1>5, <2>1 DEF HistoryInv
  <2> QED BY <1>1, <1>2, <1>3, <2>2 DEF HistoryInv
<1>7. TypeOK'
  <2>1. Emissions \X Funcs \subseteq Emissions' \X Funcs
    BY <1>3
  <2>2. jobs' \in Seq(Emissions' \X Funcs) /\ calls' \in Seq(Emissions' \X Funcs)
    BY <1>1, <1>2, <2>1, SeqMonotonic DEF TypeOK
  <2>3. ASSUME NEW q \in Emitters
        PROVE  \/ emitting'[q] = NoEmission
               \/ emitting'[q].emission \in Emissions' /\ emitting'[q].at \in 1 .. Len(handlers)
    <3>1. CASE emitting'[q] = emitting[q]
      BY <1>2, <1>3, <3>1 DEF TypeOK
    <3>2. CASE emitting'[q] # emitting[q]
      <4>1. handlers # <<>> /\ q = p /\ emitting'[q] = [emission |-> n, at |-> 1]
        BY <1>2, <1>5, <3>2 DEF HistoryInv
      <4>2. 1 \in 1 .. Len(handlers)
        BY <1>2, <4>1 DEF TypeOK
      <4> QED BY <1>3, <4>1, <4>2
    <3> QED BY <3>1, <3>2
  <2> QED BY <1>1, <1>2, <2>2, <2>3 DEF TypeOK
<1>8. /\ Scheduled \in Seq(Emissions \X Funcs)
      /\ \A i \in DOMAIN Scheduled : Scheduled[i][1] \in 1 .. Len(wanted)
  BY <1>2, <1>3, ScheduledTyped
<1>9. ASSUME NEW q \in Emitters, emitting'[q] # NoEmission
      PROVE  UnderWay(q)'
  <2>1. CASE q = p
    <3>1. emitting'[p] = [emission |-> n, at |-> 1]
      BY <1>2, <1>5, <1>9, <2>1 DEF EmitBegin, HistoryInv
    <3>2. CallsOf(n, Scheduled) = {}
      BY <1>3, <1>8 DEF CallsOf
    <3>3. Cardinality(CallsOf(n, Scheduled)) = 0
      BY <3>2, FS_EmptySet
    <3>4. Agrees(handlers', wanted'[n])
      BY <1>1, <1>3, <1>4
    <3> HIDE DEF n
    <3> QED BY <1>1, <1>3, <2>1, <3>1, <3>3, <3>4 DEF UnderWay
  <2>2. CASE q # p
    <3>1. emitting'[q] = emitting[q]
      BY <1>2, <1>5, <2>2 DEF HistoryInv
    <3> DEFINE e == emitting[q].emission
    <3>2. UnderWay(q) /\ e \in 1 .. Len(wanted)
      BY <1>2, <1>3, <1>9, <3>1 DEF SignalInv, TypeOK
    <3>3. emitter'[e] = q /\ wanted'[e] = wanted[e]
      BY <1>3, <3>2 DEF UnderWay
    <3>4. ASSUME NEW d \in Emissions', emitter'[d] = q
          PROVE  d <= e
      <4>1. d # n /\ d \in 1 .. n
        BY <1>3, <2>2, <3>4
      <4>2. d \in Emissions
        BY <1>3, <4>1
      <4> HIDE DEF n, e
      <4>3. emitter[d] = q
        BY <1>3, <3>4, <4>2
      <4> QED BY <3>2, <4>2, <4>3 DEF UnderWay, e
    <3> HIDE DEF n
    <3> QED BY <1>1, <3>1, <3>2, <3>3, <3>4 DEF UnderWay
  <2> QED BY <2>1, <2>2
<1>10. Placed'
  BY <1>1, <1>3, <1>8 DEF SignalInv, Placed, Place
<1>11. Ordered'
  <2>1. \A i \in DOMAIN Scheduled : emitter'[Scheduled[i][1]] = emitter[Scheduled[i][1]]
    BY <1>3, <1>8
  <2> HIDE DEF n
  <2> QED BY <1>1, <2>1 DEF SignalInv, Ordered
<1> QED BY <1>4, <1>6, <1>7, <1>9, <1>10, <1>11 DEF SignalInv

LEMMA EmitNextStep ==
  ASSUME SignalInv, NEW p \in Emitters, EmitNext(p)
  PROVE  SignalInv'
<1> USE SignalAssumption
<1> DEFINE e == emitting[p].emission
           at == emitting[p].at
           c == <<e, handlers[at]>>
           n == Len(Scheduled) + 1
<1>1. TypeOK /\ HistoryInv /\ UnderWay(p)
  BY DEF SignalInv, EmitNext
<1>2. /\ e \in Emissions /\ at \in 1 .. Len(handlers)
      /\ handlers[at] \in Funcs /\ handlers[at] # Nil
      /\ UNCHANGED <<handlers, crashed, calls, subscribed, wanted, emitter>>
      /\ jobs' = Append(jobs, c)
      /\ emitting' = [emitting EXCEPT ![p] =
                        IF at = Len(handlers) THEN NoEmission
                        ELSE [emission |-> e, at |-> at + 1]]
  <2>1. /\ emitting[p] # NoEmission /\ handlers[at] # Nil /\ jobs' = Append(jobs, c)
        /\ UNCHANGED <<handlers, crashed, calls, subscribed, wanted, emitter>>
        /\ Advance(p)
    BY DEF EmitNext
  <2>2. e \in Emissions /\ at \in 1 .. Len(handlers)
    BY <1>1, <2>1 DEF TypeOK
  <2>3. handlers[at] \in Funcs
    BY <1>1, <2>1, <2>2 DEF TypeOK
  <2> QED BY <2>1, <2>2, <2>3 DEF Advance
<1> HIDE DEF c, n, e, at
<1>3. /\ c \in Emissions \X Funcs
      /\ c[1] = e /\ c[2] = handlers[at]
  BY <1>2 DEF c
<1>4. /\ Scheduled \in Seq(Emissions \X Funcs)
      /\ Emissions = 1 .. Len(wanted) /\ Emissions' = Emissions
      /\ \A i \in DOMAIN Scheduled : Scheduled[i][1] \in Emissions
  BY <1>1, <1>2, ScheduledTyped DEF Emissions
<1>5. Scheduled' = Append(Scheduled, c)
  <2>1. calls \in Seq(Emissions \X Funcs) /\ jobs \in Seq(Emissions \X Funcs)
    BY <1>1 DEF TypeOK
  <2>2. calls \o Append(jobs, c) = Append(calls \o jobs, c)
    BY <1>3, <2>1
  <2> QED BY <1>2, <2>2 DEF Scheduled
<1>6. /\ DOMAIN Scheduled = 1 .. n - 1 /\ DOMAIN Scheduled' = 1 .. n /\ n \in Nat \ {0}
      /\ Scheduled'[n] = c
      /\ \A i \in 1 .. n - 1 : Scheduled'[i] = Scheduled[i]
  BY <1>3, <1>4, <1>5 DEF n
<1>7. \A d : /\ IsFiniteSet(CallsOf(d, Scheduled))
             /\ Cardinality(CallsOf(d, Scheduled')) =
                  Cardinality(CallsOf(d, Scheduled)) + IF d = e THEN 1 ELSE 0
  <2> TAKE d
  <2>1. /\ IsFiniteSet(CallsOf(d, Scheduled))
        /\ Cardinality(CallsOf(d, Append(Scheduled, c))) =
             IF c[1] = d THEN Cardinality(CallsOf(d, Scheduled)) + 1
             ELSE Cardinality(CallsOf(d, Scheduled))
    BY <1>3, <1>4, AppendCounts
  <2>2. Cardinality(CallsOf(d, Scheduled)) \in Nat
    BY <2>1, FS_CardinalityType
  <2> QED BY <1>3, <1>5, <2>1, <2>2
<1>8. HistoryInv'
  <2>1. NoEmission \in Emission /\ [emission |-> e, at |-> at + 1] \in Emission
    BY <1>1, <1>2, <1>4 DEF Emission, NoEmission, HistoryInv
  <2> QED BY <1>1, <1>2, <2>1 DEF HistoryInv
<1>9. TypeOK'
  <2>1. jobs' \in Seq(Emissions' \X Funcs) /\ calls' \in Seq(Emissions' \X Funcs)
    BY <1>1, <1>2, <1>3, <1>4 DEF TypeOK
  <2>2. ASSUME NEW q \in Emitters
        PROVE  \/ emitting'[q] = NoEmission
               \/ emitting'[q].emission \in Emissions' /\ emitting'[q].at \in 1 .. Len(handlers)
    <3>1. CASE q = p
      <4>1. emitting'[q] = IF at = Len(handlers) THEN NoEmission ELSE [emission |-> e, at |-> at + 1]
        BY <1>1, <1>2, <3>1 DEF HistoryInv
      <4>2. at # Len(handlers) => at + 1 \in 1 .. Len(handlers)
        BY <1>1, <1>2 DEF TypeOK
      <4> QED BY <1>2, <1>4, <4>1, <4>2
    <3>2. CASE q # p
      <4>1. emitting'[q] = emitting[q]
        BY <1>1, <1>2, <3>2 DEF HistoryInv
      <4> QED BY <1>1, <1>4, <4>1 DEF TypeOK
    <3> QED BY <3>1, <3>2
  <2> QED BY <1>1, <1>2, <2>1, <2>2 DEF TypeOK
<1>10. Agrees(handlers, subscribed)'
  BY <1>2 DEF SignalInv, Agrees
<1>11. ASSUME NEW q \in Emitters, emitting'[q] # NoEmission
       PROVE  UnderWay(q)'
  <2>1. CASE q = p
    <3>1. emitting'[p] = [emission |-> e, at |-> at + 1]
      BY <1>1, <1>2, <1>11, <2>1 DEF HistoryInv
    <3>2. \A k \in 1 .. at : handlers[k] # Nil
      BY <1>1, <1>2 DEF UnderWay, at
    <3>3. Cardinality(CallsOf(e, Scheduled')) = at
      BY <1>1, <1>2, <1>7 DEF UnderWay, e, at
    <3>4. /\ emitter[e] = p
          /\ \A d \in Emissions : emitter[d] = p => d <= e
          /\ Agrees(handlers, wanted[e])
      BY <1>1 DEF UnderWay, e
    <3>5. at + 1 - 1 = at
      BY <1>2
    <3> QED BY <1>2, <1>4, <2>1, <3>1, <3>2, <3>3, <3>4, <3>5 DEF UnderWay
  <2>2. CASE q # p
    <3>1. emitting'[q] = emitting[q]
      BY <1>1, <1>2, <2>2 DEF HistoryInv
    <3>2. UnderWay(q)
      BY <1>11, <3>1 DEF SignalInv
    <3>3. emitting[q].emission # e
      BY <1>1, <2>2, <3>2 DEF UnderWay, e
    <3>4. Cardinality(CallsOf(emitting[q].emission, Scheduled')) =
            Cardinality(CallsOf(emitting[q].emission, Scheduled))
      <4>1. Cardinality(CallsOf(emitting[q].emission, Scheduled)) \in Nat
        BY <1>7, FS_CardinalityType
      <4> QED BY <1>7, <3>3, <4>1
    <3> QED BY <1>2, <1>4, <3>1, <3>2, <3>4 DEF UnderWay
  <2> QED BY <2>1, <2>2
<1>12. Placed'
  <2> SUFFICES ASSUME NEW i \in 1 .. n
               PROVE  /\ Place(i)' <= Len(wanted[Scheduled'[i][1]])
                      /\ Scheduled'[i][2] = wanted[Scheduled'[i][1]][Place(i)']
    BY <1>2, <1>6 DEF Placed
  <2>1. CASE i # n
    <3>1. i \in 1 .. n - 1
      BY <1>6, <2>1
    <3>2. {j \in 1 .. i : Scheduled'[j][1] = Scheduled'[i][1]} =
            {j \in 1 .. i : Scheduled[j][1] = Scheduled[i][1]}
      BY <1>6, <3>1
    <3>3. Place(i)' = Place(i)
      BY <3>2 DEF Place
    <3> QED BY <1>6, <3>1, <3>3 DEF SignalInv, Placed
  <2>2. CASE i = n
    <3>1. {j \in 1 .. i : Scheduled'[j][1] = Scheduled'[i][1]} = CallsOf(e, Scheduled')
      BY <1>3, <1>6, <2>2 DEF CallsOf
    <3>2. Place(i)' = Cardinality(CallsOf(e, Scheduled'))
      BY <3>1 DEF Place
    <3>3. Place(i)' = at
      BY <1>1, <1>2, <1>7, <3>2 DEF UnderWay, e, at
    <3>4. \A k \in 1 .. at : handlers[k] # Nil
      BY <1>1, <1>2 DEF UnderWay, at
    <3>5. at <= Len(wanted[e]) /\ wanted[e][at] = handlers[at]
      <4>1. Agrees(handlers, wanted[e]) /\ at \in DOMAIN handlers
        BY <1>1, <1>2 DEF UnderWay, e, TypeOK
      <4> QED BY <3>4, <4>1 DEF Agrees
    <3> QED BY <1>3, <1>6, <2>2, <3>3, <3>5
  <2> QED BY <2>1, <2>2
<1>13. Ordered'
  <2> SUFFICES ASSUME NEW i \in 1 .. n, NEW j \in 1 .. n, i < j,
                      emitter[Scheduled'[i][1]] = emitter[Scheduled'[j][1]]
               PROVE  Scheduled'[i][1] <= Scheduled'[j][1]
    BY <1>2, <1>6 DEF Ordered
  <2>1. i \in 1 .. n - 1 /\ Scheduled'[i] = Scheduled[i]
    BY <1>6
  <2>2. CASE j # n
    <3>1. j \in 1 .. n - 1 /\ Scheduled'[j] = Scheduled[j]
      BY <1>6, <2>2
    <3> QED BY <1>6, <2>1, <3>1 DEF SignalInv, Ordered
  <2>3. CASE j = n
    <3>1. Scheduled'[j][1] = e
      BY <1>3, <1>6, <2>3
    <3>2. Scheduled[i][1] \in Emissions
      BY <1>4, <1>6, <2>1
    <3>3. emitter[e] = p /\ \A d \in Emissions : emitter[d] = p => d <= e
      BY <1>1 DEF UnderWay, e
    <3> QED BY <2>1, <3>1, <3>2, <3>3
  <2> QED BY <2>2, <2>3
<1> QED BY <1>8, <1>9, <1>10, <1>11, <1>12, <1>13 DEF SignalInv

LEMMA EmitPanicsStep ==
  ASSUME SignalInv, NEW p \in Emitters, EmitPanics(p)
  PROVE  SignalInv'
<1> USE SignalAssumption
<1>1. /\ Scheduled' = Scheduled
      /\ UNCHANGED <<handlers, jobs, calls, subscribed, wanted, emitter>>
      /\ crashed' = TRUE \/ crashed' = crashed
  BY DEF EmitPanics, Scheduled
<1>2. TypeOK /\ HistoryInv
  BY DEF SignalInv
<1>3. \A q \in Emitters : emitting'[q] = NoEmission \/ emitting'[q] = emitting[q]
  BY <1>2 DEF EmitPanics, HistoryInv
<1>4. HistoryInv'
  <2>1. NoEmission \in Emission
    BY DEF NoEmission, Emission
  <2>2. emitting' \in [Emitters -> Emission]
    BY <1>2, <2>1 DEF EmitPanics, HistoryInv
  <2> QED BY <1>1, <1>2, <2>2 DEF HistoryInv
<1>5. TypeOK'
  <2>1. crashed' \in BOOLEAN
    BY <1>1, <1>2 DEF TypeOK
  <2> QED BY <1>1, <1>2, <1>3, <2>1 DEF TypeOK, Emissions
<1>6. \A q \in Emitters : emitting'[q] # NoEmission => UnderWay(q)'
  BY <1>1, <1>3, UnderWayKept DEF SignalInv
<1>7. Agrees(handlers, subscribed)'
  BY <1>1 DEF SignalInv, Agrees
<1> QED BY <1>1, <1>4, <1>5, <1>6, <1>7, ScheduledKept DEF SignalInv

LEMMA CallbackStep ==
  ASSUME SignalInv, Callback
  PROVE  SignalInv'
<1>1. TypeOK /\ HistoryInv
  BY DEF SignalInv
<1>2. /\ calls' = Append(calls, Head(jobs)) /\ jobs' = Tail(jobs) /\ jobs # <<>>
      /\ UNCHANGED <<handlers, emitting, crashed, subscribed, wanted, emitter>>
  BY DEF Callback
<1>3. /\ calls' \in Seq(Emissions \X Funcs) /\ jobs' \in Seq(Emissions \X Funcs)
      /\ Scheduled' = Scheduled
  <2>1. calls \in Seq(Emissions \X Funcs) /\ jobs \in Seq(Emissions \X Funcs)
    BY <1>1 DEF TypeOK
  <2>2. Append(calls, Head(jobs)) \o Tail(jobs) = calls \o jobs
    BY <1>2, <2>1
  <2>3. Head(jobs) \in Emissions \X Funcs /\ Tail(jobs) \in Seq(Emissions \X Funcs)
    BY <1>2, <2>1, HeadTailProperties
  <2>4. Append(calls, Head(jobs)) \in Seq(Emissions \X Funcs)
    BY <2>1, <2>3, AppendProperties
  <2> QED BY <1>2, <2>2, <2>3, <2>4 DEF Scheduled
<1>4. TypeOK' /\ HistoryInv'
  BY <1>1, <1>2, <1>3 DEF TypeOK, HistoryInv, Emissions
<1>5. \A q \in Emitters : emitting'[q] # NoEmission => UnderWay(q)'
  BY <1>2, <1>3, UnderWayKept DEF SignalInv
<1>6. Agrees(handlers, subscribed)'
  BY <1>2 DEF SignalInv, Agrees
<1> QED BY <1>2, <1>3, <1>4, <1>5, <1>6, ScheduledKept DEF SignalInv

LEMMA SignalStep == SignalInv /\ [Next]_vars => SignalInv'
<1> SUFFICES ASSUME SignalInv, [Next]_vars PROVE SignalInv'
  OBVIOUS
<1>1. CASE UNCHANGED vars
  <2>1. /\ Scheduled' = Scheduled
        /\ UNCHANGED <<handlers, emitting, jobs, crashed, calls, subscribed, wanted, emitter>>
    BY <1>1 DEF vars, Scheduled
  <2>2. TypeOK' /\ HistoryInv'
    BY <2>1 DEF SignalInv, TypeOK, HistoryInv, Emissions
  <2>3. \A q \in Emitters : emitting'[q] # NoEmission => UnderWay(q)'
    BY <2>1, UnderWayKept DEF SignalInv
  <2>4. Agrees(handlers, subscribed)'
    BY <2>1 DEF SignalInv, Agrees
  <2> QED BY <2>1, <2>2, <2>3, <2>4, ScheduledKept DEF SignalInv
<1>2. ASSUME NEW f \in Funcs, Connect(f) \/ Disconnect(f) PROVE SignalInv'
  BY <1>2, ConnectStep, DisconnectStep
<1>3. ASSUME NEW p \in Emitters, EmitBegin(p) \/ EmitStep(p) PROVE SignalInv'
  BY <1>3, EmitBeginStep, EmitNextStep, EmitPanicsStep DEF EmitStep
<1> QED BY <1>1, <1>2, <1>3, CallbackStep DEF Next

LEMMA SignalInvariant == Spec => []SignalInv
BY SignalInit, SignalStep, PTL DEF Spec

-----------------------------------------------------------------------------
\* The variables have their types, and an emission under way has a handler to come to.
THEOREM SignalTyped == Spec => []TypeOK
<1>1. SignalInv => TypeOK
  BY DEF SignalInv
<1> QED BY SignalInvariant, <1>1, PTL

\* An emission calls the functions that were connected when it began, each once and in
\* connect order, and a function sees the emissions of one emitter in order, however
\* many emissions overlap and whatever is connected or disconnected in between
\* (Emit, EmitFrom, signalConnect, signalDisconnect).
THEOREM SignalDeliversInOrder == Spec => []DeliversInOrder
<1>1. SignalInv => DeliversInOrder
  <2>1. SignalInv => Placed /\ Ordered
    BY DEF SignalInv
  <2>2. Placed /\ Ordered => DeliversInOrder
    BY DEF Placed, Ordered, DeliversInOrder
  <2> QED BY <2>1, <2>2
<1> QED BY SignalInvariant, <1>1, PTL

-----------------------------------------------------------------------------
(* Extend and GetSignal.  What a walk reaches is defined by recursion over *)
(* its steps; where induction is meant, the least number of steps that     *)
(* would be a counterexample is considered.                                *)

\* The order of the natural numbers, as a relation.
Lt == OpToRel(<, Nat)

\* A set of natural numbers has a least one.
LEMMA LeastNat ==
  ASSUME NEW S \in SUBSET Nat, S # {}
  PROVE  \E n \in S : \A m \in S : n <= m
<1>1. IsWellFoundedOn(Lt, Nat)
  BY NatLessThanWellFounded DEF Lt
<1>2. \A i, j \in Nat : <<i, j>> \in Lt <=> i < j
  BY DEF Lt, OpToRel
<1>3. PICK n \in S : \A m \in S : ~ (<<m, n>> \in Lt)
  BY <1>1, WFMin
<1>4. ASSUME NEW m \in S
      PROVE  n <= m
  <2>1. ~(m < n)
    BY <1>2, <1>3
  <2> QED BY <2>1
<1> QED BY <1>4

\* The walk up from v for n steps.
IsWalk(up, v, n) == up = [i \in 0 .. n |-> IF i = 0 THEN v ELSE Above(up[i - 1])]

\* There is one, however long.
LEMMA WalkExists ==
  ASSUME NEW v, NEW n \in Nat
  PROVE  \E up : IsWalk(up, v, n)
<1> DEFINE S == {k \in Nat : ~ \E up : IsWalk(up, v, k)}
<1> SUFFICES ASSUME S # {} PROVE FALSE
  OBVIOUS
<1>1. PICK k \in S : \A m \in S : k <= m
  BY LeastNat
<1>2. CASE k = 0
  <2>1. IsWalk([i \in 0 .. 0 |-> v], v, 0)
    BY DEF IsWalk
  <2> QED BY <1>1, <1>2, <2>1
<1>3. CASE k # 0
  <2>1. k - 1 \in Nat /\ k - 1 \notin S
    BY <1>1, <1>3
  <2>2. PICK up : IsWalk(up, v, k - 1)
    BY <2>1
  <2> DEFINE more == [i \in 0 .. k |-> IF i = k THEN Above(up[k - 1]) ELSE up[i]]
  <2>3. \A i \in 0 .. k - 1 : up[i] = IF i = 0 THEN v ELSE Above(up[i - 1])
    BY <2>2 DEF IsWalk
  <2>4. \A i \in 0 .. k : more[i] = IF i = 0 THEN v ELSE Above(more[i - 1])
    <3> TAKE i \in 0 .. k
    <3>1. CASE i = k
      <4>1. more[i] = Above(up[k - 1]) /\ more[i - 1] = up[k - 1] /\ i # 0
        BY <1>1, <1>3, <3>1
      <4> QED BY <4>1
    <3>2. CASE i # k
      <4>1. i \in 0 .. k - 1 /\ more[i] = up[i]
        BY <1>1, <3>2
      <4>2. i # 0 => i - 1 \in 0 .. k /\ i - 1 # k /\ more[i - 1] = up[i - 1]
        BY <1>1, <3>2
      <4> QED BY <2>3, <4>1, <4>2
    <3> QED BY <3>1, <3>2
  <2>5. more = [i \in 0 .. k |-> IF i = 0 THEN v ELSE Above(more[i - 1])]
    BY <2>4
  <2>6. IsWalk(more, v, k)
    BY <2>5 DEF IsWalk
  <2> QED BY <1>1, <2>6
<1> QED BY <1>2, <1>3

\* Nth is where it ends.
LEMMA NthIs ==
  ASSUME NEW v, NEW n \in Nat
  PROVE  \E up : IsWalk(up, v, n) /\ Nth(v, n) = up[n]
<1> DEFINE up == CHOOSE up : IsWalk(up, v, n)
<1>1. IsWalk(up, v, n)
  BY WalkExists
<1>2. Nth(v, n) = up[n]
  BY DEF Nth, IsWalk
<1> QED BY <1>1, <1>2

\* Two walks from the same value are in the same place after the same steps.
LEMMA WalksAgree ==
  ASSUME NEW v, NEW m \in Nat, NEW n \in Nat, NEW up, NEW on, IsWalk(up, v, m), IsWalk(on, v, n),
         NEW k \in Nat, k <= m, k <= n
  PROVE  up[k] = on[k]
<1> DEFINE S == {i \in Nat : i <= m /\ i <= n /\ up[i] # on[i]}
<1> SUFFICES ASSUME S # {} PROVE FALSE
  OBVIOUS
<1>1. PICK i \in S : \A j \in S : i <= j
  BY LeastNat
<1>2. /\ up[i] = IF i = 0 THEN v ELSE Above(up[i - 1])
      /\ on[i] = IF i = 0 THEN v ELSE Above(on[i - 1])
  BY DEF IsWalk
<1>3. CASE i = 0
  BY <1>1, <1>2, <1>3
<1>4. CASE i # 0
  <2>1. i - 1 \in Nat /\ i - 1 <= m /\ i - 1 <= n /\ ~(i <= i - 1)
    BY <1>1, <1>4
  <2>2. up[i - 1] = on[i - 1]
    BY <1>1, <2>1
  <2> QED BY <1>1, <1>2, <1>4, <2>2
<1> QED BY <1>3, <1>4

\* A walk begins at the value.
LEMMA NthFirst == \A v : Nth(v, 0) = v
<1> SUFFICES ASSUME NEW v PROVE Nth(v, 0) = v
  OBVIOUS
<1>1. PICK up : IsWalk(up, v, 0) /\ Nth(v, 0) = up[0]
  BY NthIs
<1> QED BY <1>1 DEF IsWalk

\* Each step of it goes from a value to the one above.
LEMMA NthNext ==
  ASSUME NEW v, NEW n \in Nat
  PROVE  Nth(v, n + 1) = Above(Nth(v, n))
<1>1. PICK up : IsWalk(up, v, n) /\ Nth(v, n) = up[n]
  BY NthIs
<1>2. PICK on : IsWalk(on, v, n + 1) /\ Nth(v, n + 1) = on[n + 1]
  BY NthIs
<1>3. on[n + 1] = Above(on[n])
  <2>1. n + 1 \in 0 .. n + 1 /\ n + 1 # 0 /\ n + 1 - 1 = n
    OBVIOUS
  <2>2. on[n + 1] = IF n + 1 = 0 THEN v ELSE Above(on[n + 1 - 1])
    BY <1>2, <2>1 DEF IsWalk
  <2> QED BY <2>1, <2>2
<1>4. up[n] = on[n]
  <2>1. n + 1 \in Nat /\ n <= n /\ n <= n + 1
    OBVIOUS
  <2> QED BY <1>1, <1>2, <2>1, WalksAgree
<1> QED BY <1>1, <1>2, <1>3, <1>4
\* The first object of a kind.
First(kind, m) == made[m] = kind /\ \A k \in 1 .. m - 1 : made[k] # kind

\* Its walk is under way.
WalkUnderWay(m) == m = Count /\ Walking

\* The types of the loaders lead to their methods, and each signal and proxy that was
\* made to the methods of signals.
SharedInv ==
  /\ index[SignalMt] = SignalApi /\ index[DeviceMt] = DeviceApi /\ index[Class] = Class
  /\ meta[Class] = ClassMt
  /\ meta[SignalApi] = NilValue \/ \E m \in 1 .. Count : meta[SignalApi] = Of("proxy", m)
  /\ \A m \in 1 .. Count : /\ meta[Of("signal", m)] = SignalMt
                           /\ index[Of("proxy", m)] = Of("signal", m)
                           /\ meta[Of("object", m)] = Metatable(made[m], m)
  /\ \A m \in 1 .. MaxObjects : m > Count => index[Of("mt", m)] = NilValue /\ meta[Of("index", m)] = NilValue
  /\ \A v \in Values, m \in 1 .. MaxObjects : meta[v] = Of("proxy", m) => m <= Count

\* An object with a metatable of its own leads to its signal.
OwnInv ==
  \A m \in 1 .. Count :
    /\ made[m] = "plain" => index[Of("mt", m)] = Of("signal", m) /\ ~WalkUnderWay(m)
    /\ made[m] = "notify" =>
         /\ index[Of("mt", m)] = Of("index", m)
         /\ IF WalkUnderWay(m) THEN walk = Of("index", m) /\ meta[Of("index", m)] = NilValue
            ELSE meta[Of("index", m)] = Of("proxy", m)

\* The metatable that all objects of a kind have leads to the signal of the first one.
DeviceInv ==
  /\ (\A m \in 1 .. Count : made[m] # "device") => meta[DeviceApi] = NilValue
  /\ \A m \in 1 .. Count : First("device", m) =>
       IF WalkUnderWay(m) THEN walk = DeviceApi /\ meta[DeviceApi] = NilValue
       ELSE meta[DeviceApi] = Of("proxy", m)
InstanceInv ==
  /\ (\A m \in 1 .. Count : made[m] # "instance") => index[ClassMt] = NilValue
  /\ \A m \in 1 .. Count : First("instance", m) =>
       IF WalkUnderWay(m) THEN walk = Class /\ index[ClassMt] = NilValue
       ELSE index[ClassMt] = Of("index", m) /\ meta[Of("index", m)] = Of("proxy", m)

\* Where the walk for a later object of a kind goes: from the metatable of its kind to the signal
\* of an earlier one, and round from there.
WalkInv ==
  Walking =>
    /\ Count # 0
    /\ \/ made[Count] = "notify"
       \/ made[Count] = "device" /\ walk = DeviceApi
       \/ made[Count] = "instance" /\ walk = Class
       \/ /\ made[Count] = "instance"
          /\ \E m \in 1 .. Count - 1 : First("instance", m) /\ walk = Of("index", m)
       \/ /\ made[Count] \in {"device", "instance"} /\ ~First(made[Count], Count)
          /\ walk = SignalApi \/ \E m \in 1 .. Count : walk = Of("signal", m)

ExtendTypes ==
  /\ meta \in [Values -> Values \cup {NilValue}]
  /\ index \in [Values -> Values \cup {NilValue}]
  /\ made \in Seq(Kinds) /\ Count <= MaxObjects /\ MaxObjects \in Nat
  /\ walk \in Values \cup {NilValue}

ExtendInv == ExtendTypes /\ SharedInv /\ OwnInv /\ DeviceInv /\ InstanceInv /\ WalkInv

-----------------------------------------------------------------------------
\* The names that are used below are values.
LEMMA NamesAre ==
  /\ SignalMt \in Values
  /\ SignalApi \in Values
  /\ DeviceMt \in Values
  /\ DeviceApi \in Values
  /\ Class \in Values /\ ClassMt \in Values /\ NilValue \notin Values
  /\ \A m \in 1 .. MaxObjects :
       /\ Of("object", m) \in Values /\ Of("mt", m) \in Values /\ Of("index", m) \in Values
       /\ Of("signal", m) \in Values /\ Of("proxy", m) \in Values
BY DEF Values, Shared, Own, SignalMt, SignalApi, DeviceMt, DeviceApi,
       Class, ClassMt, NilValue, Of

\* Once there is an object of a kind, there is a first one.
LEMMA FirstExists ==
  ASSUME ExtendTypes, NEW n \in 1 .. Count
  PROVE  \E m \in 1 .. n : First(made[n], m)
<1> DEFINE S == {m \in 1 .. n : made[m] = made[n]}
<1>1. Count \in Nat /\ n \in S /\ S \in SUBSET Nat
  BY DEF ExtendTypes, Count
<1>2. PICK m \in S : \A k \in S : m <= k
  BY <1>1, LeastNat
<1>3. \A k \in 1 .. m - 1 : k \in 1 .. n /\ ~(m <= k)
  BY <1>1, <1>2
<1>4. \A k \in 1 .. m - 1 : made[k] # made[n]
  BY <1>2, <1>3
<1> QED BY <1>2, <1>4 DEF First

\* Nothing has been extended.
LEMMA InitEstablishes == ExtendInit => ExtendInv
<1> SUFFICES ASSUME ExtendInit PROVE ExtendInv
  OBVIOUS
<1> USE DEF ExtendInit
<1>1. Count = 0 /\ ~Walking /\ MaxObjects \in Nat
  BY ExtendAssumption DEF Count, Walking
<1>2. ExtendTypes
  <2>1. made \in Seq(Kinds) /\ walk = NilValue
    BY EmptySeq
  <2>2. meta \in [Values -> Values \cup {NilValue}] /\ index \in [Values -> Values \cup {NilValue}]
    BY NamesAre
  <2> QED BY <1>1, <2>1, <2>2 DEF ExtendTypes
<1>3. SharedInv
  <2>1. index[SignalMt] = SignalApi /\ index[DeviceMt] = DeviceApi /\ index[Class] = Class
    BY NamesAre DEF SignalMt, DeviceMt, Class
  <2>2. meta[Class] = ClassMt /\ meta[SignalApi] = NilValue
    BY NamesAre DEF SignalApi, Class
  <2>3. \A m \in 1 .. MaxObjects : index[Of("mt", m)] = NilValue /\ meta[Of("index", m)] = NilValue
    BY NamesAre DEF Of, SignalMt, DeviceMt, Class
  <2>4. \A v \in Values, m \in 1 .. MaxObjects : meta[v] # Of("proxy", m)
    BY DEF Of, NilValue, ClassMt
  <2>5. \A m \in 1 .. Count : FALSE
    BY <1>1
  <2> QED BY <2>1, <2>2, <2>3, <2>4, <2>5 DEF SharedInv
<1>4. meta[DeviceApi] = NilValue /\ index[ClassMt] = NilValue
  BY NamesAre DEF DeviceApi, Class, ClassMt, SignalMt, DeviceMt
<1> QED BY <1>1, <1>2, <1>3, <1>4 DEF ExtendInv, OwnInv, DeviceInv, InstanceInv, WalkInv

\* What Extend has changed: the object has its metatable, the signal and the proxy are
\* there, and the walk begins.
LEMMA ExtendIs ==
  ASSUME ExtendTypes, SharedInv, NEW kind \in Kinds, Extend(kind), NEW n, n = Count + 1
  PROVE  /\ n \in 1 .. MaxObjects /\ Count \in Nat /\ Count' = n /\ ~Walking
         /\ made' \in Seq(Kinds) /\ made'[n] = kind /\ \A m \in 1 .. Count : made'[m] = made[m]
         /\ meta' \in [Values -> Values \cup {NilValue}]
         /\ meta'[Of("object", n)] = Metatable(kind, n) /\ meta'[Of("signal", n)] = SignalMt
         /\ \A v \in Values : v \notin {Of("object", n), Of("signal", n)} => meta'[v] = meta[v]
         /\ index' \in [Values -> Values \cup {NilValue}]
         /\ index'[Of("proxy", n)] = Of("signal", n)
         /\ \A v \in Values : v \notin {Of("proxy", n), Of("mt", n)} => index'[v] = index[v]
         /\ index'[Of("mt", n)] = CASE kind = "plain" -> Of("signal", n)
                                    [] kind = "notify" -> Of("index", n)
                                    [] OTHER -> index[Of("mt", n)]
         /\ walk' = CASE kind = "plain" -> NilValue
                    [] kind = "notify" -> Of("index", n)
                    [] kind = "device" -> DeviceApi
                    [] kind = "instance" -> Class
<1> DEFINE mt == Metatable(kind, n)
           next == IF kind = "notify" THEN Of("index", n) ELSE index[mt]
<1>1. /\ ~Walking /\ n <= MaxObjects /\ made' = Append(made, kind)
      /\ meta' = [WithSignal(n) EXCEPT ![Of("object", n)] = mt]
      /\ index' = [WithProxy(n) EXCEPT ![mt] = IF next = NilValue THEN Of("signal", n) ELSE next]
      /\ walk' = next
  BY DEF Extend
<1>2. made \in Seq(Kinds) /\ Count \in Nat /\ n \in 1 .. MaxObjects
  BY <1>1 DEF ExtendTypes, Count
<1>3. Count' = n /\ made' \in Seq(Kinds) /\ made'[n] = kind /\ \A m \in 1 .. Count : made'[m] = made[m]
  BY <1>1, <1>2 DEF Count
<1>4. /\ Of("object", n) \in Values /\ Of("mt", n) \in Values /\ Of("index", n) \in Values
      /\ Of("signal", n) \in Values /\ Of("proxy", n) \in Values
      /\ DeviceMt \in Values /\ Class \in Values /\ SignalMt \in Values
  BY <1>2, NamesAre
<1>5. /\ Of("object", n) # Of("signal", n) /\ Of("mt", n) # Of("proxy", n)
      /\ DeviceMt \notin {Of("mt", n), Of("proxy", n)} /\ Class \notin {Of("mt", n), Of("proxy", n)}
      /\ NilValue \notin {Of("index", n), DeviceApi, Class}
  BY DEF Of, DeviceMt, Class, DeviceApi, NilValue
<1>6. index[DeviceMt] = DeviceApi /\ index[Class] = Class /\ index[Of("mt", n)] = NilValue
  BY <1>2 DEF SharedInv
<1>7. mt = CASE kind = "device" -> DeviceMt [] kind = "instance" -> Class [] OTHER -> Of("mt", n)
  BY DEF Metatable
<1>8. mt \in Values
  BY <1>4, <1>7
<1> HIDE DEF mt
<1>9. next = CASE kind = "plain" -> NilValue
               [] kind = "notify" -> Of("index", n)
               [] kind = "device" -> DeviceApi
               [] kind = "instance" -> Class
  BY <1>6, <1>7 DEF Kinds
<1>10. next \in Values \cup {NilValue}
  BY <1>4, <1>9, NamesAre DEF Kinds
<1> HIDE DEF next
<1>11. /\ meta' \in [Values -> Values \cup {NilValue}]
       /\ meta'[Of("object", n)] = mt /\ meta'[Of("signal", n)] = SignalMt
       /\ \A v \in Values : v \notin {Of("object", n), Of("signal", n)} => meta'[v] = meta[v]
  BY <1>1, <1>4, <1>5, <1>8 DEF WithSignal, ExtendTypes
<1>12. /\ index' \in [Values -> Values \cup {NilValue}]
       /\ index'[mt] = IF next = NilValue THEN Of("signal", n) ELSE next
       /\ index'[Of("proxy", n)] = Of("signal", n)
       /\ \A v \in Values : v \notin {Of("proxy", n), mt} => index'[v] = index[v]
  BY <1>1, <1>4, <1>5, <1>7, <1>8, <1>10 DEF WithProxy, ExtendTypes
<1>13. \A v \in Values : v \notin {Of("proxy", n), Of("mt", n)} => index'[v] = index[v]
  BY <1>5, <1>6, <1>7, <1>9, <1>12 DEF Kinds
<1>14. index'[Of("mt", n)] = CASE kind = "plain" -> Of("signal", n)
                               [] kind = "notify" -> Of("index", n)
                               [] OTHER -> index[Of("mt", n)]
  BY <1>4, <1>5, <1>7, <1>9, <1>12 DEF Kinds
<1>15. walk' = CASE kind = "plain" -> NilValue
               [] kind = "notify" -> Of("index", n)
               [] kind = "device" -> DeviceApi
               [] kind = "instance" -> Class
  BY <1>1, <1>9
<1> QED BY <1>1, <1>2, <1>3, <1>11, <1>12, <1>13, <1>14, <1>15 DEF mt

\* The first objects of the kinds.
LEMMA FirstAfter ==
  ASSUME ExtendTypes, NEW kind \in Kinds, NEW n, n = Count + 1, Count' = n, made'[n] = kind,
         \A m \in 1 .. Count : made'[m] = made[m]
  PROVE  /\ \A other, m : m \in 1 .. Count => (First(other, m)' <=> First(other, m))
         /\ \A other : First(other, n)' <=> other = kind /\ \A m \in 1 .. Count : made[m] # kind
<1>1. Count \in Nat
  BY DEF ExtendTypes, Count
<1>2. ASSUME NEW other, NEW m, m \in 1 .. Count
      PROVE  First(other, m)' <=> First(other, m)
  <2>1. \A k \in 1 .. m - 1 : k \in 1 .. Count
    BY <1>1, <1>2
  <2> QED BY <1>2, <2>1 DEF First
<1>3. n - 1 = Count
  BY <1>1
<1>4. ASSUME NEW other
      PROVE  First(other, n)' <=> other = kind /\ \A m \in 1 .. Count : made[m] # kind
  BY <1>3 DEF First
<1> QED BY <1>2, <1>4

\* The first step of Extend.
LEMMA ExtendPreserves ==
  ASSUME ExtendInv, NEW kind \in Kinds, Extend(kind)
  PROVE  ExtendInv'
<1>1. PICK n : n = Count + 1
  OBVIOUS
<1>2. ExtendTypes /\ SharedInv /\ OwnInv /\ DeviceInv /\ InstanceInv
  BY DEF ExtendInv
<1>3. /\ n \in 1 .. MaxObjects /\ Count \in Nat /\ Count' = n /\ ~Walking
      /\ made' \in Seq(Kinds) /\ made'[n] = kind /\ \A m \in 1 .. Count : made'[m] = made[m]
      /\ meta' \in [Values -> Values \cup {NilValue}]
      /\ meta'[Of("object", n)] = Metatable(kind, n) /\ meta'[Of("signal", n)] = SignalMt
      /\ \A v \in Values : v \notin {Of("object", n), Of("signal", n)} => meta'[v] = meta[v]
      /\ index' \in [Values -> Values \cup {NilValue}]
      /\ index'[Of("proxy", n)] = Of("signal", n)
      /\ \A v \in Values : v \notin {Of("proxy", n), Of("mt", n)} => index'[v] = index[v]
      /\ index'[Of("mt", n)] = CASE kind = "plain" -> Of("signal", n)
                                 [] kind = "notify" -> Of("index", n)
                                 [] OTHER -> index[Of("mt", n)]
      /\ walk' = CASE kind = "plain" -> NilValue
                 [] kind = "notify" -> Of("index", n)
                 [] kind = "device" -> DeviceApi
                 [] kind = "instance" -> Class
  BY ONLY <1>1, <1>2, kind \in Kinds, Extend(kind), ExtendIs
<1>4. /\ \A m \in 1 .. n : m \in 1 .. Count \/ m = n
      /\ \A m \in 1 .. Count : m \in 1 .. n /\ m \in 1 .. MaxObjects /\ m # n
  <2>1. Count \in Nat /\ n \in Nat /\ MaxObjects \in Nat /\ n <= MaxObjects
    BY <1>2, <1>3 DEF ExtendTypes
  <2> QED BY <1>1, <2>1
<1>5. /\ \A other, m : m \in 1 .. Count => (First(other, m)' <=> First(other, m))
      /\ \A other : First(other, n)' <=> other = kind /\ \A m \in 1 .. Count : made[m] # kind
  BY <1>1, <1>2, <1>3, FirstAfter
<1>6. /\ \A m \in 1 .. Count : ~WalkUnderWay(m) /\ ~WalkUnderWay(m)'
      /\ WalkUnderWay(n)' <=> walk' # NilValue
  BY <1>3, <1>4 DEF WalkUnderWay, Walking
<1>7. ExtendTypes'
  <2>1. walk' \in Values \cup {NilValue}
    BY <1>3, NamesAre DEF Kinds
  <2>2. Count' <= MaxObjects
    BY <1>3
  <2>3. MaxObjects \in Nat
    BY <1>2 DEF ExtendTypes
  <2> QED BY <1>3, <2>1, <2>2, <2>3 DEF ExtendTypes
\* What is as it was.
<1>8. /\ meta'[Class] = meta[Class]
      /\ meta'[SignalApi] = meta[SignalApi]
      /\ meta'[DeviceApi] = meta[DeviceApi]
      /\ index'[SignalMt] = index[SignalMt] /\ index'[DeviceMt] = index[DeviceMt]
      /\ index'[Class] = index[Class] /\ index'[ClassMt] = index[ClassMt]
      /\ \A m \in 1 .. MaxObjects : meta'[Of("index", m)] = meta[Of("index", m)]
      /\ \A m \in 1 .. MaxObjects : m # n =>
           /\ meta'[Of("signal", m)] = meta[Of("signal", m)]
           /\ meta'[Of("object", m)] = meta[Of("object", m)]
           /\ index'[Of("proxy", m)] = index[Of("proxy", m)]
           /\ index'[Of("mt", m)] = index[Of("mt", m)]
  BY <1>3, NamesAre DEF Of, Class, SignalApi, DeviceApi, SignalMt, DeviceMt, ClassMt
<1>9. SharedInv'
  <2>1. meta'[SignalApi] = NilValue \/ \E m \in 1 .. n : meta'[SignalApi] = Of("proxy", m)
    BY <1>2, <1>4, <1>8 DEF SharedInv
  <2>2. ASSUME NEW m \in 1 .. n
        PROVE  /\ meta'[Of("signal", m)] = SignalMt
               /\ index'[Of("proxy", m)] = Of("signal", m)
               /\ meta'[Of("object", m)] = Metatable(made'[m], m)
    BY <1>2, <1>3, <1>4, <1>8 DEF SharedInv
  <2>3. ASSUME NEW m \in 1 .. MaxObjects, m > n
        PROVE  index'[Of("mt", m)] = NilValue /\ meta'[Of("index", m)] = NilValue
    <3>1. m > Count /\ m # n
      BY <1>1, <1>3, <2>3
    <3> QED BY <1>2, <1>8, <3>1 DEF SharedInv
  <2>4. ASSUME NEW v \in Values, NEW m \in 1 .. MaxObjects, meta'[v] = Of("proxy", m)
        PROVE  m <= n
    <3>1. CASE v \in {Of("object", n), Of("signal", n)}
      <4>1. meta'[v] \in {SignalMt, DeviceMt, Class, Of("mt", n)}
        BY <1>3, <3>1 DEF Metatable
      <4> QED BY <2>4, <4>1 DEF Of, SignalMt, DeviceMt, Class
    <3>2. CASE v \notin {Of("object", n), Of("signal", n)}
      <4>1. m <= Count
        BY <1>2, <1>3, <2>4, <3>2 DEF SharedInv
      <4> QED BY <1>1, <1>3, <4>1
    <3> QED BY <3>1, <3>2
  <2> QED BY <1>2, <1>3, <1>8, <2>1, <2>2, <2>3, <2>4 DEF SharedInv
<1>10. OwnInv'
  <2> SUFFICES ASSUME NEW m \in 1 .. n
               PROVE  /\ made'[m] = "plain" => index'[Of("mt", m)] = Of("signal", m) /\ ~WalkUnderWay(m)'
                      /\ made'[m] = "notify" =>
                           /\ index'[Of("mt", m)] = Of("index", m)
                           /\ IF WalkUnderWay(m)' THEN walk' = Of("index", m) /\ meta'[Of("index", m)] = NilValue
                              ELSE meta'[Of("index", m)] = Of("proxy", m)
    BY <1>3 DEF OwnInv
  <2>1. CASE m \in 1 .. Count
    BY <1>2, <1>3, <1>4, <1>6, <1>8, <2>1 DEF OwnInv
  <2>2. CASE m = n
    <3>1. meta'[Of("index", n)] = NilValue /\ Of("index", n) # NilValue
      <4>1. n > Count
        BY <1>1, <1>3
      <4>2. Of("index", n) # NilValue
        BY DEF Of, NilValue
      <4> QED BY <1>2, <1>3, <1>8, <4>1, <4>2 DEF SharedInv
    <3> QED BY <1>3, <1>6, <2>2, <3>1
  <2> QED BY <1>4, <2>1, <2>2
<1>11. DeviceInv'
  <2>1. ASSUME \A m \in 1 .. n : made'[m] # "device"
        PROVE  meta'[DeviceApi] = NilValue
    <3>1. \A m \in 1 .. Count : made[m] # "device"
      BY <1>3, <1>4, <2>1
    <3> QED BY <1>2, <1>8, <3>1 DEF DeviceInv
  <2>2. ASSUME NEW m \in 1 .. n, First("device", m)'
        PROVE  IF WalkUnderWay(m)' THEN walk' = DeviceApi /\ meta'[DeviceApi] = NilValue
               ELSE meta'[DeviceApi] = Of("proxy", m)
    <3>1. CASE m \in 1 .. Count
      BY <1>2, <1>5, <1>6, <1>8, <2>2, <3>1 DEF DeviceInv
    <3>2. CASE m = n
      <4>1. kind = "device" /\ \A k \in 1 .. Count : made[k] # "device"
        BY <1>5, <2>2, <3>2
      <4>2. DeviceApi # NilValue
        BY DEF DeviceApi, NilValue
      <4> QED BY <1>2, <1>3, <1>6, <1>8, <3>2, <4>1, <4>2 DEF DeviceInv
    <3> QED BY <1>4, <3>1, <3>2
  <2> QED BY <1>3, <2>1, <2>2 DEF DeviceInv
<1>12. InstanceInv'
  <2>1. ASSUME \A m \in 1 .. n : made'[m] # "instance"
        PROVE  index'[ClassMt] = NilValue
    <3>1. \A m \in 1 .. Count : made[m] # "instance"
      BY <1>3, <1>4, <2>1
    <3> QED BY <1>2, <1>8, <3>1 DEF InstanceInv
  <2>2. ASSUME NEW m \in 1 .. n, First("instance", m)'
        PROVE  IF WalkUnderWay(m)' THEN walk' = Class /\ index'[ClassMt] = NilValue
               ELSE index'[ClassMt] = Of("index", m) /\ meta'[Of("index", m)] = Of("proxy", m)
    <3>1. CASE m \in 1 .. Count
      BY <1>2, <1>4, <1>5, <1>6, <1>8, <2>2, <3>1 DEF InstanceInv
    <3>2. CASE m = n
      <4>1. kind = "instance" /\ \A k \in 1 .. Count : made[k] # "instance"
        BY <1>5, <2>2, <3>2
      <4>2. Class # NilValue
        BY DEF Class, NilValue
      <4> QED BY <1>2, <1>3, <1>6, <1>8, <3>2, <4>1, <4>2 DEF InstanceInv
    <3> QED BY <1>4, <3>1, <3>2
  <2> QED BY <1>3, <2>1, <2>2 DEF InstanceInv
<1>13. WalkInv'
  <2>1. n # 0
    BY <1>3
  <2> QED BY <1>3, <2>1 DEF WalkInv, Walking, Kinds
<1> QED BY <1>7, <1>9, <1>10, <1>11, <1>12, <1>13 DEF ExtendInv

\* Where a walk under way is.
NotifyAt(n) == made[n] = "notify" /\ walk = Of("index", n) /\ meta[walk] = NilValue
DeviceAt(n) == First("device", n) /\ walk = DeviceApi /\ meta[walk] = NilValue
InstanceAt(n) ==
  /\ First("instance", n)
  /\ walk = Class
  /\ meta[walk] = ClassMt
  /\ index[ClassMt] = NilValue
LastAt(n) ==
  /\ made[n] \in {"device", "instance"}
  /\ ~First(made[n], n)
  /\ walk = SignalApi
  /\ meta[walk] = NilValue
GoesOn(n) ==
  /\ made[n] \in {"device", "instance"} /\ ~First(made[n], n) /\ meta[walk] # NilValue
  /\ \/ index[meta[walk]] = SignalApi
     \/ \E m \in 1 .. n : index[meta[walk]] = Of("signal", m)
     \/ /\ made[n] = "instance"
        /\ \E m \in 1 .. n - 1 : First("instance", m) /\ index[meta[walk]] = Of("index", m)

\* It ends at the notify table, or for the first object of a kind, or where the methods
\* of signals lead to nothing yet; or it goes on.
LEMMA WalkAt ==
  ASSUME ExtendInv, Walking, NEW n, n = Count
  PROVE  /\ n \in 1 .. MaxObjects
         /\ NotifyAt(n) \/ DeviceAt(n) \/ InstanceAt(n) \/ LastAt(n) \/ GoesOn(n)
<1>1. ExtendTypes /\ SharedInv /\ OwnInv /\ DeviceInv /\ InstanceInv /\ WalkInv
  BY DEF ExtendInv
<1>2. n \in 1 .. MaxObjects /\ n \in 1 .. Count /\ WalkUnderWay(n) /\ n \in Nat
  <2>1. n \in Nat /\ n # 0 /\ n <= MaxObjects /\ MaxObjects \in Nat
    BY <1>1 DEF ExtendTypes, WalkInv, Count
  <2> QED BY <2>1 DEF WalkUnderWay
<1>3. \A m \in 1 .. n - 1 : m \in 1 .. n /\ ~WalkUnderWay(m)
  BY <1>2 DEF WalkUnderWay
<1>4. CASE made[n] = "notify"
  BY <1>1, <1>2, <1>4 DEF OwnInv, NotifyAt
<1>5. \A m \in 1 .. n : /\ meta[Of("signal", m)] = SignalMt /\ index[Of("proxy", m)] = Of("signal", m)
  BY <1>1 DEF SharedInv
<1>6. \A a, m : Of(a, m) # NilValue \/ a = "nil"
  BY DEF Of, NilValue
<1>7. PICK first \in 1 .. n : First(made[n], first)
  BY <1>1, <1>2, FirstExists
<1>8. First(made[n], n) \/ first \in 1 .. n - 1
  BY <1>2, <1>7
<1>9. CASE made[n] = "device" /\ walk = DeviceApi
  <2>1. CASE First("device", n)
    BY <1>1, <1>2, <1>9, <2>1 DEF DeviceInv, DeviceAt
  <2>2. CASE ~First("device", n)
    <3>1. meta[DeviceApi] = Of("proxy", first)
      BY <1>1, <1>3, <1>7, <1>8, <1>9, <2>2 DEF DeviceInv
    <3> QED BY <1>2, <1>5, <1>6, <1>9, <2>2, <3>1 DEF GoesOn
  <2> QED BY <1>2, <2>1, <2>2
<1>10. CASE made[n] = "instance" /\ walk = Class
  <2>0. meta[Class] = ClassMt
    BY <1>1 DEF SharedInv
  <2>1. CASE First("instance", n)
    BY <1>1, <1>2, <1>10, <2>0, <2>1 DEF InstanceInv, InstanceAt
  <2>2. CASE ~First("instance", n)
    <3>1. index[ClassMt] = Of("index", first)
      BY <1>1, <1>3, <1>7, <1>8, <1>10, <2>2 DEF InstanceInv
    <3>2. ClassMt # NilValue
      BY DEF ClassMt, NilValue
    <3> QED BY <1>2, <1>7, <1>8, <1>10, <2>0, <2>2, <3>1, <3>2 DEF GoesOn
  <2> QED BY <1>2, <2>1, <2>2
<1>11. CASE /\ made[n] = "instance"
            /\ \E m \in 1 .. n - 1 : First("instance", m) /\ walk = Of("index", m)
  <2>1. PICK m \in 1 .. n - 1 : First("instance", m) /\ walk = Of("index", m)
    BY <1>11
  <2>2. m \in 1 .. n /\ meta[walk] = Of("proxy", m)
    BY <1>1, <1>3, <2>1 DEF InstanceInv
  <2>3. ~First("instance", n)
    BY <2>1 DEF First
  <2> QED BY <1>2, <1>5, <1>6, <1>11, <2>2, <2>3 DEF GoesOn
<1>12. CASE /\ made[n] \in {"device", "instance"} /\ ~First(made[n], n)
            /\ walk = SignalApi \/ \E m \in 1 .. n : walk = Of("signal", m)
  <2>1. CASE walk = SignalApi
    <3>1. meta[SignalApi] = NilValue \/ \E m \in 1 .. n : meta[SignalApi] = Of("proxy", m)
      BY <1>1 DEF SharedInv
    <3> QED BY <1>2, <1>5, <1>6, <1>12, <2>1, <3>1 DEF GoesOn, LastAt
  <2>2. CASE \E m \in 1 .. n : walk = Of("signal", m)
    <3>1. index[SignalMt] = SignalApi /\ SignalMt # NilValue
      BY <1>1 DEF SharedInv, SignalMt, NilValue
    <3> QED BY <1>2, <1>5, <1>12, <2>2, <3>1 DEF GoesOn
  <2> QED BY <1>12, <2>1, <2>2
<1> QED BY <1>1, <1>4, <1>9, <1>10, <1>11, <1>12 DEF WalkInv

\* Its turns.
LEMMA WalkOnPreserves ==
  ASSUME ExtendInv, WalkOn
  PROVE  ExtendInv'
<1>1. PICK n : n = Count
  OBVIOUS
<1>2. ExtendTypes /\ SharedInv /\ OwnInv /\ DeviceInv /\ InstanceInv
  BY DEF ExtendInv
<1>3. /\ Walking /\ meta[walk] # NilValue /\ index[meta[walk]] # NilValue
      /\ walk' = index[meta[walk]] /\ UNCHANGED <<meta, index, made>>
  BY DEF WalkOn
<1>4. n \in 1 .. MaxObjects /\ GoesOn(n)
  <2>1. n \in 1 .. MaxObjects /\ (NotifyAt(n) \/ DeviceAt(n) \/ InstanceAt(n) \/ LastAt(n) \/ GoesOn(n))
    BY <1>1, <1>3, WalkAt
  <2> QED BY <1>3, <2>1 DEF NotifyAt, DeviceAt, InstanceAt, LastAt
<1>5. /\ Count' = n /\ n \in Nat /\ Walking' /\ \A m : WalkUnderWay(m)' <=> WalkUnderWay(m)
  BY <1>1, <1>3, <1>4 DEF Count, Walking, WalkUnderWay
<1>6. \A other, m : First(other, m)' <=> First(other, m)
  BY <1>3 DEF First
<1>7. ExtendTypes'
  <2>1. meta[walk] \in Values /\ index[meta[walk]] \in Values \cup {NilValue}
    BY <1>2, <1>3 DEF ExtendTypes, Walking
  <2> QED BY <1>2, <1>3, <2>1 DEF ExtendTypes, Count
<1>8. SharedInv'
  <2>1. \A kind, m : Metatable(kind, m)' = Metatable(kind, m)
    BY DEF Metatable
  <2> QED BY <1>1, <1>2, <1>3, <1>5, <2>1 DEF SharedInv
<1>9. OwnInv'
  <2>1. \A m \in 1 .. Count : WalkUnderWay(m) => made[m] # "notify"
    BY <1>1, <1>4 DEF WalkUnderWay, GoesOn
  <2> QED BY <1>1, <1>2, <1>3, <1>5, <2>1 DEF OwnInv
<1>10. \A m : WalkUnderWay(m) => ~First("device", m) /\ ~First("instance", m)
  BY <1>1, <1>4 DEF WalkUnderWay, GoesOn, First
<1>11. DeviceInv'
  BY <1>1, <1>2, <1>3, <1>5, <1>6, <1>10 DEF DeviceInv
<1>12. InstanceInv'
  BY <1>1, <1>2, <1>3, <1>5, <1>6, <1>10 DEF InstanceInv
<1>13. WalkInv'
  <2>1. n # 0 /\ made'[n] \in {"device", "instance"}
    BY <1>3, <1>4 DEF GoesOn
  <2>2. ~First(made[n], n)'
    BY <1>3, <1>4 DEF GoesOn, First
  <2> QED BY <1>3, <1>4, <1>5, <1>6, <2>1, <2>2 DEF GoesOn, WalkInv
<1> QED BY <1>7, <1>8, <1>9, <1>11, <1>12, <1>13 DEF ExtendInv

\* The last value found gets the proxy.
LEMMA WalkEndsPreserves ==
  ASSUME ExtendInv, WalkEnds
  PROVE  ExtendInv'
<1>1. PICK n, v : n = Count /\ v = walk
  OBVIOUS
<1>2. ExtendTypes /\ SharedInv /\ OwnInv /\ DeviceInv /\ InstanceInv
  BY DEF ExtendInv
<1>3. /\ Walking /\ meta[v] = NilValue
      /\ meta' = [meta EXCEPT ![v] = Of("proxy", n)] /\ walk' = NilValue /\ UNCHANGED <<index, made>>
  BY <1>1 DEF WalkEnds, AttachProxy
<1>4. n \in 1 .. MaxObjects /\ (NotifyAt(n) \/ DeviceAt(n) \/ LastAt(n))
  <2>1. n \in 1 .. MaxObjects /\ (NotifyAt(n) \/ DeviceAt(n) \/ InstanceAt(n) \/ LastAt(n) \/ GoesOn(n))
    BY <1>1, <1>3, WalkAt
  <2>2. ClassMt # NilValue
    BY DEF ClassMt, NilValue
  <2> QED BY <1>1, <1>3, <2>1, <2>2 DEF InstanceAt, GoesOn
<1>5. /\ Count' = n /\ n \in Nat /\ ~Walking' /\ \A m : ~WalkUnderWay(m)'
      /\ \A m : WalkUnderWay(m) <=> m = n
  BY <1>1, <1>3, <1>4 DEF Count, Walking, WalkUnderWay
<1>6. \A other, m : First(other, m)' <=> First(other, m)
  BY <1>3 DEF First
<1>7. /\ meta' \in [Values -> Values \cup {NilValue}] /\ v \in Values /\ meta'[v] = Of("proxy", n)
      /\ \A u \in Values : u # v => meta'[u] = meta[u]
  <2>1. v \in Values /\ Of("proxy", n) \in Values
    BY <1>1, <1>2, <1>3, <1>4, NamesAre DEF ExtendTypes, Walking
  <2> QED BY <1>2, <1>3, <2>1 DEF ExtendTypes
<1>8. ExtendTypes'
  BY <1>2, <1>3, <1>5, <1>7, <1>4 DEF ExtendTypes
<1>9. v \in {Of("index", n), DeviceApi, SignalApi}
  BY <1>1, <1>4 DEF NotifyAt, DeviceAt, LastAt
<1>10. /\ meta'[Class] = meta[Class]
       /\ \A m \in 1 .. MaxObjects : /\ meta'[Of("signal", m)] = meta[Of("signal", m)]
                                     /\ meta'[Of("object", m)] = meta[Of("object", m)]
                                     /\ m # n => meta'[Of("index", m)] = meta[Of("index", m)]
  <2>1. v # Class /\ \A m : v # Of("signal", m) /\ v # Of("object", m) /\ (m # n => v # Of("index", m))
    <3>1. CASE v = Of("index", n)
      BY <3>1 DEF Of, Class
    <3>2. CASE v = DeviceApi
      BY <3>2 DEF Of, Class, DeviceApi
    <3>3. CASE v = SignalApi
      BY <3>3 DEF Of, Class, SignalApi
    <3> QED BY <1>9, <3>1, <3>2, <3>3
  <2>2. ASSUME NEW m \in 1 .. MaxObjects
        PROVE  /\ meta'[Of("signal", m)] = meta[Of("signal", m)]
               /\ meta'[Of("object", m)] = meta[Of("object", m)]
               /\ m # n => meta'[Of("index", m)] = meta[Of("index", m)]
    BY <1>7, <2>1, NamesAre
  <2> QED BY <1>7, <2>1, <2>2, NamesAre
<1>11. \A m \in 1 .. n : m \in 1 .. MaxObjects
  <2>1. n \in Nat /\ n <= MaxObjects /\ MaxObjects \in Nat
    BY <1>2, <1>4 DEF ExtendTypes
  <2> QED BY <2>1
<1>12. SharedInv'
  <2>1. \A kind, m : Metatable(kind, m)' = Metatable(kind, m)
    BY DEF Metatable
  <2>2. n \in 1 .. n
    BY <1>4
  <2>3. meta'[SignalApi] = NilValue \/ \E m \in 1 .. n : meta'[SignalApi] = Of("proxy", m)
    BY <1>1, <1>2, <1>7, <2>2, NamesAre DEF SharedInv
  <2>4. \A m \in 1 .. MaxObjects : m > n => index'[Of("mt", m)] = NilValue /\ meta'[Of("index", m)] = NilValue
    BY <1>1, <1>2, <1>3, <1>5, <1>10 DEF SharedInv
  <2>5. ASSUME NEW u \in Values, NEW m \in 1 .. MaxObjects, meta'[u] = Of("proxy", m)
        PROVE  m <= n
    <3>1. CASE u = v
      BY <1>5, <1>7, <2>5, <3>1 DEF Of
    <3>2. CASE u # v
      BY <1>1, <1>2, <1>7, <2>5, <3>2 DEF SharedInv
    <3> QED BY <3>1, <3>2
  <2>6. \A m \in 1 .. n : /\ meta'[Of("signal", m)] = SignalMt
                          /\ index'[Of("proxy", m)] = Of("signal", m)
                          /\ meta'[Of("object", m)] = Metatable(made'[m], m)
    BY <1>1, <1>2, <1>3, <1>10, <1>11 DEF SharedInv
  <2> QED BY <1>2, <1>3, <1>5, <1>10, <2>3, <2>4, <2>5, <2>6 DEF SharedInv
<1>13. OwnInv'
  <2> SUFFICES ASSUME NEW m \in 1 .. n
               PROVE  /\ made[m] = "plain" => index[Of("mt", m)] = Of("signal", m)
                      /\ made[m] = "notify" => /\ index[Of("mt", m)] = Of("index", m)
                                               /\ meta'[Of("index", m)] = Of("proxy", m)
    BY <1>3, <1>5 DEF OwnInv
  <2>1. CASE m # n
    BY <1>1, <1>2, <1>5, <1>10, <1>11, <2>1 DEF OwnInv
  <2>2. CASE m = n
    <3>1. made[n] = "notify" => v = Of("index", n)
      BY <1>1, <1>2, <1>5, <2>2 DEF OwnInv
    <3> QED BY <1>1, <1>2, <1>7, <2>2, <3>1 DEF OwnInv
  <2> QED BY <2>1, <2>2
<1>14. DeviceInv'
  <2>1. ASSUME \A m \in 1 .. n : made[m] # "device" PROVE meta'[DeviceApi] = NilValue
    <3>1. v # DeviceApi
      <4>1. n \in 1 .. n /\ DeviceApi # Of("index", n) /\ DeviceApi # SignalApi
        BY <1>4 DEF DeviceApi, SignalApi, Of
      <4> QED BY <1>1, <1>4, <2>1, <4>1 DEF NotifyAt, DeviceAt, LastAt, First
    <3> QED BY <1>1, <1>2, <1>7, <2>1, <3>1, NamesAre DEF DeviceInv
  <2>2. ASSUME NEW m \in 1 .. n, First("device", m) PROVE meta'[DeviceApi] = Of("proxy", m)
    <3>1. CASE m = n
      BY <1>1, <1>2, <1>5, <1>7, <2>2, <3>1 DEF DeviceInv
    <3>2. CASE m # n
      <4>1. meta[DeviceApi] = Of("proxy", m) /\ Of("proxy", m) # NilValue
        BY <1>1, <1>2, <1>5, <2>2, <3>2 DEF DeviceInv, Of, NilValue
      <4> QED BY <1>3, <1>7, <4>1, NamesAre
    <3> QED BY <3>1, <3>2
  <2> QED BY <1>3, <1>5, <1>6, <2>1, <2>2 DEF DeviceInv
<1>15. InstanceInv'
  <2>1. ASSUME NEW m \in 1 .. n, First("instance", m)
        PROVE  index[ClassMt] = Of("index", m) /\ meta'[Of("index", m)] = Of("proxy", m)
    <3>1. m # n
      BY <1>4, <2>1 DEF NotifyAt, DeviceAt, LastAt, First
    <3> QED BY <1>1, <1>2, <1>5, <1>10, <1>11, <2>1, <3>1 DEF InstanceInv
  <2>2. (\A m \in 1 .. n : made[m] # "instance") => index[ClassMt] = NilValue
    BY <1>1, <1>2 DEF InstanceInv
  <2> QED BY <1>3, <1>5, <1>6, <2>1, <2>2 DEF InstanceInv
<1>16. WalkInv'
  BY <1>5 DEF WalkInv
<1> QED BY <1>8, <1>12, <1>13, <1>14, <1>15, <1>16 DEF ExtendInv

\* Only the first object of a class lets its walk end so.
LEMMA WalkEndsAnewPreserves ==
  ASSUME ExtendInv, WalkEndsAnew
  PROVE  ExtendInv'
<1>1. PICK n : n = Count
  OBVIOUS
<1>2. ExtendTypes /\ SharedInv /\ OwnInv /\ DeviceInv /\ InstanceInv
  BY DEF ExtendInv
<1>3. n \in 1 .. MaxObjects /\ InstanceAt(n) /\ Walking
  <2>1. /\ Walking /\ n \in 1 .. MaxObjects
        /\ NotifyAt(n) \/ DeviceAt(n) \/ InstanceAt(n) \/ LastAt(n) \/ GoesOn(n)
    BY <1>1, WalkAt DEF WalkEndsAnew
  <2>2. SignalApi # NilValue /\ \A m : Of("signal", m) # NilValue /\ Of("index", m) # NilValue
    BY DEF SignalApi, Of, NilValue
  <2> QED BY <2>1, <2>2 DEF NotifyAt, DeviceAt, LastAt, GoesOn, WalkEndsAnew
<1>4. /\ index' = [index EXCEPT ![ClassMt] = Of("index", n)]
      /\ meta' = [meta EXCEPT ![Of("index", n)] = Of("proxy", n)] /\ walk' = NilValue /\ made' = made
  BY <1>1, <1>3 DEF WalkEndsAnew, AttachProxy, InstanceAt
<1>5. /\ Count' = n /\ n \in Nat /\ ~Walking' /\ \A m : ~WalkUnderWay(m)'
      /\ \A m : WalkUnderWay(m) <=> m = n
  BY <1>1, <1>3, <1>4 DEF Count, Walking, WalkUnderWay
<1>6. \A other, m : First(other, m)' <=> First(other, m)
  BY <1>4 DEF First
<1>7. /\ meta' \in [Values -> Values \cup {NilValue}] /\ index' \in [Values -> Values \cup {NilValue}]
      /\ meta'[Of("index", n)] = Of("proxy", n) /\ index'[ClassMt] = Of("index", n)
      /\ \A u \in Values : u # Of("index", n) => meta'[u] = meta[u]
      /\ \A u \in Values : u # ClassMt => index'[u] = index[u]
  BY <1>2, <1>3, <1>4, NamesAre DEF ExtendTypes
<1>8. ExtendTypes'
  BY <1>2, <1>4, <1>5, <1>7, <1>3 DEF ExtendTypes
<1>9. /\ meta'[Class] = meta[Class]
      /\ meta'[SignalApi] = meta[SignalApi]
      /\ meta'[DeviceApi] = meta[DeviceApi]
      /\ index'[SignalMt] = index[SignalMt]
      /\ index'[DeviceMt] = index[DeviceMt]
      /\ index'[Class] = index[Class]
      /\ \A m \in 1 .. MaxObjects : /\ meta'[Of("signal", m)] = meta[Of("signal", m)]
                                    /\ meta'[Of("object", m)] = meta[Of("object", m)]
                                    /\ index'[Of("proxy", m)] = index[Of("proxy", m)]
                                    /\ index'[Of("mt", m)] = index[Of("mt", m)]
                                    /\ m # n => meta'[Of("index", m)] = meta[Of("index", m)]
  BY <1>7, NamesAre DEF Of, Class, DeviceApi, SignalApi, SignalMt, DeviceMt, ClassMt
<1>10. \A m \in 1 .. n : m \in 1 .. MaxObjects
  <2>1. n \in Nat /\ n <= MaxObjects /\ MaxObjects \in Nat
    BY <1>2, <1>3 DEF ExtendTypes
  <2> QED BY <2>1
<1>11. SharedInv'
  <2>1. meta'[SignalApi] = NilValue \/ \E m \in 1 .. n : meta'[SignalApi] = Of("proxy", m)
    BY <1>1, <1>2, <1>9 DEF SharedInv
  <2>2. \A m \in 1 .. MaxObjects : m > n => index'[Of("mt", m)] = NilValue /\ meta'[Of("index", m)] = NilValue
    BY <1>1, <1>2, <1>5, <1>9 DEF SharedInv
  <2>3. ASSUME NEW u \in Values, NEW m \in 1 .. MaxObjects, meta'[u] = Of("proxy", m)
        PROVE  m <= n
    <3>1. CASE u = Of("index", n)
      BY <1>5, <1>7, <2>3, <3>1 DEF Of
    <3>2. CASE u # Of("index", n)
      BY <1>1, <1>2, <1>7, <2>3, <3>2 DEF SharedInv
    <3> QED BY <3>1, <3>2
  <2>4. \A m \in 1 .. n : /\ meta'[Of("signal", m)] = SignalMt
                          /\ index'[Of("proxy", m)] = Of("signal", m)
                          /\ meta'[Of("object", m)] = Metatable(made'[m], m)
    BY <1>1, <1>2, <1>4, <1>9, <1>10 DEF SharedInv
  <2> QED BY <1>2, <1>5, <1>9, <2>1, <2>2, <2>3, <2>4 DEF SharedInv
<1>12. OwnInv'
  <2>1. made[n] = "instance"
    BY <1>3 DEF InstanceAt, First
  <2> SUFFICES ASSUME NEW m \in 1 .. n
               PROVE  /\ made[m] = "plain" => index'[Of("mt", m)] = Of("signal", m)
                      /\ made[m] = "notify" =>
                           index'[Of("mt", m)] = Of("index", m) /\ meta'[Of("index", m)] = Of("proxy", m)
    BY <1>4, <1>5 DEF OwnInv
  <2> QED BY <1>1, <1>2, <1>5, <1>9, <1>10, <2>1 DEF OwnInv
<1>13. DeviceInv'
  <2>1. \A m : First("device", m) => m # n
    BY <1>3 DEF InstanceAt, First
  <2> QED BY <1>1, <1>2, <1>4, <1>5, <1>6, <1>9, <2>1 DEF DeviceInv
<1>14. InstanceInv'
  <2>1. ASSUME NEW m \in 1 .. n, First("instance", m)
        PROVE  m = n
    <3>1. ~(m < n)
      BY <1>3, <1>5, <2>1 DEF InstanceAt, First
    <3> QED BY <1>5, <3>1
  <2>2. n \in 1 .. n /\ made[n] = "instance"
    BY <1>3 DEF InstanceAt, First
  <2> QED BY <1>4, <1>5, <1>6, <1>7, <2>1, <2>2 DEF InstanceInv
<1>15. WalkInv'
  BY <1>5 DEF WalkInv
<1> QED BY <1>8, <1>11, <1>12, <1>13, <1>14, <1>15 DEF ExtendInv

\* Every step.
LEMMA ExtendStep == ExtendInv /\ [ExtendNext]_extendVars => ExtendInv'
<1> SUFFICES ASSUME ExtendInv, [ExtendNext]_extendVars PROVE ExtendInv'
  OBVIOUS
<1>1. CASE WalkEnds
  BY <1>1, WalkEndsPreserves
<1>2. CASE WalkEndsAnew
  BY <1>2, WalkEndsAnewPreserves
<1>3. CASE WalkOn
  BY <1>3, WalkOnPreserves
<1>4. ASSUME NEW kind \in Kinds, Extend(kind) PROVE ExtendInv'
  BY <1>4, ExtendPreserves
<1>5. CASE UNCHANGED extendVars
  BY <1>5 DEF extendVars, ExtendInv, ExtendTypes, SharedInv, OwnInv, DeviceInv, InstanceInv, WalkInv,
              Count, Walking, WalkUnderWay, First, Metatable
<1> QED BY <1>1, <1>2, <1>3, <1>4, <1>5 DEF ExtendNext, Walk

\* The invariant.
LEMMA ExtendAlways == ExtendSpec => []ExtendInv
BY InitEstablishes, ExtendStep, PTL DEF ExtendSpec

\* The types; a metatable that Extend has attached leads to a signal, however many values
\* were extended (Extend, NewSignal).
THEOREM ExtendTyped == ExtendSpec => []ExtendTypeOK
<1>1. ExtendInv => ExtendTypeOK
  <2> SUFFICES ASSUME ExtendInv PROVE ExtendTypeOK
    OBVIOUS
  <2>1. ExtendTypes /\ SharedInv
    BY DEF ExtendInv
  <2>2. ASSUME NEW v \in Values, meta[v] \in {"proxy"} \X (1 .. MaxObjects)
        PROVE  index[meta[v]] \in Signals
    <3>1. PICK m \in 1 .. MaxObjects : meta[v] = Of("proxy", m)
      BY <2>2 DEF Of
    <3>2. m <= Count /\ Count \in Nat
      BY <2>1, <3>1 DEF SharedInv, ExtendTypes, Count
    <3>3. index[meta[v]] = Of("signal", m)
      BY <2>1, <3>1, <3>2 DEF SharedInv
    <3> QED BY <3>3 DEF Signals, Of
  <2> QED BY <2>1, <2>2 DEF ExtendTypes, ExtendTypeOK
<1> QED BY <1>1, ExtendAlways, PTL

\* The first steps of a walk.
LEMMA Path ==
  ASSUME NEW v
  PROVE  /\ Nth(v, 0) = v /\ Nth(v, 1) = Above(Nth(v, 0)) /\ Nth(v, 2) = Above(Nth(v, 1))
         /\ Nth(v, 3) = Above(Nth(v, 2)) /\ Nth(v, 4) = Above(Nth(v, 3))
<1>1. Nth(v, 0 + 1) = Above(Nth(v, 0))
  BY NthNext
<1>2. Nth(v, 1 + 1) = Above(Nth(v, 1))
  BY NthNext
<1>3. Nth(v, 2 + 1) = Above(Nth(v, 2))
  BY NthNext
<1>4. Nth(v, 3 + 1) = Above(Nth(v, 3))
  BY NthNext
<1> QED BY <1>1, <1>2, <1>3, <1>4, NthFirst

\* The signal of a value is the first one on the way up.
LEMMA GetSignalIs ==
  ASSUME NEW v, NEW k \in 0 .. Far, Nth(v, k) \in Signals,
         \A j \in 0 .. Far : j < k => Nth(v, j) \notin Signals
  PROVE  GetSignal(v) = Nth(v, k)
<1> DEFINE found == {n \in 0 .. Far : Nth(v, n) \in Signals}
<1>1. k \in found /\ \A m \in found : k <= m
  OBVIOUS
<1>2. \A n \in found : (\A m \in found : n <= m) => n = k
  BY <1>1
<1>3. (CHOOSE n \in found : \A m \in found : n <= m) = k
  BY <1>1, <1>2
<1> QED BY <1>1, <1>3 DEF GetSignal

\* The first object that has the same metatable.
FirstKin(m, n) ==
  /\ m = n \/ Kin(m, n)
  /\ \A k \in 1 .. m - 1 : ~Kin(k, n)

\* The way up from an object leads to the signal of another one.
LeadsUp(v, n, m) ==
  CASE made[n] = "plain" ->
         m = n /\ Nth(v, 1) = Of("signal", m) /\ Nth(v, 2) = SignalApi
    [] made[n] = "notify" ->
         /\ m = n
         /\ Nth(v, 1) = Of("index", m) /\ Nth(v, 2) = Of("signal", m) /\ Nth(v, 3) = SignalApi
    [] made[n] = "device" ->
         Nth(v, 1) = DeviceApi /\ Nth(v, 2) = Of("signal", m) /\ Nth(v, 3) = SignalApi
    [] made[n] = "instance" ->
         /\ Nth(v, 1) = Class /\ Nth(v, 2) = Of("index", m) /\ Nth(v, 3) = Of("signal", m)
         /\ Nth(v, 4) = SignalApi

\* Where the way up from an extended object leads.
LEMMA WayUp ==
  ASSUME ExtendInv, NEW n \in Extended, NEW v, v = Of("object", n)
  PROVE  \E m \in 1 .. n : FirstKin(m, n) /\ LeadsUp(v, n, m)
<1>1. ExtendTypes /\ SharedInv /\ OwnInv /\ DeviceInv /\ InstanceInv
  BY DEF ExtendInv
<1>2. Count \in Nat /\ n \in 1 .. Count /\ n \in 1 .. n /\ (n < Count \/ ~Walking)
  BY <1>1 DEF Extended, ExtendTypes, Count
<1>3. \A m \in 1 .. n : m \in 1 .. Count /\ ~WalkUnderWay(m)
  BY <1>2 DEF WalkUnderWay
<1>4. made[n] \in Kinds
  BY <1>1, <1>2 DEF ExtendTypes, Count
<1>5. \A a, m : Of(a, m) # NilValue \/ a = "nil"
  BY DEF Of, NilValue
<1>6. NilValue \notin {SignalMt, SignalApi, DeviceMt, DeviceApi, Class, ClassMt}
  BY DEF NilValue, SignalMt, SignalApi, DeviceMt, DeviceApi, Class, ClassMt
<1>7. ASSUME NEW m \in 1 .. n
      PROVE  /\ Above(Of("signal", m)) = SignalApi
             /\ \A u : meta[u] = Of("proxy", m) /\ u # NilValue => Above(u) = Of("signal", m)
  <2>1. /\ meta[Of("signal", m)] = SignalMt
        /\ index[Of("proxy", m)] = Of("signal", m)
        /\ index[SignalMt] = SignalApi
    BY <1>1, <1>3 DEF SharedInv
  <2> QED BY <1>5, <1>6, <2>1 DEF Above
<1>8. meta[v] = Metatable(made[n], n) /\ v # NilValue
  BY <1>1, <1>2, <1>5 DEF SharedInv
<1>9. /\ Nth(v, 1) = Above(v) /\ Nth(v, 2) = Above(Nth(v, 1))
      /\ Nth(v, 3) = Above(Nth(v, 2)) /\ Nth(v, 4) = Above(Nth(v, 3))
  BY Path
<1>10. CASE made[n] = "plain"
  <2>1. Above(v) = Of("signal", n)
    BY <1>1, <1>2, <1>5, <1>8, <1>10 DEF OwnInv, Above, Metatable
  <2>2. \A k : ~Kin(k, n)
    BY <1>10 DEF Kin
  <2> QED BY <1>2, <1>7, <1>9, <1>10, <2>1, <2>2 DEF FirstKin, LeadsUp
<1>11. CASE made[n] = "notify"
  <2>1. Above(v) = Of("index", n) /\ meta[Of("index", n)] = Of("proxy", n)
    BY <1>1, <1>2, <1>3, <1>5, <1>8, <1>11 DEF OwnInv, Above, Metatable
  <2>2. \A k : ~Kin(k, n)
    BY <1>11 DEF Kin
  <2> QED BY <1>2, <1>5, <1>7, <1>9, <1>11, <2>1, <2>2 DEF FirstKin, LeadsUp
<1>12. ASSUME made[n] \in {"device", "instance"}
       PROVE  \E m \in 1 .. n : First(made[n], m) /\ FirstKin(m, n)
  BY <1>1, <1>2, <1>12, FirstExists DEF First, Kin, FirstKin
<1>13. CASE made[n] = "device"
  <2>1. PICK m \in 1 .. n : First("device", m) /\ FirstKin(m, n)
    BY <1>12, <1>13
  <2>2. meta[DeviceApi] = Of("proxy", m)
    BY <1>1, <1>3, <2>1 DEF DeviceInv
  <2>3. Above(v) = DeviceApi
    BY <1>1, <1>6, <1>8, <1>13 DEF SharedInv, Above, Metatable
  <2>4. Above(DeviceApi) = Of("signal", m) /\ Above(Of("signal", m)) = SignalApi
    BY <1>6, <1>7, <2>2
  <2> QED BY <1>9, <1>13, <2>1, <2>3, <2>4 DEF LeadsUp
<1>14. CASE made[n] = "instance"
  <2>1. PICK m \in 1 .. n : First("instance", m) /\ FirstKin(m, n)
    BY <1>12, <1>14
  <2>2. index[ClassMt] = Of("index", m) /\ meta[Of("index", m)] = Of("proxy", m)
    BY <1>1, <1>3, <2>1 DEF InstanceInv
  <2>3. Above(v) = Class /\ Above(Class) = Of("index", m)
    BY <1>1, <1>6, <1>8, <1>14, <2>2 DEF SharedInv, Above, Metatable
  <2>4. Above(Of("index", m)) = Of("signal", m) /\ Above(Of("signal", m)) = SignalApi
    BY <1>5, <1>7, <2>2
  <2> QED BY <1>9, <1>14, <2>1, <2>3, <2>4 DEF LeadsUp
<1> QED BY <1>4, <1>10, <1>11, <1>13, <1>14 DEF Kinds

\* What GetSignal finds for an extended object is the signal that was made for it, or that
\* of the first object with the same metatable, never that of another type (Extend,
\* GetSignal).
THEOREM ExtendSignalOfType == ExtendSpec => []SignalOfType
<1>1. ExtendInv => SignalOfType
  <2> SUFFICES ASSUME ExtendInv, NEW n \in Extended
               PROVE  \E m \in 1 .. n :
                        /\ m = n \/ Kin(m, n)
                        /\ \A k \in 1 .. m - 1 : ~Kin(k, n)
                        /\ GetSignal(Of("object", n)) = Of("signal", m)
    BY DEF SignalOfType
  <2>1. PICK v : v = Of("object", n)
    OBVIOUS
  <2>2. PICK m \in 1 .. n : FirstKin(m, n) /\ LeadsUp(v, n, m)
    BY <2>1, WayUp
  <2>3. /\ Count \in Nat
        /\ Count <= MaxObjects
        /\ MaxObjects \in Nat
        /\ n \in 1 .. Count
        /\ made[n] \in Kinds
    BY DEF ExtendInv, ExtendTypes, Extended, Count
  <2>4. m \in 1 .. MaxObjects /\ Far \in Nat /\ Far >= 4
    BY <2>3 DEF Far
  <2>5. Of("signal", m) \in Signals /\ \A i : Of("index", i) \notin Signals
    BY <2>4 DEF Signals, Of
  <2>6. v \notin Signals /\ DeviceApi \notin Signals /\ Class \notin Signals
    BY <2>1 DEF Signals, Of, DeviceApi, Class
  <2>7. Nth(v, 0) = v
    BY NthFirst
  <2>8. \E k \in 1 .. 3 : /\ Nth(v, k) = Of("signal", m)
                          /\ \A j \in 0 .. 2 : j < k => Nth(v, j) \notin Signals
    <3>1. CASE made[n] = "plain"
      <4>1. \A j \in 0 .. 2 : j < 1 => j = 0
        OBVIOUS
      <4>2. 1 \in 1 .. 3 /\ Nth(v, 1) = Of("signal", m)
        BY <2>2, <3>1 DEF LeadsUp
      <4> QED BY <2>6, <2>7, <4>1, <4>2
    <3>2. CASE made[n] \in {"notify", "device"}
      <4>1. \A j \in 0 .. 2 : j < 2 => j = 0 \/ j = 1
        OBVIOUS
      <4>2. Nth(v, 1) \notin Signals /\ Nth(v, 2) = Of("signal", m)
        BY <2>2, <2>5, <2>6, <3>2 DEF LeadsUp
      <4>3. 2 \in 1 .. 3
        OBVIOUS
      <4> QED BY <2>6, <2>7, <4>1, <4>2, <4>3
    <3>3. CASE made[n] = "instance"
      <4>1. \A j \in 0 .. 2 : j = 0 \/ j = 1 \/ j = 2
        OBVIOUS
      <4>2. Nth(v, 1) = Class /\ Nth(v, 2) = Of("index", m) /\ Nth(v, 3) = Of("signal", m)
        BY <2>2, <3>3 DEF LeadsUp
      <4>3. 3 \in 1 .. 3
        OBVIOUS
      <4> QED BY <2>5, <2>6, <2>7, <4>1, <4>2, <4>3
    <3> QED BY <2>3, <3>1, <3>2, <3>3 DEF Kinds
  <2>9. PICK k \in 1 .. 3 : /\ Nth(v, k) = Of("signal", m)
                            /\ \A j \in 0 .. 2 : j < k => Nth(v, j) \notin Signals
    BY <2>8
  <2>10. k \in 0 .. Far /\ Nth(v, k) \in Signals
    BY <2>4, <2>5, <2>9
  <2>11. \A j \in 0 .. Far : j < k => j \in 0 .. 2
    BY <2>4, <2>9
  <2>12. GetSignal(v) = Nth(v, k)
    BY <2>9, <2>10, <2>11, GetSignalIs
  <2> QED BY <2>1, <2>2, <2>9, <2>12 DEF FirstKin
<1> QED BY <1>1, ExtendAlways, PTL

\* Extend gives an object the methods of signals and lets it keep those of its type, of its
\* class or of the notify table (Extend).
THEOREM ExtendMethodsKept == ExtendSpec => []MethodsKept
<1>1. ExtendInv => MethodsKept
  <2> SUFFICES ASSUME ExtendInv, NEW n \in Extended, NEW v, v = Of("object", n)
               PROVE  /\ SignalApi \in Lookup(v)
                      /\ made[n] = "device" => DeviceApi \in Lookup(v)
                      /\ made[n] = "instance" => Class \in Lookup(v)
                      /\ made[n] = "notify" => Of("index", n) \in Lookup(v)
    BY DEF MethodsKept
  <2>1. PICK m \in 1 .. n : FirstKin(m, n) /\ LeadsUp(v, n, m)
    BY WayUp
  <2>2. made[n] \in Kinds
    BY DEF ExtendInv, ExtendTypes, Extended, Count
  <2>3. Far \in Nat /\ 1 \in 1 .. Far /\ 2 \in 1 .. Far /\ 3 \in 1 .. Far /\ 4 \in 1 .. Far
    BY DEF ExtendInv, ExtendTypes, Far
  <2>4. ASSUME NEW k \in 1 .. Far, Nth(v, k) # NilValue
        PROVE  Nth(v, k) \in Lookup(v)
    BY <2>4 DEF Lookup
  <2>5. SignalApi # NilValue /\ DeviceApi # NilValue /\ Class # NilValue /\ Of("index", n) # NilValue
    BY DEF SignalApi, DeviceApi, Class, Of, NilValue
  <2>6. \E k \in 1 .. Far : Nth(v, k) = SignalApi
    BY <2>1, <2>2, <2>3 DEF Kinds, LeadsUp
  <2>7. SignalApi \in Lookup(v)
    BY <2>4, <2>5, <2>6
  <2> QED BY <2>1, <2>3, <2>4, <2>5, <2>7 DEF LeadsUp
<1> QED BY <1>1, ExtendAlways, PTL
=============================================================================
