-------------------------------- MODULE Extend --------------------------------
(***************************************************************************)
(* signal.Extend, which gives a Lua value the methods of a signal, and     *)
(* GetSignal, which finds the signal of a value.  Both walk the graph of   *)
(* metatables: from a value to its metatable, and from there to the value  *)
(* of the field __index.                                                   *)
(*                                                                         *)
(* What is extended are smart plugs, whose type has one metatable for all  *)
(* of them (newHs1xx); the notify table of dbus, which has a metatable of  *)
(* its own (AddNotify); and tables of scripts (signalExtend): plain ones,  *)
(* and instances of a class that can be called, which has a metatable      *)
(* without __index.  A step of the walk is a step of the model, so that it *)
(* may go on for ever.                                                     *)
(*                                                                         *)
(* No name is one of Signal, the other module about signals, so that one   *)
(* module can extend both.                                                 *)
(***************************************************************************)
EXTENDS Naturals, Sequences, SequencesExt

CONSTANT MaxObjects  \* bound: how many values are extended

ASSUME ExtendAssumption == MaxObjects \in Nat

VARIABLES
  meta,   \* the metatable of each value
  index,  \* the field __index of each table
  made,   \* the kinds of the values that were extended, in order
  walk    \* where the walk of an Extend under way has come

extendVars == <<meta, index, made, walk>>

Kinds == {"device", "notify", "plain", "instance"}

\* The values: those of the last object that is extended, and shared ones.
Of(what, n) == <<what, n>>
Shared == {<<w, 0>> : w \in {"signal mt", "signal api", "device mt", "device api", "class", "class mt"}}
Own == {"object", "mt", "index", "signal", "proxy"}
Values == Shared \cup (Own \X (1 .. MaxObjects))

NilValue == <<"nil", 0>>
SignalMt == <<"signal mt", 0>>
SignalApi == <<"signal api", 0>>
DeviceMt == <<"device mt", 0>>
DeviceApi == <<"device api", 0>>
Class == <<"class", 0>>
ClassMt == <<"class mt", 0>>

\* The loaders have made the types of signals and plugs.
ExtendInit ==
  /\ meta = [v \in Values |-> IF v = Class THEN ClassMt ELSE NilValue]
  /\ index = [v \in Values |-> CASE v = SignalMt -> SignalApi
                                 [] v = DeviceMt -> DeviceApi
                                 [] v = Class -> Class
                                 [] OTHER -> NilValue]
  /\ made = <<>>
  /\ walk = NilValue

-----------------------------------------------------------------------------
Walking == walk # NilValue

\* How many objects there are; the last one is being extended.
Count == Len(made)

\* The metatable an object of a kind has before.
Metatable(kind, n) ==
  CASE kind = "device" -> DeviceMt
    [] kind = "instance" -> Class
    [] OTHER -> Of("mt", n)

\* Mutant: the proxy does not lead to the signal.
WithProxyEmpty(n) == index

\* NewSignal, and the proxy for it.
WithSignal(n) == [meta EXCEPT ![Of("signal", n)] = SignalMt]
WithProxy(n) == [index EXCEPT ![Of("proxy", n)] = Of("signal", n)]

\* A value is made and given to Extend.  Without an __index in its metatable that is
\* set to the signal, and no walk is needed.
Extend(kind) ==
  LET n == Count + 1
      mt == Metatable(kind, n)
      next == IF kind = "notify" THEN Of("index", n) ELSE index[mt]
  IN /\ ~Walking
     /\ n <= MaxObjects
     /\ kind = "notify" => ~Contains(made, kind)
     /\ made' = Append(made, kind)
     /\ meta' = [WithSignal(n) EXCEPT ![Of("object", n)] = mt]
     /\ index' = [WithProxy(n) EXCEPT ![mt] = IF next = NilValue THEN Of("signal", n) ELSE next]
     /\ walk' = next

\* Mutant: the proxy becomes the metatable of the object.
AttachProxyFirst(v) == meta' = [meta EXCEPT ![Of("object", Count)] = Of("proxy", Count)] /\ walk' = NilValue

\* The proxy becomes the metatable of the last value found.
AttachProxy(v) == meta' = [meta EXCEPT ![v] = Of("proxy", Count)] /\ walk' = NilValue

\* Mutant: the loop is not left when the proxy is attached.
WalkEndsNot ==
  /\ Walking
  /\ meta[walk] = NilValue
  /\ meta' = [meta EXCEPT ![walk] = Of("proxy", Count)]
  /\ walk' = Of("signal", Count)
  /\ UNCHANGED <<index, made>>

\* The value has no metatable.
WalkEnds ==
  /\ Walking
  /\ meta[walk] = NilValue
  /\ AttachProxy(walk)
  /\ UNCHANGED <<index, made>>

\* Its metatable has no __index: it gets one.
WalkEndsAnew ==
  /\ Walking
  /\ meta[walk] # NilValue /\ index[meta[walk]] = NilValue
  /\ index' = [index EXCEPT ![meta[walk]] = Of("index", Count)]
  /\ AttachProxy(Of("index", Count))
  /\ UNCHANGED made

WalkOn ==
  /\ Walking
  /\ meta[walk] # NilValue /\ index[meta[walk]] # NilValue
  /\ walk' = index[meta[walk]]
  /\ UNCHANGED <<meta, index, made>>

Walk == WalkEnds \/ WalkEndsAnew \/ WalkOn

ExtendNext == Walk \/ \E kind \in Kinds : Extend(kind)

ExtendSpec == ExtendInit /\ [][ExtendNext]_extendVars

\* The event loop goes on with the walk.
FairExtendSpec == ExtendSpec /\ WF_extendVars(Walk)

-----------------------------------------------------------------------------
(* GetSignal and the lookup of methods.                                    *)

Above(v) == IF v = NilValue \/ meta[v] = NilValue THEN NilValue ELSE index[meta[v]]

\* The n-th value above v.
Nth(v, n) == LET up[i \in 0 .. n] == IF i = 0 THEN v ELSE Above(up[i - 1]) IN up[n]

\* Longer than any walk that does not repeat itself.
Far == 6 + 5 * MaxObjects

Signals == {"signal"} \X (1 .. MaxObjects)

\* Mutant: the walk does not stop at a signal.
GetSignalLast(v) ==
  LET found == {n \in 0 .. Far : Nth(v, n) \in Signals}
  IN IF found = {} THEN NilValue ELSE Nth(v, CHOOSE n \in found : \A m \in found : n >= m)

\* The signal that GetSignal finds for a value, the first above it.
GetSignal(v) ==
  LET found == {n \in 0 .. Far : Nth(v, n) \in Signals}
  IN IF found = {} THEN NilValue ELSE Nth(v, CHOOSE n \in found : \A m \in found : n <= m)

\* The values a method is looked up in.
Lookup(v) == {Nth(v, n) : n \in 1 .. Far} \ {NilValue}

Extended == {n \in 1 .. Count : n < Count \/ ~Walking}

\* The objects of these kinds share their metatable.
Kin(m, n) == made[m] = made[n] /\ made[n] \in {"device", "instance"}

ExtendTypeOK ==
  /\ meta \in [Values -> Values \cup {NilValue}]
  /\ index \in [Values -> Values \cup {NilValue}]
  /\ made \in Seq(Kinds) /\ Count <= MaxObjects
  /\ walk \in Values \cup {NilValue}
  /\ \A v \in Values : meta[v] \in {"proxy"} \X (1 .. MaxObjects) => index[meta[v]] \in Signals

\* An object finds the signal that was made for it, or that of the first object with
\* the same metatable; objects of different types never share one, however many
\* were extended in whatever order (Extend, GetSignal).
SignalOfType ==
  \A n \in Extended :
    \E m \in 1 .. n :
      /\ m = n \/ Kin(m, n)
      /\ \A k \in 1 .. m - 1 : ~Kin(k, n)
      /\ GetSignal(Of("object", n)) = Of("signal", m)

\* "Any existing metatable is preserved": an object has the methods of its type, and
\* those of signals (Extend).
MethodsKept ==
  \A n \in Extended :
    LET methods == Lookup(Of("object", n))
    IN /\ SignalApi \in methods
       /\ made[n] = "device" => DeviceApi \in methods
       /\ made[n] = "instance" => Class \in methods
       /\ made[n] = "notify" => Of("index", n) \in methods

\* Extend returns unless the object has kin already and two objects that are kin were
\* extended before: the second one has made the methods of signals lead to itself, and
\* the third one goes round in that circle (Extend, newHs1xx).
ExtendReturns ==
  Walking ~> \/ ~Walking
             \/ /\ \E m \in 1 .. Count - 1 : Kin(m, Count)
                /\ \E n \in 1 .. Count - 1, m \in 1 .. Count - 1 : m < n /\ Kin(m, n)

\* A sensor takes its values from "each property (signal) the plug exposes", and onSignal
\* connects to "the object that emits the signal": what one plug emits is not received by
\* those who have connected to another (newHs1xx, GetSignal).
OwnSignal ==
  \A m, n \in Extended :
    m # n /\ made[m] = "device" /\ made[n] = "device" =>
      GetSignal(Of("object", m)) # GetSignal(Of("object", n))
=============================================================================
