------------------------ MODULE CodecFallback_proofs ------------------------
(***************************************************************************)
(* Proofs about the codec fallback: only a refusal changes the codec, what *)
(* a repeated stream sends is in order and without duplicates, and at most *)
(* the message that an abandoned read takes is lost.                       *)
(***************************************************************************)
EXTENDS CodecFallback, SequenceTheorems, TLAPS

USE DEF vars, unaryVars, inputVars, sourceVars, secondVars, streamVars

-----------------------------------------------------------------------------
(* Sequences.                                                              *)

LEMMA ContainsAppend ==
    ASSUME NEW S, NEW q \in Seq(S), NEW e \in S, NEW m
    PROVE  Contains(Append(q, e), m) <=> Contains(q, m) \/ m = e
<1>1. /\ Len(Append(q, e)) = Len(q) + 1
      /\ \A i \in 1 .. Len(q) : Append(q, e)[i] = q[i]
      /\ Append(q, e)[Len(q) + 1] = e
      /\ Len(q) \in Nat
  BY AppendProperties, LenProperties
<1> QED
  BY <1>1 DEF Contains

LEMMA ContainsTail ==
    ASSUME NEW S, NEW q \in Seq(S), q # <<>>, NEW m, Contains(Tail(q), m)
    PROVE  Contains(q, m)
<1>1. /\ Len(Tail(q)) = Len(q) - 1
      /\ \A i \in 1 .. Len(Tail(q)) : Tail(q)[i] = q[i + 1]
      /\ Len(q) \in Nat
  BY HeadTailProperties, LenProperties
<1> QED
  BY <1>1 DEF Contains

\* The number after one that is below a bound.
LEMMA Successor ==
    ASSUME NEW a \in Nat, NEW b \in Nat, a < b, b <= MaxSent
    PROVE  a + 1 \in 1 .. b /\ a + 1 \in 1 .. MaxSent /\ a + 1 \in 0 .. MaxSent
BY ConstantsAssumption

\* At most one pull() of the first attempt is outstanding.
OneFirst(q) == \A i, j \in 1 .. Len(q) : q[i] = "first" /\ q[j] = "first" => i = j

LEMMA OneFirstAppend ==
    ASSUME NEW q \in Seq(Attempts), NEW a \in Attempts, OneFirst(q),
           a = "first" => ~Contains(q, "first")
    PROVE  OneFirst(Append(q, a))
<1>1. /\ Len(Append(q, a)) = Len(q) + 1
      /\ \A i \in 1 .. Len(q) : Append(q, a)[i] = q[i]
      /\ Append(q, a)[Len(q) + 1] = a
      /\ Len(q) \in Nat
  BY AppendProperties, LenProperties
<1> QED
  BY <1>1 DEF Contains, OneFirst

LEMMA OneFirstTail ==
    ASSUME NEW q \in Seq(Attempts), q # <<>>, OneFirst(q)
    PROVE  /\ OneFirst(Tail(q))
           /\ Head(q) = "first" => ~Contains(Tail(q), "first")
           /\ Contains(q, Head(q))
<1>1. /\ Len(Tail(q)) = Len(q) - 1
      /\ \A i \in 1 .. Len(Tail(q)) : Tail(q)[i] = q[i + 1]
      /\ Len(q) \in Nat /\ Len(q) > 0 /\ Head(q) = q[1]
  BY HeadTailProperties, LenProperties, EmptySeq
<1> QED
  BY <1>1 DEF Contains, OneFirst

-----------------------------------------------------------------------------
(* Types.                                                                  *)

\* What is recorded was consumed: replayed stays within the bound.
Typed == TypeOK /\ \A s \in Streams : Len(recorded[s]) <= consumed[s]

LEMMA TypeInit == Init => Typed
<1> SUFFICES ASSUME Init PROVE Typed
  OBVIOUS
<1>1. 0 \in 0 .. MaxSent
  BY ConstantsAssumption
<1>2. /\ <<>> \in Seq(1 .. MaxSent) /\ <<>> \in Seq(Attempts)
      /\ Len(<<>>) = 0
  BY EmptySeq
<1>3. memory \in [Kinds -> {"json", "binary"}]
  BY DEF Init
<1>4. call \in [Calls -> {"idle", "json", "binary", "done", "failed", "rejected"}]
  BY DEF Init
<1>5. /\ stream \in [Streams -> {"idle", "json", "binary", "direct", "failed"}]
      /\ given \in [Streams -> 0 .. MaxSent]
      /\ consumed \in [Streams -> 0 .. MaxSent]
      /\ replayed \in [Streams -> 0 .. MaxSent]
      /\ closed \in [Streams -> BOOLEAN]
      /\ sourceDone \in [Streams -> BOOLEAN]
  BY <1>1, Zenon DEF Init
<1>6. /\ replaying \in [Streams -> BOOLEAN]
      /\ orphaned \in [Streams -> BOOLEAN]
      /\ recorded \in [Streams -> Seq(1 .. MaxSent)]
      /\ binaryWire \in [Streams -> Seq(1 .. MaxSent)]
      /\ asking \in [Streams -> Seq(Attempts)]
  BY <1>2, Zenon DEF Init
<1>7. ASSUME NEW s \in Streams PROVE Len(recorded[s]) <= consumed[s]
  <2>1. recorded[s] = <<>> /\ consumed[s] = 0
    BY DEF Init
  <2> QED
    BY <1>2, <2>1
<1> QED
  BY <1>3, <1>4, <1>5, <1>6, <1>7 DEF Typed, TypeOK, Init

CallStates == {"idle", "json", "binary", "done", "failed", "rejected"}

LEMMA UnaryType ==
    ASSUME Typed, NEW c \in Calls, Invoke(c) \/ Return(c) \/ Fail(c) \/ Refuse(c)
    PROVE  Typed'
<1>1. /\ memory \in [Kinds -> {"json", "binary"}] /\ call \in [Calls -> CallStates]
      /\ memory["unary"] \in CallStates
  BY DEF Typed, TypeOK, Kinds, CallStates
<1>2. \A v \in CallStates : [call EXCEPT ![c] = v] \in [Calls -> CallStates]
  BY <1>1
<1>3. [memory EXCEPT !["unary"] = "binary"] \in [Kinds -> {"json", "binary"}]
  BY <1>1
<1>4. call' \in [Calls -> CallStates] /\ memory' \in [Kinds -> {"json", "binary"}]
  <2>1. CASE Invoke(c)
    BY <1>1, <1>2, <2>1 DEF Invoke
  <2>2. CASE Return(c)
    BY <1>1, <1>2, <2>2 DEF Return, CallStates
  <2>3. CASE Fail(c)
    BY <1>1, <1>2, <2>3 DEF Fail, CallStates
  <2>4. CASE Refuse(c)
    BY <1>1, <1>2, <1>3, <2>4 DEF Refuse, CallStates
  <2> QED
    BY <2>1, <2>2, <2>3, <2>4
<1>5. takesJson' = takesJson /\ UNCHANGED streamVars
  BY DEF Invoke, Return, Fail, Refuse
<1> QED
  BY <1>4, <1>5 DEF Typed, TypeOK, CallStates

StreamStates == {"idle", "json", "binary", "direct", "failed"}

StreamStep(s) ==
    \/ Open(s) \/ Give(s) \/ CloseInput(s) \/ FirstAsks(s) \/ Pulled(s) \/ PulledEnd(s)
    \/ RefuseStream(s) \/ FailStream(s) \/ Replay(s) \/ SecondAsks(s) \/ DirectSends(s)

\* A step of one stream leaves the others, and the unary calls, alone.
LEMMA StreamFrame ==
    ASSUME Typed, NEW s \in Streams, StreamStep(s)
    PROVE  /\ call' = call /\ takesJson' = takesJson
           /\ \A t \in Streams \ {s} :
                /\ stream'[t] = stream[t] /\ consumed'[t] = consumed[t]
                /\ recorded'[t] = recorded[t] /\ asking'[t] = asking[t]
                /\ replaying'[t] = replaying[t] /\ replayed'[t] = replayed[t]
                /\ binaryWire'[t] = binaryWire[t] /\ orphaned'[t] = orphaned[t]
<1>1. CASE Open(s) \/ Give(s) \/ CloseInput(s) \/ FirstAsks(s)
  BY <1>1 DEF Typed, TypeOK, Open, Give, CloseInput, FirstAsks, Ask
<1>2. CASE Pulled(s) \/ PulledEnd(s)
  BY <1>2 DEF Typed, TypeOK, Pulled, PulledEnd
<1>3. CASE RefuseStream(s) \/ FailStream(s) \/ Replay(s)
  BY <1>3 DEF Typed, TypeOK, RefuseStream, FailStream, Replay
<1>4. CASE SecondAsks(s) \/ DirectSends(s)
  BY <1>4 DEF Typed, TypeOK, SecondAsks, DirectSends, Ask
<1> QED
  BY <1>1, <1>2, <1>3, <1>4 DEF StreamStep

\* The types of one stream's variables.
LEMMA StreamFacts ==
    ASSUME Typed, NEW s \in Streams
    PROVE  /\ given[s] \in 0 .. MaxSent /\ consumed[s] \in 0 .. MaxSent
           /\ replayed[s] \in 0 .. MaxSent
           /\ recorded[s] \in Seq(1 .. MaxSent) /\ binaryWire[s] \in Seq(1 .. MaxSent)
           /\ asking[s] \in Seq(Attempts)
           /\ Len(recorded[s]) \in Nat /\ Len(recorded[s]) <= consumed[s]
           /\ MaxSent \in Nat
BY ConstantsAssumption, LenProperties DEF Typed, TypeOK

LEMMA StreamType ==
    ASSUME Typed, NEW s \in Streams, StreamStep(s)
    PROVE  Typed'
<1>0. /\ given[s] \in 0 .. MaxSent /\ consumed[s] \in 0 .. MaxSent
      /\ replayed[s] \in 0 .. MaxSent
      /\ recorded[s] \in Seq(1 .. MaxSent) /\ binaryWire[s] \in Seq(1 .. MaxSent)
      /\ asking[s] \in Seq(Attempts)
      /\ Len(recorded[s]) \in Nat /\ Len(recorded[s]) <= consumed[s]
      /\ MaxSent \in Nat
  BY StreamFacts
<1>1. CASE Open(s)
  <2>1. stream' \in [Streams -> StreamStates]
    BY <1>1 DEF Typed, TypeOK, Open, StreamStates
  <2> QED
    BY <1>1, <2>1 DEF Typed, TypeOK, Open, StreamStates
<1>2. CASE Give(s) \/ CloseInput(s)
  <2>1. given' \in [Streams -> 0 .. MaxSent]
    <3>1. CASE Give(s)
      <4>1. given[s] + 1 \in 0 .. MaxSent
        <5>1. given[s] < MaxSent
          BY <3>1 DEF Give
        <5>2. given[s] \in 0 .. MaxSent /\ MaxSent \in Nat
          BY <1>0
        <5> QED
          BY <5>1, <5>2
      <4> QED
        BY <3>1, <4>1 DEF Typed, TypeOK, Give
    <3>2. CASE CloseInput(s)
      BY <3>2 DEF Typed, TypeOK, CloseInput
    <3> QED
      BY <1>2, <3>1, <3>2
  <2>2. closed' \in [Streams -> BOOLEAN]
    BY <1>2 DEF Typed, TypeOK, Give, CloseInput
  <2> QED
    BY <1>2, <2>1, <2>2 DEF Typed, TypeOK, Give, CloseInput
<1>3. CASE FirstAsks(s) \/ SecondAsks(s)
  <2>1. \A a \in Attempts : Append(asking[s], a) \in Seq(Attempts)
    BY <1>0, AppendProperties
  <2>2. asking' \in [Streams -> Seq(Attempts)] /\ replaying' \in [Streams -> BOOLEAN]
    BY <1>3, <2>1 DEF Typed, TypeOK, FirstAsks, SecondAsks, Ask, Attempts
  <2> QED
    BY <1>3, <2>2 DEF Typed, TypeOK, FirstAsks, SecondAsks
<1>4. CASE Pulled(s)
  <2>1. Tail(asking[s]) \in Seq(Attempts)
    BY <1>0, <1>4, HeadTailProperties DEF Pulled
  <2>2. consumed[s] + 1 \in 1 .. MaxSent /\ consumed[s] + 1 \in 0 .. MaxSent
    <3>1. consumed[s] < given[s]
      BY <1>4 DEF Pulled
    <3>2. consumed[s] \in Nat /\ given[s] \in Nat /\ given[s] <= MaxSent
      BY <1>0
    <3> QED
      BY <3>1, <3>2, Successor
  <2>3. /\ Append(recorded[s], consumed[s] + 1) \in Seq(1 .. MaxSent)
        /\ Append(binaryWire[s], consumed[s] + 1) \in Seq(1 .. MaxSent)
        /\ Len(Append(recorded[s], consumed[s] + 1)) = Len(recorded[s]) + 1
    BY <1>0, <2>2, AppendProperties
  <2>4. /\ asking' \in [Streams -> Seq(Attempts)]
        /\ consumed' \in [Streams -> 0 .. MaxSent]
        /\ recorded' \in [Streams -> Seq(1 .. MaxSent)]
    BY <1>4, <2>1, <2>2, <2>3 DEF Typed, TypeOK, Pulled
  <2>5. binaryWire' \in [Streams -> Seq(1 .. MaxSent)]
    BY <1>0, <1>4, <2>3 DEF Typed, TypeOK, Pulled
  <2>6. \A t \in Streams : Len(recorded'[t]) <= consumed'[t]
    BY <1>0, <1>4, <2>2, <2>3 DEF Typed, TypeOK, Pulled
  <2> QED
    BY <1>4, <2>4, <2>5, <2>6 DEF Typed, TypeOK, Pulled
<1>5. CASE PulledEnd(s)
  <2>1. Tail(asking[s]) \in Seq(Attempts)
    BY <1>0, <1>5, HeadTailProperties DEF PulledEnd
  <2>2. asking' \in [Streams -> Seq(Attempts)] /\ sourceDone' \in [Streams -> BOOLEAN]
    BY <1>5, <2>1 DEF Typed, TypeOK, PulledEnd
  <2> QED
    BY <1>5, <2>2 DEF Typed, TypeOK, PulledEnd
<1>6. CASE RefuseStream(s) \/ FailStream(s)
  <2>1. stream' \in [Streams -> StreamStates] /\ orphaned' \in [Streams -> BOOLEAN]
    BY <1>6 DEF Typed, TypeOK, RefuseStream, FailStream, StreamStates, IsAsking, Contains
  <2>2. memory' \in [Kinds -> {"json", "binary"}]
    BY <1>6 DEF Typed, TypeOK, RefuseStream, FailStream
  <2> QED
    BY <1>6, <2>1, <2>2 DEF Typed, TypeOK, RefuseStream, FailStream, StreamStates
<1>7. CASE Replay(s)
  <2>1. replayed[s] + 1 \in 1 .. Len(recorded[s]) /\ replayed[s] + 1 \in 0 .. MaxSent
    <3>1. replayed[s] < Len(recorded[s])
      BY <1>7 DEF Replay
    <3>2. /\ replayed[s] \in 0 .. MaxSent /\ consumed[s] \in 0 .. MaxSent /\ MaxSent \in Nat
          /\ Len(recorded[s]) \in Nat /\ Len(recorded[s]) <= consumed[s]
      BY <1>0
    <3> QED
      BY <3>1, <3>2
  <2>2. recorded[s][replayed[s] + 1] \in 1 .. MaxSent
    BY <1>0, <2>1, ElementOfSeq
  <2>3. Append(binaryWire[s], recorded[s][replayed[s] + 1]) \in Seq(1 .. MaxSent)
    BY <1>0, <2>2, AppendProperties
  <2>4. /\ replayed' \in [Streams -> 0 .. MaxSent]
        /\ binaryWire' \in [Streams -> Seq(1 .. MaxSent)]
    BY <1>7, <2>1, <2>3 DEF Typed, TypeOK, Replay
  <2> QED
    BY <1>7, <2>4 DEF Typed, TypeOK, Replay
<1>8. CASE DirectSends(s)
  <2>1. consumed[s] + 1 \in 1 .. MaxSent /\ consumed[s] + 1 \in 0 .. MaxSent
    <3>1. consumed[s] < given[s]
      BY <1>8 DEF DirectSends
    <3>2. consumed[s] \in Nat /\ given[s] \in Nat /\ given[s] <= MaxSent
      BY <1>0
    <3> QED
      BY <3>1, <3>2, Successor
  <2>2. Append(binaryWire[s], consumed[s] + 1) \in Seq(1 .. MaxSent)
    BY <1>0, <2>1, AppendProperties
  <2>3. /\ consumed' \in [Streams -> 0 .. MaxSent]
        /\ binaryWire' \in [Streams -> Seq(1 .. MaxSent)]
    BY <1>8, <2>1, <2>2 DEF Typed, TypeOK, DirectSends
  <2>4. \A t \in Streams : Len(recorded'[t]) <= consumed'[t]
    BY <1>0, <1>8 DEF Typed, TypeOK, DirectSends
  <2> QED
    BY <1>8, <2>3, <2>4 DEF Typed, TypeOK, DirectSends
<1> QED
  BY <1>1, <1>2, <1>3, <1>4, <1>5, <1>6, <1>7, <1>8 DEF StreamStep

-----------------------------------------------------------------------------
(* The invariant of one stream.                                            *)

Kept(s) == \A m \in 1 .. consumed[s] : Contains(binaryWire[s], m)

\* Both attempts number what they record as they read it.
Source(s) ==
    /\ \A i \in 1 .. Len(recorded[s]) : recorded[s][i] = i
    /\ stream[s] \in {"json", "binary"} \/ asking[s] # <<>> => Len(recorded[s]) = consumed[s]
    /\ stream[s] = "idle" => consumed[s] = 0
    /\ OneFirst(asking[s])
    /\ stream[s] \in {"idle", "direct"} => asking[s] = <<>>
    /\ IsAsking(s, "second") => ~replaying[s]

\* What the origin was sent in binary.
Wire(s) ==
    /\ \A i, j \in 1 .. Len(binaryWire[s]) : i < j => binaryWire[s][i] < binaryWire[s][j]
    /\ \A i \in 1 .. Len(binaryWire[s]) : binaryWire[s][i] <= consumed[s]
    /\ stream[s] \in {"idle", "json"} => binaryWire[s] = <<>> /\ replaying[s] /\ replayed[s] = 0
    /\ stream[s] = "direct" => Kept(s)

\* What the second attempt has sent while it replays, and when it reads itself.
Repeat(s) ==
    /\ replayed[s] <= Len(recorded[s])
    /\ stream[s] = "binary" /\ replaying[s] =>
          /\ \A i \in 1 .. Len(binaryWire[s]) : binaryWire[s][i] <= replayed[s]
          /\ \A m \in 1 .. replayed[s] : Contains(binaryWire[s], m)
    /\ stream[s] = "binary" /\ IsAsking(s, "first") =>
          orphaned[s] /\ (~replaying[s] => Kept(s))
    /\ stream[s] = "binary" /\ ~replaying[s] =>
          /\ ~Kept(s) => orphaned[s]
          /\ \A m, n \in 1 .. consumed[s] :
                ~Contains(binaryWire[s], m) /\ ~Contains(binaryWire[s], n) => m = n

StreamInv(s) == Source(s) /\ Wire(s) /\ Repeat(s)

LEMMA InitStream == ASSUME Init, NEW s \in Streams PROVE StreamInv(s)
<1>1. /\ recorded[s] = <<>> /\ asking[s] = <<>> /\ binaryWire[s] = <<>>
      /\ stream[s] = "idle" /\ consumed[s] = 0 /\ replayed[s] = 0 /\ replaying[s] = TRUE
  BY DEF Init
<1>2. Len(<<>>) = 0
  BY EmptySeq
<1> QED
  BY <1>1, <1>2 DEF StreamInv, Source, Wire, Repeat, OneFirst, IsAsking, Contains

\* A stream whose variables do not change keeps the invariant.
LEMMA StreamStays ==
    ASSUME NEW s, StreamInv(s),
           stream'[s] = stream[s], consumed'[s] = consumed[s], recorded'[s] = recorded[s],
           asking'[s] = asking[s], replaying'[s] = replaying[s], replayed'[s] = replayed[s],
           binaryWire'[s] = binaryWire[s], orphaned'[s] = orphaned[s]
    PROVE  StreamInv(s)'
BY DEF StreamInv, Source, Wire, Repeat, IsAsking, Kept

LEMMA SortedAppend ==
    ASSUME NEW q \in Seq(1 .. MaxSent), NEW m \in 1 .. MaxSent,
           \A i, j \in 1 .. Len(q) : i < j => q[i] < q[j],
           \A i \in 1 .. Len(q) : q[i] < m
    PROVE  /\ \A i, j \in 1 .. Len(Append(q, m)) :
                 i < j => Append(q, m)[i] < Append(q, m)[j]
           /\ \A i \in 1 .. Len(Append(q, m)) : Append(q, m)[i] <= m
<1>1. /\ Len(Append(q, m)) = Len(q) + 1
      /\ \A i \in 1 .. Len(q) : Append(q, m)[i] = q[i]
      /\ Append(q, m)[Len(q) + 1] = m
      /\ Len(q) \in Nat /\ m \in Int
  BY AppendProperties, LenProperties, ConstantsAssumption
<1>2. \A i \in 1 .. Len(q) : q[i] \in Int
  BY ElementOfSeq, ConstantsAssumption
<1> QED
  BY <1>1, <1>2

\* Opening a stream, giving to it and failing it.
LEMMA PlainSteps ==
    ASSUME Typed, NEW s \in Streams, StreamInv(s),
           Open(s) \/ Give(s) \/ CloseInput(s) \/ FailStream(s)
    PROVE  StreamInv(s)'
<1>1. CASE Give(s) \/ CloseInput(s)
  BY <1>1, StreamStays DEF Give, CloseInput
<1>2. CASE Open(s)
  <2>1. /\ stream[s] = "idle" /\ stream'[s] \in {"direct", "json"}
        /\ consumed'[s] = consumed[s] /\ recorded'[s] = recorded[s] /\ asking'[s] = asking[s]
        /\ replaying'[s] = replaying[s] /\ replayed'[s] = replayed[s]
        /\ binaryWire'[s] = binaryWire[s] /\ orphaned'[s] = orphaned[s]
    BY <1>2 DEF Typed, TypeOK, Open
  <2>2. Len(recorded[s]) = consumed[s]
    BY <2>1, StreamFacts DEF StreamInv, Source
  <2> QED
    BY <2>1, <2>2 DEF StreamInv, Source, Wire, Repeat, IsAsking, Kept, Contains
<1>3. CASE FailStream(s)
  <2>1. /\ stream'[s] = "failed" /\ stream[s] \in {"json", "binary", "direct"}
        /\ consumed'[s] = consumed[s] /\ recorded'[s] = recorded[s] /\ asking'[s] = asking[s]
        /\ replaying'[s] = replaying[s] /\ replayed'[s] = replayed[s]
        /\ binaryWire'[s] = binaryWire[s]
    BY <1>3 DEF Typed, TypeOK, FailStream
  <2> QED
    BY <2>1 DEF StreamInv, Source, Wire, Repeat, IsAsking, Kept
<1> QED
  BY <1>1, <1>2, <1>3

\* A 415: what the first attempt left goes to the second.
LEMMA RefuseStep ==
    ASSUME Typed, NEW s \in Streams, StreamInv(s), RefuseStream(s)
    PROVE  StreamInv(s)'
<1>1. /\ stream[s] = "json" /\ stream'[s] = "binary"
      /\ consumed'[s] = consumed[s] /\ recorded'[s] = recorded[s] /\ asking'[s] = asking[s]
      /\ replaying'[s] = replaying[s] /\ replayed'[s] = replayed[s]
      /\ binaryWire'[s] = binaryWire[s] /\ orphaned'[s] = IsAsking(s, "first")
  BY DEF Typed, TypeOK, RefuseStream
<1>2. binaryWire[s] = <<>> /\ replaying[s] /\ replayed[s] = 0 /\ Len(<<>>) = 0
  BY <1>1, EmptySeq DEF StreamInv, Wire
<1>3. Source(s)'
  BY <1>1 DEF StreamInv, Source, IsAsking
<1>4. Wire(s)'
  BY <1>1 DEF StreamInv, Wire
<1>5. Repeat(s)'
  BY <1>1, <1>2 DEF StreamInv, Repeat, IsAsking
<1> QED
  BY <1>3, <1>4, <1>5 DEF StreamInv

\* An attempt asks for the next message.
LEMMA AskStep ==
    ASSUME Typed, NEW s \in Streams, StreamInv(s), FirstAsks(s) \/ SecondAsks(s)
    PROVE  StreamInv(s)'
<1>0. asking[s] \in Seq(Attempts) /\ Len(recorded[s]) \in Nat /\ consumed[s] \in 0 .. MaxSent
  BY StreamFacts
<1>1. CASE FirstAsks(s)
  <2>1. /\ stream[s] = "json" /\ ~Contains(asking[s], "first")
        /\ stream'[s] = stream[s] /\ consumed'[s] = consumed[s] /\ recorded'[s] = recorded[s]
        /\ asking'[s] = Append(asking[s], "first")
        /\ replaying'[s] = replaying[s] /\ replayed'[s] = replayed[s]
        /\ binaryWire'[s] = binaryWire[s] /\ orphaned'[s] = orphaned[s]
    BY <1>1 DEF Typed, TypeOK, FirstAsks, Ask, IsAsking
  <2>2. OneFirst(asking'[s])
    BY <1>0, <2>1, OneFirstAppend DEF StreamInv, Source, Attempts
  <2>3. Contains(asking'[s], "second") <=> Contains(asking[s], "second")
    BY <1>0, <2>1, ContainsAppend DEF Attempts
  <2>4. Source(s)'
    BY <2>1, <2>2, <2>3 DEF StreamInv, Source, IsAsking
  <2>5. Wire(s)'
    BY <2>1 DEF StreamInv, Wire
  <2>6. Repeat(s)'
    BY <2>1 DEF StreamInv, Repeat
  <2> QED
    BY <2>4, <2>5, <2>6 DEF StreamInv
<1>2. CASE SecondAsks(s)
  <2>1. /\ stream[s] = "binary"
        /\ replaying[s] => replayed[s] = Len(recorded[s])
        /\ stream'[s] = stream[s] /\ consumed'[s] = consumed[s] /\ recorded'[s] = recorded[s]
        /\ asking'[s] = Append(asking[s], "second")
        /\ replaying'[s] = FALSE /\ replayed'[s] = replayed[s]
        /\ binaryWire'[s] = binaryWire[s] /\ orphaned'[s] = orphaned[s]
    BY <1>2 DEF Typed, TypeOK, SecondAsks, Ask
  <2>2. OneFirst(asking'[s])
    BY <1>0, <2>1, OneFirstAppend DEF StreamInv, Source, Attempts
  <2>3. Contains(asking'[s], "first") <=> Contains(asking[s], "first")
    BY <1>0, <2>1, ContainsAppend DEF Attempts
  <2>4. Len(recorded[s]) = consumed[s]
    BY <2>1 DEF StreamInv, Source
  <2>5. Source(s)'
    BY <2>1, <2>2, <2>4 DEF StreamInv, Source, IsAsking
  <2>6. Wire(s)'
    BY <2>1 DEF StreamInv, Wire, Kept
  <2>7. replaying[s] => Kept(s)
    BY <2>1, <2>4 DEF StreamInv, Repeat, Kept
  <2>8. Repeat(s)'
    BY <2>1, <2>3, <2>7 DEF StreamInv, Repeat, IsAsking, Kept
  <2> QED
    BY <2>5, <2>6, <2>8 DEF StreamInv
<1> QED
  BY <1>1, <1>2

\* The input answers the oldest pull(): with its end, or with a message.
LEMMA PulledEndStep ==
    ASSUME Typed, NEW s \in Streams, StreamInv(s), PulledEnd(s)
    PROVE  StreamInv(s)'
<1>1. asking[s] \in Seq(Attempts) /\ asking[s] # <<>>
  BY StreamFacts DEF PulledEnd
<1>2. /\ stream'[s] = stream[s] /\ consumed'[s] = consumed[s] /\ recorded'[s] = recorded[s]
      /\ asking'[s] = Tail(asking[s])
      /\ replaying'[s] = replaying[s] /\ replayed'[s] = replayed[s]
      /\ binaryWire'[s] = binaryWire[s] /\ orphaned'[s] = orphaned[s]
  BY DEF Typed, TypeOK, PulledEnd
<1>3. /\ OneFirst(asking'[s])
      /\ \A a : Contains(asking'[s], a) => Contains(asking[s], a)
  BY <1>1, <1>2, OneFirstTail, ContainsTail DEF StreamInv, Source
<1>4. Source(s)'
  BY <1>1, <1>2, <1>3 DEF StreamInv, Source, IsAsking
<1>5. Wire(s)'
  BY <1>2 DEF StreamInv, Wire, Kept
<1>6. Repeat(s)'
  BY <1>2, <1>3 DEF StreamInv, Repeat, IsAsking, Kept
<1> QED
  BY <1>4, <1>5, <1>6 DEF StreamInv

LEMMA PulledStep ==
    ASSUME Typed, NEW s \in Streams, StreamInv(s), Pulled(s)
    PROVE  StreamInv(s)'
<1> DEFINE m == consumed[s] + 1
<1>0. /\ asking[s] \in Seq(Attempts) /\ asking[s] # <<>>
      /\ recorded[s] \in Seq(1 .. MaxSent) /\ binaryWire[s] \in Seq(1 .. MaxSent)
      /\ consumed[s] \in Nat /\ m \in 1 .. MaxSent /\ Len(binaryWire[s]) \in Nat
      /\ replayed[s] \in Nat
      /\ \A i \in 1 .. Len(binaryWire[s]) : binaryWire[s][i] \in Nat
  <2>1. /\ asking[s] \in Seq(Attempts) /\ recorded[s] \in Seq(1 .. MaxSent)
        /\ binaryWire[s] \in Seq(1 .. MaxSent)
        /\ replayed[s] \in 0 .. MaxSent /\ consumed[s] \in 0 .. MaxSent
        /\ given[s] \in 0 .. MaxSent /\ MaxSent \in Nat
    BY StreamFacts
  <2>2. asking[s] # <<>> /\ consumed[s] < given[s]
    BY DEF Pulled
  <2>3. m \in 1 .. MaxSent
    <3>1. consumed[s] \in Nat /\ given[s] \in Nat /\ given[s] <= MaxSent
      BY <2>1
    <3> QED
      BY <2>2, <3>1, Successor
  <2>4. \A i \in 1 .. Len(binaryWire[s]) : binaryWire[s][i] \in 1 .. MaxSent
    BY <2>1, ElementOfSeq
  <2> QED
    BY <2>1, <2>2, <2>3, <2>4, LenProperties
<1>1. /\ stream'[s] = stream[s] /\ consumed'[s] = m
      /\ recorded'[s] = Append(recorded[s], m)
      /\ asking'[s] = Tail(asking[s])
      /\ replaying'[s] = replaying[s] /\ replayed'[s] = replayed[s]
      /\ binaryWire'[s] = IF Head(asking[s]) = "second" THEN Append(binaryWire[s], m)
                                                        ELSE binaryWire[s]
      /\ orphaned'[s] = orphaned[s]
  BY DEF Typed, TypeOK, Pulled
<1>2. /\ OneFirst(asking'[s])
      /\ \A a : Contains(asking'[s], a) => Contains(asking[s], a)
      /\ Head(asking[s]) = "first" => ~Contains(asking'[s], "first")
      /\ IsAsking(s, Head(asking[s]))
      /\ Head(asking[s]) \in Attempts
  BY <1>0, <1>1, OneFirstTail, ContainsTail, HeadTailProperties DEF StreamInv, Source, IsAsking
<1>3. /\ Len(recorded[s]) = consumed[s] /\ Len(recorded'[s]) = m
      /\ \A i \in 1 .. consumed[s] : recorded'[s][i] = recorded[s][i]
      /\ recorded'[s][m] = m
  BY <1>0, <1>1, AppendProperties DEF StreamInv, Source
<1>4. stream[s] \notin {"idle", "direct"}
  BY <1>0 DEF StreamInv, Source
<1>5. Source(s)'
  <2>1. \A i \in 1 .. consumed[s] : recorded[s][i] = i
    BY <1>3 DEF StreamInv, Source
  <2>2. \A i \in 1 .. m : i \in 1 .. consumed[s] \/ i = m
    BY <1>0
  <2>3. \A i \in 1 .. m : recorded'[s][i] = i
    BY <1>3, <2>1, <2>2
  <2> QED
    BY <1>1, <1>2, <1>3, <1>4, <2>3 DEF StreamInv, Source, IsAsking
<1>6. CASE Head(asking[s]) = "second"
  <2>1. ~replaying[s] /\ binaryWire'[s] = Append(binaryWire[s], m)
    BY <1>1, <1>2, <1>6 DEF StreamInv, Source
  <2>2. \A i \in 1 .. Len(binaryWire[s]) : binaryWire[s][i] < m
    BY <1>0 DEF StreamInv, Wire
  <2>3. /\ \A i, j \in 1 .. Len(binaryWire'[s]) :
              i < j => binaryWire'[s][i] < binaryWire'[s][j]
        /\ \A i \in 1 .. Len(binaryWire'[s]) : binaryWire'[s][i] <= m
    BY <1>0, <2>1, <2>2, SortedAppend DEF StreamInv, Wire
  <2>4. Wire(s)'
    BY <1>1, <1>4, <2>1, <2>3 DEF StreamInv, Wire
  <2>5. \A n : Contains(binaryWire'[s], n) <=> Contains(binaryWire[s], n) \/ n = m
    <3> SUFFICES ASSUME NEW n
                 PROVE  Contains(binaryWire'[s], n) <=> Contains(binaryWire[s], n) \/ n = m
      OBVIOUS
    <3>1. Contains(Append(binaryWire[s], m), n) <=> Contains(binaryWire[s], n) \/ n = m
      <4> HIDE DEF m
      <4> QED
        BY <1>0, ContainsAppend
    <3> QED
      BY <2>1, <3>1
  <2>6. Kept(s) => Kept(s)'
    BY <1>0, <1>1, <2>5 DEF Kept
  <2>7. ~Kept(s)' => ~Kept(s)
    BY <2>6
  <2>8. \A n \in 1 .. m : ~Contains(binaryWire'[s], n) =>
            n \in 1 .. consumed[s] /\ ~Contains(binaryWire[s], n)
    BY <1>0, <2>5
  <2>9. Repeat(s)'
    BY <1>0, <1>1, <1>2, <1>3, <2>1, <2>6, <2>8 DEF StreamInv, Repeat, IsAsking
  <2> QED
    BY <1>5, <2>4, <2>9 DEF StreamInv
<1>7. CASE Head(asking[s]) = "first"
  <2>1. binaryWire'[s] = binaryWire[s] /\ ~Contains(asking'[s], "first") /\ IsAsking(s, "first")
    BY <1>1, <1>2, <1>7
  <2>2. \A i \in 1 .. Len(binaryWire[s]) : binaryWire[s][i] <= m
    BY <1>0 DEF StreamInv, Wire
  <2>3. Wire(s)'
    BY <1>1, <1>4, <2>1, <2>2 DEF StreamInv, Wire
  <2>4. stream[s] = "binary" /\ ~replaying[s] => Kept(s) /\ orphaned[s]
    BY <2>1 DEF StreamInv, Repeat
  <2>5. stream[s] = "binary" /\ ~replaying[s] =>
          \A n \in 1 .. m : ~Contains(binaryWire'[s], n) => n = m
    BY <1>0, <2>1, <2>4 DEF Kept
  <2>6. replayed'[s] <= Len(recorded'[s])
    BY <1>0, <1>1, <1>3 DEF StreamInv, Repeat
  <2>7. ~IsAsking(s, "first")'
    BY <2>1 DEF IsAsking
  <2>8. stream[s] = "binary" /\ replaying[s] =>
          /\ \A i \in 1 .. Len(binaryWire'[s]) : binaryWire'[s][i] <= replayed'[s]
          /\ \A n \in 1 .. replayed'[s] : Contains(binaryWire'[s], n)
    BY <1>1, <2>1 DEF StreamInv, Repeat
  <2>9. stream[s] = "binary" /\ ~replaying[s] => orphaned'[s]
    BY <1>1, <2>4
  <2>10. Repeat(s)'
    BY <1>1, <2>5, <2>6, <2>7, <2>8, <2>9 DEF Repeat
  <2> QED
    BY <1>5, <2>3, <2>10 DEF StreamInv
<1> QED
  BY <1>2, <1>6, <1>7 DEF Attempts

\* What was recorded is sent again, in its order.
LEMMA ReplayStep ==
    ASSUME Typed, NEW s \in Streams, StreamInv(s), Replay(s)
    PROVE  StreamInv(s)'
<1> DEFINE m == replayed[s] + 1
<1>0. /\ binaryWire[s] \in Seq(1 .. MaxSent) /\ Len(binaryWire[s]) \in Nat
      /\ replayed[s] \in Nat /\ Len(recorded[s]) \in Nat /\ consumed[s] \in Nat
      /\ m \in 1 .. Len(recorded[s]) /\ m \in 1 .. MaxSent
      /\ \A i \in 1 .. Len(binaryWire[s]) : binaryWire[s][i] \in Nat
  <2>1. /\ binaryWire[s] \in Seq(1 .. MaxSent) /\ Len(recorded[s]) \in Nat
        /\ replayed[s] \in 0 .. MaxSent /\ consumed[s] \in 0 .. MaxSent
        /\ Len(recorded[s]) <= consumed[s] /\ MaxSent \in Nat
    BY StreamFacts
  <2>2. replayed[s] < Len(recorded[s])
    BY DEF Replay
  <2>3. m \in 1 .. Len(recorded[s]) /\ m \in 1 .. MaxSent
    <3>1. replayed[s] \in Nat /\ Len(recorded[s]) \in Nat /\ Len(recorded[s]) <= MaxSent
      BY <2>1
    <3> QED
      BY <2>2, <3>1, Successor
  <2>4. \A i \in 1 .. Len(binaryWire[s]) : binaryWire[s][i] \in 1 .. MaxSent
    BY <2>1, ElementOfSeq
  <2> QED
    BY <2>1, <2>3, <2>4, LenProperties
<1>1. recorded[s][m] = m
  BY <1>0 DEF StreamInv, Source
<1>2. /\ stream[s] = "binary" /\ replaying[s]
      /\ stream'[s] = stream[s] /\ consumed'[s] = consumed[s] /\ recorded'[s] = recorded[s]
      /\ asking'[s] = asking[s] /\ replaying'[s] = replaying[s] /\ replayed'[s] = m
      /\ binaryWire'[s] = Append(binaryWire[s], m)
      /\ orphaned'[s] = orphaned[s]
  BY <1>1 DEF Typed, TypeOK, Replay
<1>3. Len(recorded[s]) = consumed[s]
  BY <1>2 DEF StreamInv, Source
<1>4. /\ \A i \in 1 .. Len(binaryWire[s]) : binaryWire[s][i] <= replayed[s]
      /\ \A n \in 1 .. replayed[s] : Contains(binaryWire[s], n)
  BY <1>2 DEF StreamInv, Repeat
<1>5. /\ \A i, j \in 1 .. Len(binaryWire'[s]) : i < j => binaryWire'[s][i] < binaryWire'[s][j]
      /\ \A i \in 1 .. Len(binaryWire'[s]) : binaryWire'[s][i] <= m
  <2>1. ASSUME NEW i \in 1 .. Len(binaryWire[s]) PROVE binaryWire[s][i] < m
    <3>1. binaryWire[s][i] \in Nat /\ binaryWire[s][i] <= replayed[s] /\ replayed[s] \in Nat
      BY <1>0, <1>4
    <3> QED
      BY <3>1
  <2>2. \A i, j \in 1 .. Len(binaryWire[s]) : i < j => binaryWire[s][i] < binaryWire[s][j]
    BY DEF StreamInv, Wire
  <2> HIDE DEF m
  <2> QED
    BY <1>0, <1>2, <2>1, <2>2, SortedAppend
<1>6. ASSUME NEW n \in 1 .. m PROVE Contains(binaryWire'[s], n)
  <2>1. Contains(Append(binaryWire[s], m), n) <=> Contains(binaryWire[s], n) \/ n = m
    <3> HIDE DEF m
    <3> QED
      BY <1>0, ContainsAppend
  <2>2. n \in 1 .. replayed[s] \/ n = m
    BY <1>0
  <2> QED
    BY <1>2, <1>4, <2>1, <2>2
<1>7. Source(s)'
  BY <1>2 DEF StreamInv, Source, IsAsking
<1>8. Wire(s)'
  <2>1. \A i \in 1 .. Len(binaryWire'[s]) : binaryWire'[s][i] <= consumed[s]
    <3>1. ASSUME NEW i \in 1 .. Len(binaryWire'[s]) PROVE binaryWire'[s][i] <= consumed[s]
      <4>1. binaryWire'[s][i] \in Nat
        <5>1. Append(binaryWire[s], m) \in Seq(1 .. MaxSent)
          BY <1>0, AppendProperties
        <5>2. binaryWire'[s] \in Seq(1 .. MaxSent)
          BY <1>2, <5>1
        <5>3. binaryWire'[s][i] \in 1 .. MaxSent
          BY <5>2, ElementOfSeq
        <5> QED
          BY <5>3, ConstantsAssumption
      <4>2. binaryWire'[s][i] <= m /\ m <= consumed[s]
        BY <1>0, <1>3, <1>5
      <4>3. m \in Nat /\ consumed[s] \in Nat
        BY <1>0
      <4> HIDE DEF m
      <4> QED
        BY <4>1, <4>2, <4>3
    <3> QED
      BY <3>1
  <2> QED
    BY <1>2, <1>5, <2>1 DEF Wire
<1>9. Repeat(s)'
  <2>1. m <= Len(recorded[s])
    BY <1>0
  <2>2. stream[s] = "binary" /\ IsAsking(s, "first") => orphaned[s]
    BY DEF StreamInv, Repeat
  <2>3. IsAsking(s, "first")' <=> IsAsking(s, "first")
    BY <1>2 DEF IsAsking
  <2> QED
    BY <1>2, <1>5, <1>6, <2>1, <2>2, <2>3 DEF Repeat
<1> QED
  BY <1>7, <1>8, <1>9 DEF StreamInv

\* A stream that needs no second attempt sends what it reads.
LEMMA DirectStep ==
    ASSUME Typed, NEW s \in Streams, StreamInv(s), DirectSends(s)
    PROVE  StreamInv(s)'
<1> DEFINE m == consumed[s] + 1
<1>0. /\ binaryWire[s] \in Seq(1 .. MaxSent) /\ Len(binaryWire[s]) \in Nat
      /\ consumed[s] \in Nat /\ m \in 1 .. MaxSent /\ Len(recorded[s]) \in Nat
      /\ replayed[s] \in Nat
      /\ \A i \in 1 .. Len(binaryWire[s]) : binaryWire[s][i] \in Nat
  <2>1. /\ binaryWire[s] \in Seq(1 .. MaxSent) /\ Len(recorded[s]) \in Nat
        /\ replayed[s] \in 0 .. MaxSent /\ consumed[s] \in 0 .. MaxSent
        /\ given[s] \in 0 .. MaxSent /\ MaxSent \in Nat
    BY StreamFacts
  <2>2. consumed[s] < given[s]
    BY DEF DirectSends
  <2>3. m \in 1 .. MaxSent
    <3>1. consumed[s] \in Nat /\ given[s] \in Nat /\ given[s] <= MaxSent
      BY <2>1
    <3> QED
      BY <2>2, <3>1, Successor
  <2>4. \A i \in 1 .. Len(binaryWire[s]) : binaryWire[s][i] \in 1 .. MaxSent
    BY <2>1, ElementOfSeq
  <2> QED
    BY <2>1, <2>3, <2>4, LenProperties
<1>1. /\ stream[s] = "direct" /\ stream'[s] = stream[s] /\ consumed'[s] = m
      /\ recorded'[s] = recorded[s] /\ asking'[s] = asking[s]
      /\ replaying'[s] = replaying[s] /\ replayed'[s] = replayed[s]
      /\ binaryWire'[s] = Append(binaryWire[s], m)
  BY DEF Typed, TypeOK, DirectSends
<1>2. /\ \A i, j \in 1 .. Len(binaryWire'[s]) : i < j => binaryWire'[s][i] < binaryWire'[s][j]
      /\ \A i \in 1 .. Len(binaryWire'[s]) : binaryWire'[s][i] <= m
  <2>1. \A i \in 1 .. Len(binaryWire[s]) : binaryWire[s][i] < m
    BY <1>0 DEF StreamInv, Wire
  <2>2. \A i, j \in 1 .. Len(binaryWire[s]) : i < j => binaryWire[s][i] < binaryWire[s][j]
    BY DEF StreamInv, Wire
  <2> HIDE DEF m
  <2> QED
    BY <1>0, <1>1, <2>1, <2>2, SortedAppend
<1>3. ASSUME NEW n \in 1 .. m PROVE Contains(binaryWire'[s], n)
  <2>1. Contains(Append(binaryWire[s], m), n) <=> Contains(binaryWire[s], n) \/ n = m
    <3> HIDE DEF m
    <3> QED
      BY <1>0, ContainsAppend
  <2>2. n \in 1 .. consumed[s] \/ n = m
    BY <1>0
  <2>3. \A k \in 1 .. consumed[s] : Contains(binaryWire[s], k)
    BY <1>1 DEF StreamInv, Wire, Kept
  <2> QED
    BY <1>1, <2>1, <2>2, <2>3
<1>4. asking[s] = <<>>
  BY <1>1 DEF StreamInv, Source
<1>5. Source(s)'
  BY <1>1, <1>4 DEF StreamInv, Source, IsAsking
<1>6. Wire(s)'
  BY <1>1, <1>2, <1>3 DEF Wire, Kept
<1>7. Repeat(s)'
  BY <1>1 DEF StreamInv, Repeat
<1> QED
  BY <1>5, <1>6, <1>7 DEF StreamInv

-----------------------------------------------------------------------------
(* The codec of the origin.                                                *)

\* An origin that takes JSON is never left for binary.
Codec ==
    /\ \A k \in Kinds \intersect takesJson : memory[k] = "json"
    /\ "unary" \in takesJson => \A c \in Calls : call[c] # "binary"
    /\ "bidi" \in takesJson => \A s \in Streams :
          stream[s] \notin {"binary", "direct"} /\ binaryWire[s] = <<>> /\ replaying[s]

CodecInv == Typed /\ Codec /\ \A s \in Streams : StreamInv(s)

LEMMA CodecInit == Init => Codec
BY DEF Init, Codec

LEMMA CodecUnary ==
    ASSUME Typed, Codec, NEW c \in Calls, Invoke(c) \/ Return(c) \/ Fail(c) \/ Refuse(c)
    PROVE  Codec'
<1>1. UNCHANGED <<takesJson, streamVars>>
  BY DEF Invoke, Return, Fail, Refuse
<1>2. CASE Invoke(c)
  BY <1>1, <1>2 DEF Typed, TypeOK, Codec, Invoke, Kinds
<1>3. CASE Return(c) \/ Fail(c)
  BY <1>1, <1>3 DEF Typed, TypeOK, Codec, Return, Fail
<1>4. CASE Refuse(c)
  BY <1>1, <1>4 DEF Typed, TypeOK, Codec, Refuse
<1> QED
  BY <1>2, <1>3, <1>4

LEMMA CodecStream ==
    ASSUME Typed, Codec, NEW s \in Streams, StreamInv(s), StreamStep(s)
    PROVE  Codec'
<1>1. /\ call' = call /\ takesJson' = takesJson
      /\ \A t \in Streams \ {s} :
            stream'[t] = stream[t] /\ binaryWire'[t] = binaryWire[t] /\ replaying'[t] = replaying[t]
  BY StreamFrame
<1>2. \A k \in Kinds \intersect takesJson : memory'[k] = "json"
  <2>1. CASE RefuseStream(s)
    BY <2>1 DEF Typed, TypeOK, Codec, RefuseStream
  <2>2. CASE ~RefuseStream(s)
    <3>1. memory' = memory
      BY <2>2 DEF StreamStep, Open, Give, CloseInput, FirstAsks, Pulled, PulledEnd,
                  FailStream, Replay, SecondAsks, DirectSends
    <3> QED
      BY <3>1 DEF Codec
  <2> QED
    BY <2>1, <2>2
<1>3. ASSUME "bidi" \in takesJson
      PROVE  stream'[s] \notin {"binary", "direct"} /\ binaryWire'[s] = <<>> /\ replaying'[s]
  <2>1. /\ stream[s] \notin {"binary", "direct"} /\ binaryWire[s] = <<>> /\ replaying[s]
        /\ memory["bidi"] = "json"
    BY <1>3 DEF Codec, Kinds
  <2>2. CASE Open(s) \/ FailStream(s)
    BY <2>1, <2>2 DEF Typed, TypeOK, Open, FailStream
  <2>3. CASE Give(s) \/ CloseInput(s) \/ FirstAsks(s) \/ PulledEnd(s)
    BY <2>1, <2>3 DEF Give, CloseInput, FirstAsks, PulledEnd
  <2>4. CASE Pulled(s)
    <3>1. Head(asking[s]) # "second"
      <4>1. asking[s] \in Seq(Attempts) /\ asking[s] # <<>>
        BY <2>4, StreamFacts DEF Pulled
      <4>2. Contains(asking[s], Head(asking[s]))
        BY <4>1, OneFirstTail DEF StreamInv, Source
      <4> QED
        BY <2>1, <4>2 DEF StreamInv, Source, IsAsking
    <3> QED
      BY <2>1, <2>4, <3>1 DEF Typed, TypeOK, Pulled
  <2>5. CASE RefuseStream(s) \/ Replay(s) \/ SecondAsks(s) \/ DirectSends(s)
    BY <1>3, <2>1, <2>5 DEF RefuseStream, Replay, SecondAsks, DirectSends
  <2> QED
    BY <2>2, <2>3, <2>4, <2>5 DEF StreamStep
<1> QED
  BY <1>1, <1>2, <1>3 DEF Codec

-----------------------------------------------------------------------------
(* The invariant, and the properties.                                      *)

LEMMA CodecInvNext == CodecInv /\ [Next]_vars => CodecInv'
<1> SUFFICES ASSUME CodecInv, [Next]_vars PROVE CodecInv'
  OBVIOUS
<1>1. ASSUME NEW c \in Calls, Invoke(c) \/ Return(c) \/ Fail(c) \/ Refuse(c) PROVE CodecInv'
  <2>1. UNCHANGED streamVars
    BY <1>1 DEF Invoke, Return, Fail, Refuse
  <2>2. \A s \in Streams : StreamInv(s)'
    BY <2>1, StreamStays DEF CodecInv
  <2> QED
    BY <1>1, <2>2, UnaryType, CodecUnary DEF CodecInv
<1>2. ASSUME NEW s \in Streams, StreamStep(s) PROVE CodecInv'
  <2>1. StreamInv(s)'
    BY <1>2, PlainSteps, RefuseStep, AskStep, PulledStep, PulledEndStep, ReplayStep, DirectStep
    DEF StreamStep, CodecInv
  <2>2. ASSUME NEW t \in Streams \ {s} PROVE StreamInv(t)'
    BY <1>2, StreamFrame, StreamStays DEF CodecInv
  <2> QED
    BY <1>2, <2>1, <2>2, StreamType, CodecStream DEF CodecInv
<1>3. ASSUME UNCHANGED vars PROVE CodecInv'
  <2>1. \A s \in Streams : StreamInv(s)'
    BY <1>3, StreamStays DEF CodecInv
  <2>2. Typed' /\ Codec'
    BY <1>3 DEF CodecInv, Typed, TypeOK, Codec
  <2> QED
    BY <2>1, <2>2 DEF CodecInv
<1> QED
  BY <1>1, <1>2, <1>3 DEF Next, StreamStep

\* The inductive invariant holds in every reachable state.
THEOREM Invariance == Spec => []CodecInv
<1>1. Init => CodecInv
  BY TypeInit, CodecInit, InitStream DEF CodecInv
<1> QED
  BY <1>1, CodecInvNext, PTL DEF Spec

\* The transport's variables keep their types, for any number of calls,
\* streams and messages.
THEOREM TypeCorrect == Spec => []TypeOK
<1>1. CodecInv => TypeOK
  BY DEF CodecInv, Typed
<1> QED
  BY <1>1, Invariance, PTL

\* Only a 415 makes the transport speak binary to an origin.
THEOREM FallbackOnlyWhenRefusedHolds == Spec => []FallbackOnlyWhenRefused
<1>1. CodecInv => FallbackOnlyWhenRefused
  BY DEF CodecInv, Codec, FallbackOnlyWhenRefused
<1> QED
  BY <1>1, Invariance, PTL

\* What a stream sends in binary is in order and without duplicates.
THEOREM WireInOrderHolds == Spec => []WireInOrder
<1>1. CodecInv => WireInOrder
  <2> SUFFICES ASSUME CodecInv, NEW s \in Streams,
                      NEW i \in DOMAIN binaryWire[s], NEW j \in DOMAIN binaryWire[s], i < j
               PROVE  binaryWire[s][i] < binaryWire[s][j]
    BY DEF WireInOrder
  <2>1. DOMAIN binaryWire[s] = 1 .. Len(binaryWire[s])
    BY StreamFacts, LenProperties DEF CodecInv
  <2> QED
    BY <2>1 DEF CodecInv, StreamInv, Wire
<1> QED
  BY <1>1, Invariance, PTL

\* A repeated stream loses at most the one message that the read left
\* outstanding by the refused attempt took.
THEOREM OnlyOrphanLostHolds == Spec => []OnlyOrphanLost
<1>1. CodecInv => OnlyOrphanLost
  <2> SUFFICES ASSUME CodecInv, NEW s \in Streams, stream[s] \in {"binary", "direct"}
               PROVE  /\ Lost(s) # {} => orphaned[s]
                      /\ \A m, n \in Lost(s) : m = n
    BY DEF OnlyOrphanLost
  <2>0. StreamInv(s)
    BY DEF CodecInv
  <2>1. \A m \in Lost(s) : m \in 1 .. consumed[s] /\ ~Contains(binaryWire[s], m)
    BY DEF Lost
  <2>2. CASE stream[s] = "direct"
    BY <2>0, <2>1, <2>2 DEF StreamInv, Wire, Kept
  <2>3. CASE stream[s] = "binary" /\ ~replaying[s]
    BY <2>0, <2>1, <2>3 DEF StreamInv, Repeat, Kept
  <2>4. CASE stream[s] = "binary" /\ replaying[s]
    <3>1. DOMAIN recorded[s] = 1 .. consumed[s] /\ \A i \in 1 .. consumed[s] : recorded[s][i] = i
      BY <2>0, <2>4, StreamFacts, LenProperties DEF CodecInv, StreamInv, Source
    <3>2. \A m \in 1 .. consumed[s] : m \in ToSet(recorded[s])
      BY <3>1 DEF ToSet
    <3> QED
      BY <2>4, <3>2 DEF Lost
  <2> QED
    BY <2>2, <2>3, <2>4
<1> QED
  BY <1>1, Invariance, PTL
=============================================================================
