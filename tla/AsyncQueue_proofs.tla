-------------------------- MODULE AsyncQueue_proofs --------------------------
(***************************************************************************)
(* The queue of run/queue.ts is a FIFO channel for any values, readers and *)
(* errors: type correctness, no loss or reordering, no lost wake-up, the   *)
(* end only after everything was taken, and refinement of FifoChannel.     *)
(***************************************************************************)
EXTENDS AsyncQueue, SequenceTheorems, TLAPS

-----------------------------------------------------------------------------
(* Sequences: appending to the queued part, and taking from its head.      *)

Elements(s) == {s[i] : i \in DOMAIN s}
NoRepeats(s) == \A i, j \in DOMAIN s : s[i] = s[j] => i = j

\* What is appended to the queued part is appended to the whole.
LEMMA AppendToRest ==
    ASSUME NEW S, NEW s \in Seq(S), NEW t \in Seq(S), NEW v \in S,
           NEW u \in Seq(S), u = s \o t
    PROVE  Append(u, v) = s \o Append(t, v)
<1>1. /\ s \o t \in Seq(S)
      /\ Append(t, v) \in Seq(S)
      /\ <<v>> \in Seq(S)
  OBVIOUS
<1>2. \A w \in Seq(S) : Append(w, v) = w \o <<v>>
  OBVIOUS
<1>3. (s \o t) \o <<v>> = s \o (t \o <<v>>)
  BY <1>1, ConcatAssociative
<1> QED
  BY <1>1, <1>2, <1>3

\* Moving the head of the queued part to the taken part keeps the whole.
LEMMA HeadMoves ==
    ASSUME NEW S, NEW s \in Seq(S), NEW t \in Seq(S), t # <<>>
    PROVE  /\ Append(s, Head(t)) \in Seq(S)
           /\ Tail(t) \in Seq(S)
           /\ Append(s, Head(t)) \o Tail(t) = s \o t
<1>1. Head(t) \in S /\ Tail(t) \in Seq(S)
  BY HeadTailProperties
<1>2. Append(s, Head(t)) = s \o <<Head(t)>> /\ <<Head(t)>> \in Seq(S)
  BY <1>1
<1>3. <<Head(t)>> \o Tail(t) = t
  BY <1>1
<1>4. (s \o <<Head(t)>>) \o Tail(t) = s \o (<<Head(t)>> \o Tail(t))
  BY <1>1, <1>2, ConcatAssociative
<1> QED
  BY <1>1, <1>2, <1>3, <1>4

\* The first waiter leaves the line: the others stay in it, each once.
LEMMA ElementsOfTail ==
    ASSUME NEW S, NEW s \in Seq(S), s # <<>>, NoRepeats(s)
    PROVE  /\ Elements(Tail(s)) = Elements(s) \ {Head(s)}
           /\ NoRepeats(Tail(s))
           /\ Head(s) \in Elements(s)
<1>1. /\ Len(s) \in Nat /\ Len(s) > 0
      /\ DOMAIN s = 1..Len(s)
      /\ Tail(s) \in Seq(S)
      /\ Len(Tail(s)) = Len(s) - 1
      /\ DOMAIN Tail(s) = 1..(Len(s) - 1)
      /\ \A i \in 1..(Len(s) - 1) : Tail(s)[i] = s[i + 1]
      /\ Head(s) = s[1]
  BY HeadTailProperties, EmptySeq, LenProperties
<1>2. \A x \in Elements(s) \ {Head(s)} : x \in Elements(Tail(s))
  <2>1. TAKE x \in Elements(s) \ {Head(s)}
  <2>2. PICK i \in 1..Len(s) : x = s[i]
    BY <1>1 DEF Elements
  <2>3. i - 1 \in 1..(Len(s) - 1)
    BY <1>1, <2>2
  <2>4. Tail(s)[i - 1] = x
    BY <1>1, <2>2, <2>3
  <2> QED
    BY <1>1, <2>3, <2>4 DEF Elements
<1>3. \A x \in Elements(Tail(s)) : x \in Elements(s) \ {Head(s)}
  BY <1>1 DEF Elements, NoRepeats
<1>4. NoRepeats(Tail(s))
  BY <1>1 DEF NoRepeats
<1>5. Head(s) \in Elements(s)
  BY <1>1 DEF Elements
<1>6. Elements(Tail(s)) = Elements(s) \ {Head(s)}
  BY <1>2, <1>3
<1> QED
  BY <1>4, <1>5, <1>6

\* A reader that joins the line stands in it once.
LEMMA ElementsOfAppend ==
    ASSUME NEW S, NEW s \in Seq(S), NEW x \in S, NoRepeats(s), x \notin Elements(s)
    PROVE  /\ Append(s, x) \in Seq(S)
           /\ Elements(Append(s, x)) = Elements(s) \union {x}
           /\ NoRepeats(Append(s, x))
<1>1. /\ Len(s) \in Nat
      /\ DOMAIN s = 1..Len(s)
      /\ Append(s, x) \in Seq(S)
      /\ DOMAIN Append(s, x) = 1..(Len(s) + 1)
      /\ \A i \in 1..Len(s) : Append(s, x)[i] = s[i]
      /\ Append(s, x)[Len(s) + 1] = x
  BY LenProperties
<1>2. Elements(Append(s, x)) = Elements(s) \union {x}
  <2>1. \A y \in Elements(Append(s, x)) : y \in Elements(s) \union {x}
    BY <1>1 DEF Elements
  <2>2. \A y \in Elements(s) \union {x} : y \in Elements(Append(s, x))
    BY <1>1 DEF Elements
  <2> QED
    BY <2>1, <2>2
<1>3. NoRepeats(Append(s, x))
  BY <1>1 DEF NoRepeats, Elements
<1> QED
  BY <1>1, <1>2, <1>3

-----------------------------------------------------------------------------
(* The inductive invariant: the four invariants, which are inductive only  *)
(* together (Fifo of Push needs that a waiter implies an empty queue).     *)

IInv ==
    /\ TypeOK
    /\ Fifo
    /\ NoLostWakeup
    /\ EndAfterDrain

\* The line of waiters, in the words of the lemmas above.
LEMMA LineUp ==
    NoLostWakeup <=>
        /\ waiters # <<>> => items = <<>> /\ ~closed
        /\ Elements(waiters) = {r \in Readers : reader[r] = "parked"}
        /\ NoRepeats(waiters)
BY DEF NoLostWakeup, Waiting, Elements, NoRepeats

\* The empty queue satisfies the invariant.
LEMMA InitEstablishes == Init => IInv
<1> SUFFICES ASSUME Init PROVE IInv
  OBVIOUS
<1>1. TypeOK
  BY EmptySeq DEF Init, TypeOK, ReaderStates
<1>2. Fifo
  BY ConcatEmptySeq, EmptySeq DEF Init, Fifo
<1>3. NoLostWakeup
  BY DEF Init, NoLostWakeup, Waiting
<1>4. EndAfterDrain
  BY DEF Init, EndAfterDrain, Finished
<1> QED
  BY <1>1, <1>2, <1>3, <1>4 DEF IInv

\* A push either queues the value behind what is queued, or finds a waiter,
\* and then nothing is queued in front of it.
LEMMA PushPreserves ==
    ASSUME IInv, NEW v \in Values, Push(v)
    PROVE  IInv'
<1> USE DEF IInv
<1>1. CASE waiters = <<>>
  <2>1. TypeOK'
    <3>1. Append(items, v) \in Seq(Values) /\ Append(pushed, v) \in Seq(Values)
      BY DEF TypeOK
    <3> QED
      BY <1>1, <3>1 DEF Push, TypeOK
  <2>2. Fifo'
    <3>1. pushed = taken \o items
      BY DEF Fifo
    <3>2. Append(pushed, v) = taken \o Append(items, v)
      BY <3>1, AppendToRest DEF TypeOK
    <3>3. /\ pushed' = Append(pushed, v)
          /\ items' = Append(items, v)
          /\ taken' = taken
      BY <1>1 DEF Push
    <3> QED
      BY <3>2, <3>3 DEF Fifo
  <2>3. NoLostWakeup'
    BY <1>1 DEF Push, NoLostWakeup, Waiting
  <2>4. EndAfterDrain'
    BY <1>1 DEF Push, EndAfterDrain, Finished, Finish
  <2> QED
    BY <2>1, <2>2, <2>3, <2>4
<1>2. CASE waiters # <<>>
  <2>1. items = <<>> /\ taken = pushed
    BY <1>2, ConcatEmptySeq DEF NoLostWakeup, Fifo, TypeOK
  <2>2. Head(waiters) \in Readers /\ Tail(waiters) \in Seq(Readers)
    BY <1>2, HeadTailProperties DEF TypeOK
  <2>3. TypeOK'
    <3>1. Append(taken, v) \in Seq(Values) /\ Append(pushed, v) \in Seq(Values)
      BY DEF TypeOK
    <3> QED
      BY <1>2, <2>2, <3>1 DEF Push, TypeOK, ReaderStates
  <2>4. Fifo'
    <3>1. Append(taken, v) \o <<>> = Append(taken, v)
      BY ConcatEmptySeq DEF TypeOK
    <3> QED
      BY <1>2, <2>1, <3>1 DEF Push, Fifo
  <2>5. NoLostWakeup'
    <3>1. /\ Elements(Tail(waiters)) = Elements(waiters) \ {Head(waiters)}
          /\ NoRepeats(Tail(waiters))
      BY <1>2, LineUp, ElementsOfTail DEF TypeOK
    <3>2. Elements(waiters') = {r \in Readers : reader'[r] = "parked"}
      BY <1>2, <2>2, <3>1, LineUp DEF Push, TypeOK
    <3> QED
      BY <1>2, <2>1, <3>1, <3>2 DEF Push, NoLostWakeup, Waiting, Elements, NoRepeats
  <2>6. EndAfterDrain'
    BY <1>2, <2>1, <2>2 DEF Push, EndAfterDrain, Finished, Finish, TypeOK
  <2> QED
    BY <2>3, <2>4, <2>5, <2>6
<1> QED
  BY <1>1, <1>2

\* A close wakes the whole line; a waiter was in line only if all was taken.
LEMMA ClosePreserves ==
    ASSUME IInv, NEW e \in Errors \union {NoError}, Close(e)
    PROVE  IInv'
<1> USE DEF IInv
<1>1. TypeOK'
  <2>1. <<>> \in Seq(Readers)
    OBVIOUS
  <2> QED
    BY <2>1 DEF Close, TypeOK, ReaderStates
<1>2. Fifo'
  BY DEF Close, Fifo
<1>3. NoLostWakeup'
  BY DEF Close, NoLostWakeup, Waiting, TypeOK
<1>4. EndAfterDrain'
  <2>1. \A r \in Waiting : taken = pushed
    BY ConcatEmptySeq DEF Waiting, NoLostWakeup, Fifo, TypeOK
  <2>2. \A r \in Readers : ~Finished(r) /\ reader[r] # "woken"
    BY DEF Close, EndAfterDrain
  <2> QED
    BY <2>1, <2>2 DEF Close, EndAfterDrain, Finished, TypeOK
<1> QED
  BY <1>1, <1>2, <1>3, <1>4

\* A read takes the head of what is queued, or learns of the end because
\* nothing is queued, or joins the line because nothing is.
LEMMA ReadPreserves ==
    ASSUME IInv, NEW r \in Readers, Read(r)
    PROVE  IInv'
<1> USE DEF IInv
<1>1. CASE items # <<>>
  <2>1. /\ Append(taken, Head(items)) \in Seq(Values)
        /\ Tail(items) \in Seq(Values)
        /\ Append(taken, Head(items)) \o Tail(items) = taken \o items
    BY <1>1, HeadMoves DEF TypeOK
  <2>2. TypeOK'
    BY <1>1, <2>1 DEF Read, TypeOK
  <2>3. Fifo'
    <3>1. /\ taken' = Append(taken, Head(items))
          /\ items' = Tail(items)
          /\ pushed' = pushed
      BY <1>1 DEF Read
    <3> QED
      BY <2>1, <3>1 DEF Fifo
  <2>4. NoLostWakeup'
    BY <1>1 DEF Read, NoLostWakeup, Waiting
  <2>5. EndAfterDrain'
    <3>1. taken # pushed
      BY <1>1, ConcatEqualIffEmpty DEF Fifo, TypeOK
    <3> QED
      BY <1>1, <3>1 DEF Read, EndAfterDrain, Finished, Finish
  <2> QED
    BY <2>2, <2>3, <2>4, <2>5
<1>2. CASE items = <<>> /\ closed
  <2>1. taken = pushed
    BY <1>2, ConcatEmptySeq DEF Fifo, TypeOK
  <2>2. TypeOK'
    BY <1>2 DEF Read, TypeOK, ReaderStates, Finish
  <2>3. Fifo'
    BY <1>2 DEF Read, Fifo
  <2>4. NoLostWakeup'
    BY <1>2 DEF Read, NoLostWakeup, Waiting, TypeOK, Finish
  <2>5. EndAfterDrain'
    BY <1>2, <2>1 DEF Read, EndAfterDrain, Finished, Finish, TypeOK
  <2> QED
    BY <2>2, <2>3, <2>4, <2>5
<1>3. CASE items = <<>> /\ ~closed
  <2>1. r \notin Elements(waiters)
    BY LineUp DEF Read
  <2>2. /\ Append(waiters, r) \in Seq(Readers)
        /\ Elements(Append(waiters, r)) = Elements(waiters) \union {r}
        /\ NoRepeats(Append(waiters, r))
    BY <2>1, LineUp, ElementsOfAppend DEF TypeOK
  <2>3. TypeOK'
    BY <1>3, <2>2 DEF Read, TypeOK, ReaderStates
  <2>4. Fifo'
    BY <1>3 DEF Read, Fifo
  <2>5. NoLostWakeup'
    <3>1. Elements(waiters') = {q \in Readers : reader'[q] = "parked"}
      BY <1>3, <2>2, LineUp DEF Read, TypeOK
    <3> QED
      BY <1>3, <2>2, <3>1 DEF Read, NoLostWakeup, Waiting, Elements, NoRepeats
  <2>6. EndAfterDrain'
    BY <1>3 DEF Read, EndAfterDrain, Finished, Finish, TypeOK
  <2> QED
    BY <2>3, <2>4, <2>5, <2>6
<1> QED
  BY <1>1, <1>2, <1>3 DEF TypeOK

\* A generator that resumes or returns leaves the queue as it is.
LEMMA ReaderPreserves ==
    ASSUME IInv, NEW r \in Readers, Resume(r) \/ Return(r)
    PROVE  IInv'
<1> USE DEF IInv
<1>1. TypeOK'
  BY DEF Resume, Return, TypeOK, ReaderStates, Finish
<1>2. Fifo'
  BY DEF Resume, Return, Fifo
<1>3. NoLostWakeup'
  BY DEF Resume, Return, NoLostWakeup, Waiting, TypeOK, Finish
<1>4. EndAfterDrain'
  BY DEF Resume, Return, EndAfterDrain, Finished, Finish, TypeOK
<1> QED
  BY <1>1, <1>2, <1>3, <1>4

\* A step that changes nothing keeps the invariant.
LEMMA StutterPreserves ==
    ASSUME IInv, UNCHANGED vars
    PROVE  IInv'
BY DEF vars, IInv, TypeOK, Fifo, NoLostWakeup, Waiting, EndAfterDrain, Finished, Finish

\* The invariant holds in every reachable state, for any number of readers
\* and any length of the queue: nothing is lost, duplicated, reordered or
\* withheld by push, close and the generators.
THEOREM Invariance == Spec => []IInv
<1>1. IInv /\ [Next]_vars => IInv'
  BY PushPreserves, ClosePreserves, ReadPreserves, ReaderPreserves, StutterPreserves
     DEF Next
<1> QED
  BY InitEstablishes, <1>1, PTL DEF Spec

\* Every variable keeps its type.
THEOREM TypeCorrect == Spec => []TypeOK
BY Invariance, PTL DEF IInv

\* What push accepted is what has been taken followed by what is queued.
THEOREM FifoHolds == Spec => []Fifo
BY Invariance, PTL DEF IInv

\* A reader is parked only while nothing is queued and the queue is open.
THEOREM NoLostWakeupHolds == Spec => []NoLostWakeup
BY Invariance, PTL DEF IInv

\* No reader sees the end before all that was accepted has been taken.
THEOREM EndAfterDrainHolds == Spec => []EndAfterDrain
BY Invariance, PTL DEF IInv

-----------------------------------------------------------------------------
(* Refinement: every step of the queue is a step of the channel, or none.  *)

ToldEnd == {r \in Readers : Finished(r)}

\* The empty queue is an empty channel.
LEMMA InitRefines == Init => Channel!Init
BY DEF Init, Channel!Init, Finished

\* push accepts a value; if a waiter takes it, it is delivered as well.
LEMMA PushRefines ==
    ASSUME IInv, NEW v \in Values, Push(v)
    PROVE  Channel!Accept(v)
<1>1. ~closed /\ closed' = closed /\ pushed' = Append(pushed, v)
  BY DEF Push
<1>2. CASE waiters = <<>>
  <2>1. taken' = taken /\ ToldEnd' = ToldEnd
    BY <1>2 DEF Push, ToldEnd, Finished
  <2> QED
    BY <1>1, <2>1 DEF Channel!Accept, ToldEnd
<1>3. CASE waiters # <<>>
  <2>1. taken = pushed
    BY <1>3, ConcatEmptySeq DEF IInv, NoLostWakeup, Fifo, TypeOK
  <2>2. taken' = pushed'
    BY <1>1, <1>3, <2>1 DEF Push
  <2>3. Head(waiters) \in {r \in Readers : reader[r] = "parked"}
    BY <1>3, LineUp, ElementsOfTail DEF IInv, TypeOK
  <2>4. ToldEnd' = ToldEnd
    BY <1>3, <2>3 DEF Push, ToldEnd, Finished, IInv, TypeOK
  <2> QED
    BY <1>1, <2>1, <2>2, <2>4 DEF Channel!Accept, ToldEnd
<1> QED
  BY <1>2, <1>3

\* close closes the channel.
LEMMA CloseRefines ==
    ASSUME IInv, NEW e \in Errors \union {NoError}, Close(e)
    PROVE  Channel!Close
<1>1. ToldEnd' = ToldEnd
  <2>1. \A r \in Readers : ~Finished(r)
    BY DEF Close, IInv, EndAfterDrain
  <2>2. \A r \in Readers : ~Finished(r)'
    BY <2>1 DEF Close, Finished, IInv, TypeOK
  <2> QED
    BY <2>1, <2>2 DEF ToldEnd
<1> QED
  BY <1>1 DEF Close, Channel!Close, ToldEnd

\* A read delivers, ends the reader, or is invisible to the channel.
LEMMA ReadRefines ==
    ASSUME IInv, NEW r \in Readers, Read(r)
    PROVE  Channel!Deliver \/ Channel!End(r) \/ UNCHANGED Channel!vars
<1> USE DEF IInv
<1>1. CASE items # <<>>
  <2>1. /\ Len(taken) < Len(pushed)
        /\ pushed[Len(taken) + 1] = Head(items)
    <3>1. /\ Len(taken) \in Nat /\ Len(items) \in Nat /\ Len(items) > 0
          /\ Len(taken \o items) = Len(taken) + Len(items)
          /\ (taken \o items)[Len(taken) + 1] = items[1]
          /\ Head(items) = items[1]
      BY <1>1, EmptySeq, LenProperties, ConcatProperties DEF TypeOK
    <3> QED
      BY <3>1 DEF Fifo
  <2>2. /\ taken' = Append(taken, Head(items))
        /\ UNCHANGED <<pushed, closed>>
        /\ ToldEnd' = ToldEnd
    BY <1>1 DEF Read, ToldEnd, Finished
  <2> QED
    BY <2>1, <2>2 DEF Channel!Deliver, ToldEnd
<1>2. CASE items = <<>> /\ closed
  <2>1. taken = pushed
    BY <1>2, ConcatEmptySeq DEF Fifo, TypeOK
  <2>2. ToldEnd' = ToldEnd \union {r}
    BY <1>2 DEF Read, ToldEnd, Finished, Finish, TypeOK
  <2> QED
    BY <1>2, <2>1, <2>2 DEF Read, Channel!End, ToldEnd
<1>3. CASE items = <<>> /\ ~closed
  <2>1. ToldEnd' = ToldEnd
    BY <1>3 DEF Read, ToldEnd, Finished, TypeOK
  <2> QED
    BY <1>3, <2>1 DEF Read, Channel!vars, ToldEnd
<1> QED
  BY <1>1, <1>2, <1>3 DEF TypeOK

\* A resumption ends the reader or is invisible to the channel.
LEMMA ResumeRefines ==
    ASSUME IInv, NEW r \in Readers, Resume(r)
    PROVE  Channel!End(r) \/ UNCHANGED Channel!vars
<1> USE DEF IInv
<1>1. CASE reader[r] = "handed"
  <2>1. ToldEnd' = ToldEnd
    BY <1>1 DEF Resume, ToldEnd, Finished, TypeOK
  <2> QED
    BY <2>1 DEF Resume, Channel!vars, ToldEnd
<1>2. CASE reader[r] = "woken"
  <2>1. closed /\ taken = pushed
    BY <1>2 DEF EndAfterDrain
  <2>2. ToldEnd' = ToldEnd \union {r}
    BY <1>2 DEF Resume, ToldEnd, Finished, Finish, TypeOK
  <2> QED
    BY <2>1, <2>2 DEF Resume, Channel!End, ToldEnd
<1> QED
  BY <1>1, <1>2 DEF Resume

\* A reader that leaves is invisible to the channel.
LEMMA ReturnRefines ==
    ASSUME IInv, NEW r \in Readers, Return(r)
    PROVE  UNCHANGED Channel!vars
<1>1. ToldEnd' = ToldEnd
  BY DEF Return, ToldEnd, Finished, IInv, TypeOK
<1> QED
  BY <1>1 DEF Return, Channel!vars, ToldEnd

\* The queue implements the channel: values leave in the order they were
\* accepted, and the end is told only when nothing accepted is left.
THEOREM Refinement == Spec => ImplementsChannel
<1>1. IInv /\ [Next]_vars => [Channel!Next]_(Channel!vars)
  <2> SUFFICES ASSUME IInv, [Next]_vars
               PROVE  Channel!Next \/ UNCHANGED Channel!vars
    OBVIOUS
  <2>1. CASE \E v \in Values : Push(v)
    BY <2>1, PushRefines DEF Channel!Next
  <2>2. CASE \E e \in Errors \union {NoError} : Close(e)
    BY <2>2, CloseRefines DEF Channel!Next
  <2>3. CASE \E r \in Readers : Read(r)
    BY <2>3, ReadRefines DEF Channel!Next
  <2>4. CASE \E r \in Readers : Resume(r)
    BY <2>4, ResumeRefines DEF Channel!Next
  <2>5. CASE \E r \in Readers : Return(r)
    BY <2>5, ReturnRefines
  <2>6. CASE UNCHANGED vars
    BY <2>6 DEF vars, Channel!vars, Finished
  <2> QED
    BY <2>1, <2>2, <2>3, <2>4, <2>5, <2>6 DEF Next
<1> QED
  BY InitRefines, Invariance, <1>1, PTL DEF Spec, ImplementsChannel, Channel!Spec
=============================================================================
