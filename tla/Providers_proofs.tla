---------------------------- MODULE Providers_proofs ----------------------------
(***************************************************************************)
(* Proofs about the two providers: the stream of parts that OpenCode's     *)
(* reader gets is well formed, and of the clients that Pi's streams and    *)
(* catalogue fetches share only the epoch's is open.                       *)
(***************************************************************************)
EXTENDS OpenCodeStream, PiStream, SequenceTheorems, TLAPS

-----------------------------------------------------------------------------
(* OpenCode: streams of parts, and the part that may come next.            *)

Unfinished(p) == \A i \in DOMAIN p : p[i].type # "finish"

Ended(p, s) == \E e \in s..Len(p) : p[e].type = "end" /\ SameBlock(p[s], p[e])

\* What must be true of p for x to follow it.
Fits(p, x) ==
    /\ x.type \in {"delta", "end"} => \E s \in DOMAIN p :
          /\ p[s].type = "start" /\ SameBlock(p[s], x)
          /\ \A k \in s..Len(p) : p[k].type # "end"
    /\ x.type \in {"start", "finish"} => \A s \in DOMAIN p :
          p[s].type = "start" => ~SameBlock(p[s], x) /\ Ended(p, s)

\* p may go on with any event: block o is open in it, the others have ended,
\* and the ids up to q are used.
Clear(p, o, q) ==
    /\ WellFormed(p) /\ Unfinished(p)
    /\ \A s \in DOMAIN p : p[s].type = "start" =>
          /\ p[s].of \in Blocks /\ p[s].id <= q[p[s].of]
          /\ (o.type = p[s].of /\ o.id = p[s].id) \/ Ended(p, s)
    /\ o # NoBlock => \E s \in DOMAIN p :
          /\ p[s].type = "start" /\ p[s].of = o.type /\ p[s].id = o.id
          /\ \A k \in s..Len(p) : p[k].type # "end"

OpenType == {NoBlock} \union [type : Blocks, id : 1..MaxEvents]
SeqsType == [Blocks -> 0..MaxEvents]

LEMMA OpenTyped ==
    ASSUME NEW o \in OpenType
    PROVE  o # NoBlock => o.type \in Blocks /\ o.id \in 1..MaxEvents /\ o.id \in 0..MaxEvents
  BY DEF OpenType

LEMMA AppendAt ==
    ASSUME NEW p \in Seq(PartType), NEW x \in PartType
    PROVE  /\ Append(p, x) \in Seq(PartType)
           /\ Len(Append(p, x)) = Len(p) + 1 /\ DOMAIN Append(p, x) = 1..(Len(p) + 1)
           /\ Append(p, x)[Len(p) + 1] = x
           /\ \A i \in 1..Len(p) : Append(p, x)[i] = p[i]
           /\ DOMAIN p = 1..Len(p) /\ Len(p) \in Nat
  OBVIOUS

LEMMA EndedStays ==
    ASSUME NEW p \in Seq(PartType), NEW x \in PartType, NEW s \in DOMAIN p, Ended(p, s)
    PROVE  Ended(Append(p, x), s)
  BY AppendAt DEF Ended

LEMMA Grown ==
    ASSUME NEW p \in Seq(PartType), NEW x \in PartType,
           WellFormed(p), Unfinished(p), Fits(p, x)
    PROVE  WellFormed(Append(p, x))
<1> DEFINE r == Append(p, x)
<1>1. /\ Len(r) = Len(p) + 1 /\ DOMAIN r = 1..(Len(p) + 1)
      /\ r[Len(p) + 1] = x /\ (\A i \in 1..Len(p) : r[i] = p[i])
      /\ DOMAIN p = 1..Len(p) /\ Len(p) \in Nat
  BY AppendAt
<1> HIDE DEF r
<1>2. ASSUME NEW i \in DOMAIN r, r[i].type \in {"delta", "end"}
      PROVE  \E s \in 1..(i - 1) :
                /\ r[s].type = "start" /\ SameBlock(r[s], r[i])
                /\ \A k \in s..(i - 1) : r[k].type # "end"
  <2>1. CASE i = Len(p) + 1
    <3> PICK s \in DOMAIN p : /\ p[s].type = "start" /\ SameBlock(p[s], x)
                              /\ \A k \in s..Len(p) : p[k].type # "end"
      BY <1>1, <1>2, <2>1 DEF Fits
    <3> QED
      BY <1>1, <2>1
  <2>2. CASE i \in DOMAIN p
    <3> PICK s \in 1..(i - 1) : /\ p[s].type = "start" /\ SameBlock(p[s], p[i])
                                /\ \A k \in s..(i - 1) : p[k].type # "end"
      BY <1>1, <1>2, <2>2 DEF WellFormed
    <3> QED
      BY <1>1, <2>2
  <2> QED
    BY <1>1, <2>1, <2>2
<1>3. ASSUME NEW i \in DOMAIN r, r[i].type \in {"start", "finish"},
             NEW s \in 1..(i - 1), r[s].type = "start"
      PROVE  /\ ~SameBlock(r[s], r[i])
             /\ \E e \in s..(i - 1) : r[e].type = "end" /\ SameBlock(r[s], r[e])
  <2>1. CASE i = Len(p) + 1
    <3>1. ~SameBlock(p[s], x) /\ Ended(p, s)
      BY <1>1, <1>3, <2>1 DEF Fits
    <3> QED
      BY <1>1, <2>1, <3>1 DEF Ended
  <2>2. CASE i \in DOMAIN p
    <3>1. /\ ~SameBlock(p[s], p[i])
          /\ \E e \in s..(i - 1) : p[e].type = "end" /\ SameBlock(p[s], p[e])
      BY <1>1, <1>3, <2>2 DEF WellFormed
    <3> QED
      BY <1>1, <2>2, <3>1
  <2> QED
    BY <1>1, <2>1, <2>2
<1>4. ASSUME NEW i \in DOMAIN r, r[i].type = "finish" PROVE i = Len(r)
  BY <1>1, <1>4 DEF Unfinished
<1>5. WellFormed(r)
  BY <1>2, <1>3, <1>4 DEF WellFormed
<1> QED
  BY <1>5 DEF r

\* A stream that is cut off is well formed still.
LEMMA Cut ==
    ASSUME NEW p \in Seq(PartType), NEW q \in Seq(PartType), WellFormed(p \o q)
    PROVE  WellFormed(p)
<1> DEFINE r == p \o q
<1>1. /\ DOMAIN p = 1..Len(p) /\ Len(p) \in Nat /\ Len(q) \in Nat
      /\ DOMAIN r = 1..Len(r) /\ Len(r) = Len(p) + Len(q)
      /\ \A i \in 1..Len(p) : r[i] = p[i]
  OBVIOUS
<1>0. WellFormed(r)
  OBVIOUS
<1> HIDE DEF r
<1>2. ASSUME NEW i \in DOMAIN p, p[i].type \in {"delta", "end"}
      PROVE  \E s \in 1..(i - 1) :
                /\ p[s].type = "start" /\ SameBlock(p[s], p[i])
                /\ \A k \in s..(i - 1) : p[k].type # "end"
  <2> PICK s \in 1..(i - 1) : /\ r[s].type = "start" /\ SameBlock(r[s], r[i])
                              /\ \A k \in s..(i - 1) : r[k].type # "end"
    BY <1>0, <1>1, <1>2 DEF WellFormed
  <2> QED
    BY <1>1
<1>3. ASSUME NEW i \in DOMAIN p, p[i].type \in {"start", "finish"},
             NEW s \in 1..(i - 1), p[s].type = "start"
      PROVE  /\ ~SameBlock(p[s], p[i])
             /\ \E e \in s..(i - 1) : p[e].type = "end" /\ SameBlock(p[s], p[e])
  <2>1. /\ ~SameBlock(r[s], r[i])
        /\ \E e \in s..(i - 1) : r[e].type = "end" /\ SameBlock(r[s], r[e])
    BY <1>0, <1>1, <1>3 DEF WellFormed
  <2> QED
    BY <1>1, <2>1
<1>4. ASSUME NEW i \in DOMAIN p, p[i].type = "finish" PROVE i = Len(p)
  BY <1>0, <1>1, <1>4 DEF WellFormed
<1> QED
  BY <1>2, <1>3, <1>4 DEF WellFormed

\* One part at a time: a delta of the open block,
LEMMA DeltaClear ==
    ASSUME NEW p \in Seq(PartType), NEW o \in OpenType, NEW q \in SeqsType,
           NEW x \in PartType, Clear(p, o, q), o # NoBlock,
           x.type = "delta", x.of = o.type, x.id = o.id
    PROVE  Clear(Append(p, x), o, q)
<1> DEFINE r == Append(p, x)
<1>1. /\ Len(r) = Len(p) + 1 /\ DOMAIN r = 1..(Len(p) + 1)
      /\ r[Len(p) + 1] = x /\ (\A i \in 1..Len(p) : r[i] = p[i])
      /\ DOMAIN p = 1..Len(p) /\ Len(p) \in Nat
  BY AppendAt
<1>2. PICK s \in DOMAIN p : /\ p[s].type = "start" /\ p[s].of = o.type /\ p[s].id = o.id
                            /\ \A k \in s..Len(p) : p[k].type # "end"
  BY DEF Clear
<1>3. WellFormed(r)
  BY <1>2, Grown DEF Clear, Fits, SameBlock
<1>4. \A t \in DOMAIN p : Ended(p, t) => Ended(r, t)
  BY EndedStays
<1> HIDE DEF r
<1>5. Unfinished(r)
  BY <1>1 DEF Clear, Unfinished
<1>6. ASSUME NEW t \in DOMAIN r, r[t].type = "start"
      PROVE  /\ r[t].of \in Blocks /\ r[t].id <= q[r[t].of]
             /\ (o.type = r[t].of /\ o.id = r[t].id) \/ Ended(r, t)
  BY <1>1, <1>4, <1>6 DEF Clear
<1>7. \E t \in DOMAIN r : /\ r[t].type = "start" /\ r[t].of = o.type /\ r[t].id = o.id
                          /\ \A k \in t..Len(r) : r[k].type # "end"
  BY <1>1, <1>2
<1>8. Clear(r, o, q)
  BY <1>3, <1>5, <1>6, <1>7 DEF Clear
<1> QED
  BY <1>8 DEF r

\* the end of it,
LEMMA EndClear ==
    ASSUME NEW p \in Seq(PartType), NEW o \in OpenType, NEW q \in SeqsType,
           NEW x \in PartType, Clear(p, o, q), o # NoBlock,
           x.type = "end", x.of = o.type, x.id = o.id
    PROVE  Clear(Append(p, x), NoBlock, q)
<1> DEFINE r == Append(p, x)
<1>1. /\ Len(r) = Len(p) + 1 /\ DOMAIN r = 1..(Len(p) + 1)
      /\ r[Len(p) + 1] = x /\ (\A i \in 1..Len(p) : r[i] = p[i])
      /\ DOMAIN p = 1..Len(p) /\ Len(p) \in Nat
  BY AppendAt
<1>2. PICK s \in DOMAIN p : /\ p[s].type = "start" /\ p[s].of = o.type /\ p[s].id = o.id
                            /\ \A k \in s..Len(p) : p[k].type # "end"
  BY DEF Clear
<1>3. WellFormed(r)
  BY <1>2, Grown DEF Clear, Fits, SameBlock
<1>4. \A t \in DOMAIN p : Ended(p, t) => Ended(r, t)
  BY EndedStays
<1> HIDE DEF r
<1>5. Unfinished(r)
  BY <1>1 DEF Clear, Unfinished
<1>6. ASSUME NEW t \in DOMAIN r, r[t].type = "start"
      PROVE  r[t].of \in Blocks /\ r[t].id <= q[r[t].of] /\ Ended(r, t)
  <2>1. t \in DOMAIN p /\ r[t] = p[t]
    BY <1>1, <1>6
  <2>2. CASE o.type = p[t].of /\ o.id = p[t].id
    <3>1. r[Len(r)].type = "end" /\ SameBlock(r[t], r[Len(r)]) /\ Len(r) \in t..Len(r)
      BY <1>1, <2>1, <2>2 DEF SameBlock
    <3> QED
      BY <1>6, <2>1, <3>1 DEF Clear, Ended
  <2> QED
    BY <1>4, <1>6, <2>1, <2>2 DEF Clear
<1>8. Clear(r, NoBlock, q)
  BY <1>3, <1>5, <1>6 DEF Clear
<1> QED
  BY <1>8 DEF r

\* the start of the next one when none is open,
LEMMA StartClear ==
    ASSUME NEW p \in Seq(PartType), NEW q \in SeqsType, NEW b \in Blocks,
           NEW x \in PartType, Clear(p, NoBlock, q),
           x.type = "start", x.of = b, x.id = q[b] + 1
    PROVE  Clear(Append(p, x), [type |-> b, id |-> q[b] + 1], [q EXCEPT ![b] = @ + 1])
<1> DEFINE r == Append(p, x)
           o == [type |-> b, id |-> q[b] + 1]
           n == [q EXCEPT ![b] = @ + 1]
<1>1. /\ Len(r) = Len(p) + 1 /\ DOMAIN r = 1..(Len(p) + 1)
      /\ r[Len(p) + 1] = x /\ (\A i \in 1..Len(p) : r[i] = p[i])
      /\ DOMAIN p = 1..Len(p) /\ Len(p) \in Nat
  BY AppendAt
<1>2. \A s \in DOMAIN p : p[s].type = "start" =>
          p[s].of \in Blocks /\ p[s].id <= q[p[s].of] /\ Ended(p, s)
  BY DEF Clear, NoBlock, Blocks
<1>3. \A s \in DOMAIN p : p[s] \in PartType
  OBVIOUS
<1>4. \A s \in DOMAIN p : p[s].type = "start" => ~SameBlock(p[s], x)
  BY <1>2, <1>3 DEF SameBlock, PartType, SeqsType
<1>5. WellFormed(r)
  BY <1>2, <1>4, Grown DEF Clear, Fits
<1>6. \A t \in DOMAIN p : Ended(p, t) => Ended(r, t)
  BY EndedStays
<1>7. o.type = b /\ o.id = q[b] + 1
  OBVIOUS
<1>8. /\ n[b] = q[b] + 1 /\ \A c \in Blocks : c # b => n[c] = q[c]
      /\ \A c \in Blocks : q[c] \in Nat
  BY DEF SeqsType
<1> HIDE DEF r, o, n
<1>9. Unfinished(r)
  BY <1>1 DEF Clear, Unfinished
<1>10. ASSUME NEW t \in DOMAIN r, r[t].type = "start"
       PROVE  /\ r[t].of \in Blocks /\ r[t].id <= n[r[t].of]
              /\ (o.type = r[t].of /\ o.id = r[t].id) \/ Ended(r, t)
  <2>1. CASE t = Len(p) + 1
    BY <1>1, <1>7, <1>8, <2>1
  <2>2. CASE t \in DOMAIN p
    <3>1. r[t] = p[t] /\ p[t].of \in Blocks /\ p[t].id <= q[p[t].of] /\ Ended(r, t)
      BY <1>1, <1>2, <1>6, <1>10, <2>2
    <3>2. p[t].id \in Nat
      BY <1>3, <2>2 DEF PartType
    <3> QED
      BY <1>8, <3>1, <3>2
  <2> QED
    BY <1>1, <2>1, <2>2
<1>11. \E t \in DOMAIN r : /\ r[t].type = "start" /\ r[t].of = o.type /\ r[t].id = o.id
                           /\ \A k \in t..Len(r) : r[k].type # "end"
  BY <1>1, <1>7
<1>12. Clear(r, o, n)
  BY <1>5, <1>9, <1>10, <1>11 DEF Clear
<1> QED
  BY <1>12 DEF r, o, n

\* and what belongs to no block.
LEMMA PlainClear ==
    ASSUME NEW p \in Seq(PartType), NEW o \in OpenType, NEW q \in SeqsType,
           NEW x \in PartType, Clear(p, o, q),
           x.type \notin {"start", "delta", "end", "finish"}
    PROVE  Clear(Append(p, x), o, q)
<1> DEFINE r == Append(p, x)
<1>1. /\ Len(r) = Len(p) + 1 /\ DOMAIN r = 1..(Len(p) + 1)
      /\ r[Len(p) + 1] = x /\ (\A i \in 1..Len(p) : r[i] = p[i])
      /\ DOMAIN p = 1..Len(p) /\ Len(p) \in Nat
  BY AppendAt
<1>3. WellFormed(r)
  BY Grown DEF Clear, Fits
<1>4. \A t \in DOMAIN p : Ended(p, t) => Ended(r, t)
  BY EndedStays
<1> HIDE DEF r
<1>5. Unfinished(r)
  BY <1>1 DEF Clear, Unfinished
<1>6. ASSUME NEW t \in DOMAIN r, r[t].type = "start"
      PROVE  /\ r[t].of \in Blocks /\ r[t].id <= q[r[t].of]
             /\ (o.type = r[t].of /\ o.id = r[t].id) \/ Ended(r, t)
  BY <1>1, <1>4, <1>6 DEF Clear
<1>7. ASSUME o # NoBlock
      PROVE  \E t \in DOMAIN r : /\ r[t].type = "start" /\ r[t].of = o.type /\ r[t].id = o.id
                                 /\ \A k \in t..Len(r) : r[k].type # "end"
  <2> PICK s \in DOMAIN p : /\ p[s].type = "start" /\ p[s].of = o.type /\ p[s].id = o.id
                            /\ \A k \in s..Len(p) : p[k].type # "end"
    BY <1>7 DEF Clear
  <2> QED
    BY <1>1
<1>8. Clear(r, o, q)
  BY <1>3, <1>5, <1>6, <1>7 DEF Clear
<1> QED
  BY <1>8 DEF r

LEMMA FinishSound ==
    ASSUME NEW p \in Seq(PartType), NEW q \in SeqsType, Clear(p, NoBlock, q)
    PROVE  WellFormed(Append(p, Plain("finish")))
<1>1. Plain("finish") \in PartType /\ Plain("finish").type = "finish" /\ Plain("finish").of = "none"
  BY MaxEventsAssumption DEF Plain, Part, PartType, PartKinds
<1>2. \A s \in DOMAIN p : p[s].type = "start" => p[s].of \in Blocks /\ Ended(p, s)
  BY DEF Clear, NoBlock, Blocks
<1>3. \A s \in DOMAIN p : p[s].type = "start" => ~SameBlock(p[s], Plain("finish"))
  BY <1>1, <1>2 DEF SameBlock, Blocks
<1> QED
  BY <1>1, <1>2, <1>3, Grown DEF Clear, Fits

-----------------------------------------------------------------------------
(* OpenCode: what the reader is told of the run's events.                  *)

Wanted == {"text", "thinking", "tool"}

\* Deltas and calls are the events that the content wants, in order.
ToldEvents(p, g) ==
    /\ \A d \in Contents(p) : p[d].event \in DOMAIN g /\ g[p[d].event] \in Wanted
    /\ \A i \in DOMAIN g : g[i] \in Wanted => \E d \in Contents(p) : p[d].event = i
    /\ \A c, d \in Contents(p) : c < d => p[c].event < p[d].event

OfBlock(x, o) == x.of = o.type /\ x.id = o.id

\* They enter the content in that order: those of block o, which come last, when
\* it ends, and each of the others with the one end of its block.
ToldEnds(p, o) ==
    /\ \A d \in Contents(p) : p[d].type = "delta" => p[d].of \in Blocks
    /\ \A e \in DOMAIN p : p[e].type = "end" => ~OfBlock(p[e], o)
    /\ \A d \in Contents(p) : ~(p[d].type = "delta" /\ OfBlock(p[d], o)) =>
          \E e \in d..Len(p) : Enters(p, d) = {e}
    /\ \A c, d \in Contents(p) : c < d =>
          /\ \A e \in Enters(p, c), f \in Enters(p, d) : e <= f
          /\ p[c].type = "delta" /\ OfBlock(p[c], o) => p[d].type = "delta" /\ OfBlock(p[d], o)

Told(p, g, o) == ToldEvents(p, g) /\ ToldEnds(p, o)

LEMMA ContentsAppend ==
    ASSUME NEW p \in Seq(PartType), NEW x \in PartType
    PROVE  /\ Contents(p) \subseteq 1..Len(p)
           /\ x.type \in {"delta", "tool-call"} => Contents(Append(p, x)) = Contents(p) \union {Len(p) + 1}
           /\ x.type \notin {"delta", "tool-call"} => Contents(Append(p, x)) = Contents(p)
<1>1. /\ DOMAIN Append(p, x) = 1..(Len(p) + 1) /\ Append(p, x)[Len(p) + 1] = x
      /\ (\A i \in 1..Len(p) : Append(p, x)[i] = p[i])
      /\ DOMAIN p = 1..Len(p) /\ Len(p) \in Nat
  BY AppendAt
<1> DEFINE r == Append(p, x)
<1> HIDE DEF r
<1>2. \A d \in Contents(p) : d \in 1..Len(p) /\ p[d].type \in {"delta", "tool-call"}
  BY <1>1 DEF Contents
<1>3. \A d \in DOMAIN r : d \in 1..Len(p) \/ d = Len(p) + 1
  BY <1>1 DEF r
<1>4. Len(p) + 1 \in DOMAIN r /\ 1..Len(p) \subseteq DOMAIN r
  BY <1>1 DEF r
<1>5. ASSUME x.type \in {"delta", "tool-call"} PROVE Contents(r) = Contents(p) \union {Len(p) + 1}
  <2>1. \A d \in Contents(r) : d \in Contents(p) \union {Len(p) + 1}
    BY <1>1, <1>3 DEF Contents, r
  <2>2. \A d \in Contents(p) \union {Len(p) + 1} : d \in Contents(r)
    BY <1>1, <1>2, <1>4, <1>5 DEF Contents, r
  <2> QED
    BY <2>1, <2>2
<1>6. ASSUME x.type \notin {"delta", "tool-call"} PROVE Contents(r) = Contents(p)
  <2>1. \A d \in Contents(r) : d \in Contents(p)
    BY <1>1, <1>3, <1>6 DEF Contents, r
  <2>2. \A d \in Contents(p) : d \in Contents(r)
    BY <1>1, <1>2, <1>4 DEF Contents, r
  <2> QED
    BY <2>1, <2>2
<1> QED
  BY <1>2, <1>5, <1>6 DEF r

LEMMA EntersAppend ==
    ASSUME NEW p \in Seq(PartType), NEW x \in PartType, NEW d \in Contents(p)
    PROVE  /\ Enters(p, d) \subseteq 1..Len(p)
           /\ x.type # "end" \/ p[d].type = "tool-call" \/ ~SameBlock(p[d], x)
                => Enters(Append(p, x), d) = Enters(p, d)
           /\ x.type = "end" /\ p[d].type = "delta" /\ SameBlock(p[d], x)
                => Enters(Append(p, x), d) = Enters(p, d) \union {Len(p) + 1}
<1> DEFINE r == Append(p, x)
<1>1. /\ DOMAIN r = 1..(Len(p) + 1) /\ r[Len(p) + 1] = x
      /\ (\A i \in 1..Len(p) : r[i] = p[i])
      /\ DOMAIN p = 1..Len(p) /\ Len(p) \in Nat
  BY AppendAt
<1> HIDE DEF r
<1>2. d \in 1..Len(p) /\ r[d] = p[d]
  BY <1>1 DEF Contents
<1>3. \A e \in DOMAIN r : e \in 1..Len(p) \/ e = Len(p) + 1
  BY <1>1
<1>4. Len(p) + 1 \in DOMAIN r /\ 1..Len(p) \subseteq DOMAIN r
  BY <1>1
<1>5. Enters(p, d) \subseteq 1..Len(p)
  BY <1>1, <1>2 DEF Enters
<1>6. CASE p[d].type = "tool-call"
  <2>1. Enters(r, d) = Enters(p, d)
    BY <1>2, <1>6 DEF Enters
  <2> QED
    BY <1>5, <1>6, <2>1 DEF r
<1>7. CASE p[d].type # "tool-call"
  <2>1. /\ Enters(r, d) = {e \in DOMAIN r : r[e].type = "end" /\ SameBlock(p[d], r[e])}
        /\ Enters(p, d) = {e \in DOMAIN p : p[e].type = "end" /\ SameBlock(p[d], p[e])}
    BY <1>2, <1>7 DEF Enters
  <2>2. ASSUME x.type # "end" \/ ~SameBlock(p[d], x) PROVE Enters(r, d) = Enters(p, d)
    <3>1. \A e \in Enters(r, d) : e \in Enters(p, d)
      BY <1>1, <1>3, <2>1, <2>2
    <3>2. \A e \in Enters(p, d) : e \in Enters(r, d)
      BY <1>1, <1>4, <2>1
    <3> QED
      BY <3>1, <3>2
  <2>3. ASSUME x.type = "end", SameBlock(p[d], x)
        PROVE  Enters(r, d) = Enters(p, d) \union {Len(p) + 1}
    <3>1. \A e \in Enters(r, d) : e \in Enters(p, d) \union {Len(p) + 1}
      BY <1>1, <1>3, <2>1
    <3>2. \A e \in Enters(p, d) \union {Len(p) + 1} : e \in Enters(r, d)
      BY <1>1, <1>4, <2>1, <2>3
    <3> QED
      BY <3>1, <3>2
  <2> QED
    BY <1>5, <1>7, <2>2, <2>3 DEF r
<1> QED
  BY <1>6, <1>7

\* The events: a part that carries none, an event that gives no part, and one
\* that gives the next delta or call.
LEMMA EventsKept ==
    ASSUME NEW p \in Seq(PartType), NEW x \in PartType, NEW g \in Seq(EventKinds),
           ToldEvents(p, g), x.type \notin {"delta", "tool-call"}
    PROVE  ToldEvents(Append(p, x), g)
<1>1. Contents(Append(p, x)) = Contents(p) /\ Contents(p) \subseteq 1..Len(p)
  BY ContentsAppend
<1>2. \A d \in Contents(p) : Append(p, x)[d] = p[d]
  BY <1>1, AppendAt
<1> QED
  BY <1>1, <1>2 DEF ToldEvents

LEMMA EventAppended ==
    ASSUME NEW g \in Seq(EventKinds), NEW k \in EventKinds
    PROVE  /\ DOMAIN Append(g, k) = DOMAIN g \union {Len(g) + 1} /\ Append(g, k)[Len(g) + 1] = k
           /\ \A i \in DOMAIN g : Append(g, k)[i] = g[i] /\ i \in Nat /\ i < Len(g) + 1
           /\ Append(g, k) \in Seq(EventKinds) /\ Len(g) \in Nat
<1> HIDE DEF EventKinds
<1> QED
  OBVIOUS

LEMMA EventsSkip ==
    ASSUME NEW p \in Seq(PartType), NEW g \in Seq(EventKinds), NEW k \in EventKinds,
           ToldEvents(p, g), k \notin Wanted
    PROVE  ToldEvents(p, Append(g, k))
<1> DEFINE h == Append(g, k)
<1>1. /\ DOMAIN h = DOMAIN g \union {Len(g) + 1} /\ h[Len(g) + 1] = k
      /\ \A i \in DOMAIN g : h[i] = g[i]
  BY EventAppended
<1> HIDE DEF h
<1>2. ToldEvents(p, h)
  BY <1>1 DEF ToldEvents
<1> QED
  BY <1>2 DEF h

LEMMA EventsGrow ==
    ASSUME NEW p \in Seq(PartType), NEW x \in PartType, NEW g \in Seq(EventKinds),
           NEW k \in Wanted, ToldEvents(p, g),
           x.type \in {"delta", "tool-call"}, x.event = Len(g) + 1
    PROVE  ToldEvents(Append(p, x), Append(g, k))
<1> DEFINE h == Append(g, k)
           r == Append(p, x)
<1>1. k \in EventKinds
  BY DEF Wanted, EventKinds
<1>2. /\ DOMAIN h = DOMAIN g \union {Len(g) + 1} /\ h[Len(g) + 1] = k
      /\ \A i \in DOMAIN g : h[i] = g[i] /\ i \in Nat /\ i < Len(g) + 1
      /\ Len(g) \in Nat
  BY <1>1, EventAppended
<1>3. Contents(r) = Contents(p) \union {Len(p) + 1} /\ Contents(p) \subseteq 1..Len(p)
  BY ContentsAppend
<1>4. /\ r[Len(p) + 1] = x /\ (\A i \in 1..Len(p) : r[i] = p[i]) /\ Len(p) \in Nat
  BY AppendAt
<1> HIDE DEF h, r
<1>5. \A d \in Contents(p) : r[d] = p[d] /\ p[d].event \in DOMAIN g /\ g[p[d].event] \in Wanted
  BY <1>3, <1>4 DEF ToldEvents
<1>6. \A d \in Contents(r) : r[d].event \in DOMAIN h /\ h[r[d].event] \in Wanted
  BY <1>2, <1>3, <1>4, <1>5
<1>7. ASSUME NEW i \in DOMAIN h, h[i] \in Wanted PROVE \E d \in Contents(r) : r[d].event = i
  <2>1. CASE i = Len(g) + 1
    BY <1>3, <1>4, <2>1
  <2>2. CASE i \in DOMAIN g
    <3>1. PICK d \in Contents(p) : p[d].event = i
      BY <1>2, <1>7, <2>2 DEF ToldEvents
    <3> QED
      BY <1>3, <1>5, <3>1
  <2> QED
    BY <1>2, <2>1, <2>2
<1>8. ASSUME NEW c \in Contents(r), NEW d \in Contents(r), c < d PROVE r[c].event < r[d].event
  <2>1. c \in Contents(p)
    BY <1>3, <1>4, <1>8
  <2>2. CASE d \in Contents(p)
    BY <1>5, <1>8, <2>1, <2>2 DEF ToldEvents
  <2>3. CASE d = Len(p) + 1
    BY <1>2, <1>4, <1>5, <2>1, <2>3
  <2> QED
    BY <1>3, <2>2, <2>3
<1>9. ToldEvents(r, h)
  BY <1>6, <1>7, <1>8 DEF ToldEvents
<1> QED
  BY <1>9 DEF h, r

\* Deltas and ends are of the blocks whose ids are used.
LEMMA UsedIds ==
    ASSUME NEW p \in Seq(PartType), NEW o, NEW q, Clear(p, o, q)
    PROVE  \A i \in DOMAIN p : p[i].type \in {"delta", "end"} => p[i].of \in Blocks /\ p[i].id <= q[p[i].of]
<1> TAKE i \in DOMAIN p
<1> HAVE p[i].type \in {"delta", "end"}
<1>1. WellFormed(p) /\ DOMAIN p = 1..Len(p) /\ Len(p) \in Nat
  BY DEF Clear
<1>2. PICK s \in 1..(i - 1) : p[s].type = "start" /\ SameBlock(p[s], p[i])
  BY <1>1 DEF WellFormed
<1>3. s \in DOMAIN p
  BY <1>1
<1> QED
  BY <1>2, <1>3 DEF Clear, SameBlock

\* The blocks: a part that neither fills nor ends one,
LEMMA EndsKept ==
    ASSUME NEW p \in Seq(PartType), NEW x \in PartType, NEW o, ToldEnds(p, o),
           x.type \notin {"delta", "tool-call", "end"}
    PROVE  ToldEnds(Append(p, x), o)
<1> DEFINE r == Append(p, x)
<1>1. Contents(r) = Contents(p) /\ Contents(p) \subseteq 1..Len(p)
  BY ContentsAppend
<1>2. /\ r[Len(p) + 1] = x /\ (\A i \in 1..Len(p) : r[i] = p[i]) /\ Len(p) \in Nat
      /\ DOMAIN r = 1..(Len(p) + 1) /\ DOMAIN p = 1..Len(p) /\ Len(r) = Len(p) + 1
  BY AppendAt
<1>3. \A d \in Contents(p) : Enters(r, d) = Enters(p, d) /\ r[d] = p[d]
  BY <1>1, <1>2, EntersAppend
<1> HIDE DEF r
<1>4. \A e \in DOMAIN r : r[e].type = "end" => ~OfBlock(r[e], o)
  BY <1>2 DEF ToldEnds
<1>5. ASSUME NEW d \in Contents(p), ~(p[d].type = "delta" /\ OfBlock(p[d], o))
      PROVE  \E e \in d..Len(r) : Enters(p, d) = {e}
  <2>1. PICK e \in d..Len(p) : Enters(p, d) = {e}
    BY <1>5 DEF ToldEnds
  <2>2. e \in d..Len(r)
    BY <1>1, <1>2
  <2> QED
    BY <2>1, <2>2
<1>6. ToldEnds(r, o)
  BY <1>1, <1>3, <1>4, <1>5 DEF ToldEnds
<1> QED
  BY <1>6 DEF r

\* the start of a new one,
LEMMA EndsStart ==
    ASSUME NEW p \in Seq(PartType), NEW q \in SeqsType, NEW b \in Blocks, NEW x \in PartType,
           Clear(p, NoBlock, q), ToldEnds(p, NoBlock), x.type = "start", NEW o,
           o.type = b, o.id = q[b] + 1
    PROVE  ToldEnds(Append(p, x), o)
<1>1. \A i \in DOMAIN p : p[i].type \in {"delta", "end"} => p[i].of \in Blocks /\ p[i].id <= q[p[i].of]
  BY UsedIds
<1>2. \A i \in DOMAIN p : p[i].id \in Nat
  <2>1. \A i \in DOMAIN p : p[i] \in PartType
    OBVIOUS
  <2> QED
    BY <2>1 DEF PartType
<1>3. q[b] \in Nat
  BY DEF SeqsType
<1>4. \A i \in DOMAIN p : p[i].type \in {"delta", "end"} => ~OfBlock(p[i], o) /\ ~OfBlock(p[i], NoBlock)
  BY <1>1, <1>2, <1>3 DEF OfBlock, NoBlock, Blocks
<1>5. \A d \in Contents(p) : d \in DOMAIN p
  BY DEF Contents
<1>6. ToldEnds(p, o)
  BY <1>4, <1>5 DEF ToldEnds
<1> QED
  BY <1>6, EndsKept

\* a delta of the one that is open,
LEMMA EndsDelta ==
    ASSUME NEW p \in Seq(PartType), NEW x \in PartType, NEW o \in OpenType, ToldEnds(p, o),
           o # NoBlock, x.type = "delta", OfBlock(x, o)
    PROVE  ToldEnds(Append(p, x), o)
<1> DEFINE r == Append(p, x)
           n == Len(p) + 1
<1>1. Contents(r) = Contents(p) \union {n} /\ Contents(p) \subseteq 1..Len(p)
  BY ContentsAppend
<1>2. /\ r[n] = x /\ (\A i \in 1..Len(p) : r[i] = p[i]) /\ Len(p) \in Nat
      /\ DOMAIN r = 1..n /\ DOMAIN p = 1..Len(p) /\ Len(r) = n
  BY AppendAt
<1>3. \A d \in Contents(p) : Enters(r, d) = Enters(p, d) /\ r[d] = p[d]
  BY <1>1, <1>2, EntersAppend
<1> HIDE DEF r
<1>4. \A e \in DOMAIN r : r[e].type = "end" => ~OfBlock(r[e], o)
  BY <1>2 DEF ToldEnds
<1>5. Enters(r, n) = {}
  BY <1>2, <1>4 DEF Enters, OfBlock, SameBlock
<1>6. \A d \in Contents(r) : r[d].type = "delta" => r[d].of \in Blocks
  <2>1. x.of \in Blocks
    BY OpenTyped DEF OfBlock
  <2> QED
    BY <1>1, <1>2, <1>3, <2>1 DEF ToldEnds
<1>7. ASSUME NEW d \in Contents(r), ~(r[d].type = "delta" /\ OfBlock(r[d], o))
      PROVE  \E e \in d..Len(r) : Enters(r, d) = {e}
  <2>1. d \in Contents(p)
    BY <1>1, <1>2, <1>7
  <2>2. PICK e \in d..Len(p) : Enters(p, d) = {e}
    BY <1>3, <1>7, <2>1 DEF ToldEnds
  <2>3. e \in d..Len(r)
    BY <1>1, <1>2, <2>1
  <2> QED
    BY <1>3, <2>1, <2>2, <2>3
<1>8. ASSUME NEW c \in Contents(r), NEW d \in Contents(r), c < d
      PROVE  /\ \A e \in Enters(r, c), f \in Enters(r, d) : e <= f
             /\ r[c].type = "delta" /\ OfBlock(r[c], o) => r[d].type = "delta" /\ OfBlock(r[d], o)
  <2>1. c \in Contents(p)
    BY <1>1, <1>2, <1>8
  <2>2. CASE d = n
    BY <1>2, <1>5, <2>2
  <2>3. CASE d \in Contents(p)
    BY <1>3, <1>8, <2>1, <2>3 DEF ToldEnds
  <2> QED
    BY <1>1, <2>2, <2>3
<1>9. ToldEnds(r, o)
  BY <1>4, <1>6, <1>7, <1>8 DEF ToldEnds
<1> QED
  BY <1>9 DEF r

\* the end of it,
LEMMA EndsEnd ==
    ASSUME NEW p \in Seq(PartType), NEW x \in PartType, NEW o \in OpenType, NEW q,
           Clear(p, o, q), ToldEnds(p, o), o # NoBlock, x.type = "end", OfBlock(x, o)
    PROVE  ToldEnds(Append(p, x), NoBlock)
<1> DEFINE r == Append(p, x)
           n == Len(p) + 1
<1>1. Contents(r) = Contents(p) /\ Contents(p) \subseteq 1..Len(p)
  BY ContentsAppend
<1>2. /\ r[n] = x /\ (\A i \in 1..Len(p) : r[i] = p[i]) /\ Len(p) \in Nat
      /\ DOMAIN r = 1..n /\ DOMAIN p = 1..Len(p) /\ Len(r) = n
  BY AppendAt
<1>3. \A d \in Contents(p) : r[d] = p[d] /\ p[d].type \in {"delta", "tool-call"}
  BY <1>1, <1>2 DEF Contents
<1> DEFINE of(d) == p[d].type = "delta" /\ OfBlock(p[d], o)
<1>4. ASSUME NEW d \in Contents(p), of(d) PROVE Enters(r, d) = {n}
  <2>1. Enters(p, d) = {}
    BY <1>4 DEF Enters, ToldEnds, OfBlock, SameBlock
  <2>2. SameBlock(p[d], x)
    BY <1>4 DEF OfBlock, SameBlock
  <2> QED
    BY <1>4, <2>1, <2>2, EntersAppend
<1>5. ASSUME NEW d \in Contents(p), ~of(d)
      PROVE  Enters(r, d) = Enters(p, d) /\ \E e \in d..Len(p) : Enters(p, d) = {e}
  <2>1. p[d].type = "tool-call" \/ ~SameBlock(p[d], x)
    BY <1>3, <1>5 DEF OfBlock, SameBlock
  <2> QED
    BY <1>5, <2>1, EntersAppend DEF ToldEnds
<1> HIDE DEF r
<1>6. \A e \in DOMAIN r : r[e].type = "end" => ~OfBlock(r[e], NoBlock)
  <2>1. x.of \in Blocks
    BY OpenTyped DEF OfBlock
  <2>2. \A e \in DOMAIN p : p[e].type = "end" => p[e].of \in Blocks
    BY UsedIds
  <2> QED
    BY <1>2, <2>1, <2>2 DEF OfBlock, NoBlock, Blocks
<1>7. \A d \in Contents(p) : p[d].type = "delta" => p[d].of \in Blocks
  BY DEF ToldEnds
<1>8. ASSUME NEW d \in Contents(p) PROVE \E e \in d..n : Enters(r, d) = {e}
  <2>1. CASE of(d)
    <3>1. n \in d..n
      BY <1>1, <1>2
    <3> QED
      BY <1>4, <2>1, <3>1
  <2>2. CASE ~of(d)
    <3>1. PICK e \in d..Len(p) : Enters(p, d) = {e}
      BY <1>5, <2>2
    <3>2. e \in d..n
      BY <1>1, <1>2
    <3> QED
      BY <1>5, <2>2, <3>1, <3>2
  <2> QED
    BY <2>1, <2>2
<1>9. ASSUME NEW c \in Contents(p), NEW d \in Contents(p), c < d
      PROVE  \A e \in Enters(r, c), f \in Enters(r, d) : e <= f
  <2>1. of(c) => of(d)
    BY <1>9 DEF ToldEnds
  <2>2. CASE of(d)
    <3>1. Enters(r, c) \subseteq 1..n
      BY <1>8, <1>1, <1>2
    <3> QED
      BY <1>2, <1>4, <2>2, <3>1
  <2>3. CASE ~of(d)
    BY <1>5, <1>9, <2>1, <2>3 DEF ToldEnds
  <2> QED
    BY <2>2, <2>3
<1>10. \A d \in Contents(p) : p[d].type = "delta" => ~OfBlock(p[d], NoBlock)
  BY <1>7 DEF OfBlock, NoBlock, Blocks
<1> HIDE DEF of, n
<1>11. ToldEnds(r, NoBlock)
  BY <1>1, <1>2, <1>3, <1>6, <1>7, <1>8, <1>9, <1>10 DEF ToldEnds
<1> QED
  BY <1>11 DEF r

\* and a call, which is content by itself.
LEMMA EndsCall ==
    ASSUME NEW p \in Seq(PartType), NEW x \in PartType, ToldEnds(p, NoBlock),
           x.type = "tool-call"
    PROVE  ToldEnds(Append(p, x), NoBlock)
<1> DEFINE r == Append(p, x)
           n == Len(p) + 1
<1>1. Contents(r) = Contents(p) \union {n} /\ Contents(p) \subseteq 1..Len(p)
  BY ContentsAppend
<1>2. /\ r[n] = x /\ (\A i \in 1..Len(p) : r[i] = p[i]) /\ Len(p) \in Nat
      /\ DOMAIN r = 1..n /\ DOMAIN p = 1..Len(p) /\ Len(r) = n
  BY AppendAt
<1>3. \A d \in Contents(p) : Enters(r, d) = Enters(p, d) /\ r[d] = p[d] /\ Enters(p, d) \subseteq 1..Len(p)
  BY <1>1, <1>2, EntersAppend
<1> HIDE DEF r
<1>4. \A e \in DOMAIN r : r[e].type = "end" => ~OfBlock(r[e], NoBlock)
  BY <1>2 DEF ToldEnds
<1>5. Enters(r, n) = {n}
  BY <1>2 DEF Enters
<1>6. \A d \in Contents(r) : r[d].type = "delta" => r[d].of \in Blocks
  BY <1>1, <1>2, <1>3 DEF ToldEnds
<1>7. \A d \in Contents(r) : r[d].type = "delta" => ~OfBlock(r[d], NoBlock)
  BY <1>6 DEF OfBlock, NoBlock, Blocks
<1>8. ASSUME NEW d \in Contents(r) PROVE \E e \in d..Len(r) : Enters(r, d) = {e}
  <2>1. CASE d \in Contents(p)
    <3>1. ~(p[d].type = "delta" /\ OfBlock(p[d], NoBlock))
      BY <1>3, <1>7, <1>8, <2>1
    <3>2. PICK e \in d..Len(p) : Enters(p, d) = {e}
      BY <2>1, <3>1 DEF ToldEnds
    <3>3. e \in d..Len(r)
      BY <1>1, <1>2, <2>1
    <3> QED
      BY <1>3, <2>1, <3>2, <3>3
  <2>2. CASE d = n
    <3>1. n \in d..Len(r)
      BY <1>2, <2>2
    <3> QED
      BY <1>5, <2>2, <3>1
  <2> QED
    BY <1>1, <2>1, <2>2
<1>9. ASSUME NEW c \in Contents(r), NEW d \in Contents(r), c < d
      PROVE  \A e \in Enters(r, c), f \in Enters(r, d) : e <= f
  <2>1. c \in Contents(p)
    BY <1>1, <1>2, <1>9
  <2>2. CASE d = n
    <3>1. Enters(r, c) \subseteq 1..Len(p)
      BY <1>3, <2>1
    <3>2. Enters(r, d) = {n}
      BY <1>5, <2>2
    <3>3. \A e \in 1..Len(p) : e <= n
      BY <1>2
    <3> HIDE DEF n
    <3> QED
      BY <3>1, <3>2, <3>3
  <2>3. CASE d \in Contents(p)
    BY <1>3, <1>9, <2>1, <2>3 DEF ToldEnds
  <2> QED
    BY <1>1, <2>2, <2>3
<1>10. ToldEnds(r, NoBlock)
  BY <1>4, <1>6, <1>7, <1>8, <1>9 DEF ToldEnds
<1> QED
  BY <1>10 DEF r

-----------------------------------------------------------------------------
(* OpenCode: the parts of an event.                                        *)

LEMMA Joined ==
    ASSUME NEW s \in Seq(PartType), NEW t \in Seq(PartType), NEW u \in Seq(PartType)
    PROVE  (s \o t) \o u = s \o (t \o u)
  BY ConcatAssociative

LEMMA One ==
    ASSUME NEW s \in Seq(PartType), NEW x \in PartType
    PROVE  /\ <<x>> \in Seq(PartType) /\ s \o <<x>> = Append(s, x)
           /\ Append(s, x) \in Seq(PartType)
           /\ s \o <<>> = s /\ <<>> \o s = s
  OBVIOUS

LEMMA Two ==
    ASSUME NEW S, NEW s \in Seq(S), NEW t \in Seq(S), Len(t) = 2
    PROVE  /\ DOMAIN t = 1..2 /\ t[1] \in S /\ t[2] \in S
           /\ Append(Append(s, t[1]), t[2]) = s \o t
<1>1. DOMAIN t = 1..2 /\ t[1] \in S /\ t[2] \in S
  OBVIOUS
<1> DEFINE l == Append(Append(s, t[1]), t[2])
           r == s \o t
<1>2. /\ l \in Seq(S) /\ Len(l) = Len(s) + 2 /\ l[Len(s) + 1] = t[1] /\ l[Len(s) + 2] = t[2]
      /\ \A i \in 1..Len(s) : l[i] = s[i]
  BY <1>1
<1>3. /\ r \in Seq(S) /\ Len(r) = Len(s) + 2 /\ r[Len(s) + 1] = t[1] /\ r[Len(s) + 2] = t[2]
      /\ \A i \in 1..Len(s) : r[i] = s[i]
  <2>1. /\ r \in Seq(S) /\ Len(r) = Len(s) + Len(t)
        /\ \A i \in 1..Len(s) + Len(t) : r[i] = IF i <= Len(s) THEN s[i] ELSE t[i - Len(s)]
    BY ConcatProperties
  <2>2. Len(s) \in Nat
    OBVIOUS
  <2> HIDE DEF r
  <2> QED
    BY <2>1, <2>2
<1> HIDE DEF l, r
<1>4. \A i \in 1..(Len(s) + 2) : l[i] = r[i]
  <2> TAKE i \in 1..(Len(s) + 2)
  <2>1. Len(s) \in Nat
    OBVIOUS
  <2>2. i \in 1..Len(s) \/ i = Len(s) + 1 \/ i = Len(s) + 2
    BY <2>1
  <2> QED
    BY <1>2, <1>3, <2>2
<1>5. l = r
  BY <1>2, <1>3, <1>4, SeqEqual
<1> QED
  BY <1>1, <1>5 DEF l, r

\* A read moves the first part from the queue to the reader.
LEMMA Moved ==
    ASSUME NEW s \in Seq(PartType), NEW t \in Seq(PartType), t # <<>>
    PROVE  /\ Append(s, Head(t)) \in Seq(PartType) /\ Tail(t) \in Seq(PartType)
           /\ Append(s, Head(t)) \o Tail(t) = s \o t
<1>1. Head(t) \in PartType /\ Tail(t) \in Seq(PartType)
  BY HeadTailProperties
<1>2. /\ Append(s, Head(t)) = s \o <<Head(t)>> /\ <<Head(t)>> \in Seq(PartType)
      /\ Append(s, Head(t)) \in Seq(PartType)
  BY <1>1, One
<1>3. <<Head(t)>> \o Tail(t) = t
  <2> HIDE DEF PartType
  <2> QED
    BY <1>1
<1>4. (s \o <<Head(t)>>) \o Tail(t) = s \o (<<Head(t)>> \o Tail(t))
  BY <1>1, <1>2, Joined
<1> QED
  BY <1>1, <1>2, <1>3, <1>4

LEMMA PartTyped ==
    ASSUME NEW type \in PartKinds, NEW of \in Blocks \union {"none"},
           NEW id \in 0..MaxEvents, NEW event \in 0..MaxEvents
    PROVE  /\ Part(type, of, id, event) \in PartType
           /\ Part(type, of, id, event).type = type /\ Part(type, of, id, event).of = of
           /\ Part(type, of, id, event).id = id /\ Part(type, of, id, event).event = event
  BY DEF Part, PartType

LEMMA PlainTyped ==
    ASSUME NEW type \in PartKinds
    PROVE  Plain(type) \in PartType /\ Plain(type).type = type
  BY MaxEventsAssumption, PartTyped DEF Plain

LEMMA CloseClear ==
    ASSUME open \in OpenType, NEW q \in SeqsType, NEW p \in Seq(PartType), Clear(p, open, q)
    PROVE  /\ CloseBlock \in Seq(PartType) /\ p \o CloseBlock \in Seq(PartType)
           /\ Clear(p \o CloseBlock, NoBlock, q)
<1>1. CASE open = NoBlock
  BY <1>1, One DEF CloseBlock
<1>2. CASE open # NoBlock
  <2> DEFINE x == Part("end", open.type, open.id, 0)
  <2>1. x \in PartType /\ x.type = "end" /\ x.of = open.type /\ x.id = open.id
    BY <1>2, OpenTyped, PartTyped, MaxEventsAssumption DEF PartKinds
  <2>2. CloseBlock = <<x>>
    BY <1>2 DEF CloseBlock
  <2> HIDE DEF x
  <2>3. Clear(Append(p, x), NoBlock, q)
    BY <1>2, <2>1, EndClear
  <2> QED
    BY <2>1, <2>2, <2>3, One
<1> QED
  BY <1>1, <1>2

DeltaParts(block, event) == (IF open.type = block THEN <<>> ELSE CloseBlock) \o Deltas(block, event)
OpenAfter(block) ==
    [type |-> block, id |-> IF open.type = block THEN open.id ELSE seqs[block] + 1]
SeqsAfter(block) == [seqs EXCEPT ![block] = IF open.type = block THEN @ ELSE @ + 1]

LEMMA DeltasClear ==
    ASSUME open \in OpenType, seqs \in SeqsType, NEW p \in Seq(PartType), Clear(p, open, seqs),
           NEW block \in Blocks, NEW event \in 0..MaxEvents, seqs[block] < MaxEvents
    PROVE  /\ DeltaParts(block, event) \in Seq(PartType)
           /\ OpenAfter(block) \in OpenType /\ SeqsAfter(block) \in SeqsType
           /\ Clear(p \o DeltaParts(block, event), OpenAfter(block), SeqsAfter(block))
<1>0. seqs[block] \in 0..MaxEvents
  BY DEF SeqsType
<1>1. CASE open.type = block
  <2> DEFINE d == Part("delta", block, open.id, event)
  <2>1. open # NoBlock
    BY <1>1 DEF NoBlock, Blocks
  <2>2. d \in PartType /\ d.type = "delta" /\ d.of = open.type /\ d.id = open.id
    BY <1>1, <2>1, OpenTyped, PartTyped DEF PartKinds
  <2>3. DeltaParts(block, event) = <<>> \o (<<>> \o <<d>>)
    BY <1>1 DEF DeltaParts, Deltas
  <2>4. OpenAfter(block) = open /\ SeqsAfter(block) = seqs
    <3>1. OpenAfter(block) = open
      BY <1>1, <2>1 DEF OpenAfter, OpenType
    <3>2. SeqsAfter(block) = seqs
      BY <1>1 DEF SeqsAfter, SeqsType
    <3> QED
      BY <3>1, <3>2
  <2> HIDE DEF d
  <2>5. DeltaParts(block, event) = <<d>> /\ <<d>> \in Seq(PartType)
    BY <2>2, <2>3, One
  <2>6. Clear(Append(p, d), open, seqs)
    BY <2>1, <2>2, DeltaClear
  <2> QED
    BY <2>2, <2>4, <2>5, <2>6, One
<1>2. CASE open.type # block
  <2> DEFINE n == seqs[block] + 1
             st == Part("start", block, n, 0)
             d == Part("delta", block, n, event)
             c == p \o CloseBlock
             o == [type |-> block, id |-> n]
             q == [seqs EXCEPT ![block] = @ + 1]
  <2>1. n \in 1..MaxEvents /\ n \in 0..MaxEvents
    BY <1>0, MaxEventsAssumption
  <2>2. /\ st \in PartType /\ st.type = "start" /\ st.of = block /\ st.id = n
        /\ d \in PartType /\ d.type = "delta" /\ d.of = block /\ d.id = n
    <3>1. st \in PartType
      BY <2>1, PartTyped, MaxEventsAssumption DEF PartKinds
    <3>2. d \in PartType
      BY <2>1, PartTyped, MaxEventsAssumption DEF PartKinds
    <3> QED
      BY <3>1, <3>2 DEF Part
  <2>3. o \in OpenType /\ q \in SeqsType /\ o # NoBlock /\ o.type = block /\ o.id = n
    <3>1. o \in OpenType
      BY <2>1 DEF OpenType
    <3>2. q \in SeqsType
      BY <2>1 DEF SeqsType
    <3> QED
      BY <3>1, <3>2 DEF NoBlock, Blocks
  <2>4. DeltaParts(block, event) = CloseBlock \o (<<st>> \o <<d>>)
    BY <1>2 DEF DeltaParts, Deltas
  <2>5. OpenAfter(block) = o /\ SeqsAfter(block) = q
    BY <1>2 DEF OpenAfter, SeqsAfter
  <2>6. CloseBlock \in Seq(PartType) /\ c \in Seq(PartType) /\ Clear(c, NoBlock, seqs)
    BY CloseClear
  <2>7. st.id = seqs[block] + 1 /\ o = [type |-> block, id |-> seqs[block] + 1]
    BY <2>2
  <2>8. Clear(Append(c, st), o, q)
    <3> HIDE DEF st, c
    <3> QED
      BY <2>2, <2>6, <2>7, StartClear
  <2> HIDE DEF st, d, o, q, n
  <2>9. Append(c, st) \in Seq(PartType) /\ <<st>> \in Seq(PartType) /\ <<d>> \in Seq(PartType)
    BY <2>2, <2>6, One
  <2>10. Clear(Append(Append(c, st), d), o, q)
    <3> HIDE DEF c
    <3> QED
      BY <2>2, <2>3, <2>8, <2>9, DeltaClear
  <2>11. Append(Append(c, st), d) = (c \o <<st>>) \o <<d>>
    <3> HIDE DEF c
    <3>1. Append(c, st) = c \o <<st>>
      BY <2>2, <2>6, One
    <3>2. Append(Append(c, st), d) = Append(c, st) \o <<d>>
      BY <2>2, <2>9, One
    <3> QED
      BY <3>1, <3>2
  <2>12. (c \o <<st>>) \o <<d>> = c \o (<<st>> \o <<d>>)
    BY <2>6, <2>9, Joined
  <2>13. <<st>> \o <<d>> \in Seq(PartType)
    BY <2>9, ConcatProperties
  <2>14. c \o (<<st>> \o <<d>>) = p \o (CloseBlock \o (<<st>> \o <<d>>))
    BY <2>6, <2>13, Joined
  <2>15. CloseBlock \o (<<st>> \o <<d>>) \in Seq(PartType)
    BY <2>6, <2>13, ConcatProperties
  <2> QED
    BY <2>3, <2>4, <2>5, <2>10, <2>11, <2>12, <2>14, <2>15
<1> QED
  BY <1>1, <1>2

\* The parts of a finish: the block ends, then what belongs to none, then the
\* finish itself.
LEMMA FinishParts ==
    ASSUME open \in OpenType, NEW q \in SeqsType, NEW p \in Seq(PartType), Clear(p, open, q),
           NEW parts \in Seq(PartType), Len(parts) \in {0, 2},
           \A i \in DOMAIN parts : parts[i].type \notin {"start", "delta", "end", "finish"}
    PROVE  /\ CloseBlock \o parts \o <<Plain("finish")>> \in Seq(PartType)
           /\ WellFormed(p \o (CloseBlock \o parts \o <<Plain("finish")>>))
<1> DEFINE f == Plain("finish")
           c == p \o CloseBlock
<1>1. f \in PartType
  BY PlainTyped DEF PartKinds
<1>2. CloseBlock \in Seq(PartType) /\ c \in Seq(PartType) /\ Clear(c, NoBlock, q)
  BY CloseClear
<1>3. NoBlock \in OpenType
  BY DEF OpenType
<1> HIDE DEF f
<1>4. Clear(c \o parts, NoBlock, q) /\ c \o parts \in Seq(PartType)
  <2> HIDE DEF c
  <2>1. CASE Len(parts) = 0
    <3>1. parts = <<>>
      BY <2>1
    <3> QED
      BY <1>2, <3>1, One
  <2>2. CASE Len(parts) = 2
    <3>1. /\ parts[1] \in PartType /\ parts[1].type \notin {"start", "delta", "end", "finish"}
          /\ parts[2] \in PartType /\ parts[2].type \notin {"start", "delta", "end", "finish"}
      BY <2>2, Two
    <3>2. Append(c, parts[1]) \in Seq(PartType) /\ Clear(Append(c, parts[1]), NoBlock, q)
      BY <1>2, <1>3, <3>1, PlainClear, One
    <3>3. /\ Append(Append(c, parts[1]), parts[2]) \in Seq(PartType)
          /\ Clear(Append(Append(c, parts[1]), parts[2]), NoBlock, q)
      BY <1>3, <3>1, <3>2, PlainClear, One
    <3>4. Append(Append(c, parts[1]), parts[2]) = c \o parts
      BY <1>2, <2>2, Two
    <3> QED
      BY <3>3, <3>4
  <2> QED
    BY <2>1, <2>2
<1>5. WellFormed(Append(c \o parts, f))
  BY <1>4, FinishSound DEF f
<1>6. Append(c \o parts, f) = (c \o parts) \o <<f>> /\ <<f>> \in Seq(PartType)
  BY <1>1, <1>4, One
<1>7. CloseBlock \o parts \in Seq(PartType) /\ (CloseBlock \o parts) \o <<f>> \in Seq(PartType)
  BY <1>2, <1>6, ConcatProperties
<1>8. c \o parts = p \o (CloseBlock \o parts)
  BY <1>2, Joined
<1>9. (p \o (CloseBlock \o parts)) \o <<f>> = p \o ((CloseBlock \o parts) \o <<f>>)
  BY <1>6, <1>7, Joined
<1> QED
  BY <1>5, <1>6, <1>7, <1>8, <1>9 DEF f

\* The parts of each event tell of it: those that close a block,
LEMMA CloseTold ==
    ASSUME open \in OpenType, NEW q \in SeqsType, NEW p \in Seq(PartType), Clear(p, open, q),
           NEW g, Told(p, g, open), g \in Seq(EventKinds)
    PROVE  Told(p \o CloseBlock, g, NoBlock)
<1>1. CASE open = NoBlock
  BY <1>1, One DEF CloseBlock
<1>2. CASE open # NoBlock
  <2> DEFINE x == Part("end", open.type, open.id, 0)
  <2>1. x \in PartType /\ x.type = "end" /\ OfBlock(x, open)
    BY <1>2, OpenTyped, PartTyped, MaxEventsAssumption DEF PartKinds, OfBlock
  <2>2. CloseBlock = <<x>>
    BY <1>2 DEF CloseBlock
  <2> HIDE DEF x
  <2>3. ToldEnds(Append(p, x), NoBlock)
    BY <1>2, <2>1, EndsEnd DEF Told
  <2>4. ToldEvents(Append(p, x), g)
    BY <2>1, EventsKept DEF Told
  <2> QED
    BY <2>1, <2>2, <2>3, <2>4, One DEF Told
<1> QED
  BY <1>1, <1>2

\* those of a delta,
LEMMA DeltasTold ==
    ASSUME open \in OpenType, seqs \in SeqsType, NEW p \in Seq(PartType), Clear(p, open, seqs),
           NEW g \in Seq(EventKinds), Told(p, g, open), NEW wanted \in Wanted,
           NEW block \in Blocks, seqs[block] < MaxEvents, Len(g) + 1 \in 0..MaxEvents
    PROVE  Told(p \o DeltaParts(block, Len(g) + 1), Append(g, wanted), OpenAfter(block))
<1> DEFINE event == Len(g) + 1
           h == Append(g, wanted)
<1>0. seqs[block] \in 0..MaxEvents
  BY DEF SeqsType
<1>1. CASE open.type = block
  <2> DEFINE d == Part("delta", block, open.id, event)
  <2>1. open # NoBlock
    BY <1>1 DEF NoBlock, Blocks
  <2>2. d \in PartType /\ d.type = "delta" /\ OfBlock(d, open) /\ d.event = Len(g) + 1
    BY <1>1, <2>1, OpenTyped, PartTyped DEF PartKinds, OfBlock
  <2>3. DeltaParts(block, event) = <<>> \o (<<>> \o <<d>>)
    BY <1>1 DEF DeltaParts, Deltas
  <2>4. OpenAfter(block) = open
    BY <1>1, <2>1 DEF OpenAfter, OpenType
  <2> HIDE DEF d
  <2>5. DeltaParts(block, event) = <<d>> /\ <<d>> \in Seq(PartType)
    BY <2>2, <2>3, One
  <2>6. ToldEnds(Append(p, d), open)
    BY <2>1, <2>2, EndsDelta DEF Told
  <2>7. ToldEvents(Append(p, d), h)
    BY <2>2, EventsGrow DEF Told
  <2> QED
    BY <2>2, <2>4, <2>5, <2>6, <2>7, One DEF Told
<1>2. CASE open.type # block
  <2> DEFINE n == seqs[block] + 1
             st == Part("start", block, n, 0)
             d == Part("delta", block, n, event)
             c == p \o CloseBlock
             o == [type |-> block, id |-> n]
  <2>1. n \in 1..MaxEvents /\ n \in 0..MaxEvents
    BY <1>0, MaxEventsAssumption
  <2>2. /\ st \in PartType /\ st.type = "start"
        /\ d \in PartType /\ d.type = "delta" /\ OfBlock(d, o) /\ d.event = Len(g) + 1
    <3>1. st \in PartType
      BY <2>1, PartTyped, MaxEventsAssumption DEF PartKinds
    <3>2. d \in PartType
      BY <2>1, PartTyped, MaxEventsAssumption DEF PartKinds
    <3> QED
      BY <1>0, <3>1, <3>2 DEF Part, OfBlock
  <2>3. o \in OpenType /\ o # NoBlock /\ o.type = block /\ o.id = seqs[block] + 1
    <3>1. o \in OpenType
      BY <2>1 DEF OpenType
    <3> QED
      BY <3>1 DEF NoBlock, Blocks
  <2>4. DeltaParts(block, event) = CloseBlock \o (<<st>> \o <<d>>)
    BY <1>2 DEF DeltaParts, Deltas
  <2>5. OpenAfter(block) = o
    BY <1>2 DEF OpenAfter
  <2>6. /\ CloseBlock \in Seq(PartType) /\ c \in Seq(PartType) /\ Clear(c, NoBlock, seqs)
        /\ Told(c, g, NoBlock)
    BY CloseClear, CloseTold
  <2> HIDE DEF st, d, o, n, c
  <2>7. ToldEnds(Append(c, st), o) /\ ToldEvents(Append(c, st), g)
    BY <2>2, <2>3, <2>6, EndsStart, EventsKept DEF Told
  <2>8. Append(c, st) \in Seq(PartType) /\ <<st>> \in Seq(PartType) /\ <<d>> \in Seq(PartType)
    BY <2>2, <2>6, One
  <2>9. Told(Append(Append(c, st), d), h, o)
    <3>1. ToldEnds(Append(Append(c, st), d), o)
      BY <2>2, <2>3, <2>7, <2>8, EndsDelta
    <3>2. ToldEvents(Append(Append(c, st), d), h)
      BY <2>2, <2>7, <2>8, EventsGrow
    <3> QED
      BY <3>1, <3>2 DEF Told
  <2>10. Append(Append(c, st), d) = (c \o <<st>>) \o <<d>>
    <3>1. Append(c, st) = c \o <<st>>
      BY <2>2, <2>6, One
    <3>2. Append(Append(c, st), d) = Append(c, st) \o <<d>>
      BY <2>2, <2>8, One
    <3> QED
      BY <3>1, <3>2
  <2>11. (c \o <<st>>) \o <<d>> = c \o (<<st>> \o <<d>>)
    BY <2>6, <2>8, Joined
  <2>12. <<st>> \o <<d>> \in Seq(PartType)
    BY <2>8, ConcatProperties
  <2>13. c \o (<<st>> \o <<d>>) = p \o (CloseBlock \o (<<st>> \o <<d>>))
    BY <2>6, <2>12, Joined DEF c
  <2> QED
    BY <2>4, <2>5, <2>9, <2>10, <2>11, <2>13
<1> QED
  BY <1>1, <1>2

\* and those of a finish, with the call that it may come from.
LEMMA FinishTold ==
    ASSUME open \in OpenType, NEW q \in SeqsType, NEW p \in Seq(PartType), Clear(p, open, q),
           NEW g \in Seq(EventKinds), Told(p, g, open),
           NEW parts \in Seq(PartType), NEW h,
           \/ parts = <<>> /\ h = g
           \/ /\ Len(parts) = 2 /\ h = Append(g, "tool")
              /\ parts[1].type = "tool-input"
              /\ parts[2].type = "tool-call" /\ parts[2].event = Len(g) + 1
    PROVE  Told(p \o (CloseBlock \o parts \o <<Plain("finish")>>), h, NoBlock)
<1> DEFINE f == Plain("finish")
           c == p \o CloseBlock
<1>1. f \in PartType /\ f.type = "finish"
  BY PlainTyped DEF PartKinds
<1>2. CloseBlock \in Seq(PartType) /\ c \in Seq(PartType) /\ Told(c, g, NoBlock)
  BY CloseClear, CloseTold
<1> HIDE DEF f, c
<1>3. Told(c \o parts, h, NoBlock) /\ c \o parts \in Seq(PartType)
  <2>1. CASE parts = <<>> /\ h = g
    BY <1>1, <1>2, <2>1, One
  <2>2. CASE /\ Len(parts) = 2 /\ h = Append(g, "tool")
             /\ parts[1].type = "tool-input"
             /\ parts[2].type = "tool-call" /\ parts[2].event = Len(g) + 1
    <3>1. parts[1] \in PartType /\ parts[2] \in PartType
      BY <2>2, Two
    <3>2. Append(c, parts[1]) \in Seq(PartType) /\ Told(Append(c, parts[1]), g, NoBlock)
      BY <1>2, <2>2, <3>1, EventsKept, EndsKept, One DEF Told
    <3>3. ToldEvents(Append(Append(c, parts[1]), parts[2]), h)
      BY <2>2, <3>1, <3>2, EventsGrow DEF Told, Wanted
    <3>4. /\ Append(Append(c, parts[1]), parts[2]) \in Seq(PartType)
          /\ ToldEnds(Append(Append(c, parts[1]), parts[2]), NoBlock)
      BY <2>2, <3>1, <3>2, EndsCall, One DEF Told
    <3>5. Append(Append(c, parts[1]), parts[2]) = c \o parts
      BY <1>2, <2>2, Two
    <3> QED
      BY <3>3, <3>4, <3>5 DEF Told
  <2> QED
    BY <2>1, <2>2
<1>4. Told(Append(c \o parts, f), h, NoBlock)
  <2>1. ToldEnds(Append(c \o parts, f), NoBlock)
    BY <1>1, <1>3, EndsKept DEF Told
  <2>2. h \in Seq(EventKinds)
    BY EventAppended DEF EventKinds
  <2>3. ToldEvents(Append(c \o parts, f), h)
    BY <1>1, <1>3, <2>2, EventsKept DEF Told
  <2> QED
    BY <2>1, <2>3 DEF Told
<1>5. Append(c \o parts, f) = (c \o parts) \o <<f>> /\ <<f>> \in Seq(PartType)
  BY <1>1, <1>3, One
<1>6. CloseBlock \o parts \in Seq(PartType)
  BY <1>2, ConcatProperties
<1>7. c \o parts = p \o (CloseBlock \o parts)
  BY <1>2, Joined DEF c
<1>8. (p \o (CloseBlock \o parts)) \o <<f>> = p \o ((CloseBlock \o parts) \o <<f>>)
  BY <1>5, <1>6, Joined
<1> QED
  BY <1>4, <1>5, <1>7, <1>8 DEF f

-----------------------------------------------------------------------------
(* OpenCode: the invariant.                                                *)

Fresh ==
    /\ stream = "none" /\ seen = <<>> /\ queue = <<>> /\ asked = FALSE
    /\ open = NoBlock /\ seqs = [b \in Blocks |-> 0] /\ given = <<>>

\* No more blocks than events, and no more events than the bound.
Counted == Len(given) <= MaxEvents /\ \A b \in Blocks : seqs[b] <= Len(given)

\* While the loop runs on a stream that takes parts, the stream may go on; and
\* it has no finish when its loop is left by what was thrown.
InStep ==
    /\ WellFormed(Parts)
    /\ stream = "readable" /\ pump = "reading" => Clear(Parts, open, seqs)
    /\ stream = "readable" /\ pump = "leaving" /\ caught # "break" => Unfinished(Parts)
    /\ pump = "leaving" => caught # "none"
    /\ pump = "opening" => Fresh

StreamInv == TypeOK /\ Counted /\ InStep

USE DEF pumpVars, streamVars

PartsType == seen \in Seq(PartType) /\ queue \in Seq(PartType) /\ asked \in BOOLEAN /\ (asked => queue = <<>>)

LEMMA Typed ==
    ASSUME TypeOK
    PROVE  /\ PartsType /\ Parts \in Seq(PartType)
           /\ open \in OpenType /\ seqs \in SeqsType
<1>1. PartsType
  BY DEF TypeOK, PartsType
<1>2. Parts \in Seq(PartType)
  BY <1>1, ConcatProperties DEF Parts, PartsType
<1> QED
  BY <1>1, <1>2 DEF TypeOK, OpenType, SeqsType

LEMMA Enqueued ==
    ASSUME PartsType, NEW parts \in Seq(PartType), Enqueue(parts)
    PROVE  /\ PartsType'
           /\ seen' \o queue' = Parts \o parts
<1>1. CASE asked /\ parts # <<>>
  <2>1. seen' = Append(seen, Head(parts)) /\ queue' = Tail(parts) /\ asked' = FALSE
    BY <1>1 DEF Enqueue
  <2>2. queue = <<>> /\ Parts = seen
    BY <1>1, One DEF PartsType, Parts
  <2> QED
    BY <1>1, <2>1, <2>2, Moved DEF PartsType
<1>2. CASE ~(asked /\ parts # <<>>)
  <2>1. queue' = queue \o parts /\ seen' = seen /\ asked' = asked
    BY <1>2 DEF Enqueue
  <2>2. queue \o parts \in Seq(PartType) /\ (seen \o queue) \o parts = seen \o (queue \o parts)
    BY Joined, ConcatProperties DEF PartsType
  <2>3. asked => queue \o parts = <<>>
    BY <1>2, One DEF PartsType
  <2> QED
    BY <2>1, <2>2, <2>3 DEF PartsType, Parts
<1> QED
  BY <1>1, <1>2

\* What the reader has of a stream that goes on, or is cut off, is well formed.
LEMMA SeenSound == ASSUME PartsType, WellFormed(Parts) PROVE WellFormed(seen)
  BY Cut DEF PartsType, Parts

-----------------------------------------------------------------------------
(* OpenCode: what each step keeps.                                         *)

LEMMA StreamInit == ASSUME Init PROVE StreamInv
<1>1. TypeOK
  <2>1. seqs \in [Blocks -> 0..MaxEvents]
    BY MaxEventsAssumption DEF Init
  <2>2. /\ reader \in {"generate", "stream"} /\ aborted \in BOOLEAN
        /\ pump \in {"opening", "reading", "leaving", "over"}
        /\ run \in {"none", "held", "released"}
        /\ caught \in {"none", "break", "cancelled", "other"}
        /\ stream \in {"none", "readable", "closing", "closed", "cancelled", "other"}
        /\ asked \in BOOLEAN /\ (asked => queue = <<>>)
        /\ outcome \in {"none", "finished", "cancelled", "other", "left"}
    BY DEF Init
  <2>3. given \in Seq(EventKinds) /\ queue \in Seq(PartType) /\ seen \in Seq(PartType)
    <3> HIDE DEF EventKinds, PartType
    <3> QED
      BY DEF Init
  <2>4. open \in {NoBlock} \union [type : Blocks, id : 1..MaxEvents]
    BY DEF Init
  <2> QED
    BY <2>1, <2>2, <2>3, <2>4 DEF TypeOK
<1>2. Parts = <<>>
  BY DEF Init, Parts
<1>3. WellFormed(Parts)
  BY <1>2 DEF WellFormed
<1> QED
  BY <1>1, <1>3, MaxEventsAssumption DEF Init, StreamInv, Counted, InStep, Fresh

\* The pump is over, or does not see the change: only Parts matters.
LEMMA ErrorKeeps ==
    ASSUME PartsType, WellFormed(Parts), stream = "readable" => Unfinished(Parts),
           NEW error \in {"cancelled", "other"}, ErrorStream(error, TRUE)
    PROVE  /\ PartsType' /\ WellFormed(seen' \o queue')
           /\ stream' \in {stream, error}
<1>1. CASE stream # "readable"
  BY <1>1 DEF ErrorStream, PartsType, Parts
<1>2. CASE stream = "readable"
  <2>1. /\ stream' = error /\ queue' = <<>> /\ asked' = FALSE
        /\ seen' = IF asked THEN Append(seen, Plain("error")) ELSE seen
    BY <1>2 DEF ErrorStream
  <2>2. CASE asked
    <3>1. Plain("error") \in PartType /\ Plain("error").type = "error"
      BY PlainTyped DEF PartKinds
    <3>2. Parts = seen
      BY <2>2, One DEF PartsType, Parts
    <3>3. WellFormed(Append(seen, Plain("error")))
      BY <1>2, <3>1, <3>2, Grown DEF PartsType, Fits
    <3>4. seen' \in Seq(PartType) /\ seen' \o <<>> = seen'
      BY <2>1, <2>2, <3>1, One DEF PartsType
    <3> QED
      BY <2>1, <2>2, <3>3, <3>4 DEF PartsType
  <2>3. CASE ~asked
    <3>1. seen' = seen /\ seen \o <<>> = seen
      BY <2>1, <2>3, ConcatEmptySeq DEF PartsType
    <3>2. seen' \o queue' = seen /\ WellFormed(seen)
      BY <2>1, <3>1, SeenSound
    <3>3. PartsType'
      <4>1. seen' \in Seq(PartType)
        BY <3>1 DEF PartsType
      <4>2. <<>> \in Seq(PartType)
        <5> HIDE DEF PartType
        <5> QED
          OBVIOUS
      <4> QED
        BY <2>1, <4>1, <4>2 DEF PartsType
    <3> QED
      BY <2>1, <3>2, <3>3
  <2> QED
    BY <2>2, <2>3 DEF PartsType
<1> QED
  BY <1>1, <1>2

LEMMA FailKeeps ==
    ASSUME StreamInv, NEW error \in {"cancelled", "other"}, Fail(error),
           stream = "readable" => Unfinished(Parts),
           UNCHANGED <<reader, aborted, given, open, seqs, caught, outcome>>
    PROVE  StreamInv'
<1>1. Normalized(error) \in {"cancelled", "other"}
  BY DEF Normalized
<1>2. PartsType /\ WellFormed(Parts)
  BY Typed DEF StreamInv, InStep
<1>3. pump' = "over" /\ run' = "released" /\ ErrorStream(Normalized(error), TRUE)
  BY DEF Fail
<1>4. /\ PartsType' /\ WellFormed(seen' \o queue')
      /\ stream' \in {stream, Normalized(error)}
  BY <1>1, <1>2, <1>3, ErrorKeeps
<1>5. TypeOK'
  BY <1>1, <1>3, <1>4 DEF StreamInv, TypeOK, PartsType
<1>6. Counted'
  BY DEF StreamInv, Counted
<1>7. InStep'
  BY <1>3, <1>4 DEF InStep, Parts
<1> QED
  BY <1>5, <1>6, <1>7 DEF StreamInv

LEMMA OpensKeeps == ASSUME StreamInv, RunOpens PROVE StreamInv'
<1>1. /\ pump = "opening" /\ Fresh
      /\ UNCHANGED <<reader, aborted, given, open, seqs, caught, outcome>>
  BY DEF RunOpens, StreamInv, InStep
<1>2. Counted'
  BY <1>1 DEF StreamInv, Counted
<1>3. CASE aborted
  <2>1. pump' = "over" /\ run' = "released" /\ stream' = "cancelled" /\ UNCHANGED <<queue, asked, seen>>
    BY <1>3 DEF RunOpens
  <2>2. TypeOK'
    BY <1>1, <2>1 DEF StreamInv, TypeOK
  <2>3. InStep'
    BY <1>1, <2>1 DEF StreamInv, InStep, Parts
  <2> QED
    BY <1>2, <2>2, <2>3 DEF StreamInv
<1>4. CASE ~aborted
  <2> DEFINE x == Plain("stream-start")
  <2>1. pump' = "reading" /\ run' = "held" /\ stream' = "readable" /\ Enqueue(<<x>>)
    BY <1>4 DEF RunOpens
  <2>2. x \in PartType /\ x.type = "stream-start"
    BY PlainTyped DEF PartKinds
  <2> HIDE DEF x
  <2>3. /\ PartsType /\ open \in OpenType /\ seqs \in SeqsType
    BY Typed DEF StreamInv
  <2>4. Parts = <<>> /\ <<>> \in Seq(PartType)
    BY <1>1, <2>2, One DEF Fresh, Parts
  <2>5. PartsType' /\ seen' \o queue' = Parts \o <<x>>
    <3>1. <<x>> \in Seq(PartType)
      BY <2>2, <2>4, One
    <3> QED
      BY <2>1, <2>3, <3>1, Enqueued
  <2>6. Clear(<<>>, NoBlock, seqs)
    BY DEF Clear, WellFormed, Unfinished
  <2>7. NoBlock \in OpenType
    BY DEF OpenType
  <2>8. Clear(Append(<<>>, x), NoBlock, seqs)
    BY <2>2, <2>3, <2>4, <2>6, <2>7, PlainClear
  <2>9. <<>> \o <<x>> = Append(<<>>, x)
    BY <2>2, <2>4, One
  <2>10. Clear(Parts, open, seqs)'
    BY <1>1, <2>4, <2>5, <2>8, <2>9 DEF Parts, Fresh
  <2>11. TypeOK'
    BY <1>1, <2>1, <2>5 DEF StreamInv, TypeOK, PartsType
  <2>12. InStep'
    BY <2>1, <2>10 DEF InStep, Clear
  <2> QED
    BY <1>2, <2>11, <2>12 DEF StreamInv
<1> QED
  BY <1>3, <1>4

\* The loop reads an event.
Reads(event) ==
    /\ pump = "reading" /\ Len(given) < MaxEvents
    /\ given' = Append(given, event)
    /\ UNCHANGED <<reader, aborted, outcome>>

LEMMA ReadsCount ==
    ASSUME StreamInv, NEW event \in EventKinds, Reads(event)
    PROVE  /\ given' \in Seq(EventKinds) /\ Len(given') = Len(given) + 1
           /\ Len(given') \in 0..MaxEvents
           /\ \A b \in Blocks : seqs[b] < MaxEvents
           /\ seqs' = seqs => Counted'
           /\ \A block \in Blocks : seqs' = SeqsAfter(block) => Counted'
<1>1. given \in Seq(EventKinds) /\ seqs \in SeqsType
  BY DEF StreamInv, TypeOK, SeqsType
<1>2. /\ given' \in Seq(EventKinds) /\ Len(given') = Len(given) + 1
      /\ Len(given) \in Nat
  <2> HIDE DEF EventKinds
  <2> QED
    BY <1>1 DEF Reads
<1>3. Len(given') \in 0..MaxEvents /\ Len(given') <= MaxEvents
  BY <1>2, MaxEventsAssumption DEF Reads
<1>4. \A b \in Blocks : seqs[b] \in Nat /\ seqs[b] <= Len(given)
  BY <1>1 DEF SeqsType, StreamInv, Counted
<1>5. \A b \in Blocks : seqs[b] < MaxEvents
  BY <1>2, <1>4, MaxEventsAssumption DEF Reads
<1>6. ASSUME seqs' = seqs PROVE Counted'
  BY <1>2, <1>3, <1>4, <1>6 DEF Counted
<1>7. ASSUME NEW block \in Blocks, seqs' = SeqsAfter(block) PROVE Counted'
  <2>1. \A b \in Blocks : seqs'[b] \in {seqs[b], seqs[b] + 1}
    BY <1>1, <1>7 DEF SeqsAfter, SeqsType
  <2> QED
    BY <1>2, <1>3, <1>4, <2>1 DEF Counted
<1> QED
  BY <1>2, <1>3, <1>5, <1>6, <1>7

\* Any step of the loop that leaves it as typed, on a stream as typed.
LEMMA ReadsTyped ==
    ASSUME StreamInv, NEW event \in EventKinds, Reads(event),
           pump' \in {"reading", "leaving"}, run' \in {run, "released"},
           open' \in OpenType, seqs' \in SeqsType,
           caught' \in {caught, "break", "cancelled", "other"},
           stream' = stream, PartsType'
    PROVE  TypeOK'
  BY ReadsCount DEF StreamInv, TypeOK, PartsType, Reads, OpenType, SeqsType

LEMMA DeltaKeeps ==
    ASSUME StreamInv, NEW event \in EventKinds, Reads(event), stream = "readable",
           NEW block \in Blocks, Delta(block, Len(given'))
    PROVE  StreamInv'
<1>1. PartsType /\ Parts \in Seq(PartType) /\ open \in OpenType /\ seqs \in SeqsType
  BY Typed DEF StreamInv
<1>2. Clear(Parts, open, seqs)
  BY DEF StreamInv, InStep, Reads
<1>3. Len(given') \in 0..MaxEvents /\ seqs[block] < MaxEvents
  BY ReadsCount
<1>4. /\ Enqueue(DeltaParts(block, Len(given')))
      /\ open' = OpenAfter(block) /\ seqs' = SeqsAfter(block)
      /\ UNCHANGED <<pump, run, caught, stream>>
  BY DEF Delta, DeltaParts, OpenAfter, SeqsAfter
<1>5. /\ DeltaParts(block, Len(given')) \in Seq(PartType)
      /\ open' \in OpenType /\ seqs' \in SeqsType
      /\ Clear(Parts \o DeltaParts(block, Len(given')), open', seqs')
  BY <1>1, <1>2, <1>3, <1>4, DeltasClear
<1>6. PartsType' /\ Parts' = Parts \o DeltaParts(block, Len(given'))
  BY <1>1, <1>4, <1>5, Enqueued DEF Parts
<1>7. TypeOK'
  BY <1>4, <1>5, <1>6, ReadsTyped DEF Reads
<1>8. Counted'
  BY <1>4, ReadsCount
<1>9. InStep'
  <2>1. Clear(Parts', open', seqs') /\ pump' = "reading"
    BY <1>4, <1>5, <1>6 DEF Reads
  <2> QED
    BY <2>1 DEF InStep, Clear
<1> QED
  BY <1>7, <1>8, <1>9 DEF StreamInv

\* The block that is open ends, or none is.
LEMMA CloseKeeps ==
    ASSUME StreamInv, NEW event \in EventKinds, Reads(event), stream = "readable",
           Enqueue(CloseBlock), open' = NoBlock, UNCHANGED <<seqs, stream>>,
           run' \in {run, "released"},
           \/ pump' = "reading" /\ caught' = caught
           \/ pump' = "leaving" /\ caught' = "other"
    PROVE  StreamInv'
<1>1. PartsType /\ Parts \in Seq(PartType) /\ open \in OpenType /\ seqs \in SeqsType
  BY Typed DEF StreamInv
<1>2. Clear(Parts, open, seqs)
  BY DEF StreamInv, InStep, Reads
<1>3. CloseBlock \in Seq(PartType) /\ Clear(Parts \o CloseBlock, NoBlock, seqs)
  BY <1>1, <1>2, CloseClear
<1>4. PartsType' /\ Parts' = Parts \o CloseBlock
  BY <1>1, <1>3, Enqueued DEF Parts
<1>5. open' \in OpenType
  BY DEF OpenType
<1>6. TypeOK'
  BY <1>1, <1>4, <1>5, ReadsTyped
<1>7. Counted'
  BY ReadsCount
<1>8. Clear(Parts', open', seqs')
  BY <1>3, <1>4
<1>9. InStep'
  BY <1>8 DEF InStep, Clear
<1> QED
  BY <1>6, <1>7, <1>9 DEF StreamInv

LEMMA FinishKeeps ==
    ASSUME StreamInv, NEW event \in EventKinds, Reads(event), stream = "readable",
           NEW parts \in Seq(PartType), Len(parts) \in {0, 2},
           \A i \in DOMAIN parts : parts[i].type \notin {"start", "delta", "end", "finish"},
           Finish(parts), run' \in {run, "released"}
    PROVE  StreamInv'
<1>1. PartsType /\ Parts \in Seq(PartType) /\ open \in OpenType /\ seqs \in SeqsType
  BY Typed DEF StreamInv
<1>2. Clear(Parts, open, seqs)
  BY DEF StreamInv, InStep, Reads
<1> DEFINE all == CloseBlock \o parts \o <<Plain("finish")>>
<1>3. all \in Seq(PartType) /\ WellFormed(Parts \o all)
  BY <1>1, <1>2, FinishParts
<1>4. /\ Enqueue(all) /\ open' = NoBlock /\ pump' = "leaving" /\ caught' = "break"
      /\ UNCHANGED <<seqs, stream>>
  BY DEF Finish
<1>5. PartsType' /\ Parts' = Parts \o all
  BY <1>1, <1>3, <1>4, Enqueued DEF Parts
<1>6. open' \in OpenType
  BY <1>4 DEF OpenType
<1>7. TypeOK'
  BY <1>1, <1>4, <1>5, <1>6, ReadsTyped
<1>8. Counted'
  BY <1>4, ReadsCount
<1>9. InStep'
  BY <1>3, <1>4, <1>5 DEF InStep
<1> QED
  BY <1>7, <1>8, <1>9 DEF StreamInv

\* Nothing is enqueued, and the loop goes on or is left by an error.
LEMMA SilentKeeps ==
    ASSUME StreamInv, NEW event \in EventKinds, Reads(event),
           UNCHANGED <<run, open, seqs, stream, seen, queue, asked>>,
           \/ pump' = "reading" /\ caught' = caught
           \/ pump' = "leaving" /\ caught' \in {"cancelled", "other"}
    PROVE  StreamInv'
<1>1. PartsType /\ open \in OpenType /\ seqs \in SeqsType
  BY Typed DEF StreamInv
<1>2. PartsType' /\ Parts' = Parts
  BY <1>1 DEF PartsType, Parts
<1>3. TypeOK'
  BY <1>1, <1>2, ReadsTyped
<1>4. Counted'
  BY ReadsCount
<1>5. InStep'
  BY <1>2 DEF StreamInv, InStep, Clear, Reads
<1> QED
  BY <1>3, <1>4, <1>5 DEF StreamInv

LEMMA ToolParts ==
    ASSUME NEW event \in 0..MaxEvents
    PROVE  LET parts == <<Plain("tool-input"), Part("tool-call", "none", 0, event)>>
           IN  /\ parts \in Seq(PartType) /\ Len(parts) \in {0, 2}
               /\ \A i \in DOMAIN parts :
                     parts[i].type \notin {"start", "delta", "end", "finish"}
<1> DEFINE t == Plain("tool-input")
           c == Part("tool-call", "none", 0, event)
<1>1. t \in PartType /\ t.type = "tool-input"
  BY PlainTyped DEF PartKinds
<1>2. c \in PartType /\ c.type = "tool-call"
  BY PartTyped, MaxEventsAssumption DEF PartKinds
<1> HIDE DEF t, c
<1>3. <<t, c>> \in Seq(PartType) /\ Len(<<t, c>>) = 2
  <2> HIDE DEF PartType
  <2> QED
    BY <1>1, <1>2
<1>4. \A i \in DOMAIN <<t, c>> : <<t, c>>[i].type \notin {"start", "delta", "end", "finish"}
  BY <1>1, <1>2
<1> QED
  BY <1>3, <1>4 DEF t, c

LEMMA ApplyKeeps ==
    ASSUME StreamInv, NEW event \in EventKinds, Reads(event),
           stream = "readable" \/ Silent(event), Apply(event, Len(given'))
    PROVE  StreamInv'
<1>1. CASE event = "text"
  BY <1>1, DeltaKeeps DEF Apply, Silent, Blocks
<1>2. CASE event = "thinking"
  BY <1>2, DeltaKeeps DEF Apply, Silent, Blocks
<1>3. CASE event = "thought"
  <2>1. /\ Enqueue(IF open.type = "reasoning" THEN CloseBlock ELSE <<>>)
        /\ open' = IF open.type = "reasoning" THEN NoBlock ELSE open
        /\ UNCHANGED <<pump, run, seqs, caught, stream>>
    BY <1>3 DEF Apply
  <2>2. CASE open.type = "reasoning"
    BY <1>3, <2>1, <2>2, CloseKeeps DEF Silent, Reads
  <2>3. CASE open.type # "reasoning"
    <3>1. PartsType /\ Enqueue(<<>>) /\ open' = open
      BY <2>1, <2>3, Typed DEF StreamInv
    <3>2. queue' = queue /\ UNCHANGED <<seen, asked>>
      BY <3>1, ConcatEmptySeq DEF Enqueue, PartsType
    <3> QED
      BY <2>1, <3>1, <3>2, SilentKeeps DEF Reads
  <2> QED
    BY <2>2, <2>3
<1>4. CASE event = "ended"
  <2>1. Finish(<<>>) /\ run' = run /\ stream = "readable"
    BY <1>4 DEF Apply, Silent
  <2>2. <<>> \in Seq(PartType) /\ Len(<<>>) = 0 /\ DOMAIN <<>> = {}
    <3> HIDE DEF PartType
    <3> QED
      OBVIOUS
  <2> QED
    BY <2>1, <2>2, FinishKeeps
<1>5. CASE event = "tool"
  <2>1. /\ Finish(<<Plain("tool-input"), Part("tool-call", "none", 0, Len(given'))>>)
        /\ run' = "released" /\ stream = "readable"
    BY <1>5 DEF Apply, Silent
  <2>2. Len(given') \in 0..MaxEvents
    BY ReadsCount
  <2> QED
    BY <2>1, <2>2, ToolParts, FinishKeeps
<1>6. CASE event = "stranger"
  BY <1>6, CloseKeeps DEF Apply, Silent
<1>7. CASE event = "other"
  BY <1>7, SilentKeeps DEF Apply, Reads
<1> QED
  BY <1>1, <1>2, <1>3, <1>4, <1>5, <1>6, <1>7 DEF EventKinds

LEMMA ReadEventKeeps == ASSUME StreamInv, ReadEvent PROVE StreamInv'
<1> PICK event \in EventKinds :
      /\ given' = Append(given, event)
      /\ IF aborted THEN Throw("cancelled")
         ELSE IF stream # "readable" /\ ~Silent(event) THEN Throw("other")
         ELSE Apply(event, Len(given'))
  BY DEF ReadEvent
<1>1. Reads(event)
  BY DEF ReadEvent, Reads
<1>2. ASSUME NEW error \in {"cancelled", "other"}, Throw(error) PROVE StreamInv'
  BY <1>1, <1>2, SilentKeeps DEF Throw
<1> QED
  BY <1>1, <1>2, ApplyKeeps

\* The stream is closed, now or when its queue has been read.
LEMMA Closes ==
    ASSUME PartsType, NEW parts \in Seq(PartType), EnqueueAndClose(parts)
    PROVE  /\ PartsType' /\ seen' \o queue' = Parts \o parts
           /\ stream' \in {"closed", "closing"}
  BY Enqueued DEF EnqueueAndClose

LEMMA LeftKeeps == ASSUME StreamInv, Left PROVE StreamInv'
<1>0. /\ pump = "leaving"
      /\ UNCHANGED <<reader, aborted, given, open, seqs, caught, outcome>>
  BY DEF Left
<1>1. CASE caught = "break"
  <2>1. /\ pump' = "over" /\ run' = "released"
        /\ IF stream = "readable" THEN EnqueueAndClose(<<>>) ELSE UNCHANGED streamVars
    BY <1>1 DEF Left
  <2>2. PartsType /\ WellFormed(Parts) /\ Parts \in Seq(PartType)
    BY Typed DEF StreamInv, InStep
  <2>3. <<>> \in Seq(PartType)
    <3> HIDE DEF PartType
    <3> QED
      OBVIOUS
  <2>4. PartsType' /\ Parts' = Parts /\ stream' \in {stream, "closed", "closing"}
    <3>1. CASE stream = "readable"
      BY <2>1, <2>2, <2>3, <3>1, Closes, ConcatEmptySeq DEF Parts
    <3>2. CASE stream # "readable"
      BY <2>1, <2>2, <3>2 DEF PartsType, Parts
    <3> QED
      BY <3>1, <3>2
  <2>5. TypeOK'
    BY <1>0, <2>1, <2>4 DEF StreamInv, TypeOK, PartsType
  <2>6. Counted' /\ InStep'
    BY <1>0, <2>1, <2>2, <2>4 DEF StreamInv, Counted, InStep
  <2> QED
    BY <2>5, <2>6 DEF StreamInv
<1>2. CASE caught # "break" /\ Fail(caught)
  <2>1. caught \in {"cancelled", "other"}
    BY <1>0, <1>2 DEF StreamInv, TypeOK, InStep
  <2>2. stream = "readable" => Unfinished(Parts)
    BY <1>0, <1>2 DEF StreamInv, InStep
  <2> QED
    BY <1>0, <1>2, <2>1, <2>2, FailKeeps
<1> QED
  BY <1>1, <1>2 DEF Left

LEMMA TurnEndMissingKeeps == ASSUME StreamInv, TurnEndMissing PROVE StreamInv'
<1>0. /\ pump = "reading"
      /\ UNCHANGED <<reader, aborted, given, seqs, caught, outcome>>
  BY DEF TurnEndMissing
<1>1. CASE aborted \/ stream # "readable"
  <2>1. Fail("other") /\ open' = open
    BY <1>1 DEF TurnEndMissing
  <2>2. stream = "readable" => Unfinished(Parts)
    BY <1>0 DEF StreamInv, InStep, Clear
  <2> QED
    BY <1>0, <2>1, <2>2, FailKeeps
<1>2. CASE ~aborted /\ stream = "readable"
  <2> DEFINE all == CloseBlock \o <<Plain("finish")>>
  <2>1. EnqueueAndClose(all) /\ open' = NoBlock /\ pump' = "over" /\ run' = "released"
    BY <1>2 DEF TurnEndMissing
  <2>2. /\ PartsType /\ Parts \in Seq(PartType) /\ open \in OpenType /\ seqs \in SeqsType
        /\ Clear(Parts, open, seqs)
    BY <1>0, <1>2, Typed DEF StreamInv, InStep
  <2>3. all \in Seq(PartType) /\ WellFormed(Parts \o all)
    <3>1. <<>> \in Seq(PartType) /\ Len(<<>>) = 0 /\ DOMAIN <<>> = {}
      <4> HIDE DEF PartType
      <4> QED
        OBVIOUS
    <3>2. CloseBlock \in Seq(PartType)
      BY <2>2, CloseClear
    <3>3. CloseBlock \o <<>> = CloseBlock
      BY <3>2, ConcatEmptySeq
    <3>4. /\ CloseBlock \o <<>> \o <<Plain("finish")>> \in Seq(PartType)
          /\ WellFormed(Parts \o (CloseBlock \o <<>> \o <<Plain("finish")>>))
      BY <2>2, <3>1, FinishParts
    <3> QED
      BY <3>3, <3>4
  <2>4. PartsType' /\ Parts' = Parts \o all /\ stream' \in {"closed", "closing"}
    BY <2>1, <2>2, <2>3, Closes DEF Parts
  <2>5. open' \in OpenType
    BY <2>1 DEF OpenType
  <2>6. TypeOK'
    BY <1>0, <2>1, <2>4, <2>5 DEF StreamInv, TypeOK, PartsType, OpenType
  <2>7. Counted' /\ InStep'
    BY <1>0, <2>1, <2>3, <2>4 DEF StreamInv, Counted, InStep
  <2> QED
    BY <2>6, <2>7 DEF StreamInv
<1> QED
  BY <1>1, <1>2

LEMMA RunFailsKeeps == ASSUME StreamInv, RunFails PROVE StreamInv'
<1>1. PICK error \in {"cancelled", "other"} : Fail(error)
  BY DEF RunFails
<1>2. /\ pump = "reading"
      /\ UNCHANGED <<reader, aborted, given, open, seqs, caught, outcome>>
  BY DEF RunFails
<1>3. stream = "readable" => Unfinished(Parts)
  BY <1>2 DEF StreamInv, InStep, Clear
<1> QED
  BY <1>1, <1>2, <1>3, FailKeeps

-----------------------------------------------------------------------------
(* OpenCode: the reader, and the caller's signal.                          *)

LEMMA RefusedKeeps == ASSUME StreamInv, RunRefused PROVE StreamInv'
<1>1. /\ pump' = "over" /\ outcome' \in {"cancelled", "other"}
      /\ UNCHANGED <<reader, aborted, run, given, open, seqs, caught, streamVars>>
  BY DEF RunRefused, Normalized
<1>2. TypeOK'
  BY <1>1 DEF StreamInv, TypeOK
<1>3. Counted' /\ InStep'
  BY <1>1 DEF StreamInv, Counted, InStep, Parts
<1> QED
  BY <1>2, <1>3 DEF StreamInv

LEMMA AbortKeeps == ASSUME StreamInv, Abort PROVE StreamInv'
<1>1. /\ aborted' = TRUE /\ run' \in {run, "released"}
      /\ UNCHANGED <<reader, pump, given, open, seqs, caught, streamVars, outcome>>
  BY DEF Abort
<1>2. TypeOK'
  BY <1>1 DEF StreamInv, TypeOK
<1>3. Counted' /\ InStep'
  BY <1>1 DEF StreamInv, Counted, InStep, Parts, Fresh
<1> QED
  BY <1>2, <1>3 DEF StreamInv

LEMMA AskKeeps == ASSUME StreamInv, Ask PROVE StreamInv'
<1>1. /\ stream = "readable" /\ queue = <<>> /\ asked' = TRUE
      /\ UNCHANGED <<reader, aborted, pumpVars, stream, queue, seen, outcome>>
  BY DEF Ask
<1>2. TypeOK'
  BY <1>1 DEF StreamInv, TypeOK
<1>3. Counted' /\ InStep'
  BY <1>1 DEF StreamInv, Counted, InStep, Parts, Fresh
<1> QED
  BY <1>2, <1>3 DEF StreamInv

LEMMA ReadKeeps == ASSUME StreamInv, Read PROVE StreamInv'
<1>1. /\ queue # <<>> /\ seen' = Append(seen, Head(queue)) /\ queue' = Tail(queue)
      /\ stream' \in {stream, "closed"}
      /\ UNCHANGED <<reader, aborted, pumpVars, asked, outcome>>
  BY DEF Read
<1>2. PartsType
  BY Typed DEF StreamInv
<1>3. PartsType' /\ Parts' = Parts
  BY <1>1, <1>2, Moved DEF PartsType, Parts
<1>4. TypeOK'
  BY <1>1, <1>3 DEF StreamInv, TypeOK, PartsType
<1>5. Counted' /\ InStep'
  BY <1>1, <1>3 DEF StreamInv, Counted, InStep, Fresh
<1> QED
  BY <1>4, <1>5 DEF StreamInv

LEMMA ReadEndKeeps == ASSUME StreamInv, ReadEnd PROVE StreamInv'
<1>1. /\ outcome' \in {"finished", "cancelled", "other"} /\ asked' = FALSE /\ queue = <<>>
      /\ stream \in {"closed", "cancelled", "other"}
      /\ UNCHANGED <<reader, aborted, pumpVars, stream, queue, seen>>
  BY DEF ReadEnd
<1>2. TypeOK'
  <2>1. TypeOK
    BY DEF StreamInv
  <2>2. PartsType'
    BY <1>1, <2>1, Typed DEF PartsType
  <2>3. outcome' \in {"none", "finished", "cancelled", "other", "left"}
    BY <1>1
  <2> QED
    BY <1>1, <2>1, <2>2, <2>3 DEF TypeOK, PartsType
<1>3. Counted' /\ InStep'
  BY <1>1 DEF StreamInv, Counted, InStep, Parts, Fresh
<1> QED
  BY <1>2, <1>3 DEF StreamInv

LEMMA CancelKeeps == ASSUME StreamInv, Cancel PROVE StreamInv'
<1>1. /\ stream' = "closed" /\ queue' = <<>> /\ asked' = FALSE
      /\ run' = "released" /\ outcome' = "left" /\ stream # "none"
      /\ UNCHANGED <<reader, aborted, pump, given, open, seqs, caught, seen>>
  BY DEF Cancel
<1>2. PartsType /\ WellFormed(Parts)
  BY Typed DEF StreamInv, InStep
<1>3. Parts' = seen /\ WellFormed(seen) /\ <<>> \in Seq(PartType)
  <2>1. Parts' = seen \o <<>>
    BY <1>1 DEF Parts
  <2>2. <<>> \in Seq(PartType)
    <3> HIDE DEF PartType
    <3> QED
      OBVIOUS
  <2> QED
    BY <1>2, <2>1, <2>2, SeenSound, ConcatEmptySeq DEF PartsType
<1>4. TypeOK'
  BY <1>1, <1>3 DEF StreamInv, TypeOK
<1>5. Counted' /\ InStep'
  BY <1>1, <1>3 DEF StreamInv, Counted, InStep, Fresh
<1> QED
  BY <1>4, <1>5 DEF StreamInv

LEMMA StreamNext == ASSUME StreamInv, [Next]_vars PROVE StreamInv'
<1>1. CASE UNCHANGED vars
  BY <1>1 DEF vars, StreamInv, TypeOK, Counted, InStep, Parts, Fresh
<1>2. CASE Next
  BY <1>2, OpensKeeps, RefusedKeeps, ReadEventKeeps, LeftKeeps, TurnEndMissingKeeps,
     RunFailsKeeps, AbortKeeps, AskKeeps, ReadKeeps, ReadEndKeeps, CancelKeeps DEF Next
<1> QED
  BY <1>1, <1>2

\* The inductive invariant holds in every reachable state.
THEOREM StreamInvariance == Spec => []StreamInv
<1> QED
  BY StreamInit, StreamNext, PTL DEF Spec

\* Every state of a generate is of its type.
THEOREM StreamTypeCorrect == Spec => []TypeOK
<1>1. StreamInv => TypeOK
  BY DEF StreamInv
<1> QED
  BY <1>1, StreamInvariance, PTL

\* Whatever the run gives, in whatever order, and wherever it, the caller or
\* the reader ends it: the stream of parts is well formed.
THEOREM PartsWellFormedHolds == Spec => []PartsWellFormed
<1>1. StreamInv => PartsWellFormed
  BY DEF StreamInv, InStep, PartsWellFormed
<1> QED
  BY <1>1, StreamInvariance, PTL

-----------------------------------------------------------------------------
(* OpenCode: what the reader has been told, in every state.                *)

\* While the loop runs on a stream that takes parts, they tell of every event;
\* a stream with its finish tells of them all, whatever became of the loop.
ToldInv ==
    /\ pump = "reading" => Unfinished(Parts)
    /\ stream = "readable" /\ pump = "reading" => Told(Parts, given, open)
    /\ Unfinished(Parts) \/ Told(Parts, given, NoBlock)
    /\ outcome = "finished" => stream = "closed" /\ queue = <<>> /\ ~Unfinished(seen)

AllInv == StreamInv /\ ToldInv

LEMMA ToldInit == ASSUME Init PROVE ToldInv
<1>1. Parts = <<>>
  BY DEF Init, Parts
<1>2. Unfinished(Parts)
  BY <1>1 DEF Unfinished
<1> QED
  BY <1>2 DEF Init, ToldInv

LEMMA ReadingOn == ASSUME AllInv, pump = "reading" PROVE outcome # "finished"
<1>1. Unfinished(Parts)
  BY DEF AllInv, ToldInv
<1>2. ASSUME outcome = "finished" PROVE FALSE
  <2>1. queue = <<>> /\ ~Unfinished(seen)
    BY <1>2 DEF AllInv, ToldInv
  <2>2. Parts = seen
    BY <2>1, Typed, ConcatEmptySeq DEF AllInv, StreamInv, Parts, PartsType
  <2> QED
    BY <1>1, <2>1, <2>2
<1> QED
  BY <1>2

\* The parts stay, and nothing begins or goes on.
LEMMA PartsStay ==
    ASSUME ToldInv, Parts' = Parts, given' = given,
           pump' = "reading" => pump = "reading" /\ stream' = stream /\ open' = open,
           outcome' = "finished" => outcome = "finished" /\ UNCHANGED <<stream, queue, seen>>
    PROVE  ToldInv'
<1>1. pump' = "reading" => Unfinished(Parts')
  BY DEF ToldInv
<1>2. stream' = "readable" /\ pump' = "reading" => Told(Parts', given', open')
  BY DEF ToldInv
<1>3. Unfinished(Parts') \/ Told(Parts', given', NoBlock)
  BY DEF ToldInv
<1>4. outcome' = "finished" => stream' = "closed" /\ queue' = <<>> /\ ~Unfinished(seen')
  BY DEF ToldInv
<1> QED
  BY <1>1, <1>2, <1>3, <1>4 DEF ToldInv

\* The stream will have no finish.
LEMMA CutShort ==
    ASSUME Unfinished(Parts'), outcome' # "finished",
           ~(stream' = "readable" /\ pump' = "reading")
    PROVE  ToldInv'
  BY DEF ToldInv

LEMMA UnfinishedStart ==
    ASSUME NEW s \in Seq(PartType), NEW t \in Seq(PartType), Unfinished(s \o t)
    PROVE  Unfinished(s)
<1> DEFINE r == s \o t
<1>1. \A i \in DOMAIN s : i \in DOMAIN r /\ r[i] = s[i]
  OBVIOUS
<1>2. Unfinished(r)
  OBVIOUS
<1> HIDE DEF r
<1> QED
  BY <1>1, <1>2 DEF Unfinished

\* A stream that fails has no finish, unless it was closed with one before.
LEMMA FailTold ==
    ASSUME AllInv, NEW error \in {"cancelled", "other"}, Fail(error),
           stream = "readable" => Unfinished(Parts),
           UNCHANGED <<given, outcome>>
    PROVE  ToldInv'
<1>1. pump' = "over" /\ ErrorStream(Normalized(error), TRUE)
  BY DEF Fail
<1>2. PartsType
  BY Typed DEF AllInv, StreamInv
<1>3. CASE stream # "readable"
  <2>1. UNCHANGED streamVars
    BY <1>1, <1>3 DEF ErrorStream
  <2> QED
    BY <1>1, <2>1, PartsStay DEF AllInv, Parts
<1>4. CASE stream = "readable"
  <2>1. queue' = <<>> /\ seen' = IF asked THEN Append(seen, Plain("error")) ELSE seen
    BY <1>1, <1>4 DEF ErrorStream
  <2>2. Unfinished(seen)
    BY <1>2, <1>4, UnfinishedStart DEF PartsType, Parts
  <2>3. Plain("error") \in PartType /\ Plain("error").type = "error"
    BY PlainTyped DEF PartKinds
  <2>4. Unfinished(seen') /\ seen' \in Seq(PartType)
    <3>1. CASE asked
      <4>1. /\ DOMAIN seen' = 1..(Len(seen) + 1) /\ seen'[Len(seen) + 1] = Plain("error")
            /\ \A i \in 1..Len(seen) : seen'[i] = seen[i]
            /\ DOMAIN seen = 1..Len(seen) /\ Len(seen) \in Nat /\ seen' \in Seq(PartType)
        BY <1>2, <2>1, <2>3, <3>1, AppendAt DEF PartsType
      <4> QED
        BY <2>2, <2>3, <4>1 DEF Unfinished
    <3>2. CASE ~asked
      BY <1>2, <2>1, <2>2, <3>2 DEF PartsType
    <3> QED
      BY <3>1, <3>2
  <2>5. Parts' = seen'
    BY <2>1, <2>4, ConcatEmptySeq DEF Parts
  <2>6. outcome' # "finished"
    BY <1>4 DEF AllInv, ToldInv
  <2> QED
    BY <1>1, <2>4, <2>5, <2>6, CutShort
<1> QED
  BY <1>3, <1>4

LEMMA OpensTold == ASSUME AllInv, RunOpens PROVE ToldInv'
<1>1. /\ pump = "opening" /\ Fresh
      /\ UNCHANGED <<reader, aborted, given, open, seqs, caught, outcome>>
  BY DEF RunOpens, AllInv, StreamInv, InStep
<1>2. outcome # "finished" /\ given \in Seq(EventKinds)
  BY <1>1 DEF AllInv, ToldInv, Fresh, StreamInv, TypeOK
<1>3. PartsType /\ Parts = <<>> /\ Unfinished(Parts)
  BY <1>1, Typed DEF AllInv, StreamInv, Fresh, Parts, Unfinished
<1>4. CASE aborted
  <2>1. pump' = "over" /\ UNCHANGED <<queue, seen>>
    BY <1>4 DEF RunOpens
  <2>2. Parts' = Parts
    BY <2>1 DEF Parts
  <2> QED
    BY <1>1, <1>2, <1>3, <2>1, <2>2, CutShort
<1>5. CASE ~aborted
  <2> DEFINE x == Plain("stream-start")
  <2>1. pump' = "reading" /\ stream' = "readable" /\ Enqueue(<<x>>)
    BY <1>5 DEF RunOpens
  <2>2. x \in PartType /\ x.type = "stream-start"
    BY PlainTyped DEF PartKinds
  <2> HIDE DEF x
  <2>3. <<>> \in Seq(PartType) /\ <<x>> \in Seq(PartType) /\ <<>> \o <<x>> = Append(<<>>, x)
    <3> HIDE DEF PartType
    <3> QED
      BY <2>2
  <2>4. Parts' = Append(<<>>, x)
    BY <1>3, <2>1, <2>3, Enqueued DEF Parts
  <2>5. Unfinished(Append(<<>>, x))
    BY <2>2, <2>3, AppendAt DEF Unfinished
  <2>6. Contents(<<>>) = {}
    BY DEF Contents
  <2>7. given = <<>>
    BY <1>1 DEF AllInv, StreamInv, InStep, Fresh
  <2>8. Told(<<>>, given, NoBlock)
    BY <2>6, <2>7 DEF Told, ToldEvents, ToldEnds
  <2>9. Told(Append(<<>>, x), given, NoBlock)
    BY <1>2, <2>2, <2>3, <2>8, EventsKept, EndsKept DEF Told
  <2>10. Told(Parts', given', NoBlock) /\ open' = NoBlock
    BY <1>1, <2>4, <2>9 DEF Fresh
  <2> QED
    BY <1>1, <1>2, <2>1, <2>4, <2>5, <2>10 DEF ToldInv
<1> QED
  BY <1>4, <1>5

\* The loop reads an event that the content does not want.
LEMMA Skipped ==
    ASSUME AllInv, NEW event \in EventKinds, Reads(event), event \notin Wanted, stream = "readable"
    PROVE  Told(Parts, given', open) /\ given' \in Seq(EventKinds)
<1>1. given \in Seq(EventKinds) /\ Parts \in Seq(PartType)
  BY Typed DEF AllInv, StreamInv, TypeOK
<1>2. Told(Parts, given, open) /\ given' = Append(given, event)
  BY DEF AllInv, ToldInv, Reads
<1> QED
  BY <1>1, <1>2, EventsSkip, EventAppended DEF Told

\* Nothing is enqueued: an event that gives no part, or one that is not taken.
LEMMA SilentTold ==
    ASSUME AllInv, NEW event \in EventKinds, Reads(event),
           UNCHANGED <<open, stream, seen, queue>>,
           \/ pump' = "reading" /\ (stream = "readable" => event \notin Wanted)
           \/ pump' = "leaving"
    PROVE  ToldInv'
<1>1. pump = "reading" /\ outcome' # "finished"
  BY ReadingOn DEF Reads
<1>2. Parts' = Parts /\ Unfinished(Parts)
  BY <1>1 DEF AllInv, ToldInv, Parts
<1>3. stream' = "readable" /\ pump' = "reading" => Told(Parts', given', open')
  BY <1>2, Skipped
<1> QED
  BY <1>1, <1>2, <1>3 DEF ToldInv

LEMMA DeltaTold ==
    ASSUME AllInv, NEW event \in Wanted, Reads(event), stream = "readable",
           NEW block \in Blocks, Delta(block, Len(given'))
    PROVE  ToldInv'
<1>1. /\ PartsType /\ Parts \in Seq(PartType) /\ open \in OpenType /\ seqs \in SeqsType
      /\ given \in Seq(EventKinds) /\ event \in EventKinds
  BY Typed DEF AllInv, StreamInv, TypeOK, Wanted, EventKinds
<1>2. Clear(Parts, open, seqs) /\ Told(Parts, given, open) /\ outcome' # "finished"
  BY ReadingOn DEF AllInv, StreamInv, InStep, ToldInv, Reads
<1>3. /\ Len(given') \in 0..MaxEvents /\ seqs[block] < MaxEvents
      /\ Len(given') = Len(given) + 1 /\ given' = Append(given, event)
  BY <1>1, ReadsCount DEF AllInv, Reads
<1>4. /\ Enqueue(DeltaParts(block, Len(given'))) /\ open' = OpenAfter(block)
      /\ UNCHANGED <<pump, stream>>
  BY DEF Delta, DeltaParts, OpenAfter
<1>5. /\ DeltaParts(block, Len(given')) \in Seq(PartType)
      /\ Clear(Parts \o DeltaParts(block, Len(given')), OpenAfter(block), SeqsAfter(block))
  BY <1>1, <1>2, <1>3, DeltasClear
<1>6. Parts' = Parts \o DeltaParts(block, Len(given'))
  BY <1>1, <1>4, <1>5, Enqueued DEF Parts
<1>7. Told(Parts', given', open')
  BY <1>1, <1>2, <1>3, <1>4, <1>6, DeltasTold
<1>8. Unfinished(Parts')
  BY <1>5, <1>6 DEF Clear
<1> QED
  BY <1>2, <1>4, <1>7, <1>8 DEF ToldInv

LEMMA CloseToldInv ==
    ASSUME AllInv, NEW event \in EventKinds, Reads(event), stream = "readable",
           event \notin Wanted, Enqueue(CloseBlock), open' = NoBlock, stream' = stream
    PROVE  ToldInv'
<1>1. PartsType /\ Parts \in Seq(PartType) /\ open \in OpenType /\ seqs \in SeqsType
  BY Typed DEF AllInv, StreamInv
<1>2. Clear(Parts, open, seqs) /\ outcome' # "finished"
  BY ReadingOn DEF AllInv, StreamInv, InStep, Reads
<1>3. Told(Parts, given', open) /\ given' \in Seq(EventKinds)
  BY Skipped
<1>4. /\ CloseBlock \in Seq(PartType) /\ Clear(Parts \o CloseBlock, NoBlock, seqs)
      /\ Told(Parts \o CloseBlock, given', NoBlock)
  BY <1>1, <1>2, <1>3, CloseClear, CloseTold
<1>5. Parts' = Parts \o CloseBlock
  BY <1>1, <1>4, Enqueued DEF Parts
<1>6. Told(Parts', given', open') /\ Unfinished(Parts')
  BY <1>4, <1>5 DEF Clear
<1> QED
  BY <1>2, <1>6 DEF ToldInv

\* A finish follows the parts of all the events.
LEMMA FinishedTold ==
    ASSUME outcome' # "finished", pump' # "reading", Told(Parts', given', NoBlock)
    PROVE  ToldInv'
  BY DEF ToldInv

LEMMA EndedTold ==
    ASSUME AllInv, Reads("ended"), stream = "readable", Finish(<<>>)
    PROVE  ToldInv'
<1>1. PartsType /\ Parts \in Seq(PartType) /\ open \in OpenType /\ seqs \in SeqsType
  BY Typed DEF AllInv, StreamInv
<1>2. Clear(Parts, open, seqs) /\ outcome' # "finished"
  BY ReadingOn DEF AllInv, StreamInv, InStep, Reads
<1>3. Told(Parts, given', open) /\ given' \in Seq(EventKinds)
  BY Skipped DEF Wanted, EventKinds
<1> DEFINE all == CloseBlock \o <<>> \o <<Plain("finish")>>
<1>4. <<>> \in Seq(PartType) /\ Len(<<>>) = 0 /\ DOMAIN <<>> = {}
  <2> HIDE DEF PartType
  <2> QED
    OBVIOUS
<1>5. all \in Seq(PartType)
  BY <1>1, <1>2, <1>4, FinishParts
<1>6. Told(Parts \o all, given', NoBlock)
  BY <1>1, <1>2, <1>3, <1>4, FinishTold
<1>7. Enqueue(all) /\ pump' = "leaving"
  BY DEF Finish
<1>8. Parts' = Parts \o all
  BY <1>1, <1>5, <1>7, Enqueued DEF Parts
<1> QED
  BY <1>2, <1>6, <1>7, <1>8, FinishedTold

LEMMA ToolTold ==
    ASSUME AllInv, Reads("tool"), stream = "readable",
           Finish(<<Plain("tool-input"), Part("tool-call", "none", 0, Len(given'))>>)
    PROVE  ToldInv'
<1>1. /\ PartsType /\ Parts \in Seq(PartType) /\ open \in OpenType /\ seqs \in SeqsType
      /\ given \in Seq(EventKinds) /\ "tool" \in EventKinds
  BY Typed DEF AllInv, StreamInv, TypeOK, EventKinds
<1>2. Clear(Parts, open, seqs) /\ Told(Parts, given, open) /\ outcome' # "finished"
  BY ReadingOn DEF AllInv, StreamInv, InStep, ToldInv, Reads
<1>3. /\ Len(given') \in 0..MaxEvents /\ Len(given') = Len(given) + 1
      /\ given' = Append(given, "tool")
  BY <1>1, ReadsCount DEF AllInv, Reads
<1> DEFINE t == Plain("tool-input")
           c == Part("tool-call", "none", 0, Len(given'))
           parts == <<t, c>>
           all == CloseBlock \o parts \o <<Plain("finish")>>
<1>4. t.type = "tool-input" /\ c.type = "tool-call" /\ c.event = Len(given) + 1
  <2>1. t.type = "tool-input"
    BY PlainTyped DEF PartKinds
  <2>2. c.type = "tool-call" /\ c.event = Len(given')
    BY DEF Part
  <2> QED
    BY <1>3, <2>1, <2>2
<1>5. /\ parts \in Seq(PartType) /\ Len(parts) \in {0, 2}
      /\ \A i \in DOMAIN parts : parts[i].type \notin {"start", "delta", "end", "finish"}
  BY <1>3, ToolParts
<1>6. Enqueue(all) /\ pump' = "leaving"
  BY DEF Finish
<1>7. Len(parts) = 2 /\ parts[1] = t /\ parts[2] = c
  OBVIOUS
<1> HIDE DEF t, c, parts
<1>8. all \in Seq(PartType)
  BY <1>1, <1>2, <1>5, FinishParts
<1>9. Told(Parts \o all, given', NoBlock)
  BY <1>1, <1>2, <1>3, <1>4, <1>5, <1>7, FinishTold
<1>10. Parts' = Parts \o all
  BY <1>1, <1>6, <1>8, Enqueued DEF Parts
<1> QED
  BY <1>2, <1>6, <1>9, <1>10, FinishedTold

LEMMA ApplyTold ==
    ASSUME AllInv, NEW event \in EventKinds, Reads(event),
           stream = "readable" \/ Silent(event), Apply(event, Len(given'))
    PROVE  ToldInv'
<1>1. CASE event \in {"text", "thinking"}
  BY <1>1, DeltaTold DEF Apply, Silent, Blocks, Wanted
<1>2. CASE event = "thought"
  <2>1. /\ Enqueue(IF open.type = "reasoning" THEN CloseBlock ELSE <<>>)
        /\ open' = IF open.type = "reasoning" THEN NoBlock ELSE open
        /\ UNCHANGED <<pump, stream>> /\ event \notin Wanted
    BY <1>2 DEF Apply, Wanted
  <2>2. CASE open.type = "reasoning"
    BY <1>2, <2>1, <2>2, CloseToldInv DEF Silent
  <2>3. CASE open.type # "reasoning"
    <3>1. PartsType /\ Enqueue(<<>>) /\ open' = open
      BY <2>1, <2>3, Typed DEF AllInv, StreamInv
    <3>2. queue' = queue /\ seen' = seen
      BY <3>1, ConcatEmptySeq DEF Enqueue, PartsType
    <3> QED
      BY <2>1, <3>1, <3>2, SilentTold DEF Reads
  <2> QED
    BY <2>2, <2>3
<1>3. CASE event = "ended"
  BY <1>3, EndedTold DEF Apply, Silent
<1>4. CASE event = "tool"
  BY <1>4, ToolTold DEF Apply, Silent
<1>5. CASE event = "stranger"
  BY <1>5, CloseToldInv DEF Apply, Silent, Wanted
<1>6. CASE event = "other"
  BY <1>6, SilentTold DEF Apply, Reads, Wanted
<1> QED
  BY <1>1, <1>2, <1>3, <1>4, <1>5, <1>6 DEF EventKinds

LEMMA ReadEventTold == ASSUME AllInv, ReadEvent PROVE ToldInv'
<1> PICK event \in EventKinds :
      /\ given' = Append(given, event)
      /\ IF aborted THEN Throw("cancelled")
         ELSE IF stream # "readable" /\ ~Silent(event) THEN Throw("other")
         ELSE Apply(event, Len(given'))
  BY DEF ReadEvent
<1>1. Reads(event)
  BY DEF ReadEvent, Reads
<1>2. ASSUME NEW error \in {"cancelled", "other"}, Throw(error) PROVE ToldInv'
  BY <1>1, <1>2, SilentTold DEF Throw
<1> QED
  BY <1>1, <1>2, ApplyTold

LEMMA LeftTold == ASSUME AllInv, Left PROVE ToldInv'
<1>0. /\ pump = "leaving"
      /\ UNCHANGED <<reader, aborted, given, open, seqs, caught, outcome>>
  BY DEF Left
<1>1. CASE caught = "break"
  <2>1. /\ pump' = "over"
        /\ IF stream = "readable" THEN EnqueueAndClose(<<>>) ELSE UNCHANGED streamVars
    BY <1>1 DEF Left
  <2>2. PartsType /\ Parts \in Seq(PartType)
    BY Typed DEF AllInv, StreamInv
  <2>3. <<>> \in Seq(PartType)
    <3> HIDE DEF PartType
    <3> QED
      OBVIOUS
  <2>4. CASE stream = "readable"
    <3>1. Parts' = Parts
      BY <2>1, <2>2, <2>3, <2>4, Closes, ConcatEmptySeq DEF Parts
    <3>2. outcome' # "finished"
      BY <1>0, <2>4 DEF AllInv, ToldInv
    <3> QED
      BY <1>0, <2>1, <3>1, <3>2, PartsStay DEF AllInv
  <2>5. CASE stream # "readable"
    BY <1>0, <2>1, <2>5, PartsStay DEF AllInv, Parts
  <2> QED
    BY <2>4, <2>5
<1>2. CASE caught # "break" /\ Fail(caught)
  <2>1. caught \in {"cancelled", "other"}
    BY <1>0, <1>2 DEF AllInv, StreamInv, TypeOK, InStep
  <2>2. stream = "readable" => Unfinished(Parts)
    BY <1>0, <1>2 DEF AllInv, StreamInv, InStep
  <2> QED
    BY <1>0, <1>2, <2>1, <2>2, FailTold
<1> QED
  BY <1>1, <1>2 DEF Left

LEMMA TurnEndMissingTold == ASSUME AllInv, TurnEndMissing PROVE ToldInv'
<1>0. /\ pump = "reading"
      /\ UNCHANGED <<reader, aborted, given, seqs, caught, outcome>>
  BY DEF TurnEndMissing
<1>1. CASE aborted \/ stream # "readable"
  <2>1. Fail("other")
    BY <1>1 DEF TurnEndMissing
  <2>2. stream = "readable" => Unfinished(Parts)
    BY <1>0 DEF AllInv, ToldInv
  <2> QED
    BY <1>0, <2>1, <2>2, FailTold
<1>2. CASE ~aborted /\ stream = "readable"
  <2> DEFINE all == CloseBlock \o <<Plain("finish")>>
  <2>1. EnqueueAndClose(all) /\ pump' = "over"
    BY <1>2 DEF TurnEndMissing
  <2>2. /\ PartsType /\ Parts \in Seq(PartType) /\ open \in OpenType /\ seqs \in SeqsType
        /\ Clear(Parts, open, seqs) /\ Told(Parts, given, open) /\ given \in Seq(EventKinds)
    BY <1>0, <1>2, Typed DEF AllInv, StreamInv, InStep, ToldInv, TypeOK
  <2>3. all \in Seq(PartType) /\ Told(Parts \o all, given, NoBlock)
    <3>1. <<>> \in Seq(PartType) /\ Len(<<>>) = 0 /\ DOMAIN <<>> = {}
      <4> HIDE DEF PartType
      <4> QED
        OBVIOUS
    <3>2. CloseBlock \in Seq(PartType)
      BY <2>2, CloseClear
    <3>3. CloseBlock \o <<>> = CloseBlock
      BY <3>2, ConcatEmptySeq
    <3>4. CloseBlock \o <<>> \o <<Plain("finish")>> \in Seq(PartType)
      BY <2>2, <3>1, FinishParts
    <3>5. Told(Parts \o (CloseBlock \o <<>> \o <<Plain("finish")>>), given, NoBlock)
      BY <2>2, <3>1, FinishTold
    <3> QED
      BY <3>3, <3>4, <3>5
  <2>4. Parts' = Parts \o all
    BY <2>1, <2>2, <2>3, Closes DEF Parts
  <2>5. outcome' # "finished"
    BY <1>0, ReadingOn
  <2> QED
    BY <1>0, <2>1, <2>3, <2>4, <2>5, FinishedTold
<1> QED
  BY <1>1, <1>2

LEMMA RunFailsTold == ASSUME AllInv, RunFails PROVE ToldInv'
<1>1. PICK error \in {"cancelled", "other"} : Fail(error)
  BY DEF RunFails
<1>2. pump = "reading" /\ UNCHANGED <<given, outcome>>
  BY DEF RunFails
<1>3. stream = "readable" => Unfinished(Parts)
  BY <1>2 DEF AllInv, ToldInv
<1> QED
  BY <1>1, <1>2, <1>3, FailTold

LEMMA ReadTold == ASSUME AllInv, Read PROVE ToldInv'
<1>1. /\ queue # <<>> /\ seen' = Append(seen, Head(queue)) /\ queue' = Tail(queue)
      /\ stream' = IF stream = "closing" /\ queue' = <<>> THEN "closed" ELSE stream
      /\ outcome = "none" /\ UNCHANGED <<reader, aborted, pumpVars, asked, outcome>>
  BY DEF Read
<1>2. Parts' = Parts
  BY <1>1, Typed, Moved DEF AllInv, StreamInv, PartsType, Parts
<1>3. pump' = "reading" => Unfinished(Parts')
  BY <1>1, <1>2 DEF AllInv, ToldInv
<1>4. stream' = "readable" /\ pump' = "reading" => Told(Parts', given', open')
  BY <1>1, <1>2 DEF AllInv, ToldInv
<1>5. Unfinished(Parts') \/ Told(Parts', given', NoBlock)
  BY <1>1, <1>2 DEF AllInv, ToldInv
<1> QED
  BY <1>1, <1>3, <1>4, <1>5 DEF ToldInv

LEMMA ReadEndTold == ASSUME AllInv, ReadEnd PROVE ToldInv'
<1>1. /\ stream \in {"closed", "cancelled", "other"} /\ queue = <<>>
      /\ outcome' = IF stream # "closed" THEN stream
                    ELSE IF Plain("finish") \in ToSet(seen) THEN "finished" ELSE "other"
      /\ UNCHANGED <<reader, aborted, pumpVars, stream, queue, seen>>
  BY DEF ReadEnd
<1>2. Parts' = Parts
  BY <1>1 DEF Parts
<1>3. ASSUME outcome' = "finished" PROVE stream = "closed" /\ ~Unfinished(seen)
  <2>1. stream = "closed" /\ Plain("finish") \in ToSet(seen)
    BY <1>1, <1>3
  <2>2. PICK i \in DOMAIN seen : seen[i] = Plain("finish")
    BY <2>1 DEF ToSet
  <2>3. Plain("finish").type = "finish"
    BY PlainTyped DEF PartKinds
  <2> QED
    BY <2>1, <2>2, <2>3 DEF Unfinished
<1>4. pump' = "reading" => Unfinished(Parts')
  BY <1>1, <1>2 DEF AllInv, ToldInv
<1>5. stream' = "readable" /\ pump' = "reading" => Told(Parts', given', open')
  BY <1>1, <1>2 DEF AllInv, ToldInv
<1>6. Unfinished(Parts') \/ Told(Parts', given', NoBlock)
  BY <1>1, <1>2 DEF AllInv, ToldInv
<1> QED
  BY <1>1, <1>3, <1>4, <1>5, <1>6 DEF ToldInv

\* A reader that leaves may have the finish, which comes last, or not.
LEMMA CancelTold == ASSUME AllInv, Cancel PROVE ToldInv'
<1>1. /\ stream' = "closed" /\ queue' = <<>> /\ outcome' = "left"
      /\ UNCHANGED <<reader, aborted, pump, given, open, seqs, caught, seen>>
  BY DEF Cancel
<1>2. PartsType /\ WellFormed(Parts)
  BY Typed DEF AllInv, StreamInv, InStep
<1>3. Parts' = seen
  BY <1>1, <1>2, ConcatEmptySeq DEF PartsType, Parts
<1>4. CASE Unfinished(Parts)
  <2>1. Unfinished(Parts')
    BY <1>2, <1>3, <1>4, UnfinishedStart DEF PartsType, Parts
  <2> QED
    BY <1>1, <2>1, CutShort
<1>5. CASE ~Unfinished(Parts)
  <2>1. pump # "reading" /\ Told(Parts, given, NoBlock)
    BY <1>5 DEF AllInv, ToldInv
  <2>2. CASE queue = <<>>
    <3>1. Parts' = Parts
      BY <1>1, <2>2 DEF Parts
    <3> QED
      BY <1>1, <2>1, <3>1, FinishedTold
  <2>3. CASE queue # <<>>
    <3> DEFINE r == seen \o queue
    <3>1. /\ Len(seen) \in Nat /\ DOMAIN seen = 1..Len(seen) /\ DOMAIN r = 1..Len(r)
          /\ Len(r) > Len(seen) /\ Len(r) \in Nat
          /\ \A i \in 1..Len(seen) : r[i] = seen[i]
      BY <1>2, <2>3 DEF PartsType
    <3>2. WellFormed(r)
      BY <1>2 DEF Parts
    <3> HIDE DEF r
    <3>3. Unfinished(seen)
      BY <3>1, <3>2 DEF WellFormed, Unfinished
    <3> QED
      BY <1>1, <1>3, <3>3, CutShort
  <2> QED
    BY <2>2, <2>3
<1> QED
  BY <1>4, <1>5

LEMMA ToldNext == ASSUME AllInv, [Next]_vars PROVE ToldInv'
<1>1. CASE UNCHANGED vars \/ Abort \/ Ask \/ RunRefused
  <2>1. /\ UNCHANGED <<stream, queue, seen, given, open>>
        /\ pump' = "reading" => pump = "reading"
        /\ outcome' = "finished" => outcome = "finished"
    BY <1>1 DEF vars, Abort, Ask, RunRefused, Normalized
  <2>2. Parts' = Parts
    BY <2>1 DEF Parts
  <2> QED
    BY <2>1, <2>2, PartsStay DEF AllInv
<1>2. CASE Next
  BY <1>1, <1>2, OpensTold, ReadEventTold, LeftTold, TurnEndMissingTold,
     RunFailsTold, ReadTold, ReadEndTold, CancelTold DEF Next
<1> QED
  BY <1>1, <1>2

\* What the reader has been told is, in every state, what the run gave.
THEOREM ToldInvariance == Spec => []AllInv
<1>1. Init => AllInv
  BY StreamInit, ToldInit DEF AllInv
<1>2. AllInv /\ [Next]_vars => AllInv'
  BY StreamNext, ToldNext DEF AllInv
<1> QED
  BY <1>1, <1>2, PTL DEF Spec

LEMMA ToldDelivered ==
    ASSUME NEW p \in Seq(PartType), NEW g \in Seq(EventKinds), Told(p, g, NoBlock)
    PROVE  Delivered(p, g)
<1>1. \A d \in Contents(p) : ~(p[d].type = "delta" /\ OfBlock(p[d], NoBlock))
  BY DEF Told, ToldEnds, OfBlock, NoBlock, Blocks
<1>2. \A d \in Contents(p) : \E e \in d..Len(p) : Enters(p, d) = {e}
  BY <1>1 DEF Told, ToldEnds
<1>3. \A c, d \in Contents(p) : c < d =>
         /\ p[c].event < p[d].event
         /\ \A e \in Enters(p, c), f \in Enters(p, d) : e <= f
  BY DEF Told, ToldEnds, ToldEvents
<1>4. {p[d].event : d \in Contents(p)} = {i \in DOMAIN g : g[i] \in {"text", "thinking", "tool"}}
  BY DEF Told, ToldEvents, Wanted
<1> QED
  BY <1>2, <1>3, <1>4 DEF Delivered

\* A generate that succeeds has in its content every text, every thought and the
\* tool call of the run, once and in the run's order, however the reader's reads
\* and the caller's signal fall among the events.
THEOREM ContentFaithfulHolds == Spec => []ContentFaithful
<1>1. ASSUME AllInv PROVE ContentFaithful
  <2>1. ASSUME outcome = "finished" PROVE Delivered(seen, given)
    <3>1. queue = <<>> /\ ~Unfinished(seen)
      BY <1>1, <2>1 DEF AllInv, ToldInv
    <3>2. seen \in Seq(PartType) /\ given \in Seq(EventKinds)
      BY <1>1 DEF AllInv, StreamInv, TypeOK
    <3>3. Parts = seen
      BY <3>1, <3>2, ConcatEmptySeq DEF Parts
    <3>4. Told(seen, given, NoBlock)
      BY <1>1, <3>1, <3>3 DEF AllInv, ToldInv
    <3> QED
      BY <3>2, <3>4, ToldDelivered
  <2> QED
    BY <2>1 DEF ContentFaithful
<1> QED
  BY <1>1, ToldInvariance, PTL

-----------------------------------------------------------------------------
(* Pi: the client that streams and catalogue fetches share.                *)

EpochType ==
    /\ current \in Uses \union {None} /\ closed \subseteq Uses
    /\ client \in [Uses -> Uses \union {None}]
    /\ piPump \in [Uses -> {"idle", "opening", "reading", "over"}]
    /\ failure \in [Uses -> Errors \union {"none"}]

\* A client is named by a use that has begun.
Begun == \A u \in Uses : piPump[u] = "idle" => u # current /\ u \notin closed

\* A use that is not over has not failed.
NotFailedYet == \A u \in Uses : piPump[u] # "over" => failure[u] = "none"

EpochInv == EpochType /\ Begun /\ NotFailedYet /\ OneOpenClient

USE DEF piVars, epochVars, runVars

-----------------------------------------------------------------------------
(* What a step does to the epoch, and to the use that takes it.            *)

\* The use takes or makes the epoch's client, and goes on.
Takes(u) ==
    /\ piPump[u] = "idle"
    /\ \E secret \in Secrets : ClientFor(u, secret)
    /\ \E to \in {"opening", "over"} : piPump' = [piPump EXCEPT ![u] = to]
    /\ failure' \in {failure, [failure EXCEPT ![u] = "none"]}

\* The use goes on, or ends, or fails of something else.
GoesOn(u) ==
    /\ UNCHANGED <<epochVars, client>>
    /\ \E to \in {"opening", "reading", "over"} :
          /\ piPump' = [piPump EXCEPT ![u] = to]
          /\ \E error \in Errors \union {"none"} :
                /\ failure' \in {failure, [failure EXCEPT ![u] = error]}
                /\ to # "over" => failure' = failure
    /\ piPump[u] # "over"

\* The use fails of its credential, and drops the client that is current.
Drops(u) ==
    /\ Drop /\ client' = client
    /\ piPump[u] # "over" /\ piPump' = [piPump EXCEPT ![u] = "over"]
    /\ failure' = [failure EXCEPT ![u] = "authentication"]

Same == UNCHANGED <<epochVars, client, piPump, failure>>

LEMMA UseOutcome ==
    ASSUME NEW u \in Uses,
           \/ Start(u) \/ Opened(u) \/ OpenFails(u)
           \/ Arrive(u) \/ PiReadEvent(u) \/ PiRunFails(u) \/ RunEnds(u) \/ PiAbort(u)
    PROVE  Takes(u) \/ GoesOn(u) \/ Drops(u) \/ Same
<1>1. CASE Start(u)
  <2>1. CASE /\ IF kind[u] = "models" THEN Push(u, "empty", "none") ELSE Failed(u, "other")
             /\ UNCHANGED <<epochVars, client>>
    <3>1. \E error \in {"other", "none"} : failure' = [failure EXCEPT ![u] = error]
      BY <2>1 DEF Push, Failed
    <3>2. piPump' = [piPump EXCEPT ![u] = "over"] /\ piPump[u] = "idle"
      BY <1>1, <2>1 DEF Start, Push, Failed
    <3> QED
      BY <2>1, <3>1, <3>2 DEF GoesOn, Errors
  <2>2. ASSUME NEW secret \in Secrets, ClientFor(u, secret),
               IF kind[u] = "models" /\ u \in piAborted THEN Push(u, "empty", "none")
               ELSE piPump' = [piPump EXCEPT ![u] = "opening"] /\ UNCHANGED <<failure, end>>
        PROVE  Takes(u)
    BY <1>1, <2>2 DEF Start, Takes, Push
  <2> QED
    BY <1>1, <2>1, <2>2 DEF Start
<1>2. CASE Opened(u)
  BY <1>2 DEF Opened, GoesOn, Push
<1>3. CASE OpenFails(u)
  <2> PICK error \in Errors : PiFail(u, error)
    BY <1>3 DEF OpenFails
  <2>1. /\ failure' = [failure EXCEPT ![u] = error] /\ piPump' = [piPump EXCEPT ![u] = "over"]
        /\ DropAfterAuthError(error) /\ client' = client /\ piPump[u] = "opening"
    BY <1>3 DEF OpenFails, PiFail, Push, Failed
  <2> QED
    BY <2>1 DEF DropAfterAuthError, Drops, GoesOn, Errors
<1>4. CASE Arrive(u) \/ PiAbort(u)
  BY <1>4 DEF Arrive, PiAbort, Same
<1>5. CASE PiReadEvent(u)
  BY <1>5 DEF PiReadEvent, Failed, Push, GoesOn, Same, Errors
<1>6. CASE PiRunFails(u)
  <2> PICK error \in Errors :
         /\ Failure(u)
         /\ IF mcpCalls[u] # <<>> /\ u \notin piAborted
            THEN FinishToolUse(u) /\ UNCHANGED epochVars
            ELSE /\ Failed(u, error) /\ DropAfterAuthError(error)
                 /\ cancelled' = cancelled \union {u} /\ UNCHANGED content
    BY <1>6 DEF PiRunFails
  <2>1. piPump[u] = "reading" /\ client' = client
    BY <1>6 DEF PiRunFails, Failure
  <2>2. CASE FinishToolUse(u) /\ UNCHANGED epochVars
    BY <2>1, <2>2 DEF FinishToolUse, Push, GoesOn
  <2>3. CASE Failed(u, error) /\ DropAfterAuthError(error)
    BY <2>1, <2>3 DEF Failed, Push, DropAfterAuthError, Drops, GoesOn, Errors
  <2> QED
    BY <2>2, <2>3
<1>7. CASE RunEnds(u)
  BY <1>7 DEF RunEnds, FinishToolUse, Push, GoesOn
<1> QED
  BY <1>1, <1>2, <1>3, <1>4, <1>5, <1>6, <1>7

-----------------------------------------------------------------------------
(* The invariant.                                                          *)

LEMMA EpochInit == ASSUME PiInit PROVE EpochInv
<1>1. EpochType
  BY DEF PiInit, EpochType
<1>2. Begun /\ NotFailedYet
  BY PiAssumption DEF PiInit, Begun, NotFailedYet
<1>3. OneOpenClient
  BY DEF PiInit, OneOpenClient
<1> QED
  BY <1>1, <1>2, <1>3 DEF EpochInv

LEMMA TakesKeeps == ASSUME EpochInv, NEW u \in Uses, Takes(u) PROVE EpochInv'
<1> PICK secret \in Secrets : ClientFor(u, secret)
  BY DEF Takes
<1> PICK to \in {"opening", "over"} : piPump' = [piPump EXCEPT ![u] = to]
  BY DEF Takes
<1>1. piPump[u] = "idle" /\ u # current /\ u \notin closed /\ u # None
  BY PiAssumption DEF Takes, EpochInv, Begun
<1>2. EpochType'
  BY DEF EpochInv, EpochType, Takes, ClientFor
<1>3. NotFailedYet'
  BY DEF EpochInv, EpochType, NotFailedYet, Takes
<1>4. CASE current # None /\ UNCHANGED epochVars /\ client' = [client EXCEPT ![u] = current]
  <2>1. Begun'
    BY <1>1, <1>4 DEF EpochInv, EpochType, Begun
  <2>2. OneOpenClient'
    BY <1>4 DEF EpochInv, EpochType, OneOpenClient
  <2> QED
    BY <1>2, <1>3, <2>1, <2>2 DEF EpochInv
<1>5. CASE /\ closed' = closed \union ({current} \ {None})
           /\ current' = u /\ client' = [client EXCEPT ![u] = u]
  <2>1. Begun'
    BY <1>1, <1>5 DEF EpochInv, EpochType, Begun
  <2>2. OneOpenClient'
    BY <1>1, <1>5 DEF EpochInv, EpochType, OneOpenClient
  <2> QED
    BY <1>2, <1>3, <2>1, <2>2 DEF EpochInv
<1> QED
  BY <1>4, <1>5 DEF ClientFor

LEMMA GoesOnKeeps == ASSUME EpochInv, NEW u \in Uses, GoesOn(u) PROVE EpochInv'
<1> PICK to \in {"opening", "reading", "over"} :
           /\ piPump' = [piPump EXCEPT ![u] = to]
           /\ \E error \in Errors \union {"none"} :
                 /\ failure' \in {failure, [failure EXCEPT ![u] = error]}
                 /\ to # "over" => failure' = failure
  BY DEF GoesOn
<1>1. EpochType'
  BY DEF EpochInv, EpochType, GoesOn
<1>2. Begun' /\ OneOpenClient'
  BY DEF EpochInv, EpochType, Begun, OneOpenClient, GoesOn
<1>3. NotFailedYet'
  BY DEF EpochInv, EpochType, NotFailedYet, GoesOn
<1> QED
  BY <1>1, <1>2, <1>3 DEF EpochInv

LEMMA DropsKeeps == ASSUME EpochInv, NEW u \in Uses, Drops(u) PROVE EpochInv'
<1>1. EpochType'
  BY DEF EpochInv, EpochType, Drops, Drop, Errors
<1>2. Begun'
  BY PiAssumption DEF EpochInv, EpochType, Begun, Drops, Drop
<1>3. NotFailedYet'
  BY DEF EpochInv, EpochType, NotFailedYet, Drops
<1>4. OneOpenClient'
  BY PiAssumption DEF EpochInv, EpochType, OneOpenClient, Drops, Drop
<1> QED
  BY <1>1, <1>2, <1>3, <1>4 DEF EpochInv

LEMMA EpochNext == ASSUME EpochInv, [PiNext]_piVars PROVE EpochInv'
<1>1. ASSUME Same PROVE EpochInv'
  BY <1>1 DEF Same, EpochInv, EpochType, Begun, NotFailedYet, OneOpenClient
<1>2. CASE UNCHANGED piVars
  BY <1>1, <1>2 DEF Same
<1>3. CASE PiNext
  BY <1>1, <1>3, UseOutcome, TakesKeeps, GoesOnKeeps, DropsKeeps DEF PiNext
<1> QED
  BY <1>2, <1>3

\* The inductive invariant holds in every reachable state.
THEOREM EpochInvariance == PiSpec => []EpochInv
<1>1. PiInit => EpochInv
  BY EpochInit
<1>2. EpochInv /\ [PiNext]_piVars => EpochInv'
  BY EpochNext
<1> QED
  BY <1>1, <1>2, PTL DEF PiSpec

\* Of all the clients that were ever made only the epoch's is open, for any
\* number of streams, fetches and secrets.
THEOREM OneOpenClientHolds == PiSpec => []OneOpenClient
<1>1. EpochInv => OneOpenClient
  BY DEF EpochInv
<1> QED
  BY <1>1, EpochInvariance, PTL

\* One step gives a client up only for a new secret or for a use that fails of
\* its credential in it.
LEMMA KeepStep ==
    ASSUME EpochInv, [PiNext]_piVars, current' # current, current # None
    PROVE  \/ current' # None /\ fingerprint' # fingerprint
           \/ \E u \in Uses : failure[u] = "none" /\ failure'[u] = "authentication"
<1>1. ASSUME NEW u \in Uses, Takes(u) PROVE current' # None /\ fingerprint' # fingerprint
  BY <1>1, PiAssumption DEF Takes, ClientFor
<1>2. ASSUME NEW u \in Uses, Drops(u)
      PROVE  failure[u] = "none" /\ failure'[u] = "authentication"
  BY <1>2 DEF Drops, EpochInv, EpochType, NotFailedYet
<1>3. ASSUME NEW u \in Uses, GoesOn(u) PROVE FALSE
  BY <1>3 DEF GoesOn
<1>4. CASE Same \/ UNCHANGED piVars
  BY <1>4 DEF Same
<1> QED
  BY <1>1, <1>2, <1>3, <1>4, UseOutcome DEF PiNext

\* Stalls, refused transports and aborts keep the client.
THEOREM ClientKeptHolds == PiSpec => ClientKept
<1>1. EpochInv /\ [PiNext]_piVars =>
        [current' # current /\ current # None =>
          \/ current' # None /\ fingerprint' # fingerprint
          \/ \E u \in Uses : failure[u] = "none" /\ failure'[u] = "authentication"]_piVars
  BY KeepStep
<1> QED
  BY EpochInvariance, <1>1, PTL DEF PiSpec, ClientKept

-----------------------------------------------------------------------------
(* Pi: the end of a use.                                                   *)

\* The use ends, in one way.
EndsNow(u) ==
    /\ piPump[u] # "over"
    /\ \E how \in Ends, error \in Errors \union {"none"} : Push(u, how, error)

\* The use goes on, or stays where it is.
NotYet(u) ==
    /\ end' = end
    /\ \/ piPump' = piPump
       \/ /\ piPump[u] # "over"
          /\ \E to \in {"opening", "reading"} : piPump' = [piPump EXCEPT ![u] = to]

LEMMA EndOutcome ==
    ASSUME NEW u \in Uses,
           \/ Start(u) \/ Opened(u) \/ OpenFails(u)
           \/ Arrive(u) \/ PiReadEvent(u) \/ PiRunFails(u) \/ RunEnds(u) \/ PiAbort(u)
    PROVE  EndsNow(u) \/ NotYet(u)
<1>1. ASSUME NEW error \in Errors, Failed(u, error), piPump[u] # "over" PROVE EndsNow(u)
  BY <1>1 DEF Failed, EndsNow, Ends
<1>2. ASSUME FinishToolUse(u), piPump[u] # "over" PROVE EndsNow(u)
  BY <1>2 DEF FinishToolUse, EndsNow, Ends
<1>3. "other" \in Errors
  BY DEF Errors
<1>4. CASE Start(u)
  BY <1>1, <1>3, <1>4 DEF Start, EndsNow, NotYet, Ends
<1>5. CASE Opened(u)
  BY <1>5 DEF Opened, EndsNow, NotYet, Ends
<1>6. CASE OpenFails(u)
  BY <1>1, <1>6 DEF OpenFails, PiFail, EndsNow, Ends
<1>7. CASE Arrive(u) \/ PiAbort(u)
  BY <1>7 DEF Arrive, PiAbort, NotYet
<1>8. CASE PiReadEvent(u)
  BY <1>1, <1>3, <1>8 DEF PiReadEvent, NotYet
<1>9. CASE PiRunFails(u)
  BY <1>1, <1>2, <1>9 DEF PiRunFails, Failure
<1>10. CASE RunEnds(u)
  BY <1>2, <1>10 DEF RunEnds, EndsNow, Ends
<1> QED
  BY <1>4, <1>5, <1>6, <1>7, <1>8, <1>9, <1>10

EndInv ==
    /\ piPump \in [Uses -> {"idle", "opening", "reading", "over"}] /\ end \in [Uses -> Seq(Ends)]
    /\ OneEnd

LEMMA EndNext == ASSUME EndInv, [PiNext]_piVars PROVE EndInv'
<1>1. CASE UNCHANGED piVars
  BY <1>1 DEF EndInv, OneEnd
<1>2. ASSUME NEW u \in Uses, EndsNow(u) PROVE EndInv'
  <2>1. PICK how \in Ends :
           /\ end' = [end EXCEPT ![u] = Append(@, how)]
           /\ piPump' = [piPump EXCEPT ![u] = "over"]
    BY <1>2 DEF EndsNow, Push
  <2>2. end[u] \in Seq(Ends) /\ Len(end[u]) = 0
    BY <1>2 DEF EndInv, OneEnd, EndsNow
  <2>3. Append(end[u], how) \in Seq(Ends) /\ Len(Append(end[u], how)) = 1
    <3> HIDE DEF Ends
    <3> QED
      BY <2>2
  <2> QED
    BY <2>1, <2>3 DEF EndInv, OneEnd
<1>3. ASSUME NEW u \in Uses, NotYet(u) PROVE EndInv'
  BY <1>3 DEF EndInv, OneEnd, NotYet
<1> QED
  BY <1>1, <1>2, <1>3, EndOutcome DEF PiNext

\* Whoever waits for a use is told its end once, and only when it is over,
\* for any number of uses and any run.
THEOREM OneEndHolds == PiSpec => []OneEnd
<1>1. PiInit => EndInv
  <2> HAVE PiInit
  <2>1. <<>> \in Seq(Ends)
    <3> HIDE DEF Ends
    <3> QED
      OBVIOUS
  <2> QED
    BY <2>1 DEF PiInit, EndInv, OneEnd
<1>2. EndInv => OneEnd
  BY DEF EndInv
<1> QED
  BY <1>1, <1>2, EndNext, PTL DEF PiSpec

-----------------------------------------------------------------------------
(* Pi: blocks that get events, and lists that grow.                        *)

MessageTypes == {"text", "thinking"}

\* The blocks of a type; one has exactly S, in order, or there is none.
OfType(blocks, type) == {b \in DOMAIN blocks : blocks[b].type = type}
Single(blocks, type, S) ==
    IF S = {} THEN OfType(blocks, type) = {}
    ELSE \E b \in DOMAIN blocks : OfType(blocks, type) = {b} /\ Lists(blocks[b].events, S)

LEMMA ListsAppend ==
    ASSUME NEW s \in Seq(Nat), NEW S, NEW i \in Nat, Lists(s, S), \A j \in S : j < i
    PROVE  Append(s, i) \in Seq(Nat) /\ Lists(Append(s, i), S \union {i})
<1> DEFINE r == Append(s, i)
<1>1. /\ r \in Seq(Nat) /\ DOMAIN r = 1..(Len(s) + 1) /\ DOMAIN s = 1..Len(s) /\ Len(s) \in Nat
      /\ r[Len(s) + 1] = i /\ \A k \in DOMAIN s : r[k] = s[k]
  OBVIOUS
<1> HIDE DEF r
<1>2. ToSet(s) = S /\ \A k \in DOMAIN s : s[k] \in S
  BY DEF Lists, ToSet
<1>3. ToSet(r) = S \union {i}
  <2>1. \A k \in DOMAIN r : r[k] \in S \union {i}
    BY <1>1, <1>2
  <2>2. \A j \in S : \E k \in DOMAIN s : s[k] = j
    BY <1>2 DEF ToSet
  <2>3. \A j \in S \union {i} : \E k \in DOMAIN r : r[k] = j
    BY <1>1, <2>2
  <2> QED
    BY <2>1, <2>3 DEF ToSet
<1>4. ASSUME NEW j \in DOMAIN r, NEW k \in DOMAIN r, j < k PROVE r[j] < r[k]
  <2>1. j \in DOMAIN s
    BY <1>1, <1>4
  <2>2. CASE k \in DOMAIN s
    BY <1>1, <1>4, <2>1, <2>2 DEF Lists
  <2>3. CASE k = Len(s) + 1
    BY <1>1, <1>2, <2>1, <2>3
  <2> QED
    BY <1>1, <2>2, <2>3
<1> QED
  BY <1>1, <1>3, <1>4 DEF Lists, r

\* findLastIndex finds the one block there is.
LEMMA LastOfType ==
    ASSUME NEW blocks \in Seq(BlockType), NEW type
    PROVE  LET at == SelectLastInSeq(blocks, LAMBDA b : b.type = type)
           IN  /\ OfType(blocks, type) = {} => at = 0
               /\ \A b \in DOMAIN blocks : OfType(blocks, type) = {b} => at = b
<1>1. DOMAIN blocks = 1..Len(blocks)
  OBVIOUS
<1>2. OfType(blocks, type) = {i \in 1..Len(blocks) : blocks[i].type = type}
  BY <1>1 DEF OfType
<1>3. ASSUME OfType(blocks, type) = {}
      PROVE  SelectLastInSeq(blocks, LAMBDA b : b.type = type) = 0
  BY <1>2, <1>3 DEF SelectLastInSeq
<1>4. ASSUME NEW b \in DOMAIN blocks, OfType(blocks, type) = {b}
      PROVE  SelectLastInSeq(blocks, LAMBDA c : c.type = type) = b
  <2>1. Max({b}) = b
    BY <1>1 DEF Max
  <2> QED
    BY <1>2, <1>4, <2>1 DEF SelectLastInSeq
<1> QED
  BY <1>3, <1>4

\* appendText and appendThinking: the block of the type has the event too, and
\* the blocks of the other types are as they were.
LEMMA AppendToSingle ==
    ASSUME NEW blocks \in Seq(BlockType), NEW type \in MessageTypes, NEW i \in Nat, NEW S,
           Single(blocks, type, S), \A j \in S : j < i
    PROVE  /\ AppendTo(blocks, type, i) \in Seq(BlockType)
           /\ Single(AppendTo(blocks, type, i), type, S \union {i})
           /\ \A other : other # type =>
                 /\ OfType(AppendTo(blocks, type, i), other) = OfType(blocks, other)
                 /\ \A b \in OfType(blocks, other) : AppendTo(blocks, type, i)[b] = blocks[b]
<1> DEFINE r == AppendTo(blocks, type, i)
           at == SelectLastInSeq(blocks, LAMBDA b : b.type = type)
<1>1. DOMAIN blocks = 1..Len(blocks) /\ Len(blocks) \in Nat
  OBVIOUS
<1>2. CASE S = {}
  <2> DEFINE x == [type |-> type, events |-> <<i>>]
  <2>1. OfType(blocks, type) = {} /\ at = 0
    BY <1>2, LastOfType DEF Single
  <2>2. r = Append(blocks, x)
    BY <2>1 DEF AppendTo
  <2>3. x \in BlockType /\ x.type = type /\ x.events = <<i>>
    BY DEF BlockType, MessageTypes
  <2> HIDE DEF x
  <2>4. /\ Append(blocks, x) \in Seq(BlockType)
        /\ DOMAIN Append(blocks, x) = 1..(Len(blocks) + 1)
        /\ Append(blocks, x)[Len(blocks) + 1] = x
        /\ \A b \in DOMAIN blocks : Append(blocks, x)[b] = blocks[b]
    <3> HIDE DEF BlockType
    <3> QED
      BY <2>3
  <2>5. Lists(<<i>>, {i})
    BY DEF Lists, ToSet
  <2>6. OfType(r, type) = {Len(blocks) + 1}
    BY <1>1, <2>1, <2>2, <2>3, <2>4 DEF OfType
  <2>7. Single(r, type, S \union {i})
    BY <1>1, <1>2, <2>2, <2>3, <2>4, <2>5, <2>6 DEF Single
  <2>8. ASSUME NEW other, other # type
        PROVE  /\ OfType(r, other) = OfType(blocks, other)
               /\ \A b \in OfType(blocks, other) : r[b] = blocks[b]
    BY <1>1, <2>2, <2>3, <2>4, <2>8 DEF OfType
  <2> QED
    BY <2>2, <2>4, <2>7, <2>8
<1>3. CASE S # {}
  <2> PICK b \in DOMAIN blocks : OfType(blocks, type) = {b} /\ Lists(blocks[b].events, S)
    BY <1>3 DEF Single
  <2>1. at = b
    BY LastOfType
  <2> DEFINE events == Append(blocks[b].events, i)
             x == [blocks[b] EXCEPT !.events = events]
  <2>2. r = [blocks EXCEPT ![b] = x]
    <3>1. r = IF at = 0 THEN Append(blocks, [type |-> type, events |-> <<i>>])
              ELSE [blocks EXCEPT ![at].events = Append(@, i)]
      BY DEF AppendTo
    <3>2. b # 0
      BY <1>1
    <3> HIDE DEF at, r
    <3>3. r = [blocks EXCEPT ![b].events = Append(@, i)]
      BY <2>1, <3>1, <3>2
    <3> QED
      BY <3>3
  <2>3. blocks[b] \in BlockType /\ blocks[b].type = type
    BY DEF OfType
  <2>4. blocks[b].events \in Seq(Nat)
    BY <2>3 DEF BlockType
  <2>5. events \in Seq(Nat) /\ Lists(events, S \union {i})
    BY <2>4, ListsAppend
  <2> HIDE DEF events
  <2>6. x \in BlockType /\ x.type = type /\ x.events = events
    BY <2>3, <2>5 DEF BlockType
  <2> HIDE DEF x
  <2>7. /\ r \in Seq(BlockType) /\ DOMAIN r = DOMAIN blocks /\ r[b] = x
        /\ \A c \in DOMAIN blocks : c # b => r[c] = blocks[c]
    <3> HIDE DEF BlockType
    <3> QED
      BY <2>2, <2>6
  <2>8. OfType(r, type) = {b}
    BY <2>6, <2>7 DEF OfType
  <2>9. Single(r, type, S \union {i})
    BY <2>5, <2>6, <2>7, <2>8 DEF Single
  <2>10. ASSUME NEW other, other # type
         PROVE  /\ OfType(r, other) = OfType(blocks, other)
                /\ \A c \in OfType(blocks, other) : r[c] = blocks[c]
    <3>1. \A c \in DOMAIN blocks : r[c].type = blocks[c].type
      BY <2>3, <2>6, <2>7
    <3>2. OfType(r, other) = OfType(blocks, other)
      BY <2>7, <3>1 DEF OfType
    <3>3. \A c \in OfType(blocks, other) : c \in DOMAIN blocks /\ c # b
      BY <2>3, <2>10 DEF OfType
    <3> QED
      BY <2>7, <3>2, <3>3
  <2> QED
    BY <2>7, <2>9, <2>10
<1> QED
  BY <1>2, <1>3

\* What another type's event leaves alone.
LEMMA SingleStays ==
    ASSUME NEW blocks, NEW r, NEW type, NEW S, Single(blocks, type, S),
           OfType(r, type) = OfType(blocks, type),
           \A b \in OfType(blocks, type) : r[b] = blocks[b]
    PROVE  Single(r, type, S)
  BY DEF Single, OfType

\* finishToolUse: the calls become blocks behind the others.
LEMMA CallsJoin ==
    ASSUME NEW blocks \in Seq(BlockType), NEW calls \in Seq(Nat), NEW T, Lists(calls, T),
           OfType(blocks, "toolCall") = {}
    PROVE  LET r == blocks \o [i \in DOMAIN calls |-> [type |-> "toolCall", events |-> <<calls[i]>>]]
               of == OfType(r, "toolCall")
           IN  /\ r \in Seq(BlockType)
               /\ \A type \in MessageTypes :
                     /\ OfType(r, type) = OfType(blocks, type)
                     /\ \A b \in OfType(blocks, type) : r[b] = blocks[b]
               /\ {r[b].events : b \in of} = {<<i>> : i \in T}
               /\ \A b, c \in of : b < c => r[b].events[1] < r[c].events[1]
<1> DEFINE block(i) == [type |-> "toolCall", events |-> <<calls[i]>>]
           new == [i \in DOMAIN calls |-> block(i)]
           r == blocks \o new
           n == Len(blocks)
           of == OfType(r, "toolCall")
<1>1. DOMAIN calls = 1..Len(calls) /\ Len(calls) \in Nat /\ \A i \in DOMAIN calls : calls[i] \in Nat
  OBVIOUS
<1>2. \A i \in DOMAIN calls : block(i) \in BlockType
  BY <1>1 DEF BlockType
<1>3. new \in Seq(BlockType) /\ Len(new) = Len(calls) /\ \A i \in DOMAIN calls : new[i] = block(i)
  <2> HIDE DEF block, BlockType
  <2> QED
    BY <1>1, <1>2
<1>4. n \in Nat /\ DOMAIN blocks = 1..n
  OBVIOUS
<1> HIDE DEF new
<1>5. /\ r \in Seq(BlockType) /\ Len(r) = n + Len(calls) /\ DOMAIN r = 1..(n + Len(calls))
      /\ \A b \in 1..n : r[b] = blocks[b]
      /\ \A i \in DOMAIN calls : r[n + i] = block(i)
  <2>1. /\ r \in Seq(BlockType) /\ Len(r) = n + Len(new)
        /\ \A k \in 1..(n + Len(new)) : r[k] = IF k <= n THEN blocks[k] ELSE new[k - n]
    BY <1>3, ConcatProperties
  <2>2. DOMAIN r = 1..Len(r)
    BY <2>1
  <2> HIDE DEF r, n, block
  <2>3. \A b \in 1..n : r[b] = blocks[b]
    BY <1>1, <1>3, <1>4, <2>1
  <2>4. ASSUME NEW i \in DOMAIN calls PROVE r[n + i] = block(i)
    <3>1. n + i \in 1..(n + Len(new)) /\ ~(n + i <= n) /\ (n + i) - n = i
      BY <1>1, <1>3, <1>4
    <3> QED
      BY <1>3, <2>1, <3>1
  <2> QED
    BY <1>3, <2>1, <2>2, <2>3, <2>4
<1> HIDE DEF r, n
<1>6. \A b \in DOMAIN r : b \in 1..n \/ \E i \in DOMAIN calls : b = n + i
  <2> TAKE b \in DOMAIN r
  <2>1. b \notin 1..n => b - n \in 1..Len(calls) /\ b = n + (b - n)
    BY <1>1, <1>4, <1>5
  <2> QED
    BY <1>1, <2>1
<1>7. \A i \in DOMAIN calls : r[n + i].type = "toolCall" /\ r[n + i].events = <<calls[i]>>
  <2> TAKE i \in DOMAIN calls
  <2>1. r[n + i] = [type |-> "toolCall", events |-> <<calls[i]>>]
    BY <1>5
  <2> QED
    BY <2>1
<1>8. \A b \in 1..n : r[b].type # "toolCall"
  BY <1>4, <1>5 DEF OfType
<1> HIDE DEF block
<1>9. of = {n + i : i \in DOMAIN calls}
  <2>1. \A b \in of : \E i \in DOMAIN calls : b = n + i
    BY <1>6, <1>8 DEF OfType
  <2>2. \A i \in DOMAIN calls : n + i \in DOMAIN r
    BY <1>1, <1>4, <1>5
  <2>3. \A i \in DOMAIN calls : n + i \in of
    BY <1>7, <2>2 DEF OfType
  <2> QED
    BY <2>1, <2>3
<1>10. ASSUME NEW type \in MessageTypes
       PROVE  /\ OfType(r, type) = OfType(blocks, type)
              /\ \A b \in OfType(blocks, type) : r[b] = blocks[b]
  <2>1. type # "toolCall"
    BY DEF MessageTypes
  <2>2. 1..n \subseteq DOMAIN r
    BY <1>1, <1>4, <1>5
  <2> QED
    BY <1>4, <1>5, <1>6, <1>7, <2>1, <2>2 DEF OfType
<1> HIDE DEF of
<1>11. {r[b].events : b \in of} = {<<i>> : i \in T}
  <2>1. T = {calls[i] : i \in DOMAIN calls}
    BY DEF Lists, ToSet
  <2>2. \A b \in of : \E i \in T : r[b].events = <<i>>
    BY <1>7, <1>9, <2>1
  <2>3. \A i \in T : \E b \in of : r[b].events = <<i>>
    BY <1>7, <1>9, <2>1
  <2> QED
    BY <2>2, <2>3
<1>12. ASSUME NEW b \in of, NEW c \in of, b < c PROVE r[b].events[1] < r[c].events[1]
  <2>1. PICK i \in DOMAIN calls : b = n + i
    BY <1>9
  <2>2. PICK j \in DOMAIN calls : c = n + j
    BY <1>9
  <2>3. i < j
    BY <1>1, <1>4, <1>12, <2>1, <2>2
  <2>4. calls[i] < calls[j]
    BY <2>3 DEF Lists
  <2>5. r[b].events = <<calls[i]>> /\ r[c].events = <<calls[j]>>
    BY <1>7, <2>1, <2>2
  <2> QED
    BY <2>4, <2>5
<1>13. /\ r \in Seq(BlockType)
       /\ \A type \in MessageTypes :
             /\ OfType(r, type) = OfType(blocks, type)
             /\ \A b \in OfType(blocks, type) : r[b] = blocks[b]
       /\ {r[b].events : b \in of} = {<<i>> : i \in T}
       /\ \A b, c \in of : b < c => r[b].events[1] < r[c].events[1]
  BY <1>5, <1>10, <1>11, <1>12
<1> QED
  BY <1>13 DEF r, of, new, block

-----------------------------------------------------------------------------
(* Pi: the invariant of a use and its message.                             *)

\* The events of a kind among the first n of a run.
Held(events, n, event) == {i \in 1..n : events[i] = event}

\* The loop has put what it has read into the message, and into mcpCalls.
InLoop(events, n, calls, blocks) ==
    /\ \A type \in MessageTypes : Single(blocks, type, Held(events, n, type))
    /\ OfType(blocks, "toolCall") = {}
    /\ Lists(calls, Held(events, n, "tool"))

\* A message that ended well has all there was to read.
Finished(events, blocks, how) ==
    LET of == OfType(blocks, "toolCall")  tools == Held(events, Len(events), "tool")
    IN  /\ \A type \in MessageTypes : Single(blocks, type, Held(events, Len(events), type))
        /\ {blocks[b].events : b \in of} = {<<i>> : i \in tools}
        /\ \A b, c \in of : b < c => blocks[b].events[1] < blocks[c].events[1]
        /\ how = "toolUse" <=> tools # {}

UseOk(at, wasAborted, events, n, calls, blocks, ends) ==
    /\ at # "over" => ends = <<>> /\ InLoop(events, n, calls, blocks)
    /\ at \in {"idle", "opening"} => calls = <<>>
    /\ ends \in {<<"error">>, <<"aborted">>} => calls = <<>> \/ wasAborted
    /\ \A how \in {"stop", "toolUse"} : ends = <<how>> => Finished(events, blocks, how)

UseInv(u) ==
    UseOk(piPump[u], u \in piAborted, piGiven[u], read[u], mcpCalls[u], content[u], end[u])

MessageInv == PiTypeOK /\ \A u \in Uses : UseInv(u)

\* The other uses are where they were.
OnlyMoves(u) ==
    /\ piAborted \subseteq piAborted'
    /\ \A v \in Uses \ {u} :
          /\ piPump'[v] = piPump[v] /\ piGiven'[v] = piGiven[v] /\ read'[v] = read[v]
          /\ mcpCalls'[v] = mcpCalls[v] /\ content'[v] = content[v] /\ end'[v] = end[v]

LEMMA OthersKept ==
    ASSUME MessageInv, NEW u \in Uses, OnlyMoves(u), PiTypeOK', UseInv(u)'
    PROVE  MessageInv'
<1>1. ASSUME NEW v \in Uses, v # u PROVE UseInv(v)'
  <2>1. UseInv(v)
    BY DEF MessageInv
  <2>2. /\ piPump'[v] = piPump[v] /\ piGiven'[v] = piGiven[v] /\ read'[v] = read[v]
        /\ mcpCalls'[v] = mcpCalls[v] /\ content'[v] = content[v] /\ end'[v] = end[v]
        /\ v \in piAborted => v \in piAborted'
    BY <1>1 DEF OnlyMoves
  <2> QED
    BY <2>1, <2>2 DEF UseInv, UseOk
<1> QED
  BY <1>1 DEF MessageInv

\* What the invariant says of a use that is not over.
LEMMA Under ==
    ASSUME MessageInv, NEW u \in Uses, piPump[u] # "over"
    PROVE  /\ end[u] = <<>> /\ InLoop(piGiven[u], read[u], mcpCalls[u], content[u])
           /\ piPump[u] \in {"idle", "opening"} => mcpCalls[u] = <<>>
  BY DEF MessageInv, UseInv, UseOk

LEMMA EmptyLists == Lists(<<>>, {}) /\ \A S : Lists(<<>>, S) => S = {}
  BY DEF Lists, ToSet

LEMMA MessageInit == ASSUME PiInit PROVE MessageInv
<1>1. PiTypeOK
  <2>1. /\ <<>> \in Seq(PiEventKinds) /\ <<>> \in Seq(Ends)
        /\ <<>> \in Seq(BlockType) /\ <<>> \in Seq(Nat) /\ Len(<<>>) = 0
    <3> HIDE DEF PiEventKinds, Ends, BlockType
    <3> QED
      OBVIOUS
  <2>2. /\ current \in Uses \union {None} /\ fingerprint \in Secrets \union {None}
        /\ closed \subseteq Uses /\ kind \in [Uses -> {"stream", "models"}]
        /\ client \in [Uses -> Uses \union {None}]
        /\ piPump \in [Uses -> {"idle", "opening", "reading", "over"}]
        /\ piAborted \subseteq Uses /\ mcpSeen \subseteq Uses /\ cancelled \subseteq Uses
        /\ failure \in [Uses -> Errors \union {"none"}]
    BY DEF PiInit
  <2>3. /\ piGiven \in [Uses -> Seq(PiEventKinds)] /\ mcpCalls \in [Uses -> Seq(Nat)]
        /\ content \in [Uses -> Seq(BlockType)] /\ end \in [Uses -> Seq(Ends)]
    BY <2>1 DEF PiInit
  <2>4. read \in [Uses -> Nat] /\ \A u \in Uses : read[u] <= Len(piGiven[u])
    BY <2>1 DEF PiInit
  <2> QED
    BY <2>2, <2>3, <2>4 DEF PiTypeOK
<1>2. ASSUME NEW u \in Uses PROVE UseInv(u)
  <2>1. /\ piPump[u] = "idle" /\ read[u] = 0 /\ mcpCalls[u] = <<>> /\ content[u] = <<>>
        /\ end[u] = <<>>
    BY DEF PiInit
  <2>2. \A event : Held(piGiven[u], 0, event) = {}
    BY DEF Held
  <2>3. \A type : OfType(<<>>, type) = {}
    BY DEF OfType
  <2>4. InLoop(piGiven[u], read[u], mcpCalls[u], content[u])
    BY <2>1, <2>2, <2>3, EmptyLists DEF InLoop, Single
  <2> QED
    BY <2>1, <2>4 DEF UseInv, UseOk
<1> QED
  BY <1>1, <1>2 DEF MessageInv

LEMMA PushTyped ==
    ASSUME PiTypeOK, NEW u \in Uses, end[u] = <<>>, NEW how \in Ends,
           NEW error \in Errors \union {"none"}, Push(u, how, error)
    PROVE  /\ failure' \in [Uses -> Errors \union {"none"}] /\ end' \in [Uses -> Seq(Ends)]
           /\ piPump' \in [Uses -> {"idle", "opening", "reading", "over"}]
           /\ end'[u] = <<how>> /\ piPump'[u] = "over"
           /\ \A v \in Uses \ {u} : piPump'[v] = piPump[v] /\ end'[v] = end[v]
<1>1. Append(<<>>, how) = <<how>> /\ <<how>> \in Seq(Ends)
  <2> HIDE DEF Ends
  <2> QED
    OBVIOUS
<1>2. /\ failure' = [failure EXCEPT ![u] = error] /\ end' = [end EXCEPT ![u] = <<how>>]
      /\ piPump' = [piPump EXCEPT ![u] = "over"]
  BY <1>1 DEF Push
<1> QED
  BY <1>1, <1>2 DEF PiTypeOK

\* What a step does besides the message.
RestTyped ==
    /\ current \in Uses \union {None} /\ fingerprint \in Secrets \union {None}
    /\ closed \subseteq Uses /\ kind \in [Uses -> {"stream", "models"}]
    /\ client \in [Uses -> Uses \union {None}]
    /\ mcpSeen \subseteq Uses /\ cancelled \subseteq Uses

LEMMA RestOf == ASSUME PiTypeOK PROVE RestTyped
  BY DEF PiTypeOK, RestTyped

LEMMA DropTyped ==
    ASSUME PiTypeOK, NEW error, DropAfterAuthError(error)
    PROVE  /\ current' \in Uses \union {None} /\ fingerprint' \in Secrets \union {None}
           /\ closed' \subseteq Uses
  BY DEF PiTypeOK, DropAfterAuthError, Drop

LEMMA ClientForTyped ==
    ASSUME PiTypeOK, NEW u \in Uses, NEW secret \in Secrets, ClientFor(u, secret)
    PROVE  /\ current' \in Uses \union {None} /\ fingerprint' \in Secrets \union {None}
           /\ closed' \subseteq Uses /\ client' \in [Uses -> Uses \union {None}]
<1>1. /\ current \in Uses \union {None} /\ fingerprint \in Secrets \union {None}
      /\ closed \subseteq Uses /\ client \in [Uses -> Uses \union {None}]
  BY DEF PiTypeOK
<1>2. CASE UNCHANGED epochVars /\ client' = [client EXCEPT ![u] = current]
  BY <1>1, <1>2
<1>3. CASE /\ closed' = closed \union ({current} \ {None})
           /\ current' = u /\ fingerprint' = secret /\ client' = [client EXCEPT ![u] = u]
  BY <1>1, <1>3
<1> QED
  BY <1>2, <1>3 DEF ClientFor

\* A use that is not over ends without a message that is well.
LEMMA PushKeeps ==
    ASSUME MessageInv, NEW u \in Uses, piPump[u] # "over", RestTyped',
           NEW how \in {"aborted", "error", "models", "empty"},
           NEW error \in Errors \union {"none"}, Push(u, how, error),
           UNCHANGED <<piAborted, piGiven, read, mcpCalls, content>>,
           how \in {"error", "aborted"} => mcpCalls[u] = <<>> \/ u \in piAborted
    PROVE  MessageInv'
<1>1. PiTypeOK /\ end[u] = <<>>
  BY Under DEF MessageInv
<1>2. how \in Ends
  BY DEF Ends
<1>3. /\ failure' \in [Uses -> Errors \union {"none"}] /\ end' \in [Uses -> Seq(Ends)]
      /\ piPump' \in [Uses -> {"idle", "opening", "reading", "over"}]
      /\ end'[u] = <<how>> /\ piPump'[u] = "over"
      /\ \A v \in Uses \ {u} : piPump'[v] = piPump[v] /\ end'[v] = end[v]
  BY <1>1, <1>2, PushTyped
<1>4. PiTypeOK'
  BY <1>1, <1>3 DEF PiTypeOK, RestTyped
<1>5. OnlyMoves(u)
  BY <1>3 DEF OnlyMoves
<1>6. UseInv(u)'
  <2>1. how \notin {"stop", "toolUse"}
    OBVIOUS
  <2>2. \A w \in {"stop", "toolUse"} : <<how>> # <<w>>
    BY <2>1
  <2>3. <<how>> \in {<<"error">>, <<"aborted">>} => how \in {"error", "aborted"}
    OBVIOUS
  <2> QED
    BY <1>3, <2>2, <2>3 DEF UseInv, UseOk
<1> QED
  BY <1>4, <1>5, <1>6, OthersKept

\* It goes on to its client's answer, or to its loop.
LEMMA MoveKeeps ==
    ASSUME MessageInv, NEW u \in Uses, piPump[u] # "over", RestTyped',
           NEW to \in {"opening", "reading"}, piPump' = [piPump EXCEPT ![u] = to],
           to = "opening" => piPump[u] = "idle",
           UNCHANGED <<piAborted, piGiven, read, mcpCalls, content, failure, end>>
    PROVE  MessageInv'
<1>1. PiTypeOK'
  <2>1. piPump' \in [Uses -> {"idle", "opening", "reading", "over"}]
    BY DEF MessageInv, PiTypeOK
  <2>2. /\ piAborted' \subseteq Uses /\ failure' \in [Uses -> Errors \union {"none"}]
        /\ piGiven' \in [Uses -> Seq(PiEventKinds)] /\ mcpCalls' \in [Uses -> Seq(Nat)]
        /\ content' \in [Uses -> Seq(BlockType)] /\ end' \in [Uses -> Seq(Ends)]
        /\ read' \in [Uses -> Nat] /\ \A v \in Uses : read'[v] <= Len(piGiven'[v])
    BY DEF MessageInv, PiTypeOK
  <2> QED
    BY <2>1, <2>2 DEF PiTypeOK, RestTyped
<1>2. OnlyMoves(u) /\ piPump'[u] = to
  BY DEF OnlyMoves, MessageInv, PiTypeOK
<1>3. UseInv(u)'
  <2>1. /\ end[u] = <<>> /\ InLoop(piGiven[u], read[u], mcpCalls[u], content[u])
        /\ to = "opening" => mcpCalls[u] = <<>>
    BY Under
  <2> QED
    BY <1>2, <2>1 DEF UseInv, UseOk
<1> QED
  BY <1>1, <1>2, <1>3, OthersKept

LEMMA StartMessage == ASSUME MessageInv, NEW u \in Uses, Start(u) PROVE MessageInv'
<1>1. /\ PiTypeOK /\ piPump[u] = "idle" /\ mcpCalls[u] = <<>>
      /\ UNCHANGED <<kind, piAborted, runVars>>
  BY Under DEF MessageInv, Start
<1>2. CASE /\ IF kind[u] = "models" THEN Push(u, "empty", "none") ELSE Failed(u, "other")
           /\ UNCHANGED <<epochVars, client>>
  <2>1. RestTyped'
    BY <1>1, <1>2, RestOf DEF RestTyped
  <2> QED
    BY <1>1, <1>2, <2>1, PushKeeps DEF Failed, Errors
<1>3. ASSUME NEW secret \in Secrets, ClientFor(u, secret),
             IF kind[u] = "models" /\ u \in piAborted THEN Push(u, "empty", "none")
             ELSE piPump' = [piPump EXCEPT ![u] = "opening"] /\ UNCHANGED <<failure, end>>
      PROVE  MessageInv'
  <2>1. RestTyped'
    BY <1>1, <1>3, ClientForTyped DEF RestTyped, PiTypeOK
  <2> QED
    BY <1>1, <1>3, <2>1, PushKeeps, MoveKeeps
<1> QED
  BY <1>2, <1>3 DEF Start

LEMMA OpenedMessage == ASSUME MessageInv, NEW u \in Uses, Opened(u) PROVE MessageInv'
<1>1. /\ PiTypeOK /\ piPump[u] = "opening"
      /\ UNCHANGED <<epochVars, kind, client, piAborted, runVars>>
  BY DEF MessageInv, Opened
<1>2. RestTyped'
  BY <1>1, RestOf DEF RestTyped
<1>3. CASE kind[u] = "models"
  BY <1>1, <1>2, <1>3, PushKeeps DEF Opened
<1>4. CASE kind[u] # "models"
  BY <1>1, <1>2, <1>4, MoveKeeps DEF Opened
<1> QED
  BY <1>3, <1>4

LEMMA OpenFailsMessage == ASSUME MessageInv, NEW u \in Uses, OpenFails(u) PROVE MessageInv'
<1> PICK error \in Errors : PiFail(u, error)
  BY DEF OpenFails
<1>1. /\ PiTypeOK /\ piPump[u] = "opening" /\ mcpCalls[u] = <<>>
      /\ UNCHANGED <<kind, client, piAborted, runVars>> /\ DropAfterAuthError(error)
  BY Under DEF MessageInv, OpenFails, PiFail
<1>2. RestTyped'
  BY <1>1, DropTyped DEF RestTyped, PiTypeOK
<1> QED
  BY <1>1, <1>2, PushKeeps DEF PiFail, Failed

LEMMA ArriveMessage == ASSUME MessageInv, NEW u \in Uses, Arrive(u) PROVE MessageInv'
<1> PICK event \in PiEventKinds :
      /\ piGiven' = [piGiven EXCEPT ![u] = Append(@, event)]
      /\ mcpSeen' = IF event \in {"tool", "stranger"} THEN mcpSeen \union {u} ELSE mcpSeen
  BY DEF Arrive
<1>1. /\ PiTypeOK /\ piPump[u] = "reading"
      /\ UNCHANGED <<epochVars, kind, client, piPump, piAborted, read, mcpCalls, cancelled, content, failure, end>>
  BY DEF MessageInv, Arrive
<1>2. /\ piGiven[u] \in Seq(PiEventKinds) /\ read[u] \in Nat /\ read[u] <= Len(piGiven[u])
      /\ Len(piGiven[u]) \in Nat
  BY <1>1 DEF PiTypeOK
<1>3. /\ Append(piGiven[u], event) \in Seq(PiEventKinds)
      /\ Len(Append(piGiven[u], event)) = Len(piGiven[u]) + 1
      /\ \A i \in 1..Len(piGiven[u]) : Append(piGiven[u], event)[i] = piGiven[u][i]
  <2> HIDE DEF PiEventKinds
  <2> QED
    BY <1>2
<1>4. /\ piGiven' \in [Uses -> Seq(PiEventKinds)] /\ piGiven'[u] = Append(piGiven[u], event)
      /\ \A v \in Uses \ {u} : piGiven'[v] = piGiven[v]
  BY <1>1, <1>3 DEF PiTypeOK
<1>5. PiTypeOK'
  <2>1. \A v \in Uses : read[v] <= Len(piGiven'[v])
    BY <1>1, <1>2, <1>3, <1>4 DEF PiTypeOK
  <2>2. mcpSeen' \subseteq Uses
    BY <1>1 DEF PiTypeOK
  <2> QED
    BY <1>1, <1>4, <2>1, <2>2 DEF PiTypeOK
<1>6. OnlyMoves(u)
  BY <1>1, <1>4 DEF OnlyMoves
<1>7. UseInv(u)'
  <2>1. end[u] = <<>> /\ InLoop(piGiven[u], read[u], mcpCalls[u], content[u])
    BY <1>1, Under
  <2>2. \A e : Held(piGiven'[u], read[u], e) = Held(piGiven[u], read[u], e)
    BY <1>2, <1>3, <1>4 DEF Held
  <2>3. InLoop(piGiven'[u], read[u], mcpCalls[u], content[u])
    BY <2>1, <2>2 DEF InLoop
  <2> QED
    BY <1>1, <2>1, <2>3 DEF UseInv, UseOk
<1> QED
  BY <1>5, <1>6, <1>7, OthersKept

LEMMA AbortMessage == ASSUME MessageInv, NEW u \in Uses, PiAbort(u) PROVE MessageInv'
<1>1. /\ piAborted' = piAborted \union {u}
      /\ UNCHANGED <<epochVars, kind, client, piPump, runVars, failure, end>>
  BY DEF PiAbort
<1>2. PiTypeOK'
  BY <1>1 DEF MessageInv, PiTypeOK
<1>3. OnlyMoves(u)
  BY <1>1 DEF OnlyMoves
<1>4. UseInv(u)'
  BY <1>1 DEF MessageInv, UseInv, UseOk
<1> QED
  BY <1>2, <1>3, <1>4, OthersKept

\* The loop reads one more event.
LEMMA OneMore ==
    ASSUME NEW events \in Seq(PiEventKinds), NEW n \in Nat
    PROVE  \A event : Held(events, n + 1, event) =
                IF events[n + 1] = event THEN Held(events, n, event) \union {n + 1}
                ELSE Held(events, n, event)
  BY DEF Held

LEMMA ReadMessage == ASSUME MessageInv, NEW u \in Uses, PiReadEvent(u) PROVE MessageInv'
<1> DEFINE i == read[u] + 1
           event == piGiven[u][i]
<1>1. /\ PiTypeOK /\ piPump[u] = "reading" /\ read[u] < Len(piGiven[u])
      /\ UNCHANGED <<epochVars, kind, client, piAborted, piGiven, mcpSeen>>
  BY DEF MessageInv, PiReadEvent
<1>2. cancelled' \subseteq Uses /\ RestTyped'
  <2>1. cancelled' \in {cancelled, cancelled \union {u}}
    BY <1>1 DEF PiReadEvent
  <2> QED
    BY <1>1, <2>1, RestOf DEF RestTyped
<1>3. CASE u \in piAborted
  <2>1. Failed(u, "other") /\ UNCHANGED <<read, mcpCalls, content>>
    BY <1>3 DEF PiReadEvent
  <2> QED
    BY <1>1, <1>2, <1>3, <2>1, PushKeeps DEF Failed, Errors
<1>4. CASE u \notin piAborted
  <2>1. /\ read' = [read EXCEPT ![u] = i]
        /\ content' = IF event \in {"tool", "stranger"} THEN content
                      ELSE [content EXCEPT ![u] = AppendTo(@, event, i)]
        /\ mcpCalls' = IF event = "tool" THEN [mcpCalls EXCEPT ![u] = Append(@, i)] ELSE mcpCalls
        /\ UNCHANGED <<piPump, failure, end>>
    BY <1>4 DEF PiReadEvent
  <2>2. /\ piGiven[u] \in Seq(PiEventKinds) /\ read[u] \in Nat /\ i \in 1..Len(piGiven[u])
        /\ i \in Nat /\ content[u] \in Seq(BlockType) /\ mcpCalls[u] \in Seq(Nat)
    BY <1>1 DEF PiTypeOK
  <2>3. event \in PiEventKinds
    BY <2>2
  <2>4. end[u] = <<>> /\ InLoop(piGiven[u], read[u], mcpCalls[u], content[u])
    BY <1>1, Under
  <2>5. \A e : Held(piGiven[u], i, e) =
             IF event = e THEN Held(piGiven[u], read[u], e) \union {i}
             ELSE Held(piGiven[u], read[u], e)
    BY <2>2, OneMore
  <2>6. \A e : \A j \in Held(piGiven[u], read[u], e) : j < i
    BY <2>2 DEF Held
  <2>7. /\ content' \in [Uses -> Seq(BlockType)] /\ mcpCalls' \in [Uses -> Seq(Nat)]
        /\ InLoop(piGiven[u], i, mcpCalls'[u], content'[u])
        /\ \A v \in Uses \ {u} : mcpCalls'[v] = mcpCalls[v] /\ content'[v] = content[v]
    <3>1. CASE event = "stranger"
      <4>1. content' = content /\ mcpCalls' = mcpCalls
        BY <2>1, <3>1
      <4>2. \A e \in MessageTypes \union {"tool"} : Held(piGiven[u], i, e) = Held(piGiven[u], read[u], e)
        BY <2>5, <3>1 DEF MessageTypes
      <4>3. content \in [Uses -> Seq(BlockType)] /\ mcpCalls \in [Uses -> Seq(Nat)]
        BY <1>1 DEF PiTypeOK
      <4>4. InLoop(piGiven[u], i, mcpCalls[u], content[u])
        BY <2>4, <4>2 DEF InLoop
      <4> QED
        BY <4>1, <4>3, <4>4
    <3>2. CASE event = "tool"
      <4>1. content' = content /\ mcpCalls' = [mcpCalls EXCEPT ![u] = Append(@, i)]
        BY <2>1, <3>2
      <4>2. \A e \in MessageTypes : Held(piGiven[u], i, e) = Held(piGiven[u], read[u], e)
        BY <2>5, <3>2 DEF MessageTypes
      <4>3. Held(piGiven[u], i, "tool") = Held(piGiven[u], read[u], "tool") \union {i}
        BY <2>5, <3>2
      <4>4. /\ Append(mcpCalls[u], i) \in Seq(Nat)
            /\ Lists(Append(mcpCalls[u], i), Held(piGiven[u], i, "tool"))
        BY <2>2, <2>4, <2>6, <4>3, ListsAppend DEF InLoop
      <4>5. mcpCalls' \in [Uses -> Seq(Nat)] /\ mcpCalls'[u] = Append(mcpCalls[u], i)
        BY <1>1, <4>1, <4>4 DEF PiTypeOK
      <4> QED
        BY <1>1, <2>4, <4>1, <4>2, <4>4, <4>5 DEF InLoop, PiTypeOK
    <3>3. CASE event \in MessageTypes
      <4> DEFINE r == AppendTo(content[u], event, i)
      <4>1. content' = [content EXCEPT ![u] = r] /\ mcpCalls' = mcpCalls
        BY <2>1, <3>3 DEF MessageTypes
      <4>2. Single(content[u], event, Held(piGiven[u], read[u], event))
        BY <2>4, <3>3 DEF InLoop
      <4>3. /\ r \in Seq(BlockType)
            /\ Single(r, event, Held(piGiven[u], read[u], event) \union {i})
            /\ \A other : other # event =>
                  /\ OfType(r, other) = OfType(content[u], other)
                  /\ \A b \in OfType(content[u], other) : r[b] = content[u][b]
        BY <2>2, <2>6, <3>3, <4>2, AppendToSingle
      <4> HIDE DEF r
      <4>4. content' \in [Uses -> Seq(BlockType)] /\ content'[u] = r
        BY <1>1, <4>1, <4>3 DEF PiTypeOK
      <4>5. ASSUME NEW type \in MessageTypes PROVE Single(r, type, Held(piGiven[u], i, type))
        <5>1. CASE type = event
          BY <2>5, <4>3, <5>1
        <5>2. CASE type # event
          BY <2>4, <2>5, <4>3, <5>2, SingleStays DEF InLoop
        <5> QED
          BY <5>1, <5>2
      <4>6. OfType(r, "toolCall") = {} /\ Held(piGiven[u], i, "tool") = Held(piGiven[u], read[u], "tool")
        <5>1. event # "toolCall" /\ event # "tool"
          BY <3>3 DEF MessageTypes
        <5> QED
          BY <2>4, <2>5, <4>3, <5>1 DEF InLoop
      <4>7. InLoop(piGiven[u], i, mcpCalls[u], r)
        BY <2>4, <4>5, <4>6 DEF InLoop
      <4> QED
        BY <1>1, <4>1, <4>4, <4>7 DEF PiTypeOK
    <3> QED
      BY <2>3, <3>1, <3>2, <3>3 DEF PiEventKinds, MessageTypes
  <2>8. read' \in [Uses -> Nat] /\ read'[u] = i /\ \A v \in Uses \ {u} : read'[v] = read[v]
    BY <1>1, <2>1, <2>2 DEF PiTypeOK
  <2>9. PiTypeOK'
    <3>1. ASSUME NEW v \in Uses PROVE read'[v] <= Len(piGiven[v])
      <4>1. read[v] <= Len(piGiven[v])
        BY <1>1 DEF PiTypeOK
      <4>2. i <= Len(piGiven[u])
        BY <2>2
      <4> HIDE DEF i
      <4> QED
        BY <2>8, <4>1, <4>2
    <3>2. /\ piPump' \in [Uses -> {"idle", "opening", "reading", "over"}]
          /\ piAborted' \subseteq Uses /\ failure' \in [Uses -> Errors \union {"none"}]
          /\ piGiven' \in [Uses -> Seq(PiEventKinds)] /\ end' \in [Uses -> Seq(Ends)]
      BY <1>1, <2>1 DEF PiTypeOK
    <3>3. \A v \in Uses : read'[v] <= Len(piGiven'[v])
      BY <1>1, <3>1
    <3> QED
      BY <1>2, <2>7, <2>8, <3>2, <3>3 DEF PiTypeOK, RestTyped
  <2>10. OnlyMoves(u)
    BY <1>1, <2>1, <2>7, <2>8 DEF OnlyMoves
  <2>11. UseInv(u)'
    BY <1>1, <2>1, <2>4, <2>7, <2>8 DEF UseInv, UseOk
  <2> QED
    BY <2>9, <2>10, <2>11, OthersKept
<1> QED
  BY <1>3, <1>4

\* All events are read and the calls are handed over.
LEMMA HandOverMessage ==
    ASSUME MessageInv, NEW u \in Uses, piPump[u] = "reading", read[u] = Len(piGiven[u]),
           mcpCalls[u] # <<>>, FinishToolUse(u), RestTyped',
           UNCHANGED <<piAborted, piGiven, read, mcpCalls>>
    PROVE  MessageInv'
<1> DEFINE r == content[u] \o [i \in DOMAIN mcpCalls[u] |->
                                  [type |-> "toolCall", events |-> <<mcpCalls[u][i]>>]]
           tools == Held(piGiven[u], read[u], "tool")
           of == OfType(r, "toolCall")
<1>1. /\ PiTypeOK /\ end[u] = <<>>
      /\ InLoop(piGiven[u], read[u], mcpCalls[u], content[u])
  BY Under DEF MessageInv
<1>2. /\ content[u] \in Seq(BlockType) /\ mcpCalls[u] \in Seq(Nat)
  BY <1>1 DEF PiTypeOK
<1>3. /\ content' = [content EXCEPT ![u] = r] /\ Push(u, "toolUse", "none")
  BY DEF FinishToolUse
<1>4. Lists(mcpCalls[u], tools) /\ OfType(content[u], "toolCall") = {}
  BY <1>1 DEF InLoop
<1>5. /\ r \in Seq(BlockType)
      /\ \A type \in MessageTypes :
            /\ OfType(r, type) = OfType(content[u], type)
            /\ \A b \in OfType(content[u], type) : r[b] = content[u][b]
      /\ {r[b].events : b \in of} = {<<i>> : i \in tools}
      /\ \A b, c \in of : b < c => r[b].events[1] < r[c].events[1]
  <2> HIDE DEF tools
  <2> QED
    BY <1>2, <1>4, CallsJoin
<1>6. tools # {}
  <2>1. mcpCalls[u][1] \in ToSet(mcpCalls[u])
    <3>1. 1 \in DOMAIN mcpCalls[u]
      BY <1>2
    <3> QED
      BY <3>1 DEF ToSet
  <2> QED
    BY <1>4, <2>1 DEF Lists
<1> HIDE DEF r
<1>7. \A type \in MessageTypes : Single(r, type, Held(piGiven[u], read[u], type))
  BY <1>1, <1>5, SingleStays DEF InLoop
<1>8. Finished(piGiven[u], r, "toolUse")
  BY <1>5, <1>6, <1>7 DEF Finished
<1>9. /\ content' \in [Uses -> Seq(BlockType)] /\ content'[u] = r
      /\ \A v \in Uses \ {u} : content'[v] = content[v]
  BY <1>1, <1>3, <1>5 DEF PiTypeOK
<1>10. /\ failure' \in [Uses -> Errors \union {"none"}] /\ end' \in [Uses -> Seq(Ends)]
       /\ piPump' \in [Uses -> {"idle", "opening", "reading", "over"}]
       /\ end'[u] = <<"toolUse">> /\ piPump'[u] = "over"
       /\ \A v \in Uses \ {u} : piPump'[v] = piPump[v] /\ end'[v] = end[v]
  BY <1>1, <1>3, PushTyped DEF Ends
<1>11. PiTypeOK'
  BY <1>1, <1>9, <1>10 DEF PiTypeOK, RestTyped
<1>12. OnlyMoves(u)
  BY <1>9, <1>10 DEF OnlyMoves
<1>13. UseInv(u)'
  <2>1. \A how \in {"stop", "toolUse"} : <<"toolUse">> = <<how>> => how = "toolUse"
    OBVIOUS
  <2> QED
    BY <1>8, <1>9, <1>10, <2>1 DEF UseInv, UseOk
<1> QED
  BY <1>11, <1>12, <1>13, OthersKept

LEMMA RunFailsMessage == ASSUME MessageInv, NEW u \in Uses, PiRunFails(u) PROVE MessageInv'
<1> PICK error \in Errors :
      /\ Failure(u)
      /\ IF mcpCalls[u] # <<>> /\ u \notin piAborted
         THEN FinishToolUse(u) /\ UNCHANGED epochVars
         ELSE /\ Failed(u, error) /\ DropAfterAuthError(error)
              /\ cancelled' = cancelled \union {u} /\ UNCHANGED content
  BY DEF PiRunFails
<1>1. /\ PiTypeOK /\ piPump[u] = "reading" /\ read[u] = Len(piGiven[u])
      /\ UNCHANGED <<kind, client, piAborted, piGiven, read, mcpCalls, mcpSeen>>
  BY DEF MessageInv, PiRunFails, Failure
<1>2. CASE mcpCalls[u] # <<>> /\ u \notin piAborted
  <2>1. FinishToolUse(u) /\ UNCHANGED epochVars /\ cancelled' = cancelled \union {u}
    BY <1>2 DEF FinishToolUse
  <2>2. RestTyped'
    BY <1>1, <2>1, RestOf DEF RestTyped
  <2> QED
    BY <1>1, <1>2, <2>1, <2>2, HandOverMessage
<1>3. CASE mcpCalls[u] = <<>> \/ u \in piAborted
  <2>1. /\ Failed(u, error) /\ DropAfterAuthError(error)
        /\ cancelled' = cancelled \union {u} /\ UNCHANGED content
    BY <1>3
  <2>2. RestTyped'
    BY <1>1, <2>1, DropTyped DEF RestTyped, PiTypeOK
  <2> QED
    BY <1>1, <1>3, <2>1, <2>2, PushKeeps DEF Failed
<1> QED
  BY <1>2, <1>3

LEMMA RunEndsMessage == ASSUME MessageInv, NEW u \in Uses, RunEnds(u) PROVE MessageInv'
<1>1. /\ PiTypeOK /\ piPump[u] = "reading" /\ read[u] = Len(piGiven[u])
      /\ UNCHANGED <<epochVars, kind, client, piAborted, piGiven, read, mcpCalls, mcpSeen>>
  BY DEF MessageInv, RunEnds
<1>2. CASE mcpCalls[u] # <<>>
  <2>1. FinishToolUse(u) /\ cancelled' = cancelled \union {u}
    BY <1>2 DEF RunEnds, FinishToolUse
  <2>2. RestTyped'
    BY <1>1, <2>1, RestOf DEF RestTyped
  <2> QED
    BY <1>1, <1>2, <2>1, <2>2, HandOverMessage
<1>3. CASE mcpCalls[u] = <<>>
  <2>1. Push(u, "stop", "none") /\ UNCHANGED <<cancelled, content>>
    BY <1>3 DEF RunEnds
  <2>2. /\ end[u] = <<>> /\ InLoop(piGiven[u], read[u], mcpCalls[u], content[u])
    BY <1>1, Under
  <2>3. Held(piGiven[u], read[u], "tool") = {}
    BY <1>3, <2>2, EmptyLists DEF InLoop
  <2>4. Finished(piGiven[u], content[u], "stop")
    BY <1>1, <2>2, <2>3 DEF Finished, InLoop
  <2>5. /\ failure' \in [Uses -> Errors \union {"none"}] /\ end' \in [Uses -> Seq(Ends)]
        /\ piPump' \in [Uses -> {"idle", "opening", "reading", "over"}]
        /\ end'[u] = <<"stop">> /\ piPump'[u] = "over"
        /\ \A v \in Uses \ {u} : piPump'[v] = piPump[v] /\ end'[v] = end[v]
    BY <1>1, <2>1, <2>2, PushTyped DEF Ends
  <2>6. PiTypeOK'
    BY <1>1, <2>1, <2>5 DEF PiTypeOK
  <2>7. OnlyMoves(u)
    BY <1>1, <2>1, <2>5 DEF OnlyMoves
  <2>8. UseInv(u)'
    <3>1. \A how \in {"stop", "toolUse"} : <<"stop">> = <<how>> => how = "stop"
      OBVIOUS
    <3> QED
      BY <1>1, <1>3, <2>1, <2>4, <2>5, <3>1 DEF UseInv, UseOk
  <2> QED
    BY <2>6, <2>7, <2>8, OthersKept
<1> QED
  BY <1>2, <1>3

LEMMA MessageNext == ASSUME MessageInv, [PiNext]_piVars PROVE MessageInv'
<1>1. CASE UNCHANGED piVars
  <2>1. PiTypeOK'
    BY <1>1 DEF MessageInv, PiTypeOK
  <2>2. \A u \in Uses : UseInv(u)'
    BY <1>1 DEF MessageInv, UseInv
  <2> QED
    BY <2>1, <2>2 DEF MessageInv
<1>2. CASE PiNext
  BY <1>2, StartMessage, OpenedMessage, OpenFailsMessage, ArriveMessage, ReadMessage,
     RunFailsMessage, RunEndsMessage, AbortMessage DEF PiNext
<1> QED
  BY <1>1, <1>2

\* The inductive invariant of the uses holds in every reachable state.
THEOREM MessageInvariance == PiSpec => []MessageInv
<1> QED
  BY MessageInit, MessageNext, PTL DEF PiSpec

\* Every state of the Pi provider is of its type.
THEOREM PiTypeCorrect == PiSpec => []PiTypeOK
<1>1. MessageInv => PiTypeOK
  BY DEF MessageInv
<1> QED
  BY <1>1, MessageInvariance, PTL

LEMMA InvWhole == ASSUME MessageInv PROVE MessageWhole
<1> SUFFICES ASSUME NEW u \in Uses
             PROVE  /\ end[u] \in {<<"error">>, <<"aborted">>} => mcpCalls[u] = <<>> \/ u \in piAborted
                    /\ end[u] \in {<<"stop">>, <<"toolUse">>} =>
                        /\ OneBlock(u, "text") /\ OneBlock(u, "thinking") /\ CallBlocks(u)
                        /\ end[u] = <<"toolUse">> <=> Events(u, "tool") # {}
  BY DEF MessageWhole
<1>1. UseInv(u) /\ piGiven[u] \in Seq(PiEventKinds)
  BY DEF MessageInv, PiTypeOK
<1>2. end[u] \in {<<"error">>, <<"aborted">>} => mcpCalls[u] = <<>> \/ u \in piAborted
  BY <1>1 DEF UseInv, UseOk
<1>3. ASSUME NEW how \in {"stop", "toolUse"}, end[u] = <<how>>
      PROVE  /\ OneBlock(u, "text") /\ OneBlock(u, "thinking") /\ CallBlocks(u)
             /\ end[u] = <<"toolUse">> <=> Events(u, "tool") # {}
  <2>1. Finished(piGiven[u], content[u], how)
    BY <1>1, <1>3 DEF UseInv, UseOk
  <2>2. \A event : Events(u, event) = Held(piGiven[u], Len(piGiven[u]), event)
    <3>1. DOMAIN piGiven[u] = 1..Len(piGiven[u])
      BY <1>1
    <3> QED
      BY <3>1 DEF Events, Held
  <2>3. \A type : BlocksOf(u, type) = OfType(content[u], type)
    BY DEF BlocksOf, OfType
  <2>4. OneBlock(u, "text") /\ OneBlock(u, "thinking")
    BY <2>1, <2>2, <2>3 DEF Finished, Single, OneBlock, MessageTypes
  <2>5. CallBlocks(u)
    BY <2>1, <2>2, <2>3 DEF Finished, CallBlocks
  <2>6. end[u] = <<"toolUse">> <=> how = "toolUse"
    BY <1>3
  <2> QED
    BY <2>1, <2>2, <2>4, <2>5, <2>6 DEF Finished
<1> QED
  BY <1>2, <1>3

\* A message that ends well is whole: it has all text, all thinking and all
\* calls of its run, each in order, for any number of uses and any length of
\* run; and an end that is not the caller's abort loses no call.
THEOREM MessageWholeHolds == PiSpec => []MessageWhole
<1> QED
  BY MessageInvariance, InvWhole, PTL
=============================================================================
