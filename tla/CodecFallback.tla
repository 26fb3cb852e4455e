--------------------------- MODULE CodecFallback ---------------------------
(***************************************************************************)
(* transport/codec.ts: the transport of one origin.  It speaks JSON until  *)
(* the origin answers HTTP 415, then repeats the call in binary and        *)
(* remembers, for unary calls and for streams apart, that it did.          *)
(*                                                                         *)
(* The memory is shared by every call of the origin and is read again      *)
(* after an await.  A stream that is repeated replays the messages its     *)
(* first attempt consumed, from a source that both attempts read: the      *)
(* abandoned attempt may still have a read outstanding there.              *)
(***************************************************************************)
EXTENDS Sequences, Naturals, SequencesExt

CONSTANTS
    Calls,      \* unary calls
    Streams,    \* bidi streams
    MaxSent     \* bound: how many messages a stream is given to send

ASSUME ConstantsAssumption == MaxSent \in Nat

Kinds == {"unary", "bidi"}
Attempts == {"first", "second"}

VARIABLES
    takesJson,  \* the kinds of call for which the origin takes JSON
    memory,     \* CodecMemory
    call,       \* state of each unary call
    stream,     \* state of each stream
    given,      \* how many messages each stream was given, and
    closed,     \* whether its input was closed behind them
    consumed,   \* how many of them were read from its input
    recorded,   \* recorded: what the replay source has read
    asking,     \* the attempts whose pull() is outstanding, in order
    sourceDone, \* sourceDone: a pull() found the input at its end
    replaying,  \* the second attempt is still inside yield* recorded
    replayed,   \* how many of recorded it has yielded
    binaryWire, \* what was sent to the origin in binary
    orphaned    \* history: the 415 found a pull() of the first attempt

unaryVars == <<call>>
inputVars == <<given, closed>>
sourceVars == <<consumed, recorded, asking, sourceDone>>
secondVars == <<replaying, replayed, binaryWire>>
streamVars == <<stream, inputVars, sourceVars, secondVars, orphaned>>
vars == <<takesJson, memory, unaryVars, streamVars>>

TypeOK ==
    /\ takesJson \subseteq Kinds
    /\ memory \in [Kinds -> {"json", "binary"}]
    /\ call \in [Calls -> {"idle", "json", "binary", "done", "failed", "rejected"}]
    /\ stream \in [Streams -> {"idle", "json", "binary", "direct", "failed"}]
    /\ given \in [Streams -> 0 .. MaxSent]
    /\ closed \in [Streams -> BOOLEAN]
    /\ consumed \in [Streams -> 0 .. MaxSent]
    /\ recorded \in [Streams -> Seq(1 .. MaxSent)]
    /\ asking \in [Streams -> Seq(Attempts)]
    /\ sourceDone \in [Streams -> BOOLEAN]
    /\ replaying \in [Streams -> BOOLEAN]
    /\ replayed \in [Streams -> 0 .. MaxSent]
    /\ binaryWire \in [Streams -> Seq(1 .. MaxSent)]
    /\ orphaned \in [Streams -> BOOLEAN]

Init ==
    /\ takesJson \in SUBSET Kinds
    /\ memory = [k \in Kinds |-> "json"]
    /\ call = [c \in Calls |-> "idle"]
    /\ stream = [s \in Streams |-> "idle"]
    /\ given = [s \in Streams |-> 0]
    /\ closed = [s \in Streams |-> FALSE]
    /\ consumed = [s \in Streams |-> 0]
    /\ recorded = [s \in Streams |-> <<>>]
    /\ asking = [s \in Streams |-> <<>>]
    /\ sourceDone = [s \in Streams |-> FALSE]
    /\ replaying = [s \in Streams |-> TRUE]
    /\ replayed = [s \in Streams |-> 0]
    /\ binaryWire = [s \in Streams |-> <<>>]
    /\ orphaned = [s \in Streams |-> FALSE]

-----------------------------------------------------------------------------
(* Unary calls: invokeWithFallback.                                        *)

\* The preferred codec is read once, before the call is made.
Invoke(c) ==
    /\ call[c] = "idle"
    /\ call' = [call EXCEPT ![c] = memory["unary"]]
    /\ UNCHANGED <<takesJson, memory, streamVars>>

Return(c) ==
    /\ \/ call[c] = "binary"
       \/ call[c] = "json" /\ "unary" \in takesJson
    /\ call' = [call EXCEPT ![c] = "done"]
    /\ UNCHANGED <<takesJson, memory, streamVars>>

\* MUTANT: any failure is taken for a refusal of the codec.
FailAndSwitch(c) ==
    /\ call[c] \in {"json", "binary"}
    /\ call' = [call EXCEPT ![c] = "failed"]
    /\ memory' = [memory EXCEPT !["unary"] = "binary"]
    /\ UNCHANGED <<takesJson, streamVars>>

\* Any failure but a 415 to JSON: it is thrown.
Fail(c) ==
    /\ call[c] \in {"json", "binary"}
    /\ call' = [call EXCEPT ![c] = "failed"]
    /\ UNCHANGED <<takesJson, memory, streamVars>>

\* A 415 to JSON.  The codec remembered now decides whether the call is
\* repeated: it is thrown when another call was refused in the meantime.
Refuse(c) ==
    /\ call[c] = "json"
    /\ "unary" \notin takesJson
    /\ IF memory["unary"] = "binary"
       THEN call' = [call EXCEPT ![c] = "rejected"] /\ UNCHANGED memory
       ELSE /\ memory' = [memory EXCEPT !["unary"] = "binary"]
            /\ call' = [call EXCEPT ![c] = "binary"]
    /\ UNCHANGED <<takesJson, streamVars>>

-----------------------------------------------------------------------------
(* Streams: the input, the first attempt, and the second.                  *)

\* stream: the input is read directly when the codec is known to be binary.
Open(s) ==
    /\ stream[s] = "idle"
    /\ stream' = [stream EXCEPT ![s] = IF memory["bidi"] = "binary" THEN "direct" ELSE "json"]
    /\ UNCHANGED <<takesJson, memory, unaryVars, inputVars, sourceVars, secondVars, orphaned>>

\* The outbound queue of the run is given a message, or is closed.
Give(s) ==
    /\ ~closed[s]
    /\ given[s] < MaxSent
    /\ given' = [given EXCEPT ![s] = @ + 1]
    /\ UNCHANGED <<takesJson, memory, unaryVars, stream, closed, sourceVars, secondVars, orphaned>>

CloseInput(s) ==
    /\ ~closed[s]
    /\ closed' = [closed EXCEPT ![s] = TRUE]
    /\ UNCHANGED <<takesJson, memory, unaryVars, stream, given, sourceVars, secondVars, orphaned>>

IsAsking(s, attempt) == Contains(asking[s], attempt)

Ask(s, attempt) == asking' = [asking EXCEPT ![s] = Append(@, attempt)]

\* The JSON transport asks its generator for the next message: pull().
FirstAsks(s) ==
    /\ stream[s] = "json"
    /\ ~IsAsking(s, "first")
    /\ ~sourceDone[s]
    /\ Ask(s, "first")
    /\ UNCHANGED <<takesJson, memory, unaryVars, stream, inputVars, consumed, recorded,
                   sourceDone, secondVars, orphaned>>

\* The input has a message for the oldest pull(): it is recorded, and yielded
\* by the attempt that asked.  An abandoned first attempt yields to nobody.
Pulled(s) ==
    LET message == consumed[s] + 1 IN
    /\ asking[s] # <<>>
    /\ consumed[s] < given[s]
    /\ asking' = [asking EXCEPT ![s] = Tail(@)]
    /\ consumed' = [consumed EXCEPT ![s] = message]
    /\ recorded' = [recorded EXCEPT ![s] = Append(@, message)]
    /\ binaryWire' = [binaryWire EXCEPT ![s] =
                         IF Head(asking[s]) = "second" THEN Append(@, message) ELSE @]
    /\ UNCHANGED <<takesJson, memory, unaryVars, stream, inputVars, sourceDone, replaying,
                   replayed, orphaned>>

\* The input is at its end: the attempt that asked is done.
PulledEnd(s) ==
    /\ asking[s] # <<>>
    /\ consumed[s] = given[s] /\ closed[s]
    /\ asking' = [asking EXCEPT ![s] = Tail(@)]
    /\ sourceDone' = [sourceDone EXCEPT ![s] = TRUE]
    /\ UNCHANGED <<takesJson, memory, unaryVars, stream, inputVars, consumed, recorded,
                   secondVars, orphaned>>

\* MUTANT: a stream that is refused changes the codec of unary calls as well.
RefuseStreamForAll(s) ==
    /\ stream[s] = "json"
    /\ "bidi" \notin takesJson
    /\ memory' = [k \in Kinds |-> "binary"]
    /\ stream' = [stream EXCEPT ![s] = "binary"]
    /\ orphaned' = [orphaned EXCEPT ![s] = IsAsking(s, "first")]
    /\ UNCHANGED <<takesJson, unaryVars, inputVars, sourceVars, secondVars>>

\* A 415 to JSON: the stream is repeated in binary from the replay source,
\* with whatever pull() the first attempt still has outstanding.
RefuseStream(s) ==
    /\ stream[s] = "json"
    /\ "bidi" \notin takesJson
    /\ memory' = [memory EXCEPT !["bidi"] = "binary"]
    /\ stream' = [stream EXCEPT ![s] = "binary"]
    /\ orphaned' = [orphaned EXCEPT ![s] = IsAsking(s, "first")]
    /\ UNCHANGED <<takesJson, unaryVars, inputVars, sourceVars, secondVars>>

FailStream(s) ==
    /\ stream[s] \in {"json", "binary", "direct"}
    /\ stream' = [stream EXCEPT ![s] = "failed"]
    /\ UNCHANGED <<takesJson, memory, unaryVars, inputVars, sourceVars, secondVars, orphaned>>

\* MUTANT: the second attempt keeps looking at what was recorded.
ReplayAgain(s) ==
    /\ stream[s] = "binary"
    /\ replayed[s] < Len(recorded[s])
    /\ replayed' = [replayed EXCEPT ![s] = @ + 1]
    /\ binaryWire' = [binaryWire EXCEPT ![s] = Append(@, recorded[s][replayed[s] + 1])]
    /\ UNCHANGED <<takesJson, memory, unaryVars, stream, inputVars, sourceVars, replaying,
                   orphaned>>

\* yield* recorded, which also sees what is recorded while it runs.
Replay(s) ==
    /\ stream[s] = "binary"
    /\ replaying[s]
    /\ replayed[s] < Len(recorded[s])
    /\ replayed' = [replayed EXCEPT ![s] = @ + 1]
    /\ binaryWire' = [binaryWire EXCEPT ![s] = Append(@, recorded[s][replayed[s] + 1])]
    /\ UNCHANGED <<takesJson, memory, unaryVars, stream, inputVars, sourceVars, replaying,
                   orphaned>>

\* MUTANT: the second attempt does not replay what the first has read.
SecondAsksAtOnce(s) ==
    /\ stream[s] = "binary"
    /\ ~IsAsking(s, "second")
    /\ ~sourceDone[s]
    /\ Ask(s, "second")
    /\ replaying' = [replaying EXCEPT ![s] = FALSE]
    /\ UNCHANGED <<takesJson, memory, unaryVars, stream, inputVars, consumed, recorded,
                   sourceDone, replayed, binaryWire, orphaned>>

\* All is replayed: from here the second attempt reads the source itself.
SecondAsks(s) ==
    /\ stream[s] = "binary"
    /\ replaying[s] => replayed[s] = Len(recorded[s])
    /\ ~IsAsking(s, "second")
    /\ ~sourceDone[s]
    /\ Ask(s, "second")
    /\ replaying' = [replaying EXCEPT ![s] = FALSE]
    /\ UNCHANGED <<takesJson, memory, unaryVars, stream, inputVars, consumed, recorded,
                   sourceDone, replayed, binaryWire, orphaned>>

\* The binary transport reads the input of a stream that needs no replay.
DirectSends(s) ==
    /\ stream[s] = "direct"
    /\ consumed[s] < given[s]
    /\ consumed' = [consumed EXCEPT ![s] = @ + 1]
    /\ binaryWire' = [binaryWire EXCEPT ![s] = Append(@, consumed[s] + 1)]
    /\ UNCHANGED <<takesJson, memory, unaryVars, stream, inputVars, recorded, asking,
                   sourceDone, replaying, replayed, orphaned>>

-----------------------------------------------------------------------------
Next ==
    \/ \E c \in Calls : Invoke(c) \/ Return(c) \/ Fail(c) \/ Refuse(c)
    \/ \E s \in Streams :
          \/ Open(s) \/ Give(s) \/ CloseInput(s)
          \/ FirstAsks(s) \/ Pulled(s) \/ PulledEnd(s)
          \/ RefuseStream(s) \/ FailStream(s)
          \/ Replay(s) \/ SecondAsks(s) \/ DirectSends(s)

Spec == Init /\ [][Next]_vars

-----------------------------------------------------------------------------
\* An origin that takes JSON for a kind of call is always spoken to in JSON
\* there: neither another failure nor the other kind of call changes it.
FallbackOnlyWhenRefused ==
    /\ \A k \in Kinds \intersect takesJson : memory[k] = "json"
    /\ "unary" \in takesJson => \A c \in Calls : call[c] # "binary"
    /\ "bidi" \in takesJson => \A s \in Streams : binaryWire[s] = <<>>

\* What a repeated stream sends is in order and without duplicates: replay
\* and new messages do not overlap.
WireInOrder ==
    \A s \in Streams : \A i, j \in DOMAIN binaryWire[s] :
        i < j => binaryWire[s][i] < binaryWire[s][j]

\* The messages read from the input of a repeated stream that neither have
\* been sent in binary nor are still to be replayed.
Lost(s) == {m \in 1 .. consumed[s] : ~Contains(binaryWire[s], m)}
             \ (IF replaying[s] THEN ToSet(recorded[s]) ELSE {})

\* Changing the codec loses nothing but what the read that the 415 left
\* outstanding took from the input: one message at most.
OnlyOrphanLost ==
    \A s \in Streams : stream[s] \in {"binary", "direct"} =>
        /\ Lost(s) # {} => orphaned[s]
        /\ \A m, n \in Lost(s) : m = n

\* "replays outbound frames consumed by a JSON streaming 415 onto binary".
FramesReplayed == \A s \in Streams : stream[s] = "binary" => Lost(s) = {}

\* "retries the same RPC with binary protobuf only when the server returns
\* HTTP 415": a call that is refused is repeated.
RefusedCallsRetried == \A c \in Calls : call[c] # "rejected"
=============================================================================
