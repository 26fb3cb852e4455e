----------------------------- MODULE OpenCodeStream -----------------------------
(***************************************************************************)
(* One generate of the OpenCode provider (stream.ts): the pump that turns  *)
(* the events of a run into parts of a ReadableStream, and its reader,     *)
(* which is doGenerate or a consumer that may cancel.                      *)
(*                                                                         *)
(* The run is seen through its iterator: any event, then an end or an      *)
(* error; RunTurn has what is behind it.  A delta is named by the number   *)
(* of the event it comes from.                                             *)
(***************************************************************************)
EXTENDS Naturals, SequencesExt

CONSTANT MaxEvents

ASSUME MaxEventsAssumption == MaxEvents \in Nat

VARIABLES
    reader,         \* "generate" reads to the end, "stream" may cancel
    aborted,        \* the caller's signal
    pump,           \* where start() of the stream is
    run,            \* the handle is there, and its RPC may be held
    given,          \* the events it has given
    open,           \* the block that is open, with its id
    seqs,           \* textSeq and reasoningSeq
    caught,         \* what is thrown while the iterator is being left
    stream,         \* the state of the ReadableStream
    queue,          \* its parts that are not read
    asked,          \* a read() is waiting
    seen,           \* the parts the reader has
    outcome         \* how it ended for the reader

pumpVars == <<pump, run, given, open, seqs, caught>>
streamVars == <<stream, queue, asked, seen>>
vars == <<reader, aborted, pumpVars, streamVars, outcome>>

EventKinds == {"text", "thinking", "thought", "ended", "tool", "stranger", "other"}
Blocks == {"text", "reasoning"}
NoBlock == [type |-> "none", id |-> 0]

PartKinds == {"stream-start", "start", "delta", "end", "tool-input", "tool-call", "finish", "error"}

\* A part of the stream: what it is, of which block, from which event.
Part(type, of, id, event) == [type |-> type, of |-> of, id |-> id, event |-> event]
Plain(type) == Part(type, "none", 0, 0)
PartType == [type : PartKinds, of : Blocks \union {"none"}, id : 0..MaxEvents, event : 0..MaxEvents]

TypeOK ==
    /\ reader \in {"generate", "stream"}
    /\ aborted \in BOOLEAN
    /\ pump \in {"opening", "reading", "leaving", "over"}
    /\ run \in {"none", "held", "released"}
    /\ given \in Seq(EventKinds)
    /\ open \in {NoBlock} \union [type : Blocks, id : 1..MaxEvents]
    /\ seqs \in [Blocks -> 0..MaxEvents]
    /\ caught \in {"none", "break", "cancelled", "other"}
    /\ stream \in {"none", "readable", "closing", "closed", "cancelled", "other"}
    /\ queue \in Seq(PartType) /\ seen \in Seq(PartType)
    /\ asked \in BOOLEAN /\ (asked => queue = <<>>)
    /\ outcome \in {"none", "finished", "cancelled", "other", "left"}

Init ==
    /\ reader \in {"generate", "stream"}
    /\ aborted = FALSE
    /\ pump = "opening" /\ run = "none" /\ given = <<>>
    /\ open = NoBlock /\ seqs = [b \in Blocks |-> 0] /\ caught = "none"
    /\ stream = "none" /\ queue = <<>> /\ asked = FALSE /\ seen = <<>>
    /\ outcome = "none"

-----------------------------------------------------------------------------
(* The controller of the stream.                                           *)

\* enqueue: a read that waits takes the first part.
Enqueue(parts) ==
    IF asked /\ parts # <<>>
    THEN seen' = Append(seen, Head(parts)) /\ queue' = Tail(parts) /\ asked' = FALSE
    ELSE queue' = queue \o parts /\ UNCHANGED <<seen, asked>>

EnqueueAndClose(parts) ==
    /\ Enqueue(parts)
    /\ stream' = IF queue' = <<>> THEN "closed" ELSE "closing"

\* The error part reaches a read that waits; error() drops what is queued.
ErrorStream(error, part) ==
    IF stream # "readable" THEN UNCHANGED streamVars
    ELSE /\ stream' = error
         /\ queue' = <<>>
         /\ seen' = IF asked /\ part THEN Append(seen, Plain("error")) ELSE seen
         /\ asked' = FALSE

Normalized(error) == IF aborted THEN "cancelled" ELSE error

\* The catch block of start().
Fail(error) == pump' = "over" /\ run' = "released" /\ ErrorStream(Normalized(error), TRUE)

-----------------------------------------------------------------------------
(* Events become parts.                                                    *)

\* closeReasoning and closeText: the block that is open, if one is, ends.
CloseBlock == IF open = NoBlock THEN <<>> ELSE <<Part("end", open.type, open.id, 0)>>

\* The delta of a block, and its start when it is not open.
Deltas(block, event) ==
    LET id == IF open.type = block THEN open.id ELSE seqs[block] + 1
    IN  (IF open.type = block THEN <<>> ELSE <<Part("start", block, id, 0)>>)
        \o <<Part("delta", block, id, event)>>

\* MUTANT: a text delta leaves the reasoning block open.
DeltaInside(block, event) ==
    /\ Enqueue(Deltas(block, event))
    /\ open' = [type |-> block, id |-> IF open.type = block THEN open.id ELSE seqs[block] + 1]
    /\ seqs' = [seqs EXCEPT ![block] = IF open.type = block THEN @ ELSE @ + 1]
    /\ UNCHANGED <<pump, run, caught, stream>>

Delta(block, event) ==
    /\ Enqueue((IF open.type = block THEN <<>> ELSE CloseBlock) \o Deltas(block, event))
    /\ open' = [type |-> block, id |-> IF open.type = block THEN open.id ELSE seqs[block] + 1]
    /\ seqs' = [seqs EXCEPT ![block] = IF open.type = block THEN @ ELSE @ + 1]
    /\ UNCHANGED <<pump, run, caught, stream>>

\* onFinish: the loop is left after the event.
Finish(parts) ==
    /\ Enqueue(CloseBlock \o parts \o <<Plain("finish")>>)
    /\ open' = NoBlock
    /\ pump' = "leaving" /\ caught' = "break"
    /\ UNCHANGED <<seqs, stream>>

Throw(error) == pump' = "leaving" /\ caught' = error /\ UNCHANGED <<run, open, seqs, streamVars>>

\* applyEvent and finishMcpExec on a stream that takes parts.
Apply(kind, event) ==
    CASE kind = "text" -> Delta("text", event)
      [] kind = "thinking" -> Delta("reasoning", event)
      [] kind = "thought" ->
            /\ Enqueue(IF open.type = "reasoning" THEN CloseBlock ELSE <<>>)
            /\ open' = IF open.type = "reasoning" THEN NoBlock ELSE open
            /\ UNCHANGED <<pump, run, seqs, caught, stream>>
      [] kind = "ended" -> Finish(<<>>) /\ UNCHANGED run
      [] kind = "tool" ->
            Finish(<<Plain("tool-input"), Part("tool-call", "none", 0, event)>>) /\ run' = "released"
      [] kind = "stranger" ->
            /\ Enqueue(CloseBlock) /\ open' = NoBlock
            /\ pump' = "leaving" /\ caught' = "other" /\ run' = "released"
            /\ UNCHANGED <<seqs, stream>>
      [] OTHER -> UNCHANGED <<pump, run, open, seqs, caught, streamVars>>

\* On a cancelled stream enqueue throws, so an event that gives a part ends it.
Silent(kind) == kind = "other" \/ (kind = "thought" /\ open.type # "reasoning")

-----------------------------------------------------------------------------
(* The pump.                                                               *)

RunOpens ==
    /\ pump = "opening"
    /\ UNCHANGED <<reader, aborted, given, open, seqs, caught, outcome>>
    /\ IF aborted
       THEN pump' = "over" /\ run' = "released" /\ stream' = "cancelled"
            /\ UNCHANGED <<queue, asked, seen>>
       ELSE pump' = "reading" /\ run' = "held" /\ stream' = "readable"
            /\ Enqueue(<<Plain("stream-start")>>)

\* client.run fails: doStream throws, there is no stream.
RunRefused ==
    /\ pump = "opening"
    /\ \E error \in {"cancelled", "other"} :
          (error = "cancelled" => aborted) /\ outcome' = Normalized(error)
    /\ pump' = "over"
    /\ UNCHANGED <<reader, aborted, run, given, open, seqs, caught, streamVars>>

ReadEvent ==
    /\ pump = "reading" /\ Len(given) < MaxEvents
    /\ \E kind \in EventKinds :
          /\ given' = Append(given, kind)
          /\ IF aborted THEN Throw("cancelled")
             ELSE IF stream # "readable" /\ ~Silent(kind) THEN Throw("other")
             ELSE Apply(kind, Len(given'))
    /\ UNCHANGED <<reader, aborted, outcome>>

\* MUTANT: the stream is not closed after the finish.
LeftOpen ==
    /\ pump = "leaving"
    /\ \/ /\ caught = "break" /\ pump' = "over" /\ run' = "released"
          /\ UNCHANGED streamVars
       \/ caught # "break" /\ Fail(caught)
    /\ UNCHANGED <<reader, aborted, given, open, seqs, caught, outcome>>

\* The iterator of the loop has been left, by break or by what was thrown.
Left ==
    /\ pump = "leaving"
    /\ \/ /\ caught = "break" /\ pump' = "over" /\ run' = "released"
          /\ IF stream = "readable" THEN EnqueueAndClose(<<>>) ELSE UNCHANGED streamVars
       \/ caught # "break" /\ Fail(caught)
    /\ UNCHANGED <<reader, aborted, given, open, seqs, caught, outcome>>

\* MUTANT: the open block is not closed.
TurnEndMissingOpen ==
    /\ pump = "reading"
    /\ IF aborted \/ stream # "readable" THEN Fail("other") /\ UNCHANGED open
       ELSE /\ EnqueueAndClose(<<Plain("finish")>>)
            /\ open' = NoBlock /\ pump' = "over" /\ run' = "released"
    /\ UNCHANGED <<reader, aborted, given, seqs, caught, outcome>>

\* The run is over without turn_ended: finish with a warning.
TurnEndMissing ==
    /\ pump = "reading"
    /\ IF aborted \/ stream # "readable" THEN Fail("other") /\ UNCHANGED open
       ELSE /\ EnqueueAndClose(CloseBlock \o <<Plain("finish")>>)
            /\ open' = NoBlock /\ pump' = "over" /\ run' = "released"
    /\ UNCHANGED <<reader, aborted, given, seqs, caught, outcome>>

RunFails ==
    /\ pump = "reading"
    /\ \E error \in {"cancelled", "other"} :
          (error = "cancelled" => aborted \/ run = "released") /\ Fail(error)
    /\ UNCHANGED <<reader, aborted, given, open, seqs, caught, outcome>>

Abort ==
    /\ ~aborted /\ aborted' = TRUE
    /\ run' = IF pump \in {"reading", "leaving"} THEN "released" ELSE run
    /\ UNCHANGED <<reader, pump, given, open, seqs, caught, streamVars, outcome>>

-----------------------------------------------------------------------------
(* The reader: consumeCursorStream, or one that may cancel.                *)

Ask ==
    /\ stream = "readable" /\ queue = <<>> /\ ~asked /\ outcome = "none"
    /\ asked' = TRUE
    /\ UNCHANGED <<reader, aborted, pumpVars, stream, queue, seen, outcome>>

Read ==
    /\ queue # <<>> /\ outcome = "none"
    /\ seen' = Append(seen, Head(queue)) /\ queue' = Tail(queue)
    /\ stream' = IF stream = "closing" /\ queue' = <<>> THEN "closed" ELSE stream
    /\ UNCHANGED <<reader, aborted, pumpVars, asked, outcome>>

\* The end of the stream: a generate without a finish part has failed.
ReadEnd ==
    /\ stream \in {"closed", "cancelled", "other"} /\ queue = <<>> /\ outcome = "none"
    /\ outcome' = IF stream # "closed" THEN stream
                  ELSE IF Plain("finish") \in ToSet(seen) THEN "finished" ELSE "other"
    /\ asked' = FALSE
    /\ UNCHANGED <<reader, aborted, pumpVars, stream, queue, seen>>

\* cancel() of the stream aborts the handle.
Cancel ==
    /\ reader = "stream" /\ stream \in {"readable", "closing"} /\ outcome = "none"
    /\ stream' = "closed" /\ queue' = <<>> /\ asked' = FALSE
    /\ run' = "released" /\ outcome' = "left"
    /\ UNCHANGED <<reader, aborted, pump, given, open, seqs, caught, seen>>

Next ==
    \/ RunOpens \/ RunRefused \/ ReadEvent \/ Left \/ TurnEndMissing \/ RunFails
    \/ Abort \/ Ask \/ Read \/ ReadEnd \/ Cancel

\* A run ends, a loop that is left is left, and a generate reads on.
Fairness ==
    /\ WF_vars(RunOpens) /\ WF_vars(Left) /\ WF_vars(TurnEndMissing)
    /\ WF_vars(Ask) /\ WF_vars(Read) /\ WF_vars(ReadEnd)

Spec == Init /\ [][Next]_vars /\ Fairness

-----------------------------------------------------------------------------
(* Properties.                                                             *)

Parts == seen \o queue
SameBlock(p, q) == p.of = q.of /\ p.id = q.id

\* A stream is well formed, wherever it stops: one block is open at a time,
\* deltas and ends are of the one that is, ids are not used again, and at the
\* finish, which nothing follows, no block is open.
WellFormed(parts) ==
    \A i \in DOMAIN parts :
        /\ parts[i].type \in {"delta", "end"} => \E s \in 1..(i - 1) :
              /\ parts[s].type = "start" /\ SameBlock(parts[s], parts[i])
              /\ \A k \in s..(i - 1) : parts[k].type # "end"
        /\ parts[i].type \in {"start", "finish"} => \A s \in 1..(i - 1) :
              parts[s].type = "start" =>
                  /\ ~SameBlock(parts[s], parts[i])
                  /\ \E e \in s..(i - 1) : parts[e].type = "end" /\ SameBlock(parts[s], parts[e])
        /\ parts[i].type = "finish" => i = Len(parts)

\* What the reader has and will have is a well-formed stream (the switch of
\* applyEvent opens and closes the blocks), however the run and the reader end.
PartsWellFormed == WellFormed(Parts)

\* What doGenerate puts into its content, and where each of it gets there: a
\* delta with the end of its block, which takes the block's deltas in order.
Contents(parts) == {d \in DOMAIN parts : parts[d].type \in {"delta", "tool-call"}}
Enters(parts, d) ==
    IF parts[d].type = "tool-call" THEN {d}
    ELSE {e \in DOMAIN parts : parts[e].type = "end" /\ SameBlock(parts[d], parts[e])}

\* The content has every text, thought and tool call of the events, once and in
\* the order of the events.
Delivered(parts, events) ==
    /\ {parts[d].event : d \in Contents(parts)}
           = {i \in DOMAIN events : events[i] \in {"text", "thinking", "tool"}}
    /\ \A d \in Contents(parts) : \E e \in d..Len(parts) : Enters(parts, d) = {e}
    /\ \A c, d \in Contents(parts) : c < d =>
          /\ parts[c].event < parts[d].event
          /\ \A e \in Enters(parts, c), f \in Enters(parts, d) : e <= f

\* A generate that succeeds has every text, every thought and the tool call of
\* the run, once and in the run's order.
ContentFaithful == outcome = "finished" => Delivered(seen, given)

\* A reader that reads on is told how the generate ended.
ReaderTold == <>(outcome # "none")
=============================================================================
