----------------------------- MODULE AsyncQueue -----------------------------
(***************************************************************************)
(* run/queue.ts: the unbounded queue between the two sides of a stream.    *)
(* A turn uses one for the events its consumer iterates over and one for   *)
(* the messages it sends to the backend.                                   *)
(*                                                                         *)
(* Each reader is one async generator made by [Symbol.asyncIterator].  It  *)
(* runs to its next await in one step: a step that finds nothing parks a   *)
(* waiter, and the promise that push or close resolves is only looked at   *)
(* in a later step (Resume), so that other code may run in between.        *)
(***************************************************************************)
EXTENDS Sequences, Naturals

CONSTANTS
    Values,     \* what is queued
    Readers,    \* the generators that read the queue
    Errors,     \* what close may be called with
    NoError,    \* close called without an error
    NoValue,    \* an empty hand
    MaxPush     \* bound: how many values are accepted

ASSUME ConstantsAssumption ==
    /\ NoError \notin Errors
    /\ NoValue \notin Values
    /\ MaxPush \in Nat

VARIABLES
    items,      \* #items
    waiters,    \* #waiters: the readers whose promise is still unresolved
    closed,     \* #closed
    error,      \* #error
    reader,     \* where each generator stands
    hand,       \* the value a waiter was resolved with, before its reader runs
    pushed,     \* history: the values accepted, in order
    taken       \* history: the values handed or shifted out, in order

vars == <<items, waiters, closed, error, reader, hand, pushed, taken>>

\* "ready": the consumer may call next() or return(); "parked": awaits a
\* promise; "handed" and "woken": that promise is resolved, with a value or
\* with done; "ended", "threw" and "returned": the generator is finished.
ReaderStates ==
    {"ready", "parked", "handed", "woken", "ended", "threw", "returned"}

TypeOK ==
    /\ items \in Seq(Values)
    /\ waiters \in Seq(Readers)
    /\ closed \in BOOLEAN
    /\ error \in Errors \union {NoError}
    /\ reader \in [Readers -> ReaderStates]
    /\ hand \in [Readers -> Values \union {NoValue}]
    /\ pushed \in Seq(Values)
    /\ taken \in Seq(Values)

Init ==
    /\ items = <<>>
    /\ waiters = <<>>
    /\ closed = FALSE
    /\ error = NoError
    /\ reader = [r \in Readers |-> "ready"]
    /\ hand = [r \in Readers |-> NoValue]
    /\ pushed = <<>>
    /\ taken = <<>>

-----------------------------------------------------------------------------

\* MUTANT: push queues the value and looks at no waiter.
PushForgetsWaiters(v) ==
    /\ ~closed
    /\ Len(pushed) < MaxPush
    /\ pushed' = Append(pushed, v)
    /\ items' = Append(items, v)
    /\ UNCHANGED <<waiters, closed, error, reader, hand, taken>>

\* push(value): the oldest waiter gets the value, else it is queued.  A push
\* after close is dropped, which changes nothing and needs no action.
Push(v) ==
    /\ ~closed
    /\ Len(pushed) < MaxPush
    /\ pushed' = Append(pushed, v)
    /\ IF waiters = <<>>
       THEN /\ items' = Append(items, v)
            /\ UNCHANGED <<waiters, reader, hand, taken>>
       ELSE /\ waiters' = Tail(waiters)
            /\ reader' = [reader EXCEPT ![Head(waiters)] = "handed"]
            /\ hand' = [hand EXCEPT ![Head(waiters)] = v]
            /\ taken' = Append(taken, v)
            /\ UNCHANGED items
    /\ UNCHANGED <<closed, error>>

Waiting == {waiters[i] : i \in DOMAIN waiters}

\* MUTANT: close records the end and leaves the waiters parked.
CloseForgetsWaiters(e) ==
    /\ ~closed
    /\ closed' = TRUE
    /\ error' = e
    /\ UNCHANGED <<items, waiters, reader, hand, pushed, taken>>

\* close(error): only the first call counts; it wakes every waiter with done.
Close(e) ==
    /\ ~closed
    /\ closed' = TRUE
    /\ error' = e
    /\ waiters' = <<>>
    /\ reader' = [r \in Readers |-> IF r \in Waiting THEN "woken" ELSE reader[r]]
    /\ UNCHANGED <<items, hand, pushed, taken>>

-----------------------------------------------------------------------------
\* How a generator finishes: with the error close was given, if any.
Finish == IF error = NoError THEN "ended" ELSE "threw"

\* MUTANT: the end is reported before what is still queued.
ReadEndFirst(r) ==
    /\ reader[r] = "ready"
    /\ IF closed
       THEN /\ reader' = [reader EXCEPT ![r] = Finish]
            /\ UNCHANGED <<items, waiters, taken>>
       ELSE IF items # <<>>
       THEN /\ items' = Tail(items)
            /\ taken' = Append(taken, Head(items))
            /\ UNCHANGED <<waiters, reader>>
       ELSE /\ waiters' = Append(waiters, r)
            /\ reader' = [reader EXCEPT ![r] = "parked"]
            /\ UNCHANGED <<items, taken>>
    /\ UNCHANGED <<closed, error, hand, pushed>>

\* The consumer calls next(): a queued value first, then the end, else wait.
Read(r) ==
    /\ reader[r] = "ready"
    /\ IF items # <<>>
       THEN /\ items' = Tail(items)
            /\ taken' = Append(taken, Head(items))
            /\ UNCHANGED <<waiters, reader>>
       ELSE IF closed
       THEN /\ reader' = [reader EXCEPT ![r] = Finish]
            /\ UNCHANGED <<items, waiters, taken>>
       ELSE /\ waiters' = Append(waiters, r)
            /\ reader' = [reader EXCEPT ![r] = "parked"]
            /\ UNCHANGED <<items, taken>>
    /\ UNCHANGED <<closed, error, hand, pushed>>

\* The awaited promise is resolved: the generator yields the value or finishes.
Resume(r) ==
    /\ \/ /\ reader[r] = "handed"
          /\ reader' = [reader EXCEPT ![r] = "ready"]
          /\ hand' = [hand EXCEPT ![r] = NoValue]
       \/ /\ reader[r] = "woken"
          /\ reader' = [reader EXCEPT ![r] = Finish]
          /\ UNCHANGED hand
    /\ UNCHANGED <<items, waiters, closed, error, pushed, taken>>

\* The consumer leaves its loop (return()): the generator finishes at its yield.
Return(r) ==
    /\ reader[r] = "ready"
    /\ reader' = [reader EXCEPT ![r] = "returned"]
    /\ UNCHANGED <<items, waiters, closed, error, hand, pushed, taken>>

Next ==
    \/ \E v \in Values : Push(v)
    \/ \E e \in Errors \union {NoError} : Close(e)
    \/ \E r \in Readers : Read(r) \/ Resume(r) \/ Return(r)

Spec == Init /\ [][Next]_vars

\* A resolved promise resumes its generator, and a consumer in a for-await
\* loop comes back for the next value unless it leaves the loop.
Fairness == \A r \in Readers : WF_vars(Read(r)) /\ WF_vars(Resume(r))

FairSpec == Spec /\ Fairness

-----------------------------------------------------------------------------
\* Nothing is lost, duplicated or reordered: what push accepted is what has
\* been handed out followed by what is queued (push, iterator).
Fifo == pushed = taken \o items

\* No lost wake-up: a reader is parked only while there is nothing for it,
\* and every parked reader is in line for the next value or the close, once.
NoLostWakeup ==
    /\ waiters # <<>> => items = <<>> /\ ~closed
    /\ Waiting = {r \in Readers : reader[r] = "parked"}
    /\ \A i, j \in DOMAIN waiters : waiters[i] = waiters[j] => i = j

Finished(r) == reader[r] \in {"ended", "threw"}

\* A reader is woken for the end, and sees it, only after everything accepted
\* has been taken, and sees it as an error exactly when close was given one.
EndAfterDrain ==
    \A r \in Readers :
        /\ Finished(r) \/ reader[r] = "woken" => closed /\ taken = pushed
        /\ Finished(r) => reader[r] = Finish

\* Once the queue is closed, every consumer that keeps reading is told so.
CloseReachesReaders ==
    \A r \in Readers : closed ~> (Finished(r) \/ reader[r] = "returned")

\* The queue implements the channel its two sides rely on.
Channel == INSTANCE FifoChannel WITH
    accepted <- pushed,
    delivered <- taken,
    ended <- {r \in Readers : Finished(r)}

ImplementsChannel == Channel!Spec
=============================================================================
