------------------------------ MODULE RunTurn ------------------------------
(***************************************************************************)
(* One agent turn: runTurn of run/run.ts, the dispatcher of                *)
(* run/dispatch.ts and the timers of run/heartbeat.ts.                     *)
(*                                                                         *)
(* The turn is one read loop, the exec handlers it started and did not     *)
(* wait for, two timers, the caller (its signal and abort()), the consumer *)
(* of the event iterator, and the backend.  JavaScript runs each of them   *)
(* to its next await; an action is one such stretch.  The event queue is   *)
(* used as the channel AsyncQueue implements: what was pushed, how much of *)
(* it the iterator has taken, and whether and how it was closed.           *)
(***************************************************************************)
EXTENDS Sequences, Naturals

CONSTANTS
    Execs,      \* the exec messages the backend may send in one turn
    Ids,        \* the ids it may give them
    NoExec,     \* no exec
    NoId,       \* the id of an exec not sent yet
    MaxFrames   \* bound: how many frames the backend sends

ASSUME ConstantsAssumption ==
    /\ NoExec \notin Execs
    /\ NoId \notin Ids
    /\ MaxFrames \in Nat

VARIABLES
    pc,             \* where the read loop stands
    outcome,        \* how the promise of wait() settles, once that is decided
    abort,          \* reason of the turn's own AbortController
    callerAborted,  \* options.signal.aborted
    listening,      \* onCallerAbort is still registered
    cancelSent,     \* cancelSent: the cancelAction is out
    beating,        \* the heartbeat interval runs
    stallArmed,     \* the stall timeout runs
    arrived,        \* a frame has arrived that the loop has not read
    frames,         \* how many frames have arrived
    events,         \* what was pushed to the event queue
    eventsEnd,      \* "open", or how the event queue was closed
    collected,      \* collected: the events of the result
    iter,           \* where the consumer's iterator stands
    seen,           \* how many events the consumer was given
    exec,           \* state of each exec; its answer once that is decided
    replying,       \* the execs whose answer is decided and not sent yet
    idOf,           \* the id of each exec
    inFlight,       \* inFlight: for each id the exec whose entry it holds
    flight,         \* the entry each exec works under, named by its creator
    flightAborted,  \* the entries whose AbortController was aborted
    revoked         \* history: outstanding execs the backend asked to abort

loopVars == <<pc, outcome>>
callerVars == <<callerAborted, listening, cancelSent>>
timerVars == <<beating, stallArmed>>
frameVars == <<arrived, frames>>
eventVars == <<events, eventsEnd, collected>>
iterVars == <<iter, seen>>
execVars == <<exec, replying, idOf, inFlight, flight, flightAborted, revoked>>
vars == <<loopVars, abort, callerVars, timerVars, frameVars, eventVars,
          iterVars, execVars>>

Errors == {"stall", "ended", "auth", "cancelled", "transport"}
Answers == {"custom", "default", "aborted"}
EventKinds == {"connected", "update", "mcp_exec", "turn_ended"}

TypeOK ==
    /\ pc \in {"opening", "reading", "interacting", "draining", "settling", "settled"}
    /\ outcome \in Errors \union {"none", "result"}
    /\ abort \in {"none", "stall", "other"}
    /\ callerAborted \in BOOLEAN
    /\ listening \in BOOLEAN
    /\ cancelSent \in BOOLEAN
    /\ beating \in BOOLEAN
    /\ stallArmed \in BOOLEAN
    /\ arrived \in BOOLEAN
    /\ frames \in Nat
    /\ events \in Seq(EventKinds)
    /\ eventsEnd \in Errors \union {"open", "end"}
    /\ collected \in Seq(EventKinds)
    /\ iter \in {"off", "on", "ended", "threw", "left"}
    /\ seen \in Nat
    /\ exec \in [Execs -> Answers \union {"unsent", "handling"}]
    /\ replying \subseteq Execs
    /\ idOf \in [Execs -> Ids \union {NoId}]
    /\ inFlight \in [Ids -> Execs \union {NoExec}]
    /\ flight \in [Execs -> Execs \union {NoExec}]
    /\ flightAborted \subseteq Execs
    /\ revoked \subseteq Execs

\* runTurn has sent the opening request and awaits that send.  The caller's
\* signal may be aborted before it is listened to: then the listener, though
\* registered, never fires.
Init ==
    /\ pc = "opening"
    /\ outcome = "none"
    /\ abort = "none"
    /\ callerAborted \in BOOLEAN
    /\ listening = TRUE
    /\ cancelSent = FALSE
    /\ beating = FALSE
    /\ stallArmed = FALSE
    /\ arrived = FALSE
    /\ frames = 0
    /\ events = <<>>
    /\ eventsEnd = "open"
    /\ collected = <<>>
    /\ iter = "off"
    /\ seen = 0
    /\ exec = [e \in Execs |-> "unsent"]
    /\ replying = {}
    /\ idOf = [e \in Execs |-> NoId]
    /\ inFlight = [i \in Ids |-> NoExec]
    /\ flight = [e \in Execs |-> NoExec]
    /\ flightAborted = {}
    /\ revoked = {}

Aborted == abort # "none"
Settled == pc = "settled"
\* Every exec that was started is answered: the promises of pendingExecs.
AllAnswered == replying = {} /\ \A e \in Execs : exec[e] # "handling"

-----------------------------------------------------------------------------
(* What the handlers are built from.                                       *)

\* abort.abort(reason): the first reason stays.
AbortWith(reason) == abort' = IF Aborted THEN abort ELSE reason

\* MUTANT: the timers outlive the failure.
StopTimersNever == UNCHANGED timerVars

StopTimers == beating' = FALSE /\ stallArmed' = FALSE

\* MUTANT: the last close counts.
CloseEventsAgain(end) == eventsEnd' = end

\* events.close(error): the first close counts.
CloseEvents(end) == eventsEnd' = IF eventsEnd = "open" THEN end ELSE eventsEnd

\* events.push(event): dropped once the queue is closed.
Push(s, event) == IF eventsEnd = "open" THEN Append(s, event) ELSE s

\* MUTANT: the loop's promise settles without waiting for the exec handlers.
ConcludeAtOnce(verdict) ==
    /\ outcome' = verdict
    /\ StopTimers
    /\ CloseEvents(IF verdict = "result" THEN "end" ELSE verdict)
    /\ pc' = "settled" /\ listening' = FALSE

\* The loop is decided: finish or fail, then the finally block, which waits
\* for the execs that are still being handled before wait() settles.
Conclude(verdict) ==
    /\ outcome' = verdict
    /\ StopTimers
    /\ CloseEvents(IF verdict = "result" THEN "end" ELSE verdict)
    /\ IF AllAnswered
       THEN pc' = "settled" /\ listening' = FALSE
       ELSE pc' = "settling" /\ UNCHANGED listening

\* What throwIfAborted throws.
AbortVerdict == IF abort = "stall" THEN "stall" ELSE "cancelled"

\* What the catch block makes of an error that is neither a StreamError nor
\* Unauthenticated: an abort explains it, whoever aborted.
FailureVerdict ==
    IF abort = "stall" THEN "stall"
    ELSE IF Aborted \/ callerAborted THEN "cancelled"
    ELSE "transport"

-----------------------------------------------------------------------------
(* The read loop.                                                          *)

\* The opening send has returned: the turn is reported connected, both timers
\* start, and the loop is entered unless the turn was aborted meanwhile.
Open ==
    /\ pc = "opening"
    /\ events' = Push(events, "connected")
    /\ IF Aborted
       THEN Conclude(AbortVerdict)
       ELSE /\ pc' = "reading"
            /\ beating' = TRUE
            /\ stallArmed' = TRUE
            /\ UNCHANGED <<outcome, eventsEnd, listening>>
    /\ UNCHANGED <<abort, callerAborted, cancelSent, frameVars, collected,
                   iterVars, execVars>>

\* MUTANT: a frame is processed although the turn was aborted.
TakeFrameAnyway == pc = "reading" /\ arrived /\ arrived' = FALSE /\ UNCHANGED frames

\* The loop reads the frame that has arrived; its stall timer starts over.
TakeFrame == pc = "reading" /\ ~Aborted /\ arrived /\ arrived' = FALSE /\ UNCHANGED frames

Publish(event) ==
    /\ collected' = Append(collected, event)
    /\ events' = Push(events, event)
    /\ UNCHANGED eventsEnd

\* An update, checkpoint or notice for the consumer; or a frame that is none
\* of its business and is answered at once (kv) or ignored.
ReadUpdate ==
    /\ TakeFrame
    /\ Publish("update") \/ UNCHANGED eventVars
    /\ UNCHANGED <<loopVars, abort, callerVars, timerVars, iterVars, execVars>>

\* turn_ended: the last event, and the last frame the loop reads.  The result
\* waits until every exec is answered.
ReadTurnEnded ==
    /\ TakeFrame
    /\ collected' = Append(collected, "turn_ended")
    /\ events' = Push(events, "turn_ended")
    /\ IF AllAnswered
       THEN Conclude("result")
       ELSE pc' = "draining" /\ UNCHANGED <<outcome, eventsEnd, listening, timerVars>>
    /\ UNCHANGED <<abort, callerAborted, cancelSent, iterVars, execVars>>

\* MUTANT: each exec gets an entry of its own and the table keeps the last.
ReadExecAlone(e, id) ==
    /\ TakeFrame
    /\ exec[e] = "unsent"
    /\ Publish("mcp_exec") \/ UNCHANGED eventVars
    /\ idOf' = [idOf EXCEPT ![e] = id]
    /\ flight' = [flight EXCEPT ![e] = e]
    /\ exec' = [exec EXCEPT ![e] = "handling"]
    /\ UNCHANGED <<replying, inFlight, loopVars, abort, callerVars, timerVars, iterVars,
                   flightAborted, revoked>>

\* An exec: the consumer is told if it is an mcp call, then the handler is
\* started and the loop goes on.  Execs under one id share one entry; under an
\* entry that is already aborted the answer is the default one, at once.
ReadExec(e, id) ==
    LET entry == IF inFlight[id] = NoExec THEN e ELSE inFlight[id]
        refused == entry \in flightAborted
    IN
    /\ TakeFrame
    /\ exec[e] = "unsent"
    /\ Publish("mcp_exec") \/ UNCHANGED eventVars
    /\ idOf' = [idOf EXCEPT ![e] = id]
    /\ flight' = [flight EXCEPT ![e] = entry]
    /\ exec' = [exec EXCEPT ![e] = IF refused THEN "default" ELSE "handling"]
    /\ inFlight' = [inFlight EXCEPT ![id] = IF refused THEN NoExec ELSE entry]
    /\ replying' = IF refused THEN replying \union {e} ELSE replying
    /\ UNCHANGED <<loopVars, abort, callerVars, timerVars, iterVars,
                   flightAborted, revoked>>

\* exec_server_control abort: aborts the entry the id has now, if any.
ReadControlAbort(id) ==
    /\ TakeFrame
    /\ flightAborted' = flightAborted \union ({inFlight[id]} \ {NoExec})
    /\ revoked' = revoked \union {e \in Execs : exec[e] = "handling" /\ idOf[e] = id}
    /\ UNCHANGED <<loopVars, abort, callerVars, timerVars, eventVars, iterVars,
                   exec, replying, idOf, inFlight, flight>>

\* An interaction query: the loop itself awaits the caller's handler.
ReadInteraction ==
    /\ TakeFrame
    /\ pc' = "interacting"
    /\ UNCHANGED <<outcome, abort, callerVars, timerVars, eventVars, iterVars, execVars>>

\* That handler returns or throws; the query is answered, and the loop goes on
\* unless the turn was aborted meanwhile.
InteractionReturns ==
    /\ pc = "interacting"
    /\ IF Aborted
       THEN Conclude(AbortVerdict)
       ELSE pc' = "reading" /\ UNCHANGED <<outcome, eventsEnd, listening, timerVars>>
    /\ UNCHANGED <<abort, callerAborted, cancelSent, frameVars, events, collected,
                   iterVars, execVars>>

\* abortWait wins the race: an aborted turn reads nothing more.
Wake ==
    /\ pc = "reading"
    /\ Aborted
    /\ Conclude(AbortVerdict)
    /\ UNCHANGED <<abort, callerAborted, cancelSent, frameVars, events, collected,
                   iterVars, execVars>>

\* The stream is over without turn_ended.
StreamEnds ==
    /\ pc = "reading"
    /\ ~Aborted
    /\ Conclude("ended")
    /\ UNCHANGED <<abort, callerAborted, cancelSent, frameVars, events, collected,
                   iterVars, execVars>>

\* The stream fails.  The failure may win the race against an abort.
StreamFails(verdict) ==
    /\ pc = "reading"
    /\ Conclude(verdict)
    /\ UNCHANGED <<abort, callerAborted, cancelSent, frameVars, events, collected,
                   iterVars, execVars>>

\* Promise.all(pendingExecs) after turn_ended.
Drained ==
    /\ pc = "draining"
    /\ AllAnswered
    /\ Conclude("result")
    /\ UNCHANGED <<abort, callerAborted, cancelSent, frameVars, events, collected,
                   iterVars, execVars>>

\* Promise.allSettled(pendingExecs) of the finally block.
Settle ==
    /\ pc = "settling"
    /\ AllAnswered
    /\ pc' = "settled"
    /\ listening' = FALSE
    /\ StopTimers
    /\ UNCHANGED <<outcome, abort, callerAborted, cancelSent, frameVars, eventVars,
                   iterVars, execVars>>

-----------------------------------------------------------------------------
(* The exec handlers, each racing its two abort signals.                   *)

ExecAborted(e) == flight[e] \in flightAborted \/ Aborted

\* The answer to the exec is decided, and its id leaves the table: whatever
\* entry is there.
Answer(e, answer) ==
    /\ exec[e] = "handling"
    /\ exec' = [exec EXCEPT ![e] = answer]
    /\ replying' = replying \union {e}
    /\ inFlight' = [inFlight EXCEPT ![idOf[e]] = NoExec]
    /\ UNCHANGED <<loopVars, abort, callerVars, timerVars, frameVars, eventVars,
                   iterVars, idOf, flight, flightAborted, revoked>>

\* MUTANT: the signals are not looked at again when the handler has returned.
ExecReturnsUnchecked(e) ==
    \/ Answer(e, "custom")
    \/ Answer(e, "default")

\* The caller's handler returns a message, or none.
ExecReturns(e) ==
    /\ ~ExecAborted(e)
    /\ Answer(e, "custom") \/ Answer(e, "default")

\* It throws: the default answer, even if an abort came at the same time.
ExecThrows(e) == Answer(e, "default")

\* MUTANT: only the backend's own abort ends the wait for the handler.
ExecWakesOnControl(e) ==
    /\ flight[e] \in flightAborted
    /\ Answer(e, "aborted")

\* An abort ends the wait for the handler; its answer, if any, is not sent.
ExecWakes(e) ==
    /\ ExecAborted(e)
    /\ Answer(e, "aborted")

\* The answer is sent, which is a step of its own: something may come between.
ExecSends(e) ==
    /\ e \in replying
    /\ replying' = replying \ {e}
    /\ UNCHANGED <<loopVars, abort, callerVars, timerVars, frameVars, eventVars,
                   iterVars, exec, idOf, inFlight, flight, flightAborted, revoked>>

ExecStep(e) == ExecReturns(e) \/ ExecThrows(e) \/ ExecWakes(e) \/ ExecSends(e)

-----------------------------------------------------------------------------
(* The backend, the timers, the caller and the consumer.                   *)

FrameArrives ==
    /\ ~arrived
    /\ ~Settled
    /\ frames < MaxFrames
    /\ arrived' = TRUE
    /\ frames' = frames + 1
    /\ UNCHANGED <<loopVars, abort, callerVars, timerVars, eventVars, iterVars, execVars>>

\* A resumption is due: timers run only when no promise is left to resume.
ResumptionDue ==
    \/ pc = "opening"
    \/ pc = "reading" /\ (arrived \/ Aborted)
    \/ pc \in {"draining", "settling"} /\ AllAnswered
    \/ replying # {}
    \/ \E e \in Execs : exec[e] = "handling" /\ ExecAborted(e)

\* MUTANT: the stall closes the events but does not abort the turn.
StallOnlyCloses ==
    /\ stallArmed
    /\ ~ResumptionDue
    /\ StopTimers
    /\ CloseEvents("stall")
    /\ UNCHANGED <<loopVars, abort, callerVars, frameVars, events, collected,
                   iterVars, execVars>>

\* MUTANT: the stall aborts the turn and leaves its events to the loop.
StallOnlyAborts ==
    /\ stallArmed
    /\ ~ResumptionDue
    /\ AbortWith("stall")
    /\ StopTimers
    /\ UNCHANGED <<loopVars, callerVars, frameVars, eventVars, iterVars, execVars>>

\* The stall timeout: it aborts the turn and fails the events by itself.  A
\* frame the loop waits for is read first, which restarts the timeout.
StallFires ==
    /\ stallArmed
    /\ ~ResumptionDue
    /\ AbortWith("stall")
    /\ StopTimers
    /\ CloseEvents("stall")
    /\ UNCHANGED <<loopVars, callerVars, frameVars, events, collected, iterVars, execVars>>

\* The caller's signal.
CallerAborts ==
    /\ ~callerAborted
    /\ callerAborted' = TRUE
    /\ IF listening
       THEN cancelSent' = TRUE /\ AbortWith("other")
       ELSE UNCHANGED <<cancelSent, abort>>
    /\ UNCHANGED <<loopVars, listening, timerVars, frameVars, eventVars, iterVars, execVars>>

\* abort() of the handle, which may be called at any time and more than once.
HandleAborts ==
    /\ cancelSent' = TRUE
    /\ AbortWith("other")
    /\ UNCHANGED <<loopVars, callerAborted, listening, timerVars, frameVars, eventVars,
                   iterVars, execVars>>

StartIterating ==
    /\ iter = "off"
    /\ iter' = "on"
    /\ UNCHANGED <<loopVars, abort, callerVars, timerVars, frameVars, eventVars, seen, execVars>>

Consume ==
    /\ iter = "on"
    /\ seen < Len(events)
    /\ seen' = seen + 1
    /\ UNCHANGED <<loopVars, abort, callerVars, timerVars, frameVars, eventVars, iter, execVars>>

\* However the iteration finishes, its finally block aborts what is left of
\* the turn and stops the timers; it sends no cancelAction.
FinishIteration(end) ==
    /\ iter' = end
    /\ AbortWith("other")
    /\ StopTimers
    /\ UNCHANGED <<loopVars, callerVars, frameVars, eventVars, seen, execVars>>

\* The consumer has been given everything, and the queue is closed.
IterationEnds ==
    /\ iter = "on"
    /\ seen = Len(events)
    /\ eventsEnd # "open"
    /\ FinishIteration(IF eventsEnd = "end" THEN "ended" ELSE "threw")

\* The consumer breaks out of its loop at an event.
IterationLeft ==
    /\ iter = "on"
    /\ seen > 0
    /\ FinishIteration("left")

-----------------------------------------------------------------------------
ReadFrame ==
    \/ ReadUpdate
    \/ ReadTurnEnded
    \/ \E e \in Execs, id \in Ids : ReadExec(e, id)
    \/ \E id \in Ids : ReadControlAbort(id)
    \/ ReadInteraction

Next ==
    \/ Open
    \/ ReadFrame
    \/ InteractionReturns
    \/ Wake
    \/ StreamEnds
    \/ StreamFails("auth")
    \/ StreamFails(FailureVerdict)
    \/ Drained
    \/ Settle
    \/ \E e \in Execs : ExecStep(e)
    \/ FrameArrives
    \/ StallFires
    \/ CallerAborts
    \/ HandleAborts
    \/ StartIterating
    \/ Consume
    \/ IterationEnds
    \/ IterationLeft

Spec == Init /\ [][Next]_vars

\* The caller's handlers return.
HandlersReturn ==
    /\ WF_vars(InteractionReturns)
    /\ \A e \in Execs : WF_vars(ExecReturns(e))

-----------------------------------------------------------------------------
(* Safety.                                                                 *)

\* wait() settles only after every exec that was started has been answered,
\* and a result is decided only then.
AnsweredBeforeSettled ==
    Settled \/ outcome = "result" => AllAnswered

\* Once the turn is decided, or its iterator is finished, or its events are
\* closed, neither timer runs any more: no heartbeat is sent for it and no
\* stall can be raised.
NoStrayTimers ==
    \/ outcome # "none"
    \/ eventsEnd # "open"
    \/ iter \in {"ended", "threw", "left"}
    => ~beating /\ ~stallArmed

\* The result holds the very events the iterator was given, without the
\* connection notice: none was pushed to a closed queue, and none was
\* published and left out of the result.
ResultMatchesEvents ==
    events = (IF pc = "opening" THEN <<>> ELSE <<"connected">>) \o collected

\* The iterator ends without an error only for a turn that has a result, and
\* a turn that is decided has told its iterator.
IteratorAgrees ==
    /\ eventsEnd = "end" => outcome = "result"
    /\ outcome # "none" => eventsEnd # "open"
    /\ outcome = "result" /\ abort # "stall" => eventsEnd = "end"

\* What the handler of an exec returns is not the answer once the backend asked
\* to abort that exec, if no other exec has its id.
RevokedExecsAborted ==
    \A e \in revoked :
        (\A d \in Execs \ {e} : idOf[d] # idOf[e]) => exec[e] # "custom"

\* Once the turn is aborted no event is added to its result, and what a handler
\* returns is no answer any more.
AbortedTurnIsQuiet ==
    [][Aborted => /\ collected' = collected
                  /\ \A e \in Execs : exec'[e] # exec[e] => exec'[e] # "custom"]_vars

-----------------------------------------------------------------------------
(* Refinement.                                                             *)

\* What is done of the answer to an exec.
AnswerDone(e) ==
    IF exec[e] = "unsent" THEN "unsent"
    ELSE IF exec[e] = "handling" THEN "asked"
    ELSE IF e \in replying THEN "answered" ELSE "sent"

Promise == INSTANCE TurnPromise WITH
    settled <- Settled,
    stalled <- eventsEnd = "stall",
    owed <- [e \in Execs |-> AnswerDone(e)]

\* The turn keeps what it promises: each exec that it takes is answered once and
\* the answer is sent before wait() settles, it has a result exactly if turn_ended
\* was read, nothing is published once it is decided, given up or left, and the
\* iterator ends after the last event and as the turn did, a stall excepted.
ImplementsPromise == Promise!Spec

-----------------------------------------------------------------------------
(* Liveness, under the fairness of the handle that runs the turn.           *)

\* A consumer that iterates is told how the turn ended, even when a handler
\* never returns or the backend falls silent: the stall timer sees to it.
ConsumerTold == iter = "on" ~> iter \in {"ended", "threw", "left"}

\* An aborted turn settles, unless the loop is inside an interaction handler.
AbortTearsDown == Aborted ~> pc \in {"settled", "interacting"}

\* If the handlers return, wait() settles.
WaitSettles == HandlersReturn => <>Settled

-----------------------------------------------------------------------------
(* What the documents say and the code does not do.                        *)

\* "AbortSignal cancels ... run ... and in-flight handler calls": an aborted turn
\* settles, whether or not a handler returns.
AbortSettles == Aborted ~> Settled

\* "Mid-turn stall fails the turn": a stalled turn has no result.
StallFailsTurn == abort = "stall" => outcome # "result"

\* "Any inbound frame ... resets it": no stall while a frame is waiting.
StallOnlyOnSilence == [][StallFires => ~arrived]_vars
=============================================================================
