----------------------------- MODULE ClientRun -----------------------------
(***************************************************************************)
(* The handle that CursorRpcClient.run returns (client.ts): one turn whose *)
(* messages go through an outbound queue to the RPC, and whose signal also *)
(* aborts when the client itself gives the run up (runAbort).  Whoever     *)
(* finishes first - the iterator, wait() or abort() - aborts runAbort and  *)
(* closes the outbound queue, after which what the turn sends is dropped.  *)
(***************************************************************************)
EXTENDS RunTurn

VARIABLES
    outbound,   \* "open" or "closed"
    wired,      \* history: the execs whose answer the outbound queue accepted
    waiting,    \* the caller has called wait()
    asked       \* history: the caller aborted, or left the iteration

clientVars == <<outbound, wired, waiting, asked>>
allVars == <<vars, clientVars>>

Answered(e) == exec[e] \in Answers

ClientTypeOK ==
    /\ TypeOK
    /\ outbound \in {"open", "closed"}
    /\ wired \subseteq Execs
    /\ waiting \in BOOLEAN
    /\ asked \in BOOLEAN

ClientInit ==
    /\ Init
    /\ outbound = "open"
    /\ wired = {}
    /\ waiting = FALSE
    /\ asked = callerAborted

-----------------------------------------------------------------------------
\* send: outbound.push, which drops the message once the queue is closed.
Forward ==
    wired' = IF outbound = "open" THEN wired \union (replying \ replying') ELSE wired

\* A step of the turn itself; what it sends is forwarded.
Carry(step) == step /\ Forward /\ UNCHANGED <<outbound, waiting, asked>>

\* The loop, its handlers, its timers and its consumer, but for what the
\* handle of the client replaces.
TurnStep ==
    Carry(\/ Open
          \/ ReadFrame
          \/ InteractionReturns
          \/ Wake
          \/ StreamEnds
          \/ StreamFails("auth")
          \/ StreamFails(FailureVerdict)
          \/ Drained
          \/ Settle
          \/ \E e \in Execs : ExecStep(e)
          \/ FrameArrives
          \/ StallFires
          \/ StartIterating
          \/ Consume
          \/ IterationEnds)

\* The caller's own signal, one of those the turn's signal is made of.
SignalAborts ==
    /\ CallerAborts
    /\ asked' = TRUE
    /\ UNCHANGED <<outbound, wired, waiting>>

\* The consumer breaks out of its loop.
Leave ==
    /\ IterationLeft
    /\ asked' = TRUE
    /\ UNCHANGED <<outbound, wired, waiting>>

CallWait ==
    /\ ~waiting
    /\ waiting' = TRUE
    /\ UNCHANGED <<vars, outbound, wired, asked>>

\* runAbort.abort(): the turn hears of it if its signal was not aborted before
\* and it still listens.
RunAborts ==
    /\ callerAborted' = TRUE
    /\ IF listening /\ ~callerAborted
       THEN cancelSent' = TRUE /\ AbortWith("other")
       ELSE UNCHANGED <<cancelSent, abort>>

\* The finally block of the iterator and of wait().
GiveUp ==
    /\ RunAborts
    /\ outbound' = "closed"
    /\ UNCHANGED <<loopVars, listening, timerVars, frameVars, eventVars, iterVars,
                   execVars, wired, waiting, asked>>

\* MUTANT: the clean-up follows the loop over the events instead of being
\* its finally block.
IteratorReleasesAtEnd ==
    /\ outbound = "open"
    /\ iter = "ended"
    /\ GiveUp

\* The iterator is finished, by its end, its error or its consumer.
IteratorReleases ==
    /\ outbound = "open"
    /\ iter \in {"ended", "threw", "left"}
    /\ GiveUp

\* MUTANT: wait() closes the outbound queue at once, and aborts nothing.
WaitClosesEarly ==
    /\ outbound = "open"
    /\ waiting
    /\ outbound' = "closed"
    /\ UNCHANGED <<vars, wired, waiting, asked>>

\* MUTANT: wait() gives the run up at once instead of when the turn settles.
WaitGivesUpEarly ==
    /\ outbound = "open"
    /\ waiting
    /\ GiveUp

\* wait() has settled.
WaitReleases ==
    /\ outbound = "open"
    /\ waiting /\ Settled
    /\ GiveUp

\* abort() of the client's handle: the turn is aborted, with its cancelAction,
\* and the outbound queue is closed in the same step.
ClientAborts ==
    /\ cancelSent' = TRUE
    /\ AbortWith("other")
    /\ callerAborted' = TRUE
    /\ outbound' = "closed"
    /\ asked' = TRUE
    /\ UNCHANGED <<loopVars, listening, timerVars, frameVars, eventVars, iterVars,
                   execVars, wired, waiting>>

ClientNext ==
    \/ TurnStep
    \/ SignalAborts
    \/ Leave
    \/ CallWait
    \/ IteratorReleases
    \/ WaitReleases
    \/ ClientAborts

ClientSpec == ClientInit /\ [][ClientNext]_allVars

\* What the runtime and the library do by themselves: promises that are
\* resolved resume their code, armed timers fire, and a finished generator runs
\* its finally block.  Nothing is assumed of the backend, the handlers or the
\* caller; a consumer keeps iterating.
ClientFairness ==
    /\ WF_allVars(Carry(Open \/ ReadFrame \/ Wake \/ Drained \/ Settle))
    /\ \A e \in Execs : WF_allVars(Carry(ExecWakes(e) \/ ExecSends(e)))
    /\ WF_allVars(Carry(StallFires))
    /\ WF_allVars(Carry(Consume \/ IterationEnds))
    /\ WF_allVars(IteratorReleases)
    /\ WF_allVars(WaitReleases)

FairClientSpec == ClientSpec /\ ClientFairness

-----------------------------------------------------------------------------
\* What was decided to answer an exec reaches the RPC: the closed outbound queue
\* drops answers in an aborted turn only.
NoAnswerLost ==
    \A e \in Execs : Answered(e) => e \in wired \/ e \in replying \/ Aborted

\* The outbound side of a live turn is never closed under it.
OutboundOutlivesTurn == outbound = "closed" => Aborted \/ Settled

\* A turn that has its result, and that nobody gave up, was not cancelled:
\* the turn has stopped listening before the handle aborts its signal.
CleanTurnNotCancelled ==
    outcome = "result" /\ abort # "stall" /\ ~asked => ~cancelSent

\* A handle that is iterated releases its RPC, whatever the handlers and the
\* backend do.
IterationReleasesRpc == iter = "on" ~> outbound = "closed"

\* "abort during an in-flight handler still sends one reply then tears down
\* the RPC": every exec that was answered is answered on the wire.
AbortStillReplies == \A e \in Execs : Answered(e) => e \in wired \/ e \in replying
=============================================================================
