-------------------------- MODULE ClientRun_proofs --------------------------
(***************************************************************************)
(* Proofs about the turn, for any number of execs, ids and frames, and     *)
(* about the client's handle: what is proved of a turn holds under it as   *)
(* well, and the outbound queue is closed only when that loses no answer.  *)
(* At the end both are shown to keep TurnPromise.                          *)
(***************************************************************************)
EXTENDS ClientRun, SequenceTheorems, TLAPS

-----------------------------------------------------------------------------
(* Types.                                                                  *)

PlainType ==
    /\ pc \in {"opening", "reading", "interacting", "draining", "settling", "settled"}
    /\ outcome \in Errors \union {"none", "result"}
    /\ abort \in {"none", "stall", "other"}
    /\ callerAborted \in BOOLEAN
    /\ listening \in BOOLEAN
    /\ cancelSent \in BOOLEAN
    /\ beating \in BOOLEAN
    /\ stallArmed \in BOOLEAN
    /\ arrived \in BOOLEAN
    /\ frames \in Nat
    /\ iter \in {"off", "on", "ended", "threw", "left"}
    /\ seen \in Nat

EventType ==
    /\ events \in Seq(EventKinds)
    /\ eventsEnd \in Errors \union {"open", "end"}
    /\ collected \in Seq(EventKinds)

ExecType ==
    /\ exec \in [Execs -> Answers \union {"unsent", "handling"}]
    /\ replying \subseteq Execs
    /\ idOf \in [Execs -> Ids \union {NoId}]
    /\ inFlight \in [Ids -> Execs \union {NoExec}]
    /\ flight \in [Execs -> Execs \union {NoExec}]
    /\ flightAborted \subseteq Execs
    /\ revoked \subseteq Execs

\* The type invariant in three parts, of which most steps touch one or two.
LEMMA TypeParts == TypeOK <=> PlainType /\ EventType /\ ExecType
BY DEF TypeOK, PlainType, EventType, ExecType

\* What a step leaves alone keeps its type.
LEMMA PlainSame ==
    PlainType /\ UNCHANGED <<loopVars, abort, callerVars, timerVars, frameVars, iterVars>>
        => PlainType'
BY DEF PlainType, loopVars, callerVars, timerVars, frameVars, iterVars

\* What a step leaves alone keeps its type.
LEMMA EventSame == EventType /\ UNCHANGED eventVars => EventType'
BY DEF EventType, eventVars

\* What a step leaves alone keeps its type.
LEMMA ExecSame == ExecType /\ UNCHANGED execVars => ExecType'
BY DEF ExecType, execVars

\* Concluding a turn keeps the types of what it changes.
LEMMA ConcludeType ==
    ASSUME TypeOK, NEW verdict \in Errors \union {"result"}, Conclude(verdict)
    PROVE  /\ outcome' \in Errors \union {"none", "result"}
           /\ beating' \in BOOLEAN /\ stallArmed' \in BOOLEAN
           /\ eventsEnd' \in Errors \union {"open", "end"}
           /\ pc' \in {"settling", "settled"}
           /\ listening' \in BOOLEAN
BY DEF TypeOK, Conclude, StopTimers, CloseEvents, Errors

\* The events that are named in the actions.
LEMMA Kinds == {"connected", "update", "mcp_exec", "turn_ended"} \subseteq EventKinds
BY DEF EventKinds

\* The verdicts that are not a result are errors.
LEMMA Verdicts ==
    /\ AbortVerdict \in Errors
    /\ FailureVerdict \in Errors
    /\ {"auth", "ended", "stall"} \subseteq Errors
BY DEF AbortVerdict, FailureVerdict, Errors

\* Pushing and collecting an event keeps both sequences typed.
LEMMA PublishType ==
    ASSUME TypeOK, NEW event \in EventKinds
    PROVE  /\ Push(events, event) \in Seq(EventKinds)
           /\ Append(collected, event) \in Seq(EventKinds)
BY DEF TypeOK, Push

\* An abort has a reason.
LEMMA AbortType ==
    ASSUME TypeOK, NEW reason \in {"stall", "other"}, AbortWith(reason)
    PROVE  abort' \in {"none", "stall", "other"} /\ abort' # "none"
BY DEF TypeOK, AbortWith, Aborted

\* The types hold initially.
LEMMA TypeInit == Init => TypeOK
<1> SUFFICES ASSUME Init PROVE TypeOK
  OBVIOUS
<1>1. PlainType
  BY DEF Init, PlainType
<1>2. EventType
  BY DEF Init, EventType
<1>3. ExecType
  BY DEF Init, ExecType
<1> QED
  BY <1>1, <1>2, <1>3, TypeParts

\* Every step keeps the types.
LEMMA TypeNext == TypeOK /\ [Next]_vars => TypeOK'
<1> SUFFICES ASSUME TypeOK, PlainType, EventType, ExecType, [Next]_vars
             PROVE  PlainType' /\ EventType' /\ ExecType'
  BY TypeParts, PTL
<1> USE DEF vars, loopVars, callerVars, timerVars, frameVars, eventVars, iterVars, execVars
<1>1. CASE Open
  <2>1. PlainType'
    BY <1>1, ConcludeType, Verdicts DEF Open, PlainType
  <2>2. EventType'
    BY <1>1, PublishType, ConcludeType, Verdicts, Kinds DEF Open, EventType
  <2>3. ExecType'
    BY <1>1, ExecSame DEF Open
  <2> QED
    BY <2>1, <2>2, <2>3
<1>2. CASE ReadUpdate
  <2>1. PlainType'
    BY <1>2 DEF ReadUpdate, TakeFrame, PlainType
  <2>2. EventType'
    BY <1>2, PublishType, Kinds DEF ReadUpdate, TakeFrame, Publish, EventType
  <2>3. ExecType'
    BY <1>2, ExecSame DEF ReadUpdate, TakeFrame
  <2> QED
    BY <2>1, <2>2, <2>3
<1>3. CASE ReadTurnEnded
  <2>1. PlainType'
    BY <1>3, ConcludeType, Verdicts DEF ReadTurnEnded, TakeFrame, PlainType
  <2>2. EventType'
    BY <1>3, PublishType, ConcludeType, Kinds DEF ReadTurnEnded, TakeFrame, EventType
  <2>3. ExecType'
    BY <1>3, ExecSame DEF ReadTurnEnded, TakeFrame
  <2> QED
    BY <2>1, <2>2, <2>3
<1>4. ASSUME NEW e \in Execs, NEW id \in Ids, ReadExec(e, id)
     PROVE  PlainType' /\ EventType' /\ ExecType'
  <2>1. PlainType'
    BY <1>4 DEF ReadExec, TakeFrame, PlainType
  <2>2. EventType'
    BY <1>4, PublishType, Kinds DEF ReadExec, TakeFrame, Publish, EventType
  <2>3. ExecType'
    BY <1>4 DEF ReadExec, TakeFrame, Answers, ExecType
  <2> QED
    BY <2>1, <2>2, <2>3
<1>5. ASSUME NEW id \in Ids, ReadControlAbort(id)
     PROVE  PlainType' /\ EventType' /\ ExecType'
  <2>1. PlainType'
    BY <1>5 DEF ReadControlAbort, TakeFrame, PlainType
  <2>2. EventType'
    BY <1>5, EventSame DEF ReadControlAbort, TakeFrame
  <2>3. ExecType'
    BY <1>5 DEF ReadControlAbort, TakeFrame, ExecType
  <2> QED
    BY <2>1, <2>2, <2>3
<1>6. CASE ReadInteraction
  <2>1. PlainType'
    BY <1>6 DEF ReadInteraction, TakeFrame, PlainType
  <2>2. EventType'
    BY <1>6, EventSame DEF ReadInteraction, TakeFrame
  <2>3. ExecType'
    BY <1>6, ExecSame DEF ReadInteraction, TakeFrame
  <2> QED
    BY <2>1, <2>2, <2>3
<1>7. CASE InteractionReturns
  <2>1. PlainType'
    BY <1>7, ConcludeType, Verdicts DEF InteractionReturns, PlainType
  <2>2. EventType'
    BY <1>7, ConcludeType, Verdicts DEF InteractionReturns, EventType
  <2>3. ExecType'
    BY <1>7, ExecSame DEF InteractionReturns
  <2> QED
    BY <2>1, <2>2, <2>3
<1>8. CASE Wake
  <2>1. PlainType'
    BY <1>8, ConcludeType, Verdicts DEF Wake, PlainType
  <2>2. EventType'
    BY <1>8, ConcludeType, Verdicts DEF Wake, EventType
  <2>3. ExecType'
    BY <1>8, ExecSame DEF Wake
  <2> QED
    BY <2>1, <2>2, <2>3
<1>9. CASE StreamEnds
  <2>1. PlainType'
    BY <1>9, ConcludeType, Verdicts DEF StreamEnds, PlainType
  <2>2. EventType'
    BY <1>9, ConcludeType, Verdicts DEF StreamEnds, EventType
  <2>3. ExecType'
    BY <1>9, ExecSame DEF StreamEnds
  <2> QED
    BY <2>1, <2>2, <2>3
<1>10. CASE StreamFails("auth") \/ StreamFails(FailureVerdict)
  <2>1. PlainType'
    BY <1>10, ConcludeType, Verdicts DEF StreamFails, PlainType
  <2>2. EventType'
    BY <1>10, ConcludeType, Verdicts DEF StreamFails, EventType
  <2>3. ExecType'
    BY <1>10, ExecSame DEF StreamFails
  <2> QED
    BY <2>1, <2>2, <2>3
<1>11. CASE Drained
  <2>1. PlainType'
    BY <1>11, ConcludeType, Verdicts DEF Drained, PlainType
  <2>2. EventType'
    BY <1>11, ConcludeType, Verdicts DEF Drained, EventType
  <2>3. ExecType'
    BY <1>11, ExecSame DEF Drained
  <2> QED
    BY <2>1, <2>2, <2>3
<1>12. CASE Settle
  <2>1. PlainType'
    BY <1>12 DEF Settle, StopTimers, PlainType
  <2>2. EventType'
    BY <1>12, EventSame DEF Settle, StopTimers
  <2>3. ExecType'
    BY <1>12, ExecSame DEF Settle, StopTimers
  <2> QED
    BY <2>1, <2>2, <2>3
<1>13. ASSUME NEW e \in Execs, ExecStep(e)
     PROVE  PlainType' /\ EventType' /\ ExecType'
  <2>1. PlainType'
    BY <1>13 DEF ExecStep, ExecReturns, ExecThrows, ExecWakes, ExecSends, Answer, PlainType
  <2>2. EventType'
    BY <1>13, EventSame DEF ExecStep, ExecReturns, ExecThrows, ExecWakes, ExecSends, Answer
  <2>3. ExecType'
    BY <1>13 DEF ExecStep, ExecReturns, ExecThrows, ExecWakes, ExecSends, Answer, Answers,
       ExecType
  <2> QED
    BY <2>1, <2>2, <2>3
<1>14. CASE FrameArrives
  <2>1. PlainType'
    BY <1>14 DEF FrameArrives, PlainType
  <2>2. EventType'
    BY <1>14, EventSame DEF FrameArrives
  <2>3. ExecType'
    BY <1>14, ExecSame DEF FrameArrives
  <2> QED
    BY <2>1, <2>2, <2>3
<1>15. CASE StallFires
  <2>1. PlainType'
    BY <1>15, AbortType DEF StallFires, StopTimers, PlainType
  <2>2. EventType'
    BY <1>15, Verdicts DEF StallFires, StopTimers, CloseEvents, EventType
  <2>3. ExecType'
    BY <1>15, ExecSame DEF StallFires, StopTimers
  <2> QED
    BY <2>1, <2>2, <2>3
<1>16. CASE CallerAborts
  <2>1. PlainType'
    <3>1. abort' \in {"none", "stall", "other"} /\ callerAborted' \in BOOLEAN /\ cancelSent' \in BOOLEAN
      BY <1>16, AbortType DEF CallerAborts, PlainType
    <3>2. UNCHANGED <<loopVars, listening, timerVars, frameVars, iterVars>>
      BY <1>16 DEF CallerAborts
    <3> QED
      BY <3>1, <3>2 DEF PlainType
  <2>2. EventType'
    BY <1>16, EventSame DEF CallerAborts
  <2>3. ExecType'
    BY <1>16, ExecSame DEF CallerAborts
  <2> QED
    BY <2>1, <2>2, <2>3
<1>17. CASE HandleAborts
  <2>1. PlainType'
    BY <1>17, AbortType DEF HandleAborts, PlainType
  <2>2. EventType'
    BY <1>17, EventSame DEF HandleAborts
  <2>3. ExecType'
    BY <1>17, ExecSame DEF HandleAborts
  <2> QED
    BY <2>1, <2>2, <2>3
<1>18. CASE StartIterating \/ Consume
  <2>1. PlainType'
    BY <1>18 DEF StartIterating, Consume, PlainType
  <2>2. EventType'
    BY <1>18, EventSame DEF StartIterating, Consume
  <2>3. ExecType'
    BY <1>18, ExecSame DEF StartIterating, Consume
  <2> QED
    BY <2>1, <2>2, <2>3
<1>19. CASE IterationEnds \/ IterationLeft
  <2>1. PlainType'
    BY <1>19, AbortType DEF IterationEnds, IterationLeft, FinishIteration, StopTimers, PlainType
  <2>2. EventType'
    BY <1>19, EventSame DEF IterationEnds, IterationLeft, FinishIteration, StopTimers
  <2>3. ExecType'
    BY <1>19, ExecSame DEF IterationEnds, IterationLeft, FinishIteration, StopTimers
  <2> QED
    BY <2>1, <2>2, <2>3
<1>20. CASE UNCHANGED vars
  BY <1>20, PlainSame, EventSame, ExecSame
<1>21. QED
  BY <1>1, <1>2, <1>3, <1>4, <1>5, <1>6, <1>7, <1>8, <1>9, <1>10,
     <1>11, <1>12, <1>13, <1>14, <1>15, <1>16, <1>17, <1>18, <1>19, <1>20
  DEF Next, ReadFrame

-----------------------------------------------------------------------------
(* The inductive invariant.                                                *)

\* Where the loop stands says whether the turn is decided, and a turn that is
\* settled, or has its result, has no exec left to answer.
LoopInv ==
    /\ outcome # "none" <=> pc \in {"settling", "settled"}
    /\ pc = "settled" => AllAnswered
    /\ outcome = "result" => AllAnswered

\* Before the loop is entered there is nothing to read, and nothing runs.
OpeningInv ==
    pc = "opening" =>
        /\ events = <<>> /\ collected = <<>> /\ seen = 0
        /\ eventsEnd = "open"
        /\ ~beating /\ ~stallArmed
        /\ iter \in {"off", "on"}

\* Of a turn that is not decided only the stall closes the events: it has
\* aborted the turn, or found it aborted inside an interaction handler.
ClosedInv ==
    eventsEnd # "open" /\ outcome = "none" =>
        abort = "stall" \/ (pc = "interacting" /\ Aborted)

\* No other exec has the id of this one.
Alone(e) == \A d \in Execs \ {e} : idOf[d] # idOf[e]

\* An exec that is being handled has an entry, the one its id has in the table
\* unless another exec has used that id; and the entry of an exec that was
\* asked to abort is aborted.
EntryInv ==
    \A e \in Execs :
        /\ exec[e] = "handling" => idOf[e] \in Ids /\ flight[e] \in Execs
        /\ exec[e] = "handling" /\ Alone(e) => inFlight[idOf[e]] = flight[e]
        /\ idOf[e] = NoId <=> exec[e] = "unsent"
        /\ e \in revoked => exec[e] # "unsent"
        /\ e \in revoked /\ Alone(e) => flight[e] \in flightAborted

\* The control part: the loop, the timers and how the events are closed.
ControlInv == LoopInv /\ OpeningInv /\ ClosedInv /\ NoStrayTimers /\ IteratorAgrees

\* The exec part: entries and revoked execs.
ExecsInv == EntryInv /\ RevokedExecsAborted

IInv == TypeOK /\ ControlInv /\ ResultMatchesEvents /\ ExecsInv

\* The invariant holds initially.
LEMMA InvInit == Init => IInv
<1> SUFFICES ASSUME Init PROVE IInv
  OBVIOUS
<1>1. TypeOK
  BY TypeInit
<1>2. LoopInv /\ OpeningInv /\ ClosedInv
  BY DEF Init, LoopInv, OpeningInv, ClosedInv, AllAnswered
<1>3. EntryInv /\ RevokedExecsAborted
  BY DEF Init, EntryInv, RevokedExecsAborted
<1>4. NoStrayTimers /\ IteratorAgrees
  BY DEF Init, NoStrayTimers, IteratorAgrees
<1>5. ResultMatchesEvents
  <2>1. <<>> \o <<>> = <<>>
    OBVIOUS
  <2> QED
    BY <2>1 DEF Init, ResultMatchesEvents
<1> QED
  BY <1>1, <1>2, <1>3, <1>4, <1>5 DEF IInv, ControlInv, ExecsInv

-----------------------------------------------------------------------------
(* The control part.                                                       *)

\* What concluding a turn does.
LEMMA ConcludeFacts ==
    ASSUME NEW verdict \in Errors \union {"result"}, Conclude(verdict)
    PROVE  /\ outcome' = verdict /\ outcome' # "none"
           /\ ~beating' /\ ~stallArmed'
           /\ eventsEnd' # "open"
           /\ eventsEnd # "open" => eventsEnd' = eventsEnd
           /\ eventsEnd = "open" =>
                 eventsEnd' = (IF verdict = "result" THEN "end" ELSE verdict)
           /\ pc' \in {"settling", "settled"}
           /\ pc' = "settled" => AllAnswered
BY DEF Conclude, StopTimers, CloseEvents, Errors

\* A step that decides the turn keeps it, if it found the turn undecided and,
\* for a result, every exec answered and no interaction outstanding.
LEMMA ConcludeControl ==
    ASSUME ControlInv, NEW verdict \in Errors \union {"result"}, Conclude(verdict),
           pc \in {"opening", "reading", "interacting", "draining"},
           verdict = "result" => AllAnswered /\ pc # "interacting",
           UNCHANGED <<exec, replying, abort>>
    PROVE  ControlInv'
<1> USE DEF ControlInv
<1>1. outcome = "none"
  BY DEF LoopInv
<1>2. /\ outcome' = verdict /\ outcome' # "none"
      /\ ~beating' /\ ~stallArmed'
      /\ eventsEnd' # "open"
      /\ eventsEnd # "open" => eventsEnd' = eventsEnd
      /\ eventsEnd = "open" =>
            eventsEnd' = (IF verdict = "result" THEN "end" ELSE verdict)
      /\ pc' \in {"settling", "settled"}
      /\ pc' = "settled" => AllAnswered
  BY ConcludeFacts
<1>3. AllAnswered' <=> AllAnswered
  BY DEF AllAnswered
<1>4. LoopInv'
  BY <1>2, <1>3 DEF LoopInv
<1>5. OpeningInv' /\ ClosedInv' /\ NoStrayTimers'
  BY <1>2 DEF OpeningInv, ClosedInv, NoStrayTimers
<1>6. IteratorAgrees'
  BY <1>1, <1>2 DEF IteratorAgrees, ClosedInv, Errors
<1> QED
  BY <1>4, <1>5, <1>6

\* Every step keeps the control part.
LEMMA ControlNext == TypeOK /\ ControlInv /\ [Next]_vars => ControlInv'
<1> SUFFICES ASSUME TypeOK, ControlInv, [Next]_vars PROVE ControlInv'
  OBVIOUS
<1> USE DEF vars, loopVars, callerVars, timerVars, frameVars, eventVars, iterVars, execVars
<1>1. CASE Open
  <2>1. CASE Aborted
    BY <1>1, <2>1, ConcludeControl, Verdicts DEF Open, AbortVerdict
  <2>2. CASE ~Aborted
    BY <1>1, <2>2 DEF Open, ControlInv, LoopInv, OpeningInv, ClosedInv, NoStrayTimers,
       IteratorAgrees, AllAnswered
  <2> QED
    BY <2>1, <2>2
<1>2. CASE ReadUpdate \/ ReadInteraction \/ \E id \in Ids : ReadControlAbort(id)
  BY <1>2 DEF ReadUpdate, ReadInteraction, ReadControlAbort, TakeFrame, Publish, ControlInv,
     LoopInv, OpeningInv, ClosedInv, NoStrayTimers, IteratorAgrees, AllAnswered, Aborted
<1>3. CASE ReadTurnEnded
  <2>1. CASE AllAnswered
    BY <1>3, <2>1, ConcludeControl DEF ReadTurnEnded, TakeFrame
  <2>2. CASE ~AllAnswered
    BY <1>3, <2>2 DEF ReadTurnEnded, TakeFrame, ControlInv, LoopInv, OpeningInv, ClosedInv,
       NoStrayTimers, IteratorAgrees, AllAnswered, Aborted
  <2> QED
    BY <2>1, <2>2
<1>4. ASSUME NEW e \in Execs, NEW id \in Ids, ReadExec(e, id) PROVE ControlInv'
  BY <1>4 DEF ReadExec, TakeFrame, Publish, ControlInv, LoopInv, OpeningInv, ClosedInv,
     NoStrayTimers, IteratorAgrees, Aborted
<1>5. CASE InteractionReturns
  <2>1. CASE Aborted
    BY <1>5, <2>1, ConcludeControl, Verdicts DEF InteractionReturns, AbortVerdict
  <2>2. CASE ~Aborted
    BY <1>5, <2>2 DEF InteractionReturns, ControlInv, LoopInv, OpeningInv, ClosedInv,
       NoStrayTimers, IteratorAgrees, AllAnswered, Aborted
  <2> QED
    BY <2>1, <2>2
<1>6. CASE Wake \/ StreamEnds \/ StreamFails("auth") \/ StreamFails(FailureVerdict)
  BY <1>6, ConcludeControl, Verdicts DEF Wake, StreamEnds, StreamFails, Errors
<1>7. CASE Drained
  BY <1>7, ConcludeControl DEF Drained
<1>8. CASE Settle
  BY <1>8 DEF Settle, StopTimers, ControlInv, LoopInv, OpeningInv, ClosedInv, NoStrayTimers,
     IteratorAgrees, AllAnswered, Aborted
<1>9. ASSUME NEW e \in Execs, ExecStep(e) PROVE ControlInv'
  <2>1. AllAnswered => AllAnswered'
    BY <1>9 DEF ExecStep, ExecReturns, ExecThrows, ExecWakes, ExecSends, Answer, AllAnswered
  <2> QED
    BY <1>9, <2>1 DEF ExecStep, ExecReturns, ExecThrows, ExecWakes, ExecSends, Answer,
       ControlInv, LoopInv, OpeningInv, ClosedInv, NoStrayTimers, IteratorAgrees, Aborted
<1>10. CASE StallFires
  <2>1. Aborted' /\ (abort = "none" => abort' = "stall") /\ (abort # "none" => abort' = abort)
    BY <1>10 DEF StallFires, AbortWith, Aborted
  <2>2. outcome = "none" /\ pc # "opening" /\ eventsEnd = "open"
    BY <1>10 DEF StallFires, ControlInv, NoStrayTimers, OpeningInv
  <2>3. pc \in {"reading", "draining", "interacting"}
    BY <2>2 DEF TypeOK, ControlInv, LoopInv
  <2>4. Aborted => pc = "interacting"
    BY <1>10, <2>3 DEF StallFires, ResumptionDue, AllAnswered, ExecAborted
  <2>5. LoopInv' /\ OpeningInv' /\ NoStrayTimers' /\ IteratorAgrees'
    BY <1>10, <2>2 DEF StallFires, StopTimers, CloseEvents, ControlInv, LoopInv, OpeningInv,
       NoStrayTimers, IteratorAgrees, AllAnswered
  <2>6. ClosedInv'
    BY <1>10, <2>1, <2>4 DEF StallFires, ClosedInv, Aborted
  <2> QED
    BY <2>5, <2>6 DEF ControlInv
<1>11. CASE CallerAborts \/ HandleAborts
  BY <1>11 DEF CallerAborts, HandleAborts, AbortWith, Aborted, ControlInv, LoopInv,
     OpeningInv, ClosedInv, NoStrayTimers, IteratorAgrees, AllAnswered
<1>12. CASE FrameArrives \/ StartIterating \/ Consume
  BY <1>12 DEF FrameArrives, StartIterating, Consume, TypeOK, ControlInv, LoopInv, OpeningInv,
     ClosedInv, NoStrayTimers, IteratorAgrees, AllAnswered, Aborted
<1>13. CASE IterationEnds \/ IterationLeft
  <2>1. pc # "opening"
    BY <1>13 DEF IterationEnds, IterationLeft, ControlInv, OpeningInv
  <2> QED
    BY <1>13, <2>1 DEF IterationEnds, IterationLeft, FinishIteration, AbortWith, StopTimers,
       Aborted, ControlInv, LoopInv, OpeningInv, ClosedInv, NoStrayTimers, IteratorAgrees,
       AllAnswered
<1>14. CASE UNCHANGED vars
  BY <1>14 DEF ControlInv, LoopInv, OpeningInv, ClosedInv, NoStrayTimers, IteratorAgrees,
     AllAnswered, Aborted
<1>15. QED
  BY <1>1, <1>2, <1>3, <1>4, <1>5, <1>6, <1>7, <1>8, <1>9, <1>10, <1>11, <1>12, <1>13, <1>14
  DEF Next, ReadFrame

-----------------------------------------------------------------------------
(* The events part: the result and the iterator hold the same events.        *)

\* What is appended to the collected events is appended behind the notice.
LEMMA AppendAfterConnected ==
    ASSUME NEW s \in Seq(EventKinds), NEW event \in EventKinds,
           NEW u, u = <<"connected">> \o s
    PROVE  Append(u, event) = <<"connected">> \o Append(s, event)
<1>1. <<"connected">> \in Seq(EventKinds)
  BY Kinds
<1>2. /\ u \in Seq(EventKinds) /\ Append(s, event) \in Seq(EventKinds)
      /\ <<event>> \in Seq(EventKinds)
  BY <1>1
<1>3. Append(u, event) = u \o <<event>> /\ Append(s, event) = s \o <<event>>
  BY <1>2
<1>4. (<<"connected">> \o s) \o <<event>> = <<"connected">> \o (s \o <<event>>)
  BY <1>1, <1>2, ConcatAssociative
<1> QED
  BY <1>3, <1>4

\* While the loop reads, the queue is open: what is collected is published.
LEMMA ReadingOpen == ControlInv /\ pc = "reading" /\ ~Aborted => eventsEnd = "open"
BY DEF ControlInv, LoopInv, ClosedInv, Aborted

\* Every step keeps the events part.
LEMMA EventsNext ==
    TypeOK /\ ControlInv /\ ResultMatchesEvents /\ [Next]_vars => ResultMatchesEvents'
<1> SUFFICES ASSUME TypeOK, ControlInv, ResultMatchesEvents, [Next]_vars
             PROVE  ResultMatchesEvents'
  OBVIOUS
<1> USE DEF vars, loopVars, callerVars, timerVars, frameVars, eventVars, iterVars, execVars
<1>1. events \in Seq(EventKinds) /\ collected \in Seq(EventKinds)
  BY DEF TypeOK
<1>2. ASSUME NEW event \in EventKinds, pc = "reading", ~Aborted, pc' # "opening",
             collected' = Append(collected, event), events' = Push(events, event)
      PROVE  ResultMatchesEvents'
  <2>1. events = <<"connected">> \o collected
    BY <1>2 DEF ResultMatchesEvents
  <2>2. events' = Append(events, event)
    BY <1>2, ReadingOpen DEF Push
  <2> QED
    BY <1>1, <1>2, <2>1, <2>2, AppendAfterConnected DEF ResultMatchesEvents
<1>3. ASSUME UNCHANGED <<events, collected>>, pc' = "opening" <=> pc = "opening"
      PROVE  ResultMatchesEvents'
  BY <1>3 DEF ResultMatchesEvents
<1>4. CASE Open
  <2>1. events = <<>> /\ collected = <<>> /\ eventsEnd = "open"
    BY <1>4 DEF Open, ControlInv, OpeningInv
  <2>2. events' = <<"connected">> /\ collected' = <<>>
    BY <1>4, <2>1 DEF Open, Push
  <2>3. pc' # "opening"
    BY <1>4 DEF Open, Conclude
  <2>4. <<"connected">> \o <<>> = <<"connected">>
    OBVIOUS
  <2> QED
    BY <2>2, <2>3, <2>4 DEF ResultMatchesEvents
<1>5. CASE ReadUpdate
  BY <1>5, <1>2, <1>3, Kinds DEF ReadUpdate, TakeFrame, Publish
<1>6. CASE ReadTurnEnded
  BY <1>6, <1>2, Kinds DEF ReadTurnEnded, TakeFrame, Conclude
<1>7. ASSUME NEW e \in Execs, NEW id \in Ids, ReadExec(e, id) PROVE ResultMatchesEvents'
  BY <1>7, <1>2, <1>3, Kinds DEF ReadExec, TakeFrame, Publish
<1>8. CASE ReadInteraction \/ \E id \in Ids : ReadControlAbort(id)
  BY <1>8, <1>3 DEF ReadInteraction, ReadControlAbort, TakeFrame
<1>9. CASE \/ InteractionReturns \/ Wake \/ StreamEnds \/ Drained
           \/ StreamFails("auth") \/ StreamFails(FailureVerdict)
  BY <1>9, <1>3 DEF InteractionReturns, Wake, StreamEnds, Drained, StreamFails, Conclude
<1>10. CASE Settle \/ FrameArrives \/ StallFires \/ CallerAborts \/ HandleAborts
  BY <1>10, <1>3 DEF Settle, FrameArrives, StallFires, CallerAborts, HandleAborts
<1>11. CASE StartIterating \/ Consume \/ IterationEnds \/ IterationLeft
  BY <1>11, <1>3 DEF StartIterating, Consume, IterationEnds, IterationLeft, FinishIteration
<1>12. ASSUME NEW e \in Execs, ExecStep(e) PROVE ResultMatchesEvents'
  BY <1>12, <1>3 DEF ExecStep, ExecReturns, ExecThrows, ExecWakes, ExecSends, Answer
<1>13. CASE UNCHANGED vars
  BY <1>13, <1>3
<1>14. QED
  BY <1>4, <1>5, <1>6, <1>7, <1>8, <1>9, <1>10, <1>11, <1>12, <1>13 DEF Next, ReadFrame

-----------------------------------------------------------------------------
(* The exec part.                                                          *)

\* What RevokedExecsAborted says, with Alone.
LEMMA RevokedAlone ==
    RevokedExecsAborted <=>
        \A e \in revoked : Alone(e) => exec[e] # "custom"
BY DEF RevokedExecsAborted, Alone

\* Every step keeps the exec part.
LEMMA ExecsNext == TypeOK /\ ExecsInv /\ [Next]_vars => ExecsInv'
<1> SUFFICES ASSUME TypeOK, ExecsInv, [Next]_vars PROVE ExecsInv'
  OBVIOUS
<1> USE DEF vars, loopVars, callerVars, timerVars, frameVars, eventVars, iterVars, execVars
<1>1. CASE UNCHANGED execVars
  BY <1>1 DEF ExecsInv, EntryInv, Alone, RevokedExecsAborted
<1>2. ASSUME NEW e \in Execs, NEW id \in Ids, ReadExec(e, id) PROVE ExecsInv'
  <2> DEFINE entry == IF inFlight[id] = NoExec THEN e ELSE inFlight[id]
             refused == entry \in flightAborted
  <2>1. /\ exec[e] = "unsent" /\ e \notin revoked
        /\ entry \in Execs
        /\ idOf' = [idOf EXCEPT ![e] = id]
        /\ flight' = [flight EXCEPT ![e] = entry]
        /\ exec' = [exec EXCEPT ![e] = IF refused THEN "default" ELSE "handling"]
        /\ inFlight' = [inFlight EXCEPT ![id] = IF refused THEN NoExec ELSE entry]
        /\ UNCHANGED <<flightAborted, revoked>>
    BY <1>2 DEF ReadExec, TakeFrame, TypeOK, ExecsInv, EntryInv
  <2> HIDE DEF entry, refused
  <2>2. ASSUME NEW d \in Execs, d # e
        PROVE  /\ exec'[d] = exec[d] /\ idOf'[d] = idOf[d] /\ flight'[d] = flight[d]
               /\ Alone(d)' /\ exec[d] # "unsent" => Alone(d) /\ idOf[d] # id
    <3>1. /\ exec'[d] = exec[d] /\ idOf'[d] = idOf[d] /\ flight'[d] = flight[d]
          /\ idOf'[e] = id /\ idOf[e] = NoId
      BY <2>1, <2>2 DEF TypeOK, ExecsInv, EntryInv
    <3>2. \A c \in Execs \ {e} : idOf'[c] = idOf[c]
      BY <2>1 DEF TypeOK
    <3>3. ASSUME Alone(d)' PROVE idOf[d] # id /\ \A c \in Execs \ {d, e} : idOf[c] # idOf[d]
      BY <2>2, <3>1, <3>2, <3>3 DEF Alone
    <3>4. exec[d] # "unsent" => idOf[d] # NoId
      BY DEF ExecsInv, EntryInv
    <3> QED
      BY <3>1, <3>3, <3>4 DEF Alone
  <2>3. /\ exec'[e] = (IF refused THEN "default" ELSE "handling")
        /\ idOf'[e] = id /\ flight'[e] = entry
        /\ inFlight'[id] = (IF refused THEN NoExec ELSE entry)
        /\ \A i \in Ids \ {id} : inFlight'[i] = inFlight[i]
    BY <2>1 DEF TypeOK
  <2>4. EntryInv'
    <3>1. ASSUME NEW d \in Execs, d # e
          PROVE  /\ exec'[d] = "handling" => idOf'[d] \in Ids /\ flight'[d] \in Execs
                 /\ exec'[d] = "handling" /\ Alone(d)' => inFlight'[idOf'[d]] = flight'[d]
                 /\ idOf'[d] = NoId <=> exec'[d] = "unsent"
                 /\ d \in revoked' => exec'[d] # "unsent"
                 /\ d \in revoked' /\ Alone(d)' => flight'[d] \in flightAborted'
      BY <2>1, <2>2, <2>3, <3>1 DEF ExecsInv, EntryInv
    <3>2. /\ exec'[e] = "handling" => idOf'[e] \in Ids /\ flight'[e] \in Execs
          /\ exec'[e] = "handling" => inFlight'[idOf'[e]] = flight'[e]
          /\ idOf'[e] # NoId /\ exec'[e] # "unsent"
          /\ e \notin revoked'
      BY <2>1, <2>3, ConstantsAssumption
    <3> QED
      BY <3>1, <3>2 DEF EntryInv
  <2>5. RevokedExecsAborted'
    <3>1. ASSUME NEW d \in revoked', Alone(d)' PROVE exec'[d] # "custom"
      <4>1. d \in Execs /\ d # e /\ d \in revoked /\ exec[d] # "unsent"
        BY <2>1, <3>1 DEF TypeOK, ExecsInv, EntryInv
      <4>2. Alone(d) /\ exec'[d] = exec[d]
        BY <2>2, <3>1, <4>1
      <4> QED
        BY <4>1, <4>2, RevokedAlone DEF ExecsInv
    <3> QED
      BY <3>1 DEF RevokedExecsAborted, Alone
  <2> QED
    BY <2>4, <2>5 DEF ExecsInv
<1>3. ASSUME NEW id \in Ids, ReadControlAbort(id) PROVE ExecsInv'
  BY <1>3, ConstantsAssumption DEF ReadControlAbort, TakeFrame, TypeOK, ExecsInv, EntryInv,
     Alone, RevokedExecsAborted
<1>4. ASSUME NEW e \in Execs, ExecStep(e) PROVE ExecsInv'
  BY <1>4 DEF ExecStep, ExecReturns, ExecThrows, ExecWakes, ExecSends, ExecAborted, Answer,
     TypeOK, ExecsInv, EntryInv, Alone, RevokedExecsAborted
<1>5. QED
  BY <1>1, <1>2, <1>3, <1>4 DEF Next, ReadFrame, Open, ReadUpdate, ReadTurnEnded,
     ReadInteraction, InteractionReturns, Wake, StreamEnds, StreamFails, Drained, Settle,
     FrameArrives, StallFires, CallerAborts, HandleAborts, StartIterating, Consume,
     IterationEnds, IterationLeft, FinishIteration

-----------------------------------------------------------------------------
(* The theorems.                                                           *)

\* The invariant holds in every state of every behaviour.
THEOREM Invariance == Spec => []IInv
<1>1. Init => IInv
  BY InvInit
<1>2. IInv /\ [Next]_vars => IInv'
  BY TypeNext, ControlNext, EventsNext, ExecsNext DEF IInv
<1> QED
  BY <1>1, <1>2, PTL DEF Spec

\* Every variable of a turn keeps its type (run.ts, dispatch.ts).
THEOREM TypeCorrect == Spec => []TypeOK
<1>1. IInv => TypeOK
  BY DEF IInv
<1> QED
  BY <1>1, Invariance, PTL

\* wait() settles, and a result is decided, only when every exec is answered.
THEOREM AnsweredBeforeSettledHolds == Spec => []AnsweredBeforeSettled
<1>1. IInv => AnsweredBeforeSettled
  BY DEF IInv, ControlInv, LoopInv, AnsweredBeforeSettled, Settled
<1> QED
  BY <1>1, Invariance, PTL

\* No heartbeat and no stall timeout outlives the turn, its events or its
\* iteration.
THEOREM NoStrayTimersHolds == Spec => []NoStrayTimers
<1>1. IInv => NoStrayTimers
  BY DEF IInv, ControlInv
<1> QED
  BY <1>1, Invariance, PTL

\* The result and the iterator of a turn agree on its events.
THEOREM ResultMatchesEventsHolds == Spec => []ResultMatchesEvents
<1>1. IInv => ResultMatchesEvents
  BY DEF IInv
<1> QED
  BY <1>1, Invariance, PTL

\* The result and the iterator of a turn agree on how it ended.
THEOREM IteratorAgreesHolds == Spec => []IteratorAgrees
<1>1. IInv => IteratorAgrees
  BY DEF IInv, ControlInv
<1> QED
  BY <1>1, Invariance, PTL

\* An exec the backend asked to abort is not answered by its handler.
THEOREM RevokedExecsAbortedHolds == Spec => []RevokedExecsAborted
<1>1. IInv => RevokedExecsAborted
  BY DEF IInv, ExecsInv
<1> QED
  BY <1>1, Invariance, PTL

Quiet == /\ collected' = collected
         /\ \A e \in Execs : exec'[e] # exec[e] => exec'[e] # "custom"

\* An aborted turn collects no event and sends no handler's own answer.
THEOREM AbortedTurnIsQuietHolds == Spec => AbortedTurnIsQuiet
<1>1. ASSUME TypeOK, [Next]_vars, Aborted PROVE Quiet
  <2> USE DEF vars, loopVars, callerVars, timerVars, frameVars, eventVars, iterVars, execVars
  <2>1. CASE UNCHANGED <<exec, collected>>
    BY <2>1 DEF Quiet
  <2>2. CASE ReadFrame
    BY <1>1, <2>2 DEF ReadFrame, ReadUpdate, ReadTurnEnded, ReadExec, ReadControlAbort,
       ReadInteraction, TakeFrame
  <2>3. ASSUME NEW e \in Execs, ExecStep(e) PROVE Quiet
    BY <1>1, <2>3 DEF ExecStep, ExecReturns, ExecThrows, ExecWakes, ExecSends, ExecAborted,
       Answer, TypeOK, Quiet
  <2> QED
    BY <1>1, <2>1, <2>2, <2>3 DEF Next, Open, InteractionReturns, Wake, StreamEnds,
       StreamFails, Drained, Settle, FrameArrives, StallFires, CallerAborts, HandleAborts,
       StartIterating, Consume, IterationEnds, IterationLeft, FinishIteration
<1>2. TypeOK /\ [Next]_vars => [Aborted => Quiet]_vars
  BY <1>1
<1> QED
  BY <1>2, TypeCorrect, PTL DEF Spec, AbortedTurnIsQuiet, Quiet

-----------------------------------------------------------------------------
(* The client's handle (ClientRun).                                        *)

\* A turn that has its result is settled and listens to its caller no more.
ResultSettled ==
    /\ outcome = "result" => pc = "settled"
    /\ pc = "settled" => ~listening

\* Nobody having asked for it, a cancelAction goes out only for a turn that
\* failed or must fail: its events were closed with an error.
CancelInv ==
    cancelSent /\ ~asked =>
        \/ abort = "stall"
        \/ outcome \in Errors
        \/ outcome = "none" /\ pc = "interacting" /\ Aborted

\* A finished iteration has aborted the turn, and says how it finished.
IterInv ==
    /\ iter \in {"ended", "threw", "left"} => Aborted
    /\ iter = "ended" => eventsEnd = "end"
    /\ iter = "threw" => eventsEnd \in Errors

\* An iteration its consumer left was asked to end.
LeftInv == iter = "left" => asked

HandleInv ==
    /\ ResultSettled
    /\ CancelInv
    /\ IterInv
    /\ LeftInv
    /\ outbound \in {"open", "closed"}
    /\ asked \in BOOLEAN /\ waiting \in BOOLEAN
    /\ wired \subseteq Execs
    /\ OutboundOutlivesTurn
    /\ NoAnswerLost

CInv == IInv /\ HandleInv

USE DEF vars, loopVars, callerVars, timerVars, frameVars, eventVars, iterVars, execVars

-----------------------------------------------------------------------------
\* The steps the handle takes by itself only abort the turn.
LEMMA HandleKeepsTurn ==
    ASSUME IInv, cancelSent' \in BOOLEAN, callerAborted' \in BOOLEAN,
           abort' = abort \/ AbortWith("other"),
           UNCHANGED <<loopVars, listening, timerVars, frameVars, eventVars, iterVars, execVars>>
    PROVE  IInv'
<1>1. PlainType /\ EventType /\ ExecType
  BY TypeParts DEF IInv
<1>2. abort' \in {"none", "stall", "other"} /\ (Aborted => abort' = abort)
  BY <1>1 DEF PlainType, AbortWith, Aborted
<1>3. PlainType'
  BY <1>1, <1>2 DEF PlainType
<1>4. TypeOK'
  <2>1. EventType' /\ ExecType'
    BY <1>1, EventSame, ExecSame
  <2> QED
    BY <1>3, <2>1, TypeParts, PTL
<1>5. ControlInv'
  BY <1>2 DEF IInv, ControlInv, LoopInv, OpeningInv, ClosedInv, NoStrayTimers, IteratorAgrees,
     AllAnswered, Aborted, AbortWith
<1>6. ResultMatchesEvents'
  BY DEF IInv, ResultMatchesEvents
<1>7. ExecsInv'
  BY DEF IInv, ExecsInv, EntryInv, Alone, RevokedExecsAborted
<1> QED
  BY <1>4, <1>5, <1>6, <1>7 DEF IInv

\* A step of the turn keeps the turn's invariant.
LEMMA TurnKeepsTurn == IInv /\ [Next]_vars => IInv'
BY TypeNext, ControlNext, EventsNext, ExecsNext DEF IInv

-----------------------------------------------------------------------------
(* The initial state, and steps of the turn.                               *)

\* The invariant holds when the handle is made.
LEMMA ClientInvInit == ClientInit => CInv
<1> SUFFICES ASSUME ClientInit PROVE CInv
  OBVIOUS
<1>1. IInv
  BY InvInit DEF ClientInit
<1>2. Init
  BY DEF ClientInit
<1>3. \A e \in Execs : exec[e] = "unsent"
  BY <1>2 DEF Init
<1>4. asked \in BOOLEAN
  BY <1>2 DEF ClientInit, Init
<1> QED
  BY <1>1, <1>2, <1>3, <1>4 DEF ClientInit, Init, CInv, HandleInv, ResultSettled, CancelInv,
     IterInv, LeftInv, OutboundOutlivesTurn, NoAnswerLost, Answered, Answers

\* A step of the turn: it stops listening when it settles.
LEMMA TurnSettles == IInv /\ ResultSettled /\ [Next]_vars => ResultSettled'
<1> SUFFICES ASSUME IInv, ResultSettled, [Next]_vars PROVE ResultSettled'
  OBVIOUS
<1> USE DEF ResultSettled
<1>1. ASSUME NEW verdict \in Errors \union {"result"}, Conclude(verdict),
             verdict = "result" => AllAnswered
      PROVE  ResultSettled'
  BY <1>1 DEF Conclude, Errors
<1>2. CASE UNCHANGED <<loopVars, listening>>
  BY <1>2
<1>3. CASE Open
  BY <1>1, <1>3, Verdicts DEF Open, AbortVerdict, IInv, ControlInv, LoopInv
<1>4. CASE ReadFrame
  BY <1>1, <1>2, <1>4 DEF ReadFrame, ReadUpdate, ReadTurnEnded, ReadExec, ReadControlAbort,
     ReadInteraction, TakeFrame, IInv, ControlInv, LoopInv
<1>5. CASE InteractionReturns
  BY <1>1, <1>5, Verdicts DEF InteractionReturns, AbortVerdict, IInv, ControlInv, LoopInv
<1>6. CASE Wake \/ StreamEnds \/ StreamFails("auth") \/ StreamFails(FailureVerdict) \/ Drained
  BY <1>1, <1>6, Verdicts DEF Wake, StreamEnds, StreamFails, Drained, Errors
<1>7. CASE Settle
  BY <1>7 DEF Settle
<1> QED
  BY <1>2, <1>3, <1>4, <1>5, <1>6, <1>7 DEF Next, ExecStep, ExecReturns, ExecThrows,
     ExecWakes, ExecSends, Answer, FrameArrives, StallFires, CallerAborts, HandleAborts,
     StartIterating, Consume, IterationEnds, IterationLeft, FinishIteration

\* A step of the turn that is not an abort of its caller keeps the cancelAction
\* where it is justified.
LEMMA TurnCancels ==
    ASSUME IInv, CancelInv, [Next]_vars, UNCHANGED <<cancelSent, asked>>
    PROVE  CancelInv'
<1> SUFFICES ASSUME cancelSent, ~asked PROVE CancelInv'
  BY DEF CancelInv
<1> USE DEF CancelInv
<1>1. CASE abort = "stall"
  <2>1. abort' = "stall"
    BY <1>1 DEF Next, ReadFrame, Open, ReadUpdate, ReadTurnEnded, ReadExec,
       ReadControlAbort, ReadInteraction, InteractionReturns, Wake, StreamEnds, StreamFails,
       Drained, Settle, ExecStep, ExecReturns, ExecThrows, ExecWakes, ExecSends, Answer,
       FrameArrives, StallFires, CallerAborts, HandleAborts, StartIterating, Consume,
       IterationEnds, IterationLeft, FinishIteration, AbortWith, Aborted
  <2> QED
    BY <2>1
<1>2. CASE outcome \in Errors
  <2>1. pc \in {"settling", "settled"}
    BY <1>2 DEF IInv, ControlInv, LoopInv, Errors
  <2>2. outcome' = outcome
    BY <2>1 DEF Next, ReadFrame, Open, ReadUpdate, ReadTurnEnded, ReadExec,
       ReadControlAbort, ReadInteraction, TakeFrame, InteractionReturns, Wake, StreamEnds,
       StreamFails, Drained, Settle, ExecStep, ExecReturns, ExecThrows, ExecWakes,
       ExecSends, Answer, FrameArrives, StallFires, CallerAborts, HandleAborts,
       StartIterating, Consume, IterationEnds, IterationLeft, FinishIteration
  <2> QED
    BY <1>2, <2>2
<1>3. CASE outcome = "none" /\ pc = "interacting" /\ Aborted
  <2>1. CASE InteractionReturns
    BY <1>3, <2>1, Verdicts DEF InteractionReturns, Conclude
  <2>2. CASE ~InteractionReturns
    BY <1>3, <2>2 DEF Next, ReadFrame, Open, ReadUpdate, ReadTurnEnded, ReadExec,
       ReadControlAbort, ReadInteraction, TakeFrame, Wake, StreamEnds, StreamFails, Drained,
       Settle, ExecStep, ExecReturns, ExecThrows, ExecWakes, ExecSends, Answer,
       FrameArrives, StallFires, CallerAborts, HandleAborts, StartIterating, Consume,
       IterationEnds, IterationLeft, FinishIteration, AbortWith, Aborted
  <2> QED
    BY <2>1, <2>2
<1> QED
  BY <1>1, <1>2, <1>3

\* Aborted and Settled are for good.
LEMMA TurnStaysOver ==
    IInv /\ [Next]_vars => (Aborted => Aborted') /\ (Settled => Settled')
BY DEF Next, ReadFrame, Open, ReadUpdate, ReadTurnEnded, ReadExec, ReadControlAbort,
   ReadInteraction, TakeFrame, InteractionReturns, Wake, StreamEnds, StreamFails, Drained,
   Settle, ExecStep, ExecReturns, ExecThrows, ExecWakes, ExecSends, Answer, FrameArrives,
   StallFires, CallerAborts, HandleAborts, StartIterating, Consume, IterationEnds,
   IterationLeft, FinishIteration, AbortWith, Aborted, Settled

\* How the events were closed is for good.
LEMMA EndStays == IInv /\ [Next]_vars /\ eventsEnd # "open" => eventsEnd' = eventsEnd
<1> SUFFICES ASSUME [Next]_vars, eventsEnd # "open" PROVE eventsEnd' = eventsEnd
  OBVIOUS
<1>1. ASSUME NEW verdict, Conclude(verdict) PROVE eventsEnd' = eventsEnd
  BY <1>1 DEF Conclude, CloseEvents
<1> QED
  BY <1>1 DEF Next, ReadFrame, Open, ReadUpdate, ReadTurnEnded, ReadExec, ReadControlAbort,
     ReadInteraction, InteractionReturns, Wake, StreamEnds, StreamFails, Drained, Settle,
     ExecStep, ExecReturns, ExecThrows, ExecWakes, ExecSends, Answer, FrameArrives,
     StallFires, CallerAborts, HandleAborts, StartIterating, Consume, IterationEnds,
     IterationLeft, FinishIteration, Publish, CloseEvents

\* A step of the turn keeps what a finished iteration says.
LEMMA TurnIterates == IInv /\ IterInv /\ [Next]_vars => IterInv'
<1> SUFFICES ASSUME IInv, IterInv, [Next]_vars PROVE IterInv'
  OBVIOUS
<1> USE DEF IterInv
<1>1. CASE iter' = iter
  <2>1. iter \in {"ended", "threw"} => eventsEnd' = eventsEnd
    BY EndStays DEF Errors
  <2> QED
    BY <1>1, <2>1, TurnStaysOver
<1>2. CASE IterationEnds \/ IterationLeft
  <2>1. Aborted'
    BY <1>2 DEF IterationEnds, IterationLeft, FinishIteration, AbortWith, Aborted
  <2>2. eventsEnd \in Errors \union {"open", "end"} /\ eventsEnd' = eventsEnd
    BY <1>2 DEF IterationEnds, IterationLeft, FinishIteration, IInv, TypeOK
  <2> QED
    BY <1>2, <2>1, <2>2 DEF IterationEnds, IterationLeft, FinishIteration
<1>3. CASE StartIterating
  BY <1>3 DEF StartIterating
<1> QED
  BY <1>1, <1>2, <1>3 DEF Next, ReadFrame, Open, ReadUpdate, ReadTurnEnded, ReadExec,
     ReadControlAbort, ReadInteraction, InteractionReturns, Wake, StreamEnds, StreamFails,
     Drained, Settle, ExecStep, ExecReturns, ExecThrows, ExecWakes, ExecSends, Answer,
     FrameArrives, StallFires, CallerAborts, HandleAborts, Consume

\* In a settled turn nothing is decided or sent any more.
LEMMA SettledSilent ==
    IInv /\ [Next]_vars /\ Settled => UNCHANGED <<exec, replying>>
<1> SUFFICES ASSUME IInv, [Next]_vars, Settled PROVE UNCHANGED <<exec, replying>>
  OBVIOUS
<1>1. AllAnswered /\ pc = "settled"
  BY DEF IInv, ControlInv, LoopInv, Settled
<1>2. ~ReadFrame
  BY <1>1 DEF ReadFrame, ReadUpdate, ReadTurnEnded, ReadExec, ReadControlAbort,
     ReadInteraction, TakeFrame
<1>3. ASSUME NEW e \in Execs PROVE ~ExecStep(e)
  BY <1>1 DEF AllAnswered, ExecStep, ExecReturns, ExecThrows, ExecWakes, ExecSends, Answer
<1> QED
  BY <1>2, <1>3 DEF Next, Open, InteractionReturns, Wake, StreamEnds, StreamFails, Drained,
     Settle, FrameArrives, StallFires, CallerAborts, HandleAborts, StartIterating, Consume,
     IterationEnds, IterationLeft, FinishIteration

\* What is newly answered is yet to be sent.
LEMMA AnsweredReplies ==
    ASSUME IInv, [Next]_vars, NEW e \in Execs, Answered(e)', ~Answered(e)
    PROVE  e \in replying'
<1>1. exec'[e] # exec[e]
  BY DEF Answered
<1>2. ASSUME NEW d \in Execs, NEW id \in Ids, ReadExec(d, id) PROVE e \in replying'
  BY <1>1, <1>2 DEF ReadExec, IInv, TypeOK, Answered, Answers
<1>3. ASSUME NEW d \in Execs, ExecStep(d) PROVE e \in replying'
  BY <1>1, <1>3 DEF ExecStep, ExecReturns, ExecThrows, ExecWakes, ExecSends, Answer, IInv, TypeOK
<1> QED
  BY <1>1, <1>2, <1>3 DEF Next, ReadFrame, Open, ReadUpdate, ReadTurnEnded, ReadControlAbort,
     ReadInteraction, InteractionReturns, Wake, StreamEnds, StreamFails, Drained, Settle,
     FrameArrives, StallFires, CallerAborts, HandleAborts, StartIterating, Consume,
     IterationEnds, IterationLeft, FinishIteration

-----------------------------------------------------------------------------
(* The steps of the handle.                                                *)

\* What every step of the turn that the handle lets through keeps.
LEMMA TurnKeeps ==
    ASSUME CInv, [Next]_vars, UNCHANGED outbound,
           UNCHANGED cancelSent \/ asked', asked' = asked \/ asked' = TRUE,
           iter' = iter \/ iter' # "left" \/ asked',
           Forward \/ UNCHANGED <<exec, replying, wired>>, UNCHANGED waiting
    PROVE  CInv'
<1> USE DEF CInv, HandleInv
<1>1. IInv'
  BY TurnKeepsTurn
<1>2. ResultSettled'
  BY TurnSettles
<1>3. CancelInv'
  <2>1. CASE asked'
    BY <2>1 DEF CancelInv
  <2>2. CASE ~asked'
    <3>1. UNCHANGED <<cancelSent, asked>>
      BY <2>2
    <3> QED
      BY <3>1, TurnCancels
  <2> QED
    BY <2>1, <2>2
<1>4. IterInv' /\ LeftInv'
  BY TurnIterates DEF LeftInv
<1>5. wired' \subseteq Execs
  BY DEF Forward, IInv, TypeOK
<1>6. OutboundOutlivesTurn'
  BY TurnStaysOver DEF OutboundOutlivesTurn
<1>7. NoAnswerLost'
  <2>1. CASE UNCHANGED <<exec, replying, wired>>
    BY <2>1, TurnStaysOver DEF NoAnswerLost, Answered
  <2>2. CASE Aborted
    BY <2>2, TurnStaysOver DEF NoAnswerLost
  <2>3. CASE ~Aborted /\ outbound = "open" /\ Forward
    BY <2>3, AnsweredReplies DEF Forward, NoAnswerLost
  <2>4. CASE ~Aborted /\ outbound = "closed" /\ Forward
    <3>1. Settled
      BY <2>4 DEF OutboundOutlivesTurn
    <3>2. UNCHANGED <<exec, replying, wired>>
      BY <2>4, <3>1, SettledSilent DEF Forward
    <3> QED
      BY <2>1, <3>2
  <2> QED
    BY <2>1, <2>2, <2>3, <2>4
<1>8. asked' \in BOOLEAN /\ waiting' \in BOOLEAN /\ outbound' \in {"open", "closed"}
  OBVIOUS
<1> QED
  BY <1>1, <1>2, <1>3, <1>4, <1>5, <1>6, <1>7, <1>8

\* Every step of the handle and its turn keeps the invariant.
LEMMA ClientInvNext == CInv /\ [ClientNext]_allVars => CInv'
<1> SUFFICES ASSUME CInv, [ClientNext]_allVars PROVE CInv'
  OBVIOUS
<1> USE DEF clientVars, allVars
<1>1. CASE TurnStep
  <2>1. [Next]_vars /\ UNCHANGED cancelSent /\ (iter' = iter \/ iter' # "left")
    BY <1>1 DEF TurnStep, Carry, Next, ReadFrame, Open, ReadUpdate, ReadTurnEnded, ReadExec,
       ReadControlAbort, ReadInteraction, InteractionReturns, Wake, StreamEnds, StreamFails,
       Drained, Settle, ExecStep, ExecReturns, ExecThrows, ExecWakes, ExecSends, Answer,
       FrameArrives, StallFires, StartIterating, Consume, IterationEnds, FinishIteration
  <2>2. Forward /\ UNCHANGED <<outbound, waiting, asked>>
    BY <1>1 DEF TurnStep, Carry
  <2> QED
    BY <2>1, <2>2, TurnKeeps
<1>2. CASE SignalAborts
  BY <1>2, TurnKeeps DEF SignalAborts, CallerAborts, Next
<1>3. CASE Leave
  BY <1>3, TurnKeeps DEF Leave, IterationLeft, FinishIteration, Next
<1>4. ASSUME UNCHANGED vars, UNCHANGED <<outbound, wired, asked>>, waiting' \in BOOLEAN
      PROVE  CInv'
  <2>1. CInv /\ UNCHANGED <<vars, outbound, wired, asked>>
    BY <1>4
  <2>2. IInv'
    BY <1>4, TurnKeepsTurn DEF CInv
  <2>3. ResultSettled' /\ CancelInv' /\ IterInv' /\ LeftInv'
    BY <2>1 DEF CInv, HandleInv, ResultSettled, CancelInv, IterInv, LeftInv, Aborted
  <2>4. OutboundOutlivesTurn' /\ NoAnswerLost'
    BY <2>1 DEF CInv, HandleInv, OutboundOutlivesTurn, NoAnswerLost, Answered, Aborted, Settled
  <2> QED
    BY <1>4, <2>1, <2>2, <2>3, <2>4 DEF CInv, HandleInv
<1>5. CASE CallWait
  BY <1>5, <1>4 DEF CallWait
<1>6. ASSUME GiveUp, iter \in {"ended", "threw", "left"} \/ Settled PROVE CInv'
  <2>1. IInv'
    BY <1>6, HandleKeepsTurn DEF GiveUp, RunAborts, CInv, IInv, TypeOK
  <2>2. ResultSettled' /\ IterInv' /\ LeftInv'
    BY <1>6 DEF GiveUp, RunAborts, AbortWith, Aborted, CInv, HandleInv, ResultSettled, IterInv,
       LeftInv
  <2>3. OutboundOutlivesTurn'
    BY <1>6 DEF GiveUp, RunAborts, AbortWith, Aborted, Settled, OutboundOutlivesTurn, CInv,
       HandleInv, IterInv
  <2>4. NoAnswerLost'
    BY <1>6 DEF GiveUp, RunAborts, AbortWith, Aborted, CInv, HandleInv, NoAnswerLost, Answered
  <2>5. CancelInv'
    <3>1. CASE UNCHANGED <<cancelSent, abort>>
      BY <1>6, <3>1 DEF GiveUp, CInv, HandleInv, CancelInv, Aborted
    <3>2. CASE listening /\ ~asked
      <4>1. iter \in {"ended", "threw"} /\ outcome # "result"
        BY <1>6, <3>2 DEF CInv, HandleInv, ResultSettled, LeftInv, Settled
      <4>2. eventsEnd \in Errors /\ Aborted
        BY <4>1 DEF CInv, IInv, HandleInv, IterInv, ControlInv, IteratorAgrees
      <4>3. abort = "stall" \/ outcome \in Errors \/ (outcome = "none" /\ pc = "interacting")
        BY <4>1, <4>2 DEF CInv, IInv, TypeOK, ControlInv, ClosedInv, Errors
      <4>4. abort' = abort /\ UNCHANGED loopVars
        BY <1>6, <4>2 DEF GiveUp, RunAborts, AbortWith
      <4> QED
        BY <4>2, <4>3, <4>4 DEF CancelInv, Aborted
    <3>3. CASE asked
      BY <1>6, <3>3 DEF GiveUp, CancelInv
    <3> QED
      BY <1>6, <3>1, <3>2, <3>3 DEF GiveUp, RunAborts
  <2> QED
    BY <1>6, <2>1, <2>2, <2>3, <2>4, <2>5 DEF GiveUp, CInv, HandleInv
<1>7. CASE IteratorReleases \/ WaitReleases
  BY <1>6, <1>7 DEF IteratorReleases, WaitReleases
<1>8. CASE ClientAborts
  <2>1. IInv'
    BY <1>8, HandleKeepsTurn DEF ClientAborts, CInv
  <2>2. Aborted'
    BY <1>8 DEF ClientAborts, AbortWith, Aborted
  <2> QED
    BY <1>8, <2>1, <2>2 DEF ClientAborts, CInv, HandleInv, ResultSettled, CancelInv, IterInv,
       LeftInv, OutboundOutlivesTurn, NoAnswerLost
<1>9. CASE UNCHANGED allVars
  BY <1>9, <1>4 DEF CInv, HandleInv
<1> QED
  BY <1>1, <1>2, <1>3, <1>5, <1>7, <1>8, <1>9 DEF ClientNext

-----------------------------------------------------------------------------
(* The theorems.                                                           *)

\* The invariant of the handle and its turn.
THEOREM ClientInvariance == ClientSpec => []CInv
BY ClientInvInit, ClientInvNext, PTL DEF ClientSpec

\* The types of the handle and its turn (client.ts run, attachOutbound).
THEOREM ClientTypeCorrect == ClientSpec => []ClientTypeOK
<1>1. CInv => ClientTypeOK
  BY DEF CInv, HandleInv, IInv, ClientTypeOK
<1> QED
  BY <1>1, ClientInvariance, PTL

\* What a handler or the library decided to answer reaches the RPC.
THEOREM NoAnswerLostHolds == ClientSpec => []NoAnswerLost
<1>1. CInv => NoAnswerLost
  BY DEF CInv, HandleInv
<1> QED
  BY <1>1, ClientInvariance, PTL

\* The outbound queue is closed only under a turn that is aborted or settled.
THEOREM OutboundOutlivesTurnHolds == ClientSpec => []OutboundOutlivesTurn
<1>1. CInv => OutboundOutlivesTurn
  BY DEF CInv, HandleInv
<1> QED
  BY <1>1, ClientInvariance, PTL

\* No cancelAction goes out for a turn that has its result unless asked for.
THEOREM CleanTurnNotCancelledHolds == ClientSpec => []CleanTurnNotCancelled
<1>1. CInv => CleanTurnNotCancelled
  BY DEF CInv, HandleInv, CancelInv, CleanTurnNotCancelled, Errors
<1> QED
  BY <1>1, ClientInvariance, PTL

\* What is proved of a turn by itself holds of the client's turns as well: the
\* handle aborts it at other times, and closes what it sends to.
THEOREM ClientTurnSafe ==
    ClientSpec => [](/\ AnsweredBeforeSettled /\ NoStrayTimers /\ ResultMatchesEvents
                     /\ IteratorAgrees /\ RevokedExecsAborted)
<1>1. CInv => /\ AnsweredBeforeSettled /\ NoStrayTimers /\ ResultMatchesEvents
              /\ IteratorAgrees /\ RevokedExecsAborted
  BY DEF CInv, IInv, ControlInv, ExecsInv, LoopInv, AnsweredBeforeSettled, Settled
<1> QED
  BY <1>1, ClientInvariance, PTL

-----------------------------------------------------------------------------
(* The turn implements TurnPromise.                                        *)

\* turn_ended was the last event.
IsOver == events # <<>> /\ events[Len(events)] = "turn_ended"

\* How the events are closed fits the outcome, the stall apart; the outcome is
\* a result exactly if turn_ended was read; and what is to be sent is decided.
OutcomeInv ==
    /\ abort = "stall" => eventsEnd = "stall"
    /\ eventsEnd \in Errors \ {"stall"} => outcome = eventsEnd
    /\ IsOver <=> pc = "draining" \/ outcome = "result"
    /\ \A e \in replying : exec[e] \in Answers

PromiseInv == IInv /\ IterInv /\ OutcomeInv

\* The invariant holds initially.
LEMMA PromiseInvInit == Init => PromiseInv
<1> SUFFICES ASSUME Init PROVE PromiseInv
  OBVIOUS
<1>1. IInv
  BY InvInit
<1>2. IterInv /\ OutcomeInv
  BY DEF Init, IterInv, OutcomeInv, IsOver, Errors
<1> QED
  BY <1>1, <1>2 DEF PromiseInv

\* What was appended is the last event.
LEMMA LastEvent ==
    ASSUME TypeOK, NEW event \in EventKinds
    PROVE  /\ Append(events, event) # <<>>
           /\ Append(events, event)[Len(Append(events, event))] = event
<1>1. events \in Seq(EventKinds)
  BY DEF TypeOK
<1>2. Len(Append(events, event)) = Len(events) + 1 /\ Len(events) \in Nat
  BY <1>1, AppendProperties, LenProperties
<1>3. Append(events, event)[Len(events) + 1] = event
  BY <1>1, AppendProperties
<1>4. Append(events, event) # <<>>
  BY <1>1, AppendProperties
<1> QED
  BY <1>2, <1>3, <1>4

\* There are events exactly when the turn was opened.
LEMMA OpenedEvents == IInv => (events = <<>> <=> pc = "opening")
<1> SUFFICES ASSUME IInv PROVE events = <<>> <=> pc = "opening"
  OBVIOUS
<1>1. CASE pc = "opening"
  BY <1>1 DEF IInv, ControlInv, OpeningInv
<1>2. CASE pc # "opening"
  <2>1. collected \in Seq(EventKinds) /\ <<"connected">> \in Seq(EventKinds)
    BY Kinds DEF IInv, TypeOK
  <2>2. events = <<"connected">> \o collected
    BY <1>2 DEF IInv, ResultMatchesEvents
  <2>3. Len(events) = 1 + Len(collected) /\ Len(collected) \in Nat
    BY <2>1, <2>2, ConcatProperties, LenProperties
  <2>4. events # <<>>
    BY <2>3
  <2> QED
    BY <1>2, <2>4
<1> QED
  BY <1>1, <1>2

\* A turn that reads a frame goes on, and its events are open.
LEMMA ReadingGoesOn ==
    ASSUME PromiseInv, pc = "reading"
    PROVE  /\ outcome = "none" /\ events # <<>> /\ ~IsOver
           /\ ~Aborted => eventsEnd = "open" /\ iter \in {"off", "on"}
<1>1. outcome = "none"
  BY DEF PromiseInv, IInv, ControlInv, LoopInv
<1>2. events # <<>>
  BY OpenedEvents DEF PromiseInv
<1>3. ~IsOver
  BY <1>1 DEF PromiseInv, OutcomeInv
<1>4. ~Aborted => eventsEnd = "open"
  BY ReadingOpen DEF PromiseInv, IInv
<1>5. ~Aborted => iter \in {"off", "on"}
  BY DEF PromiseInv, IInv, TypeOK, IterInv
<1> QED
  BY <1>1, <1>2, <1>3, <1>4, <1>5

\* Deciding the turn keeps what the outcome says of the events.
LEMMA ConcludeOutcome ==
    ASSUME PromiseInv, NEW verdict \in Errors \union {"result"}, Conclude(verdict),
           outcome = "none", verdict = "stall" => abort = "stall",
           abort' = abort, UNCHANGED <<exec, replying>>,
           IsOver' <=> verdict = "result"
    PROVE  OutcomeInv'
<1>1. /\ outcome' = verdict /\ pc' \in {"settling", "settled"}
      /\ eventsEnd # "open" => eventsEnd' = eventsEnd
      /\ eventsEnd = "open" => eventsEnd' = (IF verdict = "result" THEN "end" ELSE verdict)
  BY ConcludeFacts
<1>2. abort = "stall" => eventsEnd = "stall"
  BY DEF PromiseInv, OutcomeInv
<1>3. eventsEnd \notin Errors \ {"stall"}
  BY DEF PromiseInv, OutcomeInv, Errors
<1>4. abort' = "stall" => eventsEnd' = "stall"
  BY <1>1, <1>2
<1>5. eventsEnd' \in Errors \ {"stall"} => outcome' = eventsEnd'
  BY <1>1, <1>2, <1>3 DEF Errors
<1>6. IsOver' <=> pc' = "draining" \/ outcome' = "result"
  BY <1>1
<1>7. \A e \in replying' : exec'[e] \in Answers
  BY DEF PromiseInv, OutcomeInv
<1> QED
  BY <1>4, <1>5, <1>6, <1>7 DEF OutcomeInv

\* Every step of the turn keeps the invariant.
LEMMA OutcomeNext == PromiseInv /\ [Next]_vars => OutcomeInv'
<1> SUFFICES ASSUME PromiseInv, [Next]_vars PROVE OutcomeInv'
  OBVIOUS
<1>1. ASSUME abort' = abort \/ abort' = "other", UNCHANGED <<outcome, eventsEnd, events, exec, replying>>,
             pc' = "draining" <=> pc = "draining"
      PROVE  OutcomeInv'
  BY <1>1 DEF PromiseInv, OutcomeInv, IsOver
<1>2. CASE Open
  <2>1. pc = "opening" /\ outcome = "none" /\ eventsEnd = "open" /\ events = <<>>
    BY <1>2 DEF Open, PromiseInv, IInv, ControlInv, LoopInv, OpeningInv
  <2>2. events' = <<"connected">>
    BY <1>2, <2>1 DEF Open, Push
  <2>3. ~IsOver'
    BY <2>2 DEF IsOver
  <2>4. CASE Aborted
    <3>1. AbortVerdict # "result" /\ (AbortVerdict = "stall" => abort = "stall")
      BY DEF AbortVerdict
    <3> QED
      BY <1>2, <2>1, <2>3, <2>4, <3>1, ConcludeOutcome, Verdicts DEF Open
  <2>5. CASE ~Aborted
    BY <1>2, <2>1, <2>3, <2>5 DEF Open, PromiseInv, OutcomeInv, Aborted, Errors
  <2> QED
    BY <2>4, <2>5
<1>3. ASSUME NEW event \in EventKinds \ {"turn_ended"}, pc = "reading", ~Aborted, pc' = pc,
             UNCHANGED <<outcome, abort, eventsEnd>>,
             events' = Push(events, event) \/ UNCHANGED events,
             \A e \in replying' : exec'[e] \in Answers
      PROVE  OutcomeInv'
  <2>1. eventsEnd = "open" /\ outcome = "none" /\ ~IsOver
    BY <1>3, ReadingGoesOn
  <2>2. CASE UNCHANGED events
    BY <1>3, <2>1, <2>2 DEF PromiseInv, OutcomeInv, IsOver
  <2>3. CASE events' = Push(events, event)
    <3>1. events' = Append(events, event)
      BY <2>1, <2>3 DEF Push
    <3>2. ~IsOver'
      BY <3>1, LastEvent DEF IsOver, PromiseInv, IInv
    <3> QED
      BY <1>3, <2>1, <3>2 DEF PromiseInv, OutcomeInv, Errors
  <2> QED
    BY <1>3, <2>2, <2>3
<1>4. \A e \in replying : exec[e] \in Answers
  BY DEF PromiseInv, OutcomeInv
<1>5. CASE ReadUpdate
  BY <1>3, <1>4, <1>5 DEF ReadUpdate, TakeFrame, Publish, EventKinds
<1>6. CASE ReadTurnEnded
  <2>1. pc = "reading" /\ eventsEnd = "open" /\ outcome = "none"
    BY <1>6, ReadingGoesOn DEF ReadTurnEnded, TakeFrame
  <2>2. events' = Append(events, "turn_ended")
    BY <1>6, <2>1 DEF ReadTurnEnded, Push
  <2>3. IsOver'
    BY <2>2, LastEvent DEF IsOver, PromiseInv, IInv, EventKinds
  <2>4. CASE AllAnswered
    BY <1>6, <2>1, <2>3, <2>4, ConcludeOutcome DEF ReadTurnEnded
  <2>5. CASE ~AllAnswered
    BY <1>4, <1>6, <2>1, <2>3, <2>5 DEF ReadTurnEnded, PromiseInv, OutcomeInv, Errors
  <2> QED
    BY <2>4, <2>5
<1>7. ASSUME NEW e \in Execs, NEW id \in Ids, ReadExec(e, id) PROVE OutcomeInv'
  <2>1. exec \in [Execs -> Answers \union {"unsent", "handling"}] /\ replying \subseteq Execs
    BY DEF PromiseInv, IInv, TypeOK
  <2>2. exec[e] = "unsent" /\ e \notin replying
    BY <1>4, <1>7 DEF ReadExec, Answers
  <2>3. \A d \in replying' : exec'[d] \in Answers
    BY <1>4, <1>7, <2>1, <2>2 DEF ReadExec, Answers
  <2> QED
    BY <1>3, <1>7, <2>3 DEF ReadExec, TakeFrame, Publish, EventKinds
<1>8. CASE ReadInteraction \/ \E id \in Ids : ReadControlAbort(id)
  BY <1>1, <1>8 DEF ReadInteraction, ReadControlAbort, TakeFrame
<1>9. ASSUME NEW verdict \in Errors, Conclude(verdict), pc \in {"reading", "interacting"},
             verdict = "stall" => abort = "stall", UNCHANGED <<abort, exec, replying, events>>
      PROVE  OutcomeInv'
  <2>1. outcome = "none" /\ ~IsOver
    BY <1>9 DEF PromiseInv, IInv, ControlInv, LoopInv, OutcomeInv
  <2>2. ~IsOver' /\ verdict # "result"
    BY <1>9, <2>1 DEF IsOver, Errors
  <2> QED
    BY <1>9, <2>1, <2>2, ConcludeOutcome
<1>10. CASE InteractionReturns
  <2>1. CASE Aborted
    BY <1>9, <1>10, <2>1, Verdicts DEF InteractionReturns, AbortVerdict
  <2>2. CASE ~Aborted
    BY <1>1, <1>10, <2>2 DEF InteractionReturns
  <2> QED
    BY <2>1, <2>2
<1>11. CASE Wake
  BY <1>9, <1>11, Verdicts DEF Wake, AbortVerdict
<1>12. CASE StreamEnds
  BY <1>9, <1>12, Verdicts DEF StreamEnds
<1>13. CASE StreamFails("auth")
  BY <1>9, <1>13, Verdicts DEF StreamFails
<1>14. CASE StreamFails(FailureVerdict)
  BY <1>9, <1>14, Verdicts DEF StreamFails, FailureVerdict
<1>15. CASE Drained
  <2>1. outcome = "none" /\ IsOver /\ IsOver'
    BY <1>15 DEF Drained, PromiseInv, IInv, ControlInv, LoopInv, OutcomeInv, IsOver
  <2> QED
    BY <1>15, <2>1, ConcludeOutcome DEF Drained
<1>16. CASE Settle
  BY <1>1, <1>16 DEF Settle
<1>17. ASSUME NEW e \in Execs, NEW answer \in Answers, Answer(e, answer) PROVE OutcomeInv'
  <2>1. exec \in [Execs -> Answers \union {"unsent", "handling"}] /\ replying \subseteq Execs
    BY DEF PromiseInv, IInv, TypeOK
  <2>2. \A d \in replying' : exec'[d] \in Answers
    BY <1>4, <1>17, <2>1 DEF Answer
  <2> QED
    BY <1>17, <2>2 DEF Answer, PromiseInv, OutcomeInv, IsOver
<1>18. ASSUME NEW e \in Execs, ExecSends(e) PROVE OutcomeInv'
  BY <1>18 DEF ExecSends, PromiseInv, OutcomeInv, IsOver
<1>19. ASSUME NEW e \in Execs, ExecStep(e) PROVE OutcomeInv'
  BY <1>17, <1>18, <1>19 DEF ExecStep, ExecReturns, ExecThrows, ExecWakes, Answers
<1>20. CASE StallFires
  <2>1. eventsEnd = "open"
    BY <1>20 DEF StallFires, PromiseInv, IInv, ControlInv, NoStrayTimers
  <2>2. eventsEnd' = "stall" /\ UNCHANGED <<pc, outcome, events, exec, replying>>
    BY <1>20, <2>1 DEF StallFires, CloseEvents
  <2> QED
    BY <2>2 DEF PromiseInv, OutcomeInv, IsOver
<1>21. CASE FrameArrives \/ CallerAborts \/ HandleAborts
  BY <1>1, <1>21 DEF FrameArrives, CallerAborts, HandleAborts, AbortWith
<1>22. CASE StartIterating \/ Consume \/ IterationEnds \/ IterationLeft
  BY <1>1, <1>22 DEF StartIterating, Consume, IterationEnds, IterationLeft, FinishIteration, AbortWith
<1>23. CASE UNCHANGED vars
  BY <1>1, <1>23
<1> QED
  BY <1>2, <1>5, <1>6, <1>7, <1>8, <1>10, <1>11, <1>12, <1>13, <1>14, <1>15, <1>16, <1>19, <1>20,
     <1>21, <1>22, <1>23 DEF Next, ReadFrame

\* The whole invariant is kept.
LEMMA PromiseInvNext == PromiseInv /\ [Next]_vars => PromiseInv'
BY TurnKeepsTurn, TurnIterates, OutcomeNext DEF PromiseInv

\* The initial state of a turn is one of the promise.
LEMMA PromiseInit == Init => Promise!Init
BY DEF Init, Promise!Init, Settled, AnswerDone

\* The exec and the abstract answer.
LEMMA AnswersDone ==
    ASSUME PromiseInv, NEW e \in Execs
    PROVE  /\ AnswerDone(e) = "unsent" <=> exec[e] = "unsent"
           /\ AnswerDone(e) = "asked" <=> exec[e] = "handling"
           /\ AnswerDone(e) = "answered" <=> e \in replying
           /\ AnswerDone(e) \in {"unsent", "asked", "answered", "sent"}
BY DEF PromiseInv, OutcomeInv, AnswerDone, Answers

\* What the promise calls owed is what the turn waits for.
LEMMA NothingOwedIs == PromiseInv => (Promise!NothingOwed <=> AllAnswered)
<1> SUFFICES ASSUME PromiseInv PROVE Promise!NothingOwed <=> AllAnswered
  OBVIOUS
<1>1. \A e \in Execs : AnswerDone(e) \in {"unsent", "sent"} <=> e \notin replying /\ exec[e] # "handling"
  BY AnswersDone
<1>2. replying \subseteq Execs
  BY DEF PromiseInv, IInv, TypeOK
<1> QED
  BY <1>1, <1>2 DEF Promise!NothingOwed, AllAnswered

\* What leaves the execs alone leaves alone what is owed.
LEMMA OwedSame ==
    ASSUME UNCHANGED <<exec, replying>>
    PROVE  [e \in Execs |-> AnswerDone(e)]' = [e \in Execs |-> AnswerDone(e)]
BY DEF AnswerDone

\* Concluding a turn is deciding it, and no stall.
LEMMA ConcludeDecides ==
    ASSUME PromiseInv, NEW S, NEW verdict \in S, S \subseteq Errors \union {"result"},
           Conclude(verdict), outcome = "none", verdict = "result" => AllAnswered,
           verdict = "stall" => abort = "stall", UNCHANGED <<exec, replying>>
    PROVE  /\ Promise!Decide(S)
           /\ eventsEnd' = "stall" <=> eventsEnd = "stall"
<1>1. /\ outcome' = verdict
      /\ eventsEnd # "open" => eventsEnd' = eventsEnd
      /\ eventsEnd = "open" => eventsEnd' = (IF verdict = "result" THEN "end" ELSE verdict)
  BY ConcludeFacts
<1>2. Settled' <=> AllAnswered
  BY DEF Conclude, Settled
<1>3. abort = "stall" => eventsEnd = "stall"
  BY DEF PromiseInv, OutcomeInv
<1>4. Settled' = Promise!NothingOwed
  BY <1>2, NothingOwedIs, Zenon DEF Settled, Promise!NothingOwed
<1>5. outcome' = "result" => Promise!NothingOwed
  BY <1>1, NothingOwedIs
<1>6. Promise!Decide(S)
  BY <1>1, <1>4, <1>5 DEF Promise!Decide
<1> QED
  BY <1>1, <1>3, <1>6

\* A step that touches nothing of what is promised.
LEMMA PromiseStutters ==
    ASSUME UNCHANGED <<events, outcome, iter, seen, exec, replying>>, Settled' <=> Settled,
           eventsEnd' = "stall" <=> eventsEnd = "stall"
    PROVE  UNCHANGED Promise!vars
<1>1. [e \in Execs |-> AnswerDone(e)]' = [e \in Execs |-> AnswerDone(e)]
  BY OwedSame
<1>2. Settled' = Settled /\ (eventsEnd' = "stall") = (eventsEnd = "stall")
  BY Zenon DEF Settled
<1> QED
  BY <1>1, <1>2 DEF Promise!vars

\* Opening the turn is its first event.
LEMMA OpenRefines == PromiseInv /\ Open => Promise!Next
<1> SUFFICES ASSUME PromiseInv, Open PROVE Promise!Connect
  BY DEF Promise!Next
<1>1. events = <<>> /\ eventsEnd = "open" /\ outcome = "none" /\ pc = "opening"
  BY DEF Open, PromiseInv, IInv, ControlInv, OpeningInv, LoopInv
<1>2. events' = <<"connected">>
  BY <1>1 DEF Open, Push
<1>3. [e \in Execs |-> AnswerDone(e)]' = [e \in Execs |-> AnswerDone(e)]
  BY OwedSame DEF Open
<1>4. /\ Promise!Decide({"cancelled"}) \/ Promise!Undecided
      /\ eventsEnd' = "stall" <=> eventsEnd = "stall"
  <2>1. CASE Aborted
    <3>1. AbortVerdict = "cancelled"
      BY <1>1 DEF AbortVerdict, PromiseInv, OutcomeInv
    <3>2. Conclude("cancelled")
      BY <2>1, <3>1 DEF Open
    <3> QED
      BY <1>1, <3>2, ConcludeDecides DEF Open, Errors
  <2>2. CASE ~Aborted
    <3>1. Settled' = Settled
      BY <1>1, <2>2 DEF Open, Settled
    <3> QED
      BY <2>2, <3>1 DEF Open, Promise!Undecided
  <2> QED
    BY <2>1, <2>2
<1>5. (eventsEnd' = "stall") = (eventsEnd = "stall")
  BY <1>4, Zenon
<1> QED
  BY <1>1, <1>2, <1>3, <1>4, <1>5 DEF Open, Promise!Connect

\* A turn that reads a frame runs.
LEMMA FramesWhileRunning ==
    ASSUME PromiseInv, TakeFrame
    PROVE  Promise!Running /\ eventsEnd = "open" /\ pc = "reading" /\ outcome = "none" /\ ~Settled
<1>1. pc = "reading" /\ ~Aborted
  BY DEF TakeFrame
<1>2. /\ outcome = "none" /\ events # <<>> /\ ~IsOver
      /\ eventsEnd = "open" /\ iter \in {"off", "on"}
  BY <1>1, ReadingGoesOn
<1> QED
  BY <1>1, <1>2 DEF Promise!Running, Promise!Over, IsOver, Settled

\* Each frame is an update, an exec or the end of the turn, or is not told.
LEMMA FrameRefines == PromiseInv /\ ReadFrame => Promise!Next \/ UNCHANGED Promise!vars
<1> SUFFICES ASSUME PromiseInv, ReadFrame PROVE Promise!Next \/ UNCHANGED Promise!vars
  OBVIOUS
<1>1. /\ Promise!Running /\ eventsEnd = "open" /\ pc = "reading" /\ outcome = "none" /\ ~Settled
  BY FramesWhileRunning DEF ReadFrame, ReadUpdate, ReadTurnEnded, ReadExec, ReadControlAbort,
     ReadInteraction
<1>2. CASE ReadUpdate
  <2>1. UNCHANGED <<exec, replying, iter, seen, outcome, pc, eventsEnd>>
    BY <1>2 DEF ReadUpdate, Publish, TakeFrame
  <2>2. CASE UNCHANGED events
    BY <2>1, <2>2, PromiseStutters DEF Settled
  <2>3. CASE events' = Append(events, "update")
    <3>1. [e \in Execs |-> AnswerDone(e)]' = [e \in Execs |-> AnswerDone(e)]
      BY <2>1, OwedSame
    <3>2. Promise!Update
      BY <1>1, <2>1, <2>3, <3>1 DEF Promise!Update, Settled
    <3> QED
      BY <3>2 DEF Promise!Next
  <2> QED
    BY <1>1, <1>2, <2>2, <2>3 DEF ReadUpdate, Publish, Push
<1>3. CASE ReadTurnEnded
  <2>1. events' = Append(events, "turn_ended") /\ UNCHANGED <<exec, replying, iter, seen>>
    BY <1>1, <1>3 DEF ReadTurnEnded, Push
  <2>2. [e \in Execs |-> AnswerDone(e)]' = [e \in Execs |-> AnswerDone(e)]
    BY <2>1, OwedSame
  <2>3. /\ Promise!Decide({"result"}) \/ Promise!Undecided
        /\ eventsEnd' = "stall" <=> eventsEnd = "stall"
    <3>1. CASE AllAnswered
      BY <1>1, <1>3, <2>1, <3>1, ConcludeDecides DEF ReadTurnEnded
    <3>2. CASE ~AllAnswered
      <4>1. Settled' = Settled
        BY <1>1, <1>3, <3>2 DEF ReadTurnEnded, Settled
      <4> QED
        BY <1>3, <3>2, <4>1 DEF ReadTurnEnded, Promise!Undecided
    <3> QED
      BY <3>1, <3>2
  <2>4. (eventsEnd' = "stall") = (eventsEnd = "stall")
    BY <2>3, Zenon
  <2>5. Promise!EndTurn
    BY <1>1, <2>1, <2>2, <2>3, <2>4 DEF Promise!EndTurn
  <2> QED
    BY <2>5 DEF Promise!Next
<1>4. ASSUME NEW e \in Execs, NEW id \in Ids, ReadExec(e, id) PROVE Promise!Next
  <2>1. exec \in [Execs -> Answers \union {"unsent", "handling"}] /\ replying \subseteq Execs
    BY DEF PromiseInv, IInv, TypeOK
  <2>2. /\ exec[e] = "unsent" /\ e \notin replying
        /\ events' = Append(events, "mcp_exec") \/ UNCHANGED events
        /\ UNCHANGED <<outcome, iter, seen, pc, eventsEnd>>
    BY <1>1, <1>4, AnswersDone DEF ReadExec, TakeFrame, Publish, Push, AnswerDone
  <2>3. \E state \in {"asked", "answered"} :
           [d \in Execs |-> AnswerDone(d)]' = [[d \in Execs |-> AnswerDone(d)] EXCEPT ![e] = state]
    <3>1. \/ exec' = [exec EXCEPT ![e] = "handling"] /\ replying' = replying
          \/ exec' = [exec EXCEPT ![e] = "default"] /\ replying' = replying \union {e}
      BY <1>4 DEF ReadExec
    <3>2. CASE exec' = [exec EXCEPT ![e] = "handling"] /\ replying' = replying
      BY <2>1, <2>2, <3>2 DEF AnswerDone
    <3>3. CASE exec' = [exec EXCEPT ![e] = "default"] /\ replying' = replying \union {e}
      BY <2>1, <2>2, <3>3 DEF AnswerDone
    <3> QED
      BY <3>1, <3>2, <3>3
  <2>4. AnswerDone(e) = "unsent"
    BY <2>2 DEF AnswerDone
  <2>5. Promise!Ask(e)
    BY <1>1, <2>2, <2>3, <2>4 DEF Promise!Ask, Settled
  <2> QED
    BY <2>5 DEF Promise!Next
<1>5. CASE ReadInteraction \/ \E id \in Ids : ReadControlAbort(id)
  BY <1>1, <1>5, PromiseStutters DEF ReadInteraction, ReadControlAbort, TakeFrame, Settled
<1> QED
  BY <1>2, <1>3, <1>4, <1>5 DEF ReadFrame

\* The loop's own end: failed, finished, or settled at last.
LEMMA EndRefines ==
    PromiseInv /\ (\/ InteractionReturns \/ Wake \/ StreamEnds \/ StreamFails("auth")
                   \/ StreamFails(FailureVerdict) \/ Drained \/ Settle)
        => Promise!Next \/ UNCHANGED Promise!vars
<1> SUFFICES ASSUME PromiseInv PROVE
        (\/ InteractionReturns \/ Wake \/ StreamEnds \/ StreamFails("auth")
         \/ StreamFails(FailureVerdict) \/ Drained \/ Settle)
            => Promise!Next \/ UNCHANGED Promise!vars
  OBVIOUS
<1> DEFINE possible == {"auth", "cancelled"} \union
                          (IF eventsEnd = "stall" THEN {"stall"}
                           ELSE IF iter = "left" THEN {} ELSE {"ended", "transport"})
<1>1. ASSUME NEW verdict \in possible, Conclude(verdict), pc \in {"reading", "interacting"},
             verdict = "stall" => abort = "stall",
             UNCHANGED <<abort, exec, replying, events, iter, seen>>
      PROVE  Promise!Next
  <2>1. outcome = "none" /\ ~IsOver /\ events # <<>>
    BY <1>1, OpenedEvents DEF PromiseInv, IInv, ControlInv, LoopInv, OutcomeInv
  <2>2. [e \in Execs |-> AnswerDone(e)]' = [e \in Execs |-> AnswerDone(e)]
    BY <1>1, OwedSame
  <2>3. possible \subseteq Errors \union {"result"} /\ "result" \notin possible
    BY DEF Errors
  <2>4. Promise!Decide(possible) /\ (eventsEnd' = "stall" <=> eventsEnd = "stall")
    <3> HIDE DEF possible
    <3> QED
      BY <1>1, <2>1, <2>3, ConcludeDecides
  <2>5. (eventsEnd' = "stall") = (eventsEnd = "stall")
    BY <2>4, Zenon
  <2>6. Promise!Fail
    BY <1>1, <2>1, <2>2, <2>4, <2>5 DEF Promise!Fail, Promise!Over, IsOver
  <2> QED
    BY <2>6 DEF Promise!Next
<1>2. /\ abort = "stall" => eventsEnd = "stall"
      /\ ~Aborted => iter # "left"
      /\ ~Aborted /\ pc = "reading" => eventsEnd = "open"
  BY ReadingGoesOn DEF PromiseInv, OutcomeInv, IterInv
<1>3. CASE InteractionReturns
  <2>1. CASE Aborted
    <3>1. AbortVerdict \in possible /\ (AbortVerdict = "stall" => abort = "stall")
      BY <1>2 DEF AbortVerdict
    <3> QED
      BY <1>1, <1>3, <2>1, <3>1 DEF InteractionReturns
  <2>2. CASE ~Aborted
    <3>1. UNCHANGED <<events, outcome, iter, seen, exec, replying, eventsEnd>> /\ (Settled' <=> Settled)
      BY <1>3, <2>2 DEF InteractionReturns, Settled
    <3> QED
      BY <3>1, PromiseStutters
  <2> QED
    BY <2>1, <2>2
<1>4. CASE Wake
  <2>1. AbortVerdict \in possible /\ (AbortVerdict = "stall" => abort = "stall")
    BY <1>2 DEF AbortVerdict
  <2> QED
    BY <1>1, <1>4, <2>1 DEF Wake
<1>5. CASE StreamEnds
  <2>1. "ended" \in possible
    BY <1>2, <1>5 DEF StreamEnds
  <2> QED
    BY <1>1, <1>5, <2>1 DEF StreamEnds
<1>6. CASE StreamFails("auth")
  <2>1. "auth" \in possible
    OBVIOUS
  <2> QED
    BY <1>1, <1>6, <2>1 DEF StreamFails
<1>7. CASE StreamFails(FailureVerdict)
  <2>1. FailureVerdict \in possible /\ (FailureVerdict = "stall" => abort = "stall")
    <3>1. FailureVerdict = "transport" => eventsEnd = "open" /\ iter # "left"
      BY <1>2, <1>7 DEF StreamFails, FailureVerdict
    <3> QED
      BY <1>2, <3>1 DEF FailureVerdict
  <2> QED
    BY <1>1, <1>7, <2>1 DEF StreamFails
<1>8. CASE Drained
  <2>1. outcome = "none" /\ IsOver /\ AllAnswered
    BY <1>8 DEF Drained, PromiseInv, IInv, ControlInv, LoopInv, OutcomeInv
  <2>2. [e \in Execs |-> AnswerDone(e)]' = [e \in Execs |-> AnswerDone(e)]
    BY <1>8, OwedSame DEF Drained
  <2>3. Promise!Decide({"result"}) /\ (eventsEnd' = "stall" <=> eventsEnd = "stall")
    BY <1>8, <2>1, ConcludeDecides DEF Drained
  <2>4. (eventsEnd' = "stall") = (eventsEnd = "stall")
    BY <2>3, Zenon
  <2>5. Promise!Finish
    BY <1>8, <2>1, <2>2, <2>3, <2>4 DEF Drained, Promise!Finish, Promise!Over, IsOver
  <2> QED
    BY <2>5 DEF Promise!Next
<1>9. CASE Settle
  <2>1. outcome # "none" /\ ~Settled /\ Settled' = TRUE /\ AllAnswered
    BY <1>9 DEF Settle, Settled, PromiseInv, IInv, ControlInv, LoopInv
  <2>2. [e \in Execs |-> AnswerDone(e)]' = [e \in Execs |-> AnswerDone(e)]
    BY <1>9, OwedSame DEF Settle
  <2>3. Promise!NothingOwed
    BY <2>1, NothingOwedIs
  <2>4. Promise!Settle
    BY <1>9, <2>1, <2>2, <2>3 DEF Settle, Promise!Settle
  <2> QED
    BY <2>4 DEF Promise!Next
<1> QED
  BY <1>3, <1>4, <1>5, <1>6, <1>7, <1>8, <1>9

\* An exec is answered, and its answer sent, once.
LEMMA ExecRefines == ASSUME PromiseInv, NEW e \in Execs, ExecStep(e) PROVE Promise!Next
<1>1. exec \in [Execs -> Answers \union {"unsent", "handling"}] /\ replying \subseteq Execs
  BY DEF PromiseInv, IInv, TypeOK
<1>2. ASSUME NEW answer \in Answers, Answer(e, answer) PROVE Promise!Next
  <2>1. AnswerDone(e) = "asked"
    BY <1>2 DEF Answer, AnswerDone
  <2>2. [d \in Execs |-> AnswerDone(d)]' = [[d \in Execs |-> AnswerDone(d)] EXCEPT ![e] = "answered"]
    BY <1>1, <1>2 DEF Answer, AnswerDone, Answers
  <2>3. Promise!Answer(e)
    BY <1>2, <2>1, <2>2 DEF Answer, Promise!Answer, Settled
  <2> QED
    BY <2>3 DEF Promise!Next
<1>3. CASE ExecSends(e)
  <2>1. AnswerDone(e) = "answered"
    BY <1>3, AnswersDone DEF ExecSends
  <2>2. [d \in Execs |-> AnswerDone(d)]' = [[d \in Execs |-> AnswerDone(d)] EXCEPT ![e] = "sent"]
    <3>1. exec[e] \in Answers
      BY <1>3 DEF ExecSends, PromiseInv, OutcomeInv
    <3> QED
      BY <1>1, <1>3, <3>1 DEF ExecSends, AnswerDone, Answers
  <2>3. Promise!Send(e)
    BY <1>3, <2>1, <2>2 DEF ExecSends, Promise!Send, Settled
  <2> QED
    BY <2>3 DEF Promise!Next
<1> QED
  BY <1>2, <1>3 DEF ExecStep, ExecReturns, ExecThrows, ExecWakes, Answers

\* The stall gives up a turn that is not decided.
LEMMA StallRefines == PromiseInv /\ StallFires => Promise!Next
<1> SUFFICES ASSUME PromiseInv, StallFires PROVE Promise!Stall
  BY DEF Promise!Next
<1>1. outcome = "none" /\ pc # "opening" /\ eventsEnd = "open" /\ iter \in {"off", "on"}
  BY DEF StallFires, PromiseInv, IInv, TypeOK, ControlInv, NoStrayTimers, OpeningInv
<1>2. eventsEnd' = "stall"
  BY <1>1 DEF StallFires, CloseEvents
<1>3. [e \in Execs |-> AnswerDone(e)]' = [e \in Execs |-> AnswerDone(e)]
  BY OwedSame DEF StallFires
<1>4. events # <<>>
  BY <1>1, OpenedEvents DEF PromiseInv
<1> QED
  BY <1>1, <1>2, <1>3, <1>4 DEF StallFires, Promise!Stall, Settled

\* The consumer is given the events in order, and an end that fits the outcome.
LEMMA IterationRefines ==
    PromiseInv /\ (StartIterating \/ Consume \/ IterationEnds \/ IterationLeft) => Promise!Next
<1> SUFFICES ASSUME PromiseInv, StartIterating \/ Consume \/ IterationEnds \/ IterationLeft
             PROVE  Promise!Next
  OBVIOUS
<1>1. [e \in Execs |-> AnswerDone(e)]' = [e \in Execs |-> AnswerDone(e)]
  BY OwedSame DEF StartIterating, Consume, IterationEnds, IterationLeft, FinishIteration
<1>2. CASE StartIterating
  BY <1>1, <1>2 DEF StartIterating, Promise!Iterate, Promise!Next, Settled
<1>3. CASE Consume
  BY <1>1, <1>3 DEF Consume, Promise!Give, Promise!Next, Settled
<1>4. CASE IterationLeft
  BY <1>1, <1>4 DEF IterationLeft, FinishIteration, Promise!Leave, Promise!Next, Settled
<1>5. CASE IterationEnds
  <2>1. eventsEnd \in Errors \union {"end"}
    BY <1>5 DEF IterationEnds, PromiseInv, IInv, TypeOK
  <2>2. eventsEnd = "end" => outcome = "result"
    BY DEF PromiseInv, IInv, ControlInv, IteratorAgrees
  <2>3. eventsEnd \in Errors => eventsEnd = "stall" \/ outcome \in Promise!Failures
    BY DEF PromiseInv, OutcomeInv, Promise!Failures, Errors
  <2>4. Promise!Tell
    BY <1>1, <1>5, <2>1, <2>2, <2>3 DEF IterationEnds, FinishIteration, Promise!Tell, Settled, Errors
  <2> QED
    BY <2>4 DEF Promise!Next
<1> QED
  BY <1>2, <1>3, <1>4, <1>5

\* Every step of the turn is one of the promise, or none of its business.
LEMMA TurnRefines == PromiseInv /\ [Next]_vars => [Promise!Next]_(Promise!vars)
<1> SUFFICES ASSUME PromiseInv, [Next]_vars PROVE Promise!Next \/ UNCHANGED Promise!vars
  OBVIOUS
<1>1. CASE FrameArrives \/ CallerAborts \/ HandleAborts \/ UNCHANGED vars
  BY <1>1, PromiseStutters DEF FrameArrives, CallerAborts, HandleAborts, Settled
<1> QED
  BY <1>1, OpenRefines, FrameRefines, EndRefines, ExecRefines, StallRefines, IterationRefines DEF Next

\* The steps the handle takes by itself change nothing that is promised.
LEMMA HandleRefines == PromiseInv /\ CInv /\ [ClientNext]_allVars => PromiseInv' /\ [Promise!Next]_(Promise!vars)
<1> SUFFICES ASSUME PromiseInv, CInv, [ClientNext]_allVars
             PROVE  PromiseInv' /\ [Promise!Next]_(Promise!vars)
  OBVIOUS
<1>1. CASE [Next]_vars
  BY <1>1, PromiseInvNext, TurnRefines
<1>2. CInv'
  BY ClientInvNext
<1>3. ASSUME abort' = abort \/ AbortWith("other"),
             UNCHANGED <<loopVars, listening, timerVars, frameVars, eventVars, iterVars, execVars>>
      PROVE  PromiseInv' /\ [Promise!Next]_(Promise!vars)
  <2>1. abort' = abort \/ abort' = "other"
    BY <1>3 DEF AbortWith
  <2>2. OutcomeInv'
    BY <1>3, <2>1 DEF PromiseInv, OutcomeInv, IsOver
  <2>3. UNCHANGED Promise!vars
    BY <1>3, PromiseStutters DEF Settled
  <2> QED
    BY <1>2, <2>2, <2>3 DEF CInv, HandleInv, PromiseInv
<1>4. CASE TurnStep
  BY <1>1, <1>4 DEF TurnStep, Carry, Next
<1>5. CASE SignalAborts \/ Leave \/ CallWait
  BY <1>1, <1>5 DEF SignalAborts, Leave, CallWait, Next
<1>6. CASE IteratorReleases \/ WaitReleases
  BY <1>3, <1>6 DEF IteratorReleases, WaitReleases, GiveUp, RunAborts
<1>7. CASE ClientAborts
  BY <1>3, <1>7 DEF ClientAborts
<1>8. CASE UNCHANGED allVars
  BY <1>1, <1>8 DEF allVars
<1> QED
  BY <1>4, <1>5, <1>6, <1>7, <1>8 DEF ClientNext

\* A turn keeps its promise (run/run.ts, runTurn): one answer to each exec, one
\* outcome, told when nothing is owed; every event once and in order.
THEOREM TurnKeepsPromise == Spec => ImplementsPromise
<1>1. Init => PromiseInv /\ Promise!Init
  BY PromiseInvInit, PromiseInit
<1>2. PromiseInv /\ [Next]_vars => PromiseInv' /\ [Promise!Next]_(Promise!vars)
  BY PromiseInvNext, TurnRefines
<1> QED
  BY <1>1, <1>2, PTL DEF Spec, ImplementsPromise, Promise!Spec

\* So does the handle that the client makes of it (client.ts, run).
THEOREM HandleKeepsPromise == ClientSpec => ImplementsPromise
<1>1. ClientInit => PromiseInv /\ Promise!Init
  BY PromiseInvInit, PromiseInit DEF ClientInit
<1>2. PromiseInv /\ CInv /\ [ClientNext]_allVars => PromiseInv' /\ [Promise!Next]_(Promise!vars)
  BY HandleRefines
<1> QED
  BY <1>1, <1>2, ClientInvariance, PTL DEF ClientSpec, ImplementsPromise, Promise!Spec
=============================================================================
