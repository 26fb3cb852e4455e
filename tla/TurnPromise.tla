----------------------------- MODULE TurnPromise -----------------------------
(***************************************************************************)
(* What a turn promises to those who hold it: the backend, which is owed   *)
(* one answer to each exec it sends; the caller, who is told once how the  *)
(* turn ended and only when nothing is owed any more; and the consumer,    *)
(* who is given every event in order and then an end that fits the turn's. *)
(* The turn has a result exactly when the backend has ended it.  Aborts,   *)
(* timers, ids and the queues in between are left to the implementation.   *)
(***************************************************************************)
EXTENDS Sequences, Naturals

CONSTANT Execs

VARIABLES
    events,     \* the events of the turn, in order
    outcome,    \* "none", or how the turn ended
    settled,    \* the caller has been told
    stalled,    \* the turn was given up before it had ended
    owed,       \* for each exec: sent or not, and what of its answer is done
    iter,       \* where the consumer's iterator stands
    seen        \* how many events the consumer was given

vars == <<events, outcome, settled, stalled, owed, iter, seen>>

Failures == {"stall", "ended", "auth", "cancelled", "transport"}

TypeOK ==
    /\ events \in Seq({"connected", "update", "mcp_exec", "turn_ended"})
    /\ outcome \in Failures \union {"none", "result"}
    /\ settled \in BOOLEAN
    /\ stalled \in BOOLEAN
    /\ owed \in [Execs -> {"unsent", "asked", "answered", "sent"}]
    /\ iter \in {"off", "on", "ended", "threw", "left"}
    /\ seen \in Nat

Init ==
    /\ events = <<>>
    /\ outcome = "none"
    /\ settled = FALSE
    /\ stalled = FALSE
    /\ owed = [e \in Execs |-> "unsent"]
    /\ iter = "off"
    /\ seen = 0

NothingOwed == \A e \in Execs : owed[e] \in {"unsent", "sent"}

\* The backend has ended the turn.
Over == events # <<>> /\ events[Len(events)] = "turn_ended"

\* The turn goes on: it takes what the backend sends.
Running ==
    /\ events # <<>> /\ ~Over
    /\ outcome = "none"
    /\ ~stalled
    /\ iter \in {"off", "on"}

\* How the turn ended is decided once; a result only when nothing is owed.
Decide(verdicts) ==
    /\ outcome = "none"
    /\ outcome' \in verdicts
    /\ outcome' = "result" => NothingOwed
    /\ settled' = NothingOwed

Undecided == UNCHANGED <<outcome, settled>>

-----------------------------------------------------------------------------
\* The first event; a turn that was cancelled before it goes no further.
Connect ==
    /\ events = <<>>
    /\ events' = <<"connected">>
    /\ Decide({"cancelled"}) \/ Undecided
    /\ UNCHANGED <<stalled, owed, iter, seen>>

Update ==
    /\ Running
    /\ events' = Append(events, "update")
    /\ UNCHANGED <<outcome, settled, stalled, owed, iter, seen>>

\* An exec, whose answer may be known at once.
Ask(e) ==
    /\ Running
    /\ owed[e] = "unsent"
    /\ \E state \in {"asked", "answered"} : owed' = [owed EXCEPT ![e] = state]
    /\ events' = Append(events, "mcp_exec") \/ UNCHANGED events
    /\ UNCHANGED <<outcome, settled, stalled, iter, seen>>

EndTurn ==
    /\ Running
    /\ events' = Append(events, "turn_ended")
    /\ Decide({"result"}) \/ Undecided
    /\ UNCHANGED <<stalled, owed, iter, seen>>

Answer(e) ==
    /\ owed[e] = "asked"
    /\ owed' = [owed EXCEPT ![e] = "answered"]
    /\ UNCHANGED <<events, outcome, settled, stalled, iter, seen>>

Send(e) ==
    /\ owed[e] = "answered"
    /\ owed' = [owed EXCEPT ![e] = "sent"]
    /\ UNCHANGED <<events, outcome, settled, stalled, iter, seen>>

-----------------------------------------------------------------------------
\* The backend's silence gives up a turn that is not decided.
Stall ==
    /\ outcome = "none" /\ events # <<>>
    /\ ~stalled /\ stalled' = TRUE
    /\ iter \in {"off", "on"}
    /\ UNCHANGED <<events, outcome, settled, owed, iter, seen>>

\* A turn that the backend has not ended fails: by a stall only if there was one,
\* by the end of the stream or its transport only if it was not given up.
Fail ==
    /\ events # <<>> /\ ~Over
    /\ Decide({"auth", "cancelled"} \union
                  (IF stalled THEN {"stall"}
                   ELSE IF iter = "left" THEN {} ELSE {"ended", "transport"}))
    /\ UNCHANGED <<events, stalled, owed, iter, seen>>

\* One that was ended has its result when nothing is owed.
Finish ==
    /\ Over
    /\ Decide({"result"})
    /\ UNCHANGED <<events, stalled, owed, iter, seen>>

Settle ==
    /\ outcome # "none" /\ ~settled
    /\ NothingOwed
    /\ settled' = TRUE
    /\ UNCHANGED <<events, outcome, stalled, owed, iter, seen>>

-----------------------------------------------------------------------------
Iterate ==
    /\ iter = "off" /\ iter' = "on"
    /\ UNCHANGED <<events, outcome, settled, stalled, owed, seen>>

Give ==
    /\ iter = "on"
    /\ seen < Len(events)
    /\ seen' = seen + 1
    /\ UNCHANGED <<events, outcome, settled, stalled, owed, iter>>

\* The consumer was given everything and is told of the end, or of an error.
Tell ==
    /\ iter = "on"
    /\ seen = Len(events)
    /\ \/ outcome = "result" /\ ~stalled /\ iter' = "ended"
       \/ (outcome \in Failures \/ stalled) /\ iter' = "threw"
    /\ UNCHANGED <<events, outcome, settled, stalled, owed, seen>>

Leave ==
    /\ iter = "on" /\ iter' = "left"
    /\ seen > 0
    /\ UNCHANGED <<events, outcome, settled, stalled, owed, seen>>

Next ==
    \/ Connect \/ Update \/ EndTurn
    \/ \E e \in Execs : Ask(e) \/ Answer(e) \/ Send(e)
    \/ Stall \/ Fail \/ Finish \/ Settle
    \/ Iterate \/ Give \/ Tell \/ Leave

Spec == Init /\ [][Next]_vars
=============================================================================
