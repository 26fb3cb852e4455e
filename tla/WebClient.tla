------------------------------- MODULE WebClient -------------------------------
(***************************************************************************)
(* WebClientImpl (web/client.ts): fetches and searches that share a        *)
(* bearer, one flight for the token and one for the model's id.            *)
(*                                                                         *)
(* A flight is a promise that several calls await, each racing it with the *)
(* abort of its own signal; it is named by the call that started it.  The  *)
(* token comes from AuthSession.accessToken, whose inside ClientAuth has;  *)
(* here it answers or fails.  Every step runs from one await to the next.  *)
(***************************************************************************)
EXTENDS Naturals, FiniteSets

CONSTANTS Calls, NoCall

ASSUME NoCallAssumption == NoCall \notin Calls

VARIABLES
    pinned,         \* the AuthSession is pinned
    closed,         \* #closed
    dead,           \* the client's own signal is aborted
    bearer,         \* #bearer is there
    tokenFlight,    \* #tokenFlight
    exchange,       \* the token flights that are running
    modelFlight,    \* #modelFlight
    lookup,         \* where each model flight is
    kind,           \* what each call does
    stage,          \* the await it is at
    waits,          \* the flight it awaits
    got,            \* what that flight has told it
    aborted,        \* the calls whose own signal is aborted
    result,         \* how the call has ended
    cut             \* history: the lookups whose own RPC was cancelled

tokenVars == <<bearer, tokenFlight, exchange>>
modelVars == <<modelFlight, lookup>>
callVars == <<kind, stage, waits, got, result>>
vars == <<pinned, closed, dead, tokenVars, modelVars, callVars, aborted, cut>>

Errors == {"unauthenticated", "cancelled", "other"}
Stages == {"idle", "modelToken", "model", "token", "sent", "ended"}

TypeOK ==
    /\ {pinned, closed, dead, bearer} \subseteq BOOLEAN
    /\ tokenFlight \in Calls \union {NoCall}
    /\ exchange \subseteq Calls
    /\ modelFlight \in Calls \union {NoCall}
    /\ lookup \in [Calls -> {"none", "default", "usable", "found"}]
    /\ kind \in [Calls -> {"fetch", "search"}]
    /\ stage \in [Calls -> Stages]
    /\ waits \in [Calls -> Calls \union {NoCall}]
    /\ got \in [Calls -> Errors \union {"none", "ok"}]
    /\ aborted \subseteq Calls
    /\ result \in [Calls -> Errors \union {"none", "ok"}]
    /\ cut \subseteq Calls

Init ==
    /\ pinned = FALSE /\ closed = FALSE /\ dead = FALSE
    /\ bearer = FALSE /\ tokenFlight = NoCall /\ exchange = {}
    /\ modelFlight = NoCall /\ lookup = [c \in Calls |-> "none"]
    /\ kind \in [Calls -> {"fetch", "search"}]
    /\ stage = [c \in Calls |-> "idle"]
    /\ waits = [c \in Calls |-> NoCall]
    /\ got = [c \in Calls |-> "none"]
    /\ aborted = {}
    /\ result = [c \in Calls |-> "none"]
    /\ cut = {}

-----------------------------------------------------------------------------
(* Failing, signing out, awaiting.                                         *)

End(c, how) ==
    /\ stage' = [stage EXCEPT ![c] = "ended"]
    /\ result' = [result EXCEPT ![c] = how]
    /\ got' = [got EXCEPT ![c] = "none"]
    /\ UNCHANGED <<kind, waits>>

Await(c, where, flight, told) ==
    /\ stage' = [stage EXCEPT ![c] = where]
    /\ waits' = [waits EXCEPT ![c] = flight]
    /\ got' = [got EXCEPT ![c] = told]
    /\ UNCHANGED <<kind, result>>

\* recordAuthFailure: what an error does to the pin and the bearer.
SignOut(error) ==
    /\ pinned' = (pinned \/ error = "unauthenticated")
    /\ bearer' = (bearer /\ error # "unauthenticated")

\* The catch of #unary records the error; #modelId does not.
FailUnary(c, error) == End(c, error) /\ SignOut(error) /\ UNCHANGED <<tokenFlight, exchange>>

\* throwIfPinned drops the bearer.
FailPinned(c) == End(c, "unauthenticated") /\ bearer' = FALSE
                 /\ UNCHANGED <<pinned, tokenFlight, exchange>>

FailModel(c, error) == End(c, error) /\ UNCHANGED <<pinned, tokenVars>>

\* refreshBearer up to its await: join the token flight, or start it.
RefreshBearer(c, where) ==
    /\ tokenFlight' = IF tokenFlight = NoCall THEN c ELSE tokenFlight
    /\ exchange' = IF tokenFlight = NoCall THEN exchange \union {c} ELSE exchange
    /\ Await(c, where, tokenFlight', "none")
    /\ UNCHANGED <<pinned, bearer>>

\* #unary: it is neither closed nor aborted here.
BeginUnary(c) == IF pinned THEN FailPinned(c) ELSE RefreshBearer(c, "token")

AwaitModel(c, flight) ==
    Await(c, "model", flight, IF lookup'[flight] = "found" THEN "ok" ELSE "none")

-----------------------------------------------------------------------------
(* A call.                                                                 *)

Start(c) ==
    /\ stage[c] = "idle"
    /\ IF closed THEN FailModel(c, "other")
       ELSE IF kind[c] = "fetch" THEN
            IF dead THEN FailModel(c, "cancelled") ELSE BeginUnary(c)
       ELSE IF modelFlight # NoCall THEN
            UNCHANGED <<pinned, tokenVars>> /\ UNCHANGED modelVars /\ AwaitModel(c, modelFlight)
       ELSE IF pinned THEN FailPinned(c) ELSE RefreshBearer(c, "modelToken")
    /\ UNCHANGED <<closed, dead, modelVars, aborted, cut>>

\* MUTANT: the model flight is started without another look at it.
ModelTokenEach(c) ==
    /\ stage[c] = "modelToken" /\ got[c] # "none"
    /\ IF got[c] # "ok" THEN FailModel(c, got[c]) /\ UNCHANGED modelVars
       ELSE IF pinned THEN FailPinned(c) /\ UNCHANGED modelVars
       ELSE IF closed THEN FailModel(c, "other") /\ UNCHANGED modelVars
       ELSE IF c \in aborted THEN FailModel(c, "cancelled") /\ UNCHANGED modelVars
       ELSE /\ modelFlight' = c
            /\ lookup' = [lookup EXCEPT ![c] = "default"]
            /\ AwaitModel(c, c)
            /\ UNCHANGED <<pinned, tokenVars>>
    /\ UNCHANGED <<closed, dead, aborted, cut>>

\* #modelId goes on with a token: join the model flight, or start it.
ModelToken(c) ==
    /\ stage[c] = "modelToken" /\ got[c] # "none"
    /\ IF got[c] # "ok" THEN FailModel(c, got[c]) /\ UNCHANGED modelVars
       ELSE IF pinned THEN FailPinned(c) /\ UNCHANGED modelVars
       ELSE IF closed THEN FailModel(c, "other") /\ UNCHANGED modelVars
       ELSE IF c \in aborted THEN FailModel(c, "cancelled") /\ UNCHANGED modelVars
       ELSE /\ modelFlight' = IF modelFlight = NoCall THEN c ELSE modelFlight
            /\ lookup' = IF modelFlight = NoCall
                         THEN [lookup EXCEPT ![c] = "default"] ELSE lookup
            /\ AwaitModel(c, modelFlight')
            /\ UNCHANGED <<pinned, tokenVars>>
    /\ UNCHANGED <<closed, dead, aborted, cut>>

\* search has its model's id, or has not.
Model(c) ==
    /\ stage[c] = "model" /\ got[c] # "none"
    /\ IF c \in aborted THEN FailModel(c, "cancelled")
       ELSE IF got[c] # "ok" THEN FailModel(c, got[c])
       ELSE IF closed THEN FailModel(c, "other")
       ELSE IF dead THEN FailModel(c, "cancelled")
       ELSE BeginUnary(c)
    /\ UNCHANGED <<closed, dead, modelVars, aborted, cut>>

\* MUTANT: what has happened during the exchange is not looked at.
SendAnyway(c) ==
    /\ stage[c] = "token" /\ got[c] # "none"
    /\ IF got[c] # "ok" THEN FailUnary(c, got[c])
       ELSE Await(c, "sent", NoCall, "none") /\ UNCHANGED <<pinned, tokenVars>>
    /\ UNCHANGED <<closed, dead, modelVars, aborted, cut>>

\* #unary goes on with a token: everything is looked at again, then it sends.
Send(c) ==
    /\ stage[c] = "token" /\ got[c] # "none"
    /\ IF got[c] # "ok" THEN FailUnary(c, got[c])
       ELSE IF pinned THEN FailPinned(c)
       ELSE IF closed THEN FailUnary(c, "other")
       ELSE IF dead \/ c \in aborted THEN FailUnary(c, "cancelled")
       ELSE Await(c, "sent", NoCall, "none") /\ UNCHANGED <<pinned, tokenVars>>
    /\ UNCHANGED <<closed, dead, modelVars, aborted, cut>>

\* unaryCall returns.  Its signals, the connection that close() aborts and the
\* backend may cancel it; an answer may also have come before they did.
Return(c) ==
    /\ stage[c] = "sent"
    /\ \/ End(c, "ok") /\ UNCHANGED <<pinned, tokenVars>>
       \/ \E error \in Errors : FailUnary(c, error)
    /\ UNCHANGED <<closed, dead, modelVars, aborted, cut>>

-----------------------------------------------------------------------------
(* The flights.                                                            *)

Tell(where, flight, told) ==
    /\ got' = [c \in Calls |-> IF stage[c] \in where /\ waits[c] = flight /\ got[c] = "none"
                               THEN told ELSE got[c]]
    /\ UNCHANGED <<kind, stage, waits, result>>

\* The exchange of a key is fetched with the client's signal, and close() does
\* not reach it.
TokenErrors == {"unauthenticated", "other"} \union IF dead THEN {"cancelled"} ELSE {}

\* accessToken answers: the bearer is set unless the client was pinned
\* meanwhile, and the flight is over before those who await it go on.
TokenArrives(f) ==
    /\ f \in exchange
    /\ exchange' = exchange \ {f}
    /\ tokenFlight' = NoCall
    /\ \/ bearer' = ~pinned
          /\ Tell({"modelToken", "token"}, f, IF pinned THEN "unauthenticated" ELSE "ok")
       \/ \E error \in TokenErrors :
             Tell({"modelToken", "token"}, f, error) /\ UNCHANGED bearer
    /\ UNCHANGED <<pinned, closed, dead, modelVars, aborted, cut>>

Found(f) ==
    /\ lookup' = [lookup EXCEPT ![f] = "found"]
    /\ Tell({"model"}, f, "ok")
    /\ UNCHANGED <<pinned, bearer, modelFlight, cut>>

\* What a lookup's own RPC fails with; like a call's it may be cancelled by the
\* client's signal, by the connection that close() aborts or by the backend.
Cut(f, error) == cut' = IF error = "cancelled" THEN cut \union {f} ELSE cut

\* MUTANT: a failed lookup is told to the search that started it only.
NotFoundAlone(f, error) ==
    /\ lookup' = [lookup EXCEPT ![f] = "none"]
    /\ modelFlight' = NoCall
    /\ got' = [got EXCEPT ![f] = IF stage[f] = "model" /\ @ = "none" THEN error ELSE @]
    /\ UNCHANGED <<kind, stage, waits, result>>
    /\ SignOut(error) /\ Cut(f, error)

\* A failed flight is forgotten, for the next search to try again.
NotFound(f, error) ==
    /\ lookup' = [lookup EXCEPT ![f] = "none"]
    /\ modelFlight' = NoCall
    /\ Tell({"model"}, f, error)
    /\ SignOut(error) /\ Cut(f, error)

\* resolveModelId, first the default model: only a refusal or a cancel ends it.
DefaultArrives(f) ==
    /\ lookup[f] = "default"
    /\ \/ Found(f)
       \/ /\ lookup' = [lookup EXCEPT ![f] = "usable"]
          /\ UNCHANGED <<pinned, bearer, modelFlight, callVars, cut>>
       \/ \E error \in Errors \ {"other"} : NotFound(f, error)
    /\ UNCHANGED <<closed, dead, tokenFlight, exchange, aborted>>

\* Then the usable models: none at all is an error too.
UsableArrives(f) ==
    /\ lookup[f] = "usable"
    /\ Found(f) \/ \E error \in Errors : NotFound(f, error)
    /\ UNCHANGED <<closed, dead, tokenFlight, exchange, aborted>>

-----------------------------------------------------------------------------
(* Aborts.                                                                 *)

\* MUTANT: the token is fetched with the signal of the call that began it.
AbortFlight(c) ==
    /\ stage[c] \notin {"idle", "ended"} /\ c \notin aborted
    /\ aborted' = aborted \union {c}
    /\ got' = [d \in Calls |-> IF got[d] = "none" /\ stage[d] \in {"modelToken", "token"}
                                  /\ (d = c \/ waits[d] = c) THEN "cancelled" ELSE got[d]]
    /\ UNCHANGED <<pinned, closed, dead, tokenVars, modelVars, kind, stage, waits, result, cut>>

\* The caller aborts one call; raceWithAbort ends its wait, not the flight.
Abort(c) ==
    /\ stage[c] \notin {"idle", "ended"} /\ c \notin aborted
    /\ aborted' = aborted \union {c}
    /\ got' = [got EXCEPT ![c] =
                 IF @ = "none" /\ stage[c] # "sent" THEN "cancelled" ELSE @]
    /\ UNCHANGED <<pinned, closed, dead, tokenVars, modelVars, kind, stage, waits, result, cut>>

Die ==
    /\ ~dead /\ dead' = TRUE
    /\ UNCHANGED <<pinned, closed, tokenVars, modelVars, callVars, aborted, cut>>

Close ==
    /\ ~closed /\ closed' = TRUE
    /\ UNCHANGED <<pinned, dead, tokenVars, modelVars, callVars, aborted, cut>>

CallStep(c) == Start(c) \/ ModelToken(c) \/ Model(c) \/ Send(c) \/ Return(c)
FlightStep(f) == TokenArrives(f) \/ DefaultArrives(f) \/ UsableArrives(f)

Next ==
    \/ \E c \in Calls : CallStep(c) \/ FlightStep(c) \/ Abort(c)
    \/ Die \/ Close

\* A started call goes on; fetch and unaryCall answer or time out.
Fairness ==
    \A c \in Calls :
        /\ WF_vars(ModelToken(c) \/ Model(c) \/ Send(c) \/ Return(c))
        /\ WF_vars(FlightStep(c))

Spec == Init /\ [][Next]_vars /\ Fairness

-----------------------------------------------------------------------------
(* Properties.                                                             *)

\* One exchange and one lookup at a time, which everybody shares, and a found
\* model's id is not looked up again.
OneFlight ==
    /\ exchange = {tokenFlight} \ {NoCall}
    /\ \A f \in Calls : lookup[f] # "none" => f = modelFlight

\* Nothing new is sent or started for a call that is aborted, on a client that
\* is closed or pinned, however far the call had come before; and what is sent
\* has a bearer.  The second RPC of a lookup that is under way, for the usable
\* models, is exempt: resolveModelId looks at nothing between its two RPCs.
NothingSentAfter ==
    [][\A c \in Calls :
          /\ stage[c] # "sent" /\ stage'[c] = "sent" =>
                bearer /\ ~pinned /\ ~closed /\ ~dead /\ c \notin aborted
          /\ c \in exchange' \ exchange => ~pinned /\ ~closed
          /\ lookup[c] = "none" /\ lookup'[c] # "none" => bearer /\ ~pinned /\ ~closed]_vars

\* The abort of one call is its own: a call ends cancelled only if it was itself
\* aborted, or the client was, or if the RPC that told it so was cancelled on the
\* wire: its own, or that of the lookup it was awaiting.
AbortIsPrivate ==
    [][\A c \in Calls : result[c] # "cancelled" /\ result'[c] = "cancelled" =>
          \/ c \in aborted \/ dead
          \/ stage[c] = "sent"
          \/ stage[c] = "model" /\ waits[c] \in cut]_vars

\* Every call that was started ends.
CallsEnd == \A c \in Calls : stage[c] # "idle" ~> stage[c] = "ended"
=============================================================================
