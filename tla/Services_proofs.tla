--------------------------- MODULE Services_proofs ---------------------------
(***************************************************************************)
(* Proofs about what an application does around its runs: the web client,  *)
(* for any number of calls; the poll of a login, for any number of         *)
(* attempts and any budget of failures; and the start of the editor.       *)
(***************************************************************************)
EXTENDS WebClient, Login, Overlay, SequenceTheorems, TLAPS

-----------------------------------------------------------------------------
(* The web client (WebClient): its flights, and what it does for a call    *)
(* that was aborted, or on a client that is closed or pinned.              *)

\* A call may be told of a cancel: of its own abort, of the client's, or of an
\* RPC that was cancelled on the wire, its own or the lookup's that it awaits.
MayBeCancelled(c) ==
    \/ c \in aborted \/ dead
    \/ stage[c] = "sent"
    \/ stage[c] = "model" /\ waits[c] \in cut

ToldOfCancel == \A c \in Calls : got[c] = "cancelled" => MayBeCancelled(c)

\* A call that was told of a token finds a bearer, or the pin.
TokenIsThere ==
    \A c \in Calls :
        stage[c] \in {"token", "modelToken"} /\ got[c] = "ok" => bearer \/ pinned

WebInv == TypeOK /\ OneFlight /\ ToldOfCancel /\ TokenIsThere

USE DEF vars, tokenVars, modelVars, callVars

-----------------------------------------------------------------------------
(* Types.                                                                  *)

Outcomes == Errors \union {"none", "ok"}

LEMMA TypeInit == Init => TypeOK
<1> SUFFICES ASSUME Init PROVE TypeOK
  OBVIOUS
<1>1. {pinned, closed, dead, bearer} \subseteq BOOLEAN
  BY DEF Init
<1>2. /\ stage \in [Calls -> Stages] /\ lookup \in [Calls -> {"none", "default", "usable", "found"}]
      /\ kind \in [Calls -> {"fetch", "search"}] /\ waits \in [Calls -> Calls \union {NoCall}]
  BY DEF Init, Stages
<1>3. got \in [Calls -> Outcomes] /\ result \in [Calls -> Outcomes]
  BY DEF Init, Outcomes
<1> QED
  BY <1>1, <1>2, <1>3 DEF Init, TypeOK, Outcomes

LEMMA Booleans ==
    ASSUME TypeOK
    PROVE  pinned \in BOOLEAN /\ closed \in BOOLEAN /\ dead \in BOOLEAN /\ bearer \in BOOLEAN
BY DEF TypeOK

-----------------------------------------------------------------------------
(* How a step of a call comes out: it ends the call, joins the token       *)
(* flight, goes on to the model's id, or sends.                            *)

\* Either the client is left as it is, or it is pinned and has no bearer.
SignsOut ==
    \/ UNCHANGED <<pinned, bearer>>
    \/ pinned' = TRUE /\ bearer' = FALSE

Ends(c) == \E how \in Errors \union {"ok"} :
    /\ End(c, how)
    /\ how = "cancelled" => MayBeCancelled(c)
    /\ SignsOut
    /\ UNCHANGED <<modelVars, tokenFlight, exchange, aborted, cut, closed, dead>>

Joins(c) == \E where \in {"token", "modelToken"} :
    /\ ~pinned /\ ~closed
    /\ RefreshBearer(c, where)
    /\ UNCHANGED <<modelVars, aborted, cut, closed, dead>>

Sends(c) ==
    /\ stage[c] = "token" /\ got[c] = "ok"
    /\ ~pinned /\ ~closed /\ ~dead /\ c \notin aborted
    /\ Await(c, "sent", NoCall, "none")
    /\ UNCHANGED <<pinned, tokenVars, modelVars, aborted, cut, closed, dead>>

LooksUp(c) ==
    /\ \E told \in {"none", "ok"} : Await(c, "model", modelFlight', told)
    /\ \/ modelFlight # NoCall /\ UNCHANGED modelVars
       \/ /\ modelFlight = NoCall /\ modelFlight' = c
          /\ lookup' = [lookup EXCEPT ![c] = "default"]
          /\ stage[c] = "modelToken" /\ got[c] = "ok" /\ ~pinned /\ ~closed
    /\ UNCHANGED <<pinned, tokenVars, aborted, cut, closed, dead>>

LEMMA FailUnaryEnds ==
    ASSUME TypeOK, NEW c \in Calls, NEW error \in Errors, FailUnary(c, error),
           error = "cancelled" => MayBeCancelled(c),
           UNCHANGED <<closed, dead, modelVars, aborted, cut>>
    PROVE  Ends(c)
<1>1. SignsOut
  BY Booleans, Zenon DEF FailUnary, SignOut, SignsOut
<1> QED
  BY <1>1 DEF FailUnary, Ends

LEMMA FailPinnedEnds ==
    ASSUME TypeOK, NEW c \in Calls, pinned, FailPinned(c),
           UNCHANGED <<closed, dead, modelVars, aborted, cut>>
    PROVE  Ends(c)
<1>1. SignsOut
  BY Booleans, Zenon DEF FailPinned, SignsOut
<1> QED
  BY <1>1 DEF FailPinned, Ends, Errors

LEMMA FailModelEnds ==
    ASSUME NEW c \in Calls, NEW error \in Errors, FailModel(c, error),
           error = "cancelled" => MayBeCancelled(c),
           UNCHANGED <<closed, dead, modelVars, aborted, cut>>
    PROVE  Ends(c)
BY DEF FailModel, Ends, SignsOut

LEMMA BeginUnaryOutcome ==
    ASSUME TypeOK, NEW c \in Calls, BeginUnary(c), ~closed,
           UNCHANGED <<closed, dead, modelVars, aborted, cut>>
    PROVE  Ends(c) \/ Joins(c)
BY FailPinnedEnds DEF BeginUnary, Joins

LEMMA Outcome ==
    ASSUME WebInv, NEW c \in Calls, CallStep(c)
    PROVE  Ends(c) \/ Joins(c) \/ Sends(c) \/ LooksUp(c)
<1>0. /\ TypeOK /\ got[c] \in Errors \union {"none", "ok"}
      /\ got[c] = "cancelled" => MayBeCancelled(c)
      /\ c \in aborted \/ dead => MayBeCancelled(c)
      /\ {"unauthenticated", "cancelled", "other"} = Errors
  BY DEF WebInv, TypeOK, ToldOfCancel, MayBeCancelled, Errors
<1>1. CASE Start(c)
  <2>1. UNCHANGED <<closed, dead, modelVars, aborted, cut>>
    BY <1>1 DEF Start
  <2>2. CASE closed
    BY <1>0, <1>1, <2>1, <2>2, FailModelEnds DEF Start
  <2>3. CASE ~closed /\ kind[c] = "fetch"
    BY <1>0, <1>1, <2>1, <2>3, FailModelEnds, BeginUnaryOutcome DEF Start
  <2>4. CASE ~closed /\ kind[c] # "fetch" /\ modelFlight # NoCall
    BY <1>1, <2>1, <2>4 DEF Start, AwaitModel, LooksUp
  <2>5. CASE ~closed /\ kind[c] # "fetch" /\ modelFlight = NoCall
    BY <1>0, <1>1, <2>1, <2>5, FailPinnedEnds DEF Start, Joins
  <2> QED
    BY <2>2, <2>3, <2>4, <2>5
<1>2. CASE ModelToken(c)
  <2>1. stage[c] = "modelToken" /\ got[c] # "none" /\ UNCHANGED <<closed, dead, aborted, cut>>
    BY <1>2 DEF ModelToken
  <2>2. CASE got[c] # "ok"
    BY <1>0, <1>2, <2>1, <2>2, FailModelEnds DEF ModelToken
  <2>3. CASE got[c] = "ok" /\ pinned
    BY <1>0, <1>2, <2>1, <2>3, FailPinnedEnds DEF ModelToken
  <2>4. CASE got[c] = "ok" /\ ~pinned /\ (closed \/ c \in aborted)
    BY <1>0, <1>2, <2>1, <2>4, FailModelEnds DEF ModelToken
  <2>5. CASE got[c] = "ok" /\ ~pinned /\ ~closed /\ c \notin aborted
    BY <1>2, <2>1, <2>5 DEF ModelToken, AwaitModel, LooksUp
  <2> QED
    BY <2>2, <2>3, <2>4, <2>5
<1>3. CASE Model(c)
  <2>1. got[c] # "none" /\ UNCHANGED <<closed, dead, modelVars, aborted, cut>>
    BY <1>3 DEF Model
  <2>2. CASE c \in aborted \/ got[c] # "ok" \/ closed \/ dead
    BY <1>0, <1>3, <2>1, <2>2, FailModelEnds DEF Model
  <2>3. CASE ~(c \in aborted \/ got[c] # "ok" \/ closed \/ dead)
    BY <1>0, <1>3, <2>1, <2>3, BeginUnaryOutcome DEF Model
  <2> QED
    BY <2>2, <2>3
<1>4. CASE Send(c)
  <2>1. stage[c] = "token" /\ got[c] # "none" /\ UNCHANGED <<closed, dead, modelVars, aborted, cut>>
    BY <1>4 DEF Send
  <2>2. CASE got[c] # "ok"
    BY <1>0, <1>4, <2>1, <2>2, FailUnaryEnds DEF Send
  <2>3. CASE got[c] = "ok" /\ pinned
    BY <1>0, <1>4, <2>1, <2>3, FailPinnedEnds DEF Send
  <2>4. CASE got[c] = "ok" /\ ~pinned /\ (closed \/ dead \/ c \in aborted)
    BY <1>0, <1>4, <2>1, <2>4, FailUnaryEnds DEF Send
  <2>5. CASE got[c] = "ok" /\ ~pinned /\ ~(closed \/ dead \/ c \in aborted)
    BY <1>4, <2>1, <2>5 DEF Send, Sends
  <2> QED
    BY <2>2, <2>3, <2>4, <2>5
<1>5. CASE Return(c)
  <2>1. UNCHANGED <<closed, dead, modelVars, aborted, cut>>
    BY <1>5 DEF Return
  <2>2. CASE End(c, "ok") /\ UNCHANGED <<pinned, tokenVars>>
    BY <2>1, <2>2 DEF Ends, SignsOut
  <2>3. MayBeCancelled(c)
    BY <1>5 DEF Return, MayBeCancelled
  <2>4. ASSUME NEW error \in Errors, FailUnary(c, error) PROVE Ends(c)
    BY <1>0, <2>1, <2>3, <2>4, FailUnaryEnds
  <2> QED
    BY <1>5, <2>2, <2>4 DEF Return
<1> QED
  BY <1>1, <1>2, <1>3, <1>4, <1>5 DEF CallStep

-----------------------------------------------------------------------------
(* The invariant is kept by the outcomes of a call's step ...              *)

LEMMA EndsKeeps ==
    ASSUME WebInv, NEW c \in Calls, Ends(c)
    PROVE  WebInv'
<1> PICK how \in Errors \union {"ok"} :
           /\ End(c, how)
           /\ how = "cancelled" => MayBeCancelled(c)
           /\ SignsOut
           /\ UNCHANGED <<modelVars, tokenFlight, exchange, aborted, cut, closed, dead>>
  BY DEF Ends
<1>1. /\ stage' \in [Calls -> Stages] /\ result' \in [Calls -> Outcomes]
      /\ got' \in [Calls -> Outcomes]
  BY DEF WebInv, TypeOK, End, Stages, Errors, Outcomes
<1>2. {pinned, closed, dead, bearer}' \subseteq BOOLEAN
  BY DEF WebInv, TypeOK, SignsOut
<1>3. TypeOK'
  BY <1>1, <1>2 DEF WebInv, TypeOK, End, Outcomes
<1>4. OneFlight'
  BY DEF WebInv, OneFlight
<1>6. ToldOfCancel'
  BY DEF WebInv, TypeOK, ToldOfCancel, MayBeCancelled, End
<1>7. TokenIsThere'
  BY DEF WebInv, TypeOK, TokenIsThere, End, SignsOut
<1> QED
  BY <1>3, <1>4, <1>6, <1>7 DEF WebInv

LEMMA AwaitKeeps ==
    ASSUME WebInv, NEW c \in Calls, NEW where \in Stages, NEW flight \in Calls \union {NoCall},
           NEW told \in {"none", "ok"}, Await(c, where, flight, told),
           told = "ok" => where = "model",
           UNCHANGED <<pinned, bearer, aborted, cut, closed, dead>>
    PROVE  /\ stage' \in [Calls -> Stages] /\ waits' \in [Calls -> Calls \union {NoCall}]
           /\ got' \in [Calls -> Outcomes] /\ kind' = kind /\ result' = result
           /\ ToldOfCancel' /\ TokenIsThere'
<1>1. /\ stage' \in [Calls -> Stages] /\ waits' \in [Calls -> Calls \union {NoCall}]
      /\ got' \in [Calls -> Outcomes] /\ kind' = kind /\ result' = result
  BY DEF WebInv, TypeOK, Await, Outcomes
<1>3. ToldOfCancel'
  BY DEF WebInv, TypeOK, ToldOfCancel, MayBeCancelled, Await
<1>4. TokenIsThere'
  BY DEF WebInv, TypeOK, TokenIsThere, Await
<1> QED
  BY <1>1, <1>3, <1>4

LEMMA JoinsKeeps ==
    ASSUME WebInv, NEW c \in Calls, Joins(c)
    PROVE  WebInv'
<1> PICK where \in {"token", "modelToken"} :
           /\ RefreshBearer(c, where)
           /\ UNCHANGED <<modelVars, aborted, cut, closed, dead>>
  BY DEF Joins
<1>1. /\ tokenFlight' \in Calls \union {NoCall} /\ exchange' \subseteq Calls
      /\ Await(c, where, tokenFlight', "none")
      /\ UNCHANGED <<pinned, bearer>>
  BY DEF WebInv, TypeOK, RefreshBearer
<1>2. where \in Stages
  BY DEF Stages
<1>3. /\ stage' \in [Calls -> Stages] /\ waits' \in [Calls -> Calls \union {NoCall}]
      /\ got' \in [Calls -> Outcomes] /\ kind' = kind /\ result' = result
      /\ ToldOfCancel' /\ TokenIsThere'
  BY <1>1, <1>2, AwaitKeeps
<1>4. TypeOK'
  BY <1>1, <1>3 DEF WebInv, TypeOK, Outcomes
<1>5. OneFlight'
  BY NoCallAssumption DEF WebInv, OneFlight, RefreshBearer
<1> QED
  BY <1>3, <1>4, <1>5 DEF WebInv

LEMMA SendsKeeps ==
    ASSUME WebInv, NEW c \in Calls, Sends(c)
    PROVE  WebInv'
<1>1. "sent" \in Stages
  BY DEF Stages
<1>2. /\ stage' \in [Calls -> Stages] /\ waits' \in [Calls -> Calls \union {NoCall}]
      /\ got' \in [Calls -> Outcomes] /\ kind' = kind /\ result' = result
      /\ ToldOfCancel' /\ TokenIsThere'
  BY <1>1, AwaitKeeps DEF Sends
<1>3. TypeOK'
  BY <1>2 DEF WebInv, TypeOK, Sends, Outcomes
<1>4. OneFlight'
  BY DEF WebInv, OneFlight, Sends
<1> QED
  BY <1>2, <1>3, <1>4 DEF WebInv

LEMMA LooksUpKeeps ==
    ASSUME WebInv, NEW c \in Calls, LooksUp(c)
    PROVE  WebInv'
<1> PICK told \in {"none", "ok"} : Await(c, "model", modelFlight', told)
  BY DEF LooksUp
<1>1. /\ "model" \in Stages /\ modelFlight' \in Calls \union {NoCall}
      /\ lookup' \in [Calls -> {"none", "default", "usable", "found"}]
  BY DEF WebInv, TypeOK, LooksUp, Stages
<1>2. /\ stage' \in [Calls -> Stages] /\ waits' \in [Calls -> Calls \union {NoCall}]
      /\ got' \in [Calls -> Outcomes] /\ kind' = kind /\ result' = result
      /\ ToldOfCancel' /\ TokenIsThere'
  BY <1>1, AwaitKeeps DEF LooksUp
<1>3. TypeOK'
  BY <1>1, <1>2 DEF WebInv, TypeOK, LooksUp, Outcomes
<1>4. OneFlight'
  BY NoCallAssumption DEF WebInv, TypeOK, OneFlight, LooksUp
<1> QED
  BY <1>2, <1>3, <1>4 DEF WebInv

-----------------------------------------------------------------------------
(* ... by what the flights answer, and by aborts.                          *)

LEMMA TellKeeps ==
    ASSUME WebInv, NEW where, NEW flight, NEW told \in Errors \union {"ok"},
           Tell(where, flight, told),
           told = "cancelled" => dead \/ (where = {"model"} /\ flight \in cut'),
           told = "ok" => bearer' \/ pinned' \/ where = {"model"},
           bearer \/ pinned => bearer' \/ pinned', UNCHANGED <<dead, aborted>>, cut \subseteq cut'
    PROVE  /\ got' \in [Calls -> Outcomes] /\ UNCHANGED <<kind, stage, waits, result>>
           /\ ToldOfCancel' /\ TokenIsThere'
<1>1. got' \in [Calls -> Outcomes] /\ UNCHANGED <<kind, stage, waits, result>>
  BY DEF WebInv, TypeOK, Tell, Outcomes
<1>3. ToldOfCancel'
  BY DEF WebInv, ToldOfCancel, MayBeCancelled, Tell
<1>4. TokenIsThere'
  BY DEF WebInv, TokenIsThere, Tell
<1> QED
  BY <1>1, <1>3, <1>4

\* A token flight is over, and has told those that awaited it.
LEMMA TokenKeeps ==
    ASSUME WebInv, NEW f \in Calls, NEW told \in Errors \union {"ok"},
           f \in exchange, exchange' = exchange \ {f}, tokenFlight' = NoCall,
           bearer' \in BOOLEAN, bearer \/ pinned => bearer' \/ pinned',
           Tell({"modelToken", "token"}, f, told),
           told = "cancelled" => dead, told = "ok" => bearer' \/ pinned',
           UNCHANGED <<pinned, closed, dead, modelVars, aborted, cut>>
    PROVE  WebInv'
<1>1. /\ got' \in [Calls -> Outcomes] /\ UNCHANGED <<kind, stage, waits, result>>
      /\ ToldOfCancel' /\ TokenIsThere'
  BY TellKeeps
<1>2. {pinned, closed, dead, bearer}' \subseteq BOOLEAN
  BY DEF WebInv, TypeOK
<1>3. TypeOK'
  BY <1>1, <1>2 DEF WebInv, TypeOK, Outcomes
<1>4. OneFlight'
  BY NoCallAssumption DEF WebInv, OneFlight
<1> QED
  BY <1>1, <1>3, <1>4 DEF WebInv

LEMMA TokenArrivesKeeps ==
    ASSUME WebInv, NEW f \in Calls, TokenArrives(f)
    PROVE  WebInv'
<1>1. /\ f \in exchange /\ exchange' = exchange \ {f} /\ tokenFlight' = NoCall
      /\ UNCHANGED <<pinned, closed, dead, modelVars, aborted, cut>>
      /\ pinned \in BOOLEAN /\ bearer \in BOOLEAN
  BY Booleans DEF TokenArrives, WebInv
<1> DEFINE told == IF pinned THEN "unauthenticated" ELSE "ok"
<1>2. CASE bearer' = ~pinned /\ Tell({"modelToken", "token"}, f, told)
  <2>1. bearer' \in BOOLEAN /\ (bearer' \/ pinned')
    BY <1>1, <1>2, Zenon
  <2>2. told \in Errors \union {"ok"} /\ told # "cancelled"
    BY DEF Errors
  <2> HIDE DEF told
  <2> QED
    BY <1>1, <1>2, <2>1, <2>2, TokenKeeps
<1>3. ASSUME NEW error \in TokenErrors, Tell({"modelToken", "token"}, f, error), bearer' = bearer
      PROVE  WebInv'
  <2>1. error \in Errors /\ error # "ok" /\ (error = "cancelled" => dead)
    BY DEF TokenErrors, Errors
  <2> QED
    BY <1>1, <1>3, <2>1, TokenKeeps
<1> QED
  BY <1>2, <1>3 DEF TokenArrives

\* The model's id is found: whoever awaits it is told.
LEMMA FoundKeeps ==
    ASSUME WebInv, NEW f \in Calls, lookup[f] # "none", Found(f),
           UNCHANGED <<closed, dead, tokenFlight, exchange, aborted>>
    PROVE  WebInv'
<1>1. /\ got' \in [Calls -> Outcomes] /\ UNCHANGED <<kind, stage, waits, result>>
      /\ ToldOfCancel' /\ TokenIsThere'
  BY TellKeeps DEF Found
<1>2. lookup' \in [Calls -> {"none", "default", "usable", "found"}]
  BY DEF WebInv, TypeOK, Found
<1>3. TypeOK'
  BY <1>1, <1>2 DEF WebInv, TypeOK, Found, Outcomes
<1>4. OneFlight'
  BY DEF WebInv, TypeOK, OneFlight, Found
<1> QED
  BY <1>1, <1>3, <1>4 DEF WebInv

\* A lookup fails: it is forgotten, and those who awaited it are told.
LEMMA NotFoundKeeps ==
    ASSUME WebInv, NEW f \in Calls, lookup[f] # "none", NEW error \in Errors,
           NotFound(f, error), UNCHANGED <<closed, dead, tokenFlight, exchange, aborted>>
    PROVE  WebInv'
<1>1. /\ error # "ok" /\ (error = "cancelled" => f \in cut')
      /\ cut \subseteq cut' /\ (cut \subseteq Calls => cut' \subseteq Calls)
  BY DEF NotFound, Cut, Errors
<1>2. pinned' \in BOOLEAN /\ bearer' \in BOOLEAN /\ (bearer \/ pinned => bearer' \/ pinned')
  BY Booleans, Zenon DEF WebInv, NotFound, SignOut
<1>3. /\ got' \in [Calls -> Outcomes] /\ UNCHANGED <<kind, stage, waits, result>>
      /\ ToldOfCancel' /\ TokenIsThere'
  BY <1>1, <1>2, TellKeeps DEF NotFound
<1>4. /\ lookup' \in [Calls -> {"none", "default", "usable", "found"}]
      /\ modelFlight' = NoCall
  BY DEF WebInv, TypeOK, NotFound
<1>5. {pinned, closed, dead, bearer}' \subseteq BOOLEAN
  BY <1>2 DEF WebInv, TypeOK
<1>6. TypeOK'
  BY <1>1, <1>3, <1>4, <1>5 DEF WebInv, TypeOK, NotFound, Outcomes
<1>7. OneFlight'
  BY DEF WebInv, TypeOK, OneFlight, NotFound
<1> QED
  BY <1>3, <1>6, <1>7 DEF WebInv

LEMMA LookupKeeps ==
    ASSUME WebInv, NEW f \in Calls, DefaultArrives(f) \/ UsableArrives(f)
    PROVE  WebInv'
<1>1. lookup[f] # "none" /\ UNCHANGED <<closed, dead, tokenFlight, exchange, aborted>>
  BY DEF DefaultArrives, UsableArrives
<1>2. CASE Found(f)
  BY <1>1, <1>2, FoundKeeps
<1>3. ASSUME NEW error \in Errors, NotFound(f, error) PROVE WebInv'
  BY <1>1, <1>3, NotFoundKeeps
<1>4. CASE /\ lookup' = [lookup EXCEPT ![f] = "usable"]
           /\ UNCHANGED <<pinned, bearer, modelFlight, callVars, cut>>
  <2>1. lookup' \in [Calls -> {"none", "default", "usable", "found"}]
    BY <1>4 DEF WebInv, TypeOK
  <2>2. TypeOK'
    BY <1>1, <1>4, <2>1 DEF WebInv, TypeOK
  <2>3. OneFlight'
    BY <1>1, <1>4 DEF WebInv, TypeOK, OneFlight
  <2> QED
    BY <1>1, <1>4, <2>2, <2>3 DEF WebInv, ToldOfCancel, MayBeCancelled, TokenIsThere
<1> QED
  BY <1>2, <1>3, <1>4 DEF DefaultArrives, UsableArrives

LEMMA SignalKeeps ==
    ASSUME WebInv, (\E c \in Calls : Abort(c)) \/ Die \/ Close
    PROVE  WebInv'
<1>1. ASSUME NEW c \in Calls, Abort(c) PROVE WebInv'
  <2>1. got' \in [Calls -> Outcomes] /\ aborted' \subseteq Calls
    BY <1>1 DEF WebInv, TypeOK, Abort, Errors, Outcomes
  <2>2. TypeOK'
    BY <1>1, <2>1 DEF WebInv, TypeOK, Abort, Outcomes
  <2>3. OneFlight'
    BY <1>1 DEF WebInv, OneFlight, Abort
  <2>4. ToldOfCancel' /\ TokenIsThere'
    BY <1>1 DEF WebInv, TypeOK, ToldOfCancel, MayBeCancelled, TokenIsThere, Abort
  <2> QED
    BY <2>2, <2>3, <2>4 DEF WebInv
<1>2. CASE Die \/ Close
  <2>1. TypeOK'
    BY <1>2 DEF WebInv, TypeOK, Die, Close
  <2> QED
    BY <1>2, <2>1
    DEF WebInv, OneFlight, ToldOfCancel, MayBeCancelled, TokenIsThere, Die, Close
<1> QED
  BY <1>1, <1>2

-----------------------------------------------------------------------------
(* The properties.                                                         *)

LEMMA WebNext == WebInv /\ [Next]_vars => WebInv'
<1> SUFFICES ASSUME WebInv, [Next]_vars PROVE WebInv'
  OBVIOUS
<1>1. ASSUME NEW c \in Calls, CallStep(c) PROVE WebInv'
  BY <1>1, Outcome, EndsKeeps, JoinsKeeps, SendsKeeps, LooksUpKeeps
<1>2. ASSUME NEW f \in Calls, FlightStep(f) PROVE WebInv'
  BY <1>2, TokenArrivesKeeps, LookupKeeps DEF FlightStep
<1>3. CASE (\E c \in Calls : Abort(c)) \/ Die \/ Close
  BY <1>3, SignalKeeps
<1>4. CASE UNCHANGED vars
  BY <1>4
  DEF WebInv, TypeOK, OneFlight, ToldOfCancel, MayBeCancelled, TokenIsThere
<1> QED
  BY <1>1, <1>2, <1>3, <1>4 DEF Next

\* The inductive invariant holds in every reachable state.
THEOREM Invariance == Spec => []WebInv
<1>1. Init => WebInv
  <2> SUFFICES ASSUME Init PROVE WebInv
    OBVIOUS
  <2>1. OneFlight /\ ToldOfCancel /\ TokenIsThere
    BY DEF Init, OneFlight, ToldOfCancel, TokenIsThere
  <2> QED
    BY <2>1, TypeInit DEF WebInv
<1> QED
  BY <1>1, WebNext, PTL DEF Spec

\* The client's variables keep their types, for any number of calls.
THEOREM TypeCorrect == Spec => []TypeOK
BY Invariance, PTL DEF WebInv

\* At most one exchange and one lookup run at a time.
THEOREM OneFlightHolds == Spec => []OneFlight
BY Invariance, PTL DEF WebInv

\* Only a step of the call itself ends it, and only with a cancel that it may
\* have been told.
LEMMA CancelStep ==
    ASSUME WebInv, [Next]_vars, NEW c \in Calls,
           result[c] # "cancelled", result'[c] = "cancelled"
    PROVE  MayBeCancelled(c)
<1>0. result \in [Calls -> Outcomes]
  BY DEF WebInv, TypeOK, Outcomes
<1>1. ASSUME NEW d \in Calls, Ends(d) PROVE MayBeCancelled(c)
  BY <1>0, <1>1 DEF Ends, End
<1>2. ASSUME NEW d \in Calls, Joins(d) \/ Sends(d) \/ LooksUp(d) PROVE FALSE
  BY <1>2 DEF Joins, RefreshBearer, Sends, LooksUp, Await
<1>3. ASSUME NEW f \in Calls, FlightStep(f) PROVE FALSE
  BY <1>3 DEF FlightStep, TokenArrives, DefaultArrives, UsableArrives, Found, NotFound, Tell
<1>4. CASE (\E d \in Calls : Abort(d)) \/ Die \/ Close \/ UNCHANGED vars
  BY <1>4 DEF Abort, Die, Close
<1> QED
  BY <1>1, <1>2, <1>3, <1>4, Outcome DEF Next

\* No call is cancelled by the abort of another: one that ends so was aborted
\* itself, or the client was, or the RPC it awaited was cancelled on the wire.
THEOREM AbortIsPrivateHolds == Spec => AbortIsPrivate
<1>1. WebInv /\ [Next]_vars =>
        [\A c \in Calls : result[c] # "cancelled" /\ result'[c] = "cancelled" =>
            \/ c \in aborted \/ dead
            \/ stage[c] = "sent"
            \/ stage[c] = "model" /\ waits[c] \in cut]_vars
  BY CancelStep DEF MayBeCancelled
<1> QED
  BY Invariance, <1>1, PTL DEF Spec, AbortIsPrivate

\* One step sends nothing for a call that was aborted, nor on a client that is
\* closed or pinned, and starts no exchange and no lookup there.
LEMMA SendStep ==
    ASSUME WebInv, [Next]_vars, NEW c \in Calls
    PROVE  /\ stage[c] # "sent" /\ stage'[c] = "sent" =>
                 bearer /\ ~pinned /\ ~closed /\ ~dead /\ c \notin aborted
           /\ c \in exchange' \ exchange => ~pinned /\ ~closed
           /\ lookup[c] = "none" /\ lookup'[c] # "none" => bearer /\ ~pinned /\ ~closed
<1> DEFINE Goal == /\ stage[c] # "sent" /\ stage'[c] = "sent" =>
                         bearer /\ ~pinned /\ ~closed /\ ~dead /\ c \notin aborted
                   /\ c \in exchange' \ exchange => ~pinned /\ ~closed
                   /\ lookup[c] = "none" /\ lookup'[c] # "none" => bearer /\ ~pinned /\ ~closed
<1>0. /\ stage \in [Calls -> Stages]
      /\ lookup \in [Calls -> {"none", "default", "usable", "found"}]
      /\ \A d \in Calls : stage[d] \in {"token", "modelToken"} /\ got[d] = "ok" => bearer \/ pinned
  BY DEF WebInv, TypeOK, TokenIsThere
<1>1. ASSUME NEW d \in Calls, Ends(d) PROVE Goal
  BY <1>0, <1>1 DEF Ends, End
<1>2. ASSUME NEW d \in Calls, Joins(d) PROVE Goal
  BY <1>0, <1>2 DEF Joins, RefreshBearer, Await
<1>3. ASSUME NEW d \in Calls, Sends(d) PROVE Goal
  BY <1>0, <1>3 DEF Sends, Await
<1>4. ASSUME NEW d \in Calls, LooksUp(d) PROVE Goal
  BY <1>0, <1>4 DEF LooksUp, Await
<1>5. ASSUME NEW f \in Calls, TokenArrives(f) PROVE Goal
  BY <1>0, <1>5 DEF TokenArrives, Tell
<1>6. ASSUME NEW f \in Calls, DefaultArrives(f) \/ UsableArrives(f) PROVE Goal
  BY <1>0, <1>6 DEF DefaultArrives, UsableArrives, Found, NotFound, Tell
<1>7. CASE (\E d \in Calls : Abort(d)) \/ Die \/ Close \/ UNCHANGED vars
  BY <1>7 DEF Abort, Die, Close
<1> QED
  BY <1>1, <1>2, <1>3, <1>4, <1>5, <1>6, <1>7, Outcome DEF Next, FlightStep

\* Everything is looked at again before anything is sent or started.
THEOREM NothingSentAfterHolds == Spec => NothingSentAfter
<1>1. WebInv /\ [Next]_vars =>
        [\A c \in Calls :
          /\ stage[c] # "sent" /\ stage'[c] = "sent" =>
                bearer /\ ~pinned /\ ~closed /\ ~dead /\ c \notin aborted
          /\ c \in exchange' \ exchange => ~pinned /\ ~closed
          /\ lookup[c] = "none" /\ lookup'[c] # "none" => bearer /\ ~pinned /\ ~closed]_vars
  BY SendStep
<1> QED
  BY Invariance, <1>1, PTL DEF Spec, NothingSentAfter

-----------------------------------------------------------------------------
(* The poll of a login (Login): when it is given up.                       *)

SpentBy(polls) ==
    \E last \in FailureBudget .. Len(polls) :
        \A i \in last - FailureBudget + 1 .. last : Failing(polls[i])

\* The counter is the number of failures at the end of what was heard.
Counted(polls, run) ==
    /\ run \in Nat /\ run <= Len(polls)
    /\ \A i \in Len(polls) - run + 1 .. Len(polls) : Failing(polls[i])
    /\ run < Len(polls) => ~Failing(polls[Len(polls) - run])

LoginInv ==
    /\ LoginTypeOK
    /\ verdict = "none" <=> poll # "over"
    /\ saved => poll = "over"
    /\ poll = "fetch" => Len(heard) < MaxAttempts
    /\ poll \in {"top", "fetch", "sleep"} =>
          failures < FailureBudget /\ Counted(heard, failures)
    /\ poll \in {"body", "save"} => heard[Len(heard)] = "ok"
    /\ poll # "over" => ~SpentBy(heard)
    /\ LoginVerdict

-----------------------------------------------------------------------------
(* What one more poll does to the count.                                   *)

LEMMA HeardFacts ==
    ASSUME NEW h \in Seq(Polls), NEW what \in Polls
    PROVE  /\ Append(h, what) \in Seq(Polls)
           /\ Len(h) \in Nat /\ Len(Append(h, what)) = Len(h) + 1
           /\ \A i \in 1 .. Len(h) : Append(h, what)[i] = h[i]
           /\ Append(h, what)[Len(h) + 1] = what
BY AppendProperties, LenProperties

\* A failure more.
LEMMA CountFailure ==
    ASSUME NEW h \in Seq(Polls), NEW what \in Polls, NEW run \in Nat,
           Counted(h, run), Failing(what)
    PROVE  Counted(Append(h, what), run + 1)
BY HeardFacts DEF Counted

\* Anything else sets the count to zero.
LEMMA CountReset ==
    ASSUME NEW h \in Seq(Polls), NEW what \in Polls, ~Failing(what)
    PROVE  Counted(Append(h, what), 0)
BY HeardFacts DEF Counted

\* The budget is spent by the failure that fills it, and by no other poll.
LEMMA SpentByLast ==
    ASSUME NEW h \in Seq(Polls), NEW what \in Polls, NEW run \in Nat,
           Counted(h, run), ~SpentBy(h), Failing(what) => run + 1 < FailureBudget
    PROVE  ~SpentBy(Append(h, what))
<1> SUFFICES ASSUME NEW last \in FailureBudget .. Len(h) + 1,
                    \A i \in last - FailureBudget + 1 .. last : Failing(Append(h, what)[i])
             PROVE  FALSE
  BY HeardFacts DEF SpentBy
<1>0. Len(h) \in Nat /\ FailureBudget \in Nat /\ FailureBudget > 0
  BY LenProperties, LoginAssumption
<1>1. CASE last <= Len(h)
  <2>1. \A i \in last - FailureBudget + 1 .. last : i \in 1 .. Len(h)
    BY <1>0, <1>1
  <2>2. \A i \in last - FailureBudget + 1 .. last : Failing(h[i])
    BY <2>1, HeardFacts
  <2> QED
    BY <1>0, <1>1, <2>2 DEF SpentBy
<1>2. CASE last = Len(h) + 1
  <2>1. Failing(what)
    BY <1>0, <1>2, HeardFacts
  <2>2. run < Len(h) /\ Len(h) - run \in last - FailureBudget + 1 .. last
    BY <1>0, <1>2, <2>1 DEF Counted
  <2>3. ~Failing(h[Len(h) - run]) /\ Len(h) - run \in 1 .. Len(h)
    BY <1>0, <2>2 DEF Counted
  <2>4. Append(h, what)[Len(h) - run] = h[Len(h) - run]
    BY <2>3, HeardFacts
  <2> QED
    BY <2>2, <2>3, <2>4
<1> QED
  BY <1>0, <1>1, <1>2

LEMMA SpentByCount ==
    ASSUME NEW h \in Seq(Polls), NEW run \in Nat, Counted(h, run),
           run >= FailureBudget
    PROVE  SpentBy(h)
<1>1. Len(h) \in Nat /\ FailureBudget \in Nat /\ run <= Len(h)
  BY LenProperties, LoginAssumption DEF Counted
<1>2. Len(h) \in FailureBudget .. Len(h)
  BY <1>1
<1>3. \A i \in Len(h) - FailureBudget + 1 .. Len(h) : i \in Len(h) - run + 1 .. Len(h)
  BY <1>1
<1> QED
  BY <1>2, <1>3 DEF SpentBy, Counted

-----------------------------------------------------------------------------
(* The invariant.                                                          *)

LEMMA BudgetIsSpentBy == BudgetSpent <=> SpentBy(heard)
BY DEF BudgetSpent, SpentBy

LEMMA LoginInvInit == ASSUME LoginInit PROVE LoginInv
<1>1. heard = <<>> /\ Len(heard) = 0 /\ heard \in Seq(Polls)
  BY EmptySeq DEF LoginInit
<1>2. FailureBudget \in Nat /\ FailureBudget > 0 /\ MaxAttempts \in Nat
  BY LoginAssumption
<1>3. LoginTypeOK
  <2>1. 0 \in 0 .. FailureBudget /\ 0 <= MaxAttempts
    BY <1>2
  <2> QED
    BY <1>1, <2>1 DEF LoginInit, LoginTypeOK, Verdicts
<1>4. ~SpentBy(heard)
  BY <1>1, <1>2 DEF SpentBy
<1>5. Counted(heard, 0)
  BY <1>1 DEF Counted
<1>6. LoginVerdict
  BY <1>4, BudgetIsSpentBy DEF LoginInit, LoginVerdict
<1> QED
  BY <1>2, <1>3, <1>4, <1>5, <1>6 DEF LoginInit, LoginInv

\* The steps that hear nothing.
LEMMA QuietStep ==
    ASSUME LoginInv, Poll \/ BodyArrives \/ Save \/ Awake \/ GiveUpLogin
    PROVE  LoginInv'
<1>1. heard' = heard /\ failures' = failures
  BY DEF Poll, BodyArrives, Save, Awake, GiveUpLogin
<1>2. Len(heard) \in Nat /\ Len(heard) <= MaxAttempts /\ MaxAttempts \in Nat
  BY LenProperties, LoginAssumption DEF LoginInv, LoginTypeOK
<1>3. LoginTypeOK'
  BY <1>1 DEF LoginInv, LoginTypeOK, Verdicts, SettleLogin, Poll, BodyArrives, Save, Awake,
              GiveUpLogin
<1>4. BudgetSpent' <=> BudgetSpent
  BY <1>1 DEF BudgetSpent
<1>5. CASE Poll
  <2>1. poll = "top" /\ saved' = saved
    BY <1>5 DEF Poll
  <2>2. \/ poll' = "over" /\ verdict' = "unauthenticated" /\ Len(heard) = MaxAttempts
        \/ poll' = "over" /\ verdict' = "cancelled"
        \/ poll' = "fetch" /\ verdict' = verdict /\ Len(heard) # MaxAttempts
    BY <1>5 DEF Poll, SettleLogin
  <2>3. LoginVerdict'
    BY <1>1, <1>4, <2>1, <2>2, BudgetIsSpentBy DEF LoginInv, LoginVerdict
  <2> QED
    BY <1>1, <1>2, <1>3, <2>1, <2>2, <2>3 DEF LoginInv
<1>6. CASE BodyArrives \/ Save
  <2>1. /\ poll \in {"body", "save"}
        /\ \/ poll' = "save" /\ verdict' = verdict /\ saved' = saved
           \/ poll' = "over" /\ verdict' # "none"
    BY <1>6 DEF BodyArrives, Save, SettleLogin
  <2>2. LoginVerdict'
    BY <1>1, <1>4, <2>1, BudgetIsSpentBy DEF LoginInv, LoginVerdict
  <2> QED
    BY <1>1, <1>3, <2>1, <2>2 DEF LoginInv
<1>7. CASE Awake
  <2>1. /\ poll = "sleep" /\ saved' = saved
        /\ \/ poll' = "over" /\ verdict' = "cancelled"
           \/ poll' = "top" /\ verdict' = verdict
    BY <1>7 DEF Awake, SettleLogin
  <2>2. LoginVerdict'
    BY <1>1, <1>4, <2>1, BudgetIsSpentBy DEF LoginInv, LoginVerdict
  <2> QED
    BY <1>1, <1>3, <2>1, <2>2 DEF LoginInv
<1>8. CASE GiveUpLogin
  BY <1>1, <1>3, <1>4, <1>8 DEF LoginInv, LoginVerdict, GiveUpLogin
<1> QED
  BY <1>5, <1>6, <1>7, <1>8

\* What the steps that hear a poll have in common.
LEMMA HearingStep ==
    ASSUME LoginInv, NEW what \in Polls, poll = "fetch",
           heard' = Append(heard, what), saved' = saved,
           failures' \in 0 .. FailureBudget, gaveUp' = gaveUp,
           \/ poll' = "sleep" /\ verdict' = verdict /\ failures' < FailureBudget
              /\ failures' = (IF Failing(what) THEN failures + 1 ELSE 0)
           \/ poll' = "body" /\ verdict' = verdict /\ what = "ok"
           \/ poll' = "over" /\ verdict' \in {"cancelled", "policy"}
              /\ (verdict' = "policy" => what = "policy")
           \/ poll' = "over" /\ verdict' = "unauthenticated" /\ Failing(what)
              /\ failures + 1 >= FailureBudget
    PROVE  LoginInv'
<1>0. /\ heard \in Seq(Polls) /\ failures \in Nat /\ FailureBudget \in Nat /\ MaxAttempts \in Nat
      /\ Len(heard) \in Nat /\ Len(heard) < MaxAttempts /\ failures < FailureBudget
      /\ Counted(heard, failures) /\ ~SpentBy(heard) /\ ~saved /\ verdict = "none"
  BY LenProperties, LoginAssumption DEF LoginInv, LoginTypeOK
<1>1. /\ heard' \in Seq(Polls) /\ Len(heard') = Len(heard) + 1
      /\ heard'[Len(heard')] = what
  BY <1>0, HeardFacts
<1>2. LoginTypeOK'
  BY <1>0, <1>1 DEF LoginInv, LoginTypeOK, Verdicts
<1>3. ~Failing(what) \/ failures + 1 < FailureBudget => ~SpentBy(heard')
  BY <1>0, SpentByLast
<1>4. Failing(what) /\ failures + 1 >= FailureBudget => SpentBy(heard')
  <2> SUFFICES ASSUME Failing(what), failures + 1 >= FailureBudget PROVE SpentBy(heard')
    OBVIOUS
  <2>1. Counted(heard', failures + 1)
    BY <1>0, CountFailure
  <2>2. failures + 1 \in Nat /\ heard' \in Seq(Polls)
    BY <1>0, <1>1
  <2>3. ASSUME NEW h \in Seq(Polls), NEW run \in Nat, Counted(h, run), run >= FailureBudget
        PROVE  SpentBy(h)
    BY <2>3, SpentByCount
  <2> QED
    BY <2>1, <2>2, <2>3
<1>5. poll' = "sleep" => Counted(heard', failures')
  BY <1>0, CountFailure, CountReset
<1>6. ~Failing("ok") /\ ~Failing("policy")
  BY DEF Failing
<1>7. BudgetSpent' <=> SpentBy(heard')
  BY DEF BudgetSpent, SpentBy
<1>8. LoginVerdict'
  BY <1>0, <1>1, <1>3, <1>4, <1>6, <1>7 DEF LoginVerdict
<1>9. poll' # "over" => ~SpentBy(heard')
  BY <1>0, <1>3, <1>6
<1> QED
  BY <1>0, <1>1, <1>2, <1>5, <1>8, <1>9 DEF LoginInv

LEMMA LoginNextKeeps == LoginInv /\ [LoginNext]_loginVars => LoginInv'
<1> SUFFICES ASSUME LoginInv, [LoginNext]_loginVars PROVE LoginInv'
  OBVIOUS
<1>0. /\ failures \in Nat /\ FailureBudget \in Nat /\ FailureBudget > 0
      /\ poll = "fetch" => failures < FailureBudget
  BY LoginAssumption DEF LoginInv, LoginTypeOK
<1>1. CASE Poll \/ BodyArrives \/ Save \/ Awake \/ GiveUpLogin
  BY <1>1, QuietStep
<1>2. CASE NotYet
  <2>1. /\ poll = "fetch" /\ heard' = Append(heard, "pending") /\ failures' = 0
        /\ saved' = saved /\ gaveUp' = gaveUp
        /\ \/ poll' = "sleep" /\ verdict' = verdict
           \/ poll' = "over" /\ verdict' = "cancelled"
    BY <1>2 DEF NotYet, Hear, Sleep, SettleLogin
  <2>2. "pending" \in Polls /\ ~Failing("pending") /\ 0 \in 0 .. FailureBudget
    BY <1>0 DEF Polls, Failing
  <2> QED
    BY <1>0, <2>1, <2>2, HearingStep
<1>3. CASE Failed
  <2>1. PICK what \in {"refused", "unreachable"} : heard' = Append(heard, what)
    BY <1>3 DEF Failed, Hear
  <2>2. /\ poll = "fetch" /\ saved' = saved /\ gaveUp' = gaveUp
        /\ \/ poll' = "over" /\ verdict' = "cancelled" /\ failures' \in {failures, failures + 1}
           \/ poll' = "over" /\ verdict' = "unauthenticated" /\ failures' = failures + 1
              /\ failures + 1 >= FailureBudget
           \/ poll' = "sleep" /\ verdict' = verdict /\ failures' = failures + 1
              /\ ~(failures + 1 >= FailureBudget)
    BY <1>3 DEF Failed, Sleep, SettleLogin
  <2>3. what \in Polls /\ Failing(what)
    BY DEF Polls, Failing
  <2>4. failures' \in 0 .. FailureBudget
    BY <1>0, <2>2
  <2>5. poll' = "sleep" => failures' < FailureBudget
    BY <1>0, <2>2
  <2> QED
    BY <2>1, <2>2, <2>3, <2>4, <2>5, HearingStep
<1>4. CASE Policy
  <2>1. /\ poll = "fetch" /\ heard' = Append(heard, "policy") /\ failures' = failures
        /\ saved' = saved /\ gaveUp' = gaveUp /\ poll' = "over" /\ verdict' = "policy"
        /\ "policy" \in Polls
    BY <1>4 DEF Policy, Hear, SettleLogin, Polls
  <2> QED
    BY <1>0, <2>1, HearingStep
<1>5. CASE Authorized
  <2>1. /\ poll = "fetch" /\ heard' = Append(heard, "ok") /\ failures' = failures
        /\ saved' = saved /\ gaveUp' = gaveUp /\ poll' = "body" /\ verdict' = verdict
        /\ "ok" \in Polls
    BY <1>5 DEF Authorized, Hear, Polls
  <2> QED
    BY <1>0, <2>1, HearingStep
<1>6. CASE UNCHANGED loginVars
  BY <1>6 DEF loginVars, LoginInv, LoginTypeOK, LoginVerdict, BudgetSpent
<1> QED
  BY <1>1, <1>2, <1>3, <1>4, <1>5, <1>6 DEF LoginNext, LoginStep

\* The inductive invariant holds in every reachable state.
THEOREM LoginInvariance == LoginSpec => []LoginInv
<1>1. LoginInit => LoginInv
  BY LoginInvInit
<1>2. LoginInv /\ [LoginNext]_loginVars => LoginInv'
  BY LoginNextKeeps
<1> QED
  BY <1>1, <1>2, PTL DEF LoginSpec

\* For any number of attempts and any budget, a login is given up after so
\* many failures in a row and for nothing less, and nothing is stored of a
\* login that was not authorized.
THEOREM LoginVerdictHolds == LoginSpec => []LoginVerdict
<1>1. LoginInv => LoginVerdict
  BY DEF LoginInv
<1> QED
  BY <1>1, LoginInvariance, PTL

\* The poll's variables keep their types: it never polls more than it may.
THEOREM LoginTypeCorrect == LoginSpec => []LoginTypeOK
<1>1. LoginInv => LoginTypeOK
  BY DEF LoginInv
<1> QED
  BY <1>1, LoginInvariance, PTL

-----------------------------------------------------------------------------
(* The start of the editor (Overlay, with the Bootstrap inside it).        *)

startVars == <<bootVars, overlayVars>>

\* Where the calls are: unsent before the catalogue, all answered after it, and
\* the timer tells what the parameters have come to.
CallsInv ==
    /\ at \in {"idle", "config", "privacy"} =>
          usable = "unsent" /\ default = "unsent" /\ params = "unsent"
    /\ at \in {"done", "failed"} => "pending" \notin {usable, default, params}
    /\ timer = "running" <=> params = "pending"
    /\ timer = "fired" <=> params = "timed_out"
    /\ at = "catalogue" => ghost = GhostMode(probe)

\* The signal is aborted only at the end of the overlay, which closes the client.
SeedInv ==
    /\ overlay # "over" => ~signalled
    /\ overlay = "start" => client = "none"
    /\ models = "live" => overlay = "over"

StartInv == OverlayTypeOK /\ CallsInv /\ SeedInv /\ SeedOrLive

LEMMA StartInit == OverlayInit => StartInv
<1>. SUFFICES ASSUME OverlayInit PROVE StartInv OBVIOUS
<1>1. OverlayTypeOK
  BY DEF OverlayInit, BootInit, OverlayTypeOK, BootTypeOK, CallStates, Sessions, Origins
<1>2. CallsInv /\ SeedInv
  BY DEF OverlayInit, BootInit, CallsInv, SeedInv, GhostMode
<1>3. SeedOrLive BY DEF OverlayInit, BootInit, SeedOrLive, SessionSound
<1>. QED BY <1>1, <1>2, <1>3 DEF StartInv

\* The merge: what it leaves, and that what it makes of the answers is sound.
LEMMA MergeKeeps ==
    ASSUME StartInv, at = "catalogue",
           Merge(usable', default', params'),
           UNCHANGED <<signalled, backend, config, probe, ghost, overlayVars>>,
           usable' \in CallStates, default' \in CallStates,
           params' \in CallStates \union {"useless", "timed_out"},
           timer' \in {"off", "running", "fired"}, answering' \in BOOLEAN,
           timer' = "running" <=> params' = "pending",
           timer' = "fired" <=> params' = "timed_out"
    PROVE  StartInv'
<1>. USE DEF overlayVars
<1>1. CASE "pending" \in {usable', default', params'}
  <2>1. UNCHANGED <<at, session, failure>> BY <1>1 DEF Merge, outcome
  <2>2. OverlayTypeOK' BY <2>1 DEF StartInv, OverlayTypeOK, BootTypeOK
  <2>3. CallsInv' /\ SeedInv' BY <2>1 DEF StartInv, CallsInv, SeedInv, GhostMode
  <2>4. SeedOrLive' BY <2>1 DEF StartInv, SeedOrLive, SessionSound
  <2>. QED BY <2>2, <2>3, <2>4 DEF StartInv
<1>2. CASE "pending" \notin {usable', default', params'} /\ usable' = "ok"
  <2>1. at' = "done" /\ session' = Merged(params', default') /\ UNCHANGED failure
    BY <1>2 DEF Merge
  <2>2. session' \in Sessions
    <3>1. SelectOrigin \in Origins BY DEF SelectOrigin, Origins
    <3>2. ghost \in BOOLEAN /\ config.http1 \in BOOLEAN
      BY DEF StartInv, OverlayTypeOK, BootTypeOK
    <3>. QED BY <2>1, <3>1, <3>2 DEF Merged, Sessions
  <2>3. OverlayTypeOK' BY <2>1, <2>2 DEF StartInv, OverlayTypeOK, BootTypeOK
  <2>4. CallsInv' /\ SeedInv' BY <1>2, <2>1 DEF StartInv, CallsInv, SeedInv
  <2>5. session'.params = "timed_out" <=> timer' = "fired" BY <2>1 DEF Merged
  <2>6. session'.origin = "agentn" => probe' = "shared"
    BY <2>1 DEF Merged, SelectOrigin, StartInv, CallsInv, GhostMode
  <2>7. SeedOrLive'
    BY <1>2, <2>1, <2>5, <2>6 DEF StartInv, SeedOrLive, SessionSound
  <2>. QED BY <2>3, <2>4, <2>7 DEF StartInv
<1>3. CASE "pending" \notin {usable', default', params'} /\ usable' # "ok"
  <2>1. at' = "failed" /\ failure' \in {"error", "cancelled"} /\ UNCHANGED session
    BY <1>3 DEF Merge, Fail
  <2>2. OverlayTypeOK' BY <2>1 DEF StartInv, OverlayTypeOK, BootTypeOK
  <2>3. CallsInv' /\ SeedInv' BY <1>3, <2>1 DEF StartInv, CallsInv, SeedInv
  <2>4. SeedOrLive'
    BY <1>3, <2>1 DEF StartInv, SeedOrLive, SessionSound, CallStates
  <2>. QED BY <2>2, <2>3, <2>4 DEF StartInv
<1>. QED BY <1>1, <1>2, <1>3

LEMMA StartNext == StartInv /\ [OverlayNext]_startVars => StartInv'
<1>. SUFFICES ASSUME StartInv, [OverlayNext]_startVars PROVE StartInv' OBVIOUS
<1>. USE DEF overlayVars, catalogueVars, outcome
<1>1. CASE NoClient
  BY <1>1 DEF NoClient, bootVars, StartInv, OverlayTypeOK, BootTypeOK, CallsInv, SeedInv,
              SeedOrLive, SessionSound, GhostMode
<1>2. CASE MakeClient
  BY <1>2 DEF MakeClient, bootVars, StartInv, OverlayTypeOK, BootTypeOK, CallsInv, SeedInv,
              SeedOrLive, SessionSound, GhostMode
<1>3. CASE SessionBegins
  BY <1>3 DEF SessionBegins, Begin, StartInv, OverlayTypeOK, BootTypeOK, CallsInv, SeedInv,
              SeedOrLive, SessionSound, GhostMode
<1>4. CASE TokenFails
  BY <1>4 DEF TokenFails, Fail, StartInv, OverlayTypeOK, BootTypeOK, CallsInv, SeedInv,
              SeedOrLive, SessionSound, GhostMode
<1>5. CASE ConfigArrives /\ UNCHANGED overlayVars
  <2>1. OverlayTypeOK'
    BY <1>5 DEF ConfigArrives, Fail, StartInv, OverlayTypeOK, BootTypeOK
  <2>2. CallsInv' /\ SeedInv'
    BY <1>5 DEF ConfigArrives, Fail, StartInv, CallsInv, SeedInv, GhostMode
  <2>3. SeedOrLive'
    BY <1>5 DEF ConfigArrives, Fail, StartInv, CallsInv, SeedOrLive, SessionSound
  <2>. QED BY <2>1, <2>2, <2>3 DEF StartInv
<1>6. CASE PrivacyArrives /\ UNCHANGED overlayVars
  <2>1. OverlayTypeOK'
    BY <1>6 DEF PrivacyArrives, GhostMode, StartInv, OverlayTypeOK, BootTypeOK, CallStates
  <2>2. CallsInv' /\ SeedInv'
    BY <1>6 DEF PrivacyArrives, StartInv, CallsInv, SeedInv, GhostMode
  <2>3. SeedOrLive'
    BY <1>6 DEF PrivacyArrives, StartInv, SeedOrLive, SessionSound
  <2>. QED BY <2>1, <2>2, <2>3 DEF StartInv
<1>7. CASE UsableModelsArrive /\ UNCHANGED overlayVars
  BY <1>7, MergeKeeps
     DEF UsableModelsArrive, Answer, StartInv, OverlayTypeOK, BootTypeOK, CallsInv, CallStates
<1>8. CASE DefaultModelArrives /\ UNCHANGED overlayVars
  BY <1>8, MergeKeeps
     DEF DefaultModelArrives, Answer, StartInv, OverlayTypeOK, BootTypeOK, CallsInv, CallStates
<1>9. CASE ParamsArrive /\ UNCHANGED overlayVars
  <2>1. CASE params = "pending"
    <3>1. at = "catalogue"
      BY <2>1 DEF StartInv, OverlayTypeOK, BootTypeOK, CallsInv
    <3>. QED BY <1>9, <2>1, <3>1, MergeKeeps
             DEF ParamsArrive, StartInv, OverlayTypeOK, BootTypeOK, CallStates
  <2>2. CASE params # "pending"
    <3>1. /\ answering' = FALSE
          /\ UNCHANGED <<at, session, failure, params, timer, signalled, backend, config,
                         probe, ghost, usable, default, overlayVars>>
      BY <1>9, <2>2 DEF ParamsArrive
    <3>2. OverlayTypeOK'
      <4>1. {signalled, backend.local, config.http1, config.split, ghost} \subseteq BOOLEAN
        BY DEF StartInv, OverlayTypeOK, BootTypeOK
      <4>2. {signalled, backend.local, config.http1, config.split, ghost, answering}'
               \subseteq BOOLEAN
        BY <3>1, <4>1
      <4>. QED BY <3>1, <4>2 DEF StartInv, OverlayTypeOK, BootTypeOK
    <3>3. CallsInv' /\ SeedInv' BY <3>1 DEF StartInv, CallsInv, SeedInv, GhostMode
    <3>4. SeedOrLive' BY <3>1 DEF StartInv, SeedOrLive, SessionSound
    <3>. QED BY <3>2, <3>3, <3>4 DEF StartInv
  <2>. QED BY <2>1, <2>2
<1>10. CASE ParamsTimeout /\ UNCHANGED overlayVars
  <2>1. at = "catalogue"
    BY <1>10 DEF ParamsTimeout, StartInv, OverlayTypeOK, BootTypeOK, CallsInv
  <2>. QED BY <1>10, <2>1, MergeKeeps
           DEF ParamsTimeout, StartInv, OverlayTypeOK, BootTypeOK
<1>11. CASE ModelsArrive
  BY <1>11 DEF ModelsArrive, Over, bootVars, StartInv, OverlayTypeOK, BootTypeOK, CallsInv,
               SeedInv, SeedOrLive, SessionSound, GhostMode
<1>12. CASE TimesOut
  BY <1>12 DEF TimesOut, Over, StartInv, OverlayTypeOK, BootTypeOK, CallsInv, SeedInv,
               SeedOrLive, SessionSound, GhostMode
<1>13. CASE UNCHANGED startVars
  BY <1>13 DEF startVars, bootVars, StartInv, OverlayTypeOK, BootTypeOK, CallsInv, SeedInv,
               SeedOrLive, SessionSound, GhostMode
<1>. QED BY <1>1, <1>2, <1>3, <1>4, <1>5, <1>6, <1>7, <1>8, <1>9, <1>10, <1>11, <1>12, <1>13
         DEF OverlayNext, Boot, Arrives

\* The start of the editor keeps its invariant.
THEOREM StartInvariance == OverlaySpec => []StartInv
<1>1. StartInv /\ [OverlayNext]_<<bootVars, overlayVars>> => StartInv' BY StartNext DEF startVars
<1>. QED BY <1>1, StartInit, PTL DEF OverlaySpec

\* The types of the bootstrap and of the overlay around it.
THEOREM StartTypeCorrect == OverlaySpec => []OverlayTypeOK
<1>1. StartInv => OverlayTypeOK BY DEF StartInv
<1>. QED BY <1>1, StartInvariance, PTL

\* The models are the seed or a whole catalogue that came in time, the client is
\* closed, and the session says what its calls have answered (catalogue.ts,
\* bootstrap.ts).
THEOREM SeedOrLiveHolds == OverlaySpec => []SeedOrLive
<1>1. StartInv => SeedOrLive BY DEF StartInv
<1>. QED BY <1>1, StartInvariance, PTL
=============================================================================
