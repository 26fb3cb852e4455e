-------------------------------- MODULE PiStream --------------------------------
(***************************************************************************)
(* The Pi provider: streamCursor (stream.ts) turns the events of a run     *)
(* into an assistant message, and ClientEpoch (auth.ts) holds the one      *)
(* client that streams and catalogue fetches share (provider.ts).          *)
(*                                                                         *)
(* A client is named by the use that made it.  The run is seen through its *)
(* iterator and its exec handler; RunTurn has what is behind them.         *)
(***************************************************************************)
EXTENDS Naturals, SequencesExt

CONSTANTS
    Uses, Secrets,
    None,           \* neither a use nor a secret
    MaxPiEvents     \* bound: of the events of each use's run

ASSUME PiAssumption == None \notin Uses \union Secrets

VARIABLES
    current,        \* #client
    fingerprint,    \* #fingerprint
    closed,         \* the clients that drop() has closed
    kind,           \* what a use is: a stream or fetchModels
    client,         \* the client it was given
    piPump,         \* the await it is at
    piAborted,      \* its caller's signal
    piGiven,        \* the events of its run
    read,           \* how many of them its loop has read
    mcpCalls,       \* the calls of advertised tools that its loop has read
    mcpSeen, cancelled,     \* the other locals of streamCursor
    content,        \* the blocks of the message, with their events
    failure,        \* the error it failed with, if it did
    end             \* the done or error events it has pushed

epochVars == <<current, fingerprint, closed>>
runVars == <<piGiven, read, mcpCalls, mcpSeen, cancelled, content>>
piVars == <<epochVars, kind, client, piPump, piAborted, runVars, failure, end>>

PiEventKinds == {"text", "thinking", "tool", "stranger"}
BlockType == [type : {"text", "thinking", "toolCall"}, events : Seq(Nat)]
Errors == {"authentication", "cancelled", "other"}
Ends == {"stop", "toolUse", "aborted", "error", "models", "empty"}

PiTypeOK ==
    /\ current \in Uses \union {None}
    /\ fingerprint \in Secrets \union {None}
    /\ closed \subseteq Uses
    /\ kind \in [Uses -> {"stream", "models"}]
    /\ client \in [Uses -> Uses \union {None}]
    /\ piPump \in [Uses -> {"idle", "opening", "reading", "over"}]
    /\ piAborted \subseteq Uses
    /\ piGiven \in [Uses -> Seq(PiEventKinds)]
    /\ read \in [Uses -> Nat] /\ \A u \in Uses : read[u] <= Len(piGiven[u])
    /\ mcpCalls \in [Uses -> Seq(Nat)]
    /\ mcpSeen \subseteq Uses /\ cancelled \subseteq Uses
    /\ content \in [Uses -> Seq(BlockType)]
    /\ failure \in [Uses -> Errors \union {"none"}]
    /\ end \in [Uses -> Seq(Ends)]

PiInit ==
    /\ current = None /\ fingerprint = None /\ closed = {}
    /\ kind \in [Uses -> {"stream", "models"}]
    /\ client = [u \in Uses |-> None]
    /\ piPump = [u \in Uses |-> "idle"]
    /\ piAborted = {}
    /\ piGiven = [u \in Uses |-> <<>>] /\ read = [u \in Uses |-> 0]
    /\ mcpCalls = [u \in Uses |-> <<>>] /\ mcpSeen = {} /\ cancelled = {}
    /\ content = [u \in Uses |-> <<>>]
    /\ failure = [u \in Uses |-> "none"]
    /\ end = [u \in Uses |-> <<>>]

-----------------------------------------------------------------------------
(* ClientEpoch.                                                            *)

Drop ==
    /\ closed' = closed \union ({current} \ {None})
    /\ current' = None /\ fingerprint' = None

\* MUTANT: the client of the previous secret is not closed.
ClientForKeeps(u, secret) ==
    IF current # None /\ fingerprint = secret
    THEN client' = [client EXCEPT ![u] = current] /\ UNCHANGED epochVars
    ELSE /\ current' = u /\ fingerprint' = secret
         /\ client' = [client EXCEPT ![u] = u]
         /\ UNCHANGED closed

\* clientFor: another secret closes the client, whoever uses it.
ClientFor(u, secret) ==
    IF current # None /\ fingerprint = secret
    THEN client' = [client EXCEPT ![u] = current] /\ UNCHANGED epochVars
    ELSE /\ closed' = closed \union ({current} \ {None})
         /\ current' = u /\ fingerprint' = secret
         /\ client' = [client EXCEPT ![u] = u]

\* MUTANT: a stall drops the client too.
DropAfterAny(error) == IF error # "cancelled" THEN Drop ELSE UNCHANGED epochVars

\* dropAfterAuthError drops the client that is current by now.
DropAfterAuthError(error) ==
    IF error = "authentication" THEN Drop ELSE UNCHANGED epochVars

-----------------------------------------------------------------------------
(* The end of a use.                                                       *)

Push(u, how, error) ==
    /\ failure' = [failure EXCEPT ![u] = error]
    /\ end' = [end EXCEPT ![u] = Append(@, how)]
    /\ piPump' = [piPump EXCEPT ![u] = "over"]

\* fail: the signal is looked at when the failure is reported.
Failed(u, error) ==
    Push(u, IF u \in piAborted \/ error = "cancelled" THEN "aborted" ELSE "error", error)

\* The catch blocks outside the loop; fetchModels swallows every error.
PiFail(u, error) ==
    /\ IF kind[u] = "models" THEN Push(u, "empty", error) ELSE Failed(u, error)
    /\ DropAfterAuthError(error)

\* finishToolUse: the calls become blocks of their own.
FinishToolUse(u) ==
    /\ content' = [content EXCEPT ![u] =
         @ \o [i \in DOMAIN mcpCalls[u] |-> [type |-> "toolCall", events |-> <<mcpCalls[u][i]>>]]]
    /\ Push(u, "toolUse", "none")
    /\ cancelled' = cancelled \union {u}

-----------------------------------------------------------------------------
(* A use up to its client's answer.                                        *)

\* Without a secret a stream fails and a catalogue is empty.
Start(u) ==
    /\ piPump[u] = "idle"
    /\ \/ /\ IF kind[u] = "models" THEN Push(u, "empty", "none") ELSE Failed(u, "other")
          /\ UNCHANGED <<epochVars, client>>
       \/ \E secret \in Secrets :
             /\ ClientFor(u, secret)
             /\ IF kind[u] = "models" /\ u \in piAborted THEN Push(u, "empty", "none")
                ELSE piPump' = [piPump EXCEPT ![u] = "opening"] /\ UNCHANGED <<failure, end>>
    /\ UNCHANGED <<kind, piAborted, runVars>>

Opened(u) ==
    /\ piPump[u] = "opening"
    /\ IF kind[u] = "models" THEN Push(u, "models", "none")
       ELSE piPump' = [piPump EXCEPT ![u] = "reading"] /\ UNCHANGED <<failure, end>>
    /\ UNCHANGED <<epochVars, kind, client, piAborted, runVars>>

\* The client's answer fails.  Not only the use's own abort cancels it: so do
\* the abort of another that shares the client's bootstrap, and the close of a
\* client that was dropped meanwhile.
OpenFails(u) ==
    /\ piPump[u] = "opening"
    /\ \E error \in Errors : PiFail(u, error)
    /\ UNCHANGED <<kind, client, piAborted, runVars>>

-----------------------------------------------------------------------------
(* The loop of a stream.                                                   *)

\* MUTANT: only the last block is looked at.
AppendToLast(blocks, type, i) ==
    IF blocks # <<>> /\ Last(blocks).type = type
    THEN [blocks EXCEPT ![Len(blocks)].events = Append(@, i)]
    ELSE Append(blocks, [type |-> type, events |-> <<i>>])

\* appendText, appendThinking: the block of that type, wherever it is.
AppendTo(blocks, type, i) ==
    LET at == SelectLastInSeq(blocks, LAMBDA b : b.type = type)
    IN  IF at = 0 THEN Append(blocks, [type |-> type, events |-> <<i>>])
        ELSE [blocks EXCEPT ![at].events = Append(@, i)]

\* The run gives an event; onExec hands a tool off before the loop reads of it.
Arrive(u) ==
    /\ piPump[u] = "reading" /\ u \notin piAborted \union cancelled
    /\ Len(piGiven[u]) < MaxPiEvents[u]
    /\ \E event \in PiEventKinds :
          /\ piGiven' = [piGiven EXCEPT ![u] = Append(@, event)]
          /\ mcpSeen' = IF event \in {"tool", "stranger"} THEN mcpSeen \union {u} ELSE mcpSeen
    /\ UNCHANGED <<epochVars, kind, client, piPump, piAborted, read, mcpCalls, cancelled, content, failure, end>>

\* The loop reads an event, and cancels the run once a tool was handed off.
PiReadEvent(u) ==
    /\ piPump[u] = "reading" /\ read[u] < Len(piGiven[u])
    /\ LET i == read[u] + 1  event == piGiven[u][i] IN
       IF u \in piAborted
       THEN Failed(u, "other") /\ cancelled' = cancelled \union {u} /\ UNCHANGED <<read, mcpCalls, content>>
       ELSE /\ read' = [read EXCEPT ![u] = i]
            /\ content' = IF event \in {"tool", "stranger"} THEN content
                          ELSE [content EXCEPT ![u] = AppendTo(@, event, i)]
            /\ mcpCalls' = IF event = "tool" THEN [mcpCalls EXCEPT ![u] = Append(@, i)] ELSE mcpCalls
            /\ cancelled' = IF u \in mcpSeen THEN cancelled \union {u} ELSE cancelled
            /\ UNCHANGED <<piPump, failure, end>>
    /\ UNCHANGED <<epochVars, kind, client, piAborted, piGiven, mcpSeen>>

\* The iterator gives its error after all events; it is cancelled by the use
\* itself, or by the close of a client that another use has dropped.
Failure(u) == piPump[u] = "reading" /\ read[u] = Len(piGiven[u])

\* The catch of the loop: calls that were read are handed over all the same.
PiRunFails(u) ==
    /\ Failure(u)
    /\ \E error \in Errors :
          IF mcpCalls[u] # <<>> /\ u \notin piAborted
          THEN FinishToolUse(u) /\ UNCHANGED epochVars
          ELSE /\ Failed(u, error) /\ DropAfterAuthError(error)
               /\ cancelled' = cancelled \union {u} /\ UNCHANGED content
    /\ UNCHANGED <<kind, client, piAborted, piGiven, read, mcpCalls, mcpSeen>>

\* turn_ended was the last event: toolUse if there were calls, else stop.
RunEnds(u) ==
    /\ piPump[u] = "reading" /\ read[u] = Len(piGiven[u]) /\ u \notin piAborted \union cancelled
    /\ IF mcpCalls[u] # <<>> THEN FinishToolUse(u)
       ELSE Push(u, "stop", "none") /\ UNCHANGED <<cancelled, content>>
    /\ UNCHANGED <<epochVars, kind, client, piAborted, piGiven, read, mcpCalls, mcpSeen>>

PiAbort(u) ==
    /\ u \notin piAborted /\ piPump[u] # "over"
    /\ piAborted' = piAborted \union {u}
    /\ UNCHANGED <<epochVars, kind, client, piPump, runVars, failure, end>>

PiNext == \E u \in Uses :
    \/ Start(u) \/ Opened(u) \/ OpenFails(u)
    \/ Arrive(u) \/ PiReadEvent(u) \/ PiRunFails(u) \/ RunEnds(u) \/ PiAbort(u)

PiSpec == PiInit /\ [][PiNext]_piVars

-----------------------------------------------------------------------------
(* Properties.                                                             *)

Events(u, event) == {i \in DOMAIN piGiven[u] : piGiven[u][i] = event}
BlocksOf(u, type) == {b \in DOMAIN content[u] : content[u][b].type = type}

\* s has the members of S, in order.
Lists(s, S) == ToSet(s) = S /\ \A i, j \in DOMAIN s : i < j => s[i] < s[j]

\* One block has all events of the type, in order, if there are any.
OneBlock(u, type) ==
    IF Events(u, type) = {} THEN BlocksOf(u, type) = {}
    ELSE \E b \in DOMAIN content[u] :
            BlocksOf(u, type) = {b} /\ Lists(content[u][b].events, Events(u, type))

\* The calls are blocks of their own, in order.
CallBlocks(u) ==
    LET blocks == BlocksOf(u, "toolCall")  events(b) == content[u][b].events
    IN  /\ {events(b) : b \in blocks} = {<<i>> : i \in Events(u, "tool")}
        /\ \A b, c \in blocks : b < c => events(b)[1] < events(c)[1]

\* A message that ends well is whole: its one text block has every text of the
\* run in order, its thinking block every thought, and every tool that was
\* answered with a hand-off is a call of the message, which then says toolUse.
\* No other end loses a call that was read, except the caller's abort.
MessageWhole == \A u \in Uses :
    /\ end[u] \in {<<"error">>, <<"aborted">>} => mcpCalls[u] = <<>> \/ u \in piAborted
    /\ end[u] \in {<<"stop">>, <<"toolUse">>} =>
        /\ OneBlock(u, "text") /\ OneBlock(u, "thinking") /\ CallBlocks(u)
        /\ end[u] = <<"toolUse">> <=> Events(u, "tool") # {}

\* Every use has at most one end, and one for good when it is over.
OneEnd == \A u \in Uses : Len(end[u]) = IF piPump[u] = "over" THEN 1 ELSE 0

\* Of all the clients that were made, only the epoch's is open (KTD6: one
\* client per auth epoch), whatever the order in which uses start and fail.
OneOpenClient ==
    /\ current \notin closed
    /\ {client[u] : u \in Uses} \subseteq closed \union {current, None}

\* A client is given up for a new secret or for an authentication error, and
\* kept through stalls, refused transports and aborts (the plan's table).
ClientKept ==
    [][current' # current /\ current # None =>
          \/ current' # None /\ fingerprint' # fingerprint
          \/ \E u \in Uses : failure[u] = "none" /\ failure'[u] = "authentication"]_piVars
=============================================================================
