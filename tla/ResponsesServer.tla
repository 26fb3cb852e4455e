---------------------------- MODULE ResponsesServer ----------------------------
(***************************************************************************)
(* The HTTP server of cursor-rpc-openai-server: how concurrent requests    *)
(* for completions and responses share the upstream pin and the store, and *)
(* what their clients are told.                                            *)
(*                                                                         *)
(* Every handler runs without interruption from one await to the next.     *)
(* What a client is told is the sequence of what the handler writes; the   *)
(* text of a delta, usage and ids are left out.  A response's id is named  *)
(* by the request that mints it.  The provider (cursor-rpc) is external:   *)
(* its promises are kept or broken at any time.  A request that reaches    *)
(* a handler has passed the inbound authorization and the body's checks.   *)
(***************************************************************************)
EXTENDS Integers, Sequences

CONSTANTS
    Requests,
    Old,            \* responses stored by an earlier process
    Continued,      \* bound: the responses that requests continue
    NoId,
    MaxDeltas,      \* bound: text deltas of one turn
    MaxChainHops    \* MAX_CHAIN_HOPS

ASSUME ServerAssumption ==
    /\ MaxDeltas \in Nat
    /\ MaxChainHops \in Nat
    /\ Requests \cap Old = {}
    /\ Continued \subseteq Requests \union Old
    /\ NoId \notin Requests \union Old

Ids == Requests \union Old

VARIABLES
    server,     \* "open", "closing" or "closed"; the store is closed last
    pin,        \* pin.error is set
    rows,       \* the table responses
    chats,      \* the table chat_completions
    ask,        \* what each request asks for
    stage,      \* the await each request is at
    history,    \* the ancestors whose transcripts the run is given
    out,        \* what was written to the client
    gone,       \* the requests whose client has disconnected
    lineage,    \* history: the ancestors every committed row was made with
    deleted     \* history: the rows and completions a client has deleted

tables == <<rows, chats>>
perRequest == <<ask, stage, history, out>>
ghosts == <<lineage, deleted>>
vars == <<server, pin, tables, perRequest, gone, ghosts>>

Routes == {"models", "chat", "response"}
Asks == [route : Routes, stream : BOOLEAN, store : BOOLEAN,
         prev : Continued \union {NoId}]

\* The await a request is at.  In "ending" the run has read the end of its
\* turn, and the handler that awaits it has not been resumed yet.
Stages == {"idle", "body", "catalogue", "opening", "turn", "ending", "done"}
Statuses == {"absent", "completed", "failed"}
Errors == {"cancelled", "unauthenticated", "refused", "unavailable", "other"}
Absent == [status |-> "absent", prev |-> NoId]

\* mapCursorError and applyMappedError: the status a failure is answered with.
StatusOf(error) ==
    CASE error = "cancelled" -> "499"
      [] error \in {"unauthenticated", "refused"} -> "502"
      [] error = "unavailable" -> "503"
      [] error = "other" -> "500"

\* The events of a response's stream, and how a failed one ends.
Opening == <<"created", "in_progress", "item_added", "part_added">>
Ending == <<"text_done", "part_done", "item_done", "completed">>
Failing == <<"failed", "error">>

\* MUTANT: the replay leaves out the end of the output item.
ReplayShort(row, after) ==
    LET events == IF row.status = "failed" THEN Failing
                  ELSE Opening \o <<"delta", "text_done", "part_done", "completed">>
    IN  SubSeq(events, after + 2, Len(events))

\* replayEvents and writeResponsesReplay: GET of a stored response with
\* stream=true gives the events numbered after starting_after, or all after -1.
Replay(row, after) ==
    LET events == IF row.status = "failed" THEN Failing
                  ELSE Opening \o <<"delta">> \o Ending
    IN  SubSeq(events, after + 2, Len(events))

Answers == {"200", "400", "404", "499", "500", "502", "503"}
Chunks == {"ok", "delta", "stop", "done", "thrown", "end"}
    \union {Opening[i] : i \in 1 .. 4} \union {Ending[i] : i \in 1 .. 4}
    \union {Failing[i] : i \in 1 .. 2}

TypeOK ==
    /\ server \in {"open", "closing", "closed"}
    /\ pin \in BOOLEAN
    /\ rows \in [Ids -> [status : Statuses, prev : Ids \union {NoId}]]
    /\ chats \subseteq Requests
    /\ ask \in [Requests -> Asks]
    /\ stage \in [Requests -> Stages]
    /\ history \in [Requests -> Seq(Ids)]
    /\ out \in [Requests -> Seq(Answers \union Chunks)]
    /\ gone \subseteq Requests
    /\ lineage \in [Ids -> Seq(Ids)]
    /\ deleted \subseteq Ids

\* What an earlier process has left: rows that continue one another, those in
\* between perhaps deleted.
Inherited(oldRows, oldLineage) ==
    /\ oldRows \in [Old -> [status : Statuses, prev : Old \union {NoId}]]
    /\ \A i \in Old : oldRows[i].status # "absent" =>
          LET before == IF oldRows[i].prev = NoId THEN <<>> ELSE oldLineage[oldRows[i].prev]
          IN  oldLineage[i] = Append(before, i)

InitWith(oldRows, oldLineage) ==
    /\ server = "open"
    /\ pin = FALSE
    /\ rows = [i \in Ids |-> IF i \in Old THEN oldRows[i] ELSE Absent]
    /\ chats = {}
    /\ ask = [r \in Requests |->
                [route |-> "models", stream |-> FALSE, store |-> FALSE, prev |-> NoId]]
    /\ stage = [r \in Requests |-> "idle"]
    /\ history = [r \in Requests |-> <<>>]
    /\ out = [r \in Requests |-> <<>>]
    /\ gone = {}
    /\ lineage = [i \in Ids |-> IF i \in Old THEN oldLineage[i] ELSE <<>>]
    /\ deleted = {}

Init ==
    \E oldRows \in [Old -> [status : Statuses, prev : Old \union {NoId}]],
       oldLineage \in [Old -> Seq(Old)] :
          Inherited(oldRows, oldLineage) /\ InitWith(oldRows, oldLineage)

-----------------------------------------------------------------------------
(* Writing to the client.                                                  *)

HeadersSent(r) == out[r] # <<>>

\* The last of a request: res.end().
End(r, written) ==
    /\ out' = [out EXCEPT ![r] = @ \o written \o <<"end">>]
    /\ stage' = [stage EXCEPT ![r] = "done"]

\* writeJson.  Node refuses headers on an answer that has begun.
Answer(r, status) == End(r, IF HeadersSent(r) THEN <<"thrown">> ELSE <<status>>)

Go(r, to) == stage' = [stage EXCEPT ![r] = to]

-----------------------------------------------------------------------------
(* The store.                                                              *)

Insert(r, status) ==
    /\ rows' = [rows EXCEPT ![r] = [status |-> status, prev |-> ask[r].prev]]
    /\ lineage' = [lineage EXCEPT ![r] = Append(history[r], r)]

\* An INSERT may fail: the database is locked, full, or closed already.
MayInsert == server # "closed"

Broken == <<NoId>>

\* MUTANT: an ancestor that is gone ends the chain.
LinkedSoFar(chain) ==
    \A i \in DOMAIN chain :
        /\ rows[chain[i]].status = "completed"
        /\ IF i = 1 THEN rows[chain[1]].prev = NoId
                          \/ rows[rows[chain[1]].prev].status = "absent"
           ELSE rows[chain[i]].prev = chain[i - 1]

\* A chain of completed rows, the oldest first, each continuing the one before.
Linked(chain) ==
    \A i \in DOMAIN chain :
        /\ rows[chain[i]].status = "completed"
        /\ rows[chain[i]].prev = IF i = 1 THEN NoId ELSE chain[i - 1]

\* loadAncestorChain: the whole chain that ends in id, or an error.  A repeated
\* id would use up the hops, so it needs no case of its own.
Ancestors(id) ==
    LET chains == {chain \in UNION {[1 .. n -> Ids] : n \in 1 .. MaxChainHops} :
                      chain[Len(chain)] = id /\ Linked(chain)}
    IN  IF id = NoId THEN <<>>
        ELSE IF chains = {} THEN Broken ELSE CHOOSE chain \in chains : TRUE

\* The requests that only read: GET of a response, and POST to its cancel.
GetAnswer(id) == IF rows[id].status = "absent" THEN "404" ELSE "200"
CancelAnswer(id) == IF rows[id].status = "absent" THEN "404" ELSE "400"

-----------------------------------------------------------------------------
(* A request up to its run.                                                *)

\* route: what needs the upstream is refused while it is pinned.  GET, cancel
\* and compact change nothing and are not actions; deletions are Delete below.
Arrive(r) ==
    /\ server # "closed" /\ stage[r] = "idle"
    /\ \E asked \in Asks :
          /\ asked.route # "response" => asked.prev = NoId
          /\ asked.route = "models" => ~asked.stream /\ ~asked.store
          /\ asked.prev # r
          /\ ask' = [ask EXCEPT ![r] = asked]
          /\ IF pin THEN Answer(r, "502")
             ELSE Go(r, IF asked.route = "models" THEN "catalogue" ELSE "body")
                  /\ UNCHANGED out
    /\ UNCHANGED <<server, pin, tables, history, gone, ghosts>>

\* MUTANT: the pin is not looked at again once the body has been read.
BodyIgnoringPin(r) ==
    /\ stage[r] = "body"
    /\ \/ Answer(r, "400")
       \/ Go(r, "catalogue") /\ UNCHANGED out
    /\ UNCHANGED <<server, pin, tables, ask, history, gone, ghosts>>

\* readJson, runPinned and the parsing of the request: the body was awaited.
Body(r) ==
    /\ stage[r] = "body"
    /\ \/ Answer(r, "400")
       \/ pin /\ Answer(r, "502")
       \/ ~pin /\ Go(r, "catalogue") /\ UNCHANGED out
    /\ UNCHANGED <<server, pin, tables, ask, history, gone, ghosts>>

\* A failure that runPinned maps, outside of a stream.
FailPlain(r, error) ==
    /\ pin' = (pin \/ error = "unauthenticated")
    /\ Answer(r, StatusOf(error))
    /\ UNCHANGED <<tables, lineage>>

\* provider.models() answers: the model is resolved, the chain read, the input
\* mapped, and the run opened.
Catalogue(r) ==
    /\ stage[r] = "catalogue"
    /\ \/ \E error \in Errors : FailPlain(r, error) /\ UNCHANGED history
       \/ /\ \E status \in IF ask[r].route = "models" THEN {"200", "404"} ELSE {"404"} :
                Answer(r, status)
          /\ UNCHANGED <<pin, tables, history, lineage>>
       \/ /\ ask[r].route # "models"
          /\ LET chain == Ancestors(ask[r].prev) IN
             \/ /\ server = "closed" /\ ask[r].prev # NoId
                /\ Answer(r, "500") /\ UNCHANGED history
             \/ /\ server # "closed" \/ ask[r].prev = NoId
                /\ \/ chain = Broken /\ Answer(r, "400") /\ UNCHANGED history
                   \/ /\ chain # Broken
                      /\ history' = [history EXCEPT ![r] = chain]
                      /\ \/ Answer(r, "400")
                         \/ Go(r, "opening") /\ UNCHANGED out
          /\ UNCHANGED <<pin, tables, lineage>>
    /\ UNCHANGED <<server, ask, gone, deleted>>

-----------------------------------------------------------------------------
(* The run.                                                                *)

\* The failed row of a streamed response; that its INSERT fails is ignored.
PersistFailed(r) ==
    \/ UNCHANGED <<rows, lineage>>
    \/ ask[r].store /\ MayInsert /\ Insert(r, "failed")

\* MUTANT: the error is thrown on, whether or not the stream has begun.
FailStreamThrown(r, error) ==
    /\ pin' = (pin \/ error = "unauthenticated")
    /\ IF error = "cancelled"
       THEN End(r, <<>>) /\ UNCHANGED <<rows, lineage>>
       ELSE /\ IF ask[r].route = "response" THEN PersistFailed(r)
               ELSE UNCHANGED <<rows, lineage>>
            /\ Answer(r, StatusOf(error))
    /\ UNCHANGED chats

\* settleStreamError of a completion, settleCreateStreamError of a response.
FailStream(r, error) ==
    /\ pin' = (pin \/ error = "unauthenticated")
    /\ IF error = "cancelled"
       THEN End(r, <<>>) /\ UNCHANGED <<rows, lineage>>
       ELSE /\ IF ask[r].route = "response" THEN PersistFailed(r)
               ELSE UNCHANGED <<rows, lineage>>
            /\ IF ~HeadersSent(r) THEN Answer(r, StatusOf(error))
               ELSE End(r, IF ask[r].route = "response" THEN Failing ELSE <<"error">>)
    /\ UNCHANGED chats

Fail(r, error) ==
    IF ask[r].stream THEN FailStream(r, error) ELSE FailPlain(r, error)

\* provider.run() answers: a stream begins at once.
Opened(r) ==
    /\ stage[r] = "opening"
    /\ Go(r, "turn")
    /\ out' = [out EXCEPT ![r] =
                 IF ~ask[r].stream THEN <<>>
                 ELSE IF ask[r].route = "chat" THEN <<"ok">> ELSE Opening]
    /\ UNCHANGED <<server, pin, tables, ask, history, gone, ghosts>>

Deltas(r) == Len(SelectSeq(out[r], LAMBDA chunk : chunk = "delta"))

Delta(r) ==
    /\ stage[r] \in {"turn", "ending"} /\ ask[r].stream /\ Deltas(r) < MaxDeltas
    /\ out' = [out EXCEPT ![r] = Append(@, "delta")]
    /\ UNCHANGED <<server, pin, tables, ask, stage, history, gone, ghosts>>

\* The run reads the end of its turn.  A disconnect aborts the run, and an
\* aborted run reads no end; one that comes later finds the turn over.
TurnOver(r) ==
    /\ stage[r] = "turn" /\ r \notin gone
    /\ Go(r, "ending")
    /\ UNCHANGED <<server, pin, tables, ask, history, out, gone, ghosts>>

\* run(), wait() or the iterator throws.  The run of a client that has
\* disconnected is aborted, but it may also fail of itself at that moment, and
\* a turn that is over may still stall before the handler has all of it.
RunFails(r) ==
    /\ stage[r] \in {"opening", "turn", "ending"}
    /\ \E error \in Errors : Fail(r, error)
    /\ UNCHANGED <<server, ask, history, gone, deleted>>

\* A completion ends: a stream writes its stop chunk (and the role, if nothing
\* else carried it), the row is inserted, and only then is [DONE] written.
ChatEnds(r) ==
    LET role == IF Deltas(r) = 0 THEN <<"delta">> ELSE <<>>
        stop == IF ask[r].stream THEN role \o <<"stop">> ELSE <<>>
        told == IF ask[r].stream THEN <<"done">> ELSE <<"200">>
    IN
    /\ UNCHANGED <<pin, rows, lineage>>
    /\ \/ ~ask[r].store /\ End(r, stop \o told) /\ UNCHANGED chats
       \/ /\ ask[r].store /\ MayInsert
          /\ chats' = chats \union {r}
          /\ End(r, stop \o told)
       \/ /\ ask[r].store
          /\ IF ask[r].stream THEN End(r, stop \o <<"error">>) ELSE Answer(r, "500")
          /\ UNCHANGED chats

\* MUTANT: whatever the store says, the client is told of the completion.
ResponseEndsAnyway(r) ==
    LET told == IF ask[r].stream THEN Ending ELSE <<"200">> IN
    /\ UNCHANGED <<pin, chats>>
    /\ \/ End(r, told) /\ UNCHANGED <<rows, lineage>>
       \/ ask[r].store /\ MayInsert /\ Insert(r, "completed") /\ End(r, told)

\* A response ends: the row is inserted before the client is told.
ResponseEnds(r) ==
    LET told == IF ask[r].stream THEN Ending ELSE <<"200">> IN
    \/ /\ ~ask[r].store
       /\ End(r, told) /\ UNCHANGED <<pin, tables, lineage>>
    \/ /\ ask[r].store /\ MayInsert
       /\ Insert(r, "completed")
       /\ End(r, told) /\ UNCHANGED <<pin, chats>>
    \/ ask[r].store /\ Fail(r, "other")

\* Nothing is stored or written for a client that is gone.
Unheard(r) ==
    /\ Go(r, "done")
    /\ UNCHANGED <<pin, tables, out, lineage>>

\* The handler of a turn that is over is resumed.  Only what answers with JSON
\* looks at the abort before it stores and writes; a stream does both.
TurnEnds(r) ==
    /\ stage[r] = "ending"
    /\ IF r \in gone /\ ~ask[r].stream THEN Unheard(r)
       ELSE IF ask[r].route = "chat" THEN ChatEnds(r) ELSE ResponseEnds(r)
    /\ UNCHANGED <<server, ask, history, gone, deleted>>

-----------------------------------------------------------------------------
(* Clients and the process.                                                *)

Disconnect(r) ==
    /\ stage[r] \notin {"idle", "done"} /\ r \notin gone
    /\ gone' = gone \union {r}
    /\ UNCHANGED <<server, pin, tables, perRequest, ghosts>>

\* The body of a client that is gone: reading it throws, which is answered 500.
BodyLost(r) ==
    /\ stage[r] = "body" /\ r \in gone
    /\ Answer(r, "500")
    /\ UNCHANGED <<server, pin, tables, ask, history, gone, ghosts>>

\* DELETE of a response or of a stored completion, by whoever knows the id.
Delete(i) ==
    /\ server # "closed"
    /\ \/ /\ rows[i].status # "absent"
          /\ rows' = [rows EXCEPT ![i] = Absent] /\ UNCHANGED chats
       \/ i \in chats /\ chats' = chats \ {i} /\ UNCHANGED rows
    /\ deleted' = deleted \union {i}
    /\ UNCHANGED <<server, pin, perRequest, gone, lineage>>

Close ==
    /\ server = "open" /\ server' = "closing"
    /\ UNCHANGED <<pin, tables, perRequest, gone, ghosts>>

\* closeServer ends with the last connection; then the store is closed.
Closed ==
    /\ server = "closing"
    /\ \A r \in Requests : stage[r] \in {"idle", "done"} \/ r \in gone
    /\ server' = "closed"
    /\ UNCHANGED <<pin, tables, perRequest, gone, ghosts>>

Next ==
    \/ \E r \in Requests :
          \/ Arrive(r) \/ Body(r) \/ BodyLost(r)
          \/ Catalogue(r) \/ Opened(r) \/ RunFails(r)
          \/ Delta(r) \/ TurnOver(r) \/ TurnEnds(r) \/ Disconnect(r)
    \/ \E i \in Ids : Delete(i)
    \/ Close \/ Closed

Spec == Init /\ [][Next]_vars

-----------------------------------------------------------------------------
(* Properties.                                                             *)

Written(r, chunk) == \E i \in 1 .. Len(out[r]) : out[r][i] = chunk
Told(r) == Written(r, IF ask[r].stream
                      THEN IF ask[r].route = "chat" THEN "done" ELSE "completed"
                      ELSE "200")

\* What a request writes to its client and what it stores agree: a completion
\* or response that was to be stored and that was written as complete is in its
\* table until somebody deletes it, and one that was not is never there as
\* completed.  A stream whose client leaves once its turn is over is written and
\* stored all the same; what answers with JSON stores nothing for a client that
\* is gone.  Until its handler ends nobody can see, continue or cancel a
\* response.
ToldIffStored ==
    \A r \in Requests :
        IF stage[r] # "done"
        THEN /\ GetAnswer(r) = "404" /\ CancelAnswer(r) = "404"
             /\ Ancestors(r) = Broken /\ r \notin chats
        ELSE LET stored == r \in chats \/ rows[r].status = "completed" IN
             /\ IF ask[r].route # "models" /\ Told(r) /\ ask[r].store
                THEN stored \/ r \in deleted ELSE ~stored
             /\ stored /\ r \in gone => ask[r].stream

\* The plan of the responses API (KTD6) says that nothing is committed for a
\* client that aborts: no completed row is ever that of a client that left
\* before it was written.  The code's streams do commit it: a run of its own
\* refutes this.
NoCommitOnAbort ==
    \A r \in Requests : r \in gone => rows[r].status # "completed"

\* The run that continues a response is given its whole conversation: however
\* rows were deleted meanwhile, the history is the lineage the earlier
\* response was made with, and never a part of it.
HistoryComplete ==
    \A r \in Requests :
        stage[r] \in {"opening", "turn", "ending"} /\ ask[r].prev # NoId =>
            history[r] = lineage[ask[r].prev]

\* The awaits of a request that is being served by the upstream.
Upstream == {"catalogue", "opening", "turn", "ending"}

\* Once a credential was refused the pin is kept, and it is final for every
\* request that has not reached the upstream yet: one that arrives and one that
\* had passed the first look at the pin and was reading its body are answered,
\* and none begins anything upstream.  A request that the pin finds at the
\* upstream goes on: nothing in the server looks at the pin between the models
\* and the run.
PinHolds ==
    [][pin => /\ pin'
              /\ \A r \in Requests :
                    stage[r] \notin Upstream => stage'[r] \in {stage[r], "done"}]_vars

\* A stream with n deltas, and its end.
Streamed(before, n, last) == before \o [i \in 1 .. n |-> "delta"] \o last \o <<"end">>

\* A client gets one answer: a JSON answer alone, or a stream that is its
\* opening, its deltas and one terminal event, or is cut off by a cancel.
\* Only a client that is gone may get none, and never from a stream.  No
\* handler throws where nobody catches.
OneAnswer ==
    \A r \in Requests : stage[r] = "done" =>
        \/ \E status \in Answers : out[r] = <<status, "end">>
        \/ out[r] = <<"end">>
        \/ out[r] = <<>> /\ r \in gone /\ ~ask[r].stream
        \/ /\ ask[r].stream
           /\ \E n \in 0 .. Len(out[r]) :
                 \/ /\ ask[r].route = "response"
                    /\ \E last \in {Ending, Failing, <<>>} :
                          out[r] = Streamed(Opening, n, last)
                 \/ /\ ask[r].route = "chat"
                    /\ \E last \in {<<"stop", "done">>, <<"stop", "error">>, <<"error">>, <<>>} :
                          out[r] = Streamed(<<"ok">>, n, last)

\* A response stored as completed replays as the events its stream was written
\* with, the deltas merged into one; one stored as failed replays as the two
\* that ended its stream, without what came before.  The two lists of events
\* are written out separately in the code.
ReplayAgrees ==
    \A r \in Requests :
        /\ rows[r].status # "absent" /\ stage[r] = "done"
        /\ ask[r].stream /\ Len(out[r]) > 2
        => \E n \in 0 .. Len(out[r]), last \in {Ending, Failing} :
              /\ out[r] = Streamed(Opening, n, last)
              /\ Replay(rows[r], -1) = IF rows[r].status = "completed"
                                        THEN Opening \o <<"delta">> \o last ELSE last
=============================================================================
