# A verification development for cursor-rpc

This directory holds TLA+ models of [cursor-rpc](../src/README.md), the TLC
configurations that check them on small instances, and proofs of their main
properties for every instance. The reference is the source under `src/`;
documents are quoted only where they disagree with it.

## 1. The system

cursor-rpc is a TypeScript client library for Cursor's agent protocol with four
packages on top of it. Everything runs on the JavaScript event loop: there are
no threads, but every `await` is a point where other code may run, and most of
the logic is about what may have happened there.

| Component | State it keeps | Operations | Talks to |
|---|---|---|---|
| `run/queue.ts` AsyncQueue | items, parked waiters, closed and its error | push, close, iterate | a turn's events and its outbound messages |
| `run/run.ts`, `dispatch.ts`, `heartbeat.ts`: the turn | collected events, in-flight execs, pending exec promises, two timers, its AbortController | the read loop, exec and interaction handlers, wait, abort, iterate | inbound stream, `send`, caller's handlers |
| `client.ts` run handle | outbound queue, runAbort | run, wait, abort, iterate | the turn, the RPC |
| `client.ts` session | bearer, session and its shared promise, origins | models, run, close | AuthSession, bootstrap, origins |
| `auth/session.ts` AuthSession | store, pinned, ephemeral token | accessToken, handleAuthFailure | credential store, token exchange |
| `auth/login.ts` | attempt and failure counters | pollLogin | auth service |
| `transport/codec.ts` | codec memory of an origin, replay source of a stream | unary, stream | the JSON and the binary transport |
| `session/bootstrap.ts`, `models.ts` | none that outlives the call; a timeout | bootstrap, withTimeout | five unary RPCs |
| `web/client.ts` WebClient | token and model flights, pinned, closed | search, fetch, close | AuthSession, an origin |
| openai-server | response store (SQLite), upstream pin | create, stream, get, delete, list | the client, HTTP connections |
| opencode | open text and reasoning blocks of a stream | doStream, doGenerate, catalogue | the client's run handle |
| pi | client epoch, message under construction | streamCursor, login, models | the client's run handle |
| pi-tools | none | web_search, web_fetch | WebClient |

What is hard, and what makes each part correct:

* **Queue.** A reader parks while a value is being pushed or the queue closed;
  an end or an error must not overtake values. Correct: FIFO, no lost wake-up,
  end only after everything was taken.
* **Turn.** The read loop, exec handlers it does not wait for, a stall timeout,
  the backend's own aborts, the caller's signal, `abort()` and a consumer that
  may leave, in any order. Correct: `wait()` and the iterator agree, every exec
  is answered before the turn settles, no timer survives, an abort takes effect.
* **Client handle.** Three parties may give a run up. Correct: none of them
  cuts off a live turn or cancels a finished one, and the RPC is released.
* **Codec fallback.** Calls share a memory that changes under them, two
  attempts share one source. Correct: refused calls are repeated in binary, in
  order, without loss or duplicates.
* **Auth and session.** An exchange may be in flight when an authentication
  failure pins the client; one caller's bootstrap serves others. Correct:
  nothing is exchanged for a pinned client, at most one bootstrap at a time.
* **Login.** Polls fail, answer late, and race the caller's abort. Correct: given
  up after three failures in a row and for nothing less; an abort ends it.
* **Bootstrap and catalogue overlay.** Timers race answers. Correct: a session is
  made of answers that came in time, a start-up always ends, no client leaks.
* **WebClient.** Several calls wait for one flight, each with its own signal, on a
  client that may be closed or pinned meanwhile. Correct: one flight at a time,
  nothing sent for a call that is gone, one call's abort does not reach another.
* **OpenAI server.** Clients disconnect in the middle of a stream, a row is
  written after events that name it, ancestors are deleted meanwhile. Correct: a
  row says what the client was told; pages neither skip nor repeat.
* **Conversations.** Four mappings turn a host's messages into a prompt and a
  history. Correct: nothing is lost, repeated, reordered or given to the wrong side.
* **OpenCode and Pi.** A tool call ends the model's message while the exec that
  carries it is unanswered. Correct: blocks are opened and closed properly, one
  finish per stream; a stale stream does not disturb a newer client.

`PROJECT.json` lists the components, and the hazards at their lines with the
properties that cover them.

## 2. The modules

| Module | What it is | Code |
|---|---|---|
| `FifoChannel` | abstract specification: a FIFO channel with an end | what both sides of a queue rely on |
| `TurnPromise` | abstract specification: what a turn promises the backend, the caller and the consumer | `run/run.ts` `runTurn`, as its users see it |
| `AsyncQueue` | the queue, with any number of readers | `run/queue.ts` |
| `RunTurn` | one turn | `run/run.ts`, `run/dispatch.ts`, `run/heartbeat.ts` |
| `ClientRun` | the turn inside the client's handle; extends `RunTurn` | `client.ts` `run`, `attachOutbound` |
| `CodecFallback` | the transport of one origin | `transport/codec.ts` |
| `ClientAuth` | the calls of one client on their way to a token and a session | `auth/session.ts`, `auth/api-key.ts`, `credentials.ts`, `client.ts` |
| `WebClient` | fetches and searches that share a bearer and two flights | `web/client.ts`, `abort.ts` |
| `Login` | the poll for a browser login's tokens | `auth/login.ts`, `client.ts` `login` |
| `Bootstrap` | the calls that make a session, and `withTimeout` | `session/*.ts` |
| `Overlay` | OpenCode's catalogue at start-up; extends `Bootstrap` | opencode `catalogue.ts` |
| `ResponsesServer` | concurrent requests of the OpenAI server over the pin and the store | `server.ts`, `errors.ts`, `completions.ts`, `responses.ts`, `response-store.ts`, `sse.ts` |
| `ChatPages` | a client walks through the stored completions while they change | `stored-completions.ts`, `response-store.ts` |
| `Conversation` | messages to prompt and history, in four hosts | `messages.ts`, `responses-input.ts`, both hosts' prompts, `run/history.ts`, `run/transcript.ts` |
| `OpenCodeStream` | one generate: the pump, the ReadableStream, its reader | opencode `stream.ts` |
| `PiStream` | several streams and fetches that share a client epoch | pi `stream.ts`, `auth.ts`, `provider.ts`, `models.ts` |
| `MC...` | instances for TLC | |
| `AsyncQueue_proofs`, `ClientRun_proofs`, `CodecFallback_proofs`, `ClientAuth_proofs`, `Services_proofs`, `ResponsesServer_proofs`, `Requests_proofs`, `Providers_proofs` | theorems (section 4) | |

Of the compositions, `ClientRun` is the turn with its client, `Overlay` the
bootstrap with the plugin that starts it. `MCServices`, `MCProviders` and
`MCRequests` each hold machines that answer one kind of question and share no
state: one of the machines runs (`service`, `host`, `part` say which, chosen in
the initial state) and the others stay where they start. The states of such an
instance are those of its machines side by side, not their product.

### How the state and the actions correspond to the code

An action is what JavaScript runs between two awaits of one function. State
that only the language has (a parked promise, a resolved promise whose
continuation has not run) is explicit: `reader` in AsyncQueue, `pc` and
`replying` in RunTurn, `asking` in CodecFallback, `got` in WebClient, `caught` and
`asked` in OpenCodeStream.

**AsyncQueue.** `items`, `waiters`, `closed` and `error` are the private fields.
`reader` says where each generator stands: a promise that push or close has
resolved leaves it `handed` or `woken` until `Resume`. `pushed` and `taken` are
history. `MaxPush` bounds the values that are accepted.

**RunTurn.** `pc` is the read loop: *opening* awaits the first send, *reading*
awaits the next frame or an abort, *interacting* awaits the interaction handler,
*draining* awaits `Promise.all(pendingExecs)` after `turn_ended`, *settling*
awaits `Promise.allSettled` in the finally block. `outcome` is how `wait()`
settles; `events` and `eventsEnd` are the event queue, `seen` and `iter` its
consumer. `exec` is the state of each exec and later its answer, `replying` the
answers decided and not yet sent. `inFlight` is the map of run.ts:178; `flight`
is the AbortController an exec works under, named after the exec whose message
made it, because execs under one id share it. `Conclude` is `finish` and `fail`
followed by the finally block: if all execs are answered, no other code runs
before the listener is removed, so it is one step.
`Promise` maps this to `TurnPromise`: the turn is *stalled* if the stall closed its
events, and an exec's answer is *asked* for while the exec is handled, *answered*
while it is in `replying`, then *sent*; aborts, timers, ids and the table of flights
have no counterpart. An abort stutters; what follows from it is a step that the
promise allows anyway. A stall after `turn_ended` shows in the iterator alone, and
so does the promise's `stalled`.

**ClientRun.** It adds the outbound queue (`outbound`), what it accepted
(`wired`), and whether the caller called `wait()` or gave the run up. Its
actions are those of the turn with `Forward` for each send, and the clean-up of
`attachOutbound`. `GiveUp` aborts runAbort, of which the turn hears only while it
listens.

**CodecFallback.** `memory` is the CodecMemory, `takesJson` what the origin
accepts. For a stream, `given`, `closed` and `consumed` are its input, `recorded`
and `sourceDone` the replay source, `asking` the pulls outstanding there, in
order. How far the JSON transport reads ahead before its 415 arrives is left
open, as connect-node is not part of the repository.

**ClientAuth.** `config` is what was configured; `store`, `pinned`, `ephemeral`
(AuthSession), `bearer`, `session` and `flight` (the client) are shared by the
calls. `phase` is where each call awaits: *loaded* the store's load, *merged* the
save, *exchanging* the exchange, *token* the return of `accessToken`, *waiting*
the session promise; *failing* is the way to the catch block of `models()` and
`run()`. `read` and `token` are the locals a call keeps over its awaits: this is
where it acts on what another call has changed. `booting` names the bootstrap
by the call that made it and whose signal it runs under, so an abort of that
call is one reason of `BootFails`. A token is fresh until it `Expire`s. The
store is that of `credentials.ts`; `StoreChanges` is a login or another client
that shares it. `MaxExchanges` bounds the tokens issued. `late` is history.

**WebClient.** `bearer`, `pinned`, `closed`, `tokenFlight`, `modelFlight` are the
fields; a flight is named by the call that started it. `stage` is the await of
each call, `waits` and `got` the flight it awaits there and what it was told:
between `Tell` and the call's next step other code runs, which is why `Send` looks
at everything again. `lookup` is where a model flight is (the default model, then
the usable ones), `cut` the history of the lookups whose own RPC was cancelled. An RPC ends
cancelled by its signals, by `close()`, which aborts the connection under it
(`connect.ts:94`), or by the backend; so calls that nobody aborted may end cancelled, and
those that wait for a lookup with them. `AbortIsPrivate` says that nothing else does:
another caller's abort ends its wait and not the flight. `NothingSentAfter` exempts the
second RPC of a lookup under way, before which only the client's signal is looked
at (`web/client.ts:191`). The exchange inside `accessToken` is `ClientAuth`'s; here it
answers or fails.

**Login.** `poll` is the await of the loop, `failures` is consecutiveFailures,
`heard` the history of the polls. `MaxAttempts` stands for 150 and `FailureBudget`
is 3. An answer may have come just before an abort, so every outcome of a fetch is
possible after it.

**Bootstrap, Overlay.** `at` is the await of `bootstrap`; the three catalogue calls
run in parallel, each with its own variable. `timer` and `answering` are the race in
`withTimeout`: the answer that comes after the timer is dropped. `Overlay` adds the
client it makes, its own timer around the whole, and the models it ends up with.

**ResponsesServer.** `stage` is the await of each request: *body*, *catalogue* (the
models), *opening* (`run()`), *turn*, *ending*. `TurnOver` is where the run reads the end of
its turn, `TurnEnds` where the handler that awaits it is resumed: a client may disconnect in
between. A disconnect before `TurnOver` aborts the run, which then fails; one after it is seen
by the handlers that answer with JSON, which store and write nothing (`Unheard`), and by
no stream, which inserts its row and writes on. `out` is the sequence of what was written to
the client, so that a second status line or an event after the last is visible.
`rows` and `chats` are the two tables, `pin` the upstream pin. `gone` are the clients
that disconnected before their request was over. An insert may fail at any time; the store is closed after the
last connection. `Ancestors` gives the chain of completed rows, each `Linked` to the
one before, that ends in the response a request continues; the rows that an earlier
process has left are there from the start (`Inherited`). `lineage` and `deleted` are history.

**ChatPages.** `rows` is the table, `walk`, `query` and `after` a client that follows
`has_more`, `seen` the ids it was given, `steady` the ids that were there all the
while. `Found` is the WHERE of the statement, `IsPage` its ORDER BY and the slice: a
page is the first of the rows found, in order.

**Conversation.** A message is a role and parts, a part is named by a *mark* in the
order of the conversation. Each host's mapping is an operator over the messages;
`HistoryFaithful` compares what they give with the conversation. A filter of the code is
`Only`, a `join` or `push(...)` a `FlattenSeq`, so that no definition is recursive.
Files, and tool results in an assistant's message, are not among the parts (`Shapes`):
OpenCode's mapping skips both with a warning (`prompt.ts:77`, `112`), and what is
skipped there is not compared.

**OpenCodeStream, PiStream.** The run is seen through its iterator: any event, an
end, an error. `queue` is what the stream's controller holds and `seen` what the
reader has; `open` and `seqs` are the open block and the counters of ids. In
PiStream a client is named by the use that made it; `content` is the message, each
block with the events it came from. A use's client or run may answer "cancelled"
without an abort of its own: another use has dropped the client, or has aborted the
bootstrap they share. A block is closed only when one is open, so what
closes it may emit nothing.

### What is assumed

* The client's `send` is `AsyncQueue.push`: synchronous, and it never throws.
* The turn's event queue is used through what `AsyncQueue` is shown to
  implement, with one consumer per handle.
* A timer fires only when no promise continuation is due (`ResumptionDue`):
  Node drains microtasks before timers.
* At most one frame is waiting (`arrived`): more are in the transport's buffers,
  and the loop reads one at a time.
* Heartbeats, kv replies and interaction replies are sent without being
  tracked; messages are abstracted to their kind.
* In `ClientAuth` a bootstrap is one step that succeeds or fails; `Bootstrap` has its
  inside.
* The reason of the caller's signal is not a `StreamError`.
* SQLite statements are atomic and synchronous, and ids are never minted twice.
* What connect-node, `fetch`, the HTTP server, ReadableStream and the editors do is
  modelled from how `src/` uses it.

## 3. What TLC checks

Deadlock is not checked: a settled turn, a finished reader, a failed call and a
server that is closed do stop.

| Run | Question | Instance | States |
|---|---|---|---|
| `queue` | wake-ups, the close reaches readers, refinement of `FifoChannel` | 2 readers, 2 values, 3 pushes | 1,918 |
| `turn` | safety of a turn, refinement of `TurnPromise` | 2 execs, 2 ids, 3 frames | 1,946,800 |
| `client` | safety and release of the client's handle, liveness of the turn it runs | 2 execs, 1 id, 2 frames | 368,394 |
| `auth` | pinning, exchanges, every call ends | 2 calls, 2 exchanges, every configuration | 265,500 |
| `codec` | fallback, replay | 2 calls, 2 streams, 2 messages each; symmetric | 1,922,682 |
| `server` | what clients are told against what is stored, the pin, the ancestor chain | 2 requests, a stored chain of 2; symmetric | 2,187,560 |
| `services` | one flight, private aborts, the verdict of a login, the overlay; nothing hangs | 2 web calls; 5 polls | 54,701 |
| `providers` | well-formed and faithful parts, whole messages, one open client | 4 events; 2 uses, 2 secrets | 861,243 |
| `requests` | complete walks, faithful histories | 3 rows; 5 messages | 1,036,837 |
| `codec_replay` | violated: everything read before the 415 is replayed | 1 stream | |
| `codec_retry` | violated: every refused call is repeated | 2 calls | |
| `server_abort` | violated: nothing is committed for a client that aborts | as `server` | |

**Why the bounds are enough.** `MaxFrames`, `MaxPush`, `MaxSent`, `MaxExchanges`,
`MaxDeltas`, `MaxEvents`, `MaxMessages`, `MaxChanges`, `MaxTime` and the sets bound
counters in guards; all other state is finite.
Two readers and three values let one reader be
handed a value while another parks and the queue closes over the rest. Two execs
may share an id or not, and with three frames one can be read, aborted by the
backend, and followed by `turn_ended` while its handler runs; a third exec
would stand to the others as these two do. Two frames are what an exec and an
end need. Two calls and two streams are what it takes to change a memory or a
flight under each other; with two messages one can be recorded and one be taken by
the outstanding pull; two exchanges let one expire and be replaced.
In `server` two requests can fail, pin, disconnect or be deleted around each other,
and one of them may continue the other or the stored chain; `MaxChainHops` = 2
stands for 100, so that the chain `o1`, `o2` is as long as allowed and one more is too
long; one delta is enough to have a stream begin with or without text. In
`services` five polls hold a full budget of three, a reset and a retry; the
number itself does not matter, as `LoginVerdictHolds` proves. Four events of
an OpenCode run make a block open, change, close and be interrupted by a tool; three
and one of a Pi run interleave a text, a thought and a call with a second use of the
client. Three rows with times 1 and 2 hold equal times, either order, and a cursor
that is deleted between pages of one (`DefaultLimit` 1, `MaxLimit` 2). Five messages
hold a system message, an exchange with a call and its result, and an ending of either
side.

**Type invariants.** Each module has its `TypeOK`. They are not among the runs'
properties: they are proved. TLC has checked every inductive invariant of section 4 on the
instance of its run before it was proved.

**Fairness.** `ClientFairness` of `ClientRun` is weak fairness for what the runtime does
by itself: a resolved promise resumes its function (`Open`, `ReadFrame`, `Wake`,
`Drained`, `Settle`, `ExecWakes`, `ExecSends`), an armed timer fires
(`StallFires`), and a consumer in a for-await loop comes back for the next value
(`Consume`, `IterationEnds`), and a finished generator or a settled `wait()`
runs its finally block. Nothing is assumed of the backend or of the
handlers: `HandlersReturn` is a premise of `WaitSettles` only. The liveness of the
turn is checked in the client's handle, where more can happen to it than alone. In `AsyncQueue` a consumer keeps reading and resolved
promises resume.
In `ClientAuth`, `Bootstrap` and `WebClient` an RPC ends because `unaryCall` has a
timeout of 30 s (clients that the caller supplies in its place are taken to be as
good). The exchange of ClientAuth has no timeout: that it answers is a premise of
`CallsFinish`; in WebClient, that a flight ends is fairness. A login's fetch has none
either: only an aborted one ends. The overlay's timer fires. OpenCode's pump and its
reader go on by themselves. Nothing is assumed of the server's clients, of Pi's run,
or of a client that walks pages, and nothing live is claimed of them.

## 4. What is proved

The theorems hold for every value of the constants, under the named assumption of
each module: what stands for nothing (`NoCall`, `None`, `NoId`, the id 0) is outside the set it
stands beside, and bounds are natural numbers. Every invariant that a run checks
is proved; so are its action properties and the
refinements.

**AsyncQueue_proofs.** `Invariance` proves `IInv`, the conjunction of the type
invariant, `Fifo`, `NoLostWakeup` and `EndAfterDrain`. They are inductive only
together: that a push to a waiter keeps the order, for one, needs that there is a
waiter only while nothing is queued. `Refinement` proves that each step of the
queue is a step of `FifoChannel` or leaves it unchanged.

**ClientRun_proofs, the turn.** `Invariance` proves `IInv`: the types, the checked
invariants, and what ties the loop to its parts. `LoopInv`: the turn is decided
exactly while *settling* and *settled*, and what is settled is answered.
`OpeningInv`: before the loop is entered nothing is queued and nothing runs.
`ClosedInv`: only the stall closes the events of an undecided turn, and it leaves
the turn aborted; without it `IteratorAgrees` is not inductive. `EntryInv`: an
exec that is being handled has an id and an entry, and while no other exec has
its id, that entry is the one in the table; this is what makes the backend's
abort reach the exec it names, hence `RevokedExecsAborted`. Each action has a
step of its own, and under it one per conjunct it can disturb.
`AbortedTurnIsQuietHolds` is the action property.

**ClientRun_proofs, the handle.** Every step of the handle is a step of the turn or one
that changes the abort and the caller's state alone, so `IInv` carries over
(`ClientTurnSafe`). `HandleInv` adds when a turn may have been cancelled without
anybody asking (`CancelInv`: it failed, stalled, or must fail), that a finished
iteration has aborted the turn (`IterInv`), that a result is settled and not
listened to any more (`ResultSettled`), and the checked properties;
`NoAnswerLostHolds`, `OutboundOutlivesTurnHolds` and `CleanTurnNotCancelledHolds`
follow from it.

**ClientRun_proofs, the promise.** `TurnKeepsPromise` shows that the turn implements
`TurnPromise`. The mapping needs `OutcomeInv` on top of `IInv` and `IterInv`: events
that something other than the stall closed were closed with the outcome, `turn_ended`
is the last event exactly while the turn drains or has its result, and an exec in
`replying` has its answer decided. Then each action is a step of the promise or leaves
what it speaks of unchanged (`OpenRefines`, `FrameRefines`, `EndRefines`, `ExecRefines`,
`StallRefines`, `IterationRefines`). The steps that the handle takes by itself change the
abort and the caller's state only, so the handle keeps the promise too
(`HandleKeepsPromise`). It is a theorem of its own because a behaviour of the handle
is not one of `RunTurn`'s `Spec`: the client's `abort()` also aborts the caller's signal,
in the same step. `AnsweredBeforeSettledHolds` is a part of the promise, which the run
checks as such.

**ClientAuth_proofs.** `AuthInv` is inductive with one addition, `LateFails`: a call
that began on a pinned client is *failing* or *failed*, which is what keeps it from
filling the store. From it `PinnedIffRefused`, `OneBootstrap`,
`AuthTokenNotExchanged` and the action property `PinHolds`.

**CodecFallback_proofs.** `CodecInv` is an invariant of each stream (`StreamInv`) and
one of the origin (`Codec`). `Source`: while anybody reads the replay source, all that
was consumed is recorded under its number, and the second attempt asks only when it
no longer replays. `Wire`: what was sent is increasing. `Repeat`: while it replays
the second attempt has sent exactly a prefix; afterwards nothing is missing as long as
the first attempt's read is still outstanding, and at most one message ever is. A step
of one stream leaves the others alone (`StreamFrame`). From it `WireInOrder`,
`OnlyOrphanLost` and `FallbackOnlyWhenRefused`.

**Services_proofs.** *WebClient*: each step of a call comes out in one of four ways
(`Outcome`: it ends, joins the token flight, goes on to the model, or sends), and the
invariant is shown for those and for the flights and signals. `TokenIsThere`: who was
told of a token finds a bearer, or the pin, when it goes on; it carries
`NothingSentAfter`. `AbortIsPrivate` is a property of steps: `MayBeCancelled` says who may have been
told of a cancel, and by what (`ToldOfCancel`). *Login*: `Counted` says that the counter is the length of the run of
failures that what was heard ends with; `SpentByLast` and `SpentByCount` relate it to
the budget, and `LoginVerdict` follows for any budget and any number of attempts.
*Bootstrap and Overlay*: `StartInv` ties what the overlay has to where the bootstrap is.
`CallsInv`: the catalogue's calls are unsent before it, answered after it, and the timer
says what became of the parameters. `SeedInv`: the signal is aborted only at the end,
live models are there only then, and there is no client before the start. From it
`SeedOrLive`.

**ResponsesServer_proofs.** The steps are many and what they do to one request is
little: `Effects` says that each request proceeds, ends in one of three ways (nothing
stored, a failed row, or stored and told), or has its row deleted, and that the others
are untouched. `IInv` is shown for these. `Writing`: during a turn its client has
the opening of its stream and some deltas, before it nothing. `Unborn`: the tables have nothing of
a request that is not over. `Settled`: of one that is over there is what it was
told, or it was deleted. `LineageKept`, `Ancestry` and `HistoryKept` are about the
chain: a row continues the row of a request that is over, whose lineage does not change
any more, and its own lineage is that one and itself; so a chain of linked rows *is*
the lineage of its last (`ChainIsLineage`), whatever an earlier process has left. From these
`ToldIffStored`, `HistoryComplete`, `OneAnswer`, `ReplayAgrees` and `PinHolds`.
`ToldIffStored` is about what is written and stored: of a client that is gone it
says that only a stream's row is stored for it. That one is, against a plan, is
the run `server_abort`. `PinHolds` is about the requests that have not reached the upstream
when the pin is set (`StepKeeps`, `FailKeepsPin`); one that is past its look at the pin goes on, from the
models to `run()` as well, in the code as in the model. `ReplayAgrees` says of a completed row that it
replays what its stream was written with, of a failed one that it replays the two events
that ended it.

**Requests_proofs, the pages.** `WalkInv`: while the cursor is there, what has been seen lies up
to it (`UpTo`), and what has matched all the while is seen or lies behind it
(`Behind`). No change of the table disturbs them, as it does not change the time and
the id of a row that the walk knows (`TableChanges`), and a page moves the cursor to
its last row (`PageBehind`). From it `WalkComplete`: every steady row, none twice, each
in its place.

**Requests_proofs, the histories.** `ConversationInv` is about what hosts write: within a
message and from one message to the next the marks rise, and a role has only the kinds of
parts that are its own. With it each mapping is followed part by part, for a conversation
of any length. `FlattenPlaces` says that an element of a flattened sequence has a place
(row and column), every place its element, and that places come in order; `OnlyChosen`
says the same of a filter. Then what a mapping takes apart and puts together again is in
the order of the conversation, which rising marks make checkable: nothing twice
(`AscendsInjective`), nothing of one message in another (`MarksAfter`), everything that
was said (`SaidMarks`). `ChatIsFaithful` and `PiIsFaithful` follow directly.
`OpenCodeIsFaithful` goes by items: a message becomes items that are in line
(`ItemsOfMessage`), so are those of the conversation (`OpenCodeItemsInLine`), and the
question that leaves the history takes its own marks with it (`FrontInLine`), as marks of
different items differ. `ChainsAgree`: a flattened sequence of pairs is the sequence that
was cut into them (`FlattenPairs`), and texts that are not empty are told apart by their
marks, so that two filtered lists with the same texts are the same list (`SameSpoken`).

**Providers_proofs, OpenCode.** `StreamInv`: while the loop runs, the stream may go on
(`Clear`: the open block is the one that was started and not ended, all other blocks have
ended, no id is used above its counter, nothing is finished), and each
part that is emitted fits what is there (`Fits`). From it `PartsWellFormed`. `ToldInv`
says what the parts tell of the run: deltas and calls are its events in order
(`ToldEvents`), and they enter the content in that order with the end of their block
(`ToldEnds`). From it `ContentFaithful`.

**Providers_proofs, Pi.** `UseOutcome` reduces a step to what it does to the epoch;
`Begun`: a client's name is that of a use that has started, so a new client is never one
that was closed; hence `OneOpenClient` and `ClientKept`. `EndInv` gives
`OneEnd`: a use is told its end once. `MessageInv`: what the loop has read of texts is one
block with its events in order, of thoughts another, and the calls are held back in
`mcpCalls` (`InLoop`) until the end adds a block for each (`Finished`); hence
`MessageWhole`.

Induction over data is out of the prover's reach. Where a proof needs it of a finite
sequence, it takes a least counterexample instead (the ancestor chain; the run of
failures at the end of what a login heard; the first sequences of a flattening, hence what
`FlattenSeq` computes, which the histories rest on).

**Proved, and not among the runs' properties** (each was checked by TLC first):
`AnsweredBeforeSettled` (which `ImplementsPromise` contains), `Fifo`,
`EndAfterDrain`, `OutboundOutlivesTurn`, `OneBootstrap`, `AuthTokenNotExchanged`, `OneEnd`, and
the type invariants.

**Model-checked only.** All liveness (`CloseReachesReaders`, `ConsumerTold`,
`AbortTearsDown`, `WaitSettles`, `IterationReleasesRpc`, `CallsFinish`,
`NothingHangs`, `OpenCodeReaderTold`), since fairness and ENABLED are out of the
prover's reach.

## 5. Known disagreements

The three violated runs are findings in `PROJECT.json`: the message that a refused JSON
stream is still waiting for is lost, against a test's title, and of two unary calls
refused at the same time one is thrown, against a plan. The server stores a streamed response
whose client disconnects after the turn ended, as the insert comes without a look at the
abort, against plan 004, line 164 ("Do not commit on client abort").

In the following the code differs from a document as well. The models do
what the code does; where a definition states the document's claim it is named, and
TLC finds it violated when it is put into the configuration of a run (`client` for those of a turn).

* An interaction handler is not raced with the abort: one that hangs holds an
  aborted turn open (`AbortSettles` in RunTurn; plan 001, line 74).
* A stall during the wait after `turn_ended` gives `wait()` a result and the
  iterator an error (`StallFailsTurn`; plan 001, line 184).
* The stall timeout is restarted by the loop, not by arriving frames, so a slow
  interaction handler lets it fire (`StallOnlyOnSilence`; rpc_spec, line 1831).
* The client's `abort()` closes the outbound queue before in-flight execs are
  answered (`AbortStillReplies` in ClientRun; plan 001, line 476).
* An authentication failure that a WebClient call meets may end as another error,
  when it was closed or aborted meanwhile, and then does not pin it (plan 003 on web
  tools, about line 417).
* A Pi run that hands a tool off that was not advertised ends "aborted"; a test
  (pi `stream.test.ts:212`) expects "stop" of a stream that does not cancel.

Other behaviour that no document forbids and no property constrains: an
exchange in flight at the pin fills the cleared store again and sets the bearer;
a later call of the pinned client clears the store once more, even if
a login has filled it since; with a token pair and an API key, each call
writes the pair over the exchanged token. A request of the server that is past its look at
the pin goes on to the upstream. `CursorRpcClient.close` does not
stick: a later call opens origins again. An abort while a login's token body is read
ends with the error of the body and not as a cancel. `controller.error` drops what
OpenCode's reader has not read yet. Pi adds a later text to the
block of an earlier one, around a thought in between. An authentication error of a Pi
stream that began with an older credential drops the client that newer streams use.

## 6. What is not modelled

* Generated protobuf code; connect-node wiring and request headers
  (`transport/connect.ts`, `headers.ts`: no state); the table of environments.
* The pool of origins of the client and `close()`, which only closes them.
* The server's options, command line and inbound bearer check, which come before any
  shared state; file modes and migrations of its database.
* The hosts' authentication hooks (OpenCode's and Pi's stored credentials), the
  classification of overflow messages, options and headers of the plugins.
* `pi-tools`: two tools of one web call each.
* Wording, formatting, usage counts, model aliases and ids.

What is left to do: fairness for the server's requests, should the provider's promises
be given timeouts; the origins' pool, should it get state beyond opening and closing.
