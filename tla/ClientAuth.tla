----------------------------- MODULE ClientAuth -----------------------------
(***************************************************************************)
(* How the calls of one CursorRpcClient get a token and a session:         *)
(* AuthSession (auth/session.ts) and the first half of models() and run()  *)
(* (client.ts).                                                            *)
(*                                                                         *)
(* The calls share the credential store, the bearer, the pin that an       *)
(* authentication failure sets, and one bootstrap of the session.  Each of *)
(* them awaits in between, so that it may act on what it read before       *)
(* another one failed.  The store is the one of credentials.ts; another    *)
(* client or a login may use it too.                                       *)
(***************************************************************************)
EXTENDS Naturals

CONSTANTS
    Calls,          \* calls of models() and run()
    Given,          \* the access token the caller configured
    Foreign,        \* the access token a login stored
    NoToken,
    NoCall,
    MaxExchanges    \* bound: how many tokens the exchange issues: 1, 2, ...

ASSUME ConstantsAssumption ==
    /\ MaxExchanges \in Nat
    /\ NoCall \notin Calls
    /\ NoToken \notin {Given, Foreign} \union Nat

Tokens == {Given, Foreign} \union 1 .. MaxExchanges

VARIABLES
    config,     \* what was configured: an auth token, a token pair, an API key
    store,      \* what the credential store holds
    fresh,      \* the tokens that are not about to expire
    issued,     \* how many tokens the exchange has issued
    pinned,     \* #pinned
    ephemeral,  \* #ephemeralAccessToken
    bearer,     \* #bearer
    session,    \* #session is there
    flight,     \* #sessionPromise, named by the call that made it
    booting,    \* the calls whose bootstrap is running
    phase,      \* where each call stands
    read,       \* the credentials a call has read
    token,      \* the token it was given
    waitsFor,   \* the bootstrap it waits for
    error,      \* why it failed
    late        \* history: the calls that began after the pin

authVars == <<store, issued, pinned, ephemeral>>
sessionVars == <<session, flight, booting>>
callVars == <<phase, read, token, waitsFor, error>>
vars == <<config, authVars, fresh, bearer, sessionVars, callVars, late>>

Credentials == [access : Tokens \union {NoToken}, key : BOOLEAN]
Empty == [access |-> NoToken, key |-> FALSE]
LoggedIn == [access |-> Foreign, key |-> FALSE]

Phases == {"idle", "loaded", "merged", "exchanging", "token", "bearer", "waiting",
           "ready", "served", "failing", "failed"}
Failures == {"unauthenticated", "other"}

TypeOK ==
    /\ config \subseteq {"token", "pair", "key"}
    /\ store \in Credentials
    /\ fresh \subseteq Tokens
    /\ issued \in 0 .. MaxExchanges
    /\ pinned \in BOOLEAN
    /\ ephemeral \in Tokens \union {NoToken}
    /\ bearer \in Tokens \union {NoToken}
    /\ session \in BOOLEAN
    /\ flight \in Calls \union {NoCall}
    /\ booting \subseteq Calls
    /\ phase \in [Calls -> Phases]
    /\ read \in [Calls -> Credentials]
    /\ token \in [Calls -> Tokens \union {NoToken}]
    /\ waitsFor \in [Calls -> Calls \union {NoCall}]
    /\ error \in [Calls -> Failures \union {"none"}]
    /\ late \subseteq Calls

\* mergeConstructorCredentials: what was configured wins over what is stored.
Merge(stored) ==
    IF "token" \in config
    THEN [stored EXCEPT !.access = Given]
    ELSE [access |-> IF "pair" \in config THEN Given ELSE stored.access,
          key |-> stored.key \/ "key" \in config]

\* The constructor stores what was configured; without any credentials there
\* is no client.
Init ==
    /\ config \in SUBSET {"token", "pair", "key"}
    /\ \E stored \in {Empty, LoggedIn} :
          /\ config # {} \/ stored # Empty
          /\ store = Merge(stored)
    /\ fresh = Tokens
    /\ issued = 0
    /\ pinned = FALSE
    /\ ephemeral = NoToken
    /\ bearer = NoToken
    /\ session = FALSE
    /\ flight = NoCall
    /\ booting = {}
    /\ phase = [c \in Calls |-> "idle"]
    /\ read = [c \in Calls |-> Empty]
    /\ token = [c \in Calls |-> NoToken]
    /\ waitsFor = [c \in Calls |-> NoCall]
    /\ error = [c \in Calls |-> "none"]
    /\ late = {}

-----------------------------------------------------------------------------
(* accessToken.                                                            *)

Go(c, to) == phase' = [phase EXCEPT ![c] = to] /\ UNCHANGED <<token, error>>

Use(c, t) ==
    /\ phase' = [phase EXCEPT ![c] = "token"]
    /\ token' = [token EXCEPT ![c] = t]
    /\ UNCHANGED error

FailWith(c, failure) ==
    /\ phase' = [phase EXCEPT ![c] = "failing"]
    /\ error' = [error EXCEPT ![c] = failure]
    /\ UNCHANGED token

\* MUTANT: a pinned client accepts calls.
StartAnyway(c) ==
    /\ phase[c] = "idle"
    /\ read' = [read EXCEPT ![c] = store]
    /\ Go(c, "loaded")
    /\ late' = IF pinned THEN late \union {c} ELSE late
    /\ UNCHANGED <<config, authVars, fresh, bearer, sessionVars, waitsFor>>

\* A call begins: a pinned client refuses it, else the store is loaded.
Start(c) ==
    /\ phase[c] = "idle"
    /\ IF pinned
       THEN FailWith(c, "unauthenticated") /\ UNCHANGED read
       ELSE read' = [read EXCEPT ![c] = store] /\ Go(c, "loaded")
    /\ late' = IF pinned THEN late \union {c} ELSE late
    /\ UNCHANGED <<config, authVars, fresh, bearer, sessionVars, waitsFor>>

HasKey(credentials) == credentials.key \/ "key" \in config

\* MUTANT: the pin is looked at when the call begins and not again.
MayExchangeUnpinned(credentials) == "token" \notin config /\ HasKey(credentials)

MayExchange(credentials) == "token" \notin config /\ ~pinned /\ HasKey(credentials)

\* Which token: the stored one while it is good, the last exchanged one if the
\* store has none, a new one for the API key, or else the stored one anyway.
Decide(c, credentials) ==
    LET stored == credentials.access IN
    IF stored \in fresh THEN Use(c, stored)
    ELSE IF ephemeral \in fresh /\ stored = NoToken THEN Use(c, ephemeral)
    ELSE IF MayExchange(credentials) THEN Go(c, "exchanging")
    ELSE IF stored # NoToken THEN Use(c, stored)
    ELSE FailWith(c, "unauthenticated")

\* The load has returned.  Where the configuration says something else it is
\* saved, and that is awaited.
Loaded(c) ==
    LET merged == Merge(read[c]) IN
    /\ phase[c] = "loaded"
    /\ IF merged = read[c]
       THEN Decide(c, merged) /\ UNCHANGED <<store, read>>
       ELSE /\ store' = merged
            /\ read' = [read EXCEPT ![c] = merged]
            /\ Go(c, "merged")
    /\ UNCHANGED <<config, issued, pinned, ephemeral, fresh, bearer, sessionVars,
                   waitsFor, late>>

Saved(c) ==
    /\ phase[c] = "merged"
    /\ Decide(c, read[c])
    /\ UNCHANGED <<config, authVars, fresh, bearer, sessionVars, read, waitsFor, late>>

\* The exchange answers with a token, which is saved whatever has happened.
Exchanged(c) ==
    LET issue == issued + 1 IN
    /\ phase[c] = "exchanging"
    /\ issued < MaxExchanges
    /\ issued' = issue
    /\ ephemeral' = issue
    /\ store' = [access |-> issue, key |-> TRUE]
    /\ Use(c, issue)
    /\ UNCHANGED <<config, pinned, fresh, bearer, sessionVars, read, waitsFor, late>>

\* Or it refuses the key; or it cannot be reached, is unwell or is aborted.
ExchangeFails(c) ==
    /\ phase[c] = "exchanging"
    /\ FailWith(c, "unauthenticated") \/ FailWith(c, "other")
    /\ UNCHANGED <<config, authVars, fresh, bearer, sessionVars, read, waitsFor, late>>

\* #refreshBearer.
SetBearer(c) ==
    /\ phase[c] = "token"
    /\ bearer' = token[c]
    /\ Go(c, "bearer")
    /\ UNCHANGED <<config, authVars, fresh, sessionVars, read, waitsFor, late>>

-----------------------------------------------------------------------------
(* #ensureSession, and the call itself.                                    *)

\* The session is there, or is being made, or is made for this call, under its
\* signal, and for those that come meanwhile.
Ensure(c) ==
    /\ phase[c] = "bearer"
    /\ IF session
       THEN Go(c, "ready") /\ UNCHANGED <<flight, booting, waitsFor>>
       ELSE /\ Go(c, "waiting")
            /\ IF flight # NoCall
               THEN waitsFor' = [waitsFor EXCEPT ![c] = flight] /\ UNCHANGED <<flight, booting>>
               ELSE /\ flight' = c
                    /\ booting' = booting \union {c}
                    /\ waitsFor' = [waitsFor EXCEPT ![c] = c]
    /\ UNCHANGED <<config, authVars, fresh, bearer, session, read, late>>

WaitsFor(c, owner) == phase[c] = "waiting" /\ waitsFor[c] = owner

Booted(owner) ==
    /\ owner \in booting
    /\ booting' = booting \ {owner}
    /\ session' = TRUE
    /\ phase' = [c \in Calls |-> IF WaitsFor(c, owner) THEN "ready" ELSE phase[c]]
    /\ UNCHANGED <<config, authVars, fresh, bearer, flight, read, token, waitsFor, error, late>>

\* MUTANT: only the call that made the bootstrap hears of its failure.
BootFailsForOwner(owner) ==
    /\ owner \in booting
    /\ booting' = booting \ {owner}
    /\ flight' = NoCall
    /\ FailWith(owner, "unauthenticated") \/ FailWith(owner, "other")
    /\ UNCHANGED <<config, authVars, fresh, bearer, session, read, waitsFor, late>>

\* A failed bootstrap is forgotten, and fails everyone who waits for it; the
\* signal of the call that made it is one reason for it to fail.
BootFails(owner) ==
    \E failure \in Failures :
        /\ owner \in booting
        /\ booting' = booting \ {owner}
        /\ flight' = NoCall
        /\ phase' = [c \in Calls |-> IF WaitsFor(c, owner) THEN "failing" ELSE phase[c]]
        /\ error' = [c \in Calls |-> IF WaitsFor(c, owner) THEN failure ELSE error[c]]
        /\ UNCHANGED <<config, authVars, fresh, bearer, session, read, token, waitsFor, late>>

\* models() returns, or run() opens its RPC with the bearer there is; or run()
\* finds that HTTP/1.1 is forced.
Return(c) ==
    /\ phase[c] = "ready"
    /\ Go(c, "served") \/ FailWith(c, "other")
    /\ UNCHANGED <<config, authVars, fresh, bearer, sessionVars, read, waitsFor, late>>

\* handleAuthFailure: the client is pinned and forgets what it has.
SignOut ==
    /\ store' = Empty
    /\ pinned' = TRUE
    /\ ephemeral' = NoToken
    /\ bearer' = NoToken
    /\ UNCHANGED issued

\* MUTANT: any failure signs the client out.
CaughtAny(c) ==
    /\ phase[c] = "failing"
    /\ Go(c, "failed")
    /\ SignOut
    /\ UNCHANGED <<config, fresh, sessionVars, read, waitsFor, late>>

\* The error of a call is recorded on its way to the caller.
Caught(c) ==
    /\ phase[c] = "failing"
    /\ Go(c, "failed")
    /\ IF error[c] = "unauthenticated" THEN SignOut ELSE UNCHANGED <<authVars, bearer>>
    /\ UNCHANGED <<config, fresh, sessionVars, read, waitsFor, late>>

\* The RPC of a run is refused, which the turn reports by itself.
RunRefused(c) ==
    /\ phase[c] = "served"
    /\ phase' = [phase EXCEPT ![c] = "failed"]
    /\ error' = [error EXCEPT ![c] = "unauthenticated"]
    /\ SignOut
    /\ UNCHANGED <<config, fresh, sessionVars, read, token, waitsFor, late>>

-----------------------------------------------------------------------------
\* Time passes, for the tokens there are.
Expire(t) ==
    /\ t \in fresh
    /\ t \in {Given, Foreign} \union 1 .. issued
    /\ fresh' = fresh \ {t}
    /\ UNCHANGED <<config, authVars, bearer, sessionVars, callVars, late>>

\* Someone else uses the store: login() saves its tokens, another client that
\* fails to authenticate clears it.
StoreChanges ==
    /\ store' \in {LoggedIn, Empty}
    /\ UNCHANGED <<config, issued, pinned, ephemeral, fresh, bearer, sessionVars, callVars, late>>

Resumes(c) ==
    \/ Loaded(c) \/ Saved(c)
    \/ SetBearer(c) \/ Ensure(c)
    \/ Return(c) \/ Caught(c)

Next ==
    \/ \E c \in Calls :
          \/ Start(c) \/ Resumes(c)
          \/ Exchanged(c) \/ ExchangeFails(c)
          \/ Booted(c) \/ BootFails(c)
          \/ RunRefused(c)
    \/ \E t \in Tokens : Expire(t)
    \/ StoreChanges

Spec == Init /\ [][Next]_vars

\* Resolved promises resume their calls; and the RPCs of the bootstrap end, as
\* each of them has a timeout.
Fairness ==
    /\ \A c \in Calls : WF_vars(Resumes(c))
    /\ \A c \in Calls : WF_vars(Booted(c) \/ BootFails(c))

FairSpec == Spec /\ Fairness

\* The exchange, which has no timeout, answers or fails.
ExchangeAnswers == \A c \in Calls : WF_vars(Exchanged(c) \/ ExchangeFails(c))

-----------------------------------------------------------------------------
\* At most one bootstrap runs, the one that calls find in the session promise;
\* none is made once there is a session; and a failed one is not found again.
OneBootstrap ==
    /\ ~session => booting = (IF flight = NoCall THEN {} ELSE {flight})
    /\ session => booting = {}

\* The client is pinned exactly if a call failed to authenticate: an exchange
\* or a server that is unwell, or an abort, does not sign it out.
PinnedIffRefused ==
    pinned <=> \E c \in Calls : phase[c] = "failed" /\ error[c] = "unauthenticated"

\* An auth token is never replaced by an exchange, however often it expires.
AuthTokenNotExchanged ==
    "token" \in config =>
        issued = 0 /\ \A c \in Calls : phase[c] # "exchanging"

\* "pin the Client so the next call on that instance does not re-read constructor
\* apiKey": once pinned no exchange begins, not even for a call that began
\* before; and a call that began after does not fill the store again.
PinHolds ==
    [][\A c \in Calls :
          /\ pinned /\ phase'[c] = "exchanging" => phase[c] = "exchanging"
          /\ c \in late /\ phase'[c] # phase[c] => store' \in {store, Empty}]_vars

\* A call is served or fails, if the exchange answers.
CallsFinish ==
    ExchangeAnswers =>
        \A c \in Calls : phase[c] # "idle" ~> phase[c] \in {"served", "failed"}
=============================================================================
