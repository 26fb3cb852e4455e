------------------------------- MODULE Bootstrap -------------------------------
(***************************************************************************)
(* bootstrap (session/bootstrap.ts): the calls that make a session, their  *)
(* order, which of them may fail, and the timeout of the slow one          *)
(* (withTimeout of session/models.ts).                                     *)
(*                                                                         *)
(* A call's answer is abstracted to what the merge and the choice of the   *)
(* agent's origin tell apart.  The caller's signal reaches every call.     *)
(***************************************************************************)
EXTENDS Naturals

VARIABLES
    at,         \* the await bootstrap is at
    signalled,  \* the caller's signal is aborted
    backend,    \* [local: the backend is a local or staging one]
    config,     \* what getServerConfig answered: [http1, split]
    probe,      \* history: what the privacy probe answered
    ghost,      \* ghostMode
    usable,     \* getUsableModels: "unsent", "pending", "ok", "empty" or "error"
    default,    \* getDefaultModelForCli
    params,     \* withTimeout(availableModels): also "useless" and "timed_out"
    answering,  \* the backend still owes availableModels an answer
    timer,      \* the timer of withTimeout: "off", "running" or "fired"
    session,    \* the session, its origin "none" until there is one
    failure     \* how bootstrap has failed

bootVars == <<at, signalled, backend, config, probe, ghost, usable, default, params,
              answering, timer, session, failure>>

CallStates == {"unsent", "pending", "ok", "empty", "error"}
Origins == {"none", "backend", "agent", "agentn"}
Sessions == [origin : Origins, ghost : BOOLEAN, http1 : BOOLEAN,
             default : BOOLEAN, params : {"none", "list", "timed_out"}]

BootTypeOK ==
    /\ at \in {"idle", "config", "privacy", "catalogue", "done", "failed"}
    /\ {signalled, backend.local, config.http1, config.split, ghost, answering}
          \subseteq BOOLEAN
    /\ {usable, default} \subseteq CallStates
    /\ params \in CallStates \union {"useless", "timed_out"}
    /\ probe \in {"none", "private", "shared", "error"}
    /\ timer \in {"off", "running", "fired"}
    /\ session \in Sessions
    /\ failure \in {"none", "error", "cancelled"}

BootInit ==
    /\ at = "idle" /\ signalled = FALSE
    /\ backend \in [local : BOOLEAN]
    /\ config = [http1 |-> FALSE, split |-> FALSE]
    /\ probe = "none" /\ ghost = TRUE
    /\ usable = "unsent" /\ default = "unsent" /\ params = "unsent"
    /\ answering = FALSE /\ timer = "off"
    /\ session = [origin |-> "none", ghost |-> TRUE, http1 |-> FALSE,
                   default |-> FALSE, params |-> "none"]
    /\ failure = "none"

catalogueVars == <<usable, default, params, answering, timer>>
outcome == <<session, failure>>

-----------------------------------------------------------------------------
(* Before the catalogue: the configuration, then the privacy mode.         *)

Begin ==
    /\ at = "idle" /\ at' = "config"
    /\ UNCHANGED <<signalled, backend, config, probe, ghost, catalogueVars, outcome>>

Fail(how) == at' = "failed" /\ failure' = how /\ UNCHANGED session

ConfigArrives ==
    /\ at = "config"
    /\ \/ /\ ~signalled
          /\ config' \in [http1 : BOOLEAN, split : BOOLEAN]
          /\ at' = "privacy" /\ UNCHANGED outcome
       \/ Fail(IF signalled THEN "cancelled" ELSE "error") /\ UNCHANGED config
    /\ UNCHANGED <<signalled, backend, probe, ghost, catalogueVars>>

\* MUTANT: a probe that fails counts as a user without privacy mode.
GhostModeOpen(answer) == answer = "private"

\* resolveGhostMode: whatever goes wrong, an abort too, counts as private.
GhostMode(answer) == answer # "shared"

\* The three catalogue calls are sent together, each with its errors caught.
PrivacyArrives ==
    /\ at = "privacy"
    /\ probe' \in IF signalled THEN {"error"} ELSE {"private", "shared", "error"}
    /\ ghost' = GhostMode(probe')
    /\ at' = "catalogue"
    /\ usable' = "pending" /\ default' = "pending" /\ params' = "pending"
    /\ answering' = TRUE /\ timer' = "running"
    /\ UNCHANGED <<signalled, backend, config, outcome>>

-----------------------------------------------------------------------------
(* The catalogue.                                                          *)

\* The merge, once Promise.all has all three.
SelectOrigin ==
    CASE backend.local \/ config.http1 \/ ~config.split -> "backend"
      [] ghost -> "agent"
      [] OTHER -> "agentn"

Merged(p, d) ==
    [origin |-> SelectOrigin, ghost |-> ghost, http1 |-> config.http1,
     default |-> d = "ok",
     params |-> CASE p = "timed_out" -> p [] p = "ok" -> "list" [] OTHER -> "none"]

\* bootstrap goes on when the last of the three is in: only the usable models
\* are needed.
Merge(u, d, p) ==
    IF "pending" \in {u, d, p} THEN UNCHANGED <<at, outcome>>
    ELSE IF u = "ok" THEN at' = "done" /\ session' = Merged(p, d) /\ UNCHANGED failure
    ELSE Fail(IF u = "error" /\ signalled THEN "cancelled" ELSE "error")

Answer(of) == of = "pending" /\ at = "catalogue"

UsableModelsArrive ==
    /\ Answer(usable)
    /\ usable' \in IF signalled THEN {"error"} ELSE {"ok", "empty", "error"}
    /\ Merge(usable', default, params)
    /\ UNCHANGED <<signalled, backend, config, probe, ghost, default, params, answering, timer>>

DefaultModelArrives ==
    /\ Answer(default)
    /\ default' \in IF signalled THEN {"error"} ELSE {"ok", "error"}
    /\ Merge(usable, default', params)
    /\ UNCHANGED <<signalled, backend, config, probe, ghost, usable, params, answering, timer>>

\* availableModels answers: in time it clears the timer; late it is dropped.
ParamsArrive ==
    /\ answering /\ answering' = FALSE
    /\ IF params = "pending" THEN
          /\ timer' = "off"
          /\ params' \in IF signalled THEN {"error"} ELSE {"ok", "useless", "error"}
          /\ Merge(usable, default, params')
       ELSE UNCHANGED <<at, outcome, params, timer>>
    /\ UNCHANGED <<signalled, backend, config, probe, ghost, usable, default>>

\* The timer resolves the race by itself; the call it aborts may answer yet.
ParamsTimeout ==
    /\ timer = "running" /\ timer' = "fired"
    /\ params' = "timed_out"
    /\ Merge(usable, default, params')
    /\ UNCHANGED <<signalled, backend, config, probe, ghost, usable, default, answering>>

Arrives == ConfigArrives \/ PrivacyArrives \/ UsableModelsArrive \/ DefaultModelArrives

\* Each unary call but availableModels ends: it answers or hits the 30 seconds
\* of unaryCall.  Nothing is assumed of availableModels, only of its timer.
BootFairness ==
    /\ WF_bootVars(ConfigArrives) /\ WF_bootVars(PrivacyArrives)
    /\ WF_bootVars(UsableModelsArrive) /\ WF_bootVars(DefaultModelArrives)
    /\ WF_bootVars(ParamsTimeout)

-----------------------------------------------------------------------------
(* Properties.                                                             *)

\* Only the configuration, the usable models and an abort can cost a session: a
\* lost privacy probe, default model or parameter list does not, nor do they
\* make the session less private (resolveGhostMode).  A timeout that has fired
\* is what the session says, whatever availableModels answers afterwards.
SessionSound ==
    /\ at = "failed" => signalled \/ usable \in {"unsent", "empty", "error"}
    /\ at = "done" =>
          /\ usable = "ok"
          /\ session.params = "timed_out" <=> timer = "fired"
          /\ session.origin = "agentn" => probe = "shared"
=============================================================================
