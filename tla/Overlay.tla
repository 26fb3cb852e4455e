-------------------------------- MODULE Overlay --------------------------------
(***************************************************************************)
(* overlayCursorCatalogue (OpenCode's catalogue.ts): at the start of the   *)
(* editor the plugin makes a client of its own, asks it for its models     *)
(* with a timeout around the whole bootstrap, puts them in place of the    *)
(* static seed, and closes the client.                                     *)
(***************************************************************************)
EXTENDS Bootstrap

VARIABLES
    overlay,    \* "start", "waiting" in modelsWithTimeout, or "over"
    client,     \* "none", "open" or "closed"
    models      \* the provider's models: the static "seed" or the "live" ones

overlayVars == <<overlay, client, models>>

OverlayTypeOK ==
    /\ BootTypeOK
    /\ overlay \in {"start", "waiting", "over"}
    /\ client \in {"none", "open", "closed"}
    /\ models \in {"seed", "live"}

OverlayInit == BootInit /\ overlay = "start" /\ client = "none" /\ models = "seed"

-----------------------------------------------------------------------------

\* Without credentials, or with options createClient refuses, the seed stays.
NoClient ==
    /\ overlay = "start" /\ overlay' = "over"
    /\ UNCHANGED <<client, models, bootVars>>

MakeClient ==
    /\ overlay = "start" /\ overlay' = "waiting"
    /\ client' = "open"
    /\ UNCHANGED <<models, bootVars>>

\* The end of overlayOrKeepSeed: finally closes the client.
Over(found) ==
    /\ overlay' = "over"
    /\ models' = found
    /\ client' = "closed"

\* ensureSession: the token first, which may fail or keep models() waiting.
SessionBegins == client # "none" /\ Begin /\ UNCHANGED overlayVars

TokenFails ==
    /\ client # "none" /\ at = "idle"
    /\ Fail("error")
    /\ UNCHANGED <<signalled, backend, config, probe, ghost, catalogueVars, overlayVars>>

Boot == (Arrives \/ ParamsArrive \/ ParamsTimeout) /\ UNCHANGED overlayVars

\* models() has answered in time: rows without an id are left out, and if none
\* is left the seed stays, as it does after an error.
ModelsArrive ==
    /\ overlay = "waiting"
    /\ \/ at = "done" /\ \E found \in {"seed", "live"} : Over(found)
       \/ at = "failed" /\ Over("seed")
    /\ UNCHANGED bootVars

\* The timer ends the wait and aborts the call, whose outcome nobody reads.
TimesOut ==
    /\ overlay = "waiting" /\ signalled' = TRUE
    /\ Over("seed")
    /\ UNCHANGED <<at, backend, config, probe, ghost, catalogueVars, outcome>>

OverlayNext ==
    NoClient \/ MakeClient \/ SessionBegins \/ TokenFails \/ Boot \/ ModelsArrive \/ TimesOut

\* The timer fires; only the bootstrap's own calls are taken to end.
OverlayFairness ==
    /\ BootFairness
    /\ WF_<<bootVars, overlayVars>>(TimesOut)

OverlaySpec == OverlayInit /\ [][OverlayNext]_<<bootVars, overlayVars>> /\ OverlayFairness

-----------------------------------------------------------------------------
(* Properties.                                                             *)

\* The seed is replaced by a whole catalogue that came in time or not at all,
\* and no way out of the overlay leaves its client open (catalogue.ts 52-75).
SeedOrLive ==
    /\ models = "live" => at = "done" /\ ~signalled
    /\ overlay = "over" => client # "open"
    /\ SessionSound

\* The editor starts: the overlay ends although no call ever answers; and a
\* bootstrap that has its token ends although availableModels never answers.
StartupEnds ==
    /\ overlay = "waiting" ~> overlay = "over"
    /\ at = "config" ~> at \in {"done", "failed"}
=============================================================================
