------------------------------ MODULE MCProviders ------------------------------
(* The host is OpenCode or Pi: either provider's machine runs, the other one   *)
(* stays in an initial state.                                                  *)
EXTENDS OpenCodeStream, PiStream

CONSTANTS u1, u2

PiEvents == [u \in Uses |-> IF u = u1 THEN 3 ELSE 1]

VARIABLE host

HostInit ==
    /\ host \in {"opencode", "pi"}
    /\ Init /\ PiInit
    /\ IF host = "pi" THEN reader = "generate" ELSE kind = [u \in Uses |-> "stream"]

HostNext ==
    \/ host = "opencode" /\ Next /\ UNCHANGED <<host, piVars>>
    \/ host = "pi" /\ PiNext /\ UNCHANGED <<host, vars>>

\* The fairness is OpenCode's: nothing is claimed of Pi's progress.
HostSpec ==
    HostInit /\ [][HostNext]_<<host, vars, piVars>> /\ (host = "opencode" => Fairness)

\* An OpenCode reader is told how its generate ended (OpenCodeStream).
OpenCodeReaderTold == host = "opencode" => ReaderTold
=============================================================================
