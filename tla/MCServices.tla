------------------------------ MODULE MCServices ------------------------------
(* What an application does around its runs: it signs in (Login), starts up    *)
(* (Overlay, with the Bootstrap inside it) or uses the web client (WebClient). *)
(* They share no state, so one of the three machines runs and the others stay  *)
(* in an initial state: the states of the instance are those of each.          *)
EXTENDS WebClient, Login, Overlay

CONSTANTS c1, c2

VARIABLE service

startupVars == <<bootVars, overlayVars>>
allVars == <<service, vars, loginVars, startupVars>>

ServicesInit ==
    /\ service \in {"login", "startup", "web"}
    /\ Init /\ LoginInit /\ OverlayInit
    /\ service # "login" => ~gaveUp
    /\ service # "startup" => backend.local
    /\ service # "web" => kind = [c \in Calls |-> "fetch"]

ServicesNext ==
    \/ service = "web" /\ Next /\ UNCHANGED <<service, loginVars, startupVars>>
    \/ service = "login" /\ LoginNext /\ UNCHANGED <<service, vars, startupVars>>
    \/ service = "startup" /\ OverlayNext /\ UNCHANGED <<service, vars, loginVars>>

ServicesSpec ==
    /\ ServicesInit /\ [][ServicesNext]_allVars
    /\ service = "web" => Fairness
    /\ service = "login" => LoginFairness
    /\ service = "startup" => OverlayFairness

\* Nothing hangs on an answer that does not come: the overlay and a bootstrap
\* end by their timers (Overlay), an aborted login ends without another poll
\* (Login), and a call of the web client ends however its flights do.
NothingHangs ==
    /\ StartupEnds
    /\ AbortEndsLogin
    /\ service = "web" => CallsEnd
=============================================================================
