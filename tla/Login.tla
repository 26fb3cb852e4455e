--------------------------------- MODULE Login ---------------------------------
(***************************************************************************)
(* pollLogin and login().wait (auth/login.ts, client.ts): the poll for the *)
(* tokens of a browser login, with its budget of failures in a row, the    *)
(* back-off between polls and the caller's signal.  MaxAttempts stands for *)
(* MAX_ATTEMPTS = 150; the challenge and the time slept are left out.      *)
(***************************************************************************)
EXTENDS Naturals, Sequences

CONSTANTS
    MaxAttempts,
    FailureBudget   \* CONSECUTIVE_FAILURE_BUDGET = 3

ASSUME LoginAssumption == MaxAttempts \in Nat /\ FailureBudget \in Nat \ {0}

VARIABLES
    poll,       \* "top" of the loop, "fetch", "sleep", "body", "save" or "over"
    failures,   \* consecutiveFailures
    heard,      \* history: what each poll came to
    gaveUp,     \* the caller's signal is aborted
    saved,      \* the tokens are in the store
    verdict     \* how wait() has settled

loginVars == <<poll, failures, heard, gaveUp, saved, verdict>>

Polls == {"pending", "refused", "unreachable", "policy", "ok"}
Verdicts == {"none", "tokens", "unauthenticated", "unavailable", "policy", "cancelled",
             "network", "storage"}

LoginTypeOK ==
    /\ poll \in {"top", "fetch", "sleep", "body", "save", "over"}
    /\ failures \in 0 .. FailureBudget
    /\ heard \in Seq(Polls) /\ Len(heard) <= MaxAttempts
    /\ {gaveUp, saved} \subseteq BOOLEAN
    /\ verdict \in Verdicts

LoginInit ==
    /\ poll = "top" /\ failures = 0 /\ heard = <<>>
    /\ gaveUp \in BOOLEAN
    /\ saved = FALSE /\ verdict = "none"

-----------------------------------------------------------------------------

SettleLogin(how) == poll' = "over" /\ verdict' = how

Hear(what) == heard' = Append(heard, what)

\* defaultSleep looks at the signal before it starts its timer.
Sleep ==
    IF gaveUp THEN SettleLogin("cancelled") ELSE poll' = "sleep" /\ UNCHANGED verdict

\* The top of the loop.
Poll ==
    /\ poll = "top"
    /\ IF Len(heard) = MaxAttempts THEN SettleLogin("unauthenticated")
       ELSE IF gaveUp THEN SettleLogin("cancelled")
       ELSE poll' = "fetch" /\ UNCHANGED verdict
    /\ UNCHANGED <<failures, heard, gaveUp, saved>>

\* MUTANT: the budget counts what has failed since the start.
NotYetKeeps ==
    /\ poll = "fetch" /\ Hear("pending")
    /\ Sleep
    /\ UNCHANGED <<failures, gaveUp, saved>>

\* A 404: the user has not authorized the login yet.  Like any answer it may
\* have come just before an abort.
NotYet ==
    /\ poll = "fetch" /\ Hear("pending")
    /\ failures' = 0
    /\ Sleep
    /\ UNCHANGED <<gaveUp, saved>>

\* Any other status, or no answer at all: an abort makes the fetch fail.
Failed ==
    /\ poll = "fetch"
    /\ \/ gaveUp /\ Hear("unreachable") /\ SettleLogin("cancelled") /\ UNCHANGED failures
       \/ /\ Hear("refused") \/ (~gaveUp /\ Hear("unreachable"))
          /\ failures' = failures + 1
          /\ IF failures' >= FailureBudget THEN SettleLogin("unauthenticated") ELSE Sleep
    /\ UNCHANGED <<gaveUp, saved>>

\* A 403 with sign_in_policy_violation is final; one without is a failure.
Policy ==
    /\ poll = "fetch"
    /\ Hear("policy") /\ SettleLogin("policy")
    /\ UNCHANGED <<failures, gaveUp, saved>>

Authorized ==
    /\ poll = "fetch"
    /\ Hear("ok") /\ poll' = "body"
    /\ UNCHANGED <<failures, gaveUp, saved, verdict>>

\* parseAuthJsonResponse: a body that cannot be read rejects as it is, one
\* without both tokens is refused for good.  Good tokens go to the store.
BodyArrives ==
    /\ poll = "body"
    /\ \/ SettleLogin("network")
       \/ SettleLogin("unauthenticated")
       \/ poll' = "save" /\ UNCHANGED verdict
    /\ UNCHANGED <<failures, heard, gaveUp, saved>>

\* The store is awaited and the signal is not looked at again.
Save ==
    /\ poll = "save"
    /\ \/ saved' = TRUE /\ SettleLogin("tokens")
       \/ UNCHANGED saved /\ SettleLogin("storage")
    /\ UNCHANGED <<failures, heard, gaveUp>>

Awake ==
    /\ poll = "sleep"
    /\ IF gaveUp THEN SettleLogin("cancelled") ELSE poll' = "top" /\ UNCHANGED verdict
    /\ UNCHANGED <<failures, heard, gaveUp, saved>>

GiveUpLogin ==
    /\ ~gaveUp /\ poll # "over" /\ gaveUp' = TRUE
    /\ UNCHANGED <<poll, failures, heard, saved, verdict>>

LoginStep ==
    Poll \/ NotYet \/ Failed \/ Policy \/ Authorized \/ BodyArrives \/ Save \/ Awake

LoginNext == LoginStep \/ GiveUpLogin

\* A fetch has no timeout of its own, so it ends only once it is aborted.
LoginFairness ==
    /\ WF_loginVars(Poll \/ Awake \/ BodyArrives \/ Save)
    /\ WF_loginVars(gaveUp /\ Failed)

LoginSpec == LoginInit /\ [][LoginNext]_loginVars /\ LoginFairness

-----------------------------------------------------------------------------
(* Properties.                                                             *)

Failing(what) == what \in {"refused", "unreachable"}

\* Somewhere FailureBudget polls in a row have failed.
BudgetSpent ==
    \E last \in FailureBudget .. Len(heard) :
        \A i \in last - FailureBudget + 1 .. last : Failing(heard[i])

\* The poll is given up after three failures in a row and for nothing less
\* before the attempts are used up, and tokens are stored only of a login that
\* was authorized (rpc_spec 5.1: a 404 resets the counter).
LoginVerdict ==
    /\ BudgetSpent => verdict \in {"unauthenticated", "cancelled"}
    /\ verdict = "unauthenticated" =>
          BudgetSpent \/ Len(heard) = MaxAttempts \/ heard[Len(heard)] = "ok"
    /\ saved => heard[Len(heard)] = "ok"

\* No poll is sent once the caller has aborted, and the login ends.
AbortEndsLogin ==
    /\ [][gaveUp => ~(poll # "fetch" /\ poll' = "fetch")]_loginVars
    /\ gaveUp ~> poll = "over"
=============================================================================
