-------------------------- MODULE ClientAuth_proofs --------------------------
(***************************************************************************)
(* Proofs about the calls of one client: when it is pinned, what it stops  *)
(* doing then, and that its bootstraps do not overlap.                     *)
(***************************************************************************)
EXTENDS ClientAuth, TLAPS

\* A call that began on a pinned client has failed or is about to.
LateFails == \A c \in late : phase[c] \in {"failing", "failed"}

AuthInv ==
    /\ TypeOK
    /\ PinnedIffRefused
    /\ OneBootstrap
    /\ AuthTokenNotExchanged
    /\ LateFails

USE DEF vars, authVars, sessionVars, callVars

-----------------------------------------------------------------------------
(* Types.                                                                  *)

LEMMA MergeType == ASSUME NEW stored \in Credentials PROVE Merge(stored) \in Credentials
BY DEF Merge, Credentials, Tokens

LEMMA DecideType ==
    ASSUME TypeOK, NEW c \in Calls, NEW credentials \in Credentials, Decide(c, credentials)
    PROVE  /\ phase' \in [Calls -> Phases]
           /\ token' \in [Calls -> Tokens \union {NoToken}]
           /\ error' \in [Calls -> Failures \union {"none"}]
BY DEF TypeOK, Decide, Use, Go, FailWith, Phases, Failures, Credentials

LEMMA TypeInit == Init => TypeOK
<1> SUFFICES ASSUME Init PROVE TypeOK
  OBVIOUS
<1>1. Empty \in Credentials /\ LoggedIn \in Credentials
  BY DEF Empty, LoggedIn, Credentials, Tokens
<1>2. store \in Credentials
  BY <1>1, MergeType DEF Init
<1>3. issued \in 0 .. MaxExchanges
  BY ConstantsAssumption DEF Init
<1> QED
  BY <1>1, <1>2, <1>3 DEF Init, TypeOK, Phases

LEMMA TypeNext == TypeOK /\ [Next]_vars => TypeOK'
<1> SUFFICES ASSUME TypeOK, [Next]_vars PROVE TypeOK'
  OBVIOUS
<1>0. Empty \in Credentials /\ LoggedIn \in Credentials
  BY DEF Empty, LoggedIn, Credentials, Tokens
<1>1. ASSUME NEW c \in Calls, Start(c) PROVE TypeOK'
  BY <1>1 DEF TypeOK, Start, FailWith, Go, Phases, Failures
<1>2. ASSUME NEW c \in Calls, Loaded(c) PROVE TypeOK'
  <2>1. read[c] \in Credentials /\ Merge(read[c]) \in Credentials
    BY MergeType DEF TypeOK
  <2>2. CASE Merge(read[c]) = read[c]
    BY <1>2, <2>1, <2>2, DecideType DEF TypeOK, Loaded
  <2>3. CASE Merge(read[c]) # read[c]
    BY <1>2, <2>1, <2>3 DEF TypeOK, Loaded, Go, Phases
  <2> QED
    BY <2>2, <2>3
<1>3. ASSUME NEW c \in Calls, Saved(c) PROVE TypeOK'
  <2>1. read[c] \in Credentials
    BY DEF TypeOK
  <2> QED
    BY <1>3, <2>1, DecideType DEF TypeOK, Saved
<1>4. ASSUME NEW c \in Calls, SetBearer(c) PROVE TypeOK'
  BY <1>4 DEF TypeOK, SetBearer, Go, Phases
<1>5. ASSUME NEW c \in Calls, Ensure(c) PROVE TypeOK'
  BY <1>5 DEF TypeOK, Ensure, Go, Phases
<1>6. ASSUME NEW c \in Calls, Return(c) PROVE TypeOK'
  BY <1>6 DEF TypeOK, Return, Go, FailWith, Phases, Failures
<1>7. ASSUME NEW c \in Calls, Caught(c) PROVE TypeOK'
  BY <1>0, <1>7 DEF TypeOK, Caught, Go, SignOut, Phases
<1>8. ASSUME NEW c \in Calls, Exchanged(c) PROVE TypeOK'
  <2>1. issued + 1 \in 1 .. MaxExchanges
    BY <1>8, ConstantsAssumption DEF TypeOK, Exchanged
  <2>2. [access |-> issued + 1, key |-> TRUE] \in Credentials
    BY <2>1 DEF Credentials, Tokens
  <2> QED
    BY <1>8, <2>1, <2>2, ConstantsAssumption DEF TypeOK, Exchanged, Use, Phases, Tokens
<1>9. ASSUME NEW c \in Calls, ExchangeFails(c) PROVE TypeOK'
  BY <1>9 DEF TypeOK, ExchangeFails, FailWith, Phases, Failures
<1>10. ASSUME NEW c \in Calls, Booted(c) PROVE TypeOK'
  BY <1>10 DEF TypeOK, Booted, Phases
<1>11. ASSUME NEW c \in Calls, BootFails(c) PROVE TypeOK'
  BY <1>11 DEF TypeOK, BootFails, Phases, Failures
<1>12. ASSUME NEW c \in Calls, RunRefused(c) PROVE TypeOK'
  BY <1>0, <1>12 DEF TypeOK, RunRefused, SignOut, Phases, Failures
<1>13. ASSUME NEW t \in Tokens, Expire(t) PROVE TypeOK'
  BY <1>13 DEF TypeOK, Expire
<1>14. CASE StoreChanges
  BY <1>0, <1>14 DEF TypeOK, StoreChanges
<1>15. CASE UNCHANGED vars
  BY <1>15 DEF TypeOK
<1> QED
  BY <1>1, <1>2, <1>3, <1>4, <1>5, <1>6, <1>7, <1>8, <1>9, <1>10, <1>11, <1>12, <1>13, <1>14,
     <1>15 DEF Next, Resumes

-----------------------------------------------------------------------------
(* The invariant.                                                          *)

\* The failed calls stay failed, and no other becomes one of an authentication
\* error: what the pin says does not change.
LEMMA SameFailures ==
    ASSUME PinnedIffRefused, pinned' = pinned,
           \A d \in Calls :
               phase'[d] = "failed" /\ error'[d] = "unauthenticated"
                   <=> phase[d] = "failed" /\ error[d] = "unauthenticated"
    PROVE  PinnedIffRefused'
BY DEF PinnedIffRefused

LEMMA InvInit == Init => AuthInv
<1> SUFFICES ASSUME Init PROVE AuthInv
  OBVIOUS
<1>1. PinnedIffRefused /\ LateFails /\ AuthTokenNotExchanged
  BY DEF Init, PinnedIffRefused, LateFails, AuthTokenNotExchanged
<1>2. OneBootstrap
  BY DEF Init, OneBootstrap
<1> QED
  BY <1>1, <1>2, TypeInit DEF AuthInv

\* Pinning: a call fails for want of authentication only where it signs out.
LEMMA PinNext == TypeOK /\ PinnedIffRefused /\ [Next]_vars => PinnedIffRefused'
<1> SUFFICES ASSUME TypeOK, PinnedIffRefused, [Next]_vars PROVE PinnedIffRefused'
  OBVIOUS
<1> USE DEF TypeOK
<1>1. ASSUME NEW c \in Calls, Start(c) PROVE PinnedIffRefused'
  BY <1>1, SameFailures DEF Start, FailWith, Go
<1>2. ASSUME NEW c \in Calls, Loaded(c) \/ Saved(c) PROVE PinnedIffRefused'
  BY <1>2, SameFailures DEF Loaded, Saved, Decide, Use, Go, FailWith
<1>3. ASSUME NEW c \in Calls, SetBearer(c) \/ Ensure(c) \/ Return(c) PROVE PinnedIffRefused'
  BY <1>3, SameFailures DEF SetBearer, Ensure, Return, Go, FailWith
<1>4. ASSUME NEW c \in Calls, Caught(c) PROVE PinnedIffRefused'
  <2>1. phase'[c] = "failed" /\ error'[c] = error[c]
    BY <1>4 DEF Caught, Go
  <2>2. CASE error[c] = "unauthenticated"
    BY <1>4, <2>1, <2>2 DEF Caught, SignOut, PinnedIffRefused
  <2>3. CASE error[c] # "unauthenticated"
    BY <1>4, <2>1, <2>3, SameFailures DEF Caught, Go
  <2> QED
    BY <2>2, <2>3
<1>5. ASSUME NEW c \in Calls, Exchanged(c) \/ ExchangeFails(c) PROVE PinnedIffRefused'
  BY <1>5, SameFailures DEF Exchanged, ExchangeFails, Use, FailWith
<1>6. ASSUME NEW c \in Calls, Booted(c) \/ BootFails(c) PROVE PinnedIffRefused'
  BY <1>6, SameFailures DEF Booted, BootFails, WaitsFor
<1>7. ASSUME NEW c \in Calls, RunRefused(c) PROVE PinnedIffRefused'
  BY <1>7 DEF RunRefused, SignOut, PinnedIffRefused
<1>8. CASE (\E t \in Tokens : Expire(t)) \/ StoreChanges \/ UNCHANGED vars
  BY <1>8, SameFailures DEF Expire, StoreChanges
<1> QED
  BY <1>1, <1>2, <1>3, <1>4, <1>5, <1>6, <1>7, <1>8 DEF Next, Resumes

\* The session promise names the one bootstrap there is.
LEMMA BootstrapNext == TypeOK /\ OneBootstrap /\ [Next]_vars => OneBootstrap'
<1> SUFFICES ASSUME TypeOK, OneBootstrap, [Next]_vars PROVE OneBootstrap'
  OBVIOUS
<1> USE DEF OneBootstrap
<1>1. CASE UNCHANGED sessionVars
  BY <1>1
<1>2. ASSUME NEW c \in Calls, Ensure(c) PROVE OneBootstrap'
  BY <1>2, ConstantsAssumption DEF Ensure
<1>3. ASSUME NEW c \in Calls, Booted(c) PROVE OneBootstrap'
  BY <1>3 DEF Booted
<1>4. ASSUME NEW c \in Calls, BootFails(c) PROVE OneBootstrap'
  BY <1>4 DEF BootFails
<1> QED
  BY <1>1, <1>2, <1>3, <1>4 DEF Next, Resumes, Start, Loaded, Saved, SetBearer, Return, Caught,
     Exchanged, ExchangeFails, RunRefused, Expire, StoreChanges

\* Where an auth token is configured no call gets to an exchange.
LEMMA TokenNext == TypeOK /\ AuthTokenNotExchanged /\ [Next]_vars => AuthTokenNotExchanged'
<1> SUFFICES ASSUME TypeOK, AuthTokenNotExchanged, [Next]_vars, "token" \in config
             PROVE  issued' = 0 /\ \A d \in Calls : phase'[d] # "exchanging"
  BY DEF AuthTokenNotExchanged, Next, Resumes, Start, Loaded, Saved, SetBearer, Ensure, Return,
     Caught, Exchanged, ExchangeFails, Booted, BootFails, RunRefused, Expire, StoreChanges
<1> USE DEF TypeOK, AuthTokenNotExchanged
<1>1. ASSUME NEW c \in Calls, Start(c) \/ SetBearer(c) \/ Ensure(c) \/ Return(c)
      PROVE  issued' = 0 /\ \A d \in Calls : phase'[d] # "exchanging"
  BY <1>1 DEF Start, SetBearer, Ensure, Return, Go, FailWith
<1>2. ASSUME NEW c \in Calls, Loaded(c) \/ Saved(c)
      PROVE  issued' = 0 /\ \A d \in Calls : phase'[d] # "exchanging"
  BY <1>2 DEF Loaded, Saved, Decide, MayExchange, Use, Go, FailWith
<1>3. ASSUME NEW c \in Calls, Caught(c) \/ RunRefused(c)
      PROVE  issued' = 0 /\ \A d \in Calls : phase'[d] # "exchanging"
  BY <1>3 DEF Caught, RunRefused, Go, SignOut
<1>4. ASSUME NEW c \in Calls, Exchanged(c) \/ ExchangeFails(c) PROVE FALSE
  BY <1>4 DEF Exchanged, ExchangeFails
<1>5. ASSUME NEW c \in Calls, Booted(c) \/ BootFails(c)
      PROVE  issued' = 0 /\ \A d \in Calls : phase'[d] # "exchanging"
  BY <1>5 DEF Booted, BootFails
<1>6. CASE (\E t \in Tokens : Expire(t)) \/ StoreChanges \/ UNCHANGED vars
  BY <1>6 DEF Expire, StoreChanges
<1> QED
  BY <1>1, <1>2, <1>3, <1>4, <1>5, <1>6 DEF Next, Resumes

\* A call that has begun too late goes nowhere but to its failure.
LEMMA LateNext == TypeOK /\ LateFails /\ [Next]_vars => LateFails'
<1> SUFFICES ASSUME TypeOK, LateFails, [Next]_vars PROVE LateFails'
  OBVIOUS
<1> USE DEF TypeOK, LateFails
<1>1. ASSUME NEW c \in Calls, Start(c) PROVE LateFails'
  BY <1>1 DEF Start, FailWith, Go
<1>2. ASSUME NEW c \in Calls, Loaded(c) \/ Saved(c) PROVE LateFails'
  BY <1>2 DEF Loaded, Saved, Decide, Use, Go, FailWith
<1>3. ASSUME NEW c \in Calls, SetBearer(c) \/ Ensure(c) \/ Return(c) PROVE LateFails'
  BY <1>3 DEF SetBearer, Ensure, Return, Go, FailWith
<1>4. ASSUME NEW c \in Calls, Caught(c) \/ RunRefused(c) PROVE LateFails'
  BY <1>4 DEF Caught, RunRefused, Go
<1>5. ASSUME NEW c \in Calls, Exchanged(c) \/ ExchangeFails(c) PROVE LateFails'
  BY <1>5 DEF Exchanged, ExchangeFails, Use, FailWith
<1>6. ASSUME NEW c \in Calls, Booted(c) \/ BootFails(c) PROVE LateFails'
  BY <1>6 DEF Booted, BootFails, WaitsFor
<1>7. CASE (\E t \in Tokens : Expire(t)) \/ StoreChanges \/ UNCHANGED vars
  BY <1>7 DEF Expire, StoreChanges
<1> QED
  BY <1>1, <1>2, <1>3, <1>4, <1>5, <1>6, <1>7 DEF Next, Resumes

\* AuthInv is an invariant of the calls.
THEOREM Invariance == Spec => []AuthInv
<1>1. AuthInv /\ [Next]_vars => AuthInv'
  BY TypeNext, PinNext, BootstrapNext, TokenNext, LateNext DEF AuthInv
<1> QED
  BY InvInit, <1>1, PTL DEF Spec

-----------------------------------------------------------------------------
(* The properties.                                                         *)

\* The variables keep their types (client.ts, auth/session.ts).
THEOREM TypeCorrect == Spec => []TypeOK
BY Invariance, PTL DEF AuthInv

\* The client is pinned exactly if a call failed to authenticate.
THEOREM PinnedIffRefusedHolds == Spec => []PinnedIffRefused
BY Invariance, PTL DEF AuthInv

\* At most one bootstrap runs at a time, however many calls want a session.
THEOREM OneBootstrapHolds == Spec => []OneBootstrap
BY Invariance, PTL DEF AuthInv

\* An auth token is never replaced by an exchange.
THEOREM AuthTokenNotExchangedHolds == Spec => []AuthTokenNotExchanged
BY Invariance, PTL DEF AuthInv

\* One step of a call does not begin an exchange on a pinned client, and a call
\* that began on one does not fill the store.
LEMMA PinStep ==
    ASSUME AuthInv, [Next]_vars, NEW c \in Calls
    PROVE  /\ pinned /\ phase'[c] = "exchanging" => phase[c] = "exchanging"
           /\ c \in late /\ phase'[c] # phase[c] => store' \in {store, Empty}
<1> DEFINE Goal == /\ pinned /\ phase'[c] = "exchanging" => phase[c] = "exchanging"
                   /\ c \in late /\ phase'[c] # phase[c] => store' \in {store, Empty}
<1> USE DEF AuthInv, TypeOK, LateFails
<1>1. ASSUME NEW d \in Calls, Start(d) \/ SetBearer(d) \/ Ensure(d) \/ Return(d) PROVE Goal
  BY <1>1 DEF Start, SetBearer, Ensure, Return, Go, FailWith
<1>2. ASSUME NEW d \in Calls, Loaded(d) \/ Saved(d) PROVE Goal
  BY <1>2 DEF Loaded, Saved, Decide, MayExchange, Use, Go, FailWith
<1>3. ASSUME NEW d \in Calls, Caught(d) \/ RunRefused(d) PROVE Goal
  BY <1>3 DEF Caught, RunRefused, Go, SignOut
<1>4. ASSUME NEW d \in Calls, Exchanged(d) \/ ExchangeFails(d) PROVE Goal
  BY <1>4 DEF Exchanged, ExchangeFails, Use, FailWith
<1>5. ASSUME NEW d \in Calls, Booted(d) \/ BootFails(d) PROVE Goal
  BY <1>5 DEF Booted, BootFails
<1>6. CASE (\E t \in Tokens : Expire(t)) \/ StoreChanges \/ UNCHANGED vars
  BY <1>6 DEF Expire, StoreChanges
<1> QED
  BY <1>1, <1>2, <1>3, <1>4, <1>5, <1>6 DEF Next, Resumes

\* Once pinned no exchange begins, whatever was under way.
THEOREM PinHoldsHolds == Spec => PinHolds
<1>1. AuthInv /\ [Next]_vars =>
        [\A c \in Calls :
          /\ pinned /\ phase'[c] = "exchanging" => phase[c] = "exchanging"
          /\ c \in late /\ phase'[c] # phase[c] => store' \in {store, Empty}]_vars
  BY PinStep
<1> QED
  BY Invariance, <1>1, PTL DEF Spec, PinHolds
=============================================================================
