---------------------------- MODULE AtLeastOnce ----------------------------
(***************************************************************************)
(* What internal/httpx promises its callers about one remote operation,   *)
(* with no network, no payload and no context: the request is sent at most *)
(* limit + 1 times while the call is active; each of these repetitions     *)
(* takes effect upstream at most once, at any later time - even after the  *)
(* call returned; a call succeeds with the effect of its last repetition;  *)
(* one that fails may or may not have had effects, and one that is refused *)
(* never has any.  HttpxClient implements this specification and CStore is *)
(* built on it.                                                            *)
(***************************************************************************)
EXTENDS Naturals

CONSTANTS
  Calls,      \* the calls made through the client
  MaxRetries  \* the client's RetryPolicy.MaxRetries, after NewClient

ASSUME MaxRetriesAssumption == MaxRetries \in Nat

VARIABLES
  outcome,    \* what the caller knows of each call
  limit,      \* how often the call may be repeated
  sent,       \* how often the request was sent
  effects     \* the repetitions of each call that took effect

absVars == <<outcome, limit, sent, effects>>

Outcomes == {"idle", "refused", "active", "ok", "failed"}

AbsTypeOK ==
  /\ outcome \in [Calls -> Outcomes]
  /\ limit   \in [Calls -> {0, MaxRetries}]
  /\ sent    \in [Calls -> 0..(MaxRetries + 1)]
  /\ effects \in [Calls -> SUBSET (0..MaxRetries)]

AbsInit ==
  /\ outcome = [c \in Calls |-> "idle"]
  /\ limit   = [c \in Calls |-> 0]
  /\ sent    = [c \in Calls |-> 0]
  /\ effects = [c \in Calls |-> {}]

\* The caller starts the call; how often it may be repeated is fixed then.
Start(c) ==
  /\ outcome[c] = "idle"
  /\ outcome' = [outcome EXCEPT ![c] = "active"]
  /\ \E n \in {0, MaxRetries} : limit' = [limit EXCEPT ![c] = n]
  /\ UNCHANGED <<sent, effects>>

\* The call is refused before anything leaves the process.
Refuse(c) ==
  /\ outcome[c] = "idle"
  /\ outcome' = [outcome EXCEPT ![c] = "refused"]
  /\ UNCHANGED <<limit, sent, effects>>

Send(c) ==
  /\ outcome[c] = "active"
  /\ sent[c] <= limit[c]
  /\ sent' = [sent EXCEPT ![c] = @ + 1]
  /\ UNCHANGED <<outcome, limit, effects>>

\* Repetition n takes effect, however long ago it was sent.
TakeEffect(c, n) ==
  /\ n < sent[c]
  /\ n \notin effects[c]
  /\ effects' = [effects EXCEPT ![c] = @ \cup {n}]
  /\ UNCHANGED <<outcome, limit, sent>>

LastTookEffect(c) == \E n \in effects[c] : n + 1 = sent[c]

Succeed(c) ==
  /\ outcome[c] = "active"
  /\ LastTookEffect(c)
  /\ outcome' = [outcome EXCEPT ![c] = "ok"]
  /\ UNCHANGED <<limit, sent, effects>>

Fail(c) ==
  /\ outcome[c] = "active"
  /\ outcome' = [outcome EXCEPT ![c] = "failed"]
  /\ UNCHANGED <<limit, sent, effects>>

AbsNext ==
  \E c \in Calls :
    \/ Start(c)   \/ Refuse(c) \/ Send(c)
    \/ Succeed(c) \/ Fail(c)
    \/ \E n \in 0..MaxRetries : TakeEffect(c, n)

AbsSpec == AbsInit /\ [][AbsNext]_absVars
=============================================================================
