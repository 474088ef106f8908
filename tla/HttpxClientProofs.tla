------------------------- MODULE HttpxClientProofs -------------------------
(***************************************************************************)
(* Proofs about HttpxClient, for every set of calls, every MaxRetries and  *)
(* both values of the two flags.                                           *)
(***************************************************************************)
EXTENDS HttpxClient, TLAPS

(***************************************************************************)
(* The inductive invariant.  SentSoFar says which attempts the network can *)
(* hold, SentCounted how many there are given where the goroutine is;      *)
(* PayloadAtHand that the payload can  *)
(* still be produced whenever an attempt can still be sent; ReplyTold that *)
(* a success the goroutine can still learn of has taken effect.            *)
(***************************************************************************)
BeforeSending == {"loop", "send", "sleep"}

SentSoFar ==
  \A m \in wire \cup applied : m.attempt < sent[m.call]

SentCounted ==
  \A c \in Calls :
    /\ sent[c] <= attempt[c] + 1
    /\ pc[c] \in {"idle"} \cup BeforeSending => sent[c] = attempt[c]
    /\ pc[c] \in {"wait", "response", "failed"} => sent[c] = attempt[c] + 1
    /\ pc[c] = "returned" /\ err[c] = "nil" => sent[c] = attempt[c] + 1
    /\ err[c] = "invalid" => sent[c] = 0

PayloadAtHand ==
  \A c \in Calls :
    /\ req[c].disableRetry => attempt[c] = 0 /\ pc[c] # "sleep"
    /\ pc[c] # "idle" /\ err[c] # "invalid" =>
         IF Owed(asked[c]) = "empty"
         THEN ~req[c].body /\ ~req[c].getBody
         ELSE ~req[c].getBody =>
                /\ req[c].disableRetry
                /\ pc[c] \in BeforeSending => req[c].body

ErrorKnown ==
  \A c \in Calls :
    /\ pc[c] = "idle" => err[c] = "nil" /\ attempt[c] = 0
                          /\ ~req[c].disableRetry
    /\ err[c] = "invalid" => pc[c] = "returned" /\ ~req[c].disableRetry
    /\ pc[c] = "failed" => err[c] # "nil"
    /\ err[c] = "ctxError" => ctx[c] = "done"
    /\ err[c] = "deadline" => ClientTimeout

ReplyTold ==
  \A c \in Calls :
    /\ pc[c] = "response" => reply[c] # "none"
    /\ pc[c] \in {"wait", "response"} /\ reply[c] = "ok" => AppliedBy(c)

BodiesCounted ==
  \A c \in Calls : openBodies[c] = IF pc[c] = "response" THEN 1 ELSE 0

LateCounted ==
  \A c \in Calls :
    /\ late[c] <= 1
    /\ ctx[c] = "live" \/ pc[c] = "send" => late[c] = 0

IInv ==
  /\ TypeOK
  /\ SentSoFar
  /\ SentCounted
  /\ PayloadAtHand
  /\ ErrorKnown
  /\ BodyReplayed
  /\ ReplyTold
  /\ BodiesCounted
  /\ LateCounted
  /\ OkMeansApplied
  /\ EarlyFailureExplained

LEMMA InitIInv == Init => IInv
  BY MaxRetriesAssumption
  DEF Init, IInv, TypeOK, SentSoFar, SentCounted, PayloadAtHand, ErrorKnown,
      BodyReplayed, ReplyTold, BodiesCounted, LateCounted, OkMeansApplied, AppliedBy,
      EarlyFailureExplained, Locations, RequestShapes, Payloads, Errors,
      FailureStatuses, Statuses, Messages, BeforeSending

(***************************************************************************)
(* Every step preserves the invariant: one step of the proof per action.   *)
(***************************************************************************)
LEMMA StepIInv == IInv /\ [Next]_vars => IInv'
<1> SUFFICES ASSUME IInv, [Next]_vars PROVE IInv'
  OBVIOUS
<1> USE MaxRetriesAssumption, FlagsAssumption
    DEF IInv, TypeOK, Locations, RequestShapes, Payloads, Errors,
        FailureStatuses, Statuses, Messages, GoTo, Return, localVars,
        remoteVars
<1> USE DEF history, SentSoFar, SentCounted, PayloadAtHand, ErrorKnown, BodyReplayed, ReplyTold,
        BodiesCounted, LateCounted, OkMeansApplied, AppliedBy,
        EarlyFailureExplained, BeforeSending
<1>1. ASSUME NEW c \in Calls, NEW r \in RequestShapes, Begin(c, r) PROVE IInv'
  <2>1. \A m \in wire \cup applied : m.call # c
    BY <1>1 DEF Begin
  <2>2. asked[c]' = r /\ req[c]' = Normalised(r)
    BY <1>1 DEF Begin
  <2>3. \A d \in Calls \ {c} : /\ asked[d]' = asked[d] /\ req[d]' = req[d]
                              /\ pc[d]' = pc[d]
    BY <1>1 DEF Begin
  <2>4. TypeOK'
    BY <1>1 DEF Begin, Normalised
  <2>5. BodyReplayed'
    BY <1>1, <2>1, <2>3 DEF Begin
  <2>6. PayloadAtHand'
    BY <1>1, <2>2, <2>3 DEF Begin, Normalised, Owed, Supplied, PayloadLost
  <2>7. OkMeansApplied' /\ EarlyFailureExplained' /\ ReplyTold'
    BY <1>1, <2>1, <2>3 DEF Begin
  <2>8. /\ SentSoFar' /\ SentCounted' /\ ErrorKnown' /\ BodiesCounted'
        /\ LateCounted'
    BY <1>1, <2>2 DEF Begin, Normalised
  <2> QED
    BY <2>4, <2>5, <2>6, <2>7, <2>8
<1>2. ASSUME NEW c \in Calls, Reject(c) PROVE IInv'
  BY <1>2 DEF Reject
<1>3. ASSUME NEW c \in Calls, ContextLive(c) PROVE IInv'
  BY <1>3 DEF ContextLive
<1>4. ASSUME NEW c \in Calls, ContextEnded(c) PROVE IInv'
  BY <1>4 DEF ContextEnded
<1>5. ASSUME NEW c \in Calls, SendAttempt(c) PROVE IInv'
  <2> DEFINE m == [call |-> c, attempt |-> attempt[c],
                   payload |-> PreparedPayload(c)]
  <2>1. TypeOK'
    BY <1>5 DEF SendAttempt, PreparedPayload, RequestLeft
  <2>2. Owed(asked[c]) \in Payloads
    BY DEF Owed, Supplied
  <2>3. m.call = c /\ m.attempt = attempt[c] /\ m.payload = Owed(asked[c])
    BY <1>5, <2>2 DEF SendAttempt, PreparedPayload
  <2>4. SentSoFar' /\ SentCounted'
    BY <1>5, <2>3 DEF SendAttempt
  <2>5. BodyReplayed'
    BY <1>5, <2>3 DEF SendAttempt
  <2>6. PayloadAtHand'
    BY <1>5 DEF SendAttempt, RequestLeft
  <2>7. /\ ErrorKnown' /\ ReplyTold' /\ BodiesCounted' /\ LateCounted'
        /\ OkMeansApplied' /\ EarlyFailureExplained'
    BY <1>5 DEF SendAttempt, RequestLeft
  <2> QED
    BY <2>1, <2>4, <2>5, <2>6, <2>7
<1>6. ASSUME NEW c \in Calls, ReceiveResponse(c) PROVE IInv'
  BY <1>6 DEF ReceiveResponse
<1>7. ASSUME NEW c \in Calls, AttemptFails(c) PROVE IInv'
  BY <1>7 DEF AttemptFails
<1>8. ASSUME NEW c \in Calls, AttemptTimesOut(c) PROVE IInv'
  BY <1>8 DEF AttemptTimesOut, CutShort, CutShortErrors
<1>9. ASSUME NEW c \in Calls, HandleError(c) PROVE IInv'
  BY <1>9 DEF HandleError, CloseBody, IsFailure
<1>10. ASSUME NEW c \in Calls, ReadResponse(c) PROVE IInv'
  BY <1>10 DEF ReadResponse, CloseBody, IsFailure
<1>11. ASSUME NEW c \in Calls, ResponseTimesOut(c) PROVE IInv'
  BY <1>11 DEF ResponseTimesOut, CloseBody, IsFailure, CutShort, CutShortErrors
<1>12. ASSUME NEW c \in Calls, Retry(c) PROVE IInv'
  BY <1>12 DEF Retry, MayRetry
<1>13. ASSUME NEW c \in Calls, GiveUp(c) PROVE IInv'
  <2>1. ~RetryIfSet /\ ~req[c].disableRetry /\ attempt[c] < MaxRetries
        => err[c] \in {"ctxError", "deadline"}
    BY <1>13 DEF GiveUp, MayGiveUp, SaysNo
  <2>2. EarlyFailureExplained' /\ OkMeansApplied'
    BY <1>13, <2>1 DEF GiveUp
  <2>3. /\ TypeOK' /\ SentSoFar' /\ SentCounted' /\ PayloadAtHand' /\ ErrorKnown'
        /\ BodyReplayed' /\ ReplyTold' /\ BodiesCounted' /\ LateCounted'
    BY <1>13 DEF GiveUp
  <2> QED
    BY <2>2, <2>3
<1>14. ASSUME NEW c \in Calls, WakeUp(c) PROVE IInv'
  BY <1>14 DEF WakeUp
<1>15. ASSUME NEW c \in Calls, SleepCancelled(c) PROVE IInv'
  BY <1>15 DEF SleepCancelled
<1>16. ASSUME NEW c \in Calls, CancelContext(c) PROVE IInv'
  BY <1>16 DEF CancelContext
<1>17. ASSUME NEW m \in wire, NEW status \in Statuses,
              NEW effect \in EffectsOf(status),
              ServerHandles(m, status, effect)
       PROVE  IInv'
  <2>1. m \in Messages /\ m.call \in Calls
    OBVIOUS
  <2>2. status = "ok" => effect
    BY DEF EffectsOf
  <2>3. wire' \cup applied' \subseteq wire \cup applied
    BY <1>17 DEF ServerHandles
  <2>4. applied \subseteq applied'
    BY <1>17 DEF ServerHandles
  <2>5. TypeOK' /\ SentSoFar' /\ SentCounted' /\ BodyReplayed'
    BY <1>17, <2>1, <2>3 DEF ServerHandles
  <2>6. ReplyTold'
    BY <1>17, <2>1, <2>2, <2>4 DEF ServerHandles
  <2>7. OkMeansApplied' /\ EarlyFailureExplained'
    BY <1>17, <2>4 DEF ServerHandles
  <2>8. PayloadAtHand' /\ ErrorKnown' /\ BodiesCounted' /\ LateCounted'
    BY <1>17 DEF ServerHandles
  <2> QED
    BY <2>5, <2>6, <2>7, <2>8
<1>18. CASE UNCHANGED vars
  BY <1>18 DEF vars
<1> QED
  BY <1>1, <1>2, <1>3, <1>4, <1>5, <1>6, <1>7, <1>8, <1>9, <1>10, <1>11,
     <1>12, <1>13, <1>14, <1>15, <1>16, <1>17, <1>18
  DEF Next, ClientStep, ServerStep

LEMMA Invariance == Spec => []IInv
  BY InitIInv, StepIInv, PTL DEF Spec

-----------------------------------------------------------------------------
\* Every variable keeps its type; in particular attempt never passes
\* MaxRetries.
THEOREM TypeCorrect == Spec => []TypeOK
  BY Invariance, PTL DEF IInv

\* Of any number of calls and retries, every request that leaves the client
\* carries the payload its caller supplied, whole; only a payload that GetBody
\* alone can produce is dropped under DisableRetry, and then the request is
\* empty (Do, prepareBody).
THEOREM BodyIsReplayed == Spec => []BodyReplayed
  BY Invariance, PTL DEF IInv

\* No path through Do and ReadAllAndClose leaves a response body open.
THEOREM NoLeak == Spec => []NoResponseLeaked
<1>1. IInv => NoResponseLeaked
  BY DEF IInv, BodiesCounted, NoResponseLeaked
<1> QED
  BY <1>1, Invariance, PTL

\* After the caller's context ended at most one more attempt is sent.
THEOREM OneLateAttempt == Spec => []AtMostOneLateAttempt
<1>1. IInv => AtMostOneLateAttempt
  BY DEF IInv, LateCounted, AtMostOneLateAttempt
<1> QED
  BY <1>1, Invariance, PTL

\* Success was applied in the last attempt, with the caller's payload, or with
\* none where DisableRetry made Do drop what only GetBody could produce.
THEOREM OkWasApplied == Spec => []OkMeansApplied
  BY Invariance, PTL DEF IInv

\* Under the default policy, a failure with retries left has one of three
\* reasons: the context of the caller has ended, http.Client.Timeout struck
\* with an error that passes for that, or the response to a request that took
\* effect could not be read.
THEOREM EarlyFailureHasReason == Spec => []EarlyFailureExplained
  BY Invariance, PTL DEF IInv

-----------------------------------------------------------------------------
(***************************************************************************)
(* The loop runs down: the part of termination that needs no fairness.     *)
(* StepsLeft is a natural number, the goroutine's own steps lower it and   *)
(* no step of another goroutine, of the caller or of the server touches    *)
(* what it is made of.                                                     *)
(***************************************************************************)
LEMMA StepsLeftNat ==
  ASSUME IInv, NEW c \in Calls
  PROVE  StepsLeft(c) \in 0 .. 6 * MaxRetries + 6
  BY MaxRetriesAssumption DEF IInv, TypeOK, Locations, StepsLeft

\* Any step of c to a later place of the same round, or to the return.
LEMMA SameRound ==
  ASSUME IInv, NEW c \in Calls, attempt' = attempt, pc[c] # "returned",
         \/ pc'[c] = "returned"
         \/ pc[c] \in {"idle", "sleep"} /\ pc'[c] = "loop"
         \/ pc[c] = "loop" /\ pc'[c] = "send"
         \/ pc[c] = "send" /\ pc'[c] = "wait"
         \/ pc[c] = "wait" /\ pc'[c] \in {"response", "failed"}
         \/ pc[c] = "response" /\ pc'[c] = "failed"
  PROVE  StepsLeft(c)' < StepsLeft(c)
  BY MaxRetriesAssumption DEF IInv, TypeOK, Locations, StepsLeft

\* A retry pays for the six places of the next round with one attempt.
LEMMA NextRound ==
  ASSUME IInv, NEW c \in Calls, Retry(c)
  PROVE  StepsLeft(c)' < StepsLeft(c)
<1>1. attempt[c] \in 0..MaxRetries /\ attempt'[c] = attempt[c] + 1
  BY DEF IInv, TypeOK, Retry
<1>2. pc[c] = "failed" /\ pc'[c] = "sleep"
  BY DEF IInv, TypeOK, Retry, GoTo
<1>3. /\ StepsLeft(c)  = 6 * (MaxRetries - attempt[c]) + 1
      /\ StepsLeft(c)' = 6 * (MaxRetries - (attempt[c] + 1)) + 6
  BY <1>1, <1>2 DEF StepsLeft
<1> QED
  BY <1>1, <1>3, MaxRetriesAssumption

LEMMA StepRunsDown ==
  ASSUME IInv, [Next]_vars, NEW c \in Calls
  PROVE  UNCHANGED <<pc[c], attempt[c]>> \/ StepsLeft(c)' < StepsLeft(c)
<1> USE DEF IInv, TypeOK, GoTo, Return
<1>1. ASSUME NEW d \in Calls, ClientStep(d), d # c
      PROVE  UNCHANGED <<pc[c], attempt[c]>>
  BY <1>1 DEF ClientStep, Begin, Reject, ContextLive, ContextEnded,
              SendAttempt, ReceiveResponse, AttemptFails, AttemptTimesOut,
              HandleError, ReadResponse, ResponseTimesOut, Retry, GiveUp,
              WakeUp, SleepCancelled
<1>2. CASE ClientStep(c) /\ ~Retry(c)
  <2>1. attempt' = attempt /\ pc[c] # "returned"
    BY <1>2 DEF ClientStep, Begin, Reject, ContextLive, ContextEnded,
                SendAttempt, ReceiveResponse, AttemptFails, AttemptTimesOut,
                HandleError, ReadResponse, ResponseTimesOut, GiveUp, WakeUp,
                SleepCancelled
  <2>2. \/ pc'[c] = "returned"
        \/ pc[c] \in {"idle", "sleep"} /\ pc'[c] = "loop"
        \/ pc[c] = "loop" /\ pc'[c] = "send"
        \/ pc[c] = "send" /\ pc'[c] = "wait"
        \/ pc[c] = "wait" /\ pc'[c] \in {"response", "failed"}
        \/ pc[c] = "response" /\ pc'[c] = "failed"
    BY <1>2 DEF ClientStep, Begin, Reject, ContextLive, ContextEnded,
                SendAttempt, ReceiveResponse, AttemptFails, AttemptTimesOut,
                HandleError, ReadResponse, ResponseTimesOut, GiveUp, WakeUp,
                SleepCancelled
  <2> QED
    BY <2>1, <2>2, SameRound
<1>3. CASE Retry(c)
  BY <1>3, NextRound
<1>4. ASSUME NEW d \in Calls, CancelContext(d)
      PROVE  UNCHANGED <<pc[c], attempt[c]>>
  BY <1>4 DEF CancelContext
<1>5. CASE ServerStep
  BY <1>5 DEF ServerStep, ServerHandles
<1>6. CASE UNCHANGED vars
  BY <1>6 DEF vars
<1> QED
  BY <1>1, <1>2, <1>3, <1>4, <1>5, <1>6 DEF Next

\* No call of Do goes round for ever: with any number of goroutines, any
\* MaxRetries, any RetryIf and any server, each step of a call lowers a
\* natural number that nobody else can raise, so that a call makes at most
\* 6 * MaxRetries + 6 steps.
THEOREM LoopTerminates ==
  Spec => LoopRunsDown /\ [](\A c \in Calls :
                               StepsLeft(c) \in 0 .. 6 * MaxRetries + 6)
<1>1. IInv /\ [Next]_vars
      => [\A c \in Calls : UNCHANGED <<pc[c], attempt[c]>>
                            \/ StepsLeft(c)' < StepsLeft(c)]_vars
  BY StepRunsDown
<1>2. IInv => \A c \in Calls : StepsLeft(c) \in 0 .. 6 * MaxRetries + 6
  BY StepsLeftNat
<1> QED
  BY <1>1, <1>2, Invariance, PTL DEF Spec, LoopRunsDown

(***************************************************************************)
(* The refinement: Begin maps to Start, Reject to Refuse, SendAttempt to   *)
(* Send, the server's effects to TakeEffect, the steps of the goroutine    *)
(* that return to Succeed or Fail and all others to stuttering.            *)
(***************************************************************************)
LEMMA InitRefines == Init => Promise!AbsInit
  BY DEF Init, Promise!AbsInit, OutcomeOf, LimitOf, EffectsOn

\* A step of c that leaves the others, the requests and the network alone.
LEMMA OutcomeStep ==
  ASSUME NEW c \in Calls, IInv, UNCHANGED <<applied, req, sent>>,
         \A d \in Calls \ {c} : pc'[d] = pc[d] /\ err'[d] = err[d],
         pc[c] \notin {"idle", "returned"}, pc'[c] # "idle",
         err'[c] # "invalid",
         pc'[c] = "returned" /\ err'[c] = "nil" =>
           AppliedBy(c) /\ sent[c] = attempt[c] + 1
  PROVE  [Promise!AbsNext]_(Promise!absVars)
<1>1. \A d \in Calls : EffectsOn(d)' = EffectsOn(d)
  BY DEF EffectsOn
<1>2. \A d \in Calls : LimitOf(d)' = LimitOf(d)
  BY DEF LimitOf, IInv, ErrorKnown
<1>3. \A d \in Calls \ {c} : OutcomeOf(d)' = OutcomeOf(d)
  BY DEF OutcomeOf
<1>4. OutcomeOf(c) = "active"
  BY DEF OutcomeOf
<1>5. OutcomeOf(c)' \in {"active", "ok", "failed"}
  BY DEF OutcomeOf
<1>6. ASSUME OutcomeOf(c)' = "ok"
      PROVE  \E n \in EffectsOn(c) : n + 1 = sent[c]
  <2>1. pc'[c] = "returned" /\ err'[c] = "nil"
    BY <1>6 DEF OutcomeOf
  <2>2. attempt[c] \in EffectsOn(c)
    BY <2>1 DEF AppliedBy, EffectsOn
  <2> QED
    BY <2>1, <2>2
<1>7. CASE OutcomeOf(c)' = "active"
  <2>1. UNCHANGED Promise!absVars
    BY <1>1, <1>2, <1>3, <1>4, <1>7 DEF Promise!absVars
  <2> QED
    BY <2>1
<1>8. CASE OutcomeOf(c)' = "ok"
  <2>1. Promise!Succeed(c)
    BY <1>1, <1>2, <1>3, <1>4, <1>6, <1>8
    DEF Promise!Succeed, Promise!LastTookEffect
  <2> QED
    BY <2>1 DEF Promise!AbsNext
<1>9. CASE OutcomeOf(c)' = "failed"
  <2>1. Promise!Fail(c)
    BY <1>1, <1>2, <1>3, <1>4, <1>9 DEF Promise!Fail
  <2> QED
    BY <2>1 DEF Promise!AbsNext
<1> QED
  BY <1>5, <1>7, <1>8, <1>9

\* Begin fixes how often the call may be repeated.
LEMMA BeginStep ==
  ASSUME NEW c \in Calls, NEW r \in RequestShapes, IInv, Begin(c, r)
  PROVE  Promise!Start(c)
<1>1. \A d \in Calls : EffectsOn(d)' = EffectsOn(d)
  BY DEF Begin, remoteVars, EffectsOn
<1>2. \A d \in Calls \ {c} : /\ LimitOf(d)' = LimitOf(d)
                            /\ OutcomeOf(d)' = OutcomeOf(d)
  BY DEF Begin, GoTo, LimitOf, OutcomeOf, IInv, TypeOK
<1>3. OutcomeOf(c) = "idle" /\ OutcomeOf(c)' = "active"
  BY DEF Begin, GoTo, OutcomeOf, IInv, TypeOK
<1>4. LimitOf(c)' \in {0, MaxRetries}
  BY DEF LimitOf
<1> QED
  BY <1>1, <1>2, <1>3, <1>4 DEF Begin, history, Promise!Start

LEMMA RejectStep ==
  ASSUME NEW c \in Calls, IInv, Reject(c)
  PROVE  Promise!Refuse(c)
<1>1. \A d \in Calls : EffectsOn(d)' = EffectsOn(d)
  BY DEF Reject, remoteVars, EffectsOn
<1>2. \A d \in Calls \ {c} : OutcomeOf(d)' = OutcomeOf(d)
  BY DEF Reject, Return, GoTo, OutcomeOf, IInv, TypeOK
<1>3. OutcomeOf(c) = "idle" /\ OutcomeOf(c)' = "refused"
  BY DEF Reject, Return, GoTo, OutcomeOf, IInv, TypeOK
<1>4. \A d \in Calls : LimitOf(d)' = LimitOf(d)
  BY DEF Reject, Return, GoTo, localVars, LimitOf, IInv, TypeOK
<1> QED
  BY <1>1, <1>2, <1>3, <1>4 DEF Reject, history, Promise!Refuse

\* The limit holds: no attempt is sent after attempt MaxRetries, and only
\* attempt 0 with DisableRetry.
LEMMA SendStep ==
  ASSUME NEW c \in Calls, IInv, SendAttempt(c)
  PROVE  Promise!Send(c)
<1>1. \A d \in Calls : EffectsOn(d)' = EffectsOn(d)
  BY DEF SendAttempt, EffectsOn
<1>2. \A d \in Calls : OutcomeOf(d)' = OutcomeOf(d)
  BY DEF SendAttempt, GoTo, OutcomeOf, IInv, TypeOK
<1>3. \A d \in Calls : req[d].disableRetry' = req[d].disableRetry
  BY DEF SendAttempt, RequestLeft, IInv, TypeOK
<1>4. \A d \in Calls : LimitOf(d)' = LimitOf(d)
  BY <1>3 DEF SendAttempt, GoTo, LimitOf, IInv, TypeOK
<1>5. OutcomeOf(c) = "active"
  BY DEF SendAttempt, GoTo, OutcomeOf
<1>6. sent[c] <= LimitOf(c)
  BY MaxRetriesAssumption
  DEF SendAttempt, GoTo, IInv, TypeOK, SentCounted, BeforeSending,
      PayloadAtHand, ErrorKnown, LimitOf
<1> QED
  BY <1>1, <1>2, <1>4, <1>5, <1>6 DEF SendAttempt, Promise!Send

\* A request handled late stays within the repetitions that were sent.
LEMMA ServerHandlesStep ==
  ASSUME NEW m \in wire, NEW status \in Statuses, NEW effect \in BOOLEAN,
         IInv, ServerHandles(m, status, effect)
  PROVE  [Promise!AbsNext]_(Promise!absVars)
<1> DEFINE c == m.call
<1>1. c \in Calls /\ m.attempt \in 0..MaxRetries
  BY DEF IInv, TypeOK, Messages
<1>2. /\ \A d \in Calls : OutcomeOf(d)' = OutcomeOf(d)
                         /\ LimitOf(d)' = LimitOf(d)
      /\ sent' = sent
  BY DEF ServerHandles, localVars, history, OutcomeOf, LimitOf
<1>3. \A d \in Calls \ {c} : EffectsOn(d)' = EffectsOn(d)
  BY DEF ServerHandles, EffectsOn
<1>4. \/ EffectsOn(c)' = EffectsOn(c)
      \/ EffectsOn(c)' = EffectsOn(c) \cup {m.attempt}
  BY DEF ServerHandles, EffectsOn
<1>5. m.attempt < sent[c]
  BY DEF IInv, SentSoFar
<1>6. CASE EffectsOn(c)' = EffectsOn(c)
  BY <1>2, <1>3, <1>6 DEF Promise!absVars
<1>7. CASE EffectsOn(c)' # EffectsOn(c)
  <2>1. Promise!TakeEffect(c, m.attempt)
    BY <1>1, <1>2, <1>3, <1>4, <1>5, <1>7 DEF Promise!TakeEffect
  <2> QED
    BY <1>1, <2>1 DEF Promise!AbsNext
<1> QED
  BY <1>6, <1>7

LEMMA StepRefines ==
  ASSUME IInv, [Next]_vars
  PROVE  [Promise!AbsNext]_(Promise!absVars)
<1> USE DEF IInv, TypeOK, GoTo, Return, localVars, remoteVars, history
<1>1. ASSUME NEW c \in Calls, NEW r \in RequestShapes, Begin(c, r)
      PROVE  [Promise!AbsNext]_(Promise!absVars)
  BY <1>1, BeginStep DEF Promise!AbsNext
<1>2. ASSUME NEW c \in Calls, Reject(c)
      PROVE  [Promise!AbsNext]_(Promise!absVars)
  BY <1>2, RejectStep DEF Promise!AbsNext
<1>3. ASSUME NEW c \in Calls, SendAttempt(c)
      PROVE  [Promise!AbsNext]_(Promise!absVars)
  BY <1>3, SendStep DEF Promise!AbsNext
<1>4. ASSUME NEW c \in Calls,
             \/ ContextLive(c) \/ ContextEnded(c) \/ WakeUp(c)
             \/ SleepCancelled(c) \/ Retry(c) \/ GiveUp(c)
      PROVE  [Promise!AbsNext]_(Promise!absVars)
  <2>1. /\ UNCHANGED <<applied, req, sent>>
        /\ \A d \in Calls \ {c} : pc'[d] = pc[d] /\ err'[d] = err[d]
    BY <1>4 DEF ContextLive, ContextEnded, WakeUp, SleepCancelled, Retry,
                GiveUp
  <2>2. pc[c] \notin {"idle", "returned"} /\ pc'[c] # "idle"
    BY <1>4 DEF ContextLive, ContextEnded, WakeUp, SleepCancelled, Retry,
                GiveUp
  <2>3. err'[c] # "invalid" /\ ~(pc'[c] = "returned" /\ err'[c] = "nil")
    BY <1>4 DEF ContextLive, ContextEnded, WakeUp, SleepCancelled, Retry,
                GiveUp, ErrorKnown
  <2> QED
    BY <2>1, <2>2, <2>3, OutcomeStep
<1>5. ASSUME NEW c \in Calls,
             \/ ReceiveResponse(c) \/ AttemptFails(c) \/ AttemptTimesOut(c)
             \/ HandleError(c) \/ ResponseTimesOut(c)
      PROVE  [Promise!AbsNext]_(Promise!absVars)
  <2>1. /\ UNCHANGED <<applied, req, sent>>
        /\ \A d \in Calls \ {c} : pc'[d] = pc[d] /\ err'[d] = err[d]
    BY <1>5 DEF ReceiveResponse, AttemptFails, AttemptTimesOut, HandleError,
                ResponseTimesOut
  <2>2. pc[c] \notin {"idle", "returned"} /\ pc'[c] # "idle"
    BY <1>5 DEF ReceiveResponse, AttemptFails, AttemptTimesOut, HandleError,
                ResponseTimesOut
  <2>3. err'[c] # "invalid" /\ ~(pc'[c] = "returned" /\ err'[c] = "nil")
    BY <1>5 DEF ReceiveResponse, AttemptFails, AttemptTimesOut, HandleError,
                ResponseTimesOut, CutShortErrors, IsFailure, FailureStatuses,
                ErrorKnown
  <2> QED
    BY <2>1, <2>2, <2>3, OutcomeStep
<1>6. ASSUME NEW c \in Calls, ReadResponse(c)
      PROVE  [Promise!AbsNext]_(Promise!absVars)
  <2>1. /\ UNCHANGED <<applied, req, sent>>
        /\ \A d \in Calls \ {c} : pc'[d] = pc[d] /\ err'[d] = err[d]
        /\ pc[c] \notin {"idle", "returned"} /\ pc'[c] # "idle"
        /\ err'[c] # "invalid"
    BY <1>6 DEF ReadResponse
  <2>2. AppliedBy(c) /\ sent[c] = attempt[c] + 1
    BY <1>6 DEF ReadResponse, ReplyTold, SentCounted, IsFailure, Statuses
  <2> QED
    BY <2>1, <2>2, OutcomeStep
<1>7. ASSUME NEW c \in Calls, CancelContext(c)
      PROVE  [Promise!AbsNext]_(Promise!absVars)
  <2>1. /\ \A d \in Calls : /\ OutcomeOf(d)' = OutcomeOf(d)
                           /\ LimitOf(d)' = LimitOf(d)
                           /\ EffectsOn(d)' = EffectsOn(d)
        /\ sent' = sent
    BY <1>7 DEF CancelContext, history, OutcomeOf, LimitOf, EffectsOn
  <2>2. UNCHANGED Promise!absVars
    BY <2>1 DEF Promise!absVars
  <2> QED
    BY <2>2
<1>8. ASSUME NEW m \in wire, NEW status \in Statuses,
             NEW effect \in EffectsOf(status),
             ServerHandles(m, status, effect)
      PROVE  [Promise!AbsNext]_(Promise!absVars)
  <2>1. effect \in BOOLEAN
    BY DEF EffectsOf
  <2> QED
    BY <1>8, <2>1, ServerHandlesStep
<1>9. CASE UNCHANGED vars
  <2>1. /\ \A d \in Calls : /\ OutcomeOf(d)' = OutcomeOf(d)
                           /\ LimitOf(d)' = LimitOf(d)
                           /\ EffectsOn(d)' = EffectsOn(d)
        /\ sent' = sent
    BY <1>9 DEF vars, OutcomeOf, LimitOf, EffectsOn
  <2>2. UNCHANGED Promise!absVars
    BY <2>1 DEF Promise!absVars
  <2> QED
    BY <2>2
<1> QED
  BY <1>1, <1>2, <1>3, <1>4, <1>5, <1>6, <1>7, <1>8, <1>9
  DEF Next, ClientStep, ServerStep

\* The retry loop, the reading of the response, cancellation and a network
\* that delays or loses requests together keep the promise of AtLeastOnce.
THEOREM Implementation == Spec => ImplementsAtLeastOnce
<1>1. IInv /\ [Next]_vars => [Promise!AbsNext]_(Promise!absVars)
  BY StepRefines
<1> QED
  BY <1>1, InitRefines, Invariance, PTL
  DEF Spec, ImplementsAtLeastOnce, Promise!AbsSpec
=============================================================================
