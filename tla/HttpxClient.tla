---------------------------- MODULE HttpxClient ----------------------------
(***************************************************************************)
(* internal/httpx/client.go: Client.Do, its retry loop, and the reading   *)
(* of the response it returns (ReadAllAndClose).                           *)
(*                                                                         *)
(* Every call is one goroutine in Do with a *Request of its own; all share *)
(* one immutable Client.  A step ends where the goroutine can be held up   *)
(* or overtaken: at the network, at the timer, or at a look at the         *)
(* context.  The network is a set of requests in flight: one that is never *)
(* handled is lost, one handled after the client gave it up is late.       *)
(***************************************************************************)
EXTENDS Naturals, FiniteSets

CONSTANTS
  Calls,          \* the calls of Do
  MaxRetries,     \* retryPolicy.MaxRetries, normalised by NewClient
  RetryIfSet,     \* is retryPolicy.RetryIf non-nil?
  ClientTimeout   \* has the http.Client a Timeout (10s unless overridden)?

ASSUME MaxRetriesAssumption == MaxRetries \in Nat
ASSUME FlagsAssumption == RetryIfSet \in BOOLEAN /\ ClientTimeout \in BOOLEAN

VARIABLES
  pc,         \* where each goroutine is
  attempt,    \* the local variable attempt of Do
  req,        \* the caller's *Request, which Do modifies
  asked,      \* history: the caller's *Request as Do was given it
  ctx,        \* has the caller's context ended?
  err,        \* the error of the last attempt; when returned, of the call
  reply,      \* the status of the response to the current attempt
  openBodies, \* response bodies the goroutine opened and did not close
  wire,       \* requests in flight
  applied,    \* requests that took effect on the server
  sent,       \* history: attempts sent
  late        \* history: attempts sent after the context ended

localVars  == <<req, asked, openBodies>>
remoteVars == <<wire, applied>>
history    == <<sent, late>>
vars == <<pc, attempt, req, asked, ctx, err, reply, openBodies, wire,
          applied, sent, late>>

Locations == {"idle", "loop", "send", "wait", "response", "failed", "sleep",
              "returned"}

\* Classes of status codes: below 400; 4xx but for 408 and 429; 408 and 429;
\* 5xx.
FailureStatuses == {"clientError", "throttled", "serverError"}
Statuses == {"ok"} \cup FailureStatuses

\* "ctxError" is the error of the caller's ended context, "deadline" one of
\* http.Client.Timeout that matches context.DeadlineExceeded too, "invalid" an
\* error found before the first attempt, "transport" any other failure.
Errors == {"nil", "invalid", "ctxError", "deadline", "transport"}
            \cup FailureStatuses

Payloads == {"full", "empty"}
Messages == [call : Calls, attempt : 0..MaxRetries, payload : Payloads]

\* Where the payload is: Body (not nil) and GetBody (not nil).
RequestShapes == [disableRetry : BOOLEAN, body : BOOLEAN, getBody : BOOLEAN]

\* The request Do works with.  DisableRetry drops GetBody, whether there is a
\* Body or not; otherwise a lone Body is buffered, to be replayable.
Normalised(r) ==
  [disableRetry |-> r.disableRetry,
   body         |-> r.body,
   getBody      |-> ~r.disableRetry /\ (r.getBody \/ r.body)]

Init ==
  /\ pc         = [c \in Calls |-> "idle"]
  /\ attempt    = [c \in Calls |-> 0]
  /\ req        = [c \in Calls |-> [disableRetry |-> FALSE, body |-> FALSE,
                                    getBody |-> FALSE]]
  /\ asked      = req
  /\ ctx        = [c \in Calls |-> "live"]
  /\ err        = [c \in Calls |-> "nil"]
  /\ reply      = [c \in Calls |-> "none"]
  /\ openBodies = [c \in Calls |-> 0]
  /\ wire       = {}
  /\ applied    = {}
  /\ sent       = [c \in Calls |-> 0]
  /\ late       = [c \in Calls |-> 0]

(***************************************************************************)
(* The goroutine's own steps.                                              *)
(***************************************************************************)
GoTo(c, from, to) == pc[c] = from /\ pc' = [pc EXCEPT ![c] = to]

Return(c, from, e) ==
  GoTo(c, from, "returned") /\ err' = [err EXCEPT ![c] = e]

Begin(c, r) ==
  /\ GoTo(c, "idle", "loop")
  /\ req'   = [req EXCEPT ![c] = Normalised(r)]
  /\ asked' = [asked EXCEPT ![c] = r]
  /\ UNCHANGED <<attempt, ctx, err, reply, openBodies, wire, applied, history>>

\* No request, no method, an unreadable Body or an unparsable path.
Reject(c) ==
  /\ Return(c, "idle", "invalid")
  /\ UNCHANGED <<attempt, ctx, reply, localVars, remoteVars, history>>

\* Mutant: the loop does not look at the context before an attempt.
ContextIgnored(c) ==
  /\ GoTo(c, "loop", "send")
  /\ UNCHANGED <<attempt, ctx, err, reply, localVars, remoteVars, history>>

ContextLive(c) ==
  /\ GoTo(c, "loop", "send")
  /\ ctx[c] = "live"
  /\ UNCHANGED <<attempt, ctx, err, reply, localVars, remoteVars, history>>

ContextEnded(c) ==
  /\ Return(c, "loop", "ctxError")
  /\ ctx[c] = "done"
  /\ UNCHANGED <<attempt, ctx, reply, localVars, remoteVars, history>>

\* Mutant: a retry finds the Body used up by the first attempt.
PayloadOfBodyOnly(c) ==
  IF attempt[c] = 0 /\ req[c].body THEN "full" ELSE "empty"

\* prepareBody: Body serves the first attempt only, GetBody all others.
PreparedPayload(c) ==
  IF (attempt[c] = 0 /\ req[c].body) \/ req[c].getBody THEN "full" ELSE "empty"

\* It also sets Body to nil when it hands it out.
RequestLeft(c) ==
  [disableRetry |-> req[c].disableRetry,
   body         |-> req[c].body /\ attempt[c] # 0,
   getBody      |-> req[c].getBody]

SendAttempt(c) ==
  /\ GoTo(c, "send", "wait")
  /\ wire'  = wire \cup {[call |-> c, attempt |-> attempt[c],
                          payload |-> PreparedPayload(c)]}
  /\ req'   = [req EXCEPT ![c] = RequestLeft(c)]
  /\ reply' = [reply EXCEPT ![c] = "none"]
  /\ sent'  = [sent EXCEPT ![c] = @ + 1]
  /\ late'  = [late EXCEPT ![c] = IF ctx[c] = "done" THEN @ + 1 ELSE @]
  /\ UNCHANGED <<attempt, asked, ctx, err, openBodies, applied>>

ReceiveResponse(c) ==
  /\ GoTo(c, "wait", "response")
  /\ reply[c] # "none"
  /\ openBodies' = [openBodies EXCEPT ![c] = @ + 1]
  /\ UNCHANGED <<attempt, req, asked, ctx, err, reply, remoteVars, history>>

\* http.Client.Do fails: refused or broken connection, proxy, redirect.
AttemptFails(c) ==
  /\ GoTo(c, "wait", "failed")
  /\ err' = [err EXCEPT ![c] = "transport"]
  /\ UNCHANGED <<attempt, ctx, reply, localVars, remoteVars, history>>

\* Mutant: the request is built without the caller's context.
CutShortByTimeoutOnly(c) == ClientTimeout

\* Mutant: the http.Client is used without its Timeout.
CutShortByContextOnly(c) == ctx[c] = "done"

\* The error of an exchange cut short by the caller's context or by
\* http.Client.Timeout; whether the latter matches DeadlineExceeded depends
\* on the release of net/http (recent ones do).
CutShort(c) == ctx[c] = "done" \/ ClientTimeout
CutShortErrors(c) ==
  IF ctx[c] = "done" THEN {"ctxError"} ELSE {"deadline", "transport"}

AttemptTimesOut(c) ==
  /\ GoTo(c, "wait", "failed")
  /\ CutShort(c)
  /\ \E e \in CutShortErrors(c) : err' = [err EXCEPT ![c] = e]
  /\ UNCHANGED <<attempt, ctx, reply, localVars, remoteVars, history>>

\* Mutant: the body is read but not closed.
LeaveBodyOpen(c) == UNCHANGED openBodies

CloseBody(c) == openBodies' = [openBodies EXCEPT ![c] = @ - 1]

\* Mutant: only 5xx counts as a failure.
IsServerFailure(status) == status = "serverError"

IsFailure(status) == status \in FailureStatuses

\* HTTPError.Retryable, which nothing in the loop asks.
Retryable(status) == status \in {"throttled", "serverError"}

\* handleError: the status of the response, or the failure to read its body.
HandleError(c) ==
  /\ GoTo(c, "response", "failed")
  /\ IsFailure(reply[c])
  /\ \E e \in {reply[c], "transport"} : err' = [err EXCEPT ![c] = e]
  /\ CloseBody(c)
  /\ UNCHANGED <<attempt, req, asked, ctx, reply, remoteVars, history>>

\* Do returned the response; the caller reads it with ReadAllAndClose.
ReadResponse(c) ==
  /\ ~IsFailure(reply[c])
  /\ \E e \in {"nil", "transport"} : Return(c, "response", e)
  /\ CloseBody(c)
  /\ UNCHANGED <<attempt, req, asked, ctx, reply, remoteVars, history>>

\* Either read is cut short: only the one inside Do may lead to a retry.
ResponseTimesOut(c) ==
  /\ GoTo(c, "response",
          IF IsFailure(reply[c]) THEN "failed" ELSE "returned")
  /\ CutShort(c)
  /\ \E e \in CutShortErrors(c) : err' = [err EXCEPT ![c] = e]
  /\ CloseBody(c)
  /\ UNCHANGED <<attempt, req, asked, ctx, reply, remoteVars, history>>

\* shouldRetry.  Both call sites pass a non-nil err, so the tests of the
\* status code after the "err != nil" branch are never reached.  A RetryIf may
\* say either.  The default one cannot tell whose deadline it was.
SaysYes(c) == RetryIfSet \/ err[c] \notin {"ctxError", "deadline"}
SaysNo(c)  == RetryIfSet \/ err[c] \in {"ctxError", "deadline"}

\* Mutant: one retry too many.
MayRetryOnceMore(c) ==
  /\ ~req[c].disableRetry
  /\ attempt[c] <= MaxRetries
  /\ SaysYes(c)

\* Mutant: DisableRetry keeps the payload from being replayed only.
MayRetryRegardless(c) == attempt[c] < MaxRetries /\ SaysYes(c)

MayRetry(c) ==
  /\ ~req[c].disableRetry
  /\ attempt[c] < MaxRetries
  /\ SaysYes(c)

\* Mutant: one retry too few.
MayGiveUpEarly(c) ==
  \/ req[c].disableRetry
  \/ attempt[c] + 1 >= MaxRetries
  \/ SaysNo(c)

MayGiveUp(c) ==
  \/ req[c].disableRetry
  \/ attempt[c] >= MaxRetries
  \/ SaysNo(c)

\* Mutant: the loop does not count its attempts (a "continue" that skips the
\* increment).
RetryUncounted(c) ==
  /\ MayRetry(c)
  /\ GoTo(c, "failed", "sleep")
  /\ UNCHANGED <<attempt, ctx, err, reply, localVars, remoteVars, history>>

Retry(c) ==
  /\ MayRetry(c)
  /\ GoTo(c, "failed", "sleep")
  /\ attempt' = [attempt EXCEPT ![c] = @ + 1]
  /\ UNCHANGED <<ctx, err, reply, localVars, remoteVars, history>>

GiveUp(c) ==
  /\ MayGiveUp(c)
  /\ GoTo(c, "failed", "returned")
  /\ UNCHANGED <<attempt, ctx, err, reply, localVars, remoteVars, history>>

\* sleep: the timer fired (or the delay was not positive).  When the context
\* has ended too, select may choose either.
WakeUp(c) ==
  /\ GoTo(c, "sleep", "loop")
  /\ UNCHANGED <<attempt, ctx, err, reply, localVars, remoteVars, history>>

SleepCancelled(c) ==
  /\ Return(c, "sleep", "ctxError")
  /\ ctx[c] = "done"
  /\ UNCHANGED <<attempt, ctx, reply, localVars, remoteVars, history>>

(***************************************************************************)
(* The environment: the caller's context, and the upstream manager, which  *)
(* handles a request in flight at any time.  A server error may follow the *)
(* effect; the response reaches the client only while the attempt is the   *)
(* one it waits for.                                                       *)
(***************************************************************************)
CancelContext(c) ==
  /\ ctx[c] = "live"
  /\ pc[c] # "returned"
  /\ ctx' = [ctx EXCEPT ![c] = "done"]
  /\ UNCHANGED <<pc, attempt, err, reply, localVars, remoteVars, history>>

EffectsOf(status) ==
  CASE status = "ok"          -> {TRUE}
    [] status = "serverError" -> BOOLEAN
    [] OTHER                  -> {FALSE}

ServerHandles(m, status, effect) ==
  /\ m \in wire
  /\ wire'    = wire \ {m}
  /\ applied' = IF effect THEN applied \cup {m} ELSE applied
  /\ reply'   = IF pc[m.call] = "wait" /\ attempt[m.call] = m.attempt
                THEN [reply EXCEPT ![m.call] = status]
                ELSE reply
  /\ UNCHANGED <<pc, attempt, ctx, err, localVars, history>>

ClientStep(c) ==
  \/ \E r \in RequestShapes : Begin(c, r)
  \/ Reject(c)
  \/ ContextLive(c)     \/ ContextEnded(c) \/ SendAttempt(c)
  \/ ReceiveResponse(c) \/ AttemptFails(c) \/ AttemptTimesOut(c)
  \/ HandleError(c)     \/ ReadResponse(c) \/ ResponseTimesOut(c)
  \/ Retry(c)           \/ GiveUp(c)
  \/ WakeUp(c)          \/ SleepCancelled(c)

ServerStep ==
  \E m \in wire : \E status \in Statuses : \E effect \in EffectsOf(status) :
    ServerHandles(m, status, effect)

Next ==
  \/ \E c \in Calls : ClientStep(c) \/ CancelContext(c)
  \/ ServerStep

Spec == Init /\ [][Next]_vars

(***************************************************************************)
(* Fairness: the scheduler runs the goroutine, timers fire, and an         *)
(* exchange that the context or http.Client.Timeout cuts short ends.       *)
(* Nothing is promised of the network, of the server or of the caller.     *)
(***************************************************************************)
Unblocked(c) ==
  \/ ContextLive(c) \/ ContextEnded(c) \/ SendAttempt(c)
  \/ Retry(c)       \/ GiveUp(c)       \/ WakeUp(c)

Fairness ==
  \A c \in Calls : /\ WF_vars(Unblocked(c))
                   /\ WF_vars(AttemptTimesOut(c))
                   /\ WF_vars(ResponseTimesOut(c))

FairSpec == Spec /\ Fairness

-----------------------------------------------------------------------------
(***************************************************************************)
(* Properties.                                                             *)
(***************************************************************************)
TypeOK ==
  /\ pc         \in [Calls -> Locations]
  /\ attempt    \in [Calls -> 0..MaxRetries]
  /\ req        \in [Calls -> RequestShapes]
  /\ asked      \in [Calls -> RequestShapes]
  /\ ctx        \in [Calls -> {"live", "done"}]
  /\ err        \in [Calls -> Errors]
  /\ reply      \in [Calls -> Statuses \cup {"none"}]
  /\ openBodies \in [Calls -> Nat]
  /\ wire       \in SUBSET Messages
  /\ applied    \in SUBSET Messages
  /\ sent       \in [Calls -> Nat]
  /\ late       \in [Calls -> Nat]

\* What the caller supplied, by Body or by GetBody.
Supplied(r) == IF r.body \/ r.getBody THEN "full" ELSE "empty"

\* A payload that only GetBody can produce, with DisableRetry, is lost: Do sets
\* GetBody to nil and prepareBody falls through to http.NoBody.
PayloadLost(r) == r.disableRetry /\ r.getBody /\ ~r.body

Owed(r) == IF PayloadLost(r) THEN "empty" ELSE Supplied(r)

\* Every request that leaves the client, whichever attempt it belongs to,
\* carries the whole payload the caller supplied: the Body consumed by the
\* first attempt is replayed by all later ones (Do, prepareBody).  The one
\* exception is a payload supplied by GetBody alone with DisableRetry: it is
\* dropped without an error, and the request goes out empty.
BodyReplayed == \A m \in wire \cup applied : m.payload = Owed(asked[m.call])

\* No path through Do and ReadAllAndClose - success, error status, broken or
\* timed out read, retry, cancellation - leaves a response body open.
NoResponseLeaked == \A c \in Calls : pc[c] # "response" => openBodies[c] = 0

\* Once the caller's context has ended, at most the one attempt that had
\* already passed the check at the top of the loop goes out, whatever the
\* timer, the retry policy and the network do.
AtMostOneLateAttempt == \A c \in Calls : late[c] <= 1

AppliedBy(c) ==
  \E m \in applied : /\ m.call = c
                     /\ m.attempt = attempt[c]
                     /\ m.payload = Owed(asked[c])

\* A call that returns without error took effect on the server, in its last
\* attempt and with the payload the caller supplied - or with none at all,
\* where DisableRetry made Do drop what only GetBody could produce: that call
\* succeeds too.
OkMeansApplied ==
  \A c \in Calls : pc[c] = "returned" /\ err[c] = "nil" => AppliedBy(c)

\* With the default policy, a call that fails while it still had retries left
\* does so for one of three reasons.  The caller's context has ended.  Or an
\* exchange ran into http.Client.Timeout and the error matches
\* DeadlineExceeded: then a call is given up whose caller still waits, and
\* whether it took effect is open.  Or the successful response could not be
\* read, Do is over, and the call did take effect.
EarlyFailureExplained ==
  \A c \in Calls :
    /\ ~RetryIfSet /\ ~req[c].disableRetry
    /\ pc[c] = "returned" /\ attempt[c] < MaxRetries
    /\ err[c] \notin {"nil", "invalid"}
    => \/ err[c] = "ctxError" /\ ctx[c] = "done"
       \/ err[c] = "deadline" /\ ClientTimeout
       \/ AppliedBy(c)

\* error.go and RetryPolicy's comment: a retry follows only a failure that
\* may be transient, which a 4xx status other than 408 and 429 is not.
RetriesOnlyTransient ==
  [][\A c \in Calls :
       pc[c] = "failed" /\ pc'[c] = "sleep" /\ IsFailure(err[c])
       => Retryable(err[c])]_vars

\* The steps a call has left at most: six places to a round of the loop.
StepsLeft(c) ==
  IF pc[c] = "returned" THEN 0
  ELSE 6 * (MaxRetries - attempt[c])
       + CASE pc[c] = "idle"     -> 6
           [] pc[c] = "sleep"    -> 6
           [] pc[c] = "loop"     -> 5
           [] pc[c] = "send"     -> 4
           [] pc[c] = "wait"     -> 3
           [] pc[c] = "response" -> 2
           [] pc[c] = "failed"   -> 1

\* No call of Do can go round for ever: whatever the server, the timer, the
\* context and the retry policy do, each step of the goroutine brings it
\* nearer to its return, and nothing that others do takes it further away.
\* What is left of "every call returns" is that no step waits for ever.
LoopRunsDown ==
  [][\A c \in Calls : UNCHANGED <<pc[c], attempt[c]>>
                       \/ StepsLeft(c)' < StepsLeft(c)]_vars

\* With an http.Client that has a Timeout, every call that began returns,
\* whatever the network and the server do.
EveryCallReturns ==
  \A c \in Calls : pc[c] = "loop" ~> pc[c] = "returned"

\* Even without that Timeout, with a server that never answers and with a
\* RetryIf that always says yes, a call returns once its context has ended.
EndedContextReturns ==
  \A c \in Calls :
    pc[c] # "idle" /\ ctx[c] = "done" ~> pc[c] = "returned"

(***************************************************************************)
(* The promise to the callers: HttpxClient implements AtLeastOnce.         *)
(***************************************************************************)
OutcomeOf(c) ==
  CASE pc[c] = "idle"                           -> "idle"
    [] pc[c] = "returned" /\ err[c] = "nil"     -> "ok"
    [] pc[c] = "returned" /\ err[c] = "invalid" -> "refused"
    [] pc[c] = "returned"
       /\ err[c] \notin {"nil", "invalid"}      -> "failed"
    [] OTHER                                    -> "active"

LimitOf(c) ==
  IF pc[c] = "idle" \/ err[c] = "invalid" \/ req[c].disableRetry
  THEN 0 ELSE MaxRetries

EffectsOn(c) == {m.attempt : m \in {n \in applied : n.call = c}}

Promise == INSTANCE AtLeastOnce
             WITH outcome <- [c \in Calls |-> OutcomeOf(c)],
                  limit   <- [c \in Calls |-> LimitOf(c)],
                  sent    <- sent,
                  effects <- [c \in Calls |-> EffectsOn(c)]

\* Every behaviour of the retry loop is a behaviour of AtLeastOnce: bounded
\* repetitions, none after the call returned, no success without the effect
\* of the last one, no effect of a refused call.
ImplementsAtLeastOnce == Promise!AbsSpec
=============================================================================
