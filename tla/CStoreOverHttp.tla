--------------------------- MODULE CStoreOverHttp ---------------------------
(***************************************************************************)
(* pkg/cstore on internal/httpx itself: the operations of CStore, each in  *)
(* the goroutine that runs the retry loop of HttpxClient, with its context *)
(* and its response bodies, in the place of the contract AtLeastOnce.      *)
(*                                                                         *)
(* Every step is one of the loop, joined by what it means to the layer     *)
(* above: the body a response carries, and what the operation returns when *)
(* the loop is over.                                                       *)
(***************************************************************************)
EXTENDS HttpxClient

CONSTANTS Keys, HashKeys, Fields, Blank, Values, Kinds, Emptied, Missing

VARIABLES op, answer, result, stored, writer, accepted, before

storeVars == <<op, answer, result, stored, writer, accepted, before>>
allVars   == <<vars, storeVars>>

Store == INSTANCE CStore
           WITH outcome <- [c \in Calls |-> OutcomeOf(c)],
                limit   <- [c \in Calls |-> LimitOf(c)],
                effects <- [c \in Calls |-> EffectsOn(c)]

\* What CStore assumes of its values.
ASSUME StoreAssumption ==
  /\ Emptied \in BOOLEAN
  /\ Values \subseteq Store!JSONTexts
  /\ Missing \notin Store!JSONTexts

OverHttpInit ==
  /\ Init
  /\ op       = [c \in Calls |-> Store!NoOperation]
  /\ answer   = [c \in Calls |-> Store!NoAnswer]
  /\ result   = [c \in Calls |-> Store!Pending]
  /\ stored   = [s \in Store!Slots |-> Missing]
  /\ writer   = [s \in Store!Slots |-> Missing]
  /\ accepted = {}
  /\ before   = [c \in Calls |-> {}]

(***************************************************************************)
(* The client.                                                             *)
(***************************************************************************)
\* A write is a POST with Body and GetBody, a read a GET without either; no
\* operation sets DisableRetry.
RequestOf(o) ==
  [disableRetry |-> FALSE,
   body         |-> Store!IsWrite(o),
   getBody      |-> Store!IsWrite(o)]

CallStore(c, o) ==
  /\ Store!Valid(o)
  /\ Begin(c, RequestOf(o))
  /\ op'     = [op EXCEPT ![c] = o]
  /\ before' = [before EXCEPT ![c] = Store!Returned]
  /\ UNCHANGED <<answer, result, stored, writer, accepted>>

\* The early returns of the operation, and those of Do.
RefuseCall(c, o) ==
  /\ Reject(c)
  /\ op'     = [op EXCEPT ![c] = o]
  /\ result' = [result EXCEPT ![c] = Store!Error]
  /\ before' = [before EXCEPT ![c] = Store!Returned]
  /\ UNCHANGED <<answer, stored, writer, accepted>>

\* Inside Do, and between its attempts.
LoopStep(c) ==
  /\ \/ ContextLive(c)  \/ ReceiveResponse(c)
     \/ AttemptFails(c) \/ AttemptTimesOut(c)
     \/ HandleError(c)  \/ ResponseTimesOut(c)
     \/ Retry(c)        \/ WakeUp(c)
  /\ pc'[c] # "returned"
  /\ UNCHANGED storeVars

SendRequest(c) ==
  /\ SendAttempt(c)
  /\ answer' = [answer EXCEPT ![c] = Store!NoAnswer]
  /\ UNCHANGED <<op, result, stored, writer, accepted, before>>

OperationReturns(c, r) ==
  /\ result' = [result EXCEPT ![c] = r]
  /\ answer' = [answer EXCEPT ![c] = Store!NoAnswer]
  /\ UNCHANGED <<op, stored, writer, accepted, before>>

\* Mutant: the error of ReadAllAndClose is not looked at.
ReadErrorForgotten(c) ==
  LET r == Store!Decoded(op[c], answer[c])
  IN  /\ ReadResponse(c)
      /\ \/ OperationReturns(c, r)
         \/ r.kind = "item" /\ OperationReturns(c, Store!Misfit)

\* The body was read: it is decoded, and may not fit the caller's out.
ReturnBody(c) ==
  LET r == Store!Decoded(op[c], answer[c])
  IN  /\ ReadResponse(c) /\ err'[c] = "nil"
      /\ \/ OperationReturns(c, r)
         \/ r.kind = "item" /\ OperationReturns(c, Store!Misfit)

\* An error of Do, or of ReadAllAndClose.
ReturnError(c) ==
  /\ \/ ReadResponse(c) \/ ResponseTimesOut(c) \/ GiveUp(c)
     \/ ContextEnded(c) \/ SleepCancelled(c)
  /\ pc'[c] = "returned" /\ err'[c] # "nil"
  /\ OperationReturns(c, Store!Error)

(***************************************************************************)
(* The upstream manager: what it does to the store when a request takes    *)
(* effect.  A response that is an error has no body to decode.             *)
(***************************************************************************)
Accept(c, n) ==
  /\ Store!IsWrite(op[c])
  /\ \E body \in Store!AcceptBodies : Store!Answers(c, n, body)
  /\ stored'   = [stored EXCEPT ![op[c].slot] = op[c].value]
  /\ writer'   = [writer EXCEPT ![op[c].slot] = c]
  /\ accepted' = accepted \cup {c}
  /\ UNCHANGED <<op, result, before>>

TurnDown(c, n) ==
  /\ Store!IsWrite(op[c])
  /\ \E body \in Store!RejectBodies : Store!Answers(c, n, body)
  /\ UNCHANGED <<op, result, stored, writer, accepted, before>>

Show(c, n) ==
  /\ \/ op[c].kind \in {"get", "hget"}
        /\ Store!Answers(c, n, Store!ValueBody(op[c].slot))
     \/ op[c].kind = "hgetall"
        /\ Store!Answers(c, n, Store!HashBody(op[c].slot[1]))
     \/ op[c].kind = "get_status"
        /\ Store!Answers(c, n, Store!KeysBody(Store!StoredKeys))
  /\ UNCHANGED <<op, result, stored, writer, accepted, before>>

RequestHandled(m, status, effect) ==
  /\ ServerHandles(m, status, effect)
  /\ IF effect
     THEN \/ Accept(m.call, m.attempt)
          \/ TurnDown(m.call, m.attempt)
          \/ Show(m.call, m.attempt)
     ELSE UNCHANGED storeVars

OperationStep(c) ==
  \/ \E o \in Store!Operations : CallStore(c, o) \/ RefuseCall(c, o)
  \/ LoopStep(c) \/ SendRequest(c) \/ ReturnBody(c) \/ ReturnError(c)
  \/ CancelContext(c) /\ UNCHANGED storeVars

OverHttpNext ==
  \/ \E c \in Calls : OperationStep(c)
  \/ \E m \in wire : \E status \in Statuses : \E effect \in EffectsOf(status) :
       RequestHandled(m, status, effect)

\* The fairness of HttpxClient, for the steps that the layer has joined.
OverHttpFairness ==
  \A c \in Calls :
    /\ WF_allVars(\/ LoopStep(c) /\ Unblocked(c)
                  \/ SendRequest(c)
                  \/ ReturnError(c) /\ Unblocked(c))
    /\ WF_allVars((LoopStep(c) \/ ReturnError(c)) /\ AttemptTimesOut(c))
    /\ WF_allVars((LoopStep(c) \/ ReturnError(c)) /\ ResponseTimesOut(c))

OverHttpSpec == OverHttpInit /\ [][OverHttpNext]_allVars /\ OverHttpFairness

-----------------------------------------------------------------------------
(***************************************************************************)
(* Properties.                                                             *)
(***************************************************************************)
\* The operations on the retry loop itself do what CStore says of them on its
\* contract: all that is shown of CStore holds of the composition.
ImplementsCStore == Store!CStoreSpec
=============================================================================
