------------------------ MODULE CStoreOverHttpProofs ------------------------
(***************************************************************************)
(* The operations of CStore on the retry loop itself implement CStore, for *)
(* every set of calls, every MaxRetries, both flags, and all names and     *)
(* values.                                                                 *)
(***************************************************************************)
EXTENDS CStoreOverHttp, HttpxClientProofs

(***************************************************************************)
(* The invariant: that of the retry loop, and that no request is in flight *)
(* of an attempt that took effect before.                                  *)
(***************************************************************************)
HandledOnce ==
  \A m \in wire : \A n \in applied : m.call = n.call => m.attempt # n.attempt

OInv == IInv /\ HandledOnce

\* Every step of the layer is one of the loop.
LEMMA JoinedSteps == [OverHttpNext]_allVars => [Next]_vars
<1> SUFFICES ASSUME [OverHttpNext]_allVars PROVE [Next]_vars
  OBVIOUS
<1>1. CASE UNCHANGED allVars
  BY <1>1 DEF allVars
<1>2. ASSUME NEW c \in Calls, OperationStep(c) PROVE Next
  <2>1. ASSUME NEW o \in Store!Operations, CallStore(c, o) PROVE Next
    <3>1. RequestOf(o) \in RequestShapes
      BY DEF RequestOf, RequestShapes, Store!IsWrite
    <3> QED
      BY <2>1, <3>1 DEF CallStore, Next, ClientStep
  <2>2. ASSUME NEW o \in Store!Operations, RefuseCall(c, o) PROVE Next
    BY <2>2 DEF RefuseCall, Next, ClientStep
  <2>3. CASE LoopStep(c) \/ SendRequest(c) \/ ReturnBody(c) \/ ReturnError(c)
    BY <2>3 DEF LoopStep, SendRequest, ReturnBody, ReturnError, Next, ClientStep
  <2>4. CASE CancelContext(c)
    BY <2>4 DEF Next
  <2> QED
    BY <1>2, <2>1, <2>2, <2>3, <2>4 DEF OperationStep
<1>3. ASSUME NEW m \in wire, NEW status \in Statuses,
             NEW effect \in EffectsOf(status), RequestHandled(m, status, effect)
      PROVE  Next
  BY <1>3 DEF RequestHandled, Next, ServerStep
<1> QED
  BY <1>1, <1>2, <1>3 DEF OverHttpNext

\* An attempt is numbered by how many were sent, and there is one request of
\* each number, whose payload is the caller's.
LEMMA StepHandledOnce == OInv /\ [Next]_vars => HandledOnce'
<1> SUFFICES ASSUME OInv, [Next]_vars PROVE HandledOnce'
  OBVIOUS
<1> USE DEF OInv, HandledOnce
<1>1. ASSUME NEW c \in Calls, SendAttempt(c) PROVE HandledOnce'
  <2>1. /\ applied' = applied
        /\ \A m \in wire' : m \in wire \/ (m.call = c /\ m.attempt = attempt[c])
    BY <1>1 DEF SendAttempt
  <2>2. sent[c] = attempt[c]
    BY <1>1 DEF SendAttempt, GoTo, IInv, SentCounted, BeforeSending
  <2>3. \A n \in applied : n.call = c => n.attempt # attempt[c]
    BY <2>2, MaxRetriesAssumption DEF IInv, SentSoFar, TypeOK, Messages
  <2> QED
    BY <2>1, <2>3
<1>2. ASSUME NEW m \in wire, NEW status, NEW effect,
             ServerHandles(m, status, effect)
      PROVE  HandledOnce'
  <2>1. wire' = wire \ {m} /\ applied' \subseteq applied \cup {m}
    BY <1>2 DEF ServerHandles
  <2>2. \A n \in wire : n.call = m.call /\ n.attempt = m.attempt => n = m
    BY DEF IInv, BodyReplayed, TypeOK, Messages
  <2> QED
    BY <2>1, <2>2
<1>3. CASE UNCHANGED <<wire, applied>>
  BY <1>3
<1> QED
  BY <1>1, <1>2, <1>3
  DEF Next, ClientStep, ServerStep, vars, localVars, remoteVars, Begin, Reject,
      ContextLive, ContextEnded, ReceiveResponse, AttemptFails,
      AttemptTimesOut, HandleError, ReadResponse, ResponseTimesOut, Retry,
      GiveUp, WakeUp, SleepCancelled, CancelContext

LEMMA OverHttpInvariance == OverHttpSpec => []OInv
<1>1. OverHttpInit => OInv
  BY InitIInv DEF OverHttpInit, Init, OInv, HandledOnce
<1>2. OInv /\ [OverHttpNext]_allVars => OInv'
  BY JoinedSteps, StepIInv, StepHandledOnce DEF OInv
<1> QED
  BY <1>1, <1>2, PTL DEF OverHttpSpec

\* Each operation of pkg/cstore drives the retry loop as the loop allows, and
\* hinders none of its steps: what is shown of Do for arbitrary callers holds
\* of the operations.
THEOREM OperationsUseTheLoop == OverHttpSpec => Spec
<1>1. OverHttpInit => Init
  BY DEF OverHttpInit
<1> QED
  BY <1>1, JoinedSteps, PTL DEF OverHttpSpec, Spec

\* No operation leaves a response body open, sends half a value or goes round
\* for ever: the promises of Do, kept by Set, HSet, Get, HGet, HGetAll and
\* GetStatus.
THEOREM OperationsKeepTheLoop ==
  OverHttpSpec => /\ []NoResponseLeaked /\ []BodyReplayed
                  /\ LoopRunsDown /\ ImplementsAtLeastOnce
  BY OperationsUseTheLoop, NoLeak, BodyIsReplayed, LoopTerminates,
     Implementation, PTL

\* The operations send no more than one attempt after their caller's context
\* ended.
THEOREM OperationsStopInTime == OverHttpSpec => []AtMostOneLateAttempt
<1>1. OInv => AtMostOneLateAttempt
  BY DEF OInv, IInv, LateCounted, AtMostOneLateAttempt
<1> QED
  BY <1>1, OverHttpInvariance, PTL

(***************************************************************************)
(* The refinement.  The steps that begin a call, and SendRequest, are      *)
(* those of the same name; inside the loop nothing is seen of it.          *)
(***************************************************************************)
LEMMA OverHttpInitRefines == OverHttpInit => Store!CStoreInit
  BY DEF OverHttpInit, Init, Store!CStoreInit, Store!AbsInit, OutcomeOf,
         LimitOf, EffectsOn

\* A step of c in the loop that leaves the network, and how often c may be
\* repeated, alone.
LEMMA GoroutineStep ==
  ASSUME NEW c \in Calls, IInv, UNCHANGED <<applied, req, sent>>,
         \A d \in Calls \ {c} : pc'[d] = pc[d] /\ err'[d] = err[d],
         pc[c] \notin {"idle", "returned"}, pc'[c] # "idle",
         err'[c] # "invalid"
  PROVE  /\ \A d \in Calls : /\ EffectsOn(d)' = EffectsOn(d)
                             /\ LimitOf(d)' = LimitOf(d)
         /\ \A d \in Calls \ {c} : OutcomeOf(d)' = OutcomeOf(d)
         /\ OutcomeOf(c) = "active"
         /\ OutcomeOf(c)' = IF pc'[c] # "returned" THEN "active"
                            ELSE IF err'[c] = "nil" THEN "ok" ELSE "failed"
<1>1. \A d \in Calls : EffectsOn(d)' = EffectsOn(d)
  BY DEF EffectsOn
<1>2. \A d \in Calls : LimitOf(d)' = LimitOf(d)
  BY DEF LimitOf, IInv, ErrorKnown
<1> QED
  BY <1>1, <1>2 DEF OutcomeOf

\* What the layer above does not see.
LEMMA HiddenStep ==
  ASSUME NEW c \in Calls, IInv, UNCHANGED <<applied, req, sent, storeVars>>,
         \A d \in Calls \ {c} : pc'[d] = pc[d] /\ err'[d] = err[d],
         pc[c] \notin {"idle", "returned"}, pc'[c] \notin {"idle", "returned"},
         err'[c] # "invalid"
  PROVE  UNCHANGED Store!cstoreVars
<1>1. \A d \in Calls : /\ EffectsOn(d)' = EffectsOn(d)
                       /\ LimitOf(d)' = LimitOf(d)
                       /\ OutcomeOf(d)' = OutcomeOf(d)
  BY GoroutineStep
<1> QED
  BY <1>1 DEF storeVars, Store!cstoreVars, Store!absVars, Store!histories

LEMMA LoopRefines ==
  ASSUME NEW c \in Calls, IInv, LoopStep(c)
  PROVE  UNCHANGED Store!cstoreVars
<1> USE DEF IInv, TypeOK, GoTo, Return, localVars, remoteVars, history, LoopStep
<1>1. /\ UNCHANGED <<applied, req, sent, storeVars>>
      /\ \A d \in Calls \ {c} : pc'[d] = pc[d] /\ err'[d] = err[d]
      /\ pc'[c] # "returned"
  BY DEF ContextLive, ReceiveResponse, AttemptFails, AttemptTimesOut,
         HandleError, ResponseTimesOut, Retry, WakeUp
<1>2. pc[c] \notin {"idle", "returned"} /\ pc'[c] # "idle"
  BY DEF ContextLive, ReceiveResponse, AttemptFails, AttemptTimesOut,
         HandleError, ResponseTimesOut, Retry, WakeUp
<1>3. err'[c] # "invalid"
  BY DEF ContextLive, ReceiveResponse, AttemptFails, AttemptTimesOut,
         HandleError, ResponseTimesOut, Retry, WakeUp, CutShortErrors,
         IsFailure, FailureStatuses, ErrorKnown
<1> QED
  BY <1>1, <1>2, <1>3, HiddenStep

LEMMA CallRefines ==
  ASSUME NEW c \in Calls, NEW o \in Store!Operations, IInv, CallStore(c, o)
  PROVE  Store!Call(c, o)
<1>1. RequestOf(o) \in RequestShapes /\ Begin(c, RequestOf(o))
  BY DEF CallStore, RequestOf, RequestShapes, Store!IsWrite
<1>2. Store!Start(c)
  BY <1>1, BeginStep DEF Promise!Start, Store!Start
<1>3. LimitOf(c)' = MaxRetries
  BY <1>1 DEF Begin, GoTo, Normalised, RequestOf, LimitOf, IInv, TypeOK,
              ErrorKnown
<1> QED
  BY <1>2, <1>3 DEF CallStore, Store!Call

LEMMA RefuseRefines ==
  ASSUME NEW c \in Calls, NEW o \in Store!Operations, IInv, RefuseCall(c, o)
  PROVE  Store!RefuseCall(c, o)
<1>1. Store!Refuse(c)
  BY RejectStep DEF RefuseCall, Promise!Refuse, Store!Refuse
<1> QED
  BY <1>1 DEF RefuseCall, Store!RefuseCall

LEMMA SendRefines ==
  ASSUME NEW c \in Calls, IInv, SendRequest(c)
  PROVE  Store!SendRequest(c)
<1>1. Store!Send(c)
  BY SendStep DEF SendRequest, Promise!Send, Store!Send
<1> QED
  BY <1>1 DEF SendRequest, Store!SendRequest, Store!histories

\* A response whose body was read is that of a request that took effect.
LEMMA BodyRefines ==
  ASSUME NEW c \in Calls, IInv, ReturnBody(c)
  PROVE  Store!ReturnDecoded(c) \/ Store!ReturnMisfit(c)
<1>1. /\ UNCHANGED <<applied, req, sent>>
      /\ \A d \in Calls \ {c} : pc'[d] = pc[d] /\ err'[d] = err[d]
      /\ pc[c] \notin {"idle", "returned"}
      /\ pc'[c] = "returned" /\ err'[c] = "nil"
  BY DEF ReturnBody, ReadResponse, Return, GoTo, remoteVars, history, IInv,
         TypeOK
<1>2. /\ \A d \in Calls : /\ EffectsOn(d)' = EffectsOn(d)
                          /\ LimitOf(d)' = LimitOf(d)
      /\ \A d \in Calls \ {c} : OutcomeOf(d)' = OutcomeOf(d)
      /\ OutcomeOf(c) = "active" /\ OutcomeOf(c)' = "ok"
  BY <1>1, GoroutineStep
<1>3. AppliedBy(c) /\ sent[c] = attempt[c] + 1
  BY DEF ReturnBody, ReadResponse, Return, GoTo, IInv, TypeOK, ReplyTold,
         SentCounted, IsFailure, Statuses
<1>4. \E n \in EffectsOn(c) : n + 1 = sent[c]
  BY <1>3 DEF AppliedBy, EffectsOn
<1>5. Store!Succeed(c)
  BY <1>1, <1>2, <1>4 DEF Store!Succeed, Store!LastTookEffect
<1> QED
  BY <1>5 DEF ReturnBody, OperationReturns, Store!ReturnDecoded,
              Store!ReturnMisfit, Store!Return, Store!histories

LEMMA ErrorRefines ==
  ASSUME NEW c \in Calls, IInv, ReturnError(c)
  PROVE  Store!ReturnError(c)
<1> USE DEF IInv, TypeOK, GoTo, Return, localVars, remoteVars, history,
            ReturnError
<1>1. /\ UNCHANGED <<applied, req, sent>>
      /\ \A d \in Calls \ {c} : pc'[d] = pc[d] /\ err'[d] = err[d]
  BY DEF ReadResponse, ResponseTimesOut, GiveUp, ContextEnded, SleepCancelled
<1>2. /\ pc[c] \notin {"idle", "returned"}
      /\ pc'[c] = "returned" /\ err'[c] # "nil"
  BY DEF ReadResponse, ResponseTimesOut, GiveUp, ContextEnded, SleepCancelled
<1>3. err'[c] # "invalid"
  BY DEF ReadResponse, ResponseTimesOut, GiveUp, ContextEnded, SleepCancelled,
         CutShortErrors, ErrorKnown
<1>4. /\ \A d \in Calls : /\ EffectsOn(d)' = EffectsOn(d)
                          /\ LimitOf(d)' = LimitOf(d)
      /\ \A d \in Calls \ {c} : OutcomeOf(d)' = OutcomeOf(d)
      /\ OutcomeOf(c) = "active" /\ OutcomeOf(c)' = "failed"
  BY <1>1, <1>2, <1>3, GoroutineStep
<1>5. Store!Fail(c)
  BY <1>1, <1>4 DEF Store!Fail
<1> QED
  BY <1>5 DEF OperationReturns, Store!ReturnError, Store!Return,
              Store!histories

LEMMA CancelRefines ==
  ASSUME NEW c \in Calls, CancelContext(c), UNCHANGED storeVars
  PROVE  UNCHANGED Store!cstoreVars
<1>1. /\ \A d \in Calls : /\ OutcomeOf(d)' = OutcomeOf(d)
                         /\ LimitOf(d)' = LimitOf(d)
                         /\ EffectsOn(d)' = EffectsOn(d)
      /\ sent' = sent
  BY DEF CancelContext, localVars, remoteVars, history, OutcomeOf, LimitOf,
         EffectsOn
<1> QED
  BY <1>1 DEF storeVars, Store!cstoreVars, Store!absVars, Store!histories

\* A request that is handled takes effect once, and then the store acts.
LEMMA HandledRefines ==
  ASSUME NEW m \in wire, NEW status \in Statuses,
         NEW effect \in EffectsOf(status), OInv,
         RequestHandled(m, status, effect)
  PROVE  [Store!CStoreNext]_(Store!cstoreVars)
<1> DEFINE c == m.call
           n == m.attempt
<1>1. /\ c \in Calls /\ n \in 0..MaxRetries /\ effect \in BOOLEAN
      /\ ServerHandles(m, status, effect)
  BY DEF RequestHandled, OInv, IInv, TypeOK, Messages, EffectsOf
<1>2. /\ \A d \in Calls : OutcomeOf(d)' = OutcomeOf(d)
                         /\ LimitOf(d)' = LimitOf(d)
      /\ sent' = sent
  BY <1>1 DEF ServerHandles, localVars, history, OutcomeOf, LimitOf
<1>3. CASE ~effect
  <2>1. \A d \in Calls : EffectsOn(d)' = EffectsOn(d)
    BY <1>1, <1>3 DEF ServerHandles, EffectsOn
  <2>2. UNCHANGED storeVars
    BY <1>3 DEF RequestHandled
  <2> QED
    BY <1>2, <2>1, <2>2
    DEF storeVars, Store!cstoreVars, Store!absVars, Store!histories
<1>4. CASE effect
  <2>1. applied' = applied \cup {m}
    BY <1>1, <1>4 DEF ServerHandles
  <2>2. /\ EffectsOn(c)' = EffectsOn(c) \cup {n}
        /\ \A d \in Calls \ {c} : EffectsOn(d)' = EffectsOn(d)
    BY <2>1 DEF EffectsOn
  <2>3. n < sent[c] /\ n \notin EffectsOn(c)
    BY DEF OInv, HandledOnce, IInv, SentSoFar, EffectsOn
  <2>4. Store!TakeEffect(c, n)
    BY <1>1, <1>2, <2>2, <2>3 DEF Store!TakeEffect
  <2>5. Accept(c, n) \/ TurnDown(c, n) \/ Show(c, n)
    BY <1>4 DEF RequestHandled
  <2>6. Store!AcceptWrite(c, n) \/ Store!RejectWrite(c, n)
        \/ Store!AnswerRead(c, n)
    BY <2>4, <2>5 DEF Accept, TurnDown, Show, Store!AcceptWrite,
       Store!RejectWrite, Store!AnswerRead, Store!histories
  <2> QED
    BY <1>1, <2>6 DEF Store!CStoreNext
<1> QED
  BY <1>1, <1>3, <1>4

LEMMA OverHttpStepRefines ==
  ASSUME OInv, [OverHttpNext]_allVars
  PROVE  [Store!CStoreNext]_(Store!cstoreVars)
<1>1. CASE UNCHANGED allVars
  <2>1. /\ \A d \in Calls : /\ OutcomeOf(d)' = OutcomeOf(d)
                           /\ LimitOf(d)' = LimitOf(d)
                           /\ EffectsOn(d)' = EffectsOn(d)
        /\ UNCHANGED <<sent, storeVars>>
    BY <1>1 DEF allVars, vars, OutcomeOf, LimitOf, EffectsOn
  <2> QED
    BY <2>1 DEF storeVars, Store!cstoreVars, Store!absVars, Store!histories
<1>2. ASSUME NEW c \in Calls, OperationStep(c)
      PROVE  [Store!CStoreNext]_(Store!cstoreVars)
  <2>1. CASE \E o \in Store!Operations : CallStore(c, o) \/ RefuseCall(c, o)
    BY <2>1, CallRefines, RefuseRefines DEF OInv, Store!CStoreNext
  <2>2. CASE LoopStep(c)
    BY <2>2, LoopRefines DEF OInv
  <2>3. CASE SendRequest(c)
    BY <2>3, SendRefines DEF OInv, Store!CStoreNext
  <2>4. CASE ReturnBody(c)
    BY <2>4, BodyRefines DEF OInv, Store!CStoreNext
  <2>5. CASE ReturnError(c)
    BY <2>5, ErrorRefines DEF OInv, Store!CStoreNext
  <2>6. CASE CancelContext(c) /\ UNCHANGED storeVars
    BY <2>6, CancelRefines
  <2> QED
    BY <1>2, <2>1, <2>2, <2>3, <2>4, <2>5, <2>6 DEF OperationStep
<1> QED
  BY <1>1, <1>2, HandledRefines DEF OverHttpNext

\* The operations on the retry loop itself, with its contexts, timeouts and
\* late requests, do what CStore says of them on AtLeastOnce.
THEOREM Composition == OverHttpSpec => ImplementsCStore
<1>1. OInv /\ [OverHttpNext]_allVars => [Store!CStoreNext]_(Store!cstoreVars)
  BY OverHttpStepRefines
<1> QED
  BY <1>1, OverHttpInitRefines, OverHttpInvariance, PTL
  DEF OverHttpSpec, ImplementsCStore, Store!CStoreSpec

(***************************************************************************)
(* End to end: what SharedStoreProofs shows of CStore holds of the         *)
(* operations on the retry loop.  Its theorems are taken over at the       *)
(* variables that Composition maps CStore to; Store and Upper are then the *)
(* same definitions twice, which the next lemmas say.                      *)
(***************************************************************************)
Upper == INSTANCE SharedStoreProofs
           WITH outcome <- [c \in Calls |-> OutcomeOf(c)],
                limit   <- [c \in Calls |-> LimitOf(c)],
                effects <- [c \in Calls |-> EffectsOn(c)]

LEMMA SameTexts ==
  /\ \A t : Store!IsJSON(t) = Upper!IsJSON(t)
  /\ \A t, n : Store!Stripped(t, n) = Upper!Stripped(t, n)
  /\ \A t : Store!Bare(t) = Upper!Bare(t)
  /\ \A t : Store!Envelope(t) = Upper!Envelope(t)
  /\ \A t : Store!Payload(t) = Upper!Payload(t)
  /\ \A t : Store!Affirms(t) = Upper!Affirms(t)
  /\ Store!UnquoteLimit = Upper!UnquoteLimit
  /\ Store!BlankBody = Upper!BlankBody
  /\ Store!NoPayload = Upper!NoPayload
  /\ Store!NullText = Upper!NullText
  BY DEF Store!IsJSON, Upper!IsJSON, Store!Atoms, Upper!Atoms, Store!Stripped,
         Upper!Stripped, Store!Bare, Upper!Bare, Store!Envelope,
         Upper!Envelope, Store!Payload, Upper!Payload, Store!Affirms,
         Upper!Affirms, Store!UnquoteLimit, Upper!UnquoteLimit,
         Store!BlankBody, Upper!BlankBody, Store!NoPayload, Upper!NoPayload,
         Store!NullText, Upper!NullText

LEMMA SameJSONTexts == Store!JSONTexts = Upper!JSONTexts
  BY SameTexts DEF Store!JSONTexts, Upper!JSONTexts, Store!Texts, Upper!Texts,
     Store!Cores, Upper!Cores, Store!Atoms, Upper!Atoms, Store!Words,
     Upper!Words

LEMMA SameWords ==
  /\ Store!KeySlots = Upper!KeySlots /\ Store!HashSlots = Upper!HashSlots
  /\ Store!Slots = Upper!Slots
  /\ Store!Operations = Upper!Operations
  /\ Store!NoOperation = Upper!NoOperation
  /\ Store!NoAnswer = Upper!NoAnswer
  /\ Store!Pending = Upper!Pending /\ Store!Error = Upper!Error
  /\ Store!Misfit = Upper!Misfit /\ Store!Done = Upper!Done
  /\ Store!Absent = Upper!Absent
  /\ \A o : Store!IsWrite(o) = Upper!IsWrite(o)
  /\ \A o : Store!Valid(o) = Upper!Valid(o)
  /\ \A t : Store!Item(t) = Upper!Item(t)
  /\ \A f : Store!Items(f) = Upper!Items(f)
  /\ \A ks : Store!Listing(ks) = Upper!Listing(ks)
  BY DEF Store!KeySlots, Upper!KeySlots, Store!HashSlots, Upper!HashSlots,
         Store!Slots, Upper!Slots, Store!Operations, Upper!Operations,
         Store!NoOperation, Upper!NoOperation, Store!NoAnswer, Upper!NoAnswer,
         Store!Pending, Upper!Pending, Store!Error, Upper!Error, Store!Misfit,
         Upper!Misfit, Store!Done, Upper!Done, Store!Absent, Upper!Absent,
         Store!IsWrite, Upper!IsWrite, Store!Valid, Upper!Valid,
         Store!RequiredNames, Upper!RequiredNames, Store!Item, Upper!Item,
         Store!Items, Upper!Items, Store!Listing, Upper!Listing

LEMMA SameDecoding ==
  /\ \A body : Store!DecodedText(body) = Upper!DecodedText(body)
  /\ \A o, body : Store!Decoded(o, body) = Upper!Decoded(o, body)
<1>1. \A t : Store!Unwrapped(t) = Upper!Unwrapped(t)
  BY SameTexts DEF Store!Unwrapped, Upper!Unwrapped, Store!Unquoted,
                   Upper!Unquoted
<1>2. \A body : Store!DecodedText(body) = Upper!DecodedText(body)
  BY <1>1, SameTexts DEF Store!DecodedText, Upper!DecodedText,
                         Store!ExtractResult, Upper!ExtractResult
<1>3. \A body : /\ Store!Acks(body) = Upper!Acks(body)
                /\ Store!DecodedItem(body) = Upper!DecodedItem(body)
                /\ Store!DecodedFields(body) = Upper!DecodedFields(body)
                /\ Store!DecodedStatus(body) = Upper!DecodedStatus(body)
  BY <1>2, SameTexts, SameWords
  DEF Store!Acks, Upper!Acks, Store!Decodes, Upper!Decodes, Store!DecodedItem,
      Upper!DecodedItem, Store!DecodedFields, Upper!DecodedFields,
      Store!DecodedStatus, Upper!DecodedStatus, Store!ObjectText,
      Upper!ObjectText
<1>4. \A o, body : Store!Decoded(o, body) = Upper!Decoded(o, body)
  BY <1>3, SameWords DEF Store!Decoded, Upper!Decoded
<1> QED
  BY <1>2, <1>4

LEMMA SameBodies ==
  /\ Store!AcceptBodies = Upper!AcceptBodies
  /\ Store!RejectBodies = Upper!RejectBodies
  /\ \A s : Store!ValueBody(s) = Upper!ValueBody(s)
  /\ \A h : Store!HashBody(h) = Upper!HashBody(h)
  /\ Store!KeysBody(Store!StoredKeys) = Upper!KeysBody(Upper!StoredKeys)
  /\ \A body : Store!Received(body) = Upper!Received(body)
<1>1. /\ Store!TrueText = Upper!TrueText
      /\ Store!QuotedTrue = Upper!QuotedTrue
      /\ Store!FalseText = Upper!FalseText /\ Store!WordText = Upper!WordText
      /\ \A h : Store!FieldsOf(h) = Upper!FieldsOf(h)
      /\ \A f : Store!FieldsBody(f) = Upper!FieldsBody(f)
  BY DEF Store!TrueText, Upper!TrueText, Store!QuotedTrue, Upper!QuotedTrue,
         Store!FalseText, Upper!FalseText, Store!WordText, Upper!WordText,
         Store!FieldsOf, Upper!FieldsOf, Store!FieldsBody, Upper!FieldsBody
<1> QED
  BY <1>1, SameTexts
  DEF Store!AcceptBodies, Upper!AcceptBodies, Store!RejectBodies,
      Upper!RejectBodies, Store!ValueBody, Upper!ValueBody, Store!HashBody,
      Upper!HashBody, Store!KeysBody, Upper!KeysBody, Store!StoredKeys,
      Upper!StoredKeys, Store!Received, Upper!Received

LEMMA SamePromise ==
  /\ Store!AbsInit = Upper!AbsInit
  /\ \A c : /\ Store!Start(c) = Upper!Start(c)
            /\ Store!Refuse(c) = Upper!Refuse(c)
            /\ Store!Send(c) = Upper!Send(c)
            /\ Store!Succeed(c) = Upper!Succeed(c)
            /\ Store!Fail(c) = Upper!Fail(c)
  /\ \A c, n : Store!TakeEffect(c, n) = Upper!TakeEffect(c, n)
  BY DEF Store!AbsInit, Upper!AbsInit, Store!Start, Upper!Start, Store!Refuse,
         Upper!Refuse, Store!Send, Upper!Send, Store!Succeed, Upper!Succeed,
         Store!LastTookEffect, Upper!LastTookEffect, Store!Fail, Upper!Fail,
         Store!TakeEffect, Upper!TakeEffect

LEMMA SameClientSteps ==
  /\ \A c, o : Store!Call(c, o) = Upper!Call(c, o)
  /\ \A c, o : Store!RefuseCall(c, o) = Upper!RefuseCall(c, o)
  /\ \A c : Store!SendRequest(c) = Upper!SendRequest(c)
  /\ \A c : Store!ReturnDecoded(c) = Upper!ReturnDecoded(c)
  /\ \A c : Store!ReturnMisfit(c) = Upper!ReturnMisfit(c)
  /\ \A c : Store!ReturnError(c) = Upper!ReturnError(c)
<1>1. /\ Store!Returned = Upper!Returned
      /\ \A c, r : Store!Return(c, r) = Upper!Return(c, r)
  BY SameWords DEF Store!Returned, Upper!Returned, Store!Return, Upper!Return,
                   Store!histories, Upper!histories
<1> QED
  BY <1>1, SameWords, SamePromise, SameDecoding
  DEF Store!Call, Upper!Call, Store!RefuseCall, Upper!RefuseCall,
      Store!SendRequest, Upper!SendRequest, Store!ReturnDecoded,
      Upper!ReturnDecoded, Store!ReturnMisfit, Upper!ReturnMisfit,
      Store!ReturnError, Upper!ReturnError, Store!histories, Upper!histories

LEMMA SameManagerSteps ==
  \A c, n : /\ Store!AcceptWrite(c, n) = Upper!AcceptWrite(c, n)
            /\ Store!RejectWrite(c, n) = Upper!RejectWrite(c, n)
            /\ Store!AnswerRead(c, n) = Upper!AnswerRead(c, n)
<1>1. \A c, n, body : Store!Answers(c, n, body) = Upper!Answers(c, n, body)
  BY SameBodies DEF Store!Answers, Upper!Answers
<1> QED
  BY <1>1, SameWords, SamePromise, SameBodies
  DEF Store!AcceptWrite, Upper!AcceptWrite, Store!RejectWrite,
      Upper!RejectWrite, Store!AnswerRead, Upper!AnswerRead,
      Store!histories, Upper!histories

LEMMA OverHttpIsCStore == OverHttpSpec => Upper!CStoreSpec
<1>1. Store!CStoreInit => Upper!CStoreInit
  BY SameWords, SamePromise DEF Store!CStoreInit, Upper!CStoreInit
<1>2. [Store!CStoreNext]_(Store!cstoreVars)
        => [Upper!CStoreNext]_(Upper!cstoreVars)
  <2>1. Store!CStoreNext => Upper!CStoreNext
    BY SameWords, SameClientSteps, SameManagerSteps
    DEF Store!CStoreNext, Upper!CStoreNext
  <2>2. Store!cstoreVars = Upper!cstoreVars
    BY DEF Store!cstoreVars, Upper!cstoreVars, Store!absVars, Upper!absVars,
           Store!histories, Upper!histories
  <2>3. UNCHANGED Store!cstoreVars => UNCHANGED Upper!cstoreVars
    BY DEF Store!cstoreVars, Upper!cstoreVars, Store!absVars, Upper!absVars,
           Store!histories, Upper!histories
  <2> QED
    BY <2>1, <2>3
<1> QED
  BY <1>1, <1>2, Composition, PTL
  DEF ImplementsCStore, Store!CStoreSpec, Upper!CStoreSpec

\* With the assumptions of CStore on values, taken over.
LEMMA UpperAssumptions ==
  /\ Emptied \in BOOLEAN /\ Missing \notin Upper!JSONTexts
  /\ Values \subseteq Upper!JSONTexts /\ MaxRetries \in Nat
  BY SameJSONTexts, StoreAssumption, MaxRetriesAssumption

\* A write that returned without an error was carried out by the manager,
\* whatever the loop repeated, timed out or gave up on the way.
THEOREM AcksAreTrueOverHttp == OverHttpSpec => []Upper!AckMeansAccepted
<1>1. Upper!CStoreSpec => []Upper!AckMeansAccepted
  BY Upper!AcksAreTrue, UpperAssumptions
<1> QED
  BY <1>1, OverHttpIsCStore, PTL

\* A read that begins after a write was acknowledged shows it.
THEOREM ReadsAreFreshOverHttp == OverHttpSpec => []Upper!ReadsFollowAcks
<1>1. Upper!CStoreSpec => []Upper!ReadsFollowAcks
  BY Upper!ReadsAreFresh, UpperAssumptions
<1> QED
  BY <1>1, OverHttpIsCStore, PTL

\* An acknowledged write is lost to an earlier call only if that call had
\* failed, or the loop had sent it more than once.
THEOREM OnlyRepetitionLosesOverHttp == OverHttpSpec => []Upper!LossNeedsRepetition
<1>1. Upper!CStoreSpec => []Upper!LossNeedsRepetition
  BY Upper!OnlyRepetitionLoses, UpperAssumptions
<1> QED
  BY <1>1, OverHttpIsCStore, PTL

\* The six operations, each with its goroutine, its retry loop, its contexts
\* and its response bodies, are one shared store to the application.
THEOREM SharedStoreOverHttp == OverHttpSpec => Upper!ImplementsSharedStore
<1>1. Upper!CStoreSpec => Upper!ImplementsSharedStore
  BY Upper!CStoreIsSharedStore, UpperAssumptions
<1> QED
  BY <1>1, OverHttpIsCStore, PTL
=============================================================================
