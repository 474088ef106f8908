------------------------- MODULE SharedStoreProofs -------------------------
(***************************************************************************)
(* CStore implements SharedStore: every step of the client, of the manager *)
(* and of the network is a step of the shared store, or a stutter, for     *)
(* every set of calls, keys, fields and values and every MaxRetries.  And, *)
(* with an invariant on who wrote what, its reads follow acknowledgements. *)
(***************************************************************************)
EXTENDS CStoreProofs, FiniteSetTheorems

(***************************************************************************)
(* What the bodies of the manager decode to.                               *)
(***************************************************************************)
LEMMA AcceptIsDone ==
  ASSUME NEW o \in Operations, IsWrite(o), NEW b \in AcceptBodies
  PROVE  Decoded(o, b) = Done
<1>1. DecodedText(Bare(TrueText)) = TrueText
  BY DEF DecodedText, ExtractResult, Bare, Payload
<1>2. Unwrapped(QuotedTrue) = TrueText
  <2>1. Stripped(QuotedTrue, 1) = TrueText
    BY DEF Stripped, QuotedTrue, TrueText
  <2>2. Unquoted(TrueText) = TrueText
    BY DEF Unquoted, Stripped, UnquoteLimit, TrueText
  <2>3. IsJSON(TrueText) /\ QuotedTrue.quotes > 0
    BY DEF IsJSON, TrueText, QuotedTrue, Atoms
  <2> QED
    BY <2>1, <2>2, <2>3 DEF Unwrapped
<1>3. DecodedText(b) = TrueText
  BY <1>1, <1>2, EnvelopeText DEF AcceptBodies
<1>4. Acks(b)
  BY <1>3 DEF Acks, Decodes, Affirms, TrueText, IsJSON, Atoms
<1> QED
  BY <1>4 DEF Decoded, IsWrite

LEMMA RejectIsError ==
  ASSUME NEW o \in Operations, IsWrite(o), NEW b \in RejectBodies \cup {BlankBody}
  PROVE  Decoded(o, b) = Error
<1>1. b \in WriteBodies /\ b \notin AcceptBodies
  BY DEF WriteBodies, AcceptBodies, RejectBodies, Bare, Envelope, BlankBody,
         TrueText, QuotedTrue, FalseText, NullText, WordText
<1>2. ~Acks(b)
  BY <1>1, OnlyAcceptAcks
<1> QED
  BY <1>2 DEF Decoded, IsWrite

\* The body that upstream answers a read with.
ReadBody(o) ==
  IF o.kind \in ValueKinds THEN ValueBody(o.slot)
  ELSE IF o.kind = "hgetall" THEN HashBody(o.slot[1]) ELSE KeysBody(StoredKeys)

LEMMA ReadIsView ==
  ASSUME Types, NEW o \in Operations, ~IsWrite(o)
  PROVE  /\ Decoded(o, ReadBody(o)) = View(o, stored)
         /\ Decoded(o, BlankBody) = Absent
         /\ ReadBody(o) # NoAnswer
<1>1. CASE o.kind \in ValueKinds
  <2>1. /\ ReadBody(o) = ValueBody(o.slot)
        /\ \A b : Decoded(o, b) = DecodedItem(b)
        /\ View(o, stored) = IF stored[o.slot] = Missing THEN Absent
                             ELSE ShownAs(stored[o.slot])
    BY <1>1 DEF ReadBody, Decoded, View, IsWrite, ValueKinds
  <2>2. DecodedItem(Bare(NullText)) = Absent /\ DecodedItem(BlankBody) = Absent
    BY DEF DecodedItem, DecodedText, ExtractResult, Payload, Bare, BlankBody
  <2>3. ASSUME stored[o.slot] # Missing
        PROVE  DecodedItem(Envelope(stored[o.slot])) = ShownAs(stored[o.slot])
    <3>1. stored[o.slot] \in JSONTexts
      BY <1>1, <2>3, ReadSlot, ValuesAssumption DEF Types
    <3>2. IsJSON(Unwrapped(stored[o.slot]))
      BY <3>1, UnwrappedType DEF JSONTexts
    <3> QED
      BY <3>2, EnvelopeText DEF DecodedItem, ShownAs
  <2>4. ValueBody(o.slot) # NoAnswer
    BY DEF ValueBody, Bare, Envelope, NoAnswer
  <2> QED
    BY <2>1, <2>2, <2>3, <2>4 DEF ValueBody
<1>2. CASE o.kind = "hgetall"
  <2> DEFINE fields == FieldsOf(o.slot[1])
             shown  == [f \in fields |-> stored[<<o.slot[1], f>>]]
  <2>1. /\ ReadBody(o) = IF fields = {} THEN Bare(NullText)
                         ELSE FieldsBody(shown)
        /\ \A b : Decoded(o, b) = DecodedFields(b)
        /\ View(o, stored) = IF fields = {} THEN Absent ELSE Items(shown)
    BY <1>2 DEF ReadBody, HashBody, Decoded, View, IsWrite, ValueKinds, FieldsOf
  <2>2. /\ DecodedFields(Bare(NullText)) = Absent
        /\ DecodedFields(BlankBody) = Absent
        /\ \A f : DecodedFields(FieldsBody(f)) = Items(f)
    BY DEF DecodedFields, DecodedText, ExtractResult, Payload, Bare, BlankBody,
           FieldsBody
  <2>3. \A f : FieldsBody(f) # NoAnswer /\ Bare(NullText) # NoAnswer
    BY DEF FieldsBody, Bare, NoAnswer
  <2> QED
    BY <2>1, <2>2, <2>3
<1>3. CASE o.kind = "get_status"
  <2>1. /\ ReadBody(o) = KeysBody(StoredKeys)
        /\ View(o, stored) = Listing(StoredKeys)
    BY <1>3 DEF ReadBody, ValueKinds, View, StoredKeys
  <2>2. \A b : Decoded(o, b) = DecodedStatus(b)
    BY <1>3 DEF Decoded, IsWrite
  <2>3. /\ KeysBody(StoredKeys).kind = "keys"
        /\ KeysBody(StoredKeys).keys = StoredKeys
        /\ KeysBody(StoredKeys) # NoAnswer
    BY DEF KeysBody, NoAnswer
  <2>4. DecodedStatus(BlankBody) = Absent
    <3>1. BlankBody.kind # "keys" /\ DecodedText(BlankBody) = NullText
      BY DEF DecodedText, BlankBody
    <3>2. NullText # ObjectText
      BY DEF NullText, ObjectText
    <3> QED
      BY <3>1, <3>2 DEF DecodedStatus
  <2> QED
    BY <2>1, <2>2, <2>3, <2>4 DEF DecodedStatus
<1> QED
  BY <1>1, <1>2, <1>3, OperationKinds DEF IsWrite, ValueKinds

(***************************************************************************)
(* The invariant: that of CStoreProofs, and that an idle call has no       *)
(* operation yet.                                                          *)
(***************************************************************************)
IdleUntouched == \A c \in Calls : outcome[c] = "idle" => op[c] = NoOperation

SInv == IInv /\ IdleUntouched

LEMMA StepSInv == SInv /\ [CStoreNext]_cstoreVars => SInv'
<1> SUFFICES ASSUME SInv, [CStoreNext]_cstoreVars PROVE SInv'
  OBVIOUS
<1>1. IInv'
  BY StepIInv DEF SInv
<1>2. IdleUntouched'
  <2> USE DEF SInv, IInv, Types, AbsTypeOK, IdleUntouched
  <2>1. CASE UNCHANGED cstoreVars
    BY <2>1 DEF cstoreVars, absVars
  <2>2. ASSUME NEW c \in Calls, NEW o \in Operations, Call(c, o) \/ RefuseCall(c, o)
        PROVE  IdleUntouched'
    BY <2>2 DEF Call, RefuseCall, Start, Refuse
  <2>3. ASSUME NEW c \in Calls,
               SendRequest(c) \/ ReturnDecoded(c) \/ ReturnMisfit(c) \/ ReturnError(c)
        PROVE  IdleUntouched'
    BY <2>3 DEF SendRequest, ReturnDecoded, ReturnMisfit, ReturnError, Return,
                Send, Succeed, Fail
  <2>4. ASSUME NEW c \in Calls, NEW n \in 0..MaxRetries,
               AcceptWrite(c, n) \/ RejectWrite(c, n) \/ AnswerRead(c, n)
        PROVE  IdleUntouched'
    BY <2>4 DEF AcceptWrite, RejectWrite, AnswerRead, TakeEffect
  <2> QED
    BY <2>1, <2>2, <2>3, <2>4 DEF CStoreNext
<1> QED
  BY <1>1, <1>2 DEF SInv

(***************************************************************************)
(* The abstract variables.                                                 *)
(***************************************************************************)
ActsOf == [c \in Calls |-> Cardinality(effects[c])]
SeenOf == [c \in Calls |-> SeenBy(c)]

LEMMA SeenShape ==
  ASSUME SInv, NEW c \in Calls
  PROVE  /\ outcome[c] \in {"active", "ok", "failed"} => op[c] \in Operations
         /\ answer[c] = NoAnswer => SeenBy(c) = NoAnswer
         /\ answer[c] # NoAnswer /\ op[c] \in Operations =>
              SeenBy(c) = Decoded(op[c], answer[c]) /\ SeenBy(c) # NoAnswer
<1>1. ASSUME op[c] \in Operations, answer[c] # NoAnswer
      PROVE  Decoded(op[c], answer[c]) # NoAnswer
  <2>1. Decoded(op[c], answer[c]).kind \in ResultKinds
    BY <1>1, DecodedShape
  <2>2. NoAnswer.kind \notin ResultKinds
    BY DEF NoAnswer, ResultKinds
  <2> QED
    BY <2>1, <2>2
<1> QED
  BY <1>1 DEF SInv, IInv, Progress, SeenBy

LEMMA ActsBounded ==
  ASSUME SInv, NEW c \in Calls
  PROVE  /\ IsFiniteSet(effects[c]) /\ Cardinality(effects[c]) \in Nat
         /\ Cardinality(effects[c]) <= sent[c]
<1>1. /\ sent[c] \in Nat /\ effects[c] \subseteq 0..MaxRetries
      /\ \A n \in effects[c] : n < sent[c]
  BY MaxRetriesAssumption DEF SInv, IInv, Types, AbsTypeOK, Progress
<1>2. effects[c] \subseteq 0..(sent[c] - 1)
  BY <1>1, MaxRetriesAssumption
<1>3. /\ IsFiniteSet(0..(sent[c] - 1))
      /\ Cardinality(0..(sent[c] - 1)) = sent[c]
  <2>1. PICK k \in Int : k = sent[c] - 1
    BY <1>1
  <2>2. /\ IsFiniteSet(0..k)
        /\ Cardinality(0..k) = IF 0 > k THEN 0 ELSE k - 0 + 1
    BY FS_Interval
  <2> QED
    BY <1>1, <2>1, <2>2
<1> QED
  BY <1>2, <1>3, FS_Subset, FS_CardinalityType

LEMMA NoOperationApart == NoOperation \notin Operations
  BY OperationKinds DEF NoOperation
(***************************************************************************)
(* The steps.                                                              *)
(***************************************************************************)
LEMMA InitRefines == CStoreInit => Shared!SharedInit
<1> SUFFICES ASSUME CStoreInit PROVE Shared!SharedInit
  OBVIOUS
<1>1. \A c \in Calls : Cardinality(effects[c]) = 0
  BY FS_EmptySet DEF CStoreInit, AbsInit
<1>2. \A c \in Calls : SeenBy(c) = NoAnswer
  BY DEF CStoreInit, SeenBy
<1> QED
  BY <1>1, <1>2 DEF CStoreInit, Shared!SharedInit

LEMMA CallRefines ==
  ASSUME SInv, NEW c \in Calls, NEW o \in Operations, Call(c, o)
  PROVE  Shared!Begin(c, o)
<1>1. /\ op[c] = NoOperation /\ answer[c] = NoAnswer
      /\ UNCHANGED <<answer, effects, result, stored>>
      /\ op' = [op EXCEPT ![c] = o]
  BY DEF SInv, IdleUntouched, IInv, Progress, Call, Start
<1>2. \A d \in Calls : SeenBy(d)' = SeenBy(d)
  BY <1>1 DEF SInv, IInv, Types, SeenBy
<1> QED
  BY <1>1, <1>2 DEF Shared!Begin

LEMMA RefuseRefines ==
  ASSUME SInv, NEW c \in Calls, NEW o \in Operations, RefuseCall(c, o)
  PROVE  Shared!TurnDown(c, o)
<1>1. /\ op[c] = NoOperation /\ answer[c] = NoAnswer
      /\ UNCHANGED <<answer, effects, stored>>
      /\ op' = [op EXCEPT ![c] = o]
      /\ result' = [result EXCEPT ![c] = Error]
  BY DEF SInv, IdleUntouched, IInv, Progress, RefuseCall, Refuse
<1>2. \A d \in Calls : SeenBy(d)' = SeenBy(d)
  BY <1>1 DEF SInv, IInv, Types, SeenBy
<1> QED
  BY <1>1, <1>2 DEF Shared!TurnDown

\* A call that is active is one that runs.
LEMMA ActiveRuns ==
  ASSUME SInv, NEW c \in Calls, outcome[c] = "active"
  PROVE  Shared!Running(c)
  BY NoOperationApart DEF SInv, IInv, Progress, Shared!Running

\* What the caller sees changes only for the call whose answer changes.
LEMMA SeenUpdate ==
  ASSUME SInv, NEW c \in Calls, UNCHANGED op,
         \A d \in Calls \ {c} : answer'[d] = answer[d]
  PROVE  [d \in Calls |-> SeenBy(d)']
           = [[d \in Calls |-> SeenBy(d)] EXCEPT ![c] = SeenBy(c)']
  BY DEF SeenBy

LEMMA SendRefines ==
  ASSUME SInv, NEW c \in Calls, SendRequest(c)
  PROVE  Shared!TryAgain(c)
<1>1. /\ outcome[c] = "active" /\ sent[c] <= limit[c]
      /\ UNCHANGED <<op, result, stored, effects>>
      /\ answer' = [answer EXCEPT ![c] = NoAnswer]
  BY DEF SendRequest, Send
<1>2. Cardinality(effects[c]) <= MaxRetries
  BY <1>1, ActsBounded, MaxRetriesAssumption DEF SInv, IInv, Types, AbsTypeOK
<1>3. /\ answer'[c] = NoAnswer
      /\ \A d \in Calls \ {c} : answer'[d] = answer[d]
  BY <1>1 DEF SInv, IInv, Types
<1>4. SeenBy(c)' = NoAnswer
  BY <1>3 DEF SeenBy
<1> QED
  BY <1>1, <1>2, <1>3, <1>4, ActiveRuns, SeenUpdate DEF Shared!TryAgain

LEMMA ReturnRefines ==
  ASSUME SInv, NEW c \in Calls, NEW r, Return(c, r), Succeed(c) \/ Fail(c)
  PROVE  Shared!Return(c, r)
<1>1. /\ outcome[c] = "active"
      /\ UNCHANGED <<op, stored, effects>>
      /\ result' = [result EXCEPT ![c] = r]
      /\ answer' = [answer EXCEPT ![c] = NoAnswer]
  BY DEF Return, Succeed, Fail
<1>2. /\ answer'[c] = NoAnswer
      /\ \A d \in Calls \ {c} : answer'[d] = answer[d]
  BY <1>1 DEF SInv, IInv, Types
<1>3. SeenBy(c)' = NoAnswer
  BY <1>2 DEF SeenBy
<1> QED
  BY <1>1, <1>2, <1>3, ActiveRuns, SeenUpdate DEF Shared!Return

LEMMA DecodedRefines ==
  ASSUME SInv, NEW c \in Calls, ReturnDecoded(c)
  PROVE  Shared!Reply(c)
<1>1. outcome[c] = "active" /\ LastTookEffect(c) /\ Succeed(c)
  BY DEF ReturnDecoded, Succeed
<1>2. answer[c] # NoAnswer
  BY <1>1 DEF SInv, IInv, Progress
<1>3. SeenBy(c) = Decoded(op[c], answer[c]) /\ SeenBy(c) # NoAnswer
  BY <1>1, <1>2, SeenShape
<1>4. Shared!Return(c, SeenBy(c))
  BY <1>1, <1>3, ReturnRefines DEF ReturnDecoded
<1> QED
  BY <1>3, <1>4 DEF Shared!Reply

LEMMA MisfitRefines ==
  ASSUME SInv, NEW c \in Calls, ReturnMisfit(c)
  PROVE  Shared!ReplyMisfit(c)
<1>1. outcome[c] = "active" /\ LastTookEffect(c) /\ Succeed(c)
  BY DEF ReturnMisfit, Succeed
<1>2. answer[c] # NoAnswer
  BY <1>1 DEF SInv, IInv, Progress
<1>3. SeenBy(c) = Decoded(op[c], answer[c])
  BY <1>1, <1>2, SeenShape
<1>4. Shared!Return(c, Misfit)
  BY <1>1, ReturnRefines DEF ReturnMisfit
<1> QED
  BY <1>3, <1>4 DEF ReturnMisfit, Misfits, Shared!ReplyMisfit

LEMMA ErrorRefines ==
  ASSUME SInv, NEW c \in Calls, ReturnError(c)
  PROVE  Shared!Fail(c)
  BY ReturnRefines DEF ReturnError, Shared!Fail

(***************************************************************************)
(* A repetition that takes effect is an act, and its answer reaches the    *)
(* caller, blank or not, or nobody.                                        *)
(***************************************************************************)
LEMMA EffectActs ==
  ASSUME SInv, NEW c \in Calls, NEW n \in 0..MaxRetries, TakeEffect(c, n),
         UNCHANGED <<op, result>>
  PROVE  Shared!Acts(c) /\ op[c] \in Operations
<1>1. /\ n < sent[c] /\ n \notin effects[c]
      /\ effects' = [effects EXCEPT ![c] = @ \cup {n}]
  BY DEF TakeEffect
<1>2. op[c] \in Operations
  BY <1>1, MaxRetriesAssumption
  DEF SInv, IInv, Progress, Types, AbsTypeOK, Outcomes
<1>3. /\ effects'[c] = effects[c] \cup {n}
      /\ \A d \in Calls \ {c} : effects'[d] = effects[d]
  BY <1>1 DEF SInv, IInv, Types, AbsTypeOK
<1>4. /\ IsFiniteSet(effects'[c])
      /\ Cardinality(effects'[c]) = Cardinality(effects[c]) + 1
      /\ Cardinality(effects[c]) \in Nat
  <2>1. PICK S : S = effects[c]
    OBVIOUS
  <2>2. IsFiniteSet(S) /\ Cardinality(S) \in Nat
    BY <2>1, ActsBounded
  <2>3. /\ IsFiniteSet(S \cup {n})
        /\ Cardinality(S \cup {n}) = IF n \in S THEN Cardinality(S)
                                    ELSE Cardinality(S) + 1
    BY <2>2, FS_AddElement
  <2> QED
    BY <1>1, <1>3, <2>1, <2>2, <2>3
<1>5. effects'[c] \subseteq 0..MaxRetries
  BY <1>3 DEF SInv, IInv, Types, AbsTypeOK
<1>6. /\ IsFiniteSet(0..MaxRetries)
      /\ Cardinality(0..MaxRetries) = MaxRetries + 1
  BY FS_Interval, MaxRetriesAssumption
<1>7. Cardinality(effects'[c]) <= MaxRetries + 1
  BY <1>5, <1>6, FS_Subset
<1>8. Cardinality(effects[c]) <= MaxRetries
  BY <1>4, <1>7, MaxRetriesAssumption
<1>9. [d \in Calls |-> Cardinality(effects'[d])]
        = [[d \in Calls |-> Cardinality(effects[d])]
             EXCEPT ![c] = Cardinality(effects[c]) + 1]
  BY <1>3, <1>4
<1> QED
  BY <1>2, <1>8, <1>9, NoOperationApart DEF Shared!Acts

LEMMA AnswerSeen ==
  ASSUME SInv, NEW c \in Calls, NEW n \in 0..MaxRetries, NEW body,
         TakeEffect(c, n), Answers(c, n, body), UNCHANGED <<op, result>>,
         op[c] \in Operations, body # NoAnswer
  PROVE  \/ Shared!Sees(c, Decoded(op[c], body))
         \/ Emptied /\ Shared!Sees(c, Decoded(op[c], BlankBody))
<1>1. CASE ~(outcome[c] = "active" /\ n + 1 = sent[c])
  <2>1. UNCHANGED <<answer, op>>
    BY <1>1 DEF Answers
  <2> QED
    BY <2>1 DEF Shared!Sees, SeenBy
<1>2. CASE outcome[c] = "active" /\ n + 1 = sent[c]
  <2>1. PICK b \in Received(body) : answer' = [answer EXCEPT ![c] = b]
    BY <1>2 DEF Answers
  <2>2. /\ b = body \/ (b = BlankBody /\ Emptied)
        /\ b # NoAnswer
    BY BodiesAreAnswers DEF Received, WriteBodies
  <2>3. /\ answer'[c] = b
        /\ \A d \in Calls \ {c} : answer'[d] = answer[d]
    BY <2>1 DEF SInv, IInv, Types
  <2>4. SeenBy(c)' = Decoded(op[c], b)
    BY <2>2, <2>3 DEF SeenBy
  <2>5. Shared!Sees(c, Decoded(op[c], b))
    BY <1>2, <2>3, <2>4, ActiveRuns, SeenUpdate DEF Shared!Sees
  <2> QED
    BY <2>2, <2>5
<1> QED
  BY <1>1, <1>2

LEMMA AcceptRefines ==
  ASSUME SInv, NEW c \in Calls, NEW n \in 0..MaxRetries, AcceptWrite(c, n)
  PROVE  Shared!Write(c)
<1>1. PICK body \in AcceptBodies : Answers(c, n, body)
  BY DEF AcceptWrite
<1>2. /\ IsWrite(op[c]) /\ TakeEffect(c, n) /\ UNCHANGED <<op, result>>
      /\ stored' = [stored EXCEPT ![op[c].slot] = op[c].value]
  BY DEF AcceptWrite
<1>3. Shared!Acts(c) /\ op[c] \in Operations
  BY <1>2, EffectActs
<1>4. body # NoAnswer
  BY BodiesAreAnswers DEF WriteBodies
<1>5. \/ Shared!Sees(c, Decoded(op[c], body))
      \/ Emptied /\ Shared!Sees(c, Decoded(op[c], BlankBody))
  BY <1>1, <1>2, <1>3, <1>4, AnswerSeen
<1>6. Decoded(op[c], body) = Done /\ Decoded(op[c], BlankBody) = Error
  BY <1>2, <1>3, AcceptIsDone, RejectIsError
<1> QED
  BY <1>2, <1>3, <1>5, <1>6 DEF Shared!Write

LEMMA RejectRefines ==
  ASSUME SInv, NEW c \in Calls, NEW n \in 0..MaxRetries, RejectWrite(c, n)
  PROVE  Shared!Refuse(c)
<1>1. PICK body \in RejectBodies : Answers(c, n, body)
  BY DEF RejectWrite
<1>2. IsWrite(op[c]) /\ TakeEffect(c, n) /\ UNCHANGED <<op, result, stored>>
  BY DEF RejectWrite
<1>3. Shared!Acts(c) /\ op[c] \in Operations
  BY <1>2, EffectActs
<1>4. body # NoAnswer
  BY BodiesAreAnswers DEF WriteBodies
<1>5. \/ Shared!Sees(c, Decoded(op[c], body))
      \/ Emptied /\ Shared!Sees(c, Decoded(op[c], BlankBody))
  BY <1>1, <1>2, <1>3, <1>4, AnswerSeen
<1>6. Decoded(op[c], body) = Error /\ Decoded(op[c], BlankBody) = Error
  BY <1>2, <1>3, RejectIsError
<1> QED
  BY <1>2, <1>3, <1>5, <1>6 DEF Shared!Refuse

LEMMA ReadRefines ==
  ASSUME SInv, NEW c \in Calls, NEW n \in 0..MaxRetries, AnswerRead(c, n)
  PROVE  Shared!Read(c)
<1>1. TakeEffect(c, n) /\ UNCHANGED <<op, result, stored>>
  BY DEF AnswerRead
<1>2. Shared!Acts(c) /\ op[c] \in Operations
  BY <1>1, EffectActs
<1>3. ~IsWrite(op[c]) /\ Answers(c, n, ReadBody(op[c]))
  BY DEF AnswerRead, ReadBody, ValueKinds, IsWrite
<1>4. /\ Decoded(op[c], ReadBody(op[c])) = View(op[c], stored)
      /\ Decoded(op[c], BlankBody) = Absent
      /\ ReadBody(op[c]) # NoAnswer
  BY <1>2, <1>3, ReadIsView DEF SInv, IInv
<1>5. \/ Shared!Sees(c, Decoded(op[c], ReadBody(op[c])))
      \/ Emptied /\ Shared!Sees(c, Decoded(op[c], BlankBody))
  BY <1>1, <1>2, <1>3, <1>4, AnswerSeen
<1> QED
  BY <1>1, <1>2, <1>3, <1>4, <1>5 DEF Shared!Read

LEMMA StepRefines ==
  SInv /\ [CStoreNext]_cstoreVars => [Shared!SharedNext]_Shared!sharedVars
<1> SUFFICES ASSUME SInv, [CStoreNext]_cstoreVars
             PROVE  [Shared!SharedNext]_Shared!sharedVars
  OBVIOUS
<1>1. CASE UNCHANGED cstoreVars
  BY <1>1 DEF cstoreVars, absVars, Shared!sharedVars, SeenBy
<1>2. CASE CStoreNext
  BY <1>2, CallRefines, RefuseRefines, SendRefines, DecodedRefines,
     MisfitRefines, ErrorRefines, AcceptRefines, RejectRefines, ReadRefines
  DEF CStoreNext, Shared!SharedNext
<1> QED
  BY <1>1, <1>2

\* Every behaviour of the client, its requests and the manager is one of the
\* shared store that an application is promised: what a call returns without
\* an error is what its last repetition found or did.
THEOREM CStoreIsSharedStore == CStoreSpec => ImplementsSharedStore
<1>1. CStoreInit => SInv
  BY InitIInv DEF SInv, IdleUntouched, CStoreInit, AbsInit
<1> QED
  BY <1>1, StepSInv, InitRefines, StepRefines, PTL
  DEF CStoreSpec, ImplementsSharedStore, Shared!SharedSpec

-----------------------------------------------------------------------------
(***************************************************************************)
(* Reads follow acknowledgements.  WriterKnown says whose value a slot     *)
(* holds, and AnswersTold what an answer on its way, or a result, says of  *)
(* a write that was acknowledged before: either it shows it, or another    *)
(* write was not out of the way.                                           *)
(***************************************************************************)
Disturbed(w, r) == \E a \in Rivals(w) : ~OutOfTheWay(a, w, r)

\* What the result v of operation o tells of the write u.
Told(v, o, u) ==
  /\ o.kind \in ValueKinds /\ o.slot = u.slot => v = ShownAs(u.value)
  /\ o.kind = "hgetall" /\ u.kind = "hset" /\ o.slot[1] = u.slot[1] =>
       /\ v.kind = "items"
       /\ u.slot[2] \in DOMAIN v.fields /\ v.fields[u.slot[2]] = u.value
  /\ o.kind = "get_status" /\ u.kind = "set" =>
       v.kind = "listing" /\ u.slot[1] \in v.keys

Answered(v, r, w) ==
  \/ Told(v, op[r], op[w])
  \/ Emptied /\ v = Absent
  \/ Disturbed(w, r)

WriterKnown ==
  /\ \A s \in Slots : stored[s] # Missing =>
       LET a == writer[s]
       IN  /\ a \in accepted /\ IsWrite(op[a])
           /\ op[a].slot = s /\ op[a].value = stored[s]
  /\ \A w \in accepted : IsWrite(op[w]) /\ stored[op[w].slot] # Missing

AnswersTold ==
  \A r \in Calls : \A w \in before[r] :
    IsWrite(op[w]) /\ result[w] = Done =>
      /\ answer[r] # NoAnswer => Answered(Decoded(op[r], answer[r]), r, w)
      /\ outcome[r] = "ok" =>
           \/ Answered(result[r], r, w)
           \/ result[r] = Misfit /\ op[r].kind \in ValueKinds

RInv == SInv /\ WriterKnown /\ AnswersTold

\* What no step does to a call that began, nor to one that is over.
Onward ==
  /\ \A c \in Calls : outcome[c] # "idle" =>
       /\ op'[c] = op[c] /\ before'[c] = before[c]
       /\ outcome[c] # "refused" => outcome'[c] # "refused"
  /\ \A c \in Calls : result[c] # Pending =>
       result'[c] = result[c] /\ sent'[c] = sent[c]

LEMMA StepsOnward ==
  ASSUME SInv, [CStoreNext]_cstoreVars
  PROVE  Onward
<1> USE DEF SInv, IInv, Types, AbsTypeOK, Progress, Onward, histories
<1>1. CASE UNCHANGED cstoreVars
  BY <1>1 DEF cstoreVars, absVars
<1>2. ASSUME NEW c \in Calls, NEW o \in Operations, Call(c, o) \/ RefuseCall(c, o)
      PROVE  Onward
  BY <1>2 DEF Call, RefuseCall, Start, Refuse
<1>3. ASSUME NEW c \in Calls, SendRequest(c)
      PROVE  Onward
  BY <1>3 DEF SendRequest, Send
<1>4. ASSUME NEW c \in Calls, ReturnDecoded(c) \/ ReturnMisfit(c) \/ ReturnError(c)
      PROVE  Onward
  BY <1>4 DEF ReturnDecoded, ReturnMisfit, ReturnError, Return, Succeed, Fail
<1>5. ASSUME NEW c \in Calls, NEW n \in 0..MaxRetries,
             AcceptWrite(c, n) \/ RejectWrite(c, n) \/ AnswerRead(c, n)
      PROVE  Onward
  BY <1>5 DEF AcceptWrite, RejectWrite, AnswerRead, TakeEffect
<1> QED
  BY <1>1, <1>2, <1>3, <1>4, <1>5 DEF CStoreNext

LEMMA DisturbedKept ==
  ASSUME SInv, Onward, NEW w \in Calls, NEW r \in Calls, IsWrite(op[w]),
         result[w] # Pending, Disturbed(w, r)
  PROVE  Disturbed(w, r)'
<1>1. PICK a \in Rivals(w) : ~OutOfTheWay(a, w, r)
  BY DEF Disturbed
<1>2. outcome[a] # "idle" /\ outcome[w] # "idle"
  BY <1>1, NoOperationDoesNothing DEF SInv, IdleUntouched, Rivals
<1>3. a \in Rivals(w)'
  BY <1>1, <1>2 DEF Rivals, Onward
<1>4. a \in before[w] => result[a] # Pending
  BY DEF SInv, IInv, HistoryKept
<1>5. ~OutOfTheWay(a, w, r)'
  BY <1>1, <1>2, <1>4 DEF OutOfTheWay, Onward, Rivals
<1> QED
  BY <1>3, <1>5 DEF Disturbed

LEMMA AnsweredKept ==
  ASSUME SInv, Onward, NEW w \in Calls, NEW r \in Calls, IsWrite(op[w]),
         result[w] # Pending, outcome[r] # "idle"
  PROVE  \A v : Answered(v, r, w) => Answered(v, r, w)'
<1>1. op'[r] = op[r] /\ op'[w] = op[w]
  BY NoOperationDoesNothing DEF Onward, SInv, IdleUntouched
<1> QED
  BY <1>1, DisturbedKept DEF Answered

\* Whoever acts on it, a slot that w wrote holds w's value while r runs,
\* unless another write was not out of the way.
LEMMA SlotUndisturbed ==
  ASSUME RInv, NEW r \in Calls, NEW w \in Calls, result[r] = Pending,
         IsWrite(op[w]), result[w] = Done
  PROVE  \/ Disturbed(w, r)
         \/ stored[op[w].slot] = op[w].value
<1> DEFINE s == op[w].slot
           a == writer[s]
<1>1. w \in accepted /\ s \in Slots /\ stored[s] # Missing
  <2>1. op[w] \in Operations
    BY NoOperationDoesNothing DEF RInv, SInv, IInv, Types
  <2> QED
    BY <2>1, WriteShape DEF RInv, SInv, IInv, AckMeansAccepted, WriterKnown
<1>2. /\ a \in accepted /\ a \in Calls /\ IsWrite(op[a])
      /\ op[a].slot = s /\ op[a].value = stored[s]
  BY <1>1 DEF RInv, WriterKnown, SInv, IInv, Types
<1>3. CASE a = w
  BY <1>2, <1>3
<1>4. CASE a # w
  <2>1. a \in Rivals(w)
    BY <1>2, <1>4 DEF Rivals
  <2>2. r \notin before[a]
    BY <1>2 DEF RInv, SInv, IInv, HistoryKept
  <2>3. outcome[a] # "refused"
    BY <1>2 DEF RInv, SInv, IInv, HistoryKept, Progress
  <2>4. ~(a \in before[w] /\ result[a] = Done /\ sent[a] = 1)
    BY <1>1 DEF RInv, SInv, IInv, WritesOver
  <2> QED
    BY <2>1, <2>2, <2>3, <2>4 DEF Disturbed, OutOfTheWay
<1> QED
  BY <1>3, <1>4

\* A read that finds the value in its slot tells of the write.
LEMMA ViewTells ==
  ASSUME NEW o \in Operations, NEW u \in Operations, ~IsWrite(o), IsWrite(u),
         stored[u.slot] = u.value
  PROVE  Told(View(o, stored), o, u)
<1>1. u.value # Missing
  BY WriteShape, ValuesAssumption, MissingAssumption
<1>2. CASE o.kind \in ValueKinds
  <2>1. View(o, stored) = IF stored[o.slot] = Missing THEN Absent
                          ELSE ShownAs(stored[o.slot])
    BY <1>2 DEF View, ValueKinds
  <2> QED
    BY <1>1, <1>2, <2>1 DEF Told, ValueKinds
<1>3. CASE o.kind = "hgetall"
  <2> DEFINE h == o.slot[1]
             fields == {f \in Fields : stored[<<h, f>>] # Missing}
  <2>1. View(o, stored) = IF fields = {} THEN Absent
                          ELSE Items([f \in fields |-> stored[<<h, f>>]])
    BY <1>3 DEF View
  <2>2. SUFFICES ASSUME u.kind = "hset", h = u.slot[1]
                 PROVE  Told(View(o, stored), o, u)
    BY <1>3 DEF Told, ValueKinds
  <2>3. u.slot = <<h, u.slot[2]>> /\ u.slot[2] \in Fields
    BY <2>2 DEF Operations, HashSlots
  <2>4. u.slot[2] \in fields
    BY <1>1, <2>3
  <2>5. View(o, stored) = Items([f \in fields |-> stored[<<h, f>>]])
    BY <2>1, <2>4
  <2> QED
    BY <1>3, <2>3, <2>4, <2>5 DEF Told, ValueKinds, Items
<1>4. CASE o.kind = "get_status"
  <2>1. View(o, stored) = Listing({k \in Keys : stored[<<k>>] # Missing})
    BY <1>4 DEF View
  <2>2. SUFFICES ASSUME u.kind = "set"
                 PROVE  Told(View(o, stored), o, u)
    BY <1>4 DEF Told, ValueKinds
  <2>3. u.slot = <<u.slot[1]>> /\ u.slot[1] \in Keys
    BY <2>2 DEF Operations, KeySlots
  <2> QED
    BY <1>1, <1>4, <2>1, <2>3 DEF Told, ValueKinds, Listing
<1> QED
  BY <1>2, <1>3, <1>4, OperationKinds DEF IsWrite, ValueKinds

LEMMA StepWriterKnown ==
  ASSUME RInv, [CStoreNext]_cstoreVars
  PROVE  WriterKnown'
<1> USE DEF RInv, SInv, IInv, Types
<1>1. \A w \in accepted : w \in Calls /\ op'[w] = op[w]
  BY StepsOnward DEF Onward, HistoryKept, Progress
<1>2. ASSUME UNCHANGED <<stored, writer, accepted>> PROVE WriterKnown'
  BY <1>1, <1>2 DEF WriterKnown
<1>3. ASSUME NEW c \in Calls, NEW n \in 0..MaxRetries, AcceptWrite(c, n)
      PROVE  WriterKnown'
  <2> DEFINE s == op[c].slot
  <2>1. /\ UNCHANGED op /\ IsWrite(op[c])
        /\ stored' = [stored EXCEPT ![s] = op[c].value]
        /\ writer' = [writer EXCEPT ![s] = c]
        /\ accepted' = accepted \cup {c}
    BY <1>3 DEF AcceptWrite
  <2>2. s \in Slots /\ op[c].value # Missing
    BY <2>1, WriteShape, NoOperationDoesNothing, ValuesAssumption,
       MissingAssumption
  <2> QED
    BY <2>1, <2>2 DEF WriterKnown
<1>4. CASE UNCHANGED cstoreVars
  BY <1>2, <1>4 DEF cstoreVars, histories
<1>5. CASE CStoreNext
  BY <1>2, <1>3, <1>5
  DEF CStoreNext, Call, RefuseCall, SendRequest, ReturnDecoded, ReturnMisfit,
      ReturnError, Return, RejectWrite, AnswerRead, histories
<1> QED
  BY <1>4, <1>5

\* The calls of which nobody learns anything new keep what they know.
LEMMA AnswersKept ==
  ASSUME RInv, Onward, before' \in [Calls -> SUBSET Calls],
         NEW r \in Calls, NEW w \in before'[r], IsWrite(op[w])', result'[w] = Done,
         outcome[r] # "idle"
  PROVE  /\ w \in before[r] /\ w \in Calls /\ IsWrite(op[w]) /\ result[w] = Done
         /\ op'[r] = op[r]
         /\ \A v : Answered(v, r, w) => Answered(v, r, w)'
<1>1. w \in before[r] /\ w \in Calls /\ op'[r] = op[r]
  BY DEF Onward
<1>2. result[w] # Pending /\ result[w] = Done
  BY <1>1 DEF Onward, RInv, SInv, IInv, HistoryKept
<1>3. outcome[w] # "idle"
  BY <1>1, <1>2 DEF RInv, SInv, IInv, Progress
<1>4. IsWrite(op[w])
  BY <1>1, <1>3 DEF Onward
<1> QED
  BY <1>1, <1>2, <1>4, AnsweredKept DEF RInv

\* What a call learns of an earlier write from a new answer or result.
Learns(r, w) ==
  /\ answer'[r] \notin {NoAnswer, answer[r]} =>
       Answered(Decoded(op[r], answer'[r]), r, w)
  /\ outcome'[r] = "ok" /\ outcome[r] # "ok" =>
       \/ Answered(result'[r], r, w)
       \/ result'[r] = Misfit /\ op[r].kind \in ValueKinds

LEMMA LearningSuffices ==
  ASSUME RInv, Onward, SInv',
         \A r \in Calls : IF outcome[r] = "idle"
                          THEN answer'[r] = NoAnswer /\ outcome'[r] # "ok"
                          ELSE \A w \in before[r] :
                                 IsWrite(op[w]) /\ result[w] = Done => Learns(r, w)
  PROVE  AnswersTold'
<1> SUFFICES ASSUME NEW r \in Calls, NEW w \in before'[r],
                    IsWrite(op[w])', result'[w] = Done
             PROVE  /\ answer'[r] # NoAnswer =>
                         Answered(Decoded(op[r], answer[r]), r, w)'
                    /\ outcome'[r] = "ok" =>
                         \/ Answered(result[r], r, w)'
                         \/ result'[r] = Misfit /\ op'[r].kind \in ValueKinds
  BY DEF AnswersTold
<1>1. CASE outcome[r] = "idle"
  BY <1>1
<1>2. CASE outcome[r] # "idle"
  <2>1. before' \in [Calls -> SUBSET Calls]
    BY DEF SInv, IInv, Types
  <2>2. /\ w \in before[r] /\ w \in Calls /\ IsWrite(op[w]) /\ result[w] = Done
        /\ op'[r] = op[r]
        /\ \A v : Answered(v, r, w) => Answered(v, r, w)'
    BY <1>2, <2>1, AnswersKept
  <2>3. Learns(r, w)
    BY <1>2, <2>2
  <2>4. ASSUME answer'[r] # NoAnswer
        PROVE  Answered(Decoded(op[r], answer[r]), r, w)'
    <3>1. Answered(Decoded(op[r], answer'[r]), r, w)
      BY <2>2, <2>3, <2>4 DEF Learns, RInv, AnswersTold
    <3>2. PICK v : v = Decoded(op[r], answer'[r])
      OBVIOUS
    <3>3. Answered(v, r, w)' /\ v = Decoded(op'[r], answer'[r])
      BY <2>2, <3>1, <3>2
    <3> QED
      BY <3>3
  <2>5. ASSUME outcome'[r] = "ok"
        PROVE  \/ Answered(result[r], r, w)'
               \/ result'[r] = Misfit /\ op'[r].kind \in ValueKinds
    <3>1. outcome[r] = "ok" => result'[r] = result[r]
      BY DEF Onward, RInv, SInv, IInv, Progress
    <3>2. \/ Answered(result'[r], r, w)
          \/ result'[r] = Misfit /\ op[r].kind \in ValueKinds
      BY <2>2, <2>3, <2>5, <3>1 DEF Learns, RInv, AnswersTold
    <3>3. PICK v : v = result'[r]
      OBVIOUS
    <3> QED
      BY <2>2, <3>2, <3>3
  <2> QED
    BY <2>4, <2>5
<1> QED
  BY <1>1, <1>2

\* An answer that arrives, or a result that is returned, is of one call.
LEMMA ReturnTold ==
  ASSUME RInv, SInv', Onward, NEW c \in Calls, NEW v, Return(c, v),
         Succeed(c) \/ Fail(c),
         Succeed(c) => \/ v = Decoded(op[c], answer[c])
                       \/ v = Misfit /\ op[c].kind \in ValueKinds
  PROVE  AnswersTold'
<1> USE DEF RInv, SInv, IInv, Types, AbsTypeOK
<1>1. /\ answer'[c] = NoAnswer /\ result'[c] = v
      /\ outcome[c] = "active" /\ outcome'[c] \in {"ok", "failed"}
      /\ \A d \in Calls \ {c} : answer'[d] = answer[d] /\ outcome'[d] = outcome[d]
  BY DEF Return, Succeed, Fail
<1>2. outcome'[c] = "ok" => Succeed(c) /\ answer[c] # NoAnswer
  BY <1>1 DEF Succeed, Fail, Progress
<1>3. \A w \in before[c] : IsWrite(op[w]) /\ result[w] = Done => Learns(c, w)
  BY <1>1, <1>2 DEF Learns, AnswersTold
<1>4. \A r \in Calls \ {c} : \A w : outcome[r] # "idle" => Learns(r, w)
  BY <1>1 DEF Learns
<1>5. \A r \in Calls \ {c} : outcome[r] = "idle" =>
        answer'[r] = NoAnswer /\ outcome'[r] # "ok"
  BY <1>1 DEF Progress
<1> QED
  BY <1>1, <1>3, <1>4, <1>5, LearningSuffices

LEMMA EffectTold ==
  ASSUME RInv, SInv', Onward, NEW c \in Calls, NEW n \in 0..MaxRetries,
         NEW body, TakeEffect(c, n), Answers(c, n, body),
         \A b \in Received(body) : \A w \in before[c] :
           IsWrite(op[w]) /\ result[w] = Done /\ outcome[c] = "active" =>
             Answered(Decoded(op[c], b), c, w)
  PROVE  AnswersTold'
<1> USE DEF RInv, SInv, IInv, Types, AbsTypeOK
<1>1. /\ outcome' = outcome
      /\ \A d \in Calls \ {c} : answer'[d] = answer[d]
      /\ \/ answer'[c] = answer[c]
         \/ outcome[c] = "active" /\ answer'[c] \in Received(body)
  BY DEF TakeEffect, Answers
<1>2. \A w \in before[c] : IsWrite(op[w]) /\ result[w] = Done => Learns(c, w)
  BY <1>1 DEF Learns
<1>3. \A r \in Calls \ {c} : \A w : Learns(r, w)
  BY <1>1 DEF Learns
<1>4. \A r \in Calls : outcome[r] = "idle" =>
        answer'[r] = NoAnswer /\ outcome'[r] # "ok"
  BY <1>1 DEF Progress
<1> QED
  BY <1>2, <1>3, <1>4, LearningSuffices

LEMMA ReadTold ==
  ASSUME RInv, SInv', Onward, NEW c \in Calls, NEW n \in 0..MaxRetries,
         AnswerRead(c, n)
  PROVE  AnswersTold'
<1>1. TakeEffect(c, n) /\ UNCHANGED <<op, result>>
  BY DEF AnswerRead
<1>2. op[c] \in Operations
  BY <1>1, EffectActs DEF RInv
<1>3. ~IsWrite(op[c]) /\ Answers(c, n, ReadBody(op[c]))
  BY DEF AnswerRead, ReadBody, ValueKinds, IsWrite
<1>4. /\ Decoded(op[c], ReadBody(op[c])) = View(op[c], stored)
      /\ Decoded(op[c], BlankBody) = Absent
  BY <1>2, <1>3, ReadIsView DEF RInv, SInv, IInv
<1>5. ASSUME NEW w \in before[c], IsWrite(op[w]), result[w] = Done,
             outcome[c] = "active"
      PROVE  Answered(View(op[c], stored), c, w)
  <2>1. w \in Calls /\ op[w] \in Operations /\ result[c] = Pending
    BY <1>5, NoOperationDoesNothing DEF RInv, SInv, IInv, Types, Progress
  <2> QED
    BY <1>2, <1>3, <1>5, <2>1, SlotUndisturbed, ViewTells DEF Answered
<1>6. \A b \in Received(ReadBody(op[c])) :
        b = ReadBody(op[c]) \/ (b = BlankBody /\ Emptied)
  BY DEF Received
<1>7. \A b \in Received(ReadBody(op[c])) : \A w \in before[c] :
        IsWrite(op[w]) /\ result[w] = Done /\ outcome[c] = "active" =>
          Answered(Decoded(op[c], b), c, w)
  BY <1>4, <1>5, <1>6 DEF Answered
<1> QED
  BY <1>1, <1>3, <1>7, EffectTold

LEMMA StepAnswersTold ==
  ASSUME RInv, [CStoreNext]_cstoreVars, SInv'
  PROVE  AnswersTold'
<1> USE DEF RInv, SInv, IInv, Types, AbsTypeOK, Progress
<1>1. Onward
  BY StepsOnward
<1>2. ASSUME NEW c \in Calls, outcome[c] = "idle" => outcome'[c] # "ok",
             answer'[c] \in {NoAnswer, answer[c]},
             outcome[c] # "idle" => outcome'[c] = outcome[c],
             \A d \in Calls \ {c} : /\ answer'[d] = answer[d]
                                    /\ outcome'[d] = outcome[d]
      PROVE  AnswersTold'
  BY <1>1, <1>2, LearningSuffices DEF Learns
<1>3. CASE UNCHANGED cstoreVars
  <2>1. UNCHANGED <<answer, outcome>>
    BY <1>3 DEF cstoreVars, absVars
  <2> QED
    BY <1>1, <2>1, LearningSuffices DEF Learns
<1>4. ASSUME NEW c \in Calls, NEW o \in Operations, Call(c, o) \/ RefuseCall(c, o)
      PROVE  AnswersTold'
  BY <1>2, <1>4 DEF Call, RefuseCall, Start, Refuse
<1>5. ASSUME NEW c \in Calls, SendRequest(c) PROVE AnswersTold'
  BY <1>2, <1>5 DEF SendRequest, Send
<1>6. ASSUME NEW c \in Calls, ReturnDecoded(c) PROVE AnswersTold'
  BY <1>1, <1>6, ReturnTold DEF ReturnDecoded
<1>7. ASSUME NEW c \in Calls, ReturnMisfit(c) PROVE AnswersTold'
  <2>1. op[c] \in Operations /\ Decoded(op[c], answer[c]).kind = "item"
    BY <1>7 DEF ReturnMisfit, Succeed
  <2>2. op[c].kind \in ValueKinds
    BY <2>1, DecodedShape
  <2> QED
    BY <1>1, <1>7, <2>2, ReturnTold DEF ReturnMisfit
<1>8. ASSUME NEW c \in Calls, ReturnError(c) PROVE AnswersTold'
  <2>1. ~Succeed(c)
    BY <1>8 DEF ReturnError, Succeed, Fail
  <2> QED
    BY <1>1, <1>8, <2>1, ReturnTold DEF ReturnError
<1>9. ASSUME NEW c \in Calls, NEW n \in 0..MaxRetries,
             AcceptWrite(c, n) \/ RejectWrite(c, n)
      PROVE  AnswersTold'
  <2>1. PICK body : Answers(c, n, body)
    BY <1>9 DEF AcceptWrite, RejectWrite
  <2>2. TakeEffect(c, n) /\ IsWrite(op[c])
    BY <1>9 DEF AcceptWrite, RejectWrite
  <2>3. \A v, w : Answered(v, c, w)
    BY <2>2 DEF Answered, Told, IsWrite, ValueKinds
  <2> QED
    BY <1>1, <2>1, <2>2, <2>3, EffectTold
<1>10. ASSUME NEW c \in Calls, NEW n \in 0..MaxRetries, AnswerRead(c, n)
       PROVE  AnswersTold'
  BY <1>1, <1>10, ReadTold
<1> QED
  BY <1>3, <1>4, <1>5, <1>6, <1>7, <1>8, <1>9, <1>10 DEF CStoreNext

\* A read that begins after a write was acknowledged shows it, whatever was
\* repeated or overtaken, unless another write was still under way, had failed
\* or had been repeated, or the reply lost its body.
THEOREM ReadsAreFresh == CStoreSpec => []ReadsFollowAcks
<1>1. CStoreInit => RInv
  <2> SUFFICES ASSUME CStoreInit PROVE RInv
    OBVIOUS
  <2>1. SInv
    BY InitIInv DEF SInv, IdleUntouched, CStoreInit, AbsInit
  <2>2. WriterKnown /\ AnswersTold
    BY DEF CStoreInit, AbsInit, WriterKnown, AnswersTold
  <2> QED
    BY <2>1, <2>2 DEF RInv
<1>2. RInv /\ [CStoreNext]_cstoreVars => RInv'
  BY StepSInv, StepWriterKnown, StepAnswersTold DEF RInv
<1>3. RInv => ReadsFollowAcks
  <2> SUFFICES ASSUME RInv, NEW w \in Calls, NEW r \in Calls,
                      IsWrite(op[w]), result[w] = Done, w \in before[r],
                      outcome[r] = "ok",
                      \A a \in Rivals(w) : OutOfTheWay(a, w, r)
               PROVE  Shows(r, w) \/ (Emptied /\ result[r] = Absent)
    BY DEF ReadsFollowAcks
  <2>1. ~Disturbed(w, r)
    BY DEF Disturbed
  <2>2. \/ Told(result[r], op[r], op[w])
        \/ Emptied /\ result[r] = Absent
        \/ result[r] = Misfit /\ op[r].kind \in ValueKinds
    BY <2>1 DEF RInv, AnswersTold, Answered
  <2>3. op[r] \in Operations
    BY DEF RInv, SInv, IInv, Progress
  <2>4. CASE op[r].kind \in ValueKinds
    BY <2>2, <2>4 DEF Shows, Told, ValueKinds
  <2>5. CASE op[r].kind = "hgetall"
    BY <2>2, <2>5 DEF Shows, Told, ValueKinds
  <2>6. CASE op[r].kind = "get_status"
    BY <2>2, <2>6 DEF Shows, Told, ValueKinds
  <2>7. CASE IsWrite(op[r])
    BY <2>7 DEF Shows, IsWrite
  <2> QED
    BY <2>3, <2>4, <2>5, <2>6, <2>7, OperationKinds DEF IsWrite, ValueKinds
<1> QED
  BY <1>1, <1>2, <1>3, PTL DEF CStoreSpec
=============================================================================
