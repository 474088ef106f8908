---------------------------- MODULE CStoreProofs ----------------------------
(***************************************************************************)
(* Proofs about CStore, for every set of calls, keys, fields and values    *)
(* and every MaxRetries.                                                   *)
(***************************************************************************)
EXTENDS CStore, Ratio1ResponseProofs

(***************************************************************************)
(* The operators of the client.                                            *)
(***************************************************************************)
ValueKinds == {"get", "hget"}

LEMMA WriteShape ==
  ASSUME NEW o \in Operations, IsWrite(o)
  PROVE  /\ o.slot \in Slots /\ o.value \in Values
         /\ o.kind \notin ValueKinds
  BY DEF Operations, IsWrite, Slots, ValueKinds

LEMMA NoOperationDoesNothing ==
  ~IsWrite(NoOperation) /\ NoOperation.kind \notin ValueKinds
  BY DEF NoOperation, IsWrite, ValueKinds

LEMMA OperationKinds ==
  ASSUME NEW o \in Operations
  PROVE  o.kind \in {"set", "hset", "get", "hget", "hgetall", "get_status"}
  BY DEF Operations

\* A value is only stored under names that the request was checked for.
LEMMA ValidSlot ==
  ASSUME NEW o \in Operations, IsWrite(o), Valid(o)
  PROVE  ~\E i \in DOMAIN o.slot : o.slot[i] = Blank
  BY DEF Valid, RequiredNames, IsWrite

WriteBodies == AcceptBodies \cup RejectBodies \cup {BlankBody}
ValueBodies == {Bare(NullText), BlankBody} \cup {Envelope(v) : v \in Values}

LEMMA BodiesAreAnswers ==
  ASSUME NEW f, NEW ks
  PROVE  /\ NoAnswer \notin WriteBodies \cup ValueBodies
         /\ FieldsBody(f) # NoAnswer
         /\ KeysBody(ks) # NoAnswer
  BY DEF WriteBodies, ValueBodies, AcceptBodies, RejectBodies, NoAnswer,
         FieldsBody, KeysBody, Bare, Envelope, BlankBody

\* No answer to a write that was not carried out passes for a yes.
LEMMA OnlyAcceptAcks ==
  ASSUME NEW b \in WriteBodies, Acks(b)
  PROVE  b \in AcceptBodies
<1>1. CASE b = BlankBody
  BY <1>1 DEF Acks, BlankBody, DecodedText, NullText, Affirms
<1>2. CASE b = Bare(NullText)
  BY <1>2 DEF Acks, Bare, DecodedText, ExtractResult, Payload, NullText,
              Affirms
<1>3. CASE b = Bare(WordText)
  BY <1>3 DEF Acks, Bare, DecodedText, ExtractResult, Payload, WordText,
              Affirms
<1>4. CASE b = Envelope(FalseText)
  BY <1>4 DEF Acks, Envelope, DecodedText, ExtractResult, Payload, Unwrapped,
              FalseText, Affirms
<1> QED
  BY <1>1, <1>2, <1>3, <1>4 DEF WriteBodies, RejectBodies

LEMMA EnvelopeText ==
  ASSUME NEW t
  PROVE  DecodedText(Envelope(t)) = Unwrapped(t)
<1>1. ExtractResult(Envelope(t)).text = Unwrapped(t)
  BY EnvelopeResult DEF Payload
<1>2. Envelope(t).kind # "blank"
  BY DEF Envelope
<1> QED
  BY <1>1, <1>2 DEF DecodedText

\* An item that is returned is JSON, and not null.
LEMMA ItemsAreJSON ==
  ASSUME NEW b \in ValueBodies, DecodedItem(b).kind = "item"
  PROVE  DecodedItem(b).value \in JSONTexts \ {NullText}
<1>1. CASE b \in {Bare(NullText), BlankBody}
  <2>1. DecodedText(b) = NullText
    BY <1>1 DEF DecodedText, ExtractResult, Bare, BlankBody, Payload
  <2> QED
    BY <2>1 DEF DecodedItem, Absent
<1>2. ASSUME NEW v \in Values, b = Envelope(v)
      PROVE  DecodedItem(b).value \in JSONTexts \ {NullText}
  <2>1. v \in JSONTexts
    BY ValuesAssumption
  <2>2. DecodedText(b) = Unwrapped(v)
    BY <1>2, EnvelopeText
  <2>3. Unwrapped(v) \in JSONTexts
    BY <2>1, UnwrappedType
  <2>4. DecodedItem(b) \in {Absent, Error, Item(Unwrapped(v))}
    BY <2>2 DEF DecodedItem
  <2>5. DecodedText(b) # NullText
    BY DEF DecodedItem, Absent
  <2>6. DecodedItem(b).value = Unwrapped(v)
    BY <2>4 DEF Absent, Error, Item
  <2> QED
    BY <2>2, <2>3, <2>5, <2>6
<1> QED
  BY <1>1, <1>2 DEF ValueBodies

LEMMA DecodedShape ==
  ASSUME NEW o \in Operations, NEW b
  PROVE  /\ Decoded(o, b).kind \in ResultKinds \ {"pending", "misfit"}
         /\ Decoded(o, b) # Pending
         /\ IsWrite(o) => /\ Decoded(o, b).kind # "item"
                          /\ Decoded(o, b) = Done => Acks(b)
         /\ Decoded(o, b).kind = "item" =>
              o.kind \in ValueKinds /\ Decoded(o, b) = DecodedItem(b)
<1>1. CASE IsWrite(o)
  <2>1. Decoded(o, b) = IF Acks(b) THEN Done ELSE Error
    BY <1>1 DEF Decoded, IsWrite
  <2> QED
    BY <1>1, <2>1 DEF Done, Error, Pending, ResultKinds
<1>2. CASE o.kind \in ValueKinds
  <2>1. ~IsWrite(o) /\ Decoded(o, b) = DecodedItem(b)
    BY <1>2 DEF Decoded, IsWrite, ValueKinds
  <2>2. DecodedItem(b) \in {Absent, Error, Item(DecodedText(b))}
    BY DEF DecodedItem
  <2> QED
    BY <1>2, <2>1, <2>2 DEF Absent, Error, Item, Pending, ResultKinds
<1>3. CASE o.kind = "hgetall"
  <2>1. ~IsWrite(o) /\ Decoded(o, b) \in {Absent, Error, Items(b.fields)}
    BY <1>3 DEF Decoded, IsWrite, DecodedFields
  <2> QED
    BY <2>1 DEF Absent, Error, Items, Pending, ResultKinds
<1>4. CASE o.kind = "get_status"
  <2>1. /\ ~IsWrite(o)
        /\ Decoded(o, b) \in {Absent, Error, Listing({}), Listing(b.keys)}
    BY <1>4 DEF Decoded, IsWrite, DecodedStatus
  <2> QED
    BY <2>1 DEF Absent, Error, Listing, Pending, ResultKinds
<1> QED
  BY <1>1, <1>2, <1>3, <1>4, OperationKinds DEF IsWrite, ValueKinds

(***************************************************************************)
(* The inductive invariant.  Progress ties what AtLeastOnce knows of a     *)
(* call to its operation, its result and its answer; AnswersTrue says what *)
(* an answer on its way tells of the write; HistoryKept relates calls to   *)
(* those before them; WritesOver is the reason for LossNeedsRepetition.    *)
(***************************************************************************)
Types ==
  /\ AbsTypeOK
  /\ op \in [Calls -> Operations \cup {NoOperation}]
  /\ answer = [c \in Calls |-> answer[c]]
  /\ result = [c \in Calls |-> result[c]]
  /\ stored \in [Slots -> Values \cup {Missing}]
  /\ writer \in [Slots -> Calls \cup {Missing}]
  /\ accepted \subseteq Calls
  /\ before \in [Calls -> SUBSET Calls]

Progress ==
  \A c \in Calls :
    /\ result[c] = Pending <=> outcome[c] \in {"idle", "active"}
    /\ sent[c] > 0 => outcome[c] \notin {"idle", "refused"}
    /\ outcome[c] \in {"active", "ok", "failed"} =>
         op[c] \in Operations /\ Valid(op[c])
    /\ \A n \in effects[c] : n < sent[c]
    /\ outcome[c] = "ok" => LastTookEffect(c)
    /\ result[c] = Done => outcome[c] = "ok"
    /\ outcome[c] = "idle" => answer[c] = NoAnswer
    /\ outcome[c] = "active" /\ LastTookEffect(c) => answer[c] # NoAnswer

ResultsTyped ==
  \A c \in Calls :
    /\ result[c].kind \in ResultKinds
    /\ result[c].kind = "item" => result[c].value \in JSONTexts \ {NullText}

AnswersTrue ==
  \A c \in Calls :
    answer[c] # NoAnswer =>
      /\ IsWrite(op[c]) => /\ answer[c] \in WriteBodies
                           /\ answer[c] \in AcceptBodies => c \in accepted
      /\ op[c].kind \in ValueKinds => answer[c] \in ValueBodies

HistoryKept ==
  /\ \A c \in accepted : sent[c] > 0
  /\ \A w \in Calls : \A a \in before[w] : a # w /\ result[a] # Pending

WritesOver ==
  \A w \in Calls : \A a \in before[w] :
    w \in accepted /\ IsWrite(op[w]) /\ result[a] = Done /\ sent[a] = 1
      => writer[op[w].slot] # a

IInv ==
  /\ Types
  /\ Progress
  /\ ResultsTyped
  /\ AnswersTrue
  /\ HistoryKept
  /\ WritesOver
  /\ AckMeansAccepted
  /\ NoBlankNameStored

LEMMA ResultsDiffer ==
  /\ Pending # Done /\ Error # Done /\ Misfit # Done
  /\ Pending # Error /\ Pending # Misfit
  /\ \A r \in {Pending, Error, Misfit, Done} :
       r.kind \in ResultKinds /\ r.kind # "item"
  BY DEF Pending, Error, Misfit, Done, ResultKinds

LEMMA InitIInv == CStoreInit => IInv
<1> SUFFICES ASSUME CStoreInit PROVE IInv
  OBVIOUS
<1> USE DEF CStoreInit, AbsInit
<1>1. Types
  BY MaxRetriesAssumption DEF Types, AbsTypeOK, Outcomes
<1>2. Progress /\ ResultsTyped
  BY ResultsDiffer DEF Progress, ResultsTyped
<1>3. AnswersTrue /\ HistoryKept /\ WritesOver
  BY DEF AnswersTrue, HistoryKept, WritesOver
<1>4. AckMeansAccepted /\ NoBlankNameStored
  BY ResultsDiffer DEF AckMeansAccepted, NoBlankNameStored
<1> QED
  BY <1>1, <1>2, <1>3, <1>4 DEF IInv

(***************************************************************************)
(* The steps that begin a call: it has no history yet.                     *)
(***************************************************************************)
LEMMA CallStep ==
  ASSUME IInv, NEW c \in Calls, NEW o \in Operations, Call(c, o)
  PROVE  IInv'
<1> USE DEF IInv, Call, Start, histories
<1>1. Types'
  BY DEF Types, AbsTypeOK, Outcomes, Returned
<1>2. Progress'
  BY DEF Types, AbsTypeOK, Progress, LastTookEffect
<1>3. ResultsTyped' /\ NoBlankNameStored'
  BY DEF ResultsTyped, NoBlankNameStored
<1>4. AnswersTrue' /\ AckMeansAccepted'
  BY ResultsDiffer DEF Types, AnswersTrue, AckMeansAccepted, Progress
<1>5. HistoryKept'
  BY DEF Types, HistoryKept, Returned, Progress
<1>6. c \notin accepted
  BY DEF HistoryKept, Progress
<1>7. WritesOver'
  BY <1>6 DEF Types, WritesOver
<1> QED
  BY <1>1, <1>2, <1>3, <1>4, <1>5, <1>7

LEMMA RefuseStep ==
  ASSUME IInv, NEW c \in Calls, NEW o \in Operations, RefuseCall(c, o)
  PROVE  IInv'
<1> USE ResultsDiffer DEF IInv, RefuseCall, Refuse
<1>1. Types'
  BY DEF Types, AbsTypeOK, Outcomes, Returned
<1>2. Progress'
  BY DEF Types, AbsTypeOK, Progress, LastTookEffect
<1>3. ResultsTyped' /\ NoBlankNameStored'
  BY DEF Types, ResultsTyped, NoBlankNameStored
<1>4. AnswersTrue' /\ AckMeansAccepted'
  BY DEF Types, AnswersTrue, AckMeansAccepted, Progress
<1>5. HistoryKept'
  BY DEF Types, HistoryKept, Returned, Progress
<1>6. c \notin accepted
  BY DEF HistoryKept, Progress
<1>7. WritesOver'
  BY <1>6 DEF Types, WritesOver
<1> QED
  BY <1>1, <1>2, <1>3, <1>4, <1>5, <1>7

(***************************************************************************)
(* A repetition is sent: its number is new, so it has no effect yet.       *)
(***************************************************************************)
LEMMA SendStep ==
  ASSUME IInv, NEW c \in Calls, SendRequest(c)
  PROVE  IInv'
<1> USE MaxRetriesAssumption DEF IInv, SendRequest, Send, histories
<1>1. Types'
  <2>1. sent[c] \in 0..MaxRetries
    BY DEF Types, AbsTypeOK
  <2>2. sent[c] + 1 \in 0..(MaxRetries + 1)
    BY <2>1
  <2>3. sent' \in [Calls -> 0..(MaxRetries + 1)]
    BY <2>2 DEF Types, AbsTypeOK
  <2> QED
    BY <2>3 DEF Types, AbsTypeOK
<1>2. /\ sent[c] \in Nat /\ sent'[c] = sent[c] + 1
      /\ \A d \in Calls \ {c} : sent'[d] = sent[d]
  BY DEF Types, AbsTypeOK
<1>3. ~LastTookEffect(c)'
  BY <1>2 DEF Types, AbsTypeOK, Progress, LastTookEffect
<1>4. Progress'
  BY <1>2, <1>3 DEF Types, AbsTypeOK, Progress, LastTookEffect
<1>5. ResultsTyped' /\ NoBlankNameStored' /\ AnswersTrue' /\ AckMeansAccepted'
  BY DEF Types, ResultsTyped, NoBlankNameStored, AnswersTrue,
         AckMeansAccepted
<1>6. HistoryKept'
  <2>1. sent'[c] > 0
    BY <1>2
  <2> QED
    BY <1>2, <2>1 DEF Types, HistoryKept
<1>7. result[c] # Done
  BY ResultsDiffer DEF Progress
<1>8. WritesOver'
  BY <1>2, <1>7 DEF Types, WritesOver
<1> QED
  BY <1>1, <1>4, <1>5, <1>6, <1>8

(***************************************************************************)
(* The steps that return.                                                  *)
(***************************************************************************)
LEMMA ReturnStep ==
  ASSUME IInv, NEW c \in Calls, NEW r, Return(c, r),
         outcome[c] = "active",
         Succeed(c) \/ (Fail(c) /\ r # Done),
         r # Pending, r.kind \in ResultKinds,
         r.kind = "item" => r.value \in JSONTexts \ {NullText},
         IsWrite(op[c]) /\ r = Done => c \in accepted
  PROVE  IInv'
<1> USE DEF IInv, Return, Succeed, Fail, histories
<1>1. Types'
  BY DEF Types, AbsTypeOK, Outcomes
<1>2. /\ UNCHANGED <<limit, sent, effects, op>>
      /\ result'[c] = r /\ outcome'[c] \in {"ok", "failed"}
      /\ \A d \in Calls \ {c} : /\ result'[d] = result[d]
                               /\ outcome'[d] = outcome[d]
                               /\ answer'[d] = answer[d]
      /\ answer'[c] = NoAnswer
      /\ outcome'[c] = "ok" => LastTookEffect(c)
      /\ r = Done => outcome'[c] = "ok"
  BY DEF Types, AbsTypeOK
<1>3. \A d \in Calls : LastTookEffect(d)' = LastTookEffect(d)
  BY <1>2 DEF LastTookEffect
<1>4. Progress'
  BY <1>2, <1>3 DEF Progress
<1>5. ResultsTyped' /\ NoBlankNameStored' /\ AnswersTrue' /\ AckMeansAccepted'
  BY <1>2 DEF ResultsTyped, NoBlankNameStored, AnswersTrue, AckMeansAccepted
<1>6. HistoryKept'
  BY <1>2 DEF HistoryKept
<1>7. \A w \in Calls : c \notin before[w]
  BY DEF HistoryKept, Progress
<1>8. WritesOver'
  <2> SUFFICES ASSUME NEW w \in Calls, NEW a \in before[w],
                      w \in accepted, IsWrite(op[w]),
                      result'[a] = Done, sent[a] = 1
               PROVE  writer[op[w].slot] # a
    BY <1>2 DEF WritesOver
  <2>1. result[a] = Done
    BY <1>2, <1>7 DEF Types
  <2> QED
    BY <2>1 DEF WritesOver
<1> QED
  BY <1>1, <1>4, <1>5, <1>6, <1>8

LEMMA DecodedStep ==
  ASSUME IInv, NEW c \in Calls, ReturnDecoded(c)
  PROVE  IInv'
<1> DEFINE r == Decoded(op[c], answer[c])
<1>1. /\ outcome[c] = "active" /\ LastTookEffect(c)
      /\ op[c] \in Operations /\ answer[c] # NoAnswer
      /\ Succeed(c) /\ Return(c, r)
  BY DEF ReturnDecoded, Succeed, IInv, Progress
<1>2. /\ r # Pending /\ r.kind \in ResultKinds
      /\ IsWrite(op[c]) /\ r = Done => Acks(answer[c])
      /\ r.kind = "item" =>
           op[c].kind \in ValueKinds /\ r = DecodedItem(answer[c])
  BY <1>1, DecodedShape
<1>3. r.kind = "item" => r.value \in JSONTexts \ {NullText}
  BY <1>1, <1>2, ItemsAreJSON DEF IInv, AnswersTrue
<1>4. IsWrite(op[c]) /\ r = Done => c \in accepted
  BY <1>1, <1>2, OnlyAcceptAcks DEF IInv, AnswersTrue
<1> HIDE DEF r
<1> QED
  BY <1>1, <1>2, <1>3, <1>4, ReturnStep

LEMMA MisfitStep ==
  ASSUME IInv, NEW c \in Calls, ReturnMisfit(c)
  PROVE  IInv'
  BY ResultsDiffer, ReturnStep DEF ReturnMisfit, Succeed

LEMMA ErrorStep ==
  ASSUME IInv, NEW c \in Calls, ReturnError(c)
  PROVE  IInv'
  BY ResultsDiffer, ReturnStep DEF ReturnError, Fail

(***************************************************************************)
(* The steps of the upstream manager.                                      *)
(***************************************************************************)
LEMMA EffectStep ==
  ASSUME IInv, NEW c \in Calls, NEW n \in 0..MaxRetries, NEW body,
         TakeEffect(c, n), Answers(c, n, body), body # NoAnswer,
         UNCHANGED <<op, result>>
  PROVE  /\ AbsTypeOK' /\ Progress' /\ ResultsTyped'
         /\ answer' = [d \in Calls |-> answer'[d]]
         /\ \A d \in Calls \ {c} : answer'[d] = answer[d]
         /\ answer'[c] \in {answer[c], body, BlankBody}
         /\ n < sent[c] /\ n \notin effects[c]
<1> USE DEF IInv, TakeEffect
<1>1. AbsTypeOK'
  BY DEF Types, AbsTypeOK
<1>2. BlankBody # NoAnswer
  BY BodiesAreAnswers DEF WriteBodies
<1>3. /\ answer' = [d \in Calls |-> answer'[d]]
      /\ \A d \in Calls \ {c} : answer'[d] = answer[d]
      /\ answer'[c] \in {answer[c], body, BlankBody}
      /\ answer[c] # NoAnswer => answer'[c] # NoAnswer
      /\ outcome[c] = "active" /\ n + 1 = sent[c] => answer'[c] # NoAnswer
      /\ outcome[c] # "active" => answer'[c] = answer[c]
  BY <1>2 DEF Types, Answers, Received
<1>4. /\ effects'[c] = effects[c] \cup {n}
      /\ \A d \in Calls \ {c} : effects'[d] = effects[d]
  BY DEF Types, AbsTypeOK
<1>5. /\ \A d \in Calls \ {c} : LastTookEffect(d)' = LastTookEffect(d)
      /\ LastTookEffect(c)' <=> LastTookEffect(c) \/ n + 1 = sent[c]
  BY <1>4 DEF LastTookEffect
<1>6. Progress'
  BY <1>3, <1>4, <1>5 DEF Progress
<1> QED
  BY <1>1, <1>3, <1>6 DEF ResultsTyped

LEMMA AcceptStep ==
  ASSUME IInv, NEW c \in Calls, NEW n \in 0..MaxRetries, AcceptWrite(c, n)
  PROVE  IInv'
<1> DEFINE s == op[c].slot
<1>1. PICK body \in AcceptBodies : Answers(c, n, body)
  BY DEF AcceptWrite
<1>2. body \in WriteBodies /\ BlankBody \in WriteBodies /\ body # NoAnswer
  BY BodiesAreAnswers DEF WriteBodies
<1>3. /\ AbsTypeOK' /\ Progress' /\ ResultsTyped'
      /\ answer' = [d \in Calls |-> answer'[d]]
      /\ \A d \in Calls \ {c} : answer'[d] = answer[d]
      /\ answer'[c] \in {answer[c], body, BlankBody}
      /\ n < sent[c] /\ n \notin effects[c]
  BY <1>1, <1>2, EffectStep DEF AcceptWrite
<1>4. /\ TakeEffect(c, n) /\ IsWrite(op[c])
      /\ stored' = [stored EXCEPT ![s] = op[c].value]
      /\ writer' = [writer EXCEPT ![s] = c]
      /\ accepted' = accepted \cup {c}
      /\ UNCHANGED <<op, result, before, outcome, limit, sent>>
  BY DEF AcceptWrite, TakeEffect
<1>5. sent[c] \in Nat /\ sent[c] > 0
  BY <1>3, MaxRetriesAssumption DEF IInv, Types, AbsTypeOK
<1>6. op[c] \in Operations /\ Valid(op[c])
  BY <1>5 DEF IInv, Progress, Types, AbsTypeOK, Outcomes
<1>7. /\ s \in Slots /\ op[c].value \in Values
      /\ op[c].kind \notin ValueKinds
      /\ ~\E i \in DOMAIN s : s[i] = Blank
  BY <1>4, <1>6, WriteShape, ValidSlot
<1>8. Types'
  BY <1>3, <1>4, <1>7 DEF IInv, Types
<1>9. AnswersTrue'
  BY <1>2, <1>3, <1>4, <1>7 DEF IInv, AnswersTrue
<1>10. HistoryKept' /\ AckMeansAccepted' /\ NoBlankNameStored'
  BY <1>4, <1>5, <1>7
  DEF IInv, Types, HistoryKept, AckMeansAccepted, NoBlankNameStored
<1>11. ~(result[c] = Done /\ sent[c] = 1)
  <2> SUFFICES ASSUME result[c] = Done, sent[c] = 1
               PROVE  FALSE
    OBVIOUS
  <2>1. n = 0
    BY <1>3
  <2>2. PICK m \in effects[c] : m + 1 = 1
    BY DEF IInv, Progress, LastTookEffect
  <2>3. m = 0
    BY <2>2, MaxRetriesAssumption DEF IInv, Types, AbsTypeOK
  <2> QED
    BY <1>3, <2>1, <2>3
<1>12. WritesOver'
  <2> SUFFICES ASSUME NEW w \in Calls, NEW a \in before[w],
                      w \in accepted', IsWrite(op[w]),
                      result[a] = Done, sent[a] = 1
               PROVE  writer'[op[w].slot] # a
    BY <1>4 DEF WritesOver
  <2>1. a # c
    BY <1>11
  <2>2. CASE op[w].slot = s
    BY <1>4, <1>7, <2>1, <2>2 DEF IInv, Types
  <2>3. CASE op[w].slot # s
    <3>1. w # c
      BY <2>3
    <3>2. writer'[op[w].slot] = writer[op[w].slot]
      BY <1>4, <2>3 DEF IInv, Types
    <3> QED
      BY <1>4, <3>1, <3>2 DEF IInv, WritesOver
  <2> QED
    BY <2>2, <2>3
<1> QED
  BY <1>3, <1>8, <1>9, <1>10, <1>12 DEF IInv

LEMMA RejectStep ==
  ASSUME IInv, NEW c \in Calls, NEW n \in 0..MaxRetries, RejectWrite(c, n)
  PROVE  IInv'
<1>1. PICK body \in RejectBodies : Answers(c, n, body)
  BY DEF RejectWrite
<1>2. /\ body \in WriteBodies /\ BlankBody \in WriteBodies
      /\ body # NoAnswer
  BY BodiesAreAnswers DEF WriteBodies
<1>3. {body, BlankBody} \cap AcceptBodies = {}
  BY DEF AcceptBodies, RejectBodies, Bare, Envelope, BlankBody, TrueText,
         QuotedTrue, FalseText, NullText, WordText
<1>4. /\ AbsTypeOK' /\ Progress' /\ ResultsTyped'
      /\ answer' = [d \in Calls |-> answer'[d]]
      /\ \A d \in Calls \ {c} : answer'[d] = answer[d]
      /\ answer'[c] \in {answer[c], body, BlankBody}
  BY <1>1, <1>2, EffectStep DEF RejectWrite
<1>5. /\ UNCHANGED <<op, result, stored, writer, accepted, before, sent>>
      /\ IsWrite(op[c])
  BY DEF RejectWrite, TakeEffect, histories
<1>6. op[c].kind \notin ValueKinds
  BY <1>5 DEF IsWrite, ValueKinds
<1>7. AnswersTrue'
  BY <1>2, <1>3, <1>4, <1>5, <1>6 DEF IInv, AnswersTrue
<1>8. /\ Types' /\ HistoryKept' /\ WritesOver' /\ AckMeansAccepted'
      /\ NoBlankNameStored'
  BY <1>4, <1>5
  DEF IInv, Types, HistoryKept, WritesOver, AckMeansAccepted,
      NoBlankNameStored
<1> QED
  BY <1>4, <1>7, <1>8 DEF IInv

\* Slots are empty, or hold a value that was written.
LEMMA ValueBodyShape ==
  ASSUME Types, NEW s \in Slots
  PROVE  ValueBody(s) \in ValueBodies
  BY DEF Types, ValueBody, ValueBodies

LEMMA ReadSlot ==
  ASSUME NEW o \in Operations, o.kind \in ValueKinds
  PROVE  o.slot \in Slots
  BY DEF Operations, ValueKinds, Slots

LEMMA ReadStep ==
  ASSUME IInv, NEW c \in Calls, NEW n \in 0..MaxRetries, AnswerRead(c, n)
  PROVE  IInv'
<1>1. PICK body : /\ Answers(c, n, body)
                  /\ ~IsWrite(op[c])
                  /\ body # NoAnswer
                  /\ op[c].kind \in ValueKinds => body = ValueBody(op[c].slot)
  <2>1. CASE op[c].kind \in ValueKinds /\ Answers(c, n, ValueBody(op[c].slot))
    <3>1. ValueBody(op[c].slot) # NoAnswer
      BY DEF ValueBody, Bare, Envelope, NoAnswer
    <3> QED
      BY <2>1, <3>1 DEF IsWrite, ValueKinds
  <2>2. CASE op[c].kind = "hgetall" /\ Answers(c, n, HashBody(op[c].slot[1]))
    <3>1. HashBody(op[c].slot[1]) # NoAnswer
      BY DEF HashBody, Bare, FieldsBody, NoAnswer
    <3> QED
      BY <2>2, <3>1 DEF IsWrite, ValueKinds
  <2>3. CASE op[c].kind = "get_status" /\ Answers(c, n, KeysBody(StoredKeys))
    BY <2>3, BodiesAreAnswers DEF IsWrite, ValueKinds
  <2> QED
    BY <2>1, <2>2, <2>3 DEF AnswerRead, ValueKinds
<1>2. /\ UNCHANGED <<op, result, stored, writer, accepted, before, sent>>
      /\ TakeEffect(c, n)
  BY DEF AnswerRead, TakeEffect, histories
<1>3. /\ AbsTypeOK' /\ Progress' /\ ResultsTyped'
      /\ answer' = [d \in Calls |-> answer'[d]]
      /\ \A d \in Calls \ {c} : answer'[d] = answer[d]
      /\ answer'[c] \in {answer[c], body, BlankBody}
      /\ n < sent[c]
  BY <1>1, <1>2, EffectStep
<1>4. op[c] \in Operations
  <2>1. sent[c] > 0
    BY <1>3, MaxRetriesAssumption DEF IInv, Types, AbsTypeOK
  <2> QED
    BY <2>1 DEF IInv, Progress, Types, AbsTypeOK, Outcomes
<1>5. op[c].kind \in ValueKinds => body \in ValueBodies
  BY <1>1, <1>4, ReadSlot, ValueBodyShape DEF IInv
<1>6. BlankBody \in ValueBodies
  BY DEF ValueBodies
<1>7. AnswersTrue'
  BY <1>1, <1>2, <1>3, <1>5, <1>6 DEF IInv, AnswersTrue
<1>8. /\ Types' /\ HistoryKept' /\ WritesOver' /\ AckMeansAccepted'
      /\ NoBlankNameStored'
  BY <1>2, <1>3
  DEF IInv, Types, HistoryKept, WritesOver, AckMeansAccepted,
      NoBlankNameStored
<1> QED
  BY <1>3, <1>7, <1>8 DEF IInv

LEMMA StepIInv == IInv /\ [CStoreNext]_cstoreVars => IInv'
<1> SUFFICES ASSUME IInv, [CStoreNext]_cstoreVars PROVE IInv'
  OBVIOUS
<1>1. CASE UNCHANGED cstoreVars
  BY <1>1
  DEF cstoreVars, absVars, histories, IInv, Types, AbsTypeOK, Progress,
      LastTookEffect, ResultsTyped, AnswersTrue, HistoryKept, WritesOver,
      AckMeansAccepted, NoBlankNameStored
<1>2. CASE CStoreNext
  BY <1>2, CallStep, RefuseStep, SendStep, DecodedStep, MisfitStep, ErrorStep,
     AcceptStep, RejectStep, ReadStep DEF CStoreNext
<1> QED
  BY <1>1, <1>2

THEOREM Invariance == CStoreSpec => []IInv
  BY InitIInv, StepIInv, PTL DEF CStoreSpec

\* The types of the client's state; an item that is returned is JSON and not
\* null, and a call has a result exactly when it is over.
THEOREM CStoreTypeCorrect == CStoreSpec => []CStoreTypeOK
<1>1. IInv => CStoreTypeOK
  BY DEF IInv, Types, Progress, ResultsTyped, CStoreTypeOK
<1> QED
  BY <1>1, Invariance, PTL

\* Set and HSet report success only if upstream carried the write out,
\* however often it was repeated and whatever came back instead of an answer.
THEOREM AcksAreTrue == CStoreSpec => []AckMeansAccepted
<1>1. IInv => AckMeansAccepted
  BY DEF IInv
<1> QED
  BY <1>1, Invariance, PTL

\* No value is ever stored under a blank name.
THEOREM NamesAreChecked == CStoreSpec => []NoBlankNameStored
<1>1. IInv => NoBlankNameStored
  BY DEF IInv
<1> QED
  BY <1>1, Invariance, PTL

\* An acknowledged write is replaced by an earlier call only if that call had
\* failed or had been repeated.
THEOREM OnlyRepetitionLoses == CStoreSpec => []LossNeedsRepetition
<1>1. IInv => LossNeedsRepetition
  <2> SUFFICES ASSUME IInv, NEW w \in Calls,
                      IsWrite(op[w]), result[w] = Done,
                      writer[op[w].slot] \in before[w],
                      result[writer[op[w].slot]] = Done
               PROVE  sent[writer[op[w].slot]] > 1
    BY DEF LossNeedsRepetition
  <2> DEFINE a == writer[op[w].slot]
  <2>1. w \in accepted /\ a \in Calls
    BY DEF IInv, Types, AckMeansAccepted
  <2>2. sent[a] # 1
    BY <2>1 DEF IInv, WritesOver
  <2>3. sent[a] \in Nat
    BY <2>1, MaxRetriesAssumption DEF IInv, Types, AbsTypeOK
  <2>4. sent[a] # 0
    <3>1. \E n \in effects[a] : n + 1 = sent[a]
      BY <2>1 DEF IInv, Progress, LastTookEffect
    <3> QED
      BY <2>1, <3>1, MaxRetriesAssumption DEF IInv, Types, AbsTypeOK
  <2> QED
    BY <2>2, <2>3, <2>4
<1> QED
  BY <1>1, Invariance, PTL

\* What README.md promises of acknowledged writes holds of a client that does
\* not repeat: without retries no request is left behind that could undo
\* them later, however many callers write and whatever gets lost.
THEOREM WithoutRetriesAcksStay ==
  MaxRetries = 0 => (CStoreSpec => []AckedWritesStay)
<1> SUFFICES ASSUME MaxRetries = 0 PROVE CStoreSpec => []AckedWritesStay
  OBVIOUS
<1>1. IInv /\ LossNeedsRepetition => AckedWritesStay
  <2> SUFFICES ASSUME IInv, LossNeedsRepetition, NEW w \in Calls,
                      IsWrite(op[w]), result[w] = Done,
                      writer[op[w].slot] \in before[w]
               PROVE  result[writer[op[w].slot]] # Done
    BY DEF AckedWritesStay
  <2> DEFINE a == writer[op[w].slot]
  <2>1. a \in Calls /\ sent[a] \in 0..1
    BY DEF IInv, Types, AbsTypeOK
  <2>2. result[a] # Done \/ sent[a] > 1
    BY DEF LossNeedsRepetition
  <2> QED
    BY <2>1, <2>2
<1> QED
  BY <1>1, Invariance, OnlyRepetitionLoses, PTL
=============================================================================
