------------------------------- MODULE CStore -------------------------------
(***************************************************************************)
(* pkg/cstore/client.go: the operations of Client and of its httpBackend,  *)
(* made concurrently by any number of callers against one upstream store.  *)
(*                                                                         *)
(* Every operation is one call through internal/httpx, of which this       *)
(* module knows what AtLeastOnce promises: the request is sent again after *)
(* a failure, and what was sent may be carried out at any later time.      *)
(* What a response body says is Ratio1Response.                            *)
(***************************************************************************)
EXTENDS AtLeastOnce, Ratio1Response, FiniteSets

CONSTANTS
  Keys,     \* keys of single values
  HashKeys, \* keys of hashes
  Fields,   \* fields of hashes
  Blank,    \* a name that strings.TrimSpace leaves nothing of
  Values,   \* the JSON values that are written
  Kinds,    \* the operations that are called
  Emptied,  \* may a reply of status 200 lose its body on the way?
  Missing   \* where nothing is stored

ASSUME ValuesAssumption == Values \subseteq JSONTexts
ASSUME MissingAssumption == Missing \notin JSONTexts
ASSUME EmptiedAssumption == Emptied \in BOOLEAN

VARIABLES
  op,       \* the operation of each call
  answer,   \* the response body to the repetition the call waits for
  result,   \* what the operation returned
  stored,   \* upstream: the value in every slot
  writer,   \* history: the call that wrote the slot last
  accepted, \* history: the calls whose write upstream carried out
  before    \* history: the calls that had returned when the call began

histories == <<writer, accepted, before>>
cstoreVars == <<absVars, op, answer, result, stored, histories>>

\* A slot is a key, or a hash key and a field.
KeySlots  == {<<k>> : k \in Keys}
HashSlots == HashKeys \X Fields
Slots     == KeySlots \cup HashSlots

Operations ==
  {o \in   [kind : {"set"}, slot : KeySlots, value : Values]
      \cup [kind : {"hset"}, slot : HashSlots, value : Values]
      \cup [kind : {"get"}, slot : KeySlots]
      \cup [kind : {"hget"}, slot : HashSlots]
      \cup [kind : {"hgetall"}, slot : {<<h>> : h \in HashKeys}]
      \cup [kind : {"get_status"}, slot : {<<>>}] : o.kind \in Kinds}

NoOperation == [kind |-> "none"]

IsWrite(o) == o.kind \in {"set", "hset"}

\* The names of a request that is refused when one of them is blank.
\* Mutant: HSet and HGet look at the hash key only.
FirstNameRequired(o) ==
  IF o.kind = "get" THEN {} ELSE {o.slot[i] : i \in DOMAIN o.slot \cap {1}}

RequiredNames(o) ==
  IF o.kind = "get" THEN {} ELSE {o.slot[i] : i \in DOMAIN o.slot}

Valid(o) == Blank \notin RequiredNames(o)

(***************************************************************************)
(* Response bodies, beside those of Ratio1Response: the objects behind     *)
(* /hgetall and /get_status.                                               *)
(***************************************************************************)
NoAnswer      == [kind |-> "no answer"]
FieldsBody(f) == [kind |-> "fields", fields |-> f]
KeysBody(ks)  == [kind |-> "keys", keys |-> ks]

TrueText   == [quotes |-> 0, core |-> "true"]
QuotedTrue == [quotes |-> 1, core |-> "true"]
FalseText  == [quotes |-> 0, core |-> "false"]
WordText   == [quotes |-> 0, core |-> "word"]
ObjectText == [quotes |-> 0, core |-> "object"]

\* The answers to a write that was carried out, and to one that was not: a
\* refusal with status 200, or a page that is not JSON.
AcceptBodies == {Bare(TrueText), Envelope(QuotedTrue)}
RejectBodies == {Envelope(FalseText), Bare(NullText), Bare(WordText)}

ValueBody(s) == IF stored[s] = Missing THEN Bare(NullText)
                ELSE Envelope(stored[s])

FieldsOf(h) == {f \in Fields : stored[<<h, f>>] # Missing}

HashBody(h) ==
  IF FieldsOf(h) = {} THEN Bare(NullText)
  ELSE FieldsBody([f \in FieldsOf(h) |-> stored[<<h, f>>]])

StoredKeys == {k \in Keys : stored[<<k>>] # Missing}

(***************************************************************************)
(* What the operations return.                                             *)
(***************************************************************************)
Pending     == [kind |-> "pending"]
Error       == [kind |-> "error"]
Misfit      == [kind |-> "misfit"]    \* an error: out is of another type
Done        == [kind |-> "done"]      \* a write without error
Absent      == [kind |-> "absent"]    \* nil item, nil error
Item(t)     == [kind |-> "item", value |-> t]
Items(f)    == [kind |-> "items", fields |-> f]
Listing(ks) == [kind |-> "listing", keys |-> ks]

\* coerceBool of a decoded text.  A number is true unless it is 0; of the
\* strings, ParseBool knows 1, T, true and 0, F, false.
Affirms(t) ==
  \/ t.quotes = 0 /\ t.core \in {"true", "one", "number"}
  \/ t.quotes = 1 /\ t.core \in {"true", "one", "T"}

\* Mutant: every answer but an explicit no is taken for a yes.
AcksUnlessFalse(body) == ~Decodes(body) \/ DecodedText(body) # FalseText

\* decodeBoolResult yields true: neither false nor an error.
Acks(body) == Decodes(body) /\ Affirms(DecodedText(body))

\* Mutant: null is not told from a value.
NullIsAnItem(body) ==
  IF IsJSON(DecodedText(body)) THEN Item(DecodedText(body)) ELSE Error

DecodedItem(body) ==
  LET t == DecodedText(body)
  IN  IF t = NullText THEN Absent ELSE IF IsJSON(t) THEN Item(t) ELSE Error

\* Mutant: a field that holds null is taken for one that is missing.
NullFieldsDropped(body) ==
  IF body.kind = "fields"
  THEN Items([f \in {g \in DOMAIN body.fields : body.fields[g] # NullText}
                |-> body.fields[f]])
  ELSE IF DecodedText(body) \in {NullText, ObjectText} THEN Absent ELSE Error

\* The fields are not unwrapped: ExtractResult finds an object.  An object
\* without fields is no item either; what is no object is an error.
DecodedFields(body) ==
  IF body.kind = "fields" THEN Items(body.fields)
  ELSE IF DecodedText(body) \in {NullText, ObjectText} THEN Absent ELSE Error

\* Mutant: the list of a single key is taken for no list.
ShortListDropped(body) ==
  IF body.kind = "keys"
  THEN IF Cardinality(body.keys) > 1 THEN Listing(body.keys) ELSE Absent
  ELSE CASE DecodedText(body) = NullText   -> Absent
         [] DecodedText(body) = ObjectText -> Listing({})
         [] OTHER                          -> Error

\* An object without a list of keys is an empty status, not a missing one.
DecodedStatus(body) ==
  IF body.kind = "keys" THEN Listing(body.keys)
  ELSE CASE DecodedText(body) = NullText   -> Absent
         [] DecodedText(body) = ObjectText -> Listing({})
         [] OTHER                          -> Error

Decoded(o, body) ==
  CASE IsWrite(o)               -> IF Acks(body) THEN Done ELSE Error
    [] o.kind \in {"get", "hget"} -> DecodedItem(body)
    [] o.kind = "hgetall"       -> DecodedFields(body)
    [] o.kind = "get_status"    -> DecodedStatus(body)

CStoreInit ==
  /\ AbsInit
  /\ op       = [c \in Calls |-> NoOperation]
  /\ answer   = [c \in Calls |-> NoAnswer]
  /\ result   = [c \in Calls |-> Pending]
  /\ stored   = [s \in Slots |-> Missing]
  /\ writer   = [s \in Slots |-> Missing]
  /\ accepted = {}
  /\ before   = [c \in Calls |-> {}]

Returned == {c \in Calls : result[c] # Pending}

(***************************************************************************)
(* The client.                                                             *)
(***************************************************************************)
\* No request of this package sets DisableRetry.
Call(c, o) ==
  /\ Valid(o)
  /\ Start(c) /\ limit'[c] = MaxRetries
  /\ op'     = [op EXCEPT ![c] = o]
  /\ before' = [before EXCEPT ![c] = Returned]
  /\ UNCHANGED <<answer, result, stored, writer, accepted>>

\* A blank name, no backend, a value that does not encode.
RefuseCall(c, o) ==
  /\ Refuse(c)
  /\ op'     = [op EXCEPT ![c] = o]
  /\ result' = [result EXCEPT ![c] = Error]
  /\ before' = [before EXCEPT ![c] = Returned]
  /\ UNCHANGED <<answer, stored, writer, accepted>>

SendRequest(c) ==
  /\ Send(c)
  /\ answer' = [answer EXCEPT ![c] = NoAnswer]
  /\ UNCHANGED <<op, result, stored, histories>>

Return(c, r) ==
  /\ result' = [result EXCEPT ![c] = r]
  /\ answer' = [answer EXCEPT ![c] = NoAnswer]
  /\ UNCHANGED <<op, stored, histories>>

ReturnDecoded(c) ==
  /\ Succeed(c)
  /\ Return(c, Decoded(op[c], answer[c]))

\* Get and HGet: the value does not fit the caller's out.
ReturnMisfit(c) ==
  /\ Succeed(c)
  /\ Decoded(op[c], answer[c]).kind = "item"
  /\ Return(c, Misfit)

\* Mutant: a write does not look at the error of Do.
ForgetError(c) ==
  Fail(c) /\ Return(c, IF IsWrite(op[c]) THEN Done ELSE Error)

ReturnError(c) == Fail(c) /\ Return(c, Error)

(***************************************************************************)
(* The upstream manager carries out repetition n of call c.  Only the      *)
(* answer to the latest repetition still has a reader.                     *)
(***************************************************************************)
Received(body) == {body} \cup (IF Emptied THEN {BlankBody} ELSE {})

Answers(c, n, body) ==
  IF outcome[c] = "active" /\ n + 1 = sent[c]
  THEN \E b \in Received(body) : answer' = [answer EXCEPT ![c] = b]
  ELSE UNCHANGED answer

AcceptWrite(c, n) ==
  /\ IsWrite(op[c])
  /\ TakeEffect(c, n)
  /\ \E body \in AcceptBodies : Answers(c, n, body)
  /\ stored'   = [stored EXCEPT ![op[c].slot] = op[c].value]
  /\ writer'   = [writer EXCEPT ![op[c].slot] = c]
  /\ accepted' = accepted \cup {c}
  /\ UNCHANGED <<op, result, before>>

RejectWrite(c, n) ==
  /\ IsWrite(op[c])
  /\ TakeEffect(c, n)
  /\ \E body \in RejectBodies : Answers(c, n, body)
  /\ UNCHANGED <<op, result, stored, histories>>

AnswerRead(c, n) ==
  /\ TakeEffect(c, n)
  /\ \/ op[c].kind \in {"get", "hget"} /\ Answers(c, n, ValueBody(op[c].slot))
     \/ op[c].kind = "hgetall" /\ Answers(c, n, HashBody(op[c].slot[1]))
     \/ op[c].kind = "get_status" /\ Answers(c, n, KeysBody(StoredKeys))
  /\ UNCHANGED <<op, result, stored, histories>>

CStoreNext ==
  \E c \in Calls :
    \/ \E o \in Operations : Call(c, o) \/ RefuseCall(c, o)
    \/ SendRequest(c)
    \/ ReturnDecoded(c) \/ ReturnMisfit(c) \/ ReturnError(c)
    \/ \E n \in 0..MaxRetries :
         AcceptWrite(c, n) \/ RejectWrite(c, n) \/ AnswerRead(c, n)

CStoreSpec == CStoreInit /\ [][CStoreNext]_cstoreVars

-----------------------------------------------------------------------------
(***************************************************************************)
(* Properties.                                                             *)
(***************************************************************************)
ResultKinds == {"pending", "error", "misfit", "done", "absent", "item",
                "items", "listing"}

CStoreTypeOK ==
  /\ AbsTypeOK
  /\ op \in [Calls -> Operations \cup {NoOperation}]
  /\ \A c \in Calls :
       /\ result[c].kind \in ResultKinds
       /\ result[c].kind = "item" => result[c].value \in JSONTexts \ {NullText}
       /\ result[c] = Pending <=> outcome[c] \in {"idle", "active"}
  /\ stored \in [Slots -> Values \cup {Missing}]
  /\ writer \in [Slots -> Calls \cup {Missing}]
  /\ accepted \subseteq Calls
  /\ before \in [Calls -> SUBSET Calls]

\* Set and HSet return without error only if upstream carried the write out:
\* neither a refusal with status 200, nor an answer that is no boolean, nor
\* any error on the way passes for an acknowledgement.
AckMeansAccepted ==
  \A c \in Calls : IsWrite(op[c]) /\ result[c] = Done => c \in accepted

\* Nothing is ever stored under a blank name, whichever of a request's names
\* it is.
NoBlankNameStored ==
  \A s \in Slots : (\E i \in DOMAIN s : s[i] = Blank) => stored[s] = Missing

\* What a reader of the written value v is shown: the document inside a
\* string, and nothing at all for null.
ShownAs(v) ==
  IF Unwrapped(v) = NullText THEN Absent ELSE Item(Unwrapped(v))

Shows(r, w) ==
  LET s == op[w].slot
  IN  CASE op[r].kind \in {"get", "hget"} ->
             op[r].slot = s => result[r] \in {ShownAs(op[w].value), Misfit}
        [] op[r].kind = "hgetall" ->
             op[w].kind = "hset" /\ op[r].slot[1] = s[1] =>
               /\ result[r].kind = "items"
               /\ s[2] \in DOMAIN result[r].fields
               /\ result[r].fields[s[2]] = op[w].value
        [] op[r].kind = "get_status" ->
             op[w].kind = "set" =>
               result[r].kind = "listing" /\ s[1] \in result[r].keys
        [] OTHER -> TRUE

Rivals(w) ==
  {a \in Calls \ {w} : IsWrite(op[a]) /\ op[a].slot = op[w].slot}

\* The write a cannot have taken effect between w's return and r's: it began
\* later, or was over, for good, before w began.
OutOfTheWay(a, w, r) ==
  \/ r \in before[a]
  \/ outcome[a] = "refused"
  \/ a \in before[w] /\ result[a] = Done /\ sent[a] = 1

\* A reader that starts after a write was acknowledged sees it, by Get, HGet,
\* HGetAll or GetStatus, although reads and writes are repeated and overtake
\* one another - provided that no other write to the slot was under way, had
\* failed or had been repeated.  A reply that lost its body shows nothing.
ReadsFollowAcks ==
  \A w \in Calls, r \in Calls :
    /\ IsWrite(op[w]) /\ result[w] = Done
    /\ w \in before[r] /\ outcome[r] = "ok"
    /\ \A a \in Rivals(w) : OutOfTheWay(a, w, r)
    => Shows(r, w) \/ (Emptied /\ result[r] = Absent)

\* An acknowledged write is replaced by a call that had returned before it
\* began only if that call had failed or had been repeated: then one of its
\* requests was still under way.
LossNeedsRepetition ==
  \A w \in Calls :
    IsWrite(op[w]) /\ result[w] = Done =>
      LET a == writer[op[w].slot]
      IN  a \in before[w] => result[a] # Done \/ sent[a] > 1

(***************************************************************************)
(* The promise to the application: CStore implements SharedStore.          *)
(***************************************************************************)
\* What an operation is to show of the store st.
View(o, st) ==
  LET fields == {f \in Fields : st[<<o.slot[1], f>>] # Missing}
  IN  CASE o.kind \in {"get", "hget"} ->
             IF st[o.slot] = Missing THEN Absent ELSE ShownAs(st[o.slot])
        [] o.kind = "hgetall" ->
             IF fields = {} THEN Absent
             ELSE Items([f \in fields |-> st[<<o.slot[1], f>>]])
        [] o.kind = "get_status" ->
             Listing({k \in Keys : st[<<k>>] # Missing})

Misfits(r) == r.kind = "item"

\* What a call knows of its last repetition.
SeenBy(c) ==
  IF answer[c] = NoAnswer THEN NoAnswer ELSE Decoded(op[c], answer[c])

Shared == INSTANCE SharedStore
            WITH acts    <- [c \in Calls |-> Cardinality(effects[c])],
                 seen    <- [c \in Calls |-> SeenBy(c)],
                 Nothing <- NoAnswer

\* Every behaviour of the six operations is one of a shared store: a result
\* without an error is what the last repetition found or did at one moment
\* during the call, in the words of the operation that asked; and only
\* repetitions that were sent before act on the store afterwards.
ImplementsSharedStore == Shared!SharedSpec

\* README.md: optimistic concurrency; an acknowledged write is not replaced
\* by one that was acknowledged before it began.
AckedWritesStay ==
  \A w \in Calls :
    IsWrite(op[w]) /\ result[w] = Done =>
      LET a == writer[op[w].slot]
      IN  a \in before[w] => result[a] # Done

\* types.go: ErrNotFound is returned when a key is missing; so no read of one
\* ends without an error.
MissingKeyReported ==
  \A c \in Calls : op[c].kind \in {"get", "hget"} => result[c] # Absent
=============================================================================
