-------------------------------- MODULE R1FS --------------------------------
(***************************************************************************)
(* pkg/r1fs/client.go: the operations of Client and of its httpBackend,    *)
(* made concurrently by any number of callers against one R1FS manager.    *)
(*                                                                         *)
(* As in CStore, every operation is one call through internal/httpx, which *)
(* AtLeastOnce describes.  Files are kept by content: a file is known by   *)
(* its format, its content and a nonce, and that is all its CID says.      *)
(* Without a nonce in the request the manager takes a new one each time it *)
(* carries the request out, as the server of client_test.go does.          *)
(* A content stands for the data together with the secret and the name.    *)
(***************************************************************************)
EXTENDS AtLeastOnce, Ratio1Response, FiniteSets

CONSTANTS
  Contents, \* what is uploaded
  Empty,    \* the content of no bytes
  Nonces,   \* the nonces that callers choose
  NoNonce,  \* DataOptions.Nonce is nil
  Kinds,    \* the operations that are called
  Emptied   \* may a reply of status 200 lose its body on the way?

ASSUME EmptyAssumption == Empty \notin Contents
ASSUME NonceAssumption ==
  NoNonce \notin Nonces /\ Nonces \cap (Calls \X Nat) = {}
ASSUME EmptiedAssumption == Emptied \in BOOLEAN

VARIABLES
  op,      \* the operation of each call
  payload, \* the content its request carries
  drained, \* the shared readers that were read to their end
  answer,  \* the response body to the repetition the call waits for
  result,  \* what the operation returned
  stored,  \* upstream: the files
  created, \* history: the files each call stored
  removed, \* history: the files each call removed
  before   \* history: the calls that had returned when the call began

histories == <<created, removed, before>>
r1fsVars ==
  <<absVars, op, payload, drained, answer, result, stored, histories>>

FileUploads  == {"add_file", "add_file_base64"}
DataUploads  == {"add_json", "add_pickle", "add_yaml"}
Uploads      == FileUploads \cup DataUploads
Calculations == {"calculate_json_cid", "calculate_pickle_cid"}
Reads        == {"get_file", "get_file_base64", "get_yaml"}
Deletes      == {"delete_file", "delete_files"}

Format(kind) ==
  CASE kind \in FileUploads                          -> "file"
    [] kind \in {"add_json", "calculate_json_cid"}     -> "json"
    [] kind \in {"add_pickle", "calculate_pickle_cid"} -> "pickle"
    [] kind = "add_yaml"                             -> "yaml"

Files == [format  : {"file", "json", "pickle", "yaml"},
          content : Contents \cup {Empty},
          nonce   : Nonces \cup (Calls \X (0..MaxRetries))]

\* What a blank CID stands for: no file.
BlankFile == [format |-> "none", content |-> Empty, nonce |-> NoNonce]

\* The CIDs a caller can name are those that some operation has returned.
Learned == {result[c].cid : c \in {d \in Calls : result[d].kind = "cid"}}

\* A file is uploaded from a reader, which may be one that other calls are
\* given too; reader = content, as each content has one shared reader.
Operations(known) ==
  {o \in   [kind : FileUploads, content : Contents, shared : BOOLEAN,
            nonce : Nonces \cup {NoNonce}]
      \cup [kind : DataUploads, content : Contents,
            nonce : Nonces \cup {NoNonce}]
      \cup [kind : Calculations, content : Contents, argument : Nonces,
            nonce : Nonces \cup {NoNonce}]
      \cup [kind : Reads, cid : known]
      \cup [kind : {"delete_file"}, cids : {{f} : f \in known}]
      \cup [kind : {"delete_files"}, cids : SUBSET known \ {{}}]
    : o.kind \in Kinds}

NoOperation == [kind |-> "none"]

IsUpload(o)      == o.kind \in Uploads
IsCalculation(o) == o.kind \in Calculations
IsRead(o)        == o.kind \in Reads
IsDelete(o)      == o.kind \in Deletes
UsesReader(o)    == o.kind \in FileUploads /\ o.shared

(***************************************************************************)
(* What a request carries.                                                 *)
(***************************************************************************)
\* Mutant: the options' nonce never reaches the request.
OptionsIgnored(o) == IF IsCalculation(o) THEN o.argument ELSE NoNonce

\* applyDataOptions writes over the nonce argument of a calculation.
NonceSent(o) ==
  IF o.nonce = NoNonce /\ IsCalculation(o) THEN o.argument ELSE o.nonce

\* Mutant: what the first attempt has consumed is not produced again.
BodyConsumed(c, n) == IF n = 0 THEN payload[c] ELSE Empty

\* GetBody produces the encoded request for every attempt.
ContentSent(c, n) == payload[c]

\* The file that repetition n of call c describes.
FileOf(c, n) ==
  [format  |-> Format(op[c].kind),
   content |-> ContentSent(c, n),
   nonce   |-> IF NonceSent(op[c]) = NoNonce THEN <<c, n>>
               ELSE NonceSent(op[c])]

(***************************************************************************)
(* Response bodies, beside those of Ratio1Response: objects with the       *)
(* fields the operation looks for, and what comes instead.                 *)
(***************************************************************************)
NoAnswer      == [kind |-> "no answer"]
CidBody(f)    == [kind |-> "cid", cid |-> f]
FileBody(f)   == [kind |-> "file", content |-> f.content]
ReportBody(s) == [kind |-> "report", success |-> s]

HasFields(body) == body.kind \in {"cid", "file", "report"}

ErrorText  == [quotes |-> 1, core |-> "word"]
PageText   == [quotes |-> 0, core |-> "word"]
ObjectText == [quotes |-> 0, core |-> "object"]

\* A refusal with status 200: the text "error" in an envelope, an object
\* without the fields, null, a page that is not JSON.
RefusalBodies ==
  {Envelope(ErrorText), Bare(ObjectText), Bare(NullText), Bare(PageText)}

\* Decoding leaves every field of the caller's structure at its zero value.
LeavesZero(body) ==
  ~HasFields(body) /\ DecodedText(body) \in {NullText, ObjectText}

(***************************************************************************)
(* What the operations return.                                             *)
(***************************************************************************)
Pending        == [kind |-> "pending"]
Error          == [kind |-> "error"]
Misfit         == [kind |-> "misfit"]   \* an error: out is of another type
Absent         == [kind |-> "absent"]   \* GetYAML: nil document, nil error
Cid(f)         == [kind |-> "cid", cid |-> f]
File(content)  == [kind |-> "file", content |-> content]
Report(s)      == [kind |-> "report", success |-> s]

\* Mutant: the CID is not looked at, and may be blank.
BlankCidReturned(body) ==
  IF body.kind = "cid" THEN Cid(body.cid)
  ELSE IF LeavesZero(body) THEN Cid(BlankFile) ELSE Error

\* An upload or a calculation: a missing or blank CID is an error.
DecodedCid(body) == IF body.kind = "cid" THEN Cid(body.cid) ELSE Error

\* Mutant: the location is looked for in a field of another name.
PathOverlooked(body) ==
  IF body.kind = "file" THEN File(Empty)
  ELSE IF LeavesZero(body) THEN File(Empty) ELSE Error

\* GetFileBase64 and GetFile: a reply without the fields is an empty file,
\* or a location without a path, and no error.  A path stands for the content.
DecodedFile(body) ==
  IF body.kind = "file" THEN File(body.content)
  ELSE IF LeavesZero(body) THEN File(Empty) ELSE Error

\* Mutant: what is not a document of file_data is taken for an empty one.
AnyDocument(body) ==
  IF body.kind = "file" THEN File(body.content)
  ELSE IF DecodedText(body) = NullText THEN Absent ELSE File(Empty)

\* Mutant: the document is looked for in a field of another name.
FieldOverlooked(body) ==
  IF body.kind = "file" THEN File(Empty)
  ELSE IF DecodedText(body) = NullText THEN Absent
  ELSE IF LeavesZero(body) THEN File(Empty) ELSE Error

\* GetYAML: null is no document; the text "error" and all other texts are an
\* error; an object without file_data is an empty document.
DecodedYAML(body) ==
  IF body.kind = "file" THEN File(body.content)
  ELSE IF DecodedText(body) = NullText THEN Absent
  ELSE IF LeavesZero(body) THEN File(Empty) ELSE Error

\* Mutant: a delete without an error is taken to have removed everything.
SuccessAssumed(c, body) ==
  IF body.kind = "report" THEN Report(body.success)
  ELSE IF LeavesZero(body) THEN Report(op[c].cids) ELSE Error

\* Mutant: the list of failures is taken for that of successes.
ListsSwapped(c, body) ==
  IF body.kind = "report" THEN Report(op[c].cids \ body.success)
  ELSE IF LeavesZero(body) THEN Report({}) ELSE Error

\* DeleteFile and DeleteFiles: a reply without the fields reports no success,
\* without an error.
DecodedReport(c, body) ==
  IF body.kind = "report" THEN Report(body.success)
  ELSE IF LeavesZero(body) THEN Report({}) ELSE Error

Decoded(c, body) ==
  CASE IsUpload(op[c]) \/ IsCalculation(op[c])           -> DecodedCid(body)
    [] op[c].kind \in {"get_file", "get_file_base64"} -> DecodedFile(body)
    [] op[c].kind = "get_yaml"                        -> DecodedYAML(body)
    [] IsDelete(op[c])                                -> DecodedReport(c, body)

R1FSInit ==
  /\ AbsInit
  /\ op      = [c \in Calls |-> NoOperation]
  /\ payload = [c \in Calls |-> Empty]
  /\ drained = {}
  /\ answer  = [c \in Calls |-> NoAnswer]
  /\ result  = [c \in Calls |-> Pending]
  /\ stored  = {}
  /\ created = [c \in Calls |-> {}]
  /\ removed = [c \in Calls |-> {}]
  /\ before  = [c \in Calls |-> {}]

Returned == {c \in Calls : result[c] # Pending}

(***************************************************************************)
(* The client.                                                             *)
(***************************************************************************)
\* io.ReadAll of the caller's data, before anything else is checked: a reader
\* that was read before gives nothing any more.
ReadPayload(c, o) ==
  /\ payload' = [payload EXCEPT ![c] =
       IF UsesReader(o) /\ o.content \in drained THEN Empty ELSE o.content]
  /\ drained' = IF UsesReader(o) THEN drained \cup {o.content} ELSE drained

\* No request of this package sets DisableRetry.
Call(c, o) ==
  /\ Start(c) /\ limit'[c] = MaxRetries
  /\ op'     = [op EXCEPT ![c] = o]
  /\ before' = [before EXCEPT ![c] = Returned]
  /\ IF IsUpload(o) \/ IsCalculation(o) THEN ReadPayload(c, o)
     ELSE UNCHANGED <<payload, drained>>
  /\ UNCHANGED <<answer, result, stored, created, removed>>

\* No client, no data or no CID; for an upload from a reader also a missing
\* name, which is looked at only after the reader was read.
RefuseCall(c, o) ==
  /\ Refuse(c)
  /\ op'     = [op EXCEPT ![c] = o]
  /\ result' = [result EXCEPT ![c] = Error]
  /\ before' = [before EXCEPT ![c] = Returned]
  /\ \/ UsesReader(o) /\ ReadPayload(c, o)
     \/ UNCHANGED <<payload, drained>>
  /\ UNCHANGED <<answer, stored, created, removed>>

SendRequest(c) ==
  /\ Send(c)
  /\ answer' = [answer EXCEPT ![c] = NoAnswer]
  /\ UNCHANGED <<op, payload, drained, result, stored, histories>>

Return(c, r) ==
  /\ result' = [result EXCEPT ![c] = r]
  /\ answer' = [answer EXCEPT ![c] = NoAnswer]
  /\ UNCHANGED <<op, payload, drained, stored, histories>>

ReturnDecoded(c) ==
  /\ Succeed(c)
  /\ Return(c, Decoded(c, answer[c]))

\* GetYAML: the document does not fit the caller's out.
ReturnMisfit(c) ==
  /\ op[c].kind = "get_yaml"
  /\ Succeed(c)
  /\ answer[c].kind = "file"
  /\ Return(c, Misfit)

\* Mutant: a delete does not look at the error of Do.
ForgetError(c) ==
  Fail(c) /\ Return(c, IF IsDelete(op[c]) THEN Report(op[c].cids) ELSE Error)

ReturnError(c) == Fail(c) /\ Return(c, Error)

(***************************************************************************)
(* The R1FS manager carries out repetition n of call c.                    *)
(***************************************************************************)
Received(body) == {body} \cup (IF Emptied THEN {BlankBody} ELSE {})

\* Only the answer to the latest repetition still has a reader.
Answers(c, n, body) ==
  IF outcome[c] = "active" /\ n + 1 = sent[c]
  THEN \E b \in Received(body) : answer' = [answer EXCEPT ![c] = b]
  ELSE UNCHANGED answer

StoreFile(c, n) ==
  /\ IsUpload(op[c])
  /\ TakeEffect(c, n)
  /\ Answers(c, n, CidBody(FileOf(c, n)))
  /\ stored'  = stored \cup {FileOf(c, n)}
  /\ created' = [created EXCEPT ![c] = @ \cup {FileOf(c, n)}]
  /\ UNCHANGED <<op, payload, drained, result, removed, before>>

AnswerCalculation(c, n) ==
  /\ IsCalculation(op[c])
  /\ TakeEffect(c, n)
  /\ Answers(c, n, CidBody(FileOf(c, n)))
  /\ UNCHANGED <<op, payload, drained, result, stored, histories>>

\* Any of the files asked for may fail to be removed.  A file that was not
\* there counts as removed or as failed.
RemoveFiles(c, n) ==
  /\ IsDelete(op[c])
  /\ TakeEffect(c, n)
  /\ \E gone \in SUBSET (op[c].cids \cap stored) :
       /\ stored'  = stored \ gone
       /\ removed' = [removed EXCEPT ![c] = @ \cup gone]
       /\ \E success \in {gone, op[c].cids \ stored'} :
            Answers(c, n, ReportBody(success))
  /\ UNCHANGED <<op, payload, drained, result, created, before>>

Found(o) ==
  o.cid \in stored /\ (o.kind = "get_yaml" => o.cid.format = "yaml")

\* /get_yaml says "error" of what it does not find, the others answer 404;
\* or a read is refused, whether there is a file or not.
AnswerRead(c, n) ==
  /\ IsRead(op[c])
  /\ TakeEffect(c, n)
  /\ \/ Found(op[c]) /\ Answers(c, n, FileBody(op[c].cid))
     \/ /\ ~Found(op[c]) /\ op[c].kind = "get_yaml"
        /\ Answers(c, n, Bare(ErrorText))
  /\ UNCHANGED <<op, payload, drained, result, stored, histories>>

\* Nothing is done, and the answer has status 200 all the same.
RefuseRequest(c, n) ==
  /\ TakeEffect(c, n)
  /\ \E body \in RefusalBodies : Answers(c, n, body)
  /\ UNCHANGED <<op, payload, drained, result, stored, histories>>

R1FSNext ==
  \E c \in Calls :
    \/ \E o \in Operations(Learned) : Call(c, o) \/ RefuseCall(c, o)
    \/ SendRequest(c)
    \/ ReturnDecoded(c) \/ ReturnMisfit(c) \/ ReturnError(c)
    \/ \E n \in 0..MaxRetries :
         \/ StoreFile(c, n)  \/ AnswerCalculation(c, n)
         \/ RemoveFiles(c, n) \/ AnswerRead(c, n)
         \/ RefuseRequest(c, n)

R1FSSpec == R1FSInit /\ [][R1FSNext]_r1fsVars

-----------------------------------------------------------------------------
(***************************************************************************)
(* Properties.                                                             *)
(***************************************************************************)
ResultOK(c) ==
  LET r == result[c]
  IN  \/ r \in {Pending, Error, Misfit, Absent}
      \/ r.kind = "cid"    /\ r = Cid(r.cid) /\ r.cid \in Files
      \/ r.kind = "file"   /\ r = File(r.content)
                            /\ r.content \in Contents \cup {Empty}
      \/ r.kind = "report" /\ r = Report(r.success) /\ r.success \subseteq op[c].cids

R1FSTypeOK ==
  /\ AbsTypeOK
  /\ op \in [Calls -> Operations(Files) \cup {NoOperation}]
  /\ payload \in [Calls -> Contents \cup {Empty}]
  /\ drained \subseteq Contents
  /\ \A c \in Calls :
       /\ ResultOK(c)
       /\ result[c] = Pending <=> outcome[c] \in {"idle", "active"}
  /\ stored \subseteq Files
  /\ created \in [Calls -> SUBSET Files]
  /\ removed \in [Calls -> SUBSET Files]
  /\ before \in [Calls -> SUBSET Calls]

Acked(u) == IsUpload(op[u]) /\ result[u].kind = "cid"

\* Another call had the reader of upload u, before it or at the same time.
ReaderLent(u) ==
  /\ UsesReader(op[u])
  /\ \E a \in Calls \ {u} :
       /\ UsesReader(op[a]) /\ op[a].content = op[u].content
       /\ u \notin before[a]

\* The CID an upload returns is that of a file which this very call stored,
\* and which holds all of the caller's data, whichever attempt stored it -
\* unless another call had been at the reader first.
AckedUploadIsWhole ==
  \A u \in Calls :
    Acked(u) =>
      /\ result[u].cid \in created[u]
      /\ ReaderLent(u) \/ result[u].cid.content = op[u].content

\* An acknowledged upload leaves files behind of which its caller does not
\* know only if it was repeated, and without a nonce: a nonce makes the
\* repetitions store the same file again - if the manager gives equal data
\* with an equal nonce an equal CID, as FileOf has it.
OrphansNeedRepetition ==
  \A u \in Calls :
    Acked(u) /\ created[u] # {result[u].cid} =>
      sent[u] > 1 /\ op[u].nonce = NoNonce

\* The call a was over, for good, when call c began: it was answered and had
\* sent a single request.
OverFor(a, c) ==
  \/ outcome[a] = "refused"
  \/ /\ a \in before[c] /\ sent[a] = 1
     /\ result[a].kind \in {"cid", "report"}

\* A file whose upload was acknowledged is gone only if a delete of it was
\* still under way, had failed or had been repeated when the upload began, or
\* began later.
LossNeedsDelete ==
  \A u \in Calls :
    Acked(u) /\ result[u].cid \notin stored =>
      \E d \in Calls : result[u].cid \in removed[d] /\ ~OverFor(d, u)

\* A file that a delete reports as removed is there again only if an upload
\* of it was still under way, had failed or had been repeated when the delete
\* began, or began later.
DeletedStaysGone ==
  \A d \in Calls : result[d].kind = "report" =>
    \A f \in result[d].success \cap stored :
      \E u \in Calls : f \in created[u] /\ ~OverFor(u, d)

\* A delete removes a file and returns without an error, but also without
\* reporting it, only if it was repeated, or if its reply lost the body and
\* nothing is reported at all.
FalseAlarmNeedsRepetition ==
  \A d \in Calls :
    /\ result[d].kind = "report"
    /\ removed[d] \ result[d].success # {}
    => sent[d] > 1 \/ (Emptied /\ result[d].success = {})

\* Replies of status 200 that tell a reader nothing of the file, and what it
\* may be shown then: no file, which is not always an error.
Evasions     == RefusalBodies \cup {BlankBody}
NothingShown == {Error, Absent, File(Empty)}

ReadEnds(r) == IsRead(op[r]) /\ outcome[r] = "active" /\ outcome'[r] = "ok"

\* A read that starts after an upload was acknowledged returns the file, by
\* every operation that can, unless a delete of it may have come between:
\* no delete was begun before the read ended other than those that were over
\* when the upload began.  The one exception is a read that upstream refuses
\* with status 200, or whose reply lost the body: it shows nothing, and if the
\* reply is blank, null or an object without the fields, shows it without an
\* error, as an empty file, an empty location or no document.
ReadsFollowUploads ==
  [][\A u \in Calls, r \in Calls :
       /\ ReadEnds(r)
       /\ Acked(u) /\ u \in before[r] /\ op[r].cid = result[u].cid
       /\ op[r].kind = "get_yaml" => op[u].kind = "add_yaml"
       /\ \A d \in Calls : IsDelete(op[d]) /\ result[u].cid \in op[d].cids =>
                             OverFor(d, u)
       => IF answer[r] \in Evasions THEN result'[r] \in NothingShown
          ELSE result'[r] \in {File(result[u].cid.content), Misfit}]_r1fsVars

\* There is no file for the read r: none was ever stored under its CID, or a
\* delete had reported it as removed when the read began, and every upload of
\* it was over by then.
NoFileFor(r) ==
  LET Uploaders == {u \in Calls : op[r].cid \in created[u]}
  IN  \/ Uploaders = {}
      \/ \E d \in before[r] :
           /\ result[d].kind = "report" /\ op[r].cid \in result[d].success
           /\ \A u \in Uploaders : OverFor(u, d)

\* Replies of which encoding/json makes the zero value of any structure.
SilentBodies == {BlankBody, Bare(NullText), Bare(ObjectText)}

\* client_test.go: expected error for missing YAML document.  A read of what
\* was never stored, or was removed for good, ends in an error, whatever text
\* or page the manager answers with - but for a reply that is blank, null or
\* an object without the fields: of that GetYAML makes no document or an empty
\* one, and GetFile and GetFileBase64 an empty location or file, without any
\* error.
MissingFileReported ==
  [][\A r \in Calls :
       ReadEnds(r) /\ NoFileFor(r)
       => \/ result'[r] = Error
          \/ answer[r] \in SilentBodies /\ result'[r] \in {Absent, File(Empty)}
    ]_r1fsVars

(***************************************************************************)
(* The promise to the application: R1FS implements FileStore.              *)
(***************************************************************************)
Named(o) == NonceSent(o) # NoNonce

\* The files that the data x may be stored as.
FilesOf(o, x) ==
  {[format |-> Format(o.kind), content |-> x, nonce |-> n] :
     n \in IF Named(o) THEN {NonceSent(o)} ELSE Calls \X (0..MaxRetries)}

\* What a read is to show of the files fs.
View(o, fs) ==
  IF o.cid \in fs /\ (o.kind = "get_yaml" => o.cid.format = "yaml")
  THEN File(o.cid.content) ELSE Error

\* What an operation makes of a reply without a body.
Lost(o) ==
  CASE IsUpload(o) \/ IsCalculation(o)             -> Error
    [] o.kind \in {"get_file", "get_file_base64"} -> File(Empty)
    [] o.kind = "get_yaml"                        -> Absent
    [] IsDelete(o)                                -> Report({})

\* What it makes of a refusal with status 200.
Refused(o) ==
  CASE IsUpload(o) \/ IsCalculation(o)             -> {Error}
    [] o.kind \in {"get_file", "get_file_base64"} -> {Error, File(Empty)}
    [] o.kind = "get_yaml"                        -> {Error, Absent, File(Empty)}
    [] IsDelete(o)                                -> {Error, Report({})}

Misfits(o, r) == o.kind = "get_yaml" /\ r.kind = "file"

\* What a call knows of its last repetition.
SeenBy(c) == IF answer[c] = NoAnswer THEN NoAnswer ELSE Decoded(c, answer[c])

FileStore == INSTANCE FileStore
               WITH data    <- payload,
                    files   <- stored,
                    ever    <- UNION {created[c] : c \in Calls},
                    acts    <- [c \in Calls |-> Cardinality(effects[c])],
                    seen    <- [c \in Calls |-> SeenBy(c)],
                    Nothing <- NoAnswer

\* Every behaviour of the twelve operations is one of a shared set of files:
\* a result without an error is what the last repetition found or did at one
\* moment during the call; without a nonce every repetition stores a new
\* file, with one the same; and only repetitions that were sent before act on
\* the files afterwards.
ImplementsFileStore == FileStore!FileStoreSpec
=============================================================================
