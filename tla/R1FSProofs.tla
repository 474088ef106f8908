----------------------------- MODULE R1FSProofs -----------------------------
(***************************************************************************)
(* Proofs about R1FS, for every set of calls, contents and nonces and      *)
(* every MaxRetries.                                                       *)
(***************************************************************************)
EXTENDS R1FS, FiniteSetTheorems, TLAPS

(***************************************************************************)
(* The operations, their files and their results.                          *)
(***************************************************************************)
LEMMA OperationShape ==
  ASSUME NEW known, NEW o \in Operations(known)
  PROVE  /\ o.kind \in Uploads \cup Calculations \cup Reads \cup Deletes
         /\ IsUpload(o) \/ IsCalculation(o) =>
              o.content \in Contents /\ o.nonce \in Nonces \cup {NoNonce}
         /\ IsCalculation(o) => o.argument \in Nonces
         /\ IsRead(o) => o.cid \in known
         /\ IsDelete(o) => o.cids \subseteq known
  BY DEF Operations, IsUpload, IsCalculation, IsRead, IsDelete, Uploads,
         FileUploads, DataUploads, Calculations, Reads, Deletes

LEMMA OperationsGrow ==
  ASSUME NEW known, known \subseteq Files
  PROVE  Operations(known) \subseteq Operations(Files)
  BY DEF Operations

\* Every operation is of one sort, and the sorts differ.
LEMMA Sorts ==
  ASSUME NEW o
  PROVE  /\ IsUpload(o) => ~IsCalculation(o) /\ ~IsRead(o) /\ ~IsDelete(o)
         /\ IsCalculation(o) => ~IsRead(o) /\ ~IsDelete(o)
         /\ IsRead(o) => ~IsDelete(o)
         /\ UsesReader(o) => IsUpload(o)
         /\ o.kind = "get_yaml" => IsRead(o)
         /\ o.kind = "add_yaml" => IsUpload(o)
  BY DEF IsUpload, IsCalculation, IsRead, IsDelete, UsesReader, Uploads,
         FileUploads, DataUploads, Calculations, Reads, Deletes

LEMMA NoOperationDoesNothing ==
  /\ ~IsUpload(NoOperation) /\ ~IsCalculation(NoOperation)
  /\ ~IsRead(NoOperation) /\ ~IsDelete(NoOperation)
  /\ ~UsesReader(NoOperation)
  BY DEF NoOperation, IsUpload, IsCalculation, IsRead, IsDelete, UsesReader,
         Uploads, FileUploads, DataUploads, Calculations, Reads, Deletes

LEMMA NoOperationApart == \A known : NoOperation \notin Operations(known)
  BY OperationShape DEF NoOperation, Uploads, FileUploads, DataUploads,
     Calculations, Reads, Deletes

LEMMA Results ==
  /\ Pending.kind = "pending" /\ Error.kind = "error"
  /\ Misfit.kind = "misfit" /\ Absent.kind = "absent"
  /\ \A f : Cid(f).kind = "cid" /\ Cid(f).cid = f
  /\ \A x : File(x).kind = "file" /\ File(x).content = x
  /\ \A s : Report(s).kind = "report" /\ Report(s).success = s
  BY DEF Pending, Error, Misfit, Absent, Cid, File, Report

LEMMA Bodies ==
  /\ NoAnswer.kind = "no answer" /\ BlankBody.kind = "blank"
  /\ \A f : CidBody(f).kind = "cid" /\ CidBody(f).cid = f
  /\ \A f : FileBody(f).kind = "file" /\ FileBody(f).content = f.content
  /\ \A s : ReportBody(s).kind = "report" /\ ReportBody(s).success = s
  /\ \A b \in RefusalBodies : b.kind \in {"envelope", "bare"}
  BY DEF NoAnswer, BlankBody, CidBody, FileBody, ReportBody, RefusalBodies,
         Envelope, Bare

(***************************************************************************)
(* The inductive invariant.  Progress ties what AtLeastOnce knows of a     *)
(* call to its operation, its result and its answer; Truthful says what a  *)
(* result is worth, ReplyTrue what the manager may have told a read, and   *)
(* AnswersTrue that the answer on its way is such a reply and decodes to a *)
(* truthful result.                                                        *)
(***************************************************************************)
Types ==
  /\ AbsTypeOK
  /\ op \in [Calls -> Operations(Files) \cup {NoOperation}]
  /\ payload \in [Calls -> Contents \cup {Empty}]
  /\ drained \subseteq Contents
  /\ answer = [c \in Calls |-> answer[c]]
  /\ result = [c \in Calls |-> result[c]]
  /\ stored \subseteq Files
  /\ created \in [Calls -> SUBSET Files]
  /\ removed \in [Calls -> SUBSET Files]
  /\ before \in [Calls -> SUBSET Calls]

Progress ==
  \A c \in Calls :
    /\ outcome[c] = "idle" <=> op[c] = NoOperation
    /\ result[c] = Pending <=> outcome[c] \in {"idle", "active"}
    /\ outcome[c] \in {"refused", "failed"} => result[c] = Error
    /\ sent[c] > 0 => outcome[c] \notin {"idle", "refused"}
    /\ \A n \in effects[c] : n < sent[c]
    /\ outcome[c] = "ok" => LastTookEffect(c)
    /\ outcome[c] # "active" => answer[c] = NoAnswer
    /\ outcome[c] = "active" /\ LastTookEffect(c) => answer[c] # NoAnswer

HistoryKept ==
  \A w \in Calls : \A a \in before[w] :
    op[w] # NoOperation /\ result[a] # Pending

\* Who had the reader before, and what a request carries.
ReadersKept ==
  /\ \A x \in drained : \E a \in Calls : UsesReader(op[a]) /\ op[a].content = x
  /\ \A c \in Calls :
       (IsUpload(op[c]) \/ IsCalculation(op[c])) /\ outcome[c] # "refused" =>
         payload[c] = op[c].content \/ ReaderLent(c)

\* Files come from uploads and go by deletes.
FilesKept ==
  /\ \A f \in stored : \E u \in Calls : f \in created[u]
  /\ \A u \in Calls : \A f \in created[u] :
       IsUpload(op[u]) /\ \E n \in effects[u] : f = FileOf(u, n)
  /\ \A d \in Calls : \A f \in removed[d] :
       IsDelete(op[d]) /\ f \in op[d].cids /\ effects[d] # {}

LossExplained ==
  \A u \in Calls : \A f \in created[u] \ stored :
    \E d \in Calls : f \in removed[d] /\ ~OverFor(d, u)

\* Why the read r need not find its file.
Excused(r) ==
  \A u \in Calls :
    /\ u \in before[r] /\ Acked(u) /\ result[u].cid = op[r].cid
    /\ op[r].kind = "get_yaml" => op[u].kind = "add_yaml"
    => \E d \in Calls : /\ IsDelete(op[d]) /\ op[r].cid \in op[d].cids
                        /\ ~OverFor(d, u) /\ r \notin before[d]

\* The delete d may report the files s.
Reportable(d, s) ==
  /\ \A f \in s \cap stored :
       \E u \in Calls : f \in created[u] /\ ~OverFor(u, d)
  /\ sent[d] = 1 => removed[d] \subseteq s \/ (Emptied /\ s = {})

Truthful(c, r) ==
  /\ IsUpload(op[c]) => r = Error \/ \E f \in created[c] : r = Cid(f)
  /\ IsCalculation(op[c]) =>
       r = Error \/ \E n \in 0..MaxRetries : r = Cid(FileOf(c, n))
  /\ IsRead(op[c]) =>
       r \in {File(op[c].cid.content), Misfit} \cup NothingShown
  /\ IsDelete(op[c]) =>
       r = Error \/ \E s \in SUBSET op[c].cids : r = Report(s) /\ Reportable(c, s)

\* The manager tells the read c of its file, evades it, or does not find it.
ReplyTrue(c, b) ==
  IsRead(op[c]) =>
    \/ b = FileBody(op[c].cid) /\ ~NoFileFor(c)
    \/ b \in Evasions
    \/ op[c].kind = "get_yaml" /\ b = Bare(ErrorText) /\ Excused(c)

TruthfulAnswer(c, b) == Truthful(c, Decoded(c, b)) /\ ReplyTrue(c, b)

AnswersTrue ==
  \A c \in Calls : answer[c] # NoAnswer => TruthfulAnswer(c, answer[c])

ResultsTrue == \A c \in Calls : outcome[c] = "ok" => Truthful(c, result[c])

IInv ==
  /\ Types
  /\ Progress
  /\ HistoryKept
  /\ ReadersKept
  /\ FilesKept
  /\ LossExplained
  /\ AnswersTrue
  /\ ResultsTrue

(***************************************************************************)
(* What the answers decode to.                                             *)
(***************************************************************************)
\* A body without the fields the operation looks for.
Vague(b) == b.kind \in {"envelope", "bare", "blank"}

LEMMA VagueAnswers ==
  ASSUME NEW c \in Calls, NEW b, Vague(b)
  PROVE  /\ IsUpload(op[c]) \/ IsCalculation(op[c]) => Decoded(c, b) = Error
         /\ IsDelete(op[c]) => Decoded(c, b) \in {Error, Report({})}
  BY Sorts DEF Vague, Decoded, DecodedCid, DecodedReport, IsUpload,
     IsCalculation, IsDelete, Uploads, FileUploads, DataUploads, Calculations,
     Deletes

LEMMA CidAnswers ==
  ASSUME NEW c \in Calls, NEW f, IsUpload(op[c]) \/ IsCalculation(op[c])
  PROVE  Decoded(c, CidBody(f)) = Cid(f)
  BY Bodies DEF Decoded, DecodedCid, IsUpload, IsCalculation, IsDelete,
     Uploads, FileUploads, DataUploads, Calculations, Deletes

LEMMA ReportAnswers ==
  ASSUME NEW c \in Calls, NEW s, IsDelete(op[c])
  PROVE  Decoded(c, ReportBody(s)) = Report(s)
  BY Bodies DEF Decoded, DecodedReport, IsDelete, IsUpload, IsCalculation,
     Uploads, FileUploads, DataUploads, Calculations, Deletes

LEMMA ReadAnswers ==
  ASSUME NEW c \in Calls, IsRead(op[c])
  PROVE  /\ \A f : Decoded(c, FileBody(f)) = File(f.content)
         /\ Decoded(c, BlankBody) =
              IF op[c].kind = "get_yaml" THEN Absent ELSE File(Empty)
         /\ op[c].kind = "get_yaml" => Decoded(c, Bare(ErrorText)) = Error
<1>1. /\ ~IsUpload(op[c]) /\ ~IsCalculation(op[c]) /\ ~IsDelete(op[c])
      /\ op[c].kind \in Reads
  BY Sorts DEF IsRead
<1>2. LeavesZero(BlankBody) /\ DecodedText(BlankBody) = NullText
  BY Bodies DEF LeavesZero, HasFields, DecodedText
<1>3. ~LeavesZero(Bare(ErrorText)) /\ DecodedText(Bare(ErrorText)) # NullText
  <2>1. DecodedText(Bare(ErrorText)) = ErrorText
    BY DEF DecodedText, ExtractResult, Bare, Payload
  <2>2. ErrorText # NullText /\ ErrorText # ObjectText
    BY DEF ErrorText, NullText, ObjectText
  <2> QED
    BY <2>1, <2>2 DEF LeavesZero
<1>4. Bare(ErrorText).kind = "bare"
  BY DEF Bare
<1>5. CASE op[c].kind = "get_yaml"
  <2>1. \A b : Decoded(c, b) = DecodedYAML(b)
    BY <1>1, <1>5 DEF Decoded
  <2>2. ASSUME NEW f PROVE Decoded(c, FileBody(f)) = File(f.content)
    <3>1. FileBody(f).kind = "file" /\ FileBody(f).content = f.content
      BY DEF FileBody
    <3>2. Decoded(c, FileBody(f)) = DecodedYAML(FileBody(f))
      BY <2>1
    <3> QED
      BY <3>1, <3>2 DEF DecodedYAML
  <2>3. Decoded(c, BlankBody) = Absent
    BY <1>2, <2>1, Bodies DEF DecodedYAML
  <2>4. Decoded(c, Bare(ErrorText)) = Error
    BY <1>3, <1>4, <2>1 DEF DecodedYAML
  <2> QED
    BY <1>5, <2>2, <2>3, <2>4
<1>6. CASE op[c].kind \in {"get_file", "get_file_base64"}
  <2>1. \A b : Decoded(c, b) = DecodedFile(b)
    BY <1>1, <1>6 DEF Decoded
  <2>2. ASSUME NEW f PROVE Decoded(c, FileBody(f)) = File(f.content)
    <3>1. FileBody(f).kind = "file" /\ FileBody(f).content = f.content
      BY DEF FileBody
    <3>2. Decoded(c, FileBody(f)) = DecodedFile(FileBody(f))
      BY <2>1
    <3> QED
      BY <3>1, <3>2 DEF DecodedFile
  <2>3. Decoded(c, BlankBody) = File(Empty)
    BY <1>2, <2>1, Bodies DEF DecodedFile
  <2> QED
    BY <1>6, <2>2, <2>3
<1> QED
  BY <1>1, <1>5, <1>6 DEF Reads

\* The replies that evade a read, what they say, and what is made of them.
LEMMA EvasionShapes ==
  /\ DecodedText(BlankBody) = NullText
  /\ DecodedText(Bare(NullText)) = NullText
  /\ DecodedText(Bare(ObjectText)) = ObjectText
  /\ DecodedText(Bare(PageText)) = PageText
  /\ DecodedText(Envelope(ErrorText)) = ErrorText
  /\ \A t \in {ErrorText, PageText} : t \notin {NullText, ObjectText}
  /\ \A b \in Evasions : ~HasFields(b)
<1>1. /\ BlankBody.kind = "blank"
      /\ \A t : Bare(t).kind = "bare" /\ Bare(t).text = t
      /\ \A t : Envelope(t).kind = "envelope" /\ Envelope(t).text = t
      /\ \A t : Payload(t).kind = "payload" /\ Payload(t).text = t
  BY DEF BlankBody, Bare, Envelope, Payload
<1>2. /\ NullText.quotes = 0 /\ NullText.core = "null"
      /\ ObjectText.quotes = 0 /\ ObjectText.core = "object"
      /\ PageText.quotes = 0 /\ PageText.core = "word"
      /\ ErrorText.quotes = 1 /\ ErrorText.core = "word"
  BY DEF NullText, ObjectText, PageText, ErrorText
<1>3. Unwrapped(ErrorText) = ErrorText
  <2>1. Stripped(ErrorText, 1) = [quotes |-> 0, core |-> "word"]
    BY DEF Stripped, ErrorText
  <2>2. Unquoted([quotes |-> 0, core |-> "word"])
          = [quotes |-> 0, core |-> "word"]
    BY DEF Stripped, Unquoted, UnquoteLimit
  <2>3. ~IsJSON(Unquoted(Stripped(ErrorText, 1)))
    BY <2>1, <2>2 DEF IsJSON, Atoms
  <2> QED
    BY <2>3 DEF Unwrapped
<1>4. /\ \A t : DecodedText(Bare(t)) = t
      /\ DecodedText(BlankBody) = NullText
      /\ DecodedText(Envelope(ErrorText)) = ErrorText
  BY <1>1, <1>3 DEF DecodedText, ExtractResult
<1>5. \A b \in Evasions : ~HasFields(b)
  BY <1>1 DEF Evasions, RefusalBodies, HasFields
<1> QED
  BY <1>2, <1>4, <1>5

LEMMA ReadDecoded ==
  ASSUME NEW c \in Calls, IsRead(op[c])
  PROVE  \A b : /\ op[c].kind = "get_yaml" => Decoded(c, b) = DecodedYAML(b)
                /\ op[c].kind # "get_yaml" => Decoded(c, b) = DecodedFile(b)
<1>1. /\ ~IsUpload(op[c]) /\ ~IsCalculation(op[c]) /\ ~IsDelete(op[c])
      /\ op[c].kind \in Reads
  BY Sorts DEF IsRead
<1>2. CASE op[c].kind = "get_yaml"
  BY <1>1, <1>2 DEF Decoded
<1>3. CASE op[c].kind \in {"get_file", "get_file_base64"}
  BY <1>1, <1>3 DEF Decoded
<1> QED
  BY <1>1, <1>2, <1>3 DEF Reads

LEMMA EvasiveAnswers ==
  ASSUME NEW c \in Calls, IsRead(op[c]), NEW b \in Evasions
  PROVE  /\ Decoded(c, b) \in NothingShown
         /\ b \in SilentBodies \/ Decoded(c, b) = Error
<1>1. /\ op[c].kind = "get_yaml" => Decoded(c, b) = DecodedYAML(b)
      /\ op[c].kind # "get_yaml" => Decoded(c, b) = DecodedFile(b)
  BY ReadDecoded
<1>2. b.kind # "file" /\ ~HasFields(b)
  BY EvasionShapes DEF HasFields
<1>3. b \in SilentBodies \/ b \in {Envelope(ErrorText), Bare(PageText)}
  BY DEF Evasions, RefusalBodies, SilentBodies
<1>4. b \in SilentBodies \/ ~LeavesZero(b)
  BY <1>3, EvasionShapes DEF LeavesZero
<1>5. b \in SilentBodies \/ DecodedText(b) # NullText
  BY <1>3, EvasionShapes
<1> QED
  BY <1>1, <1>2, <1>4, <1>5 DEF DecodedYAML, DecodedFile, NothingShown

LEMMA FileShape ==
  ASSUME Types, NEW c \in Calls, NEW n \in 0..MaxRetries,
         IsUpload(op[c]) \/ IsCalculation(op[c])
  PROVE  /\ FileOf(c, n) \in Files
         /\ FileOf(c, n).content = payload[c]
         /\ op[c].kind = "add_yaml" => FileOf(c, n).format = "yaml"
<1>1. /\ op[c] \in Operations(Files)
      /\ op[c].nonce \in Nonces \cup {NoNonce}
      /\ IsCalculation(op[c]) => op[c].argument \in Nonces
  BY NoOperationDoesNothing, OperationShape DEF Types
<1>2. op[c].kind \in Uploads \cup Calculations
  BY DEF IsUpload, IsCalculation
<1>3. Format(op[c].kind) \in {"file", "json", "pickle", "yaml"}
  BY <1>2 DEF Format, Uploads, FileUploads, DataUploads, Calculations
<1>4. op[c].kind = "add_yaml" => Format(op[c].kind) = "yaml"
  BY DEF Format, FileUploads
<1>5. NonceSent(op[c]) \in Nonces \cup {NoNonce}
  BY <1>1 DEF NonceSent
<1>6. (IF NonceSent(op[c]) = NoNonce THEN <<c, n>> ELSE NonceSent(op[c]))
        \in Nonces \cup (Calls \X (0..MaxRetries))
  BY <1>5
<1>7. payload[c] \in Contents \cup {Empty}
  BY DEF Types
<1> QED
  BY <1>3, <1>4, <1>6, <1>7 DEF FileOf, ContentSent, Files

LEMMA InitIInv == R1FSInit => IInv
<1> SUFFICES ASSUME R1FSInit PROVE IInv
  OBVIOUS
<1> USE NoOperationDoesNothing, Results DEF R1FSInit, AbsInit
<1>1. Types
  BY MaxRetriesAssumption DEF Types, AbsTypeOK, Outcomes
<1>2. Progress /\ HistoryKept
  BY DEF Progress, HistoryKept, LastTookEffect
<1>3. ReadersKept /\ FilesKept /\ LossExplained
  BY DEF ReadersKept, FilesKept, LossExplained
<1>4. AnswersTrue /\ ResultsTrue
  BY DEF AnswersTrue, ResultsTrue
<1> QED
  BY <1>1, <1>2, <1>3, <1>4 DEF IInv

(***************************************************************************)
(* What no step takes back.                                                *)
(***************************************************************************)
Onward ==
  /\ \A c \in Calls : op[c] # NoOperation =>
       /\ op'[c] = op[c] /\ before'[c] = before[c] /\ payload'[c] = payload[c]
       /\ outcome[c] # "refused" => outcome'[c] # "refused"
  /\ \A c \in Calls : result[c] # Pending =>
       result'[c] = result[c] /\ sent'[c] = sent[c]
  /\ \A c \in Calls : created[c] \subseteq created'[c]
  /\ \A c \in Calls : removed[c] \subseteq removed'[c]

LEMMA NotOverKept ==
  ASSUME IInv, Onward, NEW a \in Calls, NEW c \in Calls,
         op[a] # NoOperation, op[c] # NoOperation, ~OverFor(a, c)
  PROVE  ~OverFor(a, c)'
  BY DEF IInv, HistoryKept, Onward, OverFor

LEMMA ExcusedKept ==
  ASSUME IInv, Onward, NEW r \in Calls, op[r] # NoOperation, Excused(r)
  PROVE  Excused(r)'
<1> SUFFICES ASSUME NEW u \in Calls, u \in before'[r], Acked(u)',
                    result'[u].cid = op'[r].cid,
                    op'[r].kind = "get_yaml" => op'[u].kind = "add_yaml"
             PROVE  \E d \in Calls : /\ IsDelete(op'[d])
                                     /\ op'[r].cid \in op'[d].cids
                                     /\ ~OverFor(d, u)' /\ r \notin before'[d]
  BY DEF Excused
<1>1. u \in before[r] /\ op'[r] = op[r]
  BY DEF Onward
<1>2. result[u] # Pending /\ result'[u] = result[u]
  BY <1>1 DEF IInv, HistoryKept, Onward
<1>3. op[u] # NoOperation /\ op'[u] = op[u]
  BY <1>2 DEF IInv, Progress, Onward
<1>4. PICK d \in Calls : /\ IsDelete(op[d]) /\ op[r].cid \in op[d].cids
                         /\ ~OverFor(d, u) /\ r \notin before[d]
  BY <1>1, <1>2, <1>3 DEF Excused, Acked
<1>5. op[d] # NoOperation
  BY <1>4, NoOperationDoesNothing
<1>6. ~OverFor(d, u)'
  BY <1>3, <1>4, <1>5, NotOverKept
<1> QED
  BY <1>1, <1>4, <1>5, <1>6 DEF Onward

LEMMA FoundKept ==
  ASSUME IInv, Onward, NEW r \in Calls, op[r] # NoOperation, ~NoFileFor(r)
  PROVE  ~NoFileFor(r)'
<1>1. op'[r] = op[r] /\ before'[r] = before[r]
  BY DEF Onward
<1>2. PICK v \in Calls : op[r].cid \in created[v]
  BY DEF NoFileFor
<1>3. op'[r].cid \in created'[v]
  BY <1>1, <1>2 DEF Onward
<1>4. ASSUME NEW d \in before'[r], result'[d].kind = "report",
             op'[r].cid \in result'[d].success
      PROVE  \E u \in Calls : op'[r].cid \in created'[u] /\ ~OverFor(u, d)'
  <2>1. d \in Calls /\ result[d] # Pending
    BY <1>1, <1>4 DEF IInv, Types, HistoryKept
  <2>2. result'[d] = result[d] /\ op[d] # NoOperation
    BY <2>1 DEF IInv, Progress, Onward
  <2>3. PICK u \in Calls : op[r].cid \in created[u] /\ ~OverFor(u, d)
    BY <1>1, <1>4, <2>2 DEF NoFileFor
  <2>4. op[u] # NoOperation
    BY <2>3, NoOperationDoesNothing DEF IInv, FilesKept
  <2>5. ~OverFor(u, d)'
    BY <2>1, <2>2, <2>3, <2>4, NotOverKept
  <2> QED
    BY <1>1, <2>3, <2>5 DEF Onward
<1> QED
  BY <1>3, <1>4 DEF NoFileFor

\* Every file that appears or disappears does so by a call that is not over.
FilesMoveOn ==
  /\ \A u \in Calls : created'[u] \ created[u] \subseteq stored'
  /\ \A f \in stored' \ stored : \E u \in Calls :
       f \in created'[u] /\ \A c \in Calls : ~OverFor(u, c)'
  /\ \A f \in stored \ stored' : \E d \in Calls :
       f \in removed'[d] /\ \A c \in Calls : ~OverFor(d, c)'

LEMMA LossKept ==
  ASSUME IInv, Onward, FilesMoveOn
  PROVE  LossExplained'
<1> SUFFICES ASSUME NEW u \in Calls, NEW f \in created'[u] \ stored'
             PROVE  \E d \in Calls : f \in removed'[d] /\ ~OverFor(d, u)'
  BY DEF LossExplained
<1>1. f \in created[u]
  BY DEF FilesMoveOn
<1>2. CASE f \in stored
  BY <1>2 DEF FilesMoveOn
<1>3. CASE f \notin stored
  <2>1. PICK d \in Calls : f \in removed[d] /\ ~OverFor(d, u)
    BY <1>1, <1>3 DEF IInv, LossExplained
  <2>2. op[d] # NoOperation /\ op[u] # NoOperation
    BY <1>1, <2>1, NoOperationDoesNothing DEF IInv, FilesKept
  <2> QED
    BY <2>1, <2>2, NotOverKept DEF Onward
<1> QED
  BY <1>2, <1>3

LEMMA ReportableKept ==
  ASSUME IInv, Onward, FilesMoveOn, NEW d \in Calls, op[d] # NoOperation,
         sent'[d] = sent[d], removed'[d] = removed[d] \/ sent[d] # 1
  PROVE  \A s : Reportable(d, s) => Reportable(d, s)'
<1> SUFFICES ASSUME NEW s, Reportable(d, s) PROVE Reportable(d, s)'
  OBVIOUS
<1>1. ASSUME NEW f \in s \cap stored'
      PROVE  \E u \in Calls : f \in created'[u] /\ ~OverFor(u, d)'
  <2>1. CASE f \in stored
    <3>1. PICK u \in Calls : f \in created[u] /\ ~OverFor(u, d)
      BY <1>1, <2>1 DEF Reportable
    <3>2. op[u] # NoOperation
      BY <3>1, NoOperationDoesNothing DEF IInv, FilesKept
    <3> QED
      BY <3>1, <3>2, NotOverKept DEF Onward
  <2>2. CASE f \notin stored
    BY <1>1, <2>2 DEF FilesMoveOn
  <2> QED
    BY <2>1, <2>2
<1>2. sent'[d] = 1 => removed'[d] \subseteq s \/ (Emptied /\ s = {})
  BY DEF Reportable
<1> QED
  BY <1>1, <1>2 DEF Reportable

LEMMA TruthKept ==
  ASSUME IInv, Onward, FilesMoveOn, NEW c \in Calls, op[c] # NoOperation,
         sent'[c] = sent[c], removed'[c] = removed[c] \/ sent[c] # 1
  PROVE  \A r : Truthful(c, r) => Truthful(c, r)'
<1> SUFFICES ASSUME NEW r, Truthful(c, r) PROVE Truthful(c, r)'
  OBVIOUS
<1>1. /\ op'[c] = op[c] /\ payload'[c] = payload[c]
      /\ \A d \in Calls : created[d] \subseteq created'[d]
  BY DEF Onward
<1>2. IsUpload(op'[c]) => r = Error \/ \E f \in created'[c] : r = Cid(f)
  BY <1>1 DEF Truthful
<1>3. \A n \in 0..MaxRetries : FileOf(c, n)' = FileOf(c, n)
  BY <1>1 DEF FileOf, ContentSent
<1>4. IsCalculation(op'[c]) =>
        r = Error \/ \E n \in 0..MaxRetries : r = Cid(FileOf(c, n)')
  BY <1>1, <1>3 DEF Truthful
<1>5. IsRead(op'[c]) =>
        r \in {File(op'[c].cid.content), Misfit} \cup NothingShown
  BY <1>1 DEF Truthful
<1>6. IsDelete(op'[c]) =>
        r = Error \/ \E s \in SUBSET op'[c].cids :
                       r = Report(s) /\ Reportable(c, s)'
  BY <1>1, ReportableKept DEF Truthful
<1> QED
  BY <1>2, <1>4, <1>5, <1>6 DEF Truthful

LEMMA DecodedKept ==
  ASSUME NEW c \in Calls, op'[c] = op[c]
  PROVE  \A b : Decoded(c, b)' = Decoded(c, b)
  BY DEF Decoded, DecodedReport

LEMMA TruthfulAnswerKept ==
  ASSUME IInv, Onward, FilesMoveOn, NEW c \in Calls, op[c] # NoOperation,
         sent'[c] = sent[c], removed'[c] = removed[c] \/ sent[c] # 1
  PROVE  \A b : TruthfulAnswer(c, b) => TruthfulAnswer(c, b)'
<1> SUFFICES ASSUME NEW b, TruthfulAnswer(c, b) PROVE TruthfulAnswer(c, b)'
  OBVIOUS
<1>1. op'[c] = op[c]
  BY DEF Onward
<1>2. PICK r : r = Decoded(c, b)
  OBVIOUS
<1>3. Decoded(c, b)' = r
  BY <1>1, <1>2, DecodedKept
<1>4. Truthful(c, r)'
  <2>1. Truthful(c, r)
    BY <1>2 DEF TruthfulAnswer
  <2> QED
    BY <2>1, TruthKept
<1>5. Truthful(c, Decoded(c, b))'
  BY <1>3, <1>4 DEF Truthful
<1>6. ReplyTrue(c, b)'
  BY <1>1, ExcusedKept, FoundKept DEF TruthfulAnswer, ReplyTrue
<1> QED
  BY <1>5, <1>6 DEF TruthfulAnswer

(***************************************************************************)
(* A step of call c leaves the other calls' answers and results as they    *)
(* are, and these stay true.                                               *)
(***************************************************************************)
LEMMA FrameStep ==
  ASSUME IInv, Onward, FilesMoveOn, NEW c \in Calls,
         Types', Progress', HistoryKept', ReadersKept', FilesKept',
         \A d \in Calls \ {c} :
           /\ answer'[d] = answer[d] /\ outcome'[d] = outcome[d]
           /\ sent'[d] = sent[d] /\ removed'[d] = removed[d],
         answer'[c] # NoAnswer => TruthfulAnswer(c, answer[c])',
         outcome'[c] = "ok" => Truthful(c, result[c])'
  PROVE  IInv'
<1>1. LossExplained'
  BY LossKept
<1>2. ASSUME NEW d \in Calls, answer'[d] # NoAnswer
      PROVE  TruthfulAnswer(d, answer[d])'
  <2>1. CASE d = c
    BY <1>2, <2>1
  <2>2. CASE d # c
    <3>1. PICK b : b = answer[d]
      OBVIOUS
    <3>2. answer'[d] = b /\ b # NoAnswer
      BY <1>2, <2>2, <3>1
    <3>3. op[d] # NoOperation /\ sent'[d] = sent[d] /\ removed'[d] = removed[d]
      BY <2>2, <3>1, <3>2 DEF IInv, Progress
    <3>4. TruthfulAnswer(d, b)
      BY <3>1, <3>2 DEF IInv, AnswersTrue
    <3>5. TruthfulAnswer(d, b)'
      BY <3>3, <3>4, TruthfulAnswerKept
    <3> QED
      BY <3>2, <3>5
  <2> QED
    BY <2>1, <2>2
<1>3. ASSUME NEW d \in Calls, outcome'[d] = "ok"
      PROVE  Truthful(d, result[d])'
  <2>1. CASE d = c
    BY <1>3, <2>1
  <2>2. CASE d # c
    <3>1. PICK r : r = result[d]
      OBVIOUS
    <3>2. outcome[d] = "ok" /\ sent'[d] = sent[d] /\ removed'[d] = removed[d]
      BY <1>3, <2>2
    <3>3. op[d] # NoOperation /\ result[d] # Pending
      BY <3>2 DEF IInv, Progress
    <3>4. result'[d] = r
      BY <3>1, <3>3 DEF Onward
    <3>5. Truthful(d, r)
      BY <3>1, <3>2 DEF IInv, ResultsTrue
    <3>6. Truthful(d, r)'
      BY <3>2, <3>3, <3>5, TruthKept
    <3> QED
      BY <3>4, <3>6
  <2> QED
    BY <2>1, <2>2
<1> QED
  BY <1>1, <1>2, <1>3 DEF IInv, AnswersTrue, ResultsTrue

LEMMA LearnedFiles == IInv => Learned \subseteq Files
<1> SUFFICES ASSUME IInv, NEW c \in Calls, result[c].kind = "cid"
             PROVE  result[c].cid \in Files
  BY DEF Learned
<1>1. outcome[c] = "ok" /\ op[c] \in Operations(Files)
  BY Results DEF IInv, Types, AbsTypeOK, Outcomes, Progress
<1>2. Truthful(c, result[c])
  BY <1>1 DEF IInv, ResultsTrue
<1>3. \/ \E f \in created[c] : result[c] = Cid(f)
      \/ /\ IsCalculation(op[c])
         /\ \E n \in 0..MaxRetries : result[c] = Cid(FileOf(c, n))
  <2>1. IsUpload(op[c]) \/ IsCalculation(op[c]) \/ IsRead(op[c]) \/ IsDelete(op[c])
    BY <1>1, OperationShape DEF IsUpload, IsCalculation, IsRead, IsDelete
  <2>2. ~IsRead(op[c])
    BY <1>2, Results DEF Truthful, NothingShown
  <2>3. ~IsDelete(op[c])
    BY <1>2, Results DEF Truthful
  <2> QED
    BY <1>2, <2>1, <2>2, <2>3, Results DEF Truthful
<1> QED
  BY <1>3, FileShape, Results DEF IInv, Types

(***************************************************************************)
(* The steps that begin a call: it has no history yet.                     *)
(***************************************************************************)
LEMMA BeginFrame ==
  ASSUME IInv, NEW c \in Calls, NEW o \in Operations(Learned),
         outcome[c] = "idle",
         outcome' = [outcome EXCEPT ![c] = "active"] \/
           outcome' = [outcome EXCEPT ![c] = "refused"],
         op' = [op EXCEPT ![c] = o],
         before' = [before EXCEPT ![c] = Returned],
         payload' = [payload EXCEPT ![c] = payload'[c]],
         result' = [result EXCEPT ![c] = result'[c]],
         UNCHANGED <<sent, stored, created, removed>>
  PROVE  /\ o \in Operations(Files) /\ o # NoOperation
         /\ op[c] = NoOperation /\ created[c] = {} /\ removed[c] = {}
         /\ \A d \in Calls : c \notin before[d]
         /\ Onward /\ FilesMoveOn /\ HistoryKept' /\ before' \in [Calls -> SUBSET Calls]
<1>1. o \in Operations(Files) /\ o # NoOperation
  BY LearnedFiles, OperationsGrow, NoOperationApart
<1>2. op[c] = NoOperation /\ result[c] = Pending
  BY DEF IInv, Progress
<1>3. created[c] = {} /\ removed[c] = {}
  BY <1>2, NoOperationDoesNothing DEF IInv, FilesKept, Types
<1>4. \A d \in Calls : c \notin before[d]
  BY <1>2 DEF IInv, HistoryKept
<1>5. Onward
  BY <1>2 DEF IInv, Types, AbsTypeOK, Onward
<1>6. FilesMoveOn
  BY DEF FilesMoveOn
<1>7. HistoryKept'
  <2> SUFFICES ASSUME NEW w \in Calls, NEW a \in before'[w]
               PROVE  op'[w] # NoOperation /\ result'[a] # Pending
    BY DEF HistoryKept
  <2>1. CASE w = c
    <3>1. a \in Calls /\ result[a] # Pending
      BY <2>1 DEF IInv, Types, Returned
    <3> QED
      BY <1>1, <1>2, <2>1, <3>1 DEF IInv, Types
  <2>2. CASE w # c
    <3>1. a \in before[w]
      BY <2>2 DEF IInv, Types
    <3>2. a \in Calls /\ a # c
      BY <1>4, <3>1 DEF IInv, Types
    <3> QED
      BY <2>2, <3>1, <3>2 DEF IInv, Types, HistoryKept
  <2> QED
    BY <2>1, <2>2
<1> QED
  BY <1>1, <1>2, <1>3, <1>4, <1>5, <1>6, <1>7 DEF IInv, Types, Returned

\* A reader that was drained was lent to another call, which had it before.
LEMMA ReaderTaken ==
  ASSUME IInv, NEW c \in Calls, NEW o \in Operations(Learned),
         op[c] = NoOperation, op' = [op EXCEPT ![c] = o],
         before' = [before EXCEPT ![c] = Returned],
         UsesReader(o), o.content \in drained
  PROVE  ReaderLent(c)'
<1>1. PICK a \in Calls : UsesReader(op[a]) /\ op[a].content = o.content
  BY DEF IInv, ReadersKept
<1>2. a # c
  BY <1>1, NoOperationDoesNothing
<1>3. c \notin before[a]
  BY DEF IInv, HistoryKept, Progress
<1>4. /\ op'[a] = op[a] /\ op'[c] = o /\ before'[a] = before[a]
  BY <1>2 DEF IInv, Types
<1> QED
  BY <1>1, <1>2, <1>3, <1>4 DEF ReaderLent

LEMMA ReadersOfOthers ==
  ASSUME IInv, Onward, NEW d \in Calls, ReaderLent(d)
  PROVE  ReaderLent(d)'
<1>1. PICK a \in Calls \ {d} :
        /\ UsesReader(op[a]) /\ op[a].content = op[d].content
        /\ d \notin before[a]
  BY DEF ReaderLent
<1>2. UsesReader(op[d]) /\ op[d] # NoOperation /\ op[a] # NoOperation
  BY <1>1, NoOperationDoesNothing DEF ReaderLent
<1>3. op'[d] = op[d] /\ op'[a] = op[a] /\ before'[a] = before[a]
  BY <1>2 DEF Onward
<1> QED
  BY <1>1, <1>2, <1>3 DEF ReaderLent

LEMMA PayloadRead ==
  ASSUME IInv, NEW c \in Calls, NEW o \in Operations(Learned),
         o \in Operations(Files), ReadPayload(c, o),
         IsUpload(o) \/ IsCalculation(o)
  PROVE  /\ payload' = [payload EXCEPT ![c] = payload'[c]]
         /\ payload' \in [Calls -> Contents \cup {Empty}]
         /\ payload'[c] = o.content \/ (UsesReader(o) /\ o.content \in drained)
         /\ drained \subseteq drained' /\ drained' \subseteq Contents
         /\ \A x \in drained' \ drained : UsesReader(o) /\ x = o.content
<1>1. o.content \in Contents
  BY OperationShape
<1> QED
  BY <1>1 DEF IInv, Types, ReadPayload

LEMMA BeginStep ==
  ASSUME IInv, NEW c \in Calls, NEW o \in Operations(Learned),
         NEW out \in {"active", "refused"},
         outcome[c] = "idle", outcome' = [outcome EXCEPT ![c] = out],
         limit' \in [Calls -> {0, MaxRetries}],
         op' = [op EXCEPT ![c] = o],
         before' = [before EXCEPT ![c] = Returned],
         result' = [result EXCEPT ![c] =
                      IF out = "active" THEN Pending ELSE Error],
         \/ (IsUpload(o) \/ IsCalculation(o)) /\ ReadPayload(c, o)
         \/ /\ UNCHANGED <<payload, drained>>
            /\ out = "active" => ~IsUpload(o) /\ ~IsCalculation(o),
         UNCHANGED <<sent, effects, answer, stored, created, removed>>
  PROVE  IInv'
<1>1. result[c] = Pending /\ answer[c] = NoAnswer
  BY DEF IInv, Progress
<1>2. o \in Operations(Files)
  BY LearnedFiles, OperationsGrow
<1>3. /\ payload' = [payload EXCEPT ![c] = payload'[c]]
      /\ payload' \in [Calls -> Contents \cup {Empty}]
      /\ drained \subseteq drained' /\ drained' \subseteq Contents
      /\ \A x \in drained' \ drained : UsesReader(o) /\ x = o.content
      /\ (IsUpload(o) \/ IsCalculation(o)) /\ out = "active" =>
           payload'[c] = o.content \/ (UsesReader(o) /\ o.content \in drained)
  <2>1. CASE (IsUpload(o) \/ IsCalculation(o)) /\ ReadPayload(c, o)
    BY <1>2, <2>1, PayloadRead
  <2>2. CASE /\ UNCHANGED <<payload, drained>>
             /\ out = "active" => ~IsUpload(o) /\ ~IsCalculation(o)
    BY <2>2 DEF IInv, Types
  <2> QED
    BY <2>1, <2>2
<1>4. /\ o # NoOperation /\ op[c] = NoOperation
      /\ created[c] = {} /\ removed[c] = {}
      /\ Onward /\ FilesMoveOn /\ HistoryKept'
      /\ before' \in [Calls -> SUBSET Calls]
  <2>1. result' = [result EXCEPT ![c] = result'[c]]
    BY DEF IInv, Types
  <2> QED
    BY <1>3, <2>1, BeginFrame
<1>5. /\ op'[c] = o /\ \A d \in Calls \ {c} : op'[d] = op[d]
      /\ \A d \in Calls \ {c} : outcome'[d] = outcome[d] /\ result'[d] = result[d]
      /\ outcome'[c] = out
      /\ result'[c] = IF out = "active" THEN Pending ELSE Error
  BY DEF IInv, Types, AbsTypeOK
<1>6. Types'
  BY <1>2, <1>3, <1>4 DEF IInv, Types, AbsTypeOK, Outcomes
<1>7. Progress'
  <2>1. ~LastTookEffect(c)' /\ sent[c] = 0
    BY <1>4, MaxRetriesAssumption
    DEF IInv, Types, AbsTypeOK, Progress, LastTookEffect
  <2>2. \A d \in Calls : LastTookEffect(d)' = LastTookEffect(d)
    BY DEF LastTookEffect
  <2>3. Pending # Error
    BY Results
  <2> QED
    BY <1>1, <1>4, <1>5, <2>1, <2>2, <2>3 DEF IInv, Progress
<1>8. ReadersKept'
  <2>1. ASSUME NEW x \in drained'
        PROVE  \E a \in Calls : UsesReader(op'[a]) /\ op'[a].content = x
    <3>1. CASE x \in drained
      <4>1. PICK a \in Calls : UsesReader(op[a]) /\ op[a].content = x
        BY <3>1 DEF IInv, ReadersKept
      <4> QED
        BY <1>4, <1>5, <4>1, NoOperationDoesNothing
    <3>2. CASE x \notin drained
      BY <1>3, <1>5, <2>1, <3>2
    <3> QED
      BY <3>1, <3>2
  <2>2. ASSUME NEW d \in Calls, IsUpload(op'[d]) \/ IsCalculation(op'[d]),
               outcome'[d] # "refused"
        PROVE  payload'[d] = op'[d].content \/ ReaderLent(d)'
    <3>1. CASE d = c
      BY <1>3, <1>4, <1>5, <2>2, <3>1, ReaderTaken
    <3>2. CASE d # c
      <4>1. payload'[d] = payload[d]
        BY <1>3, <3>2 DEF IInv, Types
      <4> QED
        BY <1>4, <1>5, <2>2, <3>2, <4>1, ReadersOfOthers DEF IInv, ReadersKept
    <3> QED
      BY <3>1, <3>2
  <2> QED
    BY <2>1, <2>2 DEF ReadersKept
<1>9. FilesKept'
  <2>1. ASSUME NEW d \in Calls, d # c, NEW n
        PROVE  FileOf(d, n)' = FileOf(d, n)
    BY <1>3, <1>5, <2>1 DEF IInv, Types, FileOf, ContentSent
  <2>2. ASSUME NEW u \in Calls, NEW f \in created'[u]
        PROVE  IsUpload(op'[u]) /\ \E n \in effects'[u] : f = FileOf(u, n)'
    <3>1. u # c /\ f \in created[u]
      BY <1>4, <2>2
    <3> QED
      BY <1>5, <2>1, <3>1 DEF IInv, FilesKept
  <2>3. ASSUME NEW d \in Calls, NEW f \in removed'[d]
        PROVE  IsDelete(op'[d]) /\ f \in op'[d].cids /\ effects'[d] # {}
    BY <1>4, <1>5, <2>3 DEF IInv, FilesKept
  <2> QED
    BY <2>2, <2>3 DEF IInv, FilesKept
<1> QED
  BY <1>1, <1>4, <1>5, <1>6, <1>7, <1>8, <1>9, FrameStep

LEMMA CallStep ==
  ASSUME IInv, NEW c \in Calls, NEW o \in Operations(Learned), Call(c, o)
  PROVE  IInv'
<1>1. /\ outcome[c] = "idle" /\ outcome' = [outcome EXCEPT ![c] = "active"]
      /\ limit' \in [Calls -> {0, MaxRetries}]
      /\ op' = [op EXCEPT ![c] = o]
      /\ before' = [before EXCEPT ![c] = Returned]
      /\ UNCHANGED <<sent, effects, answer, result, stored, created, removed>>
      /\ \/ (IsUpload(o) \/ IsCalculation(o)) /\ ReadPayload(c, o)
         \/ /\ UNCHANGED <<payload, drained>>
            /\ ~IsUpload(o) /\ ~IsCalculation(o)
  BY DEF Call, Start, IInv, Types, AbsTypeOK
<1>2. result' = [result EXCEPT ![c] = Pending]
  BY <1>1 DEF IInv, Progress, Types
<1> QED
  BY <1>1, <1>2, BeginStep

LEMMA RefuseStep ==
  ASSUME IInv, NEW c \in Calls, NEW o \in Operations(Learned),
         RefuseCall(c, o)
  PROVE  IInv'
<1>1. /\ outcome[c] = "idle" /\ outcome' = [outcome EXCEPT ![c] = "refused"]
      /\ limit' \in [Calls -> {0, MaxRetries}]
      /\ op' = [op EXCEPT ![c] = o]
      /\ before' = [before EXCEPT ![c] = Returned]
      /\ result' = [result EXCEPT ![c] = Error]
      /\ UNCHANGED <<sent, effects, answer, stored, created, removed>>
      /\ \/ (IsUpload(o) \/ IsCalculation(o)) /\ ReadPayload(c, o)
         \/ UNCHANGED <<payload, drained>>
  BY Sorts DEF RefuseCall, Refuse, IInv, Types, AbsTypeOK
<1> QED
  BY <1>1, BeginStep

(***************************************************************************)
(* The steps of a call that has begun: its operation and what its request  *)
(* carries stay as they are.                                               *)
(***************************************************************************)
LEMMA ActiveFrame ==
  ASSUME IInv, NEW c \in Calls, op[c] # NoOperation,
         UNCHANGED <<op, payload, drained, before>>,
         \A d \in Calls \ {c} : outcome'[d] = outcome[d] /\ sent'[d] = sent[d]
                               /\ result'[d] = result[d],
         outcome[c] # "refused", outcome'[c] # "refused",
         result[c] # Pending => result'[c] = result[c] /\ sent'[c] = sent[c]
  PROVE  /\ HistoryKept' /\ ReadersKept'
         /\ \A d \in Calls : \A n : FileOf(d, n)' = FileOf(d, n)
         /\ (\A d \in Calls : /\ created[d] \subseteq created'[d]
                              /\ removed[d] \subseteq removed'[d]) => Onward
<1>1. HistoryKept'
  <2> SUFFICES ASSUME NEW w \in Calls, NEW a \in before[w]
               PROVE  op[w] # NoOperation /\ result'[a] # Pending
    BY DEF HistoryKept
  <2>1. a \in Calls /\ op[w] # NoOperation /\ result[a] # Pending
    BY DEF IInv, Types, HistoryKept
  <2> QED
    BY <2>1
<1>2. \A d \in Calls : ReaderLent(d)' = ReaderLent(d)
  BY DEF ReaderLent
<1>3. ReadersKept'
  <2>1. \A d \in Calls : op[d] # NoOperation /\ outcome'[d] # "refused" =>
          outcome[d] # "refused"
    OBVIOUS
  <2> QED
    BY <1>2, <2>1, NoOperationDoesNothing DEF IInv, ReadersKept
<1>4. \A d \in Calls : \A n : FileOf(d, n)' = FileOf(d, n)
  BY DEF FileOf, ContentSent
<1>5. (\A d \in Calls : /\ created[d] \subseteq created'[d]
                        /\ removed[d] \subseteq removed'[d]) => Onward
  BY DEF Onward
<1> QED
  BY <1>1, <1>3, <1>4, <1>5

LEMMA SendStep ==
  ASSUME IInv, NEW c \in Calls, SendRequest(c)
  PROVE  IInv'
<1>1. /\ outcome[c] = "active" /\ sent[c] <= limit[c]
      /\ sent' = [sent EXCEPT ![c] = @ + 1]
      /\ answer' = [answer EXCEPT ![c] = NoAnswer]
      /\ UNCHANGED <<outcome, limit, effects, op, payload, drained, result,
                     stored, created, removed, before>>
  BY DEF SendRequest, Send, histories
<1>2. /\ sent[c] \in Nat /\ sent'[c] = sent[c] + 1
      /\ \A d \in Calls \ {c} : sent'[d] = sent[d]
      /\ answer'[c] = NoAnswer
      /\ \A d \in Calls \ {c} : answer'[d] = answer[d]
  BY <1>1, MaxRetriesAssumption DEF IInv, Types, AbsTypeOK
<1>3. op[c] # NoOperation /\ result[c] = Pending
  BY <1>1 DEF IInv, Progress
<1>4. Types'
  <2>1. limit[c] \in 0..MaxRetries
    BY MaxRetriesAssumption DEF IInv, Types, AbsTypeOK
  <2>2. sent[c] + 1 \in 0..(MaxRetries + 1)
    BY <1>1, <1>2, <2>1, MaxRetriesAssumption
  <2>3. sent' \in [Calls -> 0..(MaxRetries + 1)]
    BY <1>1, <2>2 DEF IInv, Types, AbsTypeOK
  <2> QED
    BY <1>1, <2>3 DEF IInv, Types, AbsTypeOK
<1>5. Progress'
  <2>1. ~LastTookEffect(c)'
    BY <1>1, <1>2, MaxRetriesAssumption
    DEF IInv, Types, AbsTypeOK, Progress, LastTookEffect
  <2>2. \A n \in effects[c] : n \in Nat /\ n < sent'[c]
    BY <1>2, MaxRetriesAssumption DEF IInv, Types, AbsTypeOK, Progress
  <2>3. \A d \in Calls \ {c} : LastTookEffect(d)' = LastTookEffect(d)
    BY <1>1, <1>2 DEF LastTookEffect
  <2> QED
    BY <1>1, <1>2, <2>1, <2>2, <2>3 DEF IInv, Progress
<1>6. HistoryKept' /\ ReadersKept' /\ Onward
  BY <1>1, <1>2, <1>3, ActiveFrame
<1>7. \A d \in Calls : \A n : FileOf(d, n)' = FileOf(d, n)
  BY <1>1, <1>2, <1>3, ActiveFrame
<1>8. FilesKept' /\ FilesMoveOn
  BY <1>1, <1>7 DEF IInv, FilesKept, FilesMoveOn
<1> QED
  BY <1>1, <1>2, <1>4, <1>5, <1>6, <1>8, FrameStep

LEMMA ReturnStep ==
  ASSUME IInv, NEW c \in Calls, NEW r, Return(c, r), r # Pending,
         (Succeed(c) /\ Truthful(c, r)) \/ (Fail(c) /\ r = Error)
  PROVE  IInv'
<1>1. /\ outcome[c] = "active"
      /\ result' = [result EXCEPT ![c] = r]
      /\ answer' = [answer EXCEPT ![c] = NoAnswer]
      /\ UNCHANGED <<limit, sent, effects, op, payload, drained, stored,
                     created, removed, before>>
  BY DEF Return, Succeed, Fail, histories
<1>2. \/ /\ outcome' = [outcome EXCEPT ![c] = "ok"]
         /\ LastTookEffect(c) /\ Truthful(c, r)
      \/ outcome' = [outcome EXCEPT ![c] = "failed"] /\ r = Error
  BY DEF Succeed, Fail
<1>3. /\ result'[c] = r /\ answer'[c] = NoAnswer
      /\ \A d \in Calls \ {c} : /\ outcome'[d] = outcome[d]
                               /\ result'[d] = result[d]
                               /\ answer'[d] = answer[d]
      /\ \/ outcome'[c] = "ok" /\ LastTookEffect(c) /\ Truthful(c, r)
         \/ outcome'[c] = "failed" /\ r = Error
  BY <1>1, <1>2 DEF IInv, Types, AbsTypeOK
<1>4. op[c] # NoOperation /\ result[c] = Pending
  BY <1>1 DEF IInv, Progress
<1>5. Types'
  BY <1>1, <1>2 DEF IInv, Types, AbsTypeOK, Outcomes
<1>6. Progress'
  <2>1. \A d \in Calls : LastTookEffect(d)' = LastTookEffect(d)
    BY <1>1 DEF LastTookEffect
  <2> QED
    BY <1>1, <1>3, <1>4, <2>1 DEF IInv, Progress
<1>7. HistoryKept' /\ ReadersKept' /\ Onward
  BY <1>1, <1>3, <1>4, ActiveFrame
<1>8. \A d \in Calls : \A n : FileOf(d, n)' = FileOf(d, n)
  BY <1>1, <1>3, <1>4, ActiveFrame
<1>9. FilesKept' /\ FilesMoveOn
  BY <1>1, <1>8 DEF IInv, FilesKept, FilesMoveOn
<1>10. outcome'[c] = "ok" => Truthful(c, result[c])'
  <2>1. Truthful(c, r) => Truthful(c, r)'
    BY <1>1, <1>4, <1>7, <1>9, TruthKept
  <2> QED
    BY <1>3, <2>1
<1> QED
  BY <1>1, <1>3, <1>5, <1>6, <1>7, <1>9, <1>10, FrameStep

LEMMA DecodedStep ==
  ASSUME IInv, NEW c \in Calls, ReturnDecoded(c)
  PROVE  IInv'
<1>1. PICK r : r = Decoded(c, answer[c])
  OBVIOUS
<1>2. /\ outcome[c] = "active" /\ LastTookEffect(c) /\ Succeed(c)
      /\ Return(c, r)
  BY <1>1 DEF ReturnDecoded, Succeed
<1>3. Truthful(c, r)
  BY <1>1, <1>2 DEF IInv, Progress, AnswersTrue, TruthfulAnswer
<1>4. op[c] \in Operations(Files)
  BY <1>2 DEF IInv, Types, Progress
<1>5. r # Pending
  <2>1. IsUpload(op[c]) \/ IsCalculation(op[c]) \/ IsRead(op[c]) \/ IsDelete(op[c])
    BY <1>4, OperationShape DEF IsUpload, IsCalculation, IsRead, IsDelete
  <2> QED
    BY <1>3, <2>1, Results DEF Truthful, NothingShown
<1> QED
  BY <1>2, <1>3, <1>5, ReturnStep

LEMMA MisfitStep ==
  ASSUME IInv, NEW c \in Calls, ReturnMisfit(c)
  PROVE  IInv'
<1>1. /\ outcome[c] = "active" /\ LastTookEffect(c) /\ Succeed(c)
      /\ Return(c, Misfit)
      /\ op[c].kind = "get_yaml" /\ answer[c].kind = "file"
  BY DEF ReturnMisfit, Succeed
<1>2. Truthful(c, Misfit)
  BY <1>1, Sorts DEF Truthful
<1> QED
  BY <1>1, <1>2, Results, ReturnStep

LEMMA ErrorStep ==
  ASSUME IInv, NEW c \in Calls, ReturnError(c)
  PROVE  IInv'
  BY Results, ReturnStep DEF ReturnError

(***************************************************************************)
(* The steps of the manager.  A call of which a repetition takes effect is *)
(* not over for anyone.                                                    *)
(***************************************************************************)
LEMMA InEffect ==
  ASSUME IInv, NEW c \in Calls, NEW n \in 0..MaxRetries, TakeEffect(c, n)
  PROVE  /\ n < sent[c] /\ n \notin effects[c] /\ sent[c] \in Nat
         /\ op[c] \in Operations(Files)
         /\ outcome[c] \notin {"idle", "refused"}
         /\ outcome[c] = "ok" => sent[c] # 1
         /\ sent[c] = 1 => removed[c] = {}
         /\ \A d \in Calls : ~OverFor(c, d)
<1>1. /\ n < sent[c] /\ n \notin effects[c]
      /\ sent[c] \in Nat /\ sent[c] > 0
      /\ \A m \in effects[c] : m \in Nat /\ m < sent[c]
  BY MaxRetriesAssumption DEF TakeEffect, IInv, Types, AbsTypeOK, Progress
<1>2. op[c] \in Operations(Files) /\ outcome[c] \notin {"idle", "refused"}
  BY <1>1 DEF IInv, Progress, Types
<1>3. sent[c] = 1 => effects[c] = {}
  BY <1>1
<1>4. outcome[c] = "ok" => sent[c] # 1
  BY <1>3 DEF IInv, Progress, LastTookEffect
<1>5. sent[c] = 1 => removed[c] = {}
  BY <1>3 DEF IInv, FilesKept, Types
<1>6. ASSUME NEW d \in Calls, OverFor(c, d) PROVE FALSE
  <2>1. /\ c \in before[d] /\ sent[c] = 1
        /\ result[c].kind \in {"cid", "report"}
    BY <1>2, <1>6 DEF OverFor
  <2>2. result[c] # Pending
    BY <2>1 DEF IInv, HistoryKept
  <2>3. outcome[c] = "ok"
    BY <1>2, <2>1, <2>2, Results DEF IInv, Progress, Types, AbsTypeOK, Outcomes
  <2> QED
    BY <1>4, <2>1, <2>3
<1> QED
  BY <1>1, <1>2, <1>4, <1>5, <1>6

LEMMA EffectFrame ==
  ASSUME IInv, NEW c \in Calls, NEW n \in 0..MaxRetries, TakeEffect(c, n),
         UNCHANGED <<op, payload, drained, result, before>>,
         answer' = [d \in Calls |-> answer'[d]],
         created' = [created EXCEPT ![c] = created'[c]],
         removed' = [removed EXCEPT ![c] = removed'[c]],
         created[c] \subseteq created'[c], created'[c] \subseteq Files,
         removed[c] \subseteq removed'[c], removed'[c] \subseteq Files,
         stored' \subseteq stored \cup created'[c],
         stored \subseteq stored' \cup removed'[c],
         \A f \in created'[c] \ created[c] :
           IsUpload(op[c]) /\ f = FileOf(c, n) /\ f \in stored',
         \A f \in removed'[c] \ removed[c] :
           IsDelete(op[c]) /\ f \in op[c].cids
  PROVE  /\ Types' /\ HistoryKept' /\ ReadersKept' /\ FilesKept'
         /\ Onward /\ FilesMoveOn
         /\ effects'[c] = effects[c] \cup {n}
         /\ \A d \in Calls \ {c} :
              removed'[d] = removed[d] /\ effects'[d] = effects[d]
<1>1. /\ UNCHANGED <<outcome, limit, sent>>
      /\ effects' = [effects EXCEPT ![c] = @ \cup {n}]
  BY DEF TakeEffect
<1>2. /\ op[c] # NoOperation /\ outcome[c] # "refused"
      /\ \A d \in Calls : ~OverFor(c, d)
  BY InEffect, NoOperationApart
<1>3. /\ effects'[c] = effects[c] \cup {n}
      /\ \A d \in Calls \ {c} : /\ created'[d] = created[d]
                               /\ removed'[d] = removed[d]
                               /\ effects'[d] = effects[d]
  BY <1>1 DEF IInv, Types, AbsTypeOK
<1>4. Types'
  <2>1. AbsTypeOK'
    BY <1>1 DEF IInv, Types, AbsTypeOK
  <2>2. stored' \subseteq Files
    BY DEF IInv, Types
  <2>3. created' \in [Calls -> SUBSET Files] /\ removed' \in [Calls -> SUBSET Files]
    BY DEF IInv, Types
  <2> QED
    BY <2>1, <2>2, <2>3 DEF IInv, Types
<1>5. HistoryKept' /\ ReadersKept'
  BY <1>1, <1>2, ActiveFrame
<1>6. \A d \in Calls : \A m : FileOf(d, m)' = FileOf(d, m)
  BY <1>1, <1>2, ActiveFrame
<1>7. Onward
  <2>1. \A d \in Calls : /\ created[d] \subseteq created'[d]
                         /\ removed[d] \subseteq removed'[d]
    BY <1>3
  <2> QED
    BY <1>1, <1>2, <2>1, ActiveFrame
<1>8. FilesKept'
  <2>1. ASSUME NEW f \in stored' PROVE \E u \in Calls : f \in created'[u]
    <3>1. CASE f \in stored
      BY <1>7, <3>1 DEF IInv, FilesKept, Onward
    <3>2. CASE f \notin stored
      BY <2>1, <3>2
    <3> QED
      BY <3>1, <3>2
  <2>2. ASSUME NEW u \in Calls, NEW f \in created'[u]
        PROVE  IsUpload(op'[u]) /\ \E m \in effects'[u] : f = FileOf(u, m)'
    <3>1. CASE f \in created[u]
      BY <1>3, <1>6, <3>1 DEF IInv, FilesKept
    <3>2. CASE f \notin created[u]
      BY <1>3, <1>6, <2>2, <3>2
    <3> QED
      BY <3>1, <3>2
  <2>3. ASSUME NEW d \in Calls, NEW f \in removed'[d]
        PROVE  IsDelete(op'[d]) /\ f \in op'[d].cids /\ effects'[d] # {}
    <3>1. CASE f \in removed[d]
      BY <1>3, <3>1 DEF IInv, FilesKept
    <3>2. CASE f \notin removed[d]
      BY <1>3, <2>3, <3>2
    <3> QED
      BY <3>1, <3>2
  <2> QED
    BY <2>1, <2>2, <2>3 DEF FilesKept
<1>9. FilesMoveOn
  <2>1. \A d \in Calls : ~OverFor(c, d)'
    BY <1>1, <1>2 DEF OverFor
  <2>2. ASSUME NEW u \in Calls, NEW f \in created'[u] \ created[u]
        PROVE  f \in stored'
    BY <1>3, <2>2
  <2> QED
    BY <2>1, <2>2 DEF FilesMoveOn
<1> QED
  BY <1>3, <1>4, <1>5, <1>7, <1>8, <1>9

LEMMA NothingMoved ==
  ASSUME IInv, NEW c \in Calls, NEW n \in 0..MaxRetries, TakeEffect(c, n),
         UNCHANGED <<op, payload, drained, result, stored, created, removed,
                     before>>,
         answer' = [d \in Calls |-> answer'[d]]
  PROVE  /\ Types' /\ HistoryKept' /\ ReadersKept' /\ FilesKept'
         /\ Onward /\ FilesMoveOn
         /\ effects'[c] = effects[c] \cup {n}
         /\ \A d \in Calls \ {c} :
              removed'[d] = removed[d] /\ effects'[d] = effects[d]
<1>1. /\ created' = [created EXCEPT ![c] = created'[c]]
      /\ removed' = [removed EXCEPT ![c] = removed'[c]]
      /\ created[c] \subseteq Files /\ removed[c] \subseteq Files
  BY DEF IInv, Types
<1> QED
  BY <1>1, EffectFrame

LEMMA AnswerGiven ==
  ASSUME IInv, NEW c \in Calls, NEW n, NEW body, Answers(c, n, body)
  PROVE  /\ answer' = [d \in Calls |-> answer'[d]]
         /\ \A d \in Calls \ {c} : answer'[d] = answer[d]
         /\ \/ /\ outcome[c] = "active" /\ n + 1 = sent[c]
               /\ answer'[c] \in Received(body)
            \/ /\ outcome[c] # "active" \/ n + 1 # sent[c]
               /\ answer'[c] = answer[c]
  BY DEF IInv, Types, Answers

\* An answer that reaches its reader has to be true, blank or not; an earlier
\* one stays true, as the call was repeated since.
LEMMA EffectStep ==
  ASSUME IInv, NEW c \in Calls, NEW n \in 0..MaxRetries, TakeEffect(c, n),
         UNCHANGED <<op, payload, drained, result, before>>,
         NEW body, body # NoAnswer, Answers(c, n, body),
         Types', HistoryKept', ReadersKept', FilesKept', Onward, FilesMoveOn,
         effects'[c] = effects[c] \cup {n},
         \A d \in Calls \ {c} : removed'[d] = removed[d] /\ effects'[d] = effects[d],
         outcome[c] = "active" =>
           \A b \in Received(body) : TruthfulAnswer(c, b)'
  PROVE  IInv'
<1>1. UNCHANGED <<outcome, limit, sent>>
  BY DEF TakeEffect
<1>2. /\ n < sent[c] /\ n \notin effects[c] /\ sent[c] \in Nat
      /\ op[c] # NoOperation
      /\ outcome[c] = "ok" => sent[c] # 1
  BY InEffect, NoOperationApart
<1>3. /\ \A d \in Calls \ {c} : answer'[d] = answer[d]
      /\ \/ /\ outcome[c] = "active" /\ n + 1 = sent[c]
            /\ answer'[c] \in Received(body)
         \/ /\ outcome[c] # "active" \/ n + 1 # sent[c]
            /\ answer'[c] = answer[c]
  BY AnswerGiven
<1>4. \A b \in Received(body) : b # NoAnswer
  BY Bodies DEF Received
<1>5. Progress'
  <2>1. \A d \in Calls \ {c} : LastTookEffect(d)' = LastTookEffect(d)
    BY <1>1 DEF LastTookEffect
  <2>2. LastTookEffect(c)' <=> LastTookEffect(c) \/ n + 1 = sent[c]
    BY <1>1 DEF LastTookEffect
  <2> QED
    BY <1>1, <1>2, <1>3, <1>4, <2>1, <2>2 DEF IInv, Progress
<1>6. outcome'[c] = "ok" => Truthful(c, result[c])'
  <2> SUFFICES ASSUME outcome[c] = "ok" PROVE Truthful(c, result[c])'
    BY <1>1
  <2>1. PICK r : r = result[c]
    OBVIOUS
  <2>2. Truthful(c, r) /\ sent[c] # 1
    BY <1>2, <2>1 DEF IInv, ResultsTrue
  <2>3. Truthful(c, r)'
    BY <1>1, <1>2, <2>2, TruthKept
  <2> QED
    BY <2>1, <2>3
<1>7. answer'[c] # NoAnswer => TruthfulAnswer(c, answer[c])'
  <2> SUFFICES ASSUME answer'[c] # NoAnswer
               PROVE  TruthfulAnswer(c, answer[c])'
    OBVIOUS
  <2>1. PICK b : b = answer'[c]
    OBVIOUS
  <2>2. CASE outcome[c] = "active" /\ n + 1 = sent[c]
    <3>1. TruthfulAnswer(c, b)'
      BY <1>3, <2>1, <2>2
    <3> QED
      BY <2>1, <3>1
  <2>3. CASE ~(outcome[c] = "active" /\ n + 1 = sent[c])
    <3>1. answer[c] = b /\ b # NoAnswer
      BY <1>3, <2>1, <2>3
    <3>2. outcome[c] = "active"
      BY <3>1 DEF IInv, Progress
    <3>3. sent[c] # 1
      BY <1>2, <2>3, <3>2
    <3>4. TruthfulAnswer(c, b)
      BY <3>1 DEF IInv, AnswersTrue
    <3>5. TruthfulAnswer(c, b)'
      BY <1>1, <1>2, <3>3, <3>4, TruthfulAnswerKept
    <3> QED
      BY <2>1, <3>5
  <2> QED
    BY <2>2, <2>3
<1> QED
  BY <1>1, <1>3, <1>5, <1>6, <1>7, FrameStep

(***************************************************************************)
(* The answers of the manager are true.                                    *)
(***************************************************************************)
LEMMA VagueIsTrue ==
  ASSUME NEW c \in Calls, op'[c] = op[c], ~IsRead(op[c]), NEW b, Vague(b),
         op[c] # NoOperation, IInv,
         IsDelete(op[c]) /\ sent'[c] = 1 => removed'[c] = {} \/ Emptied
  PROVE  TruthfulAnswer(c, b)'
<1>1. PICK r : r = Decoded(c, b)
  OBVIOUS
<1>2. Decoded(c, b)' = r
  BY <1>1, DecodedKept
<1>3. op[c] \in Operations(Files)
  BY DEF IInv, Types
<1>4. ReplyTrue(c, b)'
  BY DEF ReplyTrue
<1>5. CASE IsUpload(op[c]) \/ IsCalculation(op[c])
  <2>1. r = Error
    BY <1>1, <1>5, VagueAnswers
  <2>2. Truthful(c, r)'
    BY <1>5, <2>1, Sorts DEF Truthful
  <2> QED
    BY <1>2, <1>4, <2>2 DEF TruthfulAnswer
<1>6. CASE IsDelete(op[c])
  <2>1. r \in {Error, Report({})}
    BY <1>1, <1>6, VagueAnswers
  <2>2. Reportable(c, {})'
    BY <1>6 DEF Reportable
  <2>3. ~IsUpload(op[c]) /\ ~IsCalculation(op[c])
    BY <1>6, Sorts
  <2>4. Truthful(c, r)'
    BY <1>6, <2>1, <2>2, <2>3 DEF Truthful
  <2> QED
    BY <1>2, <1>4, <2>4 DEF TruthfulAnswer
<1> QED
  BY <1>3, <1>5, <1>6, OperationShape
  DEF IsUpload, IsCalculation, IsRead, IsDelete

\* An evasion tells a read nothing, whether it finds its file or not.
LEMMA EvasionIsTrue ==
  ASSUME NEW c \in Calls, op'[c] = op[c], IsRead(op[c]), NEW b \in Evasions
  PROVE  TruthfulAnswer(c, b)'
<1>1. PICK r : r = Decoded(c, b)
  OBVIOUS
<1>2. Decoded(c, b)' = r
  BY <1>1, DecodedKept
<1>3. r \in NothingShown
  BY <1>1, EvasiveAnswers
<1>4. Truthful(c, r)'
  BY <1>3, Sorts DEF Truthful
<1>5. ReplyTrue(c, b)'
  BY DEF ReplyTrue
<1> QED
  BY <1>2, <1>4, <1>5 DEF TruthfulAnswer

LEMMA RefuseRequestStep ==
  ASSUME IInv, NEW c \in Calls, NEW n \in 0..MaxRetries, RefuseRequest(c, n)
  PROVE  IInv'
<1>1. /\ TakeEffect(c, n)
      /\ UNCHANGED <<op, payload, drained, result, stored, created, removed,
                     before>>
  BY DEF RefuseRequest, histories
<1>2. PICK body \in RefusalBodies : Answers(c, n, body)
  BY DEF RefuseRequest
<1>3. \A b \in Received(body) : Vague(b) /\ b \in Evasions
  BY Bodies DEF Received, Vague, Evasions
<1>4. body # NoAnswer
  BY Bodies
<1>5. op[c] # NoOperation /\ (sent[c] = 1 => removed[c] = {})
  BY <1>1, InEffect, NoOperationApart
<1>6. sent' = sent
  BY <1>1 DEF TakeEffect
<1>7. \A b \in Received(body) : TruthfulAnswer(c, b)'
  BY <1>1, <1>3, <1>5, <1>6, VagueIsTrue, EvasionIsTrue
<1>8. answer' = [d \in Calls |-> answer'[d]]
  BY <1>2, AnswerGiven
<1>9. /\ Types' /\ HistoryKept' /\ ReadersKept' /\ FilesKept'
      /\ Onward /\ FilesMoveOn
      /\ effects'[c] = effects[c] \cup {n}
      /\ \A d \in Calls \ {c} :
           removed'[d] = removed[d] /\ effects'[d] = effects[d]
  BY <1>1, <1>8, NothingMoved
<1> QED
  BY <1>1, <1>2, <1>4, <1>7, <1>9, EffectStep

\* The CID of a file that is stored, or that a calculation describes.
LEMMA CidIsTrue ==
  ASSUME NEW c \in Calls, NEW n \in 0..MaxRetries,
         op'[c] = op[c], payload'[c] = payload[c],
         \/ IsUpload(op[c]) /\ FileOf(c, n) \in created'[c]
         \/ IsCalculation(op[c])
  PROVE  TruthfulAnswer(c, CidBody(FileOf(c, n)))'
<1>1. PICK f : f = FileOf(c, n)
  OBVIOUS
<1>2. FileOf(c, n)' = f
  BY <1>1 DEF FileOf, ContentSent
<1>3. Decoded(c, CidBody(f))' = Cid(f)
  BY DecodedKept, CidAnswers
<1>4. op[c].kind # "get_yaml" /\ ~IsRead(op[c]) /\ ~IsDelete(op[c])
  BY Sorts
<1>5. Truthful(c, Cid(f))'
  BY <1>1, <1>2, <1>4, Sorts DEF Truthful
<1>6. TruthfulAnswer(c, CidBody(f))'
  BY <1>3, <1>4, <1>5 DEF TruthfulAnswer, ReplyTrue
<1> QED
  BY <1>2, <1>6

LEMMA StoreStep ==
  ASSUME IInv, NEW c \in Calls, NEW n \in 0..MaxRetries, StoreFile(c, n)
  PROVE  IInv'
<1> DEFINE f == FileOf(c, n)
<1>1. /\ IsUpload(op[c]) /\ TakeEffect(c, n)
      /\ Answers(c, n, CidBody(f))
      /\ stored' = stored \cup {f}
      /\ created' = [created EXCEPT ![c] = @ \cup {f}]
      /\ UNCHANGED <<op, payload, drained, result, removed, before>>
  BY DEF StoreFile
<1>2. f \in Files
  BY <1>1, FileShape DEF IInv
<1>3. /\ answer' = [d \in Calls |-> answer'[d]]
      /\ op[c] # NoOperation
  BY <1>1, AnswerGiven, NoOperationDoesNothing
<1>4. /\ created' = [created EXCEPT ![c] = created'[c]]
      /\ removed' = [removed EXCEPT ![c] = removed'[c]]
      /\ created'[c] = created[c] \cup {f} /\ created[c] \subseteq Files
      /\ removed'[c] = removed[c] /\ removed[c] \subseteq Files
  BY <1>1 DEF IInv, Types
<1>5. /\ Types' /\ HistoryKept' /\ ReadersKept' /\ FilesKept'
      /\ Onward /\ FilesMoveOn
      /\ effects'[c] = effects[c] \cup {n}
      /\ \A d \in Calls \ {c} :
           removed'[d] = removed[d] /\ effects'[d] = effects[d]
  <2>1. \A g \in created'[c] \ created[c] :
          IsUpload(op[c]) /\ g = FileOf(c, n) /\ g \in stored'
    BY <1>1, <1>4
  <2>2. /\ created[c] \subseteq created'[c] /\ created'[c] \subseteq Files
        /\ stored' \subseteq stored \cup created'[c]
        /\ stored \subseteq stored' \cup removed'[c]
    BY <1>1, <1>2, <1>4
  <2> HIDE DEF f
  <2> QED
    BY <1>1, <1>3, <1>4, <2>1, <2>2, EffectFrame
<1>6. ASSUME NEW b \in Received(CidBody(f)) PROVE TruthfulAnswer(c, b)'
  <2>1. CASE b = CidBody(f)
    <3>1. TruthfulAnswer(c, CidBody(FileOf(c, n)))'
      BY <1>1, <1>4, CidIsTrue
    <3>2. FileOf(c, n)' = f
      BY <1>1 DEF FileOf, ContentSent
    <3> HIDE DEF f
    <3> QED
      BY <2>1, <3>1, <3>2
  <2>2. CASE b = BlankBody
    <3>1. Vague(b) /\ ~IsRead(op[c]) /\ ~IsDelete(op[c])
      BY <1>1, <2>2, Bodies, Sorts DEF Vague
    <3> QED
      BY <1>1, <1>3, <3>1, VagueIsTrue
  <2> QED
    BY <2>1, <2>2 DEF Received
<1>7. CidBody(f) # NoAnswer
  BY Bodies
<1> QED
  BY <1>1, <1>5, <1>6, <1>7, EffectStep

LEMMA CalculationStep ==
  ASSUME IInv, NEW c \in Calls, NEW n \in 0..MaxRetries, AnswerCalculation(c, n)
  PROVE  IInv'
<1> DEFINE f == FileOf(c, n)
<1>1. /\ IsCalculation(op[c]) /\ TakeEffect(c, n)
      /\ Answers(c, n, CidBody(f))
      /\ UNCHANGED <<op, payload, drained, result, stored, created, removed,
                     before>>
  BY DEF AnswerCalculation, histories
<1>3. /\ answer' = [d \in Calls |-> answer'[d]]
      /\ op[c] # NoOperation
  BY <1>1, AnswerGiven, NoOperationDoesNothing
<1>4. /\ Types' /\ HistoryKept' /\ ReadersKept' /\ FilesKept'
      /\ Onward /\ FilesMoveOn
      /\ effects'[c] = effects[c] \cup {n}
      /\ \A d \in Calls \ {c} :
           removed'[d] = removed[d] /\ effects'[d] = effects[d]
  BY <1>1, <1>3, NothingMoved
<1>5. ASSUME NEW b \in Received(CidBody(f)) PROVE TruthfulAnswer(c, b)'
  <2>1. CASE b = CidBody(f)
    <3>1. TruthfulAnswer(c, CidBody(FileOf(c, n)))'
      BY <1>1, CidIsTrue
    <3>2. FileOf(c, n)' = f
      BY <1>1 DEF FileOf, ContentSent
    <3> HIDE DEF f
    <3> QED
      BY <2>1, <3>1, <3>2
  <2>2. CASE b = BlankBody
    <3>1. Vague(b) /\ ~IsRead(op[c]) /\ ~IsDelete(op[c])
      BY <1>1, <2>2, Bodies, Sorts DEF Vague
    <3> QED
      BY <1>1, <1>3, <3>1, VagueIsTrue
  <2> QED
    BY <2>1, <2>2 DEF Received
<1>6. CidBody(f) # NoAnswer
  BY Bodies
<1> QED
  BY <1>1, <1>4, <1>5, <1>6, EffectStep

\* What a delete reports is gone, and all that it removed is reported.
LEMMA RemoveStep ==
  ASSUME IInv, NEW c \in Calls, NEW n \in 0..MaxRetries, RemoveFiles(c, n)
  PROVE  IInv'
<1>1. /\ IsDelete(op[c]) /\ TakeEffect(c, n)
      /\ UNCHANGED <<op, payload, drained, result, created, before>>
  BY DEF RemoveFiles
<1>2. PICK gone \in SUBSET (op[c].cids \cap stored) :
        /\ stored' = stored \ gone
        /\ removed' = [removed EXCEPT ![c] = @ \cup gone]
        /\ \E success \in {gone, op[c].cids \ stored'} :
             Answers(c, n, ReportBody(success))
  BY DEF RemoveFiles
<1>3. PICK success \in {gone, op[c].cids \ stored'} :
        Answers(c, n, ReportBody(success))
  BY <1>2
<1>4. /\ op[c] # NoOperation /\ (sent[c] = 1 => removed[c] = {})
      /\ sent' = sent /\ ~IsUpload(op[c]) /\ ~IsCalculation(op[c])
      /\ ~IsRead(op[c])
  BY <1>1, InEffect, NoOperationApart, Sorts DEF TakeEffect
<1>5. /\ created' = [created EXCEPT ![c] = created'[c]]
      /\ removed' = [removed EXCEPT ![c] = removed'[c]]
      /\ created'[c] = created[c] /\ created[c] \subseteq Files
      /\ removed'[c] = removed[c] \cup gone /\ removed'[c] \subseteq Files
  BY <1>1, <1>2 DEF IInv, Types
<1>6. answer' = [d \in Calls |-> answer'[d]]
  BY <1>3, AnswerGiven
<1>7. /\ Types' /\ HistoryKept' /\ ReadersKept' /\ FilesKept'
      /\ Onward /\ FilesMoveOn
      /\ effects'[c] = effects[c] \cup {n}
      /\ \A d \in Calls \ {c} :
           removed'[d] = removed[d] /\ effects'[d] = effects[d]
  <2>1. /\ created[c] \subseteq created'[c] /\ created'[c] \subseteq Files
        /\ removed[c] \subseteq removed'[c]
        /\ stored' \subseteq stored \cup created'[c]
        /\ stored \subseteq stored' \cup removed'[c]
        /\ \A f \in created'[c] \ created[c] :
             IsUpload(op[c]) /\ f = FileOf(c, n) /\ f \in stored'
        /\ \A f \in removed'[c] \ removed[c] :
             IsDelete(op[c]) /\ f \in op[c].cids
    BY <1>1, <1>2, <1>5
  <2> QED
    BY <1>1, <1>5, <1>6, <2>1, EffectFrame
<1>8. ASSUME NEW b \in Received(ReportBody(success))
      PROVE  TruthfulAnswer(c, b)'
  <2>1. CASE b = ReportBody(success)
    <3>1. success \subseteq op[c].cids /\ success \cap stored' = {}
      BY <1>2
    <3>2. sent[c] = 1 => removed'[c] \subseteq success
      BY <1>2, <1>4, <1>5
    <3>3. Reportable(c, success)'
      BY <1>4, <3>1, <3>2 DEF Reportable
    <3>4. Truthful(c, Report(success))'
      BY <1>1, <1>4, <3>1, <3>3 DEF Truthful
    <3>5. Decoded(c, b)' = Report(success)
      BY <1>1, <2>1, DecodedKept, ReportAnswers
    <3> QED
      BY <1>1, <1>4, <3>4, <3>5 DEF TruthfulAnswer, ReplyTrue
  <2>2. CASE b = BlankBody /\ Emptied
    <3>1. Vague(b)
      BY <2>2, Bodies DEF Vague
    <3> QED
      BY <1>1, <1>4, <2>2, <3>1, VagueIsTrue
  <2> QED
    BY <2>1, <2>2 DEF Received
<1>9. ReportBody(success) # NoAnswer
  BY Bodies
<1> QED
  BY <1>1, <1>3, <1>7, <1>8, <1>9, EffectStep

(***************************************************************************)
(* What a call that returned a CID, a file or a report was, and what a     *)
(* read may find.                                                          *)
(***************************************************************************)
LEMMA ReturnedTrue ==
  ASSUME IInv, NEW c \in Calls, result[c] \notin {Pending, Error}
  PROVE  /\ outcome[c] = "ok" /\ op[c] \in Operations(Files)
         /\ Truthful(c, result[c])
         /\ IsUpload(op[c]) \/ IsCalculation(op[c]) \/ IsRead(op[c])
              \/ IsDelete(op[c])
<1>1. outcome[c] = "ok" /\ op[c] \in Operations(Files)
  BY DEF IInv, Types, AbsTypeOK, Outcomes, Progress
<1> QED
  BY <1>1, OperationShape
  DEF IInv, ResultsTrue, IsUpload, IsCalculation, IsRead, IsDelete

LEMMA ReportedFiles ==
  ASSUME IInv, NEW d \in Calls, result[d].kind = "report"
  PROVE  /\ IsDelete(op[d]) /\ outcome[d] = "ok"
         /\ Reportable(d, result[d].success)
<1>1. /\ outcome[d] = "ok" /\ Truthful(d, result[d])
      /\ IsUpload(op[d]) \/ IsCalculation(op[d]) \/ IsRead(op[d])
           \/ IsDelete(op[d])
  BY ReturnedTrue, Results
<1>2. IsDelete(op[d])
  BY <1>1, Results DEF Truthful, NothingShown
<1> QED
  BY <1>1, <1>2, Results DEF Truthful

\* A file that is found was stored, and not removed for good before.
LEMMA FoundFile ==
  ASSUME IInv, NEW r \in Calls, Found(op[r])
  PROVE  ~NoFileFor(r)
<1>1. op[r].cid \in stored
  BY DEF Found
<1>2. \E u \in Calls : op[r].cid \in created[u]
  BY <1>1 DEF IInv, FilesKept
<1>3. ASSUME NEW d \in before[r], result[d].kind = "report",
             op[r].cid \in result[d].success
      PROVE  \E u \in Calls : op[r].cid \in created[u] /\ ~OverFor(u, d)
  <2>1. d \in Calls
    BY DEF IInv, Types
  <2> QED
    BY <1>1, <1>3, <2>1, ReportedFiles DEF Reportable
<1> QED
  BY <1>2, <1>3 DEF NoFileFor

\* A read finds its file, or a delete has come between.
LEMMA UnfoundIsExcused ==
  ASSUME IInv, NEW r \in Calls, outcome[r] = "active",
         op[r].kind = "get_yaml", ~Found(op[r])
  PROVE  Excused(r)
<1> SUFFICES ASSUME NEW u \in Calls, u \in before[r], Acked(u),
                    result[u].cid = op[r].cid, op[u].kind = "add_yaml"
             PROVE  \E d \in Calls : /\ IsDelete(op[d])
                                     /\ op[r].cid \in op[d].cids
                                     /\ ~OverFor(d, u) /\ r \notin before[d]
  BY DEF Excused
<1>1. outcome[u] = "ok" /\ IsUpload(op[u])
  BY Results DEF Acked, IInv, Progress, Types, AbsTypeOK, Outcomes
<1>2. op[r].cid \in created[u]
  BY <1>1, Results DEF Acked, IInv, ResultsTrue, Truthful
<1>3. PICK n \in effects[u] : op[r].cid = FileOf(u, n)
  BY <1>2 DEF IInv, FilesKept
<1>4. op[r].cid.format = "yaml"
  BY <1>1, <1>3, FileShape DEF IInv, Types, AbsTypeOK
<1>5. op[r].cid \notin stored
  BY <1>4 DEF Found
<1>6. PICK d \in Calls : op[r].cid \in removed[d] /\ ~OverFor(d, u)
  BY <1>2, <1>5 DEF IInv, LossExplained
<1>7. r \notin before[d]
  BY DEF IInv, HistoryKept, Progress
<1> QED
  BY <1>6, <1>7 DEF IInv, FilesKept

LEMMA ReadStep ==
  ASSUME IInv, NEW c \in Calls, NEW n \in 0..MaxRetries, AnswerRead(c, n)
  PROVE  IInv'
<1>1. /\ IsRead(op[c]) /\ TakeEffect(c, n)
      /\ UNCHANGED <<op, payload, drained, result, stored, created, removed,
                     before>>
  BY DEF AnswerRead, histories
<1>2. PICK body :
        /\ Answers(c, n, body)
        /\ \/ Found(op[c]) /\ body = FileBody(op[c].cid)
           \/ /\ ~Found(op[c]) /\ op[c].kind = "get_yaml"
              /\ body = Bare(ErrorText)
  BY DEF AnswerRead
<1>3. body # NoAnswer
  <2>1. Bare(ErrorText).kind = "bare"
    BY DEF Bare
  <2> QED
    BY <1>2, <2>1, Bodies
<1>4. answer' = [d \in Calls |-> answer'[d]]
  BY <1>2, AnswerGiven
<1>5. /\ Types' /\ HistoryKept' /\ ReadersKept' /\ FilesKept'
      /\ Onward /\ FilesMoveOn
      /\ effects'[c] = effects[c] \cup {n}
      /\ \A d \in Calls \ {c} :
           removed'[d] = removed[d] /\ effects'[d] = effects[d]
  BY <1>1, <1>4, NothingMoved
<1>6. /\ ~IsUpload(op[c]) /\ ~IsCalculation(op[c]) /\ ~IsDelete(op[c])
      /\ op[c] # NoOperation
  BY <1>1, Sorts, NoOperationDoesNothing
<1>7. ASSUME outcome[c] = "active", NEW b \in Received(body)
      PROVE  TruthfulAnswer(c, b)'
  <2>1. CASE b = BlankBody /\ Emptied
    BY <1>1, <2>1, EvasionIsTrue DEF Evasions
  <2>2. CASE Found(op[c]) /\ b = FileBody(op[c].cid)
    <3> PICK r : r = File(op[c].cid.content)
      OBVIOUS
    <3>1. ~NoFileFor(c)'
      BY <1>5, <1>6, <2>2, FoundFile, FoundKept
    <3>2. Truthful(c, r)'
      BY <1>1, <1>6 DEF Truthful
    <3>3. Decoded(c, b)' = r
      BY <1>1, <2>2, DecodedKept, ReadAnswers
    <3>4. ReplyTrue(c, b)'
      BY <1>1, <2>2, <3>1 DEF ReplyTrue
    <3> QED
      BY <3>2, <3>3, <3>4 DEF TruthfulAnswer
  <2>3. CASE ~Found(op[c]) /\ op[c].kind = "get_yaml" /\ b = Bare(ErrorText)
    <3>1. Excused(c)'
      BY <1>5, <1>6, <1>7, <2>3, UnfoundIsExcused, ExcusedKept
    <3>2. Truthful(c, Error)'
      BY <1>1, <1>6 DEF Truthful, NothingShown
    <3>3. Decoded(c, b)' = Error
      BY <1>1, <2>3, DecodedKept, ReadAnswers
    <3>4. ReplyTrue(c, b)'
      BY <1>1, <2>3, <3>1 DEF ReplyTrue
    <3> QED
      BY <3>2, <3>3, <3>4 DEF TruthfulAnswer
  <2> QED
    BY <1>2, <1>7, <2>1, <2>2, <2>3 DEF Received
<1> QED
  BY <1>1, <1>2, <1>3, <1>5, <1>7, EffectStep

LEMMA StepIInv == IInv /\ [R1FSNext]_r1fsVars => IInv'
<1> SUFFICES ASSUME IInv, [R1FSNext]_r1fsVars PROVE IInv'
  OBVIOUS
<1>1. CASE UNCHANGED r1fsVars
  <2> USE <1>1 DEF r1fsVars, absVars, histories
  <2>1. \A c \in Calls : \A n : FileOf(c, n)' = FileOf(c, n)
    BY DEF FileOf, ContentSent
  <2>2. \A a, c \in Calls : OverFor(a, c)' = OverFor(a, c)
    BY DEF OverFor
  <2>3. Types' /\ Progress' /\ HistoryKept'
    BY DEF IInv, Types, AbsTypeOK, Progress, LastTookEffect, HistoryKept
  <2>4. ReadersKept' /\ FilesKept' /\ LossExplained'
    BY <2>1, <2>2
    DEF IInv, ReadersKept, ReaderLent, FilesKept, LossExplained
  <2>5. \A c \in Calls : \A r : Truthful(c, r)' = Truthful(c, r)
    BY <2>1, <2>2 DEF Truthful, Reportable
  <2>6. AnswersTrue'
    <3>1. \A c \in Calls : \A b : ReplyTrue(c, b)' = ReplyTrue(c, b)
      <4>1. \A c \in Calls : Excused(c)' = Excused(c)
        BY <2>2 DEF Excused, Acked
      <4>2. \A c \in Calls : NoFileFor(c)' = NoFileFor(c)
        <5> SUFFICES ASSUME NEW c \in Calls
                     PROVE  NoFileFor(c)' = NoFileFor(c)
          OBVIOUS
        <5>1. before[c] \subseteq Calls
          BY DEF IInv, Types
        <5> QED
          BY <2>2, <5>1 DEF NoFileFor
      <4> QED
        BY <4>1, <4>2 DEF ReplyTrue
    <3> QED
      BY <2>5, <3>1, DecodedKept DEF IInv, AnswersTrue, TruthfulAnswer
  <2>7. ResultsTrue'
    BY <2>5 DEF IInv, ResultsTrue
  <2> QED
    BY <2>3, <2>4, <2>6, <2>7 DEF IInv
<1>2. CASE R1FSNext
  BY <1>2, CallStep, RefuseStep, SendStep, DecodedStep, MisfitStep, ErrorStep,
     StoreStep, CalculationStep, RemoveStep, ReadStep, RefuseRequestStep
  DEF R1FSNext
<1> QED
  BY <1>1, <1>2

THEOREM Invariance == R1FSSpec => []IInv
  BY InitIInv, StepIInv, PTL DEF R1FSSpec

\* What an upload that returned a CID has done.
LEMMA AckedFile ==
  ASSUME IInv, NEW u \in Calls, Acked(u)
  PROVE  /\ outcome[u] = "ok" /\ op[u] \in Operations(Files)
         /\ result[u].cid \in created[u]
         /\ \A f \in created[u] : \E n \in effects[u] :
              n \in 0..MaxRetries /\ n < sent[u] /\ f = FileOf(u, n)
<1>1. result[u] \notin {Pending, Error}
  BY Results DEF Acked
<1>2. outcome[u] = "ok" /\ op[u] \in Operations(Files)
  BY <1>1, ReturnedTrue
<1>3. result[u].cid \in created[u]
  BY <1>1, ReturnedTrue, Results DEF Acked, Truthful
<1>4. \A f \in created[u] : \E n \in effects[u] : f = FileOf(u, n)
  BY DEF IInv, FilesKept
<1>5. \A n \in effects[u] : n \in 0..MaxRetries /\ n < sent[u]
  BY DEF IInv, Types, AbsTypeOK, Progress
<1> QED
  BY <1>2, <1>3, <1>4, <1>5

\* The types of the client's state; a call has a result exactly when it is
\* over, and a CID, a file or a report only of the sort that was asked for.
THEOREM R1FSTypeCorrect == R1FSSpec => []R1FSTypeOK
<1>1. ASSUME IInv, NEW c \in Calls PROVE ResultOK(c)
  <2>1. CASE result[c] \in {Pending, Error}
    BY <2>1 DEF ResultOK
  <2>2. CASE result[c] \notin {Pending, Error}
    <3>1. /\ op[c] \in Operations(Files) /\ Truthful(c, result[c])
          /\ IsUpload(op[c]) \/ IsCalculation(op[c]) \/ IsRead(op[c])
               \/ IsDelete(op[c])
      BY <1>1, <2>2, ReturnedTrue
    <3>2. CASE IsUpload(op[c])
      <4>1. PICK f \in Files : result[c] = Cid(f)
        BY <1>1, <2>2, <3>1, <3>2 DEF Truthful, IInv, Types
      <4> QED
        BY <4>1, Results DEF ResultOK
    <3>3. CASE IsCalculation(op[c])
      <4>1. PICK n \in 0..MaxRetries : result[c] = Cid(FileOf(c, n))
        BY <2>2, <3>1, <3>3 DEF Truthful
      <4>2. FileOf(c, n) \in Files
        BY <1>1, <3>3, FileShape DEF IInv
      <4> QED
        BY <4>1, <4>2, Results DEF ResultOK
    <3>4. CASE IsRead(op[c])
      <4>1. op[c].cid \in Files
        BY <3>1, <3>4, OperationShape
      <4>2. op[c].cid.content \in Contents \cup {Empty}
        BY <4>1 DEF Files
      <4>3. result[c] \in {File(op[c].cid.content), File(Empty), Misfit, Absent}
        BY <2>2, <3>1, <3>4 DEF Truthful, NothingShown
      <4> QED
        BY <4>2, <4>3, Results DEF ResultOK
    <3>5. CASE IsDelete(op[c])
      <4>1. PICK s \in SUBSET op[c].cids : result[c] = Report(s)
        BY <2>2, <3>1, <3>5 DEF Truthful
      <4> QED
        BY <4>1, Results DEF ResultOK
    <3> QED
      BY <3>1, <3>2, <3>3, <3>4, <3>5
  <2> QED
    BY <2>1, <2>2
<1>2. IInv => R1FSTypeOK
  BY <1>1 DEF IInv, Types, Progress, R1FSTypeOK
<1> QED
  BY <1>2, Invariance, PTL

\* An acknowledged upload has stored a file itself, whole unless another call
\* had the reader before it.
THEOREM UploadsAreWhole == R1FSSpec => []AckedUploadIsWhole
<1>1. ASSUME IInv, NEW u \in Calls, Acked(u)
      PROVE  /\ result[u].cid \in created[u]
             /\ ReaderLent(u) \/ result[u].cid.content = op[u].content
  <2>1. result[u].cid \in created[u] /\ outcome[u] = "ok" /\ IsUpload(op[u])
    BY <1>1, AckedFile DEF Acked
  <2>2. PICK n \in 0..MaxRetries : result[u].cid = FileOf(u, n)
    BY <1>1, <2>1, AckedFile
  <2>3. result[u].cid.content = payload[u]
    BY <1>1, <2>1, <2>2, FileShape DEF IInv
  <2> QED
    BY <1>1, <2>1, <2>3 DEF IInv, ReadersKept
<1>2. IInv => AckedUploadIsWhole
  BY <1>1 DEF AckedUploadIsWhole
<1> QED
  BY <1>2, Invariance, PTL

\* An upload leaves files behind that its caller does not know only if it was
\* repeated without a nonce.
THEOREM OnlyRepetitionOrphans == R1FSSpec => []OrphansNeedRepetition
<1>1. ASSUME IInv, NEW u \in Calls, Acked(u), created[u] # {result[u].cid}
      PROVE  sent[u] > 1 /\ op[u].nonce = NoNonce
  <2>1. PICK f \in created[u] : f # result[u].cid
    BY <1>1, AckedFile
  <2>2. PICK n \in 0..MaxRetries : n < sent[u] /\ f = FileOf(u, n)
    BY <1>1, AckedFile
  <2>3. PICK m \in 0..MaxRetries : m < sent[u] /\ result[u].cid = FileOf(u, m)
    BY <1>1, AckedFile
  <2>4. n # m
    BY <2>1, <2>2, <2>3
  <2>5. sent[u] \in Nat
    BY <1>1, MaxRetriesAssumption DEF IInv, Types, AbsTypeOK
  <2>6. sent[u] > 1
    BY <2>2, <2>3, <2>4, <2>5
  <2>7. NonceSent(op[u]) = op[u].nonce
    BY <1>1, Sorts DEF Acked, NonceSent
  <2>8. NonceSent(op[u]) = NoNonce
    BY <2>1, <2>2, <2>3 DEF FileOf, ContentSent
  <2> QED
    BY <2>6, <2>7, <2>8
<1>2. IInv => OrphansNeedRepetition
  BY <1>1 DEF OrphansNeedRepetition
<1> QED
  BY <1>2, Invariance, PTL

\* Without retries an upload that returns a CID has left that one file behind
\* and no other, whatever its nonce and whatever the network lost.
THEOREM WithoutRetriesNoOrphans ==
  MaxRetries = 0 =>
    (R1FSSpec => [](\A u \in Calls : Acked(u) => created[u] = {result[u].cid}))
<1> SUFFICES ASSUME MaxRetries = 0
             PROVE  R1FSSpec => [](\A u \in Calls :
                                     Acked(u) => created[u] = {result[u].cid})
  OBVIOUS
<1>1. IInv /\ OrphansNeedRepetition
      => \A u \in Calls : Acked(u) => created[u] = {result[u].cid}
  <2>1. ASSUME IInv, NEW u \in Calls PROVE ~(sent[u] > 1)
    BY <2>1 DEF IInv, Types, AbsTypeOK
  <2> QED
    BY <2>1 DEF OrphansNeedRepetition
<1> QED
  BY <1>1, Invariance, OnlyRepetitionOrphans, PTL

\* A file of an acknowledged upload is lost only to a delete that was still
\* under way, failed or repeated when the upload began, or began later.
THEOREM OnlyDeletesLose == R1FSSpec => []LossNeedsDelete
<1>1. ASSUME IInv, NEW u \in Calls, Acked(u), result[u].cid \notin stored
      PROVE  \E d \in Calls : result[u].cid \in removed[d] /\ ~OverFor(d, u)
  BY <1>1, AckedFile DEF IInv, LossExplained
<1>2. IInv => LossNeedsDelete
  BY <1>1 DEF LossNeedsDelete
<1> QED
  BY <1>2, Invariance, PTL

\* A file that a delete reports as removed comes back only by an upload that
\* was still under way, failed or repeated when the delete began, or began
\* later.
THEOREM OnlyUploadsRevive == R1FSSpec => []DeletedStaysGone
<1>1. IInv => DeletedStaysGone
  BY ReportedFiles DEF DeletedStaysGone, Reportable
<1> QED
  BY <1>1, Invariance, PTL

\* A delete that was sent once reports all that it removed, or nothing.
THEOREM ReportsAreComplete == R1FSSpec => []FalseAlarmNeedsRepetition
<1>1. ASSUME IInv, NEW d \in Calls, result[d].kind = "report",
             removed[d] \ result[d].success # {}
      PROVE  sent[d] > 1 \/ (Emptied /\ result[d].success = {})
  <2>1. /\ outcome[d] = "ok"
        /\ sent[d] = 1 => removed[d] \subseteq result[d].success
                          \/ (Emptied /\ result[d].success = {})
    BY <1>1, ReportedFiles DEF Reportable
  <2>2. sent[d] \in Nat /\ sent[d] # 0
    <3>1. PICK n \in effects[d] : n + 1 = sent[d]
      BY <1>1, <2>1 DEF IInv, Progress, LastTookEffect
    <3>2. n \in 0..MaxRetries
      BY <1>1, <3>1 DEF IInv, Types, AbsTypeOK
    <3> QED
      BY <3>1, <3>2, MaxRetriesAssumption
  <2> QED
    BY <1>1, <2>1, <2>2
<1>2. IInv => FalseAlarmNeedsRepetition
  BY <1>1 DEF FalseAlarmNeedsRepetition
<1> QED
  BY <1>2, Invariance, PTL

\* A read ends with what its last reply says: the file, nothing or an error.
LEMMA ReadReturns ==
  ASSUME IInv, R1FSNext, NEW r \in Calls, ReadEnds(r)
  PROVE  /\ ReplyTrue(r, answer[r])
         /\ \/ result'[r] = Decoded(r, answer[r])
            \/ answer[r].kind = "file" /\ result'[r] = Misfit
<1>1. IsRead(op[r]) /\ outcome[r] = "active" /\ outcome'[r] = "ok"
  BY DEF ReadEnds
<1>2. ReturnDecoded(r) \/ ReturnMisfit(r)
  <2>1. ASSUME NEW c \in Calls, NEW o \in Operations(Learned),
               Call(c, o) \/ RefuseCall(c, o)
        PROVE  FALSE
    BY <1>1, <2>1 DEF Call, Start, RefuseCall, Refuse, IInv, Types, AbsTypeOK
  <2>2. ASSUME NEW c \in Calls, SendRequest(c) PROVE FALSE
    BY <1>1, <2>2 DEF SendRequest, Send
  <2>3. ASSUME NEW c \in Calls, ReturnDecoded(c) \/ ReturnMisfit(c)
        PROVE  c = r
    BY <1>1, <2>3
    DEF ReturnDecoded, ReturnMisfit, Succeed, IInv, Types, AbsTypeOK
  <2>4. ASSUME NEW c \in Calls, ReturnError(c) PROVE FALSE
    BY <1>1, <2>4 DEF ReturnError, Fail, IInv, Types, AbsTypeOK
  <2>5. ASSUME NEW c \in Calls, NEW n \in 0..MaxRetries,
               StoreFile(c, n) \/ AnswerCalculation(c, n) \/ RemoveFiles(c, n)
                 \/ AnswerRead(c, n) \/ RefuseRequest(c, n)
        PROVE  FALSE
    BY <1>1, <2>5 DEF StoreFile, AnswerCalculation, RemoveFiles, AnswerRead,
       RefuseRequest, TakeEffect
  <2> QED
    BY <2>1, <2>2, <2>3, <2>4, <2>5 DEF R1FSNext
<1>3. LastTookEffect(r)
  BY <1>2 DEF ReturnDecoded, ReturnMisfit, Succeed
<1>4. TruthfulAnswer(r, answer[r])
  BY <1>1, <1>3 DEF IInv, Progress, AnswersTrue
<1>5. \/ result'[r] = Decoded(r, answer[r])
      \/ answer[r].kind = "file" /\ result'[r] = Misfit
  BY <1>2 DEF ReturnDecoded, ReturnMisfit, Return, IInv, Types
<1> QED
  BY <1>4, <1>5 DEF TruthfulAnswer

\* Every read that ends without being evaded returns the file that was
\* uploaded before, unless a delete of it may have come between; one that is
\* evaded shows nothing of it.
THEOREM UploadsAreSeen == R1FSSpec => ReadsFollowUploads
<1>1. ASSUME IInv, R1FSNext, NEW u \in Calls, NEW r \in Calls,
             ReadEnds(r), Acked(u), u \in before[r], op[r].cid = result[u].cid,
             op[r].kind = "get_yaml" => op[u].kind = "add_yaml",
             \A d \in Calls : IsDelete(op[d]) /\ result[u].cid \in op[d].cids =>
                                OverFor(d, u)
      PROVE  IF answer[r] \in Evasions THEN result'[r] \in NothingShown
             ELSE result'[r] \in {File(result[u].cid.content), Misfit}
  <2>1. /\ ReplyTrue(r, answer[r])
        /\ \/ result'[r] = Decoded(r, answer[r])
           \/ answer[r].kind = "file" /\ result'[r] = Misfit
        /\ IsRead(op[r])
    BY <1>1, ReadReturns DEF ReadEnds
  <2>2. ~Excused(r)
    BY <1>1 DEF Excused
  <2>3. CASE answer[r] \in Evasions
    <3>1. answer[r].kind # "file"
      BY <2>3, EvasionShapes DEF HasFields
    <3> QED
      BY <2>1, <2>3, <3>1, EvasiveAnswers
  <2>4. CASE answer[r] \notin Evasions
    <3>1. answer[r] = FileBody(op[r].cid)
      BY <2>1, <2>2, <2>4 DEF ReplyTrue
    <3>2. Decoded(r, answer[r]) = File(op[r].cid.content)
      BY <2>1, <3>1, ReadAnswers
    <3> QED
      BY <1>1, <2>1, <2>4, <3>2
  <2> QED
    BY <2>3, <2>4
<1>2. IInv /\ [R1FSNext]_r1fsVars =>
        [\A u \in Calls, r \in Calls :
           /\ ReadEnds(r)
           /\ Acked(u) /\ u \in before[r] /\ op[r].cid = result[u].cid
           /\ op[r].kind = "get_yaml" => op[u].kind = "add_yaml"
           /\ \A d \in Calls : IsDelete(op[d]) /\ result[u].cid \in op[d].cids =>
                                 OverFor(d, u)
           => IF answer[r] \in Evasions THEN result'[r] \in NothingShown
              ELSE result'[r] \in {File(result[u].cid.content), Misfit}]_r1fsVars
  BY <1>1
<1> QED
  BY <1>2, Invariance, PTL DEF R1FSSpec, ReadsFollowUploads

\* A read of what was never stored, or was removed for good before the read
\* began, ends in an error, whichever operation reads and whatever the
\* manager answers, but for the replies that decode to zero values.
THEOREM NothingIsMadeUp == R1FSSpec => MissingFileReported
<1>1. ASSUME IInv, R1FSNext, NEW r \in Calls, ReadEnds(r), NoFileFor(r)
      PROVE  \/ result'[r] = Error
             \/ /\ answer[r] \in SilentBodies
                /\ result'[r] \in {Absent, File(Empty)}
  <2>1. /\ ReplyTrue(r, answer[r])
        /\ \/ result'[r] = Decoded(r, answer[r])
           \/ answer[r].kind = "file" /\ result'[r] = Misfit
        /\ IsRead(op[r])
    BY <1>1, ReadReturns DEF ReadEnds
  <2>2. CASE answer[r] \in Evasions
    <3>1. answer[r].kind # "file"
      BY <2>2, EvasionShapes DEF HasFields
    <3> QED
      BY <2>1, <2>2, <3>1, EvasiveAnswers DEF NothingShown
  <2>3. CASE op[r].kind = "get_yaml" /\ answer[r] = Bare(ErrorText)
    <3>1. answer[r].kind # "file"
      BY <2>3 DEF Bare
    <3> QED
      BY <2>1, <2>3, <3>1, ReadAnswers
  <2> QED
    BY <1>1, <2>1, <2>2, <2>3 DEF ReplyTrue
<1>2. IInv /\ [R1FSNext]_r1fsVars =>
        [\A r \in Calls :
           ReadEnds(r) /\ NoFileFor(r)
           => \/ result'[r] = Error
              \/ answer[r] \in SilentBodies /\ result'[r] \in {Absent, File(Empty)}
        ]_r1fsVars
  BY <1>1
<1> QED
  BY <1>2, Invariance, PTL DEF R1FSSpec, MissingFileReported

-----------------------------------------------------------------------------
(***************************************************************************)
(* R1FS implements FileStore: every step of the client, of the manager and *)
(* of the network is a step of the shared files, or a stutter.             *)
(***************************************************************************)
\* What a call knows of its last repetition is never mistaken for nothing.
LEMMA SeenShape ==
  ASSUME IInv, NEW c \in Calls
  PROVE  /\ answer[c] = NoAnswer => SeenBy(c) = NoAnswer
         /\ answer[c] # NoAnswer =>
              SeenBy(c) = Decoded(c, answer[c]) /\ SeenBy(c) # NoAnswer
<1> SUFFICES ASSUME answer[c] # NoAnswer
             PROVE  Decoded(c, answer[c]) # NoAnswer
  BY DEF SeenBy
<1>1. Truthful(c, Decoded(c, answer[c]))
  BY DEF IInv, AnswersTrue, TruthfulAnswer
<1>2. op[c] \in Operations(Files)
  BY DEF IInv, Types, AbsTypeOK, Outcomes, Progress
<1>3. IsUpload(op[c]) \/ IsCalculation(op[c]) \/ IsRead(op[c])
        \/ IsDelete(op[c])
  BY <1>2, OperationShape DEF IsUpload, IsCalculation, IsRead, IsDelete
<1>4. \A r : Truthful(c, r) =>
        r.kind \in {"error", "misfit", "absent", "cid", "file", "report"}
  BY <1>3, Results DEF Truthful, NothingShown
<1> QED
  BY <1>1, <1>4, Bodies

LEMMA ActsBounded ==
  ASSUME IInv, NEW c \in Calls
  PROVE  /\ IsFiniteSet(effects[c]) /\ Cardinality(effects[c]) \in Nat
         /\ Cardinality(effects[c]) <= sent[c]
<1>1. /\ sent[c] \in Nat /\ effects[c] \subseteq 0..MaxRetries
      /\ \A n \in effects[c] : n < sent[c]
  BY MaxRetriesAssumption DEF IInv, Types, AbsTypeOK, Progress
<1>2. effects[c] \subseteq 0..(sent[c] - 1)
  BY <1>1, MaxRetriesAssumption
<1>3. /\ IsFiniteSet(0..(sent[c] - 1))
      /\ Cardinality(0..(sent[c] - 1)) = sent[c]
  <2>1. PICK k \in Int : k = sent[c] - 1
    BY <1>1
  <2>2. /\ IsFiniteSet(0..k)
        /\ Cardinality(0..k) = IF 0 > k THEN 0 ELSE k - 0 + 1
    BY FS_Interval
  <2> QED
    BY <1>1, <2>1, <2>2
<1> QED
  BY <1>2, <1>3, FS_Subset, FS_CardinalityType

LEMMA InitRefines == R1FSInit => FileStore!FileStoreInit
<1> SUFFICES ASSUME R1FSInit PROVE FileStore!FileStoreInit
  OBVIOUS
<1>1. \A c \in Calls : Cardinality(effects[c]) = 0
  BY FS_EmptySet DEF R1FSInit, AbsInit
<1>2. \A c \in Calls : SeenBy(c) = NoAnswer
  BY DEF R1FSInit, SeenBy
<1>3. UNION {created[c] : c \in Calls} = {}
  BY DEF R1FSInit
<1> QED
  BY <1>1, <1>2, <1>3 DEF R1FSInit, FileStore!FileStoreInit

\* A reader that was read before was lent to another call.
LEMMA DataTaken ==
  ASSUME IInv, NEW c \in Calls, NEW o, op[c] = NoOperation, ReadPayload(c, o)
  PROVE  FileStore!TakeData(c, o)
<1>1. CASE UsesReader(o) /\ o.content \in drained
  <2>1. PICK a \in Calls : UsesReader(op[a]) /\ op[a].content = o.content
    BY <1>1 DEF IInv, ReadersKept
  <2>2. a # c
    BY <2>1, NoOperationDoesNothing
  <2> QED
    BY <1>1, <2>1, <2>2
    DEF ReadPayload, FileStore!TakeData, FileStore!Lent
<1>2. CASE ~(UsesReader(o) /\ o.content \in drained)
  BY <1>2 DEF ReadPayload, FileStore!TakeData
<1> QED
  BY <1>1, <1>2

LEMMA IdleSeen ==
  ASSUME IInv, NEW c \in Calls, op[c] = NoOperation, UNCHANGED answer,
         \A d \in Calls \ {c} : op'[d] = op[d]
  PROVE  [d \in Calls |-> SeenBy(d)'] = [d \in Calls |-> SeenBy(d)]
<1>1. answer[c] = NoAnswer
  BY DEF IInv, Progress
<1>2. ASSUME NEW d \in Calls \ {c} PROVE SeenBy(d)' = SeenBy(d)
  <2>1. \A b : Decoded(d, b)' = Decoded(d, b)
    BY DecodedKept
  <2> QED
    BY <2>1 DEF SeenBy
<1>3. SeenBy(c)' = SeenBy(c)
  BY <1>1 DEF SeenBy
<1> QED
  BY <1>2, <1>3

LEMMA CallRefines ==
  ASSUME IInv, NEW c \in Calls, NEW o \in Operations(Learned), Call(c, o)
  PROVE  FileStore!Begin(c, o)
<1>1. /\ op[c] = NoOperation
      /\ UNCHANGED <<answer, effects, result, stored, created>>
      /\ op' = [op EXCEPT ![c] = o]
      /\ IF IsUpload(o) \/ IsCalculation(o) THEN ReadPayload(c, o)
         ELSE UNCHANGED payload
  BY DEF IInv, Progress, Call, Start
<1>2. \A d \in Calls \ {c} : op'[d] = op[d]
  BY <1>1 DEF IInv, Types
<1>3. [d \in Calls |-> SeenBy(d)'] = [d \in Calls |-> SeenBy(d)]
  BY <1>1, <1>2, IdleSeen
<1>4. IF IsUpload(o) \/ IsCalculation(o) THEN FileStore!TakeData(c, o)
      ELSE UNCHANGED payload
  BY <1>1, DataTaken
<1> QED
  BY <1>1, <1>3, <1>4 DEF FileStore!Begin

LEMMA RefuseRefines ==
  ASSUME IInv, NEW c \in Calls, NEW o \in Operations(Learned), RefuseCall(c, o)
  PROVE  FileStore!TurnDown(c, o)
<1>1. /\ op[c] = NoOperation
      /\ UNCHANGED <<answer, effects, stored, created>>
      /\ op' = [op EXCEPT ![c] = o]
      /\ result' = [result EXCEPT ![c] = Error]
      /\ \/ UsesReader(o) /\ ReadPayload(c, o)
         \/ UNCHANGED payload
  BY DEF IInv, Progress, RefuseCall, Refuse
<1>2. \A d \in Calls \ {c} : op'[d] = op[d]
  BY <1>1 DEF IInv, Types
<1>3. [d \in Calls |-> SeenBy(d)'] = [d \in Calls |-> SeenBy(d)]
  BY <1>1, <1>2, IdleSeen
<1>4. \/ UsesReader(o) /\ FileStore!TakeData(c, o)
      \/ UNCHANGED payload
  BY <1>1, DataTaken
<1> QED
  BY <1>1, <1>3, <1>4 DEF FileStore!TurnDown

\* A call that is active is one that runs.
LEMMA ActiveRuns ==
  ASSUME IInv, NEW c \in Calls, outcome[c] = "active"
  PROVE  FileStore!Running(c)
  BY DEF IInv, Progress, FileStore!Running

\* What the caller sees changes only for the call whose answer changes.
LEMMA SeenUpdate ==
  ASSUME IInv, NEW c \in Calls, UNCHANGED op,
         \A d \in Calls \ {c} : answer'[d] = answer[d]
  PROVE  [d \in Calls |-> SeenBy(d)']
           = [[d \in Calls |-> SeenBy(d)] EXCEPT ![c] = SeenBy(c)']
<1>1. ASSUME NEW d \in Calls \ {c} PROVE SeenBy(d)' = SeenBy(d)
  <2>1. \A b : Decoded(d, b)' = Decoded(d, b)
    BY DecodedKept
  <2> QED
    BY <2>1 DEF SeenBy
<1> QED
  BY <1>1

LEMMA SendRefines ==
  ASSUME IInv, NEW c \in Calls, SendRequest(c)
  PROVE  FileStore!TryAgain(c)
<1>1. /\ outcome[c] = "active" /\ sent[c] <= limit[c]
      /\ UNCHANGED <<op, payload, result, stored, created, effects>>
      /\ answer' = [answer EXCEPT ![c] = NoAnswer]
  BY DEF SendRequest, Send, histories
<1>2. Cardinality(effects[c]) <= MaxRetries
  BY <1>1, ActsBounded, MaxRetriesAssumption DEF IInv, Types, AbsTypeOK
<1>3. /\ answer'[c] = NoAnswer
      /\ \A d \in Calls \ {c} : answer'[d] = answer[d]
  BY <1>1 DEF IInv, Types
<1>4. SeenBy(c)' = NoAnswer
  BY <1>3 DEF SeenBy
<1> QED
  BY <1>1, <1>2, <1>3, <1>4, ActiveRuns, SeenUpdate DEF FileStore!TryAgain

LEMMA ReturnRefines ==
  ASSUME IInv, NEW c \in Calls, NEW r, Return(c, r), Succeed(c) \/ Fail(c)
  PROVE  FileStore!Return(c, r)
<1>1. /\ outcome[c] = "active"
      /\ UNCHANGED <<op, payload, stored, created, effects>>
      /\ result' = [result EXCEPT ![c] = r]
      /\ answer' = [answer EXCEPT ![c] = NoAnswer]
  BY DEF Return, Succeed, Fail, histories
<1>2. /\ answer'[c] = NoAnswer
      /\ \A d \in Calls \ {c} : answer'[d] = answer[d]
  BY <1>1 DEF IInv, Types
<1>3. SeenBy(c)' = NoAnswer
  BY <1>2 DEF SeenBy
<1> QED
  BY <1>1, <1>2, <1>3, ActiveRuns, SeenUpdate DEF FileStore!Return

LEMMA DecodedRefines ==
  ASSUME IInv, NEW c \in Calls, ReturnDecoded(c)
  PROVE  FileStore!Reply(c)
<1>1. outcome[c] = "active" /\ LastTookEffect(c) /\ Succeed(c)
  BY DEF ReturnDecoded, Succeed
<1>2. answer[c] # NoAnswer
  BY <1>1 DEF IInv, Progress
<1>3. SeenBy(c) = Decoded(c, answer[c]) /\ SeenBy(c) # NoAnswer
  BY <1>2, SeenShape
<1>4. FileStore!Return(c, SeenBy(c))
  BY <1>1, <1>3, ReturnRefines DEF ReturnDecoded
<1> QED
  BY <1>3, <1>4 DEF FileStore!Reply

LEMMA MisfitRefines ==
  ASSUME IInv, NEW c \in Calls, ReturnMisfit(c)
  PROVE  FileStore!ReplyMisfit(c)
<1>1. /\ Succeed(c) /\ op[c].kind = "get_yaml"
      /\ answer[c].kind = "file"
  BY DEF ReturnMisfit
<1>2. answer[c] # NoAnswer
  BY <1>1, Bodies
<1>3. SeenBy(c) = Decoded(c, answer[c])
  BY <1>2, SeenShape
<1>4. Decoded(c, answer[c]) = File(answer[c].content)
  <2>1. ~IsUpload(op[c]) /\ ~IsCalculation(op[c]) /\ ~IsDelete(op[c])
    BY <1>1, Sorts
  <2>2. \A b : Decoded(c, b) = DecodedYAML(b)
    BY <1>1, <2>1 DEF Decoded
  <2> QED
    BY <1>1, <2>2 DEF DecodedYAML
<1>5. Misfits(op[c], SeenBy(c))
  BY <1>1, <1>3, <1>4, Results DEF Misfits
<1>6. FileStore!Return(c, Misfit)
  BY <1>1, ReturnRefines DEF ReturnMisfit
<1> QED
  BY <1>5, <1>6 DEF FileStore!ReplyMisfit

LEMMA ErrorRefines ==
  ASSUME IInv, NEW c \in Calls, ReturnError(c)
  PROVE  FileStore!Fail(c)
  BY ReturnRefines DEF ReturnError, FileStore!Fail

(***************************************************************************)
(* A repetition that takes effect is an act, and its answer reaches the    *)
(* caller, blank or not, or nobody.                                        *)
(***************************************************************************)
LEMMA EffectActs ==
  ASSUME IInv, NEW c \in Calls, NEW n \in 0..MaxRetries, TakeEffect(c, n),
         UNCHANGED <<op, payload, result>>
  PROVE  FileStore!Acts(c)
<1>1. /\ n < sent[c] /\ n \notin effects[c]
      /\ effects' = [effects EXCEPT ![c] = @ \cup {n}]
  BY DEF TakeEffect
<1>2. op[c] # NoOperation
  BY <1>1, MaxRetriesAssumption DEF IInv, Progress, Types, AbsTypeOK
<1>3. /\ effects'[c] = effects[c] \cup {n}
      /\ \A d \in Calls \ {c} : effects'[d] = effects[d]
  BY <1>1 DEF IInv, Types, AbsTypeOK
<1>4. /\ IsFiniteSet(effects'[c])
      /\ Cardinality(effects'[c]) = Cardinality(effects[c]) + 1
      /\ Cardinality(effects[c]) \in Nat
  <2>1. PICK S : S = effects[c]
    OBVIOUS
  <2>2. IsFiniteSet(S) /\ Cardinality(S) \in Nat
    BY <2>1, ActsBounded
  <2>3. /\ IsFiniteSet(S \cup {n})
        /\ Cardinality(S \cup {n}) = IF n \in S THEN Cardinality(S)
                                    ELSE Cardinality(S) + 1
    BY <2>2, FS_AddElement
  <2> QED
    BY <1>1, <1>3, <2>1, <2>2, <2>3
<1>5. effects'[c] \subseteq 0..MaxRetries
  BY <1>3 DEF IInv, Types, AbsTypeOK
<1>6. /\ IsFiniteSet(0..MaxRetries)
      /\ Cardinality(0..MaxRetries) = MaxRetries + 1
  BY FS_Interval, MaxRetriesAssumption
<1>7. Cardinality(effects'[c]) <= MaxRetries + 1
  BY <1>5, <1>6, FS_Subset
<1>8. Cardinality(effects[c]) <= MaxRetries
  BY <1>4, <1>7, MaxRetriesAssumption
<1>9. [d \in Calls |-> Cardinality(effects'[d])]
        = [[d \in Calls |-> Cardinality(effects[d])]
             EXCEPT ![c] = Cardinality(effects[c]) + 1]
  BY <1>3, <1>4
<1> QED
  BY <1>2, <1>8, <1>9 DEF FileStore!Acts

LEMMA AnswerSeen ==
  ASSUME IInv, NEW c \in Calls, NEW n \in 0..MaxRetries, NEW body,
         TakeEffect(c, n), Answers(c, n, body), UNCHANGED <<op, result>>,
         body # NoAnswer
  PROVE  \/ FileStore!Sees(c, Decoded(c, body))
         \/ Emptied /\ FileStore!Sees(c, Decoded(c, BlankBody))
<1>1. CASE ~(outcome[c] = "active" /\ n + 1 = sent[c])
  <2>1. UNCHANGED <<answer, op>>
    BY <1>1 DEF Answers
  <2>2. [d \in Calls |-> SeenBy(d)'] = [d \in Calls |-> SeenBy(d)]
    <3>1. ASSUME NEW d \in Calls PROVE SeenBy(d)' = SeenBy(d)
      <4>1. \A b : Decoded(d, b)' = Decoded(d, b)
        BY DecodedKept
      <4> QED
        BY <2>1, <4>1 DEF SeenBy
    <3> QED
      BY <3>1
  <2> QED
    BY <2>2 DEF FileStore!Sees
<1>2. CASE outcome[c] = "active" /\ n + 1 = sent[c]
  <2>1. PICK b \in Received(body) : answer' = [answer EXCEPT ![c] = b]
    BY <1>2 DEF Answers
  <2>2. /\ b = body \/ (b = BlankBody /\ Emptied)
        /\ b # NoAnswer
    BY Bodies DEF Received
  <2>3. /\ answer'[c] = b
        /\ \A d \in Calls \ {c} : answer'[d] = answer[d]
    BY <2>1 DEF IInv, Types
  <2>4. \A x : Decoded(c, x)' = Decoded(c, x)
    BY DecodedKept
  <2>5. SeenBy(c)' = Decoded(c, b)
    BY <2>2, <2>3, <2>4 DEF SeenBy
  <2>6. FileStore!Sees(c, Decoded(c, b))
    BY <1>2, <2>3, <2>5, ActiveRuns, SeenUpdate DEF FileStore!Sees
  <2> QED
    BY <2>2, <2>6
<1> QED
  BY <1>1, <1>2

\* What is made of a reply that lost its body.
LEMMA BlankIsLost ==
  ASSUME NEW c \in Calls,
         IsUpload(op[c]) \/ IsCalculation(op[c]) \/ IsRead(op[c])
           \/ IsDelete(op[c])
  PROVE  Decoded(c, BlankBody) = Lost(op[c])
<1>1. CASE IsUpload(op[c]) \/ IsCalculation(op[c])
  BY <1>1, Bodies DEF Decoded, DecodedCid, Lost, IsUpload, IsCalculation,
     IsDelete, Uploads, FileUploads, DataUploads, Calculations, Deletes
<1>2. CASE IsRead(op[c])
  <2>1. Decoded(c, BlankBody) =
          IF op[c].kind = "get_yaml" THEN Absent ELSE File(Empty)
    BY <1>2, ReadAnswers
  <2>2. ~IsUpload(op[c]) /\ ~IsCalculation(op[c]) /\ ~IsDelete(op[c])
    BY <1>2, Sorts
  <2> QED
    BY <1>2, <2>1, <2>2 DEF Lost, IsRead, Reads
<1>3. CASE IsDelete(op[c])
  <2>1. LeavesZero(BlankBody) /\ BlankBody.kind # "report"
    BY Bodies DEF LeavesZero, HasFields, DecodedText
  <2>2. Decoded(c, BlankBody) = Report({})
    BY <1>3, <2>1 DEF Decoded, DecodedReport, IsDelete, IsUpload,
       IsCalculation, Uploads, FileUploads, DataUploads, Calculations, Deletes
  <2> QED
    BY <1>3, <2>2 DEF Lost, IsDelete, IsUpload, IsCalculation, Uploads,
       FileUploads, DataUploads, Calculations, Deletes
<1> QED
  BY <1>1, <1>2, <1>3

LEMMA AnswerShown ==
  ASSUME IInv, NEW c \in Calls, NEW n \in 0..MaxRetries, NEW body,
         TakeEffect(c, n), Answers(c, n, body), UNCHANGED <<op, result>>,
         body # NoAnswer,
         IsUpload(op[c]) \/ IsCalculation(op[c]) \/ IsRead(op[c])
           \/ IsDelete(op[c])
  PROVE  FileStore!Shows(c, Decoded(c, body))
  BY AnswerSeen, BlankIsLost DEF FileStore!Shows

(***************************************************************************)
(* The manager's steps.                                                    *)
(***************************************************************************)
\* The file that a repetition describes is one that the data may be stored
\* as; and without a nonce it is another one each time.
LEMMA FileIsOfData ==
  ASSUME NEW c \in Calls, NEW n \in 0..MaxRetries
  PROVE  FileOf(c, n) \in FilesOf(op[c], payload[c])
  BY DEF FileOf, FilesOf, ContentSent, Named

LEMMA UnnamedIsNew ==
  ASSUME IInv, NEW c \in Calls, NEW n \in 0..MaxRetries, n \notin effects[c],
         ~Named(op[c])
  PROVE  FileOf(c, n) \notin UNION {created[u] : u \in Calls}
<1> SUFFICES ASSUME NEW u \in Calls, FileOf(c, n) \in created[u] PROVE FALSE
  OBVIOUS
<1>1. FileOf(c, n).nonce = <<c, n>>
  BY DEF FileOf, Named
<1>2. PICK m \in effects[u] : FileOf(c, n) = FileOf(u, m)
  BY DEF IInv, FilesKept
<1>3. IsUpload(op[u]) /\ op[u] \in Operations(Files)
  BY NoOperationDoesNothing DEF IInv, FilesKept, Types
<1>4. FileOf(u, m).nonce = IF NonceSent(op[u]) = NoNonce THEN <<u, m>>
                           ELSE NonceSent(op[u])
  BY DEF FileOf
<1>5. NonceSent(op[u]) = NoNonce \/ NonceSent(op[u]) \in Nonces
  BY <1>3, OperationShape DEF NonceSent
<1>6. <<c, n>> \notin Nonces
  BY NonceAssumption
<1>7. <<u, m>> = <<c, n>>
  BY <1>1, <1>2, <1>4, <1>5, <1>6
<1> QED
  BY <1>7

LEMMA StoreRefines ==
  ASSUME IInv, NEW c \in Calls, NEW n \in 0..MaxRetries, StoreFile(c, n)
  PROVE  FileStore!Store(c)
<1> DEFINE f == FileOf(c, n)
<1>1. /\ IsUpload(op[c]) /\ TakeEffect(c, n) /\ Answers(c, n, CidBody(f))
      /\ UNCHANGED <<op, payload, result>>
      /\ stored' = stored \cup {f}
      /\ created' = [created EXCEPT ![c] = @ \cup {f}]
  BY DEF StoreFile
<1>2. FileStore!Acts(c)
  BY <1>1, EffectActs
<1>3. CidBody(f) # NoAnswer
  BY Bodies
<1>4. FileStore!Shows(c, Decoded(c, CidBody(f)))
  BY <1>1, <1>3, AnswerShown
<1>5. Decoded(c, CidBody(f)) = Cid(f)
  BY <1>1, CidAnswers
<1>6. /\ f \in FilesOf(op[c], payload[c])
      /\ Named(op[c]) \/ f \notin UNION {created[u] : u \in Calls}
  BY <1>1, FileIsOfData, UnnamedIsNew DEF TakeEffect
<1>7. UNION {created'[u] : u \in Calls}
        = (UNION {created[u] : u \in Calls}) \cup {f}
  <2>1. /\ created'[c] = created[c] \cup {f}
        /\ \A u \in Calls \ {c} : created'[u] = created[u]
    BY <1>1 DEF IInv, Types
  <2> QED
    BY <2>1
<1> HIDE DEF f
<1> QED
  BY <1>1, <1>2, <1>4, <1>5, <1>6, <1>7 DEF FileStore!Store

LEMMA CalculationRefines ==
  ASSUME IInv, NEW c \in Calls, NEW n \in 0..MaxRetries, AnswerCalculation(c, n)
  PROVE  FileStore!Calculate(c)
<1> DEFINE f == FileOf(c, n)
<1>1. /\ IsCalculation(op[c]) /\ TakeEffect(c, n)
      /\ Answers(c, n, CidBody(f))
      /\ UNCHANGED <<op, payload, result, stored, created>>
  BY DEF AnswerCalculation, histories
<1>2. FileStore!Acts(c)
  BY <1>1, EffectActs
<1>3. CidBody(f) # NoAnswer
  BY Bodies
<1>4. FileStore!Shows(c, Decoded(c, CidBody(f)))
  BY <1>1, <1>3, AnswerShown
<1>5. Decoded(c, CidBody(f)) = Cid(f)
  BY <1>1, CidAnswers
<1>6. f \in FilesOf(op[c], payload[c])
  BY FileIsOfData
<1> HIDE DEF f
<1> QED
  BY <1>1, <1>2, <1>4, <1>5, <1>6 DEF FileStore!Calculate

LEMMA RemoveRefines ==
  ASSUME IInv, NEW c \in Calls, NEW n \in 0..MaxRetries, RemoveFiles(c, n)
  PROVE  FileStore!Remove(c)
<1>1. /\ IsDelete(op[c]) /\ TakeEffect(c, n)
      /\ UNCHANGED <<op, payload, result, created>>
  BY DEF RemoveFiles
<1>2. PICK gone \in SUBSET (op[c].cids \cap stored) :
        /\ stored' = stored \ gone
        /\ \E success \in {gone, op[c].cids \ stored'} :
             Answers(c, n, ReportBody(success))
  BY DEF RemoveFiles
<1>3. PICK success \in {gone, op[c].cids \ stored'} :
        Answers(c, n, ReportBody(success))
  BY <1>2
<1>4. FileStore!Acts(c)
  BY <1>1, EffectActs
<1>5. ReportBody(success) # NoAnswer
  BY Bodies
<1>6. FileStore!Shows(c, Decoded(c, ReportBody(success)))
  BY <1>1, <1>3, <1>5, AnswerShown
<1>7. Decoded(c, ReportBody(success)) = Report(success)
  BY <1>1, ReportAnswers
<1>8. FileStore!Shows(c, Report(success))
  BY <1>6, <1>7
<1> QED
  BY <1>1, <1>2, <1>4, <1>8 DEF FileStore!Remove

LEMMA ReadRefines ==
  ASSUME IInv, NEW c \in Calls, NEW n \in 0..MaxRetries, AnswerRead(c, n)
  PROVE  FileStore!Read(c)
<1>1. /\ IsRead(op[c]) /\ TakeEffect(c, n)
      /\ UNCHANGED <<op, payload, result, stored, created>>
  BY DEF AnswerRead, histories
<1>2. PICK body :
        /\ Answers(c, n, body)
        /\ \/ Found(op[c]) /\ body = FileBody(op[c].cid)
           \/ /\ ~Found(op[c]) /\ op[c].kind = "get_yaml"
              /\ body = Bare(ErrorText)
  BY DEF AnswerRead
<1>3. FileStore!Acts(c)
  BY <1>1, EffectActs
<1>4. body # NoAnswer
  <2>1. Bare(ErrorText).kind = "bare"
    BY DEF Bare
  <2> QED
    BY <1>2, <2>1, Bodies
<1>5. FileStore!Shows(c, Decoded(c, body))
  BY <1>1, <1>2, <1>4, AnswerShown
<1>6. Decoded(c, body) = View(op[c], stored)
  BY <1>1, <1>2, ReadAnswers DEF View, Found
<1> QED
  BY <1>1, <1>3, <1>5, <1>6 DEF FileStore!Read

\* What is made of a refusal with status 200.
LEMMA EvasionIsRefusal ==
  ASSUME NEW c \in Calls, op[c] \in Operations(Files), NEW b \in Evasions
  PROVE  Decoded(c, b) \in Refused(op[c])
<1>1. Vague(b)
  BY Bodies DEF Evasions, Vague
<1>2. IsUpload(op[c]) \/ IsCalculation(op[c]) \/ IsRead(op[c])
        \/ IsDelete(op[c])
  BY OperationShape DEF IsUpload, IsCalculation, IsRead, IsDelete
<1>3. CASE IsUpload(op[c]) \/ IsCalculation(op[c])
  BY <1>1, <1>3, VagueAnswers DEF Refused
<1>4. CASE IsRead(op[c])
  <2>1. /\ ~IsUpload(op[c]) /\ ~IsCalculation(op[c]) /\ ~IsDelete(op[c])
        /\ op[c].kind \in Reads
    BY <1>4, Sorts DEF IsRead
  <2>2. CASE op[c].kind = "get_yaml"
    <3>1. Refused(op[c]) = NothingShown
      BY <2>1, <2>2 DEF Refused, NothingShown
    <3> QED
      BY <1>4, <3>1, EvasiveAnswers
  <2>3. CASE op[c].kind \in {"get_file", "get_file_base64"}
    <3>1. Refused(op[c]) = {Error, File(Empty)}
      BY <2>1, <2>3 DEF Refused
    <3>2. Decoded(c, b) = DecodedFile(b)
      BY <1>4, <2>3, ReadDecoded
    <3>3. b.kind # "file"
      BY EvasionShapes DEF HasFields
    <3> QED
      BY <3>1, <3>2, <3>3 DEF DecodedFile
  <2> QED
    BY <2>1, <2>2, <2>3 DEF Reads
<1>5. CASE IsDelete(op[c])
  <2>1. Refused(op[c]) = {Error, Report({})}
    BY <1>5 DEF Refused, IsDelete, IsUpload, IsCalculation, Uploads,
       FileUploads, DataUploads, Calculations, Deletes
  <2> QED
    BY <1>1, <1>5, <2>1, VagueAnswers
<1> QED
  BY <1>2, <1>3, <1>4, <1>5

LEMMA RefuseRequestRefines ==
  ASSUME IInv, NEW c \in Calls, NEW n \in 0..MaxRetries, RefuseRequest(c, n)
  PROVE  FileStore!Refuse(c)
<1>1. /\ TakeEffect(c, n)
      /\ UNCHANGED <<op, payload, result, stored, created>>
  BY DEF RefuseRequest, histories
<1>2. PICK body \in RefusalBodies : Answers(c, n, body)
  BY DEF RefuseRequest
<1>3. FileStore!Acts(c)
  BY <1>1, EffectActs
<1>4. body # NoAnswer
  BY Bodies
<1>5. \/ FileStore!Sees(c, Decoded(c, body))
      \/ Emptied /\ FileStore!Sees(c, Decoded(c, BlankBody))
  BY <1>1, <1>2, <1>4, AnswerSeen
<1>6. op[c] \in Operations(Files)
  BY <1>1, InEffect
<1>7. \A b \in Evasions : Decoded(c, b) \in Refused(op[c])
  BY <1>6, EvasionIsRefusal
<1>8. /\ Decoded(c, body) \in Refused(op[c])
      /\ Decoded(c, BlankBody) \in Refused(op[c])
  BY <1>7 DEF Evasions
<1> QED
  BY <1>1, <1>3, <1>5, <1>8 DEF FileStore!Refuse

LEMMA StepRefines ==
  IInv /\ [R1FSNext]_r1fsVars => [FileStore!FileStoreNext]_FileStore!fileVars
<1> SUFFICES ASSUME IInv, [R1FSNext]_r1fsVars
             PROVE  [FileStore!FileStoreNext]_FileStore!fileVars
  OBVIOUS
<1>1. CASE UNCHANGED r1fsVars
  <2>1. UNCHANGED <<op, payload, answer, result, stored, created, effects>>
    BY <1>1 DEF r1fsVars, absVars, histories
  <2>2. \A c \in Calls : SeenBy(c)' = SeenBy(c)
    <3>1. ASSUME NEW c \in Calls PROVE SeenBy(c)' = SeenBy(c)
      <4>1. \A b : Decoded(c, b)' = Decoded(c, b)
        BY <2>1, DecodedKept
      <4> QED
        BY <2>1, <4>1 DEF SeenBy
    <3> QED
      BY <3>1
  <2> QED
    BY <2>1, <2>2 DEF FileStore!fileVars
<1>2. CASE R1FSNext
  <2>1. FileStore!Known = Learned
    BY DEF FileStore!Known, Learned
  <2>2. ASSUME NEW c \in Calls, NEW o \in Operations(Learned),
               Call(c, o) \/ RefuseCall(c, o)
        PROVE  FileStore!FileStoreNext
    <3>1. FileStore!Begin(c, o) \/ FileStore!TurnDown(c, o)
      BY <2>2, CallRefines, RefuseRefines
    <3>2. op[c] = NoOperation
      BY <2>2 DEF IInv, Progress, Call, RefuseCall, Start, Refuse
    <3> QED
      BY <2>1, <3>1, <3>2 DEF FileStore!FileStoreNext
  <2>3. ASSUME NEW c \in Calls,
               SendRequest(c) \/ ReturnDecoded(c) \/ ReturnMisfit(c)
                 \/ ReturnError(c)
        PROVE  FileStore!FileStoreNext
    BY <2>3, SendRefines, DecodedRefines, MisfitRefines, ErrorRefines
    DEF FileStore!FileStoreNext
  <2>4. ASSUME NEW c \in Calls, NEW n \in 0..MaxRetries,
               StoreFile(c, n) \/ AnswerCalculation(c, n) \/ RemoveFiles(c, n)
                 \/ AnswerRead(c, n) \/ RefuseRequest(c, n)
        PROVE  FileStore!FileStoreNext
    BY <2>4, StoreRefines, CalculationRefines, RemoveRefines, ReadRefines,
       RefuseRequestRefines DEF FileStore!FileStoreNext
  <2> QED
    BY <1>2, <2>2, <2>3, <2>4 DEF R1FSNext
<1> QED
  BY <1>1, <1>2

\* Every behaviour of the client, its requests and the manager is one of the
\* shared files that an application is promised: what a call returns without
\* an error is what its last repetition found or did, and without a nonce
\* each repetition of an upload stores a file of its own.
THEOREM R1FSIsFileStore == R1FSSpec => ImplementsFileStore
  BY InitIInv, StepIInv, InitRefines, StepRefines, PTL
  DEF R1FSSpec, ImplementsFileStore, FileStore!FileStoreSpec
=============================================================================
