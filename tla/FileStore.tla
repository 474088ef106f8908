----------------------------- MODULE FileStore -----------------------------
(***************************************************************************)
(* What pkg/r1fs promises an application, without requests, responses or   *)
(* JSON: one set of files that all callers share.  As in SharedStore,      *)
(* every operation acts on it at single moments after it was called, at    *)
(* most MaxRetries + 1 of them, and one that returns without an error      *)
(* returns what it found, or did, at the last of these moments.            *)
(*                                                                         *)
(* An upload stores the caller's data as a file: the same one each time if *)
(* the caller named it by a nonce, a new one each time otherwise.  A       *)
(* delete takes away some of its files and says which.  Each may be turned *)
(* down, and each may still act when its caller has long been told of an   *)
(* error, or of success.                                                   *)
(* R1FS implements this specification.                                     *)
(***************************************************************************)
EXTENDS Naturals

CONSTANTS
  Calls,         \* the calls of the application
  MaxRetries,    \* how often a call may be repeated
  Operations(_), \* the operations on the files that callers know
  NoOperation,
  IsUpload(_), IsCalculation(_), IsRead(_), IsDelete(_),
  UsesReader(_), \* is the data read from a reader that others may have read?
  Empty,         \* what such a reader gives then
  Named(_),      \* did the caller choose the nonce?
  FilesOf(_, _), \* the files that an upload of some data may be stored as
  View(_, _),    \* what a read is to show of the files
  Lost(_),       \* what is shown when the reply lost its body
  Refused(_),    \* what may be shown of an operation that is turned down
  Misfits(_, _), \* may the caller be unable to use this result?
  Pending, Error, Misfit, Cid(_), Report(_), \* results
  Nothing,       \* no result yet
  Emptied        \* may what an operation did or found be lost on the way back?

VARIABLES
  op,     \* the operation of each call
  data,   \* what it has to upload
  result, \* what it returned
  files,  \* the files
  ever,   \* the files that were ever stored
  acts,   \* how often the call has acted
  seen    \* what the call knows of its last act: its result, or Nothing yet

fileVars == <<op, data, result, files, ever, acts, seen>>

FileStoreInit ==
  /\ op     = [c \in Calls |-> NoOperation]
  /\ data   = [c \in Calls |-> Empty]
  /\ result = [c \in Calls |-> Pending]
  /\ files  = {}
  /\ ever   = {}
  /\ acts   = [c \in Calls |-> 0]
  /\ seen   = [c \in Calls |-> Nothing]

Running(c) == op[c] # NoOperation /\ result[c] = Pending

\* The files that callers know by name.
Known == {result[c].cid : c \in {d \in Calls : result[d].kind = "cid"}}

\* Was another call given the reader of o?
Lent(c, o) ==
  /\ UsesReader(o)
  /\ \E a \in Calls \ {c} : UsesReader(op[a]) /\ op[a].content = o.content

TakeData(c, o) ==
  \/ data' = [data EXCEPT ![c] = o.content]
  \/ Lent(c, o) /\ data' = [data EXCEPT ![c] = Empty]

Begin(c, o) ==
  /\ op' = [op EXCEPT ![c] = o]
  /\ IF IsUpload(o) \/ IsCalculation(o) THEN TakeData(c, o) ELSE UNCHANGED data
  /\ UNCHANGED <<result, files, ever, acts, seen>>

\* A reader may have been read all the same.
TurnDown(c, o) ==
  /\ op'     = [op EXCEPT ![c] = o]
  /\ result' = [result EXCEPT ![c] = Error]
  /\ (UsesReader(o) /\ TakeData(c, o)) \/ UNCHANGED data
  /\ UNCHANGED <<files, ever, acts, seen>>

Acts(c) ==
  /\ op[c] # NoOperation
  /\ acts[c] <= MaxRetries
  /\ UNCHANGED <<op, data, result>>
  /\ acts' = [acts EXCEPT ![c] = @ + 1]

\* The caller of a call that is over, or that tries again, does not see it.
Sees(c, r) ==
  \/ Running(c) /\ seen' = [seen EXCEPT ![c] = r]
  \/ UNCHANGED seen

\* What a caller sees of an act that would show it r.
Shows(c, r) == Sees(c, r) \/ (Emptied /\ Sees(c, Lost(op[c])))

Store(c) ==
  /\ IsUpload(op[c]) /\ Acts(c)
  /\ \E f \in FilesOf(op[c], data[c]) :
       /\ Named(op[c]) \/ f \notin ever
       /\ files' = files \cup {f}
       /\ ever'  = ever \cup {f}
       /\ Shows(c, Cid(f))

\* The name that the data would have, without storing it.
Calculate(c) ==
  /\ IsCalculation(op[c]) /\ Acts(c)
  /\ \E f \in FilesOf(op[c], data[c]) : Shows(c, Cid(f))
  /\ UNCHANGED <<files, ever>>

\* Any of the files may stay; one that was not there is reported or not.
Remove(c) ==
  /\ IsDelete(op[c]) /\ Acts(c)
  /\ \E gone \in SUBSET (op[c].cids \cap files) :
       /\ files' = files \ gone
       /\ \E success \in {gone, op[c].cids \ files'} : Shows(c, Report(success))
  /\ UNCHANGED ever

Read(c) ==
  /\ IsRead(op[c]) /\ Acts(c)
  /\ Shows(c, View(op[c], files))
  /\ UNCHANGED <<files, ever>>

\* A caller need not be told of it: a read may show an empty file.
Refuse(c) ==
  /\ Acts(c)
  /\ \E r \in Refused(op[c]) : Sees(c, r)
  /\ UNCHANGED <<files, ever>>

\* What an earlier act has shown is given up for a new one.
TryAgain(c) ==
  /\ Running(c)
  /\ acts[c] <= MaxRetries
  /\ seen' = [seen EXCEPT ![c] = Nothing]
  /\ UNCHANGED <<op, data, result, files, ever, acts>>

Return(c, r) ==
  /\ Running(c)
  /\ result' = [result EXCEPT ![c] = r]
  /\ seen'   = [seen EXCEPT ![c] = Nothing]
  /\ UNCHANGED <<op, data, files, ever, acts>>

Reply(c) == seen[c] # Nothing /\ Return(c, seen[c])

ReplyMisfit(c) == Misfits(op[c], seen[c]) /\ Return(c, Misfit)

Fail(c) == Return(c, Error)

FileStoreNext ==
  \E c \in Calls :
    \/ /\ op[c] = NoOperation
       /\ \E o \in Operations(Known) : Begin(c, o) \/ TurnDown(c, o)
    \/ Store(c) \/ Calculate(c) \/ Remove(c) \/ Read(c) \/ Refuse(c)
    \/ TryAgain(c) \/ Reply(c) \/ ReplyMisfit(c) \/ Fail(c)

FileStoreSpec == FileStoreInit /\ [][FileStoreNext]_fileVars
=============================================================================
