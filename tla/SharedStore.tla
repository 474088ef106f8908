---------------------------- MODULE SharedStore ----------------------------
(***************************************************************************)
(* What pkg/cstore promises an application, without requests, responses or *)
(* JSON: one store that all callers share.  Every operation acts on it at  *)
(* single moments after it was called, at most MaxRetries + 1 of them, and *)
(* one that returns without an error returns what it found, or did, at one *)
(* of these moments while it was being called - the last one it tried.     *)
(* A write acts by storing its value or by being turned down; it may still *)
(* act when its caller has long been told of an error, or of success.      *)
(* CStore implements this specification.                                   *)
(***************************************************************************)
EXTENDS Naturals

CONSTANTS
  Calls,      \* the calls of the application
  MaxRetries, \* how often a call may be repeated
  Operations, NoOperation,
  Slots,      \* where the store keeps values
  Missing,    \* where nothing is stored
  IsWrite(_), \* does the operation store its value in its slot?
  View(_, _), \* what the operation is to show of the store
  Misfits(_), \* may the caller be unable to use this result?
  Pending, Error, Misfit, Done, Absent, \* results
  Nothing,    \* no result yet
  Emptied     \* may what an operation did or found be lost on the way back?

VARIABLES
  op,     \* the operation of each call
  result, \* what it returned
  stored, \* the store
  acts,   \* how often the call has acted
  seen    \* what the call knows of its last act: its result, or Nothing yet

sharedVars == <<op, result, stored, acts, seen>>

SharedInit ==
  /\ op     = [c \in Calls |-> NoOperation]
  /\ result = [c \in Calls |-> Pending]
  /\ stored = [s \in Slots |-> Missing]
  /\ acts   = [c \in Calls |-> 0]
  /\ seen   = [c \in Calls |-> Nothing]

Running(c) == op[c] # NoOperation /\ result[c] = Pending

Begin(c, o) ==
  /\ op[c] = NoOperation
  /\ op' = [op EXCEPT ![c] = o]
  /\ UNCHANGED <<result, stored, acts, seen>>

TurnDown(c, o) ==
  /\ op[c] = NoOperation
  /\ op'     = [op EXCEPT ![c] = o]
  /\ result' = [result EXCEPT ![c] = Error]
  /\ UNCHANGED <<stored, acts, seen>>

\* The caller of a call that is over, or that tries again, does not see it.
Sees(c, r) ==
  \/ Running(c) /\ seen' = [seen EXCEPT ![c] = r]
  \/ UNCHANGED seen

Acts(c) ==
  /\ op[c] # NoOperation
  /\ acts[c] <= MaxRetries
  /\ acts' = [acts EXCEPT ![c] = @ + 1]
  /\ UNCHANGED <<op, result>>

Write(c) ==
  /\ Acts(c) /\ IsWrite(op[c])
  /\ stored' = [stored EXCEPT ![op[c].slot] = op[c].value]
  /\ Sees(c, Done) \/ (Emptied /\ Sees(c, Error))

Refuse(c) ==
  /\ Acts(c) /\ IsWrite(op[c])
  /\ Sees(c, Error)
  /\ UNCHANGED stored

Read(c) ==
  /\ Acts(c) /\ ~IsWrite(op[c])
  /\ Sees(c, View(op[c], stored)) \/ (Emptied /\ Sees(c, Absent))
  /\ UNCHANGED stored

\* What an earlier act has shown is given up for a new one.
TryAgain(c) ==
  /\ Running(c)
  /\ acts[c] <= MaxRetries
  /\ seen' = [seen EXCEPT ![c] = Nothing]
  /\ UNCHANGED <<op, result, stored, acts>>

Return(c, r) ==
  /\ Running(c)
  /\ result' = [result EXCEPT ![c] = r]
  /\ seen'   = [seen EXCEPT ![c] = Nothing]
  /\ UNCHANGED <<op, stored, acts>>

Reply(c) == seen[c] # Nothing /\ Return(c, seen[c])

ReplyMisfit(c) == Misfits(seen[c]) /\ Return(c, Misfit)

Fail(c) == Return(c, Error)

SharedNext ==
  \E c \in Calls :
    \/ \E o \in Operations : Begin(c, o) \/ TurnDown(c, o)
    \/ Write(c) \/ Refuse(c) \/ Read(c)
    \/ TryAgain(c) \/ Reply(c) \/ ReplyMisfit(c) \/ Fail(c)

SharedSpec == SharedInit /\ [][SharedNext]_sharedVars
=============================================================================
