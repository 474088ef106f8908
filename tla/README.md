# Specifications of edge_sdk_go

TLA+ modules, TLC runs and TLAPS proofs about the Go SDK in `src/`: the HTTP
client with its retry loop (`internal/httpx`), the decoding of Ratio1 responses
(`internal/ratio1api`), the CStore client (`pkg/cstore`) and the R1FS client
(`pkg/r1fs`).

    tlc -workers 2 -config retry.cfg HttpxClient     # any run of PROJECT.json
    tlapm HttpxClientProofs.tla                      # any *Proofs module

## 1. Inventory

### The parts and how they interact

    application goroutines
       |  Get Set HGet HSet HGetAll GetStatus     AddFile GetFile Delete ...
       v                                            v
    cstore.Client -> httpBackend              r1fs.Client -> httpBackend
       |        \                                /       |
       |         ratio1api.ExtractResult / DecodeResult   |
       v                                                  v
    httpx.Client.Do  -- one loop per call: attempt, failure, Backoff, sleep
       v
    net/http, the network, the upstream manager          (external)

The SDK starts no goroutine and keeps no cache: an operation runs in its
caller's goroutine from validation to the decoded result. Concurrency comes
from several callers, from the caller's context, which may end at any point,
and from the network, on which a request that was given up is still under way.
The only state that lives longer than a call is upstream.

| part | state | operations | hard behaviour |
|---|---|---|---|
| `httpx.Client` | immutable after `NewClient`; `Do` has a local attempt counter and *modifies the caller's Request* (`Body`, `GetBody`) | `Do`, `prepareBody`, `shouldRetry`, `sleep`, `handleError`, `ReadAllAndClose` | an attempt given up that takes effect later; replay of the body; the context ending at every point; bodies to close on every path |
| `httpx.Backoff` | base, max, jitter, a random generator | `NewBackoff`, `ForAttempt`, `addJitter` | shift and product overflow, conversion out of range, jitter after the cap |
| `ratio1api` | none | `ExtractResult`, `DecodeResult` | a string may be a document, in several layers of quotes |
| `cstore.Client`, `httpBackend` | a backend | the six operations above | repeated and late writes; refusals with status 200; null, missing and empty told apart or not |
| `r1fs.Client`, `httpBackend` | a backend | five uploads, two calculations of a CID, three reads, two deletes | repeated uploads and deletes; a reader consumed before the call is refused; a nonce that silently wins over another; replies without the fields looked for |
| `NewFromEnv`, `buildURL`, headers, encoders | none | | none that a property is about |
| `examples/` | none | sequential callers | none |

### What makes each part correct

* **httpx**: every attempt sends the whole payload (unless only `GetBody` can
  produce it and `DisableRetry` is set: then it is dropped); a failure before
  the retries are used up has one of three reasons; at most `MaxRetries`
  repetitions, none with `DisableRetry`, none after the call returned; no
  success without an effect upstream; at most one attempt, already past the
  check of the context, goes out after the context ended; no response body
  stays open; every call returns.
* **Backoff**: a delay is never so small that the loop becomes busy and never
  beyond its bound; doubling up to the cap.
* **ratio1api**: what is decoded is JSON; which values a round trip keeps.
* **cstore**: no acknowledgement of a write that was not carried out; a read
  that begins after an acknowledged write shows it; an acknowledged write is
  lost only to a write that is, or may still be, under way; no value under a
  blank name. To an application all of it together is one shared store.
* **r1fs**: the CID of an acknowledged upload is that of a file this call stored,
  with all of the caller's data; a file disappears, or comes back, only through
  a call that is, or may still be, under way; a report of removals is complete;
  a read shows what was uploaded, and an error where nothing was, except where
  the reply is one that decodes to nothing. To an application all of it together
  is one shared set of files.

`PROJECT.json` lists the hazards line by line, each with the properties that
cover it.

## 2. The modules

| module | models | variables |
|---|---|---|
| `AtLeastOnce` | what `httpx` promises, abstractly | `outcome`, `limit`, `sent`, `effects` |
| `HttpxClient` | `Client.Do` and `ReadAllAndClose`, for any number of concurrent calls | `pc`, `attempt`, `req`, `ctx`, `err`, `reply`, `openBodies`, `wire`, `applied`; history `asked`, `sent`, `late` |
| `Backoff`, `MCBackoff` | `backoff.go` | `base`, `max`, `jitter`, `attempt`, `delay` |
| `Ratio1Response` | `response.go` as operators | none |
| `ValueCycle` | repeated Set/Get of one value | `held` |
| `SharedStore` | what `pkg/cstore` promises, abstractly | `op`, `result`, `stored`, `acts`, `seen` |
| `CStore`, `MCCStore` | `pkg/cstore/client.go`, on `AtLeastOnce` and `Ratio1Response` | those of `AtLeastOnce`, `op`, `answer`, `result`, `stored`; history `writer`, `accepted`, `before` |
| `CStoreOverHttp`, `MCCStoreOverHttp` | the same operations on the retry loop itself | those of `HttpxClient` and of `CStore` above `AtLeastOnce` |
| `FileStore` | what `pkg/r1fs` promises, abstractly | `op`, `data`, `result`, `files`, `ever`, `acts`, `seen` |
| `R1FS`, `MCR1FS` | `pkg/r1fs/client.go`, on `AtLeastOnce` and `Ratio1Response` | those of `AtLeastOnce`, `op`, `payload`, `drained`, `answer`, `result`, `stored`; history `created`, `removed`, `before` |
| `HttpxClientProofs`, `BackoffProofs`, `Ratio1ResponseProofs`, `ValueCycleProofs`, `CStoreProofs`, `SharedStoreProofs`, `CStoreOverHttpProofs`, `R1FSProofs` | the theorems | |

The layers, and the refinements between them, which are all checked and proved:

    SharedStore   FileStore    what an application sees
       ^             ^ implemented by
    CStore         R1FS        the operations, on the contract of httpx
       |             |
    AtLeastOnce                the contract
       ^ implemented by
    HttpxClient                the retry loop

    CStoreOverHttp = CStore's operations joined to HttpxClient: implements
                     HttpxClient, CStore and through it SharedStore

### HttpxClient

A step of the model ends where the goroutine can be held up or overtaken: at
the network, at the timer, at a look at the context. `pc` follows the text of
`Do`:

| `pc` | place in `Do` | steps |
|---|---|---|
| `idle` | before the call | `Begin` (the body is made replayable), `Reject` (early returns) |
| `loop` | `select` on `ctx.Done()` | `ContextLive`, `ContextEnded` |
| `send` | `prepareBody`, `NewRequestWithContext`, start of `httpClient.Do` | `SendAttempt` |
| `wait` | inside `httpClient.Do` | `ReceiveResponse`, `AttemptFails`, `AttemptTimesOut` |
| `response` | `handleError`, or the caller's `ReadAllAndClose` | `HandleError`, `ReadResponse`, `ResponseTimesOut` |
| `failed` | `shouldRetry` | `Retry`, `GiveUp` |
| `sleep` | `sleep` | `WakeUp`, `SleepCancelled` |
| `returned` | | |

The environment adds `CancelContext`, possible until the call has returned, and
`ServerStep`: a request in flight is handled at any time, also when the client
has given it up, with any status and, for a server error, with or without
effect. A request never handled is a lost one. Status codes are four classes,
as many as `Retryable` and `shouldRetry` tell apart.

`shouldRetry` is modelled as `SaysYes` and `SaysNo`, which are both possible
when the application supplies a `RetryIf`. The tests of status codes at its end
are not in the model because no call reaches them: both call sites pass a
non-nil error (see finding 1). A request may have a `Body`, a `GetBody`, both
or neither, and `DisableRetry` or not (`RequestShapes`); `asked` keeps it as the
caller made it, `Normalised` is what `Do` makes of it. One shape loses its
payload: with `DisableRetry`, `Do` sets `GetBody` to nil (line 133) without
looking whether there is a `Body`, `prepareBody` falls through to `http.NoBody`,
and the call may succeed. `Owed` says so, and the properties about payloads use
it. No request of `pkg/` sets `DisableRetry`; nothing documents the combination,
so it is stated as an exception and not as a finding.

Left out: headers, URLs, the text of errors, and a `GetBody` that fails (those
in `pkg/` cannot). External, and modelled from how the code uses it: net/http
(an exchange ends with a response, with a failure, or cut short by the context
or `Client.Timeout`; whether the latter matches `context.DeadlineExceeded`
depends on the release, so both are possible: as `"deadline"`, which recent
releases produce and which the default policy gives up on although the caller's
context is live, or as `"transport"`, which it retries) and the upstream
manager, which carries out what it answers with a status below 400, and nothing
that it answers with a 4xx. net/http's own transparent resending on a stale
connection is taken for part of one attempt.

### AtLeastOnce, and the refinement

`AtLeastOnce` is the contract the packages above rely on: an active call is
sent at most `limit + 1` times; each repetition takes effect at most once, at
any time after it was sent, even after the call returned; success means that
the last repetition took effect; failure means nothing; a refused call never
has any effect. `HttpxClient` implements it under the mapping

    outcome <- OutcomeOf(c)   from pc and err
    limit   <- LimitOf(c)     0 with DisableRetry, else MaxRetries
    sent    <- sent           a history variable
    effects <- EffectsOn(c)   the attempts of c among the applied requests

This is run `retry`'s `ImplementsAtLeastOnce`, and a theorem.

`StepsLeft(c)` measures how far a call is from its return: six places to a round
of the loop, and `MaxRetries - attempt` rounds. `LoopRunsDown` says that each
step of the goroutine lowers it and nobody else's step changes anything it is
made of, so a call makes at most `6 * MaxRetries + 6` steps. This is the part of
termination that asks nothing of the scheduler; that no step waits for ever is
the other, `EveryCallReturns`.

### Ratio1Response and ValueCycle

Whether a string is "a document in quotes" is all that `ExtractResult` asks of
it, so a text is a core (`null`, `true`, `1`, `42`, an object, words that are
no JSON, ...) inside some number of layers of quotes, and the loop of four
`strconv.Unquote`s takes off up to four. JSON quoting and Go quoting are not
told apart; the two differ in a few escapes. `ValueCycle` writes a value and
reads it back, again and again, to see what the format alone does to it: a value
that is not transparent loses layers of quotes at each round and nothing else
(`OnlyQuotesAreLost`), so it comes to rest.

### CStore

`CStore` EXTENDS `AtLeastOnce`: its actions conjoin those of the promise with
the state of this layer, so a CStore call is repeated, delayed and overtaken
exactly as `httpx` allows, without `httpx`'s program counters.

| action | code |
|---|---|
| `Call` | the checks of names in `setRawJSON`, `getHashItem`, ... and the `Do` of `httpBackend` |
| `RefuseCall` | the early returns: blank name, no backend, a value that does not encode, an error of `Do` before sending |
| `SendRequest` | an attempt of `Do` |
| `ReturnDecoded` | `ExtractResult` or `decodeBoolResult`, then `decodeItem`, `decodeHashItem`, `decodeHashItems` |
| `ReturnMisfit` | `Get`/`HGet` with an `out` the value does not fit |
| `ReturnError` | an error of `Do` or `ReadAllAndClose` |
| `AcceptWrite`, `RejectWrite`, `AnswerRead` | the upstream manager (external): it carries a repetition out and answers it |

A refusal with status 200 (`RejectWrite`) takes up the repetition but does not
store. `Emptied` lets any reply of status 200 arrive without its body. `writer`,
`accepted` and `before` are history variables: who wrote a slot last, whose
write was ever carried out, and which calls had returned when a call began.
`DecodedFields` and `DecodedStatus` keep apart what the code keeps apart: null is
no result, an object without entries is no items but an empty status, and
anything else is a decode error.

`CStore` allows a little more than the code: a repetition's answer may reach a
call whose attempt was in fact given up already, which `AtLeastOnce` does not
tell from one that arrived in time. Safety properties that hold here hold of
the code's smaller set of behaviours. The two violation runs rely on nothing of
the kind.

### SharedStore

`SharedStore` has no requests, responses or JSON. A call acts on the store at
single moments, at most `MaxRetries + 1` of them and possibly after it was over;
one that returns without an error returns what it found or did at the last of
them. A write that acts stores its value or is turned down. `CStore` implements
it (`ImplementsSharedStore`) with

    acts <- how many repetitions of c took effect       Cardinality(effects[c])
    seen <- what the answer on its way would decode to  SeenBy(c)

so a lost, blank, quoted, refused or late reply is always one of the few things
the abstract store can do, and a decoder that makes an acknowledgement out of
anything else breaks the refinement.

### CStoreOverHttp

`CStore` trusts `AtLeastOnce` for the layer below. `CStoreOverHttp` does not: it
takes the actions of `HttpxClient`, each of which it joins to what the step
means above. A request that takes effect also changes the store; a loop that is
over also decodes the body, or returns its error. Contexts, timeouts, response
bodies and the network are those of the loop. `outcome`, `limit` and `effects`
are functions of the loop's state (`OutcomeOf`, `LimitOf`, `EffectsOn`), `sent`
is shared, and under that mapping the composition implements `CStore`
(`ImplementsCStore`): what is shown of `CStore` holds of the code's two layers
together, and section 4 proves that it does.

### R1FS

| action | code |
|---|---|
| `Call` | `io.ReadAll` of the caller's data, the checks, the encoding and the `Do` of `httpBackend` |
| `RefuseCall` | the early returns: no backend, no data, no name, a blank CID, an error of `Do` before sending. A reader may have been read to its end by then, because the name is checked after `io.ReadAll` |
| `SendRequest` | an attempt of `Do` |
| `ReturnDecoded` | `ExtractResult`, then the decoding of a CID, a file, a document or a report |
| `ReturnMisfit` | `GetYAML` with an `out` the document does not fit |
| `ReturnError` | an error of `Do` or `ReadAllAndClose` |
| `StoreFile`, `AnswerCalculation`, `RemoveFiles`, `AnswerRead`, `RefuseRequest` | the R1FS manager (external) |

A content stands for the data with its secret and its name, and the path that
`GetFile` returns for the content found there. A CID says format, content and
nonce. The manager takes a nonce of its own for each request that carries none,
as the server in `client_test.go` does; here it is the pair of call and
repetition, so that it is never taken twice. `NonceSent` is what
`applyDataOptions`, `applyPathOptions` and `applyBodyJSON` make of the options;
the first writes their nonce over the argument of a calculation. A caller can
only name CIDs that some operation has returned (`Learned`), so a read of a file
nobody has stored is one of a calculated CID.

Each content has one reader that several callers may be given (`shared`);
`drained` are those that were read. Reading it again gives nothing, so the
later upload is one of no bytes and is acknowledged as such.
`AckedUploadIsWhole` makes an exception for exactly that.

`RemoveFiles` may fail for any of the files asked for, and may count one that
is not there as removed or as failed: the client cannot tell. `AnswerRead` shows
the file that is there; of one that is not, `/get_yaml` says `error` and the
others answer 404, which is an error of `Do`. `RefuseRequest` is an answer of
status 200 that carries nothing out, to any of the twelve operations, reads
included and whether there is a file or not: the text `error` in an envelope,
an object without the fields, null, or a page that is no JSON. Of null, of a blank
reply and of an object without the fields `GetFile` and `GetFileBase64` make a
location without a path and an empty file, without an error, and `GetYAML` makes
no document or an empty one (`SilentBodies`). Surrounding blanks of CIDs and
names, which are trimmed, are not modelled.

### FileStore

`FileStore` is to `R1FS` what `SharedStore` is to `CStore`: no requests, no
replies, no fields to look for. An upload stores the caller's data, as the same
file each time if the caller chose the nonce and as a new one (`f \notin ever`)
otherwise; a delete takes away some of its files; a read shows what is there; a
calculation names a file without storing it. What is handed to the caller is the
last act's result, or what `Lost` says of a reply without a body, or `Refused`
of an operation that was turned down: an error, an empty file, no document, an
empty report. `R1FS` implements it (`ImplementsFileStore`) with

    data  <- payload
    files <- stored
    ever  <- every file any call created     UNION {created[c] : c \in Calls}
    acts  <- how many repetitions took effect  Cardinality(effects[c])
    seen  <- what the reply on its way would decode to  SeenBy(c)

The reader a caller may share shows at this level too: with `Lent` the data may
be `Empty`.

### Backoff

The doubling is integer arithmetic of `Width` bits; the shift of `uint(1)`
wraps to 0 and a product out of range becomes either end of the range, because
Go leaves that conversion of a float to the machine. Jitters are in quarters:
0, 25% (the default policy's), 100%, 150% and a negative one. Every
policy, every attempt and every jittered delay is enumerated. The `Mutex` in
`Backoff` is not modelled: every `Do` makes a `Backoff` of its own.

## 3. The runs

| run | states | question | result |
|---|---|---|---|
| `retry` | 39,224 | safety of `Do` under the default policy, its refinement of `AtLeastOnce`, does each step bring a call nearer to its return, and does every call return? | holds |
| `retry_notimeout` | 30,136 | a CStore operation on the retry loop, without `Client.Timeout` and with any `RetryIf`: does it implement `CStore`, return once its context ended, and send at most one more attempt? | holds |
| `retry_transient` | | are only transient failures retried? | violated, finding 1 |
| `backoff` | 57,419 | delays through every overflow | holds |
| `value_cycle` | 127 | which values survive a round trip, and what do the others lose? | exactly the transparent ones; quotes only |
| `value_cycle_roundtrip` | | do all? | violated, finding 2 |
| `cstore` | 3.0 million | three calls on a key: reads after acknowledged writes, lost writes | holds |
| `cstore_hash` | 199,024 | all six operations, null values, blank names, replies without a body: what passes for an acknowledgement, and is it all one `SharedStore`? | holds |
| `cstore_overwrite` | | can an acknowledged write be undone by an older acknowledged one? | violated, finding 3 |
| `cstore_notfound` | | is a missing key reported? | violated, finding 4 |
| `r1fs_uploads` | 536,188 | two calls that upload, calculate, read and delete, shared readers, refusals of every operation: what has an acknowledged upload stored, what does each read make of a file that is there or missing, and is it all one `FileStore`? | holds |
| `r1fs_files` | 1.8 million | three calls that store, read and remove a file: what are an acknowledged upload and a report of removals worth, also to a later read? | holds |

`CHECK_DEADLOCK FALSE` everywhere: a call returns and is over, and a finite set
of calls comes to an end.

### Bounds, and why they are enough

* `Calls = {c1}` in the `retry` runs. Calls of `Do` share only the immutable
  `Client`; no action of one call reads or writes another's entry of the loop's
  state. In `retry_notimeout` calls also share the store, and two of them take
  longer than a run should. The proofs hold for any set of calls, for the
  composition too.
* `MaxRetries = 3` is the default policy's: first, middle and last repetition all
  occur, and `DisableRetry` gives calls without any. The composition, with more
  to enumerate, has 2. The proofs cover every other value, 0 included.
* `MaxRetries = 1` above the loop: one repetition is what makes a request late or
  an effect double. A second one adds nothing that a second call does not, and
  the proofs cover every value.
* Two or three calls: a lost write needs two, a read that should have
  shown it a third. Calls are interchangeable and no property names one, so
  `CallSymmetry` is sound; no liveness is checked with it.
* `r1fs_uploads` has one content and one nonce, which a call has or has not; the
  content that differs from the caller's is `Empty`. Its reads can follow an
  upload by each of the three operations. Two calls suffice, as each of its
  invariants relates at most two, and two are enough for one to act between the
  act and the return of another. Ten of the twelve operations occur; `AddPickle`
  and `CalculatePickleCID` take the steps of their JSON namesakes with another
  format.
* `r1fs_files` has three calls, so that an upload, its delete and a second upload
  or a read can overlap in any way, and one operation of each sort; the others
  of a sort share its actions.
* One key suffices for interference, as slots are independent upstream;
  `cstore_hash` has two hash fields so that `HGetAll` returns a hash with one
  field, with several and with none.
* `Values`: an ordinary string, a string of digits (it changes on the way) and
  null (it disappears).
* `MaxQuotes = 12`: `ExtractResult` strips five layers at most, so 12 is two
  round trips and more.
* `Width = 5`, `LastAttempt = 7`: every positive duration of that width occurs
  as base and as max, and the last attempts lie beyond the shift's width. The
  proofs cover any width in which the default delays fit.

### Fairness

Only `retry` (`FairSpec`) and `retry_notimeout` (`OverHttpFairness`, the same for
the steps that the layer above has joined) assume any:

* `Unblocked`: a goroutine that waits for nothing, or for a timer, goes on. Go's
  scheduler and timers guarantee that.
* `AttemptTimesOut`, `ResponseTimesOut`: an exchange, or the reading of a body,
  that is cut short continuously ends. net/http does that for a context that has
  ended and for an expired `Timeout`, which covers reading the body too.

Nothing is assumed of the network, of the server or of the caller: no request
need arrive, no response need come, no context need end.

## 4. The proofs

For every set of calls, every `MaxRetries \in Nat` and both values of
`RetryIfSet` and `ClientTimeout` (the only assumptions are those named in
`HttpxClient`), `HttpxClientProofs` proves of `Spec`:

* `TypeCorrect`, `BodyIsReplayed`, `NoLeak`, `OneLateAttempt`, `OkWasApplied`
  and `EarlyFailureHasReason`: every invariant of run `retry`;
* `Implementation`: `Spec => ImplementsAtLeastOnce`;
* `LoopTerminates`: `LoopRunsDown`, and that `StepsLeft` never exceeds
  `6 * MaxRetries + 6`. A step within a round goes to a later place
  (`SameRound`); a retry pays for the six places of the next round with one of
  the attempts that are left (`NextRound`), of which `TypeOK` says that they are
  a natural number.

None of the invariants is inductive. `IInv` adds what each needs:

* `SentSoFar`, `SentCounted`: which attempts the network may hold, and how many
  were sent given where the goroutine is. Without them a `Retry` could reuse an
  attempt's number, and the refinement could not tell the last repetition.
* `PayloadAtHand`: as long as an attempt may still be sent, the payload can still
  be produced - from `GetBody`, or from `Body` if this is the first and only
  attempt - unless `Do` dropped it. `BodyReplayed` follows at `SendAttempt`.
* `ErrorKnown`: where an error can be nil or "invalid".
* `ReplyTold`: a success the goroutine may still learn of has taken effect in
  this attempt. `OkMeansApplied` and, with `ErrorKnown`,
  `EarlyFailureExplained` follow.
* `BodiesCounted`: exactly one body is open while a response is read.
* `LateCounted`: no late attempt yet while the context is live *or* the
  goroutine has passed the check; hence at most one.

`StepIInv` has one step per action; `Invariance` puts it together. The
refinement maps `Begin` to `Start`, `Reject` to `Refuse`, `SendAttempt` to
`Send`, an effective `ServerHandles` to `TakeEffect`, the steps that return to
`Succeed` or `Fail`, and all others to stuttering.

`BackoffProofs` proves `WaitsAlways`, `JitterInBounds`, `DoublesExactly` and
`DelaysGrow`, for integers of any width of at least 4 bits (so that the default
delays, 1 and 4 units here, fit), any durations and jitters, and any number of
attempts. The exact doubling is a statement about `base * 2^n` for every `n`.
What it needs of powers, that they are positive and grow, would take an
induction; instead `2^n` is the cardinality of `SUBSET (1..n)`, of which the
library of finite sets knows both. `BInv` says that the delay is one that
`ForAttempt` returns under a normalised policy.

`ValueCycleProofs` proves, without a bound on the layers of quotes, that a value
stays JSON through any number of round trips (`StaysJSON`), survives exactly
if it is transparent (`RoundTripExactly`) and then never changes again
(`TransparentValuesStay`), and loses nothing but quotes otherwise
(`QuotesRunOut`).

`CStoreProofs` and `SharedStoreProofs` prove every property that the two passing
CStore runs check, for any number of calls, any keys, fields and
`Values \subseteq JSONTexts`, any `MaxRetries` and both values of `Emptied`.
The invariant `IInv` of `CStoreProofs` adds

* `Progress`: a call that sent anything passed `Valid`; repetitions that took
  effect were sent; a call whose last repetition took effect has an answer, so
  what `ReturnDecoded` decodes is never the absence of one;
* `AnswersTrue`: the answer to a write is one of the bodies upstream or a proxy
  can send, and an accepting one comes only after the write was carried out. With
  lemma `OnlyAcceptAcks` (no other body passes `decodeBoolResult`) this gives
  `AckMeansAccepted`; for reads, with `ItemsAreJSON`, the type of items;
* `HistoryKept`: the calls before a call were over when it began;
* `WritesOver`: a call that was acknowledged without a repetition has used up
  its only request, so it is not the last writer of a slot that a later call's
  write has reached. `LossNeedsRepetition` follows with `AckMeansAccepted`.

`WithoutRetriesAcksStay` is the other side of finding 3: with `MaxRetries = 0`,
which `WithRetryPolicy` allows, `AckedWritesStay` does hold.

`CStoreIsSharedStore` (`CStoreSpec => ImplementsSharedStore`) needs `SInv`, which
adds that an idle call has no operation, and lemmas on what each body decodes
to (`AcceptIsDone`, `RejectIsError`, `ReadIsView`). That a call acts at most
`MaxRetries + 1` times is a count of the repetitions that took effect, by the
facts about finite sets.

`ReadsAreFresh` (`ReadsFollowAcks`) needs `RInv`: a slot holds the value of its
last writer, which was accepted (`WriterKnown`); and whatever answer is on its
way to a read, or was returned to it, shows each write acknowledged before
the read began, unless the reply lost its body or another write was not out of
the way (`AnswersTold`). The excuse never goes away once it holds, which is what
makes the invariant inductive: a call that began does not unbegin.

`CStoreOverHttpProofs` proves `Composition`
(`OverHttpSpec => ImplementsCStore`) and `OperationsStopInTime`. Every step of
the composition is one of the loop (`JoinedSteps`), so the invariant of
`HttpxClientProofs` holds of it. `HandledOnce` is new: no request is in flight
whose attempt took effect before. Without it a request could act on the store
a second time while `effects`, a set, does not change.

The composition inherits from both sides. From below: it implements the retry
loop (`OperationsUseTheLoop`: `OverHttpSpec => Spec`), so the theorems about
`Do` for arbitrary callers hold of the six operations
(`OperationsKeepTheLoop`: no leak, whole bodies, `LoopRunsDown`,
`ImplementsAtLeastOnce`). From above: `Upper` is `SharedStoreProofs` under the
mapping of `Store`, so its theorems can be cited for the composition once its
assumptions are discharged (`UpperAssumptions`, from `StoreAssumption`) and
`CStoreSpec` as `Upper` has it is the one of `Composition` (`OverHttpIsCStore`;
the lemmas `Same...` say that the definitions of the two instances agree). Hence
`AcksAreTrueOverHttp`, `ReadsAreFreshOverHttp`, `OnlyRepetitionLosesOverHttp` and
`SharedStoreOverHttp`: what an application is promised, from the operation
through the retry loop, its contexts, timeouts and response bodies, down to a
network that loses, delays and repeats.

`R1FSProofs` proves every property of the two R1FS runs, for any calls,
contents, nonces and `MaxRetries`. Its invariant has one idea. `Truthful(c, r)`
says what the result `r` is worth: of an upload, that `c` stored the file; of a
read, that it shows the file asked for or nothing; of a delete, that what is
reported and present was stored by an upload not over before. `ReplyTrue(c, b)`
says what a reply to a read has to do with the files: it shows the file, which
then was not missing (`NoFileFor`) when the read began; or it evades the
question, as a refusal or a lost body does; or it denies the file, which a
delete then excuses (`Excused`). `ResultsTrue` says the first of what was
returned, and `AnswersTrue` both of the answer on its way and what it decodes
to; they survive every step, because a repetition that takes effect belongs to a
call that is not over, for anyone who began before (`FilesMoveOn`, and the
lemmas `NotOverKept` to `TruthKept`). `LossExplained` does the same for the
files that are gone, and the reads rest on it. `UploadsAreSeen` and
`NothingIsMadeUp` are about the step in which a read ends, as only that step has
both the reply and the result: `ReadReturns` says that the result is what the
reply decodes to, and `ReadDecoded` and `EvasiveAnswers` what each reply can
decode to. `WithoutRetriesNoOrphans` adds that a client without retries leaves
no file behind that it does not know.

`R1FSIsFileStore` (`R1FSSpec => ImplementsFileStore`) uses the same invariant and
has one lemma per action. `ActsBounded` counts the repetitions that took effect
with the facts about finite sets; `SeenShape` and `IdleSeen` say what the reply
on its way can decode to; `DataTaken` relates the drained reader to `Lent`. That
an upload without a nonce stores a *new* file is where the invariant is needed:
a file without a caller's nonce is named by its call and repetition, and this
repetition has not taken effect before (`UnnamedIsNew`).

Only model-checked: liveness (`EveryCallReturns`, `EndedContextReturns`), because
fairness and ENABLED are out of the prover's reach. Of `EveryCallReturns` the
part without fairness is proved (`LoopTerminates`). The violation runs show that
something can happen, which is TLC's to show; what remains true of two of the
four claims is proved (`WithoutRetriesAcksStay`, `TransparentValuesStay`).

## 5. Findings

1. **Final errors are retried** (`retry_transient`). `shouldRetry` sees a non-nil
   error for every status from 400 up and returns true before it looks at the
   status; `HTTPError.Retryable` (the operator `Retryable`, which nothing in the
   module but this property uses) and `RetryPolicy`'s comment speak of transient
   failures only. A 404 is sent four times.
2. **A value may come back as another** (`value_cycle_roundtrip`). A JSON string
   whose content is a document is unwrapped: the string `42` as a number, the
   string `null` as a missing key. `HGetAll` does not unwrap, so it shows the same
   field differently.
3. **No concurrency control** (`cstore_overwrite`). The README speaks of
   "optimistic concurrency semantics"; a late repetition of an acknowledged
   `Set` silently replaces a later acknowledged one. `LossNeedsRepetition` shows
   how far it goes: a write that was acknowledged without a repetition never
   does so.
4. **`ErrNotFound` is never returned** (`cstore_notfound`). A missing key is
   `nil, nil`, and so are a stored null and a reply that lost its body. The
   `ErrNotFound` of `pkg/r1fs` (types.go:50) is not returned either; a missing
   file ends in some other error there, or in none, if the reply is blank, null or
   an object without the fields (`MissingFileReported`).

Two more things the model shows that no document speaks of, and that are therefore
exceptions in a property rather than findings: `DisableRetry` drops a payload that
only `GetBody` can produce, and the call may succeed (`BodyReplayed`,
`OkMeansApplied`); and where the error of `Client.Timeout` matches
`context.DeadlineExceeded`, the default policy does not retry a timeout, whether or
not the caller still waits (`EarlyFailureExplained`). One property rests on an
assumption about the manager beyond what the client needs of it:
`OrphansNeedRepetition` takes it that equal data with an equal nonce has an equal
CID, which the server of `client_test.go`, numbering its files, does not do.

## 6. Not modelled

`NewFromEnv` (a read of the environment); `buildURL`, `cloneHeader`,
`WithJSONBody` and the other encoders (functions on strings whose content no
property is about); a custom `Backend` (the application's code); `examples/`
(sequential callers of the public API). Of what is modelled, left out are
headers, the text of errors, the trimming of names and CIDs, and the encoding of
secrets and file names, which are part of a content.

## 7. Plan

The order followed: the retry loop, because everything above depends on what it
guarantees; its contract `AtLeastOnce`; the response format; CStore on top of
both; the delays; R1FS; the promises `SharedStore` and `FileStore`; the
composition `CStoreOverHttp`; the proofs of each, and those that carry them
through the composition. What could follow:

1. R1FS on the retry loop itself, like `CStoreOverHttp`. Its seam with the loop is
   the one already proved, so the modules would differ in the upper layer only.
2. The composition with two calls on one key, if longer runs are acceptable; the
   theorem `Composition` covers it.
3. The manager's side with replicas, should its code join the repository: it is
   external here, and a single store.
