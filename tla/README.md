# A TLA+ model of nexus-sdk-go

nexus-sdk-go is the client side of the Nexus scheduler and receiver: a Go
package (`sdk`), and a C API over it (`main.go`) that other languages load as a
shared library. The modules in this directory model what the SDK does between
its caller and the two servers: awaiting runs, discovering them by tag, making
calls over a transport that retries, refreshing credentials under requests,
turning what a C program asks for into JSON and back, and handing results over
in C memory. TLC checks them on small instances; TLAPS proves the safety
properties of all the state machines for every value of the constants, and of
the liveness properties that none of the loops can go on for ever.

References are to `src/`; `scheduler.go` is `sdk/scheduler.go`.

## 1. Inventory

| component | state | operations | interacts with |
|---|---|---|---|
| Awaiting many runs: `awaitRuns`, `AwaitTaggedRuns` (scheduler.go:176-265, 377-398) | wait group, result channel of 10, one goroutine per run, a closing goroutine, the collected results | take an entry of the iterator, start a waiter, send a result, report progress, finish, close, collect, return | consumes a discovery iterator, calls `awaitRun` in every waiter, sends on the caller's `completed` channel |
| Progress of the C API: `AwaitRuns` (main.go:638-716) | `completed` channel of 10, a counter in foreign memory | count, close after the call | drains the channel the waiters send on |
| Polling one run: `awaitRun`, `AwaitRun`, `GetRun` (scheduler.go:118-174, 350-374, 432-444) | time waited, time waited on 404s | poll, sleep, return | requests of the generated client, the process context |
| Discovery: `getRuns`, `getRecentRuns`, `GetRunResults` (scheduler.go:267-348) | tag that is being listed, entries of its listing, latest run per tag | list a tag, read metadata, yield | `GetMetadata`; consumed by `awaitRuns` and main.go |
| Calls: `CreateRun`, `CancelRun`, `UpdateRunTag`, `GetMetadata`, `GetBufferedRequest`, `GetRunPayload`, `CompleteRequest`, `CheckRequest` (scheduler.go:400-588, receiver.go:74-120) | attempts of the retrying transport | send, retry, give up, map the answer | the generated clients, go-retryablehttp, the servers |
| Answers: decoders of the generated clients, type switches of the SDK, `mapApiError`, the error types | none | which answer is reported as what | every call |
| Routes and parameters (oas_client_gen.go of both clients) | none | from a call to a method and a path | every call |
| Schemas and JSON codecs (oas_schemas_gen.go, oas_json_gen.go, oas_validators_gen.go of both clients) | none | encode, decode, validate | every body |
| Run configuration of the C API: `CreateRun` (main.go:235-434) | none | validate and convert the overrides and the parent | `sdk.CreateRun` |
| Credentials: `auth.go`, `RefreshAuth`, `AddAuthHeader`, request options, `Create*Client` (scheduler.go:82-99, main.go:103-146, 779-786) | request options and token of each client | create, refresh, attach to a request | every request, concurrently with waiters |
| C data: result structs and arrays, strings, `Free*`, the pinner (main.go:3-74, 804-873) | C memory | allocate, fill, free, pin | the foreign caller |
| Run status: `IsFinished`, `IsSuccess` (util.go) | none | classify a stage | `awaitRun`, the C API |
| Construction, logging, signals; tests and build | | | |

What is hard here:

* *Concurrency.* `awaitRuns` has two bounded channels, a wait group, and up to
  n + 3 goroutines; the first error takes away the only receiver of one
  channel, and the caller then closes the other. Tokens are refreshed beside
  requests, without a lock.
* *Time.* `awaitRun` has two retry loops with one timeout between them, and
  sleeps that no context interrupts.
* *A server that does not stand still.* Discovery makes one request per tag
  and one per run, while runs are submitted and retagged.
* *Delivery.* The transport repeats requests that have an effect; an answer may
  be lost after the effect.
* *Partial failure.* Errors come with nil values beside them; a 404 for
  metadata is neither a result nor an error; one wrong member of an answer
  fails the whole of it.
* *Two ends of one table.* Ten requests with up to six decoded statuses in three
  content types, and a switch for each; fifty types with an encoder, a decoder
  and perhaps a validator; six C structs, which ten functions fill and six free.

What makes the components correct: a successful await returns every run once,
none of which failed; nothing is sent on a closed channel; the call comes back;
the counter adds up. Waiting is bounded by the timeout, and what is returned as
final is final. A listing leaves nothing out without saying so, and the latest
run of a tag is not passed over. A confirmed call has had its effect, and had it
on the run that was asked for. What is asked for is what is recorded. After a
refresh nobody uses the token it replaced. What the C API allocates is what its
caller can free.

`PROJECT.json` lists every component with its status, and every hazard at its
line with the properties that cover it, or why none does.

## 2. Modules

| module | models | lines |
|---|---|---|
| `AwaitAll` | what `AwaitTaggedRuns` promises: an abstract specification | scheduler.go:377-398 |
| `AwaitRuns` | `awaitRuns` and the progress counter of main.go | scheduler.go:176-265, main.go:659-676 |
| `AwaitRun` | the polling loop, with `AwaitRun` and `GetRun` as its callers | scheduler.go:101-174, 350-374, 432-444, util.go:7-16 |
| `RunDiscovery` | `getRuns`, `getRecentRuns` | scheduler.go:267-348, 446-465 |
| `Responses` | tables: decoded answers and the switches | the decoders of both clients, scheduler.go:400-588, receiver.go:74-120 |
| `Operations` | tables: methods, paths and parameters; how a service reads them | oas_client_gen.go of both clients |
| `Calls` | one call over the retrying transport | scheduler.go:42-80, 108-116, 532-566, main.go:526-589 |
| `Schemas` | the types that travel | oas_schemas_gen.go, and the field lists of oas_json_gen.go |
| `Wire` | encoding and decoding at one level of a body; validation | oas_json_gen.go, oas_validators_gen.go |
| `Codec` | encoding and decoding of whole bodies, by recursion | oas_json_gen.go |
| `RunConfiguration` | from the structs of the C function `CreateRun` to the members of a request | main.go:267-418 |
| `Submission` | the request around its parameters, or a refusal | main.go:235-434 |
| `Exchange` | one body between the program and a service that may be newer or wrong | oas_request_encoders_gen.go, the decoders |
| `Credentials` | refreshes and the requests beside them | auth.go, scheduler.go:82-99, receiver.go, main.go:103-146, 779-786 |
| `ForeignMemory` | what each C function sets, and what each Free function frees | main.go:3-74, 148-232, 419-868 |
| `AwaitRuns_proofs`, `AwaitRun_proofs`, `RunDiscovery_proofs`, `Calls_proofs`, `Credentials_proofs`, `ForeignMemory_proofs`, `RunConfiguration_proofs`, `Exchange_proofs` | proofs about the module they are named after | |
| `MCAwaitRun`, `MCRunDiscovery`, `MCExchange` | constants for TLC | |

`AwaitRuns` is shown to implement `AwaitAll`; `Calls` is composed of `Responses`
and `Operations`; `Exchange` of `Submission`, `Wire` and `Schemas`, with the
operators of `Codec` as the values of its constants. Between
the state machines the connection is by assumption and result: that a waiter of
`AwaitRuns` returns at all is what `AwaitRun` shows of it, that a poll or a
listing comes back with one of the answers `AwaitRun` and `RunDiscovery` know is
what `Calls` shows of `GetResult` and `GetResults`, and that every body is read
whole or not at all, which lets the others speak of answers as "decoded" or
not, is what `Exchange` shows.

Operators named as mutations in the comments are altered copies of the
definition they precede. They are used by no specification; each shows that a
property notices a plausible mistake in that place.

### AwaitRuns

Each entry of the iterator is an element of `Runs`, and stands for the waiter
started for it. `waiter[r]` is the place of that goroutine: `awaiting` is inside
`awaitRun`, `sending` before the send on `resultChannel`, `reporting` in the
deferred function before the send on `*completed`, `finishing` before `wg.Done`.
`outcome[r]` is what it has to send. `caller` is the calling goroutine:
`iterating` over the runs, `collecting`, `returned`, and `closed` once main.go
has closed the progress channel. The result channel is kept as the sequence of
runs whose message is in it, the progress channel as a number. `progress` is
what the caller does with the progress channel: `none` (nil), `drained` (as
main.go), or `unread` (as the test, which never reads it).

Every send, receive, `Add`, `Done`, close and return is an action; taking a run
from the iterator and starting its waiter is one, since nothing else can see
the moment between `wg.Add` and `go`. What `awaitRun` answers is free here. A
send on the closed progress channel sets `crashed`, and nothing moves any more.
The logging between the steps is left out.

### AwaitRun

`stage` is the run at the scheduler: not recorded yet, then through its
lifecycle. `loop` is where the polling loop is, `response` the last answer,
`waitTime` and `invalidRequestResponseDuration` the two durations the code
keeps, under their names; time is only what the loop has slept, as in the code.
`call` holds the parameters: the caller, the interval and the timeout, either of
which may be nil. Each branch of the switch and each `if` in it is an action of
its own. A poll sees the run as it is then; between the answer and what the
loop does with it the run may move on. `waitTime` is kept only if a timeout is
set, because nothing else reads it. The goroutine and the channel of `AwaitRun`
only hand the outcome over, and are left out.

### RunDiscovery

`tag`, `receivedAt`, `matching` (the algorithm's name) and `described` (whether
the metadata can be read) are the scheduler's, which submits, retags and loses
runs between any two steps. The iterator lists a tag in one request, and the
entries are then consumed one by one; for recent runs each costs a metadata
request, which sees the tag the run has *then*. `latestRunByTag` is the map of
the code, `yielded` what the consumer got. The consumer of `getRuns` may stop at
any entry (main.go:161 does, at the first error). `settled` is history: the runs
nobody has touched since the call. Times are compared as numbers; the code
compares them as text, see section 6.

### Responses, Operations and Calls

`Responses` has two sets for every request: the (status, content type) pairs
that the generated client decodes, and the cases of the SDK's switch over what
was decoded. What is not decoded comes back as an error, which `mapApiError`
makes an `SdkErr`, as the default case does. `Operations` has the method and
path of each request, as the generated client puts them together, and the
templates the services serve; an empty name makes a path with an empty segment,
which no template matches.

`Calls` sends a request through the transport: `Send`, then perhaps `Apply` at
the server, then an answer, a failed connection, or the end of the client's
time limit. 429 and 5xx (but 501) and failed connections are retried up to
`RetryMax` = 10 times, whatever the method of the request; a 5xx that is left at
the end becomes an error of the transport, not a response. This is how
go-retryablehttp, which is not part of the repository, treats the configuration
of scheduler.go:44-54 and receiver.go:26-36. `GetRunPayload` makes a metadata
request first, and uses what it returns, as `GetRequestMetadata` of main.go
does. `handled` is what the server has taken the requests for, by `Operations`.

### Schemas, Wire, Codec, Submission and Exchange

A type of `Schemas` is a record with its kind, its fields and which of them are
required, named after the Go type. The generated code is one encoder, one
decoder and sometimes one validator per type, all of the same shape; `Wire` has
that shape once, for one level: how a value is written when its parts are
(`Written`), how a document is read when its items are (`ReadFrom`). It names
the validators, which are not uniform: which fields are visited is what may be
wrong about them. `Codec` is the recursion from level to level and nothing else,
in a module of its own because no proof can be about a RECURSIVE operator;
`Wire` and `Exchange` speak of `Encoded`, `Decoded` and `Order` as constants,
which the configuration of the run gives the operators of `Codec`. `Changed` and
`KnownModes` are constants for the same reason, with `ChangedSomewhere` and
`KnownModesOnly` of `MCExchange`. A
member that is null is refused, one that is unknown is skipped, and one that is
repeated counts as it came last, but for the required map of parameters, which
gathers. `RunConfiguration` and `Submission` are what main.go does with its C
arguments: a C struct is the function of its pointers that are not NULL, an
`Opt` a member with its flag `Set`, and a struct on the Go side the function of
the members that are set, which is all the encoder looks at. `RunConfiguration`
also says where each field of the C struct is to be found in the request
(`Place`) and what it means (`Meant`).

In `Exchange` a body is made (from what a C program asks, or any value of its
type), validated, encoded, perhaps changed by the service in one place of the
document, at any depth, and decoded. What the scheduler keeps of a submission
comes back as metadata, so that one can ask of the whole way whether what was
asked for is what is recorded. The assumptions of `Exchange` say which types,
values and requests there are: types are as deep as `Depth` says, values have
what their type requires and nothing it does not know, a C struct has its
numbers.

### Credentials

`options` is the option slice behind `RequestOptions`, of which only the token
matters, `pointer` and `length` the two words of the string `token`. A refresh
writes the options and then the two words, in either order. A plain request
reads the options once. The payload request (`AddAuthHeader`) loads the two words
of the string one by one, in either order (`LoadLength`, `LoadPointer`; the
length that was checked or one loaded again, `LoadLengthAgain`), keeps them in
`seen`, and formats what it has loaded in a later step (`UseToken`,
`UseNothing`). Refreshes can come between any two of these steps, so that it may
have the characters of one token and the length of another (`Torn`), or a length
and no characters, which ends the process, possibly when the refresh that wrote
the length has long returned. These are the outcomes of the data race the build
can produce. A request of the receiver client is a plain one. `begun`, `returned`, `before`, `floor`, `overlapped` are history:
which refreshes had begun or returned when.

Two consequences are in the model and break no property, since nothing in the
repository says otherwise: the payload request of a client that was never
refreshed carries no credential, because `AddAuthHeader` only knows the token of
`RefreshAuth`; and two overlapping refreshes may leave one token in the options
and another in the string.

### ForeignMemory

A result is the array of its elements (one, for a struct), and an element the
set of its fields that point to a string; `heap` is the set of allocated
strings and arrays, by where they were given out. Each function has its field
sets for a result, an error and a missing run, each Free function the set of
fields it frees. The caller holds results in slots, frees each once, and reads
an array to the first element without an algorithm, which is all it can go by.

## 3. Runs

| run | instance | shows |
|---|---|---|
| `await_runs` | 3 runs, 2 result slots, 1 progress slot, all three uses of the progress channel | types and capacities; the wait group counts the running waiters; the result channel is closed after all was sent; a success is complete; a panic only after a failure; progress is conserved; an unread progress channel bounds what can succeed; `AwaitAll` is implemented; the call returns; the counter becomes exact; after a failure the waiters end, if there are slots for them |
| `await_run` | intervals 2, 0, default; timeouts 4, 3, 0, none; `GetRun`; 404 limit 7 | the wait is bounded; a result awaited is final; `GetRun` only waits for the run to be recorded; the call returns after its timeout, after the run has finished, and after its context was cancelled |
| `discovery` | 2 runs, 3 tags, tags `a`, `b`, `a` asked for, 2 times, both iterators | `getRuns` leaves nothing out without an error; the latest run is covered; an error comes alone; one run per tag; the iteration ends |
| `calls` | all eleven methods, `RetryMax` = 10, every status and content type, names that may be empty | a confirmed effect was applied; exactly once unless an answer was lost; to the run that was asked for; the call ends |
| `exchange` | every type, with each field set, absent, zero and empty; 2304 configurations of a C program; one change of a document | what is sent is what is read; a newer service is understood; a wrong answer is refused as a whole; unknown modes are refused; what is asked for is what is recorded |
| `credentials` | 2 refreshing threads, 3 tokens, 1 caller, both kinds of request | no request uses a token that was replaced before it began; with writes, loads and use of the string in separate steps, it is torn only in a race, and the process ends only by a request that began before any refresh had returned; a refresh reaches every caller in the end |
| `foreign_memory` | 2 results held at a time, listings of 0 to 3, a view of 2 | nothing leaks or dangles; an array is read to its end and not beyond |
| `await_runs_leak`, `await_runs_panic`, `await_run_unknown`, `discovery_listing_error`, `calls_nil_metadata` | as small as the behaviour allows | the disagreements of section 5 |

Why the bounds are enough. In `AwaitRuns` everything interesting happens when a
channel is full, so what counts is more runs than slots: 3 runs against 2 and 1
slots have waiters blocked on either channel with others on the way (a fourth
run is needed only to block two behind a failure, `await_runs_leak`), and the
proofs cover all other sizes. In `AwaitRun` time only matters against the two
limits; the instances have a timeout that is and one that is not a multiple of
the interval, both below the 404 limit, so that it can be passed by either
branch. `RunDiscovery` compares two runs of one tag at a time; two runs and
two times give every order, a third tag that is not asked for gives retagging
somewhere to go, and a tag asked for twice gives repeated listings. `Calls` has
the code's own number of retries. In `Exchange` the encoders and decoders treat
each field by itself, so values that differ from a full one in one place, and
skeletons with nothing but the required, reach every branch of every one of
them; what goes wrong with two fields at once is in what a C program asks for,
of which every combination of pointers is tried. Of `Credentials`, three tokens
let one refresh follow another that overlaps with a third. `ForeignMemory` has a
view smaller than the longest listing, so that the index out of range happens.

`CHECK_DEADLOCK FALSE` is used for `AwaitRuns` only: its waiters can really be
blocked for ever (after a failure, and with an unread progress channel).

### Fairness

* `AwaitRuns`: weak fairness for each goroutine. The Go scheduler is preemptive
  and lets every goroutine run that can; no more than that is needed, because a
  waiter blocked on a channel that others receive from is ahead of finitely many
  sends. Each `awaitRun` is assumed to return; `AwaitRun` says when that is so.
* `AwaitRun`: weak fairness of the loop. Every request is answered or fails
  (the client's limit is 120 s), and sleeps end. Nothing is assumed of the run.
* `RunDiscovery`: weak fairness of the iterator; the consumer asks on or stops.
  Nothing is assumed of the scheduler.
* `Calls`: weak fairness of the transport as a whole. The call ends because
  attempts run out, even if the time limit never strikes.
* `Credentials`: weak fairness of each caller within a request: it is made, and
  answered or given up. Nothing is assumed of who refreshes, or whether anybody
  asks again.
* `Exchange` and `ForeignMemory` have no liveness to speak of.

## 4. Proofs

All theorems hold for every value of the constants that satisfies the named
assumptions of the modules (finite sets of runs and tokens, positive capacities,
integer durations, a natural number of retries, types of finite depth and values
that fit them); these say no more than what Go's types and the code give. TLC
evaluates each of them in the run of the module.

**`AwaitRuns_proofs`.** None of the safety properties is inductive. That a
success is complete depends on where every message is: each waiter that has
sent is in exactly one of the result channel and the results, and in no other
place (`Delivery`), as long as the call has not failed; that the channel is
closed late enough depends on the wait group being exact (`WaitGroupExact`).
With what a waiter knows at each place (`OutcomeKnown`), how far the caller is
(`CallerPhase`) and two small parts about the crash and the counter, the
conjunction `IInv` is inductive. From it follow `TypeCorrect`,
`WaitGroupCounts`, `NoSendAfterClose`, `SuccessComplete`, `SuccessDoesNotPanic`,
`ProgressAddsUp`, `UnreadSuccessIsSmall`. `ImplementsPromise` shows that each
step of `AwaitRuns` is a step or a stutter of `AwaitAll`, with the started
waiters as the yielded runs, and the range of the results as what was returned.

What a proof can say of the liveness properties is that the goroutines neither
stop too early nor go on for ever. `StuckOnlyWhenFull` is the first half: if
nobody can take a step, either all are done, or the call has failed with more
runs than slots, or the progress channel is full and unread. It needs one fact
about the past, that the failure which ended the call has left the result
channel (`FailureTaken`), for this is the free slot that
`ShutdownWithinCapacity` counts. `CanGo` lists the guards of the actions, since
ENABLED is out of the prover's reach; that it agrees with ENABLED was checked
on the instance of `await_runs`. The second half is `Left`, the number of steps
that are left to the waiters, the caller, the closer and the counter: every
step but stuttering lowers it (`WorkRunsOut`). `CounterIsExact` follows from
`ProgressConserved`: the counter never shows more than have reported.

**`AwaitRun_proofs`.** What a poll has answered remains true enough: a run that
was seen has been recorded, a run that was seen finished is where it was
(`SeenStage`); until the run is seen all the waiting is on 404s
(`NotFoundCounted`). With these `WaitIsBounded` (less than one interval past the
timeout, or up to one interval past the 404 limit), `AwaitedResultIsFinal` and
`GetRunOnlyWaitsForRecord` are invariants, beside `TypeCorrect`.
`WaitRunsOut` is the core of what the run says of the end of the call: the time
that is left before the timeout, the time that is left for 404s and the place
in the turn make a number that every step of the loop lowers, given a timeout
and a positive interval; without either the loop may turn for ever while the
run goes on. `OneMoreRequest` needs neither: a finished run stays finished and a
cancelled context stays cancelled (`Settled`), and from then on there is one
sleep and one request at most.

**`RunDiscovery_proofs`.** Four layers, each proved with those below it as
hypotheses. `IInv`: types, and where the iterator is in the tags. `RecentInv`:
recent runs are yielded only in the last phase, when nothing can fail any more
(`RecentPhase`, hence `ErrorIsOnlyEntry`), each from the map and then taken out
of it (`YieldedOnce`, hence `OneEntryPerTag`). `LatestInv`: for every run that
nobody touches, was listed and has been read, the map or what was yielded has a
run of its tag that is at least as recent (`Covered`), and the end is reached
only when every tag has been listed and the map has been emptied (`AllRead`);
hence `LatestIsCovered`. `PlainInv`: an untouched run has been
yielded as often as the tags behind the iterator contain its tag, unless it is
still in the listing (`Counted`); hence `NoRunLeftOut`. That the iteration ends
rests on listings being finite however many runs are submitted meanwhile:
within a tag the entries that are left and the tags that are kept make a number
that goes down (`RoundLeft`), and from one tag to the next the position goes up
(`IterationRunsOut`).

**`Calls_proofs`.** What the server has applied is what was lost, and one more
while the last attempt is applied and not yet answered (`Accounts`); with what
the pc says about attempts (`SentFirst`) this is inductive. `ReportFits` goes
through the tables of `Responses`, answer by answer: no success is read from a
refusal and no refusal from a success. From these `SuccessIsReal` and `Exact`.
`RoutedRight` tells the paths of `Operations` apart by their length and their
third segment, for any names: a request matches its own template or none. From
it `Target` is inductive, and `RightRun` follows. `CallRunsOut` counts what is
left of the call: three steps for every attempt, and a whole request more as
long as the payload is still to be asked for. An attempt that is not counted
would break it.

**`Credentials_proofs`.** A variable that a refresh has written can be written
over only by a refresh that has not returned; that one has been replaced by
nobody, since nobody can have begun after it returned. So what a variable holds
was not replaced by any refresh that has written it (`Fresh`), and those that
have returned have written all. From this `OldTokensEnd` for what is read at
once. `Whole` (without an overlap the string is torn only in the middle of a
refresh) and `Looking` (who looks at the string is making a payload request, and
past the check there is a length) speak of the string, `Loaded` of the words a
request has loaded and not used: the characters are of no token that had been
replaced when the request began, and unless a refresh has begun beside it, or
two have overlapped, both words are still the ones of the string. A request that
has loaded no characters therefore began before any refresh had returned, and
two words that differ need a race, which is `TornByRacesOnly`. `AtMostOneLate` is the core of `CallersCatchUp`: a token
that was replaced meanwhile is only in a request that is late, in that a refresh
has returned since it began; while no further refresh returns nobody becomes
late, and who is late has fewer steps left with each it takes, except that it may
load the length again.

**`ForeignMemory_proofs`.** `FreesWhatIsSet` goes through the functions and the
Free functions. `IsListing` is the shape of an array that is being read: freed
elements behind the caller, full ones before it, an empty one at the end; with
`HeapFollows` (giving out and freeing one slot leaves the strings of the others
alone) `NothingLeaks` and `ScansAreExact` are invariants.

**`RunConfiguration_proofs`.** There is no state here: the theorems are about
what `CreateRun` of the C API builds, for C structs with any pointers, texts and
numbers. `ConfigurationAsMeant`: of a configuration that is not refused every
field is found in its place, with its value, exactly if it is meant; the only
hypotheses are the shape of a C struct and that no pair of resources is halved,
which the code checks. `NothingMadeUp` is the other direction: every member that
is sent is the place of a field, and no part is empty but the container.
`RequestAsAsked` puts configuration, parent and tag into the request. The lemmas
say when a member is found on a path of one, two or three names.

**`Exchange_proofs`.** The five invariants of the run, for any set of types of
finite depth with any values in them, and any requests of C programs.

The codec is a recursion, which the prover can neither unfold nor induct over.
So the theorems take it as any operators that satisfy the equations of that
recursion: `CodecLevels` says that an encoded value is `Written` from its
encoded parts, a decoded document `ReadFrom` its decoded items, and that `Order`
enumerates a finite set. `ChangedLevels` and `ModesLevels` say the same of where
a service changes a document and of which modes are in a value. Each is,
level by level, the definition in `Codec` or `MCExchange` that the run uses, so
it is satisfied by construction, and by nothing else: all parts of a type are
less deep than it, and the equations leave no choice but the order. What TLAPS
cannot show is only that a RECURSIVE definition satisfies its own equation.

The induction over depth is made without an induction theorem: of the types for
which a claim fails there would be one of least depth (`LeastNumber`,
`DepthInduction`). `Lists` describes what an encoder writes, a member for each
part, and `Says` any document that means a value, with unknown members, another
order, and members that are overridden later. `ListedIsSaid` and `SaidIsRead`
then give `EncodedIsDecoded`, for every family of values closed under taking
parts; `PrependedSays`, `ReversedLists` and `ReplacedLists` give
`HarmlessIsSame`: each thing a newer service may do leaves a document that
`Says` the same; `HarmIsRefused` follows from the error of one part being the
error of the whole. For the modes, the types are sorted: those without an
enumeration, all through, have nothing to check (`PartsAreFree`,
`AnswersAreFree`), and for each of the others its Validate method visits what
may have one (`ValidSpecFits`, `ValidMetadataFits`). For what a C program asks,
each part that `RunConfiguration` builds is taken through the codec
(`SpecRoundTrip`), then through the scheduler's renaming (`StoredIsRead`), and
what is found in the result is what was meant (`StoredIsAsked`, from
`ConfigurationAsMeant` and `RequestAsAsked`).

The state machine itself needs an invariant because what is read depends on what
was sent two or three steps before: `IInv` keeps what is on the wire as a
function of the value (`OnTheWire`, changed or not), that of a request as what
was asked for, before and after it is stored (`Asking`), what has been validated
(`Checked`), and what was read as the whole of what was decoded (`ReadWhole`).
TLC confirmed it on the instance of `exchange` before it was proved.

What the prover cannot do stays with TLC:

* The liveness properties themselves: fairness and ENABLED are out of its reach.
  Their safety cores are proved as said above (`WorkRunsOut`, `NoDeadlock`,
  `WaitRunsOut`, `OneMoreRequest`, `IterationRunsOut`, `CallRunsOut`,
  `AtMostOneLate`): what is left of `CallReturns`, `Terminates` and the like is
  that who can take a step takes it.
* That the recursions of `Codec` and `MCExchange` satisfy their equations, as
  said of `Exchange_proofs`.

## 5. Where code and text disagree

* `NeverPanics`: after one run has failed, main.go:675 closes the progress
  channel while other waiters are awaiting; the first to succeed panics on it,
  despite "prevent panic in case completed channel was closed".
* `CleanShutdown`: after a failure, waiters beyond the slots of the result
  channel stay blocked for ever, and with them the closing goroutine, despite
  "thus shutdown clean". `ShutdownWithinCapacity` is how far it does hold.
* `TimeoutHonoured`: on a run that is not recorded the timeout is not looked at.
  `WaitBounded` is how far it does hold.
* `ListingErrorSurvives`: `getRecentRuns` dereferences the nil run of an error.
* `MetadataNotNil`: metadata of an unknown run is nil without an error, and
  three callers dereference it.

## 6. Not modelled

* Timestamps as text: whether they sort as they should depends on the format
  the scheduler writes, which is not in the repository.
* The time of requests: `awaitRun` counts only its sleeps, and so does the
  model; the client's 120 s and the backoff of the transport are "at any time".
* Characters: texts are values, and their escaping in JSON and in paths keeps
  them; numbers do not overflow. The texts of errors.
* `GetRequestMetadata` of main.go returns two configurations as JSON text; that
  text is what `Codec` encodes, and the model does not follow it further.
* A refresh with an empty token, which `AddAuthHeader` takes for none.
* The pinner, which keeps Go objects in place until `FreeClient`, and the layout
  of the C structs. That the counter of `AwaitRuns` is written in memory which
  the caller may have freed: whose duty that is, is not said anywhere.
* Discovery and awaiting in one state machine. The iterator is consumed by one
  goroutine, and a waiter needs nothing of it but its entry; what one promises
  the other is stated where they meet (`AwaitAll` takes any entries).
* `CreateRun`'s case for a 500: in the table, but no behaviour reaches it, since
  the transport retries a 500 and then returns an error.
* Tracing and metrics of the generated clients, their options, logging,
  construction; the signal handler, which is a library; `IsSuccess`, a table
  util_test.go covers; tests and build.

## 7. Plan

1. `AwaitAll`, `AwaitRuns`, `AwaitRun` with proofs: done.
2. `RunDiscovery`, `Responses`, `Operations`, `Calls` with proofs: done.
3. `Credentials`, `ForeignMemory` with proofs: done.
4. `Schemas`, `Wire`, `Codec`, `Submission`, `Exchange`, `RunConfiguration`
   with proofs: done.
5. The safety cores of the liveness properties of `AwaitRuns`, `AwaitRun`,
   `RunDiscovery`, `Calls` and `Credentials`: proved.
6. Left: each waiter of `AwaitRuns` as a loop of `AwaitRun` under one context,
   fed by `RunDiscovery`, so that a run retagged during discovery can be
   followed to the answer; `CreateRun` of the C API over `Calls`, so that one
   asks what a repeated submission leaves at the scheduler.
