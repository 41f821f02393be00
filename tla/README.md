# A verification development for Eventuous for Go

Eventuous is an event-sourcing library: commands are handled by reading a stream of events,
deciding, and appending new events under optimistic concurrency; subscriptions deliver the
events to handlers and keep a checkpoint. This directory holds TLA+ modules translated from
the Go code, TLC configurations that check them on small instances, and TLAPS proofs of the
central results for every instance. `PROJECT.json` maps each definition to the lines it
stands for, and lists runs, faulty variants, findings, hazards and theorems.

    tlc -workers 2 -config MCCommandSystem.cfg MCCommandSystem    # any run of PROJECT.json
    tlapm CommandSystemProofs.tla                                 # any *Proofs.tla

## 1. Inventory

| Component (src/) | State | Operations | What makes it correct |
|---|---|---|---|
| vocabulary (`core/eventuous.go`, `core/store/types.go`) | none | expected versions and states, events | `-1` is no stream, `-2` is any |
| in-memory store (`core/test/memstore`) | streams, a global counter, a mutex | append, read forwards and backwards, exists, delete, truncate | it behaves as KurrentDB does where tests rely on it |
| state loading (`core/store/state.go`, `aggregate.go`) | none | `LoadState`, `LoadAggregate`, `StoreAggregate` | the version belongs to the events read |
| aggregate (`core/aggregate`) | state, changes, original version | `Apply`, `Load`, `ClearChanges`, `Ensure…` | decisions are stored on the version they were made on |
| functional service (`core/command/service.go`) | handler registry | `Handle`: load, decide, append, describe | no lost update, honest answers and errors |
| aggregate service (`core/command/aggservice.go`) | handler registry | `Handle`: load, ensure, act, store, describe | the same |
| checkpoint committer (`core/subscription/committer.go`) | last sequence, pending map, uncommitted position, count, timer | `Commit`, `Flush`, timer, `Close` | never past a gap, never back, everything in the end |
| middleware (`core/subscription/middleware.go`) | semaphore; channels and workers | `WithConcurrency`, `WithPartitioning`, `Chain`, `WithLogging` | an answer is the handler's, order per key, shutdown |
| KurrentDB store (`kurrentdb/store.go`) | none of its own; the server's | append, reads, exists, delete, truncate in two calls | no append on a decision that missed events |
| catch-up subscription (`kurrentdb/catchup.go`) | position in the log, checkpoint in a store | `Start`: load, subscribe, loop | nothing skipped, little repeated, stops |
| persistent subscription (`kurrentdb/persistent.go`) | none; the server's group | `Start`: create, connect, loop with ack and nack | acknowledged means handled |
| codec and type map (`core/codec`) | two maps | `Register`, `TypeName`, `NewInstance`, encode, decode | an event is read as the type it was written as |
| booking sample (`samples/booking`) | read model, process, subscription | HTTP routes, three handlers, a fold, a projection | domain rules; the read model agrees with the fold |
| OpenTelemetry wrappers (`otel/`) | instruments | wrap `Handle` and handlers | results pass through |

**How they interact.** A service calls the store's `ReadEvents`, then a pure handler, then
`AppendEvents` with the version it loaded; between these calls other callers run. Stores are
shared by all callers; the in-memory one is a mutex around a map, the KurrentDB one a client
of a server. Encoding and decoding look types and names up in a type map that others may be
registering in. A subscription's loop receives from the server, calls its handler through the
middleware, and stores a checkpoint or answers the server; it waits for each handler. An
application with concurrent handlers of its own reports to the committer instead, in
whatever order they end. The context of `Start` reaches handlers, middleware and stores. The
sample puts a service, the KurrentDB store, a catch-up subscription and a read model together.

**What is hard.** Decisions made on a version that is stale when they are appended; errors
returned after an effect; out-of-order completion behind a gap; stores that fail after they
have written; a timer that races `Commit` and `Close`; restarts between handling and storing;
contexts that end while a handler runs, is queued, or is about to be queued; lost and late
acknowledgements; channels that are closed while there are senders; versions that are counted
where the server keeps revisions; streams that are deleted, truncated or written by others
under a running command; processes that end with requests under way. `PROJECT.json` lists
each hazard at its line.

## 2. Modules

`CommandSystem`:

- **Eventuous**: expected versions and states, stored events, and `LoadState`. The fold of
  the code is a deterministic function of the list of payloads, so that list stands for the
  folded state: what holds of the list holds of the state under every fold.
- **MemStore**: each method holds the mutex from its first line to its return, so each is one
  step. A stream that is absent and one that is empty behave alike in every method, and both
  are `<<>>`.
- **CommandCalls**: a call of `Handle`, its steps `idle`, `load`, `decide`, `append`, and its
  result or error. Handlers are the operator `Act` of a command and a state, registered before
  the first call, as in samples and tests. An event whose type is unknown makes a call fail
  after its append, as the code does.
- **CommandService**, **Aggregate**, **AggregateService**: the steps of the two services; the
  aggregate is kept with its changes, state and version.
- **CommandSystem**: both services over one store. The history variables `since` and
  `decisions` record when a call began and what each accepted append was decided on.
- **AtomicCommands**: the abstract promise. Every call takes effect, or is answered, on its
  stream as it is at one instant between call and return, and gives up only if others
  extended the stream meanwhile. `CommandSystem` implements it (`CommandsAreAtomic`).

`CheckpointedConsumer`:

- **CheckpointCommitter**: `Commit`, `Flush`, the timer (`Tick`: it expires, `TimerFires`:
  its goroutine is there, `TimerFlush`: it gets the mutex) and `Close` (`StopTimer`, then a
  `Flush` in a step of its own, since the code gives up the mutex in between). A
  `StoreCheckpoint` may fail before or after it has written.
- **CheckpointedConsumer**: the host. A loop that numbers user events and skips system events
  as the subscription does, up to `MaxInFlight` handlers that end in any order and report, an
  application that may repeat a refused `Commit`, and a process that may stop at any step and
  resume after whatever was stored.
- **CheckpointProgress**: the abstract checkpoint, which moves forward only, past handled
  events only. The consumer implements it.

Subscriptions:

- **ConcurrentHandler**: how a loop calls its handler, directly or through `WithConcurrency`
  of any limit: a free slot, a goroutine, then two `select`s that prefer nothing. A context
  that ends leaves the goroutine behind, which keeps its slot and may end later. `Start` builds
  a new chain, so slots belong to a run. With a limit of 0 the channel has no buffer and nobody
  receives first, so a call waits for the end of its context.
- **CatchUp** extends it: instances with one id over one checkpoint store.
- **Persistent** extends it: consumers of one group over a server that is external (delivery,
  retry, time-outs and connections as the code relies on them).
- **Partitioning**: callers, bounded channels, workers, the goroutine that closes the
  channels, and a panic where Go panics.

KurrentDB store and type map:

- **TypeMap**: the two maps of `core/codec/typemap.go`; each method holds the mutex.
- **KurrentStore**: the operations of `kurrentdb/store.go` on a server that keeps every event
  under its revision and its type's name, and hides those before a position. An append fails
  on a type without a name before the server is called; a read fails on a name without a type;
  an event decoded as a value of another type than it was written with is `Misread`.
  `TruncateStream` is two steps, its check and its write, as in the code, and lets everything
  through when the check's `Recv` fails.
- **KurrentCommands**: the functional service over it, with deletions, truncations, types
  registered at any time, other programs that append under names of their own, and calls that
  fail with or without effect.
- **StoresCompared**: the in-memory store, given every call that is made of the KurrentDB store
  beside it. `apart` records the streams on which the two have answered differently.

Sample:

- **Booking** extends `KurrentCommands`: the POST routes, the three handlers, the fold, the
  read model fed by a subscription to `$all` (in the order of commit positions), the status of
  each answer, other programs' events, and a process that ends at any step, with requests
  under way, and starts again with an empty read model.

`MCCommandSystem`, `MCKurrentCommands`, `MCPartitioning` and `MCBooking` give handlers and
functions to the constants. Definitions introduced as *a faulty variant* (or *a faulty …*) are
plausible mistakes in one definition of the code; `PROJECT.json` pairs each with the property
that TLC finds violated when it takes that definition's place. No specification uses them.

Proofs are in modules of their own: `CommandSystemProofs`, `KurrentCommandsProofs` (which also
covers `StoresCompared`), `BookingProofs` over it, `CheckpointedConsumerProofs`, `CatchUpProofs`,
`PersistentProofs` (both over `HandlerProofs`) and `PartitioningProofs`. The first two begin with
the same few lemmas about sequences and the steps of `Handle`, which they share a module for
(`CommandService`) but no store.

## 3. Runs

| Run | Bounds | What it shows |
|---|---|---|
| `commands` | 2 functional callers, 1 aggregate caller, 2 streams, 6 commands, no new call from 2 events on | `TypeOK`; `NoLostUpdate`; `AnswersAreCurrent`; `GlobalOrder`; `NoSpuriousConflict`; `CommandsAreAtomic` (refinement); `CallsReturn` (liveness) |
| `consumer` | 5 events, one of them a system event, 2 handlers at once, batch size 0 or 2, with and without interval, 1 failure, 2 timer flushes, a restart, a `Close` | `TypeOK`; `NoEventLost`; `ExactFrontier`; `CloseStoresFrontier`; `CheckpointIsProgress` (refinement); `StoredUnlessFailed`, `EventuallyCaughtUp` (liveness) |
| `catchup` | 2 instances, 3 events, one of them a system event, directly and behind `WithConcurrency(0)` and `(1)`, with and without a checkpoint store, 2 runs, one handler error, one store failure | `TypeOK`; `NoEventLost`; `AtMostOneRepeated`; `CheckpointMovesForward`; `StopsWhenCancelled`; `HandlesEverything` |
| `persistent` | 2 consumers, a user and a system event, the same limits, 2 runs, one handler error, one lost answer, one time-out during handling (others are unbounded) | `TypeOK`; `AckedIsHandled`; `RepeatedForAReason`; `EverythingAcked`; `StopsWhenCancelled` |
| `partitioning` | 2 callers with 2 and 1 events, 2 keys, 2 partitions, buffers of 1 | `TypeOK`; `KeyOrder`; `AnswerIsOfHandler`; `HandledOnce`; `AcceptedIsHandled`; `CallsReturn` |
| `kurrent_commands` | 2 callers, a stream, 3 commands, a late type, a foreign event, a maintainer, 2 deletions or truncations at positions 1 and 2, one failed call, no new call from 2 events on | `ComparedTypeOK`; `DecidedOnWholeStream`; `NoSpuriousConflict`; `StandsIn` |
| `booking` | 2 bookings of one guest, 2 requests at once, price 2 paid by ones, 3 events or more, a foreign event, one restart | `BookingTypeOK`; `BookingRules`; `ReadModelAgrees`; `ServerErrorsAreFaults`; `ReadModelCatchesUp` (liveness) |

`StandsIn` says how far tests that run on the in-memory store speak for KurrentDB: a stream
nobody else appends to, deletes or truncates is the same in both, for every expected version
and every read; after one deletion or truncation the two show the same payloads for as long as
they take the same calls. From then on they may answer differently: versions are lengths in one
and revisions in the other, which the finding of `kurrent_truncated` is about.

Five runs show a disagreement of the code with what it says of itself:

- `consumer_batch`: with batch size 2, events 2 and 1 completing in that order leave a whole
  batch out of the store after a successful `Commit`, since `count` goes up by one however far
  the frontier moves (`committer.go:105`), against the comments at 29 and 35.
- `consumer_interval`: a `StoreCheckpoint` that fails in the timer's `Flush` leaves the timer
  expired; without another event nothing is stored any more (`committer.go:138`), against
  "commit at least this often" at 36. The run uses the strongest fairness, `RetryingSpec`.
  `StoredUnlessFailed` of `consumer` is what does hold.
- `persistent_cancel`: a consumer behind `WithConcurrency` whose context ends gives its event
  back while the handler runs, and another consumer handles it at once with it, against
  `middleware.go:53` ("blocks until the event is actually processed").
- `partitioning_shutdown`: a `HandleEvent` that comes after the context of the workers has
  ended may find its channel closed, and if its `select` chooses the send it panics
  (`middleware.go:149`). Both subscriptions may receive an event after the context has ended
  and before they are dropped, where `catchup.go:94` promises a clean shutdown.
- `kurrent_truncated`: after a truncation, or a deletion and a new beginning, the number of
  events less one (`state.go:72`) is not the position of the last event (`aggregate.go:70`),
  and commands on the stream conflict for ever. The in-memory store, whose versions are
  lengths too, hides this from the tests.

Two more observations have no run of their own. `docs/specs/2026-03-20-phase1-design.md:618-620`
promises that catch-up subscriptions reconnect, and log a handler's error and continue;
`Start` returns both errors, and `CatchUp` models what the code does. A subscription of the
sample that ends is logged and not started again, and the server goes on with a read model
that stands still: `ReadModelCatchesUp` therefore excepts it.

**Why these bounds.** The hazards need two actors and, at most, three steps of one between two
of another: a caller that reads, one that appends, and one more that does so again; a gap, an
event behind it, and one behind that; two overlapping runs, or a run and its successor; a
deletion and a late write of a truncation. Each bound lets every such case happen, and the
faulty variants show that the properties notice. `MaxEvents`, `MaxFailures`, `MaxRestarts`,
`MaxCloses`, `MaxFlushes`, `MaxRuns`, `MaxErrors`, `MaxLost`, `MaxTimeouts`, `MaxMaintained` and
`MaxCalls` cap what the code leaves unbounded, each in the guard of the action it names; calls
under way when `MaxEvents` is reached go on, so that streams grow beyond it. Channel buffers
are 1 instead of 64 so that they fill. The persistent server's retry limit, ten by default, is
beyond `MaxErrors`. `booking` leaves out maintenance and failing stores, which no route of the
sample calls for and which `kurrent_commands` checks. Deadlock is not checked: with every budget
used up the instances have nothing left to do, and the systems themselves may rest. Only
`kurrent_commands` uses symmetry, of its two callers, whom no definition distinguishes; it
checks invariants alone.

**Fairness.** A goroutine inside a call or a loop keeps running (weak fairness of its steps):
the Go scheduler runs every runnable goroutine. Handlers return, where a property says so;
behind `WithConcurrency` they may hang, and `StopsWhenCancelled` holds even then. A sender to
a full channel has strong fairness, since Go channels serve waiting senders in turn. A
subscription whose context has ended is dropped: weakly fair in `CatchUp`, strongly in
`Persistent`, where a cancelled consumer behind `WithConcurrency` receives and gives back the
same event again and again until the client ends its connection. The server times out an event nobody
is at. In `Booking` only the subscription's loop is fair. Nobody has to call, close, restart,
cancel or repeat anything.

## 4. Proofs

Every invariant that a passing run checks, every safety property of steps, and both refinements
are theorems, two of them up to a number of events that is named below. Nothing is assumed but the named assumptions of the constants, which TLC evaluates in the
runs: `CallersAssumption`, `HandlersAssumption`, `BatchesAssumption`, `MaxEventsAssumption`
for the commands; `TypeMapAssumption`, `KurrentAssumption` and `ForeignAssumption` for the
KurrentDB store; `ConsumerAssumption` and `FailuresAssumption` for the consumer;
`HandlerAssumption`, `CatchUpAssumption` and `PersistentAssumption` for the subscriptions;
`PartitioningAssumption`; and `BookingAssumption` (no route deletes or
truncates) and `MainAssumption` for the sample. All bound data, not behaviour, but for two. `ForeignAssumption`: programs that write to one stream agree on
names, so that no other type can be registered here for the name of an event another program
writes; without it `DecidedOnWholeStream` is false. `MainAssumption`: what `main.go` wires, that
is the sample's commands, streams and expected states, its type map, and no other program that
writes under the sample's names.

**Commands** (`CommandSystemProofs`), for any callers, streams, commands and handlers:

- `TypeCorrect`: `Spec => []TypeOK`.
- `NothingIsOverwritten`: `Spec => []NoLostUpdate`. `NoLostUpdate` is not inductive: that an
  append is decided on the whole stream follows from the version check only if what the caller
  has seen is a prefix of the stream of just that version. `IInv` adds this for both services
  (`ServiceKnows`, `AggregateKnows`: a prefix, of the length its version says, no shorter than
  the stream at the call) and `Waits` (streams only grow). A matching version then makes the
  prefix the whole stream, and `VersionNoStream` is the same fact for the empty prefix.
- `ConflictsAreReal`: `Spec => []NoSpuriousConflict`, from the same `IInv`: the prefix is at
  least as long as the stream was at the call, and no conflict arises where it is the whole.
- `PositionsAreGlobal`: `Spec => []GlobalOrder`, inductive beside `IInv`.
- `AnswersDescribeTheStream`: `Spec => []AnswersAreCurrent`. What is answered was prepared at
  the decision, steps before, so `DInv` says of a call that goes to the store that its command's
  expected state admitted what it loaded, that what it appends is what the handler decided on
  exactly that, and, of an aggregate, that its state is both together (`ServiceDecided`,
  `AggregateDecided`); and of an answer what the property says (`Answered`).
- `CommandsTakeEffectAtOnce`: `Spec => CommandsAreAtomic`. The mapping takes the payloads of the
  streams for the abstract log, a call that is not idle for one that waits, and a result without
  its global position for the answer. A call that begins maps to `Invoke`; an accepted append,
  by `IInv` and `DInv`, to `Commit`; a call that returns without one to `Observe`, which may be
  of any prefix of the stream no older than the call, as the one that was loaded is, or to
  `GiveUp` at a conflict; loads and decisions to a stutter.

**Commands over KurrentDB** (`KurrentCommandsProofs`): `TypeCorrect`, and `NothingIsMissed`
(`DecidedOnWholeStream`) over deletions, truncations, foreign events and late registrations.
The prefix argument fails here, since truncation hides a beginning. What holds instead
(`Read` in `KInv`) is that a call has read no more events than the log ever had, and all of
them if as many; the revision that matches is the length of the log less one, so it matches
only in the second case (`MatchesWhole`). `MapAgrees` (both maps are inverse, and what was
registered first stays) and `Legible` (each event is stored under the name of its type, or
under one only its type can take) give that what is read is what was written.

`KurrentConflictsAreReal` (`NoSpuriousConflict`) adds `NInv`: a stream that nobody deleted or
truncated shows all its events (`Upkept`), and a call on one knows at least those it had when
the call began (`Current`). The theorem is of states with `commits <= Everything`, the 2147483647
events that `LoadState` asks for (`state.go`): of a longer stream it reads the beginning only,
and conflicts for ever. `NothingIsMissed` has no such condition.

**Both stores** (`KurrentCommandsProofs`, on `ComparedSpec`): `ComparedTypeCorrect`, and
`MemoryStandsIn` (`StandsIn`, under the same condition). Every step of the comparison is one of
`KurrentCommands` (`ComparedIsNext`), so `KInv` and `NInv` hold. `CInv` says which revision the
in-memory store of a stream begins at: the first one KurrentDB shows, or will show once a
truncation that was let through is written, for between its check and its write the two differ
(`Alike`); and that positions are revisions (`Placed`, `Numbered`) while nothing was truncated.
It holds until the two answer differently or a second deletion or truncation is made. What a
truncation keeps (`Kept`, the loop of `memstore.go:207`) is shown to be the rest of the stream
by induction on its length.

**The sample** (`BookingProofs`), for any callers, bookings, guests and prices, any number of
restarts and events of other programs. The handlers are a constant of the command service, and
the theorems say `ActsAsDomain => ...`: they decide, on every state, as `domain/handlers.go`
does. `MCBooking` gives the constant that very definition.

- `InternalErrorsAreFaults` (`ServerErrorsAreFaults`) and `BookingsFollowTheRules`
  (`BookingRules`) rest on `BInv`: no type is registered after `main` and no stream is deleted
  (`TypesWired`, `Whole`); commit positions are those of single events (`Committed`); an event of
  the sample follows only events of the sample, and is one that the domain allows on what those
  fold to (`Ruled`); a call has read the beginning of its booking and decided on that
  (`ReadBooking`, `DecidedBooking`); and a `BookRoom` under way is alone with its identifier
  (`OwnId`), without which it could find its booking there, which the routes answer with 500.
- `BookingTypeCorrect` (`BookingTypeOK`) and `ReadModelFoldsAlike` (`ReadModelAgrees`) rest on
  `RInv` as well: for each booking there is a number of first events that the subscription has
  received, which is the same in the order of the stream and in that of commit positions
  (`Sees`); the document is what the known ones of those fold to (`Documented`); and a guest's
  summaries are those of the guest's documents, ordered by their first events (`Summarised`).
  A cancellation changes one summary, the first of its booking, because each is listed once.

**Consumer** (`CheckpointedConsumerProofs`), for any log, batch size, number of handlers,
failures and restarts: `TypeCorrect`; `NothingIsLost` (`NoEventLost`); `FrontierIsExact`
(`ExactFrontier`); `ImplementsProgress` (`Spec => CheckpointIsProgress`). Their `IInv` adds
`InOrder` (sequence numbers follow the log), `Accounted` (an event received is handled or a
handler is at it), `Faithful` (pending entries are reports, and every report is pending or
behind the frontier) and `Behind` (the checkpoint is an event no later than the uncommitted
one and before every sequence number past the frontier). `CloseLeavesNothingBehind`
(`CloseStoresFrontier`, of steps) adds `Covers`: no event that counts as committed is beyond the
checkpoint, so a `Close` with nothing left to store has stored it.

**Subscriptions**, for any log, limits, instances, runs, errors and losses:

- `CatchUpProofs`: `CatchUpTypeCorrect`, `NoEventIsLost`, `RestartRepeatsOne`
  (`AtMostOneRepeated`), `CheckpointAdvances` (`CheckpointMovesForward`). `CatchUpInv` says
  where each loop stands: everything before it was handled, but for the event it is at. The
  last two need that instances with a store have not overlapped, and say so.
- `PersistentProofs`: `PersistentTypeCorrect`, `AcknowledgedAfterHandling`,
  `NoUnfoundedRepetition` (`RepeatedForAReason`: while nothing has happened, an event waits or
  one consumer is at it, and it was not handled before).
- Both use `HandlerProofs`: an awaited handler is about the event its loop is at, an answer
  "ok" is of an event that was handled, and a loop with an answer awaits no other.
- `PartitioningProofs`, for any function from keys to partitions: `PartitioningTypeCorrect`,
  `EventsOfKeyInOrder` (`KeyOrder`), `NilIsOfHandler`, `NoEventHandledTwice`. The invariant
  says where every accepted event is (done, at its worker, or in its channel) and that a
  caller's events in a channel are in the order of their calls, after all that were taken out.

Only model-checked: liveness (`CallsReturn`, `StoredUnlessFailed`, `EventuallyCaughtUp`,
`StopsWhenCancelled`, `HandlesEverything`, `EverythingAcked`, `AcceptedIsHandled`,
`ReadModelCatchesUp`), which needs fairness and `ENABLED`, beyond the prover; and the five
disagreements, which are false.

The library's induction theorems take an operator as a parameter and cannot be used here.
Where a recursive function is folded over a sequence (`Kept`, `KnownIn`, `Folded`) the proofs do
without: the set of naturals for which the fact fails has a least element (`WFMin` of
`WellFoundedInduction`; `SetInduction`), which gives that a recursive function exists
(`RunExists`) and that two which agree at 0 and after each step agree (`RunsAgree`). The other
modules need no induction over data, since they keep the list of events instead of its fold.

## 5. Not modelled

- The text of JSON, metadata, content types, error messages and their classification by text,
  log output, the requests built for the client: data and wording that no property is about.
- `Chain` and `WithLogging` (composition and logging) and the OpenTelemetry wrappers, which
  return what they are given.
- Bodies that are not JSON, answered before anything is touched; the sample's dates, rooms,
  currencies and reasons, carried through unread; its GET routes, which return what the read
  model has.
- The hash of a key is any function into the partitions. Where `int` has 32 bits
  `int(h.Sum32()) % count` may be negative; the repository builds and tests for 64.
- A committer that `Close` has abandoned: `Commit` re-arms its timer, and in one process a late
  flush could come after its successor has stored. `CheckpointedConsumer` has one committer at a
  time; its restart is that of the process.
- A client that repeats `POST /bookings` after a lost answer books twice, under another
  identifier: identifiers are made by the server, and no property forbids it.
- Handlers that panic: nothing in the code recovers them.

## 6. Order of the work, and what is left

The modules were written in the order of what matters most: commands over the in-memory store
and their atomicity; the committer with its host; subscription loops and middleware; KurrentDB
under concurrent commands; deletion and truncation, with both stores over one history; the type
map under registration; the sample as a whole; and after each its proofs. Left are a model of
the abandoned committer beside its successor, and of the keys' hash where `int` has 32 bits.
