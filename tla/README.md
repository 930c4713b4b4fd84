# Formal models of the Griffino Go SDK

TLA+ models of the program under `src/`, the TLC configurations that check them on
small instances, and TLAPS proofs of the properties that carry most weight. Every
definition is translated from the Go source; `PROJECT.json` names, for each, the
lines it stands for. All paths below are relative to the repository's root, all
bare `rabbitmq.go`, `client.go`, ... to `src/`.

To check: `tlc -workers 2 -config <run>.cfg <module>` for each entry of `runs` in
`PROJECT.json`, and `tlapm <module>.tla` for `ConnectionProofs`, `ReplyMatchingProofs`,
`ClientLifecycleProofs`, `DeliveriesProofs`, `ConfigModelProofs`, `ArtifactsProofs` and
`ConversionsProofs`.

Contents: [the system](#1-the-system), [the modules](#2-the-modules),
[the runs](#3-the-runs), [findings](#4-what-the-code-does-otherwise-than-it-says),
[proofs](#5-what-is-proved), [fairness](#6-fairness),
[what is left out](#7-abstractions-and-what-is-left-out), [plan](#8-plan).

## 1. The system

A plugin links the SDK, makes a `Client`, registers handlers and calls `Start` or
`Run`. The client talks to the platform over RabbitMQ: it calls capabilities of
other plugins (`Invoke`, a request and its reply), publishes events (`Dispatch`) and
serves its own registrations from queues. A generator program uses the same
registrations to write manifest and configuration files.

| component | state | operations | source |
|---|---|---|---|
| Transport connection | `t.started`, `t.conn`, `t.ch`, `t.consumerCtx/Cancel` under `t.mu`; the broker's channel and connection | `Start`, `Close` | `rabbitmq.go:109-157, 563-603` |
| Invoke and reply matching | `t.pending` under `t.pendingMu`; one waiter (a Go channel of capacity 1) per call; one reply goroutine per connection | `Invoke`, `consumeReplies`, the drain in `Close` | `rabbitmq.go:161-247, 595-601` |
| Client lifecycle | `lifecycle.started/closed/closedCh` under its own mutex | `Start`, `Close`, `WaitClosed`, `Run`, `Dispatch` | `client.go:255-347`, `lifecycle.go` |
| Deliveries | the broker's queues, unacknowledged deliveries, one goroutine per queue and connection | consume, run a handler, reply or dispatch a node result, `Ack` | `rabbitmq.go:282-537`, `client.go:279-287` |
| Names, envelopes, contexts | none | routing keys, queue names, `Build...Envelope`, `contextFromMessage` | `rabbitmq.go:59-102`, `context.go`, `internal/transport/` |
| Configuration | none | `New`, `ConfigFromEnv`, `RedisConfigFromEnv`, `PlaceholderConfig`, `withDefaults`, the options of `Invoke` and `Dispatch` | `client.go:74-112, 159-274`, `config.go` |
| Registrations | slices of the client | `Provider`, `Consumer`, `ConsumerCapability`, `Action` | `client.go:114-151`, `models.go` |
| Artifact writing | files and their numbered backups | `WriteArtifacts`, `WriteJSONFile`, `WriteBootYAMLFile`, `backupExistingFile` | `artifacts.go`, `generator.go:303-431` |
| Artifact contents | none | the data of manifest, configuration and boot files | `generator.go:1-301` |
| Declarative models | none | `ParseConfigModel`: struct tags to configuration fields | `declarative.go`, `declarative_parse.go` |
| Redis user configuration | Redis, read only | `New`, `GetValues` | `internal/redisstore/store.go` |
| Errors, command line, examples | none | | `errors.go`, `cmd/`, `examples/` |

**How they interact.** The client calls the transport through the `Transport`
interface. `Invoke`, `Dispatch` and each of the three `Start...Consumers` stages call
`transport.Start` first, so any of them may connect; `Close` of either layer takes two
mutexes one after the other and releases each before it goes on. Consumer goroutines
call back into the client (`run`, with its panic recovery) and read `t.ch` again for
their answers. The lifecycle and the transport keep separate ideas of whether the
client is started; nothing holds both locks.

**What is hard.** State is read under a lock and used after it (`t.ch`, the waiter of a
reply, `isStarted` and then `isClosed`); a Close tears down outside the lock what a
Start may meanwhile replace; replies come late, twice or never; the broker ends a
channel for a bad declaration and takes back what was not acknowledged; waiters wait on a
`closedCh` that a restart replaces. The generator moves a file away before it knows that
it can write the next one, and describes one service in two files. The 40 entries under `hazards` in `PROJECT.json`
give each place with its line and the properties that guard it. No test of the
repository starts the RabbitMQ transport: the tests use an in-memory fake, so that
everything of the first four components is out of their reach.

**What makes each component correct.** *Connection*: never two connections, never a
leaked one, a teardown never reaches its successor. *Invoke*: a call returns once, with a
reply to itself or an error; `pending` is exact; the reply goroutine lives as long as
its channel. *Lifecycle*: waiters wake, consumers live exactly as long as their
connection, and the lifecycle says what the transport is. *Deliveries*: at-least-once
handling, no acknowledgement of anything unseen or unanswered, no leak of the prefetch
window. *Names and envelopes*: the reader finds what the writer meant. *Configuration*:
a client is configured as a whole or not at all, and a call is for one user wherever its
message says so. *Artifacts*: no earlier version is lost, a run that succeeds leaves whole files,
and the files agree. *Declarative models*: an entry's default fits its type. *Redis*: a
user's values are found under that user's key and no other's.

## 2. The modules

```
 Connection            Start and Close of the transport: operators only
   |-- ReplyMatching   Invoke, consumeReplies, drain   --refines--> InvokeContract
   |-- ClientLifecycle Start, Close, WaitClosed, Run, Dispatch
   `-- Deliveries      queues, handlers, answers    --refines--> ServedQueue
 WireFormat            names, envelopes, contexts                 (pure operators,
   `-- Requests        the options of a call, and what it sends    all of them)
 Configuration         New and the environment
   `-- UserConfigStore RedisConfigFromEnv and the store
 ConfigModel           struct tags, fields, the data of the artifacts
 Requests, UserConfigStore, ConfigModel
   `-- Conversions     state machine that converts every bounded input once
 ConfigModel
   `-- Artifacts       WriteArtifacts over a directory, run after run
 MC...                 model-checking instances: symmetry, sets of names
 ConnectionProofs      lemmas about Connection
   |-- ReplyMatchingProofs, ClientLifecycleProofs, DeliveriesProofs
 ConfigModelProofs    lemmas about ConfigModel and about sequences
   |-- ArtifactsProofs, ConversionsProofs
```

The three modules that EXTEND `Connection` compose the transport with one concern each.
Start and Close have one definition for all of them, and its steps become parts of
the steps of their callers.

An operator whose comment begins with `MUTATION` is not part of any specification. It is
a plausible bug in the definition that follows it, kept so that each property can be
shown to notice one: `mutants` in `PROJECT.json` pairs them.

### Connection

`Start` holds `t.mu` from beginning to end, so it is one step (`AlreadyStarted`, `Dial`,
`StartFails`). `Start` writes `t.conn`, `t.ch` and the consumer context together and
`Close` clears them together, so one number stands for them: the *generation*
`channel`, `Nil` (0) when they are nil. `Close` is `CloseSwap` (its critical section),
`CloseCancel`, `CloseWire` and, in the caller, what remains; `holds[k]` is the
connection in the local variables of the k-th Close. `ChannelLost` and `ConnectionLost`
are the broker's: they change nothing in `t`, as nothing in the code listens for them,
and `t.started` stays true.

### ReplyMatching and InvokeContract

One Go statement that touches shared state is one step. `pc[c]` follows `Invoke` through
`Start`, the read of `t.ch`, encoding and registration, the publish, the `select` and the
deferred delete. `buffer[c]` is the waiter: a set of at most one reply. Close's last step
`CloseDrain` closes every waiter then in `pending`; `InvokeReceiveNil` is the receive
from a closed, empty channel. The reply goroutine of generation `g` is two steps,
`TakeReply` (lookup under `pendingMu`) and `SendReply` (the non-blocking send after its
release); `hand[g]` is what it carries between. A send on a closed channel sets
`panicked`, and the process stops: nothing recovers it. Providers answer through RabbitMQ's
direct reply-to, which binds a reply to the channel its request went out on; they may
answer up to `MaxReplies` times, since a delivery may be redelivered.

`InvokeContract` says what a caller may rely on, without connections or goroutines: a
call is issued, answered, shut down by a Close, and returns at most once with one of
its own answers, an error, or, only when shut down, with nothing. The refinement
mapping (`Status`, `Outcome`, `Result` in `ReplyMatching`) hides everything between a
call's first step and its return.

### ClientLifecycle

`spc[s]` is where a `Client.Start` is: its two separate lifecycle checks,
`transport.Start`, the three stages (each `start`, `read`, `consume`) and `markStarted`.
A stage's failure leaves the consumers that earlier queues of it got, and closes the
channel, since the broker answers a failed declaration with a channel exception.
`epoch` numbers the `closedCh`s; `closedChs` are those that are closed.
A call of `Run` is one member of `Starters`, `Waiters` and `Closers` at once: its
Start, its `WaitClosed` goroutine and its deferred Close. `serial` is chosen at the
start: whether this program makes its Start and Close calls one at a time (one that
registers, runs and ends) or from any goroutine. `strayed` is a ghost: it
records that the transport was connected behind a closed lifecycle, which is the subject
of a finding and must not hide other disagreements.

### Deliveries

A delivery is a message and the generation of the connection it came by. The broker
moves messages between `ready`, `unacked` and `acked`; whenever a channel ends
(`Lose`, `CloseWire`), `Requeue` puts its unacknowledged ones back. `fetched` is
the Go channel of deliveries, from which a goroutine may still receive when its AMQP
channel is dead. `at[q, g]` follows the goroutine: `Receive` (routing key and body decoded),
`HandlerReturns` (with a result, a result that JSON cannot encode, or an error, which
`Client.run` also makes of a panic), `ReadChannel`/`NoChannel` (the fresh read of `t.ch`),
`EncodeFails`/`Publish`/`PublishFails`, and `Ack`, the deferred acknowledgement on the
delivery's own channel, whose error the code ignores. The kinds of messages distinguish
what `handleProviderDelivery`, `handleEventDelivery` and `handleActionDelivery` do with them; the
reply to an invoke and the node result of a task node take the same steps and are one
kind, `request`, and so are the two ways to be `dropped`.

`ServedQueue` is what all this promises to who puts a message on a queue: a message is
attempted, perhaps more than once; an attempt runs its handler at most once, answers at most
once and with what that handler returned, and settles the message for good only when it
has done so. `Promise` in `Deliveries` is the mapping: an attempt is a delivery, a shutdown of
an attempt is a Close that holds its connection; goroutines, windows, redelivery and the
fresh read of `t.ch` disappear.

### WireFormat, Requests, Configuration, UserConfigStore, Conversions

A dotted name is a sequence of segments and a segment a sequence of words joined by
underscores, which is all that `strings.Split`, `strings.ReplaceAll` and joining
do to it. A JSON message is a function from fields to values with a type; encoding fails on a
value that has no JSON form, decoding makes floats of integers. `ContextFromMessage`
has every early return of `contextFromMessage`. `Configuration` follows `New` and
`ConfigFromEnv`, whose unset and empty variables are the same. `Requests` follows a call
from its options (each the set of the value it is given, empty when it is not) over the client's
configuration to the key, body and expiration of the publishing. `UserConfigStore` has
`RedisConfigFromEnv` and the store; nothing in `src/` joins the two (the package
`redisstore` is imported by nothing), so the model joins them field by field, as the comment of
its `Config` describes. `Conversions` chooses an
input and converts it in one step, so that each invariant compares an input with what
came out at the other end.

### ConfigModel and Artifacts

`ConfigModel` reads a tag as the sequence of what its commas separate: attribute and value,
a blank, or a bare word, which is an error. `FieldParses` has every error of `parseFieldTag` and
what it calls, `ParseFieldTag` the field. Values keep the type they are given, since what
`strconv` reads (`Reads`) decides between them; `NaN` is a float that JSON cannot
encode. A loop that leaves some elements out is `Among`, the flattening of one-element and
empty sequences, about which proofs can reason; `StructFields` are all the
fields that a Go struct may give it. `GenerateBootConfig`, `GenerateBootYAMLData`, `BuildBootYAMLEnvironment` and
`GenerateManifest` make the data of the files from the fields.

`Artifacts` is `WriteArtifacts` step by step. For every file in its order a run is at
`prepare` (parse the model, make the data), `backup`, `encode`, `open` or
`write`; each may fail with the error that ends the run, and `Crash` ends the process
anywhere. `disk` and `backups` hold, for each path, which run's content is there, whether it
is whole, and whether the author has edited it: `Edit` fills in the TODOs of
`plugin.boot.yml` between runs and `Tidy` removes backups, which leaves gaps in their numbers.
What the runs are given is chosen anew each time.

## 3. The runs

| run | instance | question |
|---|---|---|
| `replies_safety` | 2 invokes, 2 Closes, 2 connections, 1 reply each; symmetry | `PendingExact`, `CorrelatedReply`, `ReplyLoopAlive`, `NoOrphanConnection`, `CurrentConnection`, and refinement of `InvokeContract` |
| `replies_liveness` | 2 invokes, up to 2 replies each, 1 Close, 1 connection | every invoke returns if timers fire; a Close releases those of its channel even if none does; the reply goroutine never stalls on a reply nobody receives; the first reply wins |
| `lifecycle_safety` | a Run, another Start, another Close, a Dispatch, 2 connections | no abandoned waiter, no deaf consumer, a truthful lifecycle, one consumer per queue |
| `lifecycle_liveness` | the same without Dispatch, one kind of queue | consumers stop, waiters wake, Run returns |
| `deliveries_safety` | 2 messages of every kind on two queues, a Close, 2 connections, prefetch 1; symmetry | nothing settled unseen or unanswered, no leak, the broker's account, and refinement of `ServedQueue` |
| `deliveries_liveness` | 2 messages on a provider's queue, the rest as above | every message settles once the client stays up |
| `conversions` | names of one and two segments, 3 values, timeouts around zero and a millisecond, 9 stored owners, some 450 tags for each of 5 Go types | nine end-to-end properties of names, envelopes, contexts, calls, configurations, stored values and tags |
| `artifacts` | 3 runs, 2 metadata, 6 boot and 4 user models, any failure or crash, edits and removals | `HistoryIsKept`, `BackupsByAge`, `SuccessMeansWhole`, `DescriptionsAgree` |
| `close_nil_reply`, `close_panics`, `close_leaves_connection`, `start_close_race` | minimal | each finds a promise of a comment broken, see section 4 |

**Why the bounds are enough.** The hazards involve two invokes (whose replies may be
confused, or one of which may hold up the other), two connections (an old one that is
torn down beside a new one), and two Closes (which may drain at the same time). A third
invoke interferes with another only through `pending` and the reply goroutine, which
two already share. Two replies to a call are needed only to fill a waiter, in
`replies_liveness`, where one connection is enough: a call is on one channel, and what
a second connection does to the first's calls is in `replies_safety`. Generations beyond
two repeat the step from one to the next. A prefetch window of 1 (16 in the code) is the hardest: a single leaked
delivery silences the queue. Two messages are a full window and one that waits. The
"action" and "provider" queues have all paths between them; an event's is an action's under another name. For names, two segments and a shared word are enough to make every
ambiguity of joining by dots and underscores appear; the names of the SDK's own segments
(`consumer`, `node.result`) are among the inputs. Three runs of the generator are the least
in which a backup finds one number taken and another freed, and in which a failed run's remains
are backed up by the next. The models given to it are one of each kind that its
steps tell apart: none, one that parses, one that does not, one that does not encode, and
fields named like system variables or like each other. And all safety properties hold for
all sizes, by proof (section 5).

**What the properties say that is not obvious.**

* `PendingExact`: `pending` is exactly the registered calls that no Close has failed.
  Hence no path leaks an entry, and a Close never closes a waiter twice.
* `ReplyLoopAlive`: no reply and no Close of an older connection ends the goroutine of
  the current one.
* `CloseReleasesCalls` holds because Close closes the channel *before* it drains: an
  invoke that registers after the drain finds its publish failing. The opposite order
  would leave it waiting for its timer.
* `NoAbandonedWaiter`: `markStarted` replaces `closedCh`; whoever waits on the old one was
  woken before.
* `LifecycleTellsTheTruth` and `OneConsumerPerQueue` are about programs that make their
  Start and Close calls one at a time: with overlapping calls both fail, as
  `start_close_race` shows for the first. Two overlapping Starts may both pass the
  checks and start each consumer twice.
* `SettledMeansAnswered`: a provider's delivery that is acknowledged without an answer
  had a result that does not encode, or a Close was in progress that held its
  connection. A lost connection is not among the excuses: it loses the acknowledgement too.
* `QueuesIdentifyRegistrations` and `RoutesKeepApart` hold for *plain* names; the
  conditions (`Plain`, `Undotted`) are needed, and say which ids a
  platform must not hand out: `task_done` and `task.done` are one event queue, a plugin
  id with a segment `consumer` may take another plugin's queue. `StoredConfigsAreFound` has
  the same kind of condition, a user id without a colon: otherwise user `a` with plugin
  `a:plugin:b` and user `a:plugin:a` with plugin `b` share a key.
* `ImplementsQueue` forbids an answer that is not the handler's, a second answer of a delivery,
  a handler or an answer after its delivery is settled, and a settlement before the attempt
  has done what the message wants, all as steps rather than states.
* `HistoryIsKept` counts what is at the path *and* in the backups: a failed run leaves nothing
  at the path, and yet nothing is lost. It is about the steps of a run; the author may
  remove what they like.
* `SuccessMeansWhole` is about the run's success, not the manifest alone: after a *failed* run the
  manifest may name files that are missing or older, since it is written first. That is the
  code's behaviour and no text of the repository denies it.
* `DescriptionsAgree` holds because `GenerateBootYAMLData` refuses the empty main service
  for which `GenerateBootConfig` has a default. The system's variables come first in the
boot file's environment, and no field's entry may name one of them again.
* `DefaultsFitTheirType`: the type that counts is the resolved one. The comment of
  `ParseConfigModel` (`declarative_parse.go:27`) speaks of the field's Go type; the two differ
  when the tag gives a type, and the code, which goes by the tag, is what makes entries
  consistent.
* `RequestsAgree` bounds the loss of the truncation to milliseconds. A negative timeout
  becomes a negative expiration, which the broker refuses; the model keeps the number, and
  the channel that the broker ends for it is `ChannelLost`.

**Every property can fail.** For each property of a passing run, `mutants` names one
definition and a plausible wrong version of it under which TLC finds the property violated.

## 4. What the code does otherwise than it says

Four runs expect a violation; each checks what a comment promises.

1. `close_nil_reply`: a Close "fails any pending replies" (`rabbitmq.go:561`), but the
   waiting `Invoke` returns a nil map and a nil error: success, to its caller.
2. `close_panics`: the reply goroutine looks a waiter up, Close closes it, the
   goroutine sends, and the process panics.
3. `close_leaves_connection`: "Close tears down the transport. It is idempotent"
   (`client.go:313`). After a Close, a Dispatch or Invoke connects again behind the
   closed lifecycle, and every later Close returns without closing that connection.
4. `start_close_race`: a Close that runs within a Start is overwritten by
   `markStarted`: the client is marked started with its transport down, and later Starts
   return at once.

The other models are built to live with these: they say what holds in spite of them. Three
theorems draw the line. 1 and 2 need a Close that took a connection and has come to its
end (`OnlyClosesHarm`): no lost connection or late reply brings them about. 3 needs
overlapping calls or a connection made behind a closed lifecycle (`SerialCloseTearsDown`), and 4
overlapping calls (`SerialStartServes`).

## 5. What is proved

TLAPS checks the theorems below for every value of the constants that satisfies the
assumptions named with them. Every invariant that a passing run checks is proved, and so
are the action properties and both refinements; what is left to the runs is liveness. All take the form `Spec => []...` or `Spec => [][...]_vars`.

| module | theorem | states |
|---|---|---|
| `ReplyMatchingProofs` | `Invariance` | the inductive invariant `IInv` |
| | `TypeCorrect` | `TypeOK`: a waiter never holds two replies |
| | `PendingIsExact` | `PendingExact` |
| | `RepliesAreCorrelated` | `CorrelatedReply` |
| | `ReplyLoopStaysAlive` | `ReplyLoopAlive` |
| | `NoConnectionIsLeaked` | `NoOrphanConnection` |
| | `ClosesReachTheirOwn` | `CurrentConnection` |
| | `FirstReplyAlwaysWins` | `FirstReplyWins`, an action property |
| | `NoCallIsStranded` | `NoStrandedCall`, the safety under `CloseReleasesCalls`: a call that waits is on the transport's own connection, or its waiter is closed, or the Close that took its connection has still to drain |
| | `OnlyClosesHarm` | `HarmNeedsAClose`: findings 1 and 2 need a Close that took a connection and has come to its end |
| | `Implementation` | `ImplementsContract`: the transport refines `InvokeContract` |
| `ClientLifecycleProofs` | `BaseInvariance` | `BaseInv`, inductive, of every program |
| | `TypeCorrect` | `TypeOK` |
| | `WaitersAreWoken` | `NoAbandonedWaiter` |
| | `ConsumersListen` | `NoDeafConsumer` |
| | `SerialInvariance` | `SerialInv`, inductive together with `BaseInv`, of programs with one Start or Close at a time |
| | `LifecycleIsTrue` | `LifecycleTellsTheTruth` |
| | `QueuesHaveOneConsumer` | `OneConsumerPerQueue` |
| | `SerialStartServes` | what finding 4 breaks holds of programs whose calls do not overlap, an action property |
| | `SerialCloseTearsDown` | what finding 3 breaks holds of them while nothing has connected behind a closed lifecycle, an action property |
| `DeliveriesProofs` | `Invariance` | the inductive invariant `IInv` |
| | `TypeCorrect` | `TypeOK`: nobody publishes on a nil channel |
| | `SettledIsHandled` | `SettledMeansHandled` |
| | `SettledIsAnswered` | `SettledMeansAnswered` |
| | `NothingLeaks` | `NoDeliveryLeaks` |
| | `EveryMessageAccounted` | `Accounted` |
| | `Implementation` | `ImplementsQueue`: the consumers refine `ServedQueue` |
| | `AnswersAreTrue` | `OneTrueAnswer`: a delivery is answered at most once, with what its own handler returned |
| `ArtifactsProofs` | `Invariance` | the inductive invariant `IInv` |
| | `TypeCorrect` | `TypeOK` |
| | `NothingIsLost` | `HistoryIsKept`, an action property |
| | `BackupsTellTheirAge` | `BackupsByAge` |
| | `SuccessIsWhole` | `SuccessMeansWhole` |
| | `DescriptionsAreOne` | `DescriptionsAgree` |
| `ConversionsProofs` | `ActionsAreFound` | `ActionsFindTheirHandler` |
| | `RoutesAreApart` | `RoutesKeepApart` |
| | `QueuesAreApart` | `QueuesIdentifyRegistrations` |
| | `ClientsHaveEverything` | `ClientsAreWhole` |
| | `EnvelopesAreUnderstood` | `EnvelopesArrive` |
| | `AnswersKeepTheirTask` | `AnswersNameTheirTask` |
| | `RequestsAreConsistent` | `RequestsAgree` |
| | `StoresReadTheirOwn` | `StoredConfigsAreFound` |
| | `DefaultsAreTyped` | `DefaultsFitTheirType` |

`ConnectionProofs` and `ConfigModelProofs` have no theorem of their own. The lemmas of the
first, one for each operator of `Connection`, are the part of three of the invariants above
that is about the connection; those of the second say what the loops over attributes,
fields and entries compute, for every tag and model. `NoStrandedCall`, `HarmNeedsAClose` and
`OneTrueAnswer` are stated in the proof modules, beside the theorems; TLC found no violation of
them on the instances of `replies_safety` and `deliveries_safety` before they were proved, nor of
the formula of `SerialCloseTearsDown` on that of `lifecycle_safety`.

**Assumptions.** The bounds `MaxConns`, `MaxReplies`, `MaxRuns` and `Prefetch` are positive
naturals (no proof uses that `Prefetch` is positive). Of `ClientLifecycle`: the
calls of Run are Starters, Waiters and Closers at once, and only kinds that exist are served. Of
`Deliveries`: only queues whose kinds of message are known. Of `Conversions`: names are non-empty
sequences of segments, ids in Redis non-empty sequences of strings, an environment gives strings,
timeouts are integers, and `""` is among the values, as a Go string may be
empty. Of `Conversions` and `Artifacts`: a struct's fields have the form of `StructFields`, a
name, a Go type and a tag that is a sequence of what commas separate. Nothing is assumed of
which tags, how many fields or what values there are, nor of the sets of calls, Closes,
messages and models: all may be infinite. The provers do not know that a literal like `"invoke"` is a string;
`Word` therefore adds the SDK's own words to `STRING`, which changes no set.

**`ReplyMatching`.** `NoOrphanConnection` and `CurrentConnection` are not inductive: a Close
that held the *current* connection would cancel it. `HeldConnections` adds that
generations are numbered as they are dialed and that no Close holds the one in use;
the three with the types are `ConnInv`, which `ConnectionProofs` shows to be preserved by
every operator of `Connection`. `PendingExact` and
`CorrelatedReply` need `Bookkeeping`: only a call that has begun has a closed waiter, a
request or a reply, and its outcome agrees with where it is. `IInv` is the
conjunction. Its preservation is proved action by action in `InvokeStep`, `CloseStep`,
`ConsumeRepliesStep` and `ProviderStep`, and put together in `NextInv`.
The refinement is proved by simulation from `IInv`: the steps before a call's
return are stutters or an `Issue`, the drain is a `Shutdown` of the calls it closes
(which are outstanding, by `PendingExact`), a panic is a `Crash` (its reply was sent
and its waiter closed, by `CorrelatedReply`), a return with a reply is a `ReturnReply` of an
answer to that call. Crash and Shutdown are where the strengthening is indispensable.
`NoStrandedCall` is inductive beside `IInv` and `LiveChannels`: a call comes to wait only by a
publish on an open channel, whose connection is then the transport's or one that a Close
has yet to close; and a drain closes every waiting call's waiter, by `PendingExact`.

**`ClientLifecycle`.** Two layers. `BaseInv` holds whatever calls overlap: `ConnInv`, `LiveChannels` (an
open channel is that of an open connection, and if its context is cancelled a Close is
about to close it), the account of `closedCh`s, and
`OwnContext`, that a consumer listens to the context of its own channel, without which
`NoDeafConsumer` is not inductive: a stage reads the channel and the context once and uses
them later. `SerialInv` is for serial programs and says, for each place a Start or a Close may be at,
what it has brought up or taken down so far, and what is true when none is under way. It is
inductive only together with `BaseInv`. `SerialCloseTearsDown` follows from both and from
`LifecycleTellsTheTruth` in the next state: a Close returns on a closed lifecycle and leaves
no call in progress.

**`Deliveries`.** `IInv` follows a delivery: it is in the deliveries channel of its consumer
(`FetchOK`), then the job of the goroutine (`JobOK`), then done with (`SettleOK`), and the broker's
account (`AccountOK`, `TouchedOwed`) agrees at each place. `NoLeak` is its other direction: what
the broker has not seen acknowledged on a live channel is at one of the first two places. A goroutine's
step disturbs one goroutine and one delivery; the frame lemmas about `WorkStep` carry
the invariant over for all others, so that each action's lemma is about its own delivery only. In the
refinement `HandlerReturns` is a `Try`, `Publish` an `Answer`, `Ack` of a live channel a `Settle`,
`CloseSwap` a `ShutDown`, and everything else a stutter. `AnswersAreTrue` is then proved of
the promise alone: its steps keep answers true, and `Deliveries` takes no others.

**`Artifacts`.** A run writes its files in one order and leaves some out. `Place` numbers them, and `InOrder`
says that those before the run's current file are whole and of this run, and those after it of an
earlier one. `Blank` says that a path or a number without a file holds exactly `Absent`: the
properties compare contents, and no file must be one content. `HistoryIsKept` follows step by step: a file moves to a
number that `FirstFree` found free, or is replaced only when it has been moved.
For `DescriptionsAgree` the invariant is `Prepared`: a file that the last run has written is one whose data
could be made. So the boot file's main service is not empty, and the default that
`GenerateBootConfig` has for an empty one is never taken; the rest follows from the lemmas about
environments in `ConfigModelProofs`, whatever state the run is in.

**`Conversions`.** A behaviour converts in one step, so the work is in lemmas about the operators.
A key or a queue's name is joined of parts: its length and the segment at each place are known
(`FourParts`, `RouterKey`, `QueueIs`, `OwnersKey`), and two joinings of one name have the same parts when the part
of variable length is the only one, which is what the conditions `Plain`, `Undotted` and "no
colon in a user id" secure. `FlattenSeq`, which makes an event's queue name, is a recursive function;
the induction theorems of the library cannot be used, but well-foundedness gives a least
place at which the claim would fail (`Least`, from `WFMin`), and there is none. The same
argument (`Throughout`, `FlattenElements`) gives what `Among` selects, and so the attributes
of a tag, of which the last of equal ones counts (`TagAttrs`); `DefaultsAreTyped` needs that, since the
entry's default and its type are read from one tag at different places.

**Only model-checked.** The liveness properties: `EveryInvokeReturns`, `CloseReleasesCalls`,
`RepliesKeepFlowing`, `ConsumersStop`, `WaitersWake`, `RunReturns` and `EveryMessageSettles`.
Fairness and ENABLED are beyond the prover. What they rest on in every state is proved:
`NoStrandedCall`, `ReplyLoopAlive`, `NoDeafConsumer`, `NoAbandonedWaiter` and `NoDeliveryLeaks`.
The four runs that expect a violation are counterexamples and need no proof.

## 6. Fairness

* A goroutine that can take a step of its own takes one (`WF` of `OwnStep`,
  `ConsumeReplies`, `Consume`, `Start`, `Close`, `WaitClosed` once begun): the Go
  scheduler runs every runnable goroutine, the mutexes are held for bounded time, and
  the broker's client library answers or fails.
* A Go `select` takes any ready case. No fairness is assumed between its cases: weak
  fairness is on the goroutine, not on a case.
* Timers fire only where a property says so (`TimersFire`); `PatientSpec` lets them run
  longer than any behaviour, so that what it shows does not rely on them.
* The broker delivers what it can (`WF` of `Deliver`), and handlers return: both only in
  `Deliveries`. Without them no message need ever settle.
* Nobody is obliged to call Invoke, Start or Close, to cancel a context, to reply, or to
  lose a connection. `EveryMessageSettles` assumes instead that the client
  stays up from some point on (`StaysUp`).

## 7. Abstractions and what is left out

* The AMQP library is modelled from its use: a publish succeeds exactly when its channel
  is open; its context argument does not matter, as the library ignores it.
  A mandatory or confirmed publish is not used by the code.
* Payloads, ids and texts are model values or small sets; logs are left out.
* `Deliveries` takes the consumers of a connection as started together; the stages, and
  duplicates of consumers by overlapping Starts, are `ClientLifecycle`'s. To consumers
  a lost channel and a lost connection are the same, so it has one. The order of deliveries
  within a queue is not modelled: no property depends on it.
* A deliveries channel of a dead AMQP channel may still yield what it holds, and the
  handler runs for it although the broker has taken it back: so it is in the code.
* Handlers are one step and call nothing of the SDK. A handler that invokes its own
  capability waits for its own queue until the timer ends it: `EveryInvokeReturns` shows that
  the timer does, whoever does not answer.
* Durations are numbers only in `Requests`; elsewhere a timer may fire at any time.
* One generator runs at a time. Two in one directory could replace each other's backups: the
  code takes no lock, and this is a hazard without a property.
* `Artifacts` lets an error of the file system strike at any step; that the disk survives
  a crash as written is assumed (the code does not sync).
* The texts of artifacts: display names, descriptions, groups, schema references, permissions,
  slots and layout are copied or left out by the code without a choice that a property
  could be about.
* Tags are cut at their commas before the model sees them; a comma in a description is in
  the inputs as the bare word, or the second attribute, that it makes of what follows.
* Not modelled: the error constructors of `errors.go` (a fixed hierarchy without state; its
  members are outcomes in the models), the command line tool (prints help) and the examples (users
  of the SDK); registering while a Start runs, an append without a lock. A lost connection is never
  dialed again (`rabbitmq.go:112`): the models have it so, and no property asks for more
  than the documentation does.

## 8. Plan

Done, in this order: `Connection`, `ReplyMatching` with `InvokeContract`,
`ClientLifecycle`, `Deliveries`, `WireFormat`,
`Configuration`, `Conversions`; then `Artifacts` with `ConfigModel`, `ServedQueue`,
`Requests` and `UserConfigStore`.

The proofs followed in the order of the modules: `Connection` and `ReplyMatching`, then
`ClientLifecycle`, `Deliveries` with its refinement, `Artifacts` and `Conversions`; then
`ConfigModel`, for the two invariants about tags and environments, and what holds in spite of the
findings.

Nothing of the plan is open. Should the code change, two places are worth a model of their
own: redialing a lost connection, which would turn the hazard at `rabbitmq.go:112` into a
liveness property, and a lock on the generator's directory, which would let two of them run
in `Artifacts`.
