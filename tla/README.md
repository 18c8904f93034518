# jaiba in TLA+

A verification project for jaiba, the data-flow engine of this repository:
modules that model the engine and its durable queue, TLC configurations that
check them on small instances, and theorems that TLAPS checks for every value
of the constants. To use them: `tlc -config X.cfg M` for a run,
`tlapm M.tla` for the proofs of a module `...Proofs`.

## 1. The system

A *flow* is a YAML graph of *processors* joined by *connections*
(`from`, `relationship`, `to`). One `FlowEngine` runs a flow: a single loop
starts processor tasks, receives what they emit over one bounded channel, and
routes it to the queues of the next processors. Each queued packet is a row of
a SQLite table with its content in a file, so that work survives a restart. A
`FlowSupervisor` owns the engine's task; a registry owns the supervisors of a
server; schedules start flows; the API and the command line command them. Around
the engine are the connections it uses with their credentials, the processors
that read and write databases and topics, those that prepare rows, a memory of
domain values, external plugins, and the desktop application that runs an engine.

| component (code) | state | operations | what must be true of it |
| --- | --- | --- | --- |
| packet repository (`engine/repository.rs`) | queue table, provenance table, content files | open, recover_abandoned, pending, enqueue, claim, complete, fail, requeue_dead_letter, cleanup_completed, cleanup_provenance | a row's history is a path of the queue's automaton and its provenance says so; an item has one executor; a row has its content, and a file without a row is tried at the next open |
| run loop (`executor/mod.rs`) | pending, deferred, memory_stall, the JoinSet, the channel's receiver | top of the loop, settle, select!, end of the run | ends when and only when there is nothing left; ends when drained; never reports a deadlock that is none |
| scheduler (`executor/scheduler.rs`, `partition.rs`) | active_per_processor, active_partitions | schedule_available | limits respected, counters equal to the tasks, a slot left for each downstream stage |
| router (`executor/routing.rs`) | reads the queues, reserves memory | route_emission | all branches or none; queues bounded |
| tasks (`executor/retry.rs`, `processor.rs`, `workers.rs`) | attempt, reservations, worker permit | execute_with_retry, emit | retries bounded, memory and permits returned, failure routed |
| flow control (`control.rs`) | a watch channel with the lifecycle | pause, resume, drain, changed, transitions | no request lost |
| supervisor (`supervisor.rs`) | the task's handle under a mutex | start, pause, resume, drain, stop_gracefully, wait_for_terminal | one task alive per supervisor; the lifecycle is that of the task |
| circuit breaker (`circuit.rs`) | failures, opening time, half-open calls per connection | permit, success, failure | quota respected and always recoverable |
| sinks and their connectors (`put_database.rs`, `put_mongodb.rs`, `publish_kafka.rs`, `connectors/`) | a transaction or a request per attempt, at the destination | plan, write of each batch, commit | success means stored; a transaction is whole; an old attempt does not undo a newer packet |
| sources (`query_*.rs`, `consume_kafka.rs`) | reader, reading thread, offsets | read, emit, commit | nothing is skipped; threads and sessions end |
| flow registry (`jaiba-server/flow_registry.rs`) | versions, loaded supervisors, flows.json | create, validate, archive, deploy, rollback, start, stop | what is loaded is what the records say; what was answered is saved |
| schedules (`jaiba-server/scheduler.rs`) | armed timers, last fires | arm, disarm, catch up, fire, trigger | one timer per flow, none after a stop |
| connection manager (`jaiba-connection-manager`, `connection_api`, `resolver.rs`) | profiles, secrets, status, metadata cache, two files | create, duplicate, update, delete, test, explore, rotate-key, resolve | profile and credentials stay together, in memory and on disk |
| domain memory (`jaiba-memory/manager.rs`, ...) | Hot, Warm, Cold, Frozen, deferred queue, sink | upsert, get, remove, flush, maintenance | limits; the newest value is read; no value lost |
| Cold segments (`jaiba-memory/cold.rs`) | append-only files, index, bytes on disk | append, read, remove, seal, compact, open | what is read was written last; damage is reported; quota |
| data preparation (`processors/ai_prep`) | what a node keeps from packet to packet; pending groups; files | execute of each node | rows neither lost nor repeated; values as configured; a dataset whole |
| plugins (`plugin_catalog.rs`, `external_plugin.rs`) | the plugin's directory; one process under a mutex | install, remove; call | an install is whole; each call has its own answer and ends |
| Oracle client (`connectors/oracle_client.rs`) | one directory | install, remove, load | what is reported or loaded is whole |
| desktop shell (`src-tauri/src/sidecar.rs`) | the child process, the mode | start, stop, remote, exit | no engine left behind |
| loading of a flow (`graph.rs`, `validation.rs`, `flow.rs`, command line) | locals of the algorithms | run, validate | cyclic exactly when refused; depths are longest paths |
| memory limiter's second semaphore, state store, metrics, SQL builder, UI, simulator | - | | left out (see 8) |

How they meet: the engine calls the repository (`claim` before a task is
spawned, `enqueue` for each branch, `complete` or `fail` when a task is joined);
tasks and loop share the channel, packet memory and the lifecycle; the
administrative API writes the lifecycle and requeues dead letters directly in
the database, with no message to the engine; deploying a flow and several
commands open the repository of a flow that may be running. The API's handlers
call the registry, the scheduler and the connection manager, each behind locks
of its own; a deployed flow reads the connection files that the API writes;
commands of the operating system (plugins, the Oracle client, rotate-key) share
only files with a server that runs.

What is hard here: the loop reads the lifecycle twice per turn; the repository
mixes transactions with file operations and may be opened by several processes;
a task holds memory while it waits for the loop, and the loop holds an emission
while it waits for tasks; a timeout drops an execution in the middle of an
emission, of a write or of a plugin's request, while what it asked for goes on;
a restart finds rows in every state; a deployment stops one version before it
starts the next; pairs of files are written one after the other; a failed
execution is repeated, but what its node remembered stays. `PROJECT.json` lists
each such hazard at its line.

## 2. The modules

| module | models | |
| --- | --- | --- |
| `PacketQueue` | what the repository promises (trait `PacketRepository`) | abstract: each item is unborn, waiting, leased, done or dead |
| `PacketRepository` | `LocalPacketRepository` and the actors that use it | implements `PacketQueue` |
| `PacketRepositoryProofs`, `FlowEngineProofs`, `FlowProofs`, `DomainMemoryProofs`, `TransferProofs`, `ServerProofs`, `ToolsProofs`, `FoldProofs` | theorems (section 6) | `FlowProofs` about `FlowSupervisor`, `DatasetExport` and `RowPrep`, `DomainMemoryProofs` about `DomainMemory` and `ColdStore`, `TransferProofs` about `Delivery` and `Intake`, `ServerProofs` about `FlowRegistry` and `ConnectionStore`, `ToolsProofs` about `Plugins`, `OracleClient`, `Desktop` and `FlowLoading`; `FoldProofs` has what several of them need of induction and folds |
| `FlowEngine` | `FlowEngine::run_inner`, the scheduler, the router, the tasks, the lifecycle, restarts | its rows implement `PacketQueue` |
| `FlowSupervisor` | `FlowSupervisor`, `FlowControl`, `run_started` as its callers see it | the engine is abstract: it initializes, runs, returns |
| `FlowRegistry` | `FlowRegistry`, `FlowScheduler`, and the handlers that use them | a supervisor is abstract: idle or live |
| `ConnectionStore` | `ConnectionManager`, its two files, the API's calls, rotate-key, the resolver | |
| `Delivery` | the tasks of a sink, their retries, worker permits and breaker, every kind of destination | |
| `Intake` | the sources: streams, reading threads, collected results, Kafka | |
| `DomainMemory` | `MemoryManager` over its levels | |
| `ColdStore` | `SegmentedColdStore` down to the cells of its files | |
| `Values` | a field's value, and the number it stands for | pure |
| `RowPrep` | the nodes that transform rows, and what they remember | how an expression evaluates is a constant, `Evaluates` |
| `Expressions` | the expressions of `ai_compute_fields`: recursive descent, and a reference meaning of their trees | pure |
| `ComputedRows` | `RowPrep` with `Evaluates` as `Expressions` has it | what the `process` run checks of expressions |
| `DatasetExport` | `ai_split_dataset` and `ai_export_manifest` | |
| `Plugins` | installing plugins, and the protocol with a plugin's process | |
| `OracleClient` | installing and loading the Oracle client | |
| `Desktop` | the desktop application and its engine | |
| `FlowLoading` | from a manifest to an engine: placeholders, topological order, depths | with reference definitions |

The modules that TLC starts from hold the instances: `MCEngine` and `MCSupervisor` one component each;
`MCProcess` (repository, row preparation, export), `MCServer` (registry,
connections, a repository shared by two engines), `MCMemory` (manager and Cold
segments), `MCTransfers` (sinks and sources) and `MCTools` (plugins, Oracle client,
desktop, loading) several. In these a behaviour runs one part, chosen in its
first state, and leaves the others where they start: the parts
share no state in the code either, and one run asks each its own questions.

Operators introduced by a comment `Mistake:` are not used by any
specification: each is a plausible error in the code of the operator that
follows it. Put in the place of that operator it makes TLC report a property
violated, which shows that the property watches that code (the pairs are in
`PROJECT.json`, `mutants`).

### PacketRepository

The variables are the columns of `jaiva_packet_queue` that a decision reads
(`status`, `flow`, `contentKey`, `claimedAt`, `completedAt`, `errorSet`), the
status events of `jaiva_provenance` (`log`), the content files (`blobs`), and
for each actor where it is (`pc`) with the locals it keeps across an await
(`key`, `refs`, `todo`, `aged`; for an engine its `queue` and its `running`
items). One SQL transaction is one action. `open` is four: the SELECT of the
referenced keys, the listing of the files, one removal at a time, and the end. A removal may
fail, and the code goes on without a word (`let _ = fs::remove_file`): `OpenRemoveFails`, with
`left` the files the actor could not remove.
`enqueue` is two, the file and the transaction. `cleanup_completed` is a SELECT,
a DELETE, and for each key a COUNT and an unlink. `Crash` may come between any
two of them. Comparisons with the clock are a choice of the rows that are old
enough. An item whose row was deleted is `DELETED`, so that an identifier is
used once (it is a fresh UUID in the code).

An actor is an engine run or an *admin*, a process that opens the repository
and does no work (deployment, the command line, the server's readers).

### FlowEngine

`pc` is the place of the loop. A step of the loop is what it does between two
reads of something shared (the lifecycle, the channel, a row), since tasks and
operators run on other threads:

- `start`: recover_abandoned, pending, seeds (`Recover`); then RUNNING.
- `top`: first read of the lifecycle; stop, wait for a change (`subscribe`,
  `parked`), or route the deferred emission.
- `schedule`, `scan`: schedule_available, the second read of the lifecycle,
  then one item of `pending` per step.
- `publish`: the branches of an emission, one row per step.
- `settle`: is there anything left?
- `select`: any branch of `select!` that is ready.

Each work item (the seed of a source, or a row) has a task `phase`: `try`
(before the working copy), `execute`, `reserve` and `send` (in the middle of an
emission), `giveUp`, `reserveFailure` and `sendFailure` (the failure emission),
and the three outcomes the loop will find when it joins the task. `Used` adds up the
packet memory held by inputs, working copies and emissions wherever they are.

What is abstracted: packets are a partition key and an attempt number, each one
unit of memory; a processor is any sequence of emissions and any outcome;
delays are not measured (a timeout, the 250 ms tick and the memory stall timer
may fire whenever they are armed); an emission to a relationship without a
connection stays in the task, as in the code; reservations the router takes and
gives back when a later branch does not fit are not visible to others;
persistence is enabled; a claim always succeeds, for the engine is alone with
its rows (the other branch is `ClaimLost` in `PacketRepository`); worker pools
never run out (they do in `Delivery`). When a run is over its tasks are gone; a `spawn_blocking` task
that outlives an abort can only fail to send.

### FlowSupervisor

Several callers share one supervisor; `CallsOf` says which operations each
uses, and each has one call at a time, at `pc` with the task it is about in
`mine`. The mutex around the task's handle (`slot`) is never held across a real
wait, so what is done under it is one step; everything else that other threads
may come between is apart: the test of `pause`, `resume` and `drain` from the
transition (`Command`, `CommandActs`), the four steps of `stop_gracefully` (drain,
take the handle, wait, and what follows a wait that timed out), `start` before
and after its `ready.await`, and in `wait_for_terminal` the read, the subscription
and the awakening (`notified`). `phase` is an engine's task from its spawn to the
end of its future; `TaskCancelled` is what an abort comes to at the task's next
wait.

Here `FlowEngine` is reduced to what a caller can tell: `STARTING` when the task
begins, `RUNNING` and `started` when its initialization ends, then at some time,
or never, a result and the last transition. How it answers to `DRAINING` is left
open, which includes every answer `FlowEngine` gives. `FlowEngine::new` does not
fail in `start`, for the configuration was validated when the flow was loaded.
A caller whose own future is dropped in the middle of a call is not modelled.

### FlowRegistry

A request and a timer are processes at a `place` with a `job` (the locals of
their handler). What a handler reads under one lock and then another with
no wait between is one step; between steps any other process may go.
`persist` is a snapshot, a write of flows.tmp and a rename; `activate` removes the
loaded entry, stops it, starts the next and records it, and has the code's three
ways back. A start or a stop of a supervisor is one step with its outcomes (done,
failed, timed out), `FlowSupervisor` has what is inside. A timer ticks, fires with
its overlap policy, and sees an abort at its next wait. `Users` in `MCServer` is
how a server is used: one operator with every failure, two that deploy and stop
two flows, one with a flow on a schedule.

### ConnectionStore

An identifier and its secret_ref are fresh UUIDs of one creation, hence one
number. An `edition` numbers the contents of a profile and of its secret that were
sent together; that is all that is kept of them. Each API call is its awaits:
get, store of the secret, upsert of the table (memory and file under one lock),
the publication of its status, and the roll backs of a refusal. A write of a file may fail; the
server may crash; `rotate-key` is another process; a deployed flow reads
connections.json, then secrets.enc, without a lock. Import, export and a delete
without its secret exist in the manager, but no handler reaches them.

### Delivery and Intake

`Delivery` has the packets of one sink, each a task with its attempt and the
`work` of each attempt at the destination, which goes on whether or not the task
waits: a call that was dropped may be executed, committed, rolled back, or vanish with
its session. A destination is a record of what tells it apart (one transaction
or not, records converted before the first call, cancelled calls that go on,
batches in parallel, which errors are final). A transaction holds the locks of
the rows it wrote to its end, as an upsert does. The breaker is enabled; Delivery
has the only one modelled (`consume_kafka` asks one of its own, which Intake leaves
out). `Intake` numbers the batches of a result or the messages of a topic; a reading
thread reads ahead into a bounded channel; the engine takes emissions from the channel to the
repository; Kafka has its group's offset and commits under way.

### DomainMemory and ColdStore

A call of the manager holds its mutex to its end, so it is one step. Expiry,
due times and idleness are choices; the victims of a full Hot are any that the
priorities allow. Each level and the sink may refuse. Two histories kept for the
properties are `allowed` (the values a reader may find: the last written, and later ones whose
write failed) and `lapsed`. `ColdStore` has files of cells: a write stops after any
cell, a power loss takes what no fsync covered, a cell rots; opening scans the segments
and truncates a torn tail. One class is kept of several: each has a
directory, files and a writer of its own. Keys and values are interchangeable
(symmetry).

### RowPrep, Expressions, DatasetExport

A row is a key and the value of the one field a node is configured for; numbers
are counted in fractions 1/`Unit` (`Values`), and division in `Expressions` is to the fraction
below. `Expressions` is recursive, so `RowPrep`, about which something is proved, takes the
evaluation as a constant, and `ComputedRows` puts the two together. A node
computes under its lock from the packet and what it remembers, then emits; an
emission may fail and the execution is repeated. `DatasetExport` writes its
files in several steps, and its generator is a sequence of `Draws`, one per
seed. `z_score`, windows over series, the text of CSV and JSON and webhooks are left out.

### Plugins, OracleClient, Desktop, FlowLoading

`Plugins`: a command loads the catalog, fetches and verifies the files one by one (what comes has
the right bytes or wrong ones, and only what has the catalog's digest is kept), pulls the image,
writes the manifest and then the record of the install, looks at what is installed, sets it aside, moves its own
in place, puts back what it set aside when that failed, and cleans. Each is a step of its own that may
fail, or be the last of a command that is killed; whether `--force` was given is a choice. A
directory is a version with the pieces written in it. A call takes
the slot's mutex in order, may restart the process, writes its request, reads
lines, and may be dropped wherever it waits. `OracleClient` names a staging
directory by its process and takes Linux renames; a removal empties the directory file by file.
`Desktop`: Tauri runs the commands one at a time on the main thread, while the child
may die, be slow, or another program may listen on the port. `FlowLoading`
has Kahn's algorithm step by step, the memo of the depths, and the placeholders of one
text of one processor.

## 3. The runs

| run | what it checks | states (distinct), time |
| --- | --- | --- |
| `process` | repository of one engine that is killed at will; row nodes; exports | 1.5 M, 1 min |
| `server` | registry and schedules; connections; a repository with two engines and an admin | 1.5 M, 2 min |
| `engine_restarts` | counters, limits, rows, `PacketQueue`, liveness of runs | 0.6 M, 160 s |
| `engine_paused` | memory, ends | 2.1 M, 45 s |
| `supervisor` | ownership and liveness of calls | 0.2 M, 1 min |
| `memory` | domain memory, Cold segments | 0.2 M, 2 min |
| `transfers` | sinks and sources, safety and liveness | 0.2 M, 75 s |
| `tools` | plugins, Oracle client, desktop, loading | 0.8 M, 2 min |
| `supervisor_two_engines`, `prep_retry`, `engine_drain_hangs`, `split_empty_parts` | find a violation (section 5) | seconds |

Bounds and why they are enough:

- `process`: two items and two contents are the least with which a content is shared, and one
  row recovered and another not; four events let an item be claimed, fail, be
  requeued and claimed again. Two packets of up to two rows over three keys, one
  repetition: the least with which what a node remembers meets an other packet and its own retry.
  Expressions have up to two operators, in both shapes. Two groups of
  three parts, one failure in the split and one in the manifest node; parts of
  zero, one and three rows, since rounding leaves a part empty.
- `server`: two requests at a time, two versions, two flows with room for one loaded
  flow, two timers (a timer and its successor); one operator with stops, starts and disks
  that fail and a crash. Two administrators, two profiles and two names; two failing writes (a
  failure and the failure of its roll back), a crash, a key rotation, a deployment.
  In the repository part one item, two engines of one flow and an admin, so
  that every pair of operations meets on the same row.
- `engine_restarts`: a source whose `success` goes to two sinks, and another relationship to
  one of them; two concurrent tasks, a queue of two, three units of memory,
  `maximum_in_flight`, one sink partitioned with one key, three rows, a domain memory.
  One command, a drain or an abort, at any moment (between the two branches of a
  fan-out, or between the loop's two reads, too), a second start, and dead letters requeued
  meanwhile. A fan-out of two is the least that can be half done; with a queue of two, two units
  per emission and three rows a limit is met, and exceeded by what a restart recovers; one
  key is both busy and free.
- `engine_paused`: source, transform, failure handler; two transforms at a time
  (one of the handler, whose ordering is `preserve`),
  three slots for three stages, three units of memory, one retry, a
  timeout, a queue of one, up to three pauses and resumes (the third command is
  what it takes to reach the loop's "flow deadlocked").
- `supervisor`: one caller starts and stops, up to three engines, with drains
  that time out in both modes, another pauses, resumes, drains and waits (three
  engines are the least with which one that was put back is stopped again
  after another came and went); or two callers start and stop as they like, and a drain that
  times out is forced. Engines overlap there (section 5), yet every one has
  its owner and every stop returns.
- `memory`: three keys in a Hot with room for two, values of one and two bytes
  with three in all, a queue of two, four mixes of classes with the failures that bear
  on them; two Cold keys in three segments of four cells with a quota of seven, so
  that sealing, compaction and eviction all happen, and one fault of three: a cell
  that rots, a power failure, writes that fail.
- `transfers`: two packets of two batches, two attempts, a threshold of one and one probe; two units,
  a read-ahead of one, two runs, two failures and a crash.
- `tools`: a version that is an image without files and one of two files, so that an
  install may be half written; two commands at a time and three in all, or one around three packets and
  a plugin that dies; two installers, three directories, two accidents; three engines and two openings
  of the application; every graph over three processors with up to three connections.

Names of bounds: `MaxEvents` (a row that has that many status events is not put back
again), `MaxRows` (the rows there are: `Room` counts those owed to what has been emitted or has
to be after an error, and keeps a processor from emitting when none would be left for it; nothing else
depends on it), `MaxRuns`,
`MaxCommands`, `MaxTasks` (engines spawned; after that `start` is not called),
`MaxVersions`, `MaxTimers`, `MaxInstances`, `MaxCreates`, `MaxEdits`, `MaxSegments`,
`MaxCells`, and the counts of faults and crashes. No state constraint is used.
Symmetry is over names that no constant and no other part mentions, and in runs without liveness.
Deadlock is checked in `memory`; elsewhere a system that is over, has used up its bounds, is
paused with nobody to resume it, or need not be called rightly stops
(`CHECK_DEADLOCK FALSE`).

## 4. The properties

Several are conjunctions of named parts, each stated where it is defined.

Repository: `TypeOK`; `LedgerAgrees` (provenance is a path of the automaton that
ends where the row is); `ColumnsAgree`; `EngineOwnsItsWork`; `ContentPresent`;
`OrphansAreTried` (a file without a row is there after an open only if that open could not
remove it); `ImplementsQueue`.

Engine: `CountersMatchTasks` (the scheduler's hand-kept counters are
the JoinSet); `LimitsRespected` (`ConcurrencyRespected`: per processor, per key, and the slots kept
for downstream stages; `QueuesBounded`: only recovered work exceeds a limit);
`RowsMatchMemory`; `UsesQueue` (its rows follow `PacketQueue`); `MemoryBounded`;
`EndsRightly` (`EndsWhenDone`, `NoFalseDeadlock`); `RunsEnd` (and `DrainingEnds`, checked where it is
violated).

Supervisor: `NoEngineAstray` (`OneOwner`: an engine that has not finished is owned by the
mutex or by one call waiting for it, so none is ever out of reach;
`TerminalMeansIdle`: nothing works behind STOPPED or FAILED, which is what the
schedules' `is_idle` relies on); `CallsEnd`. Both parts of the first depend on who calls:
with two that start and stop, a handle put back after a timeout replaces that of
an engine started meanwhile, and a stop that found no task, or aborted its own, sets
STOPPED over the other's engine. Both are consequences of the race
`supervisor_two_engines` shows.

Registry: `RegistryMatchesEngines` (`LoadedIsActive`: the loaded version is the one its record
calls active once no call is about the flow; `EnginesReachable`: each engine at work is in
the map or in the hands of a call); `OneTimer`; `AnsweredIsSaved`. They are stated of one
operator (`Alone`), the first also of several whose stops end and
who neither archive, start nor trigger (`Orderly`): outside, section 5 tells what happens.
`EnginesReachable` is of flows without a schedule.

Connections: `DiskIsWhole` (`SavedProfilesResolve`, `TableIsSaved`, `RotationLasts`) and
`ContentsStayTogether` (`AnswersLeaveWhole`, `FlowsConnectWhole`). `TableIsSaved` is of any
interleaving and `RotationLasts` of a key rotated while the server is stopped; the others of calls that
come one at a time, with no key rotated while the server runs (`OneByOne`).

Domain memory: `HotServes` (`HotBounded`, `ReadsNewest`); `NothingLost` (`KeptSomewhere`,
`DurableBeforeVisible`, `DeferredNotLost`); `ColdIsSound` (`ColdReads`, `DiskAccounted`).

Transfers: `DeliveredWhole` (`SuccessIsStored`, `WholeOrNothing`, `NewestWins`);
`ProbesBounded`; `EveryPacketEnds`; `NothingSkipped` (`CompleteOnSuccess`,
`CommittedWasEmitted`); `ThreadsStop`.

Preparation: `DuplicatesGo` (`WindowKeepsApart`, `KeysArrive`); `ValuesAreRight`
(`NumbersMakeSense`, `ComputedAsMeant`: the descent computes what the tree means);
`DatasetsArrive` (`RowsInOnePart`, `SuccessOnce`, `RepeatedPartsAreWritten`; of one run of the
process); `SuccessIsWhole`. `EveryKeyArrives` and `PartsHaveRows` are violated (section 5).

Tools: `InstallsAreSafe` (`InstalledIsWhole`: every file of one version with the bytes of the catalog, its
manifest and its record; `InstalledStays`); `AnswersAreOwn`;
`EveryCallEnds`; `ClientIsSafe` (`ReportedIsWhole`, `ClientSurvives`); `EnginesOwned`;
`LoadsDags`.

Fairness (used only where liveness is checked). Engine: the loop and each task are
polled until they finish (weak fairness: they are tokio tasks, and a
processor either finishes or is one that waits for the channel or for memory;
a processor that never returns is outside the claim); `select!` chooses at random among
its ready branches, so a join or a reception that is ready again and again is
taken (strong fairness). Nothing is assumed of operators, of the environment
or of restarts. In `FlowSupervisor` calls that have begun and tasks that wait for nothing
outside go on (weak fairness: tokio polls them), a stop's timer expires, and an
aborted task is dropped, for the engine's loop and its initialization wait again and
again; that an initialization or a run ends is not assumed. In `Delivery` tasks go on
and the destination goes on with what it was asked; that a breaker cools, a call fails or a
timeout comes is not assumed. In `Intake` the reader, each reading thread and
the router go on. In `Plugins` a task that holds the slot, or is
next for it, goes on and its timer fires; nothing is assumed of the plugin.

## 5. Where code and documents differ

Shown by a run:

- *A drain between the two reads* (`DrainingEnds`): the loop waits in select!
  for ever, with nothing that could wake it. The tick of a domain memory hides it.
  A pause in the same place leaves the loop asleep after the resume, or, with
  an emission deferred, fails the flow as deadlocked (`NoFalseDeadlock` holds only
  of runs nobody commanded).
- *A start during a stop* (`OneEngine`): stop_gracefully holds the handle, not the
  mutex, while it waits; a start finds no task and spawns a second engine.
- *A retry that drops its own rows* (`EveryKeyArrives`): the window of `ai_remove_duplicates`
  remembers the keys of the attempt that failed.
- *A split emits empty parts* (`PartsHaveRows`): "Emite solo splits no vacíos" (features.rs:382), while
  execute emits train, validation and test one after the other, whatever is in each
  (479-481). `write_dataset_manifest` relies on the code: a dataset of which one part never came
  would never be handed on.

Known from the models, where a property says what is still true:

- *Opening a repository in use*: reconcile_orphans may delete the file of a row that another
  process committed after its SELECT. `ContentPresent` is of a repository opened by one process.
- *A file that cannot be removed at an open* stays, and is counted in the report as removed
  (repository.rs:329-330). `OrphansAreTried` says that an open misses none, not that none is left.
- *A window that is no LRU*: "ventana LRU" (transforms.rs:328), while 390-404 evict in the order of
  insertion: a key that is met again is no younger. `WindowKeepsApart` holds of both.
- *Emissions accepted in the channel*: a drain drops
  them when their source is already COMPLETED, and a crash drops those whose Kafka
  offset is committed. `EndsWhenDone` is of flows that are not drained,
  `CommittedWasEmitted` says emitted, not stored.
- *The end of a run that nobody sees*: wait_for_terminal reads the
  lifecycle, then subscribes; the last change may fall in between.
- *Two operators of one flow*: the snapshots of flows.json may be renamed in the other
  order; an archive between its check and its change, a trigger or a start
  that is under way may revive what a deployment or a stop has just taken down; so
  may a timer that is about to fire, even with one operator.
- *A key rotated while the server runs*: rotate_key writes back the secrets it read when it
  opened the file, over what the server has stored since (secure.rs:361-375), and
  the server's next write encrypts with the key it was started with. "Update
  JAIBA_MASTER_KEY with the new key before restarting the server" (observability.rs:230)
  does not say that nothing may be stored in between. Proving the one-call-at-a-time
  properties is what brought the first half out: they had only excluded other calls.
- *A write left behind by Oracle* may commit after its retry and
  after a newer packet (`NewestWins` leaves Oracle, and destinations without a transaction, out).
- *An append that fails in Cold* leaves cells in a file opened with O_APPEND, while
  `writer.size` stays where it was (cold.rs:262-272): the next record goes behind
  them and is indexed at the old offset. If an fsync fails after a put of `one`, a later put of `two`
  of the same key succeeds and a read returns `one`; a torn header, once the store is
  opened again, swallows the record behind it. With the fault `"write"`, `ColdReads` says
  nothing; `DiskAccounted` says the counter is right again after an open. It says nothing with
  the fault `"power"` either: a record whose payload
  ends in zeros passes the scan, which looks at headers and lengths, and hides the key's record before it.
- *A failed write of a dataset* loses it: its parts have left memory. `RepeatedPartsAreWritten`
  is of manifest nodes where nothing fails. A kill loses the parts that wait for the others; and a split
  killed after its last part and before its row is completed is executed again, and its dataset handed on
  again. `SuccessOnce` is of one run of the process.
- *An install killed between two renames* leaves no plugin: what it set aside stays in a
  directory nobody looks for. `InstalledStays` leaves that out (`accident`).

## 6. What is proved

All the theorems are of the specifications that the runs check, for any values of the
constants that satisfy the modules' assumptions: any number of items, tasks, engines, commands,
failures and whatever bound. "Spec" stands for the component's own specification. Where the third
column is empty nothing else is assumed.

| theorem | says | assumes |
| --- | --- | --- |
| **PacketRepositoryProofs** | | |
| `TypeCorrect` | `Spec => []TypeOK` | |
| `LedgerCorrect` | `[]LedgerAgrees` | |
| `ColumnsCorrect` | `[]ColumnsAgree` | |
| `RepositoryImplementsQueue` | `Spec => ImplementsQueue` | |
| `OwnershipCorrect` | `[]EngineOwnsItsWork` | `OneEnginePerFlow` |
| `ExecutionIsExclusive` | `[]OneExecutor` | `OneEnginePerFlow` |
| `ContentIsPresent` | `[]ContentPresent` | `Alone` |
| `OpenTriesOrphans` | `[]OrphansAreTried` | `Alone` |
| **FlowEngineProofs** | | |
| `EngineTypes` | `[]TypeOK` | |
| `RowsAreInMemory` | `[]RowsMatchMemory` | |
| `EngineUsesQueue` | `Spec => UsesQueue` | |
| `CountersAreTasks` | `[]CountersMatchTasks` | |
| `ConcurrencyIsRespected` | `[]ConcurrencyRespected` | |
| `LimitsAreRespected` | `[]LimitsRespected` | `DistinctConnections` |
| `MemoryIsBounded` | `[]MemoryBounded` | |
| `EndIsDone` | `[]EndsWhenDone` | |
| `EndsAreRight` | `[]EndsRightly` | `DistinctConnections` |
| **FlowProofs** | | |
| `SupervisorTypes` | `[]TypeOK` | |
| `NoEngineIsAstray` | `[]NoEngineAstray` | |
| `RowsAreInOnePart` | `[]RowsInOnePart` | |
| `EveryDatasetArrives` | `[]DatasetsArrive` | |
| `WhatIsHandedOnIsWhole` | `SuccessIsWhole`, an action property | `ConcurrentTasks = 1` |
| `DuplicatesAreRemoved` | `[]DuplicatesGo` | |
| **DomainMemoryProofs** | | |
| `MemoryTypes` | `[]TypeOK` | |
| `NothingIsLost` | `[]NothingLost` | |
| `ReadsAreNewest` | `[]ReadsNewest` | |
| `HotIsBounded` | `[]HotBounded` | |
| `HotServesReaders` | `[]HotServes` | |
| `ColdAnswersForItsDisk` | `ColdSpec => []ColdIsSound` | |
| **TransferProofs** | | |
| `DeliveryTypes` | `[]DeliveryTypeOK` | |
| `ProbesAreBounded` | `[]ProbesBounded` | |
| `DeliveryIsWhole` | `[]DeliveredWhole` | |
| `IntakeTypes` | `[]IntakeTypeOK` | |
| `CommitsFollowEmissions` | `[]CommittedWasEmitted` | |
| `SourcesAreWhole` | `[]CompleteOnSuccess` | |
| `NothingIsSkipped` | `[]NothingSkipped` | |
| **ServerProofs** | | |
| `TimersAreAlone` | `[]OneTimer` | |
| `AnswersAreSaved` | `[]AnsweredIsSaved` | |
| `ServerKnowsItsEngines` | `[]RegistryMatchesEngines` | |
| `StoreTypeCorrect` | `[]StoreTypes` | |
| `TableSaved` | `[]TableIsSaved` | |
| `RotationHolds` | `[]RotationLasts` | |
| `DiskStaysWhole` | `[]DiskIsWhole` | |
| `NothingHalfDone` | `[]AnswersLeaveWhole` | |
| `ContentsTogether` | `[]ContentsStayTogether` | |
| **ToolsProofs** | | |
| `InstallsStaySafe` | `[]InstallsAreSafe` | |
| `AnswersStayOwn` | `[]AnswersAreOwn` | |
| `ClientStaysSafe` | `[]ClientIsSafe` | |
| `EnginesAreOwned` | `[]EnginesOwned` | |
| `GraphsAreSorted` | `[]LoadsDags` | |

*Induction and folds* (`FoldProofs`). The library states induction for an operator, which cannot be
instantiated here; `Inductive` states it for the set of the numbers that have a property, from
the existence of a least element, and `SetInductive` for the finite subsets of a set. From
these `FoldProofs` has that a function on finite sets given by recursion exists, what a sum over a set becomes
when one element is added (`TotalAdds`), and that a fold over a sequence is the end of a chain of intermediate
results (`FoldChain`), so that what a loop in the code does is proved turn by turn. The same
device shows that the recursive functions of the models exist: a function that satisfies the
equation on ever longer intervals, or on ever higher ranks.

Few of these properties are inductive as they stand. What each one needs:

*Repository.* `LedgerAgrees` and `ColumnsAgree` are inductive given the types. The refinement
needs only the types: every action moves fates along an edge of the abstract
queue, or moves none. `EngineOwnsItsWork` needs `StartsEmpty`, that an engine
which is opening or loading holds nothing; with one engine per flow
(`OneEnginePerFlow`: two engines never have the same flow) no other actor moves
a row it holds, for clean-up takes COMPLETED rows and requeue takes dead letters only.
`ContentPresent` needs `ContentInv`: what the single opener (`Alone`)
remembers across its steps is still true when it uses it: the referenced
keys while it lists and removes, the counted key until it unlinks it. The race of
section 5 is the proof's missing step when there is a second opener.

*Engine.* `QueueInv`: the queue is without repetition and holds exactly the items that
are pending, and each row is where the loop's phase of it says, also while a
run is aborted and the next one recovers. With it every step is a step of `PacketQueue` or
changes no row. `CountersInv` adds the counters: they are right only because an item is
never started twice, nor joined twice. `ConcurrencyInv` says it depth by depth: every
task leaves free the slots of the stages below its own. `MemoryInv` says for each place of a
packet (queue, task, emission, channel, router) who holds how many units, and that their sum
is what is reserved. `EndInv` is of the steps between the last look at the
channel and the end. `LimitsAreRespected` has to count, besides what is queued, the branches that the
router has checked and not yet inserted (`RouteInv`): all of an emission's branches are checked
at once and inserted one by one, with claims, joins and requeues between.
`EndsAreRight` says that a run nobody commanded is never reported as deadlocked. `CalmInv` follows an emission
that is held back for want of room: with nothing at work and nothing but seeds queued there is always
room for it (`NothingIsFull`; seeds came by no connection, `LinksInv`), so whatever blocks it is seen before
the scheduler looks; and with nothing at work the scheduler starts any item that is not a seed,
for `Depth + 1 <= MaxConcurrency` leaves it a slot (`SeedsOnly`). What a scan has
inspected in vain, with nothing at work, are therefore seeds, and the loop selects only with something at work.
The hypothesis `DistinctConnections` is real: executor/routing.rs:52-79 checks each branch by
itself, so a flow that lists one connection twice, which validation.rs accepts, has a queue
that may exceed its capacity by one. And both branches count against the `maximum_in_flight` of
their processor: where that is 1, the emission never has room, and the run does end as deadlocked.

*Supervisor.* `OwnersInv`: a handle is in one place only (`OnePlace`), and as long as
starts and stops come from one caller the mutex is empty while that caller awaits what it took
out (`AwaitedAlone`): without that, a stop that puts its handle back would drop another.

*Export.* `RowsInv`: what was emitted as a part is what the split cuts for it, whichever
attempt it was, because the draws depend on the seed alone; the cut is a partition since the
shuffled sequence is a permutation (each draw swaps two places). `EmittedInv` says how far an attempt
came, and that of all attempts one alone emits the last part. That part is in one place
(`OnceInv`: queued, kept, being written or handed on), which is why a dataset is handed on once, however often
the parts before it are repeated. `PendingInv` is of manifest nodes where nothing fails: each part taken
in is kept until its dataset is written, and no group is kept whole. `WholeInv`: with one task at a time, the files
that the part in hand has written are still of its dataset. With two tasks a second dataset would write
the same four files meanwhile.

*Duplicates.* `WindowInv`: with a window, what is remembered is the end of what was let
through, as much of it as the window holds; hence two equal keys are farther apart than that (`Apart`).
It is proved row by row of the loop, and does not depend on which packet or which attempt brought the row.
`ArriveInv`: whatever was executed and not repeated holds the keys of its packet. With a window it
needs that nothing was repeated; that is where section 5 has its violation.

*Domain memory.* `HomeInv` (a level below Hot holds only keys whose home it is), `KeptInv`,
`DurableInv` and `QueuedInv` follow a value through demotion, promotion, restoration and
reopening, with the exceptions of the properties: lapsed entries and failed removals.
`NewestInv` is what `ReadsNewest` needs: not only what is found first but every copy
below, where an entry that leaves Hot would uncover it, is allowed. `HotBounded` is inductive given the
types: what leaves makes room, and of an entry that comes in either the room was free or its
victims' entries and bytes are at least what it takes (`OneMoreIsBounded`).

*Cold segments.* `ColdInv` has four parts. `WriterInv`: the writer stands at the end of the last file,
except after a write that failed. `DiskInv`: what is counted is the number of cells there, and those
that are not of tombstones are within the quota. `ReadInv`: as long as no write failed and no power
failure cut one, the scan reads every file to its end and every file has whole records only; of each key
that did not rot the records are as written, the last of them is what is expected (`Tells`), and the
index points to it (`Points`). `RotInv`: a key has rotted only when that is what went wrong. Opening is
proved for arbitrary files, torn or rotten: the scan and the salvage are defined (`ScanIsDefined`,
`KeptExists`), what is salvaged is an increasing selection of the file's cells (`Left`), so it takes no
more room than before, and of a file that could be read it is exactly the cells of its records. Appending
is proved for any number of cells written, as the process may die between any two: a record
whose last cells are missing is not found, and no other is harmed. A cell that rots
harms the record it is in and no other (`RotLeaves`), for a record is found by its header and length.

*Delivery.* `BreakerInv`: a call that began before the breaker opened may still report to it
after it cooled. `StoredInv` and `SoundInv`: a transaction is at its commit only when all
batches are written, and done only when its rows are there. `NewestWins` needs the order of packets
(`OrderInv`), the locks of open transactions (`LocksInv`), and that no older commit is in doubt once a
newer packet has committed (`LatestInv`).

*Intake.* `OffsetsInv`: not only the committed offset but each one under way, and the one the
consumer would commit next, has only emitted messages before it; so it does not matter which commits get
through when a consumer closes or the process dies. For the queries, `ThreadInv` relates an Oracle thread to its
reader: what it has read is what the reader has plus what lies in the buffer, and an error is the last
thing it sends. That is why an empty buffer and a thread that is off mean the end of the result and
nothing else (`ReadInv`). `FreshInv` (a reading yet to begin has emitted nothing)
lets each attempt start from nothing in `HandedInv`, which says that its emissions, in the channel and in the
repository, are the units it has sent, in order.

*Registry.* `TimersInv`: a handle is of a timer that exists, of that flow, and that nobody has
aborted, and one operator spawns only where no handle is kept. `SavedInv` follows the snapshot
from the record to flows.tmp and flows.json. `LockInv` (whoever is between the two ends of a
deployment holds `deployment_lock`) makes a deployment's knowledge of the map last: `ActiveInv` says what
each call has in hand (a flow taken out of the map is still out when the call puts it
back, and what it puts back is the active version), `EnginesInv` that a supervisor
about to be started or stopped is still in the map. `QuietInv` says what a usage
leaves out never happens: without schedules no timer ever exists.

*Connections.* `TableInv` holds of every interleaving: a deletion that has saved the table without
its profile holds the lock (`Deleting`), and nobody else sees the difference. `KeyInv`: while the rotation is
under way the server is stopped, and memory and disk hold the same secrets while it runs. The
rest is of `OneByOne`. `ResolveInv` follows one call through its steps: past its store the secret is
there, a creation's profile is not in the table before it is saved, so a roll back
removes the secret of nothing. `WholeInv` says that every profile but the active call's is whole, and what that
call has changed so far; it ends with `broken`, when a roll back failed or a crash cut a
call. `FlowInv` carries it across the flow's two reads.

*Tools.* Plugins: what a command has staged are the pieces that its place in the install says,
each with the right bytes (`Progress`), all of them once it looks at what is installed; what it has set
aside is whole, and only one that is about to move has set something aside. So what is moved in or
put back is whole (`DirectoryInv`); the process has at most one line, of the
task that reads, unless it is marked in_flight (`SlotInv`). Oracle client: each install works on a directory
that nobody else knows (`FreshInv`), and each directory that was ever the client is whole or
under removal (`ContentInv`). Desktop: of a child and an engine that is waited for there is one at most
(`OneAtATime`). Loading: `LoadingInv` says of Kahn's algorithm that each processor in the order comes after
those that feed it, and that the count kept for each of the others is the number of its connections from
processors not yet in the order. With none ready and some left, those left are a group in which each is fed
by another of it (`Cyclic`), and conversely no such group has a first member in the order. The depths are computed by a
recursive visit with a memo; it exists by induction on the place in the order, and from a memo that holds only
lengths of longest paths it returns the length of the longest path, and forgets nothing (`Right`, `Measured`).
The proof of `ClientStaysSafe` showed more than the run could: with three commands at once a
removal, an install that fails and puts back the very client being removed, and a
third that finds it in its way lose the third's client, each step of the code being as
intended. `owed` therefore ends when a client under removal is put back.

Each run checks these properties on a small instance (section 3). Assumptions on the
constants, evaluated by every run: those named `...Assumption` in the modules, among them
`SelectionAssumption` of `FlowEngine` and `PluginsAssumption` (versions are positive, each with
a number of files, `NoTask` is no task). `SelectionAssumption` says what `SelectSeq` yields for `Seeds` (a sequence of sources, each once) and
`Outgoing` (the edges of that processor and relationship): the library states nothing of
`SelectSeq`, whose definition is recursive.

Only model-checked, and why:

- liveness, and whatever depends on fairness: `RunsEnd`, `CallsEnd`, `EveryPacketEnds`,
  `ThreadsStop`, `EveryCallEnds`;
- `ValuesAreRight`. `ComputedAsMeant` compares the descent of `Expressions` with the meaning of
  its trees, and both are recursive operators, which the prover does not accept. `NumbersMakeSense` is about
  sorted selections of rows: the library states nothing of `SelectSeq` or of `SortSeq`. Both are checked over bounded
  inputs;
- what section 5 shows to be violated (`OneEngine`, `EveryKeyArrives`, `DrainingEnds`,
  `PartsHaveRows`).

## 7. What could come next

1. `NumbersMakeSense`, with `SelectSeq` and `SortSeq` written as recursive functions in `Values`: what a
   selection keeps and that a sorted sequence is a permutation follow from `Inductive` as the cut of a dataset did.
2. Action properties the engine's invariants already imply: what a step never does to a row that
   another actor ended, and what a joined task leaves behind.
3. A refinement between `FlowSupervisor` and `FlowEngine`: that what the first leaves open of an engine includes
   what the second does is read off the two modules, not checked.

## 8. What is not modelled

The second semaphore of the memory limiter, shared by the process, and sizes in
bytes; the state store of incremental queries; processors without memory of
their own, whose emissions are a choice in `FlowEngine`; SQL text, types and
conversions of the connectors; the SQL builder, the API's authentication, the
web interface, the simulator and the deployment files: they have no protocol that another
component relies on beyond what the models already leave open.
`PROJECT.json` gives the reason for each component. Inside the modelled
ones: temporary files of the content directory, schema migrations, statistics
and listings, metrics, log messages, the SHA-256 check when content is read (a
file that is there is taken to be right), SQLite's busy errors (an error
returned by the repository is an abort of the run: `Crash`, `Abort`; one that the code
ignores, as when a file cannot be removed, is not returned: `OpenRemoveFails`), encryption
(a key is a name), the bytes of a download (right or wrong, file by file, for a plugin; one step that may
fail for the Oracle client), a power failure during an install (only `Cold` keeps track of what is
synced), the rounding of f64 (numbers are exact fractions), a blocking write of a dataset that
outlives the task that asked for it, and each module's
abstractions named in section 2.
