-------------------------------- MODULE Intake --------------------------------
(***************************************************************************)
(* The sources of a flow: the query processors, one per way of reading a   *)
(* database, and consume_kafka.  A source reads units (batches of rows, or *)
(* messages) and emits each as a packet into the emission channel, from    *)
(* where the executor takes it to the repository: only there does it       *)
(* survive a crash of the process.  (The breaker that consume_kafka asks   *)
(* first and tells at the end is that of Delivery.)                        *)
(***************************************************************************)
EXTENDS Integers, FiniteSets, Sequences

CONSTANTS
  NumUnits,       \* bound: batches of the result, or messages of the topic
  StreamCapacity, \* STREAM_CHANNEL_CAPACITY: batches an Oracle thread reads ahead
  QueueCapacity,  \* engine.queue_capacity: the emission channel
  MaxRetrials,    \* retry.maximum_attempts
  MaxRuns,        \* bound: runs of the source
  MaxPoll,        \* max_poll_messages
  MaxBreakdowns,      \* bound: reads, emissions and commits that fail, tasks that time out
  MaxCrashes,     \* bound
  Sources         \* which kinds of source, of SourceKinds

\* "stream": query_mysql, query_postgres, query_mongodb; "thread": query_oracle;
\* "collect": query_sqlserver.
SourceKinds == {"stream", "thread", "collect", "kafka"}

Units    == 1 .. NumUnits
Retrials == 1 .. MaxRetrials
Runs     == 1 .. MaxRuns
Readings == Runs \X Retrials

ASSUME IntakeAssumption ==
  /\ NumUnits \in Nat \ {0} /\ StreamCapacity \in Nat \ {0} /\ QueueCapacity \in Nat \ {0}
  /\ MaxRetrials \in Nat \ {0} /\ MaxRuns \in Nat /\ MaxPoll \in Nat \ {0}
  /\ MaxBreakdowns \in Nat /\ MaxCrashes \in Nat /\ Sources \subseteq SourceKinds

VARIABLES
  source,
  run,      \* runs begun
  reader,   \* the source's task: where it is, attempt, units read and emitted
  buffer,   \* batches an Oracle thread has read ahead for the reader
  threads,  \* of each reading, its Oracle thread: where it is, batches read
  channel,  \* emissions on their way: the reading and the unit
  durable,  \* emissions in the repository, in order
  broker,   \* committed: next offset of the group; commits: those under way
  emitted,  \* every emission so far
  breakdowns,
  crashes

intakeVars == <<source, run, reader, buffer, threads, channel, durable, broker, emitted, breakdowns, crashes>>

NoThread == [at |-> "off", read |-> 0]
Rest     == [at |-> "rest", attempt |-> 1, first |-> 1, read |-> 0, sent |-> 0]
Error    == 0

IntakeInit ==
  /\ source \in Sources
  /\ run = 0
  /\ reader = Rest
  /\ buffer = <<>>
  /\ threads = [r \in Readings |-> NoThread]
  /\ channel = <<>> /\ durable = <<>>
  /\ broker = [committed |-> 1, commits |-> <<>>]
  /\ emitted = {}
  /\ breakdowns = 0 /\ crashes = 0

Current == <<run, reader.attempt>>
Reading == reader.at \in {"reading", "committing"}

\* first, read and sent are units of the topic or the result: the reading
\* starts at first, has read up to read and has sent up to sent.
Beginning(attempt) ==
  LET first == IF source = "kafka" THEN broker.committed ELSE 1 IN
  [at |-> "reading", attempt |-> attempt, first |-> first, read |-> first - 1, sent |-> first - 1]

\* The thread of an attempt, from query_stream.
Spawned(attempt) ==
  IF source = "thread" THEN [threads EXCEPT ![<<run', attempt>>] = [at |-> "fetching", read |-> 0]]
                     ELSE threads

----------------------------------------------------------------------------
(* The task of the source *)

\* Commits under way when their consumer closes: as many as got through.
ConsumerClosed ==
  \E n \in 0 .. Len(broker.commits) :
    broker' = [committed |-> IF n = 0 THEN broker.committed ELSE broker.commits[n],
               commits |-> <<>>]

Breakdown == breakdowns < MaxBreakdowns /\ breakdowns' = breakdowns + 1

\* A run of the flow seeds the source.
Begins ==
  /\ reader.at = "rest" /\ run < MaxRuns
  /\ run' = run + 1
  /\ reader' = Beginning(1)
  /\ threads' = Spawned(1)
  /\ UNCHANGED <<source, buffer, channel, durable, broker, emitted, breakdowns, crashes>>

\* The end of an attempt drops the stream or the consumer: an Oracle thread
\* finds its channel closed, whatever it was about to send.
Dropped == buffer' = <<>> /\ ConsumerClosed

\* An error of the database or of the broker, an emission that is refused for
\* lack of memory, a commit that cannot be queued, or timeout_ms.
Breaks ==
  /\ Breakdown
  /\ Dropped
  /\ reader' = [reader EXCEPT !.at = IF reader.attempt < MaxRetrials THEN "backoff" ELSE "rest"]
  /\ UNCHANGED <<source, run, threads, channel, durable, emitted, crashes>>

ReadFails == Reading /\ Breaks

\* The next attempt reads from the beginning; a consumer, from what the group
\* has committed.
Retries ==
  /\ reader.at = "backoff"
  /\ reader' = Beginning(reader.attempt + 1)
  /\ UNCHANGED run
  /\ threads' = Spawned(reader.attempt + 1)
  /\ UNCHANGED <<source, buffer, channel, durable, broker, emitted, breakdowns, crashes>>

\* A batch of a cursor: the next one when this one was emitted.
Reads ==
  /\ reader.at = "reading" /\ source = "stream"
  /\ reader.read < NumUnits /\ reader.sent = reader.read
  /\ reader' = [reader EXCEPT !.read = @ + 1]
  /\ UNCHANGED <<source, run, buffer, threads, channel, durable, broker, emitted, breakdowns, crashes>>

\* All batches, before the first is emitted.
Collects ==
  /\ reader.at = "reading" /\ source = "collect" /\ reader.read < NumUnits
  /\ reader' = [reader EXCEPT !.read = @ + 1]
  /\ UNCHANGED <<source, run, buffer, threads, channel, durable, broker, emitted, breakdowns, crashes>>

\* recv: the next message; not after max_poll_messages.
Polls ==
  /\ reader.at = "reading" /\ source = "kafka" /\ reader.sent = reader.read
  /\ reader.read < NumUnits /\ reader.read - reader.first + 1 < MaxPoll
  /\ reader' = [reader EXCEPT !.read = @ + 1]
  /\ UNCHANGED <<source, run, buffer, threads, channel, durable, broker, emitted, breakdowns, crashes>>

\* next_batch: what the thread has sent, a batch or its error.
Receives ==
  /\ reader.at = "reading" /\ reader.sent = reader.read /\ buffer # <<>>
  /\ IF Head(buffer) = Error
     THEN /\ Dropped
          /\ reader' = [reader EXCEPT !.at = IF reader.attempt < MaxRetrials THEN "backoff" ELSE "rest"]
     ELSE /\ buffer' = Tail(buffer)
          /\ reader' = [reader EXCEPT !.read = @ + 1]
          /\ UNCHANGED broker
  /\ UNCHANGED <<source, run, threads, channel, durable, emitted, breakdowns, crashes>>

\* A message that cannot be decoded is emitted through "failure" and committed
\* like any other.
AfterSend == IF source = "kafka" THEN "committing" ELSE "reading"

EmitsUnit ==
  /\ reader.at = "reading" /\ reader.sent < reader.read
  /\ source = "collect" => reader.read = NumUnits
  /\ Len(channel) < QueueCapacity
  /\ channel' = Append(channel, <<Current, reader.sent + 1>>)
  /\ emitted' = emitted \cup {<<Current, reader.sent + 1>>}
  /\ reader' = [reader EXCEPT !.sent = @ + 1, !.at = AfterSend]
  /\ UNCHANGED <<source, run, buffer, threads, durable, broker, breakdowns, crashes>>

\* commit_message(Async): queued in the client.
CommitsOffset ==
  /\ reader.at = "committing"
  /\ broker' = [broker EXCEPT !.commits = Append(@, reader.sent + 1)]
  /\ reader' = [reader EXCEPT !.at = "reading"]
  /\ UNCHANGED <<source, run, buffer, threads, channel, durable, emitted, breakdowns, crashes>>

BrokerCommits ==
  /\ broker.commits # <<>>
  /\ broker' = [committed |-> Head(broker.commits), commits |-> Tail(broker.commits)]
  /\ UNCHANGED <<source, run, reader, buffer, threads, channel, durable, emitted, breakdowns, crashes>>

\* The result is exhausted; a consumer ends at its maximum or when idle.
Finished ==
  CASE source = "kafka" -> TRUE
    [] source = "thread" -> threads[Current].at = "off" /\ buffer = <<>>
    [] OTHER -> reader.read = NumUnits

Ends ==
  /\ reader.at = "reading" /\ reader.sent = reader.read /\ Finished
  /\ Dropped
  /\ reader' = [reader EXCEPT !.at = "success"]
  /\ UNCHANGED <<source, run, threads, channel, durable, emitted, breakdowns, crashes>>

\* The flow comes to rest, to be run again by its trigger.
Rests ==
  /\ reader.at = "success" /\ channel = <<>>
  /\ reader' = Rest
  /\ UNCHANGED <<source, run, buffer, threads, channel, durable, broker, emitted, breakdowns, crashes>>

----------------------------------------------------------------------------
(* The thread of an Oracle query: stream_rows *)

\* Its receiver: the reader of the same attempt, while it reads.
Listened(r) == r = Current /\ Reading

Set(r, thread) == threads' = [threads EXCEPT ![r] = thread]

\* A batch is complete, or the last row was read.
Fetches(r) ==
  LET t == threads[r] IN
  /\ t.at = "fetching"
  /\ Set(r, IF t.read < NumUnits THEN [at |-> "sending", read |-> t.read + 1] ELSE NoThread)
  /\ UNCHANGED <<source, run, reader, buffer, channel, durable, broker, emitted, breakdowns, crashes>>

\* blocking_send waits while the channel is full.
HandsOver(r) ==
  LET t == threads[r] IN
  /\ t.at = "sending" /\ Listened(r) /\ Len(buffer) < StreamCapacity
  /\ buffer' = Append(buffer, t.read)
  /\ Set(r, [t EXCEPT !.at = "fetching"])
  /\ UNCHANGED <<source, run, reader, channel, durable, broker, emitted, breakdowns, crashes>>

\* Mistake: a batch that finds no room waits whether or not anybody listens.
SendWaits(r) ==
  /\ threads[r].at = "failing" /\ ~Listened(r)
  /\ Set(r, NoThread)
  /\ UNCHANGED <<source, run, reader, buffer, channel, durable, broker, emitted, breakdowns, crashes>>

\* The consumer went away.
SendFails(r) ==
  /\ threads[r].at \in {"sending", "failing"} /\ ~Listened(r)
  /\ Set(r, NoThread)
  /\ UNCHANGED <<source, run, reader, buffer, channel, durable, broker, emitted, breakdowns, crashes>>

\* The break of a dropped stream interrupts the fetch; nobody hears of it.
Broken(r) ==
  /\ threads[r].at = "fetching" /\ ~Listened(r)
  /\ Set(r, NoThread)
  /\ UNCHANGED <<source, run, reader, buffer, channel, durable, broker, emitted, breakdowns, crashes>>

FetchFails(r) ==
  /\ threads[r].at = "fetching" /\ Breakdown
  /\ Set(r, [threads[r] EXCEPT !.at = "failing"])
  /\ UNCHANGED <<source, run, reader, buffer, channel, durable, broker, emitted, crashes>>

\* Mistake: the error of a fetch is dropped.
ReportsNothing(r) ==
  /\ threads[r].at = "failing" /\ Listened(r) /\ Len(buffer) < StreamCapacity
  /\ Set(r, NoThread)
  /\ UNCHANGED <<source, run, reader, buffer, channel, durable, broker, emitted, breakdowns, crashes>>

\* The error takes its place behind the batches.
Reports(r) ==
  /\ threads[r].at = "failing" /\ Listened(r) /\ Len(buffer) < StreamCapacity
  /\ buffer' = Append(buffer, Error)
  /\ Set(r, NoThread)
  /\ UNCHANGED <<source, run, reader, channel, durable, broker, emitted, breakdowns, crashes>>

----------------------------------------------------------------------------
(* The executor and the process *)

\* An emission is routed: it becomes a row of the repository.
Routes ==
  /\ channel # <<>>
  /\ durable' = Append(durable, Head(channel))
  /\ channel' = Tail(channel)
  /\ UNCHANGED <<source, run, reader, buffer, threads, broker, emitted, breakdowns, crashes>>

Crashes ==
  /\ crashes < MaxCrashes /\ crashes' = crashes + 1
  /\ ConsumerClosed
  /\ reader' = Rest /\ buffer' = <<>> /\ channel' = <<>>
  /\ threads' = [r \in Readings |-> NoThread]
  /\ UNCHANGED <<source, run, durable, emitted, breakdowns>>

ReaderStep ==
  \/ Retries \/ Reads \/ Collects \/ Polls \/ Receives \/ EmitsUnit \/ CommitsOffset \/ Ends \/ Rests

ThreadStep(r) == Fetches(r) \/ HandsOver(r) \/ SendFails(r) \/ Broken(r) \/ Reports(r)

IntakeNext ==
  \/ Begins \/ ReaderStep \/ ReadFails \/ BrokerCommits \/ Routes \/ Crashes
  \/ \E r \in Readings : ThreadStep(r) \/ FetchFails(r)

\* The task and the executor go on, and a fetch returns (call_timeout_ms).
IntakeFairness ==
  /\ WF_intakeVars(ReaderStep) /\ WF_intakeVars(Routes)
  /\ \A r \in Readings : WF_intakeVars(ThreadStep(r))

IntakeSpec == IntakeInit /\ [][IntakeNext]_intakeVars /\ IntakeFairness

----------------------------------------------------------------------------
(* Properties *)

\* What the executor has been given, in order.
Handed == durable \o channel

\* A source that ends well has handed every batch of its last reading, once and
\* in order, to the channel; behind a thread too, whose error may come after
\* batches that were read ahead.
CompleteOnSuccess ==
  reader.at = "success" /\ source # "kafka" =>
    /\ \A n \in Units : \E k \in DOMAIN Handed : Handed[k] = <<Current, n>>
    /\ \A k \in DOMAIN Handed : Handed[k][1] = Current => Handed[k][2] \in Units
    /\ \A j, k \in DOMAIN Handed :
         j < k /\ Handed[j][1] = Current /\ Handed[k][1] = Current => Handed[j][2] < Handed[k][2]

\* A message is committed only after it was emitted, by this or by an earlier
\* consumer of the group: "Commit tras emision exitosa".
CommittedWasEmitted ==
  source = "kafka" =>
    \A n \in Units : n < broker.committed => \E r \in Readings : <<r, n>> \in emitted

\* What a source is done with, a flow was given.
NothingSkipped == CompleteOnSuccess /\ CommittedWasEmitted

\* "Dropping the stream stops the fetch": a thread nobody listens to ends, and
\* gives its session back to the pool.
ThreadsStop ==
  \A r \in Readings : threads[r].at # "off" /\ ~Listened(r) ~> threads[r].at = "off"

=============================================================================
