----------------------------- MODULE FlowEngine -----------------------------
(***************************************************************************)
(* One FlowEngine with its packet repository: the run loop (run_inner),    *)
(* the scheduler that starts pending work, the router that publishes what  *)
(* processors emit, the processor tasks with their retries, the control    *)
(* signal shared with the administrative API, and restarts.                *)
(*                                                                         *)
(* The loop and the tasks run on several threads: a loop step is what the  *)
(* loop does between two reads of shared state (the lifecycle, the emission*)
(* channel, a row), a task step what a processor does between two uses of  *)
(* its output.  Packets weigh one unit of packet memory.                   *)
(***************************************************************************)
EXTENDS Integers, Sequences, FiniteSets, Functions

CONSTANTS
  Processors,       \* the ids of the flow's processors, in YAML order
  Connections,      \* its connections, in YAML order
  QueueCapacity,    \* engine.queue_capacity
  MaxConcurrency,   \* engine.max_concurrency
  Ordering,         \* scheduling.ordering of each processor
  ConcurrentTasks,  \* scheduling.concurrent_tasks of each processor
  MaximumInFlight,  \* scheduling.maximum_in_flight, 0 when absent
  TimeoutSet,       \* the processors with scheduling.timeout_ms
  MaximumAttempts,  \* retry.maximum_attempts
  Depth,            \* processor_downstream_depths
  Units,            \* packet memory
  PartitionKeys,    \* values of partition_by in packets
  NoKey,            \* a packet without one value for partition_by
  DomainMemory,     \* is a domain memory (JME) configured?
  Commands,         \* what operators and the environment do to the flow
  MaxCommands,      \* bound: commands issued
  MaxRuns,          \* bound: times the engine is started
  MaxRows           \* bound: rows inserted in the repository

Procs   == Range(Processors)
Edges   == Range(Connections)
Sources == {p \in Procs : \A c \in Edges : c.to # p}

\* Work items: the seed of each source processor, and the rows by queue_id.
Rows  == 1 .. MaxRows
Works == Sources \cup Rows

Outgoing(p, rel) == SelectSeq(Connections, LAMBDA c : c.from = p /\ c.relationship = rel)

Relationships == {c.relationship : c \in Edges} \cup {"failure"}

\* What FlowGraph::build and validate accept.
Validated ==
  /\ Processors \in Seq(Procs) /\ Processors # <<>>
  /\ \A m, n \in DOMAIN Processors : Processors[m] = Processors[n] => m = n
  /\ QueueCapacity \in Nat \ {0}
  /\ MaxConcurrency \in Nat \ {0}
  /\ Ordering \in [Procs -> {"unordered", "preserve", "partitioned"}]
  /\ ConcurrentTasks \in [Procs -> Nat \ {0}]
  /\ MaximumInFlight \in [Procs -> Nat]
  /\ \A p \in Procs : MaximumInFlight[p] # 0 => MaximumInFlight[p] >= ConcurrentTasks[p]
  /\ Connections \in Seq(Edges)
  /\ \A c \in Edges : c.from \in Procs /\ c.to \in Procs /\ c.capacity \in Nat \ {0}
  /\ \A c \in Edges : Len(Outgoing(c.from, c.relationship)) <= QueueCapacity
  /\ Sources # {}
  /\ \A p \in Procs : Depth[p] + 1 <= MaxConcurrency

\* The graph has no cycle, so this equation determines the depths.
DepthIsLongestPath ==
  /\ Depth \in [Procs -> Nat]
  /\ \A c \in Edges : Depth[c.from] >= Depth[c.to] + 1
  /\ \A p \in Procs :
       Depth[p] # 0 => \E c \in Edges : c.from = p /\ Depth[p] = Depth[c.to] + 1

ASSUME EngineAssumption ==
  /\ Validated
  /\ DepthIsLongestPath
  /\ Procs \cap Rows = {}
  /\ NoKey \notin PartitionKeys
  /\ TimeoutSet \subseteq Procs
  /\ MaximumAttempts \in Nat
  /\ Units \in Nat \ {0}
  /\ DomainMemory \in BOOLEAN
  /\ Commands \subseteq {"pause", "resume", "drain", "requeue", "abort"}
  /\ {MaxCommands, MaxRuns, MaxRows} \subseteq Nat

VARIABLES
  lifecycle,            \* FlowControl
  commands, runs,       \* counters of the bounds
  pc, cause,            \* where the loop is; why a run failed
  notified,             \* the lifecycle changed since the loop subscribed
  \* locals of run_inner
  pending, deferred, memoryStall, activePerProcessor, activePartitions,
  \* locals of schedule_available and of route_emission
  routedBacklog, inspected, routing, branches, continueAt,
  channel,              \* the bounded emission channel
  item, created,        \* the work items; rows 1 .. created exist
  row,                  \* their status in the repository
  phase, attempt, out   \* the processor tasks

loopVars == <<pending, deferred, memoryStall, activePerProcessor, activePartitions,
              routedBacklog, inspected, routing, branches, continueAt>>
workVars == <<item, created, row>>
taskVars == <<phase, attempt, out>>
controlVars == <<lifecycle, commands, notified>>
vars == <<controlVars, runs, pc, cause, loopVars, channel, workVars, taskVars>>

Lifecycles == {"STOPPED", "STARTING", "RUNNING", "PAUSED", "DRAINING", "FAILED"}
Statuses   == {"ABSENT", "PENDING", "RUNNING", "COMPLETED", "DEAD_LETTER"}
LoopSteps  == {"start", "top", "subscribe", "parked", "schedule", "scan", "publish",
               "settle", "select", "ended", "failed"}
Unfinished == {"try", "execute", "reserve", "send", "giveUp", "reserveFailure", "sendFailure"}
Finished   == {"done", "deadLetter", "fatal"}
Phases     == {"none", "pending"} \cup Unfinished \cup Finished

Emissions == [source : Works, relationship : Relationships,
              key : PartitionKeys \cup {NoKey}, attempt : 0 .. MaximumAttempts]

Sending == {"reserve", "send", "reserveFailure", "sendFailure"}

NoConnection == [from |-> "none", relationship |-> "none", to |-> "none"]

\* connection_id
ConnectionId(c) == [from |-> c.from, relationship |-> c.relationship, to |-> c.to]

WorkItems ==
  [processor : Procs, connection : {NoConnection} \cup {ConnectionId(c) : c \in Edges},
   key : PartitionKeys \cup {NoKey}, attempt : 0 .. MaximumAttempts]

\* The run loop has ended; its locals, the channel and the tasks are dropped.
Over    == pc \in {"ended", "failed"}
Alive   == pc \notin {"start", "ended", "failed"}

Running == {w \in Works : phase[w] \in Unfinished \cup Finished}
Proc(w) == item[w].processor
IsSourceSeed(w) == w \in Sources
Queued  == {n \in DOMAIN pending : ~IsSourceSeed(pending[n])}
QueuedOn(c)  == {n \in DOMAIN pending : item[pending[n]].connection = ConnectionId(c)}
QueuedFor(p) == {n \in DOMAIN pending : Proc(pending[n]) = p}

\* Units of packet memory held: by inputs, by working copies, by emissions
\* being sent, in the channel or in the router, and by branches reserved.
Used ==
  LET inputs  == {w \in Works \ Sources : phase[w] \in {"pending"} \cup Unfinished}
      copies  == {w \in Works \ Sources : phase[w] \in {"execute", "send"}}
      sending == {w \in Works : phase[w] \in {"send", "sendFailure"}}
  IN  Cardinality(inputs) + Cardinality(copies) + Cardinality(sending)
        + Len(channel) + Len(deferred) + Len(routing) + Len(branches)

Init ==
  /\ lifecycle = "STARTING"
  /\ commands = 0 /\ runs = 1
  /\ pc = "start" /\ cause = "none"
  /\ notified = FALSE
  /\ pending = <<>> /\ deferred = <<>> /\ memoryStall = FALSE
  /\ activePerProcessor = [p \in Procs |-> 0]
  /\ activePartitions = [p \in Procs |-> {}]
  /\ routedBacklog = 0 /\ inspected = 0
  /\ routing = <<>> /\ branches = <<>> /\ continueAt = "top"
  /\ channel = <<>>
  /\ item = [w \in Works |-> [processor |-> IF w \in Sources THEN w ELSE Processors[1],
                              connection |-> NoConnection, key |-> NoKey, attempt |-> 0]]
  /\ created = 0
  /\ row = [w \in Rows |-> "ABSENT"]
  /\ phase = [w \in Works |-> "none"]
  /\ attempt = [w \in Works |-> 0]
  /\ out = [w \in Works |-> <<>>]

Goto(step) == pc' = step
SetLifecycle(state) == lifecycle' = state /\ notified' = TRUE

\* run_inner returned an error: run_started reports it.
Fails(why) ==
  /\ Goto("failed")
  /\ cause' = why
  /\ SetLifecycle("FAILED")

\* run_inner returned its summary, after cleanup: run_started reports it.
Ends ==
  /\ Goto("ended")
  /\ SetLifecycle("STOPPED")
  /\ UNCHANGED cause

----------------------------------------------------------------------------
\* A run begins: recover_abandoned, pending (rows of one second are in no
\* particular order), and the seeds of the sources when nothing was pending.

Seeds == SelectSeq(Processors, LAMBDA p : p \in Sources)

\* What selecting from a sequence gives, which the library of the provers does
\* not say.
ASSUME SelectionAssumption ==
  /\ Seeds \in Seq(Sources)
  /\ \A m, n \in DOMAIN Seeds : Seeds[m] = Seeds[n] => m = n
  /\ \A p \in Procs, rel \in Relationships :
       /\ Outgoing(p, rel) \in Seq(Edges)
       /\ \A n \in DOMAIN Outgoing(p, rel) :
            LET c == Outgoing(p, rel)[n] IN c.from = p /\ c.relationship = rel

Abandoned == {w \in Rows : row[w] = "RUNNING"}
\* Mistake: rows still RUNNING are loaded as well.
WaitingOrRunning == {w \in Rows : row[w] \in {"PENDING", "RUNNING"}}

Waiting   == {w \in Rows : row[w] = "PENDING"}

Orders(S) == {s \in [1 .. Cardinality(S) -> S] : Range(s) = S}

Recover(old) ==
  /\ pc = "start"
  /\ old \subseteq Abandoned
  /\ row' = [w \in Rows |-> IF w \in old THEN "PENDING" ELSE row[w]]
  /\ item' = [w \in Works |-> [item[w] EXCEPT !.connection = NoConnection]]
  /\ attempt' = [w \in Works |-> item[w].attempt]
  /\ IF Cardinality(Waiting \cup old) > Units
       THEN /\ Fails("memory")
            /\ UNCHANGED <<pending, phase>>
       ELSE /\ \E order \in Orders(Waiting \cup old) :
                 pending' = IF order = <<>> THEN Seeds ELSE order
            /\ phase' = [w \in Works |-> IF w \in Range(pending') THEN "pending" ELSE "none"]
            /\ SetLifecycle("RUNNING")
            /\ Goto("top")
            /\ UNCHANGED cause
  /\ UNCHANGED <<commands, runs, deferred, memoryStall, activePerProcessor,
                 activePartitions, routedBacklog, inspected, routing, branches,
                 continueAt, channel, created, out>>

----------------------------------------------------------------------------
\* route_emission and hold_unrouted.

InFlight(p) == Cardinality(QueuedFor(p)) + activePerProcessor[p]

\* Mistake: a full edge takes one more.
QueueFullLate(next) ==
  \/ Cardinality(Queued) + Len(next) > QueueCapacity
  \/ \E n \in DOMAIN next : Cardinality(QueuedOn(next[n])) > next[n].capacity

QueueFull(next) ==
  \/ next # <<>> /\ Cardinality(Queued) + Len(next) > QueueCapacity
  \/ \E n \in DOMAIN next :
       LET c == next[n]
           incoming == {m \in DOMAIN next : next[m].to = c.to}
       IN  \/ Cardinality(QueuedOn(c)) >= c.capacity
           \/ /\ MaximumInFlight[c.to] # 0
              /\ InFlight(c.to) + Cardinality(incoming) > MaximumInFlight[c.to]

MemoryFullLate(next) == Used > Units       \* Mistake: off by the branches

MemoryFull(next) == Used + Len(next) > Units

Hold(emission, step) ==
  /\ deferred' = <<emission>>
  /\ Goto(step)
  /\ UNCHANGED <<routing, branches, continueAt>>

\* Every branch is checked and reserved before any is published.
Route(emission, step) ==
  LET next == Outgoing(Proc(emission.source), emission.relationship) IN
    \/ /\ QueueFull(next)
       /\ Hold(emission, step)
       /\ memoryStall' = FALSE
    \/ /\ ~QueueFull(next)
       /\ MemoryFull(next)
       /\ Hold(emission, step)
       /\ memoryStall' = TRUE
    \/ /\ ~QueueFull(next)
       /\ ~MemoryFull(next)
       /\ deferred' = <<>>
       /\ routing' = <<emission>>
       /\ branches' = next
       /\ continueAt' = step
       /\ Goto("publish")
       /\ UNCHANGED memoryStall

\* One branch: a row is inserted, then the item queued.
Publish ==
  /\ pc = "publish"
  /\ branches # <<>>
  /\ created < MaxRows
  /\ LET w == created + 1
         c == Head(branches)
     IN  /\ row' = [row EXCEPT ![w] = "PENDING"]
         /\ item' = [item EXCEPT ![w] =
              [processor |-> c.to, connection |-> ConnectionId(c),
               key |-> routing[1].key, attempt |-> routing[1].attempt]]
         /\ attempt' = [attempt EXCEPT ![w] = routing[1].attempt]
         /\ phase' = [phase EXCEPT ![w] = "pending"]
         /\ pending' = Append(pending, w)
  /\ created' = created + 1
  /\ branches' = Tail(branches)
  /\ UNCHANGED <<controlVars, runs, pc, cause, deferred, memoryStall,
                 activePerProcessor, activePartitions, routedBacklog, inspected,
                 routing, continueAt, channel, out>>

Published ==
  /\ pc = "publish"
  /\ branches = <<>>
  /\ routing' = <<>>
  /\ memoryStall' = FALSE
  /\ Goto(continueAt)
  /\ continueAt' = "top"
  /\ UNCHANGED <<controlVars, runs, cause, pending, deferred, activePerProcessor,
                 activePartitions, routedBacklog, inspected, branches,
                 channel, workVars, taskVars>>

----------------------------------------------------------------------------
\* The top of the loop.

\* Mistake: only STOPPED ends the loop.
StopsWhenStopped == lifecycle = "STOPPED" /\ Running = {}

Stops == lifecycle \in {"DRAINING", "STOPPED"} /\ Running = {}
Waits == lifecycle = "PAUSED" /\ Running = {}

LoopStop ==
  /\ pc = "top"
  /\ Stops
  /\ Ends
  /\ UNCHANGED <<commands, runs, loopVars, channel, workVars, taskVars>>

\* FlowControl::changed, in its two halves: subscribe, then wait for the next
\* transition.
LoopWait ==
  /\ pc = "top"
  /\ Waits
  /\ Goto("subscribe")
  /\ UNCHANGED <<controlVars, runs, cause, loopVars, channel, workVars, taskVars>>

Subscribe ==
  /\ pc = "subscribe"
  /\ notified' = FALSE
  /\ Goto("parked")
  /\ UNCHANGED <<lifecycle, commands, runs, cause, loopVars, channel, workVars, taskVars>>

WakeUp ==
  /\ pc = "parked"
  /\ notified
  /\ Goto("top")
  /\ UNCHANGED <<controlVars, runs, cause, loopVars, channel, workVars, taskVars>>

RouteDeferred ==
  /\ pc = "top"
  /\ ~Stops /\ ~Waits
  /\ deferred # <<>>
  /\ Route(deferred[1], "schedule")
  /\ UNCHANGED <<controlVars, runs, cause, pending, activePerProcessor, activePartitions,
                 routedBacklog, inspected, channel, workVars, taskVars>>

NothingDeferred ==
  /\ pc = "top"
  /\ ~Stops /\ ~Waits
  /\ deferred = <<>>
  /\ Goto("schedule")
  /\ UNCHANGED <<controlVars, runs, cause, loopVars, channel, workVars, taskVars>>

----------------------------------------------------------------------------
\* schedule_available: one item of pending at a time.

\* The lifecycle is read a second time.
ScheduleOff ==
  /\ pc = "schedule"
  /\ lifecycle # "RUNNING"
  /\ Goto("settle")
  /\ UNCHANGED <<controlVars, runs, cause, loopVars, channel, workVars, taskVars>>

ScheduleOn ==
  /\ pc = "schedule"
  /\ lifecycle = "RUNNING"
  /\ routedBacklog' = Cardinality(Queued) + Len(channel)
  /\ inspected' = 0
  /\ Goto("scan")
  /\ UNCHANGED <<controlVars, runs, cause, pending, deferred, memoryStall,
                 activePerProcessor, activePartitions, routing, branches, continueAt,
                 channel, workVars, taskVars>>

Limit(p) == IF Ordering[p] = "preserve" THEN 1 ELSE ConcurrentTasks[p]
Partitioned(p) == Ordering[p] = "partitioned"

NoSlot(w) ==
  \/ IsSourceSeed(w) /\ routedBacklog + Cardinality(Running) >= QueueCapacity
  \/ Cardinality(Running) + 1 + Depth[Proc(w)] > MaxConcurrency
  \/ activePerProcessor[Proc(w)] >= Limit(Proc(w))

KeyMissing(w) == Partitioned(Proc(w)) /\ item[w].key = NoKey
KeyBusy(w)    == Partitioned(Proc(w)) /\ item[w].key \in activePartitions[Proc(w)]

Scanning ==
  /\ pc = "scan"
  /\ Cardinality(Running) < MaxConcurrency
  /\ inspected < Len(pending)

ScanPostpone ==
  /\ Scanning
  /\ NoSlot(Head(pending)) \/ KeyBusy(Head(pending))
  /\ pending' = Append(Tail(pending), Head(pending))
  /\ inspected' = inspected + 1
  /\ UNCHANGED <<controlVars, runs, pc, cause, deferred, memoryStall,
                 activePerProcessor, activePartitions, routedBacklog, routing,
                 branches, continueAt, channel, workVars, taskVars>>

\* A packet without a partition key ends the whole run.
ScanKeyMissing ==
  /\ Scanning
  /\ ~NoSlot(Head(pending))
  /\ KeyMissing(Head(pending))
  /\ Fails("partition")
  /\ UNCHANGED <<commands, runs, loopVars, channel, workVars, taskVars>>

\* The row is claimed (this engine is alone with it) and the task spawned.
ScanStart ==
  /\ Scanning
  /\ LET w == Head(pending)
         p == Proc(w)
     IN  /\ ~NoSlot(w) /\ ~KeyMissing(w) /\ ~KeyBusy(w)
         /\ pending' = Tail(pending)
         /\ phase' = [phase EXCEPT ![w] = "try"]
         /\ row' = [v \in Rows |-> IF v = w THEN "RUNNING" ELSE row[v]]
         /\ activePerProcessor' = [activePerProcessor EXCEPT ![p] = @ + 1]
         /\ activePartitions' = [activePartitions EXCEPT
              ![p] = IF Partitioned(p) THEN @ \cup {item[w].key} ELSE @]
  /\ inspected' = 0
  /\ UNCHANGED <<controlVars, runs, pc, cause, deferred, memoryStall, routedBacklog,
                 routing, branches, continueAt, channel, item, created, attempt, out>>

ScanEnd ==
  /\ pc = "scan"
  /\ ~Scanning
  /\ routedBacklog' = 0 /\ inspected' = 0
  /\ Goto("settle")
  /\ UNCHANGED <<controlVars, runs, cause, pending, deferred, memoryStall,
                 activePerProcessor, activePartitions, routing, branches, continueAt,
                 channel, workVars, taskVars>>

----------------------------------------------------------------------------
\* After scheduling: is there anything left?

Idle == pending = <<>> /\ Running = {} /\ deferred = <<>>

\* Mistake: the channel is not looked at again before the loop ends.
SettleEndAtOnce ==
  /\ pc = "settle"
  /\ Idle
  /\ Ends
  /\ UNCHANGED <<commands, runs, loopVars, channel, workVars, taskVars>>

SettleEnd ==
  /\ pc = "settle"
  /\ Idle
  /\ channel = <<>>
  /\ Ends
  /\ UNCHANGED <<commands, runs, loopVars, channel, workVars, taskVars>>

SettleReceive ==
  /\ pc = "settle"
  /\ Idle
  /\ channel # <<>>
  /\ deferred' = <<Head(channel)>>
  /\ channel' = Tail(channel)
  /\ Goto("top")
  /\ UNCHANGED <<controlVars, runs, cause, pending, memoryStall, activePerProcessor,
                 activePartitions, routedBacklog, inspected, routing, branches,
                 continueAt, workVars, taskVars>>

SettleStalled ==
  /\ pc = "settle"
  /\ ~Idle
  /\ Running = {}
  /\ memoryStall
  /\ Fails("memory")
  /\ UNCHANGED <<commands, runs, loopVars, channel, workVars, taskVars>>

SettleOn ==
  /\ pc = "settle"
  /\ ~Idle
  /\ Running # {} \/ ~memoryStall
  /\ Goto("select")
  /\ UNCHANGED <<controlVars, runs, cause, loopVars, channel, workVars, taskVars>>

----------------------------------------------------------------------------
\* The branches of select!: any that is ready may be taken.

SelectFatal(w) ==
  /\ pc = "select"
  /\ phase[w] = "fatal"
  /\ Fails("fatal")
  /\ UNCHANGED <<commands, runs, loopVars, channel, workVars, taskVars>>

\* Mistake: the key of the finished task is kept.
ReleaseKeepsKey(w) ==
  /\ activePerProcessor' = [activePerProcessor EXCEPT ![Proc(w)] = @ - 1]
  /\ UNCHANGED activePartitions

Release(w) ==
  /\ activePerProcessor' = [activePerProcessor EXCEPT ![Proc(w)] = @ - 1]
  /\ activePartitions' = [activePartitions EXCEPT ![Proc(w)] = @ \ {item[w].key}]

SelectJoin(w) ==
  /\ pc = "select"
  /\ phase[w] \in {"done", "deadLetter"}
  /\ memoryStall' = FALSE
  /\ Release(w)
  /\ row' = [v \in Rows |-> IF v = w
                              THEN IF phase[w] = "done" THEN "COMPLETED" ELSE "DEAD_LETTER"
                              ELSE row[v]]
  /\ phase' = [phase EXCEPT ![w] = "none"]
  /\ attempt' = [attempt EXCEPT ![w] = 0]
  /\ Goto("top")
  /\ UNCHANGED <<controlVars, runs, cause, pending, deferred, routedBacklog, inspected,
                 routing, branches, continueAt, channel, item, created, out>>

SelectReceive ==
  /\ pc = "select"
  /\ deferred = <<>>
  /\ channel # <<>>
  /\ channel' = Tail(channel)
  /\ Route(Head(channel), "top")
  /\ UNCHANGED <<controlVars, runs, cause, pending, activePerProcessor, activePartitions,
                 routedBacklog, inspected, workVars, taskVars>>

\* MEMORY_STALL_TIMEOUT.
SelectStall ==
  /\ pc = "select"
  /\ memoryStall
  /\ Fails("memory")
  /\ UNCHANGED <<commands, runs, loopVars, channel, workVars, taskVars>>

\* The domain memory's tick, every 250 ms.
SelectTick ==
  /\ pc = "select"
  /\ DomainMemory
  /\ Goto("top")
  /\ UNCHANGED <<controlVars, runs, cause, loopVars, channel, workVars, taskVars>>

\* Every branch is disabled: "flow deadlocked".
SelectElse ==
  /\ pc = "select"
  /\ ~DomainMemory
  /\ Running = {}
  /\ deferred # <<>>
  /\ ~memoryStall
  /\ Fails("deadlock")
  /\ UNCHANGED <<commands, runs, loopVars, channel, workVars, taskVars>>

----------------------------------------------------------------------------
\* A processor task: execute_with_retry and OutputSender::emit.

TaskFrame == <<controlVars, runs, pc, cause, loopVars, workVars>>

Becomes(w, step) == phase' = [phase EXCEPT ![w] = step]

\* What follows an error: another attempt, or the failure emission.
Errs(w, retryable) ==
  IF retryable /\ attempt[w] < MaximumAttempts
    THEN Becomes(w, "try") /\ attempt' = [attempt EXCEPT ![w] = @ + 1]
    ELSE Becomes(w, "giveUp") /\ UNCHANGED attempt

\* The bound: rows are left for all that was emitted, or has to be after an error.
Room(p, rel) ==
  LET Takes(c, source, relationship) == c.from = Proc(source) /\ c.relationship = relationship
      emitted == channel \o deferred
      routed  == {b \in (DOMAIN emitted) \X Edges :
                    Takes(b[2], emitted[b[1]].source, emitted[b[1]].relationship)}
      coming  == {b \in Works \X Edges :
                    \/ out[b[1]] # <<>> /\ Takes(b[2], b[1], out[b[1]][1].relationship)
                    \/ phase[b[1]] = "giveUp" /\ Takes(b[2], b[1], "failure")}
  IN  \/ Outgoing(p, rel) = <<>>
      \/ created + Len(branches) + Cardinality(routed) + Cardinality(coming)
           + Len(Outgoing(p, rel)) <= MaxRows

\* reserve_working_copy: only a task that holds its input copies it.
TaskBegin(w) ==
  /\ phase[w] = "try"
  /\ IF IsSourceSeed(w) \/ Used < Units
       THEN Becomes(w, "execute") /\ UNCHANGED attempt
       ELSE Errs(w, TRUE)
  /\ UNCHANGED <<TaskFrame, channel, out>>

\* A task that holds its input never waits for memory: it emits, or gets an
\* error (TaskError).  An emission no connection takes stays in the task.
TaskEmit(w, rel, key, n) ==
  /\ phase[w] = "execute"
  /\ Outgoing(Proc(w), rel) # <<>>
  /\ Room(Proc(w), rel)
  /\ IsSourceSeed(w) \/ Used < Units
  /\ Becomes(w, IF Used < Units THEN "send" ELSE "reserve")
  /\ out' = [out EXCEPT ![w] =
       <<[source |-> w, relationship |-> rel, key |-> key, attempt |-> n]>>]
  /\ UNCHANGED <<TaskFrame, channel, attempt>>

TaskReserve(w) ==
  /\ phase[w] \in {"reserve", "reserveFailure"}
  /\ Used < Units
  /\ Becomes(w, IF phase[w] = "reserve" THEN "send" ELSE "sendFailure")
  /\ UNCHANGED <<TaskFrame, channel, attempt, out>>

TaskSend(w) ==
  /\ phase[w] \in {"send", "sendFailure"}
  /\ Len(channel) < QueueCapacity
  /\ channel' = channel \o out[w]
  /\ out' = [out EXCEPT ![w] = <<>>]
  /\ Becomes(w, IF phase[w] = "send" THEN "execute" ELSE "deadLetter")
  /\ UNCHANGED <<TaskFrame, attempt>>

TaskReturn(w) ==
  /\ phase[w] = "execute"
  /\ Becomes(w, "done")
  /\ UNCHANGED <<TaskFrame, channel, attempt, out>>

\* What was emitted before the error stays emitted.
TaskError(w, retryable) ==
  /\ phase[w] = "execute"
  /\ Room(Proc(w), "failure")
  /\ Errs(w, retryable)
  /\ UNCHANGED <<TaskFrame, channel, out>>

\* scheduling.timeout_ms: the execution is dropped where it waits.
TaskTimeout(w) ==
  /\ phase[w] \in {"execute", "reserve", "send"}
  /\ Proc(w) \in TimeoutSet
  /\ Room(Proc(w), "failure")
  /\ Errs(w, TRUE)
  /\ out' = [out EXCEPT ![w] = <<>>]
  /\ UNCHANGED <<TaskFrame, channel>>

\* PacketTooLarge, or a panic.
TaskFatal(w) ==
  /\ phase[w] = "execute"
  /\ Becomes(w, "fatal")
  /\ UNCHANGED <<TaskFrame, channel, attempt, out>>

\* The failure emission; without a connection, or without memory, the packet
\* only goes to the dead letters.
TaskGiveUp(w) ==
  /\ phase[w] = "giveUp"
  /\ IF Outgoing(Proc(w), "failure") # <<>> /\ (IsSourceSeed(w) \/ Used < Units)
       THEN /\ Becomes(w, IF Used < Units THEN "sendFailure" ELSE "reserveFailure")
            /\ out' = [out EXCEPT ![w] =
                 <<[source |-> w, relationship |-> "failure",
                    key |-> item[w].key, attempt |-> attempt[w]]>>]
       ELSE Becomes(w, "deadLetter") /\ UNCHANGED out
  /\ UNCHANGED <<TaskFrame, channel, attempt>>

----------------------------------------------------------------------------
\* FlowControl, as the administrative API and the command line use it.

Command(name, from, to) ==
  /\ name \in Commands
  /\ commands < MaxCommands
  /\ lifecycle \in from
  /\ SetLifecycle(to)
  /\ commands' = commands + 1
  /\ UNCHANGED <<runs, pc, cause, loopVars, channel, workVars, taskVars>>

Pause  == Command("pause", {"RUNNING"}, "PAUSED")
Resume == Command("resume", {"PAUSED"}, "RUNNING")
Drain  == Command("drain", {"RUNNING", "PAUSED", "STARTING"}, "DRAINING")

\* Mistake: UPDATE without "AND status = 'DEAD_LETTER'".
RequeueAny(w) ==
  /\ "requeue" \in Commands
  /\ row[w] \in {"COMPLETED", "DEAD_LETTER"}
  /\ row' = [row EXCEPT ![w] = "PENDING"]
  /\ item' = [item EXCEPT ![w].attempt = 0]
  /\ UNCHANGED <<controlVars, runs, pc, cause, loopVars, channel, created, taskVars>>

\* An operator puts a dead letter back; the running engine is not told.
RequeueDeadLetter(w) ==
  /\ "requeue" \in Commands
  /\ row[w] = "DEAD_LETTER"
  /\ row' = [row EXCEPT ![w] = "PENDING"]
  /\ item' = [item EXCEPT ![w].attempt = 0]
  /\ UNCHANGED <<controlVars, runs, pc, cause, loopVars, channel, created, taskVars>>

\* The process dies, the task is aborted, or the repository returns an error.
Abort ==
  /\ "abort" \in Commands
  /\ ~Over
  /\ Fails("aborted")
  /\ UNCHANGED <<commands, runs, loopVars, channel, workVars, taskVars>>

\* FlowSupervisor::start, or a new process: everything but the rows is gone.
Restart ==
  /\ Over
  /\ runs < MaxRuns
  /\ runs' = runs + 1
  /\ SetLifecycle("STARTING")
  /\ Goto("start") /\ cause' = "none"
  /\ pending' = <<>> /\ deferred' = <<>> /\ memoryStall' = FALSE
  /\ activePerProcessor' = [p \in Procs |-> 0]
  /\ activePartitions' = [p \in Procs |-> {}]
  /\ routedBacklog' = 0 /\ inspected' = 0
  /\ routing' = <<>> /\ branches' = <<>> /\ continueAt' = "top"
  /\ channel' = <<>>
  /\ phase' = [w \in Works |-> "none"]
  /\ out' = [w \in Works |-> <<>>]
  /\ UNCHANGED <<commands, workVars, attempt>>

----------------------------------------------------------------------------

Join    == \E w \in Works : SelectJoin(w) \/ SelectFatal(w)

LoopStep ==
  \/ \E old \in SUBSET Rows : Recover(old)
  \/ Publish \/ Published
  \/ LoopStop \/ LoopWait \/ Subscribe \/ WakeUp \/ RouteDeferred \/ NothingDeferred
  \/ ScheduleOff \/ ScheduleOn
  \/ ScanPostpone \/ ScanKeyMissing \/ ScanStart \/ ScanEnd
  \/ SettleEnd \/ SettleReceive \/ SettleStalled \/ SettleOn
  \/ Join \/ SelectReceive \/ SelectStall \/ SelectTick \/ SelectElse

TaskStep(w) ==
  /\ Alive
  /\ \/ TaskBegin(w)
     \/ \E rel \in Relationships, key \in PartitionKeys \cup {NoKey} :
          \E n \in {0, attempt[w]} : TaskEmit(w, rel, key, n)
     \/ TaskReserve(w) \/ TaskSend(w) \/ TaskReturn(w)
     \/ \E retryable \in BOOLEAN : TaskError(w, retryable)
     \/ TaskTimeout(w) \/ TaskFatal(w) \/ TaskGiveUp(w)

Operator ==
  \/ Pause \/ Resume \/ Drain
  \/ \E w \in Rows : RequeueDeadLetter(w)
  \/ Abort \/ Restart

Next == LoopStep \/ (\E w \in Works : TaskStep(w)) \/ Operator

Spec == Init /\ [][Next]_vars

\* The loop and every task are polled until they finish, and select! picks at
\* random among the branches that are ready: none that is ready again and
\* again is left out for ever.  Nothing is assumed of operators.
Fairness ==
  /\ WF_vars(LoopStep)
  /\ SF_vars(Join) /\ SF_vars(SelectReceive)
  /\ \A w \in Works : WF_vars(TaskStep(w))

FairSpec == Spec /\ Fairness

----------------------------------------------------------------------------
(* Properties *)

ControlTypes ==
  /\ lifecycle \in Lifecycles
  /\ commands \in 0 .. MaxCommands /\ runs \in Nat
  /\ pc \in LoopSteps
  /\ cause \in {"none", "memory", "partition", "fatal", "deadlock", "aborted"}
  /\ notified \in BOOLEAN

SchedulerTypes ==
  /\ memoryStall \in BOOLEAN
  /\ activePerProcessor \in [Procs -> Int]
  /\ activePartitions \in [Procs -> SUBSET (PartitionKeys \cup {NoKey})]
  /\ routedBacklog \in Nat /\ inspected \in Nat

\* The router has the emission it publishes.
RouterTypes ==
  /\ deferred \in Seq(Emissions) /\ Len(deferred) <= 1
  /\ routing \in Seq(Emissions) /\ Len(routing) <= 1 /\ (pc = "publish" => routing # <<>>)
  /\ branches \in Seq(Edges)
  /\ continueAt \in {"top", "schedule"}
  /\ channel \in Seq(Emissions) /\ Len(channel) <= QueueCapacity

WorkTypes ==
  /\ pending \in Seq(Works)
  /\ item \in [Works -> WorkItems]
  /\ created \in 0 .. MaxRows
  /\ row \in [Rows -> Statuses]
  /\ phase \in [Works -> Phases]
  /\ attempt \in [Works -> 0 .. MaximumAttempts]
  /\ out \in [Works -> Seq(Emissions)]
  /\ \A w \in Works : Len(out[w]) <= 1

TypeOK == ControlTypes /\ SchedulerTypes /\ RouterTypes /\ WorkTypes

RunningOf(p) == {w \in Running : Proc(w) = p}

\* The counters the scheduler decides by, active_per_processor and
\* active_partitions, are the tasks in the JoinSet: a start, a join, a retry
\* or a restart never leaves one behind.
CountersMatchTasks ==
  Alive => \A p \in Procs :
    /\ activePerProcessor[p] = Cardinality(RunningOf(p))
    /\ activePartitions[p] = IF Partitioned(p) THEN {item[w].key : w \in RunningOf(p)} ELSE {}

\* What the scheduler promises of concurrency: at most concurrent_tasks of a
\* processor (one under preserve), at most one per partition key, and always
\* a free slot for each of the stages below the deepest running one.
ConcurrencyRespected ==
  Alive =>
    /\ \A p \in Procs : Cardinality(RunningOf(p)) <= Limit(p)
    /\ \A p \in Procs : \A v, w \in RunningOf(p) :
         Partitioned(p) /\ v # w => item[v].key # item[w].key
    /\ \A w \in Running :
         Cardinality({v \in Running : Depth[Proc(v)] >= Depth[Proc(w)]})
           <= MaxConcurrency - Depth[Proc(w)]

Recovered(w) == ~IsSourceSeed(w) /\ item[w].connection = NoConnection

\* The router's limits hold of what it queued: only the work recovered at
\* start, which is not limited, can exceed engine.queue_capacity or
\* maximum_in_flight, and then nothing is added until it has drained.
QueuesBounded ==
  Alive =>
    /\ Cardinality(Queued) > QueueCapacity => \A n \in Queued : Recovered(pending[n])
    /\ \A c \in Edges : Cardinality(QueuedOn(c)) <= c.capacity
    /\ \A p \in Procs :
         MaximumInFlight[p] # 0 /\ InFlight(p) > MaximumInFlight[p] =>
           \A w \in RunningOf(p) \cup {pending[n] : n \in QueuedFor(p)} : Recovered(w)

\* Whoever is scheduled or queued, the configured limits hold.
LimitsRespected == ConcurrencyRespected /\ QueuesBounded

\* The loop and the repository agree on every row the loop knows: queued once
\* and PENDING, or running and RUNNING, never both.
RowsMatchMemory ==
  Alive =>
    /\ \A m, n \in DOMAIN pending : pending[m] = pending[n] => m = n
    /\ Range(pending) \cap Running = {}
    /\ \A w \in Range(pending) \ Sources : row[w] = "PENDING"
    /\ \A w \in Running \ Sources : row[w] = "RUNNING"

\* The rows the loop works on follow the queue that the repository promises
\* (PacketQueue): every branch, claim, end of task, recovery and requeue is
\* one of its steps.
Fate(st) ==
  CASE st = "ABSENT"      -> "unborn"
    [] st = "PENDING"     -> "waiting"
    [] st = "RUNNING"     -> "leased"
    [] st = "DEAD_LETTER" -> "dead"
    [] OTHER              -> "done"

Queue == INSTANCE PacketQueue WITH Items <- Rows, fate <- [w \in Rows |-> Fate(row[w])]

UsesQueue == Queue!QueueSpec

\* Packet memory is never over-committed.
MemoryBounded == Alive => Used <= Units

\* A run of a flow that nobody drains ends only when everything that was accepted has
\* reached a terminal route: nothing is queued, held, in the channel, or
\* being sent.
EndsWhenDone ==
  pc = "ended" /\ "drain" \notin Commands =>
    /\ pending = <<>> /\ deferred = <<>> /\ channel = <<>> /\ routing = <<>>
    /\ \A w \in Works : phase[w] = "none"

\* A run that nobody commanded is never reported as deadlocked: what validate
\* accepts can always make room for a deferred emission.
NoFalseDeadlock == cause = "deadlock" => commands > 0

\* An end of a run is what it is reported as.
EndsRightly == EndsWhenDone /\ NoFalseDeadlock

\* Every run comes to an end, unless it is paused: by itself, drained at any
\* moment, or aborted.
RunsEnd == pc = "start" ~> Over

\* A drain ends the run: "al vaciar `running` termina el flujo"
\* (docs/core-hardening-supervisor.md, DRAINING).  It takes the tick of a
\* domain memory: without one, nothing tells of the drain to a loop that
\* selects with nothing at work (its select has no branch for the lifecycle).
DrainingEnds == lifecycle = "DRAINING" ~> Over

=============================================================================
