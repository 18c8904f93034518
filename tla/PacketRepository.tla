-------------------------- MODULE PacketRepository --------------------------
(***************************************************************************)
(* The durable half of a flow: the SQLite queue with its provenance table  *)
(* and the content-addressed files beside it (LocalPacketRepository), with *)
(* the engine runs that use them and other processes that open them.       *)
(*                                                                         *)
(* Every SQL transaction is one action.  File operations, and the          *)
(* statements of an operation that runs outside a transaction, are actions *)
(* of their own, so that another actor, or a crash, may come in between.   *)
(*                                                                         *)
(* Clock comparisons (claimed_at <= cutoff, completed_at <= cutoff,        *)
(* created_at <= cutoff) are a choice of which rows are old enough.        *)
(***************************************************************************)
EXTENDS Naturals, Sequences

CONSTANTS
  Items,        \* queue_id values (a fresh UUID for each row)
  Keys,         \* content hashes
  Flows,        \* flow_id values
  Engines,      \* engine runs, one FlowEngine each
  Admins,       \* other openers: the command line, the registry, the server
  FlowOf,       \* the flow an engine runs
  NoKey, NoFlow,
  MaxEvents     \* bound: a row with MaxEvents events is not put back again

Actors == Engines \cup Admins

ASSUME RepositoryAssumption ==
  /\ Engines \cap Admins = {}
  /\ FlowOf \in [Engines -> Flows]
  /\ NoKey \notin Keys
  /\ NoFlow \notin Flows
  /\ MaxEvents \in Nat

VARIABLES
  \* table jaiva_packet_queue, one row per item
  status,       \* "ABSENT": no row yet; "DELETED": row removed by cleanup
  flow,         \* column flow_id
  contentKey,   \* column content_key
  claimedAt,    \* claimed_at IS NOT NULL
  completedAt,  \* completed_at IS NOT NULL
  errorSet,     \* error IS NOT NULL
  \* table jaiva_provenance: the status events of each item, oldest first
  log,
  \* content directory: keys with a file
  blobs,
  \* what each actor is doing
  pc, key, refs, todo, aged,
  left,         \* orphans whose removal failed while the actor opened
  \* engine memory: the pending deque and the ids of running tasks
  queue, running

rowVars   == <<status, flow, contentKey, claimedAt, completedAt, errorSet>>
actorVars == <<pc, key, refs, todo, aged, left>>
engineVars == <<queue, running>>
vars == <<rowVars, log, blobs, actorVars, engineVars>>

Statuses == {"ABSENT", "PENDING", "RUNNING", "COMPLETED", "DEAD_LETTER", "DELETED"}
Stored   == {"PENDING", "RUNNING", "COMPLETED", "DEAD_LETTER"}
Events   == {"ENQUEUED", "CLAIMED", "COMPLETED", "FAILED", "RECOVERED", "REQUEUED"}
Phases   == {"down", "list", "sweep", "recover", "load", "up", "commit",
             "delete", "count", "unlink", "forget"}

Rows       == {i \in Items : status[i] \in Stored}
Referenced == {contentKey[i] : i \in Rows}     \* SELECT DISTINCT content_key

TypeOK ==
  /\ status \in [Items -> Statuses]
  /\ flow \in [Items -> Flows \cup {NoFlow}]
  /\ contentKey \in [Items -> Keys \cup {NoKey}]
  /\ claimedAt \in [Items -> BOOLEAN]
  /\ completedAt \in [Items -> BOOLEAN]
  /\ errorSet \in [Items -> BOOLEAN]
  /\ log \in [Items -> Seq(Events)]
  /\ blobs \in SUBSET Keys
  /\ pc \in [Actors -> Phases]
  /\ key \in [Actors -> Keys \cup {NoKey}]
  /\ refs \in [Actors -> SUBSET (Keys \cup {NoKey})]
  /\ todo \in [Actors -> SUBSET (Keys \cup {NoKey})]
  /\ aged \in [Actors -> SUBSET Items]
  /\ left \in [Actors -> SUBSET Keys]
  /\ queue \in [Engines -> SUBSET Items]
  /\ running \in [Engines -> SUBSET Items]

Init ==
  /\ status = [i \in Items |-> "ABSENT"]
  /\ flow = [i \in Items |-> NoFlow]
  /\ contentKey = [i \in Items |-> NoKey]
  /\ claimedAt = [i \in Items |-> FALSE]
  /\ completedAt = [i \in Items |-> FALSE]
  /\ errorSet = [i \in Items |-> FALSE]
  /\ log = [i \in Items |-> <<>>]
  /\ blobs = {}
  /\ pc = [a \in Actors |-> "down"]
  /\ key = [a \in Actors |-> NoKey]
  /\ refs = [a \in Actors |-> {}]
  /\ todo = [a \in Actors |-> {}]
  /\ aged = [a \in Actors |-> {}]
  /\ left = [a \in Actors |-> {}]
  /\ queue = [e \in Engines |-> {}]
  /\ running = [e \in Engines |-> {}]

Goto(a, phase) == pc' = [pc EXCEPT ![a] = phase]

\* insert_provenance, in the transaction that changes the row of item i.
Record(i, event) == log' = [log EXCEPT ![i] = Append(@, event)]

\* Actor a returns or dies: nothing of its work in progress remains.
Leave(a) ==
  /\ Goto(a, "down")
  /\ key' = [key EXCEPT ![a] = NoKey]
  /\ refs' = [refs EXCEPT ![a] = {}]
  /\ todo' = [todo EXCEPT ![a] = {}]
  /\ aged' = [aged EXCEPT ![a] = {}]
  /\ left' = [left EXCEPT ![a] = {}]
  /\ queue' = [e \in Engines |-> IF e = a THEN {} ELSE queue[e]]
  /\ running' = [e \in Engines |-> IF e = a THEN {} ELSE running[e]]

----------------------------------------------------------------------------
\* Opening the repository: LocalPacketRepository::open and reconcile_orphans.

\* The keys the queue refers to, read once.
OpenSelect(a) ==
  /\ pc[a] = "down"
  /\ Goto(a, "list")
  /\ refs' = [refs EXCEPT ![a] = Referenced]
  /\ UNCHANGED <<rowVars, log, blobs, key, todo, aged, left, engineVars>>

\* Mistake: only the top directory is listed, not its shards.
OpenListTop(a) ==
  /\ pc[a] = "list"
  /\ Goto(a, "sweep")
  /\ UNCHANGED <<rowVars, log, blobs, key, refs, todo, aged, left, engineVars>>

\* The files of the content directory, listed once.
OpenList(a) ==
  /\ pc[a] = "list"
  /\ Goto(a, "sweep")
  /\ todo' = [todo EXCEPT ![a] = blobs]
  /\ UNCHANGED <<rowVars, log, blobs, key, refs, aged, left, engineVars>>

\* One listed file whose key was not referenced is removed.
OpenRemove(a, k) ==
  /\ pc[a] = "sweep"
  /\ k \in todo[a] \ refs[a]
  /\ blobs' = blobs \ {k}
  /\ todo' = [todo EXCEPT ![a] = @ \ {k}]
  /\ UNCHANGED <<rowVars, log, pc, key, refs, aged, left, engineVars>>

\* The result of the removal is not looked at (`let _ =`): a file that cannot
\* be removed stays, and the opening goes on, counting it as removed.
OpenRemoveFails(a, k) ==
  /\ pc[a] = "sweep"
  /\ k \in todo[a] \ refs[a]
  /\ todo' = [todo EXCEPT ![a] = @ \ {k}]
  /\ left' = [left EXCEPT ![a] = @ \cup {k}]
  /\ UNCHANGED <<rowVars, log, blobs, pc, key, refs, aged, engineVars>>

OpenDone(a) ==
  /\ pc[a] = "sweep"
  /\ todo[a] \subseteq refs[a]
  /\ IF a \in Engines
       THEN /\ Goto(a, "recover")
            /\ refs' = [refs EXCEPT ![a] = {}]
            /\ todo' = [todo EXCEPT ![a] = {}]
            /\ UNCHANGED <<key, aged, left, engineVars>>
       ELSE Leave(a)
  /\ UNCHANGED <<rowVars, log, blobs>>

----------------------------------------------------------------------------
\* Start of an engine run: recover_abandoned, then pending.

\* Mistake: any row that was ever claimed is taken for abandoned.
AbandonedClaimed(e) ==
  {i \in Items : status[i] # "DEAD_LETTER" /\ flow[i] = FlowOf[e]
                 /\ claimedAt[i] /\ Len(log[i]) < MaxEvents}

\* The RUNNING rows of the engine's flow that the cutoff may select.
Abandoned(e) ==
  {i \in Items : /\ status[i] = "RUNNING"
                 /\ flow[i] = FlowOf[e]
                 /\ claimedAt[i]
                 /\ Len(log[i]) < MaxEvents}

RecoverAbandoned(e, old) ==
  /\ pc[e] = "recover"
  /\ old \subseteq Abandoned(e)
  /\ status' = [i \in Items |-> IF i \in old THEN "PENDING" ELSE status[i]]
  /\ claimedAt' = [i \in Items |-> claimedAt[i] /\ i \notin old]
  /\ log' = [i \in Items |-> IF i \in old THEN Append(log[i], "RECOVERED") ELSE log[i]]
  /\ Goto(e, "load")
  /\ UNCHANGED <<flow, contentKey, completedAt, errorSet, blobs,
                 key, refs, todo, aged, left, engineVars>>

\* Mistake: rows still RUNNING are loaded as well.
PendingOrRunningOf(e) ==
  {i \in Items : status[i] \in {"PENDING", "RUNNING"} /\ flow[i] = FlowOf[e]}

PendingOf(e) == {i \in Items : status[i] = "PENDING" /\ flow[i] = FlowOf[e]}

\* Every PENDING row is read with its content; one unreadable content fails
\* the run.
LoadPending(e) ==
  /\ pc[e] = "load"
  /\ IF \A i \in PendingOf(e) : contentKey[i] \in blobs
       THEN /\ Goto(e, "up")
            /\ queue' = [queue EXCEPT ![e] = PendingOf(e)]
            /\ left' = [left EXCEPT ![e] = {}]
            /\ UNCHANGED <<key, refs, todo, aged, running>>
       ELSE Leave(e)
  /\ UNCHANGED <<rowVars, log, blobs>>

----------------------------------------------------------------------------
\* Routing an emission: enqueue stores the content, then inserts the row.

\* content.put: a file that is already there is left alone.
EnqueuePut(e, k) ==
  /\ pc[e] = "up"
  /\ \E i \in Items : status[i] = "ABSENT"
  /\ blobs' = blobs \cup {k}
  /\ key' = [key EXCEPT ![e] = k]
  /\ Goto(e, "commit")
  /\ UNCHANGED <<rowVars, log, refs, todo, aged, left, engineVars>>

EnqueueCommit(e, i) ==
  /\ pc[e] = "commit"
  /\ status[i] = "ABSENT"
  /\ status' = [status EXCEPT ![i] = "PENDING"]
  /\ flow' = [flow EXCEPT ![i] = FlowOf[e]]
  /\ contentKey' = [contentKey EXCEPT ![i] = key[e]]
  /\ Record(i, "ENQUEUED")
  /\ key' = [key EXCEPT ![e] = NoKey]
  /\ queue' = [queue EXCEPT ![e] = @ \cup {i}]
  /\ Goto(e, "up")
  /\ UNCHANGED <<claimedAt, completedAt, errorSet, blobs, refs, todo, aged, left, running>>

----------------------------------------------------------------------------
\* Scheduling and finishing a work item.

\* A claim that finds the row PENDING: the task starts.
Claim(e, i) ==
  /\ pc[e] = "up"
  /\ i \in queue[e]
  /\ status[i] = "PENDING"
  /\ status' = [status EXCEPT ![i] = "RUNNING"]
  /\ claimedAt' = [claimedAt EXCEPT ![i] = TRUE]
  /\ Record(i, "CLAIMED")
  /\ queue' = [queue EXCEPT ![e] = @ \ {i}]
  /\ running' = [running EXCEPT ![e] = @ \cup {i}]
  /\ UNCHANGED <<flow, contentKey, completedAt, errorSet, blobs, actorVars>>

\* A claim that finds anything else: the item is dropped from memory.
ClaimLost(e, i) ==
  /\ pc[e] = "up"
  /\ i \in queue[e]
  /\ status[i] # "PENDING"
  /\ queue' = [queue EXCEPT ![e] = @ \ {i}]
  /\ UNCHANGED <<rowVars, log, blobs, actorVars, running>>

\* Mistake: UPDATE without "AND status = 'RUNNING'".
CloseAnyRow(e, i, to, event) ==
  /\ pc[e] = "up"
  /\ i \in running[e]
  /\ running' = [running EXCEPT ![e] = @ \ {i}]
  /\ status' = [status EXCEPT ![i] = to]
  /\ completedAt' = [completedAt EXCEPT ![i] = TRUE]
  /\ errorSet' = [errorSet EXCEPT ![i] = @ \/ event = "FAILED"]
  /\ Record(i, event)
  /\ UNCHANGED <<flow, contentKey, claimedAt, blobs, actorVars, queue>>

\* The row of a task that ended moves only if it is still RUNNING.
Close(e, i, to, event) ==
  /\ pc[e] = "up"
  /\ i \in running[e]
  /\ running' = [running EXCEPT ![e] = @ \ {i}]
  /\ IF status[i] = "RUNNING"
       THEN /\ status' = [status EXCEPT ![i] = to]
            /\ completedAt' = [completedAt EXCEPT ![i] = TRUE]
            /\ errorSet' = [errorSet EXCEPT ![i] = (event = "FAILED")]
            /\ Record(i, event)
       ELSE UNCHANGED <<status, completedAt, errorSet, log>>
  /\ UNCHANGED <<flow, contentKey, claimedAt, blobs, actorVars, queue>>

\* Mistakes: the event of the end of processing, and the event of success.
CompleteAsProcessed(e, i) == Close(e, i, "COMPLETED", "PROCESSED")
FailAsCompleted(e, i)     == Close(e, i, "DEAD_LETTER", "COMPLETED")

Complete(e, i) == Close(e, i, "COMPLETED", "COMPLETED")
Fail(e, i)     == Close(e, i, "DEAD_LETTER", "FAILED")

\* An administrator puts a dead letter back; no engine is told.
RequeueDeadLetter(i) ==
  /\ status[i] = "DEAD_LETTER"
  /\ Len(log[i]) < MaxEvents
  /\ status' = [status EXCEPT ![i] = "PENDING"]
  /\ claimedAt' = [claimedAt EXCEPT ![i] = FALSE]
  /\ completedAt' = [completedAt EXCEPT ![i] = FALSE]
  /\ errorSet' = [errorSet EXCEPT ![i] = FALSE]
  /\ Record(i, "REQUEUED")
  /\ UNCHANGED <<flow, contentKey, blobs, actorVars, engineVars>>

----------------------------------------------------------------------------
\* End of an engine run: cleanup_completed, then cleanup_provenance.  They
\* are not limited to the engine's flow and not in one transaction.

\* Mistake: whatever has a completed_at is cleaned up.
FinishedOrDead == {i \in Items : status[i] \in {"COMPLETED", "DEAD_LETTER"}}

Finished == {i \in Items : status[i] = "COMPLETED"}

\* The loop ends with no task running; items left in memory by a drain are
\* forgotten, their rows stay PENDING.
CleanupSelect(e, old) ==
  /\ pc[e] = "up"
  /\ running[e] = {}
  /\ old \subseteq Finished
  /\ aged' = [aged EXCEPT ![e] = old]
  /\ todo' = [todo EXCEPT ![e] = {contentKey[i] : i \in old}]
  /\ queue' = [queue EXCEPT ![e] = {}]
  /\ Goto(e, "delete")
  /\ UNCHANGED <<rowVars, log, blobs, key, refs, left, running>>

\* DELETE evaluates the cutoff again: rows finished since may go as well.
CleanupDelete(e, more) ==
  /\ pc[e] = "delete"
  /\ more \subseteq Finished \ aged[e]
  /\ LET gone == (aged[e] \cap Finished) \cup more IN
       /\ status' = [i \in Items |-> IF i \in gone THEN "DELETED" ELSE status[i]]
       /\ flow' = [i \in Items |-> IF i \in gone THEN NoFlow ELSE flow[i]]
       /\ contentKey' = [i \in Items |-> IF i \in gone THEN NoKey ELSE contentKey[i]]
       /\ claimedAt' = [i \in Items |-> claimedAt[i] /\ i \notin gone]
       /\ completedAt' = [i \in Items |-> completedAt[i] /\ i \notin gone]
  /\ aged' = [aged EXCEPT ![e] = {}]
  /\ Goto(e, "count")
  /\ UNCHANGED <<errorSet, log, blobs, key, refs, todo, left, engineVars>>

\* Mistake: the content of a deleted row is not shared with another row.
CleanupNoCount(e, k) ==
  /\ pc[e] = "count"
  /\ k \in todo[e]
  /\ todo' = [todo EXCEPT ![e] = @ \ {k}]
  /\ Goto(e, "unlink") /\ key' = [key EXCEPT ![e] = k]
  /\ UNCHANGED <<rowVars, log, blobs, refs, aged, left, engineVars>>

\* SELECT COUNT for one of the selected keys.
CleanupCount(e, k) ==
  /\ pc[e] = "count"
  /\ k \in todo[e]
  /\ todo' = [todo EXCEPT ![e] = @ \ {k}]
  /\ IF k \in Referenced
       THEN UNCHANGED <<pc, key>>
       ELSE Goto(e, "unlink") /\ key' = [key EXCEPT ![e] = k]
  /\ UNCHANGED <<rowVars, log, blobs, refs, aged, left, engineVars>>

\* content.delete of a key that was counted zero.
CleanupUnlink(e) ==
  /\ pc[e] = "unlink"
  /\ blobs' = blobs \ {key[e]}
  /\ key' = [key EXCEPT ![e] = NoKey]
  /\ Goto(e, "count")
  /\ UNCHANGED <<rowVars, log, refs, todo, aged, left, engineVars>>

CleanupCounted(e) ==
  /\ pc[e] = "count"
  /\ todo[e] = {}
  /\ Goto(e, "forget")
  /\ UNCHANGED <<rowVars, log, blobs, key, refs, todo, aged, left, engineVars>>

\* The events older than the cutoff are deleted: cut[i] of item i.
CleanupProvenance(e, cut) ==
  /\ pc[e] = "forget"
  /\ \A i \in Items : cut[i] <= Len(log[i])
  /\ log' = [i \in Items |-> SubSeq(log[i], cut[i] + 1, Len(log[i]))]
  /\ Leave(e)
  /\ UNCHANGED <<rowVars, blobs>>

----------------------------------------------------------------------------
\* The process of actor a is killed, its task is aborted, or an error ends
\* the run: whatever was not committed is gone.
Crash(a) ==
  /\ pc[a] # "down"
  /\ Leave(a)
  /\ UNCHANGED <<rowVars, log, blobs>>

OpenStep(a) ==
  \/ OpenSelect(a)
  \/ OpenList(a)
  \/ \E k \in Keys : OpenRemove(a, k) \/ OpenRemoveFails(a, k)
  \/ OpenDone(a)

WorkStep(e) ==
  \/ \E old \in SUBSET Items : RecoverAbandoned(e, old)
  \/ LoadPending(e)
  \/ \E k \in Keys : EnqueuePut(e, k)
  \/ \E i \in Items : \/ EnqueueCommit(e, i)
                     \/ Claim(e, i)
                     \/ ClaimLost(e, i)
                     \/ Complete(e, i)
                     \/ Fail(e, i)

CleanupStep(e) ==
  \/ \E old \in SUBSET Items : CleanupSelect(e, old)
  \/ \E more \in SUBSET Items : CleanupDelete(e, more)
  \/ \E k \in Keys : CleanupCount(e, k)
  \/ CleanupUnlink(e)
  \/ CleanupCounted(e)
  \/ \E cut \in [Items -> 0 .. MaxEvents + 3] : CleanupProvenance(e, cut)

Next ==
  \/ \E a \in Actors : OpenStep(a) \/ Crash(a)
  \/ \E e \in Engines : WorkStep(e) \/ CleanupStep(e)
  \/ \E i \in Items : RequeueDeadLetter(i)

Spec == Init /\ [][Next]_vars

----------------------------------------------------------------------------
(* Properties *)

\* The provenance event that accounts for each status of a stored row.
Cause(st) ==
  CASE st = "PENDING"     -> {"ENQUEUED", "RECOVERED", "REQUEUED"}
    [] st = "RUNNING"     -> {"CLAIMED"}
    [] st = "COMPLETED"   -> {"COMPLETED"}
    [] st = "DEAD_LETTER" -> {"FAILED"}
    [] st = "DELETED"     -> {"COMPLETED"}
    [] OTHER              -> {}

\* The events that may follow an event of the same item.
After(event) ==
  CASE event \in {"ENQUEUED", "RECOVERED", "REQUEUED"} -> {"CLAIMED"}
    [] event = "CLAIMED"                               -> {"COMPLETED", "FAILED", "RECOVERED"}
    [] event = "FAILED"                                -> {"REQUEUED"}
    [] OTHER                                           -> {}

\* The provenance of an item is a path of the queue's state machine that ends
\* where the row is, whatever crashed in between and however much old
\* provenance cleanup_provenance removed: no operation moves a row without
\* its event, or logs an event for a row it did not move.
LedgerAgrees ==
  \A i \in Items :
    /\ \A n \in 1 .. Len(log[i]) - 1 : log[i][n + 1] \in After(log[i][n])
    /\ log[i] # <<>> => log[i][Len(log[i])] \in Cause(status[i])

\* The columns recover_abandoned, cleanup_completed and the dead-letter
\* listing filter on agree with the status: a RUNNING row always has the
\* claimed_at the recovery query compares, a row that was put back carries
\* nothing of its earlier life.
ColumnsAgree ==
  \A i \in Items :
    /\ status[i] = "RUNNING" => claimedAt[i]
    /\ status[i] \in {"ABSENT", "PENDING", "DELETED"} => ~claimedAt[i]
    /\ completedAt[i] <=> status[i] \in {"COMPLETED", "DEAD_LETTER"}
    /\ errorSet[i] <=> status[i] = "DEAD_LETTER"

\* While one engine runs each flow, what an engine executes is RUNNING, of
\* its own flow, and what it holds in memory is PENDING: neither recovery,
\* nor the clean-up of another flow, nor an administrator takes it away, so
\* no claim is lost and no result is dropped.
EngineOwnsItsWork ==
  \A e \in Engines :
    /\ \A i \in running[e] : status[i] = "RUNNING" /\ flow[i] = FlowOf[e]
    /\ \A i \in queue[e] : status[i] = "PENDING" /\ flow[i] = FlowOf[e]

\* At most one engine executes an item (claim is exclusive).
OneExecutor ==
  \A d, e \in Engines : d # e => running[d] \cap running[e] = {}

\* A stored row's content has a file, at every moment, crashes included.
ContentPresent == Referenced \subseteq blobs

\* When the repository has been opened, a file without a row (left by a crash
\* between put and commit, or between a clean-up's DELETE and its unlink, or by
\* an earlier opening that could not remove it) is there only because this
\* opening tried to remove it and could not: reconcile_orphans misses none.
OrphansAreTried ==
  \A e \in Engines : pc[e] \in {"recover", "load"} => blobs \subseteq Referenced \cup left[e]

\* The queue the engine works against: PacketQueue, with these fates.
Fate(st) ==
  CASE st = "ABSENT"      -> "unborn"
    [] st = "PENDING"     -> "waiting"
    [] st = "RUNNING"     -> "leased"
    [] st = "DEAD_LETTER" -> "dead"
    [] OTHER              -> "done"

Queue == INSTANCE PacketQueue WITH fate <- [i \in Items |-> Fate(status[i])]

\* Every history of the repository, crashes, recoveries and clean-ups
\* included, is a history of the abstract queue.
ImplementsQueue == Queue!QueueSpec

=============================================================================
