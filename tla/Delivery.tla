------------------------------- MODULE Delivery -------------------------------
(***************************************************************************)
(* The packets of one sink processor on their way to its destination: the  *)
(* task of each packet, with its worker permit and its retries, the        *)
(* circuit breaker of the connection, and the writer, for every kind of    *)
(* destination.  A packet is written in batches.  The destination goes on  *)
(* on its own with what it was asked, whether or not the task still waits. *)
(***************************************************************************)
EXTENDS Integers, FiniteSets, FiniteSetsExt

CONSTANTS
  NumPackets,
  NumBatches,   \* bound: batches of a packet
  MaxAttempts,  \* retry.maximum_attempts
  Threshold,    \* circuit_breaker.failure_threshold
  HalfOpen,     \* circuit_breaker.half_open_requests
  Permits,      \* threads of the worker pool
  Uses          \* [kind, flaw: what is wrong with each packet, ordered, pooled,
                \* faults: bound, calls that fail and tasks that time out]

Packets  == 1 .. NumPackets
Batches  == 1 .. NumBatches
Attempts == 1 .. MaxAttempts
Flaws    == {"none", "unreadable", "malformed", "refused"}

----------------------------------------------------------------------------
(* The destinations *)

\* Errors that are not retried (FlowError::is_retryable): which ones depends on
\* how a connector classifies what its driver says.  An outage is "transient".
MySqlFinal   == {"refused"}
OracleFinal  == {"refused"}
MongoFinal   == {"refused", "malformed"}
KafkaFinal   == {"refused"}
UnsortedFinal == {}

\* atomic: one transaction for the packet; early: the records are converted
\* before the first call; adrift: a cancelled call goes on in its thread;
\* parallel: all batches are sent at once.
Postgres ==
  [atomic |-> TRUE, early |-> FALSE, adrift |-> FALSE,
   parallel |-> FALSE, final |-> UnsortedFinal]
MySql ==
  [atomic |-> TRUE, early |-> FALSE, adrift |-> FALSE,
   parallel |-> FALSE, final |-> MySqlFinal]
Oracle ==
  [atomic |-> TRUE, early |-> TRUE, adrift |-> TRUE,
   parallel |-> FALSE, final |-> OracleFinal]
SqlServer ==
  [atomic |-> TRUE, early |-> FALSE, adrift |-> FALSE,
   parallel |-> FALSE, final |-> UnsortedFinal]
ClickHouse ==
  [atomic |-> FALSE, early |-> FALSE, adrift |-> FALSE,
   parallel |-> FALSE, final |-> UnsortedFinal]
MongoDb ==
  [atomic |-> FALSE, early |-> TRUE, adrift |-> FALSE,
   parallel |-> FALSE, final |-> MongoFinal]
Kafka ==
  [atomic |-> FALSE, early |-> TRUE, adrift |-> FALSE,
   parallel |-> TRUE, final |-> KafkaFinal]

Kinds == {Postgres, MySql, Oracle, SqlServer, ClickHouse, MongoDb, Kafka}

ASSUME DeliveryAssumption ==
  /\ NumPackets \in Nat \ {0} /\ NumBatches \in Nat \ {0} /\ MaxAttempts \in Nat \ {0}
  /\ Threshold \in Nat \ {0} /\ HalfOpen \in Nat \ {0} /\ Permits \in Nat \ {0}
  /\ Uses \subseteq [kind : Kinds, flaw : [Packets -> Flaws], ordered : BOOLEAN,
                pooled : BOOLEAN, faults : Nat]

VARIABLES
  use,     \* the destination and the packets of this history
  task,    \* of each packet: where it is and which attempt this is
  work,    \* of each attempt: its transaction or request at the destination
  table,   \* the rows at the destination: packet, attempt and batch
  newest,  \* of each batch of rows, the packet that wrote it last
  circuit, \* the breaker of the connection
  probes,  \* calls admitted since the breaker last let one through
  faults

deliveryVars == <<use, task, work, table, newest, circuit, probes, faults>>

Idle   == [phase |-> "none", n |-> 0]
Closed == [failures |-> 0, state |-> "closed", in_flight |-> 0]
Nobody == 0

DeliveryInit ==
  /\ use \in Uses
  /\ task = [p \in Packets |-> [at |-> "waiting", attempt |-> 1]]
  /\ work = [p \in Packets |-> [a \in Attempts |-> Idle]]
  /\ table = {}
  /\ newest = [b \in Batches |-> Nobody]
  /\ circuit = Closed
  /\ probes = 0
  /\ faults = 0

kind == use.kind
Ended(p) == task[p].at \in {"success", "failure"}
Holding == {p \in Packets : task[p].at \notin {"waiting", "success", "failure"}}

\* What the current attempt of p has at the destination.
Mine(p) == work[p][task[p].attempt]

Goes(p, at) == task' = [task EXCEPT ![p].at = at]
Works(p, w) == work' = [work EXCEPT ![p][task[p].attempt] = w]

Fault == faults < use.faults /\ faults' = faults + 1
NoFault == UNCHANGED faults

----------------------------------------------------------------------------
(* CircuitBreakers *)

Admits ==
  \/ circuit.state = "closed"
  \/ circuit.state = "cooled" /\ circuit.in_flight < HalfOpen

\* permit.
Admitted ==
  IF circuit.state = "closed" THEN UNCHANGED <<circuit, probes>>
  ELSE /\ circuit' = [circuit EXCEPT !.in_flight = @ + 1]
       /\ probes' = probes + 1

CircuitSuccess == circuit' = Closed

\* Mistake: the failure of a probe does not start the wait again.
FailureStaysCooled ==
  circuit' =
    [failures |-> Min({circuit.failures + 1, Threshold}), in_flight |-> 0,
     state |-> IF circuit.state = "closed" /\ circuit.failures + 1 >= Threshold
               THEN "open" ELSE circuit.state]

CircuitFailure ==
  circuit' =
    [failures |-> Min({circuit.failures + 1, Threshold}), in_flight |-> 0,
     state |-> IF circuit.failures + 1 >= Threshold THEN "open" ELSE circuit.state]

\* open_seconds have passed since the last failure.
Cools ==
  /\ circuit.state = "open"
  /\ circuit' = [circuit EXCEPT !.state = "cooled"]
  /\ probes' = 0
  /\ UNCHANGED <<use, task, work, table, newest, faults>>

----------------------------------------------------------------------------
(* The task: execute_with_retry *)

\* A packet without a worker permit waits for one; with ordering "preserve" a
\* processor takes one packet after the other.
Starts(p) ==
  /\ task[p].at = "waiting"
  /\ use.pooled => Cardinality(Holding) < Permits
  /\ use.ordered => \A q \in 1 .. p - 1 : Ended(q)
  /\ Goes(p, "ready")
  /\ UNCHANGED <<use, work, table, newest, circuit, probes, faults>>

\* An attempt ends with an error: another one after the backoff, with the same
\* permit, or the packet leaves through "failure".
Fails(p, error) ==
  task' = [task EXCEPT ![p] =
             IF @.attempt < MaxAttempts /\ error \notin kind.final
             THEN [at |-> "backoff", attempt |-> @.attempt + 1]
             ELSE [@ EXCEPT !.at = "failure"]]

BackoffEnds(p) ==
  /\ task[p].at = "backoff"
  /\ Goes(p, "ready")
  /\ UNCHANGED <<use, work, table, newest, circuit, probes, faults>>

\* Dropping a call: a pooled session rolls back or is closed, and so does a
\* connection of its own; a transaction whose COMMIT is under way may commit.
\* Mistake: the session goes back to the pool as it is.
SessionKept(w) == w
SessionDropped(w) == IF w.phase = "open" THEN [w EXCEPT !.phase = "lost"] ELSE w

\* timeout_ms of the processor: the call is dropped, wherever it is, and nobody
\* tells the breaker.  In Oracle the thread of the call goes on.
TimesOut(p) ==
  /\ task[p].at \in {"calling", "emitting"}
  /\ Fault
  /\ Fails(p, "timeout")
  /\ Works(p, IF kind.adrift THEN Mine(p) ELSE SessionDropped(Mine(p)))
  /\ UNCHANGED <<use, table, newest, circuit, probes>>

----------------------------------------------------------------------------
(* The processors: put_database, put_mongodb, publish_kafka *)

CircuitRefuses(p) ==
  /\ task[p].at = "ready" /\ ~Admits
  /\ Fails(p, "circuit")
  /\ UNCHANGED <<use, work, table, newest, circuit, probes, faults>>

\* A payload that is not records; for Kafka, records that do not make messages.
NoRecords(p) ==
  use.flaw[p] = "unreadable" \/ (kind = Kafka /\ use.flaw[p] = "malformed")

\* After the permit, before the first call: an error that the breaker does not
\* hear of.
Unreadable(p) ==
  /\ task[p].at = "ready" /\ Admits /\ NoRecords(p)
  /\ Admitted
  /\ Fails(p, "unreadable")
  /\ UNCHANGED <<use, work, table, newest, faults>>

Calls(p) ==
  /\ task[p].at = "ready" /\ Admits /\ ~NoRecords(p)
  /\ Admitted
  /\ Goes(p, "calling")
  /\ Works(p, [phase |-> "open", n |-> 0])
  /\ UNCHANGED <<use, table, newest, faults>>

\* What a writer's error does to the breaker.
PutTells(error) == IF error \in kind.final THEN CircuitSuccess ELSE CircuitFailure

\* opens_circuit: a rejected message changes nothing.
KafkaTells(error) ==
  IF error \in KafkaFinal THEN UNCHANGED circuit ELSE CircuitFailure

WriterFails(p, error) ==
  /\ task[p].at = "calling"
  /\ IF kind = Kafka THEN KafkaTells(error) ELSE PutTells(error)
  /\ Fails(p, error)
  /\ Works(p, SessionDropped(Mine(p)))
  /\ UNCHANGED <<use, table, newest, probes>>

Emits(p) ==
  /\ task[p].at = "emitting"
  /\ Goes(p, "success")
  /\ UNCHANGED <<use, work, table, newest, circuit, probes, faults>>

----------------------------------------------------------------------------
(* The writers *)

\* The record with the flaw is in the last batch.  Early: all the records are
\* converted before the first call.
ConvertFails(p) ==
  /\ use.flaw[p] = "malformed" /\ Mine(p).phase = "open"
  /\ Mine(p).n = IF kind.early THEN 0 ELSE NumBatches - 1
  /\ WriterFails(p, "malformed") /\ NoFault

\* A statement or a request, or the wait for its answer, ends in an error: the
\* destination may have done what it was asked.
CallFails(p) == Fault /\ WriterFails(p, "transient")

\* Who may go on with the work of attempt a: its task, or the thread of an
\* Oracle call that nobody waits for.
Driven(p, a) ==
  \/ task[p] = [at |-> "calling", attempt |-> a]
  \/ kind.adrift

Flawed(p, b) ==
  \/ b = NumBatches /\ use.flaw[p] # "none"
  \/ kind.early /\ use.flaw[p] = "malformed"

\* The rows of an open transaction stay locked until it ends.
Locks(p, a, b) == work[p][a].phase \in {"open", "commit", "lost"} /\ b <= work[p][a].n
Free(p, a, b) ==
  \A q \in Packets, c \in Attempts : <<q, c>> # <<p, a>> => ~Locks(q, c, b)

\* A batch of the transaction.
Executes(p, a) ==
  LET w == work[p][a] IN
  /\ kind.atomic /\ w.phase = "open" /\ w.n < NumBatches /\ Driven(p, a)
  /\ ~Flawed(p, w.n + 1) /\ Free(p, a, w.n + 1)
  /\ work' = [work EXCEPT ![p][a].n = @ + 1]
  /\ UNCHANGED <<use, task, table, newest, circuit, probes, faults>>

\* The refused batch: an answer of the server, so the destination is up.
Refuses(p) ==
  LET w == Mine(p) IN
  /\ use.flaw[p] = "refused"
  /\ \/ kind.atomic /\ w.phase = "open" /\ w.n = NumBatches - 1
     \/ ~kind.atomic /\ w.phase = "sent" /\ (kind.parallel \/ w.n = NumBatches - 1)
  /\ WriterFails(p, "refused") /\ NoFault

SendsCommit(p, a) ==
  /\ kind.atomic /\ work[p][a] = [phase |-> "open", n |-> NumBatches] /\ Driven(p, a)
  /\ work' = [work EXCEPT ![p][a].phase = "commit"]
  /\ UNCHANGED <<use, task, table, newest, circuit, probes, faults>>

\* The server commits, awaited or not.
Commits(p, a) ==
  /\ work[p][a].phase = "commit"
  /\ work' = [work EXCEPT ![p][a].phase = "done"]
  /\ table' = table \cup {<<p, a, b>> : b \in Batches}
  /\ newest' = [b \in Batches |-> p]
  /\ UNCHANGED <<use, task, circuit, probes, faults>>

Abandoned(p, a) == task[p] # [at |-> "calling", attempt |-> a]

\* The server undoes a transaction that lost its session, or never got its
\* COMMIT; or the break of an abandoned Oracle call reaches it in time.
RollsBack(p, a) ==
  /\ kind.atomic /\ Abandoned(p, a)
  /\ work[p][a].phase \in {"lost", "commit"} \cup (IF kind.adrift THEN {"open"} ELSE {})
  /\ work' = [work EXCEPT ![p][a].phase = "undone"]
  /\ UNCHANGED <<use, task, table, newest, circuit, probes, faults>>

\* Without a transaction: the next batch, or all the messages of the packet.
Sends(p) ==
  LET w == Mine(p) IN
  /\ ~kind.atomic /\ task[p].at = "calling" /\ w.phase = "open" /\ w.n < NumBatches
  /\ use.flaw[p] = "malformed" => ~Flawed(p, w.n + 1)
  /\ Works(p, [w EXCEPT !.phase = "sent"])
  /\ UNCHANGED <<use, task, table, newest, circuit, probes, faults>>

UnderWay(w) == IF kind.parallel THEN Batches ELSE {w.n + 1}

\* The destination does what the request asks, awaited or not.
Lands(p, a, b) ==
  LET w == work[p][a] IN
  /\ w.phase = "sent" /\ b \in UnderWay(w) /\ <<p, a, b>> \notin table
  /\ ~Flawed(p, b)
  /\ table' = table \cup {<<p, a, b>>}
  /\ newest' = [newest EXCEPT ![b] = p]
  /\ UNCHANGED <<use, task, work, circuit, probes, faults>>

Confirms(p) ==
  LET w == Mine(p) IN
  /\ task[p].at = "calling" /\ w.phase = "sent"
  /\ \A b \in UnderWay(w) : <<p, task[p].attempt, b>> \in table
  /\ Works(p, [phase |-> "open", n |-> Max(UnderWay(w))])
  /\ UNCHANGED <<use, task, table, newest, circuit, probes, faults>>

\* An abandoned request never gets there.
Vanishes(p, a) ==
  /\ work[p][a].phase = "sent" /\ Abandoned(p, a)
  /\ work' = [work EXCEPT ![p][a].phase = "undone"]
  /\ UNCHANGED <<use, task, table, newest, circuit, probes, faults>>

\* Mistake: the answer to the last batch is taken for the commit.
AcknowledgedEarly(w) == w.n = NumBatches

Acknowledged(w) ==
  IF kind.atomic THEN w.phase = "done" ELSE w.phase = "open" /\ w.n = NumBatches

Succeeds(p) ==
  /\ task[p].at = "calling" /\ Acknowledged(Mine(p))
  /\ CircuitSuccess
  /\ Goes(p, "emitting")
  /\ UNCHANGED <<use, work, table, newest, probes, faults>>

----------------------------------------------------------------------------

TaskStep(p) ==
  \/ Starts(p) \/ BackoffEnds(p) \/ CircuitRefuses(p) \/ Unreadable(p) \/ Calls(p)
  \/ ConvertFails(p) \/ Refuses(p) \/ Sends(p) \/ Confirms(p) \/ Succeeds(p) \/ Emits(p)

WorkStep(p, a) ==
  \/ Executes(p, a) \/ SendsCommit(p, a) \/ Commits(p, a) \/ RollsBack(p, a) \/ Vanishes(p, a)
  \/ \E b \in Batches : Lands(p, a, b)

DeliveryNext ==
  \/ Cools
  \/ \E p \in Packets : TaskStep(p) \/ TimesOut(p) \/ CallFails(p)
  \/ \E p \in Packets, a \in Attempts : WorkStep(p, a)

\* Tasks and destination go on; calls need not fail or time out.
DeliveryFairness ==
  /\ \A p \in Packets : WF_deliveryVars(TaskStep(p))
  /\ \A p \in Packets, a \in Attempts : WF_deliveryVars(WorkStep(p, a))

DeliverySpec == DeliveryInit /\ [][DeliveryNext]_deliveryVars /\ DeliveryFairness

----------------------------------------------------------------------------
(* Properties *)

\* A packet that left through "success" is at the destination, whole, by one of
\* its attempts: "returns only after commit" (database.rs:146).
SuccessIsStored ==
  \A p \in Packets :
    task[p].at \in {"emitting", "success"} =>
      \E a \in Attempts : \A b \in Batches : <<p, a, b>> \in table

\* With a transaction, an attempt leaves all its rows or none, whatever is
\* dropped, refused or in doubt, and nothing if the server refused a batch or a
\* record was malformed: "Writes every record atomically".
WholeOrNothing ==
  kind.atomic =>
    \A p \in Packets, a \in Attempts :
      \/ \A b \in Batches : <<p, a, b>> \notin table
      \/ use.flaw[p] = "none" /\ \A b \in Batches : <<p, a, b>> \in table

\* In order, and with a session that dies with its call, what an older packet
\* left behind never replaces the rows of a newer one that was acknowledged.
NewestWins ==
  use.ordered /\ kind \in {Postgres, MySql, SqlServer} =>
    \A p \in Packets :
      task[p].at \in {"emitting", "success"} => \A b \in Batches : newest[b] >= p

\* The destination has what the flow believes it has.
DeliveredWhole == SuccessIsStored /\ WholeOrNothing /\ NewestWins

\* Between two waits the breaker lets through no more calls than
\* half_open_requests, whatever their order and the late outcomes of calls from
\* before.
ProbesBounded == circuit.state = "cooled" => probes <= HalfOpen

\* Every packet leaves, through "success" or "failure": no permit, lock or
\* closed breaker keeps it for ever.
EveryPacketEnds == \A p \in Packets : <>Ended(p)

=============================================================================
