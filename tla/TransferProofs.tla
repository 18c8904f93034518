--------------------------- MODULE TransferProofs ---------------------------
(***************************************************************************)
(* Proofs about both ends of a flow.  Delivery: for any destination, any   *)
(* packets, batches, attempts and permits, and any number of faults.       *)
(* Intake: for any source, any units, attempts, runs and capacities, and   *)
(* any number of breakdowns and crashes.                                   *)
(***************************************************************************)
EXTENDS Delivery, Intake, SequenceTheorems, TLAPS

----------------------------------------------------------------------------
(* Delivery: types. *)

Places == {"waiting", "ready", "calling", "emitting", "backoff", "success", "failure"}
Phases == {"none", "open", "sent", "commit", "done", "lost", "undone"}
Transaction == {w \in [phase : Phases, n : 0 .. NumBatches] : w.phase = "sent" => w.n < NumBatches}

DeliveryTypeOK ==
  /\ use \in Uses
  /\ task \in [Packets -> [at : Places, attempt : Attempts]]
  /\ work \in [Packets -> [Attempts -> Transaction]]
  /\ table \subseteq Packets \X Attempts \X Batches
  /\ newest \in [Batches -> Packets \cup {Nobody}]
  /\ circuit \in [failures : Nat, state : {"closed", "open", "cooled"}, in_flight : Nat]
  /\ probes \in Nat
  /\ faults \in Nat

----------------------------------------------------------------------------
(* Operators. *)

\* The smaller of two numbers.
LEMMA MinOfTwo ==
  ASSUME NEW m \in Nat, NEW n \in Nat
  PROVE  Min({m, n}) = IF m <= n THEN m ELSE n
<1>1. \E x \in {m, n} : \A y \in {m, n} : x <= y
  OBVIOUS
<1>2. \A x, z \in {m, n} : (\A y \in {m, n} : x <= y) /\ (\A y \in {m, n} : z <= y) => x = z
  OBVIOUS
<1>. QED BY <1>1, <1>2 DEF Min

\* The larger end of an interval that starts with 1.
LEMMA MaxOfInterval ==
  ASSUME NEW n \in Nat \ {0}
  PROVE  Max(1 .. n) = n
<1>1. n \in 1 .. n /\ \A y \in 1 .. n : n >= y
  OBVIOUS
<1>2. \A x \in 1 .. n : (\A y \in 1 .. n : x >= y) => x = n
  OBVIOUS
<1>. QED BY <1>1, <1>2 DEF Max

\* The largest member of a set of one.
LEMMA MaxOfOne ==
  ASSUME NEW n \in Nat
  PROVE  Max({n}) = n
BY DEF Max

\* What the properties need to know of the destinations.
LEMMA KindFacts ==
  ASSUME use \in Uses
  PROVE  /\ kind \in Kinds /\ kind.atomic \in BOOLEAN /\ kind.parallel \in BOOLEAN
         /\ kind.early \in BOOLEAN /\ kind.adrift \in BOOLEAN
         /\ use.flaw \in [Packets -> Flaws]
         /\ kind \in {Postgres, MySql, SqlServer} => kind.atomic /\ ~kind.adrift
<1>1. kind \in Kinds /\ use.flaw \in [Packets -> Flaws]
  BY DeliveryAssumption DEF DeliveryAssumption, kind
<1> DEFINE flags(k) == /\ k.atomic \in BOOLEAN /\ k.parallel \in BOOLEAN
                       /\ k.early \in BOOLEAN /\ k.adrift \in BOOLEAN
<1>2. \A k \in Kinds : flags(k)
  <2>1. flags(Postgres) /\ flags(MySql) /\ flags(SqlServer)
    BY DEF Postgres, MySql, SqlServer
  <2>2. flags(Oracle) /\ flags(ClickHouse)
    BY DEF Oracle, ClickHouse
  <2>3. flags(MongoDb) /\ flags(Kafka)
    BY DEF MongoDb, Kafka
  <2> HIDE DEF flags
  <2>. QED BY <2>1, <2>2, <2>3 DEF Kinds
<1>3. \A k \in {Postgres, MySql, SqlServer} : k.atomic /\ ~k.adrift
  BY DEF Postgres, MySql, SqlServer
<1>. QED BY <1>1, <1>2, <1>3

----------------------------------------------------------------------------
(* What a step does. *)

\* The tasks: one of them moves, or none.
TaskMoves(p) ==
  /\ \A q \in Packets : q # p => task'[q] = task[q]
  /\ \/ /\ task[p].at = "waiting" /\ task'[p].at = "ready"
        /\ use.ordered => \A q \in 1 .. p - 1 : Ended(q)
        /\ UNCHANGED <<work, table, newest>>
     \/ task[p].at = "backoff" /\ task'[p].at = "ready" /\ UNCHANGED <<work, table, newest>>
     \/ /\ task[p].at \in {"ready", "calling", "emitting"} /\ task'[p].at \in {"backoff", "failure"}
        /\ UNCHANGED <<table, newest>>
     \/ /\ task[p].at = "ready" /\ task'[p].at = "calling" /\ UNCHANGED <<table, newest>>
     \/ /\ task[p].at = "calling" /\ task'[p] = [task[p] EXCEPT !.at = "emitting"]
        /\ Acknowledged(Mine(p))
        /\ UNCHANGED <<work, table, newest>>
     \/ /\ task[p].at = "emitting" /\ task'[p] = [task[p] EXCEPT !.at = "success"]
        /\ UNCHANGED <<work, table, newest>>

\* The work of one attempt changes, and nothing else at the destination.
WorkMoves(p, a) ==
  /\ \A q \in Packets, c \in Attempts : <<q, c>> # <<p, a>> => work'[q][c] = work[q][c]
  /\ \/ /\ task[p].at = "ready" /\ work'[p][a] = [phase |-> "open", n |-> 0]
        /\ UNCHANGED <<table, newest>>
     \/ /\ task[p].at \in {"calling", "emitting"}
        /\ work'[p][a] \in {work[p][a], SessionDropped(work[p][a])}
        /\ task'[p].at \in {"backoff", "failure"}
        /\ UNCHANGED <<table, newest>>
     \/ Executes(p, a) \/ SendsCommit(p, a) \/ Commits(p, a) \/ RollsBack(p, a)
     \/ /\ ~kind.atomic /\ work[p][a].phase = "open" /\ work[p][a].n < NumBatches
        /\ work'[p][a] = [work[p][a] EXCEPT !.phase = "sent"]
        /\ UNCHANGED <<task, table, newest>>
     \/ /\ work[p][a].phase = "sent"
        /\ \A b \in UnderWay(work[p][a]) : <<p, a, b>> \in table
        /\ work'[p][a] = [phase |-> "open", n |-> Max(UnderWay(work[p][a]))]
        /\ UNCHANGED <<task, table, newest>>
     \/ Vanishes(p, a)

\* What an attempt that fails leaves.
LEMMA FailsMoves ==
  ASSUME DeliveryTypeOK, NEW p \in Packets, NEW error, Fails(p, error)
  PROVE  /\ task' \in [Packets -> [at : Places, attempt : Attempts]]
         /\ \A q \in Packets : q # p => task'[q] = task[q]
         /\ task'[p].at \in {"backoff", "failure"}
<1>1. task \in [Packets -> [at : Places, attempt : Attempts]]
  BY DEF DeliveryTypeOK
<1>2. task[p].attempt \in Attempts /\ "backoff" \in Places /\ "failure" \in Places
  BY <1>1 DEF Places
<1>3. task[p].attempt < MaxAttempts => task[p].attempt + 1 \in Attempts
  BY <1>2, DeliveryAssumption DEF DeliveryAssumption, Attempts
<1> DEFINE t == IF task[p].attempt < MaxAttempts /\ error \notin kind.final
                  THEN [at |-> "backoff", attempt |-> task[p].attempt + 1]
                  ELSE [task[p] EXCEPT !.at = "failure"]
<1>4. t \in [at : Places, attempt : Attempts] /\ t.at \in {"backoff", "failure"}
  <2>1. CASE task[p].attempt < MaxAttempts /\ error \notin kind.final
    BY <1>2, <1>3, <2>1
  <2>2. CASE ~(task[p].attempt < MaxAttempts /\ error \notin kind.final)
    BY <1>1, <1>2, <2>2
  <2>. QED BY <2>1, <2>2
<1>5. task' = [task EXCEPT ![p] = t]
  BY DEF Fails
<1> HIDE DEF t
<1>. QED BY <1>1, <1>4, <1>5

\* What a task that goes on leaves.
LEMMA GoesMoves ==
  ASSUME DeliveryTypeOK, NEW p \in Packets, NEW at \in Places, Goes(p, at)
  PROVE  /\ task' \in [Packets -> [at : Places, attempt : Attempts]]
         /\ \A q \in Packets : q # p => task'[q] = task[q]
         /\ task'[p] = [task[p] EXCEPT !.at = at] /\ task'[p].at = at
BY DEF DeliveryTypeOK, Goes

\* What a change of the work of one attempt leaves.
LEMMA WorksMoves ==
  ASSUME DeliveryTypeOK, NEW p \in Packets, NEW a \in Attempts, NEW w,
         work' = [work EXCEPT ![p][a] = w]
  PROVE  /\ \A q \in Packets, c \in Attempts : <<q, c>> # <<p, a>> => work'[q][c] = work[q][c]
         /\ work'[p][a] = w
         /\ w \in Transaction => work' \in [Packets -> [Attempts -> Transaction]]
BY DEF DeliveryTypeOK

\* A session that is dropped.
LEMMA DroppedTypes ==
  ASSUME NEW w \in Transaction
  PROVE  /\ SessionDropped(w) \in Transaction /\ SessionDropped(w).n = w.n
         /\ SessionDropped(w).phase = w.phase \/ (w.phase = "open" /\ SessionDropped(w).phase = "lost")
BY DEF SessionDropped, Transaction, Phases

\* The initial state is well typed.
LEMMA DeliveryInitTypes == DeliveryInit => DeliveryTypeOK
<1> SUFFICES ASSUME DeliveryInit PROVE DeliveryTypeOK
  OBVIOUS
<1>1. [at |-> "waiting", attempt |-> 1] \in [at : Places, attempt : Attempts] /\ Idle \in Transaction
  BY DeliveryAssumption DEF DeliveryAssumption, Places, Attempts, Idle, Transaction, Phases
<1>2. Closed \in [failures : Nat, state : {"closed", "open", "cooled"}, in_flight : Nat]
  BY DEF Closed
<1>. QED BY <1>1, <1>2 DEF DeliveryInit, DeliveryTypeOK

\* What a step leaves of the breaker is well typed.
LEMMA CircuitTypes ==
  ASSUME DeliveryTypeOK, NEW p \in Packets, NEW error,
         \/ UNCHANGED circuit \/ CircuitSuccess \/ CircuitFailure \/ Admitted
         \/ PutTells(error) \/ KafkaTells(error)
  PROVE  circuit' \in [failures : Nat, state : {"closed", "open", "cooled"}, in_flight : Nat]
<1> DEFINE C == [failures : Nat, state : {"closed", "open", "cooled"}, in_flight : Nat]
<1>0. circuit \in C /\ Threshold \in Nat
  BY DeliveryAssumption DEF DeliveryAssumption, DeliveryTypeOK
<1>1. CASE UNCHANGED circuit
  BY <1>0, <1>1
<1>2. CASE CircuitSuccess
  BY <1>2 DEF CircuitSuccess, Closed
<1>3. CASE CircuitFailure
  <2>1. Min({circuit.failures + 1, Threshold}) \in Nat
    BY <1>0, MinOfTwo
  <2>. QED BY <1>0, <1>3, <2>1 DEF CircuitFailure
<1>4. CASE Admitted
  BY <1>0, <1>4 DEF Admitted
<1>. QED BY <1>1, <1>2, <1>3, <1>4 DEF PutTells, KafkaTells

\* What an error of a writer does.
LEMMA WriterFailsMoves ==
  ASSUME DeliveryTypeOK, NEW p \in Packets, NEW error, WriterFails(p, error)
  PROVE  /\ task' \in [Packets -> [at : Places, attempt : Attempts]]
         /\ work' \in [Packets -> [Attempts -> Transaction]]
         /\ circuit' \in [failures : Nat, state : {"closed", "open", "cooled"}, in_flight : Nat]
         /\ TaskMoves(p) /\ \E a \in Attempts : WorkMoves(p, a)
         /\ UNCHANGED <<use, table, newest, probes>>
<1> DEFINE a == task[p].attempt
           w == SessionDropped(Mine(p))
<1>1. a \in Attempts /\ task[p].at = "calling" /\ UNCHANGED <<use, table, newest, probes>>
  BY DEF DeliveryTypeOK, WriterFails
<1>2. Mine(p) \in Transaction /\ Mine(p) = work[p][a] /\ w \in Transaction
  BY <1>1, DroppedTypes DEF DeliveryTypeOK, Mine
<1>3. work' = [work EXCEPT ![p][a] = w]
  BY DEF WriterFails, Works
<1> HIDE DEF a, w
<1>4. /\ \A q \in Packets, c \in Attempts : <<q, c>> # <<p, a>> => work'[q][c] = work[q][c]
      /\ work'[p][a] = w /\ work' \in [Packets -> [Attempts -> Transaction]]
  BY <1>1, <1>2, <1>3, WorksMoves, ZenonT(60)
<1>5. /\ task' \in [Packets -> [at : Places, attempt : Attempts]]
      /\ \A q \in Packets : q # p => task'[q] = task[q]
      /\ task'[p].at \in {"backoff", "failure"}
  BY FailsMoves DEF WriterFails
<1>6. circuit' \in [failures : Nat, state : {"closed", "open", "cooled"}, in_flight : Nat]
  BY CircuitTypes DEF WriterFails
<1>7. TaskMoves(p)
  BY <1>1, <1>5 DEF TaskMoves
<1>8. WorkMoves(p, a)
  BY <1>1, <1>2, <1>4, <1>5 DEF WorkMoves, w
<1>. QED BY <1>1, <1>4, <1>5, <1>6, <1>7, <1>8

\* What any step does to the tasks and to the destination.
Moves ==
  /\ use' = use
  /\ task' = task \/ \E p \in Packets : TaskMoves(p)
  /\ \/ UNCHANGED <<work, table, newest>>
     \/ \E p \in Packets, a \in Attempts : WorkMoves(p, a)
     \/ \E p \in Packets, a \in Attempts, b \in Batches : Lands(p, a, b)

\* A task that goes on is one of the moves, and so is the work it asks for.
LEMMA TaskStepMoves ==
  ASSUME DeliveryTypeOK, NEW p \in Packets, TaskStep(p) \/ TimesOut(p) \/ CallFails(p)
  PROVE  Moves /\ DeliveryTypeOK'
<1> DEFINE T == [Packets -> [at : Places, attempt : Attempts]]
           W == [Packets -> [Attempts -> Transaction]]
           C == [failures : Nat, state : {"closed", "open", "cooled"}, in_flight : Nat]
           a == task[p].attempt
           good == use' = use /\ task' \in T /\ work' \in W /\ circuit' \in C /\ probes' \in Nat
                   /\ UNCHANGED <<table, newest>> /\ faults' \in Nat
                   /\ (task' = task \/ TaskMoves(p))
                   /\ (work' = work \/ \E c \in Attempts : WorkMoves(p, c))
<1>0. /\ use \in Uses /\ task \in T /\ work \in W /\ circuit \in C /\ probes \in Nat /\ faults \in Nat
      /\ a \in Attempts /\ Mine(p) = work[p][a] /\ Mine(p) \in Transaction
  BY DEF DeliveryTypeOK, Mine
<1>1. \A at \in Places : Goes(p, at) =>
        /\ task' \in T /\ (\A q \in Packets : q # p => task'[q] = task[q])
        /\ task'[p] = [task[p] EXCEPT !.at = at] /\ task'[p].at = at
  BY GoesMoves
<1>2. {"ready", "calling", "emitting", "success"} \subseteq Places
  BY DEF Places
<1>3. \A error : Fails(p, error) =>
        /\ task' \in T /\ (\A q \in Packets : q # p => task'[q] = task[q])
        /\ task'[p].at \in {"backoff", "failure"}
  BY FailsMoves
<1>4. Admitted => circuit' \in C /\ probes' \in Nat
  <2>1. Admitted => circuit' \in C
    BY CircuitTypes
  <2>. QED BY <1>0, <2>1 DEF Admitted
<1>5. \A w \in Transaction : Works(p, w) =>
        /\ \A q \in Packets, c \in Attempts : <<q, c>> # <<p, a>> => work'[q][c] = work[q][c]
        /\ work'[p][a] = w /\ work' \in W
  <2> SUFFICES ASSUME NEW w \in Transaction, Works(p, w)
               PROVE  /\ \A q \in Packets, c \in Attempts : <<q, c>> # <<p, a>> => work'[q][c] = work[q][c]
                      /\ work'[p][a] = w /\ work' \in W
    OBVIOUS
  <2>1. work' = [work EXCEPT ![p][a] = w]
    BY DEF Works
  <2> HIDE DEF a
  <2>. QED BY <1>0, <2>1, WorksMoves
<1>6. [phase |-> "open", n |-> 0] \in Transaction
  BY DeliveryAssumption DEF DeliveryAssumption, Transaction, Phases
<1> HIDE DEF T, W, C, a
<1>7. ASSUME Starts(p) PROVE good
  BY <1>0, <1>1, <1>2, <1>7 DEF Starts, TaskMoves
<1>8. ASSUME BackoffEnds(p) PROVE good
  BY <1>0, <1>1, <1>2, <1>8 DEF BackoffEnds, TaskMoves
<1>9. ASSUME CircuitRefuses(p) PROVE good
  BY <1>0, <1>3, <1>9 DEF CircuitRefuses, TaskMoves
<1>10. ASSUME Unreadable(p) PROVE good
  BY <1>0, <1>3, <1>4, <1>10 DEF Unreadable, TaskMoves
<1>11. ASSUME Calls(p) PROVE good
  <2>1. /\ Goes(p, "calling") /\ Works(p, [phase |-> "open", n |-> 0]) /\ task[p].at = "ready"
        /\ UNCHANGED <<use, table, newest, faults>> /\ Admitted
    BY <1>11 DEF Calls
  <2>2. TaskMoves(p)
    BY <1>1, <1>2, <2>1 DEF TaskMoves
  <2>3. WorkMoves(p, a)
    BY <1>5, <1>6, <2>1 DEF WorkMoves
  <2>. QED BY <1>0, <1>1, <1>2, <1>4, <1>5, <1>6, <2>1, <2>2, <2>3
<1>12. ASSUME NEW error, WriterFails(p, error), faults' \in Nat PROVE good
  <2>1. /\ task' \in T /\ work' \in W /\ circuit' \in C
        /\ TaskMoves(p) /\ (\E c \in Attempts : WorkMoves(p, c))
        /\ UNCHANGED <<use, table, newest, probes>>
    BY <1>12, WriterFailsMoves DEF T, W, C
  <2>. QED BY <1>0, <1>12, <2>1
<1>13. ASSUME ConvertFails(p) PROVE good
  BY <1>0, <1>12, <1>13 DEF ConvertFails, NoFault
<1>14. ASSUME Refuses(p) PROVE good
  BY <1>0, <1>12, <1>14 DEF Refuses, NoFault
<1>15. ASSUME CallFails(p) PROVE good
  BY <1>0, <1>12, <1>15 DEF CallFails, Fault
<1>16. ASSUME Sends(p) PROVE good
  <2> DEFINE w == [Mine(p) EXCEPT !.phase = "sent"]
  <2>1. /\ ~kind.atomic /\ Mine(p).phase = "open" /\ Mine(p).n < NumBatches /\ Works(p, w)
        /\ UNCHANGED <<use, task, table, newest, circuit, probes, faults>>
    BY <1>16 DEF Sends
  <2>2. w \in Transaction
    BY <1>0, <2>1 DEF Transaction, Phases
  <2>3. WorkMoves(p, a)
    BY <1>0, <1>5, <2>1, <2>2 DEF WorkMoves
  <2>. QED BY <1>0, <1>5, <2>1, <2>2, <2>3
<1>17. ASSUME Confirms(p) PROVE good
  <2> DEFINE w == [phase |-> "open", n |-> Max(UnderWay(Mine(p)))]
  <2>1. /\ Mine(p).phase = "sent" /\ Works(p, w)
        /\ \A b \in UnderWay(Mine(p)) : <<p, a, b>> \in table
        /\ UNCHANGED <<use, task, table, newest, circuit, probes, faults>>
    BY <1>17 DEF Confirms, a
  <2>2. Max(UnderWay(Mine(p))) \in 0 .. NumBatches
    <3>1. NumBatches \in Nat \ {0}
      BY DeliveryAssumption DEF DeliveryAssumption
    <3>2. Mine(p).n \in Nat /\ Mine(p).n + 1 \in Nat /\ Mine(p).n + 1 \in 0 .. NumBatches
      BY <1>0, <2>1, <3>1 DEF Transaction
    <3>3. Max(Batches) = NumBatches /\ Max({Mine(p).n + 1}) = Mine(p).n + 1
      BY <3>1, <3>2, MaxOfInterval, MaxOfOne DEF Batches
    <3>. QED BY <3>1, <3>2, <3>3 DEF UnderWay
  <2>3. w \in Transaction
    BY <2>2 DEF Transaction, Phases
  <2>4. WorkMoves(p, a)
    BY <1>0, <1>5, <2>1, <2>3 DEF WorkMoves
  <2>. QED BY <1>0, <1>5, <2>1, <2>3, <2>4
<1>18. ASSUME Succeeds(p) PROVE good
  <2>1. /\ task[p].at = "calling" /\ Acknowledged(Mine(p)) /\ CircuitSuccess /\ Goes(p, "emitting")
        /\ UNCHANGED <<use, work, table, newest, probes, faults>>
    BY <1>18 DEF Succeeds
  <2>2. circuit' \in C
    BY <2>1, CircuitTypes DEF C
  <2>3. TaskMoves(p)
    BY <1>1, <1>2, <2>1 DEF TaskMoves
  <2>. QED BY <1>0, <1>1, <1>2, <2>1, <2>2, <2>3
<1>19. ASSUME Emits(p) PROVE good
  BY <1>0, <1>1, <1>2, <1>19 DEF Emits, TaskMoves
<1>20. ASSUME TimesOut(p) PROVE good
  <2> DEFINE w == IF kind.adrift THEN Mine(p) ELSE SessionDropped(Mine(p))
  <2>1. /\ task[p].at \in {"calling", "emitting"} /\ Fails(p, "timeout") /\ Works(p, w) /\ Fault
        /\ UNCHANGED <<use, table, newest, circuit, probes>>
    BY <1>20 DEF TimesOut
  <2>2. w \in Transaction /\ w \in {work[p][a], SessionDropped(work[p][a])}
    BY <1>0, DroppedTypes
  <2> HIDE DEF w
  <2>3. TaskMoves(p)
    BY <1>3, <2>1 DEF TaskMoves
  <2>4. WorkMoves(p, a)
    BY <1>3, <1>5, <2>1, <2>2 DEF WorkMoves
  <2>. QED BY <1>0, <1>3, <1>5, <2>1, <2>2, <2>3, <2>4 DEF Fault
<1> HIDE DEF good
<1>21. good
  BY <1>7, <1>8, <1>9, <1>10, <1>11, <1>13, <1>14, <1>15, <1>16, <1>17, <1>18, <1>19, <1>20 DEF TaskStep
<1>22. Moves
  BY <1>21 DEF good, Moves
<1>23. DeliveryTypeOK'
  BY <1>21 DEF good, DeliveryTypeOK, T, W, C
<1>. QED BY <1>22, <1>23

\* So is a step of the destination.
LEMMA WorkStepMoves ==
  ASSUME DeliveryTypeOK, NEW p \in Packets, NEW a \in Attempts, WorkStep(p, a)
  PROVE  Moves /\ DeliveryTypeOK'
<1> DEFINE W == [Packets -> [Attempts -> Transaction]]
           w == work[p][a]
<1>0. /\ work \in W /\ w \in Transaction /\ NumBatches \in Nat \ {0}
      /\ table \subseteq Packets \X Attempts \X Batches /\ newest \in [Batches -> Packets \cup {Nobody}]
  BY DeliveryAssumption DEF DeliveryAssumption, DeliveryTypeOK
<1>1. \A u \in Transaction : work' = [work EXCEPT ![p][a] = u] =>
        /\ \A q \in Packets, c \in Attempts : <<q, c>> # <<p, a>> => work'[q][c] = work[q][c]
        /\ work'[p][a] = u /\ work' \in W
  <2> SUFFICES ASSUME NEW u \in Transaction, work' = [work EXCEPT ![p][a] = u]
               PROVE  /\ \A q \in Packets, c \in Attempts : <<q, c>> # <<p, a>> => work'[q][c] = work[q][c]
                      /\ work'[p][a] = u /\ work' \in W
    OBVIOUS
  <2>1. /\ \A q \in Packets, c \in Attempts : <<q, c>> # <<p, a>> => work'[q][c] = work[q][c]
        /\ work'[p][a] = u
    BY <1>0
  <2>2. work' \in W
    BY <1>0
  <2>. QED BY <2>1, <2>2
<1> DEFINE good == /\ UNCHANGED <<use, task, circuit, probes, faults>> /\ work' \in W
                   /\ table' \subseteq Packets \X Attempts \X Batches
                   /\ newest' \in [Batches -> Packets \cup {Nobody}]
                   /\ WorkMoves(p, a) \/ \E b \in Batches : Lands(p, a, b)
<1>2. ASSUME Executes(p, a) PROVE good
  <2>1. w.phase = "open" /\ w.n < NumBatches /\ work' = [work EXCEPT ![p][a] = [w EXCEPT !.n = @ + 1]]
    BY <1>0, <1>2 DEF Executes
  <2>2. [w EXCEPT !.n = @ + 1] \in Transaction
    BY <1>0, <2>1 DEF Transaction
  <2>. QED BY <1>0, <1>1, <1>2, <2>1, <2>2 DEF Executes, WorkMoves
<1>3. ASSUME NEW phase \in Phases \ {"sent"}, work' = [work EXCEPT ![p][a].phase = phase] PROVE
         /\ \A q \in Packets, c \in Attempts : <<q, c>> # <<p, a>> => work'[q][c] = work[q][c]
         /\ work' \in W
  <2>1. work' = [work EXCEPT ![p][a] = [w EXCEPT !.phase = phase]]
    BY <1>0, <1>3
  <2>2. [w EXCEPT !.phase = phase] \in Transaction
    BY <1>0 DEF Transaction
  <2>. QED BY <1>1, <2>1, <2>2
<1>4. {"commit", "done", "undone"} \subseteq Phases \ {"sent"}
  BY DEF Phases
<1>5. ASSUME SendsCommit(p, a) PROVE good
  BY <1>0, <1>3, <1>4, <1>5 DEF SendsCommit, WorkMoves
<1>6. ASSUME Commits(p, a) PROVE good
  <2>1. table' \subseteq Packets \X Attempts \X Batches
    BY <1>0, <1>6 DEF Commits
  <2>2. newest' \in [Batches -> Packets \cup {Nobody}]
    BY <1>6 DEF Commits
  <2>. QED BY <1>3, <1>4, <1>6, <2>1, <2>2 DEF Commits, WorkMoves
<1>7. ASSUME RollsBack(p, a) PROVE good
  BY <1>0, <1>3, <1>4, <1>7 DEF RollsBack, WorkMoves
<1>8. ASSUME Vanishes(p, a) PROVE good
  BY <1>0, <1>3, <1>4, <1>8 DEF Vanishes, WorkMoves
<1>9. ASSUME NEW b \in Batches, Lands(p, a, b) PROVE good
  <2>1. table' \subseteq Packets \X Attempts \X Batches
    BY <1>0, <1>9 DEF Lands
  <2>2. newest' \in [Batches -> Packets \cup {Nobody}]
    BY <1>0, <1>9 DEF Lands
  <2>. QED BY <1>0, <1>9, <2>1, <2>2 DEF Lands
<1> HIDE DEF good
<1>10. good
  BY <1>2, <1>5, <1>6, <1>7, <1>8, <1>9 DEF WorkStep
<1>11. Moves
  BY <1>10 DEF good, Moves
<1>12. DeliveryTypeOK'
  BY <1>10 DEF good, DeliveryTypeOK
<1>. QED BY <1>11, <1>12

\* Every step is one of the moves, and keeps the types.
LEMMA DeliverySteps == DeliveryTypeOK /\ [DeliveryNext]_deliveryVars => Moves /\ DeliveryTypeOK'
<1> SUFFICES ASSUME DeliveryTypeOK, [DeliveryNext]_deliveryVars PROVE Moves /\ DeliveryTypeOK'
  OBVIOUS
<1>1. CASE UNCHANGED deliveryVars
  BY <1>1 DEF deliveryVars, DeliveryTypeOK, Moves
<1>2. CASE Cools
  <2>1. Moves
    BY <1>2 DEF Cools, Moves
  <2>2. circuit' \in [failures : Nat, state : {"closed", "open", "cooled"}, in_flight : Nat] /\ probes' \in Nat
    BY <1>2 DEF Cools, DeliveryTypeOK
  <2>. QED BY <1>2, <2>1, <2>2 DEF Cools, DeliveryTypeOK
<1>. QED BY <1>1, <1>2, TaskStepMoves, WorkStepMoves DEF DeliveryNext

\* The tasks, their work, the rows at the destination and the breaker keep
\* their types.
THEOREM DeliveryTypes == DeliverySpec => []DeliveryTypeOK
<1>. QED BY DeliveryInitTypes, DeliverySteps, PTL DEF DeliverySpec

----------------------------------------------------------------------------
(* The breaker. *)

\* A breaker that has opened is full of failures; while it waits nobody is let
\* through, and afterwards the calls in flight are the probes it counts.
BreakerInv ==
  /\ circuit.state # "closed" => circuit.failures = Threshold
  /\ circuit.state = "open" => circuit.in_flight = 0
  /\ circuit.state = "cooled" => probes = circuit.in_flight /\ circuit.in_flight <= HalfOpen

\* A failure opens it, or leaves it closed.
LEMMA FailureOpens ==
  ASSUME DeliveryTypeOK, BreakerInv, CircuitFailure
  PROVE  BreakerInv'
<1>1. circuit.failures \in Nat /\ Threshold \in Nat /\ circuit.state \in {"closed", "open", "cooled"}
  BY DeliveryAssumption DEF DeliveryAssumption, DeliveryTypeOK
<1>2. PICK m \in Nat : m = Min({circuit.failures + 1, Threshold})
                       /\ (circuit.failures + 1 >= Threshold => m = Threshold)
  BY <1>1, MinOfTwo
<1>3. circuit' = [failures |-> m, in_flight |-> 0,
                  state |-> IF circuit.failures + 1 >= Threshold THEN "open" ELSE circuit.state]
  BY <1>2 DEF CircuitFailure
<1>4. CASE circuit.failures + 1 >= Threshold
  BY <1>2, <1>3, <1>4 DEF BreakerInv
<1>5. CASE ~(circuit.failures + 1 >= Threshold)
  <2>1. circuit.state = "closed"
    BY <1>1, <1>5 DEF BreakerInv
  <2>. QED BY <1>3, <1>5, <2>1 DEF BreakerInv
<1>. QED BY <1>4, <1>5

\* A call that is let through is counted.
LEMMA AdmittedCounts ==
  ASSUME DeliveryTypeOK, BreakerInv, Admits, Admitted
  PROVE  BreakerInv'
<1>1. circuit.in_flight \in Nat /\ probes \in Nat /\ HalfOpen \in Nat
  BY DeliveryAssumption DEF DeliveryAssumption, DeliveryTypeOK
<1>2. CASE circuit.state = "closed"
  BY <1>2 DEF Admitted, BreakerInv
<1>3. CASE circuit.state = "cooled" /\ circuit.in_flight < HalfOpen
  <2>1. circuit'.state = "cooled" /\ circuit'.failures = circuit.failures
        /\ circuit'.in_flight = circuit.in_flight + 1 /\ probes' = probes + 1
    BY <1>3 DEF Admitted, DeliveryTypeOK
  <2>2. PICK n \in Nat : circuit.in_flight = n
    BY <1>1
  <2>. QED BY <1>1, <1>3, <2>1, <2>2 DEF BreakerInv
<1>. QED BY <1>2, <1>3 DEF Admits

\* Every step keeps the invariant of the breaker.
LEMMA BreakerStep == DeliveryTypeOK /\ BreakerInv /\ [DeliveryNext]_deliveryVars => BreakerInv'
<1> SUFFICES ASSUME DeliveryTypeOK, BreakerInv, [DeliveryNext]_deliveryVars PROVE BreakerInv'
  OBVIOUS
<1>1. ASSUME UNCHANGED <<circuit, probes>> PROVE BreakerInv'
  BY <1>1 DEF BreakerInv
<1>2. ASSUME CircuitSuccess PROVE BreakerInv'
  BY <1>2 DEF CircuitSuccess, Closed, BreakerInv
<1>3. ASSUME Cools PROVE BreakerInv'
  <2>1. circuit'.state = "cooled" /\ circuit'.failures = circuit.failures
        /\ circuit'.in_flight = circuit.in_flight /\ probes' = 0 /\ circuit.state = "open"
    BY <1>3 DEF Cools, DeliveryTypeOK
  <2>2. HalfOpen \in Nat
    BY DeliveryAssumption DEF DeliveryAssumption
  <2>. QED BY <2>1, <2>2 DEF BreakerInv
<1>4. ASSUME NEW p \in Packets, NEW error, WriterFails(p, error) PROVE BreakerInv'
  <2>1. UNCHANGED probes /\ (KafkaTells(error) \/ PutTells(error))
    BY <1>4 DEF WriterFails
  <2>. QED BY <1>1, <1>2, <2>1, FailureOpens DEF KafkaTells, PutTells
<1>5. ASSUME NEW p \in Packets, TaskStep(p) \/ TimesOut(p) \/ CallFails(p) PROVE BreakerInv'
  <2>1. CASE Starts(p) \/ BackoffEnds(p) \/ CircuitRefuses(p) \/ Sends(p) \/ Confirms(p) \/ Emits(p) \/ TimesOut(p)
    BY <1>1, <2>1 DEF Starts, BackoffEnds, CircuitRefuses, Sends, Confirms, Emits, TimesOut
  <2>2. CASE Unreadable(p) \/ Calls(p)
    BY <2>2, AdmittedCounts DEF Unreadable, Calls
  <2>3. CASE Succeeds(p)
    BY <1>2, <2>3 DEF Succeeds
  <2>4. CASE ConvertFails(p) \/ Refuses(p) \/ CallFails(p)
    BY <1>4, <2>4 DEF ConvertFails, Refuses, CallFails
  <2>. QED BY <1>5, <2>1, <2>2, <2>3, <2>4 DEF TaskStep
<1>6. ASSUME NEW p \in Packets, NEW a \in Attempts, WorkStep(p, a) PROVE BreakerInv'
  BY <1>1, <1>6 DEF WorkStep, Executes, SendsCommit, Commits, RollsBack, Vanishes, Lands
<1>7. CASE UNCHANGED deliveryVars
  BY <1>1, <1>7 DEF deliveryVars
<1>. QED BY <1>3, <1>5, <1>6, <1>7 DEF DeliveryNext

\* Between two waits the breaker lets through no more calls than
\* half_open_requests, whatever late outcomes reach it from calls of before.
THEOREM ProbesAreBounded == DeliverySpec => []ProbesBounded
<1>1. DeliveryInit => BreakerInv
  BY DEF DeliveryInit, Closed, BreakerInv
<1>2. DeliveryTypeOK /\ BreakerInv => ProbesBounded
  BY DEF BreakerInv, ProbesBounded
<1>. QED BY <1>1, <1>2, BreakerStep, DeliveryTypes, PTL DEF DeliverySpec

----------------------------------------------------------------------------
(* The rows. *)

\* Rows are never taken away, and the destination and the flaws stay.
LEMMA RowsStay ==
  ASSUME DeliveryTypeOK, [DeliveryNext]_deliveryVars
  PROVE  table \subseteq table' /\ use' = use /\ kind' = kind
<1>1. Moves
  BY DeliverySteps
<1>2. table \subseteq table'
  BY <1>1, ZenonT(60) DEF Moves, WorkMoves, Lands, Executes, SendsCommit, Commits, RollsBack, Vanishes
<1>. QED BY <1>1, <1>2 DEF Moves, kind

\* A transaction that is done has left its rows; without one, so has every
\* batch that was confirmed.
StoredInv ==
  /\ kind.atomic =>
       \A p \in Packets, a \in Attempts :
         work[p][a].phase = "done" => \A b \in Batches : <<p, a, b>> \in table
  /\ ~kind.atomic =>
       \A p \in Packets, a \in Attempts, b \in Batches : b <= work[p][a].n => <<p, a, b>> \in table

\* The work of one attempt moves.
LEMMA StoredStep == DeliveryTypeOK /\ StoredInv /\ [DeliveryNext]_deliveryVars => StoredInv'
<1> SUFFICES ASSUME DeliveryTypeOK, StoredInv, [DeliveryNext]_deliveryVars PROVE StoredInv'
  OBVIOUS
<1>1. Moves /\ table \subseteq table' /\ kind' = kind
  BY DeliverySteps, RowsStay
<1>2. NumBatches \in Nat \ {0} /\ kind.atomic \in BOOLEAN
  BY DeliveryAssumption, KindFacts DEF DeliveryAssumption, DeliveryTypeOK
<1> DEFINE stored(q, c) ==
      /\ kind.atomic => (work[q][c].phase = "done" => \A b \in Batches : <<q, c, b>> \in table)
      /\ ~kind.atomic => \A b \in Batches : b <= work[q][c].n => <<q, c, b>> \in table
<1>3. \A q \in Packets, c \in Attempts : stored(q, c)
  BY DEF StoredInv
<1>4. \A q \in Packets, c \in Attempts : work'[q][c] = work[q][c] => stored(q, c)'
  BY <1>1, <1>3
<1>5. ASSUME NEW p \in Packets, NEW a \in Attempts, WorkMoves(p, a) PROVE stored(p, a)'
  <2>0. work[p][a] \in Transaction /\ work[p][a].n \in Nat
    BY <1>2 DEF DeliveryTypeOK, Transaction
  <2>1. CASE work'[p][a] = [phase |-> "open", n |-> 0]
    BY <1>2, <2>1 DEF Batches
  <2>2. ASSUME work'[p][a].n = work[p][a].n, work'[p][a].phase = "done" => work[p][a].phase = "done"
        PROVE  stored(p, a)'
    BY <1>1, <1>3, <2>2
  <2>3. CASE work'[p][a] \in {work[p][a], SessionDropped(work[p][a])}
    BY <2>0, <2>2, <2>3, DroppedTypes
  <2>4. CASE Executes(p, a)
    <3>1. work'[p][a].phase = "open" /\ kind.atomic
      BY <2>0, <2>4 DEF Executes, DeliveryTypeOK, Transaction
    <3>. QED BY <1>1, <3>1
  <2>5. CASE SendsCommit(p, a) \/ RollsBack(p, a) \/ Vanishes(p, a)
    <3>1. work' = [work EXCEPT ![p][a].phase = "commit"] \/ work' = [work EXCEPT ![p][a].phase = "undone"]
      BY <2>5 DEF SendsCommit, RollsBack, Vanishes
    <3>2. work'[p][a] \in {[work[p][a] EXCEPT !.phase = "commit"], [work[p][a] EXCEPT !.phase = "undone"]}
      BY <3>1 DEF DeliveryTypeOK
    <3>3. work'[p][a].n = work[p][a].n /\ work'[p][a].phase # "done"
      BY <3>2, <2>0 DEF Transaction
    <3>. QED BY <2>2, <3>3
  <2>6. CASE Commits(p, a)
    <3>1. work'[p][a].n = work[p][a].n
      BY <2>6, <2>0 DEF Commits, DeliveryTypeOK, Transaction
    <3>2. \A b \in Batches : <<p, a, b>> \in table'
      BY <2>6 DEF Commits
    <3>. QED BY <1>1, <3>2
  <2>7. CASE work'[p][a] = [work[p][a] EXCEPT !.phase = "sent"]
    <3>1. work'[p][a].n = work[p][a].n /\ work'[p][a].phase # "done"
      BY <2>0, <2>7 DEF Transaction
    <3>. QED BY <2>2, <3>1
  <2>8. CASE /\ work[p][a].phase = "sent"
             /\ \A b \in UnderWay(work[p][a]) : <<p, a, b>> \in table
             /\ work'[p][a] = [phase |-> "open", n |-> Max(UnderWay(work[p][a]))]
    <3>1. ASSUME ~kind.atomic, NEW b \in Batches, b <= Max(UnderWay(work[p][a])) PROVE <<p, a, b>> \in table
      <4>1. CASE kind.parallel
        BY <2>8, <4>1 DEF UnderWay
      <4>2. CASE ~kind.parallel
        <5>1. Max({work[p][a].n + 1}) = work[p][a].n + 1
          BY <2>0, MaxOfOne
        <5>2. b <= work[p][a].n + 1 /\ b \in Nat
          BY <3>1, <4>2, <5>1 DEF UnderWay, Batches
        <5>3. b = work[p][a].n + 1 \/ b <= work[p][a].n
          BY <2>0, <5>2
        <5>4. <<p, a, work[p][a].n + 1>> \in table
          BY <2>8, <4>2 DEF UnderWay
        <5>. QED BY <1>3, <3>1, <5>3, <5>4
      <4>. QED BY <4>1, <4>2
    <3>. QED BY <1>1, <2>8, <3>1
  <2>. QED BY <1>5, <2>1, <2>3, <2>4, <2>5, <2>6, <2>7, <2>8 DEF WorkMoves
<1>6. \A q \in Packets, c \in Attempts : stored(q, c)'
  <2>1. CASE UNCHANGED work
    BY <1>4, <2>1
  <2>2. ASSUME NEW p \in Packets, NEW a \in Attempts, WorkMoves(p, a), NEW q \in Packets, NEW c \in Attempts
        PROVE  stored(q, c)'
    <3>1. CASE <<q, c>> = <<p, a>>
      <4>1. q = p /\ c = a
        BY <3>1
      <4>. QED BY <1>5, <2>2, <4>1
    <3>2. CASE <<q, c>> # <<p, a>>
      BY <1>4, <2>2, <3>2 DEF WorkMoves
    <3>. QED BY <3>1, <3>2
  <2>. QED BY <1>1, <2>1, <2>2 DEF Moves, Lands
<1>. QED BY <1>1, <1>6 DEF StoredInv

\* An acknowledged packet is there, and stays.
LEMMA SuccessStep ==
  DeliveryTypeOK /\ StoredInv /\ SuccessIsStored /\ [DeliveryNext]_deliveryVars => SuccessIsStored'
<1> SUFFICES ASSUME DeliveryTypeOK, StoredInv, SuccessIsStored, [DeliveryNext]_deliveryVars,
                    NEW p \in Packets, task'[p].at \in {"emitting", "success"}
             PROVE  \E a \in Attempts : \A b \in Batches : <<p, a, b>> \in table'
  BY DEF SuccessIsStored
<1>1. Moves /\ table \subseteq table'
  BY DeliverySteps, RowsStay
<1>2. CASE task[p].at \in {"emitting", "success"}
  <2>1. PICK a \in Attempts : \A b \in Batches : <<p, a, b>> \in table
    BY <1>2 DEF SuccessIsStored
  <2>. QED BY <1>1, <2>1
<1>3. CASE task[p].at \notin {"emitting", "success"}
  <2>1. task[p] # task'[p] /\ TaskMoves(p)
    BY <1>1, <1>3 DEF Moves, TaskMoves
  <2>2. task[p] \in [at : Places, attempt : Attempts]
    BY DEF DeliveryTypeOK
  <2>3. Acknowledged(Mine(p))
    BY <1>3, <2>1, <2>2 DEF TaskMoves
  <2>4. task[p].attempt \in Attempts /\ Mine(p) = work[p][task[p].attempt]
    BY <2>2 DEF Mine
  <2>5. \A b \in Batches : <<p, task[p].attempt, b>> \in table
    BY <2>3, <2>4 DEF Acknowledged, StoredInv, Batches
  <2>. QED BY <1>1, <2>4, <2>5
<1>. QED BY <1>2, <1>3

\* A transaction comes to its last batch only when the packet is sound, and to
\* its commit only after it.
SoundInv ==
  kind.atomic =>
    \A p \in Packets, a \in Attempts :
      /\ work[p][a].n = NumBatches => use.flaw[p] = "none"
      /\ work[p][a].phase \in {"commit", "done"} => work[p][a].n = NumBatches
      /\ work[p][a].phase # "sent"

\* No flawed batch is the last one executed.
LEMMA SoundStep == DeliveryTypeOK /\ SoundInv /\ [DeliveryNext]_deliveryVars => SoundInv'
<1> SUFFICES ASSUME DeliveryTypeOK, SoundInv, [DeliveryNext]_deliveryVars, kind.atomic PROVE SoundInv'
  BY RowsStay DEF SoundInv
<1>1. Moves /\ use' = use /\ kind' = kind
  BY DeliverySteps, RowsStay
<1>2. NumBatches \in Nat \ {0}
  BY DeliveryAssumption DEF DeliveryAssumption
<1> DEFINE sound(q, w) == /\ w.n = NumBatches => use.flaw[q] = "none"
                          /\ w.phase \in {"commit", "done"} => w.n = NumBatches
                          /\ w.phase # "sent"
<1>3. \A q \in Packets, c \in Attempts : sound(q, work[q][c])
  BY DEF SoundInv
<1>4. ASSUME NEW p \in Packets, NEW a \in Attempts, WorkMoves(p, a) PROVE sound(p, work'[p][a])
  <2>0. work[p][a] \in Transaction /\ work[p][a].n \in Nat /\ sound(p, work[p][a])
    BY <1>2, <1>3 DEF DeliveryTypeOK, Transaction
  <2>1. CASE work'[p][a] = [phase |-> "open", n |-> 0]
    BY <1>2, <2>1
  <2>2. CASE work'[p][a] \in {work[p][a], SessionDropped(work[p][a])}
    BY <2>0, <2>2, DroppedTypes
  <2>3. CASE Executes(p, a)
    <3>1. work'[p][a] = [work[p][a] EXCEPT !.n = @ + 1] /\ ~Flawed(p, work[p][a].n + 1) /\ work[p][a].phase = "open"
      BY <2>3 DEF Executes, DeliveryTypeOK
    <3>2. work'[p][a].n = work[p][a].n + 1 /\ work'[p][a].phase = "open"
      BY <2>0, <3>1 DEF Transaction
    <3>. QED BY <3>1, <3>2 DEF Flawed
  <2>4. CASE SendsCommit(p, a)
    <3>1. work'[p][a] = [work[p][a] EXCEPT !.phase = "commit"] /\ work[p][a].n = NumBatches
      BY <2>4 DEF SendsCommit, DeliveryTypeOK
    <3>. QED BY <2>0, <3>1 DEF Transaction
  <2>5. CASE Commits(p, a)
    <3>1. work'[p][a] = [work[p][a] EXCEPT !.phase = "done"] /\ work[p][a].phase = "commit"
      BY <2>5 DEF Commits, DeliveryTypeOK
    <3>. QED BY <2>0, <3>1 DEF Transaction
  <2>6. CASE RollsBack(p, a) \/ Vanishes(p, a)
    <3>1. work'[p][a] = [work[p][a] EXCEPT !.phase = "undone"]
      BY <2>6 DEF RollsBack, Vanishes, DeliveryTypeOK
    <3>. QED BY <2>0, <3>1 DEF Transaction
  <2>7. ~(~kind.atomic) /\ work[p][a].phase # "sent"
    BY <2>0
  <2>. QED BY <1>4, <2>1, <2>2, <2>3, <2>4, <2>5, <2>6, <2>7 DEF WorkMoves
<1>5. ASSUME NEW q \in Packets, NEW c \in Attempts PROVE sound(q, work'[q][c])
  <2>1. CASE UNCHANGED work
    BY <1>3, <2>1
  <2>2. ASSUME NEW p \in Packets, NEW a \in Attempts, WorkMoves(p, a) PROVE sound(q, work'[q][c])
    <3>1. CASE q = p /\ c = a
      BY <1>4, <2>2, <3>1
    <3>2. CASE ~(q = p /\ c = a)
      BY <1>3, <2>2, <3>2 DEF WorkMoves
    <3>. QED BY <3>1, <3>2
  <2>. QED BY <1>1, <2>1, <2>2 DEF Moves, Lands
<1>. QED BY <1>1, <1>5 DEF SoundInv

\* Only a commit leaves rows, and it leaves them all.
LEMMA WholeStep ==
  DeliveryTypeOK /\ SoundInv /\ WholeOrNothing /\ [DeliveryNext]_deliveryVars => WholeOrNothing'
<1> SUFFICES ASSUME DeliveryTypeOK, SoundInv, WholeOrNothing, [DeliveryNext]_deliveryVars, kind.atomic,
                    NEW p \in Packets, NEW a \in Attempts
             PROVE  \/ \A b \in Batches : <<p, a, b>> \notin table'
                    \/ use.flaw[p] = "none" /\ \A b \in Batches : <<p, a, b>> \in table'
  BY RowsStay DEF WholeOrNothing
<1>1. \/ \A b \in Batches : <<p, a, b>> \notin table
      \/ use.flaw[p] = "none" /\ \A b \in Batches : <<p, a, b>> \in table
  BY DEF WholeOrNothing
<1>2. CASE UNCHANGED table
  BY <1>1, <1>2
<1>3. ASSUME NEW q \in Packets, NEW c \in Attempts, Commits(q, c)
      PROVE  \/ \A b \in Batches : <<p, a, b>> \notin table'
             \/ use.flaw[p] = "none" /\ \A b \in Batches : <<p, a, b>> \in table'
  <2>1. table' = table \cup {<<q, c, b>> : b \in Batches} /\ use.flaw[q] = "none"
    BY <1>3 DEF Commits, SoundInv
  <2>2. CASE p = q /\ a = c
    BY <2>1, <2>2
  <2>3. CASE ~(p = q /\ a = c)
    BY <1>1, <2>1, <2>3
  <2>. QED BY <2>2, <2>3
<1>4. ASSUME NEW q \in Packets, NEW c \in Attempts, WorkMoves(q, c) PROVE UNCHANGED table \/ Commits(q, c)
  BY <1>4 DEF WorkMoves, Executes, SendsCommit, RollsBack, Vanishes
<1>5. \A q \in Packets, c \in Attempts, b \in Batches : ~Lands(q, c, b)
  BY DEF SoundInv, Lands
<1>. QED BY <1>2, <1>3, <1>4, <1>5, DeliverySteps DEF Moves

----------------------------------------------------------------------------
(* The newest rows. *)

\* One packet after the other, to a destination whose transactions end with
\* their sessions.
InOrder == use.ordered /\ kind \in {Postgres, MySql, SqlServer}

\* A packet that has begun comes after packets that have ended.
OrderInv == \A p \in Packets : task[p].at # "waiting" => \A q \in 1 .. p - 1 : Ended(q)

\* Only a packet that has begun has work at the destination.
BegunInv == \A p \in Packets, a \in Attempts : work[p][a].phase # "none" => task[p].at # "waiting"

\* No rows are locked twice.
LocksInv ==
  \A p, q \in Packets, a, c \in Attempts, b \in Batches :
    Locks(p, a, b) /\ Locks(q, c, b) => p = q /\ a = c

\* Once a packet has committed, its rows are the newest, and no commit of an
\* older one is in doubt.
LatestInv ==
  \A p \in Packets, a \in Attempts : work[p][a].phase = "done" =>
    /\ \A b \in Batches : newest[b] >= p
    /\ \A q \in 1 .. p - 1, c \in Attempts : work[q][c].phase # "commit"

\* An acknowledged packet has committed.
AckInv == \A p \in Packets : task[p].at \in {"emitting", "success"} => Mine(p).phase = "done"

NewestInv == InOrder => OrderInv /\ BegunInv /\ LocksInv /\ LatestInv /\ AckInv

\* How the phase and the locks of an attempt change.
PhaseMoves(p, a) ==
  /\ work'[p][a].phase = "done" => work[p][a].phase = "done" \/ Commits(p, a)
  /\ work'[p][a].phase = "commit" =>
       work[p][a].phase = "commit" \/ (SendsCommit(p, a) /\ task[p].at = "calling")
  /\ work'[p][a].phase # "none" => work[p][a].phase # "none" \/ task[p].at = "ready"
  /\ \A b \in Batches : Locks(p, a, b)' => Locks(p, a, b) \/ (Free(p, a, b) /\ WorkMoves(p, a))
  /\ work[p][a].phase = "done" =>
       \/ work'[p][a].phase = "done"
       \/ task[p].at = "ready" \/ task'[p].at \in {"backoff", "failure"}

\* They change in this way only.
LEMMA PhaseSteps ==
  ASSUME DeliveryTypeOK, SoundInv, InOrder, [DeliveryNext]_deliveryVars,
         NEW p \in Packets, NEW a \in Attempts
  PROVE  PhaseMoves(p, a)
<1> DEFINE goal == PhaseMoves(p, a)
<1>0. /\ kind.atomic /\ ~kind.adrift /\ work[p][a] \in Transaction /\ work[p][a].phase # "sent"
      /\ NumBatches \in Nat \ {0} /\ work[p][a].n \in Nat
  BY KindFacts, DeliveryAssumption DEF DeliveryAssumption, DeliveryTypeOK, InOrder, SoundInv, Transaction
<1>1. ASSUME work'[p][a] = work[p][a] PROVE goal
  BY <1>1 DEF Locks, PhaseMoves
<1>2. ASSUME work'[p][a] = [phase |-> "open", n |-> 0], task[p].at = "ready" PROVE goal
  BY <1>2 DEF Locks, Batches, PhaseMoves
<1>3. ASSUME work'[p][a] \in {work[p][a], SessionDropped(work[p][a])} PROVE goal
  <2>1. CASE work'[p][a] = work[p][a]
    BY <1>1, <2>1
  <2>2. CASE work'[p][a] = SessionDropped(work[p][a]) /\ work[p][a].phase = "open"
    <3>1. work'[p][a].phase = "lost" /\ work'[p][a].n = work[p][a].n
      BY <1>0, <2>2 DEF SessionDropped, Transaction
    <3>. QED BY <2>2, <3>1 DEF Locks, PhaseMoves
  <2>. QED BY <1>3, <2>1, <2>2 DEF SessionDropped
<1>4. ASSUME Executes(p, a), WorkMoves(p, a) PROVE goal
  <2>1. work'[p][a] = [work[p][a] EXCEPT !.n = @ + 1] /\ Free(p, a, work[p][a].n + 1) /\ work[p][a].phase = "open"
    BY <1>4 DEF Executes, DeliveryTypeOK
  <2>2. work'[p][a].n = work[p][a].n + 1 /\ work'[p][a].phase = "open"
    BY <1>0, <2>1 DEF Transaction
  <2>3. ASSUME NEW b \in Batches, Locks(p, a, b)' PROVE Locks(p, a, b) \/ Free(p, a, b)
    <3>1. b \in Nat /\ b <= work[p][a].n + 1
      BY <2>2, <2>3 DEF Locks, Batches
    <3>2. b <= work[p][a].n \/ b = work[p][a].n + 1
      BY <1>0, <3>1
    <3>. QED BY <2>1, <3>2 DEF Locks
  <2>. QED BY <1>4, <2>1, <2>2, <2>3 DEF PhaseMoves
<1>5. ASSUME SendsCommit(p, a) PROVE goal
  <2>1. work'[p][a] = [work[p][a] EXCEPT !.phase = "commit"] /\ work[p][a].phase = "open"
    BY <1>5 DEF SendsCommit, DeliveryTypeOK
  <2>2. work'[p][a].n = work[p][a].n /\ work'[p][a].phase = "commit"
    BY <1>0, <2>1 DEF Transaction
  <2>3. task[p].at = "calling"
    BY <1>0, <1>5 DEF SendsCommit, Driven
  <2>. QED BY <1>5, <2>1, <2>2, <2>3 DEF Locks, PhaseMoves
<1>6. ASSUME Commits(p, a) PROVE goal
  <2>1. work'[p][a] = [work[p][a] EXCEPT !.phase = "done"] /\ work[p][a].phase = "commit"
    BY <1>6 DEF Commits, DeliveryTypeOK
  <2>2. work'[p][a].phase = "done"
    BY <1>0, <2>1 DEF Transaction
  <2>. QED BY <1>6, <2>1, <2>2 DEF Locks, PhaseMoves
<1>7. ASSUME RollsBack(p, a) PROVE goal
  <2>1. work'[p][a] = [work[p][a] EXCEPT !.phase = "undone"] /\ work[p][a].phase \in {"lost", "commit"}
    BY <1>0, <1>7 DEF RollsBack, DeliveryTypeOK
  <2>2. work'[p][a].phase = "undone"
    BY <1>0, <2>1 DEF Transaction
  <2>. QED BY <2>1, <2>2 DEF Locks, PhaseMoves
<1>8. ASSUME WorkMoves(p, a) PROVE goal
  BY <1>0, <1>2, <1>3, <1>4, <1>5, <1>6, <1>7, <1>8 DEF WorkMoves, Vanishes
<1> HIDE DEF goal
<1>9. CASE UNCHANGED work
  BY <1>1, <1>9 DEF goal
<1>10. ASSUME NEW q \in Packets, NEW c \in Attempts, WorkMoves(q, c) PROVE goal
  <2>1. CASE p = q /\ a = c
    BY <1>8, <1>10, <2>1
  <2>2. CASE ~(p = q /\ a = c)
    <3>1. work'[p][a] = work[p][a]
      BY <1>10, <2>2 DEF WorkMoves
    <3>. QED BY <1>1, <3>1
  <2>. QED BY <2>1, <2>2
<1>11. goal
  BY <1>9, <1>10, DeliverySteps DEF Moves, Lands, goal
<1>. QED BY <1>11 DEF goal

\* A packet that has ended, or begun, stays so.
LEMMA TasksStay ==
  ASSUME DeliveryTypeOK, [DeliveryNext]_deliveryVars, NEW p \in Packets
  PROVE  /\ Ended(p) => task'[p] = task[p] /\ Ended(p)'
         /\ task[p].at # "waiting" => task'[p].at # "waiting"
         /\ task'[p].at # "waiting" /\ task[p].at = "waiting" /\ use.ordered => \A q \in 1 .. p - 1 : Ended(q)
         /\ task'[p].at \in {"emitting", "success"} =>
              \/ task[p].at \in {"emitting", "success"} /\ task'[p].attempt = task[p].attempt
              \/ /\ task'[p].attempt = task[p].attempt /\ Acknowledged(Mine(p)) /\ UNCHANGED work
<1>1. task' = task \/ \E q \in Packets : TaskMoves(q)
  BY DeliverySteps DEF Moves
<1>2. task[p] \in [at : Places, attempt : Attempts]
  BY DEF DeliveryTypeOK
<1>3. CASE task'[p] = task[p]
  BY <1>3 DEF Ended
<1>4. CASE TaskMoves(p)
  <2>1. \A at : [task[p] EXCEPT !.at = at].at = at /\ [task[p] EXCEPT !.at = at].attempt = task[p].attempt
    BY <1>2
  <2>. QED BY <1>4, <2>1, ZenonT(60) DEF TaskMoves, Ended
<1>. QED BY <1>1, <1>3, <1>4 DEF TaskMoves

\* The packets come in order.
LEMMA OrderStep ==
  ASSUME DeliveryTypeOK, InOrder, OrderInv, [DeliveryNext]_deliveryVars
  PROVE  OrderInv'
<1> SUFFICES ASSUME NEW p \in Packets, task'[p].at # "waiting", NEW q \in 1 .. p - 1 PROVE Ended(q)'
  BY DEF OrderInv
<1>1. q \in Packets
  BY DeliveryAssumption DEF DeliveryAssumption, Packets
<1>2. Ended(q)
  BY TasksStay DEF OrderInv, InOrder
<1>. QED BY <1>1, <1>2, TasksStay

\* What is at the destination belongs to packets that have begun.
LEMMA BegunStep ==
  ASSUME DeliveryTypeOK, SoundInv, InOrder, BegunInv, [DeliveryNext]_deliveryVars
  PROVE  BegunInv'
<1> SUFFICES ASSUME NEW p \in Packets, NEW a \in Attempts, work'[p][a].phase # "none"
             PROVE  task'[p].at # "waiting"
  BY DEF BegunInv
<1>1. work[p][a].phase # "none" \/ task[p].at = "ready"
  BY PhaseSteps DEF PhaseMoves
<1>2. task[p].at # "waiting"
  BY <1>1 DEF BegunInv
<1>. QED BY <1>2, TasksStay

\* A batch takes its locks only when they are free.
LEMMA LocksStep ==
  ASSUME DeliveryTypeOK, SoundInv, InOrder, LocksInv, [DeliveryNext]_deliveryVars
  PROVE  LocksInv'
<1> SUFFICES ASSUME NEW p \in Packets, NEW q \in Packets, NEW a \in Attempts, NEW c \in Attempts,
                    NEW b \in Batches, Locks(p, a, b)', Locks(q, c, b)', ~(p = q /\ a = c)
             PROVE  FALSE
  BY DEF LocksInv
<1>1. /\ Locks(p, a, b) \/ (Free(p, a, b) /\ WorkMoves(p, a))
      /\ Locks(q, c, b) \/ (Free(q, c, b) /\ WorkMoves(q, c))
  BY PhaseSteps DEF PhaseMoves
<1>2. ~(Locks(p, a, b) /\ Locks(q, c, b))
  BY DEF LocksInv
<1>3. WorkMoves(p, a) => work'[q][c] = work[q][c]
  BY DEF WorkMoves
<1>4. WorkMoves(q, c) => work'[p][a] = work[p][a]
  BY DEF WorkMoves
<1>5. work'[q][c] = work[q][c] => Locks(q, c, b)
  BY DEF Locks
<1>6. work'[p][a] = work[p][a] => Locks(p, a, b)
  BY DEF Locks
<1>. QED BY <1>1, <1>2, <1>3, <1>4, <1>5, <1>6 DEF Free

\* Nobody older commits after a commit.
LEMMA LatestStep ==
  ASSUME DeliveryTypeOK, SoundInv, InOrder, OrderInv, BegunInv, LocksInv, LatestInv,
         [DeliveryNext]_deliveryVars
  PROVE  LatestInv'
<1> SUFFICES ASSUME NEW p \in Packets, NEW a \in Attempts, work'[p][a].phase = "done"
             PROVE  /\ \A b \in Batches : newest'[b] >= p
                    /\ \A q \in 1 .. p - 1, c \in Attempts : work'[q][c].phase # "commit"
  BY DEF LatestInv
<1>0. /\ NumBatches \in Nat \ {0} /\ NumBatches \in Batches /\ NumPackets \in Nat /\ kind.atomic
      /\ 1 .. p - 1 \subseteq Packets /\ p \in Nat /\ Packets \subseteq Nat
  BY KindFacts, DeliveryAssumption DEF DeliveryAssumption, DeliveryTypeOK, InOrder, Batches, Packets
<1>1. work[p][a].phase = "done" \/ Commits(p, a)
  BY PhaseSteps DEF PhaseMoves
<1>2. task[p].at # "waiting"
  <2>1. work[p][a].phase # "none"
    BY <1>1 DEF Commits
  <2>. QED BY <2>1 DEF BegunInv
<1>3. \A q \in Packets, c \in Attempts : work[q][c].phase = "commit" => Locks(q, c, NumBatches)
  BY <1>0 DEF SoundInv, Locks
<1>4. ASSUME NEW q \in 1 .. p - 1, NEW c \in Attempts PROVE work[q][c].phase # "commit"
  <2>1. CASE work[p][a].phase = "done"
    BY <1>4, <2>1 DEF LatestInv
  <2>2. CASE Commits(p, a)
    <3>1. Locks(p, a, NumBatches)
      BY <1>3, <2>2 DEF Commits
    <3>2. q \in Packets /\ q # p
      BY <1>0
    <3>. QED BY <1>0, <1>3, <3>1, <3>2 DEF LocksInv
  <2>. QED BY <1>1, <2>1, <2>2
<1>5. ASSUME NEW q \in 1 .. p - 1, NEW c \in Attempts PROVE work'[q][c].phase # "commit"
  <2>1. Ended(q) /\ q \in Packets
    BY <1>0, <1>2 DEF OrderInv
  <2>2. task[q].at # "calling"
    BY <2>1 DEF Ended
  <2>. QED BY <1>4, <2>1, <2>2, PhaseSteps DEF PhaseMoves
<1>6. ASSUME NEW q \in Packets, NEW c \in Attempts, Commits(q, c), NEW b \in Batches PROVE newest'[b] >= p
  <2>1. newest'[b] = q /\ work[q][c].phase = "commit"
    BY <1>6 DEF Commits
  <2>2. q \notin 1 .. p - 1
    BY <1>4, <2>1
  <2>. QED BY <1>0, <2>1, <2>2 DEF Packets
<1>7. ASSUME UNCHANGED newest, ~Commits(p, a), NEW b \in Batches PROVE newest'[b] >= p
  BY <1>1, <1>7 DEF LatestInv
<1>8. ASSUME NEW q \in Packets, NEW c \in Attempts, WorkMoves(q, c) PROVE UNCHANGED newest \/ Commits(q, c)
  BY <1>8 DEF WorkMoves, Executes, SendsCommit, RollsBack, Vanishes
<1>9. \A q \in Packets, c \in Attempts, b \in Batches : ~Lands(q, c, b)
  BY <1>0 DEF SoundInv, Lands
<1>10. UNCHANGED newest \/ \E q \in Packets, c \in Attempts : Commits(q, c)
  BY <1>8, <1>9, DeliverySteps DEF Moves
<1>. QED BY <1>5, <1>6, <1>7, <1>10

\* Nothing is acknowledged before it has committed.
LEMMA AckStep ==
  ASSUME DeliveryTypeOK, SoundInv, InOrder, AckInv, [DeliveryNext]_deliveryVars
  PROVE  AckInv'
<1> SUFFICES ASSUME NEW p \in Packets, task'[p].at \in {"emitting", "success"}
             PROVE  work'[p][task'[p].attempt].phase = "done"
  BY DEF AckInv, Mine
<1>1. kind.atomic
  BY KindFacts DEF DeliveryTypeOK, InOrder
<1>2. task[p].attempt \in Attempts
  BY DEF DeliveryTypeOK
<1>3. CASE task[p].at \in {"emitting", "success"} /\ task'[p].attempt = task[p].attempt
  <2>1. work[p][task[p].attempt].phase = "done"
    BY <1>3 DEF AckInv, Mine
  <2>. QED BY <1>2, <1>3, <2>1, PhaseSteps DEF PhaseMoves
<1>4. CASE task'[p].attempt = task[p].attempt /\ Acknowledged(Mine(p)) /\ UNCHANGED work
  BY <1>1, <1>4 DEF Acknowledged, Mine
<1>. QED BY <1>3, <1>4, TasksStay

\* Every step keeps the invariant of the newest rows.
LEMMA NewestStep == DeliveryTypeOK /\ SoundInv /\ NewestInv /\ [DeliveryNext]_deliveryVars => NewestInv'
<1> SUFFICES ASSUME DeliveryTypeOK, SoundInv, NewestInv, [DeliveryNext]_deliveryVars, InOrder' PROVE NewestInv'
  BY DEF NewestInv
<1>1. InOrder
  BY RowsStay DEF InOrder
<1>2. OrderInv /\ BegunInv /\ LocksInv /\ LatestInv /\ AckInv
  BY <1>1 DEF NewestInv
<1>. QED BY <1>1, <1>2, OrderStep, BegunStep, LocksStep, LatestStep, AckStep DEF NewestInv

\* All of them hold in the initial state.
LEMMA RowsInit ==
  DeliveryInit => StoredInv /\ SuccessIsStored /\ SoundInv /\ WholeOrNothing /\ NewestInv
<1> SUFFICES ASSUME DeliveryInit PROVE StoredInv /\ SuccessIsStored /\ SoundInv /\ WholeOrNothing /\ NewestInv
  OBVIOUS
<1>1. \A p \in Packets, a \in Attempts : work[p][a].phase = "none" /\ work[p][a].n = 0
  BY DEF DeliveryInit, Idle
<1>2. table = {} /\ \A p \in Packets : task[p].at = "waiting"
  BY DEF DeliveryInit
<1>3. NumBatches # 0 /\ \A b \in Batches : ~(b <= 0)
  BY DeliveryAssumption DEF DeliveryAssumption, Batches
<1>4. StoredInv /\ SuccessIsStored
  BY <1>1, <1>2, <1>3 DEF StoredInv, SuccessIsStored
<1>5. SoundInv /\ WholeOrNothing
  BY <1>1, <1>2, <1>3 DEF SoundInv, WholeOrNothing
<1>6. NewestInv
  BY <1>1, <1>2, <1>3 DEF NewestInv, OrderInv, BegunInv, LocksInv, LatestInv, AckInv, Locks
<1>. QED BY <1>4, <1>5, <1>6

\* The newest rows are those of the last packet that was acknowledged, or of a
\* later one.
LEMMA NewestMeaning == DeliveryTypeOK /\ NewestInv => NewestWins
<1> SUFFICES ASSUME DeliveryTypeOK, NewestInv, InOrder, NEW p \in Packets,
                    task[p].at \in {"emitting", "success"}, NEW b \in Batches
             PROVE  newest[b] >= p
  BY DEF NewestWins, InOrder
<1>1. task[p].attempt \in Attempts
  BY DEF DeliveryTypeOK
<1>. QED BY <1>1 DEF NewestInv, AckInv, LatestInv, Mine

\* A packet that left through "success" is at the destination, whole; an
\* attempt in a transaction leaves all its rows or none; and what an older
\* packet left behind never replaces the rows of a newer one.
THEOREM DeliveryIsWhole == DeliverySpec => []DeliveredWhole
<1>1. DeliveredWhole <=> SuccessIsStored /\ WholeOrNothing /\ NewestWins
  BY DEF DeliveredWhole
<1>. QED BY <1>1, RowsInit, StoredStep, SuccessStep, SoundStep, WholeStep, NewestStep, NewestMeaning,
            DeliveryTypes, PTL DEF DeliverySpec

----------------------------------------------------------------------------
(* Intake: types. *)

ReaderPlaces == {"rest", "reading", "committing", "backoff", "success"}
ThreadPlaces == {"off", "fetching", "sending", "failing"}
Reader       == [at : ReaderPlaces, attempt : Retrials, first : Nat \ {0}, read : Nat, sent : Nat]
Emissions    == Readings \X (Nat \ {0})

IntakeTypeOK ==
  /\ source \in SourceKinds
  /\ run \in 0 .. MaxRuns
  /\ reader \in Reader
  /\ reader.at # "rest" => run \in Runs
  /\ reader.at = "backoff" => reader.attempt + 1 \in Retrials
  /\ buffer \in Seq(Nat)
  /\ threads \in [Readings -> [at : ThreadPlaces, read : Nat]]
  /\ channel \in Seq(Emissions) /\ durable \in Seq(Emissions)
  /\ broker \in [committed : Nat \ {0}, commits : Seq(Nat \ {0})]
  /\ emitted \subseteq Emissions

\* An attempt begins where the source does, with nothing read beyond it.
LEMMA Beginnings ==
  ASSUME IntakeTypeOK, NEW a \in Retrials
  PROVE  /\ Beginning(a) \in Reader
         /\ Beginning(a).at = "reading" /\ Beginning(a).attempt = a
         /\ Beginning(a).read = Beginning(a).first - 1 /\ Beginning(a).sent = Beginning(a).first - 1
         /\ Beginning(a).first = IF source = "kafka" THEN broker.committed ELSE 1
<1> DEFINE first == IF source = "kafka" THEN broker.committed ELSE 1
<1>1. first \in Nat \ {0} /\ first - 1 \in Nat
  BY DEF IntakeTypeOK
<1>2. Beginning(a) = [at |-> "reading", attempt |-> a, first |-> first, read |-> first - 1, sent |-> first - 1]
  BY DEF Beginning
<1> HIDE DEF first
<1>3. "reading" \in ReaderPlaces
  BY DEF ReaderPlaces
<1>4. Beginning(a) \in Reader
  BY <1>1, <1>2, <1>3 DEF Reader
<1>. QED BY <1>1, <1>2, <1>4 DEF first

\* A consumer that closes leaves a committed offset that was committed before
\* or was under way.
LEMMA Closings ==
  ASSUME IntakeTypeOK, ConsumerClosed
  PROVE  /\ broker' \in [committed : Nat \ {0}, commits : Seq(Nat \ {0})]
         /\ broker'.commits = <<>>
         /\ \/ broker'.committed = broker.committed
            \/ \E n \in DOMAIN broker.commits : broker'.committed = broker.commits[n]
<1>0. broker.committed \in Nat \ {0} /\ broker.commits \in Seq(Nat \ {0})
  BY DEF IntakeTypeOK
<1>1. PICK n \in 0 .. Len(broker.commits) :
        broker' = [committed |-> IF n = 0 THEN broker.committed ELSE broker.commits[n], commits |-> <<>>]
  BY DEF ConsumerClosed
<1>2. n # 0 => n \in DOMAIN broker.commits /\ broker.commits[n] \in Nat \ {0}
  BY <1>0
<1> DEFINE c == IF n = 0 THEN broker.committed ELSE broker.commits[n]
<1>3. c \in Nat \ {0} /\ (c = broker.committed \/ \E i \in DOMAIN broker.commits : c = broker.commits[i])
  BY <1>0, <1>2
<1>4. <<>> \in Seq(Nat \ {0})
  OBVIOUS
<1> HIDE DEF c
<1>5. broker' = [committed |-> c, commits |-> <<>>]
  BY <1>1 DEF c
<1>. QED BY <1>3, <1>4, <1>5

\* The reading that is under way.
LEMMA CurrentIsReading == IntakeTypeOK /\ reader.at # "rest" => Current \in Readings /\ reader.attempt \in Retrials
BY DEF IntakeTypeOK, Reader, Current, Readings

\* The reader begins, or begins again.
LEMMA BeginsTypes ==
  ASSUME IntakeTypeOK, NEW a \in Retrials, run' \in Runs, reader' = Beginning(a), threads' = Spawned(a),
         UNCHANGED <<source, buffer, channel, durable, broker, emitted>>
  PROVE  IntakeTypeOK'
<1>1. reader' \in Reader /\ reader'.at = "reading" /\ run' \in 0 .. MaxRuns
  BY Beginnings, IntakeAssumption DEF Runs, IntakeAssumption
<1>2. threads' \in [Readings -> [at : ThreadPlaces, read : Nat]]
  <2>1. [at |-> "fetching", read |-> 0] \in [at : ThreadPlaces, read : Nat]
    BY DEF ThreadPlaces
  <2>. QED BY <2>1 DEF Spawned, IntakeTypeOK
<1>. QED BY <1>1, <1>2 DEF IntakeTypeOK

\* The thread of a reading moves on.
LEMMA ThreadTypes ==
  ASSUME IntakeTypeOK, NEW r \in Readings, NEW t \in [at : ThreadPlaces, read : Nat], Set(r, t),
         buffer' = buffer \/ \E n \in Nat : buffer' = Append(buffer, n),
         UNCHANGED <<source, run, reader, channel, durable, broker, emitted>>
  PROVE  IntakeTypeOK'
<1>1. threads' \in [Readings -> [at : ThreadPlaces, read : Nat]]
  BY DEF Set, IntakeTypeOK
<1>2. buffer \in Seq(Nat) /\ \A n \in Nat : Append(buffer, n) \in Seq(Nat)
  BY AppendProperties DEF IntakeTypeOK
<1>3. buffer' \in Seq(Nat)
  BY <1>2
<1>. QED BY <1>1, <1>3 DEF IntakeTypeOK

\* Every step keeps the types.
LEMMA IntakeTypesStep == IntakeTypeOK /\ [IntakeNext]_intakeVars => IntakeTypeOK'
<1> SUFFICES ASSUME IntakeTypeOK, [IntakeNext]_intakeVars PROVE IntakeTypeOK'
  OBVIOUS
<1>0. reader \in Reader /\ reader.read \in Nat /\ reader.sent \in Nat /\ reader.attempt \in Retrials
  BY DEF IntakeTypeOK, Reader
<1>a. /\ "rest" \in ReaderPlaces /\ "backoff" \in ReaderPlaces /\ "reading" \in ReaderPlaces
      /\ "committing" \in ReaderPlaces /\ "success" \in ReaderPlaces
      /\ "off" \in ThreadPlaces /\ "fetching" \in ThreadPlaces /\ "sending" \in ThreadPlaces
      /\ "failing" \in ThreadPlaces
  BY DEF ReaderPlaces, ThreadPlaces
<1>b. 1 \in Retrials /\ (reader.attempt < MaxRetrials => reader.attempt + 1 \in Retrials)
  BY <1>0, IntakeAssumption DEF IntakeAssumption, Retrials
<1>c. Rest \in Reader /\ NoThread \in [at : ThreadPlaces, read : Nat]
  BY <1>a, <1>b DEF Rest, Reader, NoThread
<1>d. \A p \in ReaderPlaces : [reader EXCEPT !.at = p] \in Reader /\ [reader EXCEPT !.at = p].at = p
  BY <1>0 DEF Reader
<1>g. \A p \in ReaderPlaces : [reader EXCEPT !.at = p].attempt = reader.attempt
  BY <1>0 DEF Reader
<1>e. [reader EXCEPT !.read = @ + 1] \in Reader /\ [reader EXCEPT !.read = @ + 1].at = reader.at
  BY <1>0 DEF Reader
<1>f. \A r \in Readings : threads[r] \in [at : ThreadPlaces, read : Nat]
  BY DEF IntakeTypeOK
<1>1. CASE Begins
  <2>1. run' \in Runs
    BY <1>1, IntakeAssumption DEF Begins, Runs, IntakeTypeOK, IntakeAssumption
  <2>. QED BY <1>1, <1>b, <2>1, BeginsTypes DEF Begins
<1>2. CASE Retries
  <2>1. reader.at = "backoff" /\ run' \in Runs
    BY <1>2 DEF Retries, IntakeTypeOK
  <2>2. reader.attempt + 1 \in Retrials
    BY <2>1 DEF IntakeTypeOK
  <2>. QED BY <1>2, <2>1, <2>2, BeginsTypes DEF Retries
<1>3. CASE Reads \/ Collects \/ Polls
  <2>1. reader' \in Reader /\ reader'.at = "reading" /\ reader.at = "reading"
    BY <1>3, <1>e DEF Reads, Collects, Polls
  <2>2. UNCHANGED <<source, run, buffer, threads, channel, durable, broker, emitted>>
    BY <1>3 DEF Reads, Collects, Polls
  <2>. QED BY <2>1, <2>2 DEF IntakeTypeOK
<1>4. CASE ReadFails \/ Ends
  <2>1. reader' \in Reader /\ reader.at # "rest" /\ (reader'.at = "backoff" => reader'.attempt + 1 \in Retrials)
    <3> DEFINE place == IF reader.attempt < MaxRetrials THEN "backoff" ELSE "rest"
    <3>1. reader.at # "rest" /\ (\/ reader' = [reader EXCEPT !.at = place]
                                \/ reader' = [reader EXCEPT !.at = "success"])
      BY <1>4 DEF ReadFails, Breaks, Ends, Reading
    <3>2. place \in ReaderPlaces /\ (place = "backoff" => reader.attempt + 1 \in Retrials)
      BY <1>a, <1>b
    <3> HIDE DEF place
    <3>. QED BY <1>a, <1>d, <1>g, <3>1, <3>2
  <2>2. broker' \in [committed : Nat \ {0}, commits : Seq(Nat \ {0})]
    BY <1>4, Closings DEF ReadFails, Breaks, Ends, Dropped
  <2>3. buffer' = <<>> /\ UNCHANGED <<source, run, threads, channel, durable, emitted>>
    BY <1>4 DEF ReadFails, Breaks, Ends, Dropped
  <2>. QED BY <2>1, <2>2, <2>3 DEF IntakeTypeOK
<1>5. CASE Receives
  <2>1. reader' \in Reader /\ reader.at # "rest" /\ (reader'.at = "backoff" => reader'.attempt + 1 \in Retrials)
    <3> DEFINE place == IF reader.attempt < MaxRetrials THEN "backoff" ELSE "rest"
    <3>1. reader.at = "reading" /\ (\/ reader' = [reader EXCEPT !.at = place]
                                   \/ reader' = [reader EXCEPT !.read = @ + 1])
      BY <1>5 DEF Receives
    <3>2. place \in ReaderPlaces /\ (place = "backoff" => reader.attempt + 1 \in Retrials)
      BY <1>a, <1>b
    <3> HIDE DEF place
    <3>. QED BY <1>d, <1>e, <1>g, <3>1, <3>2
  <2>2. broker' \in [committed : Nat \ {0}, commits : Seq(Nat \ {0})]
    BY <1>5, Closings DEF Receives, Dropped, IntakeTypeOK
  <2>3. buffer' \in Seq(Nat) /\ UNCHANGED <<source, run, threads, channel, durable, emitted>>
    <3>1. buffer \in Seq(Nat) /\ (buffer # <<>> => Tail(buffer) \in Seq(Nat)) /\ <<>> \in Seq(Nat)
      BY HeadTailProperties DEF IntakeTypeOK
    <3>. QED BY <1>5, <3>1 DEF Receives, Dropped
  <2>. QED BY <2>1, <2>2, <2>3 DEF IntakeTypeOK
<1>6. CASE EmitsUnit
  <2>1. reader' \in Reader /\ reader.at # "rest" /\ reader'.at # "backoff"
    <3> DEFINE place == AfterSend
    <3>1. place \in ReaderPlaces /\ place # "backoff"
      BY DEF AfterSend, ReaderPlaces
    <3>2. reader' = [reader EXCEPT !.sent = @ + 1, !.at = place] /\ reader.at = "reading"
      BY <1>6 DEF EmitsUnit
    <3> HIDE DEF place
    <3>3. reader.sent + 1 \in Nat
      BY <1>0
    <3> DEFINE n == reader.sent + 1
    <3>4. reader' = [reader EXCEPT !.sent = n, !.at = place]
      BY <3>2
    <3> HIDE DEF n
    <3>5. n \in Nat
      BY <3>3 DEF n
    <3>. QED BY <1>0, <3>1, <3>2, <3>4, <3>5 DEF Reader
  <2>2. <<Current, reader.sent + 1>> \in Emissions
    BY <1>0, <2>1, CurrentIsReading DEF Emissions
  <2>3. channel' \in Seq(Emissions) /\ emitted' \subseteq Emissions
    <3>1. channel \in Seq(Emissions) /\ emitted \subseteq Emissions
      BY DEF IntakeTypeOK
    <3> DEFINE e == <<Current, reader.sent + 1>>
    <3>2. channel' = Append(channel, e) /\ emitted' = emitted \cup {e}
      BY <1>6 DEF EmitsUnit
    <3>3. e \in Emissions
      BY <2>2
    <3> HIDE DEF e
    <3>. QED BY <3>1, <3>2, <3>3, AppendProperties
  <2>4. UNCHANGED <<source, run, buffer, threads, durable, broker>>
    BY <1>6 DEF EmitsUnit
  <2>. QED BY <2>1, <2>3, <2>4 DEF IntakeTypeOK
<1>7. CASE CommitsOffset
  <2>1. reader' \in Reader /\ reader.at # "rest"
    BY <1>7, <1>d, <1>a DEF CommitsOffset
  <2>2. broker' \in [committed : Nat \ {0}, commits : Seq(Nat \ {0})]
    <3>1. Append(broker.commits, reader.sent + 1) \in Seq(Nat \ {0})
      BY <1>0 DEF IntakeTypeOK
    <3>. QED BY <1>7, <3>1 DEF CommitsOffset, IntakeTypeOK
  <2>. QED BY <1>7, <2>1, <2>2 DEF CommitsOffset, IntakeTypeOK
<1>8. CASE Rests
  <2>1. reader' \in Reader /\ reader'.at = "rest"
    BY <1>8, <1>c DEF Rests, Rest
  <2>. QED BY <1>8, <2>1 DEF Rests, IntakeTypeOK
<1>9. CASE BrokerCommits
  <2>1. Head(broker.commits) \in Nat \ {0} /\ Tail(broker.commits) \in Seq(Nat \ {0})
    BY <1>9 DEF BrokerCommits, IntakeTypeOK
  <2>2. broker' \in [committed : Nat \ {0}, commits : Seq(Nat \ {0})]
    BY <1>9, <2>1 DEF BrokerCommits
  <2>. QED BY <1>9, <2>2 DEF BrokerCommits, IntakeTypeOK
<1>10. CASE Routes
  <2>1. channel' \in Seq(Emissions) /\ durable' \in Seq(Emissions)
    BY <1>10 DEF Routes, IntakeTypeOK
  <2>. QED BY <1>10, <2>1 DEF Routes, IntakeTypeOK
<1>11. CASE Crashes
  <2>1. reader' \in Reader /\ reader'.at = "rest"
    BY <1>11, <1>c DEF Crashes, Rest
  <2>2. threads' \in [Readings -> [at : ThreadPlaces, read : Nat]]
    BY <1>11, <1>c DEF Crashes
  <2>3. broker' \in [committed : Nat \ {0}, commits : Seq(Nat \ {0})]
    BY <1>11, Closings DEF Crashes
  <2>4. buffer' \in Seq(Nat) /\ channel' \in Seq(Emissions) /\ UNCHANGED <<source, run, durable, emitted>>
    BY <1>11 DEF Crashes
  <2>. QED BY <2>1, <2>2, <2>3, <2>4 DEF IntakeTypeOK
<1>12. ASSUME NEW r \in Readings, ThreadStep(r) \/ FetchFails(r) PROVE IntakeTypeOK'
  <2>1. CASE Fetches(r)
    <3> DEFINE t == IF threads[r].read < NumUnits THEN [at |-> "sending", read |-> threads[r].read + 1] ELSE NoThread
    <3>1. t \in [at : ThreadPlaces, read : Nat]
      BY <1>f, <1>a, <1>c
    <3>2. Set(r, t)
      BY <2>1 DEF Fetches
    <3> HIDE DEF t
    <3>. QED BY <2>1, <3>1, <3>2, ThreadTypes DEF Fetches
  <2>2. CASE HandsOver(r)
    <3>1. [threads[r] EXCEPT !.at = "fetching"] \in [at : ThreadPlaces, read : Nat] /\ threads[r].read \in Nat
      BY <1>f, <1>a
    <3>. QED BY <2>2, <3>1, ThreadTypes DEF HandsOver
  <2>3. CASE SendFails(r) \/ Broken(r)
    BY <2>3, <1>c, ThreadTypes DEF SendFails, Broken
  <2>4. CASE Reports(r)
    BY <2>4, <1>c, ThreadTypes DEF Reports, Error
  <2>5. CASE FetchFails(r)
    <3>1. [threads[r] EXCEPT !.at = "failing"] \in [at : ThreadPlaces, read : Nat]
      BY <1>f, <1>a
    <3>. QED BY <2>5, <3>1, ThreadTypes DEF FetchFails
  <2>. QED BY <1>12, <2>1, <2>2, <2>3, <2>4, <2>5 DEF ThreadStep
<1>13. CASE UNCHANGED intakeVars
  BY <1>13 DEF intakeVars, IntakeTypeOK
<1>. QED BY <1>1, <1>2, <1>3, <1>4, <1>5, <1>6, <1>7, <1>8, <1>9, <1>10, <1>11, <1>12, <1>13
         DEF IntakeNext, ReaderStep

\* Types, in every reachable state.
THEOREM IntakeTypes == IntakeSpec => []IntakeTypeOK
<1>1. IntakeInit => IntakeTypeOK
  <2> SUFFICES ASSUME IntakeInit PROVE IntakeTypeOK
    OBVIOUS
  <2>1. Rest \in Reader
    BY IntakeAssumption DEF Rest, Reader, ReaderPlaces, Retrials, IntakeAssumption
  <2>2. NoThread \in [at : ThreadPlaces, read : Nat]
    BY DEF NoThread, ThreadPlaces
  <2>3. source \in SourceKinds /\ 0 \in 0 .. MaxRuns
    BY IntakeAssumption DEF IntakeInit, IntakeAssumption
  <2>4. broker \in [committed : Nat \ {0}, commits : Seq(Nat \ {0})]
    BY DEF IntakeInit
  <2>5. reader.at = "rest"
    BY DEF IntakeInit, Rest
  <2>. QED BY <2>1, <2>2, <2>3, <2>4, <2>5 DEF IntakeInit, IntakeTypeOK
<1>. QED BY <1>1, IntakeTypesStep, PTL DEF IntakeSpec

----------------------------------------------------------------------------
(* What is committed was emitted. *)

\* Every message before the m-th is among the emissions.
Covered(m, emissions) == \A n \in Units : n < m => \E r \in Readings : <<r, n>> \in emissions

OffsetsInv ==
  source = "kafka" =>
    /\ Covered(broker.committed, emitted)
    /\ \A i \in DOMAIN broker.commits : Covered(broker.commits[i], emitted)
    /\ Reading => Covered(reader.sent + 1, emitted)

\* Nothing emitted is forgotten.
LEMMA EmittedStays == [IntakeNext]_intakeVars => emitted \subseteq emitted' /\ source' = source
<1> SUFFICES ASSUME [IntakeNext]_intakeVars PROVE emitted \subseteq emitted' /\ source' = source
  OBVIOUS
<1>1. CASE Begins \/ Retries \/ Reads \/ Collects \/ Polls \/ Receives
  BY <1>1 DEF Begins, Retries, Reads, Collects, Polls, Receives
<1>2. CASE EmitsUnit \/ CommitsOffset \/ Ends \/ Rests \/ ReadFails \/ BrokerCommits \/ Routes \/ Crashes
  BY <1>2 DEF EmitsUnit, CommitsOffset, Ends, Rests, ReadFails, Breaks, BrokerCommits, Routes, Crashes
<1>3. ASSUME NEW r \in Readings, ThreadStep(r) \/ FetchFails(r) PROVE UNCHANGED <<emitted, source>>
  BY <1>3 DEF ThreadStep, Fetches, HandsOver, SendFails, Broken, Reports, FetchFails
<1>4. CASE UNCHANGED intakeVars
  BY <1>4 DEF intakeVars
<1>. QED BY <1>1, <1>2, <1>3, <1>4 DEF IntakeNext, ReaderStep

\* What has been covered stays so.
LEMMA CoveredStays ==
  ASSUME [IntakeNext]_intakeVars
  PROVE  \A m : Covered(m, emitted) => Covered(m, emitted')
BY EmittedStays DEF Covered

\* A step that leaves the broker alone, or closes its consumer, and begins no
\* reading, keeps the offsets covered.
LEMMA OffsetsKept ==
  ASSUME IntakeTypeOK, OffsetsInv, [IntakeNext]_intakeVars, ConsumerClosed \/ broker' = broker,
         ~Reading' \/ (Reading /\ reader'.sent = reader.sent)
  PROVE  OffsetsInv'
<1> SUFFICES ASSUME source = "kafka" PROVE OffsetsInv'
  BY EmittedStays DEF OffsetsInv
<1>1. /\ Covered(broker.committed, emitted')
      /\ \A i \in DOMAIN broker.commits : Covered(broker.commits[i], emitted')
      /\ Reading => Covered(reader.sent + 1, emitted')
  BY CoveredStays DEF OffsetsInv
<1>2. Covered(broker'.committed, emitted') /\ \A i \in DOMAIN broker'.commits : Covered(broker'.commits[i], emitted')
  <2>1. CASE ConsumerClosed
    <3>1. broker'.commits = <<>> /\ Covered(broker'.committed, emitted')
      BY <1>1, <2>1, Closings
    <3>. QED BY <3>1
  <2>2. CASE broker' = broker
    BY <1>1, <2>2
  <2>. QED BY <2>1, <2>2
<1>3. Reading' => Covered(reader'.sent + 1, emitted')
  BY <1>1
<1>. QED BY <1>2, <1>3 DEF OffsetsInv

\* A consumer begins with the offset that is committed.
LEMMA OffsetsBegin ==
  ASSUME IntakeTypeOK, OffsetsInv, NEW a \in Retrials, reader' = Beginning(a), UNCHANGED <<source, broker, emitted>>
  PROVE  OffsetsInv'
<1> SUFFICES ASSUME source = "kafka" PROVE OffsetsInv'
  BY DEF OffsetsInv
<1>1. reader'.sent = broker.committed - 1 /\ broker.committed \in Nat
  BY Beginnings DEF IntakeTypeOK
<1>2. reader'.sent + 1 = broker.committed
  BY <1>1
<1>. QED BY <1>2 DEF OffsetsInv

\* Every step keeps the offsets covered.
LEMMA OffsetsStep == IntakeTypeOK /\ OffsetsInv /\ [IntakeNext]_intakeVars => OffsetsInv'
<1> SUFFICES ASSUME IntakeTypeOK, OffsetsInv, [IntakeNext]_intakeVars PROVE OffsetsInv'
  OBVIOUS
<1>0. reader \in Reader /\ reader.sent \in Nat /\ 1 \in Retrials
  BY IntakeAssumption DEF IntakeTypeOK, Reader, IntakeAssumption, Retrials
<1>1. CASE Begins
  BY <1>0, <1>1, OffsetsBegin DEF Begins
<1>2. CASE Retries
  <2>1. reader.attempt + 1 \in Retrials
    BY <1>2 DEF Retries, IntakeTypeOK
  <2>. QED BY <1>2, <2>1, OffsetsBegin DEF Retries
<1>3. CASE Reads \/ Collects \/ Polls
  <2>1. reader' = [reader EXCEPT !.read = @ + 1] /\ Reading /\ broker' = broker
    BY <1>3 DEF Reads, Collects, Polls, Reading
  <2>2. reader'.sent = reader.sent
    BY <1>0, <2>1 DEF Reader
  <2>. QED BY <2>1, <2>2, OffsetsKept
<1>4. CASE ReadFails \/ Ends
  <2>1. ConsumerClosed
    BY <1>4 DEF ReadFails, Breaks, Ends, Dropped
  <2>2. ~Reading'
    BY <1>0, <1>4 DEF ReadFails, Breaks, Ends, Reading, Reader
  <2>. QED BY <2>1, <2>2, OffsetsKept
<1>5. CASE Receives
  <2>1. CASE Head(buffer) = Error
    <3>1. ConsumerClosed
      BY <1>5, <2>1 DEF Receives, Dropped
    <3>2. ~Reading'
      BY <1>0, <1>5, <2>1 DEF Receives, Reading, Reader
    <3>. QED BY <3>1, <3>2, OffsetsKept
  <2>2. CASE Head(buffer) # Error
    <3>1. reader' = [reader EXCEPT !.read = @ + 1] /\ Reading /\ broker' = broker
      BY <1>5, <2>2 DEF Receives, Reading
    <3>2. reader'.sent = reader.sent
      BY <1>0, <3>1 DEF Reader
    <3>. QED BY <3>1, <3>2, OffsetsKept
  <2>. QED BY <2>1, <2>2
<1>6. CASE EmitsUnit
  <2> SUFFICES ASSUME source = "kafka" PROVE OffsetsInv'
    BY EmittedStays DEF OffsetsInv
  <2>1. reader.at = "reading" /\ reader'.sent = reader.sent + 1 /\ broker' = broker
    BY <1>0, <1>6 DEF EmitsUnit, Reader
  <2>2. Current \in Readings /\ <<Current, reader.sent + 1>> \in emitted'
    BY <1>6, <2>1, CurrentIsReading DEF EmitsUnit
  <2>3. Covered(reader.sent + 1, emitted')
    BY <2>1, CoveredStays DEF OffsetsInv, Reading
  <2>4. Covered(reader.sent + 2, emitted')
    BY <1>0, <2>2, <2>3 DEF Covered, Units
  <2>5. /\ Covered(broker.committed, emitted')
        /\ \A i \in DOMAIN broker.commits : Covered(broker.commits[i], emitted')
    BY CoveredStays DEF OffsetsInv
  <2>6. reader'.sent + 1 = reader.sent + 2
    BY <1>0, <2>1
  <2>. QED BY <2>1, <2>4, <2>5, <2>6 DEF OffsetsInv
<1>7. CASE CommitsOffset
  <2> SUFFICES ASSUME source = "kafka" PROVE OffsetsInv'
    BY EmittedStays DEF OffsetsInv
  <2>1. Reading /\ reader'.sent = reader.sent /\ emitted' = emitted
    BY <1>0, <1>7 DEF CommitsOffset, Reading, Reader
  <2>2. Covered(reader.sent + 1, emitted)
    BY <2>1 DEF OffsetsInv
  <2> DEFINE later == Append(broker.commits, reader.sent + 1)
  <2>3. \A i \in DOMAIN later : Covered(later[i], emitted)
    <3>1. broker.commits \in Seq(Nat \ {0}) /\ reader.sent + 1 \in Nat \ {0}
      BY <1>0 DEF IntakeTypeOK
    <3>2. \A i \in DOMAIN later : later[i] = reader.sent + 1 \/ (i \in DOMAIN broker.commits /\ later[i] = broker.commits[i])
      BY <3>1
    <3>. QED BY <2>2, <3>2 DEF OffsetsInv
  <2>4. broker' = [broker EXCEPT !.commits = later]
    BY <1>7 DEF CommitsOffset
  <2> HIDE DEF later
  <2>5. broker'.committed = broker.committed /\ broker'.commits = later
    BY <2>4 DEF IntakeTypeOK
  <2>. QED BY <2>1, <2>2, <2>3, <2>5 DEF OffsetsInv
<1>8. CASE Rests
  <2>1. ~Reading' /\ broker' = broker
    BY <1>8 DEF Rests, Reading, Rest
  <2>. QED BY <2>1, OffsetsKept
<1>9. CASE BrokerCommits
  <2> SUFFICES ASSUME source = "kafka" PROVE OffsetsInv'
    BY EmittedStays DEF OffsetsInv
  <2>1. broker.commits \in Seq(Nat \ {0}) /\ broker.commits # <<>>
    BY <1>9 DEF BrokerCommits, IntakeTypeOK
  <2>2. broker'.committed = broker.commits[1] /\ broker'.commits = Tail(broker.commits)
    BY <1>9, <2>1 DEF BrokerCommits
  <2>3. /\ 1 \in DOMAIN broker.commits
        /\ \A i \in DOMAIN Tail(broker.commits) :
             i + 1 \in DOMAIN broker.commits /\ Tail(broker.commits)[i] = broker.commits[i + 1]
    BY <2>1
  <2>4. UNCHANGED <<reader, emitted>>
    BY <1>9 DEF BrokerCommits
  <2>. QED BY <2>2, <2>3, <2>4 DEF OffsetsInv, Reading
<1>10. CASE Routes
  BY <1>10 DEF Routes, OffsetsInv, Reading
<1>11. CASE Crashes
  <2>1. ConsumerClosed /\ ~Reading'
    BY <1>11 DEF Crashes, Reading, Rest
  <2>. QED BY <2>1, OffsetsKept
<1>12. ASSUME NEW r \in Readings, ThreadStep(r) \/ FetchFails(r) PROVE OffsetsInv'
  <2>1. UNCHANGED <<source, reader, broker, emitted>>
    BY <1>12 DEF ThreadStep, Fetches, HandsOver, SendFails, Broken, Reports, FetchFails
  <2>. QED BY <2>1 DEF OffsetsInv, Reading
<1>13. CASE UNCHANGED intakeVars
  BY <1>13 DEF intakeVars, OffsetsInv, Reading
<1>. QED BY <1>1, <1>2, <1>3, <1>4, <1>5, <1>6, <1>7, <1>8, <1>9, <1>10, <1>11, <1>12, <1>13
         DEF IntakeNext, ReaderStep

\* Initially nothing is committed and nobody reads.
LEMMA OffsetsInit == IntakeInit => OffsetsInv
<1>1. \A n \in Units : ~(n < 1)
  BY DEF Units
<1>. QED BY <1>1 DEF IntakeInit, OffsetsInv, Covered, Reading, Rest

\* A message is committed only after it was emitted: whatever a later consumer
\* of the group will not read again, an earlier one has given to the flow,
\* through retries, crashes and commits that are lost.
THEOREM CommitsFollowEmissions == IntakeSpec => []CommittedWasEmitted
<1>1. OffsetsInv => CommittedWasEmitted
  BY DEF OffsetsInv, CommittedWasEmitted, Covered
<1>. QED BY <1>1, OffsetsInit, OffsetsStep, IntakeTypes, PTL DEF IntakeSpec

----------------------------------------------------------------------------
(* What a source that ended well has handed over. *)

\* An Oracle thread has read what its reader has and what lies between them; an
\* error is the last thing it sends.
Ahead(t, sent, read) ==
  /\ t.read <= NumUnits
  /\ \A i \in DOMAIN sent : sent[i] = Error => i = Len(sent) /\ t.at = "off"
  /\ t.at \in {"fetching", "failing"} => t.read = read + Len(sent)
  /\ t.at = "sending" => t.read = read + Len(sent) + 1
  /\ t.at = "off" =>
       \/ read + Len(sent) = NumUnits
       \/ sent # <<>> /\ sent[Len(sent)] = Error /\ read + Len(sent) <= NumUnits + 1

ThreadInv ==
  /\ ~Reading => buffer = <<>>
  /\ source # "thread" => buffer = <<>> /\ \A r \in Readings : threads[r].at = "off"
  /\ source = "thread" /\ Reading => Ahead(threads[Current], buffer, reader.read)

ReadInv ==
  source # "kafka" =>
    /\ reader.sent <= reader.read /\ reader.read <= NumUnits
    /\ reader.at = "success" => reader.sent = NumUnits

\* Nothing was emitted by a reading yet to begin.
FreshInv ==
  \A k \in DOMAIN Handed :
    /\ Handed[k][1][1] <= run
    /\ reader.at # "rest" /\ Handed[k][1][1] = run => Handed[k][1][2] <= reader.attempt

\* The emissions of the reading are the units it has sent, in order.
InSequence(seq, reading, sent) ==
  /\ \A k \in DOMAIN seq : seq[k][1] = reading => seq[k][2] \in 1 .. sent
  /\ \A n \in 1 .. sent : \E k \in DOMAIN seq : seq[k] = <<reading, n>>
  /\ \A j, k \in DOMAIN seq :
       j < k /\ seq[j][1] = reading /\ seq[k][1] = reading => seq[j][2] < seq[k][2]

HandedInv == source # "kafka" /\ reader.at # "rest" => InSequence(Handed, Current, reader.sent)

\* A thread that begins is where its reader is.
LEMMA ThreadBegins ==
  ASSUME IntakeTypeOK, ThreadInv, ~Reading, NEW a \in Retrials, run' \in Runs,
         reader' = Beginning(a), threads' = Spawned(a), UNCHANGED <<source, buffer>>
  PROVE  ThreadInv'
<1>1. reader'.at = "reading" /\ reader'.attempt = a /\ buffer' = <<>>
  BY Beginnings DEF ThreadInv
<1>2. CASE source # "thread"
  BY <1>1, <1>2 DEF ThreadInv, Spawned
<1>3. CASE source = "thread"
  <2>1. Current' = <<run', a>> /\ <<run', a>> \in Readings
    BY <1>1 DEF Current, Readings
  <2>2. threads'[<<run', a>>] = [at |-> "fetching", read |-> 0]
    BY <1>3, <2>1 DEF Spawned, IntakeTypeOK
  <2>3. reader'.read = 0
    BY <1>3, Beginnings
  <2>4. Ahead([at |-> "fetching", read |-> 0], <<>>, 0)
    BY IntakeAssumption DEF Ahead, IntakeAssumption
  <2>. QED BY <1>1, <1>3, <2>1, <2>2, <2>3, <2>4 DEF ThreadInv, Reading
<1>. QED BY <1>2, <1>3

\* A reading that ends leaves nothing for its reader.
LEMMA ThreadLeft ==
  ASSUME ThreadInv, ~Reading', buffer' = <<>>, UNCHANGED <<source, threads>>
  PROVE  ThreadInv'
BY DEF ThreadInv

\* A reader that reads on takes nothing from its thread.
LEMMA ThreadKept ==
  ASSUME ThreadInv, Reading, Reading', Current' = Current, UNCHANGED <<source, buffer, threads>>,
         source = "thread" => reader'.read = reader.read
  PROVE  ThreadInv'
<1>1. CASE source # "thread"
  BY <1>1 DEF ThreadInv
<1>2. CASE source = "thread"
  <2>1. Ahead(threads[Current], buffer, reader.read)
    BY <1>2 DEF ThreadInv
  <2>2. Ahead(threads'[Current'], buffer', reader'.read)
    BY <1>2, <2>1
  <2>. QED BY <1>2, <2>2 DEF ThreadInv
<1>. QED BY <1>1, <1>2

\* The reader takes a batch.
LEMMA AheadTaken ==
  ASSUME NEW t \in [at : ThreadPlaces, read : Nat], NEW sent \in Seq(Nat), NEW read \in Nat,
         sent # <<>>, Head(sent) # Error, Ahead(t, sent, read)
  PROVE  Ahead(t, Tail(sent), read + 1) /\ read + 1 <= NumUnits
<1>0. NumUnits \in Nat /\ t.read \in Nat /\ t.at \in ThreadPlaces /\ Len(sent) \in Nat \ {0}
  BY IntakeAssumption DEF IntakeAssumption
<1>1. /\ Len(Tail(sent)) = Len(sent) - 1 /\ DOMAIN Tail(sent) = 1 .. Len(sent) - 1
      /\ \A i \in DOMAIN Tail(sent) : i + 1 \in DOMAIN sent /\ Tail(sent)[i] = sent[i + 1]
  OBVIOUS
<1>2. \A i \in DOMAIN Tail(sent) : Tail(sent)[i] = Error => i = Len(Tail(sent)) /\ t.at = "off"
  <2> SUFFICES ASSUME NEW i \in DOMAIN Tail(sent), Tail(sent)[i] = Error
               PROVE  i = Len(Tail(sent)) /\ t.at = "off"
    OBVIOUS
  <2>1. i + 1 = Len(sent) /\ t.at = "off"
    BY <1>1 DEF Ahead
  <2>2. i \in Nat
    BY <1>0, <1>1
  <2>3. i = Len(sent) - 1
    BY <1>0, <2>1, <2>2
  <2>. QED BY <1>1, <2>1, <2>3
<1>3. Len(Tail(sent)) + (read + 1) = Len(sent) + read
  BY <1>0, <1>1
<1>4. CASE sent[Len(sent)] = Error
  <2>1. Len(sent) # 1
    BY <1>4
  <2>2. Tail(sent) # <<>> /\ Tail(sent)[Len(Tail(sent))] = Error
    <3> DEFINE l == Len(sent) - 1
    <3>1. l \in 1 .. Len(sent) - 1 /\ l + 1 = Len(sent)
      <4>1. \A m \in Nat \ {0} : m # 1 => m - 1 \in 1 .. m - 1 /\ (m - 1) + 1 = m
        OBVIOUS
      <4>. QED BY <1>0, <2>1, <4>1
    <3>2. l \in DOMAIN Tail(sent) /\ Len(Tail(sent)) = l
      BY <1>1, <3>1
    <3> HIDE DEF l
    <3>3. Tail(sent)[l] = Error
      BY <1>1, <1>4, <3>1, <3>2
    <3>. QED BY <3>2, <3>3
  <2>3. t.at = "off"
    BY <1>0, <1>4 DEF Ahead
  <2>4. read + Len(sent) <= NumUnits + 1
    BY <1>0, <2>3 DEF Ahead
  <2>5. read + 1 <= NumUnits
    <3>1. Len(sent) >= 2
      <4>1. \A l \in Nat \ {0} : l # 1 => l >= 2
        OBVIOUS
      <4>. QED BY <1>0, <2>1, <4>1
    <3>2. \A l \in Nat : l >= 2 /\ read + l <= NumUnits + 1 => read + 1 <= NumUnits
      BY <1>0
    <3>. QED BY <1>0, <2>4, <3>1, <3>2
  <2>6. t.read <= NumUnits
    BY DEF Ahead
  <2>7. (read + 1) + Len(Tail(sent)) <= NumUnits + 1
    BY <1>0, <1>1, <2>4
  <2>. QED BY <1>2, <2>2, <2>3, <2>5, <2>6, <2>7 DEF Ahead
<1>5. CASE sent[Len(sent)] # Error
  <2>1. /\ t.read <= NumUnits
        /\ t.at \in {"fetching", "failing"} => t.read = read + Len(sent)
        /\ t.at = "sending" => t.read = read + Len(sent) + 1
        /\ t.at = "off" => read + Len(sent) = NumUnits
    BY <1>5 DEF Ahead
  <2>2. read + Len(sent) <= NumUnits
    BY <1>0, <2>1 DEF ThreadPlaces
  <2>3. read + 1 <= NumUnits
    BY <1>0, <2>2
  <2>4. read + Len(sent) = (read + 1) + Len(Tail(sent))
    BY <1>0, <1>1
  <2>5. /\ t.at \in {"fetching", "failing"} => t.read = (read + 1) + Len(Tail(sent))
        /\ t.at = "sending" => t.read = (read + 1) + Len(Tail(sent)) + 1
        /\ t.at = "off" => (read + 1) + Len(Tail(sent)) = NumUnits
    BY <2>1, <2>4
  <2>. QED BY <1>2, <2>1, <2>3, <2>5 DEF Ahead
<1>. QED BY <1>4, <1>5

\* The thread sends a batch, or its error.
LEMMA AheadSent ==
  ASSUME NEW t \in [at : ThreadPlaces, read : Nat], NEW sent \in Seq(Nat), NEW read \in Nat,
         Ahead(t, sent, read)
  PROVE  /\ t.at = "sending" => Ahead([t EXCEPT !.at = "fetching"], Append(sent, t.read), read)
         /\ t.at = "failing" => Ahead(NoThread, Append(sent, Error), read)
<1>0. NumUnits \in Nat /\ t.read \in Nat /\ Len(sent) \in Nat
  BY IntakeAssumption DEF IntakeAssumption
<1>1. \A n \in Nat :
        /\ Append(sent, n) \in Seq(Nat) /\ Append(sent, n) # <<>>
        /\ Len(Append(sent, n)) = Len(sent) + 1
        /\ Append(sent, n)[Len(sent) + 1] = n
        /\ \A i \in DOMAIN Append(sent, n) : (i \in DOMAIN sent /\ Append(sent, n)[i] = sent[i]) \/ i = Len(sent) + 1
  OBVIOUS
<1>2. CASE t.at = "sending"
  <2>1. t.read = read + Len(sent) + 1 /\ t.read <= NumUnits /\ t.read # Error
    <3>1. t.read = read + Len(sent) + 1 /\ t.read <= NumUnits
      BY <1>2 DEF Ahead
    <3>. QED BY <1>0, <3>1 DEF Error
  <2>2. \A i \in DOMAIN sent : sent[i] # Error
    BY <1>2 DEF Ahead
  <2> DEFINE later == Append(sent, t.read)
  <2>3. \A i \in DOMAIN later : later[i] # Error
    BY <1>0, <1>1, <2>1, <2>2
  <2>4. Len(later) = Len(sent) + 1
    BY <1>0, <1>1
  <2> DEFINE u == [t EXCEPT !.at = "fetching"]
  <2>5. u.at = "fetching" /\ u.read = t.read
    OBVIOUS
  <2> HIDE DEF u, later
  <2>6. u.read = read + Len(later)
    BY <1>0, <2>1, <2>4, <2>5
  <2>7. Ahead(u, later, read)
    BY <2>1, <2>3, <2>5, <2>6 DEF Ahead
  <2>. QED BY <1>2, <2>7 DEF u, later
<1>3. CASE t.at = "failing"
  <2>1. t.read = read + Len(sent) /\ t.read <= NumUnits
    BY <1>3 DEF Ahead
  <2>2. \A i \in DOMAIN sent : sent[i] # Error
    BY <1>3 DEF Ahead
  <2> DEFINE later == Append(sent, Error)
  <2>3. Error \in Nat
    BY DEF Error
  <2>4. /\ Len(later) = Len(sent) + 1 /\ later # <<>> /\ later[Len(later)] = Error
        /\ \A i \in DOMAIN later : later[i] = Error => i = Len(later)
    BY <1>0, <1>1, <2>2, <2>3
  <2> HIDE DEF later
  <2>5. read + Len(later) <= NumUnits + 1
    BY <1>0, <2>1, <2>4
  <2>6. NoThread.at = "off" /\ NoThread.read <= NumUnits
    BY <1>0 DEF NoThread
  <2>7. Ahead(NoThread, later, read)
    BY <2>4, <2>5, <2>6 DEF Ahead
  <2>. QED BY <1>3, <2>7 DEF later
<1>. QED BY <1>2, <1>3

\* The thread fetches a batch, comes to the end or fails.
LEMMA AheadFetched ==
  ASSUME NEW t \in [at : ThreadPlaces, read : Nat], NEW sent \in Seq(Nat), NEW read \in Nat,
         Ahead(t, sent, read), t.at = "fetching"
  PROVE  /\ t.read < NumUnits => Ahead([at |-> "sending", read |-> t.read + 1], sent, read)
         /\ ~(t.read < NumUnits) => Ahead(NoThread, sent, read)
         /\ Ahead([t EXCEPT !.at = "failing"], sent, read)
<1>0. NumUnits \in Nat /\ t.read \in Nat /\ Len(sent) \in Nat
  BY IntakeAssumption DEF IntakeAssumption
<1>1. t.read <= NumUnits /\ t.read = read + Len(sent) /\ \A i \in DOMAIN sent : sent[i] # Error
  BY DEF Ahead
<1>2. t.read < NumUnits => Ahead([at |-> "sending", read |-> t.read + 1], sent, read)
  <2> SUFFICES ASSUME t.read < NumUnits PROVE Ahead([at |-> "sending", read |-> t.read + 1], sent, read)
    OBVIOUS
  <2> DEFINE n == t.read + 1
  <2>1. n <= NumUnits /\ n = read + Len(sent) + 1
    BY <1>0, <1>1
  <2> HIDE DEF n
  <2>2. Ahead([at |-> "sending", read |-> n], sent, read)
    BY <1>1, <2>1 DEF Ahead
  <2>. QED BY <2>2 DEF n
<1>3. ~(t.read < NumUnits) => Ahead(NoThread, sent, read)
  <2>1. ~(t.read < NumUnits) => read + Len(sent) = NumUnits
    BY <1>0, <1>1
  <2>2. 0 <= NumUnits
    BY <1>0
  <2>. QED BY <1>1, <2>1, <2>2 DEF Ahead, NoThread
<1>4. Ahead([t EXCEPT !.at = "failing"], sent, read)
  <2> DEFINE u == [t EXCEPT !.at = "failing"]
  <2>1. u.at = "failing" /\ u.read = t.read
    OBVIOUS
  <2> HIDE DEF u
  <2>2. Ahead(u, sent, read)
    BY <1>1, <2>1 DEF Ahead
  <2>. QED BY <2>2 DEF u
<1>. QED BY <1>2, <1>3, <1>4

\* A step of a thread.
LEMMA ThreadMoves ==
  ASSUME IntakeTypeOK, ThreadInv, NEW r \in Readings, ThreadStep(r) \/ FetchFails(r)
  PROVE  ThreadInv'
<1>0. UNCHANGED <<source, run, reader>>
  BY DEF ThreadStep, Fetches, HandsOver, SendFails, Broken, Reports, FetchFails
<1>1. threads[r].at # "off"
  BY DEF ThreadStep, Fetches, HandsOver, SendFails, Broken, Reports, FetchFails
<1>2. source = "thread"
  BY <1>1 DEF ThreadInv
<1>3. PICK t : threads' = [threads EXCEPT ![r] = t]
  BY DEF ThreadStep, Fetches, HandsOver, SendFails, Broken, Reports, FetchFails, Set
<1>4. ~Listened(r) => buffer' = buffer
  BY DEF ThreadStep, Fetches, HandsOver, SendFails, Broken, Reports, FetchFails
<1>5. CASE ~Listened(r)
  <2>1. Reading => threads'[Current] = threads[Current]
    BY <1>3, <1>5 DEF Listened
  <2>2. Current' = Current /\ Reading' = Reading
    BY <1>0 DEF Current, Reading
  <2>3. UNCHANGED <<source, reader, buffer>>
    BY <1>0, <1>4, <1>5
  <2>4. (~Reading => buffer = <<>>) /\ (Reading => Ahead(threads[Current], buffer, reader.read))
    BY <1>2 DEF ThreadInv
  <2>5. (~Reading => buffer' = <<>>) /\ (Reading => Ahead(threads'[Current], buffer', reader'.read))
    BY <2>1, <2>3, <2>4
  <2>. QED BY <1>2, <2>2, <2>3, <2>5 DEF ThreadInv
<1>6. CASE Listened(r)
  <2>1. r = Current /\ Reading /\ r = Current' /\ Reading'
    BY <1>0, <1>6 DEF Listened, Current, Reading
  <2>2. /\ Ahead(threads[r], buffer, reader.read)
        /\ threads[r] \in [at : ThreadPlaces, read : Nat] /\ buffer \in Seq(Nat) /\ reader.read \in Nat
        /\ r \in DOMAIN threads
    BY <1>2, <2>1 DEF ThreadInv, IntakeTypeOK, Reader
  <2>3. Ahead(threads'[r], buffer', reader.read)
    <3>1. CASE Fetches(r)
      <4>1. threads'[r] = IF threads[r].read < NumUnits THEN [at |-> "sending", read |-> threads[r].read + 1] ELSE NoThread
        BY <2>2, <3>1 DEF Fetches, Set
      <4>2. threads[r].at = "fetching" /\ buffer' = buffer
        BY <3>1 DEF Fetches
      <4>3. CASE threads[r].read < NumUnits
        <5>1. Ahead([at |-> "sending", read |-> threads[r].read + 1], buffer, reader.read)
          BY <2>2, <4>2, <4>3, AheadFetched
        <5>. QED BY <4>1, <4>2, <4>3, <5>1
      <4>4. CASE ~(threads[r].read < NumUnits)
        <5>1. Ahead(NoThread, buffer, reader.read)
          BY <2>2, <4>2, <4>4, AheadFetched
        <5>. QED BY <4>1, <4>2, <4>4, <5>1
      <4>. QED BY <4>3, <4>4
    <3>2. CASE HandsOver(r)
      <4>1. threads'[r] = [threads[r] EXCEPT !.at = "fetching"]
        BY <2>2, <3>2 DEF HandsOver, Set
      <4>2. threads[r].at = "sending" /\ buffer' = Append(buffer, threads[r].read)
        BY <3>2 DEF HandsOver
      <4>. QED BY <2>2, <4>1, <4>2, AheadSent
    <3>3. CASE SendFails(r) \/ Broken(r)
      BY <1>6, <3>3 DEF SendFails, Broken
    <3>4. CASE Reports(r)
      <4>1. threads'[r] = NoThread
        BY <2>2, <3>4 DEF Reports, Set
      <4>2. threads[r].at = "failing" /\ buffer' = Append(buffer, Error)
        BY <3>4 DEF Reports
      <4>. QED BY <2>2, <4>1, <4>2, AheadSent
    <3>5. CASE FetchFails(r)
      <4>1. threads'[r] = [threads[r] EXCEPT !.at = "failing"]
        BY <2>2, <3>5 DEF FetchFails, Set
      <4>2. threads[r].at = "fetching" /\ buffer' = buffer
        BY <3>5 DEF FetchFails
      <4>3. Ahead([threads[r] EXCEPT !.at = "failing"], buffer, reader.read)
        BY <2>2, <4>2, AheadFetched
      <4>. QED BY <4>1, <4>2, <4>3
    <3>. QED BY <3>1, <3>2, <3>3, <3>4, <3>5 DEF ThreadStep
  <2>4. Ahead(threads'[Current'], buffer', reader'.read)
    BY <1>0, <2>1, <2>3
  <2>. QED BY <1>0, <1>2, <2>1, <2>4 DEF ThreadInv
<1>. QED BY <1>5, <1>6

\* Every step keeps the threads ahead of their readers.
LEMMA ThreadsKept == IntakeTypeOK /\ ThreadInv /\ [IntakeNext]_intakeVars => ThreadInv'
<1> SUFFICES ASSUME IntakeTypeOK, ThreadInv, [IntakeNext]_intakeVars PROVE ThreadInv'
  OBVIOUS
<1>0. reader \in Reader /\ reader.read \in Nat /\ 1 \in Retrials
  BY IntakeAssumption DEF IntakeTypeOK, Reader, IntakeAssumption, Retrials
<1>a. \A p : [reader EXCEPT !.at = p].at = p /\ [reader EXCEPT !.at = p].attempt = reader.attempt
             /\ [reader EXCEPT !.at = p].read = reader.read
  BY <1>0 DEF Reader
<1>1. CASE Begins
  <2>1. run' \in Runs /\ ~Reading
    BY <1>1, IntakeAssumption DEF Begins, Runs, IntakeTypeOK, IntakeAssumption, Reading
  <2>. QED BY <1>0, <1>1, <2>1, ThreadBegins DEF Begins
<1>2. CASE Retries
  <2>1. run' \in Runs /\ ~Reading /\ reader.attempt + 1 \in Retrials
    BY <1>2 DEF Retries, IntakeTypeOK, Reading
  <2>. QED BY <1>2, <2>1, ThreadBegins DEF Retries
<1>3. CASE Reads \/ Collects \/ Polls
  <2>1. reader' = [reader EXCEPT !.read = @ + 1] /\ Reading /\ source # "thread"
        /\ UNCHANGED <<source, run, buffer, threads>>
    BY <1>3 DEF Reads, Collects, Polls, Reading
  <2>2. Current' = Current /\ Reading'
    BY <1>0, <2>1 DEF Current, Reader, Reading
  <2>. QED BY <2>1, <2>2, ThreadKept
<1>4. CASE ReadFails \/ Ends
  <2>1. buffer' = <<>> /\ UNCHANGED <<source, threads>>
    BY <1>4 DEF ReadFails, Breaks, Ends, Dropped
  <2>2. ~Reading'
    BY <1>a, <1>4 DEF ReadFails, Breaks, Ends, Reading
  <2>. QED BY <2>1, <2>2, ThreadLeft
<1>5. CASE Receives
  <2>1. CASE Head(buffer) = Error
    <3>1. buffer' = <<>> /\ UNCHANGED <<source, threads>>
      BY <1>5, <2>1 DEF Receives, Dropped
    <3>2. ~Reading'
      BY <1>a, <1>5, <2>1 DEF Receives, Reading
    <3>. QED BY <3>1, <3>2, ThreadLeft
  <2>2. CASE Head(buffer) # Error
    <3>1. reader' = [reader EXCEPT !.read = @ + 1] /\ Reading /\ buffer # <<>>
          /\ buffer' = Tail(buffer) /\ UNCHANGED <<source, run, threads>>
      BY <1>5, <2>2 DEF Receives, Reading
    <3>2. Current' = Current /\ reader'.read = reader.read + 1 /\ Reading'
      BY <1>0, <3>1 DEF Current, Reader, Reading
    <3>3. source = "thread" /\ Ahead(threads[Current], buffer, reader.read)
      BY <3>1 DEF ThreadInv
    <3>4. threads[Current] \in [at : ThreadPlaces, read : Nat] /\ buffer \in Seq(Nat)
      BY <3>1, CurrentIsReading DEF IntakeTypeOK, Reading
    <3>5. Ahead(threads[Current], buffer', reader'.read)
      BY <1>0, <2>2, <3>1, <3>2, <3>3, <3>4, AheadTaken
    <3>. QED BY <3>1, <3>2, <3>3, <3>5 DEF ThreadInv
  <2>. QED BY <2>1, <2>2
<1>6. CASE EmitsUnit
  <2>1. reader' = [reader EXCEPT !.sent = @ + 1, !.at = AfterSend] /\ Reading
        /\ UNCHANGED <<source, run, buffer, threads>>
    BY <1>6 DEF EmitsUnit, Reading
  <2>2. Current' = Current /\ reader'.read = reader.read /\ Reading'
    BY <1>0, <2>1 DEF Current, Reader, Reading, AfterSend
  <2>. QED BY <2>1, <2>2, ThreadKept
<1>7. CASE CommitsOffset
  <2>1. reader' = [reader EXCEPT !.at = "reading"] /\ Reading /\ UNCHANGED <<source, run, buffer, threads>>
    BY <1>7 DEF CommitsOffset, Reading
  <2>2. Current' = Current /\ reader'.read = reader.read /\ Reading'
    BY <1>a, <2>1 DEF Current, Reading
  <2>. QED BY <2>1, <2>2, ThreadKept
<1>8. CASE Rests
  <2>1. ~Reading' /\ buffer' = <<>> /\ UNCHANGED <<source, threads>>
    BY <1>8 DEF Rests, Reading, Rest, ThreadInv
  <2>. QED BY <2>1, ThreadLeft
<1>9. CASE BrokerCommits \/ Routes \/ UNCHANGED intakeVars
  BY <1>9 DEF BrokerCommits, Routes, intakeVars, ThreadInv, Current, Reading
<1>11. CASE Crashes
  <2>1. \A r \in Readings : threads'[r].at = "off"
    BY <1>11 DEF Crashes, NoThread
  <2>2. ~Reading' /\ buffer' = <<>>
    BY <1>11 DEF Crashes, Reading, Rest
  <2>. QED BY <2>1, <2>2 DEF ThreadInv
<1>. QED BY <1>1, <1>2, <1>3, <1>4, <1>5, <1>6, <1>7, <1>8, <1>9, <1>11, ThreadMoves
         DEF IntakeNext, ReaderStep

\* A source reads no further than the result, sends no further than it has read,
\* and ends well at its end.
LEMMA ReadStep == IntakeTypeOK /\ ThreadInv /\ ReadInv /\ [IntakeNext]_intakeVars => ReadInv'
<1> SUFFICES ASSUME IntakeTypeOK, ThreadInv, ReadInv, [IntakeNext]_intakeVars, source # "kafka" PROVE ReadInv'
  BY EmittedStays DEF ReadInv
<1>0. reader \in Reader /\ reader.read \in Nat /\ reader.sent \in Nat /\ NumUnits \in Nat /\ 1 \in Retrials
  BY IntakeAssumption DEF IntakeTypeOK, Reader, IntakeAssumption, Retrials
<1>a. source' = source /\ reader.sent <= reader.read /\ reader.read <= NumUnits
      /\ (reader.at = "success" => reader.sent = NumUnits)
  BY EmittedStays DEF ReadInv
<1>b. \A p : [reader EXCEPT !.at = p].at = p /\ [reader EXCEPT !.at = p].sent = reader.sent
             /\ [reader EXCEPT !.at = p].read = reader.read
  BY <1>0 DEF Reader
<1>c. /\ [reader EXCEPT !.read = @ + 1].at = reader.at /\ [reader EXCEPT !.read = @ + 1].sent = reader.sent
      /\ [reader EXCEPT !.read = @ + 1].read = reader.read + 1
  BY <1>0 DEF Reader
<1>d. reader.read + 1 <= NumUnits => reader.sent <= reader.read + 1
  BY <1>0, <1>a
<1>1. ASSUME NEW a \in Retrials, reader' = Beginning(a) PROVE ReadInv'
  <2>1. reader'.at = "reading" /\ reader'.read = 0 /\ reader'.sent = 0
    BY <1>1, Beginnings
  <2>2. 0 <= NumUnits
    BY <1>0
  <2>. QED BY <2>1, <2>2 DEF ReadInv
<1>2. CASE Begins
  BY <1>0, <1>1, <1>2 DEF Begins
<1>3. CASE Retries
  <2>1. reader.attempt + 1 \in Retrials
    BY <1>3 DEF Retries, IntakeTypeOK
  <2>. QED BY <1>1, <1>3, <2>1 DEF Retries
<1>4. CASE Reads \/ Collects \/ Polls
  <2>1. reader' = [reader EXCEPT !.read = @ + 1] /\ reader.at = "reading" /\ reader.read < NumUnits
    BY <1>4 DEF Reads, Collects, Polls
  <2>2. reader.read + 1 <= NumUnits
    BY <1>0, <2>1
  <2>. QED BY <1>c, <1>d, <2>1, <2>2 DEF ReadInv
<1>5. CASE ReadFails
  <2>1. reader'.at # "success" /\ reader'.sent = reader.sent /\ reader'.read = reader.read
    BY <1>b, <1>5 DEF ReadFails, Breaks
  <2>. QED BY <1>a, <2>1 DEF ReadInv
<1>6. CASE Ends
  <2>1. reader'.sent = reader.sent /\ reader'.read = reader.read /\ reader.sent = reader.read /\ Finished
        /\ reader.at = "reading"
    BY <1>b, <1>6 DEF Ends
  <2>2. reader.read = NumUnits
    <3>1. CASE source # "thread"
      BY <2>1, <3>1 DEF Finished
    <3>2. CASE source = "thread"
      <4>1. Ahead(threads[Current], <<>>, reader.read) /\ threads[Current].at = "off"
        BY <2>1, <3>2 DEF Finished, ThreadInv, Reading
      <4>2. reader.read + 0 = NumUnits
        BY <4>1 DEF Ahead
      <4>. QED BY <1>0, <4>2
    <3>. QED BY <3>1, <3>2
  <2>. QED BY <1>a, <2>1, <2>2 DEF ReadInv
<1>7. CASE Receives
  <2>1. CASE Head(buffer) = Error
    <3>1. reader'.at # "success" /\ reader'.sent = reader.sent /\ reader'.read = reader.read
      BY <1>b, <1>7, <2>1 DEF Receives
    <3>. QED BY <1>a, <3>1 DEF ReadInv
  <2>2. CASE Head(buffer) # Error
    <3>1. reader' = [reader EXCEPT !.read = @ + 1] /\ reader.at = "reading" /\ buffer # <<>>
      BY <1>7, <2>2 DEF Receives
    <3>2. source = "thread" /\ Ahead(threads[Current], buffer, reader.read)
      BY <3>1 DEF ThreadInv, Reading
    <3>3. threads[Current] \in [at : ThreadPlaces, read : Nat] /\ buffer \in Seq(Nat)
      BY <3>1, CurrentIsReading DEF IntakeTypeOK
    <3>4. reader.read + 1 <= NumUnits
      BY <1>0, <2>2, <3>1, <3>2, <3>3, AheadTaken
    <3>. QED BY <1>c, <1>d, <3>1, <3>4 DEF ReadInv
  <2>. QED BY <2>1, <2>2
<1>8. CASE EmitsUnit
  <2>1. reader.sent < reader.read /\ reader'.at # "success" /\ reader'.sent = reader.sent + 1
        /\ reader'.read = reader.read
    BY <1>0, <1>8 DEF EmitsUnit, AfterSend, Reader
  <2>2. reader.sent + 1 <= reader.read
    BY <1>0, <2>1
  <2>. QED BY <1>a, <2>1, <2>2 DEF ReadInv
<1>9. CASE CommitsOffset
  <2>1. reader'.at # "success" /\ reader'.sent = reader.sent /\ reader'.read = reader.read
    BY <1>b, <1>9 DEF CommitsOffset
  <2>. QED BY <1>a, <2>1 DEF ReadInv
<1>10. CASE Rests \/ Crashes
  <2>1. reader' = Rest /\ 0 <= NumUnits
    BY <1>0, <1>10 DEF Rests, Crashes
  <2>. QED BY <2>1 DEF Rest, ReadInv
<1>11. CASE BrokerCommits \/ Routes \/ UNCHANGED intakeVars
  <2>1. reader' = reader
    BY <1>11 DEF BrokerCommits, Routes, intakeVars
  <2>. QED BY <1>a, <2>1 DEF ReadInv
<1>12. ASSUME NEW r \in Readings, ThreadStep(r) \/ FetchFails(r) PROVE ReadInv'
  <2>1. reader' = reader
    BY <1>12 DEF ThreadStep, Fetches, HandsOver, SendFails, Broken, Reports, FetchFails
  <2>. QED BY <1>a, <2>1 DEF ReadInv
<1>. QED BY <1>2, <1>3, <1>4, <1>5, <1>6, <1>7, <1>8, <1>9, <1>10, <1>11, <1>12 DEF IntakeNext, ReaderStep

\* What has been handed over are emissions.
LEMMA HandedTypes ==
  ASSUME IntakeTypeOK
  PROVE  /\ Handed \in Seq(Emissions) /\ Len(Handed) \in Nat /\ DOMAIN Handed = 1 .. Len(Handed)
         /\ \A k \in DOMAIN Handed : Handed[k] \in Emissions /\ Handed[k][1] \in Readings
<1>1. Handed \in Seq(Emissions)
  BY ConcatProperties DEF IntakeTypeOK, Handed
<1>2. Len(Handed) \in Nat /\ DOMAIN Handed = 1 .. Len(Handed)
  BY <1>1
<1>3. \A k \in DOMAIN Handed : Handed[k] \in Emissions
  BY <1>1, ElementOfSeq, <1>2
<1>4. \A e \in Emissions : e[1] \in Readings
  BY DEF Emissions
<1>. QED BY <1>1, <1>2, <1>3, <1>4

\* The executor moves an emission on; the order stays.
LEMMA RoutesKeeps == ASSUME IntakeTypeOK, Routes PROVE Handed' = Handed
<1>1. durable \in Seq(Emissions) /\ channel \in Seq(Emissions) /\ channel # <<>>
  BY DEF Routes, IntakeTypeOK
<1>2. Head(channel) \in Emissions /\ Tail(channel) \in Seq(Emissions) /\ channel = <<Head(channel)>> \o Tail(channel)
  BY <1>1
<1> DEFINE e == Head(channel)  rest == Tail(channel)
<1>3. e \in Emissions /\ rest \in Seq(Emissions) /\ channel = <<e>> \o rest
      /\ Handed' = Append(durable, e) \o rest
  BY <1>2 DEF Routes, Handed
<1> HIDE DEF e, rest
<1>4. Append(durable, e) = durable \o <<e>> /\ <<e>> \in Seq(Emissions)
  BY <1>1, <1>3, AppendIsConcat
<1>. QED BY <1>1, <1>3, <1>4, ConcatAssociative DEF Handed

\* An emission is the last thing handed over.
LEMMA EmitsAppends ==
  ASSUME IntakeTypeOK, EmitsUnit
  PROVE  /\ Handed' = Append(Handed, <<Current, reader.sent + 1>>)
         /\ <<Current, reader.sent + 1>> \in Emissions
         /\ reader.at = "reading" /\ reader'.at # "rest" /\ reader'.sent = reader.sent + 1
         /\ reader'.attempt = reader.attempt /\ run' = run /\ Current' = Current
<1>1. /\ reader.at = "reading" /\ reader'.at # "rest" /\ reader'.sent = reader.sent + 1
      /\ reader'.attempt = reader.attempt /\ run' = run
      /\ reader.sent \in Nat
  BY DEF EmitsUnit, AfterSend, IntakeTypeOK, Reader
<1> DEFINE e == <<Current, reader.sent + 1>>
<1>2. e \in Emissions
  BY <1>1, CurrentIsReading DEF Emissions
<1>3. channel' = Append(channel, e) /\ durable' = durable
  BY DEF EmitsUnit
<1>4. durable \in Seq(Emissions) /\ channel \in Seq(Emissions)
  BY DEF IntakeTypeOK
<1> HIDE DEF e
<1>5. Handed' = durable \o Append(channel, e)
  BY <1>3 DEF Handed
<1>6. Append(channel, e) = channel \o <<e>> /\ Append(durable \o channel, e) = (durable \o channel) \o <<e>>
      /\ <<e>> \in Seq(Emissions)
  BY <1>2, <1>4, AppendIsConcat, ConcatProperties
<1>7. Handed' = Append(Handed, e)
  BY <1>4, <1>5, <1>6, ConcatAssociative DEF Handed
<1>8. Current' = Current
  BY <1>1 DEF Current
<1>. QED BY <1>1, <1>2, <1>7, <1>8 DEF e

\* A crash leaves what is in the repository.
LEMMA CrashCuts ==
  ASSUME IntakeTypeOK, Crashes
  PROVE  \A k \in DOMAIN Handed' : k \in DOMAIN Handed /\ Handed'[k] = Handed[k]
<1>1. durable \in Seq(Emissions) /\ channel \in Seq(Emissions)
  BY DEF IntakeTypeOK
<1>2. Handed' = durable
  BY <1>1, ConcatEmptySeq DEF Crashes, Handed
<1>. QED BY <1>1, <1>2, ConcatProperties DEF Handed

\* The other steps hand nothing over.
LEMMA HandedStays ==
  ASSUME IntakeTypeOK, [IntakeNext]_intakeVars, ~EmitsUnit, ~Crashes
  PROVE  Handed' = Handed
<1>1. CASE Begins \/ Retries \/ Reads \/ Collects \/ Polls \/ Receives
  BY <1>1 DEF Begins, Retries, Reads, Collects, Polls, Receives, Handed
<1>2. CASE CommitsOffset \/ Ends \/ Rests \/ ReadFails \/ BrokerCommits
  BY <1>2 DEF CommitsOffset, Ends, Rests, ReadFails, Breaks, BrokerCommits, Handed
<1>3. ASSUME NEW r \in Readings, ThreadStep(r) \/ FetchFails(r) PROVE Handed' = Handed
  BY <1>3 DEF ThreadStep, Fetches, HandsOver, SendFails, Broken, Reports, FetchFails, Handed
<1>4. CASE UNCHANGED intakeVars
  BY <1>4 DEF intakeVars, Handed
<1>. QED BY <1>1, <1>2, <1>3, <1>4, RoutesKeeps DEF IntakeNext, ReaderStep

\* The reading of a step: it stays, ends or begins.
LEMMA ReadingMoves ==
  ASSUME IntakeTypeOK, [IntakeNext]_intakeVars, ~EmitsUnit, ~Crashes
  PROVE  \/ reader'.at = "rest" /\ run' = run
         \/ /\ reader.at # "rest" /\ reader'.attempt = reader.attempt /\ run' = run
            /\ reader'.sent = reader.sent
         \/ /\ Begins /\ run' = run + 1 /\ reader' = Beginning(1)
         \/ /\ Retries /\ run' = run /\ reader.at = "backoff" /\ reader' = Beginning(reader.attempt + 1)
<1>0. reader \in Reader
  BY DEF IntakeTypeOK
<1>1. CASE Begins \/ Retries
  BY <1>1 DEF Begins, Retries
<1>2. CASE Reads \/ Collects \/ Polls \/ Receives
  BY <1>0, <1>2 DEF Reads, Collects, Polls, Receives, Reader
<1>3. CASE CommitsOffset \/ Ends \/ ReadFails
  BY <1>0, <1>3 DEF CommitsOffset, Ends, ReadFails, Breaks, Reading, Reader
<1>4. CASE Rests
  BY <1>4 DEF Rests, Rest
<1>5. CASE BrokerCommits \/ Routes \/ UNCHANGED intakeVars
  BY <1>5 DEF BrokerCommits, Routes, intakeVars
<1>6. ASSUME NEW r \in Readings, ThreadStep(r) \/ FetchFails(r) PROVE UNCHANGED <<reader, run>>
  BY <1>6 DEF ThreadStep, Fetches, HandsOver, SendFails, Broken, Reports, FetchFails
<1>. QED BY <1>1, <1>2, <1>3, <1>4, <1>5, <1>6 DEF IntakeNext, ReaderStep

\* Every step leaves the readings to come without emissions.
LEMMA FreshStep == IntakeTypeOK /\ FreshInv /\ [IntakeNext]_intakeVars => FreshInv'
<1> SUFFICES ASSUME IntakeTypeOK, FreshInv, [IntakeNext]_intakeVars PROVE FreshInv'
  OBVIOUS
<1>0. run \in Nat /\ reader.attempt \in Nat
  BY DEF IntakeTypeOK, Reader, Retrials
<1>a. \A k \in DOMAIN Handed : Handed[k][1][1] \in Nat /\ Handed[k][1][2] \in Nat
  BY HandedTypes DEF Readings, Runs, Retrials
<1>1. CASE EmitsUnit
  <2>1. \A k \in DOMAIN Handed' :
          (k \in DOMAIN Handed /\ Handed'[k] = Handed[k]) \/ Handed'[k] = <<Current, reader.sent + 1>>
    BY <1>1, EmitsAppends, HandedTypes
  <2>2. reader.at # "rest" /\ reader'.attempt = reader.attempt /\ run' = run
    BY <1>1, EmitsAppends
  <2>. QED BY <1>0, <2>1, <2>2 DEF FreshInv, Current
<1>2. CASE Crashes
  <2>1. \A k \in DOMAIN Handed' : k \in DOMAIN Handed /\ Handed'[k] = Handed[k]
    BY <1>2, CrashCuts
  <2>2. reader'.at = "rest" /\ run' = run
    BY <1>2 DEF Crashes, Rest
  <2>. QED BY <2>1, <2>2 DEF FreshInv
<1>3. CASE ~EmitsUnit /\ ~Crashes
  <2>1. Handed' = Handed
    BY <1>3, HandedStays
  <2>2. CASE reader'.at = "rest" /\ run' = run
    BY <2>1, <2>2 DEF FreshInv
  <2>3. CASE reader.at # "rest" /\ reader'.attempt = reader.attempt /\ run' = run
    BY <2>1, <2>3 DEF FreshInv
  <2>4. CASE Begins /\ run' = run + 1
    <3>1. \A k \in DOMAIN Handed : Handed[k][1][1] <= run + 1 /\ Handed[k][1][1] # run + 1
      BY <1>0, <1>a DEF FreshInv
    <3>. QED BY <2>1, <2>4, <3>1 DEF FreshInv
  <2>5. CASE Retries /\ run' = run /\ reader.at = "backoff" /\ reader' = Beginning(reader.attempt + 1)
    <3>1. reader'.attempt = reader.attempt + 1
      BY <2>5 DEF Beginning
    <3>2. \A k \in DOMAIN Handed :
            Handed[k][1][1] <= run /\ (Handed[k][1][1] = run => Handed[k][1][2] <= reader.attempt + 1)
      BY <1>0, <1>a, <2>5 DEF FreshInv
    <3>. QED BY <2>1, <2>5, <3>1, <3>2 DEF FreshInv
  <2>. QED BY <1>3, <2>2, <2>3, <2>4, <2>5, ReadingMoves
<1>. QED BY <1>1, <1>2, <1>3

\* An emission more.
LEMMA SequenceGrows ==
  ASSUME NEW seq \in Seq(Emissions), NEW reading \in Readings, NEW n \in Nat, InSequence(seq, reading, n)
  PROVE  InSequence(Append(seq, <<reading, n + 1>>), reading, n + 1)
<1> DEFINE e == <<reading, n + 1>>  later == Append(seq, e)
<1>0. e \in Emissions
  BY DEF Emissions
<1>1. e[1] = reading /\ e[2] = n + 1
  OBVIOUS
<1> HIDE DEF e
<1>2. /\ Len(seq) \in Nat /\ DOMAIN seq = 1 .. Len(seq) /\ DOMAIN later = 1 .. Len(seq) + 1
      /\ later[Len(seq) + 1] = e /\ \A k \in DOMAIN seq : later[k] = seq[k]
  BY <1>0
<1> HIDE DEF later
<1>3. \A k \in DOMAIN later : k \in DOMAIN seq \/ k = Len(seq) + 1
  BY <1>2
<1>4. \A k \in DOMAIN seq : seq[k][1] = reading => seq[k][2] \in 1 .. n
  BY DEF InSequence
<1>5. \A k \in DOMAIN later : later[k][1] = reading => later[k][2] \in 1 .. n + 1
  BY <1>1, <1>2, <1>3, <1>4
<1>6. \A m \in 1 .. n + 1 : \E k \in DOMAIN later : later[k] = <<reading, m>>
  <2> SUFFICES ASSUME NEW m \in 1 .. n + 1 PROVE \E k \in DOMAIN later : later[k] = <<reading, m>>
    OBVIOUS
  <2>1. CASE m \in 1 .. n
    <3>1. PICK k \in DOMAIN seq : seq[k] = <<reading, m>>
      BY <2>1 DEF InSequence
    <3>. QED BY <1>2, <3>1
  <2>2. CASE m = n + 1
    BY <1>2, <2>2 DEF e
  <2>. QED BY <2>1, <2>2
<1>7. \A j, k \in DOMAIN later :
        j < k /\ later[j][1] = reading /\ later[k][1] = reading => later[j][2] < later[k][2]
  <2> SUFFICES ASSUME NEW j \in DOMAIN later, NEW k \in DOMAIN later,
                      j < k, later[j][1] = reading, later[k][1] = reading
               PROVE  later[j][2] < later[k][2]
    OBVIOUS
  <2>1. j \in DOMAIN seq
    BY <1>2
  <2>2. CASE k \in DOMAIN seq
    BY <1>2, <2>1, <2>2 DEF InSequence
  <2>3. CASE k = Len(seq) + 1
    <3>1. later[j][2] \in 1 .. n /\ later[k][2] = n + 1
      BY <1>1, <1>2, <1>4, <2>1, <2>3
    <3>. QED BY <3>1
  <2>. QED BY <1>3, <2>2, <2>3
<1>8. InSequence(later, reading, n + 1)
  BY <1>5, <1>6, <1>7 DEF InSequence
<1>. QED BY <1>8 DEF later, e

\* Every step keeps the emissions of the reading in sequence.
LEMMA HandedStep == IntakeTypeOK /\ FreshInv /\ HandedInv /\ [IntakeNext]_intakeVars => HandedInv'
<1> SUFFICES ASSUME IntakeTypeOK, FreshInv, HandedInv, [IntakeNext]_intakeVars, source # "kafka" PROVE HandedInv'
  BY EmittedStays DEF HandedInv
<1>0. run \in Nat /\ reader.attempt \in Nat /\ reader.sent \in Nat
  BY DEF IntakeTypeOK, Reader, Retrials
<1>a. \A k \in DOMAIN Handed : Handed[k][1] \in Readings /\ Handed[k][1][1] \in Nat /\ Handed[k][1][2] \in Nat
  BY HandedTypes DEF Readings, Runs, Retrials
<1>b. ASSUME NEW r, \A k \in DOMAIN Handed : Handed[k][1] # r PROVE InSequence(Handed, r, 0)
  BY <1>b DEF InSequence
<1>1. CASE EmitsUnit
  <2>1. Current \in Readings /\ InSequence(Handed, Current, reader.sent)
    BY <1>1, EmitsAppends, CurrentIsReading DEF HandedInv
  <2>2. InSequence(Append(Handed, <<Current, reader.sent + 1>>), Current, reader.sent + 1)
    BY <1>0, <2>1, HandedTypes, SequenceGrows
  <2>3. Handed' = Append(Handed, <<Current, reader.sent + 1>>) /\ Current' = Current
        /\ reader'.sent = reader.sent + 1
    BY <1>1, EmitsAppends
  <2>4. InSequence(Handed', Current', reader'.sent)
    BY <2>2, <2>3
  <2>. QED BY <2>4 DEF HandedInv
<1>2. CASE Crashes
  BY <1>2 DEF Crashes, Rest, HandedInv
<1>3. CASE ~EmitsUnit /\ ~Crashes
  <2>1. Handed' = Handed
    BY <1>3, HandedStays
  <2>2. CASE reader'.at = "rest"
    BY <2>2 DEF HandedInv
  <2>3. CASE reader.at # "rest" /\ reader'.attempt = reader.attempt /\ run' = run /\ reader'.sent = reader.sent
    <3>1. Current' = Current
      BY <2>3 DEF Current
    <3>2. InSequence(Handed', Current', reader'.sent)
      BY <2>1, <2>3, <3>1 DEF HandedInv
    <3>. QED BY <3>2 DEF HandedInv
  <2>4. CASE Begins /\ run' = run + 1 /\ reader' = Beginning(1)
    <3>1. Current' = <<run + 1, 1>> /\ reader'.sent = 0
      BY <2>4 DEF Current, Beginning
    <3>2. \A k \in DOMAIN Handed : Handed[k][1][1] # run + 1
      BY <1>0, <1>a DEF FreshInv
    <3>3. InSequence(Handed, <<run + 1, 1>>, 0)
      BY <1>b, <3>2
    <3>4. InSequence(Handed', Current', reader'.sent)
      BY <2>1, <3>1, <3>3
    <3>. QED BY <3>4 DEF HandedInv
  <2>5. CASE Retries /\ run' = run /\ reader.at = "backoff" /\ reader' = Beginning(reader.attempt + 1)
    <3>1. Current' = <<run, reader.attempt + 1>> /\ reader'.sent = 0
      BY <2>5 DEF Current, Beginning
    <3>2. \A k \in DOMAIN Handed : Handed[k][1] # <<run, reader.attempt + 1>>
      <4> SUFFICES ASSUME NEW k \in DOMAIN Handed, Handed[k][1] = <<run, reader.attempt + 1>> PROVE FALSE
        OBVIOUS
      <4>1. Handed[k][1][1] = run /\ Handed[k][1][2] = reader.attempt + 1
        OBVIOUS
      <4>2. Handed[k][1][2] <= reader.attempt
        BY <2>5, <4>1 DEF FreshInv
      <4>. QED BY <1>0, <4>1, <4>2
    <3>3. InSequence(Handed, <<run, reader.attempt + 1>>, 0)
      BY <1>b, <3>2
    <3>4. InSequence(Handed', Current', reader'.sent)
      BY <2>1, <3>1, <3>3
    <3>. QED BY <3>4 DEF HandedInv
  <2>. QED BY <1>3, <2>2, <2>3, <2>4, <2>5, ReadingMoves
<1>. QED BY <1>1, <1>2, <1>3

\* Initially there is nothing.
LEMMA HandedInit == IntakeInit => ThreadInv /\ ReadInv /\ FreshInv /\ HandedInv
<1> SUFFICES ASSUME IntakeInit PROVE ThreadInv /\ ReadInv /\ FreshInv /\ HandedInv
  OBVIOUS
<1>1. reader.at = "rest" /\ reader.read = 0 /\ reader.sent = 0 /\ buffer = <<>>
  BY DEF IntakeInit, Rest
<1>2. \A r \in Readings : threads[r].at = "off"
  BY DEF IntakeInit, NoThread
<1>3. durable \o channel = <<>>
  BY DEF IntakeInit
<1>4. Handed = <<>>
  BY <1>3 DEF Handed
<1>5. 0 <= NumUnits
  BY IntakeAssumption DEF IntakeAssumption
<1>. QED BY <1>1, <1>2, <1>4, <1>5 DEF ThreadInv, ReadInv, FreshInv, HandedInv, Reading

\* A source that ends well has handed over every batch of its last reading, once
\* and in order, however many readings before failed and whatever its thread had
\* read ahead of an error.
THEOREM SourcesAreWhole == IntakeSpec => []CompleteOnSuccess
<1>1. ReadInv /\ HandedInv => CompleteOnSuccess
  <2> SUFFICES ASSUME ReadInv, HandedInv, reader.at = "success", source # "kafka" PROVE CompleteOnSuccess
    BY DEF CompleteOnSuccess
  <2>1. InSequence(Handed, Current, NumUnits)
    BY DEF ReadInv, HandedInv
  <2>. QED BY <2>1 DEF CompleteOnSuccess, InSequence, Units
<1>. QED BY <1>1, HandedInit, ThreadsKept, ReadStep, FreshStep, HandedStep, IntakeTypes, PTL DEF IntakeSpec

\* What a source is done with, a flow was given: both halves.
THEOREM NothingIsSkipped == IntakeSpec => []NothingSkipped
BY CommitsFollowEmissions, SourcesAreWhole, PTL DEF NothingSkipped

=============================================================================
