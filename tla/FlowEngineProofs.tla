-------------------------- MODULE FlowEngineProofs --------------------------
(***************************************************************************)
(* Proofs about FlowEngine, for any flow that validate accepts: any        *)
(* processors, connections and limits, and any bounds on commands, runs    *)
(* and rows.                                                               *)
(***************************************************************************)
EXTENDS FlowEngine, FiniteSetTheorems, SequenceTheorems, TLAPS

\* What the proofs use of the constants.
LEMMA ConstantTypes ==
  /\ Procs \cap Rows = {} /\ Sources \subseteq Procs
  /\ Processors[1] \in Procs
  /\ Seeds \in Seq(Sources)
  /\ MaxRows \in Nat /\ MaxCommands \in Nat /\ MaximumAttempts \in Nat
  /\ QueueCapacity \in Nat \ {0} /\ MaxConcurrency \in Nat \ {0} /\ Units \in Nat \ {0}
  /\ \A p \in Procs, rel \in Relationships : Outgoing(p, rel) \in Seq(Edges)
  /\ \A c \in Edges : c.from \in Procs /\ c.to \in Procs /\ c.capacity \in Nat \ {0}
  /\ "failure" \in Relationships
BY EngineAssumption, SelectionAssumption
   DEF EngineAssumption, SelectionAssumption, Validated, Sources, Relationships

\* A counter per processor stays one.
LEMMA Counters ==
  ASSUME NEW f \in [Procs -> Int], NEW p
  PROVE  /\ [f EXCEPT ![p] = @ + 1] \in [Procs -> Int]
         /\ [f EXCEPT ![p] = @ - 1] \in [Procs -> Int]
<1>1. \A q \in Procs : f[q] + 1 \in Int /\ f[q] - 1 \in Int
  OBVIOUS
<1>2. /\ [f EXCEPT ![p] = @ + 1] = [q \in Procs |-> IF q = p THEN f[q] + 1 ELSE f[q]]
      /\ [f EXCEPT ![p] = @ - 1] = [q \in Procs |-> IF q = p THEN f[q] - 1 ELSE f[q]]
  OBVIOUS
<1>. QED BY <1>1, <1>2

\* The next item of a queue, and the queue without it.
LEMMA Heads ==
  ASSUME NEW S, NEW s \in Seq(S), s # <<>> \/ 0 < Len(s)
  PROVE  /\ Len(s) \in Nat \ {0} /\ Head(s) \in S /\ Head(s) = s[1]
         /\ Tail(s) \in Seq(S) /\ Len(Tail(s)) = Len(s) - 1
         /\ \A n \in 1 .. Len(Tail(s)) : Tail(s)[n] = s[n + 1]
OBVIOUS

\* A work item set free of its connection, or with its attempts forgotten.
LEMMA ItemTypes ==
  ASSUME NEW i \in WorkItems
  PROVE  /\ i.processor \in Procs /\ i.key \in PartitionKeys \cup {NoKey}
         /\ i.attempt \in 0 .. MaximumAttempts
         /\ [i EXCEPT !.connection = NoConnection] \in WorkItems
         /\ [i EXCEPT !.attempt = 0] \in WorkItems
<1> DEFINE of == {NoConnection} \cup {ConnectionId(c) : c \in Edges}
<1>1. /\ i.processor \in Procs /\ i.key \in PartitionKeys \cup {NoKey}
      /\ i.attempt \in 0 .. MaximumAttempts /\ i.connection \in of
  BY DEF WorkItems
<1>2. i = [processor |-> i.processor, connection |-> i.connection, key |-> i.key,
           attempt |-> i.attempt]
  BY DEF WorkItems
<1>3. NoConnection \in of /\ 0 \in 0 .. MaximumAttempts
  BY ConstantTypes
<1> HIDE DEF of
<1>4. [i EXCEPT !.connection = NoConnection] \in
        [processor : Procs, connection : of, key : PartitionKeys \cup {NoKey},
         attempt : 0 .. MaximumAttempts]
  BY <1>1, <1>2, <1>3
<1>5. [i EXCEPT !.attempt = 0] \in
        [processor : Procs, connection : of, key : PartitionKeys \cup {NoKey},
         attempt : 0 .. MaximumAttempts]
  BY <1>1, <1>2, <1>3
<1>. QED BY <1>1, <1>4, <1>5 DEF WorkItems, of

----------------------------------------------------------------------------
(* What changes what. *)

routerVars == <<deferred, routing, branches, continueAt, channel>>
activeVars == <<activePerProcessor, activePartitions>>

\* The steps that touch what the router has.
LEMMA RouterSteps ==
  ASSUME [Next]_vars
  PROVE  \/ UNCHANGED <<routerVars, pc>>
         \/ UNCHANGED routerVars /\ pc' # "publish" /\ pc # "publish"
         \/ UNCHANGED routerVars /\ pc' = "failed"
         \/ Publish \/ Published \/ RouteDeferred \/ SettleReceive \/ SelectReceive
         \/ \E w \in Works : TaskSend(w)
         \/ Restart
<1> USE DEF routerVars, loopVars, workVars, taskVars, controlVars, vars, Goto, Fails, Ends
<1>1. CASE LoopStep
  BY <1>1 DEF LoopStep, Join, Recover, LoopStop, LoopWait, Subscribe, WakeUp, NothingDeferred,
     ScheduleOff, ScheduleOn, ScanPostpone, ScanKeyMissing, ScanStart, ScanEnd, SettleEnd,
     SettleStalled, SettleOn, SelectJoin, SelectFatal, SelectStall, SelectTick, SelectElse, Scanning
<1>2. ASSUME NEW w \in Works, TaskStep(w) PROVE UNCHANGED <<routerVars, pc>> \/ TaskSend(w)
  BY <1>2 DEF TaskStep, TaskBegin, TaskEmit, TaskReserve, TaskReturn, TaskError, TaskTimeout,
     TaskFatal, TaskGiveUp, TaskFrame
<1>3. CASE Operator
  BY <1>3 DEF Operator, Pause, Resume, Drain, Command, RequeueDeadLetter, Abort
<1>. QED BY <1>1, <1>2, <1>3 DEF Next

\* The steps that touch the counters of the scheduler, and what each leaves.
LEMMA ActiveSteps ==
  ASSUME [Next]_vars
  PROVE  \/ UNCHANGED activeVars
         \/ ScanStart
         \/ \E w \in Works : SelectJoin(w)
         \/ Restart
<1> USE DEF activeVars, loopVars, vars, Fails, Ends
<1>1. CASE LoopStep
  BY <1>1 DEF LoopStep, Join, Recover, Publish, Published, RouteDeferred, SettleReceive,
     SelectReceive, LoopStop, LoopWait, Subscribe, WakeUp, NothingDeferred,
     ScheduleOff, ScheduleOn, ScanPostpone, ScanKeyMissing, ScanEnd, SettleEnd,
     SettleStalled, SettleOn, SelectFatal, SelectStall, SelectTick, SelectElse
<1>2. ASSUME NEW w \in Works, TaskStep(w) PROVE UNCHANGED activeVars
  BY <1>2 DEF TaskStep, TaskBegin, TaskEmit, TaskReserve, TaskSend, TaskReturn, TaskError,
     TaskTimeout, TaskFatal, TaskGiveUp, TaskFrame
<1>3. CASE Operator
  BY <1>3 DEF Operator, Pause, Resume, Drain, Command, RequeueDeadLetter, Abort
<1>. QED BY <1>1, <1>2, <1>3 DEF Next

\* The steps that touch the items: those of the loop, and those of the tasks.
LEMMA WorkSteps ==
  ASSUME [Next]_vars
  PROVE  \/ UNCHANGED <<pending, workVars, taskVars>>
         \/ \E old \in SUBSET Rows : Recover(old)
         \/ Publish \/ ScanPostpone \/ ScanStart
         \/ \E w \in Works : SelectJoin(w) \/ TaskStep(w)
         \/ \E w \in Rows : RequeueDeadLetter(w)
         \/ Restart
<1> USE DEF loopVars, workVars, taskVars, vars, Fails, Ends
<1>1. CASE LoopStep
  BY <1>1 DEF LoopStep, Join, Published, RouteDeferred, SettleReceive,
     SelectReceive, LoopStop, LoopWait, Subscribe, WakeUp, NothingDeferred,
     ScheduleOff, ScheduleOn, ScanKeyMissing, ScanEnd, SettleEnd,
     SettleStalled, SettleOn, SelectFatal, SelectStall, SelectTick, SelectElse
<1>2. CASE Operator
  BY <1>2 DEF Operator, Pause, Resume, Drain, Command, Abort
<1>. QED BY <1>1, <1>2 DEF Next

----------------------------------------------------------------------------
(* Types. *)

\* What the route of an emission starts from and leads to.
LEMMA RouteTypes ==
  ASSUME TypeOK, NEW emission \in Emissions, NEW step \in {"top", "schedule"},
         Route(emission, step)
  PROVE  /\ deferred' \in Seq(Emissions) /\ Len(deferred') <= 1
         /\ routing' \in Seq(Emissions) /\ Len(routing') <= 1
         /\ branches' \in Seq(Edges)
         /\ memoryStall' \in BOOLEAN
         /\ continueAt' \in {"top", "schedule"}
         /\ pc' \in LoopSteps
         /\ pc' = "publish" => routing' # <<>>
<1> DEFINE next == Outgoing(Proc(emission.source), emission.relationship)
<1> USE DEF TypeOK, RouterTypes, SchedulerTypes, Goto, LoopSteps
<1>1. next \in Seq(Edges)
  <2>1. emission.source \in Works /\ emission.relationship \in Relationships
    BY DEF Emissions
  <2>2. item[emission.source] \in WorkItems
    BY <2>1 DEF WorkTypes
  <2>. QED BY <2>1, <2>2, ItemTypes, ConstantTypes DEF Proc
<1>2. CASE Hold(emission, step) /\ memoryStall' \in BOOLEAN
  BY <1>2 DEF Hold
<1>3. CASE /\ deferred' = <<>> /\ routing' = <<emission>> /\ branches' = next
           /\ continueAt' = step /\ Goto("publish") /\ UNCHANGED memoryStall
  BY <1>1, <1>3
<1>. QED BY <1>2, <1>3 DEF Route

\* What the router has keeps its type.
LEMMA RouterTyped == TypeOK /\ [Next]_vars => RouterTypes'
<1> SUFFICES ASSUME TypeOK, [Next]_vars PROVE RouterTypes'
  OBVIOUS
<1> USE ConstantTypes DEF RouterTypes, Goto
<1>1. CASE UNCHANGED <<routerVars, pc>> \/ (UNCHANGED routerVars /\ pc' # "publish")
  BY <1>1 DEF TypeOK, routerVars
<1>2. CASE Publish
  BY <1>2 DEF TypeOK, Publish
<1>3. CASE Published
  BY <1>3 DEF TypeOK, Published
<1>4. CASE RouteDeferred
  <2>1. deferred[1] \in Emissions /\ "schedule" \in {"top", "schedule"}
    BY <1>4 DEF TypeOK, RouteDeferred
  <2>. QED BY <1>4, <2>1, RouteTypes DEF TypeOK, RouteDeferred
<1>5. CASE SettleReceive
  BY <1>5 DEF TypeOK, SettleReceive
<1>6. CASE SelectReceive
  <2>1. /\ Head(channel) \in Emissions /\ "top" \in {"top", "schedule"}
        /\ channel' \in Seq(Emissions) /\ Len(channel') <= QueueCapacity
    BY <1>6 DEF TypeOK, SelectReceive
  <2>. QED BY <1>6, <2>1, RouteTypes DEF SelectReceive
<1>7. ASSUME NEW w \in Works, TaskSend(w) PROVE RouterTypes'
  <2>1. out[w] \in Seq(Emissions) /\ Len(out[w]) <= 1
    BY DEF TypeOK, WorkTypes
  <2>2. /\ channel' = channel \o out[w] /\ Len(channel) < QueueCapacity
        /\ UNCHANGED <<deferred, routing, branches, continueAt, pc>>
    BY <1>7 DEF TaskSend, TaskFrame, loopVars
  <2>3. channel' \in Seq(Emissions) /\ Len(channel') <= QueueCapacity
    BY <2>1, <2>2 DEF TypeOK
  <2>. QED BY <2>2, <2>3 DEF TypeOK
<1>8. CASE Restart
  BY <1>8 DEF Restart
<1>. QED BY <1>1, <1>2, <1>3, <1>4, <1>5, <1>6, <1>7, <1>8, RouterSteps

\* The lifecycle and the place of the loop keep their types.
LEMMA ControlTyped == TypeOK /\ [Next]_vars => ControlTypes'
<1> SUFFICES ASSUME TypeOK, [Next]_vars PROVE ControlTypes'
  OBVIOUS
<1> USE ConstantTypes DEF ControlTypes, Lifecycles, LoopSteps, Goto, SetLifecycle, Fails, Ends, controlVars
<1> USE DEF TypeOK
<1>1. CASE LoopStep
  <2>1. CASE Published
    BY <2>1 DEF Published, RouterTypes
  <2>2. CASE RouteDeferred
    <3>1. deferred[1] \in Emissions /\ "schedule" \in {"top", "schedule"}
      BY <2>2 DEF RouterTypes, RouteDeferred
    <3>. QED BY <2>2, <3>1, RouteTypes DEF RouteDeferred
  <2>3. CASE SelectReceive
    <3>1. Head(channel) \in Emissions /\ "top" \in {"top", "schedule"}
      BY <2>3 DEF RouterTypes, SelectReceive
    <3>. QED BY <2>3, <3>1, RouteTypes DEF SelectReceive
  <2>. QED
    BY <1>1, <2>1, <2>2, <2>3, ZenonT(60) DEF LoopStep, Join, Recover, Publish, LoopStop, LoopWait, Subscribe, WakeUp,
       NothingDeferred, ScheduleOff, ScheduleOn, ScanPostpone, ScanKeyMissing, ScanStart, ScanEnd,
       SettleEnd, SettleReceive, SettleStalled, SettleOn, SelectJoin, SelectFatal, SelectStall,
       SelectTick, SelectElse, Scanning
<1>2. ASSUME NEW w \in Works, TaskStep(w) PROVE ControlTypes'
  BY <1>2 DEF TaskStep, TaskBegin, TaskEmit, TaskReserve, TaskSend, TaskReturn, TaskError, TaskTimeout,
     TaskFatal, TaskGiveUp, TaskFrame
<1>3. CASE Operator
  <2>1. ASSUME NEW name, NEW from, NEW to \in {"PAUSED", "RUNNING", "DRAINING"}, Command(name, from, to)
        PROVE ControlTypes'
    BY <2>1 DEF Command
  <2>2. CASE Restart
    BY <2>2 DEF Restart
  <2>. QED
    BY <1>3, <2>1, <2>2, ZenonT(60) DEF Operator, Pause, Resume, Drain, RequeueDeadLetter, Abort
<1>4. CASE UNCHANGED vars
  BY <1>4 DEF vars
<1>. QED BY <1>1, <1>2, <1>3, <1>4 DEF Next

\* The locals of the scheduler keep their types.
LEMMA SchedulerTyped == TypeOK /\ [Next]_vars => SchedulerTypes'
<1> SUFFICES ASSUME TypeOK, [Next]_vars PROVE SchedulerTypes'
  OBVIOUS
<1>1. activePerProcessor' \in [Procs -> Int] /\ activePartitions' \in [Procs -> SUBSET (PartitionKeys \cup {NoKey})]
  <2> USE DEF TypeOK, SchedulerTypes
  <2>1. CASE ScanStart
    <3>1. Head(pending) \in Works
      BY <2>1 DEF ScanStart, Scanning, WorkTypes
    <3>2. item[Head(pending)].key \in PartitionKeys \cup {NoKey}
      BY <3>1, ItemTypes DEF WorkTypes
    <3> DEFINE p == Proc(Head(pending))
               key == item[Head(pending)].key
    <3>3. /\ activePerProcessor' = [activePerProcessor EXCEPT ![p] = @ + 1]
          /\ activePartitions' = [activePartitions EXCEPT ![p] = IF Partitioned(p) THEN @ \cup {key} ELSE @]
      BY <2>1 DEF ScanStart
    <3> HIDE DEF p, key
    <3>4. key \in PartitionKeys \cup {NoKey}
      BY <3>2 DEF key
    <3>5. activePerProcessor' \in [Procs -> Int]
      BY <3>3, Counters
    <3>6. activePartitions' \in [Procs -> SUBSET (PartitionKeys \cup {NoKey})]
      BY <3>3, <3>4
    <3>. QED BY <3>5, <3>6
  <2>2. ASSUME NEW w \in Works, SelectJoin(w)
        PROVE /\ activePerProcessor' \in [Procs -> Int]
              /\ activePartitions' \in [Procs -> SUBSET (PartitionKeys \cup {NoKey})]
    <3> DEFINE p == Proc(w)
               key == item[w].key
    <3>1. /\ activePerProcessor' = [activePerProcessor EXCEPT ![p] = @ - 1]
          /\ activePartitions' = [activePartitions EXCEPT ![p] = @ \ {key}]
      BY <2>2 DEF SelectJoin, Release
    <3> HIDE DEF p, key
    <3>2. activePerProcessor' \in [Procs -> Int]
      BY <3>1, Counters
    <3>3. activePartitions' \in [Procs -> SUBSET (PartitionKeys \cup {NoKey})]
      BY <3>1
    <3>. QED BY <3>2, <3>3
  <2>3. CASE Restart
    BY <2>3 DEF Restart
  <2>. QED BY <2>1, <2>2, <2>3, ActiveSteps DEF activeVars
<1>2. memoryStall' \in BOOLEAN
  <2> USE DEF TypeOK, SchedulerTypes
  <2>1. CASE RouteDeferred
    <3>1. deferred[1] \in Emissions /\ "schedule" \in {"top", "schedule"}
      BY <2>1 DEF RouterTypes, RouteDeferred
    <3>. QED BY <2>1, <3>1, RouteTypes DEF RouteDeferred
  <2>2. CASE SelectReceive
    <3>1. Head(channel) \in Emissions /\ "top" \in {"top", "schedule"}
      BY <2>2 DEF RouterTypes, SelectReceive
    <3>. QED BY <2>2, <3>1, RouteTypes DEF SelectReceive
  <2>3. memoryStall' = memoryStall \/ memoryStall' = FALSE \/ RouteDeferred \/ SelectReceive
    <3> USE DEF loopVars, vars
    <3>1. CASE LoopStep
      BY <3>1 DEF LoopStep, Join, Recover, Publish, Published, LoopStop, LoopWait, Subscribe, WakeUp,
         NothingDeferred, ScheduleOff, ScheduleOn, ScanPostpone, ScanKeyMissing, ScanStart, ScanEnd,
         SettleEnd, SettleReceive, SettleStalled, SettleOn, SelectJoin, SelectFatal, SelectStall,
         SelectTick, SelectElse
    <3>2. ASSUME NEW w \in Works, TaskStep(w) PROVE memoryStall' = memoryStall
      BY <3>2 DEF TaskStep, TaskBegin, TaskEmit, TaskReserve, TaskSend, TaskReturn, TaskError, TaskTimeout,
         TaskFatal, TaskGiveUp, TaskFrame
    <3>3. CASE Operator
      BY <3>3 DEF Operator, Pause, Resume, Drain, Command, RequeueDeadLetter, Abort, Restart
    <3>. QED BY <3>1, <3>2, <3>3 DEF Next
  <2>. QED BY <2>1, <2>2, <2>3
<1>3. routedBacklog' \in Nat /\ inspected' \in Nat
  <2>1. Cardinality(Queued) + Len(channel) \in Nat
    <3>1. IsFiniteSet(DOMAIN pending)
      BY FS_Interval DEF TypeOK, WorkTypes
    <3>. QED BY <3>1, FS_Subset, FS_CardinalityType DEF Queued, TypeOK, RouterTypes
  <2>2. \/ UNCHANGED <<routedBacklog, inspected>>
        \/ routedBacklog' = Cardinality(Queued) + Len(channel) /\ inspected' = 0
        \/ routedBacklog' = routedBacklog /\ inspected' \in {0, inspected + 1}
        \/ routedBacklog' = 0 /\ inspected' = 0
    <3> USE DEF loopVars, vars
    <3>1. CASE LoopStep
      BY <3>1 DEF LoopStep, Join, Recover, Publish, Published, LoopStop, LoopWait, Subscribe, WakeUp,
         NothingDeferred, ScheduleOff, ScheduleOn, ScanPostpone, ScanKeyMissing, ScanStart, ScanEnd,
         SettleEnd, SettleReceive, SettleStalled, SettleOn, SelectJoin, SelectFatal, SelectStall,
         SelectTick, SelectElse, RouteDeferred, SelectReceive
    <3>2. ASSUME NEW w \in Works, TaskStep(w) PROVE UNCHANGED <<routedBacklog, inspected>>
      BY <3>2 DEF TaskStep, TaskBegin, TaskEmit, TaskReserve, TaskSend, TaskReturn, TaskError, TaskTimeout,
         TaskFatal, TaskGiveUp, TaskFrame
    <3>3. CASE Operator
      BY <3>3 DEF Operator, Pause, Resume, Drain, Command, RequeueDeadLetter, Abort, Restart
    <3>. QED BY <3>1, <3>2, <3>3 DEF Next
  <2>3. routedBacklog \in Nat /\ inspected \in Nat
    BY DEF TypeOK, SchedulerTypes
  <2> HIDE DEF TypeOK
  <2>. QED BY <2>1, <2>2, <2>3
<1>. QED BY <1>1, <1>2, <1>3 DEF SchedulerTypes

\* The queue, the items, their rows and their tasks keep their types.
LEMMA WorkTyped == TypeOK /\ [Next]_vars => WorkTypes'
<1> SUFFICES ASSUME TypeOK, [Next]_vars PROVE WorkTypes'
  OBVIOUS
<1> USE ConstantTypes DEF WorkTypes, Statuses, Phases, Unfinished, Finished
<1>0. WorkTypes
  BY DEF TypeOK
<1>1. ASSUME NEW old \in SUBSET Rows, Recover(old) PROVE WorkTypes'
  <2>1. row' \in [Rows -> Statuses]
    BY <1>0, <1>1 DEF Recover
  <2>2. item' \in [Works -> WorkItems]
    BY <1>0, <1>1, ItemTypes DEF Recover
  <2>3. attempt' \in [Works -> 0 .. MaximumAttempts]
    BY <1>0, <1>1, ItemTypes DEF Recover
  <2>4. UNCHANGED <<created, out>>
    BY <1>1 DEF Recover
  <2>5. CASE UNCHANGED <<pending, phase>>
    BY <1>0, <2>1, <2>2, <2>3, <2>4, <2>5
  <2>6. ASSUME NEW order \in Orders(Waiting \cup old),
               pending' = IF order = <<>> THEN Seeds ELSE order,
               phase' = [w \in Works |-> IF w \in Range(pending') THEN "pending" ELSE "none"]
        PROVE WorkTypes'
    <3>1. Waiting \cup old \subseteq Rows
      BY DEF Waiting
    <3>2. IsFiniteSet(Waiting \cup old)
      <4>1. IsFiniteSet(Rows)
        BY FS_Interval DEF Rows
      <4>. QED BY <3>1, <4>1, FS_Subset
    <3>3. Cardinality(Waiting \cup old) \in Nat
      BY <3>2, FS_CardinalityType
    <3>4. order \in Seq(Works)
      <4>1. order \in [1 .. Cardinality(Waiting \cup old) -> Works]
        BY <3>1 DEF Orders, Works
      <4>2. \A n \in Nat : [1 .. n -> Works] \subseteq Seq(Works)
        BY SeqDef
      <4>. QED BY <3>3, <4>1, <4>2
    <3>5. pending' \in Seq(Works)
      BY <2>6, <3>4 DEF Works
    <3>6. phase' \in [Works -> Phases]
      BY <2>6
    <3>. QED BY <1>0, <2>1, <2>2, <2>3, <2>4, <3>5, <3>6
  <2>. QED BY <1>1, <2>5, <2>6 DEF Recover
<1>2. CASE Publish
  <2> DEFINE w == created + 1
             c == Head(branches)
             new == [processor |-> c.to, connection |-> ConnectionId(c),
                     key |-> routing[1].key, attempt |-> routing[1].attempt]
  <2>1. w \in Rows /\ w \in Works /\ w \in 0 .. MaxRows
    BY <1>0, <1>2 DEF Publish, Rows, Works
  <2>2. c \in Edges
    BY <1>2 DEF Publish, TypeOK, RouterTypes
  <2>3. routing[1] \in Emissions
    BY <1>2 DEF Publish, TypeOK, RouterTypes
  <2>4. new \in WorkItems /\ routing[1].attempt \in 0 .. MaximumAttempts
    <3>1. ConnectionId(c) \in {ConnectionId(e) : e \in Edges} /\ c.to \in Procs
      BY <2>2
    <3>2. routing[1].attempt \in 0 .. MaximumAttempts /\ routing[1].key \in PartitionKeys \cup {NoKey}
      BY <2>3 DEF Emissions
    <3>. QED BY <3>1, <3>2 DEF WorkItems
  <2>5. /\ row' = [row EXCEPT ![w] = "PENDING"] /\ item' = [item EXCEPT ![w] = new]
        /\ attempt' = [attempt EXCEPT ![w] = routing[1].attempt]
        /\ phase' = [phase EXCEPT ![w] = "pending"] /\ pending' = Append(pending, w)
        /\ created' = w /\ UNCHANGED out
    BY <1>2 DEF Publish
  <2> HIDE DEF new, w
  <2>. QED BY <1>0, <2>1, <2>4, <2>5
<1>3. CASE ScanPostpone
  <2>1. /\ Head(pending) \in Works /\ Tail(pending) \in Seq(Works)
        /\ pending' = Append(Tail(pending), Head(pending))
        /\ UNCHANGED <<item, created, row, phase, attempt, out>>
    <3>1. inspected < Len(pending) /\ inspected \in Nat
      BY <1>3 DEF ScanPostpone, Scanning, TypeOK, SchedulerTypes
    <3>2. pending \in Seq(Works) /\ 0 < Len(pending)
      BY <1>0, <3>1
    <3>. QED BY <1>3, <3>2, Heads DEF ScanPostpone, workVars, taskVars
  <2>2. pending' \in Seq(Works)
    BY <2>1
  <2>. QED BY <1>0, <2>1, <2>2
<1>4. CASE ScanStart
  <2> DEFINE w == Head(pending)
  <2>1. /\ w \in Works /\ pending' \in Seq(Works)
        /\ row' = [v \in Rows |-> IF v = w THEN "RUNNING" ELSE row[v]]
        /\ phase' = [phase EXCEPT ![w] = "try"]
        /\ UNCHANGED <<item, created, attempt, out>>
    <3>1. inspected < Len(pending) /\ inspected \in Nat
      BY <1>4 DEF ScanStart, Scanning, TypeOK, SchedulerTypes
    <3>2. pending \in Seq(Works) /\ 0 < Len(pending)
      BY <1>0, <3>1
    <3>. QED BY <1>4, <3>2, Heads DEF ScanStart
  <2> HIDE DEF w
  <2>2. row' \in [Rows -> Statuses]
    BY <1>0, <2>1
  <2>3. phase' \in [Works -> Phases]
    BY <1>0, <2>1
  <2>. QED BY <1>0, <2>1, <2>2, <2>3
<1>5. ASSUME NEW w \in Works, SelectJoin(w) PROVE WorkTypes'
  BY <1>0, <1>5 DEF SelectJoin
<1>6. ASSUME NEW w \in Works, TaskStep(w) PROVE WorkTypes'
  <2>1. UNCHANGED <<pending, item, created, row>>
    BY <1>6 DEF TaskStep, TaskBegin, TaskEmit, TaskReserve, TaskSend, TaskReturn, TaskError, TaskTimeout,
       TaskFatal, TaskGiveUp, TaskFrame, loopVars, workVars
  <2>2. /\ phase' \in [Works -> Phases]
        /\ attempt' \in [Works -> 0 .. MaximumAttempts]
    <3>1. \E step \in Unfinished \cup Finished : Becomes(w, step)
      BY <1>6 DEF TaskStep, TaskBegin, TaskEmit, TaskReserve, TaskSend, TaskReturn, TaskError, TaskTimeout,
         TaskFatal, TaskGiveUp, Errs
    <3>2. \/ attempt' = attempt
          \/ attempt[w] < MaximumAttempts /\ attempt' = [attempt EXCEPT ![w] = @ + 1]
      BY <1>6 DEF TaskStep, TaskBegin, TaskEmit, TaskReserve, TaskSend, TaskReturn, TaskError, TaskTimeout,
         TaskFatal, TaskGiveUp, Errs
    <3>3. phase' \in [Works -> Phases]
      BY <1>0, <3>1 DEF Becomes
    <3>4. CASE attempt[w] < MaximumAttempts /\ attempt' = [attempt EXCEPT ![w] = @ + 1]
      <4>1. attempt \in [Works -> 0 .. MaximumAttempts] /\ attempt[w] \in 0 .. MaximumAttempts
        BY <1>0
      <4>2. attempt[w] + 1 \in 0 .. MaximumAttempts
        BY <3>4, <4>1
      <4>. QED BY <3>3, <3>4, <4>1, <4>2
    <3>. QED BY <1>0, <3>2, <3>3, <3>4
  <2>3. out' \in [Works -> Seq(Emissions)] /\ \A v \in Works : Len(out'[v]) <= 1
    <3>1. \/ out' = out
          \/ out' = [out EXCEPT ![w] = <<>>]
          \/ \E e \in Emissions : out' = [out EXCEPT ![w] = <<e>>]
      <4>1. ASSUME NEW rel \in Relationships, NEW key \in PartitionKeys \cup {NoKey}, NEW n \in {0, attempt[w]},
                   TaskEmit(w, rel, key, n)
            PROVE \E e \in Emissions : out' = [out EXCEPT ![w] = <<e>>]
        <5>1. n \in 0 .. MaximumAttempts
          BY <1>0
        <5>2. [source |-> w, relationship |-> rel, key |-> key, attempt |-> n] \in Emissions
          BY <5>1 DEF Emissions
        <5>. QED BY <4>1, <5>2 DEF TaskEmit
      <4>2. CASE TaskGiveUp(w)
        <5>1. item[w].key \in PartitionKeys \cup {NoKey} /\ attempt[w] \in 0 .. MaximumAttempts
          BY <1>0, ItemTypes
        <5>2. [source |-> w, relationship |-> "failure", key |-> item[w].key, attempt |-> attempt[w]] \in Emissions
          BY <5>1 DEF Emissions
        <5>. QED BY <4>2, <5>2 DEF TaskGiveUp
      <4>. QED
        BY <1>6, <4>1, <4>2 DEF TaskStep, TaskBegin, TaskReserve, TaskSend, TaskReturn, TaskError, TaskTimeout,
           TaskFatal
    <3>2. ASSUME NEW s \in Seq(Emissions), Len(s) <= 1, out' = [out EXCEPT ![w] = s]
          PROVE out' \in [Works -> Seq(Emissions)] /\ \A v \in Works : Len(out'[v]) <= 1
      BY <1>0, <3>2
    <3>3. <<>> \in Seq(Emissions) /\ Len(<<>>) <= 1
      OBVIOUS
    <3>4. \A e \in Emissions : <<e>> \in Seq(Emissions) /\ Len(<<e>>) <= 1
      OBVIOUS
    <3>. QED BY <1>0, <3>1, <3>2, <3>3, <3>4
  <2>. QED BY <1>0, <2>1, <2>2, <2>3
<1>7. ASSUME NEW w \in Rows, RequeueDeadLetter(w) PROVE WorkTypes'
  <2>1. item' = [item EXCEPT ![w].attempt = 0] /\ row' = [row EXCEPT ![w] = "PENDING"]
        /\ UNCHANGED <<pending, created, phase, attempt, out>>
    BY <1>7 DEF RequeueDeadLetter, loopVars, taskVars
  <2>2. item' \in [Works -> WorkItems]
    BY <1>0, <2>1, ItemTypes
  <2>. QED BY <1>0, <2>1, <2>2
<1>8. CASE Restart
  BY <1>0, <1>8 DEF Restart, workVars
<1>9. CASE UNCHANGED <<pending, workVars, taskVars>>
  BY <1>0, <1>9 DEF workVars, taskVars
<1>. QED BY <1>1, <1>2, <1>3, <1>4, <1>5, <1>6, <1>7, <1>8, <1>9, WorkSteps

\* Every step keeps the types.
LEMMA TypeKept == TypeOK /\ [Next]_vars => TypeOK'
BY ControlTyped, SchedulerTyped, RouterTyped, WorkTyped DEF TypeOK

\* Everything FlowEngine keeps, keeps its type.
THEOREM EngineTypes == Spec => []TypeOK
<1>1. Init => TypeOK
  <2> SUFFICES ASSUME Init PROVE TypeOK
    OBVIOUS
  <2> USE ConstantTypes DEF Init
  <2>1. ControlTypes
    <3>1. 0 \in 0 .. MaxCommands
      OBVIOUS
    <3>. QED BY <3>1 DEF ControlTypes, Lifecycles, LoopSteps
  <2>2. SchedulerTypes
    <3>1. [p \in Procs |-> 0] \in [Procs -> Int]
      OBVIOUS
    <3>. QED BY <3>1 DEF SchedulerTypes
  <2>3. RouterTypes
    BY DEF RouterTypes
  <2>4. WorkTypes
    <3>1. item \in [Works -> WorkItems]
      BY DEF WorkItems
    <3>. QED BY <3>1 DEF WorkTypes, Statuses, Phases
  <2>. QED BY <2>1, <2>2, <2>3, <2>4 DEF TypeOK
<1>. QED BY <1>1, TypeKept, PTL DEF Spec

----------------------------------------------------------------------------
(* The rows and the memory of the loop. *)

\* What is queued is pending and nothing else is, once; rows follow what the
\* loop does with their items, and rows not yet inserted are absent.
QueueInv ==
  /\ ~Over =>
       /\ \A m, n \in DOMAIN pending : pending[m] = pending[n] => m = n
       /\ \A w \in Works : phase[w] = "pending" <=> w \in Range(pending)
       /\ \A w \in Rows : phase[w] = "pending" => row[w] = "PENDING"
       /\ \A w \in Rows : phase[w] \in Unfinished \cup Finished => row[w] = "RUNNING"
  /\ pc = "start" => \A w \in Works : phase[w] = "none"
  /\ \A w \in Rows : w > created => row[w] = "ABSENT"

\* Only a restart leaves the end of a run, and leads to the start of one.
LEMMA StartsOver ==
  ASSUME TypeOK, [Next]_vars
  PROVE  \/ Restart
         \/ (Over => Over') /\ (pc' = "start" => pc = "start")
<1> USE DEF Goto, Fails, Ends, Over
<1>1. CASE LoopStep
  BY <1>1 DEF TypeOK, RouterTypes, LoopStep, Join, Recover, Publish, Published, LoopStop, LoopWait, Subscribe, WakeUp,
     NothingDeferred, ScheduleOff, ScheduleOn, ScanPostpone, ScanKeyMissing, ScanStart, ScanEnd,
     SettleEnd, SettleReceive, SettleStalled, SettleOn, SelectJoin, SelectFatal, SelectStall,
     SelectTick, SelectElse, RouteDeferred, SelectReceive, Route, Hold, Scanning
<1>2. ASSUME NEW w \in Works, TaskStep(w) PROVE pc' = pc
  BY <1>2 DEF TaskStep, TaskBegin, TaskEmit, TaskReserve, TaskSend, TaskReturn, TaskError, TaskTimeout,
     TaskFatal, TaskGiveUp, TaskFrame
<1>3. CASE Operator
  BY <1>3 DEF Operator, Pause, Resume, Drain, Command, RequeueDeadLetter, Abort
<1>. QED BY <1>1, <1>2, <1>3 DEF Next, vars

\* A task goes from one of its phases to another, and its row stays.
LEMMA TaskPhases ==
  ASSUME TypeOK, NEW w \in Works, TaskStep(w)
  PROVE  /\ phase[w] \in Unfinished
         /\ \E step \in Unfinished \cup Finished : phase' = [phase EXCEPT ![w] = step]
         /\ UNCHANGED <<pending, item, created, row>>
         /\ pc' = pc /\ ~Over
<1> USE DEF TaskStep, TaskBegin, TaskEmit, TaskReserve, TaskSend, TaskReturn, TaskError, TaskTimeout,
     TaskFatal, TaskGiveUp, TaskFrame, Errs, Becomes, Unfinished, Finished
<1>1. phase[w] \in Unfinished
  OBVIOUS
<1>2. \E step \in Unfinished \cup Finished : phase' = [phase EXCEPT ![w] = step]
  OBVIOUS
<1>3. UNCHANGED <<pending, item, created, row>> /\ pc' = pc /\ ~Over
  BY DEF loopVars, workVars, Alive, Over
<1>. QED BY <1>1, <1>2, <1>3

\* An order of a set of rows has each of them once.
LEMMA OrdersOnce ==
  ASSUME NEW S \in SUBSET Rows, NEW order \in Orders(S)
  PROVE  /\ Range(order) = S /\ order \in Seq(Rows)
         /\ \A m, n \in DOMAIN order : order[m] = order[n] => m = n
<1>1. IsFiniteSet(Rows)
  BY ConstantTypes, FS_Interval DEF Rows
<1>2. IsFiniteSet(S)
  BY <1>1, FS_Subset
<1>3. Cardinality(S) \in Nat
  BY <1>2, FS_CardinalityType
<1>4. IsFiniteSet(1 .. Cardinality(S)) /\ Cardinality(1 .. Cardinality(S)) = Cardinality(S)
  BY <1>3, FS_Interval
<1>5. order \in [1 .. Cardinality(S) -> S] /\ Range(order) = S
  BY DEF Orders
<1>6. order \in Surjection(1 .. Cardinality(S), S)
  BY <1>5 DEF Surjection, Range
<1>7. order \in Injection(1 .. Cardinality(S), S)
  BY <1>4, <1>6, FS_SurjSameCardinalityImpliesInj
<1>8. order \in Seq(Rows)
  BY <1>3, <1>5, SeqDef
<1>. QED BY <1>5, <1>7, <1>8 DEF Injection, IsInjective

\* Turning a queue keeps what is in it, and that it is in it once.
LEMMA TurnKeeps ==
  ASSUME NEW S, NEW s \in Seq(S), 0 < Len(s),
         \A m, n \in DOMAIN s : s[m] = s[n] => m = n
  PROVE  LET t == Append(Tail(s), Head(s))
         IN  /\ Range(t) = Range(s)
             /\ \A m, n \in DOMAIN t : t[m] = t[n] => m = n
<1> DEFINE t == Append(Tail(s), Head(s))
<1>1. /\ t \in Seq(S) /\ Len(t) = Len(s) /\ Len(s) \in Nat \ {0}
      /\ \A n \in 1 .. Len(s) : t[n] = IF n = Len(s) THEN s[1] ELSE s[n + 1]
  BY Heads
<1> HIDE DEF t
<1>2. DOMAIN s = 1 .. Len(s) /\ DOMAIN t = 1 .. Len(s)
  BY <1>1
<1>3. Range(t) \subseteq Range(s)
  <2>1. ASSUME NEW n \in 1 .. Len(s) PROVE t[n] \in Range(s)
    <3>1. 1 \in 1 .. Len(s) /\ (n # Len(s) => n + 1 \in 1 .. Len(s))
      BY <1>1
    <3>2. \E m \in DOMAIN s : t[n] = s[m]
      BY <1>1, <1>2, <3>1
    <3>. QED BY <3>2 DEF Range
  <2>. QED BY <1>2, <2>1 DEF Range
<1>4. ASSUME NEW n \in 1 .. Len(s) PROVE s[n] \in Range(t)
  <2>1. \E m \in 1 .. Len(s) : t[m] = s[n]
    <3>1. CASE n = 1
      BY <1>1, <3>1
    <3>2. CASE n # 1
      <4>1. n - 1 \in 1 .. Len(s) /\ n - 1 # Len(s) /\ t[n - 1] = s[n]
        BY <1>1, <3>2
      <4>. QED BY <4>1
    <3>. QED BY <3>1, <3>2
  <2>. QED BY <1>2, <2>1 DEF Range
<1> DEFINE at(i) == IF i = Len(s) THEN 1 ELSE i + 1
<1>5. \A i \in 1 .. Len(s) : at(i) \in 1 .. Len(s) /\ t[i] = s[at(i)]
  BY <1>1
<1>7. \A i, j \in 1 .. Len(s) : at(i) = at(j) => i = j
  BY <1>1
<1> HIDE DEF at
<1>8. \A m, n \in DOMAIN t : t[m] = t[n] => m = n
  BY <1>2, <1>5, <1>7
<1>6. Range(s) \subseteq Range(t)
  BY <1>2, <1>4 DEF Range
<1>. QED BY <1>3, <1>6, <1>8 DEF t

\* Taking the first item of a queue leaves the others, each still once.
LEMMA TakeKeeps ==
  ASSUME NEW S, NEW s \in Seq(S), 0 < Len(s),
         \A m, n \in DOMAIN s : s[m] = s[n] => m = n
  PROVE  /\ Range(Tail(s)) = Range(s) \ {Head(s)} /\ Head(s) \in Range(s)
         /\ \A m, n \in DOMAIN Tail(s) : Tail(s)[m] = Tail(s)[n] => m = n
<1> DEFINE t == Tail(s)
<1>1. /\ t \in Seq(S) /\ Len(t) = Len(s) - 1 /\ Len(s) \in Nat \ {0} /\ Head(s) = s[1]
      /\ \A n \in 1 .. Len(s) - 1 : t[n] = s[n + 1]
  BY Heads
<1>2. DOMAIN s = 1 .. Len(s) /\ DOMAIN t = 1 .. Len(s) - 1
  BY <1>1
<1> HIDE DEF t
<1>3. Range(t) \subseteq Range(s) \ {s[1]} /\ s[1] \in Range(s)
  BY <1>1, <1>2 DEF Range
<1>4. ASSUME NEW n \in 1 .. Len(s), n # 1 PROVE s[n] \in Range(t)
  <2>1. n - 1 \in 1 .. Len(s) - 1 /\ t[n - 1] = s[n]
    BY <1>1, <1>4
  <2>. QED BY <1>2, <2>1 DEF Range
<1>5. \A m, n \in DOMAIN t : t[m] = t[n] => m = n
  <2>1. SUFFICES ASSUME NEW m \in 1 .. Len(s) - 1, NEW n \in 1 .. Len(s) - 1, t[m] = t[n]
                 PROVE  m = n
    BY <1>2
  <2>2. m + 1 \in DOMAIN s /\ n + 1 \in DOMAIN s
    BY <1>1, <1>2
  <2>3. m + 1 = n + 1
    BY <1>1, <2>1, <2>2
  <2>. QED BY <2>3
<1>6. Range(s) \ {s[1]} \subseteq Range(t)
  BY <1>2, <1>4 DEF Range
<1>. QED BY <1>1, <1>3, <1>5, <1>6 DEF t

\* A new item at the end of a queue.
LEMMA AppendKeeps ==
  ASSUME NEW S, NEW s \in Seq(S), NEW w, w \notin Range(s),
         \A m, n \in DOMAIN s : s[m] = s[n] => m = n
  PROVE  /\ Range(Append(s, w)) = Range(s) \cup {w}
         /\ \A m, n \in DOMAIN Append(s, w) : Append(s, w)[m] = Append(s, w)[n] => m = n
<1> DEFINE t == Append(s, w)
<1>1. /\ Len(s) \in Nat /\ DOMAIN s = 1 .. Len(s) /\ DOMAIN t = 1 .. Len(s) + 1
      /\ \A n \in 1 .. Len(s) : t[n] = s[n]
      /\ t[Len(s) + 1] = w
  OBVIOUS
<1> HIDE DEF t
<1>2. \A n \in 1 .. Len(s) : s[n] # w
  BY <1>1 DEF Range
<1>3. \A m, n \in DOMAIN t : t[m] = t[n] => m = n
  BY <1>1, <1>2
<1>4. Range(t) = Range(s) \cup {w}
  BY <1>1 DEF Range
<1>. QED BY <1>3, <1>4 DEF t

\* The loop starts an item only if it is queued.
LEMMA ScanStarts ==
  ASSUME TypeOK, QueueInv, ScanStart
  PROVE  LET w == Head(pending)
         IN  /\ 0 < Len(pending) /\ w \in Works /\ phase[w] = "pending" /\ w \in Range(pending)
             /\ pending' = Tail(pending)
             /\ phase' = [phase EXCEPT ![w] = "try"]
             /\ row' = [v \in Rows |-> IF v = w THEN "RUNNING" ELSE row[v]]
             /\ UNCHANGED <<item, created>> /\ pc' = pc /\ pc = "scan"
<1>1. inspected < Len(pending) /\ inspected \in Nat /\ pending \in Seq(Works)
  BY DEF ScanStart, Scanning, TypeOK, SchedulerTypes, WorkTypes
<1>2. 0 < Len(pending) /\ Head(pending) \in Works
  BY <1>1, Heads
<1>3. Head(pending) \in Range(pending)
  <2>1. Head(pending) = pending[1] /\ 1 \in DOMAIN pending
    BY <1>1, <1>2, Heads
  <2>. QED BY <2>1 DEF Range
<1>4. pc = "scan" /\ ~Over
  BY DEF ScanStart, Scanning, Over
<1>5. phase[Head(pending)] = "pending"
  BY <1>2, <1>3, <1>4 DEF QueueInv
<1>. QED BY <1>2, <1>3, <1>4, <1>5 DEF ScanStart

\* Every step keeps the loop and the rows together.
LEMMA QueueKept == TypeOK /\ QueueInv /\ [Next]_vars => QueueInv'
<1> SUFFICES ASSUME TypeOK, QueueInv, [Next]_vars PROVE QueueInv'
  OBVIOUS
<1>1. ASSUME NEW old \in SUBSET Rows, Recover(old) PROVE QueueInv'
  <2>1. /\ pc = "start" /\ old \subseteq Abandoned
        /\ row' = [w \in Rows |-> IF w \in old THEN "PENDING" ELSE row[w]]
        /\ UNCHANGED created
    BY <1>1 DEF Recover
  <2>2. \A w \in Rows : w > created' => row'[w] = "ABSENT"
    BY <2>1 DEF QueueInv, Abandoned
  <2>3. CASE Fails("memory")
    BY <2>2, <2>3 DEF QueueInv, Fails, Goto, Over
  <2>4. ASSUME NEW order \in Orders(Waiting \cup old),
               pending' = IF order = <<>> THEN Seeds ELSE order,
               phase' = [w \in Works |-> IF w \in Range(pending') THEN "pending" ELSE "none"],
               pc' = "top"
        PROVE QueueInv'
    <3>1. Waiting \cup old \in SUBSET Rows
      BY DEF Waiting
    <3>2. /\ \A m, n \in DOMAIN pending' : pending'[m] = pending'[n] => m = n
          /\ \A w \in Rows : w \in Range(pending') => w \in Waiting \cup old
      <4>1. CASE order = <<>>
        <5>1. Range(pending') \subseteq Sources /\ Rows \cap Sources = {}
          BY <2>4, <4>1, ConstantTypes DEF Range
        <5>. QED BY <2>4, <4>1, <5>1, SelectionAssumption DEF SelectionAssumption
      <4>2. CASE order # <<>>
        BY <2>4, <3>1, <4>2, OrdersOnce
      <4>. QED BY <4>1, <4>2
    <3>3. \A w \in Rows : w \in Waiting \cup old => row'[w] = "PENDING"
      BY <2>1 DEF Waiting
    <3>. QED BY <2>2, <2>4, <3>2, <3>3 DEF QueueInv, Works, Unfinished, Finished
  <2>. QED BY <1>1, <2>3, <2>4 DEF Recover, Goto
<1>2. CASE Publish
  <2> DEFINE w == created + 1
  <2>1. /\ w \in Rows /\ w \in Works /\ created \in 0 .. MaxRows
        /\ row' = [row EXCEPT ![w] = "PENDING"] /\ phase' = [phase EXCEPT ![w] = "pending"]
        /\ pending' = Append(pending, w) /\ created' = w
        /\ pc = "publish" /\ pc' = pc
    BY <1>2, ConstantTypes DEF Publish, TypeOK, WorkTypes, Rows, Works
  <2>2. w > created /\ ~Over
    BY <2>1 DEF Over
  <2> HIDE DEF w
  <2>3. row[w] = "ABSENT"
    BY <2>1, <2>2 DEF QueueInv
  <2>4. w \notin Range(pending)
    BY <2>1, <2>2, <2>3 DEF QueueInv
  <2>5. pending \in Seq(Works) /\ row \in [Rows -> Statuses] /\ phase \in [Works -> Phases]
    BY DEF TypeOK, WorkTypes
  <2>6. /\ Range(pending') = Range(pending) \cup {w}
        /\ \A m, n \in DOMAIN pending' : pending'[m] = pending'[n] => m = n
    BY <2>1, <2>2, <2>4, <2>5, AppendKeeps DEF QueueInv
  <2>7. \A v \in Rows : v > created' => row'[v] = "ABSENT"
    <3>1. \A v \in Rows : v > w => v > created /\ v # w
      BY <2>1 DEF Rows, w
    <3>. QED BY <2>1, <2>5, <3>1 DEF QueueInv
  <2>. QED BY <2>1, <2>2, <2>5, <2>6, <2>7 DEF QueueInv, Unfinished, Finished, Works
<1>3. CASE ScanPostpone
  <2>1. /\ inspected < Len(pending) /\ inspected \in Nat /\ pending \in Seq(Works)
        /\ pending' = Append(Tail(pending), Head(pending))
        /\ pc = "scan" /\ pc' = pc
        /\ UNCHANGED <<item, created, row, phase, attempt, out>>
    BY <1>3 DEF ScanPostpone, Scanning, TypeOK, SchedulerTypes, WorkTypes, workVars, taskVars
  <2>2. 0 < Len(pending) /\ ~Over
    BY <2>1 DEF Over
  <2>3. /\ Range(pending') = Range(pending)
        /\ \A m, n \in DOMAIN pending' : pending'[m] = pending'[n] => m = n
    BY <2>1, <2>2, TurnKeeps DEF QueueInv
  <2>. QED BY <2>1, <2>2, <2>3 DEF QueueInv
<1>4. CASE ScanStart
  <2> DEFINE w == Head(pending)
  <2>1. /\ 0 < Len(pending) /\ w \in Works /\ phase[w] = "pending"
        /\ pending' = Tail(pending) /\ phase' = [phase EXCEPT ![w] = "try"]
        /\ row' = [v \in Rows |-> IF v = w THEN "RUNNING" ELSE row[v]]
        /\ UNCHANGED created /\ pc' = pc /\ pc = "scan"
    BY <1>4, ScanStarts
  <2>2. /\ pending \in Seq(Works) /\ phase \in [Works -> Phases]
        /\ ~Over
    BY <2>1 DEF TypeOK, WorkTypes, Over
  <2>3. /\ Range(pending') = Range(pending) \ {w}
        /\ \A m, n \in DOMAIN pending' : pending'[m] = pending'[n] => m = n
    BY <2>1, <2>2, TakeKeeps DEF QueueInv
  <2> HIDE DEF w
  <2>4. \A v \in Rows : v > created' => v # w
    BY <2>1, <2>2 DEF QueueInv
  <2>. QED BY <2>1, <2>2, <2>3, <2>4 DEF QueueInv, Unfinished, Finished, Works
<1>5. ASSUME NEW w \in Works, SelectJoin(w) PROVE QueueInv'
  <2>1. /\ phase[w] \in Finished /\ phase' = [phase EXCEPT ![w] = "none"]
        /\ \E st : row' = [v \in Rows |-> IF v = w THEN st ELSE row[v]]
        /\ UNCHANGED <<pending, created>> /\ pc = "select" /\ pc' = "top"
    BY <1>5 DEF SelectJoin, Goto, Finished
  <2>2. phase \in [Works -> Phases] /\ ~Over
    BY <2>1 DEF TypeOK, WorkTypes, Over
  <2>3. \A v \in Rows : v > created' => v # w
    BY <2>1, <2>2 DEF QueueInv
  <2>. QED BY <2>1, <2>2, <2>3 DEF QueueInv, Unfinished, Finished, Works
<1>6. ASSUME NEW w \in Works, TaskStep(w) PROVE QueueInv'
  <2>1. phase \in [Works -> Phases]
    BY DEF TypeOK, WorkTypes
  <2>2. PICK step \in Unfinished \cup Finished : phase' = [phase EXCEPT ![w] = step]
    BY <1>6, TaskPhases
  <2>3. phase[w] \in Unfinished /\ UNCHANGED <<pending, created, row, pc>> /\ ~Over
    BY <1>6, TaskPhases
  <2>4. pc # "start"
    BY <1>6 DEF TaskStep, Alive
  <2>. QED BY <2>1, <2>2, <2>3, <2>4 DEF QueueInv, Unfinished, Finished, Works
<1>7. ASSUME NEW w \in Rows, RequeueDeadLetter(w) PROVE QueueInv'
  <2>1. /\ row[w] = "DEAD_LETTER" /\ row' = [row EXCEPT ![w] = "PENDING"]
        /\ UNCHANGED <<pending, created, phase, pc>>
    BY <1>7 DEF RequeueDeadLetter, loopVars, taskVars
  <2>2. row \in [Rows -> Statuses] /\ created \in Nat
    BY DEF TypeOK, WorkTypes
  <2>. QED BY <2>1, <2>2 DEF QueueInv, Over
<1>8. CASE Restart
  BY <1>8 DEF Restart, QueueInv, Goto, workVars, Range, Unfinished, Finished, Works
<1>9. CASE UNCHANGED <<pending, workVars, taskVars>>
  <2>1. \/ Restart
        \/ (Over => Over') /\ (pc' = "start" => pc = "start")
    BY StartsOver
  <2>. QED BY <1>8, <1>9, <2>1 DEF QueueInv, workVars, taskVars
<1>. QED BY <1>1, <1>2, <1>3, <1>4, <1>5, <1>6, <1>7, <1>8, <1>9, WorkSteps

\* The loop and the rows stay together throughout a run.
LEMMA QueueInvariant == Spec => []QueueInv
<1>1. Init => QueueInv
  BY DEF Init, QueueInv, Range, Over, Works, Unfinished, Finished
<1>2. TypeOK /\ QueueInv /\ [Next]_vars => QueueInv'
  BY QueueKept
<1>. QED BY <1>1, <1>2, EngineTypes, PTL DEF Spec

\* What the loop has queued is PENDING in the repository and what it runs is
\* RUNNING, each once, through aborted runs, recovery and requeued dead letters.
THEOREM RowsAreInMemory == Spec => []RowsMatchMemory
<1>1. TypeOK /\ QueueInv => RowsMatchMemory
  <2> SUFFICES ASSUME TypeOK, QueueInv, Alive PROVE RowsMatchMemory
    BY DEF RowsMatchMemory
  <2>1. ~Over
    BY DEF Alive, Over
  <2>2. Range(pending) \subseteq Works
    BY DEF TypeOK, WorkTypes, Range
  <2>. QED BY <2>1, <2>2 DEF QueueInv, RowsMatchMemory, Running, Unfinished, Finished, Works
<1>. QED BY <1>1, EngineTypes, QueueInvariant, PTL

fateOf == [w \in Rows |-> Fate(row[w])]

\* The engine uses the repository as the queue it promises to be (UsesQueue):
\* an inserted branch, a claim, the end of a task, a recovery and a requeue
\* are steps of it, and everything else stutters.
THEOREM EngineUsesQueue == Spec => UsesQueue
<1>1. Init => Queue!QueueInit
  BY DEF Init, Queue!QueueInit, Fate
<1>2. TypeOK /\ QueueInv /\ [Next]_vars => [Queue!QueueNext]_fateOf
  <2> SUFFICES ASSUME TypeOK, QueueInv, [Next]_vars
               PROVE  Queue!QueueNext \/ fateOf' = fateOf
    OBVIOUS
  <2> USE DEF fateOf
  <2>0. row \in [Rows -> Statuses]
    BY DEF TypeOK, WorkTypes
  <2>1. ASSUME NEW w \in Rows, NEW st \in Statuses, row' = [row EXCEPT ![w] = st]
        PROVE  fateOf' = [fateOf EXCEPT ![w] = Fate(st)]
    BY <2>0, <2>1
  <2>2. ASSUME NEW w \in Works, NEW st \in Statuses,
               row' = [v \in Rows |-> IF v = w THEN st ELSE row[v]]
        PROVE  IF w \in Rows THEN fateOf' = [fateOf EXCEPT ![w] = Fate(st)] ELSE fateOf' = fateOf
    BY <2>0, <2>2
  <2>3. ASSUME NEW old \in SUBSET Rows, Recover(old) PROVE Queue!Return(old)
    BY <2>3 DEF Recover, Abandoned, Fate, Queue!Return
  <2>4. CASE Publish
    <3> DEFINE w == created + 1
    <3>1. w \in Rows /\ row' = [row EXCEPT ![w] = "PENDING"] /\ w > created
      BY <2>4, ConstantTypes DEF Publish, TypeOK, WorkTypes, Rows
    <3>2. row[w] = "ABSENT"
      BY <3>1 DEF QueueInv
    <3> HIDE DEF w
    <3>3. fateOf' = [fateOf EXCEPT ![w] = Fate("PENDING")]
      BY <2>1, <3>1 DEF Statuses
    <3>4. Queue!Submit(w)
      BY <3>1, <3>2, <3>3 DEF Fate, Queue!Submit, Queue!Becomes
    <3>. QED BY <3>1, <3>4 DEF Queue!QueueNext
  <2>5. CASE ScanStart
    <3> DEFINE w == Head(pending)
    <3>1. /\ w \in Works /\ phase[w] = "pending" /\ pc = "scan"
          /\ row' = [v \in Rows |-> IF v = w THEN "RUNNING" ELSE row[v]]
      BY <2>5, ScanStarts
    <3> HIDE DEF w
    <3>2. CASE w \in Rows
      <4>1. row[w] = "PENDING"
        BY <3>1, <3>2 DEF QueueInv, Over
      <4>2. fateOf' = [fateOf EXCEPT ![w] = Fate("RUNNING")]
        BY <2>2, <3>1, <3>2 DEF Statuses
      <4>3. Queue!Lease(w)
        BY <3>2, <4>1, <4>2 DEF Fate, Queue!Lease, Queue!Becomes
      <4>. QED BY <3>2, <4>3 DEF Queue!QueueNext
    <3>3. CASE w \notin Rows
      BY <2>2, <3>1, <3>3 DEF Statuses
    <3>. QED BY <3>2, <3>3
  <2>6. ASSUME NEW w \in Works, SelectJoin(w) PROVE Queue!QueueNext \/ fateOf' = fateOf
    <3> DEFINE st == IF phase[w] = "done" THEN "COMPLETED" ELSE "DEAD_LETTER"
    <3>1. /\ phase[w] \in Finished /\ pc = "select"
          /\ row' = [v \in Rows |-> IF v = w THEN st ELSE row[v]]
      BY <2>6 DEF SelectJoin, Finished
    <3>2. st \in {"COMPLETED", "DEAD_LETTER"} /\ st \in Statuses
      BY DEF Statuses
    <3> HIDE DEF st
    <3>3. CASE w \in Rows
      <4>1. row[w] = "RUNNING"
        BY <3>1, <3>3 DEF QueueInv, Over
      <4>2. fateOf' = [fateOf EXCEPT ![w] = Fate(st)]
        BY <2>2, <3>1, <3>2, <3>3
      <4>3. Queue!Finish(w) \/ Queue!Bury(w)
        BY <3>2, <3>3, <4>1, <4>2 DEF Fate, Queue!Finish, Queue!Bury, Queue!Becomes
      <4>. QED BY <3>3, <4>3 DEF Queue!QueueNext
    <3>4. CASE w \notin Rows
      BY <2>2, <3>1, <3>2, <3>4
    <3>. QED BY <3>3, <3>4
  <2>7. ASSUME NEW w \in Rows, RequeueDeadLetter(w) PROVE Queue!Revive(w)
    <3>1. fateOf' = [fateOf EXCEPT ![w] = Fate("PENDING")]
      BY <2>1, <2>7 DEF RequeueDeadLetter, Statuses
    <3>. QED BY <2>7, <3>1 DEF RequeueDeadLetter, Fate, Queue!Revive, Queue!Becomes
  <2>8. ASSUME UNCHANGED row PROVE fateOf' = fateOf
    BY <2>8
  <2>9. CASE ScanPostpone \/ Restart \/ \E w \in Works : TaskStep(w)
    BY <2>8, <2>9, TaskPhases DEF ScanPostpone, Restart, workVars
  <2>10. CASE UNCHANGED <<pending, workVars, taskVars>>
    BY <2>8, <2>10 DEF workVars
  <2>. QED
    BY <2>3, <2>4, <2>5, <2>6, <2>7, <2>9, <2>10, WorkSteps DEF Queue!QueueNext
<1>. QED
  BY <1>1, <1>2, EngineTypes, QueueInvariant, PTL DEF Spec, UsesQueue, Queue!QueueSpec, fateOf

----------------------------------------------------------------------------
(* The tasks at work. *)

\* There are finitely many work items.
LEMMA WorksFinite == IsFiniteSet(Works)
<1>1. IsFiniteSet(Rows)
  BY ConstantTypes, FS_Interval DEF Rows
<1>2. IsFiniteSet(Procs)
  <2>1. IsFiniteSet(DOMAIN Processors)
    BY EngineAssumption, FS_Interval DEF EngineAssumption, Validated
  <2>2. Processors \in Surjection(DOMAIN Processors, Procs)
    <3>1. Processors \in [DOMAIN Processors -> Procs]
      BY EngineAssumption DEF EngineAssumption, Validated
    <3>. QED BY <3>1 DEF Procs, Range, Surjection
  <2>. QED BY <2>1, <2>2, FS_Surjection
<1>3. IsFiniteSet(Sources)
  BY <1>2, FS_Subset, ConstantTypes
<1>. QED BY <1>1, <1>3, FS_Union DEF Works

\* Sets of work items can be counted.
LEMMA CountWorks ==
  ASSUME NEW S \in SUBSET Works
  PROVE  /\ IsFiniteSet(S) /\ Cardinality(S) \in Nat
         /\ \A w : w \notin S => Cardinality(S \cup {w}) = Cardinality(S) + 1
         /\ \A w \in S : Cardinality(S \ {w}) = Cardinality(S) - 1
         /\ \A T \in SUBSET S : Cardinality(T) \in Nat /\ Cardinality(T) <= Cardinality(S)
<1>1. IsFiniteSet(S)
  BY WorksFinite, FS_Subset
<1>2. \A T \in SUBSET S : IsFiniteSet(T) /\ Cardinality(T) \in Nat /\ Cardinality(T) <= Cardinality(S)
  BY <1>1, FS_Subset, FS_CardinalityType
<1>. QED BY <1>1, <1>2, FS_CardinalityType, FS_AddElement, FS_RemoveElement

\* The tasks that go on are for the same processor and partition key.
sameTasks == \A w \in Running : Proc(w)' = Proc(w) /\ item'[w].key = item[w].key

\* The steps that change which tasks are at work.
LEMMA RunningSteps ==
  ASSUME TypeOK, QueueInv, [Next]_vars, ~Over'
  PROVE  \/ ~Over /\ Running' = Running /\ sameTasks /\ UNCHANGED activeVars
         \/ /\ ~Over /\ ScanStart /\ Head(pending) \in Works \ Running
            /\ Running' = Running \cup {Head(pending)} /\ UNCHANGED item
         \/ /\ ~Over
            /\ \E w \in Running : SelectJoin(w) /\ Running' = Running \ {w} /\ UNCHANGED item
         \/ Restart /\ Running' = {}
<1> USE DEF Running
<1>0. phase \in [Works -> Phases] /\ item \in [Works -> WorkItems] /\ created \in 0 .. MaxRows
  BY DEF TypeOK, WorkTypes
<1>1. CASE Restart
  BY <1>1 DEF Restart, Unfinished, Finished
<1>2. CASE ~Restart
  <2>0. ~Over
    BY <1>2, StartsOver
  <2>1. ASSUME NEW old \in SUBSET Rows, Recover(old)
        PROVE  Running' = Running /\ sameTasks /\ UNCHANGED activeVars
    <3>1. pc = "start" /\ UNCHANGED activeVars
      BY <2>1 DEF Recover, activeVars
    <3>2. Running = {}
      BY <3>1 DEF QueueInv, Unfinished, Finished
    <3>3. \/ phase' = phase
          \/ phase' = [w \in Works |-> IF w \in Range(pending') THEN "pending" ELSE "none"]
      BY <2>1 DEF Recover
    <3>4. Running' = {}
      BY <3>2, <3>3 DEF Unfinished, Finished
    <3>. QED BY <3>1, <3>2, <3>4 DEF sameTasks
  <2>2. CASE Publish
    <3> DEFINE w == created + 1
    <3>1. /\ w \in Rows /\ w \in Works /\ w > created
          /\ phase' = [phase EXCEPT ![w] = "pending"] /\ UNCHANGED activeVars
      BY <1>0, <2>2, ConstantTypes DEF Publish, Rows, Works, activeVars
    <3>6. PICK i : item' = [item EXCEPT ![w] = i]
      BY <2>2 DEF Publish
    <3> HIDE DEF w
    <3>2. row[w] = "ABSENT"
      BY <3>1 DEF QueueInv
    <3>3. w \notin Running
      BY <2>0, <3>1, <3>2 DEF QueueInv
    <3>4. Running' = Running
      BY <1>0, <3>1, <3>3 DEF Unfinished, Finished
    <3>5. sameTasks
      BY <1>0, <3>3, <3>6 DEF sameTasks, Proc
    <3>. QED BY <2>0, <3>1, <3>4, <3>5
  <2>3. CASE ScanPostpone
    BY <2>0, <2>3 DEF ScanPostpone, workVars, taskVars, activeVars, sameTasks, Proc
  <2>4. CASE ScanStart
    <3>1. /\ Head(pending) \in Works /\ phase[Head(pending)] = "pending"
          /\ phase' = [phase EXCEPT ![Head(pending)] = "try"] /\ UNCHANGED item
      BY <2>4, ScanStarts
    <3>2. Running' = Running \cup {Head(pending)} /\ Head(pending) \notin Running
      BY <1>0, <3>1 DEF Unfinished, Finished
    <3>. QED BY <2>0, <2>4, <3>1, <3>2
  <2>5. ASSUME NEW w \in Works, SelectJoin(w)
        PROVE  w \in Running /\ Running' = Running \ {w} /\ UNCHANGED item
    <3>1. /\ phase[w] \in Finished /\ phase' = [phase EXCEPT ![w] = "none"] /\ UNCHANGED item
      BY <2>5 DEF SelectJoin, Finished
    <3>. QED BY <1>0, <3>1 DEF Unfinished, Finished
  <2>6. ASSUME NEW w \in Works, TaskStep(w)
        PROVE  Running' = Running /\ sameTasks /\ UNCHANGED activeVars
    <3>1. PICK step \in Unfinished \cup Finished : phase' = [phase EXCEPT ![w] = step]
      BY <2>6, TaskPhases
    <3>2. phase[w] \in Unfinished /\ UNCHANGED item
      BY <2>6, TaskPhases
    <3>3. UNCHANGED activeVars
      BY <2>6 DEF TaskStep, TaskBegin, TaskEmit, TaskReserve, TaskSend, TaskReturn, TaskError,
         TaskTimeout, TaskFatal, TaskGiveUp, TaskFrame, loopVars, activeVars
    <3>4. Running' = Running
      BY <1>0, <3>1, <3>2
    <3>. QED BY <3>2, <3>3, <3>4 DEF sameTasks, Proc
  <2>7. ASSUME NEW w \in Rows, RequeueDeadLetter(w)
        PROVE  Running' = Running /\ sameTasks /\ UNCHANGED activeVars
    <3>1. item' = [item EXCEPT ![w].attempt = 0] /\ UNCHANGED <<phase, activeVars>>
      BY <2>7 DEF RequeueDeadLetter, loopVars, taskVars, activeVars
    <3>2. \A v \in Works : item'[v].processor = item[v].processor /\ item'[v].key = item[v].key
      BY <1>0, <3>1 DEF WorkItems
    <3>. QED BY <3>1, <3>2 DEF sameTasks, Proc
  <2>8. CASE UNCHANGED <<pending, workVars, taskVars>>
    <3>1. UNCHANGED <<item, phase>> /\ Running' = Running /\ sameTasks
      BY <2>8 DEF workVars, taskVars, sameTasks, Proc
    <3>2. UNCHANGED activeVars \/ ScanStart \/ \E w \in Works : SelectJoin(w)
      BY <1>2, ActiveSteps
    <3>. QED BY <2>0, <2>4, <2>5, <3>1, <3>2
  <2>. QED BY <1>2, <2>0, <2>1, <2>2, <2>3, <2>4, <2>5, <2>6, <2>7, <2>8, WorkSteps
<1>. QED BY <1>1, <1>2

\* What the counters of p count: the tasks of p, with keys that differ if it is
\* partitioned.
Counted(p) ==
  /\ activePerProcessor[p] = Cardinality(RunningOf(p))
  /\ activePartitions[p] = IF Partitioned(p) THEN {item[w].key : w \in RunningOf(p)} ELSE {}
  /\ Partitioned(p) => \A v, w \in RunningOf(p) : v # w => item[v].key # item[w].key

CountersInv == ~Over => \A p \in Procs : Counted(p)

\* Every step keeps the counters of the scheduler.
LEMMA CountersKept == TypeOK /\ QueueInv /\ CountersInv /\ [Next]_vars => CountersInv'
<1> SUFFICES ASSUME TypeOK, QueueInv, CountersInv, [Next]_vars, ~Over', NEW p \in Procs
             PROVE  Counted(p)'
  BY DEF CountersInv
<1>0. /\ activePerProcessor \in [Procs -> Int]
      /\ activePartitions \in [Procs -> SUBSET (PartitionKeys \cup {NoKey})]
      /\ Running \subseteq Works /\ RunningOf(p) \subseteq Running
  BY DEF TypeOK, SchedulerTypes, Running, RunningOf
<1>1. CASE ~Over /\ Running' = Running /\ sameTasks /\ UNCHANGED activeVars
  <2>1. RunningOf(p)' = RunningOf(p) /\ \A w \in RunningOf(p) : item'[w].key = item[w].key
    BY <1>1 DEF sameTasks, RunningOf
  <2>2. {item'[w].key : w \in RunningOf(p)} = {item[w].key : w \in RunningOf(p)}
    BY <2>1
  <2>. QED BY <1>1, <2>1, <2>2, ZenonT(60) DEF CountersInv, Counted, activeVars, Partitioned
<1>2. CASE /\ ~Over /\ ScanStart /\ Head(pending) \in Works \ Running
           /\ Running' = Running \cup {Head(pending)} /\ UNCHANGED item
  <2> DEFINE w == Head(pending)
             q == Proc(w)
  <2>1. /\ w \in Works \ Running /\ Running' = Running \cup {w} /\ item' = item
        /\ activePerProcessor' = [activePerProcessor EXCEPT ![q] = @ + 1]
        /\ activePartitions' = [activePartitions EXCEPT
             ![q] = IF Partitioned(q) THEN @ \cup {item[w].key} ELSE @]
        /\ Partitioned(q) => item[w].key \notin activePartitions[q]
    BY <1>2 DEF ScanStart, KeyBusy
  <2>2. RunningOf(p)' = IF p = q THEN RunningOf(p) \cup {w} ELSE RunningOf(p)
    BY <2>1 DEF RunningOf, Proc
  <2>3. w \notin RunningOf(p)
    BY <2>1 DEF RunningOf
  <2> HIDE DEF w, q
  <2>4. Counted(p)
    BY <1>2 DEF CountersInv
  <2>5. CASE p = q
    <3>1. activePerProcessor'[p] = activePerProcessor[p] + 1
      BY <1>0, <2>1, <2>5
    <3>2. Cardinality(RunningOf(p) \cup {w}) = Cardinality(RunningOf(p)) + 1
      BY <1>0, <2>3, CountWorks
    <3>3. activePerProcessor'[p] = Cardinality(RunningOf(p)')
      BY <2>2, <2>4, <2>5, <3>1, <3>2 DEF Counted
    <3>4. activePartitions'[p] = IF Partitioned(p) THEN {item[v].key : v \in RunningOf(p) \cup {w}} ELSE {}
      BY <1>0, <2>1, <2>4, <2>5 DEF Counted
    <3>5. Partitioned(p) => \A u, v \in RunningOf(p) \cup {w} : u # v => item[u].key # item[v].key
      BY <2>1, <2>4, <2>5 DEF Counted
    <3>. QED BY <2>1, <2>2, <2>5, <3>3, <3>4, <3>5 DEF Counted, Partitioned
  <2>6. CASE p # q
    <3>1. activePerProcessor'[p] = activePerProcessor[p] /\ activePartitions'[p] = activePartitions[p]
      BY <1>0, <2>1, <2>6
    <3>. QED BY <2>1, <2>2, <2>4, <2>6, <3>1 DEF Counted, Partitioned
  <2>. QED BY <2>5, <2>6
<1>3. ASSUME ~Over, NEW w \in Running, SelectJoin(w), Running' = Running \ {w}, UNCHANGED item
      PROVE  Counted(p)'
  <2> DEFINE q == Proc(w)
  <2>1. /\ activePerProcessor' = [activePerProcessor EXCEPT ![q] = @ - 1]
        /\ activePartitions' = [activePartitions EXCEPT ![q] = @ \ {item[w].key}]
    BY <1>3 DEF SelectJoin, Release
  <2>2. RunningOf(p)' = IF p = q THEN RunningOf(p) \ {w} ELSE RunningOf(p)
    BY <1>3 DEF RunningOf, Proc
  <2>3. p = q => w \in RunningOf(p)
    BY <1>3 DEF RunningOf
  <2> HIDE DEF q
  <2>4. Counted(p)
    BY <1>3 DEF CountersInv
  <2>5. CASE p = q
    <3>1. activePerProcessor'[p] = activePerProcessor[p] - 1 /\ activePartitions'[p] = activePartitions[p] \ {item[w].key}
      BY <1>0, <2>1, <2>5
    <3>2. Cardinality(RunningOf(p) \ {w}) = Cardinality(RunningOf(p)) - 1
      BY <1>0, <2>3, <2>5, CountWorks
    <3>3. activePerProcessor'[p] = Cardinality(RunningOf(p)')
      BY <2>2, <2>4, <2>5, <3>1, <3>2 DEF Counted
    <3>4. activePartitions'[p] = IF Partitioned(p) THEN {item[v].key : v \in RunningOf(p) \ {w}} ELSE {}
      BY <2>3, <2>4, <2>5, <3>1 DEF Counted
    <3>5. Partitioned(p) => \A u, v \in RunningOf(p) \ {w} : u # v => item[u].key # item[v].key
      BY <2>4 DEF Counted
    <3>. QED BY <1>3, <2>2, <2>5, <3>3, <3>4, <3>5 DEF Counted, Partitioned
  <2>6. CASE p # q
    <3>1. activePerProcessor'[p] = activePerProcessor[p] /\ activePartitions'[p] = activePartitions[p]
      BY <1>0, <2>1, <2>6
    <3>. QED BY <1>3, <2>2, <2>4, <2>6, <3>1 DEF Counted, Partitioned
  <2>. QED BY <2>5, <2>6
<1>4. CASE Restart /\ Running' = {}
  <2>1. RunningOf(p)' = {} /\ activePerProcessor'[p] = 0 /\ activePartitions'[p] = {}
    BY <1>4 DEF RunningOf, Restart
  <2>. QED BY <2>1, FS_EmptySet DEF Counted, Partitioned
<1>. QED BY <1>1, <1>2, <1>3, <1>4, RunningSteps

\* The counters of the scheduler count its tasks throughout a run.
LEMMA CountersInvariant == Spec => []CountersInv
<1>1. Init => CountersInv
  <2> SUFFICES ASSUME Init, NEW p \in Procs PROVE Counted(p)
    BY DEF CountersInv
  <2>1. RunningOf(p) = {} /\ activePerProcessor[p] = 0 /\ activePartitions[p] = {}
    BY DEF Init, RunningOf, Running, Unfinished, Finished
  <2>. QED BY <2>1, FS_EmptySet DEF Counted
<1>2. TypeOK /\ QueueInv /\ CountersInv /\ [Next]_vars => CountersInv'
  BY CountersKept
<1>. QED BY <1>1, <1>2, EngineTypes, QueueInvariant, PTL DEF Spec

\* active_per_processor and active_partitions are the tasks of the JoinSet,
\* whatever starts, retries, joins or restarts.
THEOREM CountersAreTasks == Spec => []CountersMatchTasks
<1>1. CountersInv => CountersMatchTasks
  BY DEF CountersInv, Counted, CountersMatchTasks, Alive, Over
<1>. QED BY <1>1, CountersInvariant, PTL

\* The tasks at depth d of the flow or above.
AtDepth(d) == {v \in Running : Depth[Proc(v)] >= d}

LeavesSlots(w) == Cardinality(AtDepth(Depth[Proc(w)])) <= MaxConcurrency - Depth[Proc(w)]

ConcurrencyInv ==
  ~Over =>
    /\ \A p \in Procs : Cardinality(RunningOf(p)) <= Limit(p)
    /\ \A w \in Running : LeavesSlots(w)

\* Every step keeps the slots.
LEMMA ConcurrencyKept ==
  TypeOK /\ QueueInv /\ CountersInv /\ ConcurrencyInv /\ [Next]_vars => ConcurrencyInv'
<1> SUFFICES ASSUME TypeOK, QueueInv, CountersInv, ConcurrencyInv, [Next]_vars, ~Over'
             PROVE  /\ \A p \in Procs : Cardinality(RunningOf(p)') <= Limit(p)
                    /\ \A w \in Running' : LeavesSlots(w)'
  BY DEF ConcurrencyInv, Limit
<1>0. /\ Running \subseteq Works /\ \A p : RunningOf(p) \subseteq Running
      /\ MaxConcurrency \in Nat /\ \A p \in Procs : Depth[p] \in Nat /\ Limit(p) \in Nat \ {0}
      /\ \A w \in Works : Proc(w) \in Procs
      /\ \A d : AtDepth(d) \subseteq Running
  <2>1. \A w \in Works : Proc(w) \in Procs
    BY ItemTypes DEF TypeOK, WorkTypes, Proc
  <2>2. MaxConcurrency \in Nat /\ \A p \in Procs : Depth[p] \in Nat /\ Limit(p) \in Nat \ {0}
    BY EngineAssumption DEF EngineAssumption, Validated, DepthIsLongestPath, Limit
  <2>. QED BY <2>1, <2>2 DEF Running, RunningOf, AtDepth
<1>1. CASE ~Over /\ Running' = Running /\ sameTasks /\ UNCHANGED activeVars
  <2>1. \A w \in Running : Proc(w)' = Proc(w)
    BY <1>1 DEF sameTasks
  <2>2. \A p : RunningOf(p)' = RunningOf(p)
    BY <1>1, <2>1 DEF RunningOf
  <2>3. \A d : AtDepth(d)' = AtDepth(d)
    BY <1>1, <2>1 DEF AtDepth
  <2>4. \A w \in Running : LeavesSlots(w)'
    BY <1>1, <2>1, <2>3 DEF ConcurrencyInv, LeavesSlots
  <2>. QED BY <1>1, <2>2, <2>4 DEF ConcurrencyInv
<1>2. CASE /\ ~Over /\ ScanStart /\ Head(pending) \in Works \ Running
           /\ Running' = Running \cup {Head(pending)} /\ UNCHANGED item
  <2> DEFINE x == Head(pending)
             q == Proc(x)
  <2>1. /\ x \in Works \ Running /\ Running' = Running \cup {x} /\ item' = item
        /\ ~(Cardinality(Running) + 1 + Depth[q] > MaxConcurrency)
        /\ ~(activePerProcessor[q] >= Limit(q))
    BY <1>2 DEF ScanStart, NoSlot
  <2>2. q \in Procs /\ \A w : Proc(w)' = Proc(w)
    BY <1>0, <2>1 DEF Proc
  <2>3. \A p : RunningOf(p)' = IF p = q THEN RunningOf(p) \cup {x} ELSE RunningOf(p)
    BY <2>1, <2>2 DEF RunningOf
  <2>4. x \notin RunningOf(q)
    BY <2>1 DEF RunningOf
  <2>5. \A d : AtDepth(d)' = IF Depth[q] >= d THEN AtDepth(d) \cup {x} ELSE AtDepth(d)
    BY <2>1, <2>2 DEF AtDepth
  <2>6. q = Proc(x)
    OBVIOUS
  <2> HIDE DEF x, q
  <2>7. Cardinality(RunningOf(q)) \in Nat /\ Cardinality(RunningOf(q) \cup {x}) = Cardinality(RunningOf(q)) + 1
    BY <1>0, <2>4, CountWorks
  <2>8. Cardinality(RunningOf(q)) < Limit(q)
    <3>1. activePerProcessor[q] = Cardinality(RunningOf(q))
      BY <1>2, <2>2 DEF CountersInv, Counted
    <3>. QED BY <1>0, <2>1, <2>2, <2>7, <3>1
  <2>9. \A p \in Procs : Cardinality(RunningOf(p)') <= Limit(p)
    <3>1. Cardinality(RunningOf(q) \cup {x}) <= Limit(q)
      BY <1>0, <2>2, <2>7, <2>8
    <3>. QED BY <1>2, <2>3, <3>1 DEF ConcurrencyInv
  <2>10. Cardinality(Running \cup {x}) \in Nat /\ Cardinality(Running \cup {x}) + Depth[q] <= MaxConcurrency
    <3>1. Cardinality(Running) \in Nat /\ Cardinality(Running \cup {x}) = Cardinality(Running) + 1
      BY <1>0, <2>1, CountWorks
    <3>. QED BY <1>0, <2>1, <2>2, <3>1
  <2>11. ASSUME NEW w \in Running' PROVE LeavesSlots(w)'
    <3> SUFFICES ASSUME NEW d, d = Depth[Proc(w)] PROVE LeavesSlots(w)'
      OBVIOUS
    <3>0. LeavesSlots(w)' <=> Cardinality(AtDepth(d)') <= MaxConcurrency - d
      BY <2>2 DEF LeavesSlots, AtDepth
    <3>1. d \in Nat /\ w \in Running \cup {x} /\ Running \cup {x} \in SUBSET Works
      BY <1>0, <2>1, <2>11
    <3>2. CASE Depth[q] >= d
      <4>1. AtDepth(d)' \subseteq Running \cup {x}
        BY <1>0, <2>5
      <4>2. Cardinality(AtDepth(d)') \in Nat /\ Cardinality(AtDepth(d)') <= Cardinality(Running \cup {x})
        BY <3>1, <4>1, CountWorks
      <4>3. Depth[q] \in Nat /\ MaxConcurrency \in Nat
        BY <1>0, <2>2
      <4>4. Cardinality(AtDepth(d)') <= MaxConcurrency - d
        BY <2>10, <3>1, <3>2, <4>2, <4>3
      <4>. QED BY <3>0, <4>4
    <3>3. CASE ~(Depth[q] >= d)
      <4>1. w # x
        <5>1. w = x => d = Depth[q]
          BY <2>6
        <5>2. d >= d
          BY <3>1
        <5>. QED BY <3>3, <5>1, <5>2
      <4>2. AtDepth(d)' = AtDepth(d)
        BY <2>5, <3>3
      <4>3. LeavesSlots(w)
        BY <1>2, <3>1, <4>1 DEF ConcurrencyInv
      <4>. QED BY <3>0, <4>2, <4>3 DEF LeavesSlots
    <3>. QED BY <3>2, <3>3
  <2>. QED BY <2>2, <2>9, <2>11
<1>3. ASSUME ~Over, NEW x \in Running, SelectJoin(x), Running' = Running \ {x}, UNCHANGED item
      PROVE  /\ \A p \in Procs : Cardinality(RunningOf(p)') <= Limit(p)
             /\ \A w \in Running' : LeavesSlots(w)'
  <2>1. \A w : Proc(w)' = Proc(w)
    BY <1>3 DEF Proc
  <2>2. \A p \in Procs : /\ RunningOf(p) \in SUBSET Works /\ RunningOf(p)' \in SUBSET RunningOf(p)
                         /\ Cardinality(RunningOf(p)) <= Limit(p)
    BY <1>0, <1>3, <2>1 DEF RunningOf, ConcurrencyInv
  <2>3. \A d : AtDepth(d) \in SUBSET Works /\ AtDepth(d)' \in SUBSET AtDepth(d)
    BY <1>0, <1>3, <2>1 DEF AtDepth
  <2>4. ASSUME NEW S \in SUBSET Works, NEW T \in SUBSET S, NEW n \in Int, Cardinality(S) <= n
        PROVE  Cardinality(T) <= n
    <3>1. Cardinality(S) \in Nat /\ Cardinality(T) \in Nat /\ Cardinality(T) <= Cardinality(S)
      BY CountWorks
    <3>. QED BY <2>4, <3>1
  <2>5. \A p \in Procs : Cardinality(RunningOf(p)') <= Limit(p)
    BY <1>0, <2>2, <2>4
  <2>6. ASSUME NEW w \in Running' PROVE LeavesSlots(w)'
    <3> SUFFICES ASSUME NEW d, d = Depth[Proc(w)] PROVE LeavesSlots(w)'
      OBVIOUS
    <3>1. Cardinality(AtDepth(d)) <= MaxConcurrency - d /\ MaxConcurrency - d \in Int
      BY <1>0, <1>3 DEF ConcurrencyInv, LeavesSlots
    <3>2. Cardinality(AtDepth(d)') <= MaxConcurrency - d
      BY <2>3, <2>4, <3>1
    <3>. QED BY <2>1, <3>2 DEF LeavesSlots, AtDepth
  <2>. QED BY <2>1, <2>5, <2>6
<1>4. CASE Restart /\ Running' = {}
  <2>1. \A p : RunningOf(p)' = {}
    BY <1>4 DEF RunningOf
  <2>2. Cardinality({}) = 0
    BY FS_EmptySet
  <2>. QED BY <1>0, <1>4, <2>1, <2>2
<1>. QED BY <1>1, <1>2, <1>3, <1>4, RunningSteps

\* The slots are kept throughout a run.
LEMMA ConcurrencyInvariant == Spec => []ConcurrencyInv
<1>1. Init => ConcurrencyInv
  <2> SUFFICES ASSUME Init PROVE ConcurrencyInv
    OBVIOUS
  <2>1. Running = {}
    BY DEF Init, Running, Unfinished, Finished
  <2>2. \A p \in Procs : RunningOf(p) = {} /\ Limit(p) \in Nat \ {0}
    BY <2>1, EngineAssumption DEF EngineAssumption, Validated, Limit, RunningOf
  <2>. QED BY <2>1, <2>2, FS_EmptySet DEF ConcurrencyInv
<1>2. TypeOK /\ QueueInv /\ CountersInv /\ ConcurrencyInv /\ [Next]_vars => ConcurrencyInv'
  BY ConcurrencyKept
<1>. QED BY <1>1, <1>2, EngineTypes, QueueInvariant, CountersInvariant, PTL DEF Spec

\* The scheduler never runs more tasks than concurrent_tasks (one under
\* preserve), than one per partition key, or than leave the stages below a
\* free slot each.
THEOREM ConcurrencyIsRespected == Spec => []ConcurrencyRespected
<1>1. CountersInv /\ ConcurrencyInv => ConcurrencyRespected
  BY DEF CountersInv, Counted, ConcurrencyInv, ConcurrencyRespected, AtDepth,
     LeavesSlots, Alive, Over
<1>. QED BY <1>1, CountersInvariant, ConcurrencyInvariant, PTL

----------------------------------------------------------------------------
(* Packet memory. *)

Holding(f, S, P) == {w \in S : f[w] \in P}

\* What the work items and their tasks hold, and what the router holds.
HeldByWork ==
  Cardinality(Holding(phase, Works \ Sources, {"pending"} \cup Unfinished))
    + Cardinality(Holding(phase, Works \ Sources, {"execute", "send"}))
    + Cardinality(Holding(phase, Works, {"send", "sendFailure"}))

HeldByRouter == Len(channel) + Len(deferred) + Len(routing) + Len(branches)

\* What an item holds in a phase.
Weight(w, step) ==
  (IF w \in Works \ Sources /\ step \in {"pending"} \cup Unfinished THEN 1 ELSE 0)
    + (IF w \in Works \ Sources /\ step \in {"execute", "send"} THEN 1 ELSE 0)
    + (IF w \in Works /\ step \in {"send", "sendFailure"} THEN 1 ELSE 0)

MemoryInv ==
  /\ ~Over => Used <= Units
  /\ ~Over /\ pc # "publish" => routing = <<>> /\ branches = <<>>
  /\ pc = "start" => deferred = <<>> /\ channel = <<>>
  /\ ~Over => \A w \in Rows : phase[w] # "reserve"

\* A set is what it has besides w, and w.
LEMMA CountOne ==
  ASSUME NEW S \in SUBSET Works, NEW w
  PROVE  /\ Cardinality(S \ {w}) \in Nat
         /\ Cardinality(S) = Cardinality(S \ {w}) + (IF w \in S THEN 1 ELSE 0)
<1>1. CASE w \in S
  <2>1. Cardinality(S) \in Nat /\ Cardinality(S \ {w}) = Cardinality(S) - 1 /\ Cardinality(S \ {w}) \in Nat
    <3>1. S \ {w} \in SUBSET S
      OBVIOUS
    <3>. QED BY <1>1, <3>1, CountWorks
  <2>. QED BY <1>1, <2>1
<1>2. CASE w \notin S
  <2>1. S \ {w} = S
    BY <1>2
  <2>2. Cardinality(S) \in Nat
    BY CountWorks
  <2>. QED BY <1>2, <2>1, <2>2
<1>. QED BY <1>1, <1>2

\* The sum of the parts.
SumsUp ==
  /\ Used = HeldByWork + HeldByRouter
  /\ HeldByWork \in Nat /\ HeldByRouter \in Nat
  /\ Len(channel) \in Nat /\ Len(deferred) \in Nat /\ Len(routing) \in Nat /\ Len(branches) \in Nat

\* Packet memory in use is what the work and the router hold.
LEMMA UsedSum == TypeOK => SumsUp
<1> SUFFICES ASSUME TypeOK PROVE SumsUp
  OBVIOUS
<1>1. /\ Len(channel) \in Nat /\ Len(deferred) \in Nat /\ Len(routing) \in Nat /\ Len(branches) \in Nat
  BY DEF TypeOK, RouterTypes
<1>2. \A S \in SUBSET Works : \A P : Cardinality(Holding(phase, S, P)) \in Nat
  <2>1. \A S \in SUBSET Works : \A P : Holding(phase, S, P) \in SUBSET Works
    BY DEF Holding
  <2>. QED BY <2>1, CountWorks
<1>3. /\ Cardinality(Holding(phase, Works \ Sources, {"pending"} \cup Unfinished)) \in Nat
      /\ Cardinality(Holding(phase, Works \ Sources, {"execute", "send"})) \in Nat
      /\ Cardinality(Holding(phase, Works, {"send", "sendFailure"})) \in Nat
  BY <1>2
<1>4. Used = HeldByWork + HeldByRouter
  BY <1>1, <1>3 DEF Used, HeldByWork, HeldByRouter, Holding
<1>. QED BY <1>1, <1>3, <1>4 DEF SumsUp, HeldByWork, HeldByRouter

\* The same after a step.
LEMMA UsedSumNext == TypeOK' => SumsUp'
BY UsedSum, PTL

\* An item that goes from one phase to another changes what is held by the
\* difference of their weights.
LEMMA WorkMoves ==
  ASSUME TypeOK, NEW w \in Works, NEW step, phase' = [phase EXCEPT ![w] = step]
  PROVE  /\ HeldByWork' = HeldByWork + Weight(w, step) - Weight(w, phase[w])
         /\ Weight(w, step) \in Nat /\ Weight(w, phase[w]) \in Nat
<1> DEFINE a == {"pending"} \cup Unfinished
           b == {"execute", "send"}
           c == {"send", "sendFailure"}
           R == Works \ Sources
           A == Holding(phase, R, a)
           B == Holding(phase, R, b)
           C == Holding(phase, Works, c)
           A1 == Holding(phase', R, a)
           B1 == Holding(phase', R, b)
           C1 == Holding(phase', Works, c)
<1>0. phase \in [Works -> Phases]
  BY DEF TypeOK, WorkTypes
<1>1. /\ HeldByWork = Cardinality(A) + Cardinality(B) + Cardinality(C)
      /\ HeldByWork' = Cardinality(A1) + Cardinality(B1) + Cardinality(C1)
  BY DEF HeldByWork, Unfinished
<1>2. /\ Weight(w, phase[w]) = (IF w \in A THEN 1 ELSE 0) + (IF w \in B THEN 1 ELSE 0)
           + (IF w \in C THEN 1 ELSE 0)
      /\ Weight(w, step) = (IF w \in A1 THEN 1 ELSE 0) + (IF w \in B1 THEN 1 ELSE 0)
           + (IF w \in C1 THEN 1 ELSE 0)
  BY <1>0 DEF Weight, Holding
<1>3. /\ A \in SUBSET Works /\ B \in SUBSET Works /\ C \in SUBSET Works
      /\ A1 \in SUBSET Works /\ B1 \in SUBSET Works /\ C1 \in SUBSET Works
  BY DEF Holding
<1>4. A1 \ {w} = A \ {w} /\ B1 \ {w} = B \ {w} /\ C1 \ {w} = C \ {w}
  BY <1>0 DEF Holding
<1> HIDE DEF A, B, C, A1, B1, C1
<1>5. /\ Cardinality(A) = Cardinality(A \ {w}) + (IF w \in A THEN 1 ELSE 0)
      /\ Cardinality(A1) = Cardinality(A \ {w}) + (IF w \in A1 THEN 1 ELSE 0)
      /\ Cardinality(A \ {w}) \in Nat
  BY <1>3, <1>4, CountOne
<1>6. /\ Cardinality(B) = Cardinality(B \ {w}) + (IF w \in B THEN 1 ELSE 0)
      /\ Cardinality(B1) = Cardinality(B \ {w}) + (IF w \in B1 THEN 1 ELSE 0)
      /\ Cardinality(B \ {w}) \in Nat
  BY <1>3, <1>4, CountOne
<1>7. /\ Cardinality(C) = Cardinality(C \ {w}) + (IF w \in C THEN 1 ELSE 0)
      /\ Cardinality(C1) = Cardinality(C \ {w}) + (IF w \in C1 THEN 1 ELSE 0)
      /\ Cardinality(C \ {w}) \in Nat
  BY <1>3, <1>4, CountOne
<1>. QED BY <1>1, <1>2, <1>5, <1>6, <1>7

\* A task takes memory only while there is some.
LEMMA TasksKeepMemory ==
  ASSUME TypeOK, TypeOK', MemoryInv, NEW w \in Works, TaskStep(w)
  PROVE  Used' <= Units /\ \A v \in Rows : phase'[v] # "reserve"
<1>0. /\ Used <= Units /\ Units \in Nat
      /\ phase \in [Works -> Phases] /\ \A v \in Rows : v \in Works /\ phase[v] # "reserve"
      /\ (w \in Rows <=> w \notin Sources) /\ (w \in Sources <=> IsSourceSeed(w))
  BY ConstantTypes, TaskPhases DEF MemoryInv, Works, IsSourceSeed, TypeOK, WorkTypes
<1>1. /\ Used = HeldByWork + HeldByRouter /\ HeldByWork \in Nat /\ HeldByRouter \in Nat
      /\ Used' = HeldByWork' + HeldByRouter' /\ HeldByWork' \in Nat /\ HeldByRouter' \in Nat
  BY UsedSum, UsedSumNext DEF SumsUp
<1> DEFINE Fits(step) ==
      /\ phase' = [phase EXCEPT ![w] = step]
      /\ \/ Weight(w, step) <= Weight(w, phase[w])
         \/ Used < Units /\ Weight(w, step) <= Weight(w, phase[w]) + 1
      /\ step = "reserve" => w \in Sources
<1>2. ASSUME NEW step, Fits(step), UNCHANGED HeldByRouter PROVE Used' <= Units
  <2>1. /\ HeldByWork' = HeldByWork + Weight(w, step) - Weight(w, phase[w])
        /\ Weight(w, step) \in Nat /\ Weight(w, phase[w]) \in Nat
    BY <1>2, WorkMoves
  <2>. QED BY <1>0, <1>1, <1>2, <2>1
<1>4. ASSUME NEW step, phase' = [phase EXCEPT ![w] = step], step = "reserve" => w \in Sources
      PROVE  \A v \in Rows : phase'[v] # "reserve"
  BY <1>0, <1>4
<1>12. ASSUME NEW step, Fits(step), UNCHANGED HeldByRouter
       PROVE  Used' <= Units /\ \A v \in Rows : phase'[v] # "reserve"
  <2>1. Used' <= Units
    BY <1>2, <1>12
  <2>2. \A v \in Rows : phase'[v] # "reserve"
    BY <1>4, <1>12
  <2>. QED BY <2>1, <2>2
<1> USE DEF Becomes, Weight, Unfinished, Errs
<1>5. CASE TaskBegin(w)
  <2>1. /\ phase[w] = "try"
        /\ \/ IsSourceSeed(w) /\ phase' = [phase EXCEPT ![w] = "execute"]
           \/ Used < Units /\ phase' = [phase EXCEPT ![w] = "execute"]
           \/ phase' = [phase EXCEPT ![w] = "try"] \/ phase' = [phase EXCEPT ![w] = "giveUp"]
    BY <1>5 DEF TaskBegin
  <2>2. UNCHANGED HeldByRouter
    BY <1>5 DEF TaskBegin, TaskFrame, loopVars, HeldByRouter
  <2>3. \E step : Fits(step)
    BY <1>0, <2>1
  <2>. QED BY <1>12, <2>2, <2>3
<1>6. ASSUME NEW rel, NEW key, NEW n, TaskEmit(w, rel, key, n)
      PROVE  Used' <= Units /\ \A v \in Rows : phase'[v] # "reserve"
  <2>1. /\ phase[w] = "execute"
        /\ \/ Used < Units /\ phase' = [phase EXCEPT ![w] = "send"]
           \/ w \in Sources /\ phase' = [phase EXCEPT ![w] = "reserve"]
    BY <1>0, <1>6 DEF TaskEmit
  <2>2. UNCHANGED HeldByRouter
    BY <1>6 DEF TaskEmit, TaskFrame, loopVars, HeldByRouter
  <2>3. CASE Used < Units /\ phase' = [phase EXCEPT ![w] = "send"]
    <3>1. Fits("send")
      BY <2>1, <2>3
    <3>. QED BY <1>12, <2>2, <3>1
  <2>4. CASE w \in Sources /\ phase' = [phase EXCEPT ![w] = "reserve"]
    <3>1. Fits("reserve")
      BY <2>1, <2>4
    <3>. QED BY <1>12, <2>2, <3>1
  <2>. QED BY <2>1, <2>3, <2>4
<1>7. CASE TaskReserve(w)
  <2>1. /\ Used < Units
        /\ \/ w \in Sources /\ phase[w] = "reserve" /\ phase' = [phase EXCEPT ![w] = "send"]
           \/ phase[w] = "reserveFailure" /\ phase' = [phase EXCEPT ![w] = "sendFailure"]
    BY <1>0, <1>7 DEF TaskReserve
  <2>2. UNCHANGED HeldByRouter
    BY <1>7 DEF TaskReserve, TaskFrame, loopVars, HeldByRouter
  <2>3. \E step : Fits(step)
    BY <1>0, <2>1
  <2>. QED BY <1>12, <2>2, <2>3
<1>8. CASE TaskSend(w)
  <2>1. /\ \/ phase[w] = "send" /\ phase' = [phase EXCEPT ![w] = "execute"]
           \/ phase[w] = "sendFailure" /\ phase' = [phase EXCEPT ![w] = "deadLetter"]
        /\ channel' = channel \o out[w] /\ UNCHANGED <<deferred, routing, branches>>
    BY <1>8 DEF TaskSend, TaskFrame, loopVars
  <2>2. out[w] \in Seq(Emissions) /\ Len(out[w]) <= 1 /\ channel \in Seq(Emissions)
    BY DEF TypeOK, WorkTypes, RouterTypes
  <2>3. Len(channel') <= Len(channel) + 1
    BY <2>1, <2>2
  <2>4. HeldByRouter' <= HeldByRouter + 1
    <3>1. /\ Len(channel) \in Nat /\ Len(deferred) \in Nat /\ Len(routing) \in Nat /\ Len(branches) \in Nat
          /\ Len(channel') \in Nat
      BY UsedSum, UsedSumNext DEF SumsUp
    <3>. QED BY <2>1, <2>3, <3>1 DEF HeldByRouter
  <2>5. PICK step \in {"execute", "deadLetter"} :
           phase' = [phase EXCEPT ![w] = step] /\ Weight(w, step) + 1 <= Weight(w, phase[w])
    BY <2>1
  <2>6. /\ HeldByWork' = HeldByWork + Weight(w, step) - Weight(w, phase[w])
        /\ Weight(w, step) \in Nat /\ Weight(w, phase[w]) \in Nat
    BY <2>5, WorkMoves
  <2> HIDE DEF Weight
  <2>7. Used' <= Units
    BY <1>0, <1>1, <2>4, <2>5, <2>6
  <2>. QED BY <1>4, <2>5, <2>7
<1>9. CASE TaskReturn(w) \/ TaskFatal(w) \/ \E retryable \in BOOLEAN : TaskError(w, retryable)
  <2>1. /\ phase[w] = "execute"
        /\ \E step : step \in {"done", "fatal", "try", "giveUp"} /\ phase' = [phase EXCEPT ![w] = step]
    BY <1>9 DEF TaskReturn, TaskFatal, TaskError
  <2>2. UNCHANGED HeldByRouter
    BY <1>9 DEF TaskReturn, TaskFatal, TaskError, TaskFrame, loopVars, HeldByRouter
  <2>3. \E step : Fits(step)
    <3>1. PICK step : step \in {"done", "fatal", "try", "giveUp"} /\ phase' = [phase EXCEPT ![w] = step]
      BY <2>1
    <3>2. Weight(w, step) <= Weight(w, phase[w])
      BY <1>0, <2>1, <3>1
    <3>. QED BY <3>1, <3>2
  <2>. QED BY <1>12, <2>2, <2>3
<1>10. CASE TaskTimeout(w)
  <2>1. /\ phase[w] \in {"execute", "reserve", "send"}
        /\ \E step : step \in {"try", "giveUp"} /\ phase' = [phase EXCEPT ![w] = step]
    BY <1>10 DEF TaskTimeout
  <2>2. UNCHANGED HeldByRouter
    BY <1>10 DEF TaskTimeout, TaskFrame, loopVars, HeldByRouter
  <2>3. \E step : Fits(step)
    <3>1. PICK step : step \in {"done", "fatal", "try", "giveUp"} /\ phase' = [phase EXCEPT ![w] = step]
      BY <2>1
    <3>2. Weight(w, step) <= Weight(w, phase[w])
      BY <1>0, <2>1, <3>1
    <3>. QED BY <3>1, <3>2
  <2>. QED BY <1>12, <2>2, <2>3
<1>11. CASE TaskGiveUp(w)
  <2>1. /\ phase[w] = "giveUp"
        /\ \/ Used < Units /\ phase' = [phase EXCEPT ![w] = "sendFailure"]
           \/ phase' = [phase EXCEPT ![w] = "reserveFailure"]
           \/ phase' = [phase EXCEPT ![w] = "deadLetter"]
    BY <1>11 DEF TaskGiveUp
  <2>2. UNCHANGED HeldByRouter
    BY <1>11 DEF TaskGiveUp, TaskFrame, loopVars, HeldByRouter
  <2>3. \E step : Fits(step)
    BY <1>0, <2>1
  <2>. QED BY <1>12, <2>2, <2>3
<1>. QED BY <1>5, <1>6, <1>7, <1>8, <1>9, <1>10, <1>11 DEF TaskStep

\* What the router does with an emission: it is kept for later, or takes
\* memory for each of its branches.
LEMMA RouteMemory ==
  ASSUME TypeOK, NEW emission \in Emissions, NEW step \in {"top", "schedule"}, Route(emission, step)
  PROVE  \/ deferred' = <<emission>> /\ UNCHANGED <<routing, branches>> /\ pc' = step
         \/ /\ deferred' = <<>> /\ routing' = <<emission>> /\ pc' = "publish"
            /\ Used + Len(branches') <= Units
<1> DEFINE next == Outgoing(Proc(emission.source), emission.relationship)
<1>1. CASE Hold(emission, step)
  BY <1>1 DEF Hold, Goto
<1>2. CASE ~MemoryFull(next) /\ deferred' = <<>> /\ routing' = <<emission>> /\ branches' = next /\ Goto("publish")
  <2>1. ~(Used + Len(branches') > Units)
    BY <1>2 DEF MemoryFull
  <2>2. Used \in Nat /\ Len(branches') \in Nat /\ Units \in Nat
    BY RouteTypes, UsedSum, ConstantTypes DEF SumsUp
  <2>. QED BY <1>2, <2>1, <2>2 DEF Goto
<1>. QED BY <1>1, <1>2 DEF Route

\* The length of a sequence that holds one element at most.
LEMMA AtMostOne ==
  ASSUME NEW S, NEW s \in Seq(S), Len(s) <= 1
  PROVE  (s = <<>> => Len(s) = 0) /\ (s # <<>> => Len(s) = 1)
<1>1. Len(s) \in Nat /\ (Len(s) = 0 <=> s = <<>>)
  BY EmptySeq, LenProperties
<1>2. \A n \in Nat : n <= 1 => n = 0 \/ n = 1
  OBVIOUS
<1>. QED BY <1>1, <1>2, Zenon

\* Every step keeps packet memory within its units.
LEMMA MemoryKept == TypeOK /\ QueueInv /\ MemoryInv /\ [Next]_vars => MemoryInv'
<1> SUFFICES ASSUME TypeOK, QueueInv, MemoryInv, [Next]_vars PROVE MemoryInv'
  OBVIOUS
<1>0. TypeOK'
  BY TypeKept
<1>1. Restart \/ ((Over => Over') /\ (pc' = "start" => pc = "start"))
  BY StartsOver
<1>2. ~Over' => Used' <= Units
  <2> SUFFICES ASSUME ~Over' PROVE Used' <= Units
    OBVIOUS
  <2>0. /\ phase \in [Works -> Phases] /\ phase' \in [Works -> Phases] /\ Works \ Sources \subseteq Rows
        /\ row \in [Rows -> Statuses]
    BY <1>0, ConstantTypes DEF TypeOK, WorkTypes, Works
  <2>13. Units \in Nat
    BY ConstantTypes
  <2>1. /\ Used = HeldByWork + HeldByRouter /\ HeldByWork \in Nat /\ HeldByRouter \in Nat
        /\ Used' = HeldByWork' + HeldByRouter' /\ HeldByWork' \in Nat /\ HeldByRouter' \in Nat
    BY <1>0, UsedSum, UsedSumNext DEF SumsUp
  <2>12. /\ Len(channel) \in Nat /\ Len(deferred) \in Nat /\ Len(routing) \in Nat /\ Len(branches) \in Nat
        /\ Len(channel') \in Nat /\ Len(deferred') \in Nat /\ Len(routing') \in Nat /\ Len(branches') \in Nat
        /\ HeldByRouter = Len(channel) + Len(deferred) + Len(routing) + Len(branches)
        /\ HeldByRouter' = Len(channel') + Len(deferred') + Len(routing') + Len(branches')
    BY <1>0, UsedSum, UsedSumNext DEF SumsUp, HeldByRouter
  <2>2. CASE Restart
    <3>2. /\ Holding(phase', Works \ Sources, {"pending"} \cup Unfinished) = {}
          /\ Holding(phase', Works \ Sources, {"execute", "send"}) = {}
          /\ Holding(phase', Works, {"send", "sendFailure"}) = {}
      BY <2>2 DEF Restart, Holding, Unfinished
    <3>3. HeldByWork' = 0
      BY <3>2, FS_EmptySet DEF HeldByWork, Unfinished
    <3>4. HeldByRouter' = 0
      BY <2>2 DEF Restart, HeldByRouter
    <3>. QED BY <2>1, <2>13, <3>3, <3>4, ConstantTypes
  <2> SUFFICES ASSUME ~Over PROVE Used' <= Units
    BY <1>1, <2>2
  <2>3. Used <= Units
    BY DEF MemoryInv
  <2>4. ASSUME NEW w \in Works, NEW step, phase' = [phase EXCEPT ![w] = step],
               Weight(w, step) <= Weight(w, phase[w]), UNCHANGED HeldByRouter
        PROVE  Used' <= Units
    <3>1. /\ HeldByWork' = HeldByWork + Weight(w, step) - Weight(w, phase[w])
          /\ Weight(w, step) \in Nat /\ Weight(w, phase[w]) \in Nat
      BY <2>4, WorkMoves
    <3>. QED BY <2>1, <2>13, <2>3, <2>4, <3>1
  <2>5. ASSUME UNCHANGED phase PROVE HeldByWork' = HeldByWork
    BY <2>5 DEF HeldByWork, Holding
  <2>6. ASSUME NEW old \in SUBSET Rows, Recover(old) PROVE Used' <= Units
    <3>1. /\ pc = "start" /\ Cardinality(Waiting \cup old) <= Units
          /\ Range(pending') \cap Rows \subseteq Waiting \cup old
          /\ phase' = [w \in Works |-> IF w \in Range(pending') THEN "pending" ELSE "none"]
          /\ UNCHANGED <<channel, deferred, routing, branches>>
      <4>1. ~Fails("memory")
        BY DEF Fails, Goto, Over
      <4>2. PICK order \in Orders(Waiting \cup old) : pending' = IF order = <<>> THEN Seeds ELSE order
        BY <2>6, <4>1 DEF Recover
      <4>3. Waiting \cup old \in SUBSET Rows
        BY DEF Waiting
      <4>4. Range(pending') \cap Rows \subseteq Waiting \cup old
        <5>1. CASE order = <<>>
          BY <4>2, <5>1, ConstantTypes DEF Range
        <5>2. CASE order # <<>>
          BY <4>2, <4>3, <5>2, OrdersOnce
        <5>. QED BY <5>1, <5>2
      <4>5. /\ pc = "start" /\ ~(Cardinality(Waiting \cup old) > Units)
            /\ phase' = [w \in Works |-> IF w \in Range(pending') THEN "pending" ELSE "none"]
            /\ UNCHANGED <<channel, deferred, routing, branches>>
        BY <2>6, <4>1 DEF Recover
      <4>6. Cardinality(Waiting \cup old) \in Nat
        <5>1. Waiting \cup old \in SUBSET Works
          BY <4>3 DEF Works
        <5>. QED BY <5>1, CountWorks
      <4>. QED BY <2>13, <4>4, <4>5, <4>6
    <3>2. /\ Holding(phase', Works \ Sources, {"pending"} \cup Unfinished) \subseteq Waiting \cup old
          /\ Holding(phase', Works \ Sources, {"execute", "send"}) = {}
          /\ Holding(phase', Works, {"send", "sendFailure"}) = {}
      BY <2>0, <3>1 DEF Holding, Unfinished
    <3>3. HeldByWork' <= Units
      <4>1. Waiting \cup old \in SUBSET Works
        BY DEF Waiting, Works
      <4>2. /\ Cardinality(Waiting \cup old) \in Nat
            /\ Cardinality(Holding(phase', Works \ Sources, {"pending"} \cup Unfinished)) \in Nat
            /\ Cardinality(Holding(phase', Works \ Sources, {"pending"} \cup Unfinished)) <= Cardinality(Waiting \cup old)
        BY <3>2, <4>1, CountWorks
      <4>3. HeldByWork' = Cardinality(Holding(phase', Works \ Sources, {"pending"} \cup Unfinished))
        BY <3>2, <4>2, FS_EmptySet DEF HeldByWork, Unfinished
      <4>. QED BY <2>13, <3>1, <4>2, <4>3
    <3>4. HeldByRouter' = 0
      BY <3>1 DEF MemoryInv, HeldByRouter
    <3>5. PICK n \in Nat : HeldByWork' = n /\ n <= Units
      BY <2>1, <3>3
    <3>. QED BY <2>1, <2>13, <3>4, <3>5
  <2>7. CASE Publish
    <3> DEFINE w == created + 1
    <3>1. /\ w \in Rows /\ w > created /\ phase' = [phase EXCEPT ![w] = "pending"]
          /\ branches # <<>> /\ branches' = Tail(branches) /\ UNCHANGED <<channel, deferred, routing>>
      BY <2>7, ConstantTypes DEF Publish, TypeOK, WorkTypes, Rows
    <3> HIDE DEF w
    <3>2. w \in Works /\ phase[w] = "none"
      <4>1. w \in Works /\ row[w] = "ABSENT"
        BY <3>1 DEF QueueInv, Works
      <4>2. phase[w] # "pending" /\ phase[w] \notin Unfinished \cup Finished
        BY <3>1, <4>1 DEF QueueInv
      <4>. QED BY <2>0, <4>1, <4>2 DEF Phases
    <3>3. Weight(w, "pending") <= 1 /\ Weight(w, "none") = 0
      BY DEF Weight, Unfinished
    <3>4. HeldByWork' = HeldByWork + Weight(w, "pending") - Weight(w, phase[w]) /\ Weight(w, "pending") \in Nat
      BY <3>1, <3>2, WorkMoves
    <3>5. Len(branches') = Len(branches) - 1
      BY <3>1 DEF TypeOK, RouterTypes
    <3>6. HeldByRouter' = HeldByRouter - 1
      BY <2>12, <3>1, <3>5
    <3>. QED BY <2>1, <2>13, <2>3, <3>2, <3>3, <3>4, <3>6
  <2>8. CASE ScanPostpone \/ \E w \in Rows : RequeueDeadLetter(w)
    <3>1. UNCHANGED <<phase, channel, deferred, routing, branches>>
      BY <2>8 DEF ScanPostpone, RequeueDeadLetter, taskVars, loopVars
    <3>. QED BY <2>1, <2>3, <2>13, <2>5, <3>1 DEF HeldByRouter
  <2>9. CASE ScanStart
    <3>1. UNCHANGED HeldByRouter
      BY <2>9 DEF ScanStart, HeldByRouter
    <3> DEFINE w == Head(pending)
    <3>2. w \in Works /\ phase[w] = "pending" /\ phase' = [phase EXCEPT ![w] = "try"]
      BY <2>9, ScanStarts
    <3> HIDE DEF w
    <3>3. Weight(w, "try") <= Weight(w, phase[w])
      BY <3>2 DEF Weight, Unfinished
    <3>. QED BY <2>4, <3>1, <3>2, <3>3
  <2>10. ASSUME NEW w \in Works, SelectJoin(w) PROVE Used' <= Units
    <3>1. UNCHANGED HeldByRouter /\ phase' = [phase EXCEPT ![w] = "none"]
      BY <2>10 DEF SelectJoin, HeldByRouter
    <3>2. Weight(w, "none") <= Weight(w, phase[w])
      BY DEF Weight, Unfinished
    <3>. QED BY <2>4, <3>1, <3>2
  <2>11. CASE UNCHANGED <<pending, workVars, taskVars>>
    <3>0. HeldByWork' = HeldByWork
      BY <2>5, <2>11 DEF taskVars
    <3>1. ASSUME NEW emission \in Emissions, NEW step \in {"top", "schedule"}, Route(emission, step),
                 routing = <<>>, branches = <<>>,
                 \/ channel' = channel /\ deferred # <<>>
                 \/ Len(channel') = Len(channel) - 1 /\ deferred = <<>>
          PROVE  Used' <= Units
      <4>0. Len(routing) = 0 /\ Len(branches) = 0
        BY <3>1
      <4>1. (deferred # <<>> => Len(deferred) = 1) /\ (deferred = <<>> => Len(deferred) = 0)
        <5>1. deferred \in Seq(Emissions) /\ Len(deferred) <= 1
          BY DEF TypeOK, RouterTypes
        <5>. QED BY <5>1, AtMostOne
      <4>5. Len(channel') = Len(channel) + Len(deferred) - 1
        <5>1. CASE channel' = channel /\ deferred # <<>>
          <6>1. Len(deferred) = 1 /\ Len(channel) \in Nat
            BY <2>12, <4>1, <5>1
          <6>2. Len(channel') = Len(channel)
            BY <5>1
          <6>. QED BY ONLY <6>1, <6>2
        <5>2. CASE Len(channel') = Len(channel) - 1 /\ deferred = <<>>
          BY <2>12, <4>1, <5>2
        <5>. QED BY <3>1, <5>1, <5>2
      <4>2. CASE deferred' = <<emission>> /\ UNCHANGED <<routing, branches>>
        <5>1. Len(deferred') = 1 /\ Len(routing') = 0 /\ Len(branches') = 0
          BY <4>0, <4>2
        <5>. QED BY <2>1, <2>13, <2>3, <2>12, <3>0, <4>0, <4>1, <4>5, <5>1
      <4>3. CASE deferred' = <<>> /\ routing' = <<emission>> /\ Used + Len(branches') <= Units
        <5>1. Len(deferred') = 0 /\ Len(routing') = 1
          BY <4>3
        <5>. QED BY <2>1, <2>13, <2>12, <3>0, <4>0, <4>1, <4>3, <4>5, <5>1
      <4>. QED BY <3>1, <4>2, <4>3, RouteMemory
    <3>2. CASE RouteDeferred
      <4> DEFINE emission == deferred[1]
      <4>1. /\ pc = "top" /\ emission \in Emissions /\ Route(emission, "schedule") /\ deferred # <<>>
            /\ channel' = channel
        BY <3>2 DEF RouteDeferred, TypeOK, RouterTypes
      <4>2. routing = <<>> /\ branches = <<>>
        BY <4>1 DEF MemoryInv
      <4>3. "schedule" \in {"top", "schedule"}
        OBVIOUS
      <4> HIDE DEF emission
      <4>. QED BY <3>1, <4>1, <4>2, <4>3
    <3>3. CASE SelectReceive
      <4>1. /\ pc = "select" /\ Head(channel) \in Emissions /\ Route(Head(channel), "top") /\ deferred = <<>>
            /\ Len(channel') = Len(channel) - 1
        BY <3>3 DEF SelectReceive, TypeOK, RouterTypes
      <4>. QED BY <3>1, <4>1 DEF MemoryInv
    <3>4. CASE SettleReceive
      <4>1. Len(channel') = Len(channel) - 1 /\ Len(deferred') = 1 /\ UNCHANGED <<routing, branches>>
        BY <3>4 DEF SettleReceive, TypeOK, RouterTypes
      <4>. QED BY <2>1, <2>13, <2>3, <2>12, <3>0, <4>1
    <3>5. CASE Published
      <4>1. Len(routing') = 0 /\ UNCHANGED <<channel, deferred, branches>>
        BY <3>5 DEF Published
      <4>. QED BY <2>1, <2>13, <2>3, <2>12, <3>0, <4>1
    <3>6. CASE UNCHANGED routerVars
      BY <2>1, <2>3, <2>13, <3>0, <3>6 DEF routerVars, HeldByRouter
    <3>7. pc' # "failed"
      BY DEF Over
    <3>8. ASSUME NEW w \in Works, TaskSend(w) PROVE Used' <= Units
      <4>1. phase' = [phase EXCEPT ![w] = IF phase[w] = "send" THEN "execute" ELSE "deadLetter"]
            /\ phase[w] \in {"send", "sendFailure"} /\ phase' = phase
        BY <2>11, <3>8 DEF TaskSend, Becomes, taskVars
      <4>. QED BY <2>0, <4>1
    <3>. QED BY <2>2, <2>7, <3>2, <3>3, <3>4, <3>5, <3>6, <3>7, <3>8, RouterSteps
  <2>. QED
    BY <1>0, <2>2, <2>6, <2>7, <2>8, <2>9, <2>10, <2>11, TasksKeepMemory, WorkSteps
<1>3. ~Over' /\ pc' # "publish" => routing' = <<>> /\ branches' = <<>>
  <2> SUFFICES ASSUME ~Over', pc' # "publish" PROVE routing' = <<>> /\ branches' = <<>>
    OBVIOUS
  <2>0. Restart \/ ~Over
    BY <1>1
  <2>1. CASE Restart
    BY <2>1 DEF Restart
  <2>2. CASE RouteDeferred
    <3>1. pc = "top" /\ deferred[1] \in Emissions /\ Route(deferred[1], "schedule")
      BY <2>2 DEF RouteDeferred, TypeOK, RouterTypes
    <3>. QED BY <3>1, RouteMemory DEF MemoryInv, Over
  <2>3. CASE SelectReceive
    <3>1. pc = "select" /\ Head(channel) \in Emissions /\ Route(Head(channel), "top")
      BY <2>3 DEF SelectReceive, TypeOK, RouterTypes
    <3>. QED BY <3>1, RouteMemory DEF MemoryInv, Over
  <2>4. CASE UNCHANGED <<routerVars, pc>> \/ (UNCHANGED routerVars /\ pc # "publish")
    BY <2>0, <2>1, <2>4 DEF routerVars, MemoryInv
  <2>5. CASE pc' = "failed"
    BY <2>5 DEF Over
  <2>6. CASE Publish \/ Published \/ SettleReceive
    BY <2>6 DEF Publish, Published, SettleReceive, MemoryInv, Over
  <2>7. ASSUME NEW w \in Works, TaskSend(w) PROVE routing' = <<>> /\ branches' = <<>>
    BY <2>0, <2>1, <2>7 DEF TaskSend, TaskFrame, loopVars, MemoryInv
  <2>. QED BY <2>1, <2>2, <2>3, <2>4, <2>5, <2>6, <2>7, RouterSteps
<1>4. pc' = "start" => deferred' = <<>> /\ channel' = <<>>
  <2> SUFFICES ASSUME pc' = "start" PROVE deferred' = <<>> /\ channel' = <<>>
    OBVIOUS
  <2>1. CASE Restart
    BY <2>1 DEF Restart
  <2>2. CASE pc = "start" /\ UNCHANGED routerVars
    BY <2>2 DEF routerVars, MemoryInv
  <2>3. ASSUME NEW w \in Works, TaskStep(w), pc = "start" PROVE FALSE
    BY <2>3 DEF TaskStep, Alive
  <2>4. CASE pc = "start" /\ ~Restart
    <3>1. UNCHANGED routerVars
      BY <2>4, <2>3 DEF Next, LoopStep, Join, Recover, Publish, Published, LoopStop, LoopWait, Subscribe, WakeUp,
         RouteDeferred, NothingDeferred, ScheduleOff, ScheduleOn, ScanPostpone, ScanKeyMissing, ScanStart,
         ScanEnd, SettleEnd, SettleReceive, SettleStalled, SettleOn, SelectJoin, SelectFatal, SelectReceive,
         SelectStall, SelectTick, SelectElse, Scanning, Operator, Pause, Resume, Drain, Command,
         RequeueDeadLetter, Abort, routerVars, loopVars, vars
    <3>. QED BY <2>2, <2>4, <3>1
  <2>. QED BY <1>1, <2>1, <2>4
<1>5. ~Over' => \A w \in Rows : phase'[w] # "reserve"
  <2> SUFFICES ASSUME ~Over' PROVE \A w \in Rows : phase'[w] # "reserve"
    OBVIOUS
  <2>0. phase \in [Works -> Phases] /\ Rows \subseteq Works
    BY DEF TypeOK, WorkTypes, Works
  <2>1. CASE Restart
    BY <2>0, <2>1 DEF Restart
  <2>2. CASE ~Over
    <3>0. \A w \in Rows : phase[w] # "reserve"
      BY <2>2 DEF MemoryInv
    <3>1. ASSUME NEW old \in SUBSET Rows, Recover(old) PROVE \A w \in Rows : phase'[w] # "reserve"
      BY <2>0, <3>0, <3>1 DEF Recover
    <3>2. ASSUME NEW w \in Works, SelectJoin(w) PROVE \A v \in Rows : phase'[v] # "reserve"
      BY <2>0, <3>0, <3>2 DEF SelectJoin
    <3>3. CASE ScanStart
      <4>1. \E w : phase' = [phase EXCEPT ![w] = "try"]
        BY <3>3 DEF ScanStart
      <4>. QED BY <2>0, <3>0, <4>1
    <3>4. CASE Publish
      <4>1. \E w : phase' = [phase EXCEPT ![w] = "pending"]
        BY <3>4 DEF Publish
      <4>. QED BY <2>0, <3>0, <4>1
    <3>5. CASE ScanPostpone
      BY <3>0, <3>5 DEF ScanPostpone, taskVars
    <3>6. ASSUME NEW w \in Rows, RequeueDeadLetter(w) PROVE \A v \in Rows : phase'[v] # "reserve"
      BY <3>0, <3>6 DEF RequeueDeadLetter, taskVars
    <3>7. CASE UNCHANGED <<pending, workVars, taskVars>>
      BY <3>0, <3>7 DEF taskVars
    <3>. QED BY <1>0, <2>1, <3>1, <3>2, <3>3, <3>4, <3>5, <3>6, <3>7, TasksKeepMemory, WorkSteps
  <2>. QED BY <1>1, <2>1, <2>2
<1>. QED BY <1>2, <1>3, <1>4, <1>5 DEF MemoryInv

\* Packet memory stays within its units throughout a run.
LEMMA MemoryInvariant == Spec => []MemoryInv
<1>1. Init => MemoryInv
  <2> SUFFICES ASSUME Init PROVE MemoryInv
    OBVIOUS
  <2>1. /\ {w \in Works \ Sources : phase[w] \in {"pending"} \cup Unfinished} = {}
        /\ {w \in Works \ Sources : phase[w] \in {"execute", "send"}} = {}
        /\ {w \in Works : phase[w] \in {"send", "sendFailure"}} = {}
    BY DEF Init, Unfinished
  <2>2. Len(channel) = 0 /\ Len(deferred) = 0 /\ Len(routing) = 0 /\ Len(branches) = 0
    BY DEF Init
  <2>5. Cardinality({}) = 0
    BY FS_EmptySet
  <2>6. Used = Cardinality({}) + Cardinality({}) + Cardinality({})
                 + Len(channel) + Len(deferred) + Len(routing) + Len(branches)
    BY <2>1, Zenon DEF Used
  <2>3. Used = 0
    BY <2>2, <2>5, <2>6
  <2>4. Used <= Units
    BY <2>3, ConstantTypes
  <2>. QED BY <2>4 DEF Init, MemoryInv, Over, Works
<1>2. TypeOK /\ QueueInv /\ MemoryInv /\ [Next]_vars => MemoryInv'
  BY MemoryKept
<1>. QED BY <1>1, <1>2, EngineTypes, QueueInvariant, PTL DEF Spec

\* What the queued packets, the tasks, the channel and the router hold of
\* packet memory is never more than there is: no path takes memory twice, and
\* none takes it without asking.
THEOREM MemoryIsBounded == Spec => []MemoryBounded
<1>1. MemoryInv => MemoryBounded
  BY DEF MemoryInv, MemoryBounded, Alive, Over
<1>. QED BY <1>1, MemoryInvariant, PTL

----------------------------------------------------------------------------
(* How a run ends. *)

\* Without a drain, a run that goes on was not told to stop, and one that has
\* ended left nothing behind.
EndInv ==
  "drain" \notin Commands =>
    /\ ~Over => lifecycle \notin {"DRAINING", "STOPPED"}
    /\ EndsWhenDone

\* Who brings a run to its end, and what tells it to stop.
LEMMA EndSteps ==
  ASSUME TypeOK, [Next]_vars
  PROVE  /\ pc' = "ended" =>
              \/ LoopStop \/ SettleEnd
              \/ pc = "ended" /\ UNCHANGED <<pending, deferred, channel, routing, phase>>
         /\ \/ UNCHANGED lifecycle
            \/ lifecycle' \in {"RUNNING", "PAUSED", "STARTING", "FAILED"}
            \/ Over'
            \/ Drain
<1> USE DEF Goto, Fails, Ends, Over, SetLifecycle, controlVars, loopVars, taskVars, vars
<1>1. CASE LoopStep
  BY <1>1 DEF TypeOK, RouterTypes, LoopStep, Join, Recover, Publish, Published, LoopStop, LoopWait, Subscribe,
     WakeUp, NothingDeferred, ScheduleOff, ScheduleOn, ScanPostpone, ScanKeyMissing, ScanStart, ScanEnd,
     SettleReceive, SettleStalled, SettleOn, SelectJoin, SelectFatal, SelectStall,
     SelectTick, SelectElse, RouteDeferred, SelectReceive, Route, Hold, Scanning, SettleEnd
<1>2. ASSUME NEW w \in Works, TaskStep(w) PROVE pc' = pc /\ pc # "ended" /\ UNCHANGED lifecycle
  BY <1>2 DEF TaskStep, TaskBegin, TaskEmit, TaskReserve, TaskSend, TaskReturn, TaskError, TaskTimeout,
     TaskFatal, TaskGiveUp, TaskFrame, Alive
<1>3. CASE Operator
  BY <1>3 DEF Operator, Pause, Resume, Drain, Command, RequeueDeadLetter, Abort, Restart
<1>. QED BY <1>1, <1>2, <1>3 DEF Next

\* Unless somebody drains it, a run ends only when everything it had accepted
\* has reached its end: nothing is queued, held back, in the channel, between
\* two branches, or in a task.
THEOREM EndIsDone == Spec => []EndsWhenDone
<1>1. Init => EndInv
  BY DEF Init, EndInv, EndsWhenDone, Over
<1>2. TypeOK /\ QueueInv /\ MemoryInv /\ EndInv /\ [Next]_vars => EndInv'
  <2> SUFFICES ASSUME TypeOK, QueueInv, MemoryInv, EndInv, [Next]_vars, "drain" \notin Commands
               PROVE  EndInv'
    BY DEF EndInv
  <2>1. ~Over => lifecycle \notin {"DRAINING", "STOPPED"}
    BY DEF EndInv
  <2>2. ~Over' => lifecycle' \notin {"DRAINING", "STOPPED"}
    <3>1. ~Drain
      BY DEF Drain, Command
    <3>2. Restart => lifecycle' = "STARTING"
      BY DEF Restart, SetLifecycle
    <3>. QED BY <2>1, <3>1, <3>2, EndSteps, StartsOver
  <2>3. ASSUME pc' = "ended"
        PROVE  /\ pending' = <<>> /\ deferred' = <<>> /\ channel' = <<>> /\ routing' = <<>>
               /\ \A w \in Works : phase'[w] = "none"
    <3>1. CASE LoopStop
      BY <2>1, <3>1 DEF LoopStop, Stops, Over
    <3>2. CASE SettleEnd
      <4>1. /\ pc = "settle" /\ pending = <<>> /\ Running = {} /\ deferred = <<>> /\ channel = <<>>
            /\ UNCHANGED <<pending, deferred, channel, routing, phase>>
        BY <3>2 DEF SettleEnd, Idle, loopVars, taskVars
      <4>2. routing = <<>>
        BY <4>1 DEF MemoryInv, Over
      <4>3. ASSUME NEW w \in Works PROVE phase[w] = "none"
        <5>1. phase[w] \in Phases /\ phase[w] \notin Unfinished \cup Finished
          BY <4>1 DEF TypeOK, WorkTypes, Running
        <5>2. phase[w] # "pending"
          BY <4>1 DEF QueueInv, Over, Range
        <5>. QED BY <5>1, <5>2 DEF Phases
      <4>. QED BY <4>1, <4>2, <4>3
    <3>3. CASE pc = "ended" /\ UNCHANGED <<pending, deferred, channel, routing, phase>>
      BY <3>3 DEF EndInv, EndsWhenDone
    <3>. QED BY <2>3, <3>1, <3>2, <3>3, EndSteps
  <2>. QED BY <2>2, <2>3 DEF EndInv, EndsWhenDone
<1>3. EndInv => EndsWhenDone
  BY DEF EndInv, EndsWhenDone
<1>. QED BY <1>1, <1>2, <1>3, EngineTypes, QueueInvariant, MemoryInvariant, PTL DEF Spec

----------------------------------------------------------------------------
(* The limits of the queues. *)

\* No connection is written twice in the flow.
DistinctConnections ==
  /\ \A c, d \in Edges : ConnectionId(c) = ConnectionId(d) => c = d
  /\ \A p \in Procs, rel \in Relationships : \A m, n \in DOMAIN Outgoing(p, rel) :
       Outgoing(p, rel)[m] = Outgoing(p, rel)[n] => m = n

\* Packets that wait, those that came by c, the work held for p, and the
\* branches that will come to p.
Loaded == {w \in Works \ Sources : phase[w] = "pending"}
LoadedOn(c) == {w \in Works : phase[w] = "pending" /\ item[w].connection = ConnectionId(c)}
Held(p) == {w \in Works : phase[w] # "none" /\ Proc(w) = p}
Coming(p) == {n \in DOMAIN branches : branches[n].to = p}

\* Only a seed is work of a source.
SeedsInv ==
  /\ \A w \in Sources : Proc(w) = w
  /\ \A w \in Rows : row[w] # "ABSENT" => Proc(w) \notin Sources

\* The branches that were checked together are counted as if they were queued.
QueueLimit ==
  Cardinality(Loaded) + Len(branches) > QueueCapacity =>
    branches = <<>> /\ \A w \in Loaded : Recovered(w)

BranchLimits ==
  /\ \A m, n \in DOMAIN branches : branches[m] = branches[n] => m = n
  /\ \A n \in DOMAIN branches : Cardinality(LoadedOn(branches[n])) < branches[n].capacity

EdgeLimits == \A c \in Edges : Cardinality(LoadedOn(c)) <= c.capacity

FlightLimit(p) ==
  MaximumInFlight[p] # 0 /\ Cardinality(Held(p)) + Cardinality(Coming(p)) > MaximumInFlight[p] =>
    Coming(p) = {} /\ \A w \in Held(p) : Recovered(w)

RouteInv ==
  ~Over => QueueLimit /\ BranchLimits /\ EdgeLimits /\ \A p \in Procs : FlightLimit(p)

\* The places of a queue that has everything once are as many as its items.
LEMMA PlacesAreItems ==
  ASSUME TypeOK, QueueInv, ~Over, NEW T \in SUBSET Works
  PROVE  Cardinality({n \in DOMAIN pending : pending[n] \in T}) = Cardinality({w \in T : phase[w] = "pending"})
<1> DEFINE places == {n \in DOMAIN pending : pending[n] \in T}
           items == {w \in T : phase[w] = "pending"}
           f == [n \in places |-> pending[n]]
<1>1. pending \in Seq(Works) /\ DOMAIN pending = 1 .. Len(pending) /\ Len(pending) \in Nat
  BY DEF TypeOK, WorkTypes
<1>2. IsFiniteSet(places)
  <2>1. IsFiniteSet(DOMAIN pending)
    BY <1>1, FS_Interval
  <2>. QED BY <2>1, FS_Subset
<1>3. /\ \A n \in DOMAIN pending : pending[n] \in Works /\ phase[pending[n]] = "pending"
      /\ \A w \in items : \E n \in DOMAIN pending : pending[n] = w
      /\ \A m, n \in DOMAIN pending : pending[m] = pending[n] => m = n
  BY <1>1 DEF QueueInv, Range
<1>4. f \in Bijection(places, items)
  <2>1. f \in [places -> items]
    BY <1>3
  <2>2. \A m, n \in places : f[m] = f[n] => m = n
    BY <1>3
  <2>3. \A w \in items : \E n \in places : f[n] = w
    BY <1>3
  <2>. QED BY <2>1, <2>2, <2>3 DEF Bijection, Injection, IsInjective, Surjection
<1>5. ExistsBijection(places, items)
  BY <1>4 DEF ExistsBijection
<1>. QED BY <1>2, <1>5, FS_Bijection

\* What the router counts in the queue is what waits and what is held.
LEMMA QueueCounts ==
  ASSUME TypeOK, QueueInv, CountersInv, ~Over
  PROVE  /\ Cardinality(Queued) = Cardinality(Loaded)
         /\ \A c \in Edges : Cardinality(QueuedOn(c)) = Cardinality(LoadedOn(c))
         /\ \A p \in Procs : InFlight(p) = Cardinality(Held(p))
<1>1. Cardinality(Queued) = Cardinality(Loaded)
  <2>1. Queued = {n \in DOMAIN pending : pending[n] \in Works \ Sources}
    BY DEF Queued, IsSourceSeed, TypeOK, WorkTypes
  <2>. QED BY <2>1, PlacesAreItems DEF Loaded
<1>2. ASSUME NEW c \in Edges PROVE Cardinality(QueuedOn(c)) = Cardinality(LoadedOn(c))
  <2> DEFINE T == {w \in Works : item[w].connection = ConnectionId(c)}
  <2>1. QueuedOn(c) = {n \in DOMAIN pending : pending[n] \in T}
    BY DEF QueuedOn, TypeOK, WorkTypes
  <2>2. LoadedOn(c) = {w \in T : phase[w] = "pending"}
    BY DEF LoadedOn
  <2>3. T \in SUBSET Works
    OBVIOUS
  <2>. QED BY <2>1, <2>2, <2>3, PlacesAreItems
<1>3. ASSUME NEW p \in Procs PROVE InFlight(p) = Cardinality(Held(p))
  <2> DEFINE T == {w \in Works : Proc(w) = p}
             waits == {w \in T : phase[w] = "pending"}
  <2>1. QueuedFor(p) = {n \in DOMAIN pending : pending[n] \in T}
    BY DEF QueuedFor, TypeOK, WorkTypes
  <2>2. Cardinality(QueuedFor(p)) = Cardinality(waits)
    <3>1. T \in SUBSET Works
      OBVIOUS
    <3>. QED BY <2>1, <3>1, PlacesAreItems
  <2>3. activePerProcessor[p] = Cardinality(RunningOf(p))
    BY DEF CountersInv, Counted
  <2>4. Held(p) = waits \cup RunningOf(p) /\ waits \cap RunningOf(p) = {}
    BY DEF Held, RunningOf, Running, TypeOK, WorkTypes, Phases, Unfinished, Finished
  <2>5. waits \in SUBSET Works /\ RunningOf(p) \in SUBSET Works
    BY DEF RunningOf, Running
  <2> HIDE DEF waits
  <2>6. Cardinality(Held(p)) = Cardinality(waits) + Cardinality(RunningOf(p)) - Cardinality({})
    <3>1. IsFiniteSet(waits) /\ IsFiniteSet(RunningOf(p))
      BY <2>5, CountWorks
    <3>. QED BY <2>4, <3>1, FS_Union
  <2>7. Cardinality({}) = 0 /\ Cardinality(waits) \in Nat /\ Cardinality(RunningOf(p)) \in Nat
    BY <2>5, CountWorks, FS_EmptySet
  <2>. QED BY <2>2, <2>3, <2>6, <2>7 DEF InFlight
<1>. QED BY <1>1, <1>2, <1>3

\* Every step keeps sources to their seeds.
LEMMA SeedsKept == TypeOK /\ QueueInv /\ SeedsInv /\ [Next]_vars => SeedsInv'
<1> SUFFICES ASSUME TypeOK, QueueInv, SeedsInv, [Next]_vars PROVE SeedsInv'
  OBVIOUS
<1>0. /\ item \in [Works -> WorkItems] /\ row \in [Rows -> Statuses] /\ phase \in [Works -> Phases]
      /\ Rows \subseteq Works /\ Sources \subseteq Works /\ Rows \cap Sources = {}
  BY ConstantTypes DEF TypeOK, WorkTypes, Works
<1>1. ASSUME \A w \in Works : item'[w].processor = item[w].processor,
             \A w \in Rows : row'[w] # "ABSENT" => row[w] # "ABSENT"
      PROVE  SeedsInv'
  BY <1>0, <1>1 DEF SeedsInv, Proc
<1>2. ASSUME NEW old \in SUBSET Rows, Recover(old) PROVE SeedsInv'
  <2>1. /\ old \subseteq Abandoned
        /\ row' = [w \in Rows |-> IF w \in old THEN "PENDING" ELSE row[w]]
        /\ item' = [w \in Works |-> [item[w] EXCEPT !.connection = NoConnection]]
    BY <1>2 DEF Recover
  <2>2. \A w \in Works : item'[w].processor = item[w].processor
    BY <1>0, <2>1 DEF WorkItems
  <2>. QED BY <1>1, <2>1, <2>2 DEF Abandoned
<1>3. CASE Publish
  <2> DEFINE w == created + 1
             c == Head(branches)
  <2>1. /\ row' = [row EXCEPT ![w] = "PENDING"]
        /\ \E key, n : item' = [item EXCEPT ![w] =
             [processor |-> c.to, connection |-> ConnectionId(c), key |-> key, attempt |-> n]]
    BY <1>3 DEF Publish
  <2>3. w \in Rows
    BY <1>3, ConstantTypes DEF Publish, TypeOK, WorkTypes, Rows
  <2>4. c \in Edges
    BY <1>3, Heads DEF Publish, TypeOK, RouterTypes
  <2> HIDE DEF w, c
  <2>2. c.to \notin Sources
    BY <2>4 DEF Sources
  <2>. QED BY <1>0, <2>1, <2>2, <2>3 DEF SeedsInv, Proc
<1>4. CASE ScanPostpone \/ UNCHANGED <<pending, workVars, taskVars>> \/ Restart
  <2>1. UNCHANGED <<item, row>>
    BY <1>4 DEF ScanPostpone, Restart, workVars
  <2>. QED BY <1>1, <2>1
<1>5. CASE ScanStart
  <2>1. \A v \in Rows : row'[v] = IF v = Head(pending) THEN "RUNNING" ELSE row[v]
    BY <1>5, ScanStarts
  <2>2. phase[Head(pending)] = "pending" /\ ~Over /\ UNCHANGED item
    BY <1>5, ScanStarts DEF Over
  <2>3. \A v \in Rows : v = Head(pending) => row[v] = "PENDING"
    BY <2>2 DEF QueueInv
  <2>. QED BY <1>1, <2>1, <2>2, <2>3
<1>6. ASSUME NEW w \in Works, SelectJoin(w) PROVE SeedsInv'
  <2>1. /\ phase[w] \in Finished /\ ~Over /\ UNCHANGED item
        /\ \A v \in Rows : v # w => row'[v] = row[v]
    BY <1>6 DEF SelectJoin, Finished, Over
  <2>2. \A v \in Rows : v = w => row[v] = "RUNNING"
    BY <2>1 DEF QueueInv
  <2>. QED BY <1>1, <2>1, <2>2
<1>7. ASSUME NEW w \in Works, TaskStep(w) PROVE SeedsInv'
  BY <1>1, <1>7, TaskPhases
<1>8. ASSUME NEW w \in Rows, RequeueDeadLetter(w) PROVE SeedsInv'
  <2>1. /\ row[w] = "DEAD_LETTER" /\ row' = [row EXCEPT ![w] = "PENDING"]
        /\ item' = [item EXCEPT ![w].attempt = 0]
    BY <1>8 DEF RequeueDeadLetter
  <2>2. \A v \in Works : item'[v].processor = item[v].processor
    BY <1>0, <2>1 DEF WorkItems
  <2>. QED BY <1>0, <1>1, <2>1, <2>2
<1>. QED BY <1>2, <1>3, <1>4, <1>5, <1>6, <1>7, <1>8, WorkSteps

\* The steps that change the branches to be published.
LEMMA BranchSteps ==
  ASSUME TypeOK, MemoryInv, [Next]_vars, ~Over, ~Over'
  PROVE  \/ UNCHANGED branches
         \/ Publish
         \/ /\ branches = <<>>
            /\ \E emission \in Emissions, step \in {"top", "schedule"} : Route(emission, step)
            /\ UNCHANGED <<phase, item>>
<1>1. CASE RouteDeferred
  <2>1. /\ pc = "top" /\ deferred[1] \in Emissions /\ Route(deferred[1], "schedule")
        /\ UNCHANGED <<phase, item>>
    BY <1>1 DEF RouteDeferred, TypeOK, RouterTypes, workVars, taskVars
  <2>. QED BY <2>1 DEF MemoryInv
<1>2. CASE SelectReceive
  <2>1. /\ pc = "select" /\ Head(channel) \in Emissions /\ Route(Head(channel), "top")
        /\ UNCHANGED <<phase, item>>
    BY <1>2 DEF SelectReceive, TypeOK, RouterTypes, workVars, taskVars
  <2>. QED BY <2>1 DEF MemoryInv
<1>3. ASSUME NEW w \in Works, TaskSend(w) PROVE UNCHANGED branches
  BY <1>3 DEF TaskSend, TaskFrame, loopVars
<1>. QED BY <1>1, <1>2, <1>3, RouterSteps
     DEF routerVars, Published, SettleReceive, Restart, Over

\* What of the items the limits are about.
LEMMA Countable ==
  ASSUME TypeOK
  PROVE  /\ Loaded \in SUBSET Works
         /\ \A c \in Edges : LoadedOn(c) \in SUBSET Works /\ c.capacity \in Nat \ {0}
         /\ \A p \in Procs : Held(p) \in SUBSET Works /\ MaximumInFlight[p] \in Nat
                             /\ Cardinality(Coming(p)) \in Nat /\ IsFiniteSet(Coming(p))
         /\ Len(branches) \in Nat /\ DOMAIN branches = 1 .. Len(branches)
         /\ \A n \in DOMAIN branches : branches[n] \in Edges
<1>1. branches \in Seq(Edges)
  BY DEF TypeOK, RouterTypes
<1>2. \A p \in Procs : MaximumInFlight[p] \in Nat
  BY EngineAssumption DEF EngineAssumption, Validated
<1>3. ASSUME NEW p \in Procs PROVE Cardinality(Coming(p)) \in Nat /\ IsFiniteSet(Coming(p))
  <2>1. IsFiniteSet(DOMAIN branches)
    BY <1>1, FS_Interval
  <2>2. IsFiniteSet(Coming(p))
    BY <2>1, FS_Subset DEF Coming
  <2>. QED BY <2>2, FS_CardinalityType
<1>4. Len(branches) \in Nat /\ DOMAIN branches = 1 .. Len(branches)
  BY <1>1
<1>5. \A n \in DOMAIN branches : branches[n] \in Edges
  BY <1>1
<1>. QED BY <1>2, <1>3, <1>4, <1>5, ConstantTypes DEF Loaded, LoadedOn, Held

\* Work that goes, and recovered work that stays so, keeps the limits.
LEMMA RouteShrinks ==
  ASSUME TypeOK, QueueLimit, BranchLimits, EdgeLimits, \A p \in Procs : FlightLimit(p),
         UNCHANGED branches, Loaded' \in SUBSET Loaded,
         \A c \in Edges : LoadedOn(c)' \in SUBSET LoadedOn(c),
         \A p \in Procs : Held(p)' \in SUBSET Held(p),
         \A w \in Works : Recovered(w) => Recovered(w)'
  PROVE  RouteInv'
<1>1. ASSUME NEW S \in SUBSET Works, NEW T \in SUBSET S
      PROVE  Cardinality(S) \in Nat /\ Cardinality(T) \in Nat /\ Cardinality(T) <= Cardinality(S)
  BY CountWorks
<1>2. QueueLimit'
  <2>1. Cardinality(Loaded) \in Nat /\ Cardinality(Loaded') \in Nat /\ Cardinality(Loaded') <= Cardinality(Loaded)
    BY <1>1, Countable
  <2>2. Len(branches) \in Nat /\ Len(branches') = Len(branches) /\ QueueCapacity \in Nat
    BY Countable, ConstantTypes
  <2>3. Cardinality(Loaded') + Len(branches') > QueueCapacity => Cardinality(Loaded) + Len(branches) > QueueCapacity
    BY <2>1, <2>2
  <2>4. \A w \in Loaded' : w \in Loaded /\ w \in Works
    BY Countable
  <2>. QED BY <2>3, <2>4 DEF QueueLimit
<1>3. \A c \in Edges : Cardinality(LoadedOn(c)') \in Nat /\ Cardinality(LoadedOn(c)) \in Nat
                       /\ Cardinality(LoadedOn(c)') <= Cardinality(LoadedOn(c))
  BY <1>1, Countable
<1>4. BranchLimits'
  <2>1. ASSUME NEW n \in DOMAIN branches
        PROVE  Cardinality(LoadedOn(branches[n])') < branches[n].capacity
    <3>1. branches[n] \in Edges /\ branches[n].capacity \in Nat
      BY Countable
    <3>2. Cardinality(LoadedOn(branches[n])) < branches[n].capacity
      BY DEF BranchLimits
    <3>. QED BY <1>3, <3>1, <3>2
  <2>. QED BY <2>1 DEF BranchLimits
<1>5. EdgeLimits'
  BY <1>3, Countable DEF EdgeLimits
<1>6. ASSUME NEW p \in Procs PROVE FlightLimit(p)'
  <2>1. Cardinality(Held(p)) \in Nat /\ Cardinality(Held(p)') \in Nat /\ Cardinality(Held(p)') <= Cardinality(Held(p))
    BY <1>1, Countable
  <2>2. Coming(p)' = Coming(p) /\ Cardinality(Coming(p)) \in Nat /\ MaximumInFlight[p] \in Nat
    BY Countable DEF Coming
  <2>3. Cardinality(Held(p)') + Cardinality(Coming(p)') > MaximumInFlight[p] =>
          Cardinality(Held(p)) + Cardinality(Coming(p)) > MaximumInFlight[p]
    BY <2>1, <2>2
  <2>4. \A w \in Held(p)' : w \in Held(p) /\ w \in Works
    BY Countable
  <2>. QED BY <2>2, <2>3, <2>4 DEF FlightLimit
<1>. QED BY <1>2, <1>4, <1>5, <1>6 DEF RouteInv

\* What the router takes in fits together with what is queued.
LEMMA RouteTakes ==
  ASSUME DistinctConnections, TypeOK, QueueInv, CountersInv, RouteInv, ~Over,
         branches = <<>>, UNCHANGED <<phase, item>>,
         NEW emission \in Emissions, NEW step \in {"top", "schedule"}, Route(emission, step)
  PROVE  RouteInv'
<1> DEFINE next == Outgoing(Proc(emission.source), emission.relationship)
<1>0. QueueLimit /\ BranchLimits /\ EdgeLimits /\ \A p \in Procs : FlightLimit(p)
  BY DEF RouteInv
<1>1. /\ Loaded' = Loaded /\ \A c : LoadedOn(c)' = LoadedOn(c)
      /\ \A p : Held(p)' = Held(p)
      /\ \A w : Recovered(w)' = Recovered(w)
  BY DEF Loaded, LoadedOn, Held, Proc, Recovered, IsSourceSeed
<1>2. CASE UNCHANGED branches
  BY <1>0, <1>1, <1>2, RouteShrinks
<1>3. CASE ~QueueFull(next) /\ branches' = next /\ next # <<>>
  <2>1. /\ next \in Seq(Edges) /\ Len(next) \in Nat /\ DOMAIN next = 1 .. Len(next)
        /\ \A n \in DOMAIN next : next[n] \in Edges
        /\ \A m, n \in DOMAIN next : next[m] = next[n] => m = n
    <3>1. Proc(emission.source) \in Procs /\ emission.relationship \in Relationships
      BY ItemTypes DEF TypeOK, WorkTypes, Emissions, Proc
    <3>2. next \in Seq(Edges)
      BY <3>1, ConstantTypes
    <3>3. Len(next) \in Nat /\ DOMAIN next = 1 .. Len(next) /\ \A n \in DOMAIN next : next[n] \in Edges
      BY <3>2
    <3>. QED BY <3>1, <3>2, <3>3 DEF DistinctConnections
  <2> DEFINE coming(p) == {n \in DOMAIN next : next[n].to = p}
  <2>2. /\ ~(Cardinality(Queued) + Len(next) > QueueCapacity)
        /\ \A n \in DOMAIN next :
             /\ ~(Cardinality(QueuedOn(next[n])) >= next[n].capacity)
             /\ MaximumInFlight[next[n].to] # 0 =>
                  ~(InFlight(next[n].to) + Cardinality(coming(next[n].to)) > MaximumInFlight[next[n].to])
    BY <1>3 DEF QueueFull
  <2>3. \A p : Coming(p)' = coming(p)
    BY <1>3 DEF Coming
  <2> HIDE DEF next, coming
  <2>4. Cardinality(Loaded) \in Nat /\ QueueCapacity \in Nat
    BY Countable, CountWorks, ConstantTypes
  <2>5. QueueLimit'
    BY <1>1, <1>3, <2>2, QueueCounts DEF QueueLimit
  <2>6. BranchLimits'
    <3>1. ASSUME NEW n \in DOMAIN next PROVE Cardinality(LoadedOn(next[n])) < next[n].capacity
      <4>1. next[n] \in Edges /\ next[n].capacity \in Nat /\ Cardinality(LoadedOn(next[n])) \in Nat
        BY <2>1, Countable, CountWorks
      <4>. QED BY <2>2, <4>1, QueueCounts
    <3>. QED BY <1>1, <1>3, <2>1, <3>1 DEF BranchLimits
  <2>7. EdgeLimits'
    BY <1>0, <1>1 DEF EdgeLimits
  <2>8. ASSUME NEW p \in Procs PROVE FlightLimit(p)'
    <3>1. CASE coming(p) = {}
      <4>1. Coming(p) = {}
        BY DEF Coming
      <4>. QED BY <1>0, <1>1, <2>3, <3>1, <4>1 DEF FlightLimit
    <3>2. CASE coming(p) # {}
      <4>1. PICK n \in DOMAIN next : next[n].to = p
        BY <3>2 DEF coming
      <4>2. MaximumInFlight[p] # 0 => ~(Cardinality(Held(p)) + Cardinality(coming(p)) > MaximumInFlight[p])
        BY <2>2, <4>1, QueueCounts
      <4>. QED BY <1>1, <2>3, <4>2 DEF FlightLimit
    <3>. QED BY <3>1, <3>2
  <2>. QED BY <2>5, <2>6, <2>7, <2>8 DEF RouteInv
<1>. QED BY <1>2, <1>3 DEF Route, Hold

\* A branch that is published goes from what is to come to what is queued.
LEMMA RoutePublishes ==
  ASSUME DistinctConnections, TypeOK, QueueInv, RouteInv, Publish
  PROVE  RouteInv'
<1> DEFINE w == created + 1
           c == Head(branches)
<1>0. /\ ~Over /\ QueueLimit /\ BranchLimits /\ EdgeLimits /\ \A p \in Procs : FlightLimit(p)
      /\ branches # <<>> /\ branches' = Tail(branches)
      /\ phase' = [phase EXCEPT ![w] = "pending"]
      /\ \E key, n : item' = [item EXCEPT ![w] =
           [processor |-> c.to, connection |-> ConnectionId(c), key |-> key, attempt |-> n]]
  BY DEF RouteInv, Publish, Over
<1>1. /\ w \in Rows /\ w \in Works /\ w \notin Sources /\ w > created
      /\ phase \in [Works -> Phases] /\ item \in [Works -> WorkItems]
  <2>1. created \in 0 .. MaxRows /\ created < MaxRows /\ MaxRows \in Nat
    BY ConstantTypes DEF Publish, TypeOK, WorkTypes
  <2>2. w \in Rows /\ w > created
    BY <2>1 DEF Rows
  <2>3. phase \in [Works -> Phases] /\ item \in [Works -> WorkItems]
    BY DEF TypeOK, WorkTypes
  <2>. QED BY <2>2, <2>3, ConstantTypes DEF Works
<1>2. /\ c \in Edges /\ c = branches[1] /\ 1 \in DOMAIN branches
      /\ Len(Tail(branches)) = Len(branches) - 1 /\ Len(branches) \in Nat \ {0}
      /\ DOMAIN branches = 1 .. Len(branches) /\ DOMAIN Tail(branches) = 1 .. Len(branches) - 1
      /\ \A n \in 1 .. Len(branches) - 1 : Tail(branches)[n] = branches[n + 1]
  <2>1. branches \in Seq(Edges)
    BY DEF TypeOK, RouterTypes
  <2>2. /\ Len(branches) \in Nat \ {0} /\ c \in Edges /\ c = branches[1] /\ Tail(branches) \in Seq(Edges)
        /\ Len(Tail(branches)) = Len(branches) - 1
        /\ \A n \in 1 .. Len(Tail(branches)) : Tail(branches)[n] = branches[n + 1]
    BY <1>0, <2>1, Heads
  <2> HIDE DEF c
  <2>3. DOMAIN branches = 1 .. Len(branches) /\ DOMAIN Tail(branches) = 1 .. Len(Tail(branches))
    BY <2>1, <2>2
  <2>. QED BY <2>2, <2>3
<1> HIDE DEF w, c
<1>3. phase[w] = "none"
  <2>1. row[w] = "ABSENT"
    BY <1>1 DEF QueueInv
  <2>2. phase[w] # "pending" /\ phase[w] \notin Unfinished \cup Finished
    BY <1>0, <1>1, <2>1 DEF QueueInv
  <2>. QED BY <1>1, <2>2 DEF Phases
<1>4. /\ Loaded' = Loaded \cup {w} /\ w \notin Loaded
      /\ \A d \in Edges : LoadedOn(d)' = IF d = c THEN LoadedOn(d) \cup {w} ELSE LoadedOn(d)
      /\ \A d \in Edges : w \notin LoadedOn(d)
      /\ \A p \in Procs : Held(p)' = IF p = c.to THEN Held(p) \cup {w} ELSE Held(p)
      /\ \A p \in Procs : w \notin Held(p)
      /\ \A v \in Works : v # w => Recovered(v)' = Recovered(v)
  <2>1. \A v \in Works : v # w => phase'[v] = phase[v] /\ item'[v] = item[v]
    BY <1>0, <1>1
  <2>2. phase'[w] = "pending" /\ item'[w].processor = c.to /\ item'[w].connection = ConnectionId(c)
    BY <1>0, <1>1
  <2>3. \A d \in Edges : ConnectionId(c) = ConnectionId(d) <=> d = c
    BY <1>2 DEF DistinctConnections
  <2>4. Loaded' = Loaded \cup {w} /\ w \notin Loaded
    BY <1>1, <1>3, <2>1, <2>2 DEF Loaded
  <2>5. ASSUME NEW d \in Edges
        PROVE  LoadedOn(d)' = (IF d = c THEN LoadedOn(d) \cup {w} ELSE LoadedOn(d)) /\ w \notin LoadedOn(d)
    BY <1>1, <1>3, <2>1, <2>2, <2>3 DEF LoadedOn
  <2>6. ASSUME NEW p \in Procs
        PROVE  Held(p)' = (IF p = c.to THEN Held(p) \cup {w} ELSE Held(p)) /\ w \notin Held(p)
    BY <1>1, <1>3, <2>1, <2>2 DEF Held, Proc
  <2>7. \A v \in Works : v # w => Recovered(v)' = Recovered(v)
    BY <2>1 DEF Recovered, IsSourceSeed
  <2>. QED BY <2>4, <2>5, <2>6, <2>7
<1>5. QueueLimit'
  <2>1. Cardinality(Loaded) \in Nat /\ Cardinality(Loaded') = Cardinality(Loaded) + 1
    BY <1>4, Countable, CountWorks
  <2>2. ~(Cardinality(Loaded) + Len(branches) > QueueCapacity)
    BY <1>0 DEF QueueLimit
  <2>3. Len(branches') = Len(branches) - 1 /\ QueueCapacity \in Nat
    BY <1>0, <1>2, ConstantTypes
  <2>4. ~(Cardinality(Loaded') + Len(branches') > QueueCapacity)
    BY <1>2, <2>1, <2>2, <2>3
  <2>. QED BY <2>4 DEF QueueLimit
<1>6. BranchLimits'
  <2>1. \A m, n \in DOMAIN branches' : branches'[m] = branches'[n] => m = n
    BY <1>0, <1>2 DEF BranchLimits
  <2>2. ASSUME NEW n \in DOMAIN branches'
        PROVE  Cardinality(LoadedOn(branches[n])') < branches'[n].capacity
    <3>1. PICK d \in Edges : d = branches'[n] /\ d # c /\ Cardinality(LoadedOn(d)) < d.capacity
      <4>1. branches'[n] = branches[n + 1] /\ n + 1 \in DOMAIN branches /\ n + 1 # 1
        BY <1>0, <1>2
      <4>. QED BY <1>0, <1>2, <4>1, Countable DEF BranchLimits
    <3>2. LoadedOn(branches[n])' = LoadedOn(d)'
      BY <3>1 DEF LoadedOn
    <3>. QED BY <1>4, <3>1, <3>2
  <2>. QED BY <2>1, <2>2 DEF BranchLimits
<1>7. EdgeLimits'
  <2>1. ASSUME NEW d \in Edges PROVE Cardinality(LoadedOn(d)') <= d.capacity
    <3>1. CASE d = c
      <4>1. Cardinality(LoadedOn(d)) < d.capacity
        BY <1>0, <1>2, <3>1 DEF BranchLimits
      <4>2. Cardinality(LoadedOn(d)) \in Nat /\ Cardinality(LoadedOn(d)') = Cardinality(LoadedOn(d)) + 1
        <5>1. LoadedOn(d) \in SUBSET Works /\ w \notin LoadedOn(d) /\ LoadedOn(d)' = LoadedOn(d) \cup {w}
          BY <1>4, <3>1, Countable
        <5>. QED BY <5>1, CountWorks
      <4>3. d.capacity \in Nat
        BY Countable
      <4>4. Cardinality(LoadedOn(d)) + 1 <= d.capacity
        BY <4>1, <4>2, <4>3
      <4>. QED BY <4>2, <4>4
    <3>2. CASE d # c
      BY <1>0, <1>4, <3>2 DEF EdgeLimits
    <3>. QED BY <3>1, <3>2
  <2>. QED BY <2>1 DEF EdgeLimits
<1>8. ASSUME NEW p \in Procs PROVE FlightLimit(p)'
  <2> DEFINE after == {n \in DOMAIN branches' : branches'[n].to = p}
             ahead == {n \in DOMAIN branches : n # 1 /\ branches[n].to = p}
  <2>0. Coming(p)' = after
    BY DEF Coming
  <2>1. Cardinality(after) = Cardinality(ahead)
    <3> DEFINE f == [n \in after |-> n + 1]
    <3>1. f \in [after -> ahead]
      BY <1>0, <1>2
    <3>2. \A m, n \in after : f[m] = f[n] => m = n
      BY <1>0, <1>2
    <3>3. ASSUME NEW n \in ahead PROVE \E m \in after : f[m] = n
      <4>1. n - 1 \in after /\ f[n - 1] = n
        BY <1>0, <1>2
      <4>. QED BY <4>1
    <3>4. f \in Bijection(after, ahead)
      BY <3>1, <3>2, <3>3 DEF Bijection, Injection, IsInjective, Surjection
    <3>5. IsFiniteSet(after)
      <4>1. IsFiniteSet(DOMAIN branches')
        BY <1>0, <1>2, FS_Interval
      <4>. QED BY <4>1, FS_Subset
    <3>. QED BY <3>4, <3>5, FS_Bijection DEF ExistsBijection
  <2>2. ahead = Coming(p) \ {1}
    BY DEF Coming
  <2> HIDE DEF after, ahead
  <2>3. CASE p = c.to
    <3>1. 1 \in Coming(p)
      BY <1>2, <2>3 DEF Coming
    <3>2. Cardinality(ahead) = Cardinality(Coming(p)) - 1 /\ Cardinality(Coming(p)) \in Nat
      <4>1. IsFiniteSet(Coming(p)) /\ Cardinality(Coming(p)) \in Nat
        BY Countable
      <4>. QED BY <2>2, <3>1, <4>1, FS_RemoveElement
    <3>3. Cardinality(Held(p)) \in Nat /\ Cardinality(Held(p)') = Cardinality(Held(p)) + 1
      BY <1>4, <2>3, Countable, CountWorks
    <3>4. MaximumInFlight[p] # 0 => ~(Cardinality(Held(p)) + Cardinality(Coming(p)) > MaximumInFlight[p])
      BY <1>0, <3>1 DEF FlightLimit
    <3>5. MaximumInFlight[p] \in Nat
      BY Countable
    <3>6. MaximumInFlight[p] # 0 => ~(Cardinality(Held(p)') + Cardinality(after) > MaximumInFlight[p])
      BY <2>1, <3>2, <3>3, <3>4, <3>5
    <3>. QED BY <2>0, <3>6 DEF FlightLimit
  <2>4. CASE p # c.to
    <3>1. Held(p)' = Held(p) /\ \A v \in Held(p) : Recovered(v)' = Recovered(v)
      BY <1>4, <2>4, Countable
    <3>2. ahead = Coming(p)
      BY <1>2, <2>2, <2>4 DEF Coming
    <3>3. after = {} <=> Coming(p) = {}
      <4>1. IsFiniteSet(Coming(p))
        BY Countable
      <4>2. IsFiniteSet(DOMAIN branches')
        BY <1>0, <1>2, FS_Interval
      <4>3. IsFiniteSet(after)
        BY <4>2, FS_Subset DEF after
      <4>. QED BY <2>1, <3>2, <4>1, <4>3, FS_EmptySet
    <3>. QED BY <1>0, <2>0, <2>1, <3>1, <3>2, <3>3 DEF FlightLimit
  <2>. QED BY <2>3, <2>4
<1>. QED BY <1>5, <1>6, <1>7, <1>8 DEF RouteInv

\* Recovered work is not limited, and the seeds never exceed a limit.
LEMMA RouteRecovers ==
  ASSUME TypeOK, QueueInv, MemoryInv, SeedsInv, ~Over', NEW old \in SUBSET Rows, Recover(old)
  PROVE  RouteInv'
<1>1. /\ pc = "start" /\ UNCHANGED branches
      /\ item' = [w \in Works |-> [item[w] EXCEPT !.connection = NoConnection]]
  BY DEF Recover
<1>2. PICK order \in Orders(Waiting \cup old) :
        /\ pending' = IF order = <<>> THEN Seeds ELSE order
        /\ phase' = [w \in Works |-> IF w \in Range(pending') THEN "pending" ELSE "none"]
  BY DEF Recover, Fails, Goto, Over
<1>3. branches' = <<>> /\ \A p : Coming(p)' = {}
  <2>1. branches = <<>>
    BY <1>1 DEF MemoryInv, Over
  <2>. QED BY <1>1, <2>1 DEF Coming
<1>4. \A w \in Works : item'[w].connection = NoConnection /\ item'[w].processor = item[w].processor
  BY <1>1 DEF TypeOK, WorkTypes, WorkItems
<1>5. \A w \in Works \ Sources : Recovered(w)'
  BY <1>4 DEF Recovered, IsSourceSeed
<1>6. Cardinality({}) = 0
  BY FS_EmptySet
<1>7. QueueLimit'
  <2>1. Loaded' \subseteq Works \ Sources
    BY DEF Loaded
  <2>. QED BY <1>3, <1>5, <2>1 DEF QueueLimit
<1>8. ASSUME NEW c \in Edges PROVE LoadedOn(c)' = {} /\ c.capacity \in Nat
  <2>1. ConnectionId(c) # NoConnection
    <3>1. Depth[c.from] >= Depth[c.to] + 1 /\ Depth[c.to] \in Nat
      BY EngineAssumption DEF EngineAssumption, Validated, DepthIsLongestPath
    <3>2. c.from # c.to
      BY <3>1
    <3>3. ConnectionId(c).from = c.from /\ ConnectionId(c).to = c.to
      BY DEF ConnectionId
    <3>4. NoConnection.from = NoConnection.to
      BY DEF NoConnection
    <3>. QED BY <3>2, <3>3, <3>4
  <2>. QED BY <1>4, <2>1, ConstantTypes DEF LoadedOn
<1>9. EdgeLimits' /\ BranchLimits'
  <2>1. \A c \in Edges : Cardinality(LoadedOn(c)') = 0 /\ 0 <= c.capacity
    BY <1>6, <1>8
  <2>2. DOMAIN branches' = {}
    BY <1>3
  <2>. QED BY <2>1, <2>2 DEF EdgeLimits, BranchLimits
<1>10. ASSUME NEW p \in Procs PROVE FlightLimit(p)'
  <2>1. CASE order # <<>>
    <3>1. Range(pending') \cap Sources = {}
      <4>1. Waiting \cup old \in SUBSET Rows
        BY DEF Waiting
      <4>. QED BY <1>2, <2>1, <4>1, OrdersOnce, ConstantTypes
    <3>2. \A w \in Held(p)' : w \in Works \ Sources
      BY <1>2, <3>1 DEF Held
    <3>. QED BY <1>3, <1>5, <3>2 DEF FlightLimit
  <2>2. CASE order = <<>>
    <3>1. Range(pending') \subseteq Sources
      BY <1>2, <2>2, ConstantTypes DEF Range
    <3>2. \A w \in Held(p)' : w \in Range(pending') /\ Proc(w) = p
      BY <1>2, <1>4 DEF Held, Proc
    <3>3. Held(p)' \subseteq {p}
      BY <3>1, <3>2 DEF SeedsInv
    <3>4. PICK n \in {0, 1} : Cardinality(Held(p)') = n
      <4>1. Held(p)' = {} \/ Held(p)' = {p}
        BY <3>3
      <4>. QED BY <1>6, <4>1, FS_Singleton
    <3>5. MaximumInFlight[p] # 0 => MaximumInFlight[p] >= 1 /\ MaximumInFlight[p] \in Nat
      BY EngineAssumption DEF EngineAssumption, Validated
    <3>6. MaximumInFlight[p] # 0 => ~(Cardinality(Held(p)') + Cardinality(Coming(p)') > MaximumInFlight[p])
      <4>1. Cardinality(Held(p)') = n /\ Cardinality(Coming(p)') = 0
        BY <1>3, <1>6, <3>4
      <4>2. MaximumInFlight[p] # 0 => ~(n + 0 > MaximumInFlight[p])
        BY <3>5
      <4>. QED BY <4>1, <4>2
    <3>. QED BY <3>6 DEF FlightLimit
  <2>. QED BY <2>1, <2>2
<1>. QED BY <1>7, <1>9, <1>10 DEF RouteInv

\* Nothing is held at the start of a process or of a run.
Unloaded == branches = <<>> /\ \A w \in Works : phase[w] = "none"

\* An engine with nothing loaded is within every limit.
LEMMA UnloadedFits == Unloaded => RouteInv
<1> SUFFICES ASSUME Unloaded PROVE RouteInv
  OBVIOUS
<1> USE DEF Unloaded
<1>1. Loaded = {} /\ \A p \in Procs : Held(p) = {} /\ Coming(p) = {}
  BY DEF Loaded, Held, Coming
<1>2. \A c \in Edges : LoadedOn(c) = {}
  BY DEF LoadedOn
<1>3. Cardinality({}) = 0 /\ Len(branches) = 0 /\ \A n \in Nat : ~(0 + 0 > n) /\ 0 <= n
  BY FS_EmptySet
<1>4. /\ \A p \in Procs : MaximumInFlight[p] \in Nat
      /\ \A c \in Edges : c.capacity \in Nat
      /\ QueueCapacity \in Nat
  BY EngineAssumption DEF EngineAssumption, Validated
<1>5. QueueLimit
  BY <1>1, <1>3, <1>4 DEF QueueLimit
<1>6. EdgeLimits
  BY <1>2, <1>3, <1>4 DEF EdgeLimits
<1>7. BranchLimits
  BY DEF BranchLimits
<1>8. \A p \in Procs : FlightLimit(p)
  BY <1>1, <1>3, <1>4 DEF FlightLimit
<1>. QED BY <1>5, <1>6, <1>7, <1>8 DEF RouteInv

\* Other steps only let work go.
LEMMA WorkGoes ==
  ASSUME TypeOK, QueueInv, [Next]_vars, ~Over
  PROVE  \/ \E old \in SUBSET Rows : Recover(old)
         \/ Publish
         \/ /\ Loaded' \in SUBSET Loaded
            /\ \A c \in Edges : LoadedOn(c)' \in SUBSET LoadedOn(c)
            /\ \A p \in Procs : Held(p)' \in SUBSET Held(p)
            /\ \A w \in Works : Recovered(w) => Recovered(w)'
<1> DEFINE falls ==
      /\ Loaded' \in SUBSET Loaded
      /\ \A c \in Edges : LoadedOn(c)' \in SUBSET LoadedOn(c)
      /\ \A p \in Procs : Held(p)' \in SUBSET Held(p)
      /\ \A w \in Works : Recovered(w) => Recovered(w)'
<1>0. phase \in [Works -> Phases] /\ item \in [Works -> WorkItems]
  BY DEF TypeOK, WorkTypes
<1>1. ASSUME \A w \in Works : /\ phase'[w] = "pending" => phase[w] = "pending"
                              /\ phase'[w] # "none" => phase[w] # "none"
                              /\ item'[w].connection = item[w].connection
                              /\ item'[w].processor = item[w].processor
      PROVE  falls
  <2>1. Loaded' \in SUBSET Loaded
    BY <1>1 DEF Loaded
  <2>2. \A c \in Edges : LoadedOn(c)' \in SUBSET LoadedOn(c)
    BY <1>1 DEF LoadedOn
  <2>3. \A p \in Procs : Held(p)' \in SUBSET Held(p)
    BY <1>1 DEF Held, Proc
  <2>4. \A w \in Works : Recovered(w) => Recovered(w)'
    BY <1>1 DEF Recovered, IsSourceSeed
  <2>. QED BY <2>1, <2>2, <2>3, <2>4
<1> HIDE DEF falls
<1>2. ASSUME ScanPostpone \/ UNCHANGED <<pending, workVars, taskVars>> PROVE falls
  BY <1>1, <1>2 DEF ScanPostpone, workVars, taskVars
<1>3. ASSUME ScanStart PROVE falls
  <2>1. phase[Head(pending)] = "pending" /\ phase' = [phase EXCEPT ![Head(pending)] = "try"] /\ UNCHANGED item
    BY <1>3, ScanStarts
  <2>. QED BY <1>0, <1>1, <2>1
<1>4. ASSUME NEW w \in Works, SelectJoin(w) PROVE falls
  <2>1. phase' = [phase EXCEPT ![w] = "none"] /\ UNCHANGED item
    BY <1>4 DEF SelectJoin
  <2>. QED BY <1>0, <1>1, <2>1
<1>5. ASSUME NEW w \in Works, TaskStep(w) PROVE falls
  <2>1. /\ phase[w] \in Unfinished /\ UNCHANGED item
        /\ \E step \in Unfinished \cup Finished : phase' = [phase EXCEPT ![w] = step]
    BY <1>5, TaskPhases
  <2>. QED BY <1>0, <1>1, <2>1 DEF Unfinished, Finished
<1>6. ASSUME NEW w \in Rows, RequeueDeadLetter(w) PROVE falls
  <2>1. item' = [item EXCEPT ![w].attempt = 0] /\ UNCHANGED phase
    BY <1>6 DEF RequeueDeadLetter, taskVars
  <2>2. \A v \in Works : item'[v].connection = item[v].connection /\ item'[v].processor = item[v].processor
    BY <1>0, <2>1 DEF WorkItems
  <2>. QED BY <1>1, <2>1, <2>2
<1>7. ~Restart
  BY DEF Restart
<1>. QED BY <1>2, <1>3, <1>4, <1>5, <1>6, <1>7, WorkSteps DEF falls

\* Every step keeps the limits of the router.
LEMMA RouteKept ==
  DistinctConnections =>
    (TypeOK /\ QueueInv /\ CountersInv /\ MemoryInv /\ SeedsInv /\ RouteInv /\ [Next]_vars => RouteInv')
<1> SUFFICES ASSUME DistinctConnections, TypeOK, QueueInv, CountersInv, MemoryInv, SeedsInv, RouteInv,
                    [Next]_vars, ~Over'
             PROVE  RouteInv'
  BY DEF RouteInv
<1>1. CASE Restart
  <2>1. Unloaded'
    BY <1>1 DEF Restart, Unloaded
  <2>2. Unloaded' => RouteInv'
    BY UnloadedFits, PTL
  <2>. QED BY <2>1, <2>2
<1>2. CASE ~Over
  <2>1. QueueLimit /\ BranchLimits /\ EdgeLimits /\ \A p \in Procs : FlightLimit(p)
    BY <1>2 DEF RouteInv
  <2>2. CASE /\ branches = <<>>
             /\ \E emission \in Emissions, step \in {"top", "schedule"} : Route(emission, step)
             /\ UNCHANGED <<phase, item>>
    BY <1>2, <2>2, RouteTakes
  <2>3. CASE Publish
    BY <2>3, RoutePublishes
  <2>4. CASE \E old \in SUBSET Rows : Recover(old)
    BY <2>4, RouteRecovers
  <2>5. CASE UNCHANGED branches
    BY <1>2, <2>1, <2>3, <2>4, <2>5, WorkGoes, RouteShrinks
  <2>. QED BY <1>2, <2>2, <2>3, <2>5, BranchSteps
<1>. QED BY <1>1, <1>2, StartsOver

\* The limits that the scheduler and the router enforce hold of whatever they
\* have queued and started, in any order of tasks, emissions, restarts and
\* requeues: what recovery loads is the one exception, and it passes.  A
\* connection written twice would have one queue and two capacities.
THEOREM LimitsAreRespected ==
  ASSUME DistinctConnections
  PROVE  Spec => []LimitsRespected
<1>1. Init => SeedsInv
  <2>1. Sources \cap Rows = {}
    BY ConstantTypes
  <2>. QED BY <2>1 DEF Init, SeedsInv, Works, Proc
<1>2. Init => RouteInv
  <2>1. Init => Unloaded
    BY DEF Init, Unloaded
  <2>. QED BY <2>1, UnloadedFits
<1>3. TypeOK /\ QueueInv /\ SeedsInv /\ [Next]_vars => SeedsInv'
  BY SeedsKept
<1>4. TypeOK /\ QueueInv /\ CountersInv /\ MemoryInv /\ SeedsInv /\ RouteInv /\ [Next]_vars => RouteInv'
  BY RouteKept
<1>5. TypeOK /\ QueueInv /\ CountersInv /\ RouteInv => QueuesBounded
  <2> SUFFICES ASSUME TypeOK, QueueInv, CountersInv, RouteInv, Alive PROVE QueuesBounded
    BY DEF QueuesBounded
  <2>0. ~Over /\ QueueLimit /\ EdgeLimits /\ (\A p \in Procs : FlightLimit(p))
    BY DEF Alive, Over, RouteInv
  <2>1. \A n \in DOMAIN pending : pending[n] \in Works /\ phase[pending[n]] = "pending"
    BY <2>0 DEF QueueInv, Range, TypeOK, WorkTypes
  <2>2. Cardinality(Queued) > QueueCapacity => \A n \in Queued : Recovered(pending[n])
    <3>1. Cardinality(Queued) = Cardinality(Loaded) /\ Cardinality(Loaded) \in Nat
      BY <2>0, QueueCounts, Countable, CountWorks
    <3>2. Len(branches) \in Nat /\ QueueCapacity \in Nat
      BY Countable, ConstantTypes
    <3>3. Cardinality(Queued) > QueueCapacity => Cardinality(Loaded) + Len(branches) > QueueCapacity
      BY <3>1, <3>2
    <3>4. \A n \in Queued : pending[n] \in Loaded
      BY <2>1 DEF Queued, Loaded, IsSourceSeed
    <3>. QED BY <2>0, <3>3, <3>4 DEF QueueLimit
  <2>3. \A c \in Edges : Cardinality(QueuedOn(c)) <= c.capacity
    BY <2>0, QueueCounts DEF EdgeLimits
  <2>4. ASSUME NEW p \in Procs, MaximumInFlight[p] # 0, InFlight(p) > MaximumInFlight[p]
        PROVE  \A w \in RunningOf(p) \cup {pending[n] : n \in QueuedFor(p)} : Recovered(w)
    <3>1. InFlight(p) = Cardinality(Held(p)) /\ Cardinality(Held(p)) \in Nat
      BY <2>0, QueueCounts, Countable, CountWorks
    <3>2. Cardinality(Coming(p)) \in Nat /\ MaximumInFlight[p] \in Nat
      BY Countable
    <3>3. Cardinality(Held(p)) + Cardinality(Coming(p)) > MaximumInFlight[p]
      BY <2>4, <3>1, <3>2
    <3>4. \A w \in RunningOf(p) \cup {pending[n] : n \in QueuedFor(p)} : w \in Held(p)
      BY <2>1 DEF RunningOf, Running, QueuedFor, Held, Unfinished, Finished
    <3>. QED BY <2>0, <2>4, <3>3, <3>4 DEF FlightLimit
  <2>. QED BY <2>2, <2>3, <2>4 DEF QueuesBounded
<1>6. Spec => []QueuesBounded
  BY <1>1, <1>2, <1>3, <1>4, <1>5, EngineTypes, QueueInvariant, CountersInvariant, MemoryInvariant, PTL DEF Spec
<1>. QED BY <1>6, ConcurrencyIsRespected, PTL DEF LimitsRespected

----------------------------------------------------------------------------
(* Deadlocks. *)

\* A seed came by no connection.
LinksInv == \A w \in Sources : item[w].connection = NoConnection

\* An emission is held back for want of room in a queue.
Blocked == deferred # <<>> /\ ~memoryStall

\* Whatever holds an emission back is seen before the scheduler looks at the
\* queue, and the scheduler starts it if nothing else is at work.  What it has
\* inspected in vain are seeds.
Calm ==
  /\ pc # "start" => lifecycle = "RUNNING"
  /\ pc = "publish" => deferred = <<>>
  /\ Blocked /\ pc \in {"schedule", "scan"} => Running # {} \/ Queued # {}
  /\ Blocked /\ pc \in {"settle", "select"} => Running # {}
  /\ pc = "scan" /\ Running = {} =>
       \A n \in DOMAIN pending : n > Len(pending) - inspected => IsSourceSeed(pending[n])

\* A run that nobody commanded is calm, and never deadlocked.
CalmInv == NoFalseDeadlock /\ (~Over /\ commands = 0 => Calm)

\* Every step leaves the seeds without a connection.
LEMMA LinksKept == TypeOK /\ QueueInv /\ LinksInv /\ [Next]_vars => LinksInv'
<1> SUFFICES ASSUME TypeOK, QueueInv, LinksInv, [Next]_vars PROVE LinksInv'
  OBVIOUS
<1>0. /\ item \in [Works -> WorkItems] /\ Rows \subseteq Works /\ Sources \subseteq Works
      /\ Rows \cap Sources = {}
  BY ConstantTypes DEF TypeOK, WorkTypes, Works
<1>1. ASSUME \A w \in Sources : item'[w].connection = item[w].connection PROVE LinksInv'
  BY <1>1 DEF LinksInv
<1>2. ASSUME NEW old \in SUBSET Rows, Recover(old) PROVE LinksInv'
  <2>1. item' = [w \in Works |-> [item[w] EXCEPT !.connection = NoConnection]]
    BY <1>2 DEF Recover
  <2>. QED BY <1>0, <2>1 DEF LinksInv, WorkItems
<1>3. CASE Publish
  <2>1. \E i : item' = [item EXCEPT ![created + 1] = i]
    BY <1>3 DEF Publish
  <2>2. created + 1 \in Rows
    BY <1>3, ConstantTypes DEF Publish, TypeOK, WorkTypes, Rows
  <2>3. created + 1 \notin Sources
    BY <1>0, <2>2
  <2>. QED BY <1>0, <1>1, <2>1, <2>3
<1>4. CASE ScanPostpone \/ UNCHANGED <<pending, workVars, taskVars>> \/ Restart \/ ScanStart
  BY <1>1, <1>4 DEF ScanPostpone, Restart, ScanStart, workVars
<1>5. ASSUME NEW w \in Works, SelectJoin(w) \/ TaskStep(w) PROVE LinksInv'
  BY <1>1, <1>5, TaskPhases DEF SelectJoin
<1>6. ASSUME NEW w \in Rows, RequeueDeadLetter(w) PROVE LinksInv'
  <2>1. item' = [item EXCEPT ![w].attempt = 0]
    BY <1>6 DEF RequeueDeadLetter
  <2>. QED BY <1>0, <1>1, <2>1
<1>. QED BY <1>2, <1>3, <1>4, <1>5, <1>6, WorkSteps

\* With nothing at work and nothing but seeds in the queue, whatever an emission
\* leads to has room.
LEMMA NothingIsFull ==
  ASSUME DistinctConnections, TypeOK, CountersInv, SeedsInv, LinksInv, ~Over,
         Running = {}, Queued = {},
         NEW p \in Procs, NEW rel \in Relationships
  PROVE  ~QueueFull(Outgoing(p, rel))
<1> DEFINE next == Outgoing(p, rel)
<1>1. next \in Seq(Edges) /\ Len(next) \in Nat /\ DOMAIN next = 1 .. Len(next)
  BY ConstantTypes
<1>2. \A n \in DOMAIN pending : pending[n] \in Sources
  BY DEF Queued, IsSourceSeed
<1>3. \A n \in DOMAIN next : next[n] \in Edges /\ next[n].from = p /\ next[n].relationship = rel
  BY <1>1, SelectionAssumption DEF SelectionAssumption
<1>4. next # <<>> => Len(next) <= QueueCapacity
  <2> SUFFICES ASSUME next # <<>> PROVE Len(next) <= QueueCapacity
    OBVIOUS
  <2>1. 1 \in DOMAIN next
    BY <1>1
  <2>. QED BY <1>3, <2>1, EngineAssumption DEF EngineAssumption, Validated
<1> HIDE DEF next
<1>5. Cardinality(Queued) = 0
  BY FS_EmptySet
<1>6. ~(next # <<>> /\ Cardinality(Queued) + Len(next) > QueueCapacity)
  BY <1>1, <1>4, <1>5, ConstantTypes
<1>7. ASSUME NEW n \in DOMAIN next PROVE ~(Cardinality(QueuedOn(next[n])) >= next[n].capacity)
  <2> DEFINE c == next[n]
  <2>1. c \in Edges /\ c.capacity \in Nat \ {0} /\ c.from \in Procs /\ c.to \in Procs
    BY <1>3, ConstantTypes
  <2>2. ConnectionId(c) # NoConnection
    <3> SUFFICES ASSUME ConnectionId(c) = NoConnection PROVE FALSE
      OBVIOUS
    <3>1. c.from = c.to
      BY DEF ConnectionId, NoConnection
    <3>2. Depth[c.from] >= Depth[c.to] + 1 /\ Depth[c.to] \in Nat
      BY <2>1, EngineAssumption DEF EngineAssumption, DepthIsLongestPath
    <3>. QED BY <3>1, <3>2
  <2> HIDE DEF c
  <2>3. QueuedOn(c) = {}
    BY <1>2, <2>2 DEF QueuedOn, LinksInv
  <2>4. ~(Cardinality(QueuedOn(c)) >= c.capacity)
    BY <2>1, <2>3, FS_EmptySet
  <2>. QED BY <2>4 DEF c
<1>8. ASSUME NEW n \in DOMAIN next, MaximumInFlight[next[n].to] # 0
      PROVE  ~(InFlight(next[n].to) + Cardinality({m \in DOMAIN next : next[m].to = next[n].to})
                 > MaximumInFlight[next[n].to])
  <2> DEFINE q == next[n].to
  <2>1. q \in Procs /\ q \notin Sources
    BY <1>3, ConstantTypes DEF Sources
  <2>2. {m \in DOMAIN next : next[m].to = q} = {n}
    <3>1. \A m \in DOMAIN next : next[m].to = q => m = n
      <4> SUFFICES ASSUME NEW m \in DOMAIN next, next[m].to = q PROVE m = n
        OBVIOUS
      <4>1. ConnectionId(next[m]) = ConnectionId(next[n])
        BY <1>3 DEF ConnectionId
      <4>2. next[m] = next[n]
        BY <1>3, <4>1 DEF DistinctConnections
      <4>. QED BY <4>2 DEF DistinctConnections, next
    <3>. QED BY <3>1
  <2>3. MaximumInFlight[q] \in Nat /\ MaximumInFlight[q] >= 1
    BY <1>8, <2>1, EngineAssumption DEF EngineAssumption, Validated
  <2>4. InFlight(q) = 0
    <3>1. QueuedFor(q) = {}
      BY <1>2, <2>1 DEF QueuedFor, SeedsInv
    <3>2. RunningOf(q) = {} /\ activePerProcessor[q] = Cardinality(RunningOf(q))
      BY <2>1 DEF RunningOf, CountersInv, Counted
    <3>. QED BY <3>1, <3>2, FS_EmptySet DEF InFlight
  <2> HIDE DEF q
  <2> DEFINE incoming == Cardinality({m \in DOMAIN next : next[m].to = q})
  <2>5. incoming = 1
    BY <2>2, FS_Singleton
  <2> HIDE DEF incoming
  <2>6. ~(InFlight(q) + incoming > MaximumInFlight[q])
    BY <2>3, <2>4, <2>5
  <2>. QED BY <2>6 DEF q, incoming
<1>9. ~QueueFull(next)
  BY <1>6, <1>7, <1>8 DEF QueueFull
<1>. QED BY <1>9 DEF next

\* With nothing at work, the scheduler starts whatever is not a seed.
LEMMA SeedsOnly ==
  ASSUME TypeOK, CountersInv, ~Over, Running = {}, ScanPostpone
  PROVE  IsSourceSeed(Head(pending))
<1> DEFINE w == Head(pending)  p == Proc(w)
<1>1. w \in Works /\ p \in Procs
  <2>1. w \in Works
    BY Heads DEF TypeOK, WorkTypes, SchedulerTypes, ScanPostpone, Scanning
  <2>. QED BY <2>1, ItemTypes DEF Proc, TypeOK, WorkTypes
<1>2. RunningOf(p) = {} /\ activePerProcessor[p] = Cardinality(RunningOf(p))
      /\ (Partitioned(p) => activePartitions[p] = {})
  <2>1. RunningOf(p) = {}
    BY DEF RunningOf
  <2>. QED BY <1>1, <2>1 DEF CountersInv, Counted
<1>3. ~KeyBusy(w)
  BY <1>2 DEF KeyBusy
<1>4. Cardinality(Running) = 0 /\ activePerProcessor[p] = 0
  BY <1>2, FS_EmptySet
<1>5. ~(activePerProcessor[p] >= Limit(p))
  BY <1>1, <1>4, EngineAssumption DEF EngineAssumption, Validated, Limit
<1>6. ~(Cardinality(Running) + 1 + Depth[p] > MaxConcurrency)
  <2>1. Depth[p] \in Nat /\ Depth[p] + 1 <= MaxConcurrency /\ MaxConcurrency \in Nat
    BY <1>1, EngineAssumption DEF EngineAssumption, Validated, DepthIsLongestPath
  <2>. QED BY <1>4, <2>1
<1>7. NoSlot(w)
  BY <1>3 DEF ScanPostpone
<1>. QED BY <1>5, <1>6, <1>7 DEF NoSlot

\* The router holds an emission back only with something at work or queued.
LEMMA RouterKeepsCalm ==
  ASSUME DistinctConnections, TypeOK, CountersInv, SeedsInv, LinksInv, ~Over, Calm,
         RouteDeferred \/ SelectReceive \/ Publish \/ Published
  PROVE  Calm'
<1>0. lifecycle' = "RUNNING"
  BY DEF Calm, RouteDeferred, SelectReceive, Publish, Published, controlVars, Over
<1>1. CASE Publish
  <2>1. pc' = "publish" /\ deferred' = <<>>
    BY <1>1 DEF Publish, Calm
  <2>. QED BY <1>0, <2>1 DEF Calm
<1>2. CASE Published
  <2>1. deferred' = <<>> /\ pc' \in {"top", "schedule"}
    BY <1>2 DEF Published, Calm, Goto, TypeOK, RouterTypes
  <2>. QED BY <1>0, <2>1 DEF Calm, Blocked
<1>3. CASE SelectReceive
  <2>1. pc' = "top" \/ (pc' = "publish" /\ deferred' = <<>>)
    BY <1>3 DEF SelectReceive, Route, Hold, Goto
  <2>. QED BY <1>0, <2>1 DEF Calm
<1>4. CASE RouteDeferred
  <2> DEFINE e == deferred[1]
  <2>1. e \in Emissions
    BY <1>4, Heads DEF RouteDeferred, TypeOK, RouterTypes
  <2>2. Proc(e.source) \in Procs /\ e.relationship \in Relationships
    <3>1. e.source \in Works /\ e.relationship \in Relationships
      BY <2>1 DEF Emissions
    <3>. QED BY <3>1, ItemTypes DEF Proc, TypeOK, WorkTypes
  <2> DEFINE next == Outgoing(Proc(e.source), e.relationship)
  <2>3. \/ QueueFull(next) /\ pc' = "schedule"
        \/ pc' = "schedule" /\ memoryStall'
        \/ pc' = "publish" /\ deferred' = <<>>
    BY <1>4 DEF RouteDeferred, Route, Hold, Goto
  <2>4. UNCHANGED <<pending, phase>>
    BY <1>4 DEF RouteDeferred, taskVars
  <2>5. Running' = Running /\ Queued' = Queued
    BY <2>4 DEF Running, Queued, IsSourceSeed
  <2>6. QueueFull(next) => Running # {} \/ Queued # {}
    BY <2>2, NothingIsFull
  <2> HIDE DEF next
  <2>. QED BY <1>0, <2>3, <2>5, <2>6 DEF Calm, Blocked
<1>. QED BY <1>1, <1>2, <1>3, <1>4

\* A scan that starts nothing, with nothing at work, has found nothing but seeds.
LEMMA ScanKeepsCalm ==
  ASSUME TypeOK, QueueInv, CountersInv, ~Over, Calm,
         ScheduleOn \/ ScanPostpone \/ ScanStart \/ ScanEnd
  PROVE  Calm'
<1>0. lifecycle' = "RUNNING" /\ UNCHANGED <<deferred, memoryStall>>
  BY DEF Calm, ScheduleOn, ScanPostpone, ScanStart, ScanEnd, Scanning, controlVars
<1>a. pending \in Seq(Works) /\ Len(pending) \in Nat /\ DOMAIN pending = 1 .. Len(pending) /\ inspected \in Nat
  BY DEF TypeOK, WorkTypes, SchedulerTypes
<1>1. CASE ScheduleOn
  <2>1. pc = "schedule" /\ pc' = "scan" /\ inspected' = 0 /\ UNCHANGED <<pending, phase>>
    BY <1>1 DEF ScheduleOn, Goto, taskVars
  <2>2. Running' = Running /\ Queued' = Queued
    BY <2>1 DEF Running, Queued, IsSourceSeed
  <2>3. \A n \in DOMAIN pending : ~(n > Len(pending) - 0)
    BY <1>a
  <2>. QED BY <1>0, <2>1, <2>2, <2>3 DEF Calm, Blocked
<1>2. CASE ScanPostpone
  <2>1. /\ pc = "scan" /\ pc' = "scan" /\ inspected < Len(pending) /\ inspected' = inspected + 1
        /\ pending' = Append(Tail(pending), Head(pending)) /\ phase' = phase
    BY <1>2 DEF ScanPostpone, Scanning, taskVars
  <2>2. Running' = Running
    BY <2>1 DEF Running
  <2>3. /\ Len(pending') = Len(pending) /\ DOMAIN pending' = 1 .. Len(pending)
        /\ \A n \in 1 .. Len(pending) : pending'[n] = IF n = Len(pending) THEN pending[1] ELSE pending[n + 1]
        /\ Head(pending) = pending[1]
    <3>1. 0 < Len(pending)
      BY <1>a, <2>1
    <3> DEFINE later == Append(Tail(pending), Head(pending))
    <3> DEFINE rest == Tail(pending)  first == Head(pending)
    <3>2. first = pending[1] /\ rest \in Seq(Works) /\ first \in Works
          /\ Len(rest) \in Nat /\ Len(rest) = Len(pending) - 1
          /\ \A n \in 1 .. Len(rest) : rest[n] = pending[n + 1]
      BY <1>a, <3>1, Heads
    <3> HIDE DEF rest, first
    <3>6. Len(Append(rest, first)) = Len(rest) + 1 /\ DOMAIN Append(rest, first) = 1 .. Len(rest) + 1
          /\ \A n \in 1 .. Len(rest) + 1 : Append(rest, first)[n] = IF n <= Len(rest) THEN rest[n] ELSE first
      BY <3>2
    <3>7. later = Append(rest, first)
      BY DEF rest, first
    <3> HIDE DEF later
    <3>8. \A l, r \in Nat : r = l - 1 =>
            \A n \in 1 .. l : (n <= r <=> n # l) /\ (n # l => n \in 1 .. r)
      OBVIOUS
    <3>3. Len(later) = Len(pending) /\ DOMAIN later = 1 .. Len(pending)
          /\ \A n \in 1 .. Len(pending) : later[n] = IF n = Len(pending) THEN first ELSE rest[n]
      <4>1. Len(rest) + 1 = Len(pending)
        BY <1>a, <3>2
      <4>2. \A n \in 1 .. Len(pending) : n <= Len(rest) <=> n # Len(pending)
        BY <3>8, <1>a, <3>2
      <4>. QED BY <3>6, <3>7, <4>1, <4>2
    <3>4. \A n \in 1 .. Len(pending) : n # Len(pending) => rest[n] = pending[n + 1]
      <4>1. \A n \in 1 .. Len(pending) : n # Len(pending) => n \in 1 .. Len(rest)
        BY <3>8, <1>a, <3>2
      <4>. QED BY <3>2, <4>1
    <3>5. pending' = later
      BY <2>1 DEF later
    <3>. QED BY <3>2, <3>3, <3>4, <3>5 DEF first
  <2>4. Queued # {} => Queued' # {}
    <3> SUFFICES ASSUME NEW n \in 1 .. Len(pending), ~IsSourceSeed(pending[n])
                 PROVE  \E m \in 1 .. Len(pending) : ~IsSourceSeed(pending'[m])
      BY <1>a, <2>3 DEF Queued, IsSourceSeed
    <3>1. CASE n = 1
      <4>1. Len(pending) \in 1 .. Len(pending)
        BY <1>a
      <4>2. pending'[Len(pending)] = pending[n]
        BY <2>3, <3>1, <4>1
      <4>. QED BY <4>1, <4>2
    <3>2. CASE n # 1
      <4>1. n - 1 \in 1 .. Len(pending) /\ n - 1 # Len(pending) /\ (n - 1) + 1 = n
        BY <1>a, <3>2
      <4>2. pending'[n - 1] = pending[n]
        BY <2>3, <4>1
      <4>. QED BY <4>1, <4>2
    <3>. QED BY <3>1, <3>2
  <2>5. ASSUME Running = {}, NEW n \in 1 .. Len(pending), n > Len(pending) - (inspected + 1)
        PROVE  IsSourceSeed(pending'[n])
    <3>1. CASE n = Len(pending)
      BY <1>2, <2>3, <2>5, <3>1, SeedsOnly
    <3>2. CASE n # Len(pending)
      <4>1. n + 1 \in 1 .. Len(pending) /\ n + 1 > Len(pending) - inspected
        <5>1. \A l, i \in Nat : \A m \in 1 .. l :
                m # l /\ m > l - (i + 1) => m + 1 \in 1 .. l /\ m + 1 > l - i
          OBVIOUS
        <5>2. Len(pending) \in Nat /\ inspected \in Nat
          BY <1>a
        <5>. QED BY <2>5, <3>2, <5>1, <5>2
      <4>2. IsSourceSeed(pending[n + 1])
        BY <1>a, <2>1, <2>5, <4>1 DEF Calm
      <4>. QED BY <2>3, <3>2, <4>2
    <3>. QED BY <3>1, <3>2
  <2>6. Running' = {} => \A n \in DOMAIN pending' : n > Len(pending') - inspected' => IsSourceSeed(pending'[n])
    BY <2>1, <2>2, <2>3, <2>5
  <2>. QED BY <1>0, <2>1, <2>2, <2>4, <2>6 DEF Calm, Blocked, IsSourceSeed
<1>3. CASE ScanStart
  <2>1. pc' = "scan" /\ Head(pending) \in Works /\ phase' = [phase EXCEPT ![Head(pending)] = "try"]
    BY <1>3, ScanStarts
  <2>2. Running' # {}
    BY <2>1 DEF Running, TypeOK, WorkTypes, Unfinished
  <2>. QED BY <1>0, <2>1, <2>2 DEF Calm
<1>4. CASE ScanEnd
  <2>1. pc = "scan" /\ pc' = "settle" /\ ~Scanning /\ UNCHANGED <<pending, phase>>
    BY <1>4 DEF ScanEnd, Goto, taskVars
  <2>2. Running' = Running
    BY <2>1 DEF Running
  <2>3. Running = {} => Queued = {}
    <3> SUFFICES ASSUME Running = {} PROVE Queued = {}
      OBVIOUS
    <3>1. Cardinality(Running) = 0
      BY FS_EmptySet
    <3>2. ~(inspected < Len(pending))
      BY <2>1, <3>1, ConstantTypes DEF Scanning
    <3>3. \A n \in DOMAIN pending : n > Len(pending) - inspected
      BY <1>a, <3>2
    <3>. QED BY <2>1, <3>3 DEF Calm, Queued
  <2>. QED BY <1>0, <2>1, <2>2, <2>3 DEF Calm, Blocked
<1>. QED BY <1>1, <1>2, <1>3, <1>4

\* The other steps of a run nobody commands keep it.
LEMMA CalmKept ==
  ASSUME DistinctConnections, TypeOK, QueueInv, CountersInv, SeedsInv, LinksInv, CalmInv, [Next]_vars
  PROVE  CalmInv'
<1>0. (~Over /\ commands = 0 => Calm) /\ (CalmInv' <=> NoFalseDeadlock' /\ (~Over' /\ commands' = 0 => Calm'))
  BY DEF CalmInv
<1>1. commands \in Nat /\ (commands' = commands \/ commands' = commands + 1)
  <2>1. commands \in Nat
    BY ConstantTypes DEF TypeOK, ControlTypes
  <2>2. ASSUME LoopStep PROVE commands' = commands
    BY <2>2 DEF LoopStep, Join, Recover, Publish, Published, LoopStop, LoopWait, Subscribe, WakeUp,
       NothingDeferred, ScheduleOff, ScheduleOn, ScanPostpone, ScanKeyMissing, ScanStart, ScanEnd,
       SettleEnd, SettleReceive, SettleStalled, SettleOn, SelectJoin, SelectFatal, SelectStall,
       SelectTick, SelectElse, RouteDeferred, SelectReceive, controlVars
  <2>3. ASSUME NEW w \in Works, TaskStep(w) PROVE commands' = commands
    BY <2>3 DEF TaskStep, TaskBegin, TaskEmit, TaskReserve, TaskSend, TaskReturn, TaskError, TaskTimeout,
       TaskFatal, TaskGiveUp, TaskFrame, controlVars
  <2>4. ASSUME Operator PROVE commands' = commands \/ commands' = commands + 1
    <3>1. CASE Pause \/ Resume \/ Drain
      BY <3>1 DEF Pause, Resume, Drain, Command
    <3>2. CASE \E w \in Rows : RequeueDeadLetter(w)
      BY <3>2 DEF RequeueDeadLetter, controlVars
    <3>3. CASE Abort \/ Restart
      BY <3>3 DEF Abort, Restart
    <3>. QED BY <2>4, <3>1, <3>2, <3>3 DEF Operator
  <2>. QED BY <2>1, <2>2, <2>3, <2>4 DEF Next, vars, controlVars
<1>2. commands' = 0 => commands = 0
  BY <1>1
<1>3. ASSUME commands = 0, SelectElse PROVE FALSE
  <2>1. Running = {} /\ Blocked /\ pc = "select" /\ ~Over
    BY <1>3 DEF SelectElse, Blocked, Over
  <2>. QED BY <1>0, <1>3, <2>1 DEF Calm
<1>4. NoFalseDeadlock'
  <2>1. \/ cause' = cause \/ cause' # "deadlock" \/ SelectElse
    <3>1. CASE LoopStep
      BY <3>1 DEF LoopStep, Join, Recover, Publish, Published, LoopStop, LoopWait, Subscribe, WakeUp,
         NothingDeferred, ScheduleOff, ScheduleOn, ScanPostpone, ScanKeyMissing, ScanStart, ScanEnd,
         SettleEnd, SettleReceive, SettleStalled, SettleOn, SelectJoin, SelectFatal, SelectStall,
         SelectTick, RouteDeferred, SelectReceive, Ends, Fails
    <3>2. ASSUME NEW w \in Works, TaskStep(w) PROVE cause' = cause
      BY <3>2 DEF TaskStep, TaskBegin, TaskEmit, TaskReserve, TaskSend, TaskReturn, TaskError, TaskTimeout,
         TaskFatal, TaskGiveUp, TaskFrame
    <3>3. CASE Operator
      BY <3>3 DEF Operator, Pause, Resume, Drain, Command, RequeueDeadLetter, Abort, Restart, Fails
    <3>. QED BY <3>1, <3>2, <3>3 DEF Next, vars
  <2>2. cause = "deadlock" => commands > 0
    BY DEF CalmInv, NoFalseDeadlock
  <2>3. CASE SelectElse
    BY <1>1, <1>3, <2>3 DEF NoFalseDeadlock
  <2>. QED BY <1>1, <2>1, <2>2, <2>3 DEF NoFalseDeadlock
<1>5. ASSUME ~Over', commands' = 0 PROVE Calm'
  <2>1. CASE Restart
    BY <2>1 DEF Restart, Goto, Calm
  <2>2. CASE ~Restart
    <3>0. ~Over /\ commands = 0 /\ Calm
      BY <1>0, <1>2, <1>5, <2>2, StartsOver
    <3>1. CASE RouteDeferred \/ SelectReceive \/ Publish \/ Published
      BY <3>0, <3>1, RouterKeepsCalm
    <3>2. CASE ScheduleOn \/ ScanPostpone \/ ScanStart \/ ScanEnd
      BY <3>0, <3>2, ScanKeepsCalm
    <3>3. ASSUME NEW old \in SUBSET Rows, Recover(old) PROVE Calm'
      <4>1. lifecycle' = "RUNNING" /\ pc' = "top"
        BY <1>5, <3>3 DEF Recover, Goto, Fails, SetLifecycle, Over
      <4>. QED BY <4>1 DEF Calm
    <3>4. CASE LoopStop \/ ScanKeyMissing \/ SettleEnd \/ SettleStalled \/ SelectStall \/ SelectElse \/ Abort
      BY <1>5, <3>4 DEF LoopStop, ScanKeyMissing, SettleEnd, SettleStalled, SelectStall, SelectElse, Abort,
         Ends, Fails, Goto, Over
    <3>5. ASSUME NEW w \in Works, SelectFatal(w) PROVE FALSE
      BY <1>5, <3>5 DEF SelectFatal, Fails, Goto, Over
    <3>6. CASE LoopWait \/ Subscribe \/ WakeUp \/ SelectTick \/ SettleReceive
      <4>1. lifecycle' = "RUNNING" /\ pc' \in {"top", "subscribe", "parked"}
        BY <3>0, <3>6 DEF Calm, LoopWait, Subscribe, WakeUp, SelectTick, SettleReceive, Goto, controlVars
      <4>. QED BY <4>1 DEF Calm
    <3>7. ASSUME NEW w \in Works, SelectJoin(w) PROVE Calm'
      <4>1. lifecycle' = "RUNNING" /\ pc' = "top"
        BY <3>0, <3>7 DEF Calm, SelectJoin, Goto, controlVars
      <4>. QED BY <4>1 DEF Calm
    <3>8. CASE NothingDeferred
      <4>1. lifecycle' = "RUNNING" /\ pc' = "schedule" /\ deferred' = <<>>
        BY <3>0, <3>8 DEF Calm, NothingDeferred, Goto, controlVars, loopVars
      <4>. QED BY <4>1 DEF Calm, Blocked
    <3>9. CASE ScheduleOff
      BY <3>0, <3>9 DEF Calm, ScheduleOff
    <3>10. CASE SettleOn
      <4>1. lifecycle' = "RUNNING" /\ pc = "settle" /\ pc' = "select" /\ UNCHANGED <<deferred, memoryStall, phase>>
        BY <3>0, <3>10 DEF Calm, SettleOn, Goto, controlVars, loopVars, taskVars
      <4>2. Running' = Running
        BY <4>1 DEF Running
      <4>. QED BY <3>0, <4>1, <4>2 DEF Calm, Blocked
    <3>11. ASSUME UNCHANGED <<lifecycle, pc, loopVars>>, Running' = Running PROVE Calm'
      <4>1. UNCHANGED <<deferred, memoryStall, pending, inspected>>
        BY <3>11 DEF loopVars
      <4>2. Queued' = Queued
        BY <4>1 DEF Queued, IsSourceSeed
      <4>. QED BY <3>0, <3>11, <4>1, <4>2 DEF Calm, Blocked, IsSourceSeed
    <3>12. ASSUME NEW w \in Works, TaskStep(w) PROVE Calm'
      <4>1. UNCHANGED <<lifecycle, pc, loopVars>>
        BY <3>12 DEF TaskStep, TaskBegin, TaskEmit, TaskReserve, TaskSend, TaskReturn, TaskError, TaskTimeout,
           TaskFatal, TaskGiveUp, TaskFrame, controlVars
      <4>2. Running' = Running
        BY <3>12, TaskPhases DEF Running, TypeOK, WorkTypes
      <4>. QED BY <3>11, <4>1, <4>2
    <3>13. CASE Pause \/ Resume \/ Drain
      BY <1>1, <1>5, <3>13 DEF Pause, Resume, Drain, Command
    <3>14. CASE UNCHANGED vars \/ \E w \in Rows : RequeueDeadLetter(w)
      <4>1. UNCHANGED <<lifecycle, pc, loopVars, phase>>
        BY <3>14 DEF RequeueDeadLetter, vars, controlVars, taskVars
      <4>2. Running' = Running
        BY <4>1 DEF Running
      <4>. QED BY <3>11, <4>1, <4>2
    <3>. QED BY <2>2, <3>1, <3>2, <3>3, <3>4, <3>5, <3>6, <3>7, <3>8, <3>9, <3>10, <3>12, <3>13, <3>14
             DEF Next, LoopStep, Join, Operator
  <2>. QED BY <2>1, <2>2
<1>. QED BY <1>0, <1>4, <1>5

\* A run nobody commanded is never reported as deadlocked: an emission is held
\* back only while something is at work or in the queue, and what is in the
\* queue is started as soon as nothing is at work.  (A connection written twice
\* may bring a processor more at once than its maximum_in_flight ever allows.)
\* And a run nobody drains ends only when it is done.
THEOREM EndsAreRight ==
  ASSUME DistinctConnections
  PROVE  Spec => []EndsRightly
<1>1. Init => SeedsInv /\ LinksInv /\ CalmInv
  <2>1. Sources \cap Rows = {}
    BY ConstantTypes
  <2>2. Init => SeedsInv
    BY <2>1 DEF Init, SeedsInv, Works, Proc
  <2>3. Init => LinksInv
    BY DEF Init, LinksInv, Works
  <2>4. Init => CalmInv
    BY DEF Init, CalmInv, Calm, NoFalseDeadlock, Blocked, Over
  <2>. QED BY <2>2, <2>3, <2>4
<1>2. /\ TypeOK /\ QueueInv /\ SeedsInv /\ [Next]_vars => SeedsInv'
      /\ TypeOK /\ QueueInv /\ LinksInv /\ [Next]_vars => LinksInv'
  BY SeedsKept, LinksKept
<1>3. TypeOK /\ QueueInv /\ CountersInv /\ SeedsInv /\ LinksInv /\ CalmInv /\ [Next]_vars => CalmInv'
  BY CalmKept
<1>4. CalmInv => NoFalseDeadlock
  BY DEF CalmInv
<1>. QED BY <1>1, <1>2, <1>3, <1>4, EngineTypes, QueueInvariant, CountersInvariant, EndIsDone, PTL
         DEF Spec, EndsRightly

=============================================================================
