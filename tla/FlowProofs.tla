----------------------------- MODULE FlowProofs -----------------------------
(***************************************************************************)
(* Proofs about a flow and what comes out of it.  FlowSupervisor, for any  *)
(* callers, any use of it by them and any number of engine tasks.          *)
(* DatasetExport, for any groups, ratios, rows, draws, tasks at a time and *)
(* attempts: that a row is in one part of its dataset, that a dataset is   *)
(* handed on once and, while nothing fails, is, and that it is whole.      *)
(* RowPrep, for any packets, rows, window, tasks at a time, attempts and   *)
(* faults: that a node that removes duplicates removes them, and no more.  *)
(***************************************************************************)
EXTENDS FlowSupervisor, DatasetExport, RowPrep, FoldProofs, TLAPS

(* The supervisor of a flow. *)

\* Every variable keeps its type, and a call knows a task exactly while it is
\* about one: stop_gracefully, start.
THEOREM SupervisorTypes == Spec => []TypeOK
<1> USE DEF TypeOK, Tasks, NoTask, Lifecycles, Phases, Steps, About, Holding
<1>1. Init => TypeOK
  BY DEF Init
<1>2. TypeOK /\ [Next]_vars => TypeOK'
  <2> SUFFICES ASSUME TypeOK, [Next]_vars PROVE TypeOK'
    OBVIOUS
  <2> USE DEF controlVars, taskVars, callVars, Transition, At, Goto, Call, Return, Finished
  <2>1. ASSUME NEW c \in Callers, Begin(c), UNCHANGED usage PROVE TypeOK'
    <3>1. CASE StartRefused(c)
      BY <2>1, <3>1 DEF StartRefused
    <3>2. ASSUME NEW t \in Tasks, Start(c, t) PROVE TypeOK'
      BY <2>1, <3>2 DEF Start, Spawn
    <3>3. CASE Stop(c)
      BY <2>1, <3>3 DEF Stop
    <3>4. CASE Pause(c) \/ Resume(c) \/ Drain(c)
      BY <2>1, <3>4 DEF Pause, Resume, Drain, Command
    <3>5. CASE Wait(c)
      BY <2>1, <3>5 DEF Wait
    <3>. QED BY <2>1, <3>1, <3>2, <3>3, <3>4, <3>5 DEF Begin
  <2>2. ASSUME NEW c \in Callers, GoOn(c), UNCHANGED usage PROVE TypeOK'
    <3>1. CASE StartReady(c) \/ StartLost(c) \/ StartFails(c) \/ StopJoins(c)
      BY <2>2, <3>1 DEF StartReady, StartLost, StartFails, StopJoins
    <3>2. CASE StartDropped(c) \/ StartRegains(c)
      BY <2>2, <3>2 DEF StartDropped, StartRegains
    <3>3. CASE StopDrains(c) \/ StopNothing(c) \/ StopAborts(c)
      BY <2>2, <3>3 DEF StopDrains, StopNothing, StopAborts
    <3>4. CASE StopTakes(c)
      BY <2>2, <3>4 DEF StopTakes
    <3>5. CASE StopForces(c) \/ StopKeeps(c)
      BY <2>2, <3>5 DEF StopForces, StopKeeps
    <3>6. CASE Paused(c) \/ Resumed(c) \/ Draining(c)
      BY <2>2, <3>6 DEF Paused, Resumed, Draining, CommandActs
    <3>7. CASE WaitReads(c) \/ WaitSubscribes(c) \/ WaitWakes(c)
      BY <2>2, <3>7 DEF WaitReads, WaitSubscribes, WaitWakes
    <3>. QED BY <2>2, <3>1, <3>2, <3>3, <3>4, <3>5, <3>6, <3>7 DEF GoOn
  <2>3. ASSUME NEW t \in Tasks, Proceeds(t) \/ TaskRuns(t), UNCHANGED usage PROVE TypeOK'
    BY <2>3 DEF Proceeds, TaskStarts, TaskReports, TaskFinishes, TaskCancelled, TaskRuns, TaskStep
  <2>4. ASSUME NEW t \in Tasks, NEW error \in BOOLEAN, TaskReturns(t, error), UNCHANGED usage
        PROVE TypeOK'
    BY <2>4 DEF TaskReturns, TaskStep
  <2>5. CASE UNCHANGED vars
    BY <2>5 DEF vars
  <2>. QED BY <2>1, <2>2, <2>3, <2>4, <2>5 DEF Next
<1>. QED BY <1>1, <1>2, PTL DEF Spec

----------------------------------------------------------------------------
(* The inductive invariant of the ownership of engines. *)

Alive(t) == phase[t] \notin {"unborn", "finished"}
Holds(c, t) == pc[c] \in Holding /\ mine[c] = t

\* A handle is of a task that was spawned.
HandlesBorn ==
  /\ slot # NoTask => phase[slot] # "unborn"
  /\ \A c \in Callers : mine[c] # NoTask => phase[mine[c]] # "unborn"

\* It is in one place: the mutex, or one call.
OnePlace ==
  \A t \in Tasks, c \in Callers : Holds(c, t) =>
    /\ slot # t
    /\ \A d \in Callers : Holds(d, t) => c = d

\* Only who may start or stop is in the middle of it.
StartersOnly ==
  \A c \in Callers :
    pc[c] \in About \cup {"stopDrain", "stopTake", "stopNothing"} => Starts(c)

\* While calls to start and stop come from one place, the mutex is empty as
\* long as the handle that was in it is awaited.
AwaitedAlone ==
  OneStarter => \A c \in Callers : pc[c] \in Holding \cup {"stopNothing"} => slot = NoTask

\* No engine is without a handle: a stop that gives up and puts its own back
\* would lose the one of a start that came meanwhile.
SomePlace ==
  OneStarter \/ usage.modes = {"force"} =>
    \A t \in Tasks : Alive(t) => slot = t \/ \E c \in Callers : Holds(c, t)

OwnersInv ==
  HandlesBorn /\ OnePlace /\ StartersOnly /\ AwaitedAlone /\ SomePlace
    /\ TerminalMeansIdle

\* The steps of the calls of start keep it.
LEMMA StartKeepsOwners ==
  ASSUME TypeOK, TypeOK', OwnersInv, UNCHANGED usage, NEW c \in Callers,
         \/ StartRefused(c) \/ \E t \in Tasks : Start(c, t)
         \/ StartReady(c) \/ StartDropped(c) \/ StartRegains(c) \/ StartLost(c) \/ StartFails(c)
  PROVE  OwnersInv'
<1> USE DEF TypeOK, Tasks, NoTask, Phases, Working, Steps, About, Holding, Starts, OneStarter,
            controlVars, taskVars, callVars, Transition, At, Goto, Call, Return, Finished, Dropped,
            OwnersInv, HandlesBorn, OnePlace, StartersOnly, AwaitedAlone, SomePlace,
            Alive, Holds, TerminalMeansIdle, Terminal
<1>0. CASE StartRefused(c)
  BY <1>0 DEF StartRefused
<1>1. CASE StartReady(c)
  BY <1>1 DEF StartReady
<1>2. CASE StartDropped(c)
  BY <1>2 DEF StartDropped
<1>3. CASE StartRegains(c)
  BY <1>3 DEF StartRegains
<1>4. CASE StartLost(c)
  BY <1>4 DEF StartLost
<1>5. CASE StartFails(c)
  BY <1>5 DEF StartFails
<1>6. ASSUME NEW t \in Tasks, Start(c, t) PROVE OwnersInv'
  BY <1>6 DEF Start, Spawn
<1>. QED BY <1>0, <1>1, <1>2, <1>3, <1>4, <1>5, <1>6

\* So do the steps of the calls of stop.
LEMMA StopKeepsOwners ==
  ASSUME TypeOK, TypeOK', OwnersInv, UNCHANGED usage, NEW c \in Callers,
         \/ Stop(c) \/ StopDrains(c) \/ StopTakes(c) \/ StopNothing(c) \/ StopJoins(c)
         \/ StopForces(c) \/ StopAborts(c) \/ StopKeeps(c)
  PROVE  OwnersInv'
<1> USE DEF TypeOK, Tasks, NoTask, Phases, Working, Steps, About, Holding, Starts, OneStarter,
            controlVars, taskVars, callVars, Transition, At, Goto, Call, Return, Finished,
            OwnersInv, HandlesBorn, OnePlace, StartersOnly, AwaitedAlone, SomePlace,
            Alive, Holds, TerminalMeansIdle, Terminal
<1>0. CASE Stop(c)
  BY <1>0 DEF Stop
<1>1. CASE StopDrains(c)
  BY <1>1 DEF StopDrains
<1>2. CASE StopTakes(c)
  BY <1>2 DEF StopTakes
<1>3. CASE StopNothing(c)
  BY <1>3 DEF StopNothing
<1>4. CASE StopJoins(c)
  BY <1>4 DEF StopJoins
<1>5. CASE StopForces(c)
  BY <1>5 DEF StopForces
<1>6. CASE StopAborts(c)
  BY SMTT(30), <1>6 DEF StopAborts
<1>7. CASE StopKeeps(c)
  BY <1>7 DEF StopKeeps
<1>. QED BY <1>0, <1>1, <1>2, <1>3, <1>4, <1>5, <1>6, <1>7

\* And those of pause, resume, drain and wait_for_terminal, which hold nothing.
LEMMA CommandsKeepOwners ==
  ASSUME TypeOK, TypeOK', OwnersInv, UNCHANGED usage, NEW c \in Callers,
         \/ Pause(c) \/ Resume(c) \/ Drain(c) \/ Wait(c)
         \/ Paused(c) \/ Resumed(c) \/ Draining(c)
         \/ WaitReads(c) \/ WaitSubscribes(c) \/ WaitWakes(c)
  PROVE  OwnersInv'
<1> USE DEF TypeOK, Tasks, NoTask, Phases, Working, Steps, About, Holding, Starts, OneStarter,
            controlVars, taskVars, callVars, Transition, At, Goto, Call, Return,
            OwnersInv, HandlesBorn, OnePlace, StartersOnly, AwaitedAlone, SomePlace,
            Alive, Holds, TerminalMeansIdle, Terminal
<1>1. CASE Pause(c) \/ Resume(c)
  BY <1>1, SMTT(30) DEF Pause, Resume, Command
<1>2. CASE Drain(c)
  BY <1>2, SMTT(30) DEF Drain, Command
<1>3. CASE Paused(c)
  BY <1>3 DEF Paused, CommandActs
<1>4. CASE Resumed(c)
  BY <1>4 DEF Resumed, CommandActs
<1>5. CASE Draining(c)
  BY <1>5 DEF Draining, CommandActs
<1>6. CASE Wait(c) \/ WaitReads(c)
  BY <1>6 DEF Wait, WaitReads
<1>7. CASE WaitSubscribes(c) \/ WaitWakes(c)
  BY <1>7 DEF WaitSubscribes, WaitWakes
<1>. QED BY <1>1, <1>2, <1>3, <1>4, <1>5, <1>6, <1>7

\* A step of an engine that is at work moves no handle.
LEMMA TaskStepKeepsHandles ==
  ASSUME TypeOK, OwnersInv, UNCHANGED usage, NEW t \in Tasks, NEW from, NEW to,
         TaskStep(t, from, to), from \notin {"unborn", "finished"}, to # "unborn"
  PROVE  /\ HandlesBorn' /\ OnePlace' /\ StartersOnly' /\ AwaitedAlone' /\ SomePlace'
         /\ \A u \in Tasks : u # t => phase'[u] = phase[u]
         /\ phase[t] = from /\ phase'[t] = to
<1>1. /\ phase \in [Tasks -> Phases] /\ slot \in Tasks \cup {NoTask}
      /\ mine \in [Callers -> Tasks \cup {NoTask}]
      /\ phase' = [phase EXCEPT ![t] = to] /\ phase[t] = from
      /\ slot' = slot /\ pc' = pc /\ mine' = mine
  BY DEF TypeOK, TaskStep, callVars
<1>2. \A u \in Tasks : IF u = t THEN phase[u] = from /\ phase'[u] = to ELSE phase'[u] = phase[u]
  BY <1>1
<1>3. HandlesBorn'
  BY <1>1, <1>2 DEF OwnersInv, HandlesBorn
<1>4. OnePlace' /\ StartersOnly' /\ AwaitedAlone'
  BY <1>1 DEF OwnersInv, OnePlace, StartersOnly, AwaitedAlone, Holds, Starts, OneStarter
<1>5. \A u \in Tasks : Alive(u)' => Alive(u)
  BY <1>2 DEF Alive
<1>6. SomePlace'
  BY <1>1, <1>5 DEF OwnersInv, SomePlace, Holds, Starts, OneStarter
<1>. QED BY <1>2, <1>3, <1>4, <1>5, <1>6

\* Of one place, at most one engine is at work: its handle is in the mutex, or
\* with the only call that may hold one.
LEMMA AliveAlone ==
  ASSUME TypeOK, OwnersInv, OneStarter, NEW t \in Tasks, NEW u \in Tasks, Alive(t), Alive(u)
  PROVE  t = u
<1>1. /\ slot = t \/ \E c \in Callers : Holds(c, t)
      /\ slot = u \/ \E c \in Callers : Holds(c, u)
  BY DEF OwnersInv, SomePlace
<1>2. t # NoTask /\ u # NoTask
  BY DEF Tasks, NoTask
<1>3. ASSUME NEW c \in Callers, pc[c] \in Holding PROVE slot = NoTask /\ Starts(c)
  BY <1>3 DEF OwnersInv, AwaitedAlone, StartersOnly, Holding, About
<1>4. ASSUME NEW c \in Callers, NEW d \in Callers, Holds(c, t), Holds(d, u) PROVE t = u
  BY <1>3, <1>4 DEF Holds, OneStarter
<1>5. CASE slot = NoTask
  BY <1>1, <1>2, <1>4, <1>5
<1>6. CASE slot # NoTask
  <2>1. \A c \in Callers : ~Holds(c, t) /\ ~Holds(c, u)
    BY <1>3, <1>6 DEF Holds
  <2>. QED BY <1>1, <2>1
<1>. QED BY <1>5, <1>6

\* Only a report makes the lifecycle terminal, and of one place there is no
\* second engine then; any other step either leaves it or makes it working.
LEMMA TasksKeepOwners ==
  ASSUME TypeOK, TypeOK', OwnersInv, UNCHANGED usage, NEW t \in Tasks,
         Proceeds(t) \/ TaskRuns(t) \/ \E error \in BOOLEAN : TaskReturns(t, error)
  PROVE  OwnersInv'
<1>1. ASSUME NEW from \in {"spawned", "initializing", "running", "returned", "reported"},
             NEW to \in {"initializing", "running", "returned", "reported", "finished"},
             TaskStep(t, from, to), TerminalMeansIdle'
      PROVE  OwnersInv'
  <2>1. from \notin {"unborn", "finished"} /\ to # "unborn"
    OBVIOUS
  <2>. QED BY <1>1, <2>1, TaskStepKeepsHandles DEF OwnersInv
<1>2. ASSUME NEW from, NEW to, TaskStep(t, from, to), UNCHANGED lifecycle,
             from \in Working \/ to \notin Working, from \notin {"unborn", "finished"}, to # "unborn"
      PROVE  TerminalMeansIdle'
  <2>1. \A u \in Tasks : phase'[u] \in Working => phase[u] \in Working
    BY <1>2, TaskStepKeepsHandles
  <2>. QED BY <1>2, <2>1 DEF OwnersInv, TerminalMeansIdle, Starts, OneStarter
<1>3. CASE TaskStarts(t) \/ TaskRuns(t)
  <2>1. lifecycle' \notin Terminal
    BY <1>3 DEF TaskStarts, TaskRuns, Transition, Terminal
  <2>2. TerminalMeansIdle'
    BY <2>1 DEF TerminalMeansIdle
  <2>3. TaskStep(t, "spawned", "initializing") \/ TaskStep(t, "initializing", "running")
    BY <1>3 DEF TaskStarts, TaskRuns
  <2>. QED BY <1>1, <2>2, <2>3
<1>4. CASE TaskFinishes(t)
  BY <1>1, <1>2, <1>4 DEF TaskFinishes, controlVars, Working
<1>5. CASE TaskReports(t)
  <2>1. TaskStep(t, "returned", "reported") /\ phase[t] = "returned"
    BY <1>5 DEF TaskReports, TaskStep
  <2>2. \A u \in Tasks : u # t => phase'[u] = phase[u]
    BY <2>1, TaskStepKeepsHandles
  <2>3. phase'[t] = "reported"
    BY <2>1, TaskStepKeepsHandles
  <2>4. ASSUME OneStarter, NEW u \in Tasks, phase'[u] \in Working PROVE FALSE
    <3>1. u # t /\ phase[u] \in Working
      BY <2>2, <2>3, <2>4 DEF Working
    <3>2. Alive(t) /\ Alive(u)
      BY <2>1, <3>1 DEF Alive, Working
    <3>. QED BY <2>4, <3>1, <3>2, AliveAlone
  <2>5. TerminalMeansIdle'
    BY <2>4 DEF TerminalMeansIdle, Starts, OneStarter
  <2>. QED BY <1>1, <2>1, <2>5
<1>6. CASE TaskCancelled(t)
  BY <1>1, <1>2, <1>6 DEF TaskCancelled, controlVars, Working
<1>7. ASSUME NEW error \in BOOLEAN, TaskReturns(t, error) PROVE OwnersInv'
  <2>1. TaskStep(t, "initializing", "returned") \/ TaskStep(t, "running", "returned")
    BY <1>7 DEF TaskReturns
  <2>2. UNCHANGED lifecycle
    BY <1>7 DEF TaskReturns, controlVars
  <2>. QED BY <1>1, <1>2, <2>1, <2>2 DEF Working
<1>. QED BY <1>3, <1>4, <1>5, <1>6, <1>7 DEF Proceeds

\* The inductive invariant, of any callers and any number of engines.
LEMMA OwnersInvariant == Spec => []OwnersInv
<1>1. Init => OwnersInv
  BY DEF Init, OwnersInv, HandlesBorn, OnePlace, StartersOnly, AwaitedAlone, SomePlace, Alive,
         Holds, TerminalMeansIdle, Working, Holding, About, NoTask
<1>2. TypeOK /\ TypeOK' /\ OwnersInv /\ [Next]_vars => OwnersInv'
  <2> SUFFICES ASSUME TypeOK, TypeOK', OwnersInv, [Next]_vars PROVE OwnersInv'
    OBVIOUS
  <2>1. ASSUME NEW c \in Callers, Begin(c) \/ GoOn(c), UNCHANGED usage PROVE OwnersInv'
    BY <2>1, StartKeepsOwners, StopKeepsOwners, CommandsKeepOwners DEF Begin, GoOn
  <2>2. ASSUME NEW t \in Tasks, UNCHANGED usage,
               Proceeds(t) \/ TaskRuns(t) \/ \E error \in BOOLEAN : TaskReturns(t, error)
        PROVE OwnersInv'
    BY <2>2, TasksKeepOwners
  <2>3. CASE UNCHANGED vars
    BY <2>3 DEF vars, controlVars, taskVars, callVars, OwnersInv, HandlesBorn, OnePlace,
       StartersOnly, AwaitedAlone, SomePlace, Alive, Holds, TerminalMeansIdle, Starts, OneStarter
  <2>. QED BY <2>1, <2>2, <2>3 DEF Next
<1>. QED BY <1>1, <1>2, SupervisorTypes, PTL DEF Spec

\* FlowSupervisor: an engine that has not finished has exactly one owner, the
\* mutex or a call that waits for it, and no engine works behind a terminal
\* lifecycle; the first while calls to start and stop come from one place or
\* drains that time out are forced, the second while they come from one place.
THEOREM NoEngineIsAstray == Spec => []NoEngineAstray
<1>1. TypeOK /\ OwnersInv => NoEngineAstray
  <2> SUFFICES ASSUME TypeOK, OwnersInv PROVE OneOwner
    BY DEF OwnersInv, NoEngineAstray
  <2> SUFFICES ASSUME OneStarter \/ usage.modes = {"force"}, NEW t \in Tasks, Alive(t)
               PROVE Cardinality(Holders(t)) + (IF slot = t THEN 1 ELSE 0) = 1
    BY DEF OneOwner, Alive
  <2>1. Holders(t) = {c \in Callers : Holds(c, t)}
    BY DEF Holders, Holds
  <2>2. CASE slot = t
    <3>1. Holders(t) = {}
      BY <2>1, <2>2 DEF OwnersInv, OnePlace
    <3>. QED BY <2>2, <3>1, FS_EmptySet
  <2>3. CASE slot # t
    <3>1. PICK c \in Callers : Holds(c, t)
      BY <2>3 DEF OwnersInv, SomePlace
    <3>2. Holders(t) = {c}
      BY <2>1, <3>1 DEF OwnersInv, OnePlace
    <3>. QED BY <2>3, <3>2, FS_Singleton
  <2>. QED BY <2>2, <2>3
<1>. QED BY <1>1, SupervisorTypes, OwnersInvariant, PTL

-----------------------------------------------------------------------------
(* The split. *)

\* The orders of n rows.
Orders(n) == {o \in [1 .. n -> 1 .. n] :
                /\ \A i, j \in 1 .. n : o[i] = o[j] => i = j
                /\ \A v \in 1 .. n : \E i \in 1 .. n : o[i] = v}

\* Two rows of an order swapped.
LEMMA SwapIsAnOrder ==
  ASSUME NEW n \in Nat, NEW o \in Orders(n), NEW i \in 1 .. n, NEW j \in 1 .. n
  PROVE  [o EXCEPT ![i] = o[j], ![j] = o[i]] \in Orders(n)
<1> DEFINE p == [o EXCEPT ![i] = o[j], ![j] = o[i]]
<1>1. o \in [1 .. n -> 1 .. n]
  BY DEF Orders
<1>2. p \in [1 .. n -> 1 .. n] /\ \A k \in 1 .. n : p[k] = IF k = j THEN o[i] ELSE IF k = i THEN o[j] ELSE o[k]
  BY <1>1
<1>3. \A k \in 1 .. n : p[k] = o[IF k = j THEN i ELSE IF k = i THEN j ELSE k]
  BY <1>2
<1>4. \A k, l \in 1 .. n : o[k] = o[l] => k = l
  BY DEF Orders
<1>5. \A v \in 1 .. n : \E k \in 1 .. n : o[k] = v
  BY DEF Orders
<1> HIDE DEF p
<1>6. \A k, l \in 1 .. n : p[k] = p[l] => k = l
  BY <1>2, <1>4
<1>7. \A v \in 1 .. n : \E k \in 1 .. n : p[k] = v
  <2> SUFFICES ASSUME NEW v \in 1 .. n PROVE \E k \in 1 .. n : p[k] = v
    OBVIOUS
  <2>1. PICK k \in 1 .. n : o[k] = v
    BY <1>5
  <2>2. CASE k = i
    BY <1>2, <2>1, <2>2
  <2>3. CASE k = j
    BY <1>2, <2>1, <2>3
  <2>4. CASE k # i /\ k # j
    BY <1>2, <2>1, <2>4
  <2>. QED BY <2>2, <2>3, <2>4
<1>. QED BY <1>2, <1>6, <1>7 DEF Orders, p

\* fisher_yates_shuffle puts the rows in an order.
LEMMA ShuffledIsAnOrder ==
  ASSUME NEW draws, NEW total \in Nat, \A k \in 1 .. (total - 1) : draws[k] \in Nat
  PROVE  Shuffled(draws, total) \in Orders(total)
<1> DEFINE N == IF total = 0 THEN 0 ELSE total - 1
           V == Orders(total)
           base == [i \in 1 .. total |-> i]
           at(k) == total + 1 - k
           with(k) == (draws[k] % at(k)) + 1
           swapped(o, k) == [o EXCEPT ![at(k)] = o[with(k)], ![with(k)] = o[at(k)]]
           step == [k \in 1 .. N |-> [o \in V |-> swapped(o, k)]]
           seq == [k \in 1 .. (total - 1) |-> k]
           iter == CHOOSE it : it = [s \in SUBSET (DOMAIN seq) |->
                     IF s = {} THEN base ELSE swapped(it[s \ {Max(s)}], seq[Max(s)])]
<1>1. N \in Nat /\ 1 .. N = 1 .. (total - 1) /\ DOMAIN seq = 1 .. N /\ \A k \in 1 .. N : seq[k] = k
  OBVIOUS
<1>2. base \in V
  BY DEF Orders
<1>3. ASSUME NEW k \in 1 .. N, NEW o \in V PROVE swapped(o, k) \in V
  <2>1. at(k) \in 1 .. total /\ at(k) \in Nat \ {0} /\ draws[k] \in Nat
    BY <1>1
  <2>2. \A d \in Nat, i \in Nat \ {0} : d % i \in 0 .. (i - 1)
    OBVIOUS
  <2>3. with(k) \in 1 .. total
    <3>1. draws[k] % at(k) \in 0 .. (at(k) - 1)
      BY <2>1, <2>2
    <3> DEFINE r == draws[k] % at(k)  a == at(k)
    <3> HIDE DEF r, a
    <3>2. r \in 0 .. (a - 1) /\ a \in 1 .. total => r + 1 \in 1 .. total
      OBVIOUS
    <3>. QED BY <2>1, <3>1, <3>2 DEF r, a
  <2> HIDE DEF at, with
  <2>. QED BY <2>1, <2>3, SwapIsAnOrder
<1>4. StepsOn(step, 1 .. N, V) /\ \A k \in 1 .. N, o \in V : step[k][o] = swapped(o, k)
  <2> HIDE DEF swapped, V, N
  <2>. QED BY <1>3 DEF StepsOn
<1>5. PICK f \in [SUBSET (1 .. N) -> V] : Folding(f, N, base, step)
  <2> HIDE DEF step, base, V, N
  <2>. QED BY <1>1, <1>2, <1>4, FoldExists
<1>6. Shuffled(draws, total) = iter[DOMAIN seq]
  BY Zenon DEF Shuffled, FoldLeft, MapThenFoldSet
<1> HIDE DEF swapped, V, N, base, step
<1>7. /\ f[{}] = base
      /\ \A s \in SUBSET (1 .. N) : s # {} =>
           /\ Max(s) \in 1 .. N /\ Max(s) \in s /\ s \ {Max(s)} \in SUBSET (1 .. N)
           /\ f[s] = swapped(f[s \ {Max(s)}], seq[Max(s)])
  <2>1. \A s \in SUBSET (1 .. N) : s # {} => Max(s) \in s /\ Max(s) \in 1 .. N
    BY <1>1, MaxOfNumbers
  <2>. QED BY <1>1, <1>4, <1>5, <2>1 DEF Folding
<1>8. f = [s \in SUBSET (DOMAIN seq) |-> IF s = {} THEN base ELSE swapped(f[s \ {Max(s)}], seq[Max(s)])]
  <2> DEFINE h == [s \in SUBSET (DOMAIN seq) |->
                     IF s = {} THEN base ELSE swapped(f[s \ {Max(s)}], seq[Max(s)])]
  <2> HIDE DEF seq
  <2>1. \A s \in SUBSET (1 .. N) : f[s] = h[s]
    BY <1>1, <1>7
  <2>. QED BY <1>1, <1>5, <2>1
<1> HIDE DEF seq
<1>9. iter = [s \in SUBSET (DOMAIN seq) |->
                IF s = {} THEN base ELSE swapped(iter[s \ {Max(s)}], seq[Max(s)])]
  BY <1>8, Zenon DEF iter
<1>10. \A s \in SUBSET (1 .. N) :
         iter[s] = IF s = {} THEN base ELSE swapped(iter[s \ {Max(s)}], seq[Max(s)])
  <2> HIDE DEF iter
  <2>. QED BY <1>1, <1>9
<1> HIDE DEF iter
<1> DEFINE Good == {s \in SUBSET (1 .. N) : iter[s] = f[s]}
<1>11. {} \in Good
  BY <1>7, <1>10
<1>12. ASSUME NEW s \in SUBSET (1 .. N), s # {}, \A x \in s : s \ {x} \in Good PROVE s \in Good
  BY <1>7, <1>10, <1>12
<1>13. Good = SUBSET (1 .. N)
  <2>1. Good \in SUBSET SUBSET (1 .. N) /\ IsFiniteSet(1 .. N)
    BY <1>1, FS_Interval
  <2> HIDE DEF Good
  <2>. QED BY <1>11, <1>12, <2>1, SetInductive
<1>14. iter[1 .. N] = f[1 .. N] /\ f[1 .. N] \in V
  BY <1>5, <1>13
<1>. QED BY <1>1, <1>6, <1>14 DEF V

Names == {"train", "validation", "test"}
Pcs == {"none", "queued", "again", "writes", "ended", "failed"}

SplitTypes ==
  /\ split.train \in 0 .. 10 /\ split.validation \in 0 .. 10
  /\ split.rows \in [Groups -> Nat]
  /\ \A g \in Groups : \A k \in 1 .. (split.rows[g] - 1) : split.draws[k] \in Nat

\* The names of the parts and the files.
LEMMA NameFacts ==
  /\ Range(SplitNames) = Names
  /\ SplitNames[1] = "train" /\ SplitNames[2] = "validation" /\ SplitNames[3] = "test"
  /\ Range(Targets) = Names \cup {"manifest"}
  /\ \A t \in Range(Targets) : \E i \in 1 .. 4 : Targets[i] = t
  /\ \A i \in 1 .. 4 : Targets[i] \in Range(Targets)
<1>1. SplitNames[1] = "train" /\ SplitNames[2] = "validation" /\ SplitNames[3] = "test" /\ DOMAIN SplitNames = 1 .. 3
  BY DEF SplitNames
<1>2. /\ DOMAIN Targets = 1 .. 4
      /\ Targets[1] = "train" /\ Targets[2] = "validation" /\ Targets[3] = "test" /\ Targets[4] = "manifest"
  BY DEF Targets, SplitNames
<1>3. Range(SplitNames) = {SplitNames[1], SplitNames[2], SplitNames[3]}
  BY <1>1 DEF Range
<1>4. Range(Targets) = {Targets[1], Targets[2], Targets[3], Targets[4]}
  BY <1>2 DEF Range
<1>. QED BY <1>1, <1>2, <1>3, <1>4 DEF Names

\* An emission is a part of a group, of one attempt.
LEMMA EmissionFacts ==
  /\ \A m \in Emissions : /\ m = <<m[1], m[2], m[3]>> /\ Group(m) = m[1]
                          /\ m[1] \in Groups /\ m[2] \in Names /\ m[3] \in 1 .. PartAttempts
  /\ \A g \in Groups, name \in Names, a \in 1 .. PartAttempts :
       <<g, name, a>> \in Emissions /\ Group(<<g, name, a>>) = g
BY NameFacts DEF Emissions, Group

\* A share of a number of rows is a number of rows.
LEMMA ShareType ==
  ASSUME NEW total \in Nat, NEW tenths \in 0 .. 10
  PROVE  Share(total, tenths) \in Nat
<1>1. PICK p \in Nat : p = total * tenths
  OBVIOUS
<1>2. 2 * total * tenths = 2 * p
  BY <1>1
<1>3. (2 * p + 10) \div 20 \in Nat
  OBVIOUS
<1>. QED BY <1>2, <1>3 DEF Share

\* The three parts of a packet share no row and leave none out.
LEMMA CutFacts ==
  ASSUME NEW plan, NEW total \in Nat, \A k \in 1 .. (total - 1) : plan.draws[k] \in Nat,
         plan.train \in 0 .. 10, plan.validation \in 0 .. 10
  PROVE  /\ \A name \in Names : Cut(plan, total, name) \subseteq 1 .. total
         /\ \A name, other \in Names : name # other => Cut(plan, total, name) \cap Cut(plan, total, other) = {}
         /\ Cut(plan, total, "train") \cup Cut(plan, total, "validation") \cup Cut(plan, total, "test") = 1 .. total
<1> DEFINE Lower(x, y) == IF x <= y THEN x ELSE y
           e == Share(total, plan.train)
           v == e + Share(total, plan.validation)
           a == Lower(e, total)
           b == Lower(v, total)
           o == Shuffled(plan.draws, total)
<1>1. e \in Nat /\ v \in Nat /\ e <= v
  <2>1. Share(total, plan.train) \in Nat /\ Share(total, plan.validation) \in Nat
    BY ShareType
  <2>. QED BY <2>1
<1>2. a \in 0 .. total /\ b \in 0 .. total /\ a <= b
  <2> HIDE DEF e, v
  <2>. QED BY <1>1
<1>3. /\ Cut(plan, total, "train") = {o[i] : i \in 1 .. a}
      /\ Cut(plan, total, "validation") = {o[i] : i \in (a + 1) .. b}
      /\ Cut(plan, total, "test") = {o[i] : i \in (b + 1) .. total}
  BY DEF Cut
<1>4. o \in Orders(total)
  BY ShuffledIsAnOrder
<1> HIDE DEF a, b, o
<1>5. /\ \A i \in 1 .. total : o[i] \in 1 .. total
      /\ \A i, j \in 1 .. total : o[i] = o[j] => i = j
      /\ \A x \in 1 .. total : \E i \in 1 .. total : o[i] = x
  BY <1>4 DEF Orders
<1>6. \A i \in 1 .. total : \/ i \in 1 .. a /\ i \notin (a + 1) .. b /\ i \notin (b + 1) .. total
                            \/ i \notin 1 .. a /\ i \in (a + 1) .. b /\ i \notin (b + 1) .. total
                            \/ i \notin 1 .. a /\ i \notin (a + 1) .. b /\ i \in (b + 1) .. total
  BY <1>2
<1>7. /\ \A i \in 1 .. a : i \in 1 .. total
      /\ \A i \in (a + 1) .. b : i \in 1 .. total
      /\ \A i \in (b + 1) .. total : i \in 1 .. total
  BY <1>2
<1> DEFINE A == 1 .. a  B == (a + 1) .. b  C == (b + 1) .. total  D == 1 .. total
<1>8. /\ Cut(plan, total, "train") = {o[i] : i \in A} /\ Cut(plan, total, "validation") = {o[i] : i \in B}
      /\ Cut(plan, total, "test") = {o[i] : i \in C}
  BY <1>3
<1>9. /\ A \subseteq D /\ B \subseteq D /\ C \subseteq D
      /\ \A i \in D : \/ i \in A /\ i \notin B /\ i \notin C
                      \/ i \notin A /\ i \in B /\ i \notin C
                      \/ i \notin A /\ i \notin B /\ i \in C
  BY <1>6, <1>7
<1>10. /\ \A i \in D : o[i] \in D
       /\ \A i, j \in D : o[i] = o[j] => i = j
       /\ \A x \in D : \E i \in D : o[i] = x
  BY <1>5
<1> HIDE DEF A, B, C, D
<1> DEFINE RA == {o[i] : i \in A}  RB == {o[i] : i \in B}  RC == {o[i] : i \in C}
<1>11. RA \subseteq D /\ RB \subseteq D /\ RC \subseteq D
  BY <1>9, <1>10
<1>12. RA \cap RB = {} /\ RA \cap RC = {} /\ RB \cap RC = {}
  BY <1>9, <1>10
<1>13. RA \cup RB \cup RC = D
  BY <1>9, <1>10, <1>11
<1>14. Cut(plan, total, "train") = RA /\ Cut(plan, total, "validation") = RB /\ Cut(plan, total, "test") = RC /\ D = 1 .. total
  BY <1>8 DEF D
<1> HIDE DEF RA, RB, RC
<1>. QED BY <1>11, <1>12, <1>13, <1>14 DEF Names

\* Every variable keeps its type.
ExportTypes ==
  /\ SplitTypes
  /\ splitting \in [Groups -> [next : 1 .. 4, attempt : 1 .. PartAttempts]]
  /\ parts \in [Emissions -> [pc : Pcs, attempt : 1 .. PartAttempts, step : 0 .. 5, rows : SUBSET Nat]]
  /\ pending \in [Groups -> SUBSET Names]
  /\ datasets \in [Range(Targets) -> Groups \cup {Nobody}]
  /\ succeeded \in Seq(Groups)
  /\ problems \in [split : Nat, manifest : Nat]

----------------------------------------------------------------------------
(* What each step does. *)

Untouched(m) == \A n \in Emissions : n # m => parts'[n] = parts[n]

\* The next part of a group is emitted.
EmitMoves(g) ==
  \E i \in 1 .. 3 : \E m \in Emissions :
    /\ splitting[g].next = i /\ m = <<g, SplitNames[i], splitting[g].attempt>>
    /\ Untouched(m) /\ parts'[m].pc = "queued" /\ parts'[m].rows = Cut(split, split.rows[g], SplitNames[i])
    /\ splitting'[g].next = i + 1 /\ splitting'[g].attempt = splitting[g].attempt
    /\ \A h \in Groups : h # g => splitting'[h] = splitting[h]
    /\ UNCHANGED <<split, pending, datasets, succeeded, problems>>

\* The split begins with a group again.
RepeatMoves(g) ==
  /\ splitting[g].next \in 1 .. 3
  /\ splitting'[g].next = 1 /\ splitting'[g].attempt = splitting[g].attempt + 1
  /\ \A h \in Groups : h # g => splitting'[h] = splitting[h]
  /\ problems'.manifest = problems.manifest
  /\ UNCHANGED <<split, parts, pending, datasets, succeeded>>

\* The manifest node works on a part.
Works(m) ==
  /\ Untouched(m) /\ parts'[m].rows = parts[m].rows
  /\ UNCHANGED <<split, splitting>>

CollectMoves(m) ==
  /\ Works(m) /\ PartStarts(m) /\ parts[m].pc \in {"queued", "again"}
  /\ \A g \in Groups : g # Group(m) => pending'[g] = pending[g]
  /\ \/ /\ pending[Group(m)] \cup {m[2]} = Names
        /\ pending'[Group(m)] = {} /\ parts'[m].pc = "writes" /\ parts'[m].step = 1
     \/ /\ pending[Group(m)] \cup {m[2]} # Names
        /\ pending'[Group(m)] = pending[Group(m)] \cup {m[2]} /\ parts'[m].pc = "ended"
  /\ UNCHANGED <<datasets, succeeded, problems>>

WriteMoves(m) ==
  /\ Works(m) /\ parts[m].pc = "writes" /\ parts[m].step <= 4
  /\ parts'[m].pc = "writes" /\ parts'[m].step = parts[m].step + 1
  /\ datasets' = [datasets EXCEPT ![Targets[parts[m].step]] = Group(m)]
  /\ UNCHANGED <<pending, succeeded, problems>>

FailMoves(m) ==
  /\ Works(m) /\ parts[m].pc = "writes" /\ parts'[m].pc \in {"again", "failed"}
  /\ problems'.manifest # 0
  /\ UNCHANGED <<pending, succeeded>>

SuccessMoves(m) ==
  /\ Works(m) /\ parts[m].pc = "writes" /\ parts[m].step = 5 /\ parts'[m].pc = "ended"
  /\ succeeded' = Append(succeeded, Group(m))
  /\ UNCHANGED <<pending, datasets, problems>>

\* Every step of the export is one of these.
LEMMA ExportMoves ==
  ASSUME ExportTypes, ExportNext
  PROVE  \/ \E g \in Groups : EmitMoves(g) \/ RepeatMoves(g)
         \/ \E m \in Emissions : CollectMoves(m) \/ WriteMoves(m) \/ FailMoves(m) \/ SuccessMoves(m)
<1>0. /\ splitting \in [Groups -> [next : 1 .. 4, attempt : 1 .. PartAttempts]]
      /\ parts \in [Emissions -> [pc : Pcs, attempt : 1 .. PartAttempts, step : 0 .. 5, rows : SUBSET Nat]]
      /\ pending \in [Groups -> SUBSET Names]
      /\ problems \in [split : Nat, manifest : Nat]
  BY DEF ExportTypes
<1>1. ASSUME NEW g \in Groups, EmitsPart(g) PROVE EmitMoves(g)
  <2>1. splitting[g].next \in 1 .. 3
    BY <1>0, <1>1 DEF EmitsPart
  <2>2. PICK i \in 1 .. 3 : i = splitting[g].next
    BY <2>1
  <2>3. SplitNames[i] \in Names /\ splitting[g].attempt \in 1 .. PartAttempts
    BY <1>0, NameFacts DEF Names
  <2>4. PICK m \in Emissions : m = <<g, SplitNames[i], splitting[g].attempt>>
    BY <2>3, EmissionFacts
  <2>5. /\ splitting' = [splitting EXCEPT ![g].next = @ + 1]
        /\ parts' = [parts EXCEPT ![m] =
                        [NotEmitted EXCEPT !.pc = "queued", !.rows = Cut(split, split.rows[g], SplitNames[i])]]
        /\ UNCHANGED <<split, pending, datasets, succeeded, problems>>
    BY <1>1, <2>2, <2>4 DEF EmitsPart
  <2>6. Untouched(m) /\ parts'[m].pc = "queued" /\ parts'[m].rows = Cut(split, split.rows[g], SplitNames[i])
    BY <1>0, <2>5 DEF NotEmitted, Untouched
  <2>7. /\ splitting'[g].next = i + 1 /\ splitting'[g].attempt = splitting[g].attempt
        /\ \A h \in Groups : h # g => splitting'[h] = splitting[h]
    BY <1>0, <2>2, <2>5
  <2>. QED BY <2>2, <2>4, <2>5, <2>6, <2>7 DEF EmitMoves
<1>2. ASSUME NEW g \in Groups, EmitPartFails(g) PROVE RepeatMoves(g)
  BY <1>0, <1>2 DEF EmitPartFails, RepeatMoves
<1>3. ASSUME NEW m \in Emissions, Collects(m) PROVE CollectMoves(m)
  <2> DEFINE kept == pending[Group(m)] \cup {m[2]}
             complete == kept = Names
  <2>1. /\ PartStarts(m)
        /\ pending' = [pending EXCEPT ![Group(m)] = IF complete THEN {} ELSE kept]
        /\ parts' = [parts EXCEPT ![m].pc = IF complete THEN "writes" ELSE "ended", ![m].step = 1]
        /\ UNCHANGED <<split, splitting, datasets, succeeded, problems>>
    BY <1>3, NameFacts DEF Collects
  <2>2. Group(m) \in Groups
    BY EmissionFacts
  <2>3. /\ Untouched(m) /\ parts'[m].rows = parts[m].rows /\ parts'[m].step = 1
        /\ parts'[m].pc = IF complete THEN "writes" ELSE "ended"
    BY <1>0, <2>1 DEF Untouched
  <2>4. /\ pending'[Group(m)] = IF complete THEN {} ELSE kept
        /\ \A g \in Groups : g # Group(m) => pending'[g] = pending[g]
    BY <1>0, <2>1, <2>2
  <2>5. parts[m].pc \in {"queued", "again"}
    BY <2>1 DEF PartStarts
  <2>. QED BY <2>1, <2>3, <2>4, <2>5 DEF CollectMoves, Works
<1>4. ASSUME NEW m \in Emissions, Writes(m) PROVE WriteMoves(m)
  BY <1>0, <1>4 DEF Writes, WriteMoves, Works, Untouched
<1>5. ASSUME NEW m \in Emissions, WriteFails(m) \/ SuccessFails(m) PROVE FailMoves(m)
  <2>1. /\ parts[m].pc = "writes" /\ Stumbles(m) /\ AfterPartError(m)
        /\ UNCHANGED <<split, splitting, pending, succeeded>>
    BY <1>5 DEF WriteFails, SuccessFails
  <2>2. Untouched(m) /\ parts'[m].rows = parts[m].rows /\ parts'[m].pc \in {"again", "failed"}
    BY <1>0, <2>1 DEF AfterPartError, Untouched
  <2>3. problems'.manifest # 0
    BY <1>0, <2>1 DEF Stumbles
  <2>. QED BY <2>1, <2>2, <2>3 DEF FailMoves, Works
<1>6. ASSUME NEW m \in Emissions, Succeeds(m) PROVE SuccessMoves(m)
  BY <1>0, <1>6 DEF Succeeds, SuccessMoves, Works, Untouched
<1>. QED BY <1>1, <1>2, <1>3, <1>4, <1>5, <1>6 DEF ExportNext

----------------------------------------------------------------------------
(* Types *)

\* The export starts with values of these types.
LEMMA ExportTypesInit == ExportInit => ExportTypes
<1> SUFFICES ASSUME ExportInit PROVE ExportTypes
  OBVIOUS
<1>1. SplitTypes
  <2>1. /\ split \in [train : {r[1] : r \in Ratios}, validation : {r[2] : r \in Ratios},
                      draws : Draws, rows : [Groups -> RowCounts]]
    BY DEF ExportInit
  <2>2. /\ split.train \in {r[1] : r \in Ratios} /\ split.validation \in {r[2] : r \in Ratios}
        /\ split.draws \in Draws /\ split.rows \in [Groups -> RowCounts]
    BY <2>1
  <2>3. \A r \in Ratios : r[1] \in 0 .. 10 /\ r[2] \in 0 .. 10
    BY DatasetExportAssumption DEF DatasetExportAssumption
  <2>. QED BY <2>2, <2>3, DatasetExportAssumption DEF DatasetExportAssumption, SplitTypes
<1>2. PartAttempts \in Nat \ {0}
  BY DatasetExportAssumption DEF DatasetExportAssumption
<1>3. splitting \in [Groups -> [next : 1 .. 4, attempt : 1 .. PartAttempts]]
  BY <1>2 DEF ExportInit
<1>4. parts \in [Emissions -> [pc : Pcs, attempt : 1 .. PartAttempts, step : 0 .. 5, rows : SUBSET Nat]]
  BY <1>2 DEF ExportInit, NotEmitted, Pcs
<1>5. pending \in [Groups -> SUBSET Names] /\ succeeded \in Seq(Groups) /\ problems \in [split : Nat, manifest : Nat]
  BY DEF ExportInit
<1>6. datasets \in [Range(Targets) -> Groups \cup {Nobody}]
  BY DEF ExportInit
<1>. QED BY <1>1, <1>3, <1>4, <1>5, <1>6 DEF ExportTypes

\* What a part is with a field or more set.
LEMMA PartFacts ==
  ASSUME NEW P, NEW A, NEW X, NEW R, NEW r \in [pc : P, attempt : A, step : X, rows : R]
  PROVE  /\ \A p \in P : [r EXCEPT !.pc = p] \in [pc : P, attempt : A, step : X, rows : R]
         /\ \A x \in X : [r EXCEPT !.step = x] \in [pc : P, attempt : A, step : X, rows : R]
         /\ \A p \in P, x \in X : [r EXCEPT !.pc = p, !.step = x] \in [pc : P, attempt : A, step : X, rows : R]
         /\ \A p \in P, a \in A, x \in X : [r EXCEPT !.pc = p, !.attempt = a, !.step = x]
                                            \in [pc : P, attempt : A, step : X, rows : R]
         /\ \A p \in P, rows \in R : [r EXCEPT !.pc = p, !.rows = rows] \in [pc : P, attempt : A, step : X, rows : R]
  OBVIOUS

\* No step of the split or of the manifest node leaves the types.
LEMMA ExportTypesStep == ExportTypes /\ [ExportNext]_exportVars => ExportTypes'
<1> DEFINE Part == [pc : Pcs, attempt : 1 .. PartAttempts, step : 0 .. 5, rows : SUBSET Nat]
<1> SUFFICES ASSUME ExportTypes, [ExportNext]_exportVars PROVE ExportTypes'
  OBVIOUS
<1>0. /\ SplitTypes
      /\ splitting \in [Groups -> [next : 1 .. 4, attempt : 1 .. PartAttempts]]
      /\ parts \in [Emissions -> Part]
      /\ pending \in [Groups -> SUBSET Names]
      /\ datasets \in [Range(Targets) -> Groups \cup {Nobody}]
      /\ succeeded \in Seq(Groups)
      /\ problems \in [split : Nat, manifest : Nat]
      /\ PartAttempts \in Nat \ {0}
  BY DatasetExportAssumption DEF ExportTypes, DatasetExportAssumption
<1> DEFINE A == 1 .. PartAttempts  X == 0 .. 5  R == SUBSET Nat
<1>a. /\ 1 \in A /\ 0 \in X /\ 1 \in X /\ {} \in R
      /\ \A a \in A : a < PartAttempts => a + 1 \in A
      /\ \A x \in X : x <= 4 => x + 1 \in X
  BY <1>0
<1>b. \A p \in {"queued", "again", "writes", "ended", "failed", "none"} : p \in Pcs
  BY DEF Pcs
<1>c. Part = [pc : Pcs, attempt : A, step : X, rows : R]
  OBVIOUS
<1> HIDE DEF A, X, R, Part
<1>1. ASSUME NEW g \in Groups, EmitsPart(g) PROVE ExportTypes'
  <2> DEFINE i == splitting[g].next
             m == <<g, SplitNames[i], splitting[g].attempt>>
             rows == Cut(split, split.rows[g], SplitNames[i])
             r == [NotEmitted EXCEPT !.pc = "queued", !.rows = rows]
  <2>1. i \in 1 .. 3 /\ split.rows[g] \in Nat /\ splitting[g] \in [next : 1 .. 4, attempt : 1 .. PartAttempts]
    BY <1>0, <1>1 DEF EmitsPart, SplitTypes
  <2>2. SplitNames[i] \in Names
    BY <2>1, NameFacts DEF Names
  <2>3. rows \in SUBSET Nat
    <3>1. PICK total \in Nat : total = split.rows[g]
      BY <2>1
    <3>2. /\ \A k \in 1 .. (total - 1) : split.draws[k] \in Nat
          /\ split.train \in 0 .. 10 /\ split.validation \in 0 .. 10
      BY <1>0, <3>1 DEF SplitTypes
    <3>3. \A name \in Names : Cut(split, total, name) \subseteq 1 .. total
      BY <3>2, CutFacts
    <3>4. Cut(split, total, SplitNames[i]) \subseteq 1 .. total
      BY <2>2, <3>3
    <3>5. 1 .. total \subseteq Nat
      OBVIOUS
    <3>6. Cut(split, total, SplitNames[i]) \in SUBSET Nat
      BY <3>4, <3>5
    <3>. QED BY <3>1, <3>6
  <2>4. m \in Emissions
    BY <2>1, <2>2, EmissionFacts
  <2> HIDE DEF rows, m
  <2>5. r \in Part
    <3>1. NotEmitted \in Part
      BY <1>a, <1>b, <1>c DEF NotEmitted
    <3>. QED BY <1>b, <1>c, <2>3, <3>1, PartFacts DEF R
  <2>6. splitting' = [splitting EXCEPT ![g].next = @ + 1] /\ parts' = [parts EXCEPT ![m] = r]
        /\ UNCHANGED <<split, pending, datasets, succeeded, problems>>
    BY <1>1 DEF EmitsPart, m, rows
  <2> HIDE DEF r
  <2>7. parts' \in [Emissions -> Part]
    BY <1>0, <2>4, <2>5, <2>6
  <2>8. splitting' \in [Groups -> [next : 1 .. 4, attempt : 1 .. PartAttempts]]
    <3>1. i + 1 \in 1 .. 4
      BY <2>1
    <3> DEFINE j == i + 1  W == 1 .. 4
    <3>2. j \in W /\ splitting \in [Groups -> [next : W, attempt : A]] /\ splitting' = [splitting EXCEPT ![g].next = j]
      BY <1>0, <2>6, <3>1 DEF A
    <3> HIDE DEF i, j, W
    <3>3. splitting' \in [Groups -> [next : W, attempt : A]]
      BY <3>2
    <3>. QED BY <3>3 DEF A, W
  <2>. QED BY <1>0, <2>6, <2>7, <2>8 DEF ExportTypes, SplitTypes, Part
<1>2. ASSUME NEW g \in Groups, EmitPartFails(g) PROVE ExportTypes'
  <2>1. splitting' \in [Groups -> [next : 1 .. 4, attempt : 1 .. PartAttempts]]
    BY <1>0, <1>2 DEF EmitPartFails
  <2>2. problems' \in [split : Nat, manifest : Nat]
    <3>1. problems' = [problems EXCEPT !.split = problems.split + 1] /\ problems.split \in Nat
      BY <1>0, <1>2 DEF EmitPartFails
    <3>2. PICK n \in Nat : n = problems.split + 1
      BY <3>1
    <3>. QED BY <1>0, <3>1, <3>2
  <2>. QED BY <1>0, <1>2, <2>1, <2>2 DEF EmitPartFails, ExportTypes, SplitTypes, Part
<1>3. ASSUME NEW m \in Emissions, Collects(m) PROVE ExportTypes'
  <2> DEFINE kept == pending[Group(m)] \cup {m[2]}
             complete == kept = Names
  <2>1. /\ pending' = [pending EXCEPT ![Group(m)] = IF complete THEN {} ELSE kept]
        /\ parts' = [parts EXCEPT ![m].pc = IF complete THEN "writes" ELSE "ended", ![m].step = 1]
        /\ UNCHANGED <<split, splitting, datasets, succeeded, problems>>
    BY <1>3, NameFacts DEF Collects
  <2>2. Group(m) \in Groups /\ m[2] \in Names
    BY EmissionFacts
  <2>3. kept \in SUBSET Names
    BY <1>0, <2>2
  <2> HIDE DEF kept
  <2>4. pending' \in [Groups -> SUBSET Names]
    BY <1>0, <2>1, <2>3
  <2>5. parts' \in [Emissions -> Part]
    <3>1. parts' = [parts EXCEPT ![m] = [parts[m] EXCEPT !.pc = IF complete THEN "writes" ELSE "ended", !.step = 1]]
      BY <1>0, <2>1
    <3>2. [parts[m] EXCEPT !.pc = IF complete THEN "writes" ELSE "ended", !.step = 1] \in Part
      <4>1. parts[m] \in Part
        BY <1>0
      <4>2. PICK p \in Pcs : p = IF complete THEN "writes" ELSE "ended"
        BY <1>b
      <4>. QED BY <1>a, <1>c, <4>1, <4>2, PartFacts
    <3>. QED BY <1>0, <3>1, <3>2
  <2>. QED BY <1>0, <2>1, <2>4, <2>5 DEF ExportTypes, SplitTypes, Part
<1>4. ASSUME NEW m \in Emissions, Writes(m) PROVE ExportTypes'
  <2>1. Group(m) \in Groups /\ Nobody \notin Groups
    BY EmissionFacts, DatasetExportAssumption DEF DatasetExportAssumption
  <2>2. datasets' \in [Range(Targets) -> Groups \cup {Nobody}]
    BY <1>0, <1>4, <2>1 DEF Writes
  <2>3. parts' \in [Emissions -> Part]
    <3>1. parts' = [parts EXCEPT ![m] = [parts[m] EXCEPT !.step = parts[m].step + 1]] /\ parts[m].step <= 4
      BY <1>0, <1>4 DEF Writes
    <3>2. parts[m] \in Part /\ parts[m].step \in X
      BY <1>0, <1>c
    <3>3. parts[m].step + 1 \in X
      BY <1>a, <3>1, <3>2
    <3>4. [parts[m] EXCEPT !.step = parts[m].step + 1] \in Part
      BY <1>c, <3>2, <3>3, PartFacts
    <3>. QED BY <1>0, <3>1, <3>4
  <2>. QED BY <1>0, <1>4, <2>2, <2>3 DEF Writes, ExportTypes, SplitTypes, Part
<1>5. ASSUME NEW m \in Emissions, AfterPartError(m) PROVE parts' \in [Emissions -> Part]
  <2>1. parts[m] \in Part /\ parts[m].attempt \in A
    BY <1>0, <1>c
  <2>2. [parts[m] EXCEPT !.pc = "failed"] \in Part
    BY <1>b, <1>c, <2>1, PartFacts
  <2>3. ASSUME parts[m].attempt < PartAttempts
        PROVE  [parts[m] EXCEPT !.pc = "again", !.attempt = parts[m].attempt + 1, !.step = 0] \in Part
    <3>1. parts[m].attempt + 1 \in A
      BY <1>a, <2>1, <2>3
    <3>. QED BY <1>a, <1>b, <1>c, <2>1, <3>1, PartFacts
  <2> DEFINE again == [parts[m] EXCEPT !.pc = "again", !.attempt = parts[m].attempt + 1, !.step = 0]
             failed == [parts[m] EXCEPT !.pc = "failed"]
  <2>4. DOMAIN parts' = Emissions /\ \A n \in Emissions : n # m => parts'[n] = parts[n]
    BY <1>0, <1>5 DEF AfterPartError
  <2>6. parts' = [n \in DOMAIN parts' |-> parts'[n]]
    BY <1>5 DEF AfterPartError
  <2>7. parts[m].attempt < PartAttempts => parts'[m] = again
    BY <1>0, <1>5 DEF AfterPartError
  <2>8. ~(parts[m].attempt < PartAttempts) => parts'[m] = failed
    BY <1>0, <1>5 DEF AfterPartError
  <2>5. (parts[m].attempt < PartAttempts => again \in Part) /\ failed \in Part
    BY <2>2, <2>3
  <2> HIDE DEF again, failed
  <2>. QED BY <1>0, <2>4, <2>5, <2>6, <2>7, <2>8
<1>6. ASSUME NEW m \in Emissions, WriteFails(m) \/ SuccessFails(m) PROVE ExportTypes'
  <2>1. problems' \in [split : Nat, manifest : Nat]
    BY <1>0, <1>6 DEF WriteFails, SuccessFails, Stumbles
  <2>2. datasets' \in [Range(Targets) -> Groups \cup {Nobody}]
    BY <1>0, <1>6 DEF WriteFails, SuccessFails
  <2>3. parts' \in [Emissions -> Part]
    BY <1>5, <1>6 DEF WriteFails, SuccessFails
  <2>. QED BY <1>0, <1>6, <2>1, <2>2, <2>3 DEF WriteFails, SuccessFails, ExportTypes, SplitTypes, Part
<1>7. ASSUME NEW m \in Emissions, Succeeds(m) PROVE ExportTypes'
  <2>1. Group(m) \in Groups
    BY EmissionFacts
  <2>2. succeeded' \in Seq(Groups)
    BY <1>0, <1>7, <2>1 DEF Succeeds
  <2>3. parts' \in [Emissions -> Part]
    <3>1. parts' = [parts EXCEPT ![m] = [parts[m] EXCEPT !.pc = "ended"]]
      BY <1>0, <1>7 DEF Succeeds
    <3>2. [parts[m] EXCEPT !.pc = "ended"] \in Part
      <4>1. parts[m] \in Part
        BY <1>0
      <4>. QED BY <1>b, <1>c, <4>1, PartFacts
    <3>. QED BY <1>0, <3>1, <3>2
  <2>. QED BY <1>0, <1>7, <2>2, <2>3 DEF Succeeds, ExportTypes, SplitTypes, Part
<1>8. CASE UNCHANGED exportVars
  BY <1>0, <1>8 DEF exportVars, ExportTypes, SplitTypes, Part
<1>. QED BY <1>1, <1>2, <1>3, <1>4, <1>6, <1>7, <1>8 DEF ExportNext

\* Every variable of the export keeps its type, for any groups, ratios, rows and
\* draws.
THEOREM ExportIsTyped == ExportSpec => []ExportTypes
BY ExportTypesInit, ExportTypesStep, PTL DEF ExportSpec

----------------------------------------------------------------------------
(* Each row is in one part. *)

PartAt(g, name, a) == parts[<<g, name, a>>].pc

\* The parts of the attempt at work were emitted, up to the next one; and of no
\* attempt one that comes later.  The last of them is emitted once.
EmittedInv ==
  \A g \in Groups :
    /\ \A i \in 1 .. 3 : i < splitting[g].next => PartAt(g, SplitNames[i], splitting[g].attempt) # "none"
    /\ \A i \in 1 .. 3, a \in 1 .. PartAttempts : PartAt(g, SplitNames[i], a) # "none" =>
         a < splitting[g].attempt \/ (a = splitting[g].attempt /\ i < splitting[g].next)
    /\ \A a \in 1 .. PartAttempts : PartAt(g, "test", a) # "none" =>
         splitting[g].next = 4 /\ a = splitting[g].attempt

\* What was emitted are the rows that the split cuts for that part.
RowsInv ==
  \A m \in Emissions : parts[m].pc # "none" => parts[m].rows = Cut(split, split.rows[Group(m)], m[2])

\* Nothing is emitted at the start.
LEMMA EmittedInit == ExportInit => EmittedInv /\ RowsInv
<1> SUFFICES ASSUME ExportInit PROVE EmittedInv /\ RowsInv
  OBVIOUS
<1>1. \A m \in Emissions : parts[m].pc = "none"
  BY DEF ExportInit, NotEmitted
<1>2. \A g \in Groups, i \in 1 .. 3, a \in 1 .. PartAttempts : PartAt(g, SplitNames[i], a) = "none" /\ PartAt(g, "test", a) = "none"
  BY <1>1, EmissionFacts, NameFacts DEF PartAt, Names
<1>3. \A g \in Groups : splitting[g].next = 1
  BY DEF ExportInit
<1>. QED BY <1>1, <1>2, <1>3 DEF EmittedInv, RowsInv

\* A step of the manifest node neither emits a part nor changes its rows.
LEMMA WorkKeeps ==
  ASSUME ExportTypes, NEW m \in Emissions,
         CollectMoves(m) \/ WriteMoves(m) \/ FailMoves(m) \/ SuccessMoves(m)
  PROVE  /\ UNCHANGED <<split, splitting>> /\ Untouched(m)
         /\ parts[m].pc # "none" /\ parts'[m].pc # "none"
         /\ \A n \in Emissions : parts'[n].rows = parts[n].rows /\ (parts'[n].pc = "none" <=> parts[n].pc = "none")
<1>1. /\ UNCHANGED <<split, splitting>> /\ Untouched(m) /\ parts'[m].rows = parts[m].rows
      /\ parts[m].pc # "none" /\ parts'[m].pc # "none"
  BY DEF CollectMoves, WriteMoves, FailMoves, SuccessMoves, Works
<1>. QED BY <1>1 DEF Untouched

\* What is emitted comes in order, attempt after attempt.
LEMMA EmittedStep == ExportTypes /\ EmittedInv /\ [ExportNext]_exportVars => EmittedInv'
<1> SUFFICES ASSUME ExportTypes, EmittedInv, [ExportNext]_exportVars PROVE EmittedInv'
  OBVIOUS
<1>0. /\ splitting \in [Groups -> [next : 1 .. 4, attempt : 1 .. PartAttempts]]
      /\ \A g \in Groups : splitting[g].next \in 1 .. 4 /\ splitting[g].attempt \in 1 .. PartAttempts
      /\ PartAttempts \in Nat
  BY DatasetExportAssumption DEF ExportTypes, DatasetExportAssumption
<1>1. /\ \A i \in 1 .. 3 : SplitNames[i] \in Names /\ (SplitNames[i] = "test" <=> i = 3)
      /\ \A i, j \in 1 .. 3 : SplitNames[i] = SplitNames[j] => i = j
      /\ "test" \in Names
  BY NameFacts DEF Names
<1>2. ASSUME NEW g \in Groups, EmitMoves(g) PROVE EmittedInv'
  <2>1. PICK i \in 1 .. 3, m \in Emissions :
          /\ splitting[g].next = i /\ m = <<g, SplitNames[i], splitting[g].attempt>>
          /\ Untouched(m) /\ parts'[m].pc = "queued"
          /\ splitting'[g].next = i + 1 /\ splitting'[g].attempt = splitting[g].attempt
          /\ \A h \in Groups : h # g => splitting'[h] = splitting[h]
    BY <1>2 DEF EmitMoves
  <2>2. \A h \in Groups, name \in Names, a \in 1 .. PartAttempts :
          PartAt(h, name, a)' = IF h = g /\ name = SplitNames[i] /\ a = splitting[g].attempt
                              THEN "queued" ELSE PartAt(h, name, a)
    <3> SUFFICES ASSUME NEW h \in Groups, NEW name \in Names, NEW a \in 1 .. PartAttempts
                 PROVE  PartAt(h, name, a)' = IF h = g /\ name = SplitNames[i] /\ a = splitting[g].attempt
                                            THEN "queued" ELSE PartAt(h, name, a)
      OBVIOUS
    <3>1. PICK n \in Emissions : n = <<h, name, a>>
      BY EmissionFacts
    <3>2. n = m <=> h = g /\ name = SplitNames[i] /\ a = splitting[g].attempt
      BY <2>1, <3>1
    <3>. QED BY <2>1, <3>1, <3>2 DEF PartAt, Untouched
  <2>3. SUFFICES ASSUME NEW h \in Groups
                 PROVE  /\ \A j \in 1 .. 3 : j < splitting'[h].next =>
                             PartAt(h, SplitNames[j], splitting[h].attempt)' # "none"
                        /\ \A j \in 1 .. 3, a \in 1 .. PartAttempts : PartAt(h, SplitNames[j], a)' # "none" =>
                             a < splitting[h].attempt \/ (a = splitting[h].attempt /\ j < splitting'[h].next)
                        /\ \A a \in 1 .. PartAttempts : PartAt(h, "test", a)' # "none" =>
                             splitting'[h].next = 4 /\ a = splitting[h].attempt
    BY <2>1 DEF EmittedInv, PartAt
  <2>4. /\ \A j \in 1 .. 3 : j < splitting[h].next => PartAt(h, SplitNames[j], splitting[h].attempt) # "none"
        /\ \A j \in 1 .. 3, a \in 1 .. PartAttempts : PartAt(h, SplitNames[j], a) # "none" =>
             a < splitting[h].attempt \/ (a = splitting[h].attempt /\ j < splitting[h].next)
        /\ \A a \in 1 .. PartAttempts : PartAt(h, "test", a) # "none" =>
             splitting[h].next = 4 /\ a = splitting[h].attempt
    BY DEF EmittedInv
  <2>5. CASE h # g
    BY <1>0, <1>1, <2>1, <2>2, <2>4, <2>5
  <2>6. CASE h = g
    <3>1. \A j \in 1 .. 3 : j < splitting'[h].next => j < i \/ j = i
      BY <2>1, <2>6
    <3>2. \A j \in 1 .. 3 : j < i => j < splitting'[h].next
      BY <2>1, <2>6
    <3>3. i < splitting'[h].next /\ (i = 3 => splitting'[h].next = 4)
      BY <2>1, <2>6
    <3>. QED BY <1>0, <1>1, <2>1, <2>2, <2>4, <2>6, <3>1, <3>2, <3>3
  <2>. QED BY <2>5, <2>6
<1>3. ASSUME NEW g \in Groups, RepeatMoves(g) PROVE EmittedInv'
  <2>1. /\ splitting[g].next \in 1 .. 3
        /\ splitting'[g].next = 1 /\ splitting'[g].attempt = splitting[g].attempt + 1
        /\ \A h \in Groups : h # g => splitting'[h] = splitting[h]
        /\ parts' = parts
    BY <1>3 DEF RepeatMoves
  <2>2. \A h, name, a : PartAt(h, name, a)' = PartAt(h, name, a)
    BY <2>1 DEF PartAt
  <2>3. SUFFICES ASSUME NEW h \in Groups
                 PROVE  /\ \A j \in 1 .. 3 : j < splitting'[h].next =>
                             PartAt(h, SplitNames[j], splitting'[h].attempt) # "none"
                        /\ \A j \in 1 .. 3, a \in 1 .. PartAttempts : PartAt(h, SplitNames[j], a) # "none" =>
                             a < splitting'[h].attempt \/ (a = splitting'[h].attempt /\ j < splitting'[h].next)
                        /\ \A a \in 1 .. PartAttempts : PartAt(h, "test", a) # "none" =>
                             splitting'[h].next = 4 /\ a = splitting'[h].attempt
    BY <2>1 DEF EmittedInv, PartAt
  <2>4. /\ \A j \in 1 .. 3 : j < splitting[h].next => PartAt(h, SplitNames[j], splitting[h].attempt) # "none"
        /\ \A j \in 1 .. 3, a \in 1 .. PartAttempts : PartAt(h, SplitNames[j], a) # "none" =>
             a < splitting[h].attempt \/ (a = splitting[h].attempt /\ j < splitting[h].next)
        /\ \A a \in 1 .. PartAttempts : PartAt(h, "test", a) # "none" =>
             splitting[h].next = 4 /\ a = splitting[h].attempt
    BY DEF EmittedInv
  <2>5. CASE h # g
    BY <2>1, <2>4, <2>5
  <2>6. CASE h = g
    <3>1. \A a \in 1 .. PartAttempts : PartAt(h, "test", a) = "none"
      BY <2>1, <2>4, <2>6
    <3>2. \A a \in 1 .. PartAttempts : a <= splitting[h].attempt => a < splitting'[h].attempt
      BY <1>0, <2>1, <2>6
    <3>3. \A j \in 1 .. 3, a \in 1 .. PartAttempts : PartAt(h, SplitNames[j], a) # "none" => a < splitting'[h].attempt
      <4>1. splitting[h].attempt \in Nat
        BY <1>0
      <4>. QED BY <2>4, <3>2, <4>1
    <3>4. \A j \in 1 .. 3 : ~(j < splitting'[h].next)
      BY <2>1, <2>6
    <3>. QED BY <3>1, <3>3, <3>4
  <2>. QED BY <2>5, <2>6
<1>4. ASSUME NEW m \in Emissions, CollectMoves(m) \/ WriteMoves(m) \/ FailMoves(m) \/ SuccessMoves(m)
      PROVE  EmittedInv'
  <2>1. /\ splitting' = splitting
        /\ \A n \in Emissions : parts'[n].pc = "none" <=> parts[n].pc = "none"
    BY <1>4, WorkKeeps
  <2>2. \A h \in Groups, name \in Names, a \in 1 .. PartAttempts : PartAt(h, name, a)' # "none" <=> PartAt(h, name, a) # "none"
    BY <2>1, EmissionFacts DEF PartAt
  <2>3. SUFFICES ASSUME NEW h \in Groups
                 PROVE  /\ \A j \in 1 .. 3 : j < splitting[h].next =>
                             PartAt(h, SplitNames[j], splitting[h].attempt)' # "none"
                        /\ \A j \in 1 .. 3, a \in 1 .. PartAttempts : PartAt(h, SplitNames[j], a)' # "none" =>
                             a < splitting[h].attempt \/ (a = splitting[h].attempt /\ j < splitting[h].next)
                        /\ \A a \in 1 .. PartAttempts : PartAt(h, "test", a)' # "none" =>
                             splitting[h].next = 4 /\ a = splitting[h].attempt
    BY <2>1 DEF EmittedInv, PartAt
  <2>4. /\ \A j \in 1 .. 3 : j < splitting[h].next => PartAt(h, SplitNames[j], splitting[h].attempt) # "none"
        /\ \A j \in 1 .. 3, a \in 1 .. PartAttempts : PartAt(h, SplitNames[j], a) # "none" =>
             a < splitting[h].attempt \/ (a = splitting[h].attempt /\ j < splitting[h].next)
        /\ \A a \in 1 .. PartAttempts : PartAt(h, "test", a) # "none" =>
             splitting[h].next = 4 /\ a = splitting[h].attempt
    BY DEF EmittedInv
  <2>5. \A j \in 1 .. 3, a \in 1 .. PartAttempts : PartAt(h, SplitNames[j], a)' # "none" <=> PartAt(h, SplitNames[j], a) # "none"
    BY <1>1, <2>2
  <2>6. \A a \in 1 .. PartAttempts : PartAt(h, "test", a)' # "none" <=> PartAt(h, "test", a) # "none"
    BY <1>1, <2>2
  <2>7. splitting[h].attempt \in 1 .. PartAttempts
    BY <1>0
  <2>8. \A j \in 1 .. 3 : j < splitting[h].next => PartAt(h, SplitNames[j], splitting[h].attempt)' # "none"
    <3> SUFFICES ASSUME NEW j \in 1 .. 3, j < splitting[h].next
                 PROVE  PartAt(h, SplitNames[j], splitting[h].attempt)' # "none"
      BY <2>1 DEF PartAt
    <3>1. PICK a \in 1 .. PartAttempts : a = splitting[h].attempt
      BY <2>7
    <3>2. PartAt(h, SplitNames[j], a)' # "none"
      BY <2>4, <2>5, <3>1
    <3>. QED BY <2>1, <3>1, <3>2 DEF PartAt
  <2>9. \A j \in 1 .. 3, a \in 1 .. PartAttempts : PartAt(h, SplitNames[j], a)' # "none" =>
          a < splitting[h].attempt \/ (a = splitting[h].attempt /\ j < splitting[h].next)
    BY <2>4, <2>5
  <2>10. \A a \in 1 .. PartAttempts : PartAt(h, "test", a)' # "none" =>
           splitting[h].next = 4 /\ a = splitting[h].attempt
    BY <2>4, <2>6
  <2>. QED BY <2>8, <2>9, <2>10
<1>5. CASE UNCHANGED exportVars
  BY <1>5 DEF exportVars, EmittedInv, PartAt
<1>. QED BY <1>2, <1>3, <1>4, <1>5, ExportMoves

\* A part is emitted with the rows of its cut, and keeps them.
LEMMA RowsStep == ExportTypes /\ RowsInv /\ [ExportNext]_exportVars => RowsInv'
<1> SUFFICES ASSUME ExportTypes, RowsInv, [ExportNext]_exportVars PROVE RowsInv'
  OBVIOUS
<1>2. ASSUME NEW g \in Groups, EmitMoves(g) PROVE RowsInv'
  <2>1. PICK i \in 1 .. 3, m \in Emissions :
          /\ m = <<g, SplitNames[i], splitting[g].attempt>>
          /\ Untouched(m) /\ parts'[m].rows = Cut(split, split.rows[g], SplitNames[i]) /\ split' = split
    BY <1>2 DEF EmitMoves
  <2>2. parts'[m].rows = Cut(split, split.rows[Group(m)], m[2])
    BY <2>1 DEF Group
  <2>. QED BY <2>1, <2>2 DEF RowsInv, Untouched
<1>3. ASSUME NEW g \in Groups, RepeatMoves(g) PROVE RowsInv'
  BY <1>3 DEF RepeatMoves, RowsInv
<1>4. ASSUME NEW m \in Emissions, CollectMoves(m) \/ WriteMoves(m) \/ FailMoves(m) \/ SuccessMoves(m)
      PROVE  RowsInv'
  BY <1>4, WorkKeeps DEF RowsInv
<1>5. CASE UNCHANGED exportVars
  BY <1>5 DEF exportVars, RowsInv
<1>. QED BY <1>2, <1>3, <1>4, <1>5, ExportMoves

\* What was emitted of a group are parts of one cut.
LEMMA RowsMeaning == ExportTypes /\ EmittedInv /\ RowsInv => RowsInOnePart
<1> SUFFICES ASSUME ExportTypes, EmittedInv, RowsInv, NEW g \in Groups
             PROVE  LET emitted == {m \in Emissions : Group(m) = g /\ parts[m].pc # "none"}
                        all == UNION {parts[m].rows : m \in emitted}
                    IN /\ \A m, n \in emitted : m[2] # n[2] => parts[m].rows \cap parts[n].rows = {}
                       /\ splitting[g].next = 4 => all = 1..split.rows[g]
  BY DEF RowsInOnePart
<1> DEFINE emitted == {m \in Emissions : Group(m) = g /\ parts[m].pc # "none"}
           all == UNION {parts[m].rows : m \in emitted}
<1>1. PICK total \in Nat : total = split.rows[g]
  BY DEF ExportTypes, SplitTypes
<1>2. /\ \A k \in 1 .. (total - 1) : split.draws[k] \in Nat
      /\ split.train \in 0 .. 10 /\ split.validation \in 0 .. 10
  BY <1>1 DEF ExportTypes, SplitTypes
<1>3. /\ \A name \in Names : Cut(split, total, name) \subseteq 1 .. total
      /\ \A name, other \in Names : name # other => Cut(split, total, name) \cap Cut(split, total, other) = {}
      /\ Cut(split, total, "train") \cup Cut(split, total, "validation") \cup Cut(split, total, "test") = 1 .. total
  BY <1>2, CutFacts
<1>4. \A m \in emitted : m[2] \in Names /\ parts[m].rows = Cut(split, total, m[2])
  BY <1>1, EmissionFacts DEF RowsInv
<1>5. \A m, n \in emitted : m[2] # n[2] => parts[m].rows \cap parts[n].rows = {}
  BY <1>3, <1>4
<1>6. ASSUME splitting[g].next = 4 PROVE all = 1 .. total
  <2>1. splitting[g].attempt \in 1 .. PartAttempts
    BY DEF ExportTypes
  <2>2. \A name \in Names : \E m \in emitted : m[2] = name
    <3> SUFFICES ASSUME NEW name \in Names PROVE \E m \in emitted : m[2] = name
      OBVIOUS
    <3>1. PICK i \in 1 .. 3 : SplitNames[i] = name
      BY NameFacts DEF Names
    <3>2. PICK m \in Emissions : m = <<g, name, splitting[g].attempt>>
      BY <2>1, EmissionFacts
    <3>3. parts[m].pc # "none"
      <4>1. i < splitting[g].next
        BY <1>6
      <4>2. PartAt(g, SplitNames[i], splitting[g].attempt) # "none"
        BY <4>1 DEF EmittedInv
      <4>. QED BY <3>1, <3>2, <4>2 DEF PartAt
    <3>4. Group(m) = g /\ m[2] = name
      BY <3>2 DEF Group
    <3>. QED BY <3>3, <3>4
  <2>3. \A x \in all : x \in 1 .. total
    BY <1>3, <1>4
  <2>4. \A x \in 1 .. total : \E name \in Names : x \in Cut(split, total, name)
    BY <1>3 DEF Names
  <2>5. \A x \in 1 .. total : x \in all
    <3> SUFFICES ASSUME NEW x \in 1 .. total PROVE \E m \in emitted : x \in parts[m].rows
      OBVIOUS
    <3>1. PICK name \in Names : x \in Cut(split, total, name)
      BY <2>4
    <3>2. PICK m \in emitted : m[2] = name
      BY <2>2
    <3>. QED BY <1>4, <3>1, <3>2
  <2> HIDE DEF all
  <2>. QED BY <2>3, <2>5
<1> HIDE DEF emitted
<1>. QED BY <1>1, <1>5, <1>6 DEF emitted

\* A row of the data is in one part of its dataset: not in two that different
\* attempts of the split emitted, and not left out, whatever the seed draws.
THEOREM RowsAreInOnePart == ExportSpec => []RowsInOnePart
BY EmittedInit, ExportIsTyped, EmittedStep, RowsStep, RowsMeaning, PTL DEF ExportSpec

----------------------------------------------------------------------------
(* A dataset is handed on once. *)

\* The test part of a group is yet to be collected, kept, or gone into the one
\* dataset of the group that is being written or was handed on.
Waits(g)   == \E m \in Emissions : Group(m) = g /\ m[2] = "test" /\ parts[m].pc \in {"queued", "again"}
Kept(g)    == "test" \in pending[g]
Writing(g) == \E m \in Emissions : Group(m) = g /\ parts[m].pc = "writes"
Done(g)    == \E i \in DOMAIN succeeded : succeeded[i] = g

OnceOf(g) ==
  /\ Waits(g) => ~Kept(g) /\ ~Writing(g) /\ ~Done(g)
  /\ Kept(g) => ~Writing(g) /\ ~Done(g)
  /\ Writing(g) => ~Done(g)
  /\ Kept(g) \/ Writing(g) \/ Done(g) => splitting[g].next = 4
  /\ \A m, n \in Emissions : Group(m) = g /\ Group(n) = g /\ parts[m].pc = "writes" /\ parts[n].pc = "writes" => m = n

OnceInv == (\A g \in Groups : OnceOf(g)) /\ IsInjective(succeeded)

\* The part that is emitted next was not, and of the test parts of a group one
\* was, when the split is done with it.
LEMMA EmittedOnce ==
  ASSUME ExportTypes, EmittedInv
  PROVE  /\ \A m \in Emissions, i \in 1 .. 3 :
              splitting[Group(m)].next = i /\ m[2] = SplitNames[i] /\ m[3] = splitting[Group(m)].attempt
                => parts[m].pc = "none"
         /\ \A m \in Emissions : m[2] = "test" /\ parts[m].pc # "none" => splitting[Group(m)].next = 4
         /\ \A m, n \in Emissions :
              Group(m) = Group(n) /\ m[2] = "test" /\ n[2] = "test" /\ parts[m].pc # "none" /\ parts[n].pc # "none"
                => m = n
<1>1. \A g \in Groups : splitting[g].next \in 1 .. 4 /\ splitting[g].attempt \in 1 .. PartAttempts
  BY DEF ExportTypes
<1>2. \A m \in Emissions : /\ m = <<m[1], m[2], m[3]>> /\ Group(m) = m[1] /\ m[1] \in Groups
                           /\ m[3] \in 1 .. PartAttempts /\ parts[m].pc = PartAt(m[1], m[2], m[3])
  <2> SUFFICES ASSUME NEW m \in Emissions
               PROVE  /\ m = <<m[1], m[2], m[3]>> /\ Group(m) = m[1] /\ m[1] \in Groups
                      /\ m[3] \in 1 .. PartAttempts /\ parts[m].pc = PartAt(m[1], m[2], m[3])
    OBVIOUS
  <2>1. m = <<m[1], m[2], m[3]>> /\ Group(m) = m[1] /\ m[1] \in Groups /\ m[3] \in 1 .. PartAttempts
    BY EmissionFacts
  <2>. QED BY Zenon, <2>1 DEF PartAt
<1>3. ASSUME NEW m \in Emissions, NEW i \in 1 .. 3,
             splitting[Group(m)].next = i, m[2] = SplitNames[i], m[3] = splitting[Group(m)].attempt
      PROVE  parts[m].pc = "none"
  <2>1. PartAt(m[1], SplitNames[i], m[3]) # "none" =>
          m[3] < splitting[m[1]].attempt \/ (m[3] = splitting[m[1]].attempt /\ i < splitting[m[1]].next)
    BY <1>2 DEF EmittedInv
  <2>2. ~(m[3] < m[3]) /\ ~(i < i)
    BY <1>2
  <2>. QED BY <1>2, <1>3, <2>1, <2>2
<1>4. \A m \in Emissions : m[2] = "test" /\ parts[m].pc # "none" =>
        splitting[Group(m)].next = 4 /\ m[3] = splitting[Group(m)].attempt
  BY <1>2 DEF EmittedInv
<1>5. \A m, n \in Emissions : m[1] = n[1] /\ m[2] = n[2] /\ m[3] = n[3] => m = n
  BY <1>2
<1>. QED BY <1>2, <1>3, <1>4, <1>5

\* A group of which no step says anything new.
LEMMA OnceKeeps ==
  ASSUME NEW g \in Groups, OnceOf(g),
         \A m \in Emissions : Group(m) = g =>
           /\ parts'[m].pc = "writes" <=> parts[m].pc = "writes"
           /\ m[2] = "test" /\ parts'[m].pc \in {"queued", "again"} => parts[m].pc \in {"queued", "again"},
         "test" \in pending'[g] => "test" \in pending[g],
         Done(g)' => Done(g),
         Kept(g) \/ Writing(g) \/ Done(g) => splitting'[g].next = 4
  PROVE  OnceOf(g)'
<1>1. Waits(g)' => Waits(g)
  BY DEF Waits
<1>2. Writing(g)' => Writing(g)
  BY DEF Writing
<1>3. Kept(g)' => Kept(g)
  BY DEF Kept
<1>4. Kept(g)' \/ Writing(g)' \/ Done(g)' => splitting'[g].next = 4
  BY <1>2, <1>3
<1>5. \A m, n \in Emissions : Group(m) = g /\ Group(n) = g /\ parts'[m].pc = "writes" /\ parts'[n].pc = "writes" => m = n
  BY DEF OnceOf
<1>. QED BY <1>1, <1>2, <1>3, <1>4, <1>5 DEF OnceOf

\* Each group's test part is in one place, and its dataset is handed on once.
LEMMA OnceStep == ExportTypes /\ EmittedInv /\ OnceInv /\ [ExportNext]_exportVars => OnceInv'
<1> SUFFICES ASSUME ExportTypes, EmittedInv, OnceInv, [ExportNext]_exportVars PROVE OnceInv'
  OBVIOUS
<1>0. \A g \in Groups : OnceOf(g)
  BY DEF OnceInv
<1>1. ASSUME NEW g \in Groups, EmitMoves(g) PROVE OnceInv'
  <2>1. PICK i \in 1 .. 3, m \in Emissions :
          /\ splitting[g].next = i /\ m = <<g, SplitNames[i], splitting[g].attempt>>
          /\ Untouched(m) /\ parts'[m].pc = "queued"
          /\ \A h \in Groups : h # g => splitting'[h] = splitting[h]
          /\ splitting'[g].next = i + 1
          /\ UNCHANGED <<pending, succeeded>>
    BY <1>1 DEF EmitMoves
  <2>2. Group(m) = g /\ m[2] = SplitNames[i] /\ m[3] = splitting[g].attempt
    BY <2>1 DEF Group
  <2>3. parts[m].pc = "none"
    BY <2>1, <2>2, EmittedOnce
  <2>4. \A n \in Emissions : parts'[n].pc = "writes" <=> parts[n].pc = "writes"
    BY <2>1, <2>3 DEF Untouched
  <2>5. ~Kept(g) /\ ~Writing(g) /\ ~Done(g)
    BY <1>0, <2>1 DEF OnceOf
  <2>6. \A h \in Groups : Done(h)' <=> Done(h)
    BY <2>1 DEF Done
  <2>7. ~Kept(g)' /\ ~Writing(g)' /\ ~Done(g)'
    BY <2>1, <2>4, <2>5, <2>6 DEF Kept, Writing
  <2>8. OnceOf(g)'
    <3>1. \A n \in Emissions : Group(n) = g => parts'[n].pc # "writes"
      BY <2>7 DEF Writing
    <3>. QED BY <2>7, <3>1 DEF OnceOf
  <2>9. ASSUME NEW h \in Groups, h # g PROVE OnceOf(h)'
    <3>1. \A n \in Emissions : Group(n) = h => parts'[n] = parts[n]
      BY <2>1, <2>2, <2>9 DEF Untouched
    <3>2. Kept(h) \/ Writing(h) \/ Done(h) => splitting'[h].next = 4
      BY <1>0, <2>1, <2>9 DEF OnceOf
    <3>. QED BY <1>0, <2>1, <2>6, <3>1, <3>2, OnceKeeps
  <2>. QED BY <2>1, <2>8, <2>9 DEF OnceInv
<1>2. ASSUME NEW g \in Groups, RepeatMoves(g) PROVE OnceInv'
  <2>1. /\ splitting[g].next \in 1 .. 3 /\ \A h \in Groups : h # g => splitting'[h] = splitting[h]
        /\ UNCHANGED <<parts, pending, succeeded>>
    BY <1>2 DEF RepeatMoves
  <2>2. \A h \in Groups : Done(h)' <=> Done(h)
    BY <2>1 DEF Done
  <2>3. ASSUME NEW h \in Groups PROVE OnceOf(h)'
    <3>1. splitting[g].next # 4
      BY <2>1
    <3>2. Kept(h) \/ Writing(h) \/ Done(h) => splitting'[h].next = 4
      BY <1>0, <2>1, <3>1 DEF OnceOf
    <3>. QED BY <1>0, <2>1, <2>2, <3>2, OnceKeeps
  <2>. QED BY <2>1, <2>3 DEF OnceInv
<1>3. ASSUME NEW m \in Emissions, CollectMoves(m) \/ WriteMoves(m) \/ FailMoves(m) \/ SuccessMoves(m),
             OnceOf(Group(m))'
      PROVE  \A g \in Groups : OnceOf(g)'
  <2> SUFFICES ASSUME NEW g \in Groups, g # Group(m) PROVE OnceOf(g)'
    BY <1>3
  <2>1. splitting' = splitting /\ Untouched(m)
    BY <1>3, WorkKeeps
  <2>2. \A n \in Emissions : Group(n) = g => parts'[n] = parts[n]
    BY <2>1 DEF Untouched
  <2>3. pending'[g] = pending[g]
    BY <1>3 DEF CollectMoves, WriteMoves, FailMoves, SuccessMoves
  <2>4. Done(g)' => Done(g)
    <3>1. CASE succeeded' = succeeded
      BY <3>1 DEF Done
    <3>2. CASE succeeded' = Append(succeeded, Group(m))
      <4>1. succeeded \in Seq(Groups)
        BY DEF ExportTypes
      <4>. QED BY <3>2, <4>1 DEF Done
    <3>. QED BY <1>3, <3>1, <3>2 DEF CollectMoves, WriteMoves, FailMoves, SuccessMoves
  <2>5. Kept(g) \/ Writing(g) \/ Done(g) => splitting'[g].next = 4
    BY <1>0, <2>1 DEF OnceOf
  <2>. QED BY <1>0, <2>2, <2>3, <2>4, <2>5, OnceKeeps
<1>4. ASSUME NEW m \in Emissions, CollectMoves(m) PROVE OnceInv'
  <2> DEFINE g == Group(m)
  <2>1. g \in Groups /\ m[2] \in Names
    BY EmissionFacts
  <2>2. /\ Untouched(m) /\ parts[m].pc \in {"queued", "again"}
        /\ \/ /\ pending[g] \cup {m[2]} = Names
              /\ pending'[g] = {} /\ parts'[m].pc = "writes"
           \/ /\ pending[g] \cup {m[2]} # Names
              /\ pending'[g] = pending[g] \cup {m[2]} /\ parts'[m].pc = "ended"
        /\ UNCHANGED <<splitting, succeeded>>
    BY <1>4 DEF CollectMoves, Works
  <2> HIDE DEF g
  <2>3. m[2] = "test" => Waits(g)
    BY <2>2 DEF Waits, g
  <2>4. m[2] = "test" => /\ splitting[g].next = 4
                         /\ \A n \in Emissions : Group(n) = g /\ n[2] = "test" /\ parts[n].pc # "none" => m = n
    BY <2>2, EmittedOnce DEF g
  <2>5. Done(g)' <=> Done(g)
    BY <2>2 DEF Done
  <2>6. OnceOf(g)
    BY <1>0, <2>1
  <2>7. m[2] = "test" => ~Waits(g)'
    BY <2>2, <2>4 DEF Waits, Untouched
  <2>8. CASE pending'[g] = {} /\ parts'[m].pc = "writes" /\ pending[g] \cup {m[2]} = Names
    <3>1. m[2] = "test" \/ Kept(g)
      BY <2>8 DEF Kept, Names
    <3>2. ~Writing(g) /\ ~Done(g) /\ splitting[g].next = 4 /\ (Kept(g) => ~Waits(g))
      BY <2>3, <2>4, <2>6, <3>1 DEF OnceOf
    <3>3. ~Waits(g)'
      <4>1. Kept(g) => ~Waits(g)'
        BY <2>2, <2>8, <3>2 DEF Waits, Untouched
      <4>. QED BY <2>7, <3>1, <4>1
    <3>4. ~Kept(g)'
      BY <2>8 DEF Kept
    <3>5. \A n \in Emissions : Group(n) = g /\ parts'[n].pc = "writes" => n = m
      BY <2>2, <3>2 DEF Writing, Untouched
    <3>6. OnceOf(g)'
      BY <2>2, <2>5, <3>2, <3>3, <3>4, <3>5 DEF OnceOf
    <3>. QED BY <1>3, <1>4, <2>2, <3>6 DEF OnceInv, g
  <2>9. CASE pending'[g] = pending[g] \cup {m[2]} /\ parts'[m].pc = "ended"
    <3>1. \A n \in Emissions : Group(n) = g => (parts'[n].pc = "writes" <=> parts[n].pc = "writes")
      BY <2>2, <2>9 DEF Untouched
    <3>2. CASE m[2] = "test"
      <4>1. ~Writing(g) /\ ~Done(g) /\ splitting[g].next = 4 /\ ~Waits(g)'
        BY <2>3, <2>4, <2>6, <2>7, <3>2 DEF OnceOf
      <4>2. ~Writing(g)'
        BY <3>1, <4>1 DEF Writing
      <4>3. OnceOf(g)'
        <5>1. \A n \in Emissions : Group(n) = g => parts'[n].pc # "writes"
          BY <4>2 DEF Writing
        <5>. QED BY <2>2, <2>5, <4>1, <4>2, <5>1 DEF OnceOf
      <4>. QED BY <1>3, <1>4, <2>2, <4>3 DEF OnceInv, g
    <3>3. CASE m[2] # "test"
      <4>1. "test" \in pending'[g] => "test" \in pending[g]
        BY <2>9, <3>3
      <4>2. \A n \in Emissions : Group(n) = g /\ n[2] = "test" => parts'[n] = parts[n]
        BY <2>2, <3>3 DEF Untouched
      <4>3. Kept(g) \/ Writing(g) \/ Done(g) => splitting'[g].next = 4
        BY <2>2, <2>6 DEF OnceOf
      <4>4. OnceOf(g)'
        BY <2>1, <2>5, <2>6, <3>1, <4>1, <4>2, <4>3, OnceKeeps
      <4>. QED BY <1>3, <1>4, <2>2, <4>4 DEF OnceInv, g
    <3>. QED BY <3>2, <3>3
  <2>. QED BY <2>2, <2>8, <2>9
<1>5. ASSUME NEW m \in Emissions, WriteMoves(m) PROVE OnceInv'
  <2>1. Group(m) \in Groups
    BY EmissionFacts
  <2>2. /\ Untouched(m) /\ parts[m].pc = "writes" /\ parts'[m].pc = "writes"
        /\ UNCHANGED <<splitting, pending, succeeded>>
    BY <1>5 DEF WriteMoves, Works
  <2>3. \A n \in Emissions : parts'[n].pc = parts[n].pc
    BY <2>2 DEF Untouched
  <2>4. Done(Group(m))' <=> Done(Group(m))
    BY <2>2 DEF Done
  <2>5. Kept(Group(m)) \/ Writing(Group(m)) \/ Done(Group(m)) => splitting'[Group(m)].next = 4
    BY <1>0, <2>1, <2>2 DEF OnceOf
  <2>6. OnceOf(Group(m))'
    BY <1>0, <2>1, <2>2, <2>3, <2>4, <2>5, OnceKeeps
  <2>. QED BY <1>3, <1>5, <2>2, <2>6 DEF OnceInv
<1>6. ASSUME NEW m \in Emissions, FailMoves(m) \/ SuccessMoves(m) PROVE OnceInv'
  <2> DEFINE g == Group(m)
  <2>1. g \in Groups
    BY EmissionFacts
  <2>2. /\ Untouched(m) /\ parts[m].pc = "writes" /\ parts'[m].pc # "writes"
        /\ UNCHANGED <<splitting, pending>>
    BY <1>6 DEF FailMoves, SuccessMoves, Works
  <2> HIDE DEF g
  <2>3. OnceOf(g) /\ Writing(g)
    BY <1>0, <2>1, <2>2 DEF Writing, g
  <2>4. ~Waits(g) /\ ~Kept(g) /\ ~Done(g) /\ splitting[g].next = 4
    BY <2>3 DEF OnceOf
  <2>5. \A n \in Emissions : Group(n) = g => parts'[n].pc # "writes"
    BY <2>2, <2>3 DEF OnceOf, Untouched, g
  <2>6. ~Writing(g)' /\ ~Kept(g)'
    BY <2>2, <2>4, <2>5 DEF Writing, Kept
  <2>7. CASE FailMoves(m)
    <3>1. succeeded' = succeeded
      BY <2>7 DEF FailMoves
    <3>2. ~Done(g)'
      BY <2>4, <3>1 DEF Done
    <3>3. OnceOf(g)'
      BY <2>5, <2>6, <3>2 DEF OnceOf
    <3>. QED BY <1>3, <1>6, <3>1, <3>3 DEF OnceInv, g
  <2>8. CASE SuccessMoves(m)
    <3>1. succeeded' = Append(succeeded, g) /\ parts'[m].pc = "ended" /\ succeeded \in Seq(Groups)
      BY <2>8 DEF SuccessMoves, ExportTypes, g
    <3>2. ~Waits(g)'
      BY <2>2, <2>4, <3>1 DEF Waits, Untouched
    <3>3. OnceOf(g)'
      BY <2>2, <2>4, <2>5, <2>6, <3>2 DEF OnceOf
    <3>4. IsInjective(succeeded')
      <4>1. \A i \in 1 .. Len(succeeded) : succeeded[i] # g
        BY <2>4, <3>1 DEF Done
      <4>2. \A i, j \in 1 .. Len(succeeded) : succeeded[i] = succeeded[j] => i = j
        BY <3>1 DEF OnceInv, IsInjective
      <4>. QED BY <3>1, <4>1, <4>2 DEF IsInjective
    <3>. QED BY <1>3, <1>6, <3>3, <3>4 DEF OnceInv, g
  <2>. QED BY <1>6, <2>7, <2>8
<1>7. CASE UNCHANGED exportVars
  BY <1>7 DEF exportVars, OnceInv, OnceOf, Waits, Kept, Writing, Done
<1>. QED BY <1>1, <1>2, <1>4, <1>5, <1>6, <1>7, ExportMoves

----------------------------------------------------------------------------
(* Every dataset is handed on. *)

\* A part of the group that was taken in is kept, unless the dataset is being
\* written or was handed on.
KeptOf(g) ==
  \/ Writing(g) \/ Done(g)
  \/ \A m \in Emissions : Group(m) = g /\ parts[m].pc = "ended" => m[2] \in pending[g]

\* No group is kept whole; and while nothing fails, every part taken in is kept
\* until its dataset is being written.
PendingInv ==
  /\ \A g \in Groups : pending[g] # Names
  /\ problems.manifest = 0 =>
       /\ \A m \in Emissions : parts[m].pc \in {"none", "queued", "writes", "ended"}
       /\ \A g \in Groups : KeptOf(g)

\* Nothing is kept, written or handed on at the start.
LEMMA ArrivalInit == ExportInit => OnceInv /\ PendingInv
<1> SUFFICES ASSUME ExportInit PROVE OnceInv /\ PendingInv
  OBVIOUS
<1>1. \A m \in Emissions : parts[m].pc = "none"
  BY DEF ExportInit, NotEmitted
<1>2. \A g \in Groups : pending[g] = {}
  BY DEF ExportInit
<1>3. succeeded = <<>>
  BY DEF ExportInit
<1>4. \A g \in Groups : ~Waits(g) /\ ~Kept(g) /\ ~Writing(g) /\ ~Done(g)
  BY <1>1, <1>2, <1>3 DEF Waits, Kept, Writing, Done
<1>5. IsInjective(succeeded)
  BY <1>3 DEF IsInjective
<1>6. \A g \in Groups : OnceOf(g)
  BY <1>1, <1>4 DEF OnceOf
<1>7. \A g \in Groups : pending[g] # Names
  BY <1>2 DEF Names
<1>8. \A g \in Groups : KeptOf(g)
  BY <1>1 DEF KeptOf
<1>. QED BY <1>1, <1>5, <1>6, <1>7, <1>8 DEF OnceInv, PendingInv

\* A group of which no step says anything new.
LEMMA KeptKeeps ==
  ASSUME NEW g \in Groups, KeptOf(g),
         \A m \in Emissions : Group(m) = g =>
           /\ parts[m].pc = "writes" => parts'[m].pc = "writes"
           /\ parts'[m].pc = "ended" => parts[m].pc = "ended",
         pending'[g] = pending[g], Done(g) => Done(g)'
  PROVE  KeptOf(g)'
<1>1. Writing(g) => Writing(g)'
  BY DEF Writing
<1>. QED BY <1>1 DEF KeptOf

\* What was taken in is kept, until the third part takes the group out.
LEMMA PendingStep == ExportTypes /\ EmittedInv /\ PendingInv /\ [ExportNext]_exportVars => PendingInv'
<1> SUFFICES ASSUME ExportTypes, EmittedInv, PendingInv, [ExportNext]_exportVars PROVE PendingInv'
  OBVIOUS
<1>0. /\ \A g \in Groups : pending[g] # Names
      /\ problems.manifest = 0 =>
           /\ \A m \in Emissions : parts[m].pc \in {"none", "queued", "writes", "ended"}
           /\ \A g \in Groups : KeptOf(g)
  BY DEF PendingInv
<1>1. ASSUME NEW g \in Groups, EmitMoves(g) PROVE PendingInv'
  <2>1. PICK i \in 1 .. 3, m \in Emissions :
          /\ splitting[g].next = i /\ m = <<g, SplitNames[i], splitting[g].attempt>>
          /\ Untouched(m) /\ parts'[m].pc = "queued"
          /\ UNCHANGED <<pending, succeeded, problems>>
    BY <1>1 DEF EmitMoves
  <2>2. Group(m) = g /\ m[2] = SplitNames[i] /\ m[3] = splitting[g].attempt
    BY <2>1 DEF Group
  <2>3. parts[m].pc = "none"
    BY <2>1, <2>2, EmittedOnce
  <2>4. \A n \in Emissions : /\ parts[n].pc = "writes" => parts'[n].pc = "writes"
                             /\ parts'[n].pc = "ended" => parts[n].pc = "ended"
    BY <2>1, <2>3 DEF Untouched
  <2>5. \A h \in Groups : Done(h) => Done(h)'
    BY <2>1 DEF Done
  <2>6. \A h \in Groups : KeptOf(h) => KeptOf(h)'
    BY <2>1, <2>4, <2>5, KeptKeeps
  <2>. QED BY <1>0, <2>1, <2>6 DEF PendingInv, Untouched
<1>2. ASSUME NEW g \in Groups, RepeatMoves(g) PROVE PendingInv'
  <2>1. UNCHANGED <<parts, pending, succeeded>> /\ problems'.manifest = problems.manifest
    BY <1>2 DEF RepeatMoves
  <2>2. \A h \in Groups : KeptOf(h) => KeptOf(h)'
    BY <2>1 DEF KeptOf, Writing, Done
  <2>. QED BY <1>0, <2>1, <2>2 DEF PendingInv
<1>3. ASSUME NEW m \in Emissions, CollectMoves(m) PROVE PendingInv'
  <2> DEFINE g == Group(m)
  <2>1. g \in Groups /\ m[2] \in Names
    BY EmissionFacts
  <2>2. /\ Untouched(m)
        /\ \/ pending'[g] = {} /\ parts'[m].pc = "writes"
           \/ /\ pending[g] \cup {m[2]} # Names
              /\ pending'[g] = pending[g] \cup {m[2]} /\ parts'[m].pc = "ended"
        /\ \A h \in Groups : h # g => pending'[h] = pending[h]
        /\ parts[m].pc # "writes"
        /\ UNCHANGED <<succeeded, problems>>
    BY <1>3 DEF CollectMoves, Works
  <2> HIDE DEF g
  <2>3. \A h \in Groups : pending'[h] # Names
    <3>1. {} # Names
      BY DEF Names
    <3>. QED BY <1>0, <2>2, <3>1
  <2>4. \A h \in Groups : Done(h) => Done(h)'
    BY <2>2 DEF Done
  <2>5. ASSUME NEW h \in Groups, h # g, KeptOf(h) PROVE KeptOf(h)'
    <3>1. \A n \in Emissions : Group(n) = h => parts'[n] = parts[n]
      BY <2>2, <2>5 DEF Untouched, g
    <3>. QED BY <2>2, <2>4, <2>5, <3>1, KeptKeeps
  <2>6. ASSUME KeptOf(g) PROVE KeptOf(g)'
    <3>1. CASE parts'[m].pc = "writes"
      BY <3>1 DEF KeptOf, Writing, g
    <3>2. CASE pending'[g] = pending[g] \cup {m[2]} /\ parts'[m].pc = "ended"
      <4>1. CASE Writing(g)
        <5>1. Writing(g)'
          BY <2>2, <4>1 DEF Writing, Untouched
        <5>. QED BY <5>1 DEF KeptOf
      <4>2. CASE Done(g)
        BY <2>1, <2>4, <4>2 DEF KeptOf
      <4>3. CASE \A n \in Emissions : Group(n) = g /\ parts[n].pc = "ended" => n[2] \in pending[g]
        <5>1. \A n \in Emissions : Group(n) = g /\ parts'[n].pc = "ended" => n[2] \in pending'[g]
          BY <2>2, <3>2, <4>3 DEF Untouched
        <5>. QED BY <5>1 DEF KeptOf
      <4>. QED BY <2>6, <4>1, <4>2, <4>3 DEF KeptOf
    <3>. QED BY <2>2, <3>1, <3>2
  <2>7. \A n \in Emissions : parts[n].pc \in {"none", "queued", "writes", "ended"} =>
          parts'[n].pc \in {"none", "queued", "writes", "ended"}
    BY <2>2 DEF Untouched
  <2>. QED BY <1>0, <2>2, <2>3, <2>5, <2>6, <2>7 DEF PendingInv
<1>4. ASSUME NEW m \in Emissions, WriteMoves(m) PROVE PendingInv'
  <2>1. /\ Untouched(m) /\ parts[m].pc = "writes" /\ parts'[m].pc = "writes"
        /\ UNCHANGED <<pending, succeeded, problems>>
    BY <1>4 DEF WriteMoves, Works
  <2>2. \A n \in Emissions : parts'[n].pc = parts[n].pc
    BY <2>1 DEF Untouched
  <2>3. \A h \in Groups : Done(h) => Done(h)'
    BY <2>1 DEF Done
  <2>4. \A h \in Groups : KeptOf(h) => KeptOf(h)'
    BY <2>1, <2>2, <2>3, KeptKeeps
  <2>. QED BY <1>0, <2>1, <2>2, <2>4 DEF PendingInv
<1>5. ASSUME NEW m \in Emissions, FailMoves(m) PROVE PendingInv'
  BY <1>0, <1>5 DEF FailMoves, PendingInv
<1>6. ASSUME NEW m \in Emissions, SuccessMoves(m) PROVE PendingInv'
  <2> DEFINE g == Group(m)
  <2>1. /\ Untouched(m) /\ parts'[m].pc = "ended" /\ succeeded' = Append(succeeded, g)
        /\ UNCHANGED <<pending, problems>> /\ succeeded \in Seq(Groups) /\ g \in Groups
    BY <1>6, EmissionFacts DEF SuccessMoves, Works, ExportTypes
  <2> HIDE DEF g
  <2>2. \A h \in Groups : Done(h) => Done(h)'
    BY <2>1 DEF Done
  <2>3. KeptOf(g)'
    <3>1. Len(succeeded) + 1 \in DOMAIN succeeded' /\ succeeded'[Len(succeeded) + 1] = g
      BY <2>1
    <3>. QED BY <3>1 DEF Done, KeptOf
  <2>4. ASSUME NEW h \in Groups, h # g, KeptOf(h) PROVE KeptOf(h)'
    <3>1. \A n \in Emissions : Group(n) = h => parts'[n] = parts[n]
      BY <2>1, <2>4 DEF Untouched, g
    <3>. QED BY <2>1, <2>2, <2>4, <3>1, KeptKeeps
  <2>. QED BY <1>0, <2>1, <2>3, <2>4 DEF PendingInv, Untouched
<1>7. CASE UNCHANGED exportVars
  <2>1. UNCHANGED <<parts, pending, succeeded, problems>>
    BY <1>7 DEF exportVars
  <2>2. \A h \in Groups : KeptOf(h) => KeptOf(h)'
    BY <2>1 DEF KeptOf, Writing, Done
  <2>. QED BY <1>0, <2>1, <2>2 DEF PendingInv
<1>. QED BY <1>1, <1>2, <1>3, <1>4, <1>5, <1>6, <1>7, ExportMoves

\* A group of which all is ended was handed on: else it would be kept whole.
LEMMA ArrivalMeaning == ExportTypes /\ EmittedInv /\ OnceInv /\ PendingInv => SuccessOnce /\ RepeatedPartsAreWritten
<1> SUFFICES ASSUME ExportTypes, EmittedInv, OnceInv, PendingInv PROVE SuccessOnce /\ RepeatedPartsAreWritten
  OBVIOUS
<1>1. SuccessOnce
  BY DEF OnceInv, SuccessOnce
<1>2. ASSUME problems.manifest = 0, NEW g \in Groups, splitting[g].next = 4,
             \A m \in Emissions : Group(m) = g => parts[m].pc \in {"none", "ended"}
      PROVE  \E i \in DOMAIN succeeded : succeeded[i] = g
  <2>1. KeptOf(g) /\ pending[g] # Names /\ pending[g] \in SUBSET Names
    BY <1>2 DEF PendingInv, ExportTypes
  <2>2. ~Writing(g)
    BY <1>2 DEF Writing
  <2>3. SUFFICES ASSUME \A m \in Emissions : Group(m) = g /\ parts[m].pc = "ended" => m[2] \in pending[g]
                 PROVE  FALSE
    BY <2>1, <2>2 DEF KeptOf, Done
  <2>4. \A name \in Names : name \in pending[g]
    <3> SUFFICES ASSUME NEW name \in Names PROVE name \in pending[g]
      OBVIOUS
    <3>1. PICK i \in 1 .. 3 : SplitNames[i] = name
      BY NameFacts DEF Names
    <3>2. splitting[g].attempt \in 1 .. PartAttempts
      BY DEF ExportTypes
    <3>3. PICK m \in Emissions : m = <<g, name, splitting[g].attempt>>
      BY <3>2, EmissionFacts
    <3>4. Group(m) = g /\ m[2] = name
      BY <3>3 DEF Group
    <3>5. i < splitting[g].next
      BY <1>2
    <3>6. PartAt(g, SplitNames[i], splitting[g].attempt) # "none"
      BY <3>5 DEF EmittedInv
    <3>7. parts[m].pc # "none"
      BY <3>1, <3>3, <3>6 DEF PartAt
    <3>. QED BY <1>2, <2>3, <3>4, <3>7
  <2>. QED BY <2>1, <2>4
<1>3. RepeatedPartsAreWritten
  BY <1>2 DEF RepeatedPartsAreWritten, SuccessMeansWritten
<1>. QED BY <1>1, <1>3

\* Every row of every dataset is handed on, once: for any groups, ratios, rows,
\* draws, tasks at a time and attempts.
THEOREM EveryDatasetArrives == ExportSpec => []DatasetsArrive
<1>1. ExportTypes /\ EmittedInv /\ RowsInv /\ OnceInv /\ PendingInv => DatasetsArrive
  BY RowsMeaning, ArrivalMeaning DEF DatasetsArrive
<1>. QED BY <1>1, EmittedInit, ArrivalInit, ExportIsTyped, EmittedStep, RowsStep, OnceStep, PendingStep,
            PTL DEF ExportSpec

----------------------------------------------------------------------------
(* What is handed on is whole. *)

\* With one task at a time, one part is in hand, and what it has written of its
\* dataset is there.
WholeInv ==
  ConcurrentTasks = 1 =>
    /\ \A m, n \in PartsInHand : m = n
    /\ \A m \in Emissions : parts[m].pc = "writes" =>
         \A i \in 1 .. 4 : i < parts[m].step => datasets[Targets[i]] = Group(m)

\* There is a limited number of parts.
LEMMA EmissionsAreFinite == IsFiniteSet(Emissions)
<1> DEFINE A == 1 .. PartAttempts
           P == Groups \X (Names \X A)
           f == [p \in P |-> <<p[1], p[2][1], p[2][2]>>]
<1>1. IsFiniteSet(Groups) /\ IsFiniteSet(A)
  BY DatasetExportAssumption, FS_Interval DEF DatasetExportAssumption
<1>2. IsFiniteSet(Names)
  <2>1. IsFiniteSet({} \cup {"train"})
    BY FS_EmptySet, FS_AddElement
  <2>2. IsFiniteSet(({} \cup {"train"}) \cup {"validation"})
    BY <2>1, FS_AddElement
  <2>3. IsFiniteSet((({} \cup {"train"}) \cup {"validation"}) \cup {"test"})
    BY <2>2, FS_AddElement
  <2>4. Names = (({} \cup {"train"}) \cup {"validation"}) \cup {"test"}
    BY DEF Names
  <2>. QED BY <2>3, <2>4
<1> HIDE DEF A
<1>3. IsFiniteSet(P)
  BY <1>1, <1>2, FS_Product
<1>4. Emissions = Groups \X Names \X A
  BY NameFacts DEF Emissions, A
<1>5. f \in Surjection(P, Emissions)
  <2>1. f \in [P -> Emissions]
    BY <1>4
  <2>2. ASSUME NEW m \in Emissions PROVE \E p \in P : f[p] = m
    <3>1. PICK g \in Groups, name \in Names, a \in A : m = <<g, name, a>>
      BY <1>4
    <3>2. <<g, <<name, a>>>> \in P /\ f[<<g, <<name, a>>>>] = m
      BY <3>1
    <3>. QED BY <3>2
  <2>. QED BY <2>1, <2>2 DEF Surjection
<1>. QED BY <1>3, <1>5, FS_Surjection

\* No part is in hand at the start.
LEMMA WholeInit == ExportInit => WholeInv
BY DEF ExportInit, NotEmitted, WholeInv, PartsInHand

\* The one part in hand writes its dataset over what was there.
LEMMA WholeStep == ExportTypes /\ EmittedInv /\ WholeInv /\ [ExportNext]_exportVars => WholeInv'
<1> SUFFICES ASSUME ExportTypes, EmittedInv, WholeInv, [ExportNext]_exportVars, ConcurrentTasks = 1
             PROVE  WholeInv'
  BY DEF WholeInv
<1>0. /\ \A m, n \in PartsInHand : m = n
      /\ \A m \in Emissions : parts[m].pc = "writes" =>
           \A i \in 1 .. 4 : i < parts[m].step => datasets[Targets[i]] = Group(m)
  BY DEF WholeInv
<1>1. ASSUME \A m \in Emissions : parts'[m].pc \in {"again", "writes"} =>
               parts[m].pc \in {"again", "writes"}
      PROVE  \A m, n \in PartsInHand' : m = n
  BY <1>0, <1>1 DEF PartsInHand
<1>2. ASSUME NEW g \in Groups, EmitMoves(g) PROVE WholeInv'
  <2>1. PICK i \in 1 .. 3, m \in Emissions :
          Untouched(m) /\ parts'[m].pc = "queued" /\ UNCHANGED datasets
    BY <1>2 DEF EmitMoves
  <2>2. \A n \in Emissions : parts'[n].pc \in {"again", "writes"} => parts'[n] = parts[n]
    BY <2>1 DEF Untouched
  <2>. QED BY <1>0, <1>1, <2>1, <2>2 DEF WholeInv
<1>3. ASSUME NEW g \in Groups, RepeatMoves(g) PROVE WholeInv'
  BY <1>0, <1>3 DEF RepeatMoves, WholeInv, PartsInHand
<1>4. ASSUME NEW m \in Emissions, CollectMoves(m) PROVE WholeInv'
  <2>1. /\ Untouched(m) /\ PartStarts(m) /\ UNCHANGED datasets
        /\ \/ parts'[m].pc = "writes" /\ parts'[m].step = 1
           \/ parts'[m].pc = "ended"
    BY <1>4 DEF CollectMoves, Works
  <2>2. PartsInHand \subseteq {m}
    <3>1. CASE parts[m].pc = "queued" /\ Cardinality(PartsInHand) < ConcurrentTasks
      <4>1. IsFiniteSet(PartsInHand)
        BY EmissionsAreFinite, FS_Subset DEF PartsInHand
      <4>2. Cardinality(PartsInHand) \in Nat
        BY <4>1, FS_CardinalityType
      <4>3. Cardinality(PartsInHand) = 0
        BY <3>1, <4>2
      <4>. QED BY <4>1, <4>3, FS_EmptySet
    <3>2. CASE parts[m].pc = "again"
      BY <1>0, <3>2 DEF PartsInHand
    <3>. QED BY <2>1, <3>1, <3>2 DEF PartStarts
  <2>3. \A n \in Emissions : parts'[n].pc \in {"again", "writes"} => n = m
    BY <2>1, <2>2 DEF Untouched, PartsInHand
  <2>4. \A n, o \in PartsInHand' : n = o
    BY <2>3 DEF PartsInHand
  <2>5. ASSUME NEW n \in Emissions, parts'[n].pc = "writes", NEW i \in 1 .. 4, i < parts'[n].step PROVE FALSE
    <3>1. parts'[n].step = 1
      BY <2>1, <2>3, <2>5
    <3>. QED BY <2>5, <3>1
  <2>. QED BY <2>4, <2>5 DEF WholeInv
<1>5. ASSUME NEW m \in Emissions, WriteMoves(m) PROVE WholeInv'
  <2>1. /\ Untouched(m) /\ parts[m].pc = "writes" /\ parts'[m].pc = "writes"
        /\ parts'[m].step = parts[m].step + 1 /\ parts[m].step \in 0 .. 5
        /\ datasets' = [datasets EXCEPT ![Targets[parts[m].step]] = Group(m)]
        /\ datasets \in [Range(Targets) -> Groups \cup {Nobody}]
    BY <1>5 DEF WriteMoves, Works, ExportTypes
  <2>2. \A n \in Emissions : parts'[n].pc = parts[n].pc
    BY <2>1 DEF Untouched
  <2>3. \A n \in Emissions : parts'[n].pc = "writes" => n = m
    BY <1>0, <2>1, <2>2 DEF PartsInHand
  <2>4. ASSUME NEW i \in 1 .. 4, i < parts[m].step + 1 PROVE datasets'[Targets[i]] = Group(m)
    <3>1. Targets[i] \in Range(Targets)
      BY NameFacts
    <3>2. i < parts[m].step \/ i = parts[m].step
      BY <2>1, <2>4
    <3>3. CASE i = parts[m].step
      BY <2>1, <3>1, <3>3
    <3>4. CASE i < parts[m].step
      BY <1>0, <2>1, <3>1, <3>4
    <3>. QED BY <3>2, <3>3, <3>4
  <2>. QED BY <1>1, <2>1, <2>2, <2>3, <2>4 DEF WholeInv
<1>6. ASSUME NEW m \in Emissions, FailMoves(m) \/ SuccessMoves(m) PROVE WholeInv'
  <2>1. /\ Untouched(m) /\ parts[m].pc = "writes" /\ parts'[m].pc # "writes"
    BY <1>6 DEF FailMoves, SuccessMoves, Works
  <2>2. \A n \in Emissions : parts[n].pc = "writes" => n = m
    BY <1>0, <2>1 DEF PartsInHand
  <2>3. \A n \in Emissions : parts'[n].pc # "writes"
    BY <2>1, <2>2 DEF Untouched
  <2>4. \A n \in Emissions : parts'[n].pc \in {"again", "writes"} => parts[n].pc \in {"again", "writes"}
    BY <2>1 DEF Untouched
  <2>. QED BY <1>1, <2>3, <2>4 DEF WholeInv
<1>7. CASE UNCHANGED exportVars
  BY <1>0, <1>7 DEF exportVars, WholeInv, PartsInHand
<1>. QED BY <1>2, <1>3, <1>4, <1>5, <1>6, <1>7, ExportMoves

\* A step that hands a dataset on is that of a part that wrote its four files.
LEMMA SuccessMeaning ==
  ConcurrentTasks = 1 /\ ExportTypes /\ WholeInv /\ [ExportNext]_exportVars =>
    (succeeded' # succeeded => \A t \in Range(Targets) : datasets[t] = Last(succeeded'))
<1> SUFFICES ASSUME ConcurrentTasks = 1, ExportTypes, WholeInv, [ExportNext]_exportVars, succeeded' # succeeded,
                    NEW t \in Range(Targets)
             PROVE  datasets[t] = Last(succeeded')
  OBVIOUS
<1>1. PICK m \in Emissions : SuccessMoves(m)
  BY ExportMoves DEF exportVars, EmitMoves, RepeatMoves, CollectMoves, WriteMoves, FailMoves
<1>2. /\ parts[m].pc = "writes" /\ parts[m].step = 5 /\ succeeded' = Append(succeeded, Group(m))
      /\ succeeded \in Seq(Groups)
  BY <1>1 DEF SuccessMoves, ExportTypes
<1>3. Last(succeeded') = Group(m)
  BY <1>2 DEF Last
<1>4. PICK i \in 1 .. 4 : Targets[i] = t
  BY NameFacts
<1>5. i < parts[m].step
  BY <1>2
<1>. QED BY <1>2, <1>3, <1>4, <1>5 DEF WholeInv

\* With one task at a time, what is on disk when a dataset is handed on is that
\* dataset, whole, whatever failed before.
THEOREM WhatIsHandedOnIsWhole == ConcurrentTasks = 1 /\ ExportSpec => SuccessIsWhole
<1> SUFFICES ASSUME ConcurrentTasks = 1 PROVE ExportSpec => SuccessIsWhole
  OBVIOUS
<1>1. ExportTypes /\ WholeInv /\ [ExportNext]_exportVars =>
        [succeeded' # succeeded => \A t \in Range(Targets) : datasets[t] = Last(succeeded')]_exportVars
  BY SuccessMeaning
<1>. QED BY <1>1, EmittedInit, WholeInit, ExportIsTyped, EmittedStep, WholeStep,
            PTL DEF ExportSpec, SuccessIsWhole

-----------------------------------------------------------------------------
(* A node that removes duplicates: the rows of a packet, one after another. *)

\* What the node works with: the rows of all packets, and their keys.
AllRows == UNION {ToSet(input[p]) : p \in Packets}
AllKeys == {row.key : row \in AllRows}
Passing == [seen : SUBSET AllKeys, order : Seq(AllKeys), rows : Seq(AllRows)]

PassedInTurn(start, rows) ==
  \E a \in [0 .. Len(rows) -> Passing] :
    /\ a[0] = start /\ a[Len(rows)] = LetThrough(start, rows)
    /\ \A k \in 1 .. Len(rows) : a[k] = LetsThrough(a[k - 1], rows[k])

\* A row is let through, or was seen.
LEMMA LetsThroughType ==
  ASSUME node.window \in Nat, NEW state \in Passing, NEW row \in AllRows
  PROVE  LetsThrough(state, row) \in Passing
<1> DEFINE order == Append(state.order, row.key)
           expired == IF node.window > 0 /\ Len(order) > node.window THEN 1 ELSE 0
<1>1. row.key \in AllKeys /\ state.seen \in SUBSET AllKeys /\ state.order \in Seq(AllKeys) /\ state.rows \in Seq(AllRows)
  BY DEF AllKeys, Passing
<1>2. CASE row.key \in state.seen
  BY <1>2 DEF LetsThrough
<1>3. CASE row.key \notin state.seen
  <2>1. LetsThrough(state, row) =
          [seen |-> (state.seen \cup {row.key}) \ {order[i] : i \in 1 .. expired},
           order |-> SubSeq(order, expired + 1, Len(order)),
           rows |-> Append(state.rows, row)]
    BY <1>3 DEF LetsThrough
  <2>2. order \in Seq(AllKeys) /\ expired \in {0, 1} /\ Len(order) \in Nat /\ Len(order) >= 1
    BY <1>1
  <2> HIDE DEF order, expired
  <2>3. SubSeq(order, expired + 1, Len(order)) \in Seq(AllKeys)
    BY <2>2
  <2>4. Append(state.rows, row) \in Seq(AllRows)
    BY <1>1
  <2>. QED BY <1>1, <2>1, <2>3, <2>4 DEF Passing
<1>. QED BY <1>2, <1>3

\* The rows of a packet are let through one after another.
LEMMA PassedChain ==
  ASSUME node.window \in Nat, NEW start \in Passing, NEW rows \in Seq(AllRows)
  PROVE  PassedInTurn(start, rows)
<1> DEFINE n == Len(rows)
           does == [k \in 1 .. n |-> [v \in Passing |-> LetsThrough(v, rows[k])]]
           iter == CHOOSE it : it = [s \in SUBSET (DOMAIN rows) |->
                     IF s = {} THEN start ELSE LetsThrough(it[s \ {Max(s)}], rows[Max(s)])]
<1>1. n \in Nat /\ DOMAIN rows = 1 .. n /\ \A k \in 1 .. n : rows[k] \in AllRows
  OBVIOUS
<1>2. StepsOn(does, 1 .. n, Passing) /\ \A k \in 1 .. n, v \in Passing : does[k][v] = LetsThrough(v, rows[k])
  BY <1>1, LetsThroughType DEF StepsOn
<1>4. LetThrough(start, rows) = iter[DOMAIN rows]
  BY Zenon DEF LetThrough, FoldLeft, MapThenFoldSet
<1> HIDE DEF does, n
<1>3. PICK f \in [SUBSET (1 .. n) -> Passing] : Folding(f, n, start, does)
  <2>1. PICK V, d : V = Passing /\ d = does
    OBVIOUS
  <2>2. StepsOn(d, 1 .. n, V) /\ start \in V
    BY <1>2, <2>1
  <2>3. \E f \in [SUBSET (1 .. n) -> V] : Folding(f, n, start, d)
    BY <1>1, <2>2, FoldExists
  <2>. QED BY <2>1, <2>3
<1>5. \A s \in SUBSET (1 .. n) : s # {} => Max(s) \in s /\ Max(s) \in 1 .. n
  BY <1>1, MaxOfNumbers
<1>6. f = [s \in SUBSET (DOMAIN rows) |-> IF s = {} THEN start ELSE LetsThrough(f[s \ {Max(s)}], rows[Max(s)])]
  <2> DEFINE h == [s \in SUBSET (DOMAIN rows) |->
                     IF s = {} THEN start ELSE LetsThrough(f[s \ {Max(s)}], rows[Max(s)])]
  <2>1. \A s \in SUBSET (1 .. n) : f[s] = h[s]
    BY <1>1, <1>2, <1>3, <1>5 DEF Folding
  <2>. QED BY <1>1, <1>3, <2>1
<1>7. iter = [s \in SUBSET (DOMAIN rows) |->
                IF s = {} THEN start ELSE LetsThrough(iter[s \ {Max(s)}], rows[Max(s)])]
  BY <1>6, Zenon DEF iter
<1>8. \A s \in SUBSET (1 .. n) :
         iter[s] = IF s = {} THEN start ELSE LetsThrough(iter[s \ {Max(s)}], rows[Max(s)])
  <2> HIDE DEF iter
  <2>. QED BY <1>1, <1>7
<1> HIDE DEF iter
<1>9. Continues(iter, n, Passing, start, does)
  BY <1>2, <1>5, <1>8 DEF Continues
<1>10. PICK a \in [0 .. n -> Passing] : /\ a[0] = start /\ a[n] = iter[1 .. n]
                                        /\ \A k \in 1 .. n : a[k] = does[k][a[k - 1]]
  <2>1. PICK V, d, g : V = Passing /\ d = does /\ g = iter
    OBVIOUS
  <2>2. StepsOn(d, 1 .. n, V) /\ Continues(g, n, V, start, d) /\ start \in V
    BY <1>2, <1>9, <2>1
  <2>3. \E a \in [0 .. n -> V] : /\ a[0] = start /\ a[n] = g[1 .. n]
                                /\ \A k \in 1 .. n : a[k] = d[k][a[k - 1]]
    BY <1>1, <2>2, FoldChain
  <2>. QED BY <2>1, <2>3
<1>11. \A k \in 1 .. n : a[k] = LetsThrough(a[k - 1], rows[k])
  <2>1. \A k \in 1 .. n : k - 1 \in 0 .. n
    BY <1>1
  <2>. QED BY <1>2, <1>10, <2>1
<1>. QED BY <1>1, <1>4, <1>10, <1>11 DEF n, PassedInTurn

KeySeq(rows) == [i \in DOMAIN rows |-> rows[i].key]

\* What is in the window: the last keys that were let through, as many as it
\* holds; and no key came twice within it.
InWindow(keys, state) ==
  /\ Len(state.order) = IF Len(keys) <= node.window THEN Len(keys) ELSE node.window
  /\ \A i \in 1 .. Len(state.order) : state.order[i] = keys[Len(keys) - Len(state.order) + i]
  /\ state.seen = ToSet(state.order)
Apart(keys) == \A i, j \in DOMAIN keys : i < j /\ keys[i] = keys[j] => j - i > node.window

\* One more key, which was not in the window.
LEMMA WindowMoves ==
  ASSUME node.window \in Nat, node.window > 0, NEW keys \in Seq(AllKeys), NEW state \in Passing,
         InWindow(keys, state), Apart(keys), NEW row \in AllRows, row.key \notin state.seen
  PROVE  /\ InWindow(Append(keys, row.key), LetsThrough(state, row)) /\ Apart(Append(keys, row.key))
         /\ LetsThrough(state, row).rows = Append(state.rows, row)
<1> DEFINE key == row.key
           w == node.window
           order == Append(state.order, key)
           expired == IF w > 0 /\ Len(order) > w THEN 1 ELSE 0
           more == Append(keys, key)
           L == Len(keys)
           M == Len(state.order)
<1>1. key \in AllKeys /\ state.order \in Seq(AllKeys) /\ L \in Nat /\ M \in Nat /\ w \in Nat
  BY DEF AllKeys, Passing
<1>2. LetsThrough(state, row) =
        [seen |-> (state.seen \cup {key}) \ {order[i] : i \in 1 .. expired},
         order |-> SubSeq(order, expired + 1, Len(order)),
         rows |-> Append(state.rows, row)]
  BY DEF LetsThrough
<1>3. /\ order \in Seq(AllKeys) /\ Len(order) = M + 1 /\ order[M + 1] = key
      /\ \A i \in 1 .. M : order[i] = state.order[i]
      /\ more \in Seq(AllKeys) /\ Len(more) = L + 1 /\ more[L + 1] = key /\ DOMAIN more = 1 .. (L + 1)
      /\ \A i \in 1 .. L : more[i] = keys[i]
      /\ DOMAIN keys = 1 .. L /\ DOMAIN state.order = 1 .. M
  BY <1>1
<1>4. M = (IF L <= w THEN L ELSE w) /\ \A i \in 1 .. M : state.order[i] = keys[L - M + i]
  BY DEF InWindow
<1>5. key \notin ToSet(state.order) /\ state.seen = ToSet(state.order)
  BY DEF InWindow
<1>6. \A i \in 1 .. (M + 1) : order[i] = more[L - M + i] /\ L - M + i \in 1 .. (L + 1)
  <2> SUFFICES ASSUME NEW i \in 1 .. (M + 1) PROVE order[i] = more[L - M + i] /\ L - M + i \in 1 .. (L + 1)
    OBVIOUS
  <2> HIDE DEF order, more, L, M, w
  <2>1. CASE i = M + 1
    <3>1. L - M + i = L + 1 /\ L + 1 \in 1 .. (L + 1)
      BY <1>1, <2>1
    <3>. QED BY <1>3, <2>1, <3>1
  <2>2. CASE i \in 1 .. M
    <3>1. L - M + i \in 1 .. L /\ L - M + i \in 1 .. (L + 1)
      BY <1>1, <1>4, <2>2
    <3>. QED BY <1>3, <1>4, <2>2, <3>1
  <2>. QED BY <1>1, <2>1, <2>2
<1> HIDE DEF order, more, L, M, w, key
<1>7. Apart(more)
  <2> SUFFICES ASSUME NEW i \in 1 .. (L + 1), NEW j \in 1 .. (L + 1), i < j, more[i] = more[j] PROVE j - i > w
    BY <1>3 DEF Apart, w
  <2>1. i \in 1 .. L
    BY <1>1
  <2>2. CASE j \in 1 .. L
    <3>1. keys[i] = keys[j]
      BY <1>3, <2>1, <2>2
    <3>. QED BY <1>3, <2>1, <2>2, <3>1 DEF Apart, w
  <2>3. CASE j = L + 1
    <3>1. keys[i] = key
      BY <1>3, <2>1, <2>3
    <3>2. ASSUME i > L - M PROVE FALSE
      <4>1. i - (L - M) \in 1 .. M /\ L - M + (i - (L - M)) = i
        BY <1>1, <2>1, <3>2
      <4>2. state.order[i - (L - M)] = key
        BY <1>4, <3>1, <4>1
      <4>. QED BY <1>3, <1>5, <4>1, <4>2 DEF ToSet
    <3>3. i <= L - M
      BY <1>1, <3>2
    <3>. QED BY <1>1, <1>4, <2>1, <2>3, <3>3
  <2>. QED BY <1>1, <2>2, <2>3
<1>8. \A i, j \in 1 .. (M + 1) : order[i] = order[j] => i = j
  <2> SUFFICES ASSUME NEW i \in 1 .. (M + 1), NEW j \in 1 .. (M + 1), i < j, order[i] = order[j] PROVE FALSE
    BY <1>1
  <2>1. j - i > w
    <3>1. more[L - M + i] = more[L - M + j] /\ L - M + i \in 1 .. (L + 1) /\ L - M + j \in 1 .. (L + 1)
      BY <1>6
    <3>2. L - M + i < L - M + j /\ (L - M + j) - (L - M + i) = j - i
      BY <1>1
    <3>. QED BY <1>3, <1>7, <3>1, <3>2 DEF Apart, w
  <2>. QED BY <1>1, <1>4, <2>1
<1>9. w > 0
  BY DEF w
<1>10. expired = (IF M + 1 > w THEN 1 ELSE 0) /\ expired \in {0, 1} /\ (expired = 1 <=> L + 1 > w)
  BY <1>1, <1>3, <1>4, <1>9
<1> HIDE DEF expired
<1> DEFINE o == SubSeq(order, expired + 1, M + 1)
<1>11. /\ o \in Seq(AllKeys) /\ Len(o) = M + 1 - expired /\ DOMAIN o = 1 .. (M + 1 - expired)
       /\ \A i \in 1 .. (M + 1 - expired) : o[i] = order[i + expired] /\ i + expired \in 1 .. (M + 1)
  BY <1>1, <1>3, <1>10
<1> HIDE DEF o
<1>12. Len(o) = IF Len(more) <= w THEN Len(more) ELSE w
  BY <1>1, <1>3, <1>4, <1>10, <1>11
<1>13. \A i \in 1 .. Len(o) : o[i] = more[Len(more) - Len(o) + i]
  <2> SUFFICES ASSUME NEW i \in 1 .. (M + 1 - expired) PROVE o[i] = more[(L + 1) - (M + 1 - expired) + i]
    BY <1>3, <1>11
  <2>1. o[i] = order[i + expired] /\ i + expired \in 1 .. (M + 1)
    BY <1>11
  <2>2. order[i + expired] = more[L - M + (i + expired)]
    BY <1>6, <2>1
  <2>3. L - M + (i + expired) = (L + 1) - (M + 1 - expired) + i
    BY <1>1, <1>10
  <2>. QED BY <2>1, <2>2, <2>3
<1>14. (state.seen \cup {key}) \ {order[i] : i \in 1 .. expired} = ToSet(o)
  <2>1. state.seen \cup {key} = {order[i] : i \in 1 .. (M + 1)}
    <3>1. state.seen = {order[i] : i \in 1 .. M}
      BY <1>3, <1>5 DEF ToSet
    <3>2. \A i \in 1 .. (M + 1) : i \in 1 .. M \/ i = M + 1
      BY <1>1
    <3>3. \A i \in 1 .. M : i \in 1 .. (M + 1)
      BY <1>1
    <3>4. M + 1 \in 1 .. (M + 1)
      BY <1>1
    <3>. QED BY <1>3, <3>1, <3>2, <3>3, <3>4
  <2>2. ToSet(o) = {order[i + expired] : i \in 1 .. (M + 1 - expired)}
    BY <1>11 DEF ToSet
  <2>3. CASE expired = 0
    <3>1. 1 .. expired = {} /\ M + 1 - expired = M + 1 /\ \A i \in 1 .. (M + 1) : i + expired = i
      BY <1>1, <2>3
    <3>. QED BY <2>1, <2>2, <3>1
  <2>4. CASE expired = 1
    <3>1. 1 .. expired = {1} /\ M + 1 - expired = M
      BY <1>1, <2>4
    <3>2. ASSUME NEW i \in 1 .. (M + 1), order[i] # order[1] PROVE order[i] \in ToSet(o)
      <4>1. i - 1 \in 1 .. M /\ (i - 1) + expired = i
        BY <1>1, <2>4, <3>2
      <4>. QED BY <2>2, <3>1, <4>1
    <3>3. ASSUME NEW i \in 1 .. M PROVE order[i + expired] # order[1] /\ i + expired \in 1 .. (M + 1)
      <4>1. i + expired \in 1 .. (M + 1) /\ i + expired # 1 /\ 1 \in 1 .. (M + 1)
        BY <1>1, <2>4
      <4>. QED BY <1>8, <4>1
    <3>. QED BY <2>1, <2>2, <3>1, <3>2, <3>3
  <2>. QED BY <1>10, <2>3, <2>4
<1>15. LetsThrough(state, row) = [seen |-> ToSet(o), order |-> o, rows |-> Append(state.rows, row)]
  BY <1>2, <1>3, <1>14 DEF o
<1>16. InWindow(more, LetsThrough(state, row))
  BY <1>12, <1>13, <1>15 DEF InWindow, w
<1>. QED BY <1>7, <1>15, <1>16 DEF more, key

\* The keys of rows, and of rows with one more.
LEMMA KeySeqFacts ==
  ASSUME NEW rows \in Seq(AllRows)
  PROVE  /\ KeySeq(rows) \in Seq(AllKeys) /\ ToSet(KeySeq(rows)) = KeysOf(rows)
         /\ \A row \in AllRows : /\ KeySeq(Append(rows, row)) = Append(KeySeq(rows), row.key)
                                 /\ KeysOf(Append(rows, row)) = KeysOf(rows) \cup {row.key}
<1> DEFINE n == Len(rows)
<1>1. n \in Nat /\ DOMAIN rows = 1 .. n /\ \A i \in 1 .. n : rows[i] \in AllRows
  OBVIOUS
<1>2. KeySeq(rows) = [i \in 1 .. n |-> rows[i].key] /\ \A i \in 1 .. n : rows[i].key \in AllKeys
  BY <1>1 DEF KeySeq, AllKeys
<1> HIDE DEF n
<1>3. KeySeq(rows) \in Seq(AllKeys) /\ Len(KeySeq(rows)) = n /\ DOMAIN KeySeq(rows) = 1 .. n
  BY <1>1, <1>2
<1>4. ToSet(KeySeq(rows)) = KeysOf(rows)
  BY <1>1, <1>2, <1>3 DEF ToSet, KeysOf
<1>5. ASSUME NEW row \in AllRows
      PROVE  /\ KeySeq(Append(rows, row)) = Append(KeySeq(rows), row.key)
             /\ KeysOf(Append(rows, row)) = KeysOf(rows) \cup {row.key}
  <2> DEFINE more == Append(rows, row)
  <2>1. /\ DOMAIN more = 1 .. (n + 1) /\ more[n + 1] = row /\ \A i \in 1 .. n : more[i] = rows[i]
    BY <1>1 DEF n
  <2>2. /\ \A i \in 1 .. (n + 1) : i \in 1 .. n \/ i = n + 1
        /\ n + 1 \in 1 .. (n + 1) /\ \A i \in 1 .. n : i \in 1 .. (n + 1)
    BY <1>1
  <2> DEFINE a == KeySeq(more)  b == Append(KeySeq(rows), row.key)
  <2>3. a = [i \in 1 .. (n + 1) |-> more[i].key]
    BY <2>1 DEF KeySeq
  <2>4. row.key \in AllKeys
    BY DEF AllKeys
  <2>5. /\ b \in Seq(AllKeys) /\ Len(b) = n + 1 /\ b[n + 1] = row.key
        /\ \A i \in 1 .. n : b[i] = rows[i].key
    BY <1>1, <1>2, <1>3, <2>4
  <2> HIDE DEF more, b
  <2>6. b = [i \in 1 .. (n + 1) |-> b[i]]
    BY <2>5
  <2>7. \A i \in 1 .. (n + 1) : b[i] = more[i].key
    BY <2>1, <2>2, <2>5
  <2>8. a = b
    BY <2>3, <2>6, <2>7
  <2>9. KeysOf(more) = KeysOf(rows) \cup {row.key}
    BY <1>1, <2>1, <2>2 DEF KeysOf
  <2>. QED BY <2>8, <2>9 DEF more, b
<1>. QED BY <1>3, <1>4, <1>5

\* The rows of a packet, with a window: what is let through keeps its distance,
\* and what is not has been let through before.
LEMMA PassesWindow ==
  ASSUME node.window \in Nat, node.window > 0, NEW keys \in Seq(AllKeys), NEW start \in Passing,
         start.rows = <<>>, InWindow(keys, start), Apart(keys), NEW rows \in Seq(AllRows)
  PROVE  /\ LetThrough(start, rows) \in Passing
         /\ InWindow(keys \o KeySeq(LetThrough(start, rows).rows), LetThrough(start, rows))
         /\ Apart(keys \o KeySeq(LetThrough(start, rows).rows))
         /\ KeysOf(rows) \subseteq ToSet(keys) \cup KeysOf(LetThrough(start, rows).rows)
<1> DEFINE n == Len(rows)
           All(state) == keys \o KeySeq(state.rows)
<1>1. n \in Nat /\ DOMAIN rows = 1 .. n /\ \A i \in 1 .. n : rows[i] \in AllRows
  OBVIOUS
<1>2. PICK a \in [0 .. n -> Passing] :
        /\ a[0] = start /\ a[n] = LetThrough(start, rows)
        /\ \A k \in 1 .. n : a[k] = LetsThrough(a[k - 1], rows[k])
  BY PassedChain DEF PassedInTurn
<1> DEFINE Good(k) == /\ InWindow(All(a[k]), a[k]) /\ Apart(All(a[k]))
                      /\ \A j \in 1 .. k : rows[j].key \in ToSet(keys) \cup KeysOf(a[k].rows)
           K == {k \in Nat : k <= n => Good(k)}
<1> HIDE DEF n
<1>3. ASSUME NEW state \in Passing
      PROVE  /\ state.rows \in Seq(AllRows) /\ KeySeq(state.rows) \in Seq(AllKeys) /\ All(state) \in Seq(AllKeys)
             /\ ToSet(All(state)) = ToSet(keys) \cup KeysOf(state.rows)
  <2>1. state.rows \in Seq(AllRows)
    BY DEF Passing
  <2>2. KeySeq(state.rows) \in Seq(AllKeys) /\ ToSet(KeySeq(state.rows)) = KeysOf(state.rows)
    BY <2>1, KeySeqFacts
  <2> DEFINE s == KeySeq(state.rows)
  <2> HIDE DEF s
  <2>3. keys \o s \in Seq(AllKeys) /\ ToSet(keys \o s) = ToSet(keys) \cup ToSet(s)
    <3>1. s \in Seq(AllKeys)
      BY <2>2 DEF s
    <3>2. /\ keys \o s \in Seq(AllKeys) /\ DOMAIN (keys \o s) = 1 .. (Len(keys) + Len(s))
          /\ DOMAIN keys = 1 .. Len(keys) /\ DOMAIN s = 1 .. Len(s) /\ Len(keys) \in Nat /\ Len(s) \in Nat
          /\ \A i \in 1 .. Len(keys) : (keys \o s)[i] = keys[i] /\ i \in 1 .. (Len(keys) + Len(s))
          /\ \A i \in 1 .. Len(s) : (keys \o s)[Len(keys) + i] = s[i] /\ Len(keys) + i \in 1 .. (Len(keys) + Len(s))
      BY <3>1
    <3>3. \A i \in 1 .. (Len(keys) + Len(s)) :
             i \in 1 .. Len(keys) \/ (i - Len(keys) \in 1 .. Len(s) /\ i = Len(keys) + (i - Len(keys)))
      BY <3>2
    <3> DEFINE t == keys \o s
    <3> HIDE DEF t
    <3>4. \A i \in DOMAIN t : t[i] \in ToSet(keys) \cup ToSet(s)
      <4> SUFFICES ASSUME NEW i \in 1 .. (Len(keys) + Len(s)) PROVE t[i] \in ToSet(keys) \cup ToSet(s)
        BY <3>2 DEF t
      <4>1. CASE i \in 1 .. Len(keys)
        BY <3>2, <4>1 DEF t, ToSet
      <4>2. CASE i - Len(keys) \in 1 .. Len(s) /\ i = Len(keys) + (i - Len(keys))
        <5>1. PICK j \in 1 .. Len(s) : i = Len(keys) + j
          BY <4>2
        <5>. QED BY <3>2, <5>1 DEF t, ToSet
      <4>. QED BY <3>3, <4>1, <4>2
    <3>5. \A x \in ToSet(keys) : x \in ToSet(t)
      <4>1. \A i \in 1 .. Len(keys) : t[i] = keys[i] /\ i \in DOMAIN t
        BY <3>2 DEF t
      <4>. QED BY <3>2, <4>1 DEF ToSet
    <3>6. \A x \in ToSet(s) : x \in ToSet(t)
      <4>1. \A i \in 1 .. Len(s) : t[Len(keys) + i] = s[i] /\ Len(keys) + i \in DOMAIN t
        BY <3>2 DEF t
      <4>. QED BY <3>2, <4>1 DEF ToSet
    <3>7. \A x \in ToSet(t) : x \in ToSet(keys) \cup ToSet(s)
      BY <3>4 DEF ToSet
    <3>. QED BY <3>2, <3>5, <3>6, <3>7 DEF t
  <2>. QED BY <2>1, <2>2, <2>3 DEF s
<1>4. Good(0)
  <2>1. KeySeq(a[0].rows) = <<>>
    BY <1>2 DEF KeySeq
  <2>2. All(a[0]) = keys
    BY <2>1
  <2>3. 1 .. 0 = {}
    OBVIOUS
  <2>. QED BY <1>2, <2>2, <2>3
<1>5. ASSUME NEW k \in 1 .. n, Good(k - 1) PROVE Good(k)
  <2> DEFINE state == a[k - 1]  row == rows[k]
  <2>1. state \in Passing /\ row \in AllRows /\ a[k] = LetsThrough(state, row)
    BY <1>1, <1>2
  <2>2. All(state) \in Seq(AllKeys) /\ state.rows \in Seq(AllRows) /\ KeySeq(state.rows) \in Seq(AllKeys)
    BY <1>3, <2>1
  <2>3. \A j \in 1 .. k : j \in 1 .. (k - 1) \/ j = k
    OBVIOUS
  <2>4. CASE row.key \in state.seen
    <3>1. a[k] = state
      BY <2>1, <2>4 DEF LetsThrough
    <3>2. row.key \in ToSet(All(state))
      <4>1. PICK i \in DOMAIN state.order : state.order[i] = row.key
        BY <1>5, <2>4 DEF InWindow, ToSet
      <4>2. state.order \in Seq(AllKeys)
        BY <2>1 DEF Passing
      <4> DEFINE t == All(state)
      <4>3. /\ t \in Seq(AllKeys) /\ InWindow(t, state)
        BY <1>5, <2>2
      <4> HIDE DEF t, All, state
      <4>4. Len(t) \in Nat /\ DOMAIN t = 1 .. Len(t) /\ DOMAIN state.order = 1 .. Len(state.order) /\ Len(state.order) \in Nat
        BY <4>2, <4>3
      <4>5. Len(state.order) <= Len(t) /\ state.order[i] = t[Len(t) - Len(state.order) + i]
        BY <4>1, <4>3, <4>4 DEF InWindow
      <4>6. Len(t) - Len(state.order) + i \in DOMAIN t
        BY <4>1, <4>4, <4>5
      <4>. QED BY <4>1, <4>5, <4>6 DEF ToSet, t
    <3>3. row.key \in ToSet(keys) \cup KeysOf(state.rows)
      BY <1>3, <2>1, <3>2
    <3>. QED BY <1>5, <2>3, <3>1, <3>3
  <2>5. CASE row.key \notin state.seen
    <3>1. PICK t \in Seq(AllKeys) : t = All(state)
      BY <2>2
    <3>2. /\ InWindow(Append(t, row.key), a[k]) /\ Apart(Append(t, row.key))
          /\ a[k].rows = Append(state.rows, row)
      <4>1. PICK st \in Passing, rw \in AllRows : st = state /\ rw = row
        BY <2>1
      <4>2. InWindow(t, st) /\ Apart(t) /\ rw.key \notin st.seen
        BY <1>5, <2>5, <3>1, <4>1
      <4>3. /\ InWindow(Append(t, rw.key), LetsThrough(st, rw)) /\ Apart(Append(t, rw.key))
            /\ LetsThrough(st, rw).rows = Append(st.rows, rw)
        BY <4>2, WindowMoves
      <4>. QED BY <2>1, <4>1, <4>3
    <3>3. All(a[k]) = Append(t, row.key)
      <4>1. KeySeq(a[k].rows) = Append(KeySeq(state.rows), row.key)
        BY <2>1, <2>2, <3>2, KeySeqFacts
      <4>2. row.key \in AllKeys
        BY <2>1 DEF AllKeys
      <4> DEFINE s == KeySeq(state.rows)
      <4> HIDE DEF s
      <4>3. s \in Seq(AllKeys)
        BY <2>2 DEF s
      <4>4. keys \o Append(s, row.key) = Append(keys \o s, row.key)
        BY <4>2, <4>3
      <4>. QED BY <3>1, <4>1, <4>4 DEF s
    <3>4. KeysOf(a[k].rows) = KeysOf(state.rows) \cup {row.key}
      BY <2>1, <2>2, <3>2, KeySeqFacts
    <3> HIDE DEF All
    <3>. QED BY <1>5, <2>3, <3>2, <3>3, <3>4
  <2>. QED BY <2>4, <2>5
<1>6. K = Nat
  <2>1. 0 \in K
    BY <1>4
  <2>2. ASSUME NEW k \in K PROVE k + 1 \in K
    <3>1. CASE k + 1 <= n
      <4>1. k + 1 \in 1 .. n /\ (k + 1) - 1 = k /\ k <= n /\ k + 1 \in Nat
        BY <1>1, <3>1
      <4>2. Good(k)
        BY <4>1
      <4> HIDE DEF Good
      <4>3. Good(k + 1)
        BY <1>5, <4>1, <4>2
      <4>. QED BY <4>1, <4>3
    <3>2. CASE ~(k + 1 <= n)
      BY <3>2
    <3>. QED BY <3>1, <3>2
  <2>3. K \in SUBSET Nat
    OBVIOUS
  <2> HIDE DEF K
  <2>. QED BY <2>1, <2>2, <2>3, Inductive
<1>7. Good(n) /\ a[n] \in Passing
  <2>1. n \in K /\ n <= n
    BY <1>1, <1>6
  <2> HIDE DEF Good
  <2>. QED BY <1>1, <1>2, <2>1
<1>8. KeysOf(rows) = {rows[j].key : j \in 1 .. n}
  BY <1>1 DEF KeysOf
<1>. QED BY <1>2, <1>7, <1>8

\* The rows of a packet, without a window: each of their keys is let through.
LEMMA PassesAll ==
  ASSUME node.window = 0, NEW start \in Passing, start.seen = {}, start.rows = <<>>, NEW rows \in Seq(AllRows)
  PROVE  /\ LetThrough(start, rows) \in Passing
         /\ KeysOf(rows) \subseteq KeysOf(LetThrough(start, rows).rows)
<1> DEFINE n == Len(rows)
<1>1. n \in Nat /\ DOMAIN rows = 1 .. n /\ \A i \in 1 .. n : rows[i] \in AllRows /\ node.window \in Nat
  OBVIOUS
<1>2. PICK a \in [0 .. n -> Passing] :
        /\ a[0] = start /\ a[n] = LetThrough(start, rows)
        /\ \A k \in 1 .. n : a[k] = LetsThrough(a[k - 1], rows[k])
  <2>1. PassedInTurn(start, rows)
    BY PassedChain
  <2>. QED BY <2>1 DEF PassedInTurn
<1> DEFINE Good(k) == /\ a[k].seen = KeysOf(a[k].rows) /\ \A j \in 1 .. k : rows[j].key \in KeysOf(a[k].rows)
           K == {k \in Nat : k <= n => Good(k)}
<1> HIDE DEF n
<1>3. Good(0)
  <2>1. KeysOf(<<>>) = {} /\ 1 .. 0 = {}
    BY DEF KeysOf
  <2>. QED BY <1>2, <2>1
<1>4. ASSUME NEW k \in 1 .. n, Good(k - 1) PROVE Good(k)
  <2> DEFINE state == a[k - 1]  row == rows[k]
  <2>1. state \in Passing /\ row \in AllRows /\ a[k] = LetsThrough(state, row)
    BY <1>1, <1>2
  <2>2. \A j \in 1 .. k : j \in 1 .. (k - 1) \/ j = k
    OBVIOUS
  <2>3. CASE row.key \in state.seen
    <3>1. a[k] = state
      BY <2>1, <2>3 DEF LetsThrough
    <3>. QED BY <1>4, <2>2, <2>3, <3>1
  <2>4. CASE row.key \notin state.seen
    <3>1. a[k].seen = state.seen \cup {row.key} /\ a[k].rows = Append(state.rows, row)
      <4>1. 1 .. 0 = {}
        OBVIOUS
      <4>. QED BY <2>1, <2>4, <4>1 DEF LetsThrough
    <3>2. KeysOf(a[k].rows) = KeysOf(state.rows) \cup {row.key}
      <4>1. state.rows \in Seq(AllRows)
        BY <2>1 DEF Passing
      <4>. QED BY <2>1, <3>1, <4>1, KeySeqFacts
    <3>. QED BY <1>4, <2>2, <3>1, <3>2
  <2>. QED BY <2>3, <2>4
<1>5. K = Nat
  <2>1. 0 \in K
    BY <1>3
  <2>2. ASSUME NEW k \in K PROVE k + 1 \in K
    <3>1. CASE k + 1 <= n
      <4>1. k + 1 \in 1 .. n /\ (k + 1) - 1 = k /\ k <= n /\ k + 1 \in Nat
        BY <1>1, <3>1
      <4>2. Good(k)
        BY <4>1
      <4> HIDE DEF Good
      <4>3. Good(k + 1)
        BY <1>4, <4>1, <4>2
      <4>. QED BY <4>1, <4>3
    <3>2. CASE ~(k + 1 <= n)
      BY <3>2
    <3>. QED BY <3>1, <3>2
  <2>3. K \in SUBSET Nat
    OBVIOUS
  <2> HIDE DEF K
  <2>. QED BY <2>1, <2>2, <2>3, Inductive
<1>6. Good(n) /\ a[n] \in Passing
  <2>1. n \in K /\ n <= n
    BY <1>1, <1>5
  <2> HIDE DEF Good
  <2>. QED BY <1>1, <1>2, <2>1
<1>7. KeysOf(rows) = {rows[j].key : j \in 1 .. n}
  BY <1>1 DEF KeysOf
<1>. QED BY <1>2, <1>6, <1>7

----------------------------------------------------------------------------
(* The executions of a node that removes duplicates. *)

Passed == {p \in Packets : task[p].pc \in {"emits", "done"}}
Arrived == UNION {KeysOf(task[p].rows) : p \in Passed}

Memory == [seen : SUBSET AllKeys, order : Seq(AllKeys), observed : {<<>>}, indexed : BOOLEAN]

DedupeTypes ==
  /\ node.window \in Nat /\ \A p \in Packets : input[p] \in Seq(AllRows)
  /\ faults \in Nat /\ accepted \in Seq(AllKeys)
  /\ task \in [Packets -> [pc : {"queued", "again", "emits", "done", "failed"}, attempt : Nat, rows : Seq(AllRows)]]
  /\ delivered \subseteq {p \in Packets : task[p].pc = "done"}
  /\ remembered \in Memory

\* With a window, what is remembered is the end of what was let through.
WindowInv ==
  node.window > 0 =>
    /\ Apart(accepted) /\ InWindow(accepted, remembered)

\* What was executed, and not repeated, holds the keys of its packets.
ArriveInv ==
  /\ node.window = 0 => \A p \in Passed : KeysOf(input[p]) \subseteq KeysOf(task[p].rows)
  /\ node.window > 0 /\ faults = 0 =>
       ToSet(accepted) \subseteq Arrived /\ \A p \in Passed : KeysOf(input[p]) \subseteq Arrived

DedupeInv == node.kind = "dedupe" => DedupeTypes /\ WindowInv /\ ArriveInv

\* The invariant holds at first.
LEMMA DedupeStarts == RowInit => DedupeInv
<1> SUFFICES ASSUME RowInit, node.kind = "dedupe" PROVE DedupeTypes /\ WindowInv /\ ArriveInv
  BY DEF DedupeInv
<1>1. PICK case \in Cases : node = case.node /\ input \in [Packets -> case.batches]
  BY DEF RowInit
<1>2. /\ remembered = [seen |-> {}, order |-> <<>>, observed |-> <<>>, indexed |-> FALSE]
      /\ task = [p \in Packets |-> [pc |-> "queued", attempt |-> 1, rows |-> <<>>]]
      /\ accepted = <<>> /\ delivered = {} /\ faults = 0
  BY DEF RowInit, NotYet
<1>3. node.window \in Nat /\ \A p \in Packets : input[p] \in Seq(ToSet(input[p]))
  BY <1>1, RowPrepAssumption
<1>4. \A p \in Packets : input[p] \in Seq(AllRows)
  <2> SUFFICES ASSUME NEW p \in Packets PROVE input[p] \in Seq(AllRows)
    OBVIOUS
  <2>1. ToSet(input[p]) \subseteq AllRows
    BY DEF AllRows
  <2>2. PICK S, s : S = ToSet(input[p]) /\ s = input[p]
    OBVIOUS
  <2>3. s \in Seq(S) /\ S \subseteq AllRows
    BY <1>3, <2>1, <2>2
  <2>4. s \in Seq(AllRows)
    BY <2>3
  <2>. QED BY <2>2, <2>4
<1>5. DedupeTypes
  BY <1>2, <1>3, <1>4 DEF DedupeTypes, Memory
<1>6. WindowInv
  <2>1. ToSet(<<>>) = {} /\ Len(<<>>) = 0 /\ 1 .. 0 = {} /\ DOMAIN <<>> = {}
    BY DEF ToSet
  <2>. QED BY <1>2, <1>3, <2>1 DEF WindowInv, Apart, InWindow
<1>7. ArriveInv
  <2>1. Passed = {} /\ ToSet(accepted) = {}
    BY <1>2 DEF Passed, ToSet
  <2>. QED BY <2>1 DEF ArriveInv
<1>. QED BY <1>5, <1>6, <1>7

\* An execution fails and changes nothing, or lets rows through.
LEMMA DedupeExecutes ==
  ASSUME node.kind = "dedupe", DedupeTypes, WindowInv, NEW p \in Packets
  PROVE  LET result == Executed(input[p], remembered) IN
         \/ result.fails /\ result.memory = remembered /\ result.keys = <<>>
         \/ /\ ~result.fails /\ result.rows \in Seq(AllRows) /\ result.keys = KeySeq(result.rows)
            /\ node.window = 0 => result.memory = remembered /\ KeysOf(input[p]) \subseteq KeysOf(result.rows)
            /\ node.window > 0 =>
                 /\ result.memory \in Memory
                 /\ Apart(accepted \o result.keys) /\ InWindow(accepted \o result.keys, result.memory)
                 /\ KeysOf(input[p]) \subseteq ToSet(accepted) \cup KeysOf(result.rows)
<1> DEFINE rows == input[p]
           start == [seen |-> IF node.window > 0 THEN remembered.seen ELSE {},
                     order |-> IF node.window > 0 THEN remembered.order ELSE <<>>, rows |-> <<>>]
           end == LetThrough(start, rows)
           objects == \A i \in DOMAIN rows : rows[i].value # <<"scalar">>
           result == Executed(rows, remembered)
<1>1. node.window \in Nat /\ rows \in Seq(AllRows)
  BY DEF DedupeTypes
<1>2. CASE ~objects
  <2>1. result = Error(remembered)
    BY <1>2 DEF Executed
  <2>. QED BY <2>1 DEF Error, Yields
<1>3. CASE objects
  <2>1. result = RemovesDuplicates(rows, remembered)
    BY <1>3 DEF Executed
  <2>2. result = [rows |-> end.rows,
                  memory |-> IF node.window > 0 THEN [remembered EXCEPT !.seen = end.seen, !.order = end.order]
                             ELSE remembered,
                  keys |-> KeySeq(end.rows), fails |-> FALSE]
    BY <2>1 DEF RemovesDuplicates, Yields, KeySeq
  <2> HIDE DEF result
  <2>3. start \in Passing
    BY <1>1 DEF DedupeTypes, Memory, Passing
  <2>4. CASE node.window = 0
    <3>1. start.seen = {} /\ start.rows = <<>>
      BY <2>4
    <3> HIDE DEF start
    <3>2. PICK s \in Passing, r \in Seq(AllRows) : s = start /\ r = rows
      BY <1>1, <2>3
    <3>3. LetThrough(s, r) \in Passing /\ KeysOf(r) \subseteq KeysOf(LetThrough(s, r).rows)
      BY <2>4, <3>1, <3>2, PassesAll
    <3>4. end \in Passing /\ KeysOf(rows) \subseteq KeysOf(end.rows)
      BY <3>2, <3>3
    <3> HIDE DEF end, rows
    <3>5. end.rows \in Seq(AllRows)
      BY <3>4 DEF Passing
    <3>6. /\ result.rows = end.rows /\ result.memory = remembered /\ result.keys = KeySeq(end.rows)
          /\ ~result.fails
      BY <2>2, <2>4
    <3>. QED BY <2>4, <3>4, <3>5, <3>6 DEF result, rows
  <2>5. CASE node.window > 0
    <3>1. InWindow(accepted, start) /\ Apart(accepted) /\ start.rows = <<>>
      BY <2>5 DEF WindowInv, InWindow
    <3> HIDE DEF start
    <3>2. PICK s \in Passing, r \in Seq(AllRows), keys \in Seq(AllKeys) : s = start /\ r = rows /\ keys = accepted
      BY <1>1, <2>3 DEF DedupeTypes
    <3>3. InWindow(keys, s) /\ Apart(keys) /\ s.rows = <<>>
      BY <3>1, <3>2
    <3>4. /\ LetThrough(s, r) \in Passing
          /\ InWindow(keys \o KeySeq(LetThrough(s, r).rows), LetThrough(s, r))
          /\ Apart(keys \o KeySeq(LetThrough(s, r).rows))
          /\ KeysOf(r) \subseteq ToSet(keys) \cup KeysOf(LetThrough(s, r).rows)
      BY <1>1, <2>5, <3>3, PassesWindow
    <3>5. /\ end \in Passing
          /\ InWindow(accepted \o KeySeq(end.rows), end) /\ Apart(accepted \o KeySeq(end.rows))
          /\ KeysOf(rows) \subseteq ToSet(accepted) \cup KeysOf(end.rows)
      BY <3>2, <3>4
    <3> HIDE DEF end, rows
    <3>6. end.rows \in Seq(AllRows) /\ end.seen \subseteq AllKeys /\ end.order \in Seq(AllKeys)
      BY <3>5 DEF Passing
    <3>7. result.memory = [remembered EXCEPT !.seen = end.seen, !.order = end.order]
          /\ result.rows = end.rows /\ result.keys = KeySeq(end.rows) /\ ~result.fails
      BY <2>2, <2>5
    <3>8. remembered \in Memory
      BY DEF DedupeTypes
    <3>9. result.memory \in Memory /\ result.memory.seen = end.seen /\ result.memory.order = end.order
      BY <3>6, <3>7, <3>8 DEF Memory
    <3>10. InWindow(accepted \o result.keys, result.memory)
      <4>1. PICK t, m, e : t = accepted \o KeySeq(end.rows) /\ m = result.memory /\ e = end
        OBVIOUS
      <4>2. InWindow(t, e) /\ m.seen = e.seen /\ m.order = e.order
        BY <3>5, <3>7, <3>9, <4>1
      <4>3. InWindow(t, m)
        BY <4>2 DEF InWindow
      <4>. QED BY <3>7, <4>1, <4>3
    <3>. QED BY <2>5, <3>5, <3>6, <3>7, <3>9, <3>10 DEF result, rows
  <2>. QED BY <1>1, <2>4, <2>5
<1>. QED BY <1>2, <1>3

\* A row was let through earlier or now: both are in the sequence of all keys.
LEMMA MoreKeys ==
  ASSUME NEW keys \in Seq(AllKeys), NEW rows \in Seq(AllRows)
  PROVE  /\ keys \o KeySeq(rows) \in Seq(AllKeys)
         /\ ToSet(keys \o KeySeq(rows)) \subseteq ToSet(keys) \cup KeysOf(rows)
<1> DEFINE s == KeySeq(rows)
<1>1. s \in Seq(AllKeys) /\ ToSet(s) = KeysOf(rows)
  BY KeySeqFacts
<1> HIDE DEF s
<1> DEFINE t == keys \o s
<1>2. /\ t \in Seq(AllKeys) /\ DOMAIN t = 1 .. (Len(keys) + Len(s))
      /\ DOMAIN keys = 1 .. Len(keys) /\ DOMAIN s = 1 .. Len(s) /\ Len(keys) \in Nat /\ Len(s) \in Nat
      /\ \A i \in DOMAIN t : IF i <= Len(keys) THEN t[i] = keys[i] ELSE t[i] = s[i - Len(keys)]
  BY <1>1
<1> HIDE DEF t
<1>3. ASSUME NEW i \in DOMAIN t PROVE t[i] \in ToSet(keys) \cup ToSet(s)
  <2>1. CASE i <= Len(keys)
    <3>1. i \in DOMAIN keys
      BY <1>2, <1>3, <2>1
    <3>. QED BY <1>2, <2>1, <3>1 DEF ToSet
  <2>2. CASE ~(i <= Len(keys))
    <3>1. i - Len(keys) \in DOMAIN s
      BY <1>2, <1>3, <2>2
    <3>. QED BY <1>2, <2>2, <3>1 DEF ToSet
  <2>. QED BY <2>1, <2>2
<1>4. ToSet(t) \subseteq ToSet(keys) \cup ToSet(s)
  BY <1>3 DEF ToSet
<1>. QED BY <1>1, <1>2, <1>4 DEF s, t

\* An attempt that failed leaves a packet without rows.
LEMMA FailsTyped ==
  ASSUME DedupeTypes, NEW p \in Packets, AfterError(p)
  PROVE  /\ task' \in [Packets -> [pc : {"queued", "again", "emits", "done", "failed"}, attempt : Nat, rows : Seq(AllRows)]]
         /\ task'[p].pc \in {"again", "failed"} /\ \A q \in Packets : q # p => task'[q] = task[q]
<1>1. MaxAttempts \in Nat
  BY RowPrepAssumption
<1>2. task[p].attempt \in Nat
  BY DEF DedupeTypes
<1> DEFINE next == task[p].attempt + 1
           entry == [NotYet EXCEPT !.pc = IF next <= MaxAttempts THEN "again" ELSE "failed",
                                   !.attempt = IF next <= MaxAttempts THEN next ELSE MaxAttempts]
<1>3. task' = [task EXCEPT ![p] = entry]
  BY DEF AfterError
<1>4. /\ entry \in [pc : {"queued", "again", "emits", "done", "failed"}, attempt : Nat, rows : Seq(AllRows)]
      /\ entry.pc \in {"again", "failed"}
  <2> DEFINE where == IF next <= MaxAttempts THEN "again" ELSE "failed"
             count == IF next <= MaxAttempts THEN next ELSE MaxAttempts
  <2>1. entry = [pc |-> where, attempt |-> count, rows |-> <<>>]
    <3>1. entry = [[pc |-> "queued", attempt |-> 1, rows |-> <<>>] EXCEPT !.pc = where, !.attempt = count]
      BY DEF NotYet
    <3> HIDE DEF where, count, entry
    <3>. QED BY <3>1
  <2>2. where \in {"again", "failed"} /\ count \in Nat
    BY <1>1, <1>2
  <2>3. <<>> \in Seq(AllRows)
    OBVIOUS
  <2> HIDE DEF where, count, entry
  <2>. QED BY <2>1, <2>2, <2>3
<1> HIDE DEF entry
<1>. QED BY <1>3, <1>4 DEF DedupeTypes

\* What the node works with stays.
LEMMA WorkStays ==
  ASSUME UNCHANGED <<node, input>>
  PROVE  /\ AllRows' = AllRows /\ AllKeys' = AllKeys /\ Memory' = Memory
<1>1. AllRows' = AllRows
  BY DEF AllRows
<1>2. AllKeys' = AllKeys
  BY <1>1 DEF AllKeys
<1>. QED BY <1>1, <1>2 DEF Memory

\* Of the packets, one becomes executed.
LEMMA DedupeSucceeds ==
  ASSUME node.kind = "dedupe", DedupeTypes, WindowInv, ArriveInv, NEW p \in Packets,
         Executes(p), ~Executed(input[p], remembered).fails
  PROVE  DedupeTypes' /\ WindowInv' /\ ArriveInv'
<1> DEFINE result == Executed(input[p], remembered)
<1>1. /\ Admitted(p) /\ remembered' = result.memory /\ accepted' = accepted \o result.keys
      /\ task' = [task EXCEPT ![p].pc = "emits", ![p].rows = result.rows]
      /\ node' = node /\ input' = input /\ delivered' = delivered /\ faults' = faults
  BY DEF Executes
<1>2. /\ result.rows \in Seq(AllRows) /\ result.keys = KeySeq(result.rows)
      /\ node.window = 0 => result.memory = remembered /\ KeysOf(input[p]) \subseteq KeysOf(result.rows)
      /\ node.window > 0 =>
           /\ result.memory \in Memory
           /\ Apart(accepted \o result.keys) /\ InWindow(accepted \o result.keys, result.memory)
           /\ KeysOf(input[p]) \subseteq ToSet(accepted) \cup KeysOf(result.rows)
  BY DedupeExecutes
<1> HIDE DEF result
<1>3. AllRows' = AllRows /\ AllKeys' = AllKeys /\ Memory' = Memory
  BY <1>1, WorkStays
<1>4. task[p].pc \in {"queued", "again"}
  BY <1>1 DEF Admitted
<1>5. /\ task' \in [Packets -> [pc : {"queued", "again", "emits", "done", "failed"}, attempt : Nat, rows : Seq(AllRows)]]
      /\ task'[p].pc = "emits" /\ task'[p].rows = result.rows /\ \A q \in Packets : q # p => task'[q] = task[q]
  BY <1>1, <1>2 DEF DedupeTypes
<1>6. /\ accepted' \in Seq(AllKeys)
      /\ ToSet(accepted') \subseteq ToSet(accepted) \cup KeysOf(result.rows)
  <2>1. PICK keys \in Seq(AllKeys), rows \in Seq(AllRows) : keys = accepted /\ rows = result.rows
    BY <1>2 DEF DedupeTypes
  <2>2. /\ keys \o KeySeq(rows) \in Seq(AllKeys)
        /\ ToSet(keys \o KeySeq(rows)) \subseteq ToSet(keys) \cup KeysOf(rows)
    BY MoreKeys
  <2>. QED BY <1>1, <1>2, <2>1, <2>2
<1>7. node.window \in Nat
  BY DEF DedupeTypes
<1>8. DedupeTypes'
  <2>1. remembered' \in Memory
    BY <1>1, <1>2, <1>7 DEF DedupeTypes
  <2>2. \A q \in delivered : task[q].pc = "done" /\ q \in Packets
    BY DEF DedupeTypes
  <2>3. delivered' \subseteq {q \in Packets : task'[q].pc = "done"}
    BY <1>1, <1>4, <1>5, <2>2
  <2>. QED BY <1>1, <1>3, <1>5, <1>6, <2>1, <2>3 DEF DedupeTypes
<1>9. WindowInv'
  <2>1. ASSUME node.window > 0 PROVE Apart(accepted)' /\ InWindow(accepted, remembered)'
    <3>1. PICK k, m : k = accepted \o result.keys /\ m = result.memory
      OBVIOUS
    <3>2. Apart(k) /\ InWindow(k, m)
      BY <1>2, <2>1, <3>1
    <3>3. accepted' = k /\ remembered' = m
      BY <1>1, <3>1
    <3>. QED BY <1>1, <3>2, <3>3 DEF Apart, InWindow
  <2>. QED BY <1>1, <2>1 DEF WindowInv
<1>10. Passed' = Passed \cup {p} /\ p \notin Passed
  BY <1>4, <1>5 DEF Passed
<1>11. \A q \in Passed : task'[q].rows = task[q].rows
  BY <1>5, <1>10 DEF Passed
<1>12. Arrived' = Arrived \cup KeysOf(result.rows)
  <2> DEFINE now == {KeysOf(task'[q].rows) : q \in Passed'}
             old == {KeysOf(task[q].rows) : q \in Passed}
  <2>1. now = old \cup {KeysOf(result.rows)}
    BY <1>5, <1>10, <1>11
  <2>2. Arrived = UNION old
    BY DEF Arrived
  <2>3. Arrived' = UNION now
    BY DEF Arrived, KeysOf
  <2> HIDE DEF now, old
  <2>. QED BY <2>1, <2>2, <2>3
<1>13. ASSUME node.window = 0, NEW q \in Passed' PROVE KeysOf(input[q]) \subseteq KeysOf(task'[q].rows)
  BY <1>2, <1>5, <1>10, <1>11, <1>13 DEF ArriveInv
<1>14. ASSUME node.window > 0, faults = 0
       PROVE  ToSet(accepted') \subseteq Arrived' /\ \A q \in Passed' : KeysOf(input[q]) \subseteq Arrived'
  <2>1. ToSet(accepted) \subseteq Arrived /\ \A q \in Passed : KeysOf(input[q]) \subseteq Arrived
    BY <1>14 DEF ArriveInv
  <2>2. KeysOf(input[p]) \subseteq ToSet(accepted) \cup KeysOf(result.rows)
    BY <1>2, <1>14
  <2>. QED BY <1>6, <1>10, <1>12, <2>1, <2>2
<1>15. ArriveInv'
  BY <1>1, <1>13, <1>14 DEF ArriveInv, KeysOf, ToSet
<1>. QED BY <1>8, <1>9, <1>15

\* Every step keeps the invariant.
LEMMA DedupeStep == DedupeInv /\ [RowNext]_nodeVars => DedupeInv'
<1> SUFFICES ASSUME DedupeInv, [RowNext]_nodeVars PROVE DedupeInv'
  OBVIOUS
<1>0. node' = node /\ input' = input
  BY DEF RowNext, Executes, Emits, EmissionFails, nodeVars
<1>1. SUFFICES ASSUME node.kind = "dedupe" PROVE DedupeTypes' /\ WindowInv' /\ ArriveInv'
  BY <1>0 DEF DedupeInv
<1>2. DedupeTypes /\ WindowInv /\ ArriveInv
  BY <1>1 DEF DedupeInv
<1>3. AllRows' = AllRows /\ AllKeys' = AllKeys /\ Memory' = Memory
  BY <1>0, WorkStays
<1>4. ASSUME UNCHANGED <<accepted, remembered>> PROVE WindowInv'
  BY <1>0, <1>2, <1>4 DEF WindowInv, Apart, InWindow, ToSet
<1>5. CASE UNCHANGED nodeVars
  <2>1. /\ task' = task /\ accepted' = accepted /\ remembered' = remembered
        /\ delivered' = delivered /\ faults' = faults
    BY <1>5 DEF nodeVars
  <2>2. DedupeTypes'
    BY <1>0, <1>2, <1>3, <2>1 DEF DedupeTypes
  <2>3. Passed' = Passed /\ Arrived' = Arrived
    BY <1>0, <2>1 DEF Passed, Arrived, KeysOf
  <2>4. ArriveInv'
    BY <1>0, <1>2, <2>1, <2>3 DEF ArriveInv, KeysOf, ToSet
  <2>. QED BY <1>4, <2>1, <2>2, <2>4
<1>6. ASSUME NEW p \in Packets, AfterError(p), task[p].pc \notin {"done"},
             UNCHANGED <<accepted, remembered, delivered>>, faults' \in Nat,
             faults' > 0 \/ (faults' = faults /\ p \notin Passed)
      PROVE  DedupeTypes' /\ WindowInv' /\ ArriveInv'
  <2>1. /\ task' \in [Packets -> [pc : {"queued", "again", "emits", "done", "failed"}, attempt : Nat, rows : Seq(AllRows)]]
        /\ task'[p].pc \in {"again", "failed"} /\ \A q \in Packets : q # p => task'[q] = task[q]
    BY <1>2, <1>6, FailsTyped
  <2>2. delivered \subseteq {q \in Packets : task'[q].pc = "done"}
    BY <1>2, <1>6, <2>1 DEF DedupeTypes
  <2>3. DedupeTypes'
    BY <1>0, <1>2, <1>3, <1>6, <2>1, <2>2 DEF DedupeTypes
  <2>4. Passed' = Passed \ {p}
    BY <2>1 DEF Passed
  <2>5. \A q \in Passed' : q \in Passed /\ task'[q] = task[q]
    BY <2>1, <2>4 DEF Passed
  <2>6. ASSUME node.window = 0, NEW q \in Passed' PROVE KeysOf(input[q]) \subseteq KeysOf(task'[q].rows)
    BY <1>2, <2>5, <2>6 DEF ArriveInv
  <2>7. ASSUME node.window > 0, faults' = 0
        PROVE  ToSet(accepted) \subseteq Arrived' /\ \A q \in Passed' : KeysOf(input[q]) \subseteq Arrived'
    <3>1. faults = 0 /\ Passed' = Passed
      BY <1>6, <2>4, <2>7
    <3>2. Arrived' = Arrived
      <4> DEFINE now == {KeysOf(task'[q].rows) : q \in Passed'}
                 old == {KeysOf(task[q].rows) : q \in Passed}
      <4>1. now = old
        BY <2>5, <3>1
      <4>2. Arrived = UNION old
        BY DEF Arrived
      <4>3. Arrived' = UNION now
        BY DEF Arrived, KeysOf
      <4>. QED BY <4>1, <4>2, <4>3
    <3>. QED BY <1>2, <2>7, <3>1, <3>2 DEF ArriveInv
  <2>8. ArriveInv'
    BY <1>0, <1>6, <2>6, <2>7 DEF ArriveInv, KeysOf, ToSet
  <2>. QED BY <1>4, <1>6, <2>3, <2>8
<1>7. ASSUME NEW p \in Packets, Executes(p) PROVE DedupeTypes' /\ WindowInv' /\ ArriveInv'
  <2>1. CASE ~Executed(input[p], remembered).fails
    BY <1>1, <1>2, <1>7, <2>1, DedupeSucceeds
  <2>2. CASE Executed(input[p], remembered).fails
    <3>1. Executed(input[p], remembered).memory = remembered /\ Executed(input[p], remembered).keys = <<>>
      BY <1>1, <1>2, <2>2, DedupeExecutes
    <3>2. accepted \in Seq(AllKeys) /\ faults \in Nat
      BY <1>2 DEF DedupeTypes
    <3>3. accepted \o <<>> = accepted
      BY <3>2
    <3>4. /\ remembered' = remembered /\ accepted' = accepted /\ AfterError(p)
          /\ delivered' = delivered /\ faults' = faults /\ Admitted(p)
      BY <1>7, <2>2, <3>1, <3>3 DEF Executes
    <3>5. task[p].pc \in {"queued", "again"}
      BY <3>4 DEF Admitted
    <3>6. p \notin Passed /\ task[p].pc \notin {"done"}
      BY <3>5 DEF Passed
    <3>. QED BY <1>6, <3>2, <3>4, <3>6
  <2>. QED BY <2>1, <2>2
<1>8. ASSUME NEW p \in Packets, Emits(p) PROVE DedupeTypes' /\ WindowInv' /\ ArriveInv'
  <2>1. /\ task[p].pc = "emits" /\ task' = [task EXCEPT ![p].pc = "done"]
        /\ delivered' = delivered \cup {p}
        /\ remembered' = remembered /\ accepted' = accepted /\ faults' = faults
    BY <1>8 DEF Emits
  <2>2. /\ task' \in [Packets -> [pc : {"queued", "again", "emits", "done", "failed"}, attempt : Nat, rows : Seq(AllRows)]]
        /\ task'[p].pc = "done" /\ task'[p].rows = task[p].rows /\ \A q \in Packets : q # p => task'[q] = task[q]
    BY <1>2, <2>1 DEF DedupeTypes
  <2>3. delivered' \subseteq {q \in Packets : task'[q].pc = "done"}
    BY <1>2, <2>1, <2>2 DEF DedupeTypes
  <2>4. DedupeTypes'
    BY <1>0, <1>2, <1>3, <2>1, <2>2, <2>3 DEF DedupeTypes
  <2>5. Passed' = Passed /\ \A q \in Passed : task'[q].rows = task[q].rows
    BY <2>1, <2>2 DEF Passed
  <2>6. Arrived' = Arrived
    <3> DEFINE now == {KeysOf(task'[q].rows) : q \in Passed'}
               old == {KeysOf(task[q].rows) : q \in Passed}
    <3>1. now = old
      BY <2>5
    <3>2. Arrived = UNION old
      BY DEF Arrived
    <3>3. Arrived' = UNION now
      BY DEF Arrived, KeysOf
    <3>. QED BY <3>1, <3>2, <3>3
  <2>7. ASSUME node.window = 0, NEW q \in Passed' PROVE KeysOf(input[q]) \subseteq KeysOf(task'[q].rows)
    BY <1>2, <2>5, <2>7 DEF ArriveInv
  <2>8. ASSUME node.window > 0, faults = 0
        PROVE  ToSet(accepted) \subseteq Arrived' /\ \A q \in Passed' : KeysOf(input[q]) \subseteq Arrived'
    BY <1>2, <2>5, <2>6, <2>8 DEF ArriveInv
  <2>9. ToSet(accepted)' = ToSet(accepted)
    BY <2>1 DEF ToSet
  <2>10. ArriveInv'
    BY <1>0, <2>1, <2>7, <2>8, <2>9 DEF ArriveInv, KeysOf
  <2>. QED BY <1>4, <2>1, <2>4, <2>10
<1>9. ASSUME NEW p \in Packets, EmissionFails(p) PROVE DedupeTypes' /\ WindowInv' /\ ArriveInv'
  <2>1. /\ task[p].pc = "emits" /\ AfterError(p) /\ faults' = faults + 1
        /\ remembered' = remembered /\ accepted' = accepted /\ delivered' = delivered
    BY <1>9 DEF EmissionFails
  <2>2. faults' \in Nat /\ faults' > 0
    BY <1>2, <2>1 DEF DedupeTypes
  <2>. QED BY <1>6, <2>1, <2>2
<1>. QED BY <1>5, <1>7, <1>8, <1>9 DEF RowNext

\* When all packets are delivered, what was executed is what there is.
LEMMA DedupeImplies == DedupeInv => DuplicatesGo
<1> SUFFICES ASSUME DedupeInv, node.kind = "dedupe" PROVE DuplicatesGo
  BY DEF DuplicatesGo, WindowKeepsApart, KeysArrive
<1>1. DedupeTypes /\ WindowInv /\ ArriveInv
  BY DEF DedupeInv
<1>2. WindowKeepsApart
  BY <1>1 DEF WindowInv, Apart, WindowKeepsApart
<1>3. ASSUME faults = 0 \/ node.window = 0, delivered = Packets, NEW p \in Packets, NEW key \in KeysOf(input[p])
      PROVE  \E q \in Packets : key \in KeysOf(task[q].rows)
  <2>1. p \in Passed /\ Passed \subseteq Packets
    BY <1>1, <1>3 DEF DedupeTypes, Passed
  <2>2. CASE node.window = 0
    BY <1>1, <1>3, <2>1, <2>2 DEF ArriveInv
  <2>3. CASE ~(node.window = 0)
    <3>1. node.window > 0 /\ faults = 0
      BY <1>1, <1>3, <2>3 DEF DedupeTypes
    <3>2. key \in Arrived
      BY <1>1, <1>3, <2>1, <3>1 DEF ArriveInv
    <3>. QED BY <2>1, <3>2 DEF Arrived
  <2>. QED BY <2>2, <2>3
<1>4. KeysArrive
  BY <1>3 DEF KeysArrive, EveryKeyArrives
<1>. QED BY <1>2, <1>4 DEF DuplicatesGo

\* The node that removes duplicates lets a key through again only after as many
\* others as its window holds, and loses none: every key of the input arrives
\* with the packets, as long as no execution with a window is repeated
\* (ai_remove_duplicates in transforms.rs, executor/retry.rs).
THEOREM DuplicatesAreRemoved == RowSpec => []DuplicatesGo
<1>1. RowInit => DedupeInv
  BY DedupeStarts
<1>2. DedupeInv /\ [RowNext]_nodeVars => DedupeInv'
  BY DedupeStep
<1>3. DedupeInv => DuplicatesGo
  BY DedupeImplies
<1>. QED BY <1>1, <1>2, <1>3, PTL DEF RowSpec
=============================================================================
