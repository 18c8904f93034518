--------------------------- MODULE FlowSupervisor ---------------------------
(***************************************************************************)
(* One FlowSupervisor and its FlowControl: the calls of the administrative *)
(* API, of the schedules and of the command line, which run concurrently,  *)
(* and the engine tasks they start and stop.  A task is what its caller    *)
(* sees of run_started: initialization, the run, its result, its report.   *)
(*                                                                         *)
(* The mutex around the task's handle is never held across a wait, so what *)
(* is done under it is one step.  FlowControl's tests of the lifecycle are *)
(* not atomic with the transition that follows: two steps.                 *)
(***************************************************************************)
EXTENDS Naturals, FiniteSets

CONSTANTS
  Callers,        \* concurrent users of the supervisor, one call each at a time
  Usages,         \* who calls what, with which force_after_timeout (bound)
  MaxTasks        \* bound: engine tasks ever spawned

Operations == {"start", "stop", "pause", "resume", "drain", "wait"}

ASSUME SupervisorAssumption ==
  /\ Usages \subseteq [calls : [Callers -> SUBSET Operations], modes : SUBSET {"force", "keep"}]
  /\ MaxTasks \in Nat

Tasks  == 1 .. MaxTasks
NoTask == 0

VARIABLES
  usage,       \* chosen once
  lifecycle,   \* the watch channel of FlowControl
  notified,    \* has it changed since the caller subscribed?
  slot,        \* the handle in the mutex
  phase,       \* where each task is
  sent,        \* has it sent `started`?
  failing,     \* has its run_inner returned an error?
  aborted,     \* handle.abort() was called
  pc, mine     \* where each call is, and the task it is about

controlVars == <<lifecycle, notified>>
taskVars    == <<phase, sent, failing, aborted>>
callVars    == <<pc, mine>>
vars == <<usage, controlVars, slot, taskVars, callVars>>

Lifecycles == {"STOPPED", "STARTING", "RUNNING", "PAUSED", "DRAINING", "FAILED"}
Terminal   == {"STOPPED", "FAILED"}
Phases     == {"unborn", "spawned", "initializing", "running", "returned", "reported",
               "finished"}
Working    == {"spawned", "initializing", "running"}
Steps      == {"idle", "starting", "regain", "startJoin",
               "stopDrain", "stopTake", "stopNothing", "stopJoin", "stopAborted",
               "setPaused", "setRunning", "setDraining",
               "waitRead", "waitSubscribe", "waitChanged"}
Holding    == {"startJoin", "stopJoin", "stopAborted"}
About      == Holding \cup {"starting", "regain"}

\* Types; and a call knows a task exactly while it is about one.
TypeOK ==
  /\ usage \in Usages
  /\ lifecycle \in Lifecycles
  /\ notified \in [Callers -> BOOLEAN]
  /\ slot \in Tasks \cup {NoTask}
  /\ phase \in [Tasks -> Phases]
  /\ sent \in [Tasks -> BOOLEAN]
  /\ failing \in [Tasks -> BOOLEAN]
  /\ aborted \in [Tasks -> BOOLEAN]
  /\ pc \in [Callers -> Steps]
  /\ mine \in [Callers -> Tasks \cup {NoTask}]
  /\ \A c \in Callers : pc[c] \in About <=> mine[c] # NoTask

Init ==
  /\ usage \in Usages
  /\ lifecycle = "STOPPED"
  /\ notified = [c \in Callers |-> FALSE]
  /\ slot = NoTask
  /\ phase = [t \in Tasks |-> "unborn"]
  /\ sent = [t \in Tasks |-> FALSE]
  /\ failing = [t \in Tasks |-> FALSE]
  /\ aborted = [t \in Tasks |-> FALSE]
  /\ pc = [c \in Callers |-> "idle"]
  /\ mine = [c \in Callers |-> NoTask]

Transition(state) ==
  /\ lifecycle' = state
  /\ notified' = [c \in Callers |-> TRUE]

At(c, step)  == pc[c] = step
Goto(c, step) == pc' = [pc EXCEPT ![c] = step]
Call(c, operation) == At(c, "idle") /\ operation \in usage.calls[c]

\* The call of c returns.
Return(c) ==
  /\ Goto(c, "idle")
  /\ mine' = [mine EXCEPT ![c] = NoTask]

Finished(t) == phase[t] = "finished"
\* The sender of `started` is gone, and nothing was sent.
Dropped(t)  == phase[t] \in {"returned", "reported", "finished"} /\ ~sent[t]

----------------------------------------------------------------------------
\* The engine task: run_started, with run_inner in between.

TaskStep(t, from, to) ==
  /\ phase[t] = from
  /\ phase' = [phase EXCEPT ![t] = to]
  /\ UNCHANGED <<slot, aborted, callVars>>

TaskStarts(t) ==
  /\ TaskStep(t, "spawned", "initializing")
  /\ Transition("STARTING")
  /\ UNCHANGED <<sent, failing>>

\* Whatever was requested meanwhile is overwritten.
TaskRuns(t) ==
  /\ TaskStep(t, "initializing", "running")
  /\ Transition("RUNNING")
  /\ sent' = [sent EXCEPT ![t] = TRUE]
  /\ UNCHANGED failing

TaskReturns(t, error) ==
  /\ \/ error /\ TaskStep(t, "initializing", "returned")
     \/ TaskStep(t, "running", "returned")
  /\ failing' = [failing EXCEPT ![t] = error]
  /\ UNCHANGED <<controlVars, sent>>

TaskReports(t) ==
  /\ TaskStep(t, "returned", "reported")
  /\ Transition(IF failing[t] THEN "FAILED" ELSE "STOPPED")
  /\ UNCHANGED <<sent, failing>>

TaskFinishes(t) ==
  /\ TaskStep(t, "reported", "finished")
  /\ UNCHANGED <<controlVars, sent, failing>>

\* An aborted task is dropped the next time it waits.
TaskCancelled(t) ==
  /\ aborted[t]
  /\ \E from \in {"spawned", "initializing", "running"} : TaskStep(t, from, "finished")
  /\ UNCHANGED <<controlVars, sent, failing>>

----------------------------------------------------------------------------
\* FlowSupervisor::start.

StartRefused(c) ==
  /\ Call(c, "start")
  /\ slot \in {t \in Tasks : ~Finished(t)}
  /\ Return(c)
  /\ UNCHANGED <<controlVars, slot, taskVars>>

Spawn(c, t) ==
  /\ Call(c, "start")
  /\ phase[t] = "unborn"
  /\ \A s \in Tasks : s < t => phase[s] # "unborn"
  /\ Transition("STARTING")
  /\ phase' = [phase EXCEPT ![t] = "spawned"]
  /\ slot' = t
  /\ mine' = [mine EXCEPT ![c] = t]
  /\ Goto(c, "starting")
  /\ UNCHANGED <<sent, failing, aborted>>

Start(c, t) ==
  /\ slot \in {NoTask} \cup {s \in Tasks : Finished(s)}
  /\ Spawn(c, t)

\* ready.await
StartReady(c) ==
  /\ At(c, "starting")
  /\ sent[mine[c]]
  /\ Return(c)
  /\ UNCHANGED <<controlVars, slot, taskVars>>

StartDropped(c) ==
  /\ At(c, "starting")
  /\ Dropped(mine[c])
  /\ Goto(c, "regain")
  /\ UNCHANGED <<controlVars, slot, taskVars, mine>>

\* The handle is taken back, if it is still there, to report the error.
StartRegains(c) ==
  /\ At(c, "regain")
  /\ slot = mine[c]
  /\ slot' = NoTask
  /\ Goto(c, "startJoin")
  /\ UNCHANGED <<controlVars, taskVars, mine>>

StartLost(c) ==
  /\ At(c, "regain")
  /\ slot # mine[c]
  /\ Return(c)
  /\ UNCHANGED <<controlVars, slot, taskVars>>

StartFails(c) ==
  /\ At(c, "startJoin")
  /\ Finished(mine[c])
  /\ Return(c)
  /\ UNCHANGED <<controlVars, slot, taskVars>>

----------------------------------------------------------------------------
\* FlowSupervisor::stop_gracefully.

Drainable == {"RUNNING", "PAUSED", "STARTING"}

Stop(c) ==
  /\ Call(c, "stop")
  /\ Goto(c, IF lifecycle \in Drainable THEN "stopDrain" ELSE "stopTake")
  /\ UNCHANGED <<controlVars, slot, taskVars, mine>>

StopDrains(c) ==
  /\ At(c, "stopDrain")
  /\ Transition("DRAINING")
  /\ Goto(c, "stopTake")
  /\ UNCHANGED <<slot, taskVars, mine>>

StopTakes(c) ==
  /\ At(c, "stopTake")
  /\ slot' = NoTask
  /\ mine' = [mine EXCEPT ![c] = slot]
  /\ Goto(c, IF slot = NoTask THEN "stopNothing" ELSE "stopJoin")
  /\ UNCHANGED <<controlVars, taskVars>>

StopNothing(c) ==
  /\ At(c, "stopNothing")
  /\ Transition("STOPPED")
  /\ Return(c)
  /\ UNCHANGED <<slot, taskVars>>

StopJoins(c) ==
  /\ At(c, "stopJoin")
  /\ Finished(mine[c])
  /\ Return(c)
  /\ UNCHANGED <<controlVars, slot, taskVars>>

\* Mistake: the task is awaited without abort().
StopForcesNot(c) ==
  /\ At(c, "stopJoin")
  /\ "force" \in usage.modes
  /\ Goto(c, "stopAborted")
  /\ UNCHANGED <<controlVars, slot, taskVars, mine>>

\* drain_timeout_seconds, with force_after_timeout.
StopForces(c) ==
  /\ At(c, "stopJoin")
  /\ "force" \in usage.modes
  /\ aborted' = [aborted EXCEPT ![mine[c]] = TRUE]
  /\ Goto(c, "stopAborted")
  /\ UNCHANGED <<controlVars, slot, phase, sent, failing, mine>>

StopAborts(c) ==
  /\ At(c, "stopAborted")
  /\ Finished(mine[c])
  /\ Transition("STOPPED")
  /\ Return(c)
  /\ UNCHANGED <<slot, taskVars>>

\* Mistake: the handle is dropped with the error.
StopForgets(c) ==
  /\ At(c, "stopJoin")
  /\ "keep" \in usage.modes
  /\ Return(c)
  /\ UNCHANGED <<controlVars, slot, taskVars>>

\* drain_timeout_seconds, without: the handle goes back to the mutex.
StopKeeps(c) ==
  /\ At(c, "stopJoin")
  /\ "keep" \in usage.modes
  /\ slot' = mine[c]
  /\ Return(c)
  /\ UNCHANGED <<controlVars, taskVars>>

----------------------------------------------------------------------------
\* pause, resume, drain: a test, then the transition.

Command(c, operation, from, step) ==
  /\ Call(c, operation)
  /\ lifecycle \in from
  /\ Goto(c, step)
  /\ UNCHANGED <<controlVars, slot, taskVars, mine>>

Pause(c)  == Command(c, "pause", {"RUNNING"}, "setPaused")
Resume(c) == Command(c, "resume", {"PAUSED"}, "setRunning")
Drain(c)  == Command(c, "drain", Drainable, "setDraining")

CommandActs(c, step, state) ==
  /\ At(c, step)
  /\ Transition(state)
  /\ Return(c)
  /\ UNCHANGED <<slot, taskVars>>

Paused(c)   == CommandActs(c, "setPaused", "PAUSED")
Resumed(c)  == CommandActs(c, "setRunning", "RUNNING")
Draining(c) == CommandActs(c, "setDraining", "DRAINING")

----------------------------------------------------------------------------
\* wait_for_terminal: a test, then FlowControl::changed.

Wait(c) ==
  /\ Call(c, "wait")
  /\ Goto(c, "waitRead")
  /\ UNCHANGED <<controlVars, slot, taskVars, mine>>

WaitReads(c) ==
  /\ At(c, "waitRead")
  /\ Goto(c, IF lifecycle \in Terminal THEN "idle" ELSE "waitSubscribe")
  /\ UNCHANGED <<controlVars, slot, taskVars, mine>>

\* Only changes after the subscription are seen.
WaitSubscribes(c) ==
  /\ At(c, "waitSubscribe")
  /\ notified' = [notified EXCEPT ![c] = FALSE]
  /\ Goto(c, "waitChanged")
  /\ UNCHANGED <<lifecycle, slot, taskVars, mine>>

WaitWakes(c) ==
  /\ At(c, "waitChanged")
  /\ notified[c]
  /\ Goto(c, "waitRead")
  /\ UNCHANGED <<controlVars, slot, taskVars, mine>>

----------------------------------------------------------------------------

\* A call begins.
Begin(c) ==
  \/ StartRefused(c) \/ \E t \in Tasks : Start(c, t)
  \/ Stop(c) \/ Pause(c) \/ Resume(c) \/ Drain(c) \/ Wait(c)

\* A call goes on.
GoOn(c) ==
  \/ StartReady(c) \/ StartDropped(c) \/ StartRegains(c) \/ StartLost(c) \/ StartFails(c)
  \/ StopDrains(c) \/ StopTakes(c) \/ StopNothing(c) \/ StopJoins(c)
  \/ StopForces(c) \/ StopAborts(c) \/ StopKeeps(c)
  \/ Paused(c) \/ Resumed(c) \/ Draining(c)
  \/ WaitReads(c) \/ WaitSubscribes(c) \/ WaitWakes(c)

\* The steps a task takes without waiting for anything outside.
Proceeds(t) == TaskStarts(t) \/ TaskReports(t) \/ TaskFinishes(t) \/ TaskCancelled(t)

Next ==
  \/ \E c \in Callers : \/ Begin(c) /\ UNCHANGED usage
                        \/ GoOn(c) /\ UNCHANGED usage
  \/ \E t \in Tasks : \/ Proceeds(t) /\ UNCHANGED usage
                      \/ TaskRuns(t) /\ UNCHANGED usage
                      \/ \E error \in BOOLEAN : TaskReturns(t, error) /\ UNCHANGED usage

Spec == Init /\ [][Next]_vars

\* Calls and tasks are polled, and the timeout of a stop expires.  How long an
\* initialization or a run takes is left open: it may be for ever.
Fairness ==
  /\ \A c \in Callers : WF_vars(GoOn(c) /\ UNCHANGED usage)
  /\ \A t \in Tasks : WF_vars(Proceeds(t) /\ UNCHANGED usage)

FairSpec == Spec /\ Fairness

----------------------------------------------------------------------------
(* Properties *)

\* The callers that hold the handle of task t: a stop that waits for it, or a
\* start that reports its failure.
Holders(t) ==
  {c \in Callers : mine[c] = t /\ pc[c] \in Holding}

\* Callers that may start or stop; and there is one of them at most.
Starts(c)  == usage.calls[c] \cap {"start", "stop"} # {}
OneStarter == \A c, d \in Callers : Starts(c) /\ Starts(d) => c = d

\* An engine that has not finished has exactly one owner: the supervisor's
\* mutex or a call waiting for it.  None runs on with no handle left, whatever
\* failed, timed out, or was put back, while calls to start and stop come from
\* one place, or a drain that times out is forced.
OneOwner ==
  OneStarter \/ usage.modes = {"force"} =>
  \A t \in Tasks :
    phase[t] \notin {"unborn", "finished"} =>
      Cardinality(Holders(t)) + (IF slot = t THEN 1 ELSE 0) = 1

\* While calls to start and stop come from one place, STOPPED and FAILED are
\* terminal as the schedules take them (is_idle) and as
\* docs/core-hardening-supervisor.md says: no engine is at work behind them,
\* an aborted one included.
TerminalMeansIdle ==
  OneStarter /\ lifecycle \in Terminal => \A t \in Tasks : phase[t] \notin Working

\* No engine is at work unnoticed: by its owner, or by who reads the state.
NoEngineAstray == OneOwner /\ TerminalMeansIdle

\* stop_gracefully returns, whatever the engine does; and a start that waits
\* for an initialization which never ends returns once its task is stopped.
CallsEnd ==
  \A c \in Callers :
    /\ pc[c] \in {"stopDrain", "stopTake", "stopJoin", "stopAborted"} ~> At(c, "idle")
    /\ \A t \in Tasks :
         At(c, "starting") /\ mine[c] = t /\ aborted[t] ~> At(c, "idle")

\* "start — si ya hay tarea viva, Ok(false)" (docs/core-hardening-supervisor.md:35,
\* contract 1): no second engine of the flow works beside the first.
OneEngine ==
  \A s, t \in Tasks : phase[s] \in Working /\ phase[t] \in Working => s = t

=============================================================================
