---------------------------- MODULE FlowRegistry ----------------------------
(***************************************************************************)
(* The flows of a server: FlowRegistry (versions and their states, the map *)
(* of loaded flows, flows.json), FlowScheduler (timers, triggers) and the  *)
(* handlers of the HTTP API that use them, each a task of its own.         *)
(*                                                                         *)
(* A supervisor is an instance that is idle or live: FlowSupervisor has    *)
(* its inside.  Its start and its stop take one step here, with their      *)
(* three outcomes; a lock is never held across one, so other calls come    *)
(* before and after.  What one call reads under one lock and then under    *)
(* another, with no wait for anybody between, is one step.                 *)
(***************************************************************************)
EXTENDS Naturals, FiniteSets

CONSTANTS
  FlowIds,
  MaxVersions,   \* bound: versions of a flow
  MaxFlows,      \* JAIBA_MAX_FLOWS
  Callers,       \* requests served at the same time
  Usages,        \* what they ask for and what may fail: see UsageType
  MaxTimers,     \* bound: timer tasks that exist at the same time
  MaxInstances   \* bound: supervisors in use at the same time

Versions  == 1 .. MaxVersions
Timers    == 1 .. MaxTimers
Instances == 1 .. MaxInstances
None      == 0

Requests == {"create", "publish", "validate", "archive", "deploy", "rollback",
             "stop", "start", "trigger"}
Faults   == {"stop", "start", "disk", "crash"}

\* persistent: JAIBA_DATA_DIR is set; scheduled: the versions whose
\* YAML has an interval or a cron schedule; overlap: what a trigger does.
UsageType == [callers : SUBSET Callers, flows : SUBSET FlowIds, persistent : BOOLEAN,
              requests : SUBSET Requests, faults : SUBSET Faults,
              scheduled : SUBSET Versions, overlap : {"skip", "queue", "replace"}]

ASSUME RegistryAssumption ==
  /\ MaxVersions \in Nat /\ MaxFlows \in Nat \ {0}
  /\ MaxTimers \in Nat /\ MaxInstances \in Nat
  /\ Usages \subseteq UsageType
  /\ Callers \cap Timers = {} /\ None \notin Callers

VARIABLES
  usage,     \* chosen once
  records,   \* versions and states, in memory
  disk, tmp, \* flows.json and flows.tmp
  loaded,    \* `running`: the version and the supervisor of each loaded flow
  live,      \* the supervisors whose engine is at work
  deployer,  \* who holds deployment_lock
  fired,     \* flows with a last_fire_at in schedules.json
  armed,     \* the timer whose handle FlowScheduler keeps, for each flow
  aborted,   \* timers whose handle was aborted, and who have not seen it yet
  place, job,   \* where each call and each timer is, and what it is about
  answered   \* flows whose last change was answered as done, and by what

storeVars == <<records, disk, tmp, answered>>
timerVars == <<fired, armed, aborted>>
registryVars == <<usage, storeVars, loaded, live, deployer, timerVars, place, job>>

Processes == Callers \cup Timers
States    == {"DRAFT", "VALIDATED", "DEPLOYED", "ARCHIVED"}

NewRecord == [state |-> [v \in Versions |-> "none"], deployed |-> {}, active |-> None]
FlowRecord    == [state : [Versions -> States \cup {"none"}],
              deployed : SUBSET Versions,       \* deployed_at is set
              active : Versions \cup {None}]
Snapshots == [FlowIds -> FlowRecord]
NoFile    == [f \in {} |-> None]

Entry   == [version : Versions, inst : Instances]
Nothing == [version |-> None, inst |-> None]
NoJob   == [flow |-> None, version |-> None, start |-> FALSE, archived |-> FALSE,
            prev |-> Nothing, inst |-> None, next |-> "idle", snap |-> NoFile]

Steps == {"idle", "read", "write", "rename", "validating", "archiving", "deploying", "locked", "checked",
          "removed", "starting", "restoring", "recording",
          "disarming", "unloading", "unloaded", "got",
          "arming", "fire", "fireWait", "fireStop", "fireStart", "spawning",
          "tick"}

\* Types; the lock is held exactly between its two ends; a timer that does not
\* exist is not armed.
RegistryTypeOK ==
  /\ usage \in Usages
  /\ records \in Snapshots /\ disk \in Snapshots
  /\ tmp \in Snapshots \cup {NoFile}
  /\ loaded \in [FlowIds -> Entry \cup {Nothing}]
  /\ live \subseteq Instances
  /\ deployer \in Callers \cup {None}
  /\ fired \subseteq FlowIds
  /\ answered \in [FlowIds -> {"no", "change", "deployment"}]
  /\ armed \in [FlowIds -> Timers \cup {None}]
  /\ aborted \subseteq Timers
  /\ place \in [Processes -> Steps]
  /\ \A p \in Processes : place[p] = "idle" => job[p] = NoJob
  /\ \A c \in Callers :
       deployer = c <=> \/ place[c] \in {"locked", "checked", "removed", "starting", "restoring",
                                      "recording"}
                        \/ place[c] \in {"read", "write", "rename"} /\ job[c].next = "synced"

RegistryInit ==
  /\ usage \in Usages
  /\ records = [f \in FlowIds |-> NewRecord]
  /\ disk = records
  /\ tmp = NoFile
  /\ loaded = [f \in FlowIds |-> Nothing]
  /\ live = {}
  /\ deployer = None
  /\ fired = {}
  /\ answered = [f \in FlowIds |-> "no"]
  /\ armed = [f \in FlowIds |-> None]
  /\ aborted = {}
  /\ place = [p \in Processes |-> "idle"]
  /\ job = [p \in Processes |-> NoJob]

May(fault) == fault \in usage.faults
At(p, step) == place[p] = step

\* p goes on to a step, with its job changed.
GoesTo(p, step, j) ==
  /\ place' = [place EXCEPT ![p] = step]
  /\ job' = [job EXCEPT ![p] = j]

Advance(p, step) == GoesTo(p, step, job[p])

\* A call answers; a timer waits for its next tick.
Return(p) ==
  IF p \in Timers THEN GoesTo(p, "tick", [job[p] EXCEPT !.inst = None])
                  ELSE GoesTo(p, "idle", NoJob)

\* A request for flow f arrives.
Request(c, request, f, step, j) ==
  /\ c \in usage.callers /\ f \in usage.flows /\ request \in usage.requests
  /\ At(c, "idle")
  /\ GoesTo(c, step, [j EXCEPT !.flow = f])

Known(f, v) == records[f].state[v] # "none"

\* Supervisors nobody has a handle to and whose engine is idle: dropped.
HandleHeld(i) ==
  \/ \E f \in FlowIds : loaded[f].inst = i
  \/ \E p \in Processes : job[p].inst = i \/ job[p].prev.inst = i
Fresh(i) == i \notin live /\ ~HandleHeld(i) /\ \A h \in Instances : h < i => h \in live \/ HandleHeld(h)

\* FlowSupervisor::start: true, false when it is live, or an error.
Starts(i)   == i \notin live /\ live' = live \cup {i}
Refuses(i)  == i \in live /\ UNCHANGED live
StartErr(i) == May("start") /\ i \notin live /\ UNCHANGED live

\* FlowSupervisor::stop_gracefully: done, or an error, with the engine kept or
\* gone: the drain timed out, or the engine ended in an error, now or long ago
\* (whether one that is gone left an error is not kept: it may have).
Stops(i)   == live' = live \ {i}
StopErr(i) == May("stop") /\ live' \in {live, live \ {i}}

----------------------------------------------------------------------------
\* persist: the snapshot, flows.tmp, flows.json.

PersistWrites(p) ==
  /\ At(p, "write")
  /\ tmp' = job[p].snap
  /\ Advance(p, "rename")
  /\ UNCHANGED <<usage, records, disk, answered, loaded, live, deployer, timerVars>>

Answers(f, how) == answered' = [answered EXCEPT ![f] = how]

\* The answer, or what a handler does next.
PersistDone(p) ==
  /\ IF job[p].next = "idle" THEN Return(p)
     ELSE GoesTo(p, job[p].next, [job[p] EXCEPT !.next = "idle", !.snap = NoFile])
  /\ Answers(job[p].flow, "change")
  /\ UNCHANGED deployer

\* A deployment answers, and gives up the lock, whatever came of it; then
\* sync_schedule.
DeploymentDone(p) ==
  /\ GoesTo(p, IF job[p].start THEN "arming" ELSE "disarming",
           [job[p] EXCEPT !.next = "answer", !.snap = NoFile])
  /\ Answers(job[p].flow, "deployment")
  /\ deployer' = None

Deploying(p) == job[p].next = "synced"

\* Without a data directory there is nothing to write.
PersistReads(p) ==
  /\ At(p, "read")
  /\ IF usage.persistent
     THEN GoesTo(p, "write", [job[p] EXCEPT !.snap = records]) /\ UNCHANGED <<answered, deployer>>
     ELSE IF Deploying(p) THEN DeploymentDone(p) ELSE PersistDone(p)
  /\ UNCHANGED <<usage, records, disk, tmp, loaded, live, timerVars>>

PersistRenames(p) ==
  /\ At(p, "rename")
  /\ tmp # NoFile
  /\ disk' = tmp /\ tmp' = NoFile
  /\ IF Deploying(p) THEN DeploymentDone(p) ELSE PersistDone(p)
  /\ UNCHANGED <<usage, records, loaded, live, timerVars>>

\* Mistake: the error of persist is not returned.
PersistErrorIgnored(p) ==
  /\ \/ At(p, "rename") /\ tmp = NoFile
     \/ At(p, "write") /\ May("disk")
  /\ IF Deploying(p) THEN DeploymentDone(p) ELSE PersistDone(p)
  /\ UNCHANGED <<usage, records, disk, tmp, loaded, live, timerVars>>

\* Another writer renamed the file first, or the disk fails: an error for the
\* caller, though the change stays in memory.  A deployment only logs it; for a
\* seed it is the end of the process, which is what ServerCrash does.
PersistFails(p) ==
  /\ \/ At(p, "rename") /\ tmp = NoFile
     \/ At(p, "write") /\ May("disk")
  /\ job[p].next # "arming"
  /\ IF Deploying(p) THEN DeploymentDone(p) ELSE Return(p) /\ UNCHANGED <<answered, deployer>>
  /\ UNCHANGED <<usage, records, disk, tmp, loaded, live, timerVars>>

\* A change of a record, which the persist follows.
Change(f, record) ==
  /\ records' = [records EXCEPT ![f] = record]
  /\ answered' = [answered EXCEPT ![f] = "no"]

----------------------------------------------------------------------------
\* create_draft, validate_version, archive_version; deploy_flow in one call.

NextVersion(f) == Cardinality({v \in Versions : Known(f, v)}) + 1

Drafted(f) == [records[f] EXCEPT !.state[NextVersion(f)] = "DRAFT"]

CreateDraft(c, f, request, next) ==
  /\ NextVersion(f) \in Versions
  /\ Request(c, request, f, "read", [NoJob EXCEPT !.version = NextVersion(f), !.next = next,
                                                   !.start = (request = "publish")])
  /\ Change(f, Drafted(f))
  /\ UNCHANGED <<usage, disk, tmp, loaded, live, deployer, timerVars>>

Create(c, f)  == CreateDraft(c, f, "create", "idle")
Publish(c, f) == CreateDraft(c, f, "publish", "validating")

\* A version that does not parse is refused, and nothing changes.
Validated(f, v) == [records[f] EXCEPT !.state[v] = "VALIDATED"]

Validate(c, f, v) ==
  /\ Known(f, v) /\ records[f].state[v] # "ARCHIVED"
  /\ Request(c, "validate", f, "read", NoJob)
  /\ Change(f, Validated(f, v))
  /\ UNCHANGED <<usage, disk, tmp, loaded, live, deployer, timerVars>>

PublishValidates(c) ==
  LET f == job[c].flow  v == job[c].version IN
  /\ At(c, "validating")
  /\ IF records[f].state[v] = "ARCHIVED" THEN Return(c) /\ UNCHANGED <<records, answered>>
     ELSE /\ GoesTo(c, "read", [job[c] EXCEPT !.next = "deploying"])
          /\ Change(f, Validated(f, v))
  /\ UNCHANGED <<usage, disk, tmp, loaded, live, deployer, timerVars>>

Archivable(f, v) == loaded[f].version # v

Archive(c, f, v) ==
  /\ Known(f, v)
  /\ Archivable(f, v)
  /\ Request(c, "archive", f, "archiving", [NoJob EXCEPT !.version = v])
  /\ UNCHANGED <<usage, storeVars, loaded, live, deployer, timerVars>>

\* The check and the change take different locks.
Archives(c) ==
  LET f == job[c].flow  v == job[c].version IN
  /\ At(c, "archiving")
  /\ Change(f, [records[f] EXCEPT !.state[v] = "ARCHIVED", !.active = IF @ = v THEN None ELSE @])
  /\ GoesTo(c, "read", [NoJob EXCEPT !.flow = f])
  /\ UNCHANGED <<usage, disk, tmp, loaded, live, deployer, timerVars>>

----------------------------------------------------------------------------
\* deploy_version and rollback: activate, under deployment_lock.

Deploy(c, f, v, start) ==
  /\ Known(f, v)
  /\ Request(c, "deploy", f, "deploying", [NoJob EXCEPT !.version = v, !.start = start])
  /\ UNCHANGED <<usage, storeVars, loaded, live, deployer, timerVars>>

Rollback(c, f, start) ==
  /\ Request(c, "rollback", f, "deploying", [NoJob EXCEPT !.start = start, !.archived = TRUE])
  /\ UNCHANGED <<usage, storeVars, loaded, live, deployer, timerVars>>

DeployLocks(c) ==
  /\ At(c, "deploying")
  /\ deployer = None
  /\ deployer' = c
  /\ Advance(c, "locked")
  /\ UNCHANGED <<usage, storeVars, loaded, live, timerVars>>

\* The latest version that was deployed before, other than the active one.
Earlier(f) ==
  {v \in records[f].deployed :
     v # records[f].active /\ records[f].state[v] \in {"ARCHIVED", "DEPLOYED"}}

Target(c) ==
  LET f == job[c].flow IN
  IF ~job[c].archived THEN {job[c].version}
  ELSE {v \in Earlier(f) : \A w \in Earlier(f) : w <= v}

Deployable(f, v, archived) ==
  CASE records[f].state[v] = "DRAFT" -> FALSE
    [] records[f].state[v] = "ARCHIVED" -> archived
    [] OTHER -> TRUE

Room(f) ==
  loaded[f] # Nothing \/ Cardinality({g \in FlowIds : loaded[g] # Nothing}) < MaxFlows

ActivateRefused(c) ==
  LET f == job[c].flow IN
  /\ At(c, "locked")
  /\ \A v \in Target(c) : Deployable(f, v, job[c].archived) => job[c].start /\ ~Room(f)
  /\ deployer' = None
  /\ Return(c)
  /\ UNCHANGED <<usage, storeVars, loaded, live, timerVars>>

ActivateChecks(c) ==
  LET f == job[c].flow IN
  /\ At(c, "locked")
  /\ \E v \in Target(c), i \in Instances :
       /\ Deployable(f, v, job[c].archived)
       /\ job[c].start => Room(f)
       /\ Fresh(i)
       /\ GoesTo(c, "checked", [job[c] EXCEPT !.version = v, !.inst = i])
  /\ UNCHANGED <<usage, storeVars, loaded, live, deployer, timerVars>>

ActivateRemoves(c) ==
  LET f == job[c].flow IN
  /\ At(c, "checked")
  /\ loaded' = [loaded EXCEPT ![f] = Nothing]
  /\ GoesTo(c, IF loaded[f] # Nothing THEN "removed"
               ELSE IF job[c].start THEN "starting" ELSE "recording",
           [job[c] EXCEPT !.prev = loaded[f]])
  /\ UNCHANGED <<usage, storeVars, live, deployer, timerVars>>

ActivateStops(c) ==
  /\ At(c, "removed")
  /\ Stops(job[c].prev.inst)
  /\ Advance(c, IF job[c].start THEN "starting" ELSE "recording")
  /\ UNCHANGED <<usage, storeVars, loaded, deployer, timerVars>>

\* Mistake: the previous version is not put back.
ActivateLosesOld(c) ==
  /\ At(c, "removed")
  /\ StopErr(job[c].prev.inst)
  /\ deployer' = None
  /\ Return(c)
  /\ UNCHANGED <<usage, storeVars, loaded, timerVars>>

ActivateKeepsOld(c) ==
  /\ At(c, "removed")
  /\ StopErr(job[c].prev.inst)
  /\ loaded' = [loaded EXCEPT ![job[c].flow] = job[c].prev]
  /\ deployer' = None
  /\ Return(c)
  /\ UNCHANGED <<usage, storeVars, timerVars>>

Loads(f, v, i) == loaded' = [loaded EXCEPT ![f] = [version |-> v, inst |-> i]]

ActivateStarts(c) ==
  /\ At(c, "starting")
  /\ Starts(job[c].inst)
  /\ Loads(job[c].flow, job[c].version, job[c].inst)
  /\ Advance(c, "recording")
  /\ UNCHANGED <<usage, storeVars, deployer, timerVars>>

ActivateFails(c) ==
  /\ At(c, "starting")
  /\ StartErr(job[c].inst)
  /\ IF job[c].prev = Nothing
     THEN Return(c) /\ deployer' = None
     ELSE Advance(c, "restoring") /\ UNCHANGED deployer
  /\ UNCHANGED <<usage, storeVars, loaded, timerVars>>

\* restore_previous: a new supervisor of the previous version, started or not;
\* or the old one, stopped, when its YAML is no longer valid.
ActivateRestores(c) ==
  LET f == job[c].flow  v == job[c].prev.version IN
  /\ At(c, "restoring")
  /\ \/ \E i \in Instances : Fresh(i) /\ (Starts(i) \/ StartErr(i)) /\ Loads(f, v, i)
     \/ loaded' = [loaded EXCEPT ![f] = job[c].prev] /\ UNCHANGED live
  /\ deployer' = None
  /\ Return(c)
  /\ UNCHANGED <<usage, storeVars, timerVars>>

DeployedAfter(record, v) ==
  [state |-> [w \in Versions |-> CASE w = v -> "DEPLOYED"
                                  [] w = record.active -> "ARCHIVED"
                                  [] OTHER -> record.state[w]],
   deployed |-> record.deployed \cup {v}, active |-> v]

ActivateRecords(c) ==
  LET f == job[c].flow  v == job[c].version IN
  /\ At(c, "recording")
  /\ Change(f, DeployedAfter(records[f], v))
  /\ GoesTo(c, "read", [NoJob EXCEPT !.flow = f, !.start = job[c].start, !.next = "synced"])
  /\ UNCHANGED <<usage, disk, tmp, loaded, live, deployer, timerVars>>

----------------------------------------------------------------------------
\* stop_flow: disarm, then stop_and_unload.

Stop(c, f) ==
  /\ Request(c, "stop", f, "disarming", NoJob)
  /\ UNCHANGED <<usage, storeVars, loaded, live, deployer, timerVars>>

\* Mistake: the handle is forgotten, the task goes on.
DisarmsOnly(f) == armed' = [armed EXCEPT ![f] = None] /\ UNCHANGED aborted

Disarms(f) ==
  /\ armed' = [armed EXCEPT ![f] = None]
  /\ aborted' = aborted \cup ({armed[f]} \cap {t \in Timers : ~At(t, "idle")})

\* Of stop_flow, and of a deployment without start.
Disarm(c) ==
  /\ At(c, "disarming")
  /\ Disarms(job[c].flow)
  /\ IF job[c].next = "answer" THEN Return(c) ELSE Advance(c, "unloading")
  /\ UNCHANGED <<usage, storeVars, loaded, live, deployer, fired>>

Unload(c) ==
  LET f == job[c].flow IN
  /\ At(c, "unloading")
  /\ loaded' = [loaded EXCEPT ![f] = Nothing]
  /\ IF loaded[f] = Nothing THEN Return(c)
     ELSE GoesTo(c, "unloaded", [job[c] EXCEPT !.prev = loaded[f]])
  /\ UNCHANGED <<usage, storeVars, live, deployer, timerVars>>

UnloadStops(c) ==
  /\ At(c, "unloaded")
  /\ Stops(job[c].prev.inst)
  /\ Return(c)
  /\ UNCHANGED <<usage, storeVars, loaded, deployer, timerVars>>

\* Whatever was loaded meanwhile is replaced.
UnloadKeeps(c) ==
  /\ At(c, "unloaded")
  /\ StopErr(job[c].prev.inst)
  /\ loaded' = [loaded EXCEPT ![job[c].flow] = job[c].prev]
  /\ Return(c)
  /\ UNCHANGED <<usage, storeVars, deployer, timerVars>>

----------------------------------------------------------------------------
\* start_flow: the supervisor is looked up, then started; true arms it.

Start(c, f) ==
  /\ loaded[f] # Nothing
  /\ Request(c, "start", f, "got", [NoJob EXCEPT !.inst = loaded[f].inst])
  /\ UNCHANGED <<usage, storeVars, loaded, live, deployer, timerVars>>

StartActs(c) ==
  LET i == job[c].inst IN
  /\ At(c, "got")
  /\ \/ Starts(i) /\ GoesTo(c, "arming", [job[c] EXCEPT !.inst = None, !.next = "answer"])
     \/ (Refuses(i) \/ StartErr(i)) /\ Return(c)
  /\ UNCHANGED <<usage, storeVars, loaded, deployer, timerVars>>

\* FlowScheduler::arm.  A flow that is no longer loaded is left alone.
Arm(c) ==
  LET f == job[c].flow IN
  /\ At(c, "arming")
  /\ IF loaded[f] = Nothing THEN Return(c) /\ UNCHANGED <<armed, aborted>>
     ELSE /\ Disarms(f)
          /\ IF loaded[f].version \notin usage.scheduled THEN Return(c)
             ELSE \/ Advance(c, "spawning")
                  \/ f \in fired /\ GoesTo(c, "fire", [job[c] EXCEPT !.next = "spawn"])
  /\ UNCHANGED <<usage, storeVars, loaded, live, deployer, fired>>

\* The handle replaces any that was kept meanwhile.
ArmSpawns(c) ==
  LET f == job[c].flow IN
  /\ At(c, "spawning")
  /\ \E t \in Timers :
       /\ At(t, "idle")
       /\ armed' = [armed EXCEPT ![f] = t]
       /\ place' = [place EXCEPT ![c] = "idle", ![t] = "tick"]
       /\ job' = [job EXCEPT ![c] = NoJob, ![t] = [NoJob EXCEPT !.flow = f]]
  /\ UNCHANGED <<usage, storeVars, loaded, live, deployer, fired, aborted>>

----------------------------------------------------------------------------
\* FlowScheduler::fire, by a trigger, by a timer, or by arm (catch-up).

Trigger(c, f) ==
  /\ loaded[f] # Nothing
  /\ Request(c, "trigger", f, "fire", NoJob)
  /\ UNCHANGED <<usage, storeVars, loaded, live, deployer, timerVars>>

\* A timer of a flow that is no longer loaded ends.
Tick(t) ==
  /\ t \in Timers /\ At(t, "tick")
  /\ IF loaded[job[t].flow] = Nothing
     THEN /\ GoesTo(t, "idle", NoJob)
          /\ armed' = [f \in FlowIds |-> IF armed[f] = t THEN None ELSE armed[f]]
          /\ aborted' = aborted \ {t}
     ELSE Advance(t, "fire") /\ UNCHANGED <<armed, aborted>>
  /\ UNCHANGED <<usage, storeVars, loaded, live, deployer, fired>>

\* The task is dropped at its next wait.
TimerCancelled(t) ==
  /\ t \in aborted
  /\ GoesTo(t, "idle", NoJob)
  /\ aborted' = aborted \ {t}
  /\ UNCHANGED <<usage, storeVars, loaded, live, deployer, fired, armed>>

\* What fire returns to.
Fired(p) ==
  IF job[p].next = "spawn" THEN GoesTo(p, "spawning", [job[p] EXCEPT !.inst = None, !.next = "answer"])
                           ELSE Return(p)

Fire(p) ==
  LET f == job[p].flow IN
  /\ At(p, "fire")
  /\ IF loaded[f] = Nothing THEN Fired(p)
     ELSE GoesTo(p, CASE usage.overlap = "queue" /\ loaded[f].inst \in live -> "fireWait"
                    [] usage.overlap = "replace" /\ loaded[f].inst \in live -> "fireStop"
                    [] OTHER -> "fireStart",
               [job[p] EXCEPT !.inst = loaded[f].inst])
  /\ UNCHANGED <<usage, storeVars, loaded, live, deployer, timerVars>>

\* overlap queue: up to an hour, then an error.
FireIdle(p) ==
  /\ At(p, "fireWait")
  /\ \/ job[p].inst \notin live /\ Advance(p, "fireStart")
     \/ Fired(p)
  /\ UNCHANGED <<usage, storeVars, loaded, live, deployer, timerVars>>

\* overlap replace.
FireStops(p) ==
  LET i == job[p].inst IN
  /\ At(p, "fireStop")
  /\ \/ Stops(i) /\ Advance(p, "fireStart")
     \/ StopErr(i) /\ Fired(p)
  /\ UNCHANGED <<usage, storeVars, loaded, deployer, timerVars>>

\* An error leaves last_fire_at as it was.
FireStarts(p) ==
  LET i == job[p].inst IN
  /\ At(p, "fireStart")
  /\ \/ (Starts(i) \/ Refuses(i)) /\ fired' = fired \cup {job[p].flow}
     \/ StartErr(i) /\ UNCHANGED fired
  /\ Fired(p)
  /\ UNCHANGED <<usage, storeVars, loaded, deployer, armed, aborted>>

----------------------------------------------------------------------------
\* A run ends by itself; the process ends and starts again.

EngineEnds(i) ==
  /\ i \in live
  /\ live' = live \ {i}
  /\ UNCHANGED <<usage, storeVars, loaded, deployer, timerVars, place, job>>

\* Only flows.json and schedules.json are left: load reads the first.
ServerCrash ==
  /\ May("crash")
  /\ records' = disk /\ tmp' = NoFile
  /\ answered' = [f \in FlowIds |-> "no"]
  /\ loaded' = [f \in FlowIds |-> Nothing] /\ live' = {}
  /\ deployer' = None
  /\ armed' = [f \in FlowIds |-> None] /\ aborted' = {}
  /\ place' = [p \in Processes |-> "idle"]
  /\ job' = [p \in Processes |-> NoJob]
  /\ fired' = IF usage.persistent THEN fired ELSE {}
  /\ UNCHANGED <<usage, disk>>

\* seed_running, before the server accepts calls: the flow that `jaiba serve`
\* was given is loaded as a version of its own, whatever the limit, and armed.
Seed(f, i) ==
  LET v == NextVersion(f) IN
  /\ May("crash") /\ f \in usage.flows
  /\ \A p \in Processes : At(p, "idle")
  /\ \A g \in FlowIds : loaded[g] = Nothing
  /\ v \in Versions
  /\ Fresh(i)
  /\ live' = live \cup {i}
  /\ Change(f, DeployedAfter(Drafted(f), v))
  /\ Loads(f, v, i)
  /\ \E c \in usage.callers :
       GoesTo(c, "read", [NoJob EXCEPT !.flow = f, !.next = "arming"])
  /\ UNCHANGED <<usage, disk, tmp, deployer, timerVars>>

----------------------------------------------------------------------------

Begin(c) ==
  \E f \in FlowIds :
    \/ Create(c, f) \/ Publish(c, f)
    \/ \E v \in Versions : \/ Validate(c, f, v) \/ Archive(c, f, v)
                           \/ \E start \in BOOLEAN : Deploy(c, f, v, start)
    \/ \E start \in BOOLEAN : Rollback(c, f, start)
    \/ Stop(c, f) \/ Start(c, f) \/ Trigger(c, f)

Persist(c) == PersistReads(c) \/ PersistWrites(c) \/ PersistRenames(c) \/ PersistFails(c)

Activate(c) ==
  \/ DeployLocks(c) \/ ActivateRefused(c) \/ ActivateChecks(c) \/ ActivateRemoves(c)
  \/ ActivateStops(c) \/ ActivateKeepsOld(c) \/ ActivateStarts(c) \/ ActivateFails(c)
  \/ ActivateRestores(c) \/ ActivateRecords(c)

GoOn(c) ==
  \/ Persist(c) \/ PublishValidates(c) \/ Archives(c) \/ Activate(c)
  \/ Disarm(c) \/ Unload(c) \/ UnloadStops(c) \/ UnloadKeeps(c)
  \/ StartActs(c) \/ Arm(c) \/ ArmSpawns(c)

Fires(p) == Fire(p) \/ FireIdle(p) \/ FireStops(p) \/ FireStarts(p)

RegistryNext ==
  \/ \E c \in Callers : Begin(c) \/ GoOn(c)
  \/ \E p \in Processes : Fires(p)
  \/ \E t \in Timers : Tick(t) \/ TimerCancelled(t)
  \/ \E i \in Instances : EngineEnds(i) \/ \E f \in FlowIds : Seed(f, i)
  \/ ServerCrash

RegistrySpec == RegistryInit /\ [][RegistryNext]_registryVars

----------------------------------------------------------------------------
(* Properties *)

Alone == \E c \in Callers : usage.callers = {c}

\* Stops that end, of flows nobody starts by another way than a deployment.
Orderly == "stop" \notin usage.faults /\ usage.requests \cap {"archive", "start", "trigger"} = {}

\* activate and its ways back (a stop or a start that fails, the previous
\* version put back): once no call is about a flow, the version that is loaded
\* is the one its record calls active.
LoadedIsActive ==
  Alone \/ Orderly =>
    \A f \in FlowIds :
      loaded[f] # Nothing /\ (\A c \in Callers : job[c].flow # f) =>
        loaded[f].version = records[f].active

\* No engine is lost: the supervisor of each one at work is in the map, or in
\* the hands of the call that starts or stops it, whatever of a deployment or
\* a stop has failed; a timer about to fire may start the supervisor that a
\* deployment or a stop has just taken down.
EnginesReachable ==
  usage.scheduled = {} /\ (Alone \/ Orderly) =>
    \A i \in live :
      \/ \E f \in FlowIds : loaded[f].inst = i
      \/ \E c \in Callers : i \in {job[c].inst, job[c].prev.inst}

\* What is loaded is what the records say and what is at work.
RegistryMatchesEngines == LoadedIsActive /\ EnginesReachable

\* "se desarma al detenerlo": with one operator, the only timer of a flow is the
\* one whose handle the scheduler keeps; any other has been aborted.
OneTimer ==
  Alone => \A t \in Timers \ aborted : ~At(t, "idle") => armed[job[t].flow] = t

\* "Un fallo de persistencia se devuelve como error": with one operator, a
\* draft, a validation or an archive that was answered is in flows.json.
AnsweredIsSaved ==
  Alone => \A f \in FlowIds : usage.persistent /\ answered[f] = "change" => disk[f] = records[f]

=============================================================================
