---------------------------- MODULE ServerProofs ----------------------------
(***************************************************************************)
(* Proofs about what a server keeps.  FlowRegistry, for any flows, callers,*)
(* versions, timers and supervisors: that one operator's flow has one      *)
(* timer, that what was answered as done is in flows.json, and that what   *)
(* is loaded, what the records say and what is at work agree.              *)
(* ConnectionStore, for any administrators, names, profiles, failures and  *)
(* crashes: that the table of profiles is the one on the disk, that a      *)
(* rotated key opens it, and that a profile and its credentials stay       *)
(* together.                                                               *)
(***************************************************************************)
EXTENDS FlowRegistry, ConnectionStore, TLAPS

(* The flows. *)

Persisting == {"read", "write", "rename"}
FireSteps  == {"fire", "fireWait", "fireStop", "fireStart"}
TimerSteps == {"idle", "tick"} \cup FireSteps

Jobs ==
  [flow : FlowIds \cup {None}, version : Versions \cup {None}, start : BOOLEAN, archived : BOOLEAN,
   prev : Entry \cup {Nothing}, inst : Instances \cup {None},
   next : {"idle", "validating", "deploying", "synced", "answer", "arming", "spawn"},
   snap : Snapshots \cup {NoFile}]

\* What a process at each step has in hand: a supervisor to start or to stop, a
\* version to deploy, what is written and what comes after it.
HasInstance == {"checked", "removed", "starting", "got", "fireWait", "fireStop", "fireStart"}
HasVersion  == {"validating", "archiving", "checked", "removed", "starting", "restoring", "recording"}
HasPrevious == {"removed", "restoring", "unloaded"}
AfterPersist == {"idle", "validating", "deploying", "synced", "arming"}

Fits(step, j) ==
  /\ step \in Steps /\ j \in Jobs
  /\ IF step = "idle" THEN j = NoJob ELSE j.flow \in FlowIds
  /\ step \in HasInstance => j.inst \in Instances
  /\ (\/ step \in HasVersion
      \/ (step \in {"deploying", "locked"} /\ ~j.archived)
      \/ j.next \in {"validating", "deploying"})
     => j.version \in Versions
  /\ step \in HasPrevious => j.prev \in Entry
  /\ step \in Persisting => j.next \in AfterPersist

\* Only the callers of the usage are at work; a timer fires or waits.
ProcessFits(p, step, j) ==
  /\ Fits(step, j)
  /\ p \in Callers => step = "idle" \/ (p \in usage.callers /\ step # "tick")
  /\ p \in Timers => step \in TimerSteps /\ j.next = "idle"

DataTypes ==
  /\ usage \in Usages
  /\ records \in Snapshots /\ disk \in Snapshots /\ tmp \in Snapshots \cup {NoFile}
  /\ loaded \in [FlowIds -> Entry \cup {Nothing}]
  /\ live \subseteq Instances
  /\ deployer \in Callers \cup {None}
  /\ fired \subseteq FlowIds
  /\ answered \in [FlowIds -> {"no", "change", "deployment"}]
  /\ armed \in [FlowIds -> Timers \cup {None}]
  /\ aborted \subseteq Timers

ProcessTypes ==
  /\ place \in [Processes -> Steps] /\ job \in [Processes -> Jobs]
  /\ \A p \in Processes : ProcessFits(p, place[p], job[p])

RegistryTypes == DataTypes /\ ProcessTypes

----------------------------------------------------------------------------
(* Operators. *)

\* What is asked of the constants.
LEMMA ConstantFacts ==
  /\ Callers \cap Timers = {} /\ None \notin Callers /\ None \notin Timers /\ None \notin Instances
  /\ None \notin Versions
  /\ Callers \subseteq Processes /\ Timers \subseteq Processes /\ Processes = Callers \cup Timers
BY RegistryAssumption DEF RegistryAssumption, Timers, Instances, Versions, None, Processes

\* The job of one who has none.
LEMMA NoJobFacts ==
  /\ NoJob \in Jobs /\ NoJob.flow = None /\ NoJob.version = None /\ NoJob.start = FALSE
  /\ NoJob.archived = FALSE /\ NoJob.prev = Nothing /\ NoJob.inst = None /\ NoJob.next = "idle"
  /\ NoJob.snap = NoFile
BY DEF NoJob, Jobs

\* A process goes on alone.
LEMMA OneGoes ==
  ASSUME ProcessTypes, NEW p \in Processes, NEW step, NEW j, GoesTo(p, step, j)
  PROVE  /\ place'[p] = step /\ job'[p] = j
         /\ \A q \in Processes \ {p} : place'[q] = place[q] /\ job'[q] = job[q]
         /\ DOMAIN place' = Processes /\ DOMAIN job' = Processes
BY DEF ProcessTypes, GoesTo

\* The types of the processes, when one goes on as it fits.
LEMMA OneFits ==
  ASSUME ProcessTypes, UNCHANGED usage, NEW p \in Processes, NEW step, NEW j, GoesTo(p, step, j),
         ProcessFits(p, step, j)
  PROVE  ProcessTypes'
<1>1. place' \in [Processes -> Steps] /\ job' \in [Processes -> Jobs]
  BY DEF ProcessTypes, GoesTo, ProcessFits, Fits
<1>2. ASSUME NEW q \in Processes PROVE ProcessFits(q, place[q], job[q])'
  <2>1. CASE q = p
    BY <2>1, OneGoes DEF ProcessFits
  <2>2. CASE q # p
    BY <2>2, OneGoes DEF ProcessTypes, ProcessFits
  <2>. QED BY <2>1, <2>2
<1>. QED BY <1>1, <1>2 DEF ProcessTypes

\* A call goes on as it fits.
LEMMA CallGoes ==
  ASSUME RegistryTypes, UNCHANGED usage, NEW c \in Callers, NEW step, NEW j, GoesTo(c, step, j),
         Fits(step, j), step = "idle" \/ (c \in usage.callers /\ step # "tick")
  PROVE  ProcessTypes'
<1>1. c \in Processes /\ c \notin Timers
  BY ConstantFacts
<1>2. ProcessFits(c, step, j)
  BY <1>1 DEF ProcessFits
<1>. QED BY <1>1, <1>2, OneFits DEF RegistryTypes

\* Of a caller that is at work.
LEMMA AtWork ==
  ASSUME RegistryTypes, NEW c \in Callers, place[c] # "idle"
  PROVE  c \in usage.callers /\ Fits(place[c], job[c]) /\ job[c].flow \in FlowIds /\ job[c] \in Jobs
BY ConstantFacts DEF RegistryTypes, ProcessTypes, ProcessFits, Fits

\* A call that returns, or a timer that waits again.
LEMMA ReturnFits ==
  ASSUME RegistryTypes, UNCHANGED usage, NEW p \in Processes, place[p] # "idle", Return(p)
  PROVE  ProcessTypes'
<1>1. CASE p \in Timers
  <2>1. job[p] \in Jobs /\ Fits(place[p], job[p]) /\ job[p].next = "idle" /\ job[p].flow \in FlowIds
    BY <1>1 DEF RegistryTypes, ProcessTypes, ProcessFits, Fits
  <2> DEFINE j == [job[p] EXCEPT !.inst = None]
  <2>2. j \in Jobs /\ j.next = "idle" /\ j.flow \in FlowIds
    BY <2>1 DEF Jobs
  <2>3. GoesTo(p, "tick", j)
    BY <1>1 DEF Return
  <2> HIDE DEF j
  <2>4. ProcessFits(p, "tick", j)
    BY <1>1, <2>2, ConstantFacts
       DEF ProcessFits, Fits, Steps, HasInstance, HasVersion, HasPrevious, Persisting, TimerSteps
  <2>. QED BY <2>3, <2>4, OneFits DEF RegistryTypes
<1>2. CASE p \notin Timers
  <2>1. GoesTo(p, "idle", NoJob) /\ p \in Callers
    BY <1>2, ConstantFacts DEF Return
  <2>2. Fits("idle", NoJob)
    BY NoJobFacts DEF Fits, Steps, HasInstance, HasVersion, HasPrevious, Persisting
  <2>. QED BY <2>1, <2>2, CallGoes
<1>. QED BY <1>1, <1>2

\* What follows a persist: the answer, or what a handler does next.
LEMMA PersistDoneFits ==
  ASSUME RegistryTypes, UNCHANGED usage, NEW c \in Callers, place[c] \in Persisting,
         IF Deploying(c) THEN DeploymentDone(c) ELSE PersistDone(c)
  PROVE  ProcessTypes' /\ deployer' \in Callers \cup {None}
         /\ answered' \in [FlowIds -> {"no", "change", "deployment"}]
<1>1. /\ c \in usage.callers /\ job[c] \in Jobs /\ job[c].flow \in FlowIds /\ c \in Processes
      /\ place[c] # "idle" /\ job[c].next \in AfterPersist
      /\ job[c].next \in {"validating", "deploying"} => job[c].version \in Versions
  BY AtWork, ConstantFacts DEF Persisting, Fits
<1>2. CASE Deploying(c)
  <2> DEFINE j == [job[c] EXCEPT !.next = "answer", !.snap = NoFile]
  <2>1. PICK step \in {"arming", "disarming"} : GoesTo(c, step, j)
    BY <1>2 DEF DeploymentDone
  <2>2. j \in Jobs /\ j.flow \in FlowIds /\ j.next = "answer"
    BY <1>1 DEF Jobs
  <2> HIDE DEF j
  <2>3. Fits(step, j)
    BY <2>2 DEF Fits, Steps, HasInstance, HasVersion, HasPrevious, Persisting
  <2>. QED BY <1>1, <1>2, <2>1, <2>3, CallGoes DEF DeploymentDone, Answers, RegistryTypes, DataTypes
<1>3. CASE ~Deploying(c)
  <2>1. PersistDone(c)
    BY <1>3
  <2>2. ProcessTypes'
    <3>1. CASE job[c].next = "idle"
      BY <1>1, <2>1, <3>1, ReturnFits DEF PersistDone
    <3>2. CASE job[c].next # "idle"
      <4> DEFINE j == [job[c] EXCEPT !.next = "idle", !.snap = NoFile]
      <4>1. GoesTo(c, job[c].next, j)
        BY <2>1, <3>2 DEF PersistDone
      <4>2. j \in Jobs /\ j.flow \in FlowIds /\ j.next = "idle" /\ j.version = job[c].version
        BY <1>1 DEF Jobs
      <4> HIDE DEF j
      <4>3. job[c].next \in {"validating", "deploying", "arming"}
        BY <1>1, <1>3, <3>2 DEF AfterPersist, Deploying
      <4>4. Fits(job[c].next, j)
        BY <1>1, <4>2, <4>3 DEF Fits, Steps, HasInstance, HasVersion, HasPrevious, Persisting
      <4>. QED BY <1>1, <4>1, <4>3, <4>4, CallGoes
    <3>. QED BY <3>1, <3>2
  <2>. QED BY <1>1, <2>1, <2>2 DEF PersistDone, Answers, RegistryTypes, DataTypes
<1>. QED BY <1>2, <1>3

LEMMA PersistTypes ==
  ASSUME RegistryTypes, NEW c \in Callers, Persist(c)
  PROVE  RegistryTypes'
<1>1. c \in Processes
  BY ConstantFacts
<1>2. CASE PersistReads(c)
  <2>1. place[c] = "read" /\ place[c] \in Persisting /\ place[c] # "idle"
    BY <1>2 DEF PersistReads, At, Persisting
  <2>2. CASE usage.persistent
    <3> DEFINE j == [job[c] EXCEPT !.snap = records]
    <3>1. GoesTo(c, "write", j)
      BY <1>2, <2>2 DEF PersistReads
    <3>2. /\ job[c] \in Jobs /\ c \in usage.callers /\ records \in Snapshots /\ Fits("read", job[c])
          /\ job[c].flow \in FlowIds
      BY <2>1, AtWork DEF RegistryTypes, DataTypes
    <3>3. j \in Jobs /\ j.flow = job[c].flow /\ j.next = job[c].next /\ j.version = job[c].version
      BY <3>2 DEF Jobs
    <3> HIDE DEF j
    <3>4. Fits("write", j)
      BY <3>2, <3>3 DEF Fits, Steps, HasInstance, HasVersion, HasPrevious, Persisting
    <3>5. ProcessTypes'
      BY <1>2, <3>1, <3>2, <3>4, CallGoes DEF PersistReads
    <3>. QED BY <1>2, <2>2, <3>5 DEF PersistReads, RegistryTypes, DataTypes, timerVars
  <2>3. CASE ~usage.persistent
    BY <1>2, <2>1, <2>3, PersistDoneFits DEF PersistReads, RegistryTypes, DataTypes, timerVars
  <2>. QED BY <2>2, <2>3
<1>3. CASE PersistWrites(c)
  <2>1. /\ job[c] \in Jobs /\ c \in usage.callers /\ Fits("write", job[c])
        /\ job[c].flow \in FlowIds
    BY <1>3, AtWork DEF PersistWrites, At
  <2>2. Fits("rename", job[c])
    BY <2>1 DEF Fits, Steps, HasInstance, HasVersion, HasPrevious, Persisting
  <2>3. ProcessTypes'
    BY <1>3, <2>1, <2>2, CallGoes DEF PersistWrites, Advance
  <2>. QED BY <1>3, <2>1, <2>3 DEF PersistWrites, RegistryTypes, DataTypes, timerVars, Jobs
<1>4. CASE PersistRenames(c)
  <2>1. place[c] \in Persisting
    BY <1>4 DEF PersistRenames, At, Persisting
  <2>. QED BY <1>4, <2>1, PersistDoneFits DEF PersistRenames, RegistryTypes, DataTypes, timerVars
<1>5. CASE PersistFails(c)
  <2>1. place[c] \in Persisting /\ place[c] # "idle" /\ UNCHANGED usage
    BY <1>5 DEF PersistFails, At, Persisting
  <2>2. CASE Deploying(c)
    BY <1>5, <2>1, <2>2, PersistDoneFits DEF PersistFails, RegistryTypes, DataTypes, timerVars
  <2>3. CASE ~Deploying(c)
    <3>1. ProcessTypes'
      BY <1>1, <1>5, <2>1, <2>3, ReturnFits DEF PersistFails
    <3>. QED BY <1>5, <2>3, <3>1 DEF PersistFails, RegistryTypes, DataTypes, timerVars
  <2>. QED BY <2>2, <2>3
<1>. QED BY <1>2, <1>3, <1>4, <1>5 DEF Persist

\* A request arrives: the job of who serves it is about the flow.
LEMMA RequestGoes ==
  ASSUME RegistryTypes, UNCHANGED usage, NEW c \in Callers, NEW request, NEW f \in FlowIds,
         NEW step \in Steps \ {"idle", "tick"}, NEW j \in Jobs, Request(c, request, f, step, j),
         j.next = "idle", step \notin Persisting \cup HasPrevious,
         step \in HasInstance => j.inst \in Instances,
         step \in HasVersion \/ (step \in {"deploying", "locked"} /\ ~j.archived) => j.version \in Versions
  PROVE  ProcessTypes'
<1> DEFINE k == [j EXCEPT !.flow = f]
<1>1. /\ k \in Jobs /\ k.flow = f /\ k.next = j.next /\ k.inst = j.inst /\ k.version = j.version
      /\ k.archived = j.archived
  BY DEF Jobs
<1>2. GoesTo(c, step, k) /\ c \in usage.callers
  BY DEF Request
<1> HIDE DEF k
<1>3. Fits(step, k)
  BY <1>1 DEF Fits, Persisting
<1>. QED BY <1>2, <1>3, CallGoes

\* A request that begins with a persist.
LEMMA RequestPersists ==
  ASSUME RegistryTypes, UNCHANGED usage, NEW c \in Callers, NEW request, NEW f \in FlowIds,
         NEW j \in Jobs, Request(c, request, f, "read", j), j.next \in AfterPersist,
         j.next \in {"validating", "deploying"} => j.version \in Versions
  PROVE  ProcessTypes'
<1> DEFINE k == [j EXCEPT !.flow = f]
<1>1. k \in Jobs /\ k.flow = f /\ k.next = j.next /\ k.version = j.version
  BY DEF Jobs
<1>2. GoesTo(c, "read", k) /\ c \in usage.callers
  BY DEF Request
<1> HIDE DEF k
<1>3. Fits("read", k)
  BY <1>1 DEF Fits, Persisting, Steps, HasInstance, HasVersion, HasPrevious
<1>. QED BY <1>2, <1>3, CallGoes

\* What changes a record makes one.
LEMMA ChangeTypes ==
  ASSUME RegistryTypes, NEW f \in FlowIds, NEW r \in FlowRecord, Change(f, r)
  PROVE  records' \in Snapshots /\ answered' \in [FlowIds -> {"no", "change", "deployment"}]
BY DEF RegistryTypes, DataTypes, Change, Snapshots

LEMMA RecordsAre ==
  ASSUME RegistryTypes, NEW f \in FlowIds, NEW v \in Versions
  PROVE  /\ [records[f] EXCEPT !.state[v] = "DRAFT"] \in FlowRecord
         /\ Validated(f, v) \in FlowRecord
         /\ [records[f] EXCEPT !.state[v] = "ARCHIVED", !.active = IF @ = v THEN None ELSE @] \in FlowRecord
         /\ \A r \in FlowRecord : DeployedAfter(r, v) \in FlowRecord
<1>1. records[f] \in FlowRecord
  BY DEF RegistryTypes, DataTypes, Snapshots
<1>2. \A r \in FlowRecord : DeployedAfter(r, v) \in FlowRecord
  BY DEF FlowRecord, DeployedAfter, States
<1>. QED BY <1>1, <1>2 DEF FlowRecord, Validated, States

LEMMA CreateTypes ==
  ASSUME RegistryTypes, NEW c \in Callers, NEW f \in FlowIds, Create(c, f) \/ Publish(c, f)
  PROVE  RegistryTypes'
<1>1. PICK request \in {"create", "publish"}, next \in {"idle", "validating"} : CreateDraft(c, f, request, next)
  BY DEF Create, Publish
<1> DEFINE v == NextVersion(f)
           j == [NoJob EXCEPT !.version = v, !.next = next, !.start = (request = "publish")]
<1>2. v \in Versions /\ Request(c, request, f, "read", j) /\ Change(f, Drafted(f))
      /\ UNCHANGED <<usage, disk, tmp, loaded, live, deployer, timerVars>>
  BY <1>1 DEF CreateDraft
<1>3. j \in Jobs /\ j.next = next /\ j.version = v
  BY <1>2, NoJobFacts DEF Jobs
<1>4. Drafted(f) \in FlowRecord
  BY <1>2, RecordsAre DEF Drafted
<1> HIDE DEF j, v
<1>5. ProcessTypes'
  BY <1>2, <1>3, RequestPersists DEF AfterPersist
<1>. QED BY <1>2, <1>4, <1>5, ChangeTypes DEF RegistryTypes, DataTypes, timerVars

LEMMA ValidateTypes ==
  ASSUME RegistryTypes, NEW c \in Callers,
         (\E f \in FlowIds, v \in Versions : Validate(c, f, v)) \/ PublishValidates(c)
  PROVE  RegistryTypes'
<1>1. ASSUME NEW f \in FlowIds, NEW v \in Versions, Validate(c, f, v) PROVE RegistryTypes'
  <2>1. ProcessTypes'
    BY <1>1, NoJobFacts, RequestPersists DEF Validate, AfterPersist
  <2>. QED BY <1>1, <2>1, RecordsAre, ChangeTypes DEF Validate, RegistryTypes, DataTypes, timerVars
<1>2. CASE PublishValidates(c)
  <2> DEFINE f == job[c].flow
             v == job[c].version
             j == [job[c] EXCEPT !.next = "deploying"]
  <2>1. /\ place[c] = "validating" /\ f \in FlowIds /\ v \in Versions /\ job[c] \in Jobs
        /\ c \in usage.callers /\ c \in Processes
    BY <1>2, AtWork, ConstantFacts DEF PublishValidates, At, Fits, HasVersion
  <2>2. CASE records[f].state[v] = "ARCHIVED"
    <3>1. ProcessTypes'
      BY <1>2, <2>1, <2>2, ReturnFits DEF PublishValidates
    <3>. QED BY <1>2, <2>2, <3>1 DEF PublishValidates, RegistryTypes, DataTypes, timerVars
  <2>3. CASE records[f].state[v] # "ARCHIVED"
    <3>1. GoesTo(c, "read", j) /\ Change(f, Validated(f, v)) /\ UNCHANGED usage
      BY <1>2, <2>3 DEF PublishValidates
    <3>2. j \in Jobs /\ j.flow = f /\ j.version = v /\ j.next = "deploying"
      BY <2>1 DEF Jobs
    <3>3. records' \in Snapshots /\ answered' \in [FlowIds -> {"no", "change", "deployment"}]
      BY <2>1, <3>1, RecordsAre, ChangeTypes
    <3> HIDE DEF j, f, v
    <3>4. Fits("read", j)
      BY <2>1, <3>2 DEF Fits, Steps, HasInstance, HasVersion, HasPrevious, Persisting, AfterPersist
    <3>5. ProcessTypes'
      BY <2>1, <3>1, <3>4, CallGoes
    <3>. QED BY <1>2, <3>3, <3>5 DEF PublishValidates, RegistryTypes, DataTypes, timerVars
  <2>. QED BY <2>2, <2>3
<1>. QED BY <1>1, <1>2

LEMMA ArchiveTypes ==
  ASSUME RegistryTypes, NEW c \in Callers,
         (\E f \in FlowIds, v \in Versions : Archive(c, f, v)) \/ Archives(c)
  PROVE  RegistryTypes'
<1>1. ASSUME NEW f \in FlowIds, NEW v \in Versions, Archive(c, f, v) PROVE RegistryTypes'
  <2> DEFINE j == [NoJob EXCEPT !.version = v]
  <2>1. j \in Jobs /\ j.version = v /\ j.next = "idle"
    BY NoJobFacts DEF Jobs
  <2>2. Request(c, "archive", f, "archiving", j) /\ UNCHANGED usage
    BY <1>1 DEF Archive
  <2> HIDE DEF j
  <2>3. ProcessTypes'
    BY <2>1, <2>2, RequestGoes DEF Steps, HasInstance, HasPrevious, Persisting
  <2>. QED BY <1>1, <2>3 DEF Archive, RegistryTypes, DataTypes, timerVars, storeVars
<1>2. CASE Archives(c)
  <2> DEFINE f == job[c].flow
             v == job[c].version
             j == [NoJob EXCEPT !.flow = f]
             r == [records[f] EXCEPT !.state[v] = "ARCHIVED", !.active = IF @ = v THEN None ELSE @]
  <2>1. f \in FlowIds /\ v \in Versions /\ c \in usage.callers
    BY <1>2, AtWork DEF Archives, At, Fits, HasVersion
  <2>2. j \in Jobs /\ j.flow = f /\ j.next = "idle"
    BY <2>1, NoJobFacts DEF Jobs
  <2>3. GoesTo(c, "read", j) /\ Change(f, r) /\ UNCHANGED usage
    BY <1>2 DEF Archives
  <2>4. r \in FlowRecord
    BY <2>1, RecordsAre
  <2> HIDE DEF j, r, f, v
  <2>5. Fits("read", j)
    BY <2>1, <2>2 DEF Fits, Steps, HasInstance, HasVersion, HasPrevious, Persisting, AfterPersist
  <2>6. ProcessTypes'
    BY <2>1, <2>3, <2>5, CallGoes
  <2>7. records' \in Snapshots /\ answered' \in [FlowIds -> {"no", "change", "deployment"}]
    BY <2>1, <2>3, <2>4, ChangeTypes
  <2>. QED BY <1>2, <2>6, <2>7 DEF Archives, RegistryTypes, DataTypes, timerVars
<1>. QED BY <1>1, <1>2

LEMMA DeployTypes ==
  ASSUME RegistryTypes, NEW c \in Callers, NEW f \in FlowIds, NEW start \in BOOLEAN,
         (\E v \in Versions : Deploy(c, f, v, start)) \/ Rollback(c, f, start)
  PROVE  RegistryTypes'
<1> USE DEF Steps, HasInstance, HasVersion, HasPrevious, Persisting
<1>1. ASSUME NEW v \in Versions, Deploy(c, f, v, start) PROVE RegistryTypes'
  <2> DEFINE j == [NoJob EXCEPT !.version = v, !.start = start]
  <2>1. j \in Jobs /\ j.version = v /\ j.next = "idle"
    BY NoJobFacts DEF Jobs
  <2>2. Request(c, "deploy", f, "deploying", j) /\ UNCHANGED usage
    BY <1>1 DEF Deploy
  <2> HIDE DEF j
  <2>3. ProcessTypes'
    BY <2>1, <2>2, RequestGoes
  <2>. QED BY <1>1, <2>3 DEF Deploy, RegistryTypes, DataTypes, timerVars, storeVars
<1>2. CASE Rollback(c, f, start)
  <2> DEFINE j == [NoJob EXCEPT !.start = start, !.archived = TRUE]
  <2>1. j \in Jobs /\ j.archived = TRUE /\ j.next = "idle"
    BY NoJobFacts DEF Jobs
  <2>2. Request(c, "rollback", f, "deploying", j) /\ UNCHANGED usage
    BY <1>2 DEF Rollback
  <2> HIDE DEF j
  <2>3. ProcessTypes'
    BY <2>1, <2>2, RequestGoes
  <2>. QED BY <1>2, <2>3 DEF Rollback, RegistryTypes, DataTypes, timerVars, storeVars
<1>. QED BY <1>1, <1>2

\* A call advances with what it has.
LEMMA AdvanceFits ==
  ASSUME RegistryTypes, UNCHANGED usage, NEW c \in Callers, place[c] # "idle",
         NEW step \in Steps \ {"idle", "tick"}, Advance(c, step), step \notin Persisting,
         step \in HasInstance => job[c].inst \in Instances,
         step \in HasVersion \/ (step \in {"deploying", "locked"} /\ ~job[c].archived)
           => job[c].version \in Versions,
         step \in HasPrevious => job[c].prev \in Entry
  PROVE  ProcessTypes'
<1>1. c \in usage.callers /\ Fits(place[c], job[c])
  BY AtWork
<1>2. Fits(step, job[c])
  BY <1>1, AtWork DEF Fits
<1>. QED BY <1>1, <1>2, CallGoes DEF Advance

LEMMA EntryFacts ==
  /\ Nothing \notin Entry
  /\ \A v \in Versions, i \in Instances : [version |-> v, inst |-> i] \in Entry
  /\ \A e \in Entry : e.version \in Versions /\ e.inst \in Instances
  /\ Nothing.version = None /\ Nothing.inst = None
BY ConstantFacts DEF Entry, Nothing

\* The steps of activate: of one who holds the lock.
LEMMA ActivateTypes1 ==
  ASSUME RegistryTypes, NEW c \in Callers,
         DeployLocks(c) \/ ActivateRefused(c) \/ ActivateChecks(c) \/ ActivateRemoves(c) \/ ActivateStops(c)
  PROVE  RegistryTypes'
<1>1. c \in Processes
  BY ConstantFacts
<1>2. CASE DeployLocks(c)
  <2>1. place[c] = "deploying" /\ Fits("deploying", job[c])
    BY <1>2, AtWork DEF DeployLocks, At
  <2>2. ProcessTypes'
    BY <1>2, <2>1, AdvanceFits
       DEF DeployLocks, Fits, Steps, HasInstance, HasVersion, HasPrevious, Persisting
  <2>. QED BY <1>2, <2>2 DEF DeployLocks, RegistryTypes, DataTypes, timerVars, storeVars
<1>3. CASE ActivateRefused(c)
  <2>1. ProcessTypes'
    BY <1>1, <1>3, ReturnFits DEF ActivateRefused, At
  <2>. QED BY <1>3, <2>1 DEF ActivateRefused, RegistryTypes, DataTypes, timerVars, storeVars
<1>4. CASE ActivateChecks(c)
  <2>1. PICK v \in Target(c), i \in Instances :
          GoesTo(c, "checked", [job[c] EXCEPT !.version = v, !.inst = i])
    BY <1>4 DEF ActivateChecks
  <2>2. /\ Fits("locked", job[c]) /\ c \in usage.callers /\ job[c] \in Jobs /\ job[c].flow \in FlowIds
        /\ UNCHANGED usage
    BY <1>4, AtWork DEF ActivateChecks, At
  <2>3. v \in Versions
    <3>1. CASE job[c].archived
      <4>1. Target(c) \subseteq Earlier(job[c].flow)
        BY <3>1 DEF Target
      <4>2. Earlier(job[c].flow) \subseteq Versions
        BY <2>2 DEF Earlier, RegistryTypes, DataTypes, Snapshots, FlowRecord
      <4>. QED BY <4>1, <4>2
    <3>2. CASE ~job[c].archived
      BY <2>2, <3>2 DEF Target, Fits
    <3>. QED BY <3>1, <3>2
  <2> DEFINE j == [job[c] EXCEPT !.version = v, !.inst = i]
  <2>4. j \in Jobs /\ j.flow = job[c].flow /\ j.version = v /\ j.inst = i
    BY <2>2, <2>3 DEF Jobs
  <2>5. GoesTo(c, "checked", j)
    BY <2>1
  <2> HIDE DEF j
  <2>6. Fits("checked", j)
    BY <2>2, <2>3, <2>4 DEF Fits, Steps, HasInstance, HasVersion, HasPrevious, Persisting
  <2>7. ProcessTypes'
    BY <2>2, <2>5, <2>6, CallGoes
  <2>. QED BY <1>4, <2>7 DEF ActivateChecks, RegistryTypes, DataTypes, timerVars, storeVars
<1>5. CASE ActivateRemoves(c)
  <2> DEFINE f == job[c].flow
             j == [job[c] EXCEPT !.prev = loaded[f]]
  <2>1. /\ Fits("checked", job[c]) /\ c \in usage.callers /\ job[c] \in Jobs /\ f \in FlowIds
        /\ UNCHANGED usage
    BY <1>5, AtWork DEF ActivateRemoves, At
  <2>2. loaded[f] \in Entry \cup {Nothing}
    BY <2>1 DEF RegistryTypes, DataTypes
  <2>3. PICK step \in {"removed", "starting", "recording"} :
          GoesTo(c, step, j) /\ (step = "removed" => loaded[f] # Nothing)
    BY <1>5 DEF ActivateRemoves
  <2>4. /\ j \in Jobs /\ j.flow = f /\ j.prev = loaded[f] /\ j.version = job[c].version
        /\ j.inst = job[c].inst
    BY <2>1, <2>2 DEF Jobs
  <2> HIDE DEF f, j
  <2>5. Fits(step, j)
    BY <2>1, <2>2, <2>3, <2>4 DEF Fits, Steps, HasInstance, HasVersion, HasPrevious, Persisting
  <2>6. ProcessTypes'
    BY <2>1, <2>3, <2>5, CallGoes
  <2>7. loaded' \in [FlowIds -> Entry \cup {Nothing}]
    BY <1>5 DEF ActivateRemoves, RegistryTypes, DataTypes
  <2>. QED BY <1>5, <2>6, <2>7 DEF ActivateRemoves, RegistryTypes, DataTypes, timerVars, storeVars
<1>6. CASE ActivateStops(c)
  <2>1. place[c] = "removed" /\ Fits("removed", job[c]) /\ UNCHANGED usage
    BY <1>6, AtWork DEF ActivateStops, At
  <2>2. PICK step \in {"starting", "recording"} : Advance(c, step)
    BY <1>6 DEF ActivateStops
  <2>3. ProcessTypes'
    BY <2>1, <2>2, AdvanceFits
       DEF Fits, Steps, HasInstance, HasVersion, HasPrevious, Persisting
  <2>. QED BY <1>6, <2>3 DEF ActivateStops, Stops, RegistryTypes, DataTypes, timerVars, storeVars
<1>. QED BY <1>2, <1>3, <1>4, <1>5, <1>6

LEMMA ActivateTypes2 ==
  ASSUME RegistryTypes, NEW c \in Callers,
         \/ ActivateKeepsOld(c) \/ ActivateStarts(c) \/ ActivateFails(c) \/ ActivateRestores(c)
         \/ ActivateRecords(c)
  PROVE  RegistryTypes'
<1>1. c \in Processes
  BY ConstantFacts
<1>2. CASE ActivateKeepsOld(c)
  <2>1. Fits("removed", job[c]) /\ place[c] # "idle"
    BY <1>2, AtWork DEF ActivateKeepsOld, At
  <2>2. ProcessTypes'
    BY <1>1, <1>2, <2>1, ReturnFits DEF ActivateKeepsOld
  <2>3. loaded' \in [FlowIds -> Entry \cup {Nothing}] /\ live' \subseteq Instances
    BY <1>2, <2>1 DEF ActivateKeepsOld, StopErr, RegistryTypes, DataTypes, Fits, HasPrevious
  <2>. QED BY <1>2, <2>2, <2>3 DEF ActivateKeepsOld, RegistryTypes, DataTypes, timerVars, storeVars
<1>3. CASE ActivateStarts(c)
  <2>1. Fits("starting", job[c]) /\ place[c] # "idle" /\ UNCHANGED usage /\ Advance(c, "recording")
    BY <1>3, AtWork DEF ActivateStarts, At
  <2>2. job[c].version \in Versions /\ job[c].inst \in Instances
    BY <2>1 DEF Fits, HasVersion, HasInstance
  <2>3. ProcessTypes'
    BY <2>1, <2>2, AdvanceFits
       DEF Steps, HasInstance, HasVersion, HasPrevious, Persisting
  <2>4. loaded' \in [FlowIds -> Entry \cup {Nothing}] /\ live' \subseteq Instances
    BY <1>3, <2>2, EntryFacts DEF ActivateStarts, Starts, Loads, RegistryTypes, DataTypes
  <2>. QED BY <1>3, <2>3, <2>4 DEF ActivateStarts, RegistryTypes, DataTypes, timerVars, storeVars
<1>4. CASE ActivateFails(c)
  <2>1. Fits("starting", job[c]) /\ place[c] # "idle" /\ UNCHANGED usage
    BY <1>4, AtWork DEF ActivateFails, At
  <2>2. job[c].version \in Versions /\ job[c].prev \in Entry \cup {Nothing}
    BY <2>1 DEF Fits, HasVersion, Jobs
  <2>3. CASE job[c].prev = Nothing
    <3>1. ProcessTypes'
      BY <1>1, <1>4, <2>1, <2>3, ReturnFits DEF ActivateFails
    <3>. QED BY <1>4, <2>3, <3>1 DEF ActivateFails, StartErr, RegistryTypes, DataTypes, timerVars, storeVars
  <2>4. CASE job[c].prev # Nothing
    <3>1. Advance(c, "restoring")
      BY <1>4, <2>4 DEF ActivateFails
    <3>2. ProcessTypes'
      BY <2>1, <2>2, <2>4, <3>1, AdvanceFits
         DEF Steps, HasInstance, HasVersion, HasPrevious, Persisting
    <3>. QED BY <1>4, <2>4, <3>2 DEF ActivateFails, StartErr, RegistryTypes, DataTypes, timerVars, storeVars
  <2>. QED BY <2>3, <2>4
<1>5. CASE ActivateRestores(c)
  <2>1. /\ job[c].prev \in Entry /\ place[c] # "idle" /\ UNCHANGED usage
        /\ job[c].flow \in FlowIds
    BY <1>5, AtWork DEF ActivateRestores, At, Fits, HasPrevious
  <2>2. ProcessTypes'
    BY <1>1, <1>5, <2>1, ReturnFits DEF ActivateRestores
  <2>3. loaded' \in [FlowIds -> Entry \cup {Nothing}] /\ live' \subseteq Instances
    <3>1. ASSUME NEW i \in Instances, Starts(i) \/ StartErr(i), Loads(job[c].flow, job[c].prev.version, i)
          PROVE  loaded' \in [FlowIds -> Entry \cup {Nothing}] /\ live' \subseteq Instances
      BY <2>1, <3>1, EntryFacts DEF Starts, StartErr, Loads, RegistryTypes, DataTypes
    <3>2. ASSUME loaded' = [loaded EXCEPT ![job[c].flow] = job[c].prev], UNCHANGED live
          PROVE  loaded' \in [FlowIds -> Entry \cup {Nothing}] /\ live' \subseteq Instances
      BY <2>1, <3>2 DEF RegistryTypes, DataTypes
    <3>. QED BY <1>5, <3>1, <3>2 DEF ActivateRestores
  <2>. QED BY <1>5, <2>2, <2>3 DEF ActivateRestores, RegistryTypes, DataTypes, timerVars, storeVars
<1>6. CASE ActivateRecords(c)
  <2> DEFINE f == job[c].flow
             v == job[c].version
             j == [NoJob EXCEPT !.flow = f, !.start = job[c].start, !.next = "synced"]
             r == DeployedAfter(records[f], v)
  <2>1. f \in FlowIds /\ v \in Versions /\ c \in usage.callers /\ job[c].start \in BOOLEAN
    BY <1>6, AtWork DEF ActivateRecords, At, Fits, HasVersion, Jobs
  <2>2. j \in Jobs /\ j.flow = f /\ j.next = "synced"
    BY <2>1, NoJobFacts DEF Jobs
  <2>3. GoesTo(c, "read", j) /\ Change(f, r) /\ UNCHANGED usage
    BY <1>6 DEF ActivateRecords
  <2>4. r \in FlowRecord
    BY <2>1, RecordsAre DEF RegistryTypes, DataTypes, Snapshots
  <2> HIDE DEF j, r, f, v
  <2>5. Fits("read", j)
    BY <2>1, <2>2 DEF Fits, Steps, HasInstance, HasVersion, HasPrevious, Persisting, AfterPersist
  <2>6. ProcessTypes'
    BY <2>1, <2>3, <2>5, CallGoes
  <2>7. records' \in Snapshots /\ answered' \in [FlowIds -> {"no", "change", "deployment"}]
    BY <2>1, <2>3, <2>4, ChangeTypes
  <2>. QED BY <1>6, <2>6, <2>7 DEF ActivateRecords, RegistryTypes, DataTypes, timerVars
<1>. QED BY <1>2, <1>3, <1>4, <1>5, <1>6

LEMMA StopTypes ==
  ASSUME RegistryTypes, NEW c \in Callers,
         \/ \E f \in FlowIds : Stop(c, f)
         \/ Disarm(c) \/ Unload(c) \/ UnloadStops(c) \/ UnloadKeeps(c)
  PROVE  RegistryTypes'
<1>1. c \in Processes
  BY ConstantFacts
<1>2. ASSUME NEW f \in FlowIds, Stop(c, f) PROVE RegistryTypes'
  <2>1. ProcessTypes'
    BY <1>2, NoJobFacts, RequestGoes DEF Stop, Steps, HasInstance, HasVersion, HasPrevious, Persisting
  <2>. QED BY <1>2, <2>1 DEF Stop, RegistryTypes, DataTypes, timerVars, storeVars
<1>3. CASE Disarm(c)
  <2>1. place[c] # "idle" /\ UNCHANGED usage /\ Disarms(job[c].flow)
    BY <1>3 DEF Disarm, At
  <2>2. ProcessTypes'
    <3>1. CASE Return(c)
      BY <1>1, <2>1, <3>1, ReturnFits
    <3>2. CASE Advance(c, "unloading")
      BY <2>1, <3>2, AdvanceFits DEF Steps, HasInstance, HasVersion, HasPrevious, Persisting
    <3>. QED BY <1>3, <3>1, <3>2 DEF Disarm
  <2>3. armed' \in [FlowIds -> Timers \cup {None}] /\ aborted' \subseteq Timers
    BY <2>1 DEF Disarms, RegistryTypes, DataTypes
  <2>. QED BY <1>3, <2>2, <2>3 DEF Disarm, RegistryTypes, DataTypes, storeVars
<1>4. CASE Unload(c)
  <2> DEFINE f == job[c].flow
             j == [job[c] EXCEPT !.prev = loaded[f]]
  <2>1. /\ place[c] = "unloading" /\ UNCHANGED usage /\ f \in FlowIds /\ c \in usage.callers
        /\ job[c] \in Jobs /\ Fits("unloading", job[c])
    BY <1>4, AtWork DEF Unload, At
  <2>2. loaded[f] \in Entry \cup {Nothing} /\ loaded' \in [FlowIds -> Entry \cup {Nothing}]
    BY <1>4, <2>1 DEF Unload, RegistryTypes, DataTypes
  <2>3. CASE loaded[f] = Nothing
    <3>1. ProcessTypes'
      BY <1>1, <1>4, <2>1, <2>3, ReturnFits DEF Unload
    <3>. QED BY <1>4, <2>2, <3>1 DEF Unload, RegistryTypes, DataTypes, timerVars, storeVars
  <2>4. CASE loaded[f] # Nothing
    <3>1. GoesTo(c, "unloaded", j)
      BY <1>4, <2>4 DEF Unload
    <3>2. /\ j \in Jobs /\ j.flow = f /\ j.prev = loaded[f] /\ j.next = job[c].next
          /\ j.version = job[c].version
      BY <2>1, <2>2 DEF Jobs
    <3> HIDE DEF j, f
    <3>3. Fits("unloaded", j)
      BY <2>1, <2>2, <2>4, <3>2 DEF Fits, Steps, HasInstance, HasVersion, HasPrevious, Persisting
    <3>4. ProcessTypes'
      BY <2>1, <3>1, <3>3, CallGoes
    <3>. QED BY <1>4, <2>2, <3>4 DEF Unload, RegistryTypes, DataTypes, timerVars, storeVars
  <2>. QED BY <2>3, <2>4
<1>5. CASE UnloadStops(c)
  <2>1. ProcessTypes'
    BY <1>1, <1>5, ReturnFits DEF UnloadStops, At
  <2>. QED BY <1>5, <2>1 DEF UnloadStops, Stops, RegistryTypes, DataTypes, timerVars, storeVars
<1>6. CASE UnloadKeeps(c)
  <2>1. job[c].prev \in Entry /\ place[c] # "idle"
    BY <1>6, AtWork DEF UnloadKeeps, At, Fits, HasPrevious
  <2>2. ProcessTypes'
    BY <1>1, <1>6, <2>1, ReturnFits DEF UnloadKeeps
  <2>3. loaded' \in [FlowIds -> Entry \cup {Nothing}] /\ live' \subseteq Instances
    BY <1>6, <2>1 DEF UnloadKeeps, StopErr, RegistryTypes, DataTypes
  <2>. QED BY <1>6, <2>2, <2>3 DEF UnloadKeeps, RegistryTypes, DataTypes, timerVars, storeVars
<1>. QED BY <1>2, <1>3, <1>4, <1>5, <1>6

LEMMA StartTypes ==
  ASSUME RegistryTypes, NEW c \in Callers,
         \/ \E f \in FlowIds : Start(c, f) \/ Trigger(c, f)
         \/ StartActs(c) \/ Arm(c) \/ ArmSpawns(c)
  PROVE  RegistryTypes'
<1>1. c \in Processes /\ c \notin Timers
  BY ConstantFacts
<1>2. ASSUME NEW f \in FlowIds, Start(c, f) PROVE RegistryTypes'
  <2>1. loaded[f].inst \in Instances
    BY <1>2, EntryFacts DEF Start, RegistryTypes, DataTypes
  <2> DEFINE j == [NoJob EXCEPT !.inst = loaded[f].inst]
  <2>2. j \in Jobs /\ j.inst \in Instances /\ j.next = "idle"
    BY <2>1, NoJobFacts DEF Jobs
  <2>3. Request(c, "start", f, "got", j) /\ UNCHANGED usage
    BY <1>2 DEF Start
  <2> HIDE DEF j
  <2>4. ProcessTypes'
    BY <2>2, <2>3, RequestGoes DEF Steps, HasVersion, HasPrevious, Persisting
  <2>. QED BY <1>2, <2>4 DEF Start, RegistryTypes, DataTypes, timerVars, storeVars
<1>3. ASSUME NEW f \in FlowIds, Trigger(c, f) PROVE RegistryTypes'
  <2>1. ProcessTypes'
    BY <1>3, NoJobFacts, RequestGoes DEF Trigger, Steps, HasInstance, HasVersion, HasPrevious, Persisting
  <2>. QED BY <1>3, <2>1 DEF Trigger, RegistryTypes, DataTypes, timerVars, storeVars
<1>4. CASE StartActs(c)
  <2>1. /\ place[c] # "idle" /\ UNCHANGED usage /\ job[c] \in Jobs /\ job[c].inst \in Instances
        /\ c \in usage.callers /\ job[c].flow \in FlowIds
    BY <1>4, AtWork DEF StartActs, At, Fits, HasInstance
  <2>2. live' \subseteq Instances
    BY <1>4, <2>1 DEF StartActs, Starts, Refuses, StartErr, RegistryTypes, DataTypes
  <2>3. ProcessTypes'
    <3> DEFINE j == [job[c] EXCEPT !.inst = None, !.next = "answer"]
    <3>1. j \in Jobs /\ j.next = "answer" /\ j.flow = job[c].flow
      BY <2>1 DEF Jobs
    <3>2. GoesTo(c, "arming", j) \/ Return(c)
      BY <1>4 DEF StartActs
    <3> HIDE DEF j
    <3>3. Fits("arming", j)
      BY <2>1, <3>1 DEF Fits, Steps, HasInstance, HasVersion, HasPrevious, Persisting
    <3>. QED BY <1>1, <2>1, <3>2, <3>3, CallGoes, ReturnFits
  <2>. QED BY <1>4, <2>2, <2>3 DEF StartActs, RegistryTypes, DataTypes, timerVars, storeVars
<1>5. CASE Arm(c)
  <2>1. /\ place[c] # "idle" /\ UNCHANGED usage /\ job[c] \in Jobs /\ job[c].flow \in FlowIds
        /\ c \in usage.callers /\ Fits("arming", job[c])
    BY <1>5, AtWork DEF Arm, At
  <2>2. armed' \in [FlowIds -> Timers \cup {None}] /\ aborted' \subseteq Timers
    BY <1>5 DEF Arm, Disarms, RegistryTypes, DataTypes
  <2>3. ProcessTypes'
    <3> DEFINE j == [job[c] EXCEPT !.next = "spawn"]
    <3>1. j \in Jobs /\ j.next = "spawn" /\ j.flow = job[c].flow /\ j.version = job[c].version
      BY <2>1 DEF Jobs
    <3>2. GoesTo(c, "fire", j) \/ Return(c) \/ Advance(c, "spawning")
      BY <1>5 DEF Arm
    <3> HIDE DEF j
    <3>3. Fits("fire", j)
      BY <2>1, <3>1 DEF Fits, Steps, HasInstance, HasVersion, HasPrevious, Persisting
    <3>4. CASE Advance(c, "spawning")
      BY <2>1, <3>4, AdvanceFits DEF Steps, HasInstance, HasVersion, HasPrevious, Persisting
    <3>. QED BY <1>1, <2>1, <3>2, <3>3, <3>4, CallGoes, ReturnFits
  <2>. QED BY <1>5, <2>2, <2>3 DEF Arm, RegistryTypes, DataTypes, storeVars
<1>6. CASE ArmSpawns(c)
  <2> DEFINE f == job[c].flow
             k == [NoJob EXCEPT !.flow = f]
  <2>1. /\ place[c] # "idle" /\ UNCHANGED usage /\ f \in FlowIds
    BY <1>6, AtWork DEF ArmSpawns, At
  <2>2. k \in Jobs /\ k.flow = f /\ k.next = "idle"
    BY <2>1, NoJobFacts DEF Jobs
  <2>3. PICK t \in Timers :
          /\ armed' = [armed EXCEPT ![f] = t]
          /\ place' = [place EXCEPT ![c] = "idle", ![t] = "tick"]
          /\ job' = [job EXCEPT ![c] = NoJob, ![t] = k]
    BY <1>6 DEF ArmSpawns
  <2> HIDE DEF f, k
  <2>4. t \in Processes /\ t # c
    BY <1>1, ConstantFacts
  <2>5. place' \in [Processes -> Steps] /\ job' \in [Processes -> Jobs]
    BY <2>2, <2>3, NoJobFacts DEF RegistryTypes, ProcessTypes, Steps
  <2>6. /\ place'[c] = "idle" /\ job'[c] = NoJob /\ place'[t] = "tick" /\ job'[t] = k
        /\ \A q \in Processes \ {c, t} : place'[q] = place[q] /\ job'[q] = job[q]
    BY <1>1, <2>3, <2>4 DEF RegistryTypes, ProcessTypes
  <2>7. ProcessFits(c, "idle", NoJob)
    BY <1>1, NoJobFacts
       DEF ProcessFits, Fits, Steps, HasInstance, HasVersion, HasPrevious, Persisting
  <2>8. ProcessFits(t, "tick", k)
    BY <2>1, <2>2, <2>4, ConstantFacts
       DEF ProcessFits, Fits, Steps, HasInstance, HasVersion, HasPrevious, Persisting, TimerSteps
  <2>9. ASSUME NEW q \in Processes PROVE ProcessFits(q, place[q], job[q])'
    <3>1. CASE q = c
      BY <2>1, <2>6, <2>7, <3>1 DEF ProcessFits
    <3>2. CASE q = t
      BY <2>1, <2>6, <2>8, <3>2 DEF ProcessFits
    <3>3. CASE q \notin {c, t}
      BY <2>1, <2>6, <3>3 DEF ProcessFits, RegistryTypes, ProcessTypes
    <3>. QED BY <3>1, <3>2, <3>3
  <2>10. ProcessTypes'
    BY <2>5, <2>9 DEF ProcessTypes
  <2>11. armed' \in [FlowIds -> Timers \cup {None}]
    BY <2>3 DEF RegistryTypes, DataTypes
  <2>. QED BY <1>6, <2>10, <2>11 DEF ArmSpawns, RegistryTypes, DataTypes, storeVars
<1>. QED BY <1>2, <1>3, <1>4, <1>5, <1>6

\* Who fires, a call or a timer, goes on firing.
LEMMA FireGoes ==
  ASSUME RegistryTypes, UNCHANGED usage, NEW p \in Processes, place[p] \in FireSteps,
         NEW step \in FireSteps, NEW j \in Jobs, GoesTo(p, step, j), j.next = job[p].next,
         j.flow = job[p].flow, j.version = job[p].version, step # "fire" => j.inst \in Instances
  PROVE  ProcessTypes'
<1>1. /\ ProcessFits(p, place[p], job[p]) /\ place[p] # "idle"
  BY DEF RegistryTypes, ProcessTypes, FireSteps
<1>2. ProcessFits(p, step, j)
  BY <1>1 DEF ProcessFits, Fits, FireSteps, TimerSteps, Steps, HasInstance, HasVersion, HasPrevious, Persisting
<1>. QED BY <1>2, OneFits DEF RegistryTypes

\* And goes back to where it fires for.
LEMMA FiredFits ==
  ASSUME RegistryTypes, UNCHANGED usage, NEW p \in Processes, place[p] \in FireSteps, Fired(p)
  PROVE  ProcessTypes'
<1>1. ProcessFits(p, place[p], job[p]) /\ place[p] # "idle"
  BY DEF RegistryTypes, ProcessTypes, FireSteps
<1>2. CASE job[p].next = "spawn"
  <2> DEFINE j == [job[p] EXCEPT !.inst = None, !.next = "answer"]
  <2>1. p \in Callers /\ p \in usage.callers /\ job[p] \in Jobs /\ job[p].flow \in FlowIds
    BY <1>1, <1>2, ConstantFacts DEF ProcessFits, Fits
  <2>2. j \in Jobs /\ j.next = "answer" /\ j.flow = job[p].flow
    BY <2>1 DEF Jobs
  <2>3. GoesTo(p, "spawning", j)
    BY <1>2 DEF Fired
  <2> HIDE DEF j
  <2>4. Fits("spawning", j)
    BY <2>1, <2>2 DEF Fits, Steps, HasInstance, HasVersion, HasPrevious, Persisting
  <2>. QED BY <2>1, <2>3, <2>4, CallGoes
<1>3. CASE job[p].next # "spawn"
  BY <1>1, <1>3, ReturnFits DEF Fired
<1>. QED BY <1>2, <1>3

LEMMA FireTypes ==
  ASSUME RegistryTypes, NEW p \in Processes, Fires(p)
  PROVE  RegistryTypes'
<1>1. /\ place[p] \in FireSteps /\ job[p] \in Jobs /\ job[p].flow \in FlowIds /\ UNCHANGED usage
      /\ place[p] # "fire" => job[p].inst \in Instances
  BY DEF Fires, Fire, FireIdle, FireStops, FireStarts, At, FireSteps, RegistryTypes, ProcessTypes,
         ProcessFits, Fits, HasInstance
<1>2. CASE Fire(p)
  <2> DEFINE f == job[p].flow
             j == [job[p] EXCEPT !.inst = loaded[f].inst]
  <2>1. CASE loaded[f] = Nothing
    <3>1. ProcessTypes'
      BY <1>1, <1>2, <2>1, FiredFits DEF Fire
    <3>. QED BY <1>2, <3>1 DEF Fire, RegistryTypes, DataTypes, timerVars, storeVars
  <2>2. CASE loaded[f] # Nothing
    <3>1. PICK step \in {"fireWait", "fireStop", "fireStart"} : GoesTo(p, step, j)
      BY <1>2, <2>2 DEF Fire
    <3>2. loaded[f].inst \in Instances
      BY <1>1, <2>2, EntryFacts DEF RegistryTypes, DataTypes
    <3>3. /\ j \in Jobs /\ j.next = job[p].next /\ j.flow = f /\ j.version = job[p].version
          /\ j.inst \in Instances
      BY <1>1, <3>2 DEF Jobs
    <3> HIDE DEF j
    <3>4. ProcessTypes'
      BY <1>1, <3>1, <3>3, FireGoes DEF FireSteps
    <3>. QED BY <1>2, <3>4 DEF Fire, RegistryTypes, DataTypes, timerVars, storeVars
  <2>. QED BY <2>1, <2>2
<1>3. ASSUME place[p] # "fire", Advance(p, "fireStart") PROVE ProcessTypes'
  BY <1>1, <1>3, FireGoes DEF Advance, FireSteps
<1>4. CASE FireIdle(p)
  <2>1. place[p] # "fire"
    BY <1>4 DEF FireIdle, At
  <2>2. ProcessTypes'
    BY <1>1, <1>3, <1>4, <2>1, FiredFits DEF FireIdle
  <2>. QED BY <1>4, <2>2 DEF FireIdle, RegistryTypes, DataTypes, timerVars, storeVars
<1>5. CASE FireStops(p)
  <2>1. place[p] # "fire" /\ live' \subseteq Instances
    BY <1>5 DEF FireStops, At, Stops, StopErr, RegistryTypes, DataTypes
  <2>2. ProcessTypes'
    BY <1>1, <1>3, <1>5, <2>1, FiredFits DEF FireStops
  <2>. QED BY <1>5, <2>1, <2>2 DEF FireStops, RegistryTypes, DataTypes, timerVars, storeVars
<1>6. CASE FireStarts(p)
  <2>1. live' \subseteq Instances /\ fired' \subseteq FlowIds
    BY <1>1, <1>6 DEF FireStarts, At, Starts, Refuses, StartErr, RegistryTypes, DataTypes
  <2>2. ProcessTypes'
    BY <1>1, <1>6, FiredFits DEF FireStarts
  <2>. QED BY <1>6, <2>1, <2>2 DEF FireStarts, RegistryTypes, DataTypes, storeVars
<1>. QED BY <1>2, <1>4, <1>5, <1>6 DEF Fires

LEMMA TimerTypes ==
  ASSUME RegistryTypes, NEW t \in Timers, Tick(t) \/ TimerCancelled(t)
  PROVE  RegistryTypes'
<1>1. t \in Processes /\ t \notin Callers
  BY ConstantFacts
<1>2. ASSUME GoesTo(t, "idle", NoJob), UNCHANGED usage PROVE ProcessTypes'
  <2>1. ProcessFits(t, "idle", NoJob)
    BY <1>1, NoJobFacts
       DEF ProcessFits, Fits, Steps, HasInstance, HasVersion, HasPrevious, Persisting, TimerSteps
  <2>. QED BY <1>1, <1>2, <2>1, OneFits DEF RegistryTypes
<1>3. CASE Tick(t)
  <2>1. CASE loaded[job[t].flow] = Nothing
    <3>1. armed' \in [FlowIds -> Timers \cup {None}] /\ aborted' \subseteq Timers
      BY <1>3, <2>1 DEF Tick, RegistryTypes, DataTypes
    <3>2. ProcessTypes'
      BY <1>2, <1>3, <2>1 DEF Tick
    <3>. QED BY <1>3, <3>1, <3>2 DEF Tick, RegistryTypes, DataTypes, storeVars
  <2>2. CASE loaded[job[t].flow] # Nothing
    <3>1. GoesTo(t, "fire", job[t]) /\ place[t] = "tick" /\ UNCHANGED usage
      BY <1>3, <2>2 DEF Tick, At, Advance
    <3>2. ProcessFits(t, place[t], job[t])
      BY <1>1 DEF RegistryTypes, ProcessTypes
    <3>3. ProcessFits(t, "fire", job[t])
      BY <1>1, <3>1, <3>2 DEF ProcessFits, Fits, Steps, HasInstance, HasVersion, HasPrevious, Persisting, TimerSteps, FireSteps
    <3>4. ProcessTypes'
      BY <1>1, <3>1, <3>3, OneFits DEF RegistryTypes
    <3>. QED BY <1>3, <2>2, <3>4 DEF Tick, RegistryTypes, DataTypes, storeVars
  <2>. QED BY <2>1, <2>2
<1>4. CASE TimerCancelled(t)
  <2>1. ProcessTypes'
    BY <1>2, <1>4 DEF TimerCancelled
  <2>. QED BY <1>4, <2>1 DEF TimerCancelled, RegistryTypes, DataTypes, storeVars
<1>. QED BY <1>3, <1>4

LEMMA ServerTypes ==
  ASSUME RegistryTypes,
         \/ ServerCrash
         \/ \E i \in Instances : EngineEnds(i) \/ \E f \in FlowIds : Seed(f, i)
  PROVE  RegistryTypes'
<1>1. CASE ServerCrash
  <2>1. ASSUME NEW q \in Processes PROVE ProcessFits(q, place[q], job[q])'
    <3>1. place'[q] = "idle" /\ job'[q] = NoJob
      BY <1>1 DEF ServerCrash
    <3>. QED BY <3>1, NoJobFacts
         DEF ProcessFits, Fits, Steps, HasInstance, HasVersion, HasPrevious, Persisting, TimerSteps
  <2>2. ProcessTypes'
    BY <1>1, <2>1, NoJobFacts DEF ServerCrash, ProcessTypes, Steps
  <2>. QED BY <1>1, <2>2 DEF ServerCrash, RegistryTypes, DataTypes
<1>2. ASSUME NEW i \in Instances, EngineEnds(i) PROVE RegistryTypes'
  BY <1>2 DEF EngineEnds, RegistryTypes, DataTypes, ProcessTypes, ProcessFits, timerVars, storeVars
<1>3. ASSUME NEW i \in Instances, NEW f \in FlowIds, Seed(f, i) PROVE RegistryTypes'
  <2> DEFINE v == NextVersion(f)
             j == [NoJob EXCEPT !.flow = f, !.next = "arming"]
  <2>1. PICK c \in usage.callers : GoesTo(c, "read", j)
    BY <1>3 DEF Seed
  <2>2. c \in Callers
    BY <2>1, RegistryAssumption DEF RegistryAssumption, UsageType, RegistryTypes, DataTypes
  <2>3. v \in Versions /\ Loads(f, v, i) /\ Change(f, DeployedAfter(Drafted(f), v)) /\ UNCHANGED usage
    BY <1>3 DEF Seed
  <2>4. j \in Jobs /\ j.flow = f /\ j.next = "arming"
    BY NoJobFacts DEF Jobs
  <2>5. DeployedAfter(Drafted(f), v) \in FlowRecord
    BY <2>3, RecordsAre DEF Drafted
  <2> HIDE DEF j, v
  <2>6. Fits("read", j)
    BY <2>4 DEF Fits, Steps, HasInstance, HasVersion, HasPrevious, Persisting, AfterPersist
  <2>7. ProcessTypes'
    BY <2>1, <2>2, <2>3, <2>6, CallGoes
  <2>8. records' \in Snapshots /\ answered' \in [FlowIds -> {"no", "change", "deployment"}]
    BY <2>3, <2>5, ChangeTypes
  <2>9. loaded' \in [FlowIds -> Entry \cup {Nothing}]
    BY <2>3, EntryFacts DEF Loads, RegistryTypes, DataTypes
  <2>. QED BY <1>3, <2>7, <2>8, <2>9 DEF Seed, RegistryTypes, DataTypes, timerVars
<1>. QED BY <1>1, <1>2, <1>3

LEMMA RegistryTyped == RegistrySpec => []RegistryTypes
<1>1. RegistryInit => RegistryTypes
  <2> SUFFICES ASSUME RegistryInit PROVE RegistryTypes
    OBVIOUS
  <2>1. NewRecord \in FlowRecord
    BY DEF NewRecord, FlowRecord
  <2>2. \A p \in Processes : ProcessFits(p, place[p], job[p])
    BY NoJobFacts DEF RegistryInit, ProcessFits, Fits, Steps, HasInstance, HasVersion, HasPrevious,
       Persisting, TimerSteps
  <2>. QED BY <2>1, <2>2, NoJobFacts
       DEF RegistryInit, RegistryTypes, DataTypes, ProcessTypes, Snapshots, Steps
<1>2. RegistryTypes /\ [RegistryNext]_registryVars => RegistryTypes'
  <2> SUFFICES ASSUME RegistryTypes, [RegistryNext]_registryVars PROVE RegistryTypes'
    OBVIOUS
  <2>1. ASSUME NEW c \in Callers, Begin(c) PROVE RegistryTypes'
    BY <2>1, CreateTypes, ValidateTypes, ArchiveTypes, DeployTypes, StopTypes, StartTypes DEF Begin
  <2>2. ASSUME NEW c \in Callers, GoOn(c) PROVE RegistryTypes'
    BY <2>2, PersistTypes, ValidateTypes, ArchiveTypes, ActivateTypes1, ActivateTypes2, StopTypes,
       StartTypes DEF GoOn, Activate
  <2>3. CASE UNCHANGED registryVars
    BY <2>3 DEF registryVars, storeVars, timerVars, RegistryTypes, DataTypes, ProcessTypes, ProcessFits
  <2>. QED BY <2>1, <2>2, <2>3, FireTypes, TimerTypes, ServerTypes DEF RegistryNext
<1>. QED BY <1>1, <1>2, PTL DEF RegistrySpec

----------------------------------------------------------------------------
(* Who moves, and to where. *)

Moves(p) == \A q \in Processes \ {p} : place'[q] = place[q] /\ job'[q] = job[q]

\* With one operator there is one caller at work.
LEMMA OneCaller ==
  ASSUME RegistryTypes, Alone, NEW c \in usage.callers, NEW d \in usage.callers
  PROVE  c = d
BY DEF Alone

LEMMA GoesMoves ==
  ASSUME RegistryTypes, NEW p \in Processes, NEW step, NEW j, GoesTo(p, step, j)
  PROVE  Moves(p) /\ place'[p] = step /\ job'[p] = j
BY OneGoes DEF Moves, RegistryTypes

LEMMA ReturnMoves ==
  ASSUME RegistryTypes, NEW p \in Processes, Return(p)
  PROVE  /\ Moves(p)
         /\ p \in Callers => place'[p] = "idle" /\ job'[p] = NoJob
         /\ p \in Timers => place'[p] = "tick" /\ job'[p].flow = job[p].flow
<1>1. CASE p \in Timers
  <2> DEFINE j == [job[p] EXCEPT !.inst = None]
  <2>1. GoesTo(p, "tick", j)
    BY <1>1 DEF Return
  <2>2. job[p] \in Jobs
    BY DEF RegistryTypes, ProcessTypes
  <2>3. j.flow = job[p].flow
    BY <2>2 DEF Jobs
  <2> HIDE DEF j
  <2>. QED BY <1>1, <2>1, <2>3, GoesMoves, ConstantFacts
<1>2. CASE p \notin Timers
  BY <1>2, GoesMoves DEF Return
<1>. QED BY <1>1, <1>2

\* A request comes to a caller that is idle.
LEMMA RequestMoves ==
  ASSUME RegistryTypes, NEW c \in Callers, NEW request, NEW f \in FlowIds, NEW step, NEW j \in Jobs,
         Request(c, request, f, step, j)
  PROVE  /\ Moves(c) /\ place[c] = "idle" /\ place'[c] = step /\ c \in usage.callers
         /\ request \in usage.requests
         /\ job'[c].flow = f /\ job'[c].next = j.next /\ job'[c].inst = j.inst
         /\ job'[c].version = j.version /\ job'[c].prev = j.prev
<1> DEFINE k == [j EXCEPT !.flow = f]
<1>1. /\ k.flow = f /\ k.next = j.next /\ k.inst = j.inst /\ k.version = j.version /\ k.prev = j.prev
  BY DEF Jobs
<1>2. GoesTo(c, step, k) /\ place[c] = "idle" /\ c \in usage.callers /\ request \in usage.requests
  BY DEF Request, At
<1> HIDE DEF k
<1>. QED BY <1>1, <1>2, GoesMoves, ConstantFacts

LEMMA BeginMoves ==
  ASSUME RegistryTypes, NEW c \in Callers, Begin(c)
  PROVE  /\ Moves(c) /\ place[c] = "idle" /\ c \in usage.callers /\ UNCHANGED usage
         /\ place'[c] \in {"read", "archiving", "deploying", "disarming", "got", "fire"}
         /\ job'[c].next \in {"idle", "validating"} /\ UNCHANGED <<armed, aborted>>
         /\ place'[c] \in {"archiving", "got", "fire"} => usage.requests \cap {"archive", "start", "trigger"} # {}
<1>1. ASSUME NEW request, NEW f \in FlowIds, NEW step, NEW j \in Jobs, Request(c, request, f, step, j),
             j.next \in {"idle", "validating"}, UNCHANGED <<usage, timerVars>>
      PROVE  /\ Moves(c) /\ place[c] = "idle" /\ c \in usage.callers /\ UNCHANGED <<usage, armed, aborted>>
             /\ place'[c] = step /\ job'[c].next \in {"idle", "validating"}
             /\ request \in usage.requests
  <2> DEFINE k == [j EXCEPT !.flow = f]
  <2>1. k.next = j.next
    BY DEF Jobs
  <2>2. /\ GoesTo(c, step, k) /\ place[c] = "idle" /\ c \in usage.callers /\ request \in usage.requests
        /\ UNCHANGED <<usage, armed, aborted>>
    BY <1>1 DEF Request, At, timerVars
  <2> HIDE DEF k
  <2>3. Moves(c) /\ place'[c] = step /\ job'[c] = k
    BY <2>2, GoesMoves, ConstantFacts
  <2>. QED BY <1>1, <2>1, <2>2, <2>3
<1>2. ASSUME NEW f \in FlowIds, Create(c, f) \/ Publish(c, f)
      PROVE  /\ Moves(c) /\ place[c] = "idle" /\ c \in usage.callers /\ UNCHANGED <<usage, armed, aborted>>
             /\ place'[c] = "read" /\ job'[c].next \in {"idle", "validating"}
  <2>1. PICK request \in {"create", "publish"}, next \in {"idle", "validating"} : CreateDraft(c, f, request, next)
    BY <1>2 DEF Create, Publish
  <2> DEFINE v == NextVersion(f)
             j == [NoJob EXCEPT !.version = v, !.next = next, !.start = (request = "publish")]
  <2>2. v \in Versions /\ Request(c, request, f, "read", j) /\ UNCHANGED <<usage, timerVars>>
    BY <2>1 DEF CreateDraft
  <2>3. j \in Jobs /\ j.next = next
    BY <2>2, NoJobFacts DEF Jobs
  <2> HIDE DEF j, v
  <2>. QED BY <1>1, <2>2, <2>3
<1>3. ASSUME NEW f \in FlowIds, Start(c, f)
      PROVE  [NoJob EXCEPT !.inst = loaded[f].inst] \in Jobs /\ [NoJob EXCEPT !.inst = loaded[f].inst].next = "idle"
  BY <1>3, NoJobFacts, EntryFacts DEF Start, Jobs, RegistryTypes, DataTypes
<1>4. PICK f \in FlowIds :
        \/ Create(c, f) \/ Publish(c, f)
        \/ \E v \in Versions : \/ Validate(c, f, v) \/ Archive(c, f, v)
                               \/ \E start \in BOOLEAN : Deploy(c, f, v, start)
        \/ \E start \in BOOLEAN : Rollback(c, f, start)
        \/ Stop(c, f) \/ Start(c, f) \/ Trigger(c, f)
  BY DEF Begin
<1>5. CASE \E v \in Versions : Validate(c, f, v)
  <2>1. Request(c, "validate", f, "read", NoJob) /\ UNCHANGED <<usage, timerVars>>
    BY <1>5 DEF Validate
  <2>2. NoJob \in Jobs /\ NoJob.next = "idle"
    BY NoJobFacts
  <2>3. /\ Moves(c) /\ place[c] = "idle" /\ c \in usage.callers /\ UNCHANGED <<usage, armed, aborted>>
        /\ place'[c] = "read" /\ job'[c].next \in {"idle", "validating"}
    BY <1>1, <2>1, <2>2
  <2>. QED BY <2>3
<1>6. ASSUME NEW v \in Versions, Archive(c, f, v)
      PROVE  /\ Moves(c) /\ place[c] = "idle" /\ c \in usage.callers /\ UNCHANGED <<usage, armed, aborted>>
             /\ place'[c] = "archiving" /\ job'[c].next \in {"idle", "validating"}
             /\ "archive" \in usage.requests
  <2> DEFINE j == [NoJob EXCEPT !.version = v]
  <2>1. j \in Jobs /\ j.next = "idle"
    BY NoJobFacts DEF Jobs
  <2>2. Request(c, "archive", f, "archiving", j) /\ UNCHANGED <<usage, timerVars>>
    BY <1>6 DEF Archive
  <2> HIDE DEF j
  <2>. QED BY <1>1, <2>1, <2>2
<1>7. ASSUME NEW v \in Versions, NEW start \in BOOLEAN, Deploy(c, f, v, start)
      PROVE  /\ Moves(c) /\ place[c] = "idle" /\ c \in usage.callers /\ UNCHANGED <<usage, armed, aborted>>
             /\ place'[c] = "deploying" /\ job'[c].next \in {"idle", "validating"}
  <2> DEFINE j == [NoJob EXCEPT !.version = v, !.start = start]
  <2>1. j \in Jobs /\ j.next = "idle"
    BY NoJobFacts DEF Jobs
  <2>2. Request(c, "deploy", f, "deploying", j) /\ UNCHANGED <<usage, timerVars>>
    BY <1>7 DEF Deploy
  <2> HIDE DEF j
  <2>. QED BY <1>1, <2>1, <2>2
<1>8. ASSUME NEW start \in BOOLEAN, Rollback(c, f, start)
      PROVE  /\ Moves(c) /\ place[c] = "idle" /\ c \in usage.callers /\ UNCHANGED <<usage, armed, aborted>>
             /\ place'[c] = "deploying" /\ job'[c].next \in {"idle", "validating"}
  <2> DEFINE j == [NoJob EXCEPT !.start = start, !.archived = TRUE]
  <2>1. j \in Jobs /\ j.next = "idle"
    BY NoJobFacts DEF Jobs
  <2>2. Request(c, "rollback", f, "deploying", j) /\ UNCHANGED <<usage, timerVars>>
    BY <1>8 DEF Rollback
  <2> HIDE DEF j
  <2>. QED BY <1>1, <2>1, <2>2
<1>9. CASE Stop(c, f) \/ Trigger(c, f)
  <2>1. NoJob \in Jobs /\ NoJob.next = "idle"
    BY NoJobFacts
  <2>2. CASE Stop(c, f)
    <3>1. Request(c, "stop", f, "disarming", NoJob) /\ UNCHANGED <<usage, timerVars>>
      BY <2>2 DEF Stop
    <3>2. /\ Moves(c) /\ place[c] = "idle" /\ c \in usage.callers /\ UNCHANGED <<usage, armed, aborted>>
          /\ place'[c] = "disarming" /\ job'[c].next \in {"idle", "validating"}
      BY <1>1, <2>1, <3>1
    <3>. QED BY <3>2
  <2>3. CASE Trigger(c, f)
    <3>1. Request(c, "trigger", f, "fire", NoJob) /\ UNCHANGED <<usage, timerVars>>
      BY <2>3 DEF Trigger
    <3>2. /\ Moves(c) /\ place[c] = "idle" /\ c \in usage.callers /\ UNCHANGED <<usage, armed, aborted>>
          /\ place'[c] = "fire" /\ job'[c].next \in {"idle", "validating"}
          /\ "trigger" \in usage.requests
      BY <1>1, <2>1, <3>1
    <3>. QED BY <3>2
  <2>. QED BY <1>9, <2>2, <2>3
<1>10. CASE Start(c, f)
  BY <1>1, <1>3, <1>10 DEF Start
<1>. QED BY <1>2, <1>4, <1>5, <1>6, <1>7, <1>8, <1>9, <1>10

\* A call that goes on: but for arm, it neither spawns nor fires; only persist
\* writes.
LEMMA GoOnMoves ==
  ASSUME RegistryTypes, NEW c \in Callers, GoOn(c), ~ArmSpawns(c)
  PROVE  /\ Moves(c) /\ place[c] # "idle" /\ c \in usage.callers /\ UNCHANGED usage
         /\ ~Arm(c) => place'[c] \notin FireSteps \cup {"spawning"}
         /\ place'[c] \notin {"archiving", "got"}
         /\ ~Persist(c) => place'[c] \notin {"write", "rename"}
         /\ ~Arm(c) /\ ~Disarm(c) => UNCHANGED <<armed, aborted>>
<1>1. c \in Processes /\ c \notin Timers
  BY ConstantFacts
<1> DEFINE Quietly(step) == /\ step \notin FireSteps \cup {"spawning", "archiving", "got"}
                            /\ Persist(c) \/ step \notin {"write", "rename"}
           Quieter == Moves(c) /\ Quietly(place'[c])
<1>2. ASSUME place[c] # "idle" PROVE c \in usage.callers
  BY <1>2, AtWork
<1>3. ASSUME NEW step, NEW j, GoesTo(c, step, j), Quietly(step) PROVE Quieter
  BY <1>1, <1>3, GoesMoves
<1>4. ASSUME Return(c) PROVE Quieter
  BY <1>1, <1>3, <1>4 DEF Return, FireSteps
<1>5. ASSUME NEW step, Advance(c, step), Quietly(step) PROVE Quieter
  BY <1>3, <1>5 DEF Advance
<1>6. CASE Persist(c)
  <2>1. place[c] \in Persisting /\ UNCHANGED <<usage, armed, aborted>>
    BY <1>6 DEF Persist, PersistReads, PersistWrites, PersistRenames, PersistFails, At, Persisting, timerVars
  <2>2. job[c].next \in AfterPersist
    BY <1>1, <2>1 DEF RegistryTypes, ProcessTypes, ProcessFits, Fits
  <2>3. ASSUME IF Deploying(c) THEN DeploymentDone(c) ELSE PersistDone(c) PROVE Quieter
    <3>1. CASE Deploying(c)
      BY <1>6, <1>3, <2>3, <3>1 DEF DeploymentDone, FireSteps
    <3>2. CASE ~Deploying(c)
      BY <1>6, <1>3, <1>4, <2>2, <2>3, <3>2 DEF PersistDone, AfterPersist, FireSteps
    <3>. QED BY <3>1, <3>2
  <2>4. ASSUME PersistReads(c) PROVE Quieter
    BY <1>6, <1>3, <2>3, <2>4 DEF PersistReads, FireSteps
  <2>5. ASSUME PersistWrites(c) PROVE Quieter
    BY <1>6, <1>5, <2>5 DEF PersistWrites, FireSteps
  <2>6. ASSUME PersistRenames(c) PROVE Quieter
    BY <2>3, <2>6 DEF PersistRenames
  <2>7. ASSUME PersistFails(c) PROVE Quieter
    BY <1>4, <2>3, <2>7 DEF PersistFails
  <2>8. Quieter
    BY <1>6, <2>4, <2>5, <2>6, <2>7 DEF Persist
  <2>. QED BY <1>2, <2>1, <2>8 DEF Persisting
<1>7. CASE PublishValidates(c) \/ Archives(c)
  <2>1. Quieter
    BY <1>3, <1>4, <1>7 DEF PublishValidates, Archives, FireSteps
  <2>. QED BY <1>2, <1>7, <2>1 DEF PublishValidates, Archives, At, timerVars
<1>8. CASE Activate(c)
  <2> USE <1>3, <1>4, <1>5 DEF FireSteps
  <2>1. CASE DeployLocks(c)
    BY <1>2, <2>1 DEF DeployLocks, At, timerVars
  <2>2. CASE ActivateRefused(c)
    BY <1>2, <2>2 DEF ActivateRefused, At, timerVars
  <2>3. CASE ActivateChecks(c)
    BY <1>2, <2>3 DEF ActivateChecks, At, timerVars
  <2>4. CASE ActivateRemoves(c)
    BY <1>2, <2>4 DEF ActivateRemoves, At, timerVars
  <2>5. CASE ActivateStops(c)
    BY <1>2, <2>5 DEF ActivateStops, At, timerVars
  <2>6. CASE ActivateKeepsOld(c)
    BY <1>2, <2>6 DEF ActivateKeepsOld, At, timerVars
  <2>7. CASE ActivateStarts(c)
    BY <1>2, <2>7 DEF ActivateStarts, At, timerVars
  <2>8. CASE ActivateFails(c)
    BY <1>2, <2>8 DEF ActivateFails, At, timerVars
  <2>9. CASE ActivateRestores(c)
    BY <1>2, <2>9 DEF ActivateRestores, At, timerVars
  <2>10. CASE ActivateRecords(c)
    BY <1>2, <2>10 DEF ActivateRecords, At, timerVars
  <2>. QED BY <1>8, <2>1, <2>2, <2>3, <2>4, <2>5, <2>6, <2>7, <2>8, <2>9, <2>10 DEF Activate
<1>9. CASE Disarm(c)
  <2>1. Quieter
    BY <1>4, <1>5, <1>9 DEF Disarm, FireSteps
  <2>. QED BY <1>2, <1>9, <2>1 DEF Disarm, At
<1>10. CASE Unload(c) \/ UnloadStops(c) \/ UnloadKeeps(c)
  <2>1. Quieter
    BY <1>3, <1>4, <1>10 DEF Unload, UnloadStops, UnloadKeeps, FireSteps
  <2>. QED BY <1>2, <1>10, <2>1 DEF Unload, UnloadStops, UnloadKeeps, At, timerVars
<1>11. CASE StartActs(c)
  <2>1. Quieter
    BY <1>3, <1>4, <1>11 DEF StartActs, FireSteps
  <2>. QED BY <1>2, <1>11, <2>1 DEF StartActs, At, timerVars
<1>12. CASE Arm(c)
  <2>1. Moves(c)
    BY <1>1, <1>12, GoesMoves, ReturnMoves DEF Arm, Advance
  <2>2. place'[c] \notin {"write", "rename", "archiving", "got"}
    BY <1>1, <1>12, GoesMoves, ReturnMoves DEF Arm, Advance
  <2>. QED BY <1>2, <1>12, <2>1, <2>2 DEF Arm, At
<1>. QED BY <1>6, <1>7, <1>8, <1>9, <1>10, <1>11, <1>12 DEF GoOn

\* Who fires stays about its flow, and spawns only if it was to.
Fires1(p) ==
  /\ Moves(p)
  /\ p \in Timers => place'[p] # "idle" /\ job'[p].flow = job[p].flow
  /\ p \in Callers =>
       \/ place'[p] = "idle" /\ job'[p] = NoJob
       \/ /\ job'[p].flow = job[p].flow
          /\ \/ place'[p] \in FireSteps /\ job'[p].next = job[p].next
             \/ place'[p] = "spawning" /\ job[p].next = "spawn"

LEMMA FiredMoves ==
  ASSUME RegistryTypes, NEW p \in Processes, Fired(p), place[p] \in FireSteps
  PROVE  Fires1(p) /\ place'[p] \notin FireSteps
<1>1. CASE job[p].next = "spawn"
  <2> DEFINE j == [job[p] EXCEPT !.inst = None, !.next = "answer"]
  <2>1. job[p] \in Jobs /\ p \notin Timers
    BY <1>1 DEF RegistryTypes, ProcessTypes, ProcessFits, Fits
  <2>2. j.flow = job[p].flow
    BY <2>1 DEF Jobs
  <2>3. GoesTo(p, "spawning", j)
    BY <1>1 DEF Fired
  <2> HIDE DEF j
  <2>. QED BY <1>1, <2>1, <2>2, <2>3, GoesMoves DEF Fires1, FireSteps
<1>2. CASE job[p].next # "spawn"
  <2>1. Return(p)
    BY <1>2 DEF Fired
  <2>. QED BY <2>1, ReturnMoves, ConstantFacts DEF Fires1, FireSteps
<1>. QED BY <1>1, <1>2

LEMMA FiresMoves ==
  ASSUME RegistryTypes, NEW p \in Processes, Fires(p)
  PROVE  /\ Fires1(p) /\ place[p] \in FireSteps /\ UNCHANGED <<usage, armed, aborted>>
<1>1. place[p] \in FireSteps /\ UNCHANGED <<usage, armed, aborted>>
  BY DEF Fires, Fire, FireIdle, FireStops, FireStarts, At, FireSteps, timerVars
<1>2. job[p] \in Jobs
  BY DEF RegistryTypes, ProcessTypes
<1>3. ASSUME NEW step \in FireSteps, NEW i \in Instances \cup {None}, GoesTo(p, step, [job[p] EXCEPT !.inst = i])
      PROVE  Fires1(p)
  <2> DEFINE j == [job[p] EXCEPT !.inst = i]
  <2>1. j.flow = job[p].flow /\ j.next = job[p].next
    BY <1>2 DEF Jobs
  <2>2. GoesTo(p, step, j)
    BY <1>3
  <2> HIDE DEF j
  <2>. QED BY <2>1, <2>2, GoesMoves DEF Fires1, FireSteps
<1>4. ASSUME Advance(p, "fireStart") PROVE Fires1(p)
  BY <1>4, GoesMoves DEF Advance, Fires1, FireSteps
<1>5. CASE Fire(p)
  <2>1. loaded[job[p].flow].inst \in Instances \cup {None} \/ Fired(p)
    BY <1>1, <1>5, EntryFacts DEF Fire, RegistryTypes, DataTypes, ProcessTypes, ProcessFits, Fits, FireSteps
  <2>. QED BY <1>1, <1>3, <1>5, <2>1, FiredMoves DEF Fire, FireSteps
<1>6. CASE FireIdle(p)
  BY <1>1, <1>4, <1>6, FiredMoves DEF FireIdle
<1>7. CASE FireStops(p)
  BY <1>1, <1>4, <1>7, FiredMoves DEF FireStops
<1>8. CASE FireStarts(p)
  BY <1>1, <1>8, FiredMoves DEF FireStarts
<1>. QED BY <1>1, <1>5, <1>6, <1>7, <1>8 DEF Fires

----------------------------------------------------------------------------
(* One timer. *)

\* Who will put a handle in the map.
AboutToSpawn(c) ==
  place[c] = "spawning" \/ (place[c] \in FireSteps /\ job[c].next = "spawn")

\* A handle is of a timer that exists, of that flow, and that nobody aborted;
\* only a timer that exists is aborted.
HandlesAreKept ==
  /\ \A f \in FlowIds : armed[f] # None =>
       place[armed[f]] # "idle" /\ job[armed[f]].flow = f /\ armed[f] \notin aborted
  /\ \A t \in aborted : place[t] # "idle"

\* One operator spawns only where there is none.
TimersInv ==
  /\ HandlesAreKept
  /\ OneTimer
  /\ Alone => \A c \in Callers : AboutToSpawn(c) => armed[job[c].flow] = None

\* A step that leaves the map and the timers as they are.
LEMMA TimersKept ==
  ASSUME RegistryTypes, TimersInv, UNCHANGED <<usage, armed, aborted>>, NEW p \in Processes, Moves(p),
         p \in Timers => place[p] # "idle" /\ place'[p] # "idle" /\ job'[p].flow = job[p].flow,
         p \in Callers /\ AboutToSpawn(p)' => AboutToSpawn(p) /\ job'[p].flow = job[p].flow
  PROVE  TimersInv'
<1>1. \A t \in Timers : (place'[t] = "idle" <=> place[t] = "idle") /\ (place[t] # "idle" => job'[t].flow = job[t].flow)
  BY ConstantFacts DEF Moves
<1>2. \A c \in Callers : AboutToSpawn(c)' => AboutToSpawn(c) /\ job'[c].flow = job[c].flow
  <2> SUFFICES ASSUME NEW c \in Callers, AboutToSpawn(c)' PROVE AboutToSpawn(c) /\ job'[c].flow = job[c].flow
    OBVIOUS
  <2>1. CASE c = p
    BY <2>1
  <2>2. CASE c # p
    BY <2>2, ConstantFacts DEF Moves, AboutToSpawn
  <2>. QED BY <2>1, <2>2
<1>3. HandlesAreKept'
  BY <1>1 DEF TimersInv, HandlesAreKept, RegistryTypes, DataTypes
<1>4. OneTimer'
  BY <1>1 DEF TimersInv, OneTimer, Alone, At
<1>. QED BY <1>2, <1>3, <1>4 DEF TimersInv, Alone

\* Disarming: the handle leaves the map, and its timer is aborted.
LEMMA DisarmsKeep ==
  ASSUME RegistryTypes, TimersInv, UNCHANGED usage, NEW c \in Callers, NEW f \in FlowIds, Disarms(f),
         Moves(c), AboutToSpawn(c)' => job'[c].flow = f
  PROVE  TimersInv'
<1>1. \A t \in Timers : place'[t] = place[t] /\ job'[t] = job[t]
  BY ConstantFacts DEF Moves
<1>2. /\ armed'[f] = None /\ \A g \in FlowIds \ {f} : armed'[g] = armed[g]
      /\ \A t \in Timers : t \in aborted' <=> t \in aborted \/ (t = armed[f] /\ place[t] # "idle")
      /\ \A g \in FlowIds : armed[g] \in Timers \cup {None}
      /\ aborted' \subseteq Timers
  BY DEF Disarms, At, RegistryTypes, DataTypes
<1>3. HandlesAreKept'
  <2>1. ASSUME NEW g \in FlowIds, armed'[g] # None
        PROVE  place'[armed'[g]] # "idle" /\ job'[armed'[g]].flow = g /\ armed'[g] \notin aborted'
    <3>1. g # f /\ armed'[g] = armed[g] /\ armed[g] \in Timers
      BY <1>2, <2>1
    <3>2. place[armed[g]] # "idle" /\ job[armed[g]].flow = g /\ armed[g] \notin aborted
      BY <2>1, <3>1 DEF TimersInv, HandlesAreKept
    <3>3. armed[g] # armed[f]
      BY <2>1, <3>1, <3>2 DEF TimersInv, HandlesAreKept
    <3>. QED BY <1>1, <1>2, <3>1, <3>2, <3>3
  <2>2. \A t \in aborted' : place'[t] # "idle"
    BY <1>1, <1>2 DEF TimersInv, HandlesAreKept
  <2>. QED BY <2>1, <2>2 DEF HandlesAreKept
<1>4. OneTimer'
  <2> SUFFICES ASSUME Alone, NEW t \in Timers, t \notin aborted', place'[t] # "idle"
               PROVE  armed'[job'[t].flow] = t
    BY DEF OneTimer, Alone, At
  <2>1. armed[job[t].flow] = t /\ t # armed[f] /\ job[t].flow \in FlowIds
    BY <1>1, <1>2, ConstantFacts
       DEF TimersInv, OneTimer, At, RegistryTypes, ProcessTypes, ProcessFits, Fits
  <2>. QED BY <1>1, <1>2, <2>1
<1>5. Alone => \A d \in Callers : AboutToSpawn(d)' => armed'[job'[d].flow] = None
  <2> SUFFICES ASSUME Alone, NEW d \in Callers, AboutToSpawn(d)' PROVE armed'[job'[d].flow] = None
    OBVIOUS
  <2>1. CASE d = c
    BY <1>2, <2>1
  <2>2. CASE d # c
    <3>1. AboutToSpawn(d) /\ job'[d] = job[d]
      BY <2>2, ConstantFacts DEF AboutToSpawn, Moves
    <3>2. armed[job[d].flow] = None /\ job[d].flow \in FlowIds
      BY <3>1, AtWork DEF TimersInv, AboutToSpawn, FireSteps
    <3>. QED BY <1>2, <3>1, <3>2
  <2>. QED BY <2>1, <2>2
<1>. QED BY <1>3, <1>4, <1>5 DEF TimersInv, Alone

\* Arming: where there is no handle, a new timer gets it.
LEMMA SpawnKeeps ==
  ASSUME RegistryTypes, TimersInv, NEW c \in Callers, ArmSpawns(c)
  PROVE  TimersInv'
<1> DEFINE f == job[c].flow
           k == [NoJob EXCEPT !.flow = f]
<1>1. /\ place[c] = "spawning" /\ f \in FlowIds /\ UNCHANGED <<usage, aborted>>
      /\ c \in usage.callers /\ c \in Processes /\ c \notin Timers
  BY AtWork, ConstantFacts DEF ArmSpawns, At
<1>2. k.flow = f
  BY NoJobFacts DEF Jobs
<1>3. PICK t \in Timers :
        /\ place[t] = "idle"
        /\ armed' = [armed EXCEPT ![f] = t]
        /\ place' = [place EXCEPT ![c] = "idle", ![t] = "tick"]
        /\ job' = [job EXCEPT ![c] = NoJob, ![t] = k]
  BY DEF ArmSpawns, At
<1> HIDE DEF k
<1>4. /\ place'[c] = "idle" /\ place'[t] = "tick" /\ job'[t].flow = f /\ t # c
      /\ \A q \in Processes \ {c, t} : place'[q] = place[q] /\ job'[q] = job[q]
  BY <1>1, <1>2, <1>3, ConstantFacts DEF RegistryTypes, ProcessTypes
<1>5. /\ armed'[f] = t /\ \A g \in FlowIds \ {f} : armed'[g] = armed[g]
      /\ \A g \in FlowIds : armed[g] \in Timers \cup {None}
  BY <1>1, <1>3 DEF RegistryTypes, DataTypes
<1> HIDE DEF f
<1>6. t \notin aborted /\ t # None
  BY <1>3, ConstantFacts DEF TimersInv, HandlesAreKept
<1>7. HandlesAreKept'
  <2>1. ASSUME NEW g \in FlowIds, armed'[g] # None
        PROVE  place'[armed'[g]] # "idle" /\ job'[armed'[g]].flow = g /\ armed'[g] \notin aborted'
    <3>1. CASE g = f
      BY <1>1, <1>4, <1>5, <1>6, <3>1
    <3>2. CASE g # f
      <4>1. /\ place[armed[g]] # "idle" /\ job[armed[g]].flow = g /\ armed[g] \notin aborted
            /\ armed[g] \in Timers
        BY <1>5, <2>1, <3>2 DEF TimersInv, HandlesAreKept
      <4>2. armed[g] \in Processes \ {c, t}
        BY <1>1, <1>3, <4>1, ConstantFacts
      <4>. QED BY <1>1, <1>4, <1>5, <3>2, <4>1, <4>2
    <3>. QED BY <3>1, <3>2
  <2>2. \A u \in aborted' : place'[u] # "idle"
    <3> SUFFICES ASSUME NEW u \in aborted PROVE place'[u] # "idle"
      BY <1>1
    <3>1. u \in Processes \ {c, t} /\ place[u] # "idle"
      BY <1>1, <1>6, ConstantFacts DEF TimersInv, HandlesAreKept, RegistryTypes, DataTypes
    <3>. QED BY <1>4, <3>1
  <2>. QED BY <2>1, <2>2 DEF HandlesAreKept
<1>8. OneTimer'
  <2> SUFFICES ASSUME Alone, NEW u \in Timers, u \notin aborted, place'[u] # "idle"
               PROVE  armed'[job'[u].flow] = u
    BY <1>1 DEF OneTimer, Alone, At
  <2>1. CASE u = t
    BY <1>4, <1>5, <2>1
  <2>2. CASE u # t
    <3>1. place'[u] = place[u] /\ job'[u] = job[u] /\ u # None
      BY <1>1, <1>4, <2>2, ConstantFacts
    <3>2. armed[job[u].flow] = u /\ job[u].flow \in FlowIds
      BY <3>1, ConstantFacts
         DEF TimersInv, OneTimer, At, RegistryTypes, ProcessTypes, ProcessFits, Fits
    <3>3. armed[f] = None
      BY <1>1 DEF TimersInv, AboutToSpawn, f
    <3>. QED BY <1>5, <3>1, <3>2, <3>3
  <2>. QED BY <2>1, <2>2
<1>9. Alone => \A d \in Callers : ~AboutToSpawn(d)'
  <2> SUFFICES ASSUME Alone, NEW d \in Callers, AboutToSpawn(d)' PROVE FALSE
    OBVIOUS
  <2>1. d # c
    BY <1>4 DEF AboutToSpawn, FireSteps
  <2>2. place[d] # "idle" /\ d \in usage.callers
    BY <1>3, <1>4, <2>1, AtWork, ConstantFacts DEF AboutToSpawn, FireSteps
  <2>. QED BY <1>1, <2>1, <2>2, OneCaller
<1>. QED BY <1>1, <1>7, <1>8, <1>9 DEF TimersInv, Alone

\* A timer that goes on, ends or is dropped.
LEMMA TimerKeeps ==
  ASSUME RegistryTypes, TimersInv, NEW t \in Timers, Tick(t) \/ TimerCancelled(t)
  PROVE  TimersInv'
<1>1. t \in Processes /\ t # None /\ t \notin Callers
  BY ConstantFacts
<1>2. CASE Tick(t) /\ loaded[job[t].flow] # Nothing
  <2>1. /\ GoesTo(t, "fire", job[t]) /\ place[t] = "tick" /\ UNCHANGED <<usage, armed, aborted>>
    BY <1>2 DEF Tick, At, Advance
  <2>2. Moves(t) /\ place'[t] = "fire" /\ job'[t] = job[t]
    BY <1>1, <2>1, GoesMoves
  <2>. QED BY <1>1, <2>1, <2>2, TimersKept
<1>3. ASSUME GoesTo(t, "idle", NoJob), UNCHANGED usage, aborted' = aborted \ {t},
             \A f \in FlowIds : armed'[f] = IF armed[f] = t THEN None ELSE armed[f]
      PROVE  TimersInv'
  <2>1. Moves(t) /\ place'[t] = "idle"
    BY <1>1, <1>3, GoesMoves
  <2>2. \A q \in Processes \ {t} : place'[q] = place[q] /\ job'[q] = job[q]
    BY <2>1 DEF Moves
  <2>3. \A f \in FlowIds : armed[f] \in Timers \cup {None}
    BY DEF RegistryTypes, DataTypes
  <2>4. HandlesAreKept'
    <3>1. ASSUME NEW f \in FlowIds, armed'[f] # None
          PROVE  place'[armed'[f]] # "idle" /\ job'[armed'[f]].flow = f /\ armed'[f] \notin aborted'
      <4>1. armed'[f] = armed[f] /\ armed[f] \in Processes \ {t}
        BY <1>3, <2>3, <3>1, ConstantFacts
      <4>. QED BY <1>3, <2>2, <3>1, <4>1 DEF TimersInv, HandlesAreKept
    <3>2. \A u \in aborted' : place'[u] # "idle"
      BY <1>3, <2>2, ConstantFacts DEF TimersInv, HandlesAreKept, RegistryTypes, DataTypes
    <3>. QED BY <3>1, <3>2 DEF HandlesAreKept
  <2>5. OneTimer'
    <3> SUFFICES ASSUME Alone, NEW u \in Timers, u \notin aborted', place'[u] # "idle"
                 PROVE  armed'[job'[u].flow] = u
      BY <1>3 DEF OneTimer, Alone, At
    <3>1. u # t /\ place'[u] = place[u] /\ job'[u] = job[u]
      BY <2>1, <2>2, ConstantFacts
    <3>2. armed[job[u].flow] = u /\ job[u].flow \in FlowIds
      BY <1>3, <3>1, ConstantFacts
         DEF TimersInv, OneTimer, At, RegistryTypes, ProcessTypes, ProcessFits, Fits
    <3>. QED BY <1>3, <3>1, <3>2
  <2>6. Alone => \A c \in Callers : AboutToSpawn(c)' => armed'[job'[c].flow] = None
    <3> SUFFICES ASSUME Alone, NEW c \in Callers, AboutToSpawn(c)' PROVE armed'[job'[c].flow] = None
      OBVIOUS
    <3>1. AboutToSpawn(c) /\ job'[c] = job[c]
      BY <1>1, <2>2, ConstantFacts DEF AboutToSpawn
    <3>2. armed[job[c].flow] = None /\ job[c].flow \in FlowIds
      BY <3>1, AtWork DEF TimersInv, AboutToSpawn, FireSteps
    <3>. QED BY <1>1, <1>3, <3>1, <3>2
  <2>. QED BY <1>3, <2>4, <2>5, <2>6 DEF TimersInv, Alone
<1>4. CASE Tick(t) /\ loaded[job[t].flow] = Nothing
  <2>1. /\ GoesTo(t, "idle", NoJob) /\ UNCHANGED usage /\ aborted' = aborted \ {t}
        /\ armed' = [f \in FlowIds |-> IF armed[f] = t THEN None ELSE armed[f]]
    BY <1>4 DEF Tick
  <2>. QED BY <1>3, <2>1
<1>5. CASE TimerCancelled(t)
  <2>1. /\ GoesTo(t, "idle", NoJob) /\ UNCHANGED <<usage, armed>> /\ aborted' = aborted \ {t} /\ t \in aborted
    BY <1>5 DEF TimerCancelled
  <2>2. \A f \in FlowIds : armed[f] # t
    BY <1>1, <2>1 DEF TimersInv, HandlesAreKept
  <2>. QED BY <1>3, <2>1, <2>2
<1>. QED BY <1>2, <1>4, <1>5

\* The inductive invariant.
LEMMA TimersInvariant == RegistrySpec => []TimersInv
<1>1. RegistryInit => TimersInv
  BY ConstantFacts DEF RegistryInit, TimersInv, HandlesAreKept, OneTimer, At, AboutToSpawn, FireSteps
<1>2. RegistryTypes /\ TimersInv /\ [RegistryNext]_registryVars => TimersInv'
  <2> SUFFICES ASSUME RegistryTypes, TimersInv, [RegistryNext]_registryVars PROVE TimersInv'
    OBVIOUS
  <2>1. ASSUME NEW c \in Callers, Begin(c) PROVE TimersInv'
    <3>1. ~(AboutToSpawn(c)')
      BY <2>1, BeginMoves DEF AboutToSpawn
    <3>. QED BY <2>1, <3>1, BeginMoves, TimersKept, ConstantFacts
  <2>2. ASSUME NEW c \in Callers, GoOn(c) PROVE TimersInv'
    <3>1. c \in Processes /\ c \notin Timers /\ (place[c] # "idle" => job[c].flow \in FlowIds)
      BY AtWork, ConstantFacts
    <3>2. CASE ArmSpawns(c)
      BY <3>2, SpawnKeeps
    <3>3. CASE Disarm(c) /\ ~ArmSpawns(c) /\ ~Arm(c)
      <4>1. Disarms(job[c].flow)
        BY <3>3 DEF Disarm
      <4>2. Moves(c) /\ ~(AboutToSpawn(c)') /\ UNCHANGED usage /\ job[c].flow \in FlowIds
        BY <2>2, <3>1, <3>3, GoOnMoves DEF AboutToSpawn
      <4>. QED BY <4>1, <4>2, DisarmsKeep
    <3>4. CASE Arm(c) /\ ~ArmSpawns(c)
      <4>1. Moves(c) /\ UNCHANGED usage /\ job[c].flow \in FlowIds
        BY <2>2, <3>1, <3>4, GoOnMoves
      <4>2. CASE loaded[job[c].flow] = Nothing
        <5>1. Return(c) /\ UNCHANGED <<armed, aborted>>
          BY <3>4, <4>2 DEF Arm
        <5>2. ~(AboutToSpawn(c)')
          BY <3>1, <5>1, ReturnMoves DEF AboutToSpawn, FireSteps
        <5>. QED BY <3>1, <4>1, <5>1, <5>2, TimersKept
      <4>3. CASE loaded[job[c].flow] # Nothing
        <5>1. Disarms(job[c].flow)
          BY <3>4, <4>3 DEF Arm
        <5>2. AboutToSpawn(c)' => job'[c].flow = job[c].flow
          <6> DEFINE j == [job[c] EXCEPT !.next = "spawn"]
          <6>1. j.flow = job[c].flow
            BY <3>1, ConstantFacts DEF RegistryTypes, ProcessTypes, Jobs
          <6>2. GoesTo(c, "fire", j) \/ Return(c) \/ GoesTo(c, "spawning", job[c])
            BY <3>4, <4>3 DEF Arm, Advance
          <6> HIDE DEF j
          <6>. QED BY <3>1, <6>1, <6>2, GoesMoves, ReturnMoves DEF AboutToSpawn, FireSteps
        <5>. QED BY <4>1, <5>1, <5>2, DisarmsKeep
      <4>. QED BY <4>2, <4>3
    <3>5. CASE ~Disarm(c) /\ ~ArmSpawns(c) /\ ~Arm(c)
      <4>1. Moves(c) /\ ~(AboutToSpawn(c)') /\ UNCHANGED <<usage, armed, aborted>>
        BY <2>2, <3>5, GoOnMoves DEF AboutToSpawn
      <4>. QED BY <3>1, <4>1, TimersKept
    <3>. QED BY <3>2, <3>3, <3>4, <3>5
  <2>3. ASSUME NEW p \in Processes, Fires(p) PROVE TimersInv'
    <3>1. Fires1(p) /\ place[p] \in FireSteps /\ UNCHANGED <<usage, armed, aborted>>
      BY <2>3, FiresMoves
    <3>2. p \in Callers /\ AboutToSpawn(p)' => AboutToSpawn(p) /\ job'[p].flow = job[p].flow
      BY <3>1 DEF Fires1, AboutToSpawn, FireSteps
    <3>3. Moves(p) /\ (p \in Timers => place[p] # "idle" /\ place'[p] # "idle" /\ job'[p].flow = job[p].flow)
      BY <3>1 DEF Fires1, FireSteps
    <3>. QED BY <3>1, <3>2, <3>3, TimersKept
  <2>4. ASSUME NEW i \in Instances, EngineEnds(i) PROVE TimersInv'
    BY <2>4 DEF EngineEnds, timerVars, TimersInv, HandlesAreKept, OneTimer, Alone, At, AboutToSpawn
  <2>5. ASSUME NEW i \in Instances, NEW f \in FlowIds, Seed(f, i) PROVE TimersInv'
    <3>1. PICK c \in usage.callers : GoesTo(c, "read", [NoJob EXCEPT !.flow = f, !.next = "arming"])
      BY <2>5 DEF Seed
    <3>2. c \in Callers /\ UNCHANGED <<usage, armed, aborted>>
      BY <2>5, RegistryAssumption DEF RegistryAssumption, UsageType, RegistryTypes, DataTypes, Seed, timerVars
    <3>3. Moves(c) /\ ~(AboutToSpawn(c)')
      BY <3>1, <3>2, GoesMoves, ConstantFacts DEF AboutToSpawn, FireSteps
    <3>. QED BY <3>2, <3>3, TimersKept, ConstantFacts
  <2>6. CASE ServerCrash
    BY <2>6, ConstantFacts
       DEF ServerCrash, TimersInv, HandlesAreKept, OneTimer, Alone, At, AboutToSpawn, FireSteps
  <2>7. CASE UNCHANGED registryVars
    BY <2>7 DEF registryVars, timerVars, TimersInv, HandlesAreKept, OneTimer, Alone, At, AboutToSpawn
  <2>. QED BY <2>1, <2>2, <2>3, <2>4, <2>5, <2>6, <2>7, TimerKeeps DEF RegistryNext
<1>. QED BY <1>1, <1>2, RegistryTyped, PTL DEF RegistrySpec

\* FlowScheduler: with one operator, the only timer of a flow at work is the one
\* whose handle is in the map; any other was aborted.
THEOREM TimersAreAlone == RegistrySpec => []OneTimer
BY TimersInvariant, PTL DEF TimersInv

----------------------------------------------------------------------------
(* What was answered is saved. *)

\* What is written is what is in memory, until it is renamed.
SavedInv ==
  Alone /\ usage.persistent =>
    /\ \A f \in FlowIds : answered[f] = "change" => disk[f] = records[f]
    /\ \A c \in Callers : /\ place[c] = "write" => job[c].snap = records
                          /\ place[c] = "rename" => tmp = records

\* A step that changes one record in memory, or none.
Changes ==
  /\ UNCHANGED <<disk, tmp>>
  /\ UNCHANGED <<records, answered>> \/ \E f \in FlowIds : \E r \in FlowRecord : Change(f, r)

LEMMA BeginChanges ==
  ASSUME RegistryTypes, NEW c \in Callers, Begin(c)
  PROVE  Changes
<1>1. ASSUME NEW f \in FlowIds, Create(c, f) \/ Publish(c, f) PROVE Changes
  <2>1. PICK request \in {"create", "publish"}, next \in {"idle", "validating"} : CreateDraft(c, f, request, next)
    BY <1>1 DEF Create, Publish
  <2>2. Drafted(f) \in FlowRecord
    BY <2>1, RecordsAre DEF Drafted, CreateDraft
  <2>. QED BY <2>1, <2>2 DEF CreateDraft, Changes
<1>2. ASSUME NEW f \in FlowIds, NEW v \in Versions, Validate(c, f, v) PROVE Changes
  BY <1>2, RecordsAre DEF Validate, Changes
<1>3. ASSUME NEW f \in FlowIds,
             \/ \E v \in Versions : Archive(c, f, v) \/ \E start \in BOOLEAN : Deploy(c, f, v, start)
             \/ \E start \in BOOLEAN : Rollback(c, f, start)
             \/ Stop(c, f) \/ Start(c, f) \/ Trigger(c, f)
      PROVE  Changes
  BY <1>3 DEF Archive, Deploy, Rollback, Stop, Start, Trigger, storeVars, Changes
<1>. QED BY <1>1, <1>2, <1>3 DEF Begin

LEMMA GoOnChanges ==
  ASSUME RegistryTypes, NEW c \in Callers, GoOn(c), ~Persist(c)
  PROVE  Changes
<1>1. ASSUME place[c] # "idle" PROVE job[c].flow \in FlowIds /\ Fits(place[c], job[c])
  BY <1>1, AtWork
<1>2. CASE PublishValidates(c)
  <2>1. job[c].flow \in FlowIds /\ job[c].version \in Versions
    BY <1>1, <1>2 DEF PublishValidates, At, Fits, HasVersion
  <2>. QED BY <1>2, <2>1, RecordsAre DEF PublishValidates, Changes
<1>3. CASE Archives(c)
  <2>1. job[c].flow \in FlowIds /\ job[c].version \in Versions
    BY <1>1, <1>3 DEF Archives, At, Fits, HasVersion
  <2>2. PICK r \in FlowRecord : Change(job[c].flow, r)
    BY <1>3, <2>1, RecordsAre DEF Archives
  <2>. QED BY <1>3, <2>1, <2>2 DEF Archives, Changes
<1>4. CASE ActivateRecords(c)
  <2>1. job[c].flow \in FlowIds /\ job[c].version \in Versions
    BY <1>1, <1>4 DEF ActivateRecords, At, Fits, HasVersion
  <2>2. records[job[c].flow] \in FlowRecord
    BY <2>1 DEF RegistryTypes, DataTypes, Snapshots
  <2>3. PICK r \in FlowRecord : Change(job[c].flow, r)
    BY <1>4, <2>1, <2>2, RecordsAre DEF ActivateRecords
  <2>. QED BY <1>4, <2>1, <2>3 DEF ActivateRecords, Changes
<1>5. CASE DeployLocks(c) \/ ActivateRefused(c) \/ ActivateChecks(c) \/ ActivateRemoves(c)
           \/ ActivateStops(c) \/ ActivateKeepsOld(c) \/ ActivateStarts(c) \/ ActivateFails(c)
           \/ ActivateRestores(c)
  BY <1>5 DEF DeployLocks, ActivateRefused, ActivateChecks, ActivateRemoves, ActivateStops,
     ActivateKeepsOld, ActivateStarts, ActivateFails, ActivateRestores, storeVars, Changes
<1>6. CASE \/ Disarm(c) \/ Unload(c) \/ UnloadStops(c) \/ UnloadKeeps(c)
           \/ StartActs(c) \/ Arm(c) \/ ArmSpawns(c)
  BY <1>6 DEF Disarm, Unload, UnloadStops, UnloadKeeps, StartActs, Arm, ArmSpawns, storeVars, Changes
<1>. QED BY <1>2, <1>3, <1>4, <1>5, <1>6 DEF GoOn, Activate

\* With one operator nobody else is in the middle of a persist.
LEMMA SavedKept ==
  ASSUME RegistryTypes, SavedInv, UNCHANGED usage, Changes,
         \A c \in Callers : place'[c] \in {"write", "rename"} =>
           UNCHANGED records /\ place'[c] = place[c] /\ job'[c] = job[c]
  PROVE  SavedInv'
<1> SUFFICES ASSUME Alone, usage.persistent PROVE SavedInv'
  BY DEF SavedInv, Alone
<1>1. \A f \in FlowIds : answered'[f] = "change" => disk'[f] = records'[f]
  <2>1. CASE UNCHANGED <<records, answered>>
    BY <2>1 DEF SavedInv, Changes
  <2>2. ASSUME NEW f \in FlowIds, NEW r \in FlowRecord, Change(f, r)
        PROVE  \A g \in FlowIds : answered'[g] = "change" => disk'[g] = records'[g]
    <3>1. \A g \in FlowIds : IF g = f THEN answered'[g] = "no"
                             ELSE answered'[g] = answered[g] /\ records'[g] = records[g]
      BY <2>2 DEF Change, RegistryTypes, DataTypes, Snapshots
    <3>. QED BY <3>1 DEF SavedInv, Changes
  <2>. QED BY <2>1, <2>2 DEF Changes
<1>2. \A c \in Callers : /\ place'[c] = "write" => job'[c].snap = records'
                         /\ place'[c] = "rename" => tmp' = records'
  BY DEF SavedInv, Changes
<1>. QED BY <1>1, <1>2 DEF SavedInv

\* A persist: it reads what is in memory, writes that, and puts it in flows.json.
LEMMA PersistSaves ==
  ASSUME RegistryTypes, SavedInv, NEW c \in Callers, Persist(c)
  PROVE  SavedInv'
<1>1. /\ c \in Processes /\ c \in usage.callers /\ UNCHANGED <<usage, records>> /\ place[c] \in Persisting
      /\ job[c].flow \in FlowIds /\ job[c] \in Jobs
  BY AtWork, ConstantFacts
     DEF Persist, PersistReads, PersistWrites, PersistRenames, PersistFails, At, Persisting
<1> SUFFICES ASSUME Alone, usage.persistent PROVE SavedInv'
  BY <1>1 DEF SavedInv, Alone
<1>2. \A d \in Callers : d # c => place[d] = "idle"
  BY <1>1, AtWork, OneCaller
<1>3. ASSUME Moves(c), place'[c] \notin {"write", "rename"},
             \A f \in FlowIds : answered'[f] = "change" => disk'[f] = records'[f]
      PROVE  SavedInv'
  <2>1. \A d \in Callers : place'[d] \notin {"write", "rename"}
    BY <1>2, <1>3, ConstantFacts DEF Moves
  <2>. QED BY <1>3, <2>1 DEF SavedInv
<1>4. ASSUME DeploymentDone(c) \/ PersistDone(c), job[c].next \in AfterPersist
      PROVE  /\ Moves(c) /\ place'[c] \notin {"write", "rename"}
             /\ \A f \in FlowIds \ {job[c].flow} : answered'[f] = answered[f]
             /\ DeploymentDone(c) => answered'[job[c].flow] = "deployment"
  <2>1. Moves(c) /\ place'[c] \notin {"write", "rename"}
    BY <1>1, <1>4, GoesMoves, ReturnMoves DEF DeploymentDone, PersistDone, AfterPersist
  <2>. QED BY <1>1, <1>4, <2>1 DEF DeploymentDone, PersistDone, Answers, RegistryTypes, DataTypes
<1>5. job[c].next \in AfterPersist
  BY <1>1, AtWork DEF Fits, Persisting
<1>6. CASE PersistReads(c)
  <2>1. GoesTo(c, "write", [job[c] EXCEPT !.snap = records]) /\ UNCHANGED <<disk, answered>>
    BY <1>6 DEF PersistReads
  <2>2. Moves(c) /\ place'[c] = "write" /\ job'[c].snap = records
    BY <1>1, <2>1, GoesMoves DEF Jobs
  <2>3. \A d \in Callers : d # c => place'[d] = "idle"
    BY <1>2, <2>2, ConstantFacts DEF Moves
  <2>. QED BY <1>1, <2>1, <2>2, <2>3 DEF SavedInv
<1>7. CASE PersistWrites(c)
  <2>1. /\ place[c] = "write" /\ tmp' = job[c].snap /\ UNCHANGED <<disk, answered>>
        /\ GoesTo(c, "rename", job[c])
    BY <1>7 DEF PersistWrites, At, Advance
  <2>2. Moves(c) /\ place'[c] = "rename"
    BY <1>1, <2>1, GoesMoves
  <2>3. \A d \in Callers : d # c => place'[d] = "idle"
    BY <1>2, <2>2, ConstantFacts DEF Moves
  <2>. QED BY <1>1, <2>1, <2>2, <2>3 DEF SavedInv
<1>8. CASE PersistRenames(c)
  <2>1. disk' = records
    BY <1>8 DEF PersistRenames, At, SavedInv
  <2>. QED BY <1>1, <1>3, <1>4, <1>5, <1>8, <2>1 DEF PersistRenames
<1>9. CASE PersistFails(c)
  <2>1. UNCHANGED disk /\ (DeploymentDone(c) \/ (Return(c) /\ UNCHANGED answered))
    BY <1>9 DEF PersistFails
  <2>2. Moves(c) /\ place'[c] \notin {"write", "rename"}
    BY <1>1, <1>4, <1>5, <2>1, ReturnMoves
  <2>3. \A f \in FlowIds : answered'[f] = "change" => answered[f] = "change"
    BY <1>1, <1>4, <1>5, <2>1
  <2>. QED BY <1>1, <1>3, <2>1, <2>2, <2>3 DEF SavedInv
<1>. QED BY <1>6, <1>7, <1>8, <1>9 DEF Persist

LEMMA SavedInvariant == RegistrySpec => []SavedInv
<1>1. RegistryInit => SavedInv
  BY ConstantFacts DEF RegistryInit, SavedInv
<1>2. RegistryTypes /\ SavedInv /\ [RegistryNext]_registryVars => SavedInv'
  <2> SUFFICES ASSUME RegistryTypes, SavedInv, [RegistryNext]_registryVars PROVE SavedInv'
    OBVIOUS
  <2>1. ASSUME NEW c \in Callers, Moves(c), UNCHANGED usage, Changes, c \in usage.callers,
               place'[c] \notin {"write", "rename"}
        PROVE  SavedInv'
    <3> SUFFICES ASSUME Alone, usage.persistent PROVE SavedInv'
      BY <2>1 DEF SavedInv, Alone
    <3>1. \A d \in Callers : d # c => place'[d] = place[d] /\ place[d] = "idle"
      BY <2>1, AtWork, OneCaller, ConstantFacts DEF Moves
    <3>. QED BY <2>1, <3>1, SavedKept
  <2>2. ASSUME NEW c \in Callers, Begin(c) PROVE SavedInv'
    BY <2>1, <2>2, BeginMoves, BeginChanges
  <2>3. ASSUME NEW c \in Callers, GoOn(c) PROVE SavedInv'
    <3>1. CASE Persist(c)
      BY <3>1, PersistSaves
    <3>2. CASE ArmSpawns(c)
      <4>1. UNCHANGED usage /\ UNCHANGED storeVars
        BY <3>2 DEF ArmSpawns
      <4>2. \A d \in Callers : place'[d] \in {"write", "rename"} => place'[d] = place[d] /\ job'[d] = job[d]
        BY <3>2, ConstantFacts DEF ArmSpawns, RegistryTypes, ProcessTypes
      <4>. QED BY <4>1, <4>2, SavedKept DEF storeVars, Changes
    <3>3. CASE ~Persist(c) /\ ~ArmSpawns(c)
      BY <2>1, <2>3, <3>3, GoOnMoves, GoOnChanges
    <3>. QED BY <3>1, <3>2, <3>3
  <2>4. ASSUME NEW p \in Processes, Fires(p) PROVE SavedInv'
    <3>1. Fires1(p) /\ UNCHANGED usage
      BY <2>4, FiresMoves
    <3>2. UNCHANGED storeVars
      BY <2>4 DEF Fires, Fire, FireIdle, FireStops, FireStarts
    <3>3. \A d \in Callers : place'[d] \in {"write", "rename"} => place'[d] = place[d] /\ job'[d] = job[d]
      BY <3>1, ConstantFacts DEF Fires1, Moves, FireSteps
    <3>. QED BY <3>1, <3>2, <3>3, SavedKept DEF storeVars, Changes
  <2>5. ASSUME NEW t \in Timers, Tick(t) \/ TimerCancelled(t) PROVE SavedInv'
    <3>1. UNCHANGED usage /\ UNCHANGED storeVars /\ \E step, j : GoesTo(t, step, j)
      BY <2>5 DEF Tick, TimerCancelled, Advance
    <3>2. \A d \in Callers : place'[d] = place[d] /\ job'[d] = job[d]
      BY <3>1, GoesMoves, ConstantFacts DEF Moves
    <3>. QED BY <3>1, <3>2, SavedKept DEF storeVars, Changes
  <2>6. ASSUME NEW i \in Instances, EngineEnds(i) PROVE SavedInv'
    BY <2>6, SavedKept DEF EngineEnds, storeVars, Changes
  <2>7. ASSUME NEW i \in Instances, NEW f \in FlowIds, Seed(f, i) PROVE SavedInv'
    <3>1. PICK c \in usage.callers : GoesTo(c, "read", [NoJob EXCEPT !.flow = f, !.next = "arming"])
      BY <2>7 DEF Seed
    <3>2. c \in Callers
      BY RegistryAssumption DEF RegistryAssumption, UsageType, RegistryTypes, DataTypes
    <3>3. Moves(c) /\ place'[c] = "read"
      BY <3>1, <3>2, GoesMoves, ConstantFacts
    <3>4. DeployedAfter(Drafted(f), NextVersion(f)) \in FlowRecord
      BY <2>7, RecordsAre DEF Seed, Drafted
    <3>5. Changes /\ UNCHANGED usage
      BY <2>7, <3>4 DEF Seed, Changes
    <3>. QED BY <2>1, <3>2, <3>3, <3>5
  <2>8. CASE ServerCrash
    BY <2>8, ConstantFacts DEF ServerCrash, SavedInv
  <2>9. CASE UNCHANGED registryVars
    BY <2>9, SavedKept DEF registryVars, storeVars, Changes
  <2>. QED BY <2>2, <2>3, <2>4, <2>5, <2>6, <2>7, <2>8, <2>9 DEF RegistryNext
<1>. QED BY <1>1, <1>2, RegistryTyped, PTL DEF RegistrySpec

\* FlowRegistry::persist: with one operator, a draft, a validation or an archive
\* that was answered as done is in flows.json, whatever failed before.
THEOREM AnswersAreSaved == RegistrySpec => []AnsweredIsSaved
<1>1. SavedInv => AnsweredIsSaved
  BY DEF SavedInv, AnsweredIsSaved
<1>. QED BY <1>1, SavedInvariant, PTL

----------------------------------------------------------------------------
(* Who holds the lock. *)

LockSteps == {"locked", "checked", "removed", "starting", "restoring", "recording"}

\* Whoever is between the two ends of a deployment holds deployment_lock.
HoldsLock(c) == place[c] \in LockSteps \/ (place[c] \in Persisting /\ job[c].next = "synced")
LockInv == \A c \in Callers : HoldsLock(c) => deployer = c

\* A step of anyone that leaves the lock alone.
LEMMA LockKept ==
  ASSUME RegistryTypes, LockInv, NEW p \in Processes, Moves(p), UNCHANGED deployer,
         p \in Callers /\ HoldsLock(p)' => HoldsLock(p)
  PROVE  LockInv'
<1> SUFFICES ASSUME NEW c \in Callers, HoldsLock(c)' PROVE deployer' = c
  BY DEF LockInv
<1>1. CASE c = p
  BY <1>1 DEF LockInv
<1>2. CASE c # p
  BY <1>2, ConstantFacts DEF LockInv, Moves, HoldsLock
<1>. QED BY <1>1, <1>2

\* Who holds it gives it up.
LEMMA LockReleased ==
  ASSUME RegistryTypes, LockInv, NEW c \in Callers, HoldsLock(c), Moves(c), ~(HoldsLock(c)')
  PROVE  LockInv'
<1> SUFFICES ASSUME NEW d \in Callers, HoldsLock(d)' PROVE FALSE
  BY DEF LockInv
<1>1. d # c
  OBVIOUS
<1>2. HoldsLock(d)
  BY <1>1, ConstantFacts DEF Moves, HoldsLock
<1>. QED BY <1>1, <1>2 DEF LockInv

\* A request changes nothing that is loaded, or at work, nor the lock.
LEMMA BeginKeeps ==
  ASSUME NEW c \in Callers, Begin(c)
  PROVE  UNCHANGED <<loaded, live, deployer>>
BY DEF Begin, Create, Publish, CreateDraft, Validate, Archive, Deploy, Rollback, Stop, Start, Trigger

LEMMA PersistLocks ==
  ASSUME RegistryTypes, LockInv, NEW c \in Callers, Persist(c)
  PROVE  /\ LockInv' /\ UNCHANGED <<loaded, live>> /\ place'[c] \notin LockSteps \cup {"unloaded"}
<1>1. /\ c \in Processes /\ c \notin Timers /\ UNCHANGED <<loaded, live>> /\ place[c] \in Persisting
      /\ job[c].next \in AfterPersist /\ job[c] \in Jobs
  BY AtWork, ConstantFacts
     DEF Persist, PersistReads, PersistWrites, PersistRenames, PersistFails, At, Persisting, Fits
<1>2. ASSUME NEW step \in {"write", "rename"}, NEW j, GoesTo(c, step, j), j.next = job[c].next,
             UNCHANGED deployer
      PROVE  LockInv' /\ place'[c] \notin LockSteps \cup {"unloaded"}
  <2>1. Moves(c) /\ place'[c] = step /\ job'[c] = j
    BY <1>1, <1>2, GoesMoves
  <2>2. HoldsLock(c)' => HoldsLock(c)
    BY <1>1, <1>2, <2>1 DEF HoldsLock, LockSteps, Persisting
  <2>. QED BY <1>1, <1>2, <2>1, <2>2, LockKept DEF LockSteps
<1>3. ASSUME DeploymentDone(c), Deploying(c) PROVE LockInv' /\ place'[c] \notin LockSteps \cup {"unloaded"}
  <2>1. Moves(c) /\ place'[c] \in {"arming", "disarming"}
    BY <1>1, <1>3, GoesMoves DEF DeploymentDone
  <2>2. HoldsLock(c) /\ ~(HoldsLock(c)')
    BY <1>1, <1>3, <2>1 DEF HoldsLock, Deploying, LockSteps, Persisting
  <2>. QED BY <2>1, <2>2, LockReleased DEF LockSteps
<1>4. ASSUME Return(c), UNCHANGED deployer PROVE LockInv' /\ place'[c] \notin LockSteps \cup {"unloaded"}
  <2>1. Moves(c) /\ place'[c] = "idle"
    BY <1>1, <1>4, ReturnMoves
  <2>2. ~(HoldsLock(c)')
    BY <2>1 DEF HoldsLock, LockSteps, Persisting
  <2>. QED BY <1>1, <1>4, <2>1, <2>2, LockKept DEF LockSteps
<1>5. ASSUME PersistDone(c), ~Deploying(c) PROVE LockInv' /\ place'[c] \notin LockSteps \cup {"unloaded"}
  <2>1. CASE job[c].next = "idle"
    BY <1>4, <1>5, <2>1 DEF PersistDone
  <2>2. CASE job[c].next # "idle"
    <3>1. Moves(c) /\ place'[c] \in {"validating", "deploying", "arming"} /\ UNCHANGED deployer
      BY <1>1, <1>5, <2>2, GoesMoves DEF PersistDone, Deploying, AfterPersist
    <3>2. ~(HoldsLock(c)')
      BY <3>1 DEF HoldsLock, LockSteps, Persisting
    <3>. QED BY <1>1, <3>1, <3>2, LockKept DEF LockSteps
  <2>. QED BY <2>1, <2>2
<1>6. CASE PersistReads(c)
  <2>1. [job[c] EXCEPT !.snap = records].next = job[c].next
    BY <1>1 DEF Jobs
  <2>. QED BY <1>1, <1>2, <1>3, <1>5, <1>6, <2>1 DEF PersistReads
<1>7. CASE PersistWrites(c)
  BY <1>1, <1>2, <1>7 DEF PersistWrites, Advance
<1>8. CASE PersistRenames(c)
  BY <1>1, <1>3, <1>5, <1>8 DEF PersistRenames
<1>9. CASE PersistFails(c)
  BY <1>1, <1>3, <1>4, <1>9 DEF PersistFails
<1>. QED BY <1>1, <1>6, <1>7, <1>8, <1>9 DEF Persist

\* The steps of a deployment.
LEMMA ActivateLocks ==
  ASSUME RegistryTypes, LockInv, NEW c \in Callers, Activate(c)
  PROVE  LockInv' /\ (~DeployLocks(c) => HoldsLock(c) /\ deployer = c)
<1>1. c \in Processes /\ c \notin Timers
  BY ConstantFacts
<1>2. CASE DeployLocks(c)
  <2>1. \A d \in Callers : ~HoldsLock(d)
    BY <1>2, ConstantFacts DEF DeployLocks, LockInv
  <2>2. Moves(c) /\ deployer' = c
    BY <1>1, <1>2, GoesMoves DEF DeployLocks, Advance
  <2>3. \A d \in Callers : d # c => ~(HoldsLock(d)')
    BY <2>1, <2>2, ConstantFacts DEF Moves, HoldsLock
  <2>. QED BY <1>2, <2>2, <2>3 DEF LockInv
<1>3. ASSUME ~DeployLocks(c) PROVE HoldsLock(c)
  BY <1>3 DEF Activate, ActivateRefused, ActivateChecks, ActivateRemoves, ActivateStops,
     ActivateKeepsOld, ActivateStarts, ActivateFails, ActivateRestores, ActivateRecords, At,
     HoldsLock, LockSteps
<1>4. ASSUME ~DeployLocks(c), Return(c) PROVE LockInv'
  <2>1. Moves(c) /\ place'[c] = "idle"
    BY <1>1, <1>4, ReturnMoves
  <2>. QED BY <1>3, <1>4, <2>1, LockReleased DEF HoldsLock, LockSteps, Persisting
<1>5. ASSUME ~DeployLocks(c), UNCHANGED deployer, NEW step, NEW j, GoesTo(c, step, j) PROVE LockInv'
  BY <1>1, <1>3, <1>5, GoesMoves, LockKept
<1>6. CASE ~DeployLocks(c)
  <2>1. HoldsLock(c) /\ deployer = c
    BY <1>3, <1>6 DEF LockInv
  <2>2. CASE ActivateRefused(c) \/ ActivateKeepsOld(c) \/ ActivateRestores(c)
    BY <1>4, <1>6, <2>1, <2>2 DEF ActivateRefused, ActivateKeepsOld, ActivateRestores
  <2>3. CASE ActivateChecks(c) \/ ActivateRemoves(c) \/ ActivateRecords(c)
    BY <1>5, <1>6, <2>1, <2>3 DEF ActivateChecks, ActivateRemoves, ActivateRecords
  <2>4. CASE ActivateStops(c) \/ ActivateStarts(c)
    BY <1>5, <1>6, <2>1, <2>4 DEF ActivateStops, ActivateStarts, Advance
  <2>5. CASE ActivateFails(c)
    BY <1>4, <1>5, <1>6, <2>1, <2>5 DEF ActivateFails, Advance
  <2>. QED BY <1>6, <2>2, <2>3, <2>4, <2>5 DEF Activate
<1>. QED BY <1>2, <1>3, <1>6 DEF LockInv

\* What is neither a persist nor a deployment has nothing to do with the lock.
LEMMA OthersLock ==
  ASSUME RegistryTypes, LockInv, NEW c \in Callers, GoOn(c), ~Persist(c), ~Activate(c)
  PROVE  LockInv' /\ UNCHANGED deployer /\ (~ArmSpawns(c) => ~(place'[c] \in LockSteps))
<1>1. c \in Processes /\ c \notin Timers
  BY ConstantFacts
<1>2. UNCHANGED deployer
  BY DEF GoOn, PublishValidates, Archives, Disarm, Unload, UnloadStops, UnloadKeeps, StartActs, Arm,
     ArmSpawns
<1>3. ASSUME NEW step, NEW j, GoesTo(c, step, j), step \notin LockSteps,
             step \in Persisting => j.next # "synced"
      PROVE  LockInv' /\ ~(place'[c] \in LockSteps)
  <2>1. Moves(c) /\ place'[c] = step /\ job'[c] = j
    BY <1>1, <1>3, GoesMoves
  <2>. QED BY <1>1, <1>2, <1>3, <2>1, LockKept DEF HoldsLock
<1>4. ASSUME Return(c) PROVE LockInv' /\ ~(place'[c] \in LockSteps)
  BY <1>1, <1>3, <1>4 DEF Return, LockSteps, Persisting
<1>5. CASE PublishValidates(c)
  <2>1. job[c] \in Jobs
    BY <1>1 DEF RegistryTypes, ProcessTypes
  <2>2. [job[c] EXCEPT !.next = "deploying"].next = "deploying"
    BY <2>1 DEF Jobs
  <2>. QED BY <1>2, <1>3, <1>4, <1>5, <2>2 DEF PublishValidates, LockSteps
<1>6. CASE Archives(c)
  <2>1. [NoJob EXCEPT !.flow = job[c].flow].next = "idle"
    BY NoJobFacts DEF Jobs
  <2>. QED BY <1>2, <1>3, <1>6, <2>1 DEF Archives, LockSteps
<1>7. CASE Disarm(c) \/ Unload(c) \/ UnloadStops(c) \/ UnloadKeeps(c)
  BY <1>2, <1>3, <1>4, <1>7 DEF Disarm, Unload, UnloadStops, UnloadKeeps, Advance, LockSteps, Persisting
<1>8. CASE StartActs(c) \/ Arm(c)
  BY <1>2, <1>3, <1>4, <1>8 DEF StartActs, Arm, Advance, LockSteps, Persisting
<1>9. CASE ArmSpawns(c)
  <2>1. \A d \in Callers : HoldsLock(d)' => HoldsLock(d)
    BY <1>9, ConstantFacts DEF ArmSpawns, RegistryTypes, ProcessTypes, HoldsLock, LockSteps, Persisting
  <2>. QED BY <1>2, <1>9, <2>1 DEF LockInv
<1>. QED BY <1>2, <1>5, <1>6, <1>7, <1>8, <1>9 DEF GoOn

LEMMA LockInvariant == RegistrySpec => []LockInv
<1>1. RegistryInit => LockInv
  BY ConstantFacts DEF RegistryInit, LockInv, HoldsLock, LockSteps, Persisting
<1>2. RegistryTypes /\ LockInv /\ [RegistryNext]_registryVars => LockInv'
  <2> SUFFICES ASSUME RegistryTypes, LockInv, [RegistryNext]_registryVars PROVE LockInv'
    OBVIOUS
  <2>1. ASSUME NEW c \in Callers, Begin(c) PROVE LockInv'
    <3>1. ~(HoldsLock(c)')
      BY <2>1, BeginMoves DEF HoldsLock, LockSteps
    <3>. QED BY <2>1, <3>1, BeginMoves, BeginKeeps, LockKept, ConstantFacts
  <2>2. ASSUME NEW c \in Callers, GoOn(c) PROVE LockInv'
    BY <2>2, PersistLocks, ActivateLocks, OthersLock
  <2>3. ASSUME NEW p \in Processes, Fires(p) PROVE LockInv'
    <3>1. Fires1(p) /\ UNCHANGED deployer
      BY <2>3, FiresMoves DEF Fires, Fire, FireIdle, FireStops, FireStarts
    <3>2. p \in Callers => ~(HoldsLock(p)')
      BY <3>1 DEF Fires1, FireSteps, HoldsLock, LockSteps, Persisting
    <3>. QED BY <3>1, <3>2, LockKept DEF Fires1
  <2>4. ASSUME NEW t \in Timers, Tick(t) \/ TimerCancelled(t) PROVE LockInv'
    <3>1. UNCHANGED deployer /\ \E step, j : GoesTo(t, step, j)
      BY <2>4 DEF Tick, TimerCancelled, Advance
    <3>. QED BY <3>1, GoesMoves, LockKept, ConstantFacts
  <2>5. ASSUME NEW i \in Instances, EngineEnds(i) PROVE LockInv'
    BY <2>5 DEF EngineEnds, LockInv, HoldsLock
  <2>6. ASSUME NEW i \in Instances, NEW f \in FlowIds, Seed(f, i) PROVE LockInv'
    <3> DEFINE j == [NoJob EXCEPT !.flow = f, !.next = "arming"]
    <3>1. PICK c \in usage.callers : GoesTo(c, "read", j)
      BY <2>6 DEF Seed
    <3>2. c \in Callers
      BY RegistryAssumption DEF RegistryAssumption, UsageType, RegistryTypes, DataTypes
    <3>3. j.next = "arming"
      BY NoJobFacts DEF Jobs
    <3> HIDE DEF j
    <3>4. Moves(c) /\ ~(HoldsLock(c)')
      BY <3>1, <3>2, <3>3, GoesMoves, ConstantFacts DEF HoldsLock, LockSteps
    <3>. QED BY <2>6, <3>2, <3>4, LockKept, ConstantFacts DEF Seed
  <2>7. CASE ServerCrash
    BY <2>7, ConstantFacts DEF ServerCrash, LockInv, HoldsLock, LockSteps, Persisting
  <2>8. CASE UNCHANGED registryVars
    BY <2>8 DEF registryVars, LockInv, HoldsLock
  <2>. QED BY <2>1, <2>2, <2>3, <2>4, <2>5, <2>6, <2>7, <2>8 DEF RegistryNext
<1>. QED BY <1>1, <1>2, RegistryTyped, PTL DEF RegistrySpec

----------------------------------------------------------------------------
(* What a usage leaves out never happens. *)

NoSchedule == usage.scheduled = {}

\* Orderly: nothing is archived, and an engine is started only by a deployment or
\* by a schedule; without schedules there are no timers, and no catch-up.
QuietInv ==
  /\ Orderly => \A c \in Callers : /\ place[c] \notin {"archiving", "got"}
                                   /\ place[c] \in FireSteps => job[c].next = "spawn"
  /\ NoSchedule => /\ \A t \in Timers : place[t] = "idle"
                   /\ \A c \in Callers : ~AboutToSpawn(c)

LEMMA QuietKept ==
  ASSUME RegistryTypes, QuietInv, UNCHANGED usage, NEW p \in Processes, Moves(p), p \in Timers => place[p] # "idle",
         p \in Callers /\ Orderly => /\ place'[p] \notin {"archiving", "got"}
                                     /\ place'[p] \in FireSteps => job'[p].next = "spawn",
         p \in Callers /\ NoSchedule => ~(AboutToSpawn(p)')
  PROVE  QuietInv'
<1>1. ASSUME Orderly, NEW c \in Callers
      PROVE  /\ place'[c] \notin {"archiving", "got"}
             /\ place'[c] \in FireSteps => job'[c].next = "spawn"
  <2>1. CASE c = p
    BY <1>1, <2>1
  <2>2. CASE c # p
    BY <1>1, <2>2, ConstantFacts DEF QuietInv, Moves
  <2>. QED BY <2>1, <2>2
<1>2. ASSUME NoSchedule PROVE \A t \in Timers : place'[t] = "idle"
  BY <1>2, ConstantFacts DEF QuietInv, Moves
<1>3. ASSUME NoSchedule, NEW c \in Callers PROVE ~(AboutToSpawn(c)')
  <2>1. CASE c = p
    BY <1>3, <2>1
  <2>2. CASE c # p
    BY <1>3, <2>2, ConstantFacts DEF QuietInv, Moves, AboutToSpawn
  <2>. QED BY <2>1, <2>2
<1>. QED BY <1>1, <1>2, <1>3 DEF QuietInv, Orderly, NoSchedule

LEMMA QuietInvariant == RegistrySpec => []QuietInv
<1>1. RegistryInit => QuietInv
  BY ConstantFacts DEF RegistryInit, QuietInv, AboutToSpawn, FireSteps
<1>2. RegistryTypes /\ QuietInv /\ [RegistryNext]_registryVars => QuietInv'
  <2> SUFFICES ASSUME RegistryTypes, QuietInv, [RegistryNext]_registryVars PROVE QuietInv'
    OBVIOUS
  <2>1. ASSUME NEW c \in Callers, Begin(c) PROVE QuietInv'
    <3>1. /\ Moves(c) /\ UNCHANGED usage /\ c \in Processes /\ c \notin Timers /\ ~(AboutToSpawn(c)')
          /\ Orderly => place'[c] \notin {"archiving", "got", "fire"}
          /\ place'[c] \in {"read", "archiving", "deploying", "disarming", "got", "fire"}
      BY <2>1, BeginMoves, ConstantFacts DEF AboutToSpawn, Orderly
    <3>. QED BY <3>1, QuietKept DEF FireSteps
  <2>2. ASSUME NEW c \in Callers, GoOn(c) PROVE QuietInv'
    <3>1. c \in Processes /\ c \notin Timers
      BY ConstantFacts
    <3>2. CASE ArmSpawns(c)
      <4>1. ~NoSchedule /\ UNCHANGED usage
        BY <3>2 DEF ArmSpawns, At, QuietInv, AboutToSpawn
      <4>2. \A d \in Callers : place'[d] = "idle" \/ (place'[d] = place[d] /\ job'[d] = job[d])
        BY <3>1, <3>2, ConstantFacts DEF ArmSpawns, RegistryTypes, ProcessTypes
      <4>. QED BY <4>1, <4>2 DEF QuietInv, Orderly, NoSchedule, FireSteps
    <3>3. CASE Arm(c) /\ ~ArmSpawns(c)
      <4> DEFINE j == [job[c] EXCEPT !.next = "spawn"]
      <4>1. /\ Moves(c) /\ UNCHANGED usage /\ place'[c] \notin {"archiving", "got"}
        BY <2>2, <3>3, GoOnMoves
      <4>2. j.next = "spawn"
        BY <3>1 DEF RegistryTypes, ProcessTypes, Jobs
      <4>3. \/ Return(c)
            \/ loaded[job[c].flow].version \in usage.scheduled /\ (GoesTo(c, "fire", j) \/ Advance(c, "spawning"))
        BY <3>3 DEF Arm
      <4> HIDE DEF j
      <4>4. place'[c] \in FireSteps => job'[c].next = "spawn"
        BY <3>1, <4>2, <4>3, GoesMoves, ReturnMoves DEF Advance, FireSteps
      <4>5. NoSchedule => ~(AboutToSpawn(c)')
        BY <3>1, <4>3, ReturnMoves DEF NoSchedule, AboutToSpawn, FireSteps
      <4>. QED BY <3>1, <4>1, <4>4, <4>5, QuietKept
    <3>4. CASE ~Arm(c) /\ ~ArmSpawns(c)
      <4>1. /\ Moves(c) /\ UNCHANGED usage
            /\ place'[c] \notin FireSteps \cup {"spawning", "archiving", "got"}
        BY <2>2, <3>4, GoOnMoves
      <4>. QED BY <3>1, <4>1, QuietKept DEF AboutToSpawn
    <3>. QED BY <3>2, <3>3, <3>4
  <2>3. ASSUME NEW p \in Processes, Fires(p) PROVE QuietInv'
    <3>1. Fires1(p) /\ place[p] \in FireSteps /\ UNCHANGED usage
      BY <2>3, FiresMoves
    <3>2. p \in Callers /\ Orderly => /\ place'[p] \notin {"archiving", "got"}
                                      /\ place'[p] \in FireSteps => job'[p].next = "spawn"
      BY <3>1 DEF Fires1, QuietInv, FireSteps
    <3>3. p \in Callers /\ NoSchedule => ~(AboutToSpawn(p)')
      BY <3>1 DEF Fires1, QuietInv, FireSteps, AboutToSpawn
    <3>. QED BY <3>1, <3>2, <3>3, QuietKept DEF Fires1, FireSteps
  <2>4. ASSUME NEW t \in Timers, Tick(t) \/ TimerCancelled(t) PROVE QuietInv'
    <3>1. UNCHANGED usage /\ \E step, j : GoesTo(t, step, j)
      BY <2>4 DEF Tick, TimerCancelled, Advance
    <3>2. Moves(t) /\ t \notin Callers /\ (place[t] = "idle" => place'[t] = "idle")
      BY <2>4, <3>1, GoesMoves, ConstantFacts DEF Tick, TimerCancelled, At
    <3>3. \A c \in Callers : place'[c] = place[c] /\ job'[c] = job[c]
      BY <3>2, ConstantFacts DEF Moves
    <3>4. NoSchedule => \A u \in Timers : place'[u] = "idle"
      BY <3>2, ConstantFacts DEF QuietInv, Moves
    <3>. QED BY <3>1, <3>3, <3>4 DEF QuietInv, Orderly, NoSchedule, AboutToSpawn
  <2>5. ASSUME NEW i \in Instances, EngineEnds(i) PROVE QuietInv'
    BY <2>5 DEF EngineEnds, QuietInv, Orderly, NoSchedule, AboutToSpawn
  <2>6. ASSUME NEW i \in Instances, NEW f \in FlowIds, Seed(f, i) PROVE QuietInv'
    <3>1. PICK c \in usage.callers : GoesTo(c, "read", [NoJob EXCEPT !.flow = f, !.next = "arming"])
      BY <2>6 DEF Seed
    <3>2. c \in Callers /\ UNCHANGED usage
      BY <2>6, RegistryAssumption DEF RegistryAssumption, UsageType, RegistryTypes, DataTypes, Seed
    <3>3. Moves(c) /\ place'[c] = "read"
      BY <3>1, <3>2, GoesMoves, ConstantFacts
    <3>. QED BY <3>2, <3>3, QuietKept, ConstantFacts DEF AboutToSpawn, FireSteps
  <2>7. CASE ServerCrash
    BY <2>7, ConstantFacts DEF ServerCrash, QuietInv, Orderly, NoSchedule, AboutToSpawn, FireSteps
  <2>8. CASE UNCHANGED registryVars
    BY <2>8 DEF registryVars, QuietInv, Orderly, NoSchedule, AboutToSpawn
  <2>. QED BY <2>1, <2>2, <2>3, <2>4, <2>5, <2>6, <2>7, <2>8 DEF RegistryNext
<1>. QED BY <1>1, <1>2, RegistryTyped, PTL DEF RegistrySpec

----------------------------------------------------------------------------
(* What is loaded is what the record calls active. *)

Agrees(f) == loaded[f] = Nothing \/ loaded[f].version = records[f].active

\* A deployment that has started the new version and has not recorded it yet.
Recording(c, f) == place[c] = "recording" /\ job[c].flow = f

\* What a call has in hand: a deployment has taken the flow out of the map, and
\* the version it may put back is the active one; so has a stop, of one
\* operator; and what one operator archives is not loaded.
CallAgrees(c) ==
  LET f == job[c].flow  prev == job[c].prev IN
  /\ place[c] = "recording" => loaded[f] = Nothing \/ loaded[f].version = job[c].version
  /\ place[c] \in {"removed", "starting", "restoring"} =>
       loaded[f] = Nothing /\ (prev = Nothing \/ prev.version = records[f].active)
  /\ Alone /\ place[c] = "unloaded" => loaded[f] = Nothing /\ prev.version = records[f].active
  /\ Alone /\ place[c] = "archiving" => loaded[f].version # job[c].version

MapAgrees ==
  /\ \A f \in FlowIds : Agrees(f) \/ \E c \in Callers : Recording(c, f)
  /\ \A c \in Callers : CallAgrees(c)

ActiveInv == Alone \/ Orderly => MapAgrees

Watched == {"recording", "removed", "starting", "restoring", "unloaded", "archiving"}

SameActive == \A f \in FlowIds : records'[f].active = records[f].active

\* A step that changes neither the map nor what is active, of one who is at none
\* of those places.
LEMMA ActiveKept ==
  ASSUME RegistryTypes, ActiveInv, UNCHANGED <<usage, loaded>>, SameActive,
         \A c \in Callers : \/ place'[c] = place[c] /\ job'[c] = job[c]
                            \/ place[c] # "recording" /\ place'[c] \notin Watched
  PROVE  ActiveInv'
<1> SUFFICES ASSUME MapAgrees PROVE MapAgrees'
  BY DEF ActiveInv, Alone, Orderly
<1>1. ASSUME NEW f \in FlowIds PROVE Agrees(f)' \/ \E c \in Callers : Recording(c, f)'
  <2>1. CASE Agrees(f)
    BY <2>1 DEF Agrees, SameActive
  <2>2. ASSUME NEW c \in Callers, Recording(c, f) PROVE Recording(c, f)'
    BY <2>2 DEF Recording
  <2>. QED BY <2>1, <2>2 DEF MapAgrees
<1>2. ASSUME NEW c \in Callers PROVE CallAgrees(c)'
  <2>1. CASE place'[c] = place[c] /\ job'[c] = job[c]
    <3>1. place[c] # "idle" => records'[job[c].flow].active = records[job[c].flow].active
      BY AtWork DEF SameActive
    <3>2. CallAgrees(c)
      BY DEF MapAgrees
    <3>. QED BY <2>1, <3>1, <3>2 DEF CallAgrees, Alone
  <2>2. CASE place'[c] \notin Watched
    BY <2>2 DEF CallAgrees, Watched
  <2>. QED BY <2>1, <2>2
<1>. QED BY <1>1, <1>2 DEF MapAgrees

\* A step about one flow, of a call beside which no other is at those places.
LEMMA ActiveMoved ==
  ASSUME RegistryTypes, MapAgrees, UNCHANGED usage, NEW c \in Callers, NEW f \in FlowIds, Moves(c),
         \A d \in Callers \ {c} : place[d] \notin LockSteps /\ (Alone => place[d] = "idle"),
         place[c] = "recording" => job[c].flow = f,
         \A g \in FlowIds \ {f} : loaded'[g] = loaded[g] /\ records'[g].active = records[g].active,
         CallAgrees(c)', Agrees(f)' \/ Recording(c, f)'
  PROVE  MapAgrees'
<1>1. ASSUME NEW g \in FlowIds \ {f} PROVE Agrees(g)'
  <2>1. Agrees(g)
    BY DEF MapAgrees, Recording, LockSteps
  <2>. QED BY <2>1 DEF Agrees
<1>2. ASSUME NEW d \in Callers \ {c} PROVE CallAgrees(d)'
  <2>1. place'[d] = place[d] /\ job'[d] = job[d]
    BY ConstantFacts DEF Moves
  <2>. QED BY <2>1 DEF CallAgrees, LockSteps, Alone
<1>. QED BY <1>1, <1>2 DEF MapAgrees

\* With the lock, or with one operator, there is no such other.
LEMMA NoOther ==
  ASSUME RegistryTypes, LockInv, NEW c \in Callers, c \in usage.callers, HoldsLock(c) \/ Alone
  PROVE  \A d \in Callers \ {c} : place[d] \notin LockSteps /\ (Alone => place[d] = "idle")
<1> SUFFICES ASSUME NEW d \in Callers \ {c} PROVE place[d] \notin LockSteps /\ (Alone => place[d] = "idle")
  OBVIOUS
<1>1. Alone => place[d] = "idle"
  BY AtWork, OneCaller
<1>2. HoldsLock(c) => place[d] \notin LockSteps
  BY DEF LockInv, HoldsLock
<1>. QED BY <1>1, <1>2 DEF LockSteps

\* Creating and validating leave the active version.
LEMMA BeginActive ==
  ASSUME RegistryTypes, NEW c \in Callers, Begin(c)
  PROVE  SameActive
<1>1. ASSUME NEW f \in FlowIds, NEW r \in FlowRecord, Change(f, r), r.active = records[f].active PROVE SameActive
  BY <1>1 DEF Change, SameActive, RegistryTypes, DataTypes, Snapshots
<1>2. ASSUME NEW f \in FlowIds, Create(c, f) \/ Publish(c, f) PROVE SameActive
  <2>1. Change(f, Drafted(f)) /\ NextVersion(f) \in Versions
    BY <1>2 DEF Create, Publish, CreateDraft
  <2>2. Drafted(f) \in FlowRecord
    BY <2>1, RecordsAre DEF Drafted
  <2>3. Drafted(f).active = records[f].active
    BY DEF Drafted, RegistryTypes, DataTypes, Snapshots, FlowRecord
  <2>. QED BY <1>1, <2>1, <2>2, <2>3
<1>3. ASSUME NEW f \in FlowIds, NEW v \in Versions, Validate(c, f, v) PROVE SameActive
  <2>1. Change(f, Validated(f, v)) /\ Validated(f, v) \in FlowRecord
    BY <1>3, RecordsAre DEF Validate
  <2>2. Validated(f, v).active = records[f].active
    BY DEF Validated, RegistryTypes, DataTypes, Snapshots, FlowRecord
  <2>. QED BY <1>1, <2>1, <2>2
<1>4. ASSUME UNCHANGED storeVars PROVE SameActive
  BY <1>4 DEF storeVars, SameActive
<1>. QED BY <1>2, <1>3, <1>4 DEF Begin, Archive, Deploy, Rollback, Stop, Start, Trigger

\* The calls that are about neither the map nor what is active.
LEMMA OthersActive ==
  ASSUME RegistryTypes, LockInv, ActiveInv, NEW c \in Callers, GoOn(c),
         \/ Persist(c) \/ PublishValidates(c) \/ Disarm(c) \/ UnloadStops(c) \/ StartActs(c)
         \/ Arm(c) \/ ArmSpawns(c) \/ DeployLocks(c) \/ ActivateRefused(c) \/ ActivateChecks(c)
  PROVE  ActiveInv'
<1>1. c \in Processes /\ c \notin Timers
  BY ConstantFacts
<1>2. ASSUME UNCHANGED records PROVE SameActive
  BY <1>2 DEF SameActive
<1>3. ASSUME Moves(c), UNCHANGED <<usage, loaded>>, SameActive,
             place[c] # "recording" /\ place'[c] \notin Watched
      PROVE  ActiveInv'
  <2>1. \A d \in Callers : \/ place'[d] = place[d] /\ job'[d] = job[d]
                           \/ place[d] # "recording" /\ place'[d] \notin Watched
    BY <1>3, ConstantFacts DEF Moves
  <2>. QED BY <1>3, <2>1, ActiveKept
<1>4. CASE Persist(c)
  <2>1. place'[c] \notin LockSteps \cup {"unloaded"} /\ UNCHANGED loaded
    BY <1>4, PersistLocks
  <2>2. UNCHANGED records /\ place[c] # "recording" /\ ~ArmSpawns(c)
    BY <1>4 DEF Persist, PersistReads, PersistWrites, PersistRenames, PersistFails, At, ArmSpawns
  <2>3. Moves(c) /\ UNCHANGED usage /\ place'[c] # "archiving"
    BY <2>2, GoOnMoves
  <2>. QED BY <1>2, <1>3, <2>1, <2>2, <2>3 DEF Watched, LockSteps
<1>5. CASE PublishValidates(c)
  <2> DEFINE f == job[c].flow
  <2>1. /\ place[c] = "validating" /\ f \in FlowIds /\ job[c].version \in Versions
        /\ UNCHANGED <<usage, loaded>>
    BY <1>5, AtWork DEF PublishValidates, At, Fits, HasVersion
  <2>2. Moves(c) /\ place'[c] \in {"idle", "read"}
    BY <1>1, <1>5, GoesMoves, ReturnMoves DEF PublishValidates
  <2>3. SameActive
    <3>1. Validated(f, job[c].version).active = records[f].active
      BY <2>1 DEF Validated, RegistryTypes, DataTypes, Snapshots, FlowRecord
    <3>2. UNCHANGED records \/ records' = [records EXCEPT ![f] = Validated(f, job[c].version)]
      BY <1>5 DEF PublishValidates, Change
    <3>. QED BY <3>1, <3>2 DEF SameActive, RegistryTypes, DataTypes, Snapshots
  <2>. QED BY <1>3, <2>1, <2>2, <2>3 DEF Watched
<1>6. CASE Disarm(c) \/ StartActs(c) \/ UnloadStops(c) \/ Arm(c)
  <2>1. UNCHANGED <<usage, loaded, records>> /\ place[c] # "recording"
    BY <1>6 DEF Disarm, StartActs, UnloadStops, Arm, At, storeVars
  <2>2. Moves(c) /\ place'[c] \in {"idle", "unloading", "arming", "spawning", "fire"}
    BY <1>1, <1>6, GoesMoves, ReturnMoves DEF Disarm, StartActs, UnloadStops, Arm, Advance
  <2>. QED BY <1>2, <1>3, <2>1, <2>2 DEF Watched
<1>7. CASE ArmSpawns(c)
  <2>1. UNCHANGED <<usage, loaded, records>> /\ place[c] # "recording"
    BY <1>7 DEF ArmSpawns, At, storeVars
  <2>2. /\ \A d \in Callers \ {c} : place'[d] = place[d] /\ job'[d] = job[d]
        /\ place'[c] = "idle"
    BY <1>1, <1>7, ConstantFacts DEF ArmSpawns, RegistryTypes, ProcessTypes
  <2>. QED BY <1>2, <2>1, <2>2, ActiveKept DEF Watched
<1>8. CASE DeployLocks(c) \/ ActivateRefused(c) \/ ActivateChecks(c)
  <2>1. UNCHANGED <<usage, loaded, records>> /\ place[c] # "recording"
    BY <1>8 DEF DeployLocks, ActivateRefused, ActivateChecks, At, storeVars
  <2>2. Moves(c) /\ place'[c] \in {"idle", "locked", "checked"}
    BY <1>1, <1>8, GoesMoves, ReturnMoves DEF DeployLocks, ActivateRefused, ActivateChecks, Advance
  <2>. QED BY <1>2, <1>3, <2>1, <2>2 DEF Watched
<1>. QED BY <1>4, <1>5, <1>6, <1>7, <1>8

\* activate, and its ways back.
LEMMA ActivateAgrees ==
  ASSUME RegistryTypes, LockInv, QuietInv, Alone \/ Orderly, MapAgrees, NEW c \in Callers,
         NEW f, f = job[c].flow, NEW prev, prev = job[c].prev, NEW v, v = job[c].version,
         \/ ActivateRemoves(c) \/ ActivateStops(c) \/ ActivateKeepsOld(c) \/ ActivateStarts(c)
         \/ ActivateFails(c) \/ ActivateRestores(c) \/ ActivateRecords(c)
  PROVE  MapAgrees'
<1>1. /\ c \in Processes /\ c \notin Timers /\ place[c] \in LockSteps /\ UNCHANGED usage
      /\ Activate(c) /\ ~DeployLocks(c)
  BY ConstantFacts DEF Activate, DeployLocks, ActivateRemoves, ActivateStops, ActivateKeepsOld, ActivateStarts, ActivateFails,
     ActivateRestores, ActivateRecords, At, LockSteps
<1>2. /\ f \in FlowIds /\ c \in usage.callers /\ Fits(place[c], job[c]) /\ HoldsLock(c) /\ CallAgrees(c)
      /\ job[c] \in Jobs
  BY <1>1, AtWork DEF LockSteps, HoldsLock, MapAgrees
<1>3. \A d \in Callers \ {c} : place[d] \notin LockSteps /\ (Alone => place[d] = "idle")
  BY <1>2, NoOther
<1>4. /\ loaded \in [FlowIds -> Entry \cup {Nothing}] /\ records \in [FlowIds -> FlowRecord]
  BY DEF RegistryTypes, DataTypes, Snapshots
<1>5. ASSUME Moves(c), \A g \in FlowIds \ {f} : loaded'[g] = loaded[g] /\ records'[g].active = records[g].active,
             CallAgrees(c)', Agrees(f)' \/ Recording(c, f)'
      PROVE  MapAgrees'
  BY <1>1, <1>2, <1>3, <1>5, ActiveMoved
<1>6. ASSUME Return(c), \A g \in FlowIds \ {f} : loaded'[g] = loaded[g], UNCHANGED records, Agrees(f)' PROVE MapAgrees'
  <2>1. Moves(c) /\ place'[c] = "idle"
    BY <1>1, <1>6, ReturnMoves
  <2>2. CallAgrees(c)'
    BY <2>1 DEF CallAgrees
  <2>. QED BY <1>5, <1>6, <2>1, <2>2
<1>7. CASE ActivateRemoves(c)
  <2> DEFINE j == [job[c] EXCEPT !.prev = loaded[f]]
  <2>1. /\ j.flow = f /\ j.prev = loaded[f] /\ j.version = v
    BY <1>2 DEF Jobs
  <2>2. place[c] = "checked" /\ loaded' = [loaded EXCEPT ![f] = Nothing] /\ UNCHANGED records
    BY <1>7 DEF ActivateRemoves, At, storeVars
  <2>3. PICK step \in {"removed", "starting", "recording"} : GoesTo(c, step, j)
    BY <1>7 DEF ActivateRemoves
  <2> HIDE DEF j
  <2>4. Moves(c) /\ place'[c] = step /\ job'[c].flow = f /\ job'[c].prev = loaded[f]
    BY <1>1, <2>1, <2>3, GoesMoves
  <2>5. loaded'[f] = Nothing /\ \A g \in FlowIds \ {f} : loaded'[g] = loaded[g]
    BY <1>2, <1>4, <2>2
  <2>6. Agrees(f)
    BY <1>2, <1>3, <2>2 DEF MapAgrees, Recording, LockSteps
  <2>7. CallAgrees(c)'
    BY <2>2, <2>4, <2>5, <2>6 DEF CallAgrees, Agrees
  <2>. QED BY <1>5, <2>2, <2>4, <2>5, <2>7 DEF Agrees
<1>8. CASE ActivateStops(c)
  <2>1. place[c] = "removed" /\ UNCHANGED <<loaded, records>> /\ loaded[f] = Nothing
        /\ (prev = Nothing \/ prev.version = records[f].active)
    BY <1>2, <1>8 DEF ActivateStops, At, storeVars, CallAgrees
  <2>2. PICK step \in {"starting", "recording"} : Advance(c, step)
    BY <1>8 DEF ActivateStops
  <2>3. Moves(c) /\ place'[c] = step /\ job'[c] = job[c]
    BY <1>1, <2>2, GoesMoves DEF Advance
  <2>4. CallAgrees(c)'
    BY <2>1, <2>3 DEF CallAgrees
  <2>. QED BY <1>5, <2>1, <2>3, <2>4 DEF Agrees
<1>9. CASE ActivateKeepsOld(c)
  <2>1. /\ place[c] = "removed" /\ loaded' = [loaded EXCEPT ![f] = prev] /\ UNCHANGED records /\ Return(c)
        /\ prev \in Entry
    BY <1>2, <1>9 DEF ActivateKeepsOld, At, storeVars, Fits, HasPrevious
  <2>2. prev.version = records[f].active
    BY <1>2, <2>1, EntryFacts DEF CallAgrees
  <2>3. loaded'[f] = prev /\ \A g \in FlowIds \ {f} : loaded'[g] = loaded[g]
    BY <1>2, <1>4, <2>1
  <2>. QED BY <1>6, <2>1, <2>2, <2>3 DEF Agrees
<1>10. CASE ActivateStarts(c)
  <2>1. /\ place[c] = "starting" /\ loaded' = [loaded EXCEPT ![f] = [version |-> v, inst |-> job[c].inst]]
        /\ UNCHANGED records /\ Advance(c, "recording")
    BY <1>10 DEF ActivateStarts, At, storeVars, Loads
  <2>2. Moves(c) /\ place'[c] = "recording" /\ job'[c] = job[c]
    BY <1>1, <2>1, GoesMoves DEF Advance
  <2>3. loaded'[f].version = v /\ \A g \in FlowIds \ {f} : loaded'[g] = loaded[g]
    BY <1>2, <1>4, <2>1
  <2>4. CallAgrees(c)'
    BY <2>2, <2>3 DEF CallAgrees
  <2>. QED BY <1>5, <2>1, <2>2, <2>3, <2>4 DEF Recording
<1>11. CASE ActivateFails(c)
  <2>1. /\ place[c] = "starting" /\ UNCHANGED <<loaded, records>> /\ loaded[f] = Nothing
        /\ (prev = Nothing \/ prev.version = records[f].active)
        /\ Return(c) \/ Advance(c, "restoring")
    BY <1>2, <1>11 DEF ActivateFails, At, storeVars, CallAgrees
  <2>2. CASE Return(c)
    BY <1>6, <2>1, <2>2 DEF Agrees
  <2>3. CASE Advance(c, "restoring")
    <3>1. Moves(c) /\ place'[c] = "restoring" /\ job'[c] = job[c]
      BY <1>1, <2>3, GoesMoves DEF Advance
    <3>2. CallAgrees(c)'
      BY <2>1, <3>1 DEF CallAgrees
    <3>. QED BY <1>5, <2>1, <3>1, <3>2 DEF Agrees
  <2>. QED BY <2>1, <2>2, <2>3
<1>12. CASE ActivateRestores(c)
  <2>1. /\ place[c] = "restoring" /\ UNCHANGED records /\ Return(c) /\ prev \in Entry
    BY <1>2, <1>12 DEF ActivateRestores, At, storeVars, Fits, HasPrevious
  <2>2. PICK e \in Entry : loaded' = [loaded EXCEPT ![f] = e] /\ e.version = prev.version
    <3>1. ASSUME NEW i \in Instances, Loads(f, prev.version, i)
          PROVE  \E e \in Entry : loaded' = [loaded EXCEPT ![f] = e] /\ e.version = prev.version
      BY <2>1, <3>1, EntryFacts DEF Loads
    <3>2. (\E i \in Instances : Loads(f, prev.version, i)) \/ loaded' = [loaded EXCEPT ![f] = prev]
      BY <1>12 DEF ActivateRestores
    <3>. QED BY <2>1, <3>1, <3>2
  <2>3. prev.version = records[f].active
    BY <1>2, <2>1, EntryFacts DEF CallAgrees
  <2>4. loaded'[f] = e /\ \A g \in FlowIds \ {f} : loaded'[g] = loaded[g]
    BY <1>2, <1>4, <2>2
  <2>. QED BY <1>6, <2>1, <2>2, <2>3, <2>4 DEF Agrees
<1>13. CASE ActivateRecords(c)
  <2>1. /\ place[c] = "recording" /\ UNCHANGED loaded /\ records' = [records EXCEPT ![f] = DeployedAfter(records[f], v)]
        /\ loaded[f] = Nothing \/ loaded[f].version = v
    BY <1>2, <1>13 DEF ActivateRecords, At, Change, CallAgrees
  <2>2. \E j : GoesTo(c, "read", j)
    BY <1>13 DEF ActivateRecords
  <2>3. Moves(c) /\ place'[c] = "read"
    BY <1>1, <2>2, GoesMoves
  <2>4. records'[f].active = v /\ \A g \in FlowIds \ {f} : records'[g] = records[g]
    BY <1>2, <1>4, <2>1 DEF DeployedAfter
  <2>5. CallAgrees(c)'
    BY <2>3 DEF CallAgrees
  <2>. QED BY <1>5, <2>1, <2>3, <2>4, <2>5 DEF Agrees
<1>. QED BY <1>7, <1>8, <1>9, <1>10, <1>11, <1>12, <1>13

\* stop_and_unload, and the archive of one operator.
LEMMA StopAgrees ==
  ASSUME RegistryTypes, LockInv, QuietInv, Alone \/ Orderly, MapAgrees, NEW c \in Callers,
         NEW f, f = job[c].flow, NEW prev, prev = job[c].prev, NEW v, v = job[c].version,
         Archives(c) \/ Unload(c) \/ UnloadKeeps(c)
  PROVE  MapAgrees'
<1>1. /\ c \in Processes /\ c \notin Timers /\ place[c] \in {"archiving", "unloading", "unloaded"} /\ UNCHANGED usage
  BY ConstantFacts DEF Archives, Unload, UnloadKeeps, At
<1>2. /\ f \in FlowIds /\ c \in usage.callers /\ Fits(place[c], job[c]) /\ CallAgrees(c) /\ job[c] \in Jobs
  BY <1>1, AtWork DEF MapAgrees
<1>3. Alone => \A d \in Callers \ {c} : place[d] \notin LockSteps /\ (Alone => place[d] = "idle")
  BY <1>2, NoOther
<1>4. loaded \in [FlowIds -> Entry \cup {Nothing}] /\ records \in [FlowIds -> FlowRecord]
  BY DEF RegistryTypes, DataTypes, Snapshots
<1>5. Alone => Agrees(f)
  BY <1>1, <1>2, <1>3 DEF MapAgrees, Recording, LockSteps
<1>6. CASE Archives(c)
  <2> DEFINE r == [records[f] EXCEPT !.state[v] = "ARCHIVED", !.active = IF @ = v THEN None ELSE @]
  <2>1. place[c] = "archiving" /\ UNCHANGED loaded /\ records' = [records EXCEPT ![f] = r]
    BY <1>6 DEF Archives, At, Change
  <2>2. Alone /\ loaded[f].version # v
    BY <1>2, <2>1 DEF QuietInv, CallAgrees
  <2>3. r.active = IF records[f].active = v THEN None ELSE records[f].active
    BY <1>2, <1>4 DEF FlowRecord
  <2> HIDE DEF r
  <2>4. records'[f] = r /\ \A g \in FlowIds \ {f} : records'[g] = records[g]
    BY <1>2, <1>4, <2>1
  <2>5. Agrees(f)'
    BY <1>5, <2>1, <2>2, <2>3, <2>4 DEF Agrees
  <2>6. \E j : GoesTo(c, "read", j)
    BY <1>6 DEF Archives
  <2>7. Moves(c) /\ place'[c] = "read"
    BY <1>1, <2>6, GoesMoves
  <2>8. CallAgrees(c)'
    BY <2>7 DEF CallAgrees
  <2>. QED BY <1>1, <1>2, <1>3, <2>1, <2>2, <2>4, <2>5, <2>7, <2>8, ActiveMoved
<1>7. CASE UnloadKeeps(c)
  <2>1. /\ place[c] = "unloaded" /\ loaded' = [loaded EXCEPT ![f] = prev] /\ UNCHANGED records /\ Return(c)
        /\ prev \in Entry
    BY <1>2, <1>7 DEF UnloadKeeps, At, storeVars, Fits, HasPrevious
  <2>2. Alone
    BY <1>7 DEF UnloadKeeps, StopErr, May, Orderly
  <2>3. prev.version = records[f].active
    BY <1>2, <2>1, <2>2 DEF CallAgrees
  <2>4. loaded'[f] = prev /\ \A g \in FlowIds \ {f} : loaded'[g] = loaded[g]
    BY <1>2, <1>4, <2>1
  <2>5. Moves(c) /\ place'[c] = "idle"
    BY <1>1, <2>1, ReturnMoves
  <2>6. CallAgrees(c)' /\ Agrees(f)'
    BY <2>1, <2>3, <2>4, <2>5 DEF CallAgrees, Agrees
  <2>. QED BY <1>1, <1>2, <1>3, <2>1, <2>2, <2>4, <2>5, <2>6, ActiveMoved
<1>8. CASE Unload(c)
  <2> DEFINE j == [job[c] EXCEPT !.prev = loaded[f]]
  <2>1. j.flow = f /\ j.prev = loaded[f]
    BY <1>2 DEF Jobs
  <2>2. place[c] = "unloading" /\ loaded' = [loaded EXCEPT ![f] = Nothing] /\ UNCHANGED records
    BY <1>8 DEF Unload, At, storeVars
  <2>3. Return(c) \/ (loaded[f] # Nothing /\ GoesTo(c, "unloaded", j))
    BY <1>8 DEF Unload
  <2> HIDE DEF j
  <2>4. loaded'[f] = Nothing /\ \A g \in FlowIds \ {f} : loaded'[g] = loaded[g]
    BY <1>2, <1>4, <2>2
  <2>5. Moves(c) /\ (place'[c] = "idle" \/ (place'[c] = "unloaded" /\ loaded[f] # Nothing /\ job'[c] = j))
    BY <1>1, <2>3, GoesMoves, ReturnMoves
  <2>6. CallAgrees(c)'
    BY <1>1, <1>5, <2>1, <2>2, <2>4, <2>5 DEF CallAgrees, Agrees, Alone
  <2>7. ASSUME NEW g \in FlowIds PROVE Agrees(g)' \/ \E d \in Callers : Recording(d, g)'
    <3>1. CASE g = f
      BY <2>4, <3>1 DEF Agrees
    <3>2. CASE g # f /\ Agrees(g)
      BY <2>2, <2>4, <3>2 DEF Agrees
    <3>3. ASSUME NEW d \in Callers, Recording(d, g) PROVE Recording(d, g)'
      BY <2>2, <2>5, <3>3, ConstantFacts DEF Recording, Moves
    <3>. QED BY <3>1, <3>2, <3>3 DEF MapAgrees
  <2>8. ASSUME NEW d \in Callers, d # c PROVE CallAgrees(d)'
    <3>1. place'[d] = place[d] /\ job'[d] = job[d] /\ CallAgrees(d)
      BY <2>5, <2>8, ConstantFacts DEF Moves, MapAgrees
    <3>2. Alone => place[d] = "idle"
      BY <1>3, <2>8
    <3>3. place[d] # "idle" => job[d].flow \in FlowIds
      BY AtWork
    <3>4. loaded'[job[d].flow] = Nothing \/ loaded'[job[d].flow] = loaded[job[d].flow] \/ place[d] = "idle"
      BY <2>4, <3>3
    <3>. QED BY <1>1, <2>2, <3>1, <3>2, <3>4 DEF CallAgrees, Alone
  <2>. QED BY <2>6, <2>7, <2>8 DEF MapAgrees
<1>. QED BY <1>6, <1>7, <1>8

LEMMA BeginAgrees ==
  ASSUME RegistryTypes, LockInv, ActiveInv, NEW c \in Callers, Begin(c)
  PROVE  ActiveInv'
<1>1. /\ Moves(c) /\ place[c] = "idle" /\ c \in usage.callers /\ UNCHANGED usage
      /\ place'[c] \in {"read", "archiving", "deploying", "disarming", "got", "fire"}
      /\ place'[c] = "archiving" => ~Orderly
      /\ UNCHANGED loaded /\ SameActive
  BY BeginMoves, BeginKeeps, BeginActive DEF Orderly
<1>2. CASE place'[c] # "archiving"
  <2>1. \A d \in Callers : \/ place'[d] = place[d] /\ job'[d] = job[d]
                           \/ place[d] # "recording" /\ place'[d] \notin Watched
    BY <1>1, <1>2, ConstantFacts DEF Moves, Watched
  <2>. QED BY <1>1, <2>1, ActiveKept
<1>3. CASE place'[c] = "archiving" /\ Alone
  <2>1. PICK f \in FlowIds, v \in Versions : Archive(c, f, v)
    <3>1. PICK f \in FlowIds : \/ Create(c, f) \/ Publish(c, f) \/ Stop(c, f) \/ Start(c, f) \/ Trigger(c, f)
                              \/ (\E v \in Versions : Validate(c, f, v) \/ Archive(c, f, v))
                              \/ (\E v \in Versions, start \in BOOLEAN : Deploy(c, f, v, start))
                              \/ (\E start \in BOOLEAN : Rollback(c, f, start))
      BY DEF Begin
    <3>2. Create(c, f) \/ Publish(c, f) => place'[c] = "read"
      BY GoesMoves, ConstantFacts DEF Create, Publish, CreateDraft, Request
    <3>3. ASSUME NEW v \in Versions, Validate(c, f, v) PROVE place'[c] = "read"
      BY <3>3, GoesMoves, ConstantFacts DEF Validate, Request
    <3>4. ASSUME NEW v \in Versions, NEW start \in BOOLEAN,
                 Deploy(c, f, v, start)
          PROVE  place'[c] = "deploying"
      BY <3>4, GoesMoves, ConstantFacts DEF Deploy, Request
    <3>5. ASSUME NEW start \in BOOLEAN, Rollback(c, f, start) PROVE place'[c] = "deploying"
      BY <3>5, GoesMoves, ConstantFacts DEF Rollback, Request
    <3>6. Stop(c, f) \/ Start(c, f) \/ Trigger(c, f) => place'[c] \in {"disarming", "got", "fire"}
      BY GoesMoves, ConstantFacts DEF Stop, Start, Trigger, Request
    <3>. QED BY <1>3, <3>1, <3>2, <3>3, <3>4, <3>5, <3>6
  <2> DEFINE j == [[NoJob EXCEPT !.version = v] EXCEPT !.flow = f]
  <2>2. GoesTo(c, "archiving", j) /\ loaded[f].version # v
    BY <2>1 DEF Archive, Archivable, Request
  <2>3. j.flow = f /\ j.version = v
    BY NoJobFacts DEF Jobs
  <2> HIDE DEF j
  <2>4. job'[c].flow = f /\ job'[c].version = v
    BY <2>2, <2>3, GoesMoves, ConstantFacts
  <2>5. CallAgrees(c)'
    BY <1>1, <1>3, <2>2, <2>4 DEF CallAgrees
  <2>6. \A d \in Callers \ {c} : place[d] \notin LockSteps /\ (Alone => place[d] = "idle")
    BY <1>1, <1>3, NoOther
  <2>7. MapAgrees /\ Agrees(f)
    BY <1>1, <1>3, <2>6 DEF ActiveInv, MapAgrees, Recording, LockSteps
  <2>8. Agrees(f)'
    BY <1>1, <2>7 DEF Agrees, SameActive
  <2>9. MapAgrees'
    BY <1>1, <2>5, <2>6, <2>7, <2>8, ActiveMoved DEF SameActive
  <2>. QED BY <2>9 DEF ActiveInv
<1>4. CASE ~Alone /\ ~Orderly
  BY <1>1, <1>4 DEF ActiveInv, Alone, Orderly
<1>. QED BY <1>1, <1>2, <1>3, <1>4

LEMMA ActiveInvariant == RegistrySpec => []ActiveInv
<1>1. RegistryInit => ActiveInv
  BY ConstantFacts DEF RegistryInit, ActiveInv, MapAgrees, Agrees, CallAgrees
<1>2. RegistryTypes /\ LockInv /\ QuietInv /\ ActiveInv /\ [RegistryNext]_registryVars => ActiveInv'
  <2> SUFFICES ASSUME RegistryTypes, LockInv, QuietInv, ActiveInv, [RegistryNext]_registryVars PROVE ActiveInv'
    OBVIOUS
  <2>1. ASSUME NEW c \in Callers, GoOn(c) PROVE ActiveInv'
    <3>1. CASE \/ ActivateRemoves(c) \/ ActivateStops(c) \/ ActivateKeepsOld(c) \/ ActivateStarts(c)
               \/ ActivateFails(c) \/ ActivateRestores(c) \/ ActivateRecords(c)
      <4>1. UNCHANGED usage
        BY <3>1 DEF ActivateRemoves, ActivateStops, ActivateKeepsOld, ActivateStarts, ActivateFails,
           ActivateRestores, ActivateRecords
      <4>2. Alone \/ Orderly => MapAgrees'
        BY <3>1, ActivateAgrees DEF ActiveInv
      <4>. QED BY <4>1, <4>2 DEF ActiveInv, Alone, Orderly
    <3>2. CASE Archives(c) \/ Unload(c) \/ UnloadKeeps(c)
      <4>1. UNCHANGED usage
        BY <3>2 DEF Archives, Unload, UnloadKeeps
      <4>2. Alone \/ Orderly => MapAgrees'
        BY <3>2, StopAgrees DEF ActiveInv
      <4>. QED BY <4>1, <4>2 DEF ActiveInv, Alone, Orderly
    <3>. QED BY <2>1, <3>1, <3>2, OthersActive DEF GoOn, Activate
  <2>2. ASSUME NEW p \in Processes, Fires(p) PROVE ActiveInv'
    <3>1. Fires1(p) /\ place[p] \in FireSteps /\ UNCHANGED usage
      BY <2>2, FiresMoves
    <3>2. UNCHANGED loaded /\ SameActive
      BY <2>2 DEF Fires, Fire, FireIdle, FireStops, FireStarts, storeVars, SameActive
    <3>3. \A c \in Callers : \/ place'[c] = place[c] /\ job'[c] = job[c]
                             \/ place[c] # "recording" /\ place'[c] \notin Watched
      BY <3>1, ConstantFacts DEF Fires1, Moves, FireSteps, Watched
    <3>. QED BY <3>1, <3>2, <3>3, ActiveKept
  <2>3. ASSUME NEW t \in Timers, Tick(t) \/ TimerCancelled(t) PROVE ActiveInv'
    <3>1. UNCHANGED <<usage, loaded>> /\ SameActive /\ \E step, j : GoesTo(t, step, j)
      BY <2>3 DEF Tick, TimerCancelled, Advance, storeVars, SameActive
    <3>2. \A c \in Callers : place'[c] = place[c] /\ job'[c] = job[c]
      BY <3>1, GoesMoves, ConstantFacts DEF Moves
    <3>. QED BY <3>1, <3>2, ActiveKept
  <2>4. ASSUME NEW i \in Instances, EngineEnds(i) PROVE ActiveInv'
    BY <2>4, ActiveKept DEF EngineEnds, storeVars, SameActive
  <2>5. ASSUME NEW i \in Instances, NEW f \in FlowIds, Seed(f, i) PROVE ActiveInv'
    <3> DEFINE v == NextVersion(f)
               r == DeployedAfter(Drafted(f), v)
               e == [version |-> v, inst |-> i]
               j == [NoJob EXCEPT !.flow = f, !.next = "arming"]
    <3>1. /\ loaded' = [loaded EXCEPT ![f] = e] /\ records' = [records EXCEPT ![f] = r]
          /\ \A p \in Processes : place[p] = "idle"
          /\ \A g \in FlowIds : loaded[g] = Nothing
      BY <2>5 DEF Seed, Loads, Change, At
    <3>2. PICK c \in usage.callers : GoesTo(c, "read", j)
      BY <2>5 DEF Seed
    <3>3. r.active = v /\ e.version = v
      BY DEF DeployedAfter
    <3> HIDE DEF v, r, e, j
    <3>4. c \in Callers
      BY <3>2, RegistryAssumption DEF RegistryAssumption, UsageType, RegistryTypes, DataTypes
    <3>5. \A d \in Callers : place'[d] \in {"idle", "read"}
      BY <3>1, <3>2, <3>4, GoesMoves, ConstantFacts DEF Moves
    <3>6. \A g \in FlowIds : Agrees(g)'
      BY <3>1, <3>3 DEF Agrees, RegistryTypes, DataTypes, Snapshots
    <3>7. \A d \in Callers : CallAgrees(d)'
      BY <3>5 DEF CallAgrees
    <3>. QED BY <3>6, <3>7 DEF ActiveInv, MapAgrees
  <2>6. CASE ServerCrash
    BY <2>6, ConstantFacts DEF ServerCrash, ActiveInv, MapAgrees, Agrees, CallAgrees
  <2>7. CASE UNCHANGED registryVars
    BY <2>7, ActiveKept DEF registryVars, storeVars, SameActive
  <2>. QED BY <2>1, <2>2, <2>3, <2>4, <2>5, <2>6, <2>7, BeginAgrees DEF RegistryNext
<1>. QED BY <1>1, <1>2, RegistryTyped, LockInvariant, QuietInvariant, PTL DEF RegistrySpec

\* What is loaded is the version its record calls active.
LEMMA MapIsActive == RegistrySpec => []LoadedIsActive
<1>1. ActiveInv => LoadedIsActive
  BY DEF ActiveInv, MapAgrees, Agrees, Recording, LoadedIsActive
<1>. QED BY <1>1, ActiveInvariant, PTL

----------------------------------------------------------------------------
(* No engine is lost. *)

InMap(i) == \E f \in FlowIds : loaded[f].inst = i

\* A supervisor that a deployment or a stop has taken out of the map, and that
\* it will stop, or put back.
TakenBy(c, i) == place[c] \in {"removed", "unloaded"} /\ job[c].prev.inst = i

\* About to start, or to stop, the supervisor it looked up.
AtHand == {"got", "fireWait", "fireStop", "fireStart"}

EnginesHeld ==
  /\ \A i \in live : InMap(i) \/ \E c \in Callers : TakenBy(c, i)
  /\ \A c \in Callers : place[c] \in AtHand => Alone /\ InMap(job[c].inst)

EnginesInv == NoSchedule /\ (Alone \/ Orderly) => EnginesHeld

\* A step that leaves the map.
LEMMA EnginesKept ==
  ASSUME EnginesInv, UNCHANGED <<usage, loaded>>,
         NoSchedule /\ (Alone \/ Orderly) => \A i \in live' : i \in live \/ InMap(i),
         \A c \in Callers :
           \/ place'[c] = place[c] /\ job'[c] = job[c]
           \/ /\ \A i \in live' : ~TakenBy(c, i)
              /\ place'[c] \in AtHand /\ NoSchedule /\ (Alone \/ Orderly) => Alone /\ InMap(job'[c].inst)
  PROVE  EnginesInv'
<1> SUFFICES ASSUME NoSchedule, Alone \/ Orderly PROVE EnginesHeld'
  BY DEF EnginesInv, NoSchedule, Alone, Orderly
<1>1. EnginesHeld
  BY DEF EnginesInv
<1>2. ASSUME NEW i, InMap(i) PROVE InMap(i)'
  BY <1>2 DEF InMap
<1>3. ASSUME NEW i \in live' PROVE InMap(i)' \/ \E c \in Callers : TakenBy(c, i)'
  <2>1. ASSUME NEW c \in Callers, TakenBy(c, i) PROVE TakenBy(c, i)'
    BY <2>1 DEF TakenBy
  <2>. QED BY <1>1, <1>2, <2>1 DEF EnginesHeld
<1>4. ASSUME NEW c \in Callers, place'[c] \in AtHand PROVE Alone' /\ InMap(job[c].inst)'
  <2>1. Alone' = Alone
    BY DEF Alone
  <2>2. Alone /\ InMap(job'[c].inst)
    BY <1>1, <1>4 DEF EnginesHeld
  <2>. QED BY <2>1, <2>2 DEF InMap
<1>. QED BY <1>3, <1>4 DEF EnginesHeld

\* A step about one flow in the map, of a call beside which none is at hand.
LEMMA EnginesMoved ==
  ASSUME RegistryTypes, EnginesHeld, UNCHANGED usage, NEW c \in Callers, NEW f \in FlowIds, Moves(c),
         Alone => \A d \in Callers \ {c} : place[d] = "idle",
         \A g \in FlowIds \ {f} : loaded'[g] = loaded[g],
         \A i \in live' : i \in live \/ loaded'[f].inst = i,
         \A i \in live' : loaded[f].inst = i \/ TakenBy(c, i) => loaded'[f].inst = i \/ TakenBy(c, i)',
         place'[c] \notin AtHand
  PROVE  EnginesHeld'
<1>1. ASSUME NEW i \in live' PROVE InMap(i)' \/ \E d \in Callers : TakenBy(d, i)'
  <2>1. CASE loaded[f].inst = i \/ TakenBy(c, i) \/ loaded'[f].inst = i
    BY <2>1 DEF InMap
  <2>2. ASSUME NEW g \in FlowIds \ {f}, loaded[g].inst = i PROVE InMap(i)'
    BY <2>2 DEF InMap
  <2>3. ASSUME NEW d \in Callers \ {c}, TakenBy(d, i) PROVE TakenBy(d, i)'
    BY <2>3, ConstantFacts DEF TakenBy, Moves
  <2>. QED BY <2>1, <2>2, <2>3 DEF EnginesHeld, InMap
<1>2. ASSUME NEW d \in Callers PROVE place'[d] \notin AtHand
  BY ConstantFacts DEF EnginesHeld, Moves, AtHand
<1>. QED BY <1>1, <1>2 DEF EnginesHeld

\* The deployment that takes a flow out of the map, or puts one into it.
LEMMA ActivateHolds ==
  ASSUME RegistryTypes, LockInv, Alone \/ Orderly, MapAgrees, EnginesHeld, NEW c \in Callers,
         NEW f, f = job[c].flow, NEW prev, prev = job[c].prev,
         ActivateRemoves(c) \/ ActivateKeepsOld(c) \/ ActivateStarts(c) \/ ActivateRestores(c)
  PROVE  EnginesHeld'
<1>1. c \in Processes /\ c \notin Timers /\ place[c] \in LockSteps /\ UNCHANGED usage
  BY ConstantFacts DEF ActivateRemoves, ActivateKeepsOld, ActivateStarts, ActivateRestores, At, LockSteps
<1>2. /\ f \in FlowIds /\ c \in usage.callers /\ Fits(place[c], job[c]) /\ CallAgrees(c) /\ job[c] \in Jobs
  BY <1>1, AtWork DEF LockSteps, MapAgrees
<1>3. Alone => \A d \in Callers \ {c} : place[d] = "idle"
  BY <1>2, NoOther
<1>4. /\ loaded \in [FlowIds -> Entry \cup {Nothing}] /\ live \subseteq Instances /\ None \notin live
  BY ConstantFacts DEF RegistryTypes, DataTypes
<1>5. ASSUME Moves(c), \A g \in FlowIds \ {f} : loaded'[g] = loaded[g], place'[c] \notin AtHand,
             \A i \in live' : i \in live \/ loaded'[f].inst = i,
             \A i \in live' : loaded[f].inst = i \/ TakenBy(c, i) => loaded'[f].inst = i \/ TakenBy(c, i)'
      PROVE  EnginesHeld'
  BY <1>1, <1>2, <1>3, <1>5, EnginesMoved
\* A flow that is not loaded is, from now on, under the supervisor e.inst.
<1>6. ASSUME NEW e, loaded' = [loaded EXCEPT ![f] = e], loaded[f] = Nothing,
             Moves(c), place'[c] \in {"idle", "recording"},
             \A i \in live' : i \in live \/ e.inst = i,
             \A i \in live' : TakenBy(c, i) => e.inst = i
      PROVE  EnginesHeld'
  <2>1. loaded'[f] = e /\ \A g \in FlowIds \ {f} : loaded'[g] = loaded[g]
    BY <1>2, <1>4, <1>6
  <2>2. \A i \in live : loaded[f].inst # i
    BY <1>4, <1>6, EntryFacts
  <2>3. \A i \in live' : loaded[f].inst = i => e.inst = i
    BY <1>6, <2>2
  <2>. QED BY <1>5, <1>6, <2>1, <2>3 DEF AtHand
<1>7. CASE ActivateRemoves(c)
  <2> DEFINE j == [job[c] EXCEPT !.prev = loaded[f]]
  <2>1. j.prev = loaded[f]
    BY <1>2 DEF Jobs
  <2>2. place[c] = "checked" /\ loaded' = [loaded EXCEPT ![f] = Nothing] /\ UNCHANGED live
    BY <1>7 DEF ActivateRemoves, At
  <2>3. PICK step \in {"removed", "starting", "recording"} :
          GoesTo(c, step, j) /\ (loaded[f] # Nothing => step = "removed")
    BY <1>7 DEF ActivateRemoves
  <2> HIDE DEF j
  <2>4. Moves(c) /\ place'[c] = step /\ job'[c].prev = loaded[f]
    BY <1>1, <2>1, <2>3, GoesMoves
  <2>5. loaded'[f] = Nothing /\ \A g \in FlowIds \ {f} : loaded'[g] = loaded[g]
    BY <1>2, <1>4, <2>2
  <2>6. ASSUME NEW i \in live', loaded[f].inst = i \/ TakenBy(c, i) PROVE TakenBy(c, i)'
    <3>1. loaded[f].inst = i /\ loaded[f] # Nothing
      BY <1>4, <2>2, <2>6, EntryFacts DEF TakenBy
    <3>. QED BY <2>3, <2>4, <3>1 DEF TakenBy
  <2>. QED BY <1>5, <2>2, <2>4, <2>5, <2>6 DEF AtHand
<1>8. CASE ActivateKeepsOld(c)
  <2>1. /\ place[c] = "removed" /\ loaded' = [loaded EXCEPT ![f] = prev] /\ Return(c)
        /\ live' \subseteq live /\ loaded[f] = Nothing
    BY <1>2, <1>8 DEF ActivateKeepsOld, StopErr, At, CallAgrees
  <2>2. Moves(c) /\ place'[c] = "idle"
    BY <1>1, <2>1, ReturnMoves
  <2>. QED BY <1>6, <2>1, <2>2 DEF TakenBy
<1>9. CASE ActivateStarts(c)
  <2> DEFINE e == [version |-> job[c].version, inst |-> job[c].inst]
  <2>1. /\ place[c] = "starting" /\ loaded' = [loaded EXCEPT ![f] = e] /\ Advance(c, "recording")
        /\ live' = live \cup {e.inst} /\ loaded[f] = Nothing
    BY <1>2, <1>9 DEF ActivateStarts, Starts, Loads, At, CallAgrees
  <2> HIDE DEF e
  <2>2. Moves(c) /\ place'[c] = "recording"
    BY <1>1, <2>1, GoesMoves DEF Advance
  <2>. QED BY <1>6, <2>1, <2>2 DEF TakenBy
<1>10. CASE ActivateRestores(c)
  <2>1. place[c] = "restoring" /\ Return(c) /\ loaded[f] = Nothing
    BY <1>2, <1>10 DEF ActivateRestores, At, CallAgrees
  <2>2. Moves(c) /\ place'[c] = "idle"
    BY <1>1, <2>1, ReturnMoves
  <2>3. ASSUME NEW i \in Instances, Starts(i) \/ StartErr(i), Loads(f, prev.version, i) PROVE EnginesHeld'
    <3> DEFINE e == [version |-> prev.version, inst |-> i]
    <3>1. loaded' = [loaded EXCEPT ![f] = e] /\ \A h \in live' : h \in live \/ e.inst = h
      BY <2>3 DEF Starts, StartErr, Loads
    <3> HIDE DEF e
    <3>. QED BY <1>6, <2>1, <2>2, <3>1 DEF TakenBy
  <2>4. CASE loaded' = [loaded EXCEPT ![f] = prev] /\ UNCHANGED live
    BY <1>6, <2>1, <2>2, <2>4 DEF TakenBy
  <2>. QED BY <1>10, <2>3, <2>4 DEF ActivateRestores
<1>. QED BY <1>7, <1>8, <1>9, <1>10

\* So does a stop.
LEMMA StopHolds ==
  ASSUME RegistryTypes, LockInv, Alone \/ Orderly, MapAgrees, EnginesHeld, NEW c \in Callers,
         NEW f, f = job[c].flow, NEW prev, prev = job[c].prev,
         Unload(c) \/ UnloadKeeps(c)
  PROVE  EnginesHeld'
<1>1. c \in Processes /\ c \notin Timers /\ place[c] \in {"unloading", "unloaded"} /\ UNCHANGED usage
  BY ConstantFacts DEF Unload, UnloadKeeps, At
<1>2. /\ f \in FlowIds /\ c \in usage.callers /\ CallAgrees(c) /\ job[c] \in Jobs
  BY <1>1, AtWork DEF MapAgrees
<1>3. Alone => \A d \in Callers \ {c} : place[d] = "idle"
  BY <1>2, NoOther
<1>4. /\ loaded \in [FlowIds -> Entry \cup {Nothing}] /\ live \subseteq Instances /\ None \notin live
  BY ConstantFacts DEF RegistryTypes, DataTypes
<1>5. ASSUME Moves(c), \A g \in FlowIds \ {f} : loaded'[g] = loaded[g], place'[c] \notin AtHand, live' \subseteq live,
             \A i \in live' : loaded[f].inst = i \/ TakenBy(c, i) => loaded'[f].inst = i \/ TakenBy(c, i)'
      PROVE  EnginesHeld'
  BY <1>1, <1>2, <1>3, <1>5, EnginesMoved
<1>6. CASE Unload(c)
  <2> DEFINE j == [job[c] EXCEPT !.prev = loaded[f]]
  <2>1. j.prev = loaded[f]
    BY <1>2 DEF Jobs
  <2>2. place[c] = "unloading" /\ loaded' = [loaded EXCEPT ![f] = Nothing] /\ UNCHANGED live
    BY <1>6 DEF Unload, At
  <2>3. (loaded[f] = Nothing /\ Return(c)) \/ GoesTo(c, "unloaded", j)
    BY <1>6 DEF Unload
  <2> HIDE DEF j
  <2>4. /\ Moves(c) /\ place'[c] \in {"idle", "unloaded"}
        /\ loaded[f] = Nothing \/ (place'[c] = "unloaded" /\ job'[c].prev = loaded[f])
    BY <1>1, <2>1, <2>3, GoesMoves, ReturnMoves
  <2>5. loaded'[f] = Nothing /\ \A g \in FlowIds \ {f} : loaded'[g] = loaded[g]
    BY <1>2, <1>4, <2>2
  <2>6. ASSUME NEW i \in live', loaded[f].inst = i \/ TakenBy(c, i) PROVE TakenBy(c, i)'
    <3>1. loaded[f].inst = i /\ loaded[f] # Nothing
      BY <1>4, <2>2, <2>6, EntryFacts DEF TakenBy
    <3>. QED BY <2>4, <3>1 DEF TakenBy
  <2>. QED BY <1>5, <2>2, <2>4, <2>5, <2>6 DEF AtHand
<1>7. CASE UnloadKeeps(c)
  <2>1. Alone
    BY <1>7 DEF UnloadKeeps, StopErr, May, Orderly
  <2>2. /\ place[c] = "unloaded" /\ loaded' = [loaded EXCEPT ![f] = prev] /\ Return(c)
        /\ live' \subseteq live /\ loaded[f] = Nothing
    BY <1>2, <1>7, <2>1 DEF UnloadKeeps, StopErr, At, CallAgrees
  <2>3. Moves(c) /\ place'[c] = "idle"
    BY <1>1, <2>2, ReturnMoves
  <2>4. loaded'[f] = prev /\ \A g \in FlowIds \ {f} : loaded'[g] = loaded[g]
    BY <1>2, <1>4, <2>2
  <2>5. \A i \in live' : loaded[f].inst = i \/ TakenBy(c, i) => loaded'[f].inst = i
    BY <1>4, <2>2, <2>4, EntryFacts DEF TakenBy
  <2>. QED BY <1>5, <2>2, <2>3, <2>4, <2>5 DEF AtHand
<1>. QED BY <1>6, <1>7

\* The calls that leave the map; StartActs starts the supervisor it looked up.
LEMMA OthersHold ==
  ASSUME RegistryTypes, LockInv, QuietInv, EnginesInv, NEW c \in Callers, GoOn(c),
         ~(ActivateRemoves(c) \/ ActivateKeepsOld(c) \/ ActivateStarts(c) \/ ActivateRestores(c)),
         ~(Unload(c) \/ UnloadKeeps(c))
  PROVE  EnginesInv'
<1>1. c \in Processes /\ c \notin Timers
  BY ConstantFacts
<1>2. ASSUME Moves(c), UNCHANGED <<usage, loaded>>, live' \subseteq live, \A i \in live' : ~TakenBy(c, i),
             place'[c] \notin AtHand
      PROVE  EnginesInv'
  <2>1. \A d \in Callers : \/ place'[d] = place[d] /\ job'[d] = job[d]
                           \/ /\ \A i \in live' : ~TakenBy(d, i)
                              /\ place'[d] \notin AtHand
    BY <1>2, ConstantFacts DEF Moves
  <2>. QED BY <1>2, <2>1, EnginesKept
<1>3. CASE Persist(c)
  <2>1. place'[c] \notin LockSteps \cup {"unloaded"} /\ UNCHANGED <<loaded, live>>
    BY <1>3, PersistLocks
  <2>2. place[c] \in Persisting /\ ~ArmSpawns(c) /\ ~Arm(c)
    BY <1>3 DEF Persist, PersistReads, PersistWrites, PersistRenames, PersistFails, At, ArmSpawns, Arm, Persisting
  <2>3. Moves(c) /\ UNCHANGED usage /\ place'[c] \notin AtHand
    BY <2>2, GoOnMoves DEF AtHand, FireSteps
  <2>. QED BY <1>2, <2>1, <2>2, <2>3 DEF TakenBy, Persisting
<1>4. CASE PublishValidates(c) \/ Archives(c) \/ Disarm(c) \/ Arm(c)
  <2>1. UNCHANGED <<usage, loaded, live>> /\ place[c] \notin {"removed", "unloaded"}
    BY <1>4 DEF PublishValidates, Archives, Disarm, Arm, At
  <2>2. Moves(c) /\ place'[c] \in {"idle", "read", "unloading", "spawning", "fire"}
    BY <1>1, <1>4, GoesMoves, ReturnMoves DEF PublishValidates, Archives, Disarm, Arm, Advance
  <2>. QED BY <1>2, <2>1, <2>2 DEF TakenBy, AtHand
<1>5. CASE DeployLocks(c) \/ ActivateRefused(c) \/ ActivateChecks(c) \/ ActivateFails(c) \/ ActivateRecords(c)
  <2>1. UNCHANGED <<usage, loaded, live>> /\ place[c] \notin {"removed", "unloaded"}
    BY <1>5 DEF DeployLocks, ActivateRefused, ActivateChecks, ActivateFails, StartErr, ActivateRecords, At
  <2>2. Moves(c) /\ place'[c] \in {"idle", "locked", "checked", "restoring", "read"}
    BY <1>1, <1>5, GoesMoves, ReturnMoves
       DEF DeployLocks, ActivateRefused, ActivateChecks, ActivateFails, ActivateRecords, Advance
  <2>. QED BY <1>2, <2>1, <2>2 DEF TakenBy, AtHand
<1>6. CASE ActivateStops(c) \/ UnloadStops(c)
  <2>1. UNCHANGED <<usage, loaded>> /\ live' = live \ {job[c].prev.inst}
    BY <1>6 DEF ActivateStops, UnloadStops, Stops
  <2>2. Moves(c) /\ place'[c] \in {"idle", "starting", "recording"}
    BY <1>1, <1>6, GoesMoves, ReturnMoves DEF ActivateStops, UnloadStops, Advance
  <2>. QED BY <1>2, <2>1, <2>2 DEF TakenBy, AtHand
<1>7. CASE StartActs(c)
  <2> DEFINE i == job[c].inst
  <2>1. UNCHANGED <<usage, loaded>> /\ place[c] = "got" /\ live' \in {live, live \cup {i}}
    BY <1>7 DEF StartActs, Starts, Refuses, StartErr, At
  <2>2. Moves(c) /\ place'[c] \in {"idle", "arming"}
    BY <1>1, <1>7, GoesMoves, ReturnMoves DEF StartActs
  <2>3. NoSchedule /\ (Alone \/ Orderly) => InMap(i)
    BY <2>1 DEF EnginesInv, EnginesHeld, AtHand
  <2>4. NoSchedule /\ (Alone \/ Orderly) => \A h \in live' : h \in live \/ InMap(h)
    BY <2>1, <2>3
  <2>5. \A d \in Callers : \/ place'[d] = place[d] /\ job'[d] = job[d]
                           \/ /\ \A h \in live' : ~TakenBy(d, h)
                              /\ place'[d] \notin AtHand
    BY <2>1, <2>2, ConstantFacts DEF Moves, TakenBy, AtHand
  <2>. QED BY <2>1, <2>4, <2>5, EnginesKept
<1>8. CASE ArmSpawns(c)
  <2>1. ~NoSchedule /\ UNCHANGED usage
    BY <1>8 DEF ArmSpawns, At, QuietInv, AboutToSpawn
  <2>. QED BY <2>1 DEF EnginesInv, NoSchedule
<1>. QED BY <1>3, <1>4, <1>5, <1>6, <1>7, <1>8 DEF GoOn, Activate

\* A request that starts a flow looks its supervisor up.
LEMMA BeginHolds ==
  ASSUME RegistryTypes, EnginesInv, NEW c \in Callers, Begin(c)
  PROVE  EnginesInv'
<1>1. /\ Moves(c) /\ place[c] = "idle" /\ UNCHANGED <<usage, loaded, live>>
      /\ place'[c] \in {"read", "archiving", "deploying", "disarming", "got", "fire"}
      /\ place'[c] = "got" => ~Orderly
  BY BeginMoves, BeginKeeps DEF Orderly
<1>2. place'[c] = "got" => InMap(job'[c].inst)
  <2>1. PICK f \in FlowIds : \/ Create(c, f) \/ Publish(c, f) \/ Stop(c, f) \/ Start(c, f) \/ Trigger(c, f)
                             \/ (\E v \in Versions : Validate(c, f, v) \/ Archive(c, f, v))
                             \/ (\E v \in Versions, start \in BOOLEAN : Deploy(c, f, v, start))
                             \/ (\E start \in BOOLEAN : Rollback(c, f, start))
    BY DEF Begin
  <2>2. Create(c, f) \/ Publish(c, f) \/ Stop(c, f) \/ Trigger(c, f) => place'[c] \in {"read", "disarming", "fire"}
    BY GoesMoves, ConstantFacts DEF Create, Publish, CreateDraft, Stop, Trigger, Request
  <2>3. ASSUME NEW v \in Versions, Validate(c, f, v) \/ Archive(c, f, v) PROVE place'[c] \in {"read", "archiving"}
    BY <2>3, GoesMoves, ConstantFacts DEF Validate, Archive, Request
  <2>4. ASSUME NEW v \in Versions, NEW start \in BOOLEAN, Deploy(c, f, v, start) PROVE place'[c] = "deploying"
    BY <2>4, GoesMoves, ConstantFacts DEF Deploy, Request
  <2>5. ASSUME NEW start \in BOOLEAN, Rollback(c, f, start) PROVE place'[c] = "deploying"
    BY <2>5, GoesMoves, ConstantFacts DEF Rollback, Request
  <2>6. ASSUME Start(c, f) PROVE InMap(job'[c].inst)
    <3> DEFINE i == loaded[f].inst
               j == [[NoJob EXCEPT !.inst = i] EXCEPT !.flow = f]
    <3>1. GoesTo(c, "got", j)
      BY <2>6 DEF Start, Request
    <3>2. j.inst = i
      BY NoJobFacts DEF Jobs
    <3> HIDE DEF j
    <3>3. job'[c] = j
      BY <3>1, GoesMoves, ConstantFacts
    <3>. QED BY <3>2, <3>3 DEF InMap
  <2>. QED BY <2>1, <2>2, <2>3, <2>4, <2>5, <2>6
<1>3. \A d \in Callers : \/ place'[d] = place[d] /\ job'[d] = job[d]
                         \/ /\ \A i \in live' : ~TakenBy(d, i)
                            /\ place'[d] \in AtHand /\ NoSchedule /\ (Alone \/ Orderly) => Alone /\ InMap(job'[d].inst)
  BY <1>1, <1>2, ConstantFacts DEF Moves, TakenBy, AtHand
<1>. QED BY <1>1, <1>3, EnginesKept

\* Who fires starts, or stops, the supervisor it looked up.
LEMMA FiresHold ==
  ASSUME RegistryTypes, QuietInv, EnginesInv, NEW p \in Processes, Fires(p)
  PROVE  EnginesInv'
<1>1. Fires1(p) /\ place[p] \in FireSteps /\ UNCHANGED <<usage, loaded>>
  BY FiresMoves DEF Fires, Fire, FireIdle, FireStops, FireStarts
<1>2. NoSchedule => p \in Callers /\ ~Orderly
  <2>1. NoSchedule => p \in Callers
    BY <1>1, ConstantFacts DEF QuietInv, FireSteps
  <2>2. NoSchedule /\ p \in Callers /\ Orderly => FALSE
    BY <1>1 DEF QuietInv, AboutToSpawn
  <2>. QED BY <2>1, <2>2
<1>3. SUFFICES ASSUME NoSchedule, Alone, p \in Callers PROVE EnginesInv'
  BY <1>1, <1>2 DEF EnginesInv, NoSchedule, Alone, Orderly
<1>4. EnginesHeld /\ job[p].flow \in FlowIds
  BY <1>1, <1>3, AtWork DEF EnginesInv, FireSteps
<1>5. ASSUME \A i \in live' : i \in live \/ InMap(i), place'[p] \in AtHand => InMap(job'[p].inst)
      PROVE  EnginesInv'
  <2>1. \A d \in Callers : \/ place'[d] = place[d] /\ job'[d] = job[d]
                           \/ /\ \A i \in live' : ~TakenBy(d, i)
                              /\ place'[d] \in AtHand /\ NoSchedule /\ (Alone \/ Orderly)
                                   => Alone /\ InMap(job'[d].inst)
    BY <1>1, <1>3, <1>5, ConstantFacts DEF Fires1, Moves, TakenBy, FireSteps
  <2>. QED BY <1>1, <1>5, <2>1, EnginesKept
<1>6. ASSUME Fired(p), \A i \in live' : i \in live \/ InMap(i) PROVE EnginesInv'
  <2>1. Fires1(p) /\ place'[p] \notin FireSteps
    BY <1>1, <1>6, FiredMoves
  <2>2. place'[p] \notin AtHand
    BY <1>3, <2>1 DEF Fires1, FireSteps, AtHand
  <2>. QED BY <1>5, <1>6, <2>2
<1>7. CASE Fire(p)
  <2> DEFINE i == loaded[job[p].flow].inst
             j == [job[p] EXCEPT !.inst = i]
  <2>1. UNCHANGED live /\ (Fired(p) \/ \E step : GoesTo(p, step, j))
    BY <1>7 DEF Fire
  <2>2. j.inst = i
    BY DEF RegistryTypes, ProcessTypes, Jobs
  <2> HIDE DEF j
  <2>3. CASE \E step : GoesTo(p, step, j)
    <3>1. job'[p] = j
      BY <2>3, GoesMoves
    <3>2. InMap(job'[p].inst)
      BY <1>4, <2>2, <3>1 DEF InMap
    <3>. QED BY <1>5, <2>1, <3>2
  <2>4. CASE Fired(p)
    BY <1>6, <2>1, <2>4
  <2>. QED BY <2>1, <2>3, <2>4
<1>8. CASE FireIdle(p)
  <2>1. UNCHANGED live /\ place[p] = "fireWait" /\ (Fired(p) \/ Advance(p, "fireStart"))
    BY <1>8 DEF FireIdle, At
  <2>2. CASE Fired(p)
    BY <1>6, <2>1, <2>2
  <2>3. CASE Advance(p, "fireStart")
    <3>1. job'[p] = job[p]
      BY <2>3, GoesMoves DEF Advance
    <3>2. InMap(job'[p].inst)
      BY <1>3, <1>4, <2>1, <3>1 DEF EnginesHeld, AtHand
    <3>. QED BY <1>5, <2>1, <3>2
  <2>. QED BY <2>1, <2>2, <2>3
<1>9. CASE FireStops(p)
  <2>1. live' \subseteq live /\ place[p] = "fireStop" /\ (Fired(p) \/ Advance(p, "fireStart"))
    BY <1>9 DEF FireStops, Stops, StopErr, At
  <2>2. CASE Fired(p)
    BY <1>6, <2>1, <2>2
  <2>3. CASE Advance(p, "fireStart")
    <3>1. job'[p] = job[p]
      BY <2>3, GoesMoves DEF Advance
    <3>2. InMap(job'[p].inst)
      BY <1>3, <1>4, <2>1, <3>1 DEF EnginesHeld, AtHand
    <3>. QED BY <1>5, <2>1, <3>2
  <2>. QED BY <2>1, <2>2, <2>3
<1>10. CASE FireStarts(p)
  <2>1. live' \in {live, live \cup {job[p].inst}} /\ place[p] = "fireStart" /\ Fired(p)
    BY <1>10 DEF FireStarts, Starts, Refuses, StartErr, At
  <2>2. InMap(job[p].inst)
    BY <1>3, <1>4, <2>1 DEF EnginesHeld, AtHand
  <2>. QED BY <1>6, <2>1, <2>2
<1>. QED BY <1>7, <1>8, <1>9, <1>10 DEF Fires

LEMMA EnginesInvariant == RegistrySpec => []EnginesInv
<1>1. RegistryInit => EnginesInv
  BY ConstantFacts DEF RegistryInit, EnginesInv, EnginesHeld, AtHand
<1>2. /\ RegistryTypes /\ LockInv /\ QuietInv /\ ActiveInv /\ EnginesInv
      /\ [RegistryNext]_registryVars
      => EnginesInv'
  <2> SUFFICES ASSUME RegistryTypes, LockInv, QuietInv, ActiveInv, EnginesInv, [RegistryNext]_registryVars
               PROVE  EnginesInv'
    OBVIOUS
  <2>1. ASSUME NEW c \in Callers, GoOn(c) PROVE EnginesInv'
    <3>1. CASE \/ ActivateRemoves(c) \/ ActivateKeepsOld(c) \/ ActivateStarts(c) \/ ActivateRestores(c)
      <4>1. UNCHANGED usage
        BY <3>1 DEF ActivateRemoves, ActivateKeepsOld, ActivateStarts, ActivateRestores
      <4>2. NoSchedule /\ (Alone \/ Orderly) => EnginesHeld'
        BY <3>1, ActivateHolds DEF ActiveInv, EnginesInv
      <4>. QED BY <4>1, <4>2 DEF EnginesInv, NoSchedule, Alone, Orderly
    <3>2. CASE Unload(c) \/ UnloadKeeps(c)
      <4>1. UNCHANGED usage
        BY <3>2 DEF Unload, UnloadKeeps
      <4>2. NoSchedule /\ (Alone \/ Orderly) => EnginesHeld'
        BY <3>2, StopHolds DEF ActiveInv, EnginesInv
      <4>. QED BY <4>1, <4>2 DEF EnginesInv, NoSchedule, Alone, Orderly
    <3>. QED BY <2>1, <3>1, <3>2, OthersHold
  <2>2. ASSUME NEW t \in Timers, Tick(t) \/ TimerCancelled(t) PROVE EnginesInv'
    <3>1. UNCHANGED <<usage, loaded, live>> /\ \E step, j : GoesTo(t, step, j)
      BY <2>2 DEF Tick, TimerCancelled, Advance
    <3>2. \A c \in Callers : place'[c] = place[c] /\ job'[c] = job[c]
      BY <3>1, GoesMoves, ConstantFacts DEF Moves
    <3>. QED BY <3>1, <3>2, EnginesKept
  <2>3. ASSUME NEW i \in Instances, EngineEnds(i) PROVE EnginesInv'
    BY <2>3, EnginesKept DEF EngineEnds
  <2>4. ASSUME NEW i \in Instances, NEW f \in FlowIds, Seed(f, i) PROVE EnginesInv'
    <3> DEFINE e == [version |-> NextVersion(f), inst |-> i]
    <3>1. /\ loaded' = [loaded EXCEPT ![f] = e] /\ live' = live \cup {e.inst} /\ UNCHANGED usage
          /\ \A p \in Processes : place[p] = "idle"
          /\ \A g \in FlowIds : loaded[g] = Nothing
      BY <2>4 DEF Seed, Loads, At
    <3> HIDE DEF e
    <3>2. PICK c \in usage.callers : \E j : GoesTo(c, "read", j)
      BY <2>4 DEF Seed
    <3>3. c \in Callers
      BY <3>2, RegistryAssumption DEF RegistryAssumption, UsageType, RegistryTypes, DataTypes
    <3>4. \A d \in Callers : place'[d] \in {"idle", "read"}
      BY <3>1, <3>2, <3>3, GoesMoves, ConstantFacts DEF Moves
    <3>5. \A h \in live : ~InMap(h) /\ \A d \in Callers : ~TakenBy(d, h)
      BY <3>1, EntryFacts, ConstantFacts DEF InMap, TakenBy, RegistryTypes, DataTypes
    <3>6. NoSchedule /\ (Alone \/ Orderly) => live = {}
      BY <3>5 DEF EnginesInv, EnginesHeld
    <3>7. loaded'[f] = e
      BY <3>1 DEF RegistryTypes, DataTypes
    <3>8. NoSchedule /\ (Alone \/ Orderly) => EnginesHeld'
      BY <3>1, <3>4, <3>6, <3>7 DEF EnginesHeld, InMap, AtHand
    <3>. QED BY <3>1, <3>8 DEF EnginesInv, NoSchedule, Alone, Orderly
  <2>5. CASE ServerCrash
    BY <2>5, ConstantFacts DEF ServerCrash, EnginesInv, EnginesHeld, AtHand
  <2>6. CASE UNCHANGED registryVars
    BY <2>6, EnginesKept DEF registryVars
  <2>. QED BY <2>1, <2>2, <2>3, <2>4, <2>5, <2>6, BeginHolds, FiresHold DEF RegistryNext
<1>. QED BY <1>1, <1>2, RegistryTyped, LockInvariant, QuietInvariant, ActiveInvariant, PTL DEF RegistrySpec

\* activate, stop_flow, start_flow and the ways back of each: once no call is about a flow, what is loaded is the
\* version its record calls active; and the engine of each flow at work is in the map, or
\* in the hands of the call that stops it or puts it back.
THEOREM ServerKnowsItsEngines == RegistrySpec => []RegistryMatchesEngines
<1>1. EnginesInv => EnginesReachable
  BY DEF EnginesInv, EnginesHeld, InMap, TakenBy, NoSchedule, EnginesReachable
<1>. QED BY <1>1, EnginesInvariant, MapIsActive, PTL DEF RegistryMatchesEngines

----------------------------------------------------------------------------
(* The connection profiles. *)

Entries  == [name : Names, edition : Nat \ {0}] \cup {NoProfile}
Tables   == [Ids -> Entries]
Editions == [Ids -> Nat]
Keys     == {"old", "new"}

Ops == {"create", "duplicate", "update", "delete", "test", "explore"}
Pcs == {"get", "resolve", "store", "exists", "upsert", "status", "undo", "remove", "revert", "forget",
        "testing", "result", "insert"}

\* Which calls come to each step.
Naming == {"create", "duplicate", "update"}
PcsOf(op) ==
  CASE op = "create"    -> {"store", "upsert", "status", "undo"}
    [] op = "duplicate" -> {"get", "resolve", "store", "upsert", "status", "undo"}
    [] op = "update"    -> {"get", "resolve", "store", "exists", "upsert", "status", "undo"}
    [] op = "delete"    -> {"get", "remove", "revert", "forget"}
    [] op = "test"      -> {"get", "resolve", "testing", "result"}
    [] OTHER            -> {"get", "resolve", "insert"}

CallShapes ==
  [op : Ops \cup {"idle"}, pc : Pcs \cup {"idle"}, id : Ids \cup {0}, from : Ids \cup {0},
   name : Names \cup {NoName}, edition : Nat, secret : Nat, previous : Nat]

\* A call under way: on a profile, from a profile, with the contents it sends
\* from the moment it has them.
FitsCall(op, pc, id, from, name, edition, secret) ==
  /\ op \in Ops /\ pc \in PcsOf(op) /\ id \in Ids
  /\ op # "create" => from \in Ids
  /\ op \in {"update", "delete", "test", "explore"} => from = id
  /\ op \in Naming => name \in Names
  /\ op = "duplicate" => from # id
  /\ op \in {"create", "update"} => edition # 0 /\ secret # 0
  /\ op = "duplicate" /\ pc # "get" => edition # 0 /\ (pc # "resolve" => secret # 0)

Calls ==
  {c \in CallShapes : FitsCall(c.op, c.pc, c.id, c.from, c.name, c.edition, c.secret)}

ProfileTypes ==
  /\ served \in ServerUsages /\ up \in BOOLEAN
  /\ profiles \in Tables /\ saved \in Tables
  /\ secrets \in Editions /\ cache \in Editions
  /\ health \in [Ids -> {"none", "unknown", "testing", "tested"}]
  /\ masterKey \in Keys /\ envKey \in Keys
  /\ file \in [version : 0 .. 2, key : Keys, secrets : Editions]
  /\ writer \in Administrators \cup {NoAdmin}
  /\ made \in 0 .. MaxCreates /\ edits \in Nat /\ faults \in Nat /\ crashes \in Nat
  /\ broken \in BOOLEAN

CallTypes == call \in [Administrators -> Calls \cup {Idle}]

OtherTypes ==
  /\ cli \in [pc : {"idle", "opened", "written"}, done : BOOLEAN, secrets : Editions]
  /\ client \in [pc : {"idle", "secrets", "resolve", "connect", "connected", "failed"}, deploys : Nat,
                 profiles : Tables, secrets : Editions, overlap : BOOLEAN,
                 endpoint : Nat, credentials : Nat, attempt : Nat]

StoreTypes == ProfileTypes /\ CallTypes /\ OtherTypes

----------------------------------------------------------------------------
(* Constants, and how a call goes on. *)

LEMMA StoreFacts ==
  /\ MaxCreates \in Nat \ {0} /\ Ids \subseteq Nat \ {0} /\ 1 \in Ids
  /\ \A n \in Nat : n < MaxCreates => n + 1 \in Ids
  /\ \A n \in 0 .. MaxCreates : 1 .. n \subseteq Ids
  /\ NoName \notin Names /\ NoAdmin \notin Administrators
BY BoundsAssumption DEF BoundsAssumption, Ids

LEMMA EmptyFacts ==
  /\ NoProfile.name = NoName /\ NoProfile.edition = 0 /\ NoProfiles \in Tables /\ NoSecrets \in Editions
  /\ \A i \in Ids : NoProfiles[i] = NoProfile /\ NoSecrets[i] = 0
BY DEF NoProfile, NoProfiles, NoSecrets, Tables, Entries, Editions

LEMMA IdleFacts ==
  /\ Idle.pc = "idle" /\ Idle.op = "idle" /\ Idle.id = 0 /\ Idle \notin Calls /\ Idle \in CallShapes
  /\ Idle.from = 0 /\ Idle.name = NoName /\ Idle.edition = 0 /\ Idle.secret = 0 /\ Idle.previous = 0
  /\ \A c \in Calls : c.pc # "idle" /\ c.pc \in Pcs
BY DEF Idle, Calls, CallShapes, FitsCall, Pcs, PcsOf, Ops

\* The entries of a table.
LEMMA EntryShape ==
  ASSUME NEW t \in Tables, NEW i \in Ids
  PROVE  /\ t[i] \in Entries /\ t[i].edition \in Nat /\ t[i].name \in Names \cup {NoName}
         /\ Exists(t, i) => t[i].name \in Names
         /\ ~Exists(t, i) => t[i] = NoProfile /\ t[i].name = NoName
<1>1. t[i] \in Entries
  BY DEF Tables
<1>. QED BY <1>1, StoreFacts DEF Entries, Exists, NoProfile

\* The others' calls stay.
Others(a) == \A b \in Administrators \ {a} : call'[b] = call[b]

\* The same call, at another step.
SameCall(a) ==
  /\ call'[a].op = call[a].op /\ call'[a].id = call[a].id /\ call'[a].from = call[a].from
  /\ call'[a].name = call[a].name /\ call'[a].edition = call[a].edition
  /\ call'[a].secret = call[a].secret /\ call'[a].previous = call[a].previous

LEMMA CallMoves ==
  ASSUME CallTypes, NEW a \in Administrators, NEW c \in Calls \cup {Idle}, call' = [call EXCEPT ![a] = c]
  PROVE  CallTypes' /\ Others(a) /\ call'[a] = c
BY DEF CallTypes, Others

LEMMA CallAnswers ==
  ASSUME CallTypes, NEW a \in Administrators, AnswersCall(a)
  PROVE  CallTypes' /\ Others(a) /\ call'[a] = Idle
BY CallMoves DEF AnswersCall

LEMMA CallMovesOn ==
  ASSUME CallTypes, NEW a \in Administrators, call[a] # Idle, NEW pc, Goes(a, pc),
         pc \in PcsOf(call[a].op), call[a].op = "duplicate" => call[a].pc \notin {"get", "resolve"}
  PROVE  CallTypes' /\ Others(a) /\ SameCall(a) /\ call'[a].pc = pc /\ call'[a] \in Calls
<1> DEFINE c == [call[a] EXCEPT !.pc = pc]
<1>1. call[a] \in Calls
  BY DEF CallTypes
<1>2. /\ c.op = call[a].op /\ c.id = call[a].id /\ c.from = call[a].from /\ c.name = call[a].name
      /\ c.edition = call[a].edition /\ c.secret = call[a].secret /\ c.previous = call[a].previous
      /\ c.pc = pc
  BY <1>1 DEF Calls, CallShapes
<1>3. pc \in Pcs
  BY <1>1 DEF Calls, FitsCall, PcsOf, Ops, Pcs
<1>4. c \in Calls
  <2>1. c \in CallShapes
    BY <1>1, <1>3 DEF Calls, CallShapes
  <2>2. FitsCall(call[a].op, pc, call[a].id, call[a].from, call[a].name, call[a].edition, call[a].secret)
    BY <1>1 DEF Calls, FitsCall, PcsOf, Naming
  <2> HIDE DEF c
  <2>. QED BY <1>2, <2>1, <2>2 DEF Calls
<1>5. call' = [call EXCEPT ![a] = c]
  BY DEF Goes
<1> HIDE DEF c
<1>. QED BY <1>2, <1>4, <1>5, CallMoves DEF SameCall

----------------------------------------------------------------------------
(* Types. *)

\* What a call has in hand.
LEMMA CallFacts ==
  ASSUME StoreTypes, NEW a \in Administrators, call[a].pc # "idle"
  PROVE  /\ call[a] # Idle /\ call[a] \in Calls /\ call[a].id \in Ids
         /\ call[a].pc \in PcsOf(call[a].op) /\ call[a].op \in Ops
         /\ call[a].edition \in Nat /\ call[a].secret \in Nat /\ call[a].previous \in Nat
         /\ call[a].op # "create" => call[a].from \in Ids
         /\ call[a].op \in {"update", "delete", "test", "explore"} => call[a].from = call[a].id
         /\ call[a].op = "duplicate" => call[a].from # call[a].id
         /\ call[a].op \in Naming => call[a].name \in Names
         /\ call[a].pc \in {"store", "exists", "upsert", "status", "undo"} =>
              call[a].edition # 0 /\ call[a].secret # 0
<1>1. call[a] \in Calls /\ call[a] # Idle
  BY IdleFacts DEF StoreTypes, CallTypes
<1>2. call[a] \in CallShapes
  BY <1>1 DEF Calls
<1>3. call[a].edition \in Nat /\ call[a].secret \in Nat /\ call[a].previous \in Nat
  BY <1>2 DEF CallShapes
<1>4. FitsCall(call[a].op, call[a].pc, call[a].id, call[a].from, call[a].name, call[a].edition,
               call[a].secret)
  BY <1>1 DEF Calls
<1>. QED BY <1>1, <1>3, <1>4 DEF FitsCall, PcsOf, Ops

\* A new call.
LEMMA CallBegins ==
  ASSUME CallTypes, NEW a \in Administrators, NEW c \in CallShapes, call' = [call EXCEPT ![a] = c],
         FitsCall(c.op, c.pc, c.id, c.from, c.name, c.edition, c.secret)
  PROVE  CallTypes' /\ Others(a) /\ call'[a] = c /\ call'[a] \in Calls
<1>1. c \in Calls
  BY DEF Calls
<1>. QED BY <1>1, CallMoves

\* What is asked, of a new profile or of one there may be.
Asked(c) ==
  /\ c.pc = IF c.op = "create" THEN "store" ELSE "get"
  /\ c.op \in {"create", "duplicate"} => c.id = made + 1 /\ made' = made + 1
  /\ c.op \in {"create", "update"} => c.edition = c.secret
  /\ made' \in {made, made + 1} /\ c.id <= made'

LEMMA AsksTypes ==
  ASSUME StoreTypes, NEW a \in Administrators, Asks(a)
  PROVE  StoreTypes' /\ call[a] = Idle /\ Others(a) /\ call'[a] \in Calls /\ Asked(call'[a])
<1>1. SUFFICES /\ CallTypes' /\ Others(a) /\ call'[a] \in Calls /\ Asked(call'[a])
               /\ made' \in 0 .. MaxCreates /\ edits' \in Nat
  BY DEF Asks, StoreTypes, ProfileTypes, OtherTypes, files
<1>2. made \in 0 .. MaxCreates /\ edits \in Nat /\ edits + 1 \in Nat /\ edits + 1 # 0 /\ CallTypes
  BY DEF StoreTypes, ProfileTypes
<1>3. CASE AsksCreate(a)
  <2>1. /\ made + 1 \in Ids /\ made' = made + 1 /\ edits' = edits + 1 /\ made < MaxCreates
        /\ made' \in 0 .. MaxCreates
    BY <1>2, <1>3, StoreFacts DEF AsksCreate
  <2>2. PICK n \in Names : call' = [call EXCEPT ![a] = [Idle EXCEPT !.op = "create", !.pc = "store",
                      !.id = made + 1, !.name = n, !.edition = edits + 1, !.secret = edits + 1]]
    BY <1>3 DEF AsksCreate
  <2> DEFINE c == [Idle EXCEPT !.op = "create", !.pc = "store",
                      !.id = made + 1, !.name = n, !.edition = edits + 1, !.secret = edits + 1]
  <2>3. c \in CallShapes
    BY <1>2, <2>1, IdleFacts DEF CallShapes, Ops, Pcs
  <2>4. /\ c.op = "create" /\ c.pc = "store" /\ c.id = made + 1 /\ c.from = 0 /\ c.name = n
        /\ c.edition = edits + 1 /\ c.secret = edits + 1
    BY IdleFacts DEF CallShapes
  <2>5. FitsCall("create", "store", made + 1, 0, n, edits + 1, edits + 1)
    BY <1>2, <2>1 DEF FitsCall, PcsOf, Ops
  <2>6. call' = [call EXCEPT ![a] = c]
    BY <2>2
  <2> HIDE DEF c
  <2>8. FitsCall(c.op, c.pc, c.id, c.from, c.name, c.edition, c.secret)
    BY <2>4, <2>5
  <2>7. CallTypes' /\ Others(a) /\ call'[a] \in Calls /\ call'[a] = c
    BY <1>2, <2>3, <2>6, <2>8, CallBegins
  <2>. QED BY <1>2, <2>1, <2>4, <2>7 DEF Asked
<1>4. CASE AsksDuplicate(a)
  <2>1. /\ made + 1 \in Ids /\ made' = made + 1 /\ edits' = edits /\ made < MaxCreates
        /\ made' \in 0 .. MaxCreates
    BY <1>2, <1>4, StoreFacts DEF AsksDuplicate
  <2>2. PICK n \in Names, i \in 1 .. made : call' = [call EXCEPT ![a] = [Idle EXCEPT !.op = "duplicate",
                      !.pc = "get", !.id = made + 1, !.from = i, !.name = n]]
    BY <1>4 DEF AsksDuplicate
  <2> DEFINE c == [Idle EXCEPT !.op = "duplicate", !.pc = "get", !.id = made + 1, !.from = i, !.name = n]
  <2>3. i \in Ids /\ i # made + 1
    BY <1>2, StoreFacts
  <2>4. c \in CallShapes
    BY <2>1, <2>3, IdleFacts DEF CallShapes, Ops, Pcs
  <2>5. /\ c.op = "duplicate" /\ c.pc = "get" /\ c.id = made + 1 /\ c.from = i /\ c.name = n
        /\ c.edition = 0 /\ c.secret = 0
    BY IdleFacts DEF CallShapes
  <2>6. FitsCall("duplicate", "get", made + 1, i, n, 0, 0)
    BY <2>1, <2>3 DEF FitsCall, PcsOf, Ops
  <2>7. call' = [call EXCEPT ![a] = c]
    BY <2>2
  <2> HIDE DEF c
  <2>9. FitsCall(c.op, c.pc, c.id, c.from, c.name, c.edition, c.secret)
    BY <2>5, <2>6
  <2>8. CallTypes' /\ Others(a) /\ call'[a] \in Calls /\ call'[a] = c
    BY <1>2, <2>4, <2>7, <2>9, CallBegins
  <2>. QED BY <1>2, <2>1, <2>5, <2>8 DEF Asked
<1>5. CASE AsksUpdate(a)
  <2>1. made' = made /\ edits' = edits + 1
    BY <1>5 DEF AsksUpdate
  <2>2. PICK n \in Names, i \in 1 .. made : call' = [call EXCEPT ![a] = [Idle EXCEPT !.op = "update",
                      !.pc = "get", !.id = i, !.from = i, !.name = n, !.edition = edits + 1,
                      !.secret = edits + 1]]
    BY <1>5 DEF AsksUpdate
  <2> DEFINE c == [Idle EXCEPT !.op = "update", !.pc = "get", !.id = i, !.from = i, !.name = n,
                      !.edition = edits + 1, !.secret = edits + 1]
  <2>3. i \in Ids
    BY <1>2, StoreFacts
  <2>4. c \in CallShapes
    BY <1>2, <2>3, IdleFacts DEF CallShapes, Ops, Pcs
  <2>5. /\ c.op = "update" /\ c.pc = "get" /\ c.id = i /\ c.from = i /\ c.name = n
        /\ c.edition = edits + 1 /\ c.secret = edits + 1
    BY IdleFacts DEF CallShapes
  <2>6. FitsCall("update", "get", i, i, n, edits + 1, edits + 1)
    BY <1>2, <2>3 DEF FitsCall, PcsOf, Ops
  <2>7. call' = [call EXCEPT ![a] = c]
    BY <2>2
  <2> HIDE DEF c
  <2>9. FitsCall(c.op, c.pc, c.id, c.from, c.name, c.edition, c.secret)
    BY <2>5, <2>6
  <2>8. CallTypes' /\ Others(a) /\ call'[a] \in Calls /\ call'[a] = c
    BY <1>2, <2>4, <2>7, <2>9, CallBegins
  <2>. QED BY <1>2, <2>1, <2>5, <2>8 DEF Asked
<1>6. CASE AsksAbout(a)
  <2>1. made' = made /\ edits' = edits
    BY <1>6 DEF AsksAbout
  <2>2. PICK i \in 1 .. made, op \in {"delete", "test", "explore"} :
          call' = [call EXCEPT ![a] = [Idle EXCEPT !.op = op, !.pc = "get", !.id = i, !.from = i]]
    BY <1>6 DEF AsksAbout
  <2> DEFINE c == [Idle EXCEPT !.op = op, !.pc = "get", !.id = i, !.from = i]
  <2>3. i \in Ids
    BY <1>2, StoreFacts
  <2>4. c \in CallShapes
    BY <2>3, IdleFacts DEF CallShapes, Ops, Pcs
  <2>5. /\ c.op = op /\ c.pc = "get" /\ c.id = i /\ c.from = i /\ c.name = NoName
        /\ c.edition = 0 /\ c.secret = 0
    BY IdleFacts DEF CallShapes
  <2>6. FitsCall(op, "get", i, i, NoName, 0, 0)
    BY <2>3 DEF FitsCall, PcsOf, Ops, Naming
  <2>7. call' = [call EXCEPT ![a] = c]
    BY <2>2
  <2> HIDE DEF c
  <2>9. FitsCall(c.op, c.pc, c.id, c.from, c.name, c.edition, c.secret)
    BY <2>5, <2>6
  <2>8. CallTypes' /\ Others(a) /\ call'[a] \in Calls /\ call'[a] = c
    BY <1>2, <2>4, <2>7, <2>9, CallBegins
  <2>. QED BY <1>2, <2>1, <2>5, <2>8 DEF Asked
<1>. QED BY <1>3, <1>4, <1>5, <1>6 DEF Asks

\* get: an answer, or the profile.
LEMMA GetsMoves ==
  ASSUME StoreTypes, NEW a \in Administrators, Gets(a)
  PROVE  /\ StoreTypes' /\ Others(a) /\ call[a].pc = "get" /\ Unlocked
         /\ \/ call'[a] = Idle
            \/ /\ Exists(profiles, call[a].from) /\ call[a].op # "delete"
               /\ call'[a] \in Calls /\ call'[a].pc = "resolve" /\ call'[a].op = call[a].op
               /\ call'[a].id = call[a].id /\ call'[a].from = call[a].from /\ call'[a].name = call[a].name
               /\ call'[a].secret = call[a].secret
               /\ call'[a].edition = IF call[a].op = "update" THEN call[a].edition
                                     ELSE profiles[call[a].from].edition
<1> SUFFICES /\ CallTypes' /\ Others(a)
             /\ \/ call'[a] = Idle
                \/ /\ Exists(profiles, call[a].from) /\ call[a].op # "delete"
                   /\ call'[a] \in Calls /\ call'[a].pc = "resolve" /\ call'[a].op = call[a].op
                   /\ call'[a].id = call[a].id /\ call'[a].from = call[a].from /\ call'[a].name = call[a].name
                   /\ call'[a].secret = call[a].secret
                   /\ call'[a].edition = IF call[a].op = "update" THEN call[a].edition
                                         ELSE profiles[call[a].from].edition
  BY DEF Gets, StoreTypes, ProfileTypes, OtherTypes, files, counters
<1>1. CallTypes /\ profiles \in Tables
  BY DEF StoreTypes, ProfileTypes
<1>2. /\ call[a].pc = "get" /\ call[a].op # "delete" /\ call[a] \in Calls /\ call[a] \in CallShapes
      /\ call[a].op # "create"
  BY CallFacts DEF Gets, PcsOf, Calls
<1> DEFINE edition == IF call[a].op = "update" THEN call[a].edition ELSE profiles[call[a].from].edition
           c == [call[a] EXCEPT !.pc = "resolve", !.edition = edition]
<1>3. CASE AnswersCall(a)
  BY <1>1, <1>3, CallAnswers
<1>4. CASE Exists(profiles, call[a].from) /\ call' = [call EXCEPT ![a] = c]
  <2>7. call[a].from \in Ids /\ call[a].edition \in Nat /\ (call[a].op = "update" => call[a].edition # 0)
    BY <1>2 DEF Calls, CallShapes, FitsCall
  <2>8. profiles[call[a].from].edition \in Nat \ {0}
    BY <1>1, <1>4, <2>7, EntryShape DEF Exists
  <2>1. call[a].from \in Ids /\ edition \in Nat /\ edition # 0
    BY <2>7, <2>8
  <2>2. c \in CallShapes
    BY <1>2, <2>1 DEF CallShapes, Pcs
  <2>3. /\ c.op = call[a].op /\ c.id = call[a].id /\ c.from = call[a].from /\ c.name = call[a].name
        /\ c.edition = edition /\ c.secret = call[a].secret /\ c.previous = call[a].previous
        /\ c.pc = "resolve"
    BY <1>2 DEF CallShapes
  <2>4. FitsCall(call[a].op, "resolve", call[a].id, call[a].from, call[a].name, edition, call[a].secret)
    BY <1>2, <2>1 DEF Calls, FitsCall, PcsOf, Ops
  <2> HIDE DEF c
  <2>5. c \in Calls
    BY <2>2, <2>3, <2>4 DEF Calls
  <2>6. CallTypes' /\ Others(a) /\ call'[a] = c
    BY <1>1, <1>4, <2>5, CallMoves
  <2>. QED BY <1>2, <1>4, <2>3, <2>5, <2>6
<1>. QED BY <1>3, <1>4 DEF Gets

\* resolve: an answer, or the secret.
LEMMA ResolvesMoves ==
  ASSUME StoreTypes, NEW a \in Administrators, Resolves(a)
  PROVE  /\ StoreTypes' /\ Others(a) /\ call[a].pc = "resolve"
         /\ \/ call'[a] = Idle
            \/ /\ secrets[call[a].from] # 0
               /\ call'[a] \in Calls /\ call'[a].op = call[a].op
               /\ call'[a].pc = CASE call[a].op = "test" -> "testing" [] call[a].op = "explore" -> "insert"
                                  [] OTHER -> "store"
               /\ call'[a].id = call[a].id /\ call'[a].from = call[a].from /\ call'[a].name = call[a].name
               /\ call'[a].edition = call[a].edition /\ call'[a].previous = secrets[call[a].from]
               /\ call'[a].secret = IF call[a].op = "duplicate" THEN secrets[call[a].from] ELSE call[a].secret
<1> SUFFICES /\ CallTypes' /\ Others(a) /\ call[a].pc = "resolve"
             /\ \/ call'[a] = Idle
                \/ /\ secrets[call[a].from] # 0
                   /\ call'[a] \in Calls /\ call'[a].op = call[a].op
                   /\ call'[a].pc = CASE call[a].op = "test" -> "testing" [] call[a].op = "explore" -> "insert"
                                      [] OTHER -> "store"
                   /\ call'[a].id = call[a].id /\ call'[a].from = call[a].from /\ call'[a].name = call[a].name
                   /\ call'[a].edition = call[a].edition /\ call'[a].previous = secrets[call[a].from]
                   /\ call'[a].secret = IF call[a].op = "duplicate" THEN secrets[call[a].from]
                                        ELSE call[a].secret
  BY DEF Resolves, StoreTypes, ProfileTypes, OtherTypes, files, counters
<1>1. CallTypes /\ secrets \in Editions
  BY DEF StoreTypes, ProfileTypes
<1>2. /\ call[a].pc = "resolve" /\ call[a] \in Calls /\ call[a] \in CallShapes
      /\ call[a].op \in {"duplicate", "update", "test", "explore"}
  BY CallFacts DEF Resolves, PcsOf, Ops, Calls
<1> DEFINE next == [duplicate |-> "store", update |-> "store", test |-> "testing", explore |-> "insert"]
           pc == CASE call[a].op = "test" -> "testing" [] call[a].op = "explore" -> "insert" [] OTHER -> "store"
           secret == IF call[a].op = "duplicate" THEN secrets[call[a].from] ELSE call[a].secret
           c == [call[a] EXCEPT !.pc = next[call[a].op], !.secret = secret, !.previous = secrets[call[a].from]]
<1>3. CASE AnswersCall(a)
  BY <1>1, <1>2, <1>3, CallAnswers
<1>4. CASE secrets[call[a].from] # 0 /\ call' = [call EXCEPT ![a] = c]
  <2>1. call[a].from \in Ids /\ secrets[call[a].from] \in Nat /\ secret \in Nat
    BY <1>1, <1>2, <1>4 DEF Calls, CallShapes, FitsCall, Editions
  <2>2. next[call[a].op] = pc
    BY <1>2
  <2>3. c \in CallShapes
    BY <1>2, <2>1, <2>2 DEF CallShapes, Pcs
  <2>4. /\ c.op = call[a].op /\ c.id = call[a].id /\ c.from = call[a].from /\ c.name = call[a].name
        /\ c.edition = call[a].edition /\ c.secret = secret /\ c.previous = secrets[call[a].from]
        /\ c.pc = pc
    BY <1>2, <2>2 DEF CallShapes
  <2>5. FitsCall(call[a].op, pc, call[a].id, call[a].from, call[a].name, call[a].edition, secret)
    BY <1>2, <1>4, <2>1 DEF Calls, FitsCall, PcsOf, Ops
  <2> HIDE DEF c
  <2>6. c \in Calls
    BY <2>3, <2>4, <2>5 DEF Calls
  <2>7. CallTypes' /\ Others(a) /\ call'[a] = c
    BY <1>1, <1>4, <2>6, CallMoves
  <2>. QED BY <1>2, <1>4, <2>4, <2>6, <2>7
<1>. QED BY <1>3, <1>4 DEF Resolves

----------------------------------------------------------------------------

\* The secret of i became value, in memory and on the disk.
Kept(i, value) ==
  /\ secrets' = [secrets EXCEPT ![i] = value] /\ secrets'[i] = value
  /\ \A j \in Ids \ {i} : secrets'[j] = secrets[j]
  /\ file'.secrets = secrets' /\ file'.key = masterKey

LEMMA Keeps ==
  ASSUME ProfileTypes, NEW i \in Ids, NEW value \in Nat, KeepsSecret(i, value)
  PROVE  /\ Kept(i, value) /\ secrets' \in Editions
         /\ file' \in [version : 0 .. 2, key : Keys, secrets : Editions] /\ faults' \in Nat
<1>1. secrets' = [secrets EXCEPT ![i] = value] /\ secrets' \in Editions /\ secrets'[i] = value
  BY DEF KeepsSecret, ProfileTypes, Editions
<1>2. \A j \in Ids \ {i} : secrets'[j] = secrets[j]
  BY <1>1 DEF ProfileTypes, Editions
<1>3. file' = [version |-> 2, key |-> masterKey, secrets |-> secrets'] /\ faults' = faults
  BY DEF KeepsSecret, Writes
<1>. QED BY <1>1, <1>2, <1>3 DEF Kept, ProfileTypes

LEMMA KeepsNot ==
  ASSUME ProfileTypes, KeepFails
  PROVE  faults' \in Nat /\ secrets' = secrets /\ file' = file
BY DEF KeepFails, WriteFails, ProfileTypes

LEMMA StoresMoves ==
  ASSUME StoreTypes, NEW a \in Administrators, Stores(a)
  PROVE  /\ StoreTypes' /\ Others(a) /\ call[a].pc = "store"
         /\ \/ /\ Kept(call[a].id, call[a].secret) /\ SameCall(a) /\ call'[a] \in Calls
               /\ call'[a].pc = IF call[a].op = "update" THEN "exists" ELSE "upsert"
            \/ call'[a] = Idle /\ secrets' = secrets /\ file' = file
<1>1. call[a].pc = "store" /\ ProfileTypes /\ CallTypes
  BY DEF Stores, StoreTypes
<1>2. /\ call[a] # Idle /\ call[a].id \in Ids /\ call[a].secret \in Nat
      /\ call[a].op \in {"create", "duplicate", "update"}
  BY <1>1, CallFacts DEF PcsOf, Ops
<1>3. SUFFICES /\ secrets' \in Editions /\ file' \in [version : 0 .. 2, key : Keys, secrets : Editions]
               /\ faults' \in Nat /\ CallTypes' /\ Others(a)
               /\ \/ /\ Kept(call[a].id, call[a].secret) /\ SameCall(a) /\ call'[a] \in Calls
                     /\ call'[a].pc = IF call[a].op = "update" THEN "exists" ELSE "upsert"
                  \/ call'[a] = Idle /\ secrets' = secrets /\ file' = file
  BY <1>1 DEF Stores, StoreTypes, ProfileTypes, OtherTypes
<1>4. CASE /\ KeepsSecret(call[a].id, call[a].secret)
           /\ Goes(a, IF call[a].op = "update" THEN "exists" ELSE "upsert")
  <2>1. /\ CallTypes' /\ Others(a) /\ SameCall(a) /\ call'[a] \in Calls
        /\ call'[a].pc = IF call[a].op = "update" THEN "exists" ELSE "upsert"
    <3> DEFINE pc == IF call[a].op = "update" THEN "exists" ELSE "upsert"
    <3>1. pc \in PcsOf(call[a].op) /\ Goes(a, pc)
      BY <1>2, <1>4 DEF PcsOf
    <3> HIDE DEF pc
    <3>2. CallTypes' /\ Others(a) /\ SameCall(a) /\ call'[a].pc = pc /\ call'[a] \in Calls
      BY <1>1, <1>2, <3>1, CallMovesOn
    <3>. QED BY <3>2 DEF pc
  <2>2. /\ Kept(call[a].id, call[a].secret) /\ secrets' \in Editions
        /\ file' \in [version : 0 .. 2, key : Keys, secrets : Editions] /\ faults' \in Nat
    BY <1>1, <1>2, <1>4, Keeps
  <2>. QED BY <2>1, <2>2
<1>5. CASE KeepFails /\ AnswersCall(a)
  <2>1. faults' \in Nat /\ secrets' = secrets /\ file' = file
    BY <1>1, <1>5, KeepsNot
  <2>2. CallTypes' /\ Others(a) /\ call'[a] = Idle
    BY <1>1, <1>5, CallAnswers
  <2>. QED BY <1>1, <2>1, <2>2 DEF ProfileTypes
<1>. QED BY <1>4, <1>5 DEF Stores

LEMMA LooksMoves ==
  ASSUME StoreTypes, NEW a \in Administrators, Looks(a)
  PROVE  /\ StoreTypes' /\ Others(a) /\ call[a].pc = "exists" /\ SameCall(a) /\ call'[a] \in Calls
         /\ call'[a].pc = IF Exists(profiles, call[a].id) THEN "upsert" ELSE "undo"
<1> DEFINE pc == IF Exists(profiles, call[a].id) THEN "upsert" ELSE "undo"
<1>1. call[a].pc = "exists" /\ CallTypes /\ Goes(a, pc)
  BY DEF Looks, StoreTypes
<1>2. call[a] # Idle /\ call[a].op = "update"
  BY <1>1, CallFacts DEF PcsOf, Ops
<1>3. pc \in PcsOf(call[a].op)
  BY <1>2 DEF PcsOf
<1> HIDE DEF pc
<1>4. CallTypes' /\ Others(a) /\ SameCall(a) /\ call'[a].pc = pc /\ call'[a] \in Calls
  BY <1>1, <1>2, <1>3, CallMovesOn
<1>. QED BY <1>1, <1>4 DEF pc, Looks, StoreTypes, ProfileTypes, OtherTypes, files, counters

\* The table that names the call's profile.
Named(a) == [profiles EXCEPT ![call[a].id] = [name |-> call[a].name, edition |-> call[a].edition]]

LEMMA UpsertsMoves ==
  ASSUME StoreTypes, NEW a \in Administrators, Upserts(a)
  PROVE  /\ StoreTypes' /\ Others(a) /\ call[a].pc = "upsert" /\ SameCall(a) /\ call'[a] \in Calls /\ Unlocked
         /\ \/ /\ call'[a].pc = "status" /\ profiles' = Named(a) /\ saved' = profiles' /\ ~Duplicated(call[a])
               /\ profiles'[call[a].id].name = call[a].name
               /\ profiles'[call[a].id].edition = call[a].edition
               /\ \A j \in Ids \ {call[a].id} : profiles'[j] = profiles[j]
            \/ call'[a].pc = "undo" /\ profiles' = profiles /\ saved' = saved
<1>1. call[a].pc = "upsert" /\ ProfileTypes /\ CallTypes /\ Unlocked
  BY DEF Upserts, StoreTypes
<1>2. /\ call[a] # Idle /\ call[a].id \in Ids /\ call[a].edition \in Nat \ {0} /\ call[a].name \in Names
      /\ call[a].op \in {"create", "duplicate", "update"}
  BY <1>1, CallFacts DEF PcsOf, Ops, Naming
<1>3. /\ Named(a) \in Tables /\ Named(a)[call[a].id].name = call[a].name
      /\ Named(a)[call[a].id].edition = call[a].edition
      /\ \A j \in Ids \ {call[a].id} : Named(a)[j] = profiles[j]
  <2> DEFINE e == [name |-> call[a].name, edition |-> call[a].edition]
  <2>1. e \in Entries /\ e.name = call[a].name /\ e.edition = call[a].edition
    BY <1>2 DEF Entries
  <2>2. Named(a) = [profiles EXCEPT ![call[a].id] = e] /\ profiles \in Tables
    BY <1>1 DEF Named, ProfileTypes
  <2> HIDE DEF e
  <2> DEFINE t == [profiles EXCEPT ![call[a].id] = e]
  <2>3. t \in Tables /\ t[call[a].id] = e /\ \A j \in Ids \ {call[a].id} : t[j] = profiles[j]
    BY <1>2, <2>1, <2>2 DEF Tables
  <2> HIDE DEF t
  <2>. QED BY <2>1, <2>2, <2>3 DEF t
<1>4. \A pc \in {"status", "undo"} : Goes(a, pc) =>
         CallTypes' /\ Others(a) /\ SameCall(a) /\ call'[a].pc = pc /\ call'[a] \in Calls
  <2>1. "status" \in PcsOf(call[a].op) /\ "undo" \in PcsOf(call[a].op)
    BY <1>2 DEF PcsOf
  <2>2. Goes(a, "status") =>
         CallTypes' /\ Others(a) /\ SameCall(a) /\ call'[a].pc = "status" /\ call'[a] \in Calls
    BY <1>1, <1>2, <2>1, CallMovesOn
  <2>3. Goes(a, "undo") =>
         CallTypes' /\ Others(a) /\ SameCall(a) /\ call'[a].pc = "undo" /\ call'[a] \in Calls
    BY <1>1, <1>2, <2>1, CallMovesOn
  <2>. QED BY <2>2, <2>3
<1>5. SUFFICES /\ CallTypes' /\ Others(a) /\ SameCall(a) /\ call'[a] \in Calls
               /\ profiles' \in Tables /\ saved' \in Tables /\ faults' \in Nat
               /\ \/ /\ call'[a].pc = "status" /\ profiles' = Named(a) /\ saved' = profiles'
                     /\ ~Duplicated(call[a])
                  \/ call'[a].pc = "undo" /\ profiles' = profiles /\ saved' = saved
  BY <1>1, <1>3 DEF Upserts, StoreTypes, ProfileTypes, OtherTypes
<1>6. CASE Duplicated(call[a]) /\ Goes(a, "undo") /\ UNCHANGED <<saved, profiles, faults>>
  BY <1>1, <1>4, <1>6 DEF ProfileTypes
<1>7. CASE ~Duplicated(call[a]) /\ UpsertSaves(a, Named(a))
  <2>1. CASE Saves(Named(a)) /\ profiles' = Named(a) /\ Goes(a, "status")
    BY <1>1, <1>3, <1>4, <1>7, <2>1 DEF Saves, Writes, ProfileTypes
  <2>2. CASE WriteFails /\ UNCHANGED <<saved, profiles>> /\ Goes(a, "undo")
    BY <1>1, <1>4, <2>2 DEF WriteFails, ProfileTypes
  <2>. QED BY <1>7, <2>1, <2>2 DEF UpsertSaves
<1>. QED BY <1>6, <1>7 DEF Upserts, Named

LEMMA PublishedMoves ==
  ASSUME StoreTypes, NEW a \in Administrators, Published(a)
  PROVE  /\ StoreTypes' /\ Others(a) /\ call[a].pc = "status" /\ call'[a] = Idle
         /\ health'[call[a].id] # "none" /\ cache'[call[a].id] = 0
         /\ \A j \in Ids \ {call[a].id} : health'[j] = health[j] /\ cache'[j] = cache[j]
<1>1. call[a].pc = "status" /\ ProfileTypes /\ CallTypes /\ call[a].id \in Ids
  BY CallFacts DEF Published, StoreTypes
<1>2. CallTypes' /\ Others(a) /\ call'[a] = Idle
  BY <1>1, CallAnswers DEF Published
<1>3. /\ health' = [health EXCEPT ![call[a].id] = IF @ = "none" THEN "unknown" ELSE @]
      /\ cache' = [cache EXCEPT ![call[a].id] = 0]
  BY DEF Published
<1>4. /\ health' \in [Ids -> {"none", "unknown", "testing", "tested"}] /\ cache' \in Editions
      /\ health'[call[a].id] # "none" /\ cache'[call[a].id] = 0
      /\ \A j \in Ids \ {call[a].id} : health'[j] = health[j] /\ cache'[j] = cache[j]
  BY <1>1, <1>3 DEF ProfileTypes, Editions
<1>. QED BY <1>1, <1>2, <1>4 DEF Published, StoreTypes, ProfileTypes, OtherTypes, files, counters

LEMMA UndoesMoves ==
  ASSUME StoreTypes, NEW a \in Administrators, Undoes(a)
  PROVE  /\ StoreTypes' /\ Others(a) /\ call[a].pc = "undo" /\ call'[a] = Idle
         /\ \/ /\ Kept(call[a].id, IF call[a].op = "update" THEN call[a].previous ELSE 0)
               /\ broken' = broken
            \/ secrets' = secrets /\ file' = file /\ broken' = TRUE
<1>1. call[a].pc = "undo" /\ ProfileTypes /\ CallTypes /\ call[a].id \in Ids /\ call[a].previous \in Nat
  BY CallFacts DEF Undoes, StoreTypes
<1>2. CallTypes' /\ Others(a) /\ call'[a] = Idle
  BY <1>1, CallAnswers DEF Undoes
<1>3. SUFFICES /\ secrets' \in Editions /\ file' \in [version : 0 .. 2, key : Keys, secrets : Editions]
               /\ faults' \in Nat /\ broken' \in BOOLEAN
               /\ \/ /\ Kept(call[a].id, IF call[a].op = "update" THEN call[a].previous ELSE 0)
                     /\ broken' = broken
                  \/ secrets' = secrets /\ file' = file /\ broken' = TRUE
  BY <1>1, <1>2 DEF Undoes, StoreTypes, ProfileTypes, OtherTypes
<1> DEFINE value == IF call[a].op = "update" THEN call[a].previous ELSE 0
<1>4. CASE KeepsSecret(call[a].id, value) /\ UNCHANGED broken
  <2>1. value \in Nat
    BY <1>1
  <2> HIDE DEF value
  <2>2. /\ Kept(call[a].id, value) /\ secrets' \in Editions
        /\ file' \in [version : 0 .. 2, key : Keys, secrets : Editions] /\ faults' \in Nat
    BY <1>1, <1>4, <2>1, Keeps
  <2>. QED BY <1>1, <1>4, <2>2 DEF value, ProfileTypes
<1>5. CASE KeepFails /\ broken' = TRUE
  BY <1>1, <1>5, KeepsNot DEF ProfileTypes
<1>. QED BY <1>4, <1>5 DEF Undoes

----------------------------------------------------------------------------

\* The table without the call's profile.
Without(a) == [profiles EXCEPT ![call[a].id] = NoProfile]

LEMMA WithoutFacts ==
  ASSUME profiles \in Tables, NEW a \in Administrators, call[a].id \in Ids
  PROVE  /\ Without(a) \in Tables /\ Without(a)[call[a].id] = NoProfile
         /\ \A j \in Ids \ {call[a].id} : Without(a)[j] = profiles[j]
BY DEF Without, Tables, Entries

LEMMA DeletesMoves ==
  ASSUME StoreTypes, NEW a \in Administrators, Deletes(a)
  PROVE  /\ StoreTypes' /\ Others(a) /\ call[a].pc = "get" /\ call[a].op = "delete" /\ Unlocked
         /\ \/ /\ Exists(profiles, call[a].id) /\ secrets[call[a].id] # 0
               /\ saved' = Without(a) /\ writer' = a
               /\ SameCall(a) /\ call'[a] \in Calls /\ call'[a].pc = "remove"
            \/ call'[a] = Idle /\ saved' = saved /\ writer' = writer
<1>1. /\ call[a].pc = "get" /\ call[a].op = "delete" /\ ProfileTypes /\ CallTypes
      /\ call[a].id \in Ids /\ Unlocked /\ call[a] # Idle
  BY CallFacts DEF Deletes, StoreTypes
<1>2. SUFFICES /\ CallTypes' /\ Others(a)
               /\ saved' \in Tables /\ writer' \in Administrators \cup {NoAdmin} /\ faults' \in Nat
               /\ \/ /\ Exists(profiles, call[a].id) /\ secrets[call[a].id] # 0
                     /\ saved' = Without(a) /\ writer' = a
                     /\ SameCall(a) /\ call'[a] \in Calls /\ call'[a].pc = "remove"
                  \/ call'[a] = Idle /\ saved' = saved /\ writer' = writer
  BY <1>1 DEF Deletes, StoreTypes, ProfileTypes, OtherTypes
<1>3. AnswersCall(a) => CallTypes' /\ Others(a) /\ call'[a] = Idle
  BY <1>1, CallAnswers
<1>4. CASE /\ Exists(profiles, call[a].id) /\ secrets[call[a].id] # 0
           /\ Saves(Without(a)) /\ writer' = a /\ Goes(a, "remove")
  <2>1. "remove" \in PcsOf(call[a].op)
    BY <1>1 DEF PcsOf
  <2>2. CallTypes' /\ Others(a) /\ SameCall(a) /\ call'[a].pc = "remove" /\ call'[a] \in Calls
    BY <1>1, <1>4, <2>1, CallMovesOn
  <2>3. Without(a) \in Tables
    BY <1>1, WithoutFacts DEF ProfileTypes
  <2>. QED BY <1>1, <1>4, <2>2, <2>3 DEF Saves, Writes, ProfileTypes
<1>5. CASE WriteFails /\ AnswersCall(a) /\ UNCHANGED <<saved, writer>>
  BY <1>1, <1>3, <1>5 DEF WriteFails, ProfileTypes
<1>6. CASE AnswersCall(a) /\ UNCHANGED <<saved, writer, faults>>
  BY <1>1, <1>3, <1>6 DEF ProfileTypes
<1>. QED BY <1>4, <1>5, <1>6 DEF Deletes, Without

LEMMA RemovesMoves ==
  ASSUME StoreTypes, NEW a \in Administrators, RemovesSecret(a)
  PROVE  /\ StoreTypes' /\ Others(a) /\ call[a].pc = "remove" /\ SameCall(a) /\ call'[a] \in Calls
         /\ \/ /\ Kept(call[a].id, 0) /\ profiles' = Without(a) /\ writer' = NoAdmin
               /\ call'[a].pc = "forget"
            \/ /\ secrets' = secrets /\ file' = file /\ profiles' = profiles /\ writer' = writer
               /\ call'[a].pc = "revert"
<1>1. /\ call[a].pc = "remove" /\ ProfileTypes /\ CallTypes /\ call[a].id \in Ids /\ call[a].op = "delete"
      /\ call[a] # Idle
  BY CallFacts DEF RemovesSecret, StoreTypes, PcsOf, Ops
<1>2. SUFFICES /\ CallTypes' /\ Others(a) /\ SameCall(a) /\ call'[a] \in Calls
               /\ secrets' \in Editions /\ file' \in [version : 0 .. 2, key : Keys, secrets : Editions]
               /\ faults' \in Nat /\ profiles' \in Tables /\ writer' \in Administrators \cup {NoAdmin}
               /\ \/ /\ Kept(call[a].id, 0) /\ profiles' = Without(a) /\ writer' = NoAdmin
                     /\ call'[a].pc = "forget"
                  \/ /\ secrets' = secrets /\ file' = file /\ profiles' = profiles /\ writer' = writer
                     /\ call'[a].pc = "revert"
  BY <1>1 DEF RemovesSecret, StoreTypes, ProfileTypes, OtherTypes
<1>3. CASE KeepsSecret(call[a].id, 0) /\ profiles' = Without(a) /\ writer' = NoAdmin /\ Goes(a, "forget")
  <2>1. "forget" \in PcsOf(call[a].op)
    BY <1>1 DEF PcsOf
  <2>2. CallTypes' /\ Others(a) /\ SameCall(a) /\ call'[a].pc = "forget" /\ call'[a] \in Calls
    BY <1>1, <1>3, <2>1, CallMovesOn
  <2>3. Without(a) \in Tables
    BY <1>1, WithoutFacts DEF ProfileTypes
  <2>4. /\ Kept(call[a].id, 0) /\ secrets' \in Editions
        /\ file' \in [version : 0 .. 2, key : Keys, secrets : Editions] /\ faults' \in Nat
    BY <1>1, <1>3, Keeps
  <2>. QED BY <1>3, <2>2, <2>3, <2>4
<1>4. CASE KeepFails /\ Goes(a, "revert") /\ UNCHANGED <<profiles, writer>>
  <2>1. "revert" \in PcsOf(call[a].op)
    BY <1>1 DEF PcsOf
  <2>2. CallTypes' /\ Others(a) /\ SameCall(a) /\ call'[a].pc = "revert" /\ call'[a] \in Calls
    BY <1>1, <1>4, <2>1, CallMovesOn
  <2>. QED BY <1>1, <1>4, <2>2, KeepsNot DEF ProfileTypes
<1>. QED BY <1>3, <1>4 DEF RemovesSecret, Without

LEMMA RevertsMoves ==
  ASSUME StoreTypes, NEW a \in Administrators, Reverts(a)
  PROVE  /\ StoreTypes' /\ Others(a) /\ call[a].pc = "revert" /\ call'[a] = Idle /\ writer' = NoAdmin
         /\ \/ saved' = profiles /\ profiles' = profiles /\ broken' = broken
            \/ saved' = saved /\ profiles' = Without(a) /\ broken' = TRUE
<1>1. call[a].pc = "revert" /\ ProfileTypes /\ CallTypes /\ call[a].id \in Ids
  BY CallFacts DEF Reverts, StoreTypes
<1>2. CallTypes' /\ Others(a) /\ call'[a] = Idle /\ writer' = NoAdmin
  BY <1>1, CallAnswers DEF Reverts
<1>3. Without(a) \in Tables
  BY <1>1, WithoutFacts DEF ProfileTypes
<1>4. \/ saved' = profiles /\ profiles' = profiles /\ broken' = broken /\ faults' = faults
      \/ saved' = saved /\ profiles' = Without(a) /\ broken' = TRUE /\ faults' = faults + 1
  BY DEF Reverts, Saves, Writes, WriteFails, Without
<1>5. saved' \in Tables /\ profiles' \in Tables /\ faults' \in Nat /\ broken' \in BOOLEAN
  <2>1. saved \in Tables /\ profiles \in Tables /\ faults \in Nat /\ broken \in BOOLEAN
    BY <1>1 DEF ProfileTypes
  <2>2. CASE saved' = profiles /\ profiles' = profiles /\ broken' = broken /\ faults' = faults
    BY <2>1, <2>2
  <2>3. CASE saved' = saved /\ profiles' = Without(a) /\ broken' = TRUE /\ faults' = faults + 1
    BY <1>3, <2>1, <2>3
  <2>. QED BY <1>4, <2>2, <2>3
<1>6. StoreTypes'
  BY <1>1, <1>2, <1>5 DEF Reverts, StoreTypes, ProfileTypes, OtherTypes
<1>. QED BY <1>1, <1>2, <1>4, <1>6

LEMMA ForgetsMoves ==
  ASSUME StoreTypes, NEW a \in Administrators, Forgets(a)
  PROVE  /\ StoreTypes' /\ Others(a) /\ call[a].pc = "forget" /\ call'[a] = Idle
         /\ health'[call[a].id] = "none" /\ cache'[call[a].id] = 0
         /\ \A j \in Ids \ {call[a].id} : health'[j] = health[j] /\ cache'[j] = cache[j]
<1>1. call[a].pc = "forget" /\ ProfileTypes /\ CallTypes /\ call[a].id \in Ids
  BY CallFacts DEF Forgets, StoreTypes
<1>2. CallTypes' /\ Others(a) /\ call'[a] = Idle
  BY <1>1, CallAnswers DEF Forgets
<1>3. /\ health' = [health EXCEPT ![call[a].id] = "none"]
      /\ cache' = [cache EXCEPT ![call[a].id] = 0]
  BY DEF Forgets
<1>4. /\ health' \in [Ids -> {"none", "unknown", "testing", "tested"}] /\ cache' \in Editions
      /\ health'[call[a].id] = "none" /\ cache'[call[a].id] = 0
      /\ \A j \in Ids \ {call[a].id} : health'[j] = health[j] /\ cache'[j] = cache[j]
  BY <1>1, <1>3 DEF ProfileTypes, Editions
<1>. QED BY <1>1, <1>2, <1>4 DEF Forgets, StoreTypes, ProfileTypes, OtherTypes, files, counters

LEMMA TestsMoves ==
  ASSUME StoreTypes, NEW a \in Administrators, Tests(a)
  PROVE  /\ StoreTypes' /\ Others(a) /\ call[a].pc \in {"testing", "result"}
         /\ \/ call[a].pc = "testing" /\ SameCall(a) /\ call'[a] \in Calls /\ call'[a].pc = "result"
            \/ call'[a] = Idle
         /\ health'[call[a].id] # "none"
         /\ \A j \in Ids \ {call[a].id} : health'[j] = health[j]
<1>1. call[a].pc \in {"testing", "result"} /\ ProfileTypes /\ CallTypes
  BY DEF Tests, Testing, Tested, StoreTypes
<1>2. call[a].id \in Ids /\ call[a] # Idle /\ "result" \in PcsOf(call[a].op)
  BY <1>1, CallFacts DEF PcsOf, Ops
<1>3. /\ CallTypes' /\ Others(a)
      /\ \/ call[a].pc = "testing" /\ SameCall(a) /\ call'[a] \in Calls /\ call'[a].pc = "result"
         \/ call'[a] = Idle
  <2>1. CASE call[a].pc = "testing" /\ Goes(a, "result")
    <3>1. CallTypes' /\ Others(a) /\ SameCall(a) /\ call'[a].pc = "result" /\ call'[a] \in Calls
      BY <1>1, <1>2, <2>1, CallMovesOn
    <3>. QED BY <2>1, <3>1
  <2>2. CASE AnswersCall(a)
    BY <1>1, <2>2, CallAnswers
  <2>. QED BY <2>1, <2>2 DEF Tests, Testing, Tested
<1>4. \E h \in {"testing", "tested"} : health' = [health EXCEPT ![call[a].id] = h]
  BY DEF Tests, Testing, Tested
<1>5. /\ health' \in [Ids -> {"none", "unknown", "testing", "tested"}]
      /\ health'[call[a].id] # "none"
      /\ \A j \in Ids \ {call[a].id} : health'[j] = health[j]
  BY <1>1, <1>2, <1>4 DEF ProfileTypes
<1>. QED BY <1>1, <1>3, <1>5 DEF Tests, StoreTypes, ProfileTypes, OtherTypes, files, counters

LEMMA ExploresMoves ==
  ASSUME StoreTypes, NEW a \in Administrators, Explores(a)
  PROVE  /\ StoreTypes' /\ Others(a) /\ call[a].pc = "insert" /\ call'[a] = Idle /\ call[a].op = "explore"
         /\ cache'[call[a].id] \in {call[a].edition, cache[call[a].id]}
         /\ \A j \in Ids \ {call[a].id} : cache'[j] = cache[j]
<1>1. /\ call[a].pc = "insert" /\ ProfileTypes /\ CallTypes /\ call[a].id \in Ids /\ call[a].edition \in Nat
      /\ call[a].op = "explore"
  BY CallFacts DEF Explores, StoreTypes, PcsOf, Ops
<1>2. CallTypes' /\ Others(a) /\ call'[a] = Idle
  BY <1>1, CallAnswers DEF Explores
<1>3. PICK answer \in {call[a].edition, cache[call[a].id]} : cache' = [cache EXCEPT ![call[a].id] = answer]
  BY DEF Explores
<1>4. /\ cache' \in Editions /\ cache'[call[a].id] \in {call[a].edition, cache[call[a].id]}
      /\ \A j \in Ids \ {call[a].id} : cache'[j] = cache[j]
  BY <1>1, <1>3 DEF ProfileTypes, Editions
<1>. QED BY <1>1, <1>2, <1>4 DEF Explores, StoreTypes, ProfileTypes, OtherTypes, files, counters

----------------------------------------------------------------------------
(* The server, the key and the flow. *)

LEMMA CacheExpiresTypes ==
  ASSUME StoreTypes, NEW i \in Ids, CacheExpires(i)
  PROVE  StoreTypes' /\ cache'[i] = 0 /\ \A j \in Ids \ {i} : cache'[j] = cache[j]
<1>1. cache' \in Editions /\ cache'[i] = 0 /\ \A j \in Ids \ {i} : cache'[j] = cache[j]
  BY DEF CacheExpires, StoreTypes, ProfileTypes, Editions
<1>. QED BY <1>1 DEF CacheExpires, StoreTypes, ProfileTypes, CallTypes, OtherTypes, files, counters

LEMMA ServerStartsMoves ==
  ASSUME StoreTypes, ServerStarts
  PROVE  /\ StoreTypes' /\ ~up /\ ("up" \notin served.rotate => cli.pc = "idle")
         /\ file'.secrets = file.secrets /\ file'.key = file.key
         /\ \/ /\ up' /\ profiles' = saved /\ secrets' = file.secrets /\ masterKey' = envKey
               /\ \A i \in Ids : (health'[i] # "none" <=> Exists(saved, i)) /\ cache'[i] = 0
            \/ ~up' /\ profiles' = profiles /\ secrets' = secrets /\ masterKey' = masterKey
<1>1. ProfileTypes /\ ~up /\ ("up" \notin served.rotate => cli.pc = "idle") /\ saved' = saved
  BY DEF ServerStarts, StoreTypes
<1>2. /\ file' \in [version : 0 .. 2, key : Keys, secrets : Editions] /\ faults' \in Nat /\ up' \in BOOLEAN
      /\ file'.secrets = file.secrets /\ file'.key = file.key
  <2>1. CASE file.version = 1 /\ Migrates
    <3>1. CASE Writes /\ file' = [file EXCEPT !.version = 2] /\ up' = TRUE
      BY <1>1, <3>1 DEF Writes, ProfileTypes
    <3>2. CASE WriteFails /\ UNCHANGED <<file, up>>
      BY <1>1, <3>2 DEF WriteFails, ProfileTypes
    <3>. QED BY <2>1, <3>1, <3>2 DEF Migrates
  <2>2. CASE Writes /\ UNCHANGED file /\ up' = TRUE
    BY <1>1, <2>2 DEF Writes, ProfileTypes
  <2>. QED BY <2>1, <2>2 DEF ServerStarts
<1>3. CASE up'
  <2>1. OpensFiles
    BY <1>3 DEF ServerStarts
  <2>2. /\ profiles' = saved /\ secrets' = file.secrets /\ masterKey' = envKey
        /\ health' \in [Ids -> {"none", "unknown", "testing", "tested"}] /\ cache' \in Editions
        /\ \A i \in Ids : (health'[i] # "none" <=> Exists(saved, i)) /\ cache'[i] = 0
    BY <2>1, EmptyFacts DEF OpensFiles
  <2>. QED BY <1>1, <1>2, <1>3, <2>2 DEF ServerStarts, StoreTypes, ProfileTypes, CallTypes, OtherTypes
<1>4. CASE ~up'
  <2>1. UNCHANGED <<profiles, secrets, masterKey, health, cache>>
    BY <1>4 DEF ServerStarts
  <2>. QED BY <1>1, <1>2, <1>4, <2>1 DEF ServerStarts, StoreTypes, ProfileTypes, CallTypes, OtherTypes
<1>. QED BY <1>3, <1>4

LEMMA CrashesMoves ==
  ASSUME StoreTypes, Crashes
  PROVE  /\ StoreTypes' /\ up /\ ~up' /\ Quiet' /\ Unlocked' /\ profiles' = NoProfiles
         /\ client'.pc = "idle" /\ broken' = (broken \/ ~Quiet)
<1>1. /\ up /\ up' = FALSE /\ profiles' = NoProfiles /\ secrets' = NoSecrets /\ cache' = NoSecrets
      /\ health' = [i \in Ids |-> "none"] /\ writer' = NoAdmin /\ broken' = (broken \/ ~Quiet)
      /\ call' = [a \in Administrators |-> Idle]
  BY DEF Crashes
<1>2. /\ client' \in [pc : {"idle", "secrets", "resolve", "connect", "connected", "failed"}, deploys : Nat,
                 profiles : Tables, secrets : Editions, overlap : BOOLEAN,
                 endpoint : Nat, credentials : Nat, attempt : Nat]
      /\ client'.pc = "idle"
  BY EmptyFacts DEF Crashes, StoreTypes, OtherTypes
<1>3. crashes' \in Nat /\ broken' \in BOOLEAN
  BY <1>1 DEF Crashes, StoreTypes, ProfileTypes
<1>4. Quiet' /\ Unlocked' /\ CallTypes'
  BY <1>1 DEF Quiet, Unlocked, CallTypes
<1>5. /\ profiles' \in Tables /\ secrets' \in Editions /\ cache' \in Editions
      /\ health' \in [Ids -> {"none", "unknown", "testing", "tested"}]
      /\ writer' \in Administrators \cup {NoAdmin}
  BY <1>1, EmptyFacts
<1>6. OtherTypes' /\ UNCHANGED <<served, masterKey, saved, file, envKey, made, edits, faults>>
  BY <1>2 DEF Crashes, StoreTypes, OtherTypes, files
<1>7. ProfileTypes'
  BY <1>1, <1>3, <1>5, <1>6 DEF StoreTypes, ProfileTypes
<1>. QED BY <1>1, <1>2, <1>4, <1>6, <1>7 DEF StoreTypes

LEMMA RotateTypes ==
  ASSUME StoreTypes, RotateOpens \/ RotateWrites \/ OperatorSetsKey
  PROVE  StoreTypes'
<1>1. CASE RotateOpens
  <2>1. cli' \in [pc : {"idle", "opened", "written"}, done : BOOLEAN, secrets : Editions]
    BY <1>1 DEF RotateOpens, StoreTypes, ProfileTypes, OtherTypes
  <2>. QED BY <1>1, <2>1 DEF RotateOpens, StoreTypes, ProfileTypes, CallTypes, OtherTypes, server, files, counters
<1>2. CASE RotateWrites
  <2>1. /\ cli' \in [pc : {"idle", "opened", "written"}, done : BOOLEAN, secrets : Editions]
        /\ file' \in [version : 0 .. 2, key : Keys, secrets : Editions] /\ faults' \in Nat
    <3>1. /\ cli \in [pc : {"idle", "opened", "written"}, done : BOOLEAN, secrets : Editions]
          /\ file \in [version : 0 .. 2, key : Keys, secrets : Editions] /\ faults \in Nat
      BY DEF StoreTypes, ProfileTypes, OtherTypes
    <3>2. CASE /\ Writes /\ file' = [version |-> 2, key |-> "new", secrets |-> cli.secrets]
               /\ cli' = [cli EXCEPT !.pc = "written"]
      BY <3>1, <3>2 DEF Writes, Keys
    <3>3. CASE WriteFails /\ UNCHANGED file /\ cli' = [cli EXCEPT !.pc = "idle", !.secrets = NoSecrets]
      <4>1. faults' \in Nat /\ file' = file
        BY <3>1, <3>3 DEF WriteFails
      <4>2. cli' \in [pc : {"idle", "opened", "written"}, done : BOOLEAN, secrets : Editions]
        BY <3>1, <3>3, EmptyFacts
      <4>. QED BY <3>1, <4>1, <4>2
    <3>. QED BY <1>2, <3>2, <3>3 DEF RotateWrites
  <2>. QED BY <1>2, <2>1 DEF RotateWrites, StoreTypes, ProfileTypes, CallTypes, OtherTypes, server
<1>3. CASE OperatorSetsKey
  <2>1. /\ cli' \in [pc : {"idle", "opened", "written"}, done : BOOLEAN, secrets : Editions]
        /\ envKey' \in Keys
    BY <1>3, EmptyFacts DEF OperatorSetsKey, Keys
  <2>. QED BY <1>3, <2>1 DEF OperatorSetsKey, StoreTypes, ProfileTypes, CallTypes, OtherTypes, server, files,
              counters
<1>. QED BY <1>1, <1>2, <1>3

Clients == [pc : {"idle", "secrets", "resolve", "connect", "connected", "failed"}, deploys : Nat,
            profiles : Tables, secrets : Editions, overlap : BOOLEAN,
            endpoint : Nat, credentials : Nat, attempt : Nat]

\* A step of the flow leaves everything else.
FlowStep == FlowLoadsProfiles \/ FlowOpensSecrets \/ FlowResolves \/ FlowBuilds

LEMMA FlowMoves ==
  ASSUME StoreTypes, FlowStep
  PROVE  /\ StoreTypes' /\ UNCHANGED <<served, server, files, envKey, cli, counters>>
         /\ client'.pc # "idle"
         /\ \/ client'.pc \in {"secrets", "failed"}
            \/ /\ client.pc = "secrets" /\ client'.pc = "resolve" /\ client'.profiles = client.profiles
               /\ client'.secrets = file.secrets /\ client'.overlap = Overlap
            \/ /\ client.pc = "resolve" /\ client'.pc = "connect" /\ client'.overlap = client.overlap
               /\ \E i \in Ids : /\ client'.endpoint = client.profiles[i].edition
                                 /\ client'.credentials = client.secrets[i]
            \/ /\ client.pc = "connect" /\ client'.pc \in {"connect", "connected"}
               /\ client'.overlap = client.overlap
               /\ client'.endpoint = client.endpoint /\ client'.credentials = client.credentials
<1>1. ProfileTypes /\ client \in Clients
  BY DEF StoreTypes, OtherTypes, Clients
<1>2. UNCHANGED <<served, server, files, envKey, cli, counters>>
  BY DEF FlowStep, FlowLoadsProfiles, FlowOpensSecrets, FlowResolves, FlowBuilds
<1>3. SUFFICES /\ client' \in Clients /\ client'.pc # "idle"
               /\ \/ client'.pc \in {"secrets", "failed"}
                  \/ /\ client.pc = "secrets" /\ client'.pc = "resolve" /\ client'.profiles = client.profiles
                     /\ client'.secrets = file.secrets /\ client'.overlap = Overlap
                  \/ /\ client.pc = "resolve" /\ client'.pc = "connect" /\ client'.overlap = client.overlap
                     /\ \E i \in Ids : /\ client'.endpoint = client.profiles[i].edition
                                       /\ client'.credentials = client.secrets[i]
                  \/ /\ client.pc = "connect" /\ client'.pc \in {"connect", "connected"}
                     /\ client'.overlap = client.overlap
                     /\ client'.endpoint = client.endpoint /\ client'.credentials = client.credentials
  <2>1. StoreTypes'
    BY <1>2, <1>3 DEF StoreTypes, ProfileTypes, CallTypes, OtherTypes, Clients, server, files, counters
  <2>. QED BY <1>2, <1>3, <2>1
<1>4. CASE FlowLoadsProfiles
  <2>1. saved \in Tables /\ Quiet \in BOOLEAN
    BY <1>1 DEF ProfileTypes, Quiet
  <2>2. PICK loads \in Nat, overlap \in BOOLEAN :
          client' = [client EXCEPT !.pc = "secrets", !.deploys = loads, !.profiles = saved,
                            !.secrets = NoSecrets, !.overlap = overlap,
                            !.endpoint = 0, !.credentials = 0, !.attempt = 0]
    <3> DEFINE loads == client.deploys + 1
               overlap == ~Quiet
    <3>1. loads \in Nat /\ overlap \in BOOLEAN
      BY <1>1, <2>1 DEF Clients
    <3>2. client' = [client EXCEPT !.pc = "secrets", !.deploys = loads, !.profiles = saved,
                            !.secrets = NoSecrets, !.overlap = overlap,
                            !.endpoint = 0, !.credentials = 0, !.attempt = 0]
      BY <1>4 DEF FlowLoadsProfiles
    <3> HIDE DEF loads, overlap
    <3>. QED BY <3>1, <3>2
  <2>3. client'.pc = "secrets"
    BY <1>1, <2>2 DEF Clients
  <2>4. client' \in Clients
    BY <1>1, <2>1, <2>2, EmptyFacts DEF Clients
  <2>. QED BY <2>3, <2>4
<1>5. CASE FlowOpensSecrets
  <2>1. Overlap \in BOOLEAN
    BY <1>1 DEF Overlap, Clients, Quiet
  <2>. QED BY <1>1, <1>5, <2>1, EmptyFacts DEF FlowOpensSecrets, Clients, ProfileTypes
<1>6. CASE FlowResolves
  <2>1. CASE client' = [client EXCEPT !.pc = "failed", !.profiles = NoProfiles, !.secrets = NoSecrets]
    BY <1>1, <2>1, EmptyFacts DEF Clients
  <2>2. CASE \E i \in Ids : client' = [client EXCEPT !.pc = "connect", !.attempt = 1,
                                       !.endpoint = client.profiles[i].edition,
                                       !.credentials = client.secrets[i]]
    <3>1. PICK i \in Ids : client' = [client EXCEPT !.pc = "connect", !.attempt = 1,
                                       !.endpoint = client.profiles[i].edition,
                                       !.credentials = client.secrets[i]]
      BY <2>2
    <3>2. client.profiles \in Tables /\ client.secrets \in Editions
      BY <1>1 DEF Clients
    <3>3. client.profiles[i].edition \in Nat /\ client.secrets[i] \in Nat
      BY <3>2, EntryShape DEF Editions
    <3>. QED BY <1>1, <1>6, <3>1, <3>3 DEF Clients, FlowResolves
  <2>. QED BY <1>6, <2>1, <2>2 DEF FlowResolves
<1>7. CASE FlowBuilds
  <2>1. CASE FlowConnects
    BY <1>1, <2>1, EmptyFacts DEF FlowConnects, Forgotten, Clients
  <2>2. CASE FlowRetries
    BY <1>1, <2>2 DEF FlowRetries, Clients
  <2>3. CASE FlowFails
    BY <1>1, <2>3, EmptyFacts DEF FlowFails, Forgotten, Clients
  <2>. QED BY <1>7, <2>1, <2>2, <2>3 DEF FlowBuilds
<1>. QED BY <1>4, <1>5, <1>6, <1>7 DEF FlowStep

----------------------------------------------------------------------------

LEMMA StoreTypesInit == ConnectionsInit => StoreTypes
<1> SUFFICES ASSUME ConnectionsInit PROVE StoreTypes
  OBVIOUS
<1>1. /\ served \in ServerUsages /\ up \in BOOLEAN /\ profiles \in Tables /\ secrets \in Editions
      /\ cache \in Editions /\ health \in [Ids -> {"none", "unknown", "testing", "tested"}]
      /\ masterKey \in Keys /\ envKey \in Keys /\ writer \in Administrators \cup {NoAdmin}
      /\ faults \in Nat /\ crashes \in Nat /\ broken \in BOOLEAN
  BY EmptyFacts DEF ConnectionsInit, Keys
<1>2. /\ saved \in Tables /\ file \in [version : 0 .. 2, key : Keys, secrets : Editions]
      /\ made \in 0 .. MaxCreates /\ edits \in Nat
  <2>1. CASE saved = NoProfiles /\ file = NoSecretsFile /\ made = 0 /\ edits = 0
    BY <2>1, EmptyFacts, StoreFacts DEF NoSecretsFile, Keys
  <2>2. CASE /\ \E n \in Names : saved = [NoProfiles EXCEPT ![1] = [name |-> n, edition |-> 1]]
             /\ file = [version |-> 1, key |-> "old", secrets |-> [NoSecrets EXCEPT ![1] = 1]]
             /\ made = 1 /\ edits = 1
    <3>1. PICK n \in Names : saved = [NoProfiles EXCEPT ![1] = [name |-> n, edition |-> 1]]
      BY <2>2
    <3>2. [name |-> n, edition |-> 1] \in Entries
      BY DEF Entries
    <3>3. saved \in Tables
      BY <3>1, <3>2, EmptyFacts DEF Tables
    <3>4. [NoSecrets EXCEPT ![1] = 1] \in Editions
      BY EmptyFacts DEF Editions
    <3>. QED BY <2>2, <3>3, <3>4, StoreFacts DEF Keys
  <2>. QED BY <2>1, <2>2 DEF ConnectionsInit
<1>3. CallTypes /\ OtherTypes
  BY EmptyFacts DEF ConnectionsInit, CallTypes, OtherTypes
<1>. QED BY <1>1, <1>2, <1>3 DEF StoreTypes, ProfileTypes

LEMMA StoreTypesStep ==
  ASSUME StoreTypes, [ConnectionsNext]_connectionVars
  PROVE  StoreTypes'
<1>1. CASE \E a \in Administrators :
          \/ Asks(a) \/ Gets(a) \/ Resolves(a) \/ Stores(a) \/ Looks(a) \/ Upserts(a)
          \/ Published(a) \/ Undoes(a) \/ Deletes(a) \/ RemovesSecret(a) \/ Reverts(a)
          \/ Forgets(a) \/ Tests(a) \/ Explores(a)
  BY <1>1, AsksTypes, GetsMoves, ResolvesMoves, StoresMoves, LooksMoves, UpsertsMoves, PublishedMoves,
     UndoesMoves, DeletesMoves, RemovesMoves, RevertsMoves, ForgetsMoves, TestsMoves, ExploresMoves
<1>2. CASE \E i \in Ids : CacheExpires(i)
  BY <1>2, CacheExpiresTypes
<1>3. CASE ServerStarts
  BY <1>3, ServerStartsMoves
<1>4. CASE Crashes
  BY <1>4, CrashesMoves
<1>5. CASE RotateOpens \/ RotateWrites \/ OperatorSetsKey
  BY <1>5, RotateTypes
<1>6. CASE FlowStep
  BY <1>6, FlowMoves
<1>7. CASE UNCHANGED connectionVars
  BY <1>7 DEF connectionVars, StoreTypes, ProfileTypes, CallTypes, OtherTypes, server, files, counters
<1>. QED BY <1>1, <1>2, <1>3, <1>4, <1>5, <1>6, <1>7 DEF ConnectionsNext, FlowStep

\* Type correctness of the connection store: the tables, the files, the calls,
\* the rotation and the flow keep their shapes, and a call that stores or
\* publishes has the contents to do it with (create_connection,
\* update_with_secret, delete_with_secret, duplicate).
THEOREM StoreTypeCorrect == ConnectionsSpec => []StoreTypes
BY StoreTypesInit, StoreTypesStep, PTL DEF ConnectionsSpec

----------------------------------------------------------------------------
(* The table of profiles, whatever calls interleave and whatever fails. *)

Unique(table) == \A i, j \in Ids : i # j /\ Exists(table, i) => table[i].name # table[j].name

\* A deletion that has saved the table without its profile, and holds the lock.
Deleting(c) == c.pc \in {"remove", "revert"}

TableInv ==
  /\ Unique(profiles) /\ Unique(saved)
  /\ ~up => Quiet /\ Unlocked
  /\ up /\ Unlocked => saved = profiles
  /\ ~Unlocked => /\ Deleting(call[writer])
                  /\ saved = [profiles EXCEPT ![call[writer].id] = NoProfile]
  /\ \A a \in Administrators : Deleting(call[a]) => writer = a

LEMMA CallsNeedServer ==
  ASSUME StoreTypes, TableInv, NEW a \in Administrators, call[a].pc # "idle"
  PROVE  up /\ (Unlocked => saved = profiles)
BY IdleFacts DEF TableInv, Quiet

\* A step of a call that neither changes the table nor deletes.
LEMMA TableStays ==
  ASSUME StoreTypes, TableInv, NEW a \in Administrators, Others(a), up,
         ~Deleting(call[a]), ~Deleting(call'[a]), UNCHANGED <<up, profiles, saved, writer>>
  PROVE  TableInv'
<1>1. ~Unlocked => writer \in Administrators \ {a}
  BY DEF TableInv, Unlocked, StoreTypes, ProfileTypes
<1>2. ~Unlocked => call'[writer] = call[writer]
  BY <1>1 DEF Others
<1>3. \A b \in Administrators : Deleting(call'[b]) => writer = b
  BY DEF TableInv, Others
<1>. QED BY <1>2, <1>3 DEF TableInv, Unlocked, Unique, Exists

LEMMA UniqueWithout ==
  ASSUME NEW t \in Tables, Unique(t), NEW i \in Ids
  PROVE  Unique([t EXCEPT ![i] = NoProfile])
<1> DEFINE u == [t EXCEPT ![i] = NoProfile]
<1>1. u[i] = NoProfile /\ \A j \in Ids \ {i} : u[j] = t[j]
  BY DEF Tables
<1>2. SUFFICES ASSUME NEW j \in Ids, NEW k \in Ids, j # k, Exists(u, j) PROVE u[j].name # u[k].name
  BY DEF Unique
<1> HIDE DEF u
<1>3. j # i /\ u[j] = t[j] /\ Exists(t, j)
  BY <1>1, <1>2, EmptyFacts DEF Exists
<1>4. CASE k = i
  BY <1>1, <1>3, <1>4, EntryShape, EmptyFacts, StoreFacts
<1>5. CASE k # i
  BY <1>1, <1>2, <1>3, <1>5 DEF Unique
<1>. QED BY <1>4, <1>5

LEMMA TableInvInit == ConnectionsInit => TableInv
<1> SUFFICES ASSUME ConnectionsInit PROVE TableInv
  OBVIOUS
<1>1. Unique(profiles) /\ ~up /\ Quiet /\ Unlocked /\ \A a \in Administrators : call[a] = Idle
  BY EmptyFacts DEF ConnectionsInit, Unique, Exists, Quiet, Unlocked
<1>2. Unique(saved)
  <2>1. CASE saved = NoProfiles
    BY <2>1, EmptyFacts DEF Unique, Exists
  <2>2. CASE \E n \in Names : saved = [NoProfiles EXCEPT ![1] = [name |-> n, edition |-> 1]]
    <3>1. PICK n \in Names : saved = [NoProfiles EXCEPT ![1] = [name |-> n, edition |-> 1]]
      BY <2>2
    <3>2. saved[1].name = n /\ \A i \in Ids \ {1} : saved[i] = NoProfile
      BY <3>1, EmptyFacts, StoreFacts DEF Tables
    <3>. QED BY <3>2, EmptyFacts, StoreFacts DEF Unique, Exists
  <2>. QED BY <2>1, <2>2 DEF ConnectionsInit
<1>. QED BY <1>1, <1>2, IdleFacts DEF TableInv, Deleting

LEMMA UpsertsTable ==
  ASSUME StoreTypes, TableInv, NEW a \in Administrators, Upserts(a)
  PROVE  TableInv'
<1>1. /\ Others(a) /\ call[a].pc = "upsert" /\ call'[a].pc \in {"status", "undo"} /\ Unlocked
      /\ call[a].id \in Ids /\ call[a].name \in Names
  BY UpsertsMoves, CallFacts DEF PcsOf, Ops, Naming
<1>2. up /\ saved = profiles /\ up' = up /\ writer' = writer
  BY <1>1, CallsNeedServer DEF Upserts
<1>3. CASE profiles' = profiles /\ saved' = saved
  BY <1>1, <1>2, <1>3, TableStays DEF Deleting
<1>4. CASE /\ saved' = profiles' /\ ~Duplicated(call[a]) /\ profiles'[call[a].id].name = call[a].name
           /\ \A j \in Ids \ {call[a].id} : profiles'[j] = profiles[j]
  <2>1. \A j \in Ids \ {call[a].id} : profiles'[j].name # call[a].name
    BY <1>4 DEF Duplicated
  <2>2. Unique(profiles)'
    BY <1>1, <1>4, <2>1 DEF Unique, Exists, TableInv
  <2>3. \A b \in Administrators : ~Deleting(call'[b])
    BY <1>1, StoreFacts DEF TableInv, Others, Deleting, Unlocked
  <2>. QED BY <1>1, <1>2, <1>4, <2>2, <2>3 DEF TableInv, Unlocked, Unique, Exists
<1>. QED BY <1>3, <1>4, UpsertsMoves

LEMMA DeletesTable ==
  ASSUME StoreTypes, TableInv, NEW a \in Administrators, Deletes(a)
  PROVE  TableInv'
<1>1. /\ Others(a) /\ call[a].pc = "get" /\ Unlocked /\ call[a].id \in Ids /\ profiles \in Tables
  BY DeletesMoves, CallFacts DEF StoreTypes, ProfileTypes
<1>2. up /\ saved = profiles /\ up' = up /\ profiles' = profiles
  BY <1>1, CallsNeedServer DEF Deletes
<1>3. CASE call'[a] = Idle /\ saved' = saved /\ writer' = writer
  BY <1>1, <1>2, <1>3, TableStays, IdleFacts DEF Deleting
<1>4. CASE saved' = Without(a) /\ writer' = a /\ call'[a].pc = "remove" /\ call'[a].id = call[a].id
  <2>1. Unique(saved)'
    BY <1>1, <1>4, UniqueWithout DEF TableInv, Without, Unique, Exists
  <2>2. \A b \in Administrators \ {a} : ~Deleting(call'[b])
    BY <1>1, StoreFacts DEF TableInv, Others, Unlocked
  <2>3. Deleting(call'[a]) /\ ~Unlocked' /\ saved' = [profiles' EXCEPT ![call'[a].id] = NoProfile]
    BY <1>2, <1>4, StoreFacts DEF Deleting, Unlocked, Without
  <2>. QED BY <1>2, <1>4, <2>1, <2>2, <2>3 DEF TableInv, Unlocked, Unique, Exists
<1>. QED BY <1>3, <1>4, DeletesMoves DEF SameCall

\* A deletion under way holds the lock and has its table on the disk.
LEMMA DeletingTable ==
  ASSUME StoreTypes, TableInv, NEW a \in Administrators, Deleting(call[a])
  PROVE  /\ up /\ writer = a /\ saved = Without(a) /\ Unique(Without(a)) /\ call[a].id \in Ids
         /\ call[a].op = "delete" /\ \A b \in Administrators \ {a} : ~Deleting(call[b])
<1>1. call[a].pc # "idle" /\ writer = a /\ ~Unlocked
  BY StoreFacts DEF Deleting, TableInv, Unlocked
<1>2. up /\ call[a].id \in Ids /\ call[a].op = "delete"
  BY <1>1, CallsNeedServer, CallFacts DEF Deleting, PcsOf, Ops
<1>. QED BY <1>1, <1>2 DEF TableInv, Without

LEMMA RemovesTable ==
  ASSUME StoreTypes, TableInv, NEW a \in Administrators, RemovesSecret(a)
  PROVE  TableInv'
<1>1. Others(a) /\ Deleting(call[a]) /\ up' = up /\ saved' = saved
  BY RemovesMoves DEF Deleting, RemovesSecret
<1>2. /\ up /\ writer = a /\ saved = Without(a) /\ Unique(Without(a)) /\ call[a].id \in Ids
      /\ \A b \in Administrators \ {a} : ~Deleting(call[b])
  BY <1>1, DeletingTable
<1>3. CASE profiles' = Without(a) /\ writer' = NoAdmin /\ call'[a].pc = "forget"
  <2>1. \A b \in Administrators : ~Deleting(call'[b])
    BY <1>1, <1>2, <1>3 DEF Others, Deleting
  <2>2. Unique(profiles)' /\ Unique(saved)'
    BY <1>1, <1>2, <1>3 DEF Unique, Exists
  <2>. QED BY <1>1, <1>2, <1>3, <2>1, <2>2 DEF TableInv, Unlocked
<1>4. CASE profiles' = profiles /\ writer' = writer /\ call'[a].pc = "revert" /\ call'[a].id = call[a].id
  <2>1. Deleting(call'[a]) /\ \A b \in Administrators \ {a} : ~Deleting(call'[b])
    BY <1>1, <1>2, <1>4 DEF Others, Deleting
  <2>2. Unique(profiles)' /\ Unique(saved)'
    BY <1>1, <1>4 DEF Unique, Exists, TableInv
  <2>3. saved' = [profiles' EXCEPT ![call'[a].id] = NoProfile]
    BY <1>1, <1>2, <1>4 DEF Without
  <2>4. ~Unlocked'
    BY <1>2, <1>4, StoreFacts DEF Unlocked
  <2>. QED BY <1>1, <1>2, <1>4, <2>1, <2>2, <2>3, <2>4 DEF TableInv
<1>. QED BY <1>3, <1>4, RemovesMoves DEF SameCall

LEMMA RevertsTable ==
  ASSUME StoreTypes, TableInv, NEW a \in Administrators, Reverts(a)
  PROVE  TableInv'
<1>1. Others(a) /\ Deleting(call[a]) /\ up' = up /\ call'[a] = Idle /\ writer' = NoAdmin
  BY RevertsMoves DEF Deleting, Reverts
<1>2. /\ up /\ writer = a /\ saved = Without(a) /\ Unique(Without(a)) /\ call[a].id \in Ids
      /\ \A b \in Administrators \ {a} : ~Deleting(call[b])
  BY <1>1, DeletingTable
<1>3. \A b \in Administrators : ~Deleting(call'[b])
  BY <1>1, <1>2, IdleFacts DEF Others, Deleting
<1>4. Unique(profiles)' /\ Unique(saved)' /\ saved' = profiles'
  <2>1. CASE saved' = profiles /\ profiles' = profiles
    BY <2>1 DEF Unique, Exists, TableInv
  <2>2. CASE saved' = saved /\ profiles' = Without(a)
    BY <1>2, <2>2 DEF Unique, Exists
  <2>. QED BY <2>1, <2>2, RevertsMoves
<1>. QED BY <1>1, <1>2, <1>3, <1>4 DEF TableInv, Unlocked

LEMMA ServerStartsTable ==
  ASSUME StoreTypes, TableInv, ServerStarts
  PROVE  TableInv'
<1>1. /\ ~up /\ Quiet /\ Unlocked /\ UNCHANGED <<writer, call, saved>>
      /\ \/ up' /\ profiles' = saved
         \/ ~up' /\ profiles' = profiles
  BY ServerStartsMoves DEF ServerStarts, TableInv
<1>2. Unique(profiles)' /\ Unique(saved)'
  BY <1>1 DEF TableInv, Unique, Exists
<1>3. Quiet' /\ Unlocked' /\ \A a \in Administrators : ~Deleting(call'[a])
  BY <1>1, IdleFacts DEF Quiet, Unlocked, Deleting
<1>. QED BY <1>1, <1>2, <1>3 DEF TableInv

LEMMA CrashesTable ==
  ASSUME StoreTypes, TableInv, Crashes
  PROVE  TableInv'
<1>1. ~up' /\ Quiet' /\ Unlocked' /\ profiles' = NoProfiles /\ saved' = saved
  BY CrashesMoves DEF Crashes, files
<1>2. Unique(profiles)' /\ Unique(saved)'
  BY <1>1, EmptyFacts DEF TableInv, Unique, Exists
<1>3. \A a \in Administrators : ~Deleting(call'[a])
  BY <1>1, IdleFacts DEF Quiet, Deleting
<1>. QED BY <1>1, <1>2, <1>3 DEF TableInv

\* Nothing the table, the locks or the calls are made of.
LEMMA TableFrame ==
  ASSUME TableInv, UNCHANGED <<up, profiles, saved, writer, call>>
  PROVE  TableInv'
BY DEF TableInv, Unique, Exists, Quiet, Unlocked, Deleting

LEMMA TableInvStep ==
  ASSUME StoreTypes, TableInv, [ConnectionsNext]_connectionVars
  PROVE  TableInv'
<1>1. ASSUME NEW a \in Administrators,
             \/ Gets(a) \/ Resolves(a) \/ Stores(a) \/ Looks(a) \/ Published(a) \/ Undoes(a) \/ Forgets(a)
             \/ Tests(a) \/ Explores(a)
      PROVE  TableInv'
  <2>1. /\ Others(a) /\ call[a].pc # "idle" /\ ~Deleting(call[a]) /\ ~Deleting(call'[a])
    <3>1. CASE Gets(a)
      BY <3>1, GetsMoves, IdleFacts DEF Deleting
    <3>2. CASE Resolves(a)
      BY <3>2, ResolvesMoves, IdleFacts DEF Deleting
    <3>3. CASE Stores(a)
      BY <3>3, StoresMoves, IdleFacts DEF Deleting
    <3>4. CASE Looks(a)
      BY <3>4, LooksMoves, IdleFacts DEF Deleting
    <3>5. CASE Published(a)
      BY <3>5, PublishedMoves, IdleFacts DEF Deleting
    <3>6. CASE Undoes(a)
      BY <3>6, UndoesMoves, IdleFacts DEF Deleting
    <3>7. CASE Forgets(a)
      BY <3>7, ForgetsMoves, IdleFacts DEF Deleting
    <3>8. CASE Tests(a)
      BY <3>8, TestsMoves, IdleFacts DEF Deleting
    <3>9. CASE Explores(a)
      BY <3>9, ExploresMoves, IdleFacts DEF Deleting
    <3>. QED BY <1>1, <3>1, <3>2, <3>3, <3>4, <3>5, <3>6, <3>7, <3>8, <3>9
  <2>2. UNCHANGED <<up, profiles, saved, writer>>
    BY <1>1 DEF Gets, Resolves, Stores, Looks, Published, Undoes, Forgets, Tests, Explores, files
  <2>3. up
    BY <2>1, CallsNeedServer
  <2>. QED BY <2>1, <2>2, <2>3, TableStays
<1>2. ASSUME NEW a \in Administrators, Asks(a) PROVE TableInv'
  <2>1. Others(a) /\ call[a] = Idle /\ call'[a].pc \in {"get", "store"}
    BY <1>2, AsksTypes DEF Asked
  <2>2. up /\ UNCHANGED <<up, profiles, saved, writer>>
    BY <1>2 DEF Asks, files
  <2>. QED BY <2>1, <2>2, TableStays, IdleFacts DEF Deleting
<1>3. CASE \E a \in Administrators : Upserts(a) \/ Deletes(a) \/ RemovesSecret(a) \/ Reverts(a)
  BY <1>3, UpsertsTable, DeletesTable, RemovesTable, RevertsTable
<1>4. CASE \E i \in Ids : CacheExpires(i)
  BY <1>4, TableFrame DEF CacheExpires, files
<1>5. CASE ServerStarts \/ Crashes
  BY <1>5, ServerStartsTable, CrashesTable
<1>6. CASE RotateOpens \/ RotateWrites \/ OperatorSetsKey
  BY <1>6, TableFrame DEF RotateOpens, RotateWrites, OperatorSetsKey, server, files
<1>7. CASE FlowStep
  BY <1>7, FlowMoves, TableFrame DEF server, files
<1>8. CASE UNCHANGED connectionVars
  BY <1>8, TableFrame DEF connectionVars, server, files
<1>. QED BY <1>1, <1>2, <1>3, <1>4, <1>5, <1>6, <1>7, <1>8 DEF ConnectionsNext, FlowStep

\* However the calls interleave, fail or are cut by a crash, two profiles never
\* share a name, and the table is the one the disk holds once no deletion is
\* under way: upsert and delete_with_secret check, save and change it under one
\* lock.
THEOREM TableSaved == ConnectionsSpec => []TableIsSaved
<1>1. TableInv => TableIsSaved
  BY DEF TableInv, TableIsSaved, Unique
<1>2. ConnectionsInit => StoreTypes /\ TableInv
  BY StoreTypesInit, TableInvInit
<1>3. StoreTypes /\ TableInv /\ [ConnectionsNext]_connectionVars => (StoreTypes /\ TableInv)'
  BY StoreTypesStep, TableInvStep
<1>. QED BY <1>1, <1>2, <1>3, PTL DEF ConnectionsSpec

----------------------------------------------------------------------------
(* The key, when it is rotated only while the server is stopped. *)

KeyInv ==
  "up" \notin served.rotate =>
    /\ cli.pc # "idle" => ~up /\ ~cli.done
    /\ cli.pc = "opened" => cli.secrets = file.secrets
    /\ cli.pc = "written" => file.key = "new"
    /\ cli.done => file.key = "new" /\ envKey = "new" /\ (up => masterKey = "new")
    /\ up => file.secrets = secrets

\* The steps of the calls.
CallStep(a) ==
  \/ Asks(a) \/ Gets(a) \/ Resolves(a) \/ Stores(a) \/ Looks(a) \/ Upserts(a)
  \/ Published(a) \/ Undoes(a) \/ Deletes(a) \/ RemovesSecret(a) \/ Reverts(a)
  \/ Forgets(a) \/ Tests(a) \/ Explores(a)

\* A call needs the server; it leaves the keys, the rotation and the flow alone, and
\* writes the secrets to memory and to the disk, or to neither.
LEMMA CallStepFacts ==
  ASSUME StoreTypes, TableInv, NEW a \in Administrators, CallStep(a)
  PROVE  /\ up /\ UNCHANGED <<served, up, masterKey, envKey, cli, client, crashes>> /\ Others(a)
         /\ \/ secrets' = secrets /\ file' = file
            \/ file'.secrets = secrets' /\ file'.key = masterKey
         /\ broken => broken'
<1>1. CASE Asks(a)
  BY <1>1, AsksTypes DEF Asks, files
<1>2. CASE Gets(a)
  BY <1>2, GetsMoves, CallsNeedServer DEF Gets, files, counters
<1>3. CASE Resolves(a)
  BY <1>3, ResolvesMoves, CallsNeedServer DEF Resolves, files, counters
<1>4. CASE Stores(a)
  BY <1>4, StoresMoves, CallsNeedServer DEF Stores, Kept
<1>5. CASE Looks(a)
  BY <1>5, LooksMoves, CallsNeedServer DEF Looks, files, counters
<1>6. CASE Upserts(a)
  BY <1>6, UpsertsMoves, CallsNeedServer DEF Upserts
<1>7. CASE Published(a)
  BY <1>7, PublishedMoves, CallsNeedServer DEF Published, files, counters
<1>8. CASE Undoes(a)
  <2>1. broken => broken'
    BY <1>8, UndoesMoves
  <2>2. up /\ UNCHANGED <<served, up, masterKey, envKey, cli, client, crashes>> /\ Others(a)
    BY <1>8, UndoesMoves, CallsNeedServer DEF Undoes
  <2>3. \/ secrets' = secrets /\ file' = file
        \/ file'.secrets = secrets' /\ file'.key = masterKey
    BY <1>8, UndoesMoves DEF Undoes, Kept
  <2>. QED BY <2>1, <2>2, <2>3
<1>9. CASE Deletes(a)
  BY <1>9, DeletesMoves, CallsNeedServer DEF Deletes
<1>10. CASE RemovesSecret(a)
  BY <1>10, RemovesMoves, CallsNeedServer DEF RemovesSecret, Kept
<1>11. CASE Reverts(a)
  <2>1. broken => broken'
    BY <1>11, RevertsMoves
  <2>2. up /\ UNCHANGED <<served, up, masterKey, envKey, cli, client, crashes>> /\ Others(a)
    BY <1>11, RevertsMoves, CallsNeedServer DEF Reverts
  <2>3. \/ secrets' = secrets /\ file' = file
        \/ file'.secrets = secrets' /\ file'.key = masterKey
    BY <1>11, RevertsMoves DEF Reverts
  <2>. QED BY <2>1, <2>2, <2>3
<1>12. CASE Forgets(a)
  BY <1>12, ForgetsMoves, CallsNeedServer DEF Forgets, files, counters
<1>13. CASE Tests(a)
  BY <1>13, TestsMoves, CallsNeedServer DEF Tests, files, counters
<1>14. CASE Explores(a)
  BY <1>14, ExploresMoves, CallsNeedServer DEF Explores, files, counters
<1>. QED BY <1>1, <1>2, <1>3, <1>4, <1>5, <1>6, <1>7, <1>8, <1>9, <1>10, <1>11, <1>12, <1>13, <1>14
        DEF CallStep

LEMMA KeyInvStep ==
  ASSUME StoreTypes, TableInv, KeyInv, [ConnectionsNext]_connectionVars
  PROVE  KeyInv'
<1>1. ASSUME NEW a \in Administrators, CallStep(a) PROVE KeyInv'
  BY <1>1, CallStepFacts DEF KeyInv
<1>2. CASE \E i \in Ids : CacheExpires(i)
  BY <1>2 DEF CacheExpires, KeyInv, files
<1>3. CASE ServerStarts
  BY <1>3, ServerStartsMoves DEF ServerStarts, KeyInv
<1>4. CASE Crashes
  BY <1>4 DEF Crashes, KeyInv, files
<1>5. CASE RotateOpens
  <2>1. /\ cli.pc = "idle" /\ ~cli.done /\ (up => "up" \in served.rotate)
        /\ cli' = [cli EXCEPT !.pc = "opened", !.secrets = file.secrets]
        /\ UNCHANGED <<served, up, secrets, masterKey, file, envKey>>
    BY <1>5 DEF RotateOpens, server, files
  <2>2. cli'.pc = "opened" /\ cli'.done = cli.done /\ cli'.secrets = file.secrets
    BY <2>1 DEF StoreTypes, OtherTypes
  <2>. QED BY <2>1, <2>2 DEF KeyInv
<1>6. CASE RotateWrites
  <2>1. cli.pc = "opened" /\ UNCHANGED <<served, up, secrets, masterKey, envKey>>
    BY <1>6 DEF RotateWrites, server
  <2>2. CASE /\ file' = [version |-> 2, key |-> "new", secrets |-> cli.secrets]
             /\ cli' = [cli EXCEPT !.pc = "written"]
    BY <2>1, <2>2 DEF KeyInv, StoreTypes, OtherTypes
  <2>3. CASE file' = file /\ cli' = [cli EXCEPT !.pc = "idle", !.secrets = NoSecrets]
    BY <2>1, <2>3 DEF KeyInv, StoreTypes, OtherTypes
  <2>. QED BY <1>6, <2>2, <2>3 DEF RotateWrites
<1>7. CASE OperatorSetsKey
  BY <1>7 DEF OperatorSetsKey, KeyInv, server, files
<1>8. CASE FlowStep
  BY <1>8, FlowMoves DEF KeyInv, server, files
<1>9. CASE UNCHANGED connectionVars
  BY <1>9 DEF connectionVars, KeyInv, server, files
<1>. QED BY <1>1, <1>2, <1>3, <1>4, <1>5, <1>6, <1>7, <1>8, <1>9 DEF ConnectionsNext, FlowStep, CallStep

LEMMA KeyInvInit == ConnectionsInit => KeyInv
BY DEF ConnectionsInit, KeyInv

\* A key rotated while the server is stopped opens the secrets once the operator
\* has exported it, through every later start, crash and write of the server:
\* rotate_connection_master_key writes the file before it tells the new key, and
\* a server encrypts with the key it was started with.
THEOREM RotationHolds == ConnectionsSpec => []RotationLasts
<1>1. KeyInv => RotationLasts
  BY DEF KeyInv, RotationLasts
<1>2. ConnectionsInit => StoreTypes /\ TableInv /\ KeyInv
  BY StoreTypesInit, TableInvInit, KeyInvInit
<1>3. StoreTypes /\ TableInv /\ KeyInv /\ [ConnectionsNext]_connectionVars =>
        (StoreTypes /\ TableInv /\ KeyInv)'
  BY StoreTypesStep, TableInvStep, KeyInvStep
<1>. QED BY <1>1, <1>2, <1>3, PTL DEF ConnectionsSpec

----------------------------------------------------------------------------
(* One call at a time. *)

NobodyElse(a) == \A b \in Administrators \ {a} : call[b] = Idle

AloneInv == served.serial => \A a \in Administrators : call[a] # Idle => NobodyElse(a)

LEMMA CallIsAlone ==
  ASSUME StoreTypes, TableInv, AloneInv, served.serial, NEW a \in Administrators, CallStep(a)
  PROVE  NobodyElse(a) /\ NobodyElse(a)'
<1>1. call[a] # Idle \/ Asks(a)
  <2>1. CASE Gets(a) \/ Resolves(a) \/ Stores(a) \/ Looks(a) \/ Upserts(a)
    BY <2>1, IdleFacts, GetsMoves, ResolvesMoves, StoresMoves, LooksMoves, UpsertsMoves
  <2>2. CASE Published(a) \/ Undoes(a) \/ Deletes(a) \/ RemovesSecret(a)
    BY <2>2, IdleFacts, PublishedMoves, UndoesMoves, DeletesMoves, RemovesMoves
  <2>3. CASE Reverts(a) \/ Forgets(a) \/ Tests(a) \/ Explores(a)
    BY <2>3, IdleFacts, RevertsMoves, ForgetsMoves, TestsMoves, ExploresMoves
  <2>. QED BY <2>1, <2>2, <2>3 DEF CallStep
<1>2. NobodyElse(a)
  BY <1>1 DEF AloneInv, NobodyElse, Asks, Quiet
<1>. QED BY <1>2, CallStepFacts DEF NobodyElse, Others

LEMMA AloneInvStep ==
  ASSUME StoreTypes, TableInv, AloneInv, [ConnectionsNext]_connectionVars
  PROVE  AloneInv'
<1>1. ASSUME NEW a \in Administrators, CallStep(a) PROVE AloneInv'
  BY <1>1, CallIsAlone, CallStepFacts DEF AloneInv, NobodyElse
<1>2. CASE UNCHANGED <<served, call>>
  BY <1>2 DEF AloneInv, NobodyElse
<1>3. CASE Crashes
  BY <1>3, CrashesMoves DEF AloneInv, Quiet
<1>4. CASE \/ \E i \in Ids : CacheExpires(i)
           \/ ServerStarts \/ RotateOpens \/ RotateWrites \/ OperatorSetsKey \/ FlowStep
  BY <1>2, <1>4, FlowMoves DEF CacheExpires, ServerStarts, RotateOpens, RotateWrites, OperatorSetsKey, server
<1>5. CASE UNCHANGED connectionVars
  BY <1>2, <1>5 DEF connectionVars, server
<1>. QED BY <1>1, <1>3, <1>4, <1>5 DEF ConnectionsNext, FlowStep, CallStep

LEMMA AloneInvInit == ConnectionsInit => AloneInv
BY DEF ConnectionsInit, AloneInv

\* NobodyElse, a call that is not deleting finds the table saved.
LEMMA AloneUnlocked ==
  ASSUME StoreTypes, TableInv, NEW a \in Administrators, NobodyElse(a), call[a].pc # "idle", ~Deleting(call[a])
  PROVE  Unlocked /\ saved = profiles
<1>1. \A b \in Administrators : ~Deleting(call[b])
  BY IdleFacts DEF NobodyElse, Deleting
<1>2. Unlocked
  BY <1>1 DEF TableInv, Unlocked, StoreTypes, ProfileTypes
<1>. QED BY <1>2, CallsNeedServer

----------------------------------------------------------------------------
(* One call at a time, the order of its steps keeps the secret of every     *)
(* saved profile on the disk, whatever fails and wherever it crashes.       *)

SavedResolves == \A i \in Ids : Exists(saved, i) => file.secrets[i] # 0

MadeOnly == \A i \in Ids : i > made => ~Exists(profiles, i) /\ ~Exists(saved, i)

\* What a call knows of its profile.
CallResolves(c) ==
  /\ c.pc # "idle" => c.id <= made
  /\ c.pc \in {"exists", "upsert"} \/ Deleting(c) => secrets[c.id] # 0
  /\ c.op \in {"create", "duplicate"} /\ c.pc # "status" => ~Exists(profiles, c.id)
  /\ c.op = "update" /\ c.pc \in {"store", "exists", "upsert", "undo"} => c.previous # 0

ResolveInv == OneByOne => SavedResolves /\ MadeOnly /\ \A a \in Administrators : CallResolves(call[a])

\* A step of one call, the others idle.
LEMMA ResolveOthers ==
  ASSUME NEW a \in Administrators, NobodyElse(a)', SavedResolves', MadeOnly', CallResolves(call[a])'
  PROVE  ResolveInv'
BY IdleFacts DEF NobodyElse, ResolveInv, CallResolves, Deleting

\* What a call finds.
LEMMA ResolveFinds ==
  ASSUME StoreTypes, TableInv, KeyInv, ResolveInv, OneByOne, NEW a \in Administrators, NobodyElse(a),
         call[a].pc # "idle"
  PROVE  /\ up /\ file.secrets = secrets /\ SavedResolves /\ MadeOnly /\ CallResolves(call[a])
         /\ ~Deleting(call[a]) => Unlocked /\ saved = profiles
         /\ profiles \in Tables /\ saved \in Tables /\ made \in Nat /\ Ids \subseteq Nat
BY CallsNeedServer, AloneUnlocked, StoreFacts DEF ResolveInv, OneByOne, KeyInv, StoreTypes, ProfileTypes

LEMMA AsksResolve ==
  ASSUME StoreTypes, TableInv, KeyInv, ResolveInv, OneByOne, NEW a \in Administrators, Asks(a), NobodyElse(a)'
  PROVE  ResolveInv'
<1>1. /\ call'[a] \in Calls /\ Asked(call'[a]) /\ UNCHANGED <<profiles, saved, secrets, file>>
      /\ made \in Nat /\ Ids \subseteq Nat /\ call'[a].id \in Ids
  <2>1. StoreTypes' /\ call'[a] \in Calls /\ Asked(call'[a])
    BY AsksTypes
  <2>2. call'[a].id \in Ids
    BY <2>1 DEF Calls, FitsCall
  <2>. QED BY <2>1, <2>2, StoreFacts DEF Asks, files, StoreTypes, ProfileTypes
<1>2. SavedResolves /\ MadeOnly
  BY DEF ResolveInv
<1>3. SavedResolves' /\ MadeOnly'
  <2>1. made' \in {made, made + 1}
    BY <1>1 DEF Asked
  <2>2. \A i \in Ids : i > made' => i > made
    BY <1>1, <2>1
  <2>. QED BY <1>1, <1>2, <2>2 DEF SavedResolves, MadeOnly, Exists
<1>4. CallResolves(call[a])'
  <2>1. call'[a].op \in {"create", "duplicate"} => ~Exists(profiles, call'[a].id)
    BY <1>1, <1>2 DEF MadeOnly, Asked
  <2>2. call'[a].pc = IF call'[a].op = "create" THEN "store" ELSE "get"
    BY <1>1 DEF Asked
  <2>3. call'[a].id <= made'
    BY <1>1 DEF Asked
  <2>. QED BY <1>1, <2>1, <2>2, <2>3 DEF CallResolves, Exists, Deleting
<1>. QED BY <1>3, <1>4, ResolveOthers

\* The steps that leave the table and the files.
LEMMA PassiveResolve ==
  ASSUME StoreTypes, TableInv, KeyInv, ResolveInv, OneByOne, NEW a \in Administrators, NobodyElse(a), NobodyElse(a)',
         \/ Gets(a) \/ Resolves(a) \/ Looks(a) \/ Published(a) \/ Forgets(a) \/ Tests(a) \/ Explores(a)
  PROVE  ResolveInv'
<1>1. call[a].pc # "idle" /\ UNCHANGED <<profiles, saved, secrets, file, made>>
  <2>1. call[a].pc # "idle"
    BY GetsMoves, ResolvesMoves, LooksMoves, PublishedMoves, ForgetsMoves, TestsMoves, ExploresMoves
  <2>. QED BY <2>1 DEF Gets, Resolves, Looks, Published, Forgets, Tests, Explores, files, counters
<1>2. SavedResolves' /\ MadeOnly'
  BY <1>1, ResolveFinds DEF SavedResolves, MadeOnly, Exists
<1>3. CallResolves(call[a])
  BY <1>1, ResolveFinds
<1>4. CASE call'[a] = Idle
  BY <1>2, <1>4, ResolveOthers, IdleFacts DEF CallResolves, Deleting
<1>5. CASE Gets(a)
  <2>1. CASE call'[a].pc = "resolve" /\ call'[a].op = call[a].op /\ call'[a].id = call[a].id
    <3>1. CallResolves(call[a])'
      BY <1>1, <1>3, <1>5, <2>1, GetsMoves DEF CallResolves, Deleting, Exists
    <3>. QED BY <1>2, <3>1, ResolveOthers
  <2>. QED BY <1>4, <1>5, <2>1, GetsMoves
<1>6. CASE Resolves(a)
  <2>1. CASE /\ call'[a].pc \in {"testing", "insert", "store"} /\ call'[a].op = call[a].op
             /\ call'[a].id = call[a].id /\ call'[a].previous # 0
    <3>1. CallResolves(call[a])'
      BY <1>1, <1>3, <1>6, <2>1, ResolvesMoves DEF CallResolves, Deleting, Exists
    <3>. QED BY <1>2, <3>1, ResolveOthers
  <2>. QED BY <1>4, <1>6, <2>1, ResolvesMoves
<1>7. CASE Looks(a)
  <2>1. CallResolves(call[a])'
    BY <1>1, <1>3, <1>7, LooksMoves DEF CallResolves, Deleting, Exists, SameCall
  <2>. QED BY <1>2, <2>1, ResolveOthers
<1>8. CASE Tests(a)
  <2>1. CASE call[a].pc = "testing" /\ SameCall(a) /\ call'[a].pc = "result"
    <3>1. CallResolves(call[a])'
      BY <1>1, <1>3, <1>8, <2>1 DEF CallResolves, Deleting, Exists, SameCall
    <3>. QED BY <1>2, <3>1, ResolveOthers
  <2>. QED BY <1>4, <1>8, <2>1, TestsMoves
<1>. QED BY <1>4, <1>5, <1>6, <1>7, <1>8, PublishedMoves, ForgetsMoves, ExploresMoves

LEMMA StoresResolve ==
  ASSUME StoreTypes, TableInv, KeyInv, ResolveInv, OneByOne, NEW a \in Administrators, NobodyElse(a), NobodyElse(a)',
         Stores(a)
  PROVE  ResolveInv'
<1>1. /\ call[a].pc = "store" /\ UNCHANGED <<profiles, saved, made>> /\ call[a].id \in Ids
      /\ call[a].secret # 0
  BY StoresMoves, CallFacts DEF Stores
<1>2. /\ file.secrets = secrets /\ SavedResolves /\ MadeOnly /\ CallResolves(call[a])
  BY <1>1, ResolveFinds
<1>3. MadeOnly'
  BY <1>1, <1>2 DEF MadeOnly, Exists
<1>4. CASE call'[a] = Idle /\ secrets' = secrets /\ file' = file
  <2>1. SavedResolves' /\ CallResolves(call[a])'
    BY <1>1, <1>2, <1>4, IdleFacts DEF SavedResolves, CallResolves, Deleting, Exists
  <2>. QED BY <1>3, <2>1, ResolveOthers
<1>5. CASE /\ Kept(call[a].id, call[a].secret) /\ SameCall(a)
           /\ call'[a].pc = IF call[a].op = "update" THEN "exists" ELSE "upsert"
  <2>1. SavedResolves'
    BY <1>1, <1>2, <1>5 DEF SavedResolves, Kept, Exists
  <2>2. CallResolves(call[a])'
    BY <1>1, <1>2, <1>5 DEF CallResolves, Deleting, Kept, Exists, SameCall
  <2>. QED BY <1>3, <2>1, <2>2, ResolveOthers
<1>. QED BY <1>4, <1>5, StoresMoves

LEMMA UpsertsResolve ==
  ASSUME StoreTypes, TableInv, KeyInv, ResolveInv, OneByOne, NEW a \in Administrators, NobodyElse(a), NobodyElse(a)',
         Upserts(a)
  PROVE  ResolveInv'
<1>1. /\ call[a].pc = "upsert" /\ UNCHANGED <<secrets, file, made>> /\ call[a].id \in Ids /\ SameCall(a)
  BY UpsertsMoves, CallFacts DEF Upserts
<1>2. /\ file.secrets = secrets /\ SavedResolves /\ MadeOnly /\ CallResolves(call[a]) /\ saved = profiles
      /\ made \in Nat /\ Ids \subseteq Nat
  BY <1>1, ResolveFinds DEF Deleting
<1>3. CASE call'[a].pc = "undo" /\ profiles' = profiles /\ saved' = saved
  <2>1. SavedResolves' /\ MadeOnly' /\ CallResolves(call[a])'
    BY <1>1, <1>2, <1>3 DEF SavedResolves, MadeOnly, CallResolves, Deleting, Exists, SameCall
  <2>. QED BY <2>1, ResolveOthers
<1>4. CASE /\ call'[a].pc = "status" /\ saved' = profiles'
           /\ \A j \in Ids \ {call[a].id} : profiles'[j] = profiles[j]
  <2>1. SavedResolves'
    BY <1>1, <1>2, <1>4 DEF SavedResolves, CallResolves, Exists
  <2>2. MadeOnly'
    BY <1>1, <1>2, <1>4 DEF MadeOnly, CallResolves, Exists
  <2>3. CallResolves(call[a])'
    BY <1>1, <1>2, <1>4 DEF CallResolves, Deleting, SameCall
  <2>. QED BY <2>1, <2>2, <2>3, ResolveOthers
<1>. QED BY <1>3, <1>4, UpsertsMoves

LEMMA UndoesResolve ==
  ASSUME StoreTypes, TableInv, KeyInv, ResolveInv, OneByOne, NEW a \in Administrators, NobodyElse(a), NobodyElse(a)',
         Undoes(a)
  PROVE  ResolveInv'
<1>1. /\ call[a].pc = "undo" /\ UNCHANGED <<profiles, saved, made>> /\ call[a].id \in Ids /\ call'[a] = Idle
      /\ call[a].op \in {"create", "duplicate", "update"}
  BY UndoesMoves, CallFacts DEF Undoes, PcsOf, Ops
<1>2. /\ file.secrets = secrets /\ SavedResolves /\ MadeOnly /\ CallResolves(call[a]) /\ saved = profiles
  BY <1>1, ResolveFinds DEF Deleting
<1>3. MadeOnly' /\ CallResolves(call[a])'
  BY <1>1, <1>2, IdleFacts DEF MadeOnly, CallResolves, Deleting, Exists
<1>4. SavedResolves'
  <2>1. CASE secrets' = secrets /\ file' = file
    BY <1>1, <1>2, <2>1 DEF SavedResolves, Exists
  <2>2. CASE Kept(call[a].id, IF call[a].op = "update" THEN call[a].previous ELSE 0)
    BY <1>1, <1>2, <2>2 DEF SavedResolves, CallResolves, Kept, Exists
  <2>. QED BY <2>1, <2>2, UndoesMoves
<1>. QED BY <1>3, <1>4, ResolveOthers

LEMMA DeletesResolve ==
  ASSUME StoreTypes, TableInv, KeyInv, ResolveInv, OneByOne, NEW a \in Administrators, NobodyElse(a), NobodyElse(a)',
         Deletes(a)
  PROVE  ResolveInv'
<1>1. /\ call[a].pc = "get" /\ UNCHANGED <<profiles, secrets, file, made>> /\ call[a].id \in Ids
  BY DeletesMoves, CallFacts DEF Deletes
<1>2. /\ SavedResolves /\ MadeOnly /\ CallResolves(call[a]) /\ saved = profiles /\ profiles \in Tables
  BY <1>1, ResolveFinds DEF Deleting
<1>3. CASE call'[a] = Idle /\ saved' = saved
  <2>1. SavedResolves' /\ MadeOnly' /\ CallResolves(call[a])'
    BY <1>1, <1>2, <1>3, IdleFacts DEF SavedResolves, MadeOnly, CallResolves, Deleting, Exists
  <2>. QED BY <2>1, ResolveOthers
<1>4. CASE /\ secrets[call[a].id] # 0 /\ saved' = Without(a) /\ SameCall(a) /\ call'[a].pc = "remove"
           /\ call[a].op = "delete"
  <2>1. \A i \in Ids : Exists(saved, i)' => Exists(saved, i)
    BY <1>1, <1>2, <1>4, WithoutFacts, EmptyFacts DEF Exists
  <2>2. SavedResolves' /\ MadeOnly'
    BY <1>1, <1>2, <2>1 DEF SavedResolves, MadeOnly, Exists
  <2>3. CallResolves(call[a])'
    BY <1>1, <1>2, <1>4 DEF CallResolves, Deleting, SameCall
  <2>. QED BY <2>2, <2>3, ResolveOthers
<1>. QED BY <1>3, <1>4, DeletesMoves

LEMMA RemovesResolve ==
  ASSUME StoreTypes, TableInv, KeyInv, ResolveInv, OneByOne, NEW a \in Administrators, NobodyElse(a), NobodyElse(a)',
         RemovesSecret(a)
  PROVE  ResolveInv'
<1>1. /\ call[a].pc = "remove" /\ UNCHANGED <<saved, made>> /\ call[a].id \in Ids /\ SameCall(a)
      /\ saved = Without(a) /\ call[a].op = "delete"
  BY RemovesMoves, CallFacts, DeletingTable DEF RemovesSecret, Deleting
<1>2. /\ file.secrets = secrets /\ SavedResolves /\ MadeOnly /\ CallResolves(call[a]) /\ profiles \in Tables
  BY <1>1, ResolveFinds
<1>3. saved[call[a].id] = NoProfile /\ Without(a)[call[a].id] = NoProfile
      /\ \A j \in Ids \ {call[a].id} : Without(a)[j] = profiles[j]
  BY <1>1, <1>2, WithoutFacts
<1>4. CASE /\ Kept(call[a].id, 0) /\ profiles' = Without(a) /\ call'[a].pc = "forget"
  <2>1. SavedResolves'
    BY <1>1, <1>2, <1>3, <1>4, EmptyFacts DEF SavedResolves, Kept, Exists
  <2>2. MadeOnly'
    BY <1>1, <1>2, <1>3, <1>4, EmptyFacts DEF MadeOnly, Exists
  <2>3. CallResolves(call[a])'
    BY <1>1, <1>2, <1>4 DEF CallResolves, Deleting, SameCall
  <2>. QED BY <2>1, <2>2, <2>3, ResolveOthers
<1>5. CASE secrets' = secrets /\ file' = file /\ profiles' = profiles /\ call'[a].pc = "revert"
  <2>1. SavedResolves' /\ MadeOnly'
    BY <1>1, <1>2, <1>5 DEF SavedResolves, MadeOnly, Exists
  <2>2. CallResolves(call[a])'
    BY <1>1, <1>2, <1>5 DEF CallResolves, Deleting, SameCall
  <2>. QED BY <2>1, <2>2, ResolveOthers
<1>. QED BY <1>4, <1>5, RemovesMoves

LEMMA RevertsResolve ==
  ASSUME StoreTypes, TableInv, KeyInv, ResolveInv, OneByOne, NEW a \in Administrators, NobodyElse(a), NobodyElse(a)',
         Reverts(a)
  PROVE  ResolveInv'
<1>1. /\ call[a].pc = "revert" /\ UNCHANGED <<secrets, file, made>> /\ call[a].id \in Ids /\ call'[a] = Idle
      /\ saved = Without(a)
  BY RevertsMoves, CallFacts, DeletingTable DEF Reverts, Deleting
<1>2. /\ file.secrets = secrets /\ SavedResolves /\ MadeOnly /\ CallResolves(call[a]) /\ profiles \in Tables
  BY <1>1, ResolveFinds
<1>3. Without(a)[call[a].id] = NoProfile /\ \A j \in Ids \ {call[a].id} : Without(a)[j] = profiles[j]
  BY <1>1, <1>2, WithoutFacts
<1>4. CallResolves(call[a])'
  BY <1>1, IdleFacts DEF CallResolves, Deleting
<1>5. CASE saved' = profiles /\ profiles' = profiles
  <2>1. SavedResolves'
    BY <1>1, <1>2, <1>3, <1>5 DEF SavedResolves, CallResolves, Deleting, Exists
  <2>2. MadeOnly'
    BY <1>1, <1>2, <1>5 DEF MadeOnly, Exists
  <2>. QED BY <1>4, <2>1, <2>2, ResolveOthers
<1>6. CASE saved' = saved /\ profiles' = Without(a)
  <2>1. SavedResolves'
    BY <1>1, <1>2, <1>6 DEF SavedResolves, Exists
  <2>2. MadeOnly'
    BY <1>1, <1>2, <1>3, <1>6, EmptyFacts DEF MadeOnly, Exists
  <2>. QED BY <1>4, <2>1, <2>2, ResolveOthers
<1>. QED BY <1>5, <1>6, RevertsMoves

\* Nothing it is about.
LEMMA ResolveFrame ==
  ASSUME ResolveInv, UNCHANGED <<served, profiles, saved, secrets, made, call>>, file'.secrets = file.secrets
  PROVE  ResolveInv'
BY DEF ResolveInv, OneByOne, SavedResolves, MadeOnly, CallResolves, Deleting, Exists

\* The calls are idle: while the server is stopped, and when it has crashed.
LEMMA ResolveIdle ==
  ASSUME SavedResolves', MadeOnly', Quiet'
  PROVE  ResolveInv'
BY IdleFacts DEF ResolveInv, Quiet, CallResolves, Deleting

LEMMA ResolveInvStep ==
  ASSUME StoreTypes, TableInv, KeyInv, AloneInv, ResolveInv, [ConnectionsNext]_connectionVars
  PROVE  ResolveInv'
<1>1. OneByOne' => OneByOne
  BY CallStepFacts, FlowMoves
     DEF OneByOne, ConnectionsNext, FlowStep, CallStep, CacheExpires, ServerStarts, Crashes, RotateOpens,
     RotateWrites, OperatorSetsKey, connectionVars, server
<1>2. CASE ~OneByOne
  BY <1>1, <1>2 DEF ResolveInv
<1>3. ASSUME OneByOne, NEW a \in Administrators, CallStep(a) PROVE ResolveInv'
  <2>1. NobodyElse(a) /\ NobodyElse(a)'
    BY <1>3, CallIsAlone DEF OneByOne
  <2>. QED BY <1>3, <2>1, AsksResolve, PassiveResolve, StoresResolve, UpsertsResolve, UndoesResolve,
              DeletesResolve, RemovesResolve, RevertsResolve DEF CallStep
<1>4. CASE \E i \in Ids : CacheExpires(i)
  BY <1>4, ResolveFrame DEF CacheExpires, files, counters
<1>5. ASSUME OneByOne, ServerStarts PROVE ResolveInv'
  <2>1. SavedResolves /\ MadeOnly
    BY <1>5 DEF ResolveInv
  <2>2. /\ UNCHANGED <<saved, made, call>> /\ Quiet /\ file'.secrets = file.secrets
        /\ profiles' = saved \/ profiles' = profiles
    BY <1>5, ServerStartsMoves DEF ServerStarts, TableInv
  <2>3. SavedResolves' /\ MadeOnly' /\ Quiet'
    BY <2>1, <2>2 DEF SavedResolves, MadeOnly, Quiet, Exists
  <2>. QED BY <2>3, ResolveIdle
<1>6. ASSUME OneByOne, Crashes PROVE ResolveInv'
  <2>1. SavedResolves /\ MadeOnly
    BY <1>6 DEF ResolveInv
  <2>2. /\ UNCHANGED <<saved, file, made>> /\ Quiet' /\ profiles' = NoProfiles
    BY <1>6, CrashesMoves DEF Crashes, files
  <2>3. SavedResolves' /\ MadeOnly'
    BY <2>1, <2>2, EmptyFacts DEF SavedResolves, MadeOnly, Exists
  <2>. QED BY <2>2, <2>3, ResolveIdle
<1>7. ASSUME OneByOne, RotateOpens \/ RotateWrites \/ OperatorSetsKey PROVE ResolveInv'
  <2>1. UNCHANGED <<served, profiles, saved, secrets, made, call>>
    BY <1>7 DEF RotateOpens, RotateWrites, OperatorSetsKey, server, files, counters
  <2>2. file'.secrets = file.secrets
    <3>1. CASE RotateOpens \/ OperatorSetsKey
      BY <3>1 DEF RotateOpens, OperatorSetsKey, files
    <3>2. CASE RotateWrites
      BY <1>7, <3>2 DEF RotateWrites, KeyInv, OneByOne
    <3>. QED BY <1>7, <3>1, <3>2
  <2>. QED BY <2>1, <2>2, ResolveFrame
<1>8. CASE FlowStep
  BY <1>8, FlowMoves, ResolveFrame DEF server, files, counters
<1>9. CASE UNCHANGED connectionVars
  BY <1>9, ResolveFrame DEF connectionVars, server, files, counters
<1>. QED BY <1>2, <1>3, <1>4, <1>5, <1>6, <1>7, <1>8, <1>9 DEF ConnectionsNext, FlowStep, CallStep

LEMMA ResolveInvInit == ConnectionsInit => ResolveInv
<1> SUFFICES ASSUME ConnectionsInit PROVE ResolveInv
  OBVIOUS
<1>1. Quiet /\ profiles = NoProfiles
  BY DEF ConnectionsInit, Quiet
<1>2. \A a \in Administrators : CallResolves(call[a])
  BY <1>1, IdleFacts DEF Quiet, CallResolves, Deleting
<1>3. SavedResolves /\ MadeOnly
  <2>1. CASE saved = NoProfiles
    BY <1>1, <2>1, EmptyFacts DEF SavedResolves, MadeOnly, Exists
  <2>2. CASE /\ \E n \in Names : saved = [NoProfiles EXCEPT ![1] = [name |-> n, edition |-> 1]]
             /\ file = [version |-> 1, key |-> "old", secrets |-> [NoSecrets EXCEPT ![1] = 1]] /\ made = 1
    <3>1. \A i \in Ids \ {1} : saved[i] = NoProfile
      BY <2>2, EmptyFacts DEF Tables
    <3>2. file.secrets[1] # 0
      BY <2>2, EmptyFacts, StoreFacts DEF Editions
    <3>. QED BY <1>1, <2>2, <3>1, <3>2, EmptyFacts, StoreFacts DEF SavedResolves, MadeOnly, Exists
  <2>. QED BY <2>1, <2>2 DEF ConnectionsInit
<1>. QED BY <1>2, <1>3 DEF ResolveInv

\* The invariants so far, together.
DiskInv == TableInv /\ KeyInv /\ AloneInv /\ ResolveInv

LEMMA DiskInvHolds == ConnectionsSpec => [](StoreTypes /\ DiskInv)
<1>1. ConnectionsInit => StoreTypes /\ DiskInv
  BY StoreTypesInit, TableInvInit, KeyInvInit, AloneInvInit, ResolveInvInit DEF DiskInv
<1>2. StoreTypes /\ DiskInv /\ [ConnectionsNext]_connectionVars => (StoreTypes /\ DiskInv)'
  BY StoreTypesStep, TableInvStep, KeyInvStep, AloneInvStep, ResolveInvStep DEF DiskInv
<1>. QED BY <1>1, <1>2, PTL DEF ConnectionsSpec

\* With one call at a time, every profile on the disk has its secret there too,
\* whichever write fails and wherever the server crashes: create_connection
\* and update_with_secret store the secret before the profile,
\* delete_with_secret saves the profile away before it removes the secret.
THEOREM SavedProfilesKeepSecrets == ConnectionsSpec => []SavedProfilesResolve
<1>1. ResolveInv => SavedProfilesResolve
  BY DEF ResolveInv, SavedResolves, SavedProfilesResolve
<1>. QED BY <1>1, DiskInvHolds, PTL DEF DiskInv

\* What is on the disk is the table, whole and readable at the next start
\* (connections.json and secrets.enc).
THEOREM DiskStaysWhole == ConnectionsSpec => []DiskIsWhole
BY SavedProfilesKeepSecrets, TableSaved, RotationHolds, PTL DEF DiskIsWhole

----------------------------------------------------------------------------
(* ... and leaves nothing half done, unless a roll back failed or a crash   *)
(* cut a call.                                                              *)

Whole(i) ==
  /\ secrets[i] = profiles[i].edition
  /\ health[i] # "none" <=> Exists(profiles, i)
  /\ cache[i] \in {0, profiles[i].edition}

\* What a call finds, or has changed, of its profile.
CallWhole(c) ==
  /\ c.pc \in {"get", "resolve", "store", "testing", "result", "insert"} \/ Deleting(c) => Whole(c.id)
  /\ c.pc \in {"resolve", "testing", "result", "insert"} \/ Deleting(c) => Exists(profiles, c.from)
  /\ c.pc \in {"resolve", "insert"} /\ c.op # "update" => c.edition = profiles[c.from].edition
  /\ c.op \in {"create", "update"} \/ (c.op = "duplicate" /\ c.pc \notin {"get", "resolve"}) =>
        c.edition = c.secret
  /\ c.op = "update" /\ c.pc \in {"store", "exists", "upsert", "undo"} =>
        c.previous = profiles[c.id].edition
  /\ c.pc \in {"exists", "upsert", "undo"} =>
        /\ secrets[c.id] = c.secret
        /\ health[c.id] # "none" <=> Exists(profiles, c.id)
        /\ cache[c.id] \in {0, profiles[c.id].edition}
  /\ c.pc = "status" => secrets[c.id] = c.edition /\ profiles[c.id].edition = c.edition
  /\ c.pc = "forget" => secrets[c.id] = 0 /\ profiles[c.id].edition = 0

\* The profiles of no call.
RestWhole == \A i \in Ids : Whole(i) \/ \E a \in Administrators : call[a].id = i

WholeInv ==
  OneByOne /\ ~broken =>
    /\ up => RestWhole /\ \A a \in Administrators : CallWhole(call[a])
    /\ ~up => \A i \in Ids : file.secrets[i] = saved[i].edition

\* Profile i stays as it is.
Same(i) ==
  /\ profiles'[i] = profiles[i] /\ secrets'[i] = secrets[i]
  /\ health'[i] = health[i] /\ cache'[i] = cache[i]

\* The step leaves profile i whole.
Leaves(i) ==
  /\ secrets'[i] = profiles'[i].edition
  /\ health'[i] # "none" <=> profiles'[i].edition # 0
  /\ cache'[i] \in {0, profiles'[i].edition}

LEMMA SameWhole ==
  ASSUME NEW i \in Ids, Same(i)
  PROVE  (Whole(i)' <=> Whole(i)) /\ (Leaves(i) <=> Whole(i))
BY DEF Same, Whole, Exists, Leaves

LEMMA LeavesWhole ==
  ASSUME NEW i \in Ids, Leaves(i)
  PROVE  Whole(i)'
BY DEF Leaves, Whole, Exists

\* A step of one call, the others idle: it leaves the other profiles as they
\* are, and its own whole when it answers.
LEMMA WholeOthers ==
  ASSUME StoreTypes, NEW a \in Administrators, NobodyElse(a), NobodyElse(a)', up, up', RestWhole, call[a].id \in Ids,
         \A j \in Ids \ {call[a].id} : Same(j),
         \/ call'[a] = Idle /\ Leaves(call[a].id)
         \/ call'[a].id = call[a].id /\ CallWhole(call[a])'
  PROVE  WholeInv'
<1>1. \A j \in Ids \ {call[a].id} : Whole(j)'
  <2> SUFFICES ASSUME NEW j \in Ids \ {call[a].id} PROVE Whole(j)'
    OBVIOUS
  <2>1. ~ \E b \in Administrators : call[b].id = j
    BY IdleFacts, StoreFacts DEF NobodyElse
  <2>2. Whole(j)
    BY <2>1 DEF RestWhole
  <2>. QED BY <2>2, SameWhole
<1>2. RestWhole'
  <2>1. CASE call'[a] = Idle /\ Leaves(call[a].id)
    BY <1>1, <2>1, LeavesWhole DEF RestWhole
  <2>2. CASE call'[a].id = call[a].id
    BY <1>1, <2>2 DEF RestWhole
  <2>. QED BY <2>1, <2>2
<1>3. \A b \in Administrators : CallWhole(call[b])'
  <2>1. \A b \in Administrators : call'[b] = Idle => CallWhole(call[b])'
    BY IdleFacts DEF CallWhole, Deleting
  <2>. QED BY <2>1 DEF NobodyElse
<1>. QED BY <1>2, <1>3 DEF WholeInv

\* What a call finds.
LEMMA WholeFinds ==
  ASSUME StoreTypes, DiskInv, WholeInv, OneByOne, ~broken, NEW a \in Administrators, NobodyElse(a),
         call[a].pc # "idle"
  PROVE  /\ up /\ RestWhole /\ CallWhole(call[a]) /\ CallResolves(call[a]) /\ call[a].id \in Ids
         /\ \A j \in Ids \ {call[a].id} : Whole(j)
<1>1. up /\ RestWhole /\ CallWhole(call[a]) /\ CallResolves(call[a]) /\ call[a].id \in Ids
  BY ResolveFinds, CallFacts DEF DiskInv, WholeInv
<1>2. \A j \in Ids \ {call[a].id} : Whole(j)
  BY <1>1, IdleFacts, StoreFacts DEF RestWhole, NobodyElse
<1>. QED BY <1>1, <1>2

LEMMA AsksWhole ==
  ASSUME StoreTypes, DiskInv, WholeInv, OneByOne, ~broken, NEW a \in Administrators, Asks(a), NobodyElse(a),
         NobodyElse(a)'
  PROVE  WholeInv'
<1>1. /\ call[a] = Idle /\ call'[a] \in Calls /\ Asked(call'[a]) /\ call'[a].id \in Ids
      /\ UNCHANGED <<profiles, secrets, health, cache, up>> /\ up
  <2>1. call[a] = Idle /\ call'[a] \in Calls /\ Asked(call'[a])
    BY AsksTypes
  <2>2. call'[a].id \in Ids
    BY <2>1 DEF Calls, FitsCall
  <2>. QED BY <2>1, <2>2 DEF Asks
<1>2. \A i \in Ids : Whole(i)
  BY <1>1, IdleFacts, StoreFacts DEF WholeInv, RestWhole, NobodyElse
<1>3. \A i \in Ids : Whole(i)'
  BY <1>1, <1>2, SameWhole DEF Same
<1>4. \A b \in Administrators : CallWhole(call[b])'
  <2>1. \A b \in Administrators : call'[b] = Idle => CallWhole(call[b])'
    BY IdleFacts DEF CallWhole, Deleting
  <2>2. CallWhole(call[a])'
    BY <1>1, <1>3 DEF CallWhole, Asked, Deleting
  <2>. QED BY <2>1, <2>2 DEF NobodyElse
<1>. QED BY <1>1, <1>3, <1>4 DEF WholeInv, RestWhole

\* The steps that change nothing but the call.
LEMMA PassiveWhole ==
  ASSUME StoreTypes, DiskInv, WholeInv, OneByOne, ~broken, NEW a \in Administrators, NobodyElse(a), NobodyElse(a)',
         \/ Gets(a) \/ Resolves(a) \/ Looks(a) \/ Deletes(a)
  PROVE  WholeInv'
<1>1. call[a].pc # "idle" /\ UNCHANGED <<profiles, secrets, health, cache, up>>
  <2>1. call[a].pc # "idle"
    BY GetsMoves, ResolvesMoves, LooksMoves, DeletesMoves
  <2>. QED BY <2>1 DEF Gets, Resolves, Looks, Deletes, files, counters
<1>2. /\ up /\ RestWhole /\ CallWhole(call[a]) /\ CallResolves(call[a]) /\ call[a].id \in Ids
      /\ \A j \in Ids \ {call[a].id} : Whole(j)
  BY <1>1, WholeFinds
<1>3. \A j \in Ids : Same(j)
  BY <1>1 DEF Same
<1>4. Leaves(call[a].id) <=> Whole(call[a].id)
  BY <1>2, <1>3, SameWhole
<1>5. CASE call'[a] = Idle /\ call[a].pc \in {"get", "resolve"}
  <2>1. Leaves(call[a].id)
    BY <1>2, <1>4, <1>5 DEF CallWhole
  <2>. QED BY <1>1, <1>2, <1>3, <1>5, <2>1, WholeOthers
<1>6. ASSUME call'[a].id = call[a].id, CallWhole(call[a])' PROVE WholeInv'
  BY <1>1, <1>2, <1>3, <1>6, WholeOthers
<1>7. CASE Gets(a)
  <2>1. CASE /\ Exists(profiles, call[a].from) /\ call'[a].pc = "resolve" /\ call'[a].op = call[a].op
             /\ call'[a].id = call[a].id /\ call'[a].from = call[a].from /\ call'[a].secret = call[a].secret
             /\ call'[a].edition = IF call[a].op = "update" THEN call[a].edition
                                   ELSE profiles[call[a].from].edition
    <3>1. call[a].op # "create" /\ call[a].pc = "get"
      BY <1>7, GetsMoves, CallFacts DEF PcsOf
    <3>2. CallWhole(call[a])'
      BY <1>1, <1>2, <1>4, <2>1, <3>1, LeavesWhole DEF CallWhole, Deleting, Exists
    <3>. QED BY <1>6, <2>1, <3>2
  <2>. QED BY <1>5, <1>7, <2>1, GetsMoves
<1>8. CASE Resolves(a)
  <2>1. CASE /\ call'[a].op = call[a].op
             /\ call'[a].pc = CASE call[a].op = "test" -> "testing" [] call[a].op = "explore" -> "insert"
                                [] OTHER -> "store"
             /\ call'[a].id = call[a].id /\ call'[a].from = call[a].from
             /\ call'[a].edition = call[a].edition /\ call'[a].previous = secrets[call[a].from]
             /\ call'[a].secret = IF call[a].op = "duplicate" THEN secrets[call[a].from] ELSE call[a].secret
    <3>1. /\ call[a].pc = "resolve" /\ call[a].op \in {"duplicate", "update", "test", "explore"}
          /\ call[a].from \in Ids /\ (call[a].op # "duplicate" => call[a].from = call[a].id)
          /\ (call[a].op = "duplicate" => call[a].from # call[a].id)
      BY <1>8, ResolvesMoves, CallFacts DEF PcsOf, Ops
    <3>2. secrets[call[a].from] = profiles[call[a].from].edition
      BY <1>2, <3>1 DEF CallWhole, Whole
    <3>3. CallWhole(call[a])'
      BY <1>1, <1>2, <1>4, <2>1, <3>1, <3>2, LeavesWhole DEF CallWhole, Deleting, Exists
    <3>. QED BY <1>6, <2>1, <3>3
  <2>. QED BY <1>5, <1>8, <2>1, ResolvesMoves
<1>9. CASE Looks(a)
  <2>1. /\ SameCall(a) /\ call[a].pc = "exists" /\ call'[a].pc \in {"upsert", "undo"}
    BY <1>9, LooksMoves
  <2>2. CallWhole(call[a])'
    BY <1>1, <1>2, <2>1 DEF CallWhole, Deleting, Exists, SameCall
  <2>. QED BY <1>6, <2>1, <2>2 DEF SameCall
<1>10. CASE Deletes(a)
  <2>1. CASE Exists(profiles, call[a].id) /\ SameCall(a) /\ call'[a].pc = "remove"
    <3>1. call[a].pc = "get" /\ call[a].op = "delete" /\ call[a].from = call[a].id
      BY <1>10, DeletesMoves, CallFacts
    <3>2. CallWhole(call[a])'
      BY <1>1, <1>2, <1>4, <2>1, <3>1, LeavesWhole DEF CallWhole, Deleting, Exists, SameCall
    <3>. QED BY <1>6, <2>1, <3>2 DEF SameCall
  <2>. QED BY <1>5, <1>10, <2>1, DeletesMoves
<1>. QED BY <1>7, <1>8, <1>9, <1>10

LEMMA StoresWhole ==
  ASSUME StoreTypes, DiskInv, WholeInv, OneByOne, ~broken, NEW a \in Administrators, NobodyElse(a), NobodyElse(a)',
         Stores(a)
  PROVE  WholeInv'
<1>1. call[a].pc = "store" /\ UNCHANGED <<profiles, health, cache, up>>
  BY StoresMoves DEF Stores
<1>2. up /\ RestWhole /\ CallWhole(call[a]) /\ call[a].id \in Ids
  BY <1>1, WholeFinds
<1>3. Whole(call[a].id)
  BY <1>1, <1>2 DEF CallWhole
<1>4. CASE call'[a] = Idle /\ secrets' = secrets
  <2>1. \A j \in Ids : Same(j)
    BY <1>1, <1>4 DEF Same
  <2>2. Leaves(call[a].id)
    BY <1>2, <1>3, <2>1, SameWhole
  <2>. QED BY <1>1, <1>2, <1>4, <2>1, <2>2, WholeOthers
<1>5. CASE /\ Kept(call[a].id, call[a].secret) /\ SameCall(a)
           /\ call'[a].pc = IF call[a].op = "update" THEN "exists" ELSE "upsert"
  <2>1. \A j \in Ids \ {call[a].id} : Same(j)
    BY <1>1, <1>5 DEF Same, Kept
  <2>2. CallWhole(call[a])'
    BY <1>1, <1>2, <1>3, <1>5 DEF CallWhole, Whole, Deleting, Exists, SameCall, Kept
  <2>. QED BY <1>1, <1>2, <1>5, <2>1, <2>2, WholeOthers DEF SameCall
<1>. QED BY <1>4, <1>5, StoresMoves

LEMMA UpsertsWhole ==
  ASSUME StoreTypes, DiskInv, WholeInv, OneByOne, ~broken, NEW a \in Administrators, NobodyElse(a), NobodyElse(a)',
         Upserts(a)
  PROVE  WholeInv'
<1>1. call[a].pc = "upsert" /\ UNCHANGED <<secrets, health, cache, up>> /\ SameCall(a)
  BY UpsertsMoves DEF Upserts
<1>2. /\ up /\ RestWhole /\ CallWhole(call[a]) /\ call[a].id \in Ids
      /\ call[a].op \in {"create", "duplicate", "update"}
  BY <1>1, WholeFinds, CallFacts DEF PcsOf, Ops
<1>3. CASE call'[a].pc = "undo" /\ profiles' = profiles
  <2>1. \A j \in Ids : Same(j)
    BY <1>1, <1>3 DEF Same
  <2>2. CallWhole(call[a])'
    BY <1>1, <1>2, <1>3 DEF CallWhole, Deleting, Exists, SameCall
  <2>. QED BY <1>1, <1>2, <2>1, <2>2, WholeOthers DEF SameCall
<1>4. CASE /\ call'[a].pc = "status" /\ profiles'[call[a].id].edition = call[a].edition
           /\ \A j \in Ids \ {call[a].id} : profiles'[j] = profiles[j]
  <2>1. \A j \in Ids \ {call[a].id} : Same(j)
    BY <1>1, <1>4 DEF Same
  <2>2. secrets[call[a].id] = call[a].edition
    BY <1>1, <1>2 DEF CallWhole
  <2>3. CallWhole(call[a])'
    BY <1>1, <1>2, <1>4, <2>2 DEF CallWhole, Deleting, SameCall
  <2>. QED BY <1>1, <1>2, <2>1, <2>3, WholeOthers DEF SameCall
<1>. QED BY <1>3, <1>4, UpsertsMoves

LEMMA PublishedWhole ==
  ASSUME StoreTypes, DiskInv, WholeInv, OneByOne, ~broken, NEW a \in Administrators, NobodyElse(a), NobodyElse(a)',
         Published(a)
  PROVE  WholeInv'
<1>1. /\ call[a].pc = "status" /\ UNCHANGED <<profiles, secrets, up>> /\ call'[a] = Idle
      /\ health'[call[a].id] # "none" /\ cache'[call[a].id] = 0
      /\ \A j \in Ids \ {call[a].id} : health'[j] = health[j] /\ cache'[j] = cache[j]
  BY PublishedMoves DEF Published
<1>2. up /\ RestWhole /\ CallWhole(call[a]) /\ call[a].id \in Ids /\ call[a].edition # 0
  BY <1>1, WholeFinds, CallFacts
<1>3. \A j \in Ids \ {call[a].id} : Same(j)
  BY <1>1 DEF Same
<1>4. Leaves(call[a].id)
  BY <1>1, <1>2 DEF CallWhole, Whole, Exists, Leaves
<1>. QED BY <1>1, <1>2, <1>3, <1>4, WholeOthers

LEMMA UndoesWhole ==
  ASSUME StoreTypes, DiskInv, WholeInv, OneByOne, ~broken, NEW a \in Administrators, NobodyElse(a), NobodyElse(a)',
         Undoes(a)
  PROVE  WholeInv'
<1>1. call[a].pc = "undo" /\ UNCHANGED <<profiles, health, cache, up>> /\ call'[a] = Idle
  BY UndoesMoves DEF Undoes
<1>2. /\ up /\ RestWhole /\ CallWhole(call[a]) /\ CallResolves(call[a]) /\ call[a].id \in Ids
      /\ call[a].op \in {"create", "duplicate", "update"}
  BY <1>1, WholeFinds, CallFacts DEF PcsOf, Ops
<1>3. CASE broken' = TRUE
  BY <1>3 DEF WholeInv
<1>4. CASE Kept(call[a].id, IF call[a].op = "update" THEN call[a].previous ELSE 0)
  <2>1. \A j \in Ids \ {call[a].id} : Same(j)
    BY <1>1, <1>4 DEF Same, Kept
  <2>2. secrets'[call[a].id] = profiles[call[a].id].edition
    BY <1>1, <1>2, <1>4 DEF CallWhole, CallResolves, Kept, Exists
  <2>3. Leaves(call[a].id)
    BY <1>1, <1>2, <2>2 DEF CallWhole, Whole, Exists, Leaves
  <2>. QED BY <1>1, <1>2, <2>1, <2>3, WholeOthers
<1>. QED BY <1>3, <1>4, UndoesMoves

LEMMA RemovesWhole ==
  ASSUME StoreTypes, DiskInv, WholeInv, OneByOne, ~broken, NEW a \in Administrators, NobodyElse(a), NobodyElse(a)',
         RemovesSecret(a)
  PROVE  WholeInv'
<1>1. call[a].pc = "remove" /\ UNCHANGED <<health, cache, up>> /\ SameCall(a) /\ profiles \in Tables
  BY RemovesMoves DEF RemovesSecret, StoreTypes, ProfileTypes
<1>2. up /\ RestWhole /\ CallWhole(call[a]) /\ call[a].id \in Ids /\ call[a].op = "delete"
  BY <1>1, WholeFinds, CallFacts DEF PcsOf, Ops
<1>3. CASE Kept(call[a].id, 0) /\ profiles' = Without(a) /\ call'[a].pc = "forget"
  <2>1. profiles'[call[a].id] = NoProfile /\ \A j \in Ids \ {call[a].id} : profiles'[j] = profiles[j]
    BY <1>1, <1>2, <1>3, WithoutFacts
  <2>2. \A j \in Ids \ {call[a].id} : Same(j)
    BY <1>1, <1>3, <2>1 DEF Same, Kept
  <2>3. CallWhole(call[a])'
    BY <1>1, <1>2, <1>3, <2>1, EmptyFacts DEF CallWhole, Deleting, SameCall, Kept
  <2>. QED BY <1>1, <1>2, <2>2, <2>3, WholeOthers DEF SameCall
<1>4. CASE secrets' = secrets /\ profiles' = profiles /\ call'[a].pc = "revert"
  <2>1. \A j \in Ids : Same(j)
    BY <1>1, <1>4 DEF Same
  <2>2. Leaves(call[a].id)
    BY <1>1, <1>2, <2>1, SameWhole DEF CallWhole, Deleting
  <2>3. CallWhole(call[a])'
    BY <1>1, <1>2, <1>4, <2>2, LeavesWhole DEF CallWhole, Deleting, SameCall, Exists
  <2>. QED BY <1>1, <1>2, <2>1, <2>3, WholeOthers DEF SameCall
<1>. QED BY <1>3, <1>4, RemovesMoves

LEMMA RevertsWhole ==
  ASSUME StoreTypes, DiskInv, WholeInv, OneByOne, ~broken, NEW a \in Administrators, NobodyElse(a), NobodyElse(a)',
         Reverts(a)
  PROVE  WholeInv'
<1>1. call[a].pc = "revert" /\ UNCHANGED <<secrets, health, cache, up>> /\ call'[a] = Idle
  BY RevertsMoves DEF Reverts
<1>2. up /\ RestWhole /\ CallWhole(call[a]) /\ call[a].id \in Ids
  BY <1>1, WholeFinds
<1>3. CASE broken' = TRUE
  BY <1>3 DEF WholeInv
<1>4. CASE profiles' = profiles
  <2>1. \A j \in Ids : Same(j)
    BY <1>1, <1>4 DEF Same
  <2>2. Leaves(call[a].id)
    BY <1>1, <1>2, <2>1, SameWhole DEF CallWhole, Deleting
  <2>. QED BY <1>1, <1>2, <2>1, <2>2, WholeOthers
<1>. QED BY <1>3, <1>4, RevertsMoves

LEMMA ForgetsWhole ==
  ASSUME StoreTypes, DiskInv, WholeInv, OneByOne, ~broken, NEW a \in Administrators, NobodyElse(a), NobodyElse(a)',
         Forgets(a)
  PROVE  WholeInv'
<1>1. /\ call[a].pc = "forget" /\ UNCHANGED <<profiles, secrets, up>> /\ call'[a] = Idle
      /\ health'[call[a].id] = "none" /\ cache'[call[a].id] = 0
      /\ \A j \in Ids \ {call[a].id} : health'[j] = health[j] /\ cache'[j] = cache[j]
  BY ForgetsMoves DEF Forgets
<1>2. up /\ RestWhole /\ CallWhole(call[a]) /\ call[a].id \in Ids
  BY <1>1, WholeFinds
<1>3. \A j \in Ids \ {call[a].id} : Same(j)
  BY <1>1 DEF Same
<1>4. Leaves(call[a].id)
  BY <1>1, <1>2 DEF CallWhole, Whole, Exists, Leaves
<1>. QED BY <1>1, <1>2, <1>3, <1>4, WholeOthers

LEMMA TestsWhole ==
  ASSUME StoreTypes, DiskInv, WholeInv, OneByOne, ~broken, NEW a \in Administrators, NobodyElse(a), NobodyElse(a)',
         Tests(a)
  PROVE  WholeInv'
<1>1. /\ call[a].pc \in {"testing", "result"} /\ UNCHANGED <<profiles, secrets, cache, up>>
      /\ health'[call[a].id] # "none" /\ \A j \in Ids \ {call[a].id} : health'[j] = health[j]
  BY TestsMoves DEF Tests
<1>2. /\ up /\ RestWhole /\ CallWhole(call[a]) /\ call[a].id \in Ids /\ call[a].op = "test"
      /\ call[a].from = call[a].id
  BY <1>1, WholeFinds, CallFacts DEF PcsOf, Ops
<1>3. \A j \in Ids \ {call[a].id} : Same(j)
  BY <1>1 DEF Same
<1>4. Leaves(call[a].id)
  BY <1>1, <1>2 DEF CallWhole, Whole, Exists, Leaves
<1>5. CASE call'[a] = Idle
  BY <1>1, <1>2, <1>3, <1>4, <1>5, WholeOthers
<1>6. CASE call[a].pc = "testing" /\ SameCall(a) /\ call'[a].pc = "result"
  <2>1. CallWhole(call[a])'
    BY <1>1, <1>2, <1>4, <1>6, LeavesWhole DEF CallWhole, Deleting, SameCall, Exists
  <2>. QED BY <1>1, <1>2, <1>3, <1>6, <2>1, WholeOthers DEF SameCall
<1>. QED BY <1>5, <1>6, TestsMoves

LEMMA ExploresWhole ==
  ASSUME StoreTypes, DiskInv, WholeInv, OneByOne, ~broken, NEW a \in Administrators, NobodyElse(a), NobodyElse(a)',
         Explores(a)
  PROVE  WholeInv'
<1>1. /\ call[a].pc = "insert" /\ UNCHANGED <<profiles, secrets, health, up>> /\ call'[a] = Idle
      /\ call[a].op = "explore" /\ cache'[call[a].id] \in {call[a].edition, cache[call[a].id]}
      /\ \A j \in Ids \ {call[a].id} : cache'[j] = cache[j]
  BY ExploresMoves DEF Explores
<1>2. up /\ RestWhole /\ CallWhole(call[a]) /\ call[a].id \in Ids /\ call[a].from = call[a].id
  BY <1>1, WholeFinds, CallFacts
<1>3. \A j \in Ids \ {call[a].id} : Same(j)
  BY <1>1 DEF Same
<1>4. Leaves(call[a].id)
  BY <1>1, <1>2 DEF CallWhole, Whole, Exists, Leaves
<1>. QED BY <1>1, <1>2, <1>3, <1>4, WholeOthers

\* Nothing it is about.
LEMMA WholeFrame ==
  ASSUME WholeInv, UNCHANGED <<served, up, profiles, saved, secrets, health, cache, call, broken>>,
         file'.secrets = file.secrets
  PROVE  WholeInv'
BY DEF WholeInv, OneByOne, RestWhole, Whole, CallWhole, Deleting, Exists

LEMMA CacheExpiresWhole ==
  ASSUME StoreTypes, WholeInv, NEW i \in Ids, CacheExpires(i)
  PROVE  WholeInv'
<1>1. /\ cache'[i] = 0 /\ \A j \in Ids \ {i} : cache'[j] = cache[j]
      /\ UNCHANGED <<served, up, profiles, saved, secrets, health, call, file, broken>>
  BY CacheExpiresTypes DEF CacheExpires, files, counters
<1>2. \A j \in Ids : Whole(j) => Whole(j)'
  BY <1>1 DEF Whole, Exists
<1>3. ASSUME NEW a \in Administrators, CallWhole(call[a]) PROVE CallWhole(call[a])'
  <2>1. CASE call[a].pc = "idle"
    BY <1>1, <2>1, <1>3 DEF CallWhole, Deleting
  <2>2. CASE call[a].pc # "idle"
    <3>1. call[a].id \in Ids
      BY <2>2, CallFacts
    <3>2. Whole(call[a].id) => Whole(call[a].id)'
      BY <1>1, <1>2, <3>1 DEF Whole, Exists
    <3>3. cache'[call[a].id] \in {0, cache[call[a].id]}
      BY <1>1, <3>1
    <3>. QED BY <1>1, <1>3, <3>2, <3>3 DEF CallWhole, Deleting, Exists
  <2>. QED BY <2>1, <2>2
<1>4. RestWhole => RestWhole'
  BY <1>1, <1>2 DEF RestWhole
<1>. QED BY <1>1, <1>3, <1>4 DEF WholeInv, OneByOne

\* All the profiles are whole, and so is the disk, once the calls are answered.
LEMMA QuietWhole ==
  ASSUME StoreTypes, DiskInv, WholeInv, OneByOne, ~broken, up, Quiet
  PROVE  /\ \A i \in Ids : Whole(i)
         /\ saved = profiles /\ file.secrets = secrets
<1>1. \A i \in Ids : Whole(i)
  BY IdleFacts, StoreFacts DEF WholeInv, RestWhole, Quiet
<1>2. Unlocked
  BY IdleFacts DEF DiskInv, TableInv, Quiet, Deleting, Unlocked, StoreTypes, ProfileTypes
<1>. QED BY <1>1, <1>2 DEF DiskInv, TableInv, KeyInv, OneByOne

LEMMA ServerStartsWhole ==
  ASSUME StoreTypes, DiskInv, WholeInv, ServerStarts
  PROVE  WholeInv'
<1>1. /\ UNCHANGED <<served, saved, call, broken>> /\ Quiet /\ ~up /\ file'.secrets = file.secrets
      /\ \/ /\ up' /\ profiles' = saved /\ secrets' = file.secrets
            /\ \A i \in Ids : (health'[i] # "none" <=> Exists(saved, i)) /\ cache'[i] = 0
         \/ ~up'
  BY ServerStartsMoves DEF ServerStarts, DiskInv, TableInv
<1>2. SUFFICES ASSUME OneByOne, ~broken
               PROVE  /\ up' => RestWhole' /\ \A a \in Administrators : CallWhole(call[a])'
                      /\ ~up' => \A i \in Ids : file'.secrets[i] = saved'[i].edition
  BY <1>1 DEF WholeInv, OneByOne
<1>3. \A i \in Ids : file.secrets[i] = saved[i].edition
  BY <1>1, <1>2 DEF WholeInv
<1>4. ASSUME up' PROVE RestWhole'
  BY <1>1, <1>3, <1>4 DEF RestWhole, Whole, Exists
<1>5. \A a \in Administrators : CallWhole(call[a])'
  BY <1>1, IdleFacts DEF Quiet, CallWhole, Deleting
<1>. QED BY <1>1, <1>3, <1>4, <1>5

LEMMA WholeInvStep ==
  ASSUME StoreTypes, DiskInv, WholeInv, [ConnectionsNext]_connectionVars
  PROVE  WholeInv'
<1>1. ASSUME NEW a \in Administrators, CallStep(a) PROVE WholeInv'
  <2>1. served' = served /\ (broken => broken')
    BY <1>1, CallStepFacts DEF DiskInv
  <2>2. CASE ~OneByOne \/ broken
    BY <2>1, <2>2 DEF WholeInv, OneByOne
  <2>3. CASE OneByOne /\ ~broken
    <3>1. NobodyElse(a) /\ NobodyElse(a)'
      BY <1>1, <2>3, CallIsAlone DEF OneByOne, DiskInv
    <3>2. CASE Asks(a) \/ Gets(a) \/ Resolves(a) \/ Looks(a) \/ Deletes(a)
      BY <2>3, <3>1, <3>2, AsksWhole, PassiveWhole
    <3>3. CASE Stores(a) \/ Upserts(a) \/ Published(a) \/ Undoes(a)
      BY <2>3, <3>1, <3>3, StoresWhole, UpsertsWhole, PublishedWhole, UndoesWhole
    <3>4. CASE RemovesSecret(a) \/ Reverts(a) \/ Forgets(a) \/ Tests(a) \/ Explores(a)
      BY <2>3, <3>1, <3>4, RemovesWhole, RevertsWhole, ForgetsWhole, TestsWhole, ExploresWhole
    <3>. QED BY <1>1, <3>2, <3>3, <3>4 DEF CallStep
  <2>. QED BY <2>2, <2>3
<1>2. CASE \E i \in Ids : CacheExpires(i)
  BY <1>2, CacheExpiresWhole
<1>3. CASE ServerStarts
  BY <1>3, ServerStartsWhole
<1>4. CASE Crashes
  <2>1. up /\ ~up' /\ UNCHANGED <<served, saved, file>> /\ broken' = (broken \/ ~Quiet)
    BY <1>4, CrashesMoves DEF Crashes, files
  <2>2. ASSUME OneByOne', ~broken' PROVE \A i \in Ids : file'.secrets[i] = saved'[i].edition
    <3>1. OneByOne /\ ~broken /\ Quiet
      BY <2>1, <2>2 DEF OneByOne
    <3>2. (\A i \in Ids : Whole(i)) /\ saved = profiles /\ file.secrets = secrets
      BY <2>1, <3>1, QuietWhole
    <3>. QED BY <2>1, <3>2 DEF Whole
  <2>. QED BY <2>1, <2>2 DEF WholeInv
<1>5. CASE RotateOpens \/ RotateWrites \/ OperatorSetsKey
  <2>1. UNCHANGED <<served, up, profiles, saved, secrets, health, cache, call, broken>>
    BY <1>5 DEF RotateOpens, RotateWrites, OperatorSetsKey, server, files, counters
  <2>2. CASE ~OneByOne
    BY <2>1, <2>2 DEF WholeInv, OneByOne
  <2>3. CASE OneByOne
    <3>1. file'.secrets = file.secrets
      <4>1. CASE RotateOpens \/ OperatorSetsKey
        BY <4>1 DEF RotateOpens, OperatorSetsKey, files
      <4>2. CASE RotateWrites
        BY <2>3, <4>2 DEF RotateWrites, KeyInv, OneByOne, DiskInv
      <4>. QED BY <1>5, <4>1, <4>2
    <3>. QED BY <2>1, <3>1, WholeFrame
  <2>. QED BY <2>2, <2>3
<1>6. CASE FlowStep
  BY <1>6, FlowMoves, WholeFrame DEF server, files, counters
<1>7. CASE UNCHANGED connectionVars
  BY <1>7, WholeFrame DEF connectionVars, server, files, counters
<1>. QED BY <1>1, <1>2, <1>3, <1>4, <1>5, <1>6, <1>7 DEF ConnectionsNext, FlowStep, CallStep

LEMMA WholeInvInit == ConnectionsInit => WholeInv
<1> SUFFICES ASSUME ConnectionsInit PROVE ~up /\ \A i \in Ids : file.secrets[i] = saved[i].edition
  BY DEF WholeInv
<1>1. CASE saved = NoProfiles /\ file = NoSecretsFile
  BY <1>1, EmptyFacts DEF ConnectionsInit, NoSecretsFile
<1>2. CASE /\ \E n \in Names : saved = [NoProfiles EXCEPT ![1] = [name |-> n, edition |-> 1]]
           /\ file = [version |-> 1, key |-> "old", secrets |-> [NoSecrets EXCEPT ![1] = 1]]
  <2>1. saved[1].edition = 1 /\ \A i \in Ids \ {1} : saved[i].edition = 0
    BY <1>2, EmptyFacts, StoreFacts DEF Tables
  <2>2. file.secrets[1] = 1 /\ \A i \in Ids \ {1} : file.secrets[i] = 0
    BY <1>2, EmptyFacts, StoreFacts DEF Editions
  <2>. QED BY <2>1, <2>2 DEF ConnectionsInit
<1>. QED BY <1>1, <1>2 DEF ConnectionsInit

\* The flow, between the two files it reads and the connection it makes.
FlowInv ==
  /\ client.pc # "idle" => up
  /\ OneByOne /\ ~broken /\ ~client.overlap =>
       /\ client.pc = "resolve" => \A i \in Ids : client.secrets[i] = client.profiles[i].edition
       /\ client.pc \in {"connect", "connected"} => client.endpoint = client.credentials

LEMMA FlowInvStep ==
  ASSUME StoreTypes, DiskInv, WholeInv, FlowInv, [ConnectionsNext]_connectionVars
  PROVE  FlowInv'
<1>1. ASSUME served' = served, broken => broken', client' = client, up => up' PROVE FlowInv'
  BY <1>1 DEF FlowInv, OneByOne
<1>2. ASSUME NEW a \in Administrators, CallStep(a) PROVE FlowInv'
  BY <1>1, <1>2, CallStepFacts DEF DiskInv
<1>3. CASE (\E i \in Ids : CacheExpires(i)) \/ RotateOpens \/ RotateWrites \/ OperatorSetsKey
  BY <1>1, <1>3 DEF CacheExpires, RotateOpens, RotateWrites, OperatorSetsKey, server, counters
<1>4. CASE ServerStarts
  BY <1>1, <1>4 DEF ServerStarts
<1>5. CASE Crashes
  BY <1>5, CrashesMoves DEF FlowInv
<1>6. CASE FlowStep
  <2>1. UNCHANGED <<served, up, broken>>
    BY <1>6, FlowMoves DEF server, counters
  <2>2. up
    BY <1>6 DEF FlowInv, FlowStep, FlowLoadsProfiles, FlowOpensSecrets, FlowResolves, FlowBuilds,
       FlowConnects, FlowRetries, FlowFails
  <2>3. CASE client'.pc \in {"secrets", "failed"}
    BY <2>1, <2>2, <2>3 DEF FlowInv
  <2>4. CASE /\ client.pc = "secrets" /\ client'.pc = "resolve" /\ client'.profiles = client.profiles
             /\ client'.secrets = file.secrets /\ client'.overlap = Overlap
    <3>1. ASSUME OneByOne, ~broken, ~client'.overlap
          PROVE  \A i \in Ids : client'.secrets[i] = client'.profiles[i].edition
      <4>1. Quiet /\ saved = client.profiles
        BY <2>4, <3>1 DEF Overlap
      <4>2. (\A i \in Ids : Whole(i)) /\ saved = profiles /\ file.secrets = secrets
        BY <2>2, <3>1, <4>1, QuietWhole
      <4>. QED BY <2>4, <4>1, <4>2 DEF Whole
    <3>. QED BY <2>1, <2>2, <2>4, <3>1 DEF FlowInv, OneByOne
  <2>5. CASE /\ client.pc = "resolve" /\ client'.pc = "connect" /\ client'.overlap = client.overlap
             /\ \E i \in Ids : /\ client'.endpoint = client.profiles[i].edition
                               /\ client'.credentials = client.secrets[i]
    BY <2>1, <2>2, <2>5 DEF FlowInv, OneByOne
  <2>6. CASE /\ client.pc = "connect" /\ client'.pc \in {"connect", "connected"}
             /\ client'.overlap = client.overlap
             /\ client'.endpoint = client.endpoint /\ client'.credentials = client.credentials
    BY <2>1, <2>2, <2>6 DEF FlowInv, OneByOne
  <2>. QED BY <1>6, <2>3, <2>4, <2>5, <2>6, FlowMoves
<1>7. CASE UNCHANGED connectionVars
  BY <1>1, <1>7 DEF connectionVars, server, counters
<1>. QED BY <1>2, <1>3, <1>4, <1>5, <1>6, <1>7 DEF ConnectionsNext, FlowStep, CallStep

LEMMA WholeInvHolds == ConnectionsSpec => [](StoreTypes /\ DiskInv /\ WholeInv /\ FlowInv)
<1>1. ConnectionsInit => WholeInv /\ FlowInv
  BY WholeInvInit DEF ConnectionsInit, FlowInv
<1>2. StoreTypes /\ DiskInv /\ WholeInv /\ FlowInv /\ [ConnectionsNext]_connectionVars =>
        (WholeInv /\ FlowInv)'
  BY WholeInvStep, FlowInvStep
<1>. QED BY <1>1, <1>2, DiskInvHolds, PTL DEF ConnectionsSpec

\* With one call at a time, what a call leaves when it is answered is whole:
\* credentials exist exactly for the profiles and are of their edition, statuses
\* exist exactly for the profiles, and cached metadata is of the current
\* edition; whatever write failed, and through every restart.
THEOREM NothingHalfDone == ConnectionsSpec => []AnswersLeaveWhole
<1>1. StoreTypes /\ DiskInv /\ WholeInv => AnswersLeaveWhole
  BY QuietWhole DEF AnswersLeaveWhole, Whole
<1>. QED BY <1>1, WholeInvHolds, PTL

\* What a call leaves whole, a flow finds so: it connects to an endpoint with the
\* credentials that were sent with it (ProfileConnectionResolver), unless a call
\* was under way while its deployment read the two files.
THEOREM ContentsTogether == ConnectionsSpec => []ContentsStayTogether
<1>1. FlowInv => FlowsConnectWhole
  BY DEF FlowInv, FlowsConnectWhole
<1>. QED BY <1>1, NothingHalfDone, WholeInvHolds, PTL DEF ContentsStayTogether

=============================================================================
