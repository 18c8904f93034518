------------------------------- MODULE Plugins -------------------------------
(***************************************************************************)
(* One external plugin: the directory `jaiba plugins install | remove`     *)
(* writes (plugin_catalog.rs), and the processor that runs what is in it   *)
(* as a process of its own and exchanges one JSON line per request with it *)
(* (external_plugin.rs).  The operators' commands are processes that know  *)
(* nothing of each other or of the server.                                 *)
(***************************************************************************)
EXTENDS Integers, Sequences

CONSTANTS
    Operators,    \* commands of `jaiba plugins` run at a time
    Versions,     \* versions in the catalog, positive numbers
    FilesOf,      \* how many files each has
    Tasks,        \* packets given to the processor, one request each
    Usages,       \* how many commands and packets there are at most, together
    MaxFaults,    \* renames that fail
    MaxDeaths,    \* times the plugin dies
    NoTask

ASSUME PluginsAssumption ==
    /\ Versions \subseteq Nat \ {0} /\ Versions # {} /\ FilesOf \in [Versions -> Nat]
    /\ Usages \subseteq [commands : Nat, packets : Nat] /\ MaxFaults \in Nat /\ MaxDeaths \in Nat
    /\ NoTask \notin Tasks

VARIABLES
    target,    \* JAIBA_PLUGIN_DIR/<id>: what was written in the directory that is there
    command,   \* what each operator's command is doing, in a staging directory of its own
    commands, faults, deaths,  \* commands left to give; what went wrong so far
    expected,  \* a plugin was installed and not removed since
    accident,  \* a command was killed, or could not put back what it had set aside
    manifest,  \* version of the manifest the running flow was built with
    process,   \* ProcessSlot.process, or the one being described
    in_flight, \* ProcessSlot.in_flight
    queue,     \* tasks waiting for the slot, in the order they asked
    holder,    \* the task that holds it
    task,      \* the tasks
    packets    \* tasks still to come

directory == <<target, command, commands, faults, expected, accident>>
slot == <<process, in_flight, queue, holder>>
tasks == <<task, packets>>
pluginVars == <<directory, deaths, manifest, slot, tasks>>

\* A directory: the pieces written in it, in order (the files of its version, the
\* manifest, the record of the install), and whether each has the right bytes.
Bytes == {"right", "wrong"}
Nothing == [version |-> 0, pieces |-> <<>>]
Complete(d) ==
    /\ d.version \in Versions
    /\ Len(d.pieces) = FilesOf[d.version] + 2
    /\ \A n \in 1 .. Len(d.pieces) : d.pieces[n] = "right"

NoCommand == [pc |-> "idle", staged |-> Nothing, backup |-> Nothing]
Installed == target # Nothing
NoProcess == [version |-> 0, alive |-> FALSE, lines |-> <<>>]

-----------------------------------------------------------------------------
(* The commands.                                                            *)

Goes(o, pc) == command' = [command EXCEPT ![o].pc = pc]
Ends(o) == command' = [command EXCEPT ![o] = NoCommand]

\* `install <id>[@<version>]`, of a catalog that has it or not.
GivesInstall(o) ==
    /\ command[o] = NoCommand /\ commands > 0
    /\ commands' = commands - 1
    /\ \E v \in Versions : command' = [command EXCEPT ![o] =
          [NoCommand EXCEPT !.pc = "load", !.staged = [version |-> v, pieces |-> <<>>]]]
    /\ UNCHANGED <<target, faults, expected, accident, deaths, manifest, slot, tasks>>

Quietly == UNCHANGED <<target, commands, faults, expected, accident, deaths, manifest, slot, tasks>>

\* The catalog, or a file of it, cannot be fetched or is too large.
FetchFails(o) == command[o].pc \in {"load", "download"} /\ Ends(o) /\ Quietly

\* Every entry of the catalog is valid, or none is used.
Loads(o) ==
    /\ command[o].pc = "load"
    /\ Goes(o, "check") \/ Ends(o)
    /\ Quietly

\* install: the version is there and of this protocol, and what is installed is
\* replaced only under --force; then its staging directory, empty.
InstallStarts(o) ==
    /\ command[o].pc = "check"
    /\ Goes(o, "download") \/ Ends(o)
    /\ Quietly

\* One more piece is in the staging directory.
Stages(o, bytes, pc) ==
    command' = [command EXCEPT ![o].pc = pc, ![o].staged.pieces = Append(@, bytes)]
Missing(o) == FilesOf[command[o].staged.version] - Len(command[o].staged.pieces)

\* Mistake: the digest is not compared.
AcceptsAny(bytes) == TRUE

\* The digest of what was fetched is the one in the catalog.
Accepts(bytes) == bytes = "right"

\* One more file, if what came is accepted and can be written.
Downloads(o) ==
    /\ command[o].pc = "download" /\ Missing(o) > 0
    /\ \/ \E bytes \in Bytes : Accepts(bytes) /\ Stages(o, bytes, "download")
       \/ Ends(o)
    /\ Quietly

\* With every file there, the image is pulled, when there is one and it was asked for.
Pulls(o) ==
    /\ command[o].pc = "download" /\ Missing(o) = 0
    /\ Goes(o, "write") \/ Ends(o)
    /\ Quietly

\* The manifest, then the record of the install.
Writes(o) ==
    /\ command[o].pc = "write"
    /\ \/ Stages(o, "right", IF Missing(o) = 0 THEN "write" ELSE "look")
       \/ Ends(o)
    /\ Quietly

\* commit: what is installed by now, whoever installed it...
Looks(o) ==
    /\ command[o].pc = "look"
    /\ Goes(o, IF Installed THEN "aside" ELSE "move")
    /\ Quietly

\* ... is set aside, if it is still there...
SetsAside(o) ==
    /\ command[o].pc = "aside"
    /\ \/ /\ Installed
          /\ command' = [command EXCEPT ![o].pc = "move", ![o].backup = target]
          /\ target' = Nothing /\ UNCHANGED faults
       \/ /\ \/ ~Installed /\ UNCHANGED faults
             \/ faults < MaxFaults /\ faults' = faults + 1
          /\ Ends(o) /\ UNCHANGED target
    /\ UNCHANGED <<commands, expected, accident, deaths, manifest, slot, tasks>>

\* Mistake: a move that failed leaves the previous version set aside.
MoveFailsUndone(o) ==
    /\ \/ Installed /\ UNCHANGED faults
       \/ faults < MaxFaults /\ faults' = faults + 1
    /\ Ends(o) /\ UNCHANGED <<target, expected>>

\* ... and the new one moved in its place, which fails when another is there.
MoveFails(o) ==
    /\ \/ Installed /\ UNCHANGED faults
       \/ faults < MaxFaults /\ faults' = faults + 1
    /\ IF command[o].backup = Nothing THEN Ends(o) ELSE Goes(o, "back")
    /\ UNCHANGED <<target, expected>>

MoveLands(o) ==
    /\ ~Installed
    /\ target' = command[o].staged /\ expected' = TRUE
    /\ Goes(o, "clean") /\ UNCHANGED faults

Moves(o) ==
    /\ command[o].pc = "move"
    /\ MoveLands(o) \/ MoveFails(o)
    /\ UNCHANGED <<commands, accident, deaths, manifest, slot, tasks>>

\* What was set aside is put back; that fails too when another is there by then,
\* and its failure is ignored.
PutsBack(o) ==
    /\ command[o].pc = "back" /\ Ends(o)
    /\ \/ ~Installed /\ target' = command[o].backup /\ UNCHANGED <<faults, accident>>
       \/ Installed /\ UNCHANGED <<target, faults, accident>>
       \/ faults < MaxFaults /\ faults' = faults + 1 /\ accident' = TRUE /\ UNCHANGED target
    /\ UNCHANGED <<commands, expected, deaths, manifest, slot, tasks>>

\* What was set aside is deleted, or its failure ignored.
Cleans(o) == command[o].pc = "clean" /\ Ends(o) /\ Quietly

\* remove_installed renames the directory away before deleting it.
Removes(o) ==
    /\ command[o] = NoCommand /\ commands > 0 /\ Installed
    /\ commands' = commands - 1
    /\ target' = Nothing /\ expected' = FALSE
    /\ UNCHANGED <<command, faults, accident, deaths, manifest, slot, tasks>>

\* What is installed is set aside by a command that may still put it back.
HeldAside(o) == command[o].pc \in {"move", "back"} /\ command[o].backup # Nothing

\* The command is killed: nothing is dropped, so nothing is cleaned or put back.
Killed(o) ==
    /\ command[o] # NoCommand /\ Ends(o)
    /\ accident' = (accident \/ HeldAside(o))
    /\ UNCHANGED <<target, commands, faults, expected, deaths, manifest, slot, tasks>>

-----------------------------------------------------------------------------
(* The flow.                                                                *)

\* from_config reads the manifest when the engine is built...
FlowBuilds ==
    /\ manifest = 0 /\ Installed
    /\ manifest' = target.version
    /\ UNCHANGED <<directory, deaths, slot, tasks>>

Ended(t) == task[t].pc \in {"answered", "failed", "cancelled"}

\* ... and the process is killed when its tasks are over and the flow ends.
FlowEnds ==
    /\ manifest # 0
    /\ \A t \in Tasks : task[t].pc = "idle" \/ Ended(t)
    /\ manifest' = 0
    /\ process' = NoProcess /\ in_flight' = FALSE
    /\ UNCHANGED <<directory, deaths, queue, holder, tasks>>

\* execute: a request of its own number, and the wait for the slot.
Asks(t) ==
    /\ manifest # 0 /\ task[t].pc = "idle" /\ packets > 0
    /\ packets' = packets - 1
    /\ task' = [task EXCEPT ![t].pc = "waiting"]
    /\ queue' = Append(queue, t)
    /\ UNCHANGED <<directory, deaths, manifest, process, in_flight, holder>>

Turn(t) ==
    /\ holder = NoTask /\ queue # <<>> /\ Head(queue) = t
    /\ holder' = t /\ queue' = Tail(queue)

\* Mistake: a process left with an answer to come is used again.
LocksAnyway(t) ==
    /\ Turn(t)
    /\ task' = [task EXCEPT ![t].pc = IF process.version = 0 THEN "spawn" ELSE "send"]
    /\ in_flight' = FALSE
    /\ UNCHANGED <<directory, deaths, manifest, process, packets>>

\* A request cancelled half way left the process with an answer to come.
Locks(t) ==
    /\ Turn(t)
    /\ process' = IF in_flight THEN NoProcess ELSE process
    /\ in_flight' = FALSE
    /\ task' = [task EXCEPT ![t].pc = IF process'.version = 0 THEN "spawn" ELSE "send"]
    /\ UNCHANGED <<directory, deaths, manifest, packets>>

Releases(t, pc, why) ==
    /\ task' = [task EXCEPT ![t].pc = pc, ![t].why = why]
    /\ holder' = NoTask

\* The program that is in the directory now starts, or there is none.
Spawns(t) ==
    /\ holder = t /\ task[t].pc = "spawn"
    /\ IF Installed
       THEN /\ process' = [version |-> target.version, alive |-> TRUE, lines |-> <<>>]
            /\ task' = [task EXCEPT ![t].pc = "describe"]
            /\ UNCHANGED holder
       ELSE Releases(t, "failed", "start") /\ UNCHANGED process
    /\ UNCHANGED <<directory, deaths, manifest, in_flight, queue, packets>>

\* It describes itself under its id; otherwise, or too late, it is killed.
Describes(t) ==
    /\ holder = t /\ task[t].pc = "describe"
    /\ \/ /\ process.alive
          /\ task' = [task EXCEPT ![t].pc = "send"] /\ UNCHANGED <<process, holder>>
       \/ Releases(t, "failed", "start") /\ process' = NoProcess
    /\ UNCHANGED <<directory, deaths, manifest, in_flight, queue, packets>>

Sends(t) ==
    /\ holder = t /\ task[t].pc = "send"
    /\ task' = [task EXCEPT ![t].pc = "read"]
    /\ in_flight' = TRUE
    /\ process' = [process EXCEPT !.lines = Append(@, [request |-> t, answered |-> FALSE])]
    /\ UNCHANGED <<directory, deaths, manifest, queue, holder, packets>>

\* The plugin answers its requests in order, or dies.
Pending == {i \in DOMAIN process.lines : ~process.lines[i].answered}

PluginAnswers ==
    /\ process.alive /\ Pending # {}
    /\ LET first == CHOOSE i \in Pending : \A j \in Pending : i <= j IN
       process' = [process EXCEPT !.lines[first].answered = TRUE]
    /\ UNCHANGED <<directory, deaths, manifest, in_flight, queue, holder, tasks>>

PluginDies ==
    /\ process.alive /\ deaths < MaxDeaths
    /\ deaths' = deaths + 1
    /\ process' = [process EXCEPT !.alive = FALSE]
    /\ UNCHANGED <<directory, manifest, in_flight, queue, holder, tasks>>

\* transact reads one line: it must be of this protocol and of this request.
Reads(t) ==
    /\ holder = t /\ task[t].pc = "read"
    /\ process.lines # <<>> /\ Head(process.lines).answered
    /\ in_flight' = FALSE
    /\ IF Head(process.lines).request = t
       THEN /\ Releases(t, "answered", "own")
            /\ process' = [process EXCEPT !.lines = Tail(@)]
       ELSE Releases(t, "failed", "other") /\ process' = NoProcess
    /\ UNCHANGED <<directory, deaths, manifest, queue, packets>>

\* A plugin that is gone, or whose line is too long, no JSON or of another protocol.
ReadFails(t) ==
    /\ holder = t /\ task[t].pc = "read"
    /\ ~process.alive \/ (process.lines # <<>> /\ Head(process.lines).answered)
    /\ Releases(t, "failed", "gone") /\ process' = NoProcess /\ in_flight' = FALSE
    /\ UNCHANGED <<directory, deaths, manifest, queue, packets>>

\* Mistake: the wait for the answer has no limit.
TimesOutSending(t) ==
    /\ holder = t /\ task[t].pc = "send"
    /\ Releases(t, "failed", "time") /\ process' = NoProcess /\ in_flight' = FALSE
    /\ UNCHANGED <<directory, deaths, manifest, queue, packets>>

TimesOut(t) ==
    /\ holder = t /\ task[t].pc = "read"
    /\ Releases(t, "failed", "time") /\ process' = NoProcess /\ in_flight' = FALSE
    /\ UNCHANGED <<directory, deaths, manifest, queue, packets>>

\* The engine's own timeout drops the call wherever it waits.
Cancels(t) ==
    \/ /\ task[t].pc = "waiting" /\ holder # t
       /\ task' = [task EXCEPT ![t].pc = "cancelled"]
       /\ queue' = SelectSeq(queue, LAMBDA other : other # t)
       /\ UNCHANGED <<directory, deaths, manifest, process, in_flight, holder, packets>>
    \/ /\ holder = t /\ task[t].pc \in {"describe", "read"}
       /\ Releases(t, "cancelled", "none")
       /\ process' = IF task[t].pc = "describe" THEN NoProcess ELSE process
       /\ UNCHANGED <<directory, deaths, manifest, in_flight, queue, packets>>

-----------------------------------------------------------------------------

PluginInit ==
    /\ target \in {Nothing} \cup {[version |-> v, pieces |-> [n \in 1 .. FilesOf[v] + 2 |-> "right"]] : v \in Versions}
    /\ command = [o \in Operators |-> NoCommand]
    /\ \E usage \in Usages : commands = usage.commands /\ packets = usage.packets
    /\ faults = 0 /\ deaths = 0
    /\ expected = Installed /\ accident = FALSE
    /\ manifest = 0
    /\ process = NoProcess /\ in_flight = FALSE /\ queue = <<>> /\ holder = NoTask
    /\ task = [t \in Tasks |-> [pc |-> "idle", why |-> "none"]]

Steps(t) ==
    Locks(t) \/ Spawns(t) \/ Describes(t) \/ Sends(t) \/ Reads(t) \/ ReadFails(t) \/ TimesOut(t)

PluginNext ==
    \/ \E o \in Operators :
          \/ GivesInstall(o) \/ FetchFails(o) \/ Loads(o) \/ InstallStarts(o)
          \/ Downloads(o) \/ Pulls(o) \/ Writes(o) \/ Looks(o) \/ SetsAside(o) \/ Moves(o)
          \/ PutsBack(o) \/ Cleans(o) \/ Removes(o) \/ Killed(o)
    \/ FlowBuilds \/ FlowEnds
    \/ \E t \in Tasks : Asks(t) \/ Steps(t) \/ Cancels(t)
    \/ PluginAnswers \/ PluginDies

\* A task that holds the slot, or is next for it, goes on: tokio polls it, its
\* timer fires, and the mutex is handed over in order.  Nothing is assumed of
\* the plugin or of the operators.
PluginFairness == \A t \in Tasks : WF_pluginVars(Steps(t))

PluginSpec == PluginInit /\ [][PluginNext]_pluginVars /\ PluginFairness

-----------------------------------------------------------------------------

\* Whatever commands interleave, fail or are killed, what is installed has every
\* file of one version, each with the bytes the catalog names, its manifest and
\* its record (install writes them one by one in a directory of its own, and
\* renames it in place once they are all there).
InstalledIsWhole == Installed => Complete(target)

\* An installed plugin stays there, or is set aside by an install that is
\* about to put one in its place, until it is removed: commands that interleave
\* or fail lose none.  Only one killed then, or a second failure, may.
InstalledStays ==
    expected /\ ~accident => Installed \/ \E o \in Operators : HeldAside(o)

\* An installed plugin is whole, and stays.
InstallsAreSafe == InstalledIsWhole /\ InstalledStays

\* No request fails over an answer meant for another, whatever was cancelled
\* before it: the next call replaces a process with an answer to come.
AnswersAreOwn == \A t \in Tasks : task[t].why # "other"

\* A call ends whatever the plugin does, hang included, and however many wait
\* behind it: every wait on the plugin has its timeout.
EveryCallEnds == \A t \in Tasks : task[t].pc = "waiting" ~> Ended(t)

=============================================================================
