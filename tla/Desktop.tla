------------------------------- MODULE Desktop -------------------------------
(***************************************************************************)
(* The desktop application and the engine it runs beside itself            *)
(* (apps/jaiba-ui/src-tauri/src/sidecar.rs, lib.rs): the mode it keeps in  *)
(* a file, the child process, and the port where any engine may answer.    *)
(* Its commands run one at a time on the application's main thread; the    *)
(* processes and the port change under them.                               *)
(***************************************************************************)
EXTENDS Naturals

CONSTANTS
    MaxSpawns,     \* engines the application starts
    MaxOpenings,   \* times it is opened
    MaxCommands    \* commands it is given

ASSUME DesktopAssumption == MaxSpawns \in Nat /\ MaxOpenings \in Nat /\ MaxCommands \in Nat

VARIABLES
    app,       \* is the application open
    call,      \* what its main thread is doing
    mode, saved,   \* EngineInner.mode; the mode in the file
    child,     \* EngineInner.child; 0 for none
    waited,    \* the child that start_local waits for; 0 for none
    engine,    \* the engines it has started
    port,      \* who listens on 127.0.0.1:9090
    orphans,   \* engines whose application was killed
    openings, orders, spawns

desktopVars == <<app, call, mode, saved, child, waited, engine, port, orphans, openings, orders, spawns>>
counters == <<openings, orders, spawns>>

Modes == {"local", "remote"}
Engines == 1 .. MaxSpawns
Living(p) == engine[p] \in {"booting", "serving"}
Free == 0
Somebody == MaxSpawns + 1

\* engine_healthy: an engine that is slow to answer counts as none.
Healthy == IF port = Free THEN {FALSE} ELSE BOOLEAN

\* kill and wait.
Kills(p) ==
    /\ engine' = IF p = 0 THEN engine ELSE [engine EXCEPT ![p] = "gone"]
    /\ port' = IF p # 0 /\ port = p THEN Free ELSE port

\* save_mode: a write that fails may leave the file empty.
Saves(m) == saved' = m
SaveIgnored(m) == saved' \in {m, saved, "none"}

CallEnds == call' = "none"

-----------------------------------------------------------------------------
(* The application.                                                         *)

\* setup: JAIBA_ENGINE_MODE, or the file, or remote; local starts an engine.
Opens ==
    /\ app = "closed" /\ openings < MaxOpenings
    /\ openings' = openings + 1
    /\ app' = "open"
    /\ \E override \in Modes \cup {"none"} :
          mode' = IF override # "none" THEN override
                  ELSE IF saved # "none" THEN saved ELSE "remote"
    /\ call' = IF mode' = "local" THEN "start" ELSE "none"
    /\ child' = 0
    /\ UNCHANGED <<saved, waited, engine, port, orphans, orders, spawns>>

Order == app = "open" /\ call = "none" /\ orders < MaxCommands /\ orders' = orders + 1

\* set_mode(Remote): nothing happens if the mode cannot be saved.
GoesRemote ==
    /\ Order
    /\ \/ /\ Saves("remote") /\ mode' = "remote"
          /\ Kills(child) /\ child' = 0
       \/ saved' \in {saved, "none"} /\ UNCHANGED <<mode, child, engine, port>>
    /\ UNCHANGED <<app, call, waited, orphans, openings, spawns>>

\* set_mode(Local) and start_local_engine.
GoesLocal ==
    /\ Order
    /\ \/ Saves("local") /\ mode' = "local" /\ call' = "start"
       \/ saved' \in {saved, "none"} /\ UNCHANGED <<mode, call>>
    /\ UNCHANGED <<app, child, waited, engine, port, orphans, openings, spawns>>

StopsLocal ==
    /\ Order
    /\ Kills(child) /\ child' = 0
    /\ UNCHANGED <<app, call, mode, saved, waited, orphans, openings, spawns>>

\* reap_if_exited.
Reaped == IF child # 0 /\ engine[child] = "gone" THEN 0 ELSE child

AsksStatus ==
    /\ Order
    /\ child' = Reaped
    /\ UNCHANGED <<app, call, mode, saved, waited, engine, port, orphans, openings, spawns>>

\* resolve_jaiba_binary and resolve_flow_path: a file that JAIBA_BIN or JAIBA_FLOW
\* names must be there; without the variable it is one of the usual places, PATH
\* for the binary, and a copy of the built-in flow if it can be written.
Resolutions == [named : {"unset", "there", "missing"}, usual : BOOLEAN, other : BOOLEAN]
BinaryResolves(r) == IF r.named = "unset" THEN r.usual \/ r.other ELSE r.named = "there"
FlowResolves(r) == IF r.named = "unset" THEN r.usual \/ r.other ELSE r.named = "there"

Spawn ==
    /\ spawns < MaxSpawns
    /\ spawns' = spawns + 1
    /\ engine' = [engine EXCEPT ![spawns + 1] = "booting"]
    /\ waited' = spawns + 1
    /\ call' = "wait"

\* Mistake: a child that is alive is not looked at, only the port.
StartsBeside ==
    /\ call = "start"
    /\ child' = Reaped
    /\ \/ TRUE \in Healthy /\ mode' = "local" /\ SaveIgnored("local") /\ CallEnds
          /\ UNCHANGED <<engine, waited, spawns>>
       \/ FALSE \in Healthy /\ Spawn /\ UNCHANGED <<mode, saved>>
    /\ UNCHANGED <<app, port, orphans, openings, orders>>

\* start_local: a child that has not exited is the engine; without a binary or
\* a flow it gives up; an engine that answers on the port is used as it is; and
\* otherwise one is started, whoever holds the port.
Starts ==
    /\ call = "start"
    /\ child' = Reaped
    /\ \/ child' # 0 /\ CallEnds /\ UNCHANGED <<mode, saved, engine, waited, spawns>>
       \/ /\ child' = 0
          /\ \E binary, flow \in Resolutions : ~(BinaryResolves(binary) /\ FlowResolves(flow))
          /\ CallEnds /\ UNCHANGED <<mode, saved, engine, waited, spawns>>
       \/ /\ child' = 0 /\ TRUE \in Healthy
          /\ mode' = "local" /\ SaveIgnored("local") /\ CallEnds
          /\ UNCHANGED <<engine, waited, spawns>>
       \/ child' = 0 /\ FALSE \in Healthy /\ Spawn /\ UNCHANGED <<mode, saved>>
    /\ UNCHANGED <<app, port, orphans, openings, orders>>

\* wait_for_engine: any engine that answers on the port ends the wait...
EngineAnswers ==
    /\ call = "wait" /\ TRUE \in Healthy
    /\ child' = waited /\ waited' = 0
    /\ mode' = "local" /\ SaveIgnored("local")
    /\ CallEnds
    /\ UNCHANGED <<app, engine, port, orphans, counters>>

\* ... and after 45 seconds without one the child is killed.
WaitsTooLong ==
    /\ call = "wait"
    /\ Kills(waited) /\ waited' = 0
    /\ CallEnds
    /\ UNCHANGED <<app, mode, saved, child, orphans, counters>>

\* RunEvent::ExitRequested and Exit.
Quits ==
    /\ app = "open" /\ call = "none"
    /\ app' = "closed"
    /\ Kills(child) /\ child' = 0
    /\ UNCHANGED <<call, mode, saved, waited, orphans, counters>>

\* The application is killed, in a wait or not: nobody stops its engine.
AppKilled ==
    /\ app = "open"
    /\ app' = "closed" /\ CallEnds
    /\ orphans' = orphans \cup {p \in Engines : Living(p)}
    /\ child' = 0 /\ waited' = 0
    /\ UNCHANGED <<mode, saved, engine, port, counters>>

-----------------------------------------------------------------------------
(* The engines and the port.                                                *)

\* `jaiba serve` listens, or ends because somebody else does.
Listens(p) ==
    /\ engine[p] = "booting"
    /\ IF port = Free
       THEN engine' = [engine EXCEPT ![p] = "serving"] /\ port' = p
       ELSE engine' = [engine EXCEPT ![p] = "gone"] /\ UNCHANGED port
    /\ UNCHANGED <<app, call, mode, saved, child, waited, orphans, counters>>

EngineEnds(p) ==
    /\ Living(p) /\ Kills(p)
    /\ UNCHANGED <<app, call, mode, saved, child, waited, orphans, counters>>

\* An engine that the application knows nothing of comes and goes.
OtherEngine ==
    /\ \/ port = Free /\ port' = Somebody
       \/ port = Somebody /\ port' = Free
    /\ UNCHANGED <<app, call, mode, saved, child, waited, engine, orphans, counters>>

-----------------------------------------------------------------------------

DesktopInit ==
    /\ app = "closed" /\ call = "none"
    /\ mode = "remote" /\ saved \in Modes \cup {"none"}
    /\ child = 0 /\ waited = 0
    /\ engine = [p \in Engines |-> "none"]
    /\ port = Free
    /\ orphans = {}
    /\ openings = 0 /\ orders = 0 /\ spawns = 0

DesktopNext ==
    \/ Opens \/ GoesRemote \/ GoesLocal \/ StopsLocal \/ AsksStatus
    \/ Starts \/ EngineAnswers \/ WaitsTooLong \/ Quits \/ AppKilled
    \/ \E p \in Engines : Listens(p) \/ EngineEnds(p)
    \/ OtherEngine

DesktopSpec == DesktopInit /\ [][DesktopNext]_desktopVars

-----------------------------------------------------------------------------

\* "Al salir de la app se detiene el hijo": an engine the application started is
\* its child, or the one it waits for, as long as it lives, so that remote mode,
\* stop and exit leave none behind, whatever died or answered meanwhile.  Only
\* killing the application makes an orphan.
EnginesOwned ==
    /\ \A p \in Engines : Living(p) /\ p \notin orphans => p \in {child, waited}
    /\ app = "closed" \/ (mode = "remote" /\ call = "none") => child = 0 /\ waited = 0

=============================================================================
