---------------------------- MODULE ToolsProofs ----------------------------
(***************************************************************************)
(* Proofs about four tools, each by itself: the desktop application and    *)
(* its engine, the installer of the Oracle client, the plugins, and the    *)
(* loading of a flow; for any number of commands, processes, failures and  *)
(* requests, and any set of manifests.                                     *)
(***************************************************************************)
EXTENDS Plugins, OracleClient, Desktop, FlowLoading, FoldProofs, TLAPS

(* The desktop application. *)

DesktopTypeOK ==
  /\ app \in {"open", "closed"} /\ call \in {"none", "start", "wait"}
  /\ mode \in Modes /\ saved \in Modes \cup {"none"}
  /\ child \in 0 .. MaxSpawns /\ waited \in 0 .. MaxSpawns
  /\ engine \in [Engines -> {"none", "booting", "serving", "gone"}]
  /\ port \in 0 .. Somebody /\ orphans \subseteq Engines
  /\ openings \in Nat /\ orders \in Nat /\ spawns \in 0 .. MaxSpawns

\* Of the child and the one that is waited for there is one at most; neither
\* outlasts what it is for: the wait, local mode, the application itself.
OneAtATime ==
  /\ waited # 0 <=> call = "wait"
  /\ waited # 0 => child = 0
  /\ call # "none" => app = "open" /\ mode = "local"
  /\ app = "closed" \/ mode = "remote" => child = 0

OwnedInv ==
  /\ DesktopTypeOK
  /\ OneAtATime
  /\ \A p \in Engines : Living(p) /\ p \notin orphans => p \in {child, waited}

\* Nothing has been started yet.
LEMMA DesktopStarts == DesktopInit => OwnedInv
BY DesktopAssumption DEF DesktopInit, OwnedInv, DesktopTypeOK, OneAtATime, Modes, Engines, Living, Free, Somebody

\* What a kill does to the engines and the port.
LEMMA KillsOne ==
  ASSUME DesktopTypeOK, NEW p \in 0 .. MaxSpawns, Kills(p)
  PROVE  /\ engine' \in [Engines -> {"none", "booting", "serving", "gone"}]
         /\ port' \in 0 .. Somebody
         /\ \A q \in Engines : engine'[q] = IF q = p THEN "gone" ELSE engine[q]
BY DesktopAssumption DEF DesktopTypeOK, Kills, Engines, Free, Somebody

\* Each step of the application, of an engine or of another program.
LEMMA DesktopStep == OwnedInv /\ [DesktopNext]_desktopVars => OwnedInv'
<1> SUFFICES ASSUME OwnedInv, [DesktopNext]_desktopVars PROVE OwnedInv'
  OBVIOUS
<1> USE DesktopAssumption DEF OwnedInv, DesktopTypeOK, OneAtATime, Living, Modes, counters
<1>1. CASE Opens
  BY <1>1 DEF Opens
<1>2. CASE GoesRemote
  <2>1. CASE Kills(child)
    BY <1>2, <2>1, KillsOne DEF GoesRemote, Order, Saves
  <2>2. CASE UNCHANGED <<mode, child, engine, port>>
    BY <1>2, <2>2 DEF GoesRemote, Order, Saves
  <2>. QED BY <1>2, <2>1, <2>2 DEF GoesRemote
<1>3. CASE GoesLocal
  BY <1>3 DEF GoesLocal, Order, Saves
<1>4. CASE StopsLocal
  BY <1>4, KillsOne DEF StopsLocal, Order
<1>5. CASE AsksStatus
  BY <1>5 DEF AsksStatus, Order, Reaped, Engines
<1>6. CASE Starts
  <2>1. child' \in 0 .. MaxSpawns /\ child' \in {0, child} /\ (child # 0 /\ child' = 0 => engine[child] = "gone")
    BY <1>6 DEF Starts, Reaped
  <2>2. CASE Spawn /\ child' = 0
    <3>1. /\ spawns' \in 0 .. MaxSpawns /\ waited' = spawns' /\ waited' # 0 /\ call' = "wait"
          /\ engine' = [engine EXCEPT ![waited'] = "booting"]
      BY <1>6, <2>2 DEF Starts, Spawn
    <3>2. \A q \in Engines : q # waited' => engine'[q] = engine[q]
      BY <3>1
    <3>. QED BY <1>6, <2>1, <2>2, <3>1, <3>2 DEF Starts, Spawn, Engines
  <2>3. CASE CallEnds /\ UNCHANGED <<engine, waited, spawns>>
    BY <1>6, <2>1, <2>3 DEF Starts, CallEnds, SaveIgnored
  <2>. QED BY <1>6, <2>2, <2>3 DEF Starts
<1>7. CASE EngineAnswers
  BY <1>7 DEF EngineAnswers, SaveIgnored, CallEnds
<1>8. CASE WaitsTooLong
  BY <1>8, KillsOne DEF WaitsTooLong, CallEnds
<1>9. CASE Quits
  BY <1>9, KillsOne DEF Quits
<1>10. CASE AppKilled
  BY <1>10 DEF AppKilled, CallEnds
<1>11. ASSUME NEW p \in Engines, Listens(p) PROVE OwnedInv'
  BY <1>11 DEF Listens, Free, Engines, Somebody
<1>12. ASSUME NEW p \in Engines, EngineEnds(p) PROVE OwnedInv'
  BY <1>12, KillsOne DEF EngineEnds, Engines
<1>13. CASE OtherEngine
  BY <1>13 DEF OtherEngine, Free, Somebody
<1>14. CASE UNCHANGED desktopVars
  BY <1>14 DEF desktopVars
<1>. QED
  BY <1>1, <1>2, <1>3, <1>4, <1>5, <1>6, <1>7, <1>8, <1>9, <1>10, <1>11, <1>12, <1>13, <1>14 DEF DesktopNext

\* An engine that the application started is its child or the one it waits for,
\* and there is neither in remote mode, after a stop or after the exit
\* (sidecar.rs: set_mode, start_local, wait_for_engine, stop).
THEOREM EnginesAreOwned == DesktopSpec => []EnginesOwned
<1>1. OwnedInv => EnginesOwned
  BY DEF OwnedInv, OneAtATime, EnginesOwned
<1>. QED BY <1>1, DesktopStarts, DesktopStep, PTL DEF DesktopSpec

----------------------------------------------------------------------------
(* The Oracle client. *)

InstallerPCs == {"idle", "check", "download", "extract", "describe", "displace", "place", "remove"}
InstallerStates ==
  [pc : InstallerPCs, force : BOOLEAN, archive : SUBSET Package,
   new : 0 .. extracted, previous : 0 .. extracted]

ClientTypeOK ==
  /\ client \in 0 .. extracted /\ extracted \in 0 .. MaxDirectories
  /\ content \in [Directories -> SUBSET Files]
  /\ installer \in [Installers -> InstallerStates]
  /\ removals \in Nat /\ accidents \in Nat
  /\ program \in [Programs -> [pc : {"off", "bare", "pointed", "loaded"}, from : 0 .. extracted]]
  /\ touched \subseteq 1 .. extracted /\ owed \in BOOLEAN

\* An install works on a directory of its own: nobody else's new one, not the
\* client, not what another has set aside, and nothing a removal has opened.
Staged(o) == PC(o) \in {"describe", "displace", "place"}
FreshInv ==
  \A o \in Installers : Staged(o) =>
    /\ installer[o].new # 0 /\ installer[o].new # client /\ installer[o].new \notin touched
    /\ \A q \in Installers : installer[q].previous # installer[o].new
    /\ \A q \in Installers \ {o} : Staged(q) => installer[q].new # installer[o].new

\* A directory that has once been the client is whole, or a removal empties it.
Sound(d) == d \in {0} \cup touched \/ Whole(d)
ContentInv ==
  /\ Sound(client)
  /\ \A p \in Programs : Sound(program[p].from)
  /\ \A o \in Installers :
       /\ PC(o) = "extract" => installer[o].archive = Package
       /\ PC(o) = "describe" => Package \subseteq content[installer[o].new]
       /\ PC(o) \in {"displace", "place"} => Whole(installer[o].new)
       /\ PC(o) = "place" => Sound(installer[o].previous)
       /\ PC(o) = "remove" => installer[o].previous \in touched

\* The client that is owed is not the one that a removal empties.
OwedInv == ClientSurvives /\ (owed => client \notin touched)

ClientInv == ClientTypeOK /\ FreshInv /\ ContentInv /\ OwedInv

\* There is no client yet, and nobody has begun anything.
LEMMA ClientStarts == ClientInit => ClientInv
<1> SUFFICES ASSUME ClientInit PROVE ClientInv
  OBVIOUS
<1> USE OracleClientAssumption DEF ClientInit
<1>1. NoInstaller \in InstallerStates /\ NoInstaller.pc = "idle"
  BY DEF NoInstaller, InstallerStates, InstallerPCs
<1>2. ClientTypeOK
  <2>1. extracted \in 0 .. MaxDirectories /\ client \in 0 .. extracted
    OBVIOUS
  <2>2. program \in [Programs -> [pc : {"off", "bare", "pointed", "loaded"}, from : 0 .. extracted]]
    OBVIOUS
  <2>. QED BY <1>1, <2>1, <2>2 DEF ClientTypeOK
<1>3. \A o \in Installers : PC(o) = "idle"
  BY <1>1 DEF PC
<1>. QED
  BY <1>2, <1>3 DEF ClientInv, FreshInv, Staged, ContentInv, Sound, OwedInv, ClientSurvives

\* A program starts, loads the client or stops.
LEMMA ProgramStep ==
  ASSUME ClientInv, NEW p \in Programs, Launches(p) \/ Initializes(p) \/ Stops(p)
  PROVE  ClientInv'
<1>1. PICK s \in [pc : {"off", "bare", "pointed", "loaded"}, from : 0 .. extracted] :
         /\ program' = [program EXCEPT ![p] = s]
         /\ s.from \in {0, client, program[p].from}
  <2>1. CASE Launches(p)
    <3> DEFINE s == [program[p] EXCEPT !.pc = IF Reported = 0 THEN "bare" ELSE "pointed"]
    <3>1. s \in [pc : {"off", "bare", "pointed", "loaded"}, from : 0 .. extracted] /\ s.from = program[p].from
      BY DEF ClientInv, ClientTypeOK
    <3>2. program' = [program EXCEPT ![p] = s]
      BY <2>1 DEF Launches
    <3> HIDE DEF s
    <3>. QED BY <3>1, <3>2
  <2>2. CASE Initializes(p)
    <3> DEFINE s == [pc |-> "loaded", from |-> client]
    <3>1. s \in [pc : {"off", "bare", "pointed", "loaded"}, from : 0 .. extracted] /\ s.from = client
      BY DEF ClientInv, ClientTypeOK
    <3>2. program' = [program EXCEPT ![p] = s]
      BY <2>2 DEF Initializes
    <3> HIDE DEF s
    <3>. QED BY <3>1, <3>2
  <2>3. CASE Stops(p)
    <3> DEFINE s == [pc |-> "off", from |-> 0]
    <3>1. s \in [pc : {"off", "bare", "pointed", "loaded"}, from : 0 .. extracted] /\ s.from = 0
      BY DEF ClientInv, ClientTypeOK
    <3>2. program' = [program EXCEPT ![p] = s]
      BY <2>3 DEF Stops
    <3> HIDE DEF s
    <3>. QED BY <3>1, <3>2
  <2>. QED BY <2>1, <2>2, <2>3
<1>2. UNCHANGED <<client, content, extracted, installer, removals, accidents, touched, owed>>
  BY DEF Launches, Initializes, Stops
<1>3. ClientTypeOK'
  BY <1>1, <1>2 DEF ClientInv, ClientTypeOK, InstallerStates
<1>4. \A q \in Programs : program'[q].from \in {0, client, program[q].from}
  BY <1>1 DEF ClientInv, ClientTypeOK
<1>5. FreshInv' /\ OwedInv'
  BY <1>2 DEF ClientInv, FreshInv, Staged, OwedInv, ClientSurvives, PC
<1>6. ContentInv'
  BY <1>2, <1>4 DEF ClientInv, ContentInv, Sound, Whole, PC
<1>. QED BY <1>3, <1>5, <1>6 DEF ClientInv

\* What the steps before the extraction keep: nothing is staged yet.
LEMMA EarlyStep ==
  ASSUME ClientInv, NEW o \in Installers, Given(o) \/ Prepares(o) \/ Fetches(o)
  PROVE  ClientInv'
<1>1. /\ PC(o) \notin {"place", "remove"}
      /\ UNCHANGED <<client, content, extracted, removals, accidents, program, touched, owed>>
  BY DEF Given, Prepares, Fetches
<1>2. installer[o] \in InstallerStates
  BY DEF ClientInv, ClientTypeOK
<1> DEFINE after == installer'[o]
<1>3. /\ installer' \in [Installers -> InstallerStates]
      /\ \A q \in Installers \ {o} : installer'[q] = installer[q]
      /\ after.pc \in {"idle", "check", "download", "extract"}
      /\ after.previous \in {0, installer[o].previous}
      /\ after.pc = "extract" => after.archive = Package
  <2>1. CASE Given(o)
    <3>1. PICK force \in BOOLEAN : installer' = [installer EXCEPT ![o] = [NoInstaller EXCEPT !.pc = "check", !.force = force]]
      BY <2>1 DEF Given
    <3>2. NoInstaller \in InstallerStates /\ NoInstaller.previous = 0
      BY DEF NoInstaller, InstallerStates, InstallerPCs, ClientInv, ClientTypeOK
    <3>. QED BY <3>1, <3>2 DEF InstallerStates, InstallerPCs, ClientInv, ClientTypeOK
  <2>2. CASE Returns(o)
    BY <2>2 DEF Returns, NoInstaller, InstallerStates, InstallerPCs, ClientInv, ClientTypeOK
  <2>3. CASE Prepares(o) /\ Turns(o, "download")
    <3>1. installer' = [installer EXCEPT ![o] = [installer[o] EXCEPT !.pc = "download"]]
      BY <2>3 DEF Turns
    <3>. QED BY <1>2, <3>1 DEF InstallerStates, InstallerPCs, ClientInv, ClientTypeOK
  <2>4. CASE Fetched(o, Package)
    <3>1. installer' = [installer EXCEPT ![o] = [installer[o] EXCEPT !.pc = "extract", !.archive = Package]]
      BY <2>4 DEF Fetched
    <3>. QED BY <1>2, <3>1 DEF InstallerStates, InstallerPCs, ClientInv, ClientTypeOK
  <2>. QED BY <2>1, <2>2, <2>3, <2>4 DEF Prepares, Fetches
<1> HIDE DEF after
<1>4. ClientTypeOK'
  BY <1>1, <1>3 DEF ClientInv, ClientTypeOK, InstallerStates
<1>5. FreshInv'
  BY <1>1, <1>3 DEF ClientInv, FreshInv, Staged, PC, after
<1>6. ContentInv'
  BY <1>1, <1>3 DEF ClientInv, ContentInv, Sound, Whole, PC, after
<1>7. OwedInv'
  BY <1>1, <1>3 DEF ClientInv, OwedInv, ClientSurvives, PC, after
<1>. QED BY <1>4, <1>5, <1>6, <1>7 DEF ClientInv

\* What returning, or going on, makes of a command.
LEMMA InstallerMoves ==
  ASSUME ClientTypeOK, NEW o \in Installers
  PROVE  /\ NoInstaller \in InstallerStates /\ NoInstaller.pc = "idle" /\ NoInstaller.previous = 0
         /\ Returns(o) => /\ installer' \in [Installers -> InstallerStates]
                          /\ installer'[o].pc = "idle" /\ installer'[o].previous = 0
                          /\ \A q \in Installers \ {o} : installer'[q] = installer[q]
         /\ \A pc \in InstallerPCs : Turns(o, pc) =>
              /\ installer' \in [Installers -> InstallerStates]
              /\ installer'[o].pc = pc /\ installer'[o].new = installer[o].new
              /\ installer'[o].previous = installer[o].previous
              /\ \A q \in Installers \ {o} : installer'[q] = installer[q]
<1>1. NoInstaller \in InstallerStates /\ NoInstaller.pc = "idle" /\ NoInstaller.previous = 0
  BY DEF NoInstaller, InstallerStates, InstallerPCs, ClientTypeOK
<1>2. installer[o] \in InstallerStates
  BY DEF ClientTypeOK
<1>3. ASSUME NEW pc \in InstallerPCs, Turns(o, pc)
      PROVE  /\ installer' \in [Installers -> InstallerStates]
             /\ installer'[o].pc = pc /\ installer'[o].new = installer[o].new
             /\ installer'[o].previous = installer[o].previous
             /\ \A q \in Installers \ {o} : installer'[q] = installer[q]
  <2>1. installer' = [installer EXCEPT ![o] = [installer[o] EXCEPT !.pc = pc]]
    BY <1>3 DEF Turns
  <2>. QED BY <1>2, <2>1 DEF InstallerStates, ClientTypeOK
<1>. QED BY <1>1, <1>3 DEF Returns, ClientTypeOK

\* A command that returns leaves what is staged to nobody.
LEMMA ReturnStep ==
  ASSUME ClientInv, NEW o \in Installers, Returns(o), accidents' \in Nat,
         UNCHANGED <<client, content, extracted, removals, program, touched>>,
         owed' \in BOOLEAN, owed' => owed, owed' => client # 0 \/ ~(PC(o) = "place" /\ installer[o].previous # 0)
  PROVE  ClientInv'
<1>1. /\ installer' \in [Installers -> InstallerStates]
      /\ installer'[o].pc = "idle" /\ installer'[o].previous = 0
      /\ \A q \in Installers \ {o} : installer'[q] = installer[q]
  BY InstallerMoves DEF ClientInv
<1>2. ClientTypeOK'
  BY <1>1 DEF ClientInv, ClientTypeOK, InstallerStates
<1>3. FreshInv'
  BY <1>1 DEF ClientInv, FreshInv, Staged, PC
<1>4. ContentInv'
  BY <1>1 DEF ClientInv, ContentInv, Sound, Whole, PC
<1>5. OwedInv'
  BY <1>1 DEF ClientInv, OwedInv, ClientSurvives, PC
<1>. QED BY <1>2, <1>3, <1>4, <1>5 DEF ClientInv

\* Extraction makes a directory that nobody has seen.
LEMMA ExtractStep ==
  ASSUME ClientInv, NEW o \in Installers, Extracts(o)
  PROVE  ClientInv'
<1>1. CASE Returns(o) /\ UNCHANGED <<content, extracted>>
  BY <1>1, ReturnStep DEF Extracts, ClientInv, ClientTypeOK
<1>2. CASE /\ extracted' = extracted + 1
           /\ content' = [content EXCEPT ![extracted + 1] = installer[o].archive]
           /\ installer' = [installer EXCEPT ![o].pc = "describe", ![o].new = extracted + 1]
  <2>1. /\ PC(o) = "extract" /\ extracted < MaxDirectories
        /\ UNCHANGED <<client, removals, accidents, program, touched, owed>>
    BY DEF Extracts
  <2>2. /\ installer[o] \in InstallerStates /\ extracted \in Nat /\ client \in 0 .. extracted
        /\ touched \subseteq 1 .. extracted
        /\ \A q \in Installers : installer[q].new \in 0 .. extracted /\ installer[q].previous \in 0 .. extracted
        /\ \A p \in Programs : program[p].from \in 0 .. extracted
    BY OracleClientAssumption DEF ClientInv, ClientTypeOK, InstallerStates
  <2>3. installer' = [installer EXCEPT ![o] = [installer[o] EXCEPT !.pc = "describe", !.new = extracted + 1]]
    BY <1>2
  <2>4. /\ installer'[o].pc = "describe" /\ installer'[o].new = extracted + 1
        /\ installer'[o].previous = installer[o].previous
        /\ \A q \in Installers \ {o} : installer'[q] = installer[q]
    BY <2>2, <2>3 DEF InstallerStates, ClientInv, ClientTypeOK
  <2>5. content'[extracted + 1] = Package /\ \A d \in 0 .. extracted : content'[d] = content[d]
    BY <1>2, <2>1, <2>2, OracleClientAssumption DEF ClientInv, ContentInv, PC, ClientTypeOK, Directories
  <2>6. ClientTypeOK'
    <3>1. installer' \in [Installers -> InstallerStates']
      BY <1>2, <2>2, <2>3 DEF ClientInv, ClientTypeOK, InstallerStates, InstallerPCs
    <3>2. extracted' \in 0 .. MaxDirectories /\ 0 .. extracted \subseteq 0 .. extracted' /\ 1 .. extracted \subseteq 1 .. extracted'
      BY <1>2, <2>1, <2>2, OracleClientAssumption DEF ClientInv, ClientTypeOK
    <3>3. content' \in [Directories -> SUBSET Files]
      BY <1>2, <2>2 DEF ClientInv, ClientTypeOK, InstallerStates, Files
    <3>. QED BY <2>1, <3>1, <3>2, <3>3 DEF ClientInv, ClientTypeOK
  <2>7. FreshInv'
    <3>1. \A q \in Installers : installer'[q].previous = installer[q].previous
      BY <2>4
    <3>2. \A q \in Installers \ {o} : Staged(q)' <=> Staged(q)
      BY <2>4 DEF Staged, PC
    <3>3. extracted + 1 \notin touched /\ extracted + 1 \notin 0 .. extracted
      BY <2>2
    <3>4. ASSUME NEW q \in Installers \ {o}, Staged(q) PROVE installer[q].new # 0 /\ installer'[q].new # extracted + 1
      BY <2>2, <2>4, <3>3, <3>4 DEF ClientInv, FreshInv
    <3>. QED BY <2>1, <2>2, <2>4, <3>1, <3>2, <3>3, <3>4 DEF ClientInv, FreshInv
  <2>8. ContentInv'
    <3>1. Sound(client)' /\ \A p \in Programs : Sound(program[p].from)'
      BY <2>1, <2>2, <2>5 DEF ClientInv, ContentInv, Sound, Whole
    <3>2. ASSUME NEW q \in Installers
          PROVE  /\ PC(q)' = "extract" => installer'[q].archive = Package
                 /\ PC(q)' = "describe" => Package \subseteq content'[installer'[q].new]
                 /\ PC(q)' \in {"displace", "place"} => content'[installer'[q].new] = Files
                 /\ PC(q)' = "place" => \/ installer'[q].previous \in {0} \cup touched'
                                        \/ content'[installer'[q].previous] = Files
                 /\ PC(q)' = "remove" => installer'[q].previous \in touched'
      <4>1. CASE q = o
        BY <2>4, <2>5, <4>1 DEF PC
      <4>2. CASE q # o
        BY <2>1, <2>2, <2>4, <2>5, <4>2 DEF ClientInv, ContentInv, Whole, Sound, PC
      <4>. QED BY <4>1, <4>2
    <3>. QED BY <3>1, <3>2 DEF ContentInv, Sound, Whole
  <2>9. OwedInv'
    BY <2>1, <2>4 DEF ClientInv, OwedInv, ClientSurvives, PC
  <2>. QED BY <2>6, <2>7, <2>8, <2>9 DEF ClientInv
<1>. QED BY <1>1, <1>2 DEF Extracts

\* The manifest completes the new directory.
LEMMA ManifestStep ==
  ASSUME ClientInv, NEW o \in Installers, WritesManifest(o)
  PROVE  ClientInv'
<1>1. CASE Returns(o) /\ Accident /\ UNCHANGED content
  BY <1>1, ReturnStep DEF WritesManifest, Accident, ClientInv, ClientTypeOK
<1>2. CASE /\ content' = [content EXCEPT ![installer[o].new] = @ \cup {"manifest"}]
           /\ Turns(o, "displace") /\ UNCHANGED accidents
  <2>1. /\ PC(o) = "describe"
        /\ UNCHANGED <<client, extracted, removals, program, touched, owed>>
    BY DEF WritesManifest
  <2>2. /\ installer' \in [Installers -> InstallerStates]
        /\ installer'[o].pc = "displace" /\ installer'[o].new = installer[o].new
        /\ installer'[o].previous = installer[o].previous
        /\ \A q \in Installers \ {o} : installer'[q] = installer[q]
    BY <1>2, InstallerMoves DEF ClientInv, InstallerPCs
  <2>3. /\ content' \in [Directories -> SUBSET Files]
        /\ \A d \in Directories : content[d] \subseteq content'[d] /\ (content[d] = Files => content'[d] = Files)
        /\ content'[installer[o].new] = Files
    <3>1. installer[o].new \in Directories /\ Package \subseteq content[installer[o].new]
      BY <2>1, OracleClientAssumption
      DEF ClientInv, ClientTypeOK, InstallerStates, ContentInv, FreshInv, Staged, Directories
    <3>2. content \in [Directories -> SUBSET Files]
      BY DEF ClientInv, ClientTypeOK
    <3>3. content'[installer[o].new] = content[installer[o].new] \cup {"manifest"}
      BY <1>2, <3>1, <3>2
    <3>4. content[installer[o].new] \cup {"manifest"} = Files
      BY <3>1, <3>2 DEF Files, Package
    <3>. QED BY <1>2, <3>1, <3>2, <3>3, <3>4
  <2>4. /\ client \in Directories \cup {0}
        /\ \A q \in Installers : {installer[q].new, installer[q].previous} \subseteq Directories \cup {0}
        /\ \A p \in Programs : program[p].from \in Directories \cup {0}
    BY OracleClientAssumption DEF ClientInv, ClientTypeOK, InstallerStates, Directories
  <2>5. ClientTypeOK'
    BY <1>2, <2>1, <2>2, <2>3 DEF ClientInv, ClientTypeOK, InstallerStates
  <2>6. FreshInv'
    BY <2>1, <2>2 DEF ClientInv, FreshInv, Staged, PC
  <2>7. \A d \in Directories \cup {0} : d \in {0} \cup touched \/ content[d] = Files
                                      => d \in {0} \cup touched' \/ content'[d] = Files
    BY <2>1, <2>3
  <2>8. ContentInv'
    <3>1. Sound(client)' /\ \A p \in Programs : Sound(program[p].from)'
      BY <2>1, <2>4, <2>7 DEF ClientInv, ContentInv, Sound, Whole
    <3>2. ASSUME NEW q \in Installers
          PROVE  /\ PC(q)' = "extract" => installer'[q].archive = Package
                 /\ PC(q)' = "describe" => Package \subseteq content'[installer'[q].new]
                 /\ PC(q)' \in {"displace", "place"} => content'[installer'[q].new] = Files
                 /\ PC(q)' = "place" => \/ installer'[q].previous \in {0} \cup touched'
                                        \/ content'[installer'[q].previous] = Files
                 /\ PC(q)' = "remove" => installer'[q].previous \in touched'
      <4>1. CASE q = o
        BY <2>2, <2>3, <4>1 DEF PC
      <4>2. CASE q # o
        <5>1. installer'[q] = installer[q] /\ PC(q)' = PC(q)
          BY <2>2, <4>2 DEF PC
        <5>2. Staged(q) => installer[q].new \in Directories
          BY <2>4 DEF ClientInv, FreshInv
        <5>. QED BY <2>1, <2>3, <2>4, <2>7, <5>1, <5>2 DEF ClientInv, ContentInv, Staged, Whole, Sound
      <4>. QED BY <4>1, <4>2
    <3>. QED BY <3>1, <3>2 DEF ContentInv, Sound, Whole
  <2>9. OwedInv'
    BY <2>1, <2>2 DEF ClientInv, OwedInv, ClientSurvives, PC
  <2>. QED BY <2>5, <2>6, <2>8, <2>9 DEF ClientInv
<1>. QED BY <1>1, <1>2 DEF WritesManifest

\* The client is set aside, wherever it came from.
LEMMA DisplaceStep ==
  ASSUME ClientInv, NEW o \in Installers, Displaces(o)
  PROVE  ClientInv'
<1>1. CASE client # 0 /\ Returns(o) /\ Accident /\ UNCHANGED client
  BY <1>1, ReturnStep DEF Displaces, Accident, ClientInv, ClientTypeOK
<1>2. CASE /\ installer' = [installer EXCEPT ![o].pc = "place", ![o].previous = client]
           /\ client' = 0 /\ UNCHANGED accidents
  <2>1. /\ PC(o) = "displace"
        /\ UNCHANGED <<content, extracted, removals, program, touched, owed>>
    BY DEF Displaces
  <2>2. installer[o] \in InstallerStates /\ client \in 0 .. extracted
    BY DEF ClientInv, ClientTypeOK
  <2>3. installer' = [installer EXCEPT ![o] = [installer[o] EXCEPT !.pc = "place", !.previous = client]]
    BY <1>2
  <2>4. /\ installer' \in [Installers -> InstallerStates]
        /\ installer'[o].pc = "place" /\ installer'[o].new = installer[o].new
        /\ installer'[o].previous = client
        /\ \A q \in Installers \ {o} : installer'[q] = installer[q]
    BY <2>2, <2>3 DEF InstallerStates, InstallerPCs, ClientInv, ClientTypeOK
  <2>5. ClientTypeOK'
    <3>1. 0 \in 0 .. extracted
      BY OracleClientAssumption DEF ClientInv, ClientTypeOK
    <3>. QED BY <1>2, <2>1, <2>4, <3>1 DEF ClientInv, ClientTypeOK, InstallerStates
  <2>6. FreshInv'
    <3>1. \A q \in Installers : Staged(q)' <=> Staged(q)
      BY <2>1, <2>4 DEF Staged, PC
    <3>2. \A q \in Installers : installer'[q].new = installer[q].new
      BY <2>4
    <3>. QED BY <1>2, <2>1, <2>4, <3>1, <3>2 DEF ClientInv, FreshInv
  <2>7. ContentInv'
    BY <1>2, <2>1, <2>4 DEF ClientInv, ContentInv, Sound, Whole, PC
  <2>8. OwedInv'
    <3>1. touched \subseteq 1 .. extracted
      BY DEF ClientInv, ClientTypeOK
    <3>2. 0 \notin touched
      BY <3>1
    <3>. QED BY <1>2, <2>1, <2>4, <3>2 DEF ClientInv, OwedInv, ClientSurvives, PC
  <2>. QED BY <2>5, <2>6, <2>7, <2>8 DEF ClientInv
<1>. QED BY <1>1, <1>2 DEF Displaces

\* The new client is put in its place, or the previous one back.
LEMMA PlaceStep ==
  ASSUME ClientInv, NEW o \in Installers, Places(o)
  PROVE  ClientInv'
<1>1. /\ PC(o) = "place" /\ Returns(o)
      /\ UNCHANGED <<content, extracted, removals, program, touched>>
  BY DEF Places
<1>2. /\ installer' \in [Installers -> InstallerStates]
      /\ installer'[o].pc = "idle" /\ installer'[o].previous = 0
      /\ \A q \in Installers \ {o} : installer'[q] = installer[q]
  BY <1>1, InstallerMoves DEF ClientInv
<1>3. accidents' \in Nat
  BY DEF Places, PlaceFails, Accident, ClientInv, ClientTypeOK
<1>4. installer[o] \in InstallerStates /\ client \in 0 .. extracted /\ touched \subseteq 1 .. extracted
  BY DEF ClientInv, ClientTypeOK
<1>5. client' \in {client, installer[o].new, installer[o].previous} /\ owed' \in BOOLEAN
  BY DEF Places, PlaceFails, ClientInv, ClientTypeOK
<1>6. ClientTypeOK'
  BY <1>1, <1>2, <1>3, <1>4, <1>5 DEF ClientInv, ClientTypeOK, InstallerStates
<1>7. FreshInv'
  BY <1>1, <1>2, <1>5 DEF ClientInv, FreshInv, Staged, PC
<1>8. ContentInv'
  BY <1>1, <1>2, <1>5 DEF ClientInv, ContentInv, Sound, Whole, PC
<1>9. OwedInv'
  <2>1. CASE client' = installer[o].new /\ owed' = TRUE
    BY <1>1, <2>1 DEF ClientInv, FreshInv, Staged, OwedInv, ClientSurvives
  <2>2. CASE InTheWay /\ UNCHANGED <<client, owed>>
    BY <1>1, <2>2 DEF InTheWay, ClientInv, OwedInv, ClientSurvives
  <2>3. CASE client' = (IF client = 0 THEN installer[o].previous ELSE client) /\ owed' = (owed /\ client' \notin touched)
    <3>1. CASE client' # 0
      BY <1>1, <2>3, <3>1 DEF OwedInv, ClientSurvives
    <3>2. CASE client' = 0 /\ owed
      <4>1. client = 0 /\ installer[o].previous = 0
        BY <2>3, <3>2
      <4>2. PICK q \in Installers : PC(q) = "place" /\ installer[q].previous # 0
        BY <3>2, <4>1 DEF ClientInv, OwedInv, ClientSurvives
      <4>3. q # o /\ PC(q)' = "place" /\ installer'[q].previous # 0
        BY <1>2, <4>1, <4>2 DEF PC
      <4>. QED BY <1>1, <2>3, <4>3 DEF OwedInv, ClientSurvives
    <3>3. CASE ~owed
      BY <2>3, <3>3 DEF OwedInv, ClientSurvives
    <3>. QED BY <3>1, <3>2, <3>3 DEF ClientInv, ClientTypeOK
  <2>4. CASE owed' = FALSE
    BY <2>4 DEF OwedInv, ClientSurvives
  <2>. QED BY <2>1, <2>2, <2>3, <2>4 DEF Places, PlaceFails
<1>. QED BY <1>6, <1>7, <1>8, <1>9 DEF ClientInv

\* A removal opens the client, empties it, and takes its place away.
LEMMA RemovalStep ==
  ASSUME ClientInv, NEW o \in Installers, RemovalBegins(o) \/ RemovesFile(o) \/ RemovalEnds(o)
  PROVE  ClientInv'
<1>1. CASE RemovalBegins(o)
  <2>1. /\ PC(o) = "idle" /\ client # 0 /\ removals' = removals + 1
        /\ touched' = touched \cup {client} /\ owed' = FALSE
        /\ UNCHANGED <<client, content, extracted, accidents, program>>
    BY <1>1 DEF RemovalBegins
  <2>2. installer' = [installer EXCEPT ![o] = [NoInstaller EXCEPT !.pc = "remove", !.previous = client]]
    BY <1>1 DEF RemovalBegins
  <2>3. NoInstaller \in InstallerStates /\ client \in 0 .. extracted /\ extracted \in Nat
    BY InstallerMoves, OracleClientAssumption DEF ClientInv, ClientTypeOK
  <2>4. /\ installer' \in [Installers -> InstallerStates]
        /\ installer'[o].pc = "remove" /\ installer'[o].previous = client
        /\ \A q \in Installers \ {o} : installer'[q] = installer[q]
    BY <2>2, <2>3 DEF InstallerStates, InstallerPCs, ClientInv, ClientTypeOK
  <2>5. ClientTypeOK'
    <3>1. touched' \subseteq 1 .. extracted
      BY <2>1, <2>3 DEF ClientInv, ClientTypeOK
    <3>2. removals' \in Nat
      BY <2>1 DEF ClientInv, ClientTypeOK
    <3>. QED BY <2>1, <2>4, <3>1, <3>2 DEF ClientInv, ClientTypeOK, InstallerStates
  <2>6. FreshInv'
    BY <2>1, <2>4 DEF ClientInv, FreshInv, Staged, PC
  <2>7. ContentInv'
    BY <2>1, <2>4 DEF ClientInv, ContentInv, Sound, Whole, PC
  <2>8. OwedInv'
    BY <2>1 DEF OwedInv, ClientSurvives
  <2>. QED BY <2>5, <2>6, <2>7, <2>8 DEF ClientInv
<1>2. CASE RemovesFile(o)
  <2> DEFINE d == installer[o].previous
  <2>1. /\ PC(o) = "remove"
        /\ UNCHANGED <<client, extracted, installer, removals, accidents, program, touched, owed>>
    BY <1>2 DEF RemovesFile
  <2>2. d \in touched /\ touched \subseteq 1 .. extracted
    BY <2>1 DEF ClientInv, ContentInv, ClientTypeOK
  <2>3. content' \in [Directories -> SUBSET Files] /\ \A e \in Directories \ {d} : content'[e] = content[e]
    BY <1>2 DEF RemovesFile, ClientInv, ClientTypeOK
  <2>4. /\ client \in Directories \cup {0}
        /\ \A q \in Installers : {installer[q].new, installer[q].previous} \subseteq Directories \cup {0}
        /\ \A p \in Programs : program[p].from \in Directories \cup {0}
    BY OracleClientAssumption DEF ClientInv, ClientTypeOK, InstallerStates, Directories
  <2> HIDE DEF d
  <2>5. ClientTypeOK'
    BY <2>1, <2>3 DEF ClientInv, ClientTypeOK, InstallerStates
  <2>6. FreshInv' /\ OwedInv'
    BY <2>1 DEF ClientInv, FreshInv, Staged, OwedInv, ClientSurvives, PC
  <2>7. ContentInv'
    <3>1. Sound(client)' /\ \A p \in Programs : Sound(program[p].from)'
      BY <2>1, <2>2, <2>3, <2>4 DEF ClientInv, ContentInv, Sound, Whole
    <3>2. ASSUME NEW q \in Installers
          PROVE  /\ PC(q)' = "extract" => installer'[q].archive = Package
                 /\ PC(q)' = "describe" => Package \subseteq content'[installer'[q].new]
                 /\ PC(q)' \in {"displace", "place"} => content'[installer'[q].new] = Files
                 /\ PC(q)' = "place" => \/ installer'[q].previous \in {0} \cup touched'
                                        \/ content'[installer'[q].previous] = Files
                 /\ PC(q)' = "remove" => installer'[q].previous \in touched'
      <4>1. Staged(q) => content'[installer[q].new] = content[installer[q].new]
        BY <2>2, <2>3, <2>4 DEF ClientInv, FreshInv
      <4>. QED BY <2>1, <2>2, <2>3, <2>4, <4>1 DEF ClientInv, ContentInv, Whole, Sound, PC, Staged
    <3>. QED BY <3>1, <3>2 DEF ContentInv, Sound, Whole
  <2>. QED BY <2>5, <2>6, <2>7 DEF ClientInv
<1>3. CASE RemovalEnds(o)
  <2>1. /\ PC(o) = "remove" /\ Returns(o) /\ client' \in {client, 0}
        /\ client' # client => client = installer[o].previous
        /\ UNCHANGED <<content, extracted, removals, program, touched, owed>>
    BY <1>3 DEF RemovalEnds
  <2>2. accidents' \in Nat
    BY <1>3 DEF RemovalEnds, Accident, ClientInv, ClientTypeOK
  <2>3. client' # client => ~owed
    BY <2>1 DEF ClientInv, ContentInv, OwedInv
  <2>4. /\ installer' \in [Installers -> InstallerStates]
        /\ installer'[o].pc = "idle" /\ installer'[o].previous = 0
        /\ \A q \in Installers \ {o} : installer'[q] = installer[q]
    BY <2>1, InstallerMoves DEF ClientInv
  <2>5. ClientTypeOK'
    BY <2>1, <2>2, <2>4 DEF ClientInv, ClientTypeOK, InstallerStates
  <2>6. FreshInv'
    BY <2>1, <2>4 DEF ClientInv, FreshInv, Staged, PC
  <2>7. ContentInv'
    BY <2>1, <2>4 DEF ClientInv, ContentInv, Sound, Whole, PC
  <2>8. OwedInv'
    BY <2>1, <2>3, <2>4 DEF ClientInv, OwedInv, ClientSurvives, PC
  <2>. QED BY <2>5, <2>6, <2>7, <2>8 DEF ClientInv
<1>. QED BY <1>1, <1>2, <1>3

\* Every step of every command and program.
LEMMA ClientStep == ClientInv /\ [ClientNext]_clientVars => ClientInv'
<1> SUFFICES ASSUME ClientInv, [ClientNext]_clientVars PROVE ClientInv'
  OBVIOUS
<1>1. ASSUME NEW o \in Installers, InstallerKilled(o) PROVE ClientInv'
  <2>1. owed' \in BOOLEAN /\ (owed' => owed) /\ accidents' \in Nat
    BY <1>1 DEF InstallerKilled, Accident, ClientInv, ClientTypeOK
  <2>. QED BY <1>1, <2>1, ReturnStep DEF InstallerKilled
<1>2. CASE UNCHANGED clientVars
  BY <1>2 DEF clientVars, ClientInv, ClientTypeOK, InstallerStates, FreshInv, Staged, ContentInv, Sound, Whole,
     OwedInv, ClientSurvives, PC
<1>. QED
  BY <1>1, <1>2, EarlyStep, ExtractStep, ManifestStep, DisplaceStep, PlaceStep, RemovalStep, ProgramStep DEF ClientNext

\* Installs and removals that interleave, fail or are killed leave no reported or
\* loaded client half written, and lose none (oracle_client.rs: install, extract,
\* replace, remove).
THEOREM ClientStaysSafe == ClientSpec => []ClientIsSafe
<1>1. ClientInv => ClientIsSafe
  <2>1. Reported \in {0, client}
    BY DEF Reported
  <2>. QED BY <2>1 DEF ClientInv, ContentInv, Sound, OwedInv, ClientIsSafe, ReportedIsWhole
<1>. QED BY <1>1, ClientStarts, ClientStep, PTL DEF ClientSpec

----------------------------------------------------------------------------
(* The plugins: the directory. *)

CommandPCs == {"idle", "load", "check", "download", "write", "look", "aside", "move", "back", "clean"}
Directory == [version : Versions \cup {0}, pieces : Seq(Bytes)]
Commands == [pc : CommandPCs, staged : Directory, backup : Directory]

\* What a command has staged: every piece is right, and their number is what it
\* should be where the command is.
Progress(c) ==
  LET staged == Len(c.staged.pieces)
      files == FilesOf[c.staged.version]
  IN /\ c.staged.version \in Versions
     /\ \A n \in 1 .. staged : c.staged.pieces[n] = "right"
     /\ c.pc \in {"load", "check", "download"} => staged <= files
     /\ c.pc = "write" => staged \in files .. files + 1
     /\ c.pc \in {"look", "aside", "move", "back", "clean"} => staged = files + 2

\* Only a command that is about to move its own in place has set anything aside,
\* and what it set aside is whole.
CommandInv(c) ==
  /\ c.pc # "idle" => Progress(c)
  /\ c.backup # Nothing => c.pc \in {"move", "back", "clean"} /\ Complete(c.backup)
SetAsideBy(c) == c.pc \in {"move", "back"} /\ c.backup # Nothing

\* What is whole was staged piece by piece, by a command that knows where it is.
DirectoryInv ==
  /\ target \in Directory /\ InstalledIsWhole
  /\ command \in [Operators -> Commands]
  /\ \A o \in Operators : CommandInv(command[o])
  /\ expected \in BOOLEAN /\ accident \in BOOLEAN
  /\ InstalledStays

\* A command that is over holds nothing.
LEMMA NoCommandFacts ==
  /\ Nothing \in Directory
  /\ NoCommand \in Commands /\ CommandInv(NoCommand) /\ ~SetAsideBy(NoCommand)
  /\ NoCommand.pc = "idle"
<1>1. <<>> \in Seq(Bytes)
  OBVIOUS
<1>2. Nothing \in Directory
  BY <1>1 DEF Nothing, Directory
<1>3. NoCommand.pc = "idle" /\ NoCommand.backup = Nothing
  BY DEF NoCommand
<1>4. NoCommand \in Commands
  BY <1>2 DEF NoCommand, Commands, CommandPCs
<1>. QED BY <1>2, <1>3, <1>4 DEF CommandInv, SetAsideBy

\* A plugin that is there is not Nothing.
LEMMA CompleteIsThere == ASSUME NEW d, Complete(d) PROVE d # Nothing
BY PluginsAssumption DEF PluginsAssumption, Complete, Nothing

\* At first nobody has given a command.
LEMMA DirectoryStarts == PluginInit => DirectoryInv
<1> SUFFICES ASSUME PluginInit PROVE DirectoryInv
  OBVIOUS
<1>1. ASSUME NEW v \in Versions
      PROVE  LET d == [version |-> v, pieces |-> [n \in 1 .. FilesOf[v] + 2 |-> "right"]]
             IN d \in Directory /\ Complete(d)
  <2> DEFINE pieces == [n \in 1 .. FilesOf[v] + 2 |-> "right"]
  <2>1. FilesOf[v] + 2 \in Nat
    BY PluginsAssumption DEF PluginsAssumption
  <2>2. pieces \in Seq(Bytes) /\ Len(pieces) = FilesOf[v] + 2
    BY <2>1 DEF Bytes
  <2>3. \A n \in 1 .. Len(pieces) : pieces[n] = "right"
    BY <2>2
  <2> HIDE DEF pieces
  <2>. QED BY <2>2, <2>3 DEF Directory, Complete, pieces
<1>2. target \in Directory /\ InstalledIsWhole
  BY <1>1, NoCommandFacts DEF PluginInit, InstalledIsWhole, Installed
<1>3. /\ command = [o \in Operators |-> NoCommand]
      /\ expected = Installed /\ accident = FALSE
  BY DEF PluginInit
<1>. QED BY <1>2, <1>3, NoCommandFacts DEF DirectoryInv, InstalledStays, Installed

\* One command goes on, and the directory with it: what is installed is whole, and
\* there, or set aside by that command, or as it was before.
LEMMA CommandMoves ==
  ASSUME DirectoryInv, NEW o \in Operators, NEW c \in Commands, CommandInv(c),
         command' = [command EXCEPT ![o] = c],
         target' \in Directory, target' # Nothing => Complete(target'),
         expected' \in BOOLEAN, accident' \in BOOLEAN,
         \/ target' # Nothing \/ ~expected' \/ accident' \/ SetAsideBy(c)
         \/ /\ target' = target /\ expected' = expected /\ accident' = accident
            /\ ~SetAsideBy(command[o])
  PROVE  DirectoryInv'
<1>1. /\ command' \in [Operators -> Commands]
      /\ command'[o] = c /\ \A q \in Operators \ {o} : command'[q] = command[q]
  BY DEF DirectoryInv
<1>2. \A q \in Operators : CommandInv(command[q])'
  BY <1>1 DEF DirectoryInv, CommandInv, Progress, Complete
<1>3. InstalledIsWhole'
  BY DEF InstalledIsWhole, Installed, Complete
<1>4. InstalledStays'
  <2>1. SUFFICES ASSUME expected', ~accident', target' = Nothing
                 PROVE  \E q \in Operators : HeldAside(q)'
    BY DEF InstalledStays, Installed
  <2>2. CASE SetAsideBy(c)
    BY <1>1, <2>2 DEF HeldAside, SetAsideBy
  <2>3. CASE target' = target /\ expected' = expected /\ accident' = accident /\ ~SetAsideBy(command[o])
    <3>1. PICK q \in Operators : HeldAside(q)
      BY <2>1, <2>3 DEF DirectoryInv, InstalledStays, Installed
    <3>2. q # o
      BY <2>3, <3>1 DEF HeldAside, SetAsideBy
    <3>. QED BY <1>1, <3>1, <3>2 DEF HeldAside
  <2>. QED BY <2>1, <2>2, <2>3
<1>. QED BY <1>1, <1>2, <1>3, <1>4 DEF DirectoryInv

\* A step of one command that leaves the directory alone.
LEMMA QuietMove ==
  ASSUME DirectoryInv, NEW o \in Operators, NEW c \in Commands, CommandInv(c),
         command' = [command EXCEPT ![o] = c], UNCHANGED <<target, expected, accident>>,
         SetAsideBy(command[o]) => SetAsideBy(c)
  PROVE  DirectoryInv'
<1>1. /\ target' \in Directory /\ (target' # Nothing => Complete(target'))
      /\ expected' \in BOOLEAN /\ accident' \in BOOLEAN
  BY DEF DirectoryInv, InstalledIsWhole, Installed
<1>. QED BY <1>1, CommandMoves

\* A command that only goes on to its next step, where it staged as much.
LEMMA GoesOn ==
  ASSUME DirectoryInv, NEW o \in Operators, NEW pc \in CommandPCs \ {"idle"}, Goes(o, pc),
         command[o].pc # "idle", UNCHANGED <<target, expected, accident>>,
         Progress([command[o] EXCEPT !.pc = pc]),
         command[o].pc \in {"move", "back", "clean"} => pc \in {"move", "back", "clean"},
         SetAsideBy(command[o]) => pc \in {"move", "back"}
  PROVE  DirectoryInv'
<1> DEFINE c == [command[o] EXCEPT !.pc = pc]
<1>1. command[o] \in Commands /\ CommandInv(command[o])
  BY DEF DirectoryInv
<1>2. /\ c \in Commands /\ c.pc = pc
      /\ c.backup = command[o].backup
  BY <1>1 DEF Commands
<1>3. command' = [command EXCEPT ![o] = c]
  BY DEF Goes
<1>4. CommandInv(c)
  BY <1>1, <1>2 DEF CommandInv
<1>5. SetAsideBy(command[o]) => SetAsideBy(c)
  BY <1>2 DEF SetAsideBy
<1> HIDE DEF c
<1>. QED BY <1>2, <1>3, <1>4, <1>5, QuietMove

\* A command that ends while it holds nothing.
LEMMA EndsQuietly ==
  ASSUME DirectoryInv, NEW o \in Operators, Ends(o), UNCHANGED <<target, expected, accident>>,
         ~SetAsideBy(command[o])
  PROVE  DirectoryInv'
BY NoCommandFacts, QuietMove DEF Ends

\* A piece more, with the right bytes.
LEMMA StageStep ==
  ASSUME DirectoryInv, NEW o \in Operators, NEW pc \in {"download", "write", "look"},
         Stages(o, "right", pc), UNCHANGED <<target, expected, accident>>,
         \/ command[o].pc = "download" /\ pc = "download" /\ Missing(o) > 0
         \/ command[o].pc = "write" /\ pc = "write" /\ Missing(o) = 0
         \/ command[o].pc = "write" /\ pc = "look" /\ Missing(o) # 0
  PROVE  DirectoryInv'
<1> DEFINE v == command[o].staged.version
           old == command[o].staged.pieces
           new == Append(old, "right")
           staged == [command[o].staged EXCEPT !.pieces = new]
           c == [command[o] EXCEPT !.pc = pc, !.staged = staged]
<1>1. /\ command[o] \in Commands /\ Progress(command[o]) /\ command[o].backup = Nothing
  BY DEF DirectoryInv, CommandInv
<1>2. /\ v \in Versions /\ old \in Seq(Bytes) /\ FilesOf[v] \in Nat
      /\ command[o].staged \in Directory
  BY <1>1, PluginsAssumption DEF PluginsAssumption, Progress, Commands, Directory
<1>3. /\ new \in Seq(Bytes) /\ Len(new) = Len(old) + 1
      /\ \A n \in 1 .. Len(old) : new[n] = old[n]
      /\ new[Len(old) + 1] = "right"
  BY <1>2 DEF Bytes
<1>4. \A n \in 1 .. Len(new) : new[n] = "right"
  <2>1. \A n \in 1 .. Len(old) : old[n] = "right"
    BY <1>1 DEF Progress
  <2>2. \A n \in 1 .. Len(new) : n \in 1 .. Len(old) \/ n = Len(old) + 1
    BY <1>2, <1>3
  <2>. QED BY <1>3, <2>1, <2>2
<1>5. command' = [command EXCEPT ![o] = c]
  <2>1. command' = [command EXCEPT ![o] =
          [command[o] EXCEPT !.pc = pc, !.staged = [command[o].staged EXCEPT !.pieces = new]]]
    BY DEF Stages
  <2>. QED BY <2>1
<1>6. /\ Len(old) \in Nat
      /\ \/ pc = "download" /\ Len(new) <= FilesOf[v]
         \/ pc = "write" /\ Len(new) = FilesOf[v] + 1
         \/ pc = "look" /\ Len(new) = FilesOf[v] + 2
  <2>1. command[o].pc = "write" => Len(old) \in FilesOf[v] .. FilesOf[v] + 1
    BY <1>1 DEF Progress
  <2>2. Len(old) \in Nat /\ Missing(o) = FilesOf[v] - Len(old)
    BY <1>2 DEF Missing
  <2> HIDE DEF old, new, v
  <2>3. CASE command[o].pc = "download" /\ pc = "download" /\ Missing(o) > 0
    BY <1>2, <1>3, <2>2, <2>3
  <2>4. CASE command[o].pc = "write" /\ pc = "write" /\ Missing(o) = 0
    BY <1>2, <1>3, <2>2, <2>4
  <2>5. CASE command[o].pc = "write" /\ pc = "look" /\ Missing(o) # 0
    BY <1>2, <1>3, <2>1, <2>2, <2>5
  <2>. QED BY <2>2, <2>3, <2>4, <2>5
<1> HIDE DEF new
<1>10. staged \in Directory /\ staged.version = v /\ staged.pieces = new
  BY <1>2, <1>3 DEF Directory
<1> HIDE DEF staged
<1>7. c \in Commands /\ c.pc = pc /\ c.staged = staged /\ c.backup = command[o].backup
  BY <1>1, <1>10 DEF Commands, CommandPCs
<1> HIDE DEF c
<1>8. CommandInv(c)
  <2>1. Progress(c)
    BY <1>2, <1>4, <1>6, <1>7, <1>10 DEF Progress
  <2>. QED BY <1>1, <1>7, <2>1 DEF CommandInv
<1>9. ~SetAsideBy(command[o])
  BY <1>1 DEF SetAsideBy
<1>. QED BY <1>5, <1>7, <1>8, <1>9, QuietMove

\* A command before its commit, and one that cleans up: the directory is not theirs.
LEMMA QuietCommands ==
  ASSUME DirectoryInv, NEW o \in Operators,
         \/ GivesInstall(o) \/ FetchFails(o) \/ Loads(o) \/ InstallStarts(o)
         \/ Downloads(o) \/ Pulls(o) \/ Writes(o) \/ Looks(o) \/ Cleans(o) \/ Removes(o) \/ Killed(o)
  PROVE  DirectoryInv'
<1>0. command[o] \in Commands /\ CommandInv(command[o])
  BY DEF DirectoryInv
<1>1. CASE GivesInstall(o)
  <2>1. PICK v \in Versions : command' = [command EXCEPT ![o] =
          [NoCommand EXCEPT !.pc = "load", !.staged = [version |-> v, pieces |-> <<>>]]]
    BY <1>1 DEF GivesInstall
  <2> DEFINE staged == [version |-> v, pieces |-> <<>>]
             c == [NoCommand EXCEPT !.pc = "load", !.staged = staged]
  <2>2. staged \in Directory /\ staged.version = v /\ Len(staged.pieces) = 0
    <3>1. <<>> \in Seq(Bytes)
      OBVIOUS
    <3>. QED BY <3>1 DEF Directory
  <2>5. command' = [command EXCEPT ![o] = c]
    BY <2>1
  <2> HIDE DEF staged
  <2>3. /\ c \in Commands /\ c.pc = "load" /\ c.staged = staged
        /\ c.backup = Nothing
    <3>1. NoCommand \in Commands /\ NoCommand.backup = Nothing
      BY NoCommandFacts DEF NoCommand
    <3>. QED BY <2>2, <3>1 DEF Commands, CommandPCs
  <2> HIDE DEF c
  <2>4. CommandInv(c)
    BY <2>2, <2>3, PluginsAssumption DEF PluginsAssumption, CommandInv, Progress
  <2>6. ~SetAsideBy(command[o]) /\ UNCHANGED <<target, expected, accident>>
    BY <1>1, NoCommandFacts DEF GivesInstall
  <2>. QED BY <2>3, <2>4, <2>5, <2>6, QuietMove
<1>2. CASE Removes(o)
  <2>1. target' = Nothing /\ expected' = FALSE /\ UNCHANGED <<command, accident>>
    BY <1>2 DEF Removes
  <2>2. command' = [command EXCEPT ![o] = command[o]]
    BY <2>1 DEF DirectoryInv
  <2>3. accident' \in BOOLEAN
    BY <2>1 DEF DirectoryInv
  <2>. QED BY <1>0, <2>1, <2>2, <2>3, NoCommandFacts, CommandMoves
<1>3. CASE Ends(o) /\ (FetchFails(o) \/ Loads(o) \/ InstallStarts(o) \/ Downloads(o) \/ Pulls(o) \/ Writes(o) \/ Cleans(o))
  <2>1. command[o].pc \notin {"move", "back"} /\ UNCHANGED <<target, expected, accident>>
    BY <1>3 DEF FetchFails, Loads, InstallStarts, Downloads, Pulls, Writes, Cleans, Quietly
  <2>. QED BY <1>3, <2>1, EndsQuietly DEF SetAsideBy
<1>4. CASE Killed(o)
  <2>1. Ends(o) /\ UNCHANGED <<target, expected>> /\ accident' = (accident \/ HeldAside(o))
    BY <1>4 DEF Killed
  <2>2. CASE SetAsideBy(command[o])
    <3>1. accident'
      BY <2>1, <2>2 DEF SetAsideBy, HeldAside
    <3>2. accident' \in BOOLEAN
      BY <2>1 DEF DirectoryInv, HeldAside
    <3>. QED BY <2>1, <3>1, <3>2, NoCommandFacts, CommandMoves
             DEF Ends, DirectoryInv, InstalledIsWhole, Installed
  <2>3. CASE ~SetAsideBy(command[o])
    <3>1. accident' = accident
      BY <2>1, <2>3 DEF SetAsideBy, HeldAside, DirectoryInv
    <3>. QED BY <2>1, <2>3, <3>1, EndsQuietly
  <2>. QED BY <2>2, <2>3
<1>5. ASSUME NEW pc \in {"check", "download", "write", "aside", "move"}, Goes(o, pc),
             \/ Loads(o) /\ pc = "check"
             \/ InstallStarts(o) /\ pc = "download"
             \/ Pulls(o) /\ pc = "write"
             \/ Looks(o) /\ pc \in {"aside", "move"}
      PROVE  DirectoryInv'
  <2>1. /\ \/ command[o].pc \in {"load", "check"} /\ pc \in {"check", "download"}
           \/ command[o].pc = "download" /\ Missing(o) = 0 /\ pc = "write"
           \/ command[o].pc = "look" /\ pc \in {"aside", "move"}
        /\ UNCHANGED <<target, expected, accident>>
    BY <1>5 DEF Loads, InstallStarts, Pulls, Looks, Quietly
  <2>2. /\ Progress(command[o]) /\ Len(command[o].staged.pieces) \in Nat
        /\ FilesOf[command[o].staged.version] \in Nat
    <3>1. Progress(command[o])
      BY <1>0, <2>1 DEF CommandInv
    <3>2. Len(command[o].staged.pieces) \in Nat
      BY <1>0 DEF Commands, Directory
    <3>3. FilesOf[command[o].staged.version] \in Nat
      BY <3>1, PluginsAssumption DEF PluginsAssumption, Progress
    <3>. QED BY <3>1, <3>2, <3>3
  <2>3. Progress([command[o] EXCEPT !.pc = pc])
    <3> DEFINE c == [command[o] EXCEPT !.pc = pc]
    <3>1. c.pc = pc /\ c.staged = command[o].staged
      BY <1>0 DEF Commands
    <3> HIDE DEF c
    <3>2. Progress(c)
      BY <2>1, <2>2, <3>1 DEF Progress, Missing
    <3>. QED BY <3>2 DEF c
  <2>4. ~SetAsideBy(command[o])
    BY <2>1 DEF SetAsideBy
  <2>. QED BY <1>5, <2>1, <2>3, <2>4, GoesOn DEF CommandPCs
<1>6. ASSUME NEW bytes, Stages(o, bytes, "download"), Accepts(bytes), Downloads(o)
      PROVE  DirectoryInv'
  <2>1. bytes = "right" /\ command[o].pc = "download" /\ Missing(o) > 0 /\ UNCHANGED <<target, expected, accident>>
    BY <1>6 DEF Accepts, Downloads, Quietly
  <2>. QED BY <1>6, <2>1, StageStep
<1>7. CASE Writes(o) /\ Stages(o, "right", IF Missing(o) = 0 THEN "write" ELSE "look")
  <2>1. command[o].pc = "write" /\ UNCHANGED <<target, expected, accident>>
    BY <1>7 DEF Writes, Quietly
  <2>2. CASE Missing(o) = 0
    BY <1>7, <2>1, <2>2, StageStep
  <2>3. CASE Missing(o) # 0
    BY <1>7, <2>1, <2>3, StageStep
  <2>. QED BY <2>2, <2>3
<1>8. CASE Looks(o)
  BY <1>5, <1>8 DEF Looks
<1>. QED BY <1>1, <1>2, <1>3, <1>4, <1>5, <1>6, <1>7, <1>8
         DEF FetchFails, Loads, InstallStarts, Downloads, Pulls, Writes, Cleans

\* commit sets aside what is there, moves its own in place, or puts back what it
\* set aside.
LEMMA CommitStep ==
  ASSUME DirectoryInv, NEW o \in Operators, SetsAside(o) \/ Moves(o) \/ PutsBack(o)
  PROVE  DirectoryInv'
<1>0. command[o] \in Commands /\ CommandInv(command[o])
  BY DEF DirectoryInv
<1>1. CASE SetsAside(o) /\ Ends(o) /\ UNCHANGED target
  <2>1. command[o].pc = "aside" /\ UNCHANGED <<expected, accident>>
    BY <1>1 DEF SetsAside
  <2>. QED BY <1>1, <2>1, EndsQuietly DEF SetAsideBy
<1>2. CASE /\ SetsAside(o) /\ Installed /\ target' = Nothing
           /\ command' = [command EXCEPT ![o].pc = "move", ![o].backup = target]
  <2> DEFINE c == [command[o] EXCEPT !.pc = "move", !.backup = target]
  <2>1. command[o].pc = "aside" /\ UNCHANGED <<expected, accident>>
    BY <1>2 DEF SetsAside
  <2>2. /\ c \in Commands /\ c.pc = "move" /\ c.backup = target
        /\ c.staged = command[o].staged
    BY <1>0 DEF Commands, DirectoryInv, CommandPCs
  <2>3. command' = [command EXCEPT ![o] = c]
    BY <1>2
  <2> HIDE DEF c
  <2>4. target # Nothing /\ Complete(target)
    BY <1>2 DEF DirectoryInv, InstalledIsWhole, Installed
  <2>5. Progress(command[o])
    BY <1>0, <2>1 DEF CommandInv
  <2>6. CommandInv(c) /\ SetAsideBy(c)
    <3>1. Progress(c)
      BY <2>1, <2>2, <2>5 DEF Progress
    <3>. QED BY <2>2, <2>4, <3>1 DEF CommandInv, SetAsideBy
  <2>7. expected' \in BOOLEAN /\ accident' \in BOOLEAN
    BY <2>1 DEF DirectoryInv
  <2>. QED BY <1>2, <2>2, <2>3, <2>6, <2>7, NoCommandFacts, CommandMoves
<1>3. CASE Moves(o) /\ MoveLands(o)
  <2> DEFINE c == [command[o] EXCEPT !.pc = "clean"]
  <2>1. /\ command[o].pc = "move" /\ command' = [command EXCEPT ![o] = c]
        /\ target' = command[o].staged /\ expected' = TRUE /\ UNCHANGED accident
    BY <1>3 DEF Moves, MoveLands, Goes
  <2>2. /\ c \in Commands /\ c.pc = "clean" /\ c.backup = command[o].backup
        /\ c.staged = command[o].staged
    BY <1>0 DEF Commands, CommandPCs
  <2> HIDE DEF c
  <2>3. Progress(command[o])
    BY <1>0, <2>1 DEF CommandInv
  <2>4. Complete(target') /\ target' \in Directory
    BY <1>0, <2>1, <2>3 DEF Progress, Complete, Commands
  <2>5. CommandInv(c)
    <3>1. Progress(c)
      BY <2>1, <2>2, <2>3 DEF Progress
    <3>. QED BY <1>0, <2>1, <2>2, <3>1 DEF CommandInv
  <2>6. accident' \in BOOLEAN /\ target' # Nothing
    BY <2>1, <2>4, CompleteIsThere DEF DirectoryInv
  <2>. QED BY <2>1, <2>2, <2>4, <2>5, <2>6, CommandMoves
<1>4. CASE Moves(o) /\ MoveFails(o)
  <2>1. /\ command[o].pc = "move" /\ UNCHANGED <<target, expected, accident>>
        /\ IF command[o].backup = Nothing THEN Ends(o) ELSE Goes(o, "back")
    BY <1>4 DEF Moves, MoveFails
  <2>2. CASE command[o].backup = Nothing
    BY <2>1, <2>2, EndsQuietly DEF SetAsideBy
  <2>3. CASE command[o].backup # Nothing
    <3> DEFINE c == [command[o] EXCEPT !.pc = "back"]
    <3>1. c.pc = "back" /\ c.staged = command[o].staged
      BY <1>0 DEF Commands
    <3> HIDE DEF c
    <3>2. Progress(c)
      BY <1>0, <2>1, <3>1 DEF CommandInv, Progress
    <3>. QED BY <2>1, <2>3, <3>2, GoesOn DEF CommandPCs, c
  <2>. QED BY <2>2, <2>3
<1>5. CASE PutsBack(o)
  <2>1. /\ command[o].pc = "back" /\ command' = [command EXCEPT ![o] = NoCommand] /\ UNCHANGED expected
        /\ \/ ~Installed /\ target' = command[o].backup /\ UNCHANGED accident
           \/ Installed /\ UNCHANGED <<target, accident>>
           \/ accident' = TRUE /\ UNCHANGED target
    BY <1>5 DEF PutsBack, Ends
  <2>2. expected' \in BOOLEAN /\ accident' \in BOOLEAN
    BY <2>1 DEF DirectoryInv
  <2>3. target' \in Directory /\ (target' # Nothing => Complete(target'))
    BY <1>0, <2>1 DEF DirectoryInv, InstalledIsWhole, Installed, CommandInv, Commands
  <2>4. \/ target' # Nothing \/ accident'
        \/ /\ target' = target /\ expected' = expected /\ accident' = accident
           /\ ~SetAsideBy(command[o])
    BY <2>1 DEF Installed, SetAsideBy
  <2>. QED BY <2>1, <2>2, <2>3, <2>4, NoCommandFacts, CommandMoves
<1>. QED BY <1>1, <1>2, <1>3, <1>4, <1>5 DEF SetsAside, Moves

\* The flow, its packets and the plugin leave the directory alone.
LEMMA DirectoryStep == DirectoryInv /\ [PluginNext]_pluginVars => DirectoryInv'
<1> SUFFICES ASSUME DirectoryInv, [PluginNext]_pluginVars PROVE DirectoryInv'
  OBVIOUS
<1>1. CASE UNCHANGED <<target, command, expected, accident>>
  BY <1>1 DEF DirectoryInv, InstalledIsWhole, InstalledStays, Installed, Complete, HeldAside, CommandInv, Progress
<1>2. FlowBuilds \/ FlowEnds \/ PluginAnswers \/ PluginDies \/ UNCHANGED pluginVars
         => UNCHANGED <<target, command, expected, accident>>
  BY DEF FlowBuilds, FlowEnds, PluginAnswers, PluginDies, pluginVars, directory
<1>3. ASSUME NEW t \in Tasks, Asks(t) \/ Steps(t) \/ Cancels(t)
      PROVE  UNCHANGED <<target, command, expected, accident>>
  BY <1>3 DEF Asks, Steps, Cancels, Locks, Spawns, Describes, Sends, Reads, ReadFails, TimesOut, directory
<1>. QED BY <1>1, <1>2, <1>3, QuietCommands, CommitStep DEF PluginNext

\* Commands that interleave, fail or are killed never leave a plugin with a file
\* missing or wrong, and lose an installed one only by a kill or a second failure
\* (plugin_catalog.rs: install, commit, remove_installed).
THEOREM InstallsStaySafe == PluginSpec => []InstallsAreSafe
<1>1. DirectoryInv => InstallsAreSafe
  BY DEF DirectoryInv, InstallsAreSafe
<1>. QED BY <1>1, DirectoryStarts, DirectoryStep, PTL DEF PluginSpec

----------------------------------------------------------------------------
(* The plugins: the slot. *)

TaskPCs == {"idle", "waiting", "spawn", "describe", "send", "read", "answered", "failed", "cancelled"}
Line == [request : Tasks, answered : BOOLEAN]
Processes == [version : Versions \cup {0}, alive : BOOLEAN, lines : Seq(Line)]
SlotTypes ==
  /\ process \in Processes /\ in_flight \in BOOLEAN /\ holder \in Tasks \cup {NoTask}
  /\ task \in [Tasks -> [pc : TaskPCs, why : {"none", "own", "other", "start", "gone", "time"}]]

\* The only line between the server and the plugin is the request of the task that
\* reads; a process left with another is marked before the slot is free.
SlotInv ==
  /\ SlotTypes
  /\ holder = NoTask /\ ~in_flight => process.lines = <<>>
  /\ holder # NoTask =>
       \/ task[holder].pc \in {"spawn", "describe", "send"} /\ process.lines = <<>>
       \/ /\ task[holder].pc = "read" /\ in_flight
          /\ Len(process.lines) = 1 /\ process.lines[1].request = holder
  /\ AnswersAreOwn

\* Nobody holds the slot at first, and there is no process.
LEMMA SlotStarts == PluginInit => SlotInv
<1> SUFFICES ASSUME PluginInit PROVE SlotInv
  OBVIOUS
<1>1. NoProcess \in Processes /\ NoProcess.lines = <<>>
  BY DEF NoProcess, Processes
<1>. QED BY <1>1 DEF PluginInit, SlotInv, SlotTypes, TaskPCs, AnswersAreOwn

\* A step that changes one task, and of the slot what it says.
LEMMA TaskMoves ==
  ASSUME SlotTypes, NEW t \in Tasks, NEW pc \in TaskPCs
  PROVE  /\ task' = [task EXCEPT ![t].pc = pc] =>
              /\ task' \in [Tasks -> [pc : TaskPCs, why : {"none", "own", "other", "start", "gone", "time"}]]
              /\ task'[t].pc = pc /\ task'[t].why = task[t].why
              /\ \A u \in Tasks \ {t} : task'[u] = task[u]
         /\ \A why \in {"none", "own", "other", "start", "gone", "time"} : Releases(t, pc, why) =>
              /\ task' \in [Tasks -> [pc : TaskPCs, why : {"none", "own", "other", "start", "gone", "time"}]]
              /\ task'[t].pc = pc /\ task'[t].why = why /\ holder' = NoTask
              /\ \A u \in Tasks \ {t} : task'[u] = task[u]
<1>1. task[t] \in [pc : TaskPCs, why : {"none", "own", "other", "start", "gone", "time"}]
  BY DEF SlotTypes
<1>2. ASSUME task' = [task EXCEPT ![t].pc = pc]
      PROVE  /\ task' \in [Tasks -> [pc : TaskPCs, why : {"none", "own", "other", "start", "gone", "time"}]]
             /\ task'[t].pc = pc /\ task'[t].why = task[t].why
             /\ \A u \in Tasks \ {t} : task'[u] = task[u]
  <2>1. task' = [task EXCEPT ![t] = [task[t] EXCEPT !.pc = pc]]
    BY <1>2
  <2>. QED BY <1>1, <2>1 DEF SlotTypes
<1>3. ASSUME NEW why \in {"none", "own", "other", "start", "gone", "time"}, Releases(t, pc, why)
      PROVE  /\ task' \in [Tasks -> [pc : TaskPCs, why : {"none", "own", "other", "start", "gone", "time"}]]
             /\ task'[t].pc = pc /\ task'[t].why = why /\ holder' = NoTask
             /\ \A u \in Tasks \ {t} : task'[u] = task[u]
  <2>1. task' = [task EXCEPT ![t] = [task[t] EXCEPT !.pc = pc, !.why = why]]
    BY <1>3 DEF Releases
  <2>. QED BY <1>1, <1>3, <2>1 DEF SlotTypes, Releases
<1>. QED BY <1>2, <1>3

\* The task that has its turn finds a process without a line, or none.
LEMMA LockStep ==
  ASSUME SlotInv, NEW t \in Tasks, Locks(t)
  PROVE  SlotInv'
<1>1. NoProcess \in Processes /\ NoProcess.lines = <<>>
  BY DEF NoProcess, Processes
<1>2. /\ holder = NoTask /\ holder' = t /\ in_flight' = FALSE
      /\ process' = IF in_flight THEN NoProcess ELSE process
      /\ \/ task' = [task EXCEPT ![t].pc = "spawn"]
         \/ task' = [task EXCEPT ![t].pc = "send"]
  BY DEF Locks, Turn
<1>3. process' \in Processes /\ process'.lines = <<>>
  BY <1>1, <1>2 DEF SlotInv, SlotTypes
<1>4. /\ task' \in [Tasks -> [pc : TaskPCs, why : {"none", "own", "other", "start", "gone", "time"}]]
      /\ task'[t].pc \in {"spawn", "send"} /\ task'[t].why = task[t].why
      /\ \A u \in Tasks \ {t} : task'[u] = task[u]
  BY <1>2, TaskMoves DEF SlotInv, TaskPCs
<1>. QED BY <1>2, <1>3, <1>4, PluginsAssumption DEF PluginsAssumption, SlotInv, SlotTypes, AnswersAreOwn

\* The program starts and describes itself, or the task is over.
LEMMA StartStep ==
  ASSUME DirectoryInv, SlotInv, NEW t \in Tasks, Spawns(t) \/ Describes(t)
  PROVE  SlotInv'
<1>1. NoProcess \in Processes /\ NoProcess.lines = <<>>
  BY DEF NoProcess, Processes
<1>2. holder = t /\ task[t].pc \in {"spawn", "describe"} /\ UNCHANGED in_flight
  BY DEF Spawns, Describes
<1>3. process.lines = <<>> /\ t # NoTask
  BY <1>2, PluginsAssumption DEF PluginsAssumption, SlotInv
<1>4. CASE Releases(t, "failed", "start") /\ process' \in {process, NoProcess}
  BY <1>1, <1>2, <1>3, <1>4, TaskMoves DEF SlotInv, SlotTypes, TaskPCs, AnswersAreOwn
<1>5. CASE /\ process' = [version |-> target.version, alive |-> TRUE, lines |-> <<>>]
           /\ task' = [task EXCEPT ![t].pc = "describe"] /\ UNCHANGED holder
  <2>1. process' \in Processes /\ process'.lines = <<>>
    BY <1>5 DEF DirectoryInv, Directory, Processes
  <2>. QED BY <1>2, <1>3, <1>5, <2>1, TaskMoves DEF SlotInv, SlotTypes, TaskPCs, AnswersAreOwn
<1>6. CASE task' = [task EXCEPT ![t].pc = "send"] /\ UNCHANGED <<process, holder>>
  BY <1>2, <1>3, <1>6, TaskMoves DEF SlotInv, SlotTypes, TaskPCs, AnswersAreOwn
<1>. QED BY <1>4, <1>5, <1>6 DEF Spawns, Describes

\* The request is the only line.
LEMMA SendStep ==
  ASSUME SlotInv, NEW t \in Tasks, Sends(t)
  PROVE  SlotInv'
<1> DEFINE line == [request |-> t, answered |-> FALSE]
<1>1. /\ holder = t /\ task[t].pc = "send" /\ in_flight' = TRUE /\ UNCHANGED holder
      /\ task' = [task EXCEPT ![t].pc = "read"]
      /\ process' = [process EXCEPT !.lines = Append(@, line)]
  BY DEF Sends
<1>2. line \in Line /\ line.request = t
  BY DEF Line
<1> HIDE DEF line
<1>3. process.lines = <<>> /\ t # NoTask
  BY <1>1, PluginsAssumption DEF PluginsAssumption, SlotInv
<1> DEFINE lines == Append(process.lines, line)
<1>4. lines \in Seq(Line) /\ Len(lines) = 1 /\ lines[1] = line
  BY <1>2, <1>3
<1>5. process' = [process EXCEPT !.lines = lines]
  BY <1>1
<1> HIDE DEF lines
<1>6. process' \in Processes /\ process'.lines = lines
  BY <1>4, <1>5 DEF Processes, SlotInv, SlotTypes
<1>7. /\ task' \in [Tasks -> [pc : TaskPCs, why : {"none", "own", "other", "start", "gone", "time"}]]
      /\ task'[t].pc = "read" /\ task'[t].why = task[t].why
      /\ \A u \in Tasks \ {t} : task'[u] = task[u]
  BY <1>1, TaskMoves DEF SlotInv, TaskPCs
<1>. QED BY <1>1, <1>2, <1>3, <1>4, <1>6, <1>7 DEF SlotInv, SlotTypes, AnswersAreOwn

\* The answer is to the request of the task that reads it; no answer ends the process.
LEMMA ReadStep ==
  ASSUME SlotInv, NEW t \in Tasks, Reads(t) \/ ReadFails(t) \/ TimesOut(t)
  PROVE  SlotInv'
<1>1. NoProcess \in Processes /\ NoProcess.lines = <<>>
  BY DEF NoProcess, Processes
<1>2. holder = t /\ task[t].pc = "read" /\ in_flight' = FALSE
  BY DEF Reads, ReadFails, TimesOut
<1>3. Len(process.lines) = 1 /\ process.lines[1].request = t
  BY <1>2, PluginsAssumption DEF PluginsAssumption, SlotInv
<1>4. CASE (Releases(t, "failed", "gone") \/ Releases(t, "failed", "time")) /\ process' = NoProcess
  BY <1>1, <1>2, <1>4, TaskMoves, ZenonT(60) DEF SlotInv, SlotTypes, TaskPCs, AnswersAreOwn
<1>5. CASE Reads(t)
  <2>1. Head(process.lines).request = t
    BY <1>3 DEF SlotInv, SlotTypes, Processes
  <2>2. Releases(t, "answered", "own") /\ process' = [process EXCEPT !.lines = Tail(@)]
    BY <1>5, <2>1 DEF Reads
  <2>3. process' \in Processes /\ process'.lines = <<>>
    BY <1>3, <2>2 DEF SlotInv, SlotTypes, Processes
  <2>4. /\ task' \in [Tasks -> [pc : TaskPCs, why : {"none", "own", "other", "start", "gone", "time"}]]
        /\ task'[t].why = "own" /\ holder' = NoTask
        /\ \A u \in Tasks \ {t} : task'[u] = task[u]
    BY <2>2, TaskMoves DEF SlotInv, TaskPCs
  <2>. QED BY <1>2, <2>3, <2>4 DEF SlotInv, SlotTypes, AnswersAreOwn
<1>. QED BY <1>4, <1>5 DEF ReadFails, TimesOut

\* A packet that comes, or is given up; the one that reads leaves its process marked.
LEMMA PacketStep ==
  ASSUME SlotInv, NEW t \in Tasks, Asks(t) \/ Cancels(t)
  PROVE  SlotInv'
<1>1. NoProcess \in Processes /\ NoProcess.lines = <<>>
  BY DEF NoProcess, Processes
<1>2. CASE /\ task[t].pc \in {"idle", "waiting"} /\ UNCHANGED <<process, in_flight, holder>>
           /\ \/ task' = [task EXCEPT ![t].pc = "waiting"]
              \/ task' = [task EXCEPT ![t].pc = "cancelled"]
  <2>1. holder # t
    BY <1>2, PluginsAssumption DEF PluginsAssumption, SlotInv
  <2>2. /\ task' \in [Tasks -> [pc : TaskPCs, why : {"none", "own", "other", "start", "gone", "time"}]]
        /\ task'[t].why = task[t].why
        /\ \A u \in Tasks \ {t} : task'[u] = task[u]
    BY <1>2, TaskMoves DEF SlotInv, TaskPCs
  <2>. QED BY <1>2, <2>1, <2>2 DEF SlotInv, SlotTypes, AnswersAreOwn
<1>3. CASE /\ holder = t /\ task[t].pc \in {"describe", "read"}
           /\ Releases(t, "cancelled", "none")
           /\ process' = (IF task[t].pc = "describe" THEN NoProcess ELSE process)
           /\ UNCHANGED in_flight
  <2>1. process' \in Processes /\ (~in_flight => process'.lines = <<>>)
    BY <1>1, <1>3, PluginsAssumption DEF PluginsAssumption, SlotInv, SlotTypes
  <2>2. /\ task' \in [Tasks -> [pc : TaskPCs, why : {"none", "own", "other", "start", "gone", "time"}]]
        /\ task'[t].why = "none" /\ holder' = NoTask
        /\ \A u \in Tasks \ {t} : task'[u] = task[u]
    BY <1>3, TaskMoves DEF SlotInv, TaskPCs
  <2>. QED BY <1>3, <2>1, <2>2 DEF SlotInv, SlotTypes, AnswersAreOwn
<1>. QED BY <1>2, <1>3 DEF Asks, Cancels

\* The plugin answers or dies, and the flow ends.
LEMMA ProcessStep ==
  ASSUME SlotInv, PluginAnswers \/ PluginDies \/ FlowEnds
  PROVE  SlotInv'
<1>1. CASE PluginAnswers
  <2>1. UNCHANGED <<in_flight, holder, task>>
    BY <1>1 DEF PluginAnswers, tasks
  <2>2. PICK first : process' = [process EXCEPT !.lines[first].answered = TRUE]
    BY <1>1 DEF PluginAnswers
  <2> DEFINE lines == [process.lines EXCEPT ![first] = [process.lines[first] EXCEPT !.answered = TRUE]]
  <2>3. process' = [process EXCEPT !.lines = lines]
    BY <2>2
  <2>4. process.lines \in Seq(Line)
    BY DEF SlotInv, SlotTypes, Processes
  <2>5. /\ lines \in Seq(Line) /\ Len(lines) = Len(process.lines)
        /\ \A i \in DOMAIN lines : lines[i].request = process.lines[i].request
    <3>1. DOMAIN lines = DOMAIN process.lines
      OBVIOUS
    <3>2. ASSUME NEW i \in DOMAIN process.lines
          PROVE  lines[i] \in Line /\ lines[i].request = process.lines[i].request
      <4>1. process.lines[i] \in Line
        BY <2>4
      <4>2. [process.lines[i] EXCEPT !.answered = TRUE] \in Line
            /\ [process.lines[i] EXCEPT !.answered = TRUE].request = process.lines[i].request
        BY <4>1 DEF Line
      <4>3. lines[i] = IF i = first THEN [process.lines[i] EXCEPT !.answered = TRUE] ELSE process.lines[i]
        OBVIOUS
      <4>. QED BY <4>1, <4>2, <4>3
    <3> DEFINE n == Len(process.lines)
    <3>3. n \in Nat /\ DOMAIN process.lines = 1 .. n
      BY <2>4
    <3>4. lines \in [1 .. n -> Line]
      <4>1. \A i \in 1 .. n : lines[i] \in Line
        BY <3>2, <3>3
      <4>2. lines = [i \in 1 .. n |-> lines[i]]
        BY <3>1, <3>3
      <4> HIDE DEF lines, n
      <4>. QED BY <4>1, <4>2
    <3> HIDE DEF lines, n
    <3>5. lines \in Seq(Line) /\ Len(lines) = n
      BY <3>3, <3>4
    <3>. QED BY <3>1, <3>2, <3>5 DEF n
  <2> HIDE DEF lines
  <2>6. process' \in Processes /\ process'.lines = lines
    BY <2>3, <2>5 DEF SlotInv, SlotTypes, Processes
  <2>. QED BY <2>1, <2>4, <2>5, <2>6 DEF SlotInv, SlotTypes, AnswersAreOwn
<1>2. CASE PluginDies
  <2>1. process' \in Processes /\ process'.lines = process.lines /\ UNCHANGED <<in_flight, holder, task>>
    BY <1>2 DEF PluginDies, tasks, SlotInv, SlotTypes, Processes
  <2>. QED BY <2>1 DEF SlotInv, SlotTypes, AnswersAreOwn
<1>3. CASE FlowEnds
  <2>1. NoProcess \in Processes /\ NoProcess.lines = <<>>
    BY DEF NoProcess, Processes
  <2>2. holder = NoTask
    BY <1>3 DEF FlowEnds, Ended, SlotInv, SlotTypes
  <2>. QED BY <1>3, <2>1, <2>2 DEF FlowEnds, tasks, SlotInv, SlotTypes, AnswersAreOwn
<1>. QED BY <1>1, <1>2, <1>3

\* The commands and the building of the flow leave the slot alone.
LEMMA SlotStep == DirectoryInv /\ SlotInv /\ [PluginNext]_pluginVars => SlotInv'
<1> SUFFICES ASSUME DirectoryInv, SlotInv, [PluginNext]_pluginVars PROVE SlotInv'
  OBVIOUS
<1>1. CASE UNCHANGED <<process, in_flight, holder, task>>
  BY <1>1 DEF SlotInv, SlotTypes, AnswersAreOwn
<1>2. FlowBuilds \/ UNCHANGED pluginVars => UNCHANGED <<process, in_flight, holder, task>>
  BY DEF FlowBuilds, pluginVars, slot, tasks
<1>3. ASSUME NEW o \in Operators,
          \/ GivesInstall(o) \/ FetchFails(o) \/ Loads(o) \/ InstallStarts(o)
          \/ Downloads(o) \/ Pulls(o) \/ Writes(o) \/ Looks(o) \/ SetsAside(o) \/ Moves(o)
          \/ PutsBack(o) \/ Cleans(o) \/ Removes(o) \/ Killed(o)
      PROVE  UNCHANGED <<process, in_flight, holder, task>>
  BY <1>3 DEF GivesInstall, FetchFails, Loads, InstallStarts, Downloads, Pulls, Writes, Looks, SetsAside,
     Moves, PutsBack, Cleans, Removes, Killed, Quietly, slot, tasks
<1>. QED
  BY <1>1, <1>2, <1>3, LockStep, StartStep, SendStep, ReadStep, PacketStep, ProcessStep DEF PluginNext, Steps

\* A packet never fails over the answer to another, whichever was cancelled while
\* the plugin worked (external_plugin.rs: execute, transact, in_flight).
THEOREM AnswersStayOwn == PluginSpec => []AnswersAreOwn
<1>1. SlotInv => AnswersAreOwn
  BY DEF SlotInv
<1>. QED BY <1>1, SlotStarts, SlotStep, DirectoryStarts, DirectoryStep, PTL DEF PluginSpec

----------------------------------------------------------------------------
(* The loading of a flow: its edges and its processors, one after another. *)

Count == Len(document.connections)
Visits == Len(document.processors)

\* What the file holds.
DocumentTypes ==
  /\ document.processors \in Seq(STRING)
  /\ document.connections \in Seq([from : STRING, to : STRING])
  /\ Count \in Nat /\ DOMAIN document.connections = 1 .. Count
  /\ Visits \in Nat /\ DOMAIN document.processors = 1 .. Visits

FollowsWithin(id, V) == \A k \in 1 .. Count, v \in V : Follows(id, v, document.connections[k]) \in V
FollowedInTurn(id, V, base) ==
  \E a \in [0 .. Count -> V] :
    /\ a[0] = base /\ a[Count] = Followed(id, base)
    /\ \A k \in 1 .. Count : a[k] = Follows(id, a[k - 1], document.connections[k])

\* The edges of a processor are followed one after another.
LEMMA FollowedChain ==
  ASSUME DocumentTypes, NEW id, NEW V, NEW base \in V, FollowsWithin(id, V)
  PROVE  FollowedInTurn(id, V, base)
<1> DEFINE seq == document.connections
           does == [k \in 1 .. Count |-> [v \in V |-> Follows(id, v, seq[k])]]
           iter == CHOOSE it : it = [s \in SUBSET (DOMAIN seq) |->
                     IF s = {} THEN base ELSE Follows(id, it[s \ {Max(s)}], seq[Max(s)])]
<1>1. Count \in Nat /\ DOMAIN seq = 1 .. Count
  BY DEF DocumentTypes
<1>2. StepsOn(does, 1 .. Count, V) /\ \A k \in 1 .. Count, v \in V : does[k][v] = Follows(id, v, seq[k])
  BY DEF StepsOn, FollowsWithin
<1>3. PICK f \in [SUBSET (1 .. Count) -> V] : Folding(f, Count, base, does)
  <2> HIDE DEF does
  <2>. QED BY <1>1, <1>2, FoldExists
<1>4. Followed(id, base) = iter[DOMAIN seq]
  BY Zenon DEF Followed, FoldLeft, MapThenFoldSet
<1> HIDE DEF does, seq
<1>5. \A s \in SUBSET (1 .. Count) : s # {} => Max(s) \in s /\ Max(s) \in 1 .. Count
  BY <1>1, MaxOfNumbers
<1>6. f = [s \in SUBSET (DOMAIN seq) |-> IF s = {} THEN base ELSE Follows(id, f[s \ {Max(s)}], seq[Max(s)])]
  <2> DEFINE h == [s \in SUBSET (DOMAIN seq) |->
                     IF s = {} THEN base ELSE Follows(id, f[s \ {Max(s)}], seq[Max(s)])]
  <2>1. \A s \in SUBSET (1 .. Count) : f[s] = h[s]
    BY <1>1, <1>2, <1>3, <1>5 DEF Folding
  <2>. QED BY <1>1, <1>3, <2>1
<1>7. iter = [s \in SUBSET (DOMAIN seq) |->
                IF s = {} THEN base ELSE Follows(id, iter[s \ {Max(s)}], seq[Max(s)])]
  BY <1>6, Zenon DEF iter
<1>8. \A s \in SUBSET (1 .. Count) :
         iter[s] = IF s = {} THEN base ELSE Follows(id, iter[s \ {Max(s)}], seq[Max(s)])
  <2> HIDE DEF iter
  <2>. QED BY <1>1, <1>7
<1> HIDE DEF iter
<1>9. Continues(iter, Count, V, base, does)
  BY <1>2, <1>5, <1>8 DEF Continues
<1>10. PICK a \in [0 .. Count -> V] : /\ a[0] = base /\ a[Count] = iter[1 .. Count]
                                      /\ \A k \in 1 .. Count : a[k] = does[k][a[k - 1]]
  <2> HIDE DEF does
  <2>1. PICK n \in Nat : n = Count
    BY <1>1
  <2>2. PICK d, g : d = does /\ g = iter
    OBVIOUS
  <2>3. StepsOn(d, 1 .. n, V) /\ Continues(g, n, V, base, d)
    BY <1>2, <1>9, <2>1, <2>2
  <2>4. \E a \in [0 .. n -> V] : /\ a[0] = base /\ a[n] = g[1 .. n]
                                /\ \A k \in 1 .. n : a[k] = d[k][a[k - 1]]
    BY <2>3, FoldChain
  <2>. QED BY <2>1, <2>2, <2>4
<1>11. \A k \in 1 .. Count : a[k] = Follows(id, a[k - 1], seq[k])
  <2>1. \A k \in 1 .. Count : k - 1 \in 0 .. Count
    BY <1>1
  <2>. QED BY <1>2, <1>10, <2>1
<1>. QED BY <1>1, <1>4, <1>10, <1>11 DEF seq, FollowedInTurn

DeepensWithin(visit, id, V) ==
  \A k \in 1 .. Count, v \in V : Deepen(visit, id, v, document.connections[k]) \in V
DeepenedInTurn(visit, id, V, base) ==
  \E a \in [0 .. Count -> V] :
    /\ a[0] = base /\ a[Count] = Deepened(visit, id, base)
    /\ \A k \in 1 .. Count : a[k] = Deepen(visit, id, a[k - 1], document.connections[k])

\* The edges of a processor are visited one after another.
LEMMA DeepenedChain ==
  ASSUME DocumentTypes, NEW visit, NEW id, NEW V, NEW base \in V, DeepensWithin(visit, id, V)
  PROVE  DeepenedInTurn(visit, id, V, base)
<1> DEFINE seq == document.connections
           does == [k \in 1 .. Count |-> [v \in V |-> Deepen(visit, id, v, seq[k])]]
           iter == CHOOSE it : it = [s \in SUBSET (DOMAIN seq) |->
                     IF s = {} THEN base ELSE Deepen(visit, id, it[s \ {Max(s)}], seq[Max(s)])]
<1>1. Count \in Nat /\ DOMAIN seq = 1 .. Count
  BY DEF DocumentTypes
<1>2. StepsOn(does, 1 .. Count, V) /\ \A k \in 1 .. Count, v \in V : does[k][v] = Deepen(visit, id, v, seq[k])
  BY DEF StepsOn, DeepensWithin
<1>3. PICK f \in [SUBSET (1 .. Count) -> V] : Folding(f, Count, base, does)
  <2> HIDE DEF does
  <2>. QED BY <1>1, <1>2, FoldExists
<1>4. Deepened(visit, id, base) = iter[DOMAIN seq]
  BY Zenon DEF Deepened, FoldLeft, MapThenFoldSet
<1> HIDE DEF does, seq
<1>5. \A s \in SUBSET (1 .. Count) : s # {} => Max(s) \in s /\ Max(s) \in 1 .. Count
  BY <1>1, MaxOfNumbers
<1>6. f = [s \in SUBSET (DOMAIN seq) |-> IF s = {} THEN base ELSE Deepen(visit, id, f[s \ {Max(s)}], seq[Max(s)])]
  <2> DEFINE h == [s \in SUBSET (DOMAIN seq) |->
                     IF s = {} THEN base ELSE Deepen(visit, id, f[s \ {Max(s)}], seq[Max(s)])]
  <2>1. \A s \in SUBSET (1 .. Count) : f[s] = h[s]
    BY <1>1, <1>2, <1>3, <1>5 DEF Folding
  <2>. QED BY <1>1, <1>3, <2>1
<1>7. iter = [s \in SUBSET (DOMAIN seq) |->
                IF s = {} THEN base ELSE Deepen(visit, id, iter[s \ {Max(s)}], seq[Max(s)])]
  BY <1>6, Zenon DEF iter
<1>8. \A s \in SUBSET (1 .. Count) :
         iter[s] = IF s = {} THEN base ELSE Deepen(visit, id, iter[s \ {Max(s)}], seq[Max(s)])
  <2> HIDE DEF iter
  <2>. QED BY <1>1, <1>7
<1> HIDE DEF iter
<1>9. Continues(iter, Count, V, base, does)
  BY <1>2, <1>5, <1>8 DEF Continues
<1>10. PICK a \in [0 .. Count -> V] : /\ a[0] = base /\ a[Count] = iter[1 .. Count]
                                      /\ \A k \in 1 .. Count : a[k] = does[k][a[k - 1]]
  <2> HIDE DEF does
  <2>1. PICK n \in Nat : n = Count
    BY <1>1
  <2>2. PICK d, g : d = does /\ g = iter
    OBVIOUS
  <2>3. StepsOn(d, 1 .. n, V) /\ Continues(g, n, V, base, d)
    BY <1>2, <1>9, <2>1, <2>2
  <2>4. \E a \in [0 .. n -> V] : /\ a[0] = base /\ a[n] = g[1 .. n]
                                /\ \A k \in 1 .. n : a[k] = d[k][a[k - 1]]
    BY <2>3, FoldChain
  <2>. QED BY <2>1, <2>2, <2>4
<1>11. \A k \in 1 .. Count : a[k] = Deepen(visit, id, a[k - 1], seq[k])
  <2>1. \A k \in 1 .. Count : k - 1 \in 0 .. Count
    BY <1>1
  <2>. QED BY <1>2, <1>10, <2>1
<1>. QED BY <1>1, <1>4, <1>10, <1>11 DEF seq, DeepenedInTurn

Start == [id \in Ids |-> Unknown]

VisitsWithin(V) == \A k \in 1 .. Visits, v \in V : Visit[<<document.processors[k], v>>].memo \in V
VisitedInTurn(V) ==
  \E a \in [0 .. Visits -> V] :
    /\ a[0] = Start /\ a[Visits] = Depths
    /\ \A k \in 1 .. Visits : a[k] = Visit[<<document.processors[k], a[k - 1]>>].memo

\* The processors are visited one after another.
LEMMA DepthsChain ==
  ASSUME DocumentTypes, NEW V, Start \in V, VisitsWithin(V)
  PROVE  VisitedInTurn(V)
<1> DEFINE seq == document.processors
           does == [k \in 1 .. Visits |-> [v \in V |-> Visit[<<seq[k], v>>].memo]]
           iter == CHOOSE it : it = [s \in SUBSET (DOMAIN seq) |->
                     IF s = {} THEN Start ELSE Visit[<<seq[Max(s)], it[s \ {Max(s)}]>>].memo]
<1>1. Visits \in Nat /\ DOMAIN seq = 1 .. Visits
  BY DEF DocumentTypes
<1>2. StepsOn(does, 1 .. Visits, V) /\ \A k \in 1 .. Visits, v \in V : does[k][v] = Visit[<<seq[k], v>>].memo
  BY DEF StepsOn, VisitsWithin
<1>3. PICK f \in [SUBSET (1 .. Visits) -> V] : Folding(f, Visits, Start, does)
  <2> HIDE DEF does
  <2>. QED BY <1>1, <1>2, FoldExists
<1>4. Depths = iter[DOMAIN seq]
  BY Zenon DEF Depths, Start, FoldLeft, MapThenFoldSet
<1> HIDE DEF does, seq
<1>5. \A s \in SUBSET (1 .. Visits) : s # {} => Max(s) \in s /\ Max(s) \in 1 .. Visits
  BY <1>1, MaxOfNumbers
<1>6. f = [s \in SUBSET (DOMAIN seq) |-> IF s = {} THEN Start ELSE Visit[<<seq[Max(s)], f[s \ {Max(s)}]>>].memo]
  <2> DEFINE h == [s \in SUBSET (DOMAIN seq) |->
                     IF s = {} THEN Start ELSE Visit[<<seq[Max(s)], f[s \ {Max(s)}]>>].memo]
  <2>1. \A s \in SUBSET (1 .. Visits) : f[s] = h[s]
    BY <1>1, <1>2, <1>3, <1>5 DEF Folding
  <2>. QED BY <1>1, <1>3, <2>1
<1>7. iter = [s \in SUBSET (DOMAIN seq) |->
                IF s = {} THEN Start ELSE Visit[<<seq[Max(s)], iter[s \ {Max(s)}]>>].memo]
  BY <1>6, Zenon DEF iter
<1>8. \A s \in SUBSET (1 .. Visits) :
         iter[s] = IF s = {} THEN Start ELSE Visit[<<seq[Max(s)], iter[s \ {Max(s)}]>>].memo
  <2> HIDE DEF iter
  <2>. QED BY <1>1, <1>7
<1> HIDE DEF iter
<1>9. Continues(iter, Visits, V, Start, does)
  BY <1>2, <1>5, <1>8 DEF Continues
<1>10. PICK a \in [0 .. Visits -> V] : /\ a[0] = Start /\ a[Visits] = iter[1 .. Visits]
                                      /\ \A k \in 1 .. Visits : a[k] = does[k][a[k - 1]]
  <2> HIDE DEF does
  <2>1. PICK n \in Nat : n = Visits
    BY <1>1
  <2>2. PICK b \in V : b = Start
    OBVIOUS
  <2>3. PICK d, g : d = does /\ g = iter
    OBVIOUS
  <2>4. StepsOn(d, 1 .. n, V) /\ Continues(g, n, V, b, d)
    BY <1>2, <1>9, <2>1, <2>2, <2>3
  <2>5. \E a \in [0 .. n -> V] : /\ a[0] = b /\ a[n] = g[1 .. n]
                                /\ \A k \in 1 .. n : a[k] = d[k][a[k - 1]]
    BY <2>4, FoldChain
  <2>. QED BY <2>1, <2>2, <2>3, <2>5
<1>11. \A k \in 1 .. Visits : a[k] = Visit[<<seq[k], a[k - 1]>>].memo
  <2>1. \A k \in 1 .. Visits : k - 1 \in 0 .. Visits
    BY <1>1
  <2>. QED BY <1>2, <1>10, <2>1
<1>. QED BY <1>1, <1>4, <1>10, <1>11 DEF seq, VisitedInTurn

----------------------------------------------------------------------------
(* Sorting *)

From(n) == document.connections[n].from
To(n)   == document.connections[n].to

\* The edges into x from what has not been sorted.
Open(x) == {n \in 1 .. Count : To(n) = x /\ From(n) \notin ToSet(order)}

\* The connections are between processors, and no two of these have one id.
Known ==
  /\ \A n \in 1 .. Count : From(n) \in Ids /\ To(n) \in Ids
  /\ IsFiniteSet(Ids) /\ Cardinality(Ids) = Visits

\* What was sorted comes before what it feeds.
InOrder ==
  /\ order \in Seq(Ids) /\ IsInjective(order)
  /\ \A m, n \in DOMAIN order : Edge(order[m], order[n]) => m < n

\* The loop of FlowGraph::build: a degree counts the edges from what has not
\* been sorted; what has none is sorted or waits.
Sorting ==
  /\ waiting \in Seq(Ids) /\ IsInjective(waiting)
  /\ indegree \in [Ids -> Int] /\ \A x \in Ids : indegree[x] = Cardinality(Open(x))
  /\ ToSet(waiting) = {x \in Ids \ ToSet(order) : Open(x) = {}}
  /\ \A x \in ToSet(order) : Open(x) = {}

\* A sequence with one more at its end.
LEMMA AppendFacts ==
  ASSUME NEW S, NEW s \in Seq(S), NEW x \in S, x \notin ToSet(s), IsInjective(s)
  PROVE  Append(s, x) \in Seq(S) /\ IsInjective(Append(s, x)) /\ ToSet(Append(s, x)) = ToSet(s) \cup {x}
<1>1. /\ Append(s, x) \in Seq(S) /\ DOMAIN s = 1 .. Len(s) /\ DOMAIN Append(s, x) = 1 .. (Len(s) + 1) /\ Len(s) \in Nat
      /\ \A i \in 1 .. Len(s) : Append(s, x)[i] = s[i] /\ i \in 1 .. (Len(s) + 1)
      /\ Append(s, x)[Len(s) + 1] = x /\ Len(s) + 1 \in 1 .. (Len(s) + 1)
      /\ \A i \in 1 .. (Len(s) + 1) : i \in 1 .. Len(s) \/ i = Len(s) + 1
  OBVIOUS
<1>2. \A i \in 1 .. Len(s) : s[i] # x
  BY <1>1 DEF ToSet
<1>3. \A i, j \in 1 .. Len(s) : s[i] = s[j] => i = j
  BY <1>1 DEF IsInjective
<1> DEFINE t == Append(s, x)
<1> HIDE DEF t
<1>4. IsInjective(t)
  <2>1. DOMAIN t = 1 .. (Len(s) + 1)
    BY <1>1 DEF t
  <2>2. \A i, j \in 1 .. (Len(s) + 1) : t[i] = t[j] => i = j
    BY <1>1, <1>2, <1>3 DEF t
  <2>. QED BY <2>1, <2>2 DEF IsInjective
<1>5. ToSet(t) = ToSet(s) \cup {x}
  <2>1. DOMAIN t = 1 .. (Len(s) + 1) /\ t[Len(s) + 1] = x /\ \A i \in 1 .. Len(s) : t[i] = s[i]
    BY <1>1 DEF t
  <2>. QED BY <1>1, <2>1 DEF ToSet
<1>. QED BY <1>1, <1>4, <1>5 DEF t

\* A sequence without its first element.
LEMMA TailFacts ==
  ASSUME NEW S, NEW s \in Seq(S), s # <<>>, IsInjective(s)
  PROVE  /\ Tail(s) \in Seq(S) /\ IsInjective(Tail(s)) /\ ToSet(Tail(s)) = ToSet(s) \ {Head(s)}
         /\ Head(s) \in S /\ Head(s) \in ToSet(s)
<1>1. /\ Tail(s) \in Seq(S) /\ DOMAIN s = 1 .. Len(s) /\ DOMAIN Tail(s) = 1 .. (Len(s) - 1)
      /\ Len(s) \in Nat /\ Len(s) # 0 /\ 1 \in 1 .. Len(s) /\ Head(s) = s[1] /\ Head(s) \in S
      /\ \A i \in 1 .. (Len(s) - 1) : Tail(s)[i] = s[i + 1] /\ i + 1 \in 1 .. Len(s) /\ i + 1 # 1
      /\ \A i \in 1 .. Len(s) : i = 1 \/ (i - 1 \in 1 .. (Len(s) - 1) /\ (i - 1) + 1 = i)
  OBVIOUS
<1>2. \A i, j \in 1 .. Len(s) : s[i] = s[j] => i = j
  BY <1>1 DEF IsInjective
<1> DEFINE t == Tail(s)
<1> HIDE DEF t
<1>3. DOMAIN t = 1 .. (Len(s) - 1) /\ \A i \in 1 .. (Len(s) - 1) : t[i] = s[i + 1]
  BY <1>1 DEF t
<1>4. IsInjective(t)
  <2>1. \A i, j \in 1 .. (Len(s) - 1) : t[i] = t[j] => i + 1 = j + 1
    BY <1>1, <1>2, <1>3
  <2>2. \A i, j \in 1 .. (Len(s) - 1) : i + 1 = j + 1 => i = j
    OBVIOUS
  <2>. QED BY <1>3, <2>1, <2>2 DEF IsInjective
<1>5. ToSet(t) = ToSet(s) \ {Head(s)}
  <2>1. ASSUME NEW i \in 1 .. (Len(s) - 1) PROVE t[i] \in ToSet(s) /\ t[i] # s[1]
    BY <1>1, <1>2, <1>3 DEF ToSet
  <2>2. ASSUME NEW i \in 1 .. Len(s), s[i] # s[1] PROVE s[i] \in ToSet(t)
    <3>1. i - 1 \in 1 .. (Len(s) - 1) /\ (i - 1) + 1 = i
      BY <1>1, <2>2
    <3>2. t[i - 1] = s[i]
      BY <1>3, <3>1
    <3>. QED BY <1>3, <3>1, <3>2 DEF ToSet
  <2>. QED BY <1>1, <1>3, <2>1, <2>2 DEF ToSet
<1>. QED BY <1>1, <1>4, <1>5 DEF t, ToSet

\* One turn of the loop: with h sorted, the degrees count the edges that are
\* left, and what has become free of them waits.
LEMMA FollowedFacts ==
  ASSUME DocumentTypes, Known, InOrder, Sorting, waiting # <<>>
  PROVE  LET h == Head(waiting)
             r == Followed(h, [indegree |-> indegree, waiting |-> Tail(waiting)])
             Left(x) == {n \in 1 .. Count : To(n) = x /\ From(n) \notin ToSet(order) \cup {h}}
         IN /\ r \in [indegree : [Ids -> Int], waiting : Seq(Ids)]
            /\ \A x \in Ids : r.indegree[x] = Cardinality(Left(x))
            /\ IsInjective(r.waiting)
            /\ ToSet(r.waiting) = {x \in Ids \ (ToSet(order) \cup {h}) : Left(x) = {}}
<1> DEFINE h == Head(waiting)
           base == [indegree |-> indegree, waiting |-> Tail(waiting)]
           V == [indegree : [Ids -> Int], waiting : Seq(Ids)]
           Left(k, x) == {n \in 1 .. Count : To(n) = x /\ From(n) \notin ToSet(order) /\ (From(n) = h => k < n)}
           Good(k, v) == /\ \A x \in Ids : v.indegree[x] = Cardinality(Left(k, x))
                         /\ IsInjective(v.waiting)
                         /\ ToSet(v.waiting) = {x \in Ids \ (ToSet(order) \cup {h}) : Left(k, x) = {}}
<1>1. Count \in Nat /\ IsFiniteSet(1 .. Count)
  <2>1. Count \in Nat
    BY DEF DocumentTypes
  <2>2. Count \in Int /\ 1 \in Int
    BY <2>1
  <2> HIDE DEF Count
  <2>. QED BY <2>1, <2>2, FS_Interval
<1>2. /\ Tail(waiting) \in Seq(Ids) /\ IsInjective(Tail(waiting))
      /\ ToSet(Tail(waiting)) = ToSet(waiting) \ {h} /\ h \in Ids /\ h \in ToSet(waiting)
  BY TailFacts DEF Sorting
<1>3. h \notin ToSet(order) /\ Open(h) = {}
  BY <1>2 DEF Sorting
<1>4. base \in V
  BY <1>2 DEF Sorting
<1>5. ASSUME NEW k \in 1 .. Count, NEW v \in V PROVE Follows(h, v, document.connections[k]) \in V
  <2>1. To(k) \in Ids
    BY DEF Known
  <2>2. v.indegree[To(k)] - 1 \in Int /\ v.indegree \in [Ids -> Int] /\ v.waiting \in Seq(Ids)
    BY <2>1
  <2>3. [v.indegree EXCEPT ![To(k)] = v.indegree[To(k)] - 1] \in [Ids -> Int]
    BY <2>1, <2>2
  <2>4. Append(v.waiting, To(k)) \in Seq(Ids)
    BY <2>1, <2>2
  <2>. QED BY <2>2, <2>3, <2>4 DEF Follows, To
<1> HIDE DEF base, V, h
<1>6. PICK a \in [0 .. Count -> V] :
        /\ a[0] = base /\ a[Count] = Followed(h, base)
        /\ \A k \in 1 .. Count : a[k] = Follows(h, a[k - 1], document.connections[k])
  <2>1. FollowsWithin(h, V)
    BY <1>5 DEF FollowsWithin
  <2>2. FollowedInTurn(h, V, base)
    BY <1>4, <2>1, FollowedChain
  <2>. QED BY <2>2 DEF FollowedInTurn
<1>7. Good(0, a[0])
  <2>1. \A x \in Ids : Left(0, x) = Open(x)
    BY <1>1 DEF Open
  <2>2. a[0].indegree = indegree /\ a[0].waiting = Tail(waiting)
    BY <1>6 DEF base
  <2>3. ToSet(Tail(waiting)) = {x \in Ids \ (ToSet(order) \cup {h}) : Open(x) = {}}
    BY <1>2 DEF Sorting
  <2>. QED BY <1>2, <2>1, <2>2, <2>3 DEF Sorting
<1>8. ASSUME NEW k \in 1 .. Count, Good(k - 1, a[k - 1]) PROVE Good(k, a[k])
  <2> DEFINE v == a[k - 1]  y == To(k)
  <2>1. v \in V /\ a[k] = Follows(h, v, document.connections[k]) /\ y \in Ids
    BY <1>1, <1>6 DEF Known
  <2>2. v.indegree \in [Ids -> Int] /\ v.waiting \in Seq(Ids)
    BY <2>1 DEF V
  <2>3. CASE From(k) # h
    <3>1. a[k] = v
      BY <2>1, <2>3 DEF Follows, From
    <3>2. \A x \in Ids : Left(k, x) = Left(k - 1, x)
      <4>1. \A n \in 1 .. Count : n # k => (k < n <=> k - 1 < n)
        OBVIOUS
      <4>. QED BY <2>3, <4>1
    <3>. QED BY <1>8, <3>1, <3>2
  <2>4. CASE From(k) = h
    <3>1. \A x \in Ids : x # y => Left(k, x) = Left(k - 1, x)
      <4>1. \A n \in 1 .. Count : n # k => (k < n <=> k - 1 < n)
        OBVIOUS
      <4>. QED BY <4>1
    <3>2. k \in Left(k - 1, y) /\ Left(k, y) = Left(k - 1, y) \ {k}
      <4>1. \A n \in 1 .. Count : n # k => (k < n <=> k - 1 < n)
        OBVIOUS
      <4>2. k - 1 < k /\ ~(k < k)
        OBVIOUS
      <4>. QED BY <1>3, <2>4, <4>1, <4>2
    <3>3. IsFiniteSet(Left(k - 1, y)) /\ IsFiniteSet(Left(k, y))
      BY <1>1, FS_Subset
    <3>4. Cardinality(Left(k, y)) = Cardinality(Left(k - 1, y)) - 1
      <4> DEFINE L == Left(k - 1, y)  M == Left(k, y)
      <4>1. k \in L /\ M = L \ {k} /\ IsFiniteSet(L)
        BY <3>2, <3>3
      <4> HIDE DEF L, M
      <4>2. Cardinality(M) = Cardinality(L) - 1
        BY <4>1, FS_RemoveElement
      <4>. QED BY <4>2 DEF L, M
    <3>5. Left(k, y) = {} <=> Cardinality(Left(k, y)) = 0
      BY <3>3, FS_EmptySet
    <3>6. y \notin ToSet(order) \cup {h}
      <4>1. k \in Open(y)
        BY <1>3, <2>4 DEF Open
      <4>. QED BY <1>3, <4>1 DEF Sorting
    <3> DEFINE d == v.indegree[y] - 1
    <3>7. d = Cardinality(Left(k, y)) /\ d \in Int
      BY <1>8, <2>1, <2>2, <3>4
    <3>8. /\ a[k].indegree = [v.indegree EXCEPT ![y] = d]
          /\ a[k].waiting = IF d = 0 THEN Append(v.waiting, y) ELSE v.waiting
      BY <2>1, <2>4 DEF Follows, From, To
    <3> HIDE DEF d, Left
    <3>9. \A x \in Ids : a[k].indegree[x] = Cardinality(Left(k, x))
      BY <1>8, <2>1, <2>2, <3>1, <3>7, <3>8
    <3>10. y \notin ToSet(v.waiting)
      BY <1>8, <3>2
    <3>11. CASE d = 0
      <4>1. /\ IsInjective(a[k].waiting) /\ ToSet(a[k].waiting) = ToSet(v.waiting) \cup {y}
        BY <1>8, <2>1, <2>2, <3>8, <3>10, <3>11, AppendFacts
      <4>2. Left(k, y) = {}
        BY <3>5, <3>7, <3>11
      <4>3. \A x : x \in {z \in Ids \ (ToSet(order) \cup {h}) : Left(k, z) = {}} <=>
                     x = y \/ x \in {z \in Ids \ (ToSet(order) \cup {h}) : Left(k - 1, z) = {}}
        BY <2>1, <3>1, <3>2, <3>6, <4>2
      <4>. QED BY <1>8, <3>9, <4>1, <4>3
    <3>12. CASE d # 0
      <4>1. a[k].waiting = v.waiting
        BY <3>8, <3>12
      <4>2. Left(k, y) # {}
        BY <3>5, <3>7, <3>12
      <4>3. \A x \in Ids : Left(k, x) = {} <=> Left(k - 1, x) = {}
        BY <3>1, <3>2, <4>2
      <4>. QED BY <1>8, <3>9, <4>1, <4>3
    <3>. QED BY <3>11, <3>12
  <2>. QED BY <2>3, <2>4
<1> DEFINE K == {k \in Nat : k <= Count => Good(k, a[k])}
<1>9. K = Nat
  <2>1. 0 \in K
    BY <1>7
  <2>2. ASSUME NEW k \in K PROVE k + 1 \in K
    <3>1. CASE k + 1 <= Count
      <4>1. k + 1 \in 1 .. Count /\ (k + 1) - 1 = k /\ k <= Count /\ k + 1 \in Nat
        BY <1>1, <3>1
      <4>2. Good(k, a[k])
        BY <4>1
      <4> HIDE DEF Good
      <4>3. Good(k + 1, a[k + 1])
        BY <1>8, <4>1, <4>2
      <4>. QED BY <4>1, <4>3
    <3>2. CASE ~(k + 1 <= Count)
      BY <3>2
    <3>. QED BY <3>1, <3>2
  <2>3. K \in SUBSET Nat
    OBVIOUS
  <2> HIDE DEF K
  <2>. QED BY <2>1, <2>2, <2>3, Inductive
<1>10. Good(Count, a[Count]) /\ a[Count] \in V
  <2>1. Count \in K /\ Count <= Count
    BY <1>1, <1>9
  <2> HIDE DEF Good
  <2>. QED BY <1>1, <1>6, <2>1
<1>11. \A x \in Ids : Left(Count, x) = {n \in 1 .. Count : To(n) = x /\ From(n) \notin ToSet(order) \cup {h}}
  BY <1>1
<1> HIDE DEF Left
<1>. QED BY <1>6, <1>10, <1>11 DEF base, V, h

\* A sequence that repeats nothing has as many members as places.
LEMMA InjectiveCount ==
  ASSUME NEW S, NEW s \in Seq(S), IsInjective(s)
  PROVE  IsFiniteSet(ToSet(s)) /\ Cardinality(ToSet(s)) = Len(s) /\ ToSet(s) \subseteq S
<1>1. DOMAIN s = 1 .. Len(s) /\ Len(s) \in Nat /\ \A i \in 1 .. Len(s) : s[i] \in S
  OBVIOUS
<1>2. s \in Bijection(1 .. Len(s), ToSet(s))
  <2>1. s \in [1 .. Len(s) -> ToSet(s)]
    BY <1>1 DEF ToSet
  <2>2. \A t \in ToSet(s) : \E i \in 1 .. Len(s) : s[i] = t
    BY <1>1 DEF ToSet
  <2>. QED BY <2>1, <2>2 DEF Bijection, Injection, Surjection
<1>3. IsFiniteSet(1 .. Len(s)) /\ Cardinality(1 .. Len(s)) = Len(s)
  <2>1. PICK n \in Nat : n = Len(s)
    BY <1>1
  <2>2. IsFiniteSet(1 .. n) /\ Cardinality(1 .. n) = n
    BY FS_Interval
  <2>. QED BY <2>1, <2>2
<1>4. IsFiniteSet(ToSet(s)) /\ Cardinality(ToSet(s)) = Cardinality(1 .. Len(s))
  <2>1. ExistsBijection(1 .. Len(s), ToSet(s))
    BY <1>2 DEF ExistsBijection
  <2>. QED BY <1>3, <2>1, FS_Bijection
<1>5. ToSet(s) \subseteq S
  BY <1>1 DEF ToSet
<1>. QED BY <1>3, <1>4, <1>5

\* The first processors, as a HashMap has them.
LEMMA SomeOrder ==
  ASSUME NEW S, IsFiniteSet(S), NEW s \in SetToSeqs(S)
  PROVE  s \in Seq(S) /\ IsInjective(s) /\ ToSet(s) = S
<1> DEFINE n == Cardinality(S)
<1>1. n \in Nat
  BY FS_CardinalityType
<1>2. s \in [1 .. n -> S] /\ \A i, j \in 1 .. n : i # j => s[i] # s[j]
  BY DEF SetToSeqs
<1> HIDE DEF n
<1>3. s \in Seq(S) /\ Len(s) = n /\ IsInjective(s)
  BY <1>1, <1>2 DEF IsInjective
<1>4. Cardinality(ToSet(s)) = Cardinality(S) /\ ToSet(s) \subseteq S
  BY <1>3, InjectiveCount DEF n
<1>. QED BY <1>3, <1>4, FS_Subset

\* Before the graph is built, and where it is at fault.
Before == {"read", "unreadable", "settings", "settings_error", "build", "empty", "duplicate", "unknown_processor"}

LoadingInv ==
  /\ document \in Manifests
  /\ step \in Before => order = <<>>
  /\ step \notin Before => Known
  /\ step = "sort" => InOrder /\ Sorting
  /\ step = "cycle" => Cyclic
  /\ step \notin Before \cup {"sort", "cycle"} => InOrder /\ ToSet(order) = Ids

\* What a manifest gives: two sequences, and finitely many ids.
LEMMA DocumentFacts ==
  ASSUME document \in Manifests
  PROVE  DocumentTypes /\ IsFiniteSet(Ids) /\ Cardinality(Ids) <= Visits
<1>1. document.processors \in Seq(STRING) /\ document.connections \in Seq([from : STRING, to : STRING])
  BY FlowLoadingAssumption DEF FlowLoadingAssumption
<1>2. DocumentTypes
  BY <1>1 DEF DocumentTypes, Count, Visits
<1>3. IsFiniteSet(1 .. Visits) /\ Cardinality(1 .. Visits) = Visits
  BY <1>2, FS_Interval DEF DocumentTypes
<1>4. document.processors \in Surjection(1 .. Visits, Ids)
  <2>1. document.processors \in [1 .. Visits -> Ids]
    BY <1>1, <1>2 DEF DocumentTypes, Ids
  <2>2. \A t \in Ids : \E s \in 1 .. Visits : document.processors[s] = t
    BY <1>2 DEF DocumentTypes, Ids
  <2>. QED BY <2>1, <2>2 DEF Surjection
<1>. QED BY <1>2, <1>3, <1>4, FS_Surjection

\* The invariant holds at first.
LEMMA LoadingInit1 == LoadingInit => LoadingInv
BY DEF LoadingInit, LoadingInv, Before

\* The loop begins with nothing sorted, and what no edge enters.
LEMMA SortBegins ==
  ASSUME document \in Manifests, order = <<>>, step = "build", BuildsGraph, step' = "sort"
  PROVE  Known' /\ InOrder' /\ Sorting' /\ document' = document
<1>1. /\ Cardinality(Ids) = Len(document.processors)
      /\ ~\E n \in DOMAIN document.connections :
            ~({document.connections[n].from, document.connections[n].to} \subseteq Ids)
      /\ indegree' = [id \in Ids |-> Degree(id)]
      /\ waiting' \in SetToSeqs({id \in Ids : Degree(id) = 0})
      /\ UNCHANGED <<order, document>>
  BY DEF BuildsGraph, Rejects
<1>2. DocumentTypes /\ IsFiniteSet(Ids)
  BY DocumentFacts
<1>3. Known
  BY <1>1, <1>2 DEF Known, DocumentTypes, From, To, Visits
<1>4. ToSet(order) = {} /\ order \in Seq(Ids) /\ DOMAIN order = {}
  BY DEF ToSet
<1>5. \A x \in Ids : IsFiniteSet(Open(x)) /\ Degree(x) = Cardinality(Open(x))
  <2> SUFFICES ASSUME NEW x \in Ids PROVE IsFiniteSet(Open(x)) /\ Degree(x) = Cardinality(Open(x))
    OBVIOUS
  <2>1. IsFiniteSet(1 .. Count) /\ Open(x) \in SUBSET (1 .. Count)
    BY <1>2, FS_Interval DEF DocumentTypes, Open
  <2>2. Open(x) = {n \in DOMAIN document.connections : document.connections[n].to = x}
    BY <1>2, <1>4 DEF DocumentTypes, Open, To
  <2>. QED BY <2>1, <2>2, FS_Subset DEF Degree
<1>6. \A x \in Ids : Degree(x) = 0 <=> Open(x) = {}
  BY <1>5, FS_EmptySet
<1>7. waiting' \in Seq(Ids) /\ IsInjective(waiting') /\ ToSet(waiting') = {x \in Ids : Open(x) = {}}
  <2> DEFINE S == {id \in Ids : Degree(id) = 0}
  <2>1. IsFiniteSet(S) /\ S \subseteq Ids
    BY <1>2, FS_Subset
  <2>2. S = {x \in Ids : Open(x) = {}}
    BY <1>6
  <2> HIDE DEF S
  <2>3. waiting' \in SetToSeqs(S)
    BY <1>1 DEF S
  <2>4. waiting' \in Seq(S) /\ IsInjective(waiting') /\ ToSet(waiting') = S
    <3>1. PICK s \in SetToSeqs(S) : s = waiting'
      BY <2>3
    <3>. QED BY <2>1, <3>1, SomeOrder
  <2>5. waiting' \in Seq(Ids)
    BY <2>1, <2>4
  <2>. QED BY <2>2, <2>4, <2>5
<1>8. Known'
  BY <1>1, <1>3 DEF Known, Count, From, To, Ids, Visits
<1>9. InOrder'
  <2>1. InOrder
    BY <1>4 DEF InOrder, IsInjective
  <2>. QED BY <1>1, <2>1 DEF InOrder, Ids, Edge
<1>10. Sorting'
  <2>1. \A x : Open(x)' = Open(x)
    BY <1>1 DEF Open, Count, From, To
  <2>2. Ids' = Ids /\ order' = order /\ ToSet(order)' = ToSet(order)
    BY <1>1 DEF Ids
  <2>3. indegree' \in [Ids -> Int] /\ \A x \in Ids : indegree'[x] = Cardinality(Open(x))
    <3>1. \A x \in Ids : Degree(x) \in Int
      BY <1>5, FS_CardinalityType
    <3>. QED BY <1>1, <1>5, <3>1
  <2>. QED BY <1>4, <1>7, <2>1, <2>2, <2>3 DEF Sorting
<1>. QED BY <1>1, <1>8, <1>9, <1>10

\* One more is sorted, and what it frees waits.
LEMMA SortGoesOn ==
  ASSUME document \in Manifests, Known, InOrder, Sorting, Sorts
  PROVE  Known' /\ InOrder' /\ Sorting' /\ document' = document /\ step' = step
<1> DEFINE h == Head(waiting)
           r == Followed(h, [indegree |-> indegree, waiting |-> Tail(waiting)])
           Left(x) == {n \in 1 .. Count : To(n) = x /\ From(n) \notin ToSet(order) \cup {h}}
<1>1. /\ waiting # <<>> /\ order' = Append(order, h)
      /\ indegree' = r.indegree /\ waiting' = r.waiting
      /\ UNCHANGED <<document, step>>
  BY DEF Sorts
<1>2. DocumentTypes
  BY DocumentFacts
<1>3. /\ r \in [indegree : [Ids -> Int], waiting : Seq(Ids)]
      /\ \A x \in Ids : r.indegree[x] = Cardinality(Left(x))
      /\ IsInjective(r.waiting)
      /\ ToSet(r.waiting) = {x \in Ids \ (ToSet(order) \cup {h}) : Left(x) = {}}
  BY <1>1, <1>2, FollowedFacts
<1>4. h \in Ids /\ h \in ToSet(waiting)
  BY <1>1, TailFacts DEF Sorting
<1>5. h \notin ToSet(order) /\ Open(h) = {} /\ \A x \in ToSet(order) : Open(x) = {}
  BY <1>4 DEF Sorting
<1> HIDE DEF h, r
<1>6. /\ order' \in Seq(Ids) /\ IsInjective(order') /\ ToSet(order') = ToSet(order) \cup {h}
  BY <1>1, <1>4, <1>5, AppendFacts DEF InOrder
<1>7. /\ Ids' = Ids /\ Count' = Count /\ \A n : From(n)' = From(n) /\ To(n)' = To(n)
      /\ \A x, y : Edge(x, y)' <=> Edge(x, y)
  BY <1>1 DEF Ids, Count, From, To, Edge
<1>8. Known'
  BY <1>1 DEF Known, Count, From, To, Ids, Visits
<1>9. \A y : \A x \in ToSet(order) \cup {h} : Edge(y, x) => y \in ToSet(order)
  <2> SUFFICES ASSUME NEW y, NEW x \in ToSet(order) \cup {h}, Edge(y, x), y \notin ToSet(order) PROVE FALSE
    OBVIOUS
  <2>1. PICK n \in 1 .. Count : From(n) = y /\ To(n) = x
    BY <1>2 DEF Edge, DocumentTypes, From, To
  <2>2. n \in Open(x)
    BY <2>1 DEF Open
  <2>. QED BY <1>5, <2>2
<1>10. \A m, n \in DOMAIN order' : Edge(order'[m], order'[n]) => m < n
  <2>1. /\ DOMAIN order = 1 .. Len(order) /\ Len(order) \in Nat /\ DOMAIN order' = 1 .. (Len(order) + 1)
        /\ order'[Len(order) + 1] = h /\ \A i \in 1 .. Len(order) : order'[i] = order[i]
    BY <1>1, <1>4 DEF InOrder
  <2> DEFINE N == Len(order)
  <2>2. \A i \in 1 .. (N + 1) : i \in 1 .. N \/ i = N + 1
    BY <2>1
  <2>3. \A i \in 1 .. N : i < N + 1
    BY <2>1
  <2>4. \A i \in 1 .. N : order[i] \in ToSet(order)
    BY <2>1 DEF ToSet
  <2>5. \A m, n \in 1 .. N : Edge(order[m], order[n]) => m < n
    BY <2>1 DEF InOrder
  <2> HIDE DEF N
  <2> SUFFICES ASSUME NEW m \in 1 .. (N + 1), NEW n \in 1 .. (N + 1), Edge(order'[m], order'[n]) PROVE m < n
    BY <2>1 DEF N
  <2>6. CASE m = N + 1
    <3>1. Edge(h, order'[n]) /\ order'[n] \in ToSet(order) \cup {h}
      BY <2>1, <2>2, <2>4, <2>6 DEF N
    <3>. QED BY <1>5, <1>9, <3>1
  <2>7. CASE m \in 1 .. N /\ n = N + 1
    BY <2>3, <2>7
  <2>8. CASE m \in 1 .. N /\ n \in 1 .. N
    BY <2>1, <2>5, <2>8 DEF N
  <2>. QED BY <2>2, <2>6, <2>7, <2>8
<1>11. InOrder'
  BY <1>6, <1>7, <1>10 DEF InOrder
<1>12. \A x : Open(x)' = Left(x)
  BY <1>6, <1>7 DEF Open
<1>13. ASSUME NEW x \in ToSet(order) \cup {h} PROVE Left(x) = {}
  <2>1. Open(x) = {}
    BY <1>5, <1>13
  <2>. QED BY <2>1 DEF Open
<1> HIDE DEF Left
<1>14. Sorting'
  <2>1. waiting' \in Seq(Ids') /\ IsInjective(waiting') /\ indegree' \in [Ids' -> Int]
    BY <1>1, <1>3, <1>7
  <2>2. \A x \in Ids' : indegree'[x] = Cardinality(Open(x)')
    BY <1>1, <1>3, <1>7, <1>12
  <2>3. ToSet(waiting') = {x \in Ids' \ ToSet(order') : Open(x)' = {}}
    BY <1>1, <1>3, <1>6, <1>7, <1>12
  <2>4. \A x \in ToSet(order') : Open(x)' = {}
    BY <1>6, <1>12, <1>13
  <2>. QED BY <2>1, <2>2, <2>3, <2>4 DEF Sorting
<1>. QED BY <1>1, <1>8, <1>11, <1>14

\* When nothing waits, all is sorted, or what is not closes a circle.
LEMMA SortIsOver ==
  ASSUME document \in Manifests, Known, InOrder, Sorting, waiting = <<>>
  PROVE  /\ Len(order) = Visits => ToSet(order) = Ids
         /\ Len(order) # Visits => Cyclic
<1>1. IsFiniteSet(ToSet(order)) /\ Cardinality(ToSet(order)) = Len(order) /\ ToSet(order) \subseteq Ids
  BY InjectiveCount DEF InOrder
<1>2. IsFiniteSet(Ids) /\ Cardinality(Ids) = Visits
  BY DEF Known
<1>3. Len(order) = Visits => ToSet(order) = Ids
  BY <1>1, <1>2, FS_Subset
<1>4. ASSUME Len(order) # Visits PROVE Cyclic
  <2> DEFINE group == Ids \ ToSet(order)
  <2>1. group # {}
    <3>1. ToSet(order) # Ids
      BY <1>1, <1>2, <1>4
    <3>. QED BY <1>1, <3>1
  <2>2. ToSet(waiting) = {}
    BY DEF ToSet
  <2>3. ASSUME NEW b \in group PROVE \E a \in group : Edge(a, b)
    <3>1. Open(b) # {}
      BY <2>2 DEF Sorting
    <3>2. PICK n \in 1 .. Count : To(n) = b /\ From(n) \notin ToSet(order)
      BY <3>1 DEF Open
    <3>3. From(n) \in group
      BY <3>2 DEF Known
    <3>4. Edge(From(n), b)
      BY <3>2, DocumentFacts DEF DocumentTypes, Edge, From, To
    <3>. QED BY <3>3, <3>4
  <2>4. group \in SUBSET Ids
    OBVIOUS
  <2> HIDE DEF group
  <2>. QED BY <2>1, <2>3, <2>4 DEF Cyclic
<1>. QED BY <1>3, <1>4

\* Every step keeps the invariant.
LEMMA LoadingStep == LoadingInv /\ [LoadingNext]_loadingVars => LoadingInv'
<1> SUFFICES ASSUME LoadingInv, [LoadingNext]_loadingVars PROVE LoadingInv'
  OBVIOUS
<1>1. ASSUME document' = document, order' = order
      PROVE  (Known' <=> Known) /\ (InOrder' <=> InOrder) /\ (Cyclic' <=> Cyclic) /\ Ids' = Ids
  BY <1>1 DEF Known, InOrder, Cyclic, Ids, Edge, Count, Visits, From, To
<1>2. ASSUME document' = document, order' = order, step \in Before, step' \in Before PROVE LoadingInv'
  BY <1>2 DEF LoadingInv, Before
<1>3. ASSUME document' = document, order' = order, step \notin Before \cup {"sort", "cycle"},
             step' \notin Before \cup {"sort", "cycle"}
      PROVE  LoadingInv'
  BY <1>1, <1>3 DEF LoadingInv, Before
<1>4. CASE ReadsFlow
  BY <1>2, <1>4 DEF ReadsFlow, Before, graphVars
<1>5. CASE ChecksSettings
  BY <1>2, <1>5 DEF ChecksSettings, Before, graphVars
<1>6. CASE BuildsGraph
  <2>1. step = "build" /\ document' = document /\ order' = order /\ step' \in Before \cup {"sort"}
    BY <1>6 DEF BuildsGraph, Before, Rejects, graphVars
  <2>2. CASE step' = "sort"
    <3>1. document \in Manifests /\ order = <<>>
      BY <2>1 DEF LoadingInv, Before
    <3>2. Known' /\ InOrder' /\ Sorting'
      BY <1>6, <2>1, <2>2, <3>1, SortBegins
    <3>. QED BY <2>1, <2>2, <3>1, <3>2 DEF LoadingInv, Before
  <2>3. CASE step' # "sort"
    BY <1>2, <2>1, <2>3 DEF Before
  <2>. QED BY <2>2, <2>3
<1>7. CASE Sorts
  <2>1. step = "sort" /\ document \in Manifests /\ Known /\ InOrder /\ Sorting
    BY <1>7 DEF Sorts, LoadingInv, Before
  <2>2. Known' /\ InOrder' /\ Sorting' /\ document' = document /\ step' = step
    BY <1>7, <2>1, SortGoesOn
  <2>. QED BY <2>1, <2>2 DEF LoadingInv, Before
<1>8. CASE SortEnds
  <2>1. step = "sort" /\ waiting = <<>> /\ document' = document /\ order' = order
        /\ step' = IF Len(order) # Visits THEN "cycle" ELSE "parameters"
    BY <1>8 DEF SortEnds, graphVars, Visits
  <2>2. document \in Manifests /\ Known /\ InOrder /\ Sorting
    BY <2>1 DEF LoadingInv, Before
  <2>3. (Len(order) = Visits => ToSet(order) = Ids) /\ (Len(order) # Visits => Cyclic)
    BY <2>1, <2>2, SortIsOver
  <2>. QED BY <1>1, <2>1, <2>2, <2>3 DEF LoadingInv, Before
<1>9. CASE ReplacesParameters
  BY <1>3, <1>9 DEF ReplacesParameters, Before, graphVars
<1>10. CASE ResolvesVariable
  BY <1>3, <1>10 DEF ResolvesVariable, Before, graphVars, Rejects
<1>11. CASE TextEnds
  BY <1>3, <1>11 DEF TextEnds, Before, graphVars
<1>12. CASE ChecksDepths
  BY <1>3, <1>12 DEF ChecksDepths, Before, graphVars
<1>13. CASE ChecksProcessors
  BY <1>3, <1>13 DEF ChecksProcessors, Before, graphVars
<1>14. CASE UNCHANGED loadingVars
  <2>1. Sorting' <=> Sorting
    BY <1>14 DEF loadingVars, Sorting, Ids, Open, Count, From, To
  <2>2. document' = document /\ order' = order /\ step' = step
    BY <1>14 DEF loadingVars
  <2>. QED BY <1>1, <2>1, <2>2 DEF LoadingInv
<1>. QED BY <1>4, <1>5, <1>6, <1>7, <1>8, <1>9, <1>10, <1>11, <1>12, <1>13, <1>14 DEF LoadingNext

\* What is sorted as a whole has no circle, and each processor once.
LEMMA SortMeaning ==
  ASSUME document \in Manifests, Known, InOrder, ToSet(order) = Ids
  PROVE  ~Cyclic /\ Len(order) = Cardinality(Ids)
<1>1. Len(order) = Cardinality(Ids)
  BY InjectiveCount DEF InOrder
<1>2. ASSUME NEW group \in SUBSET Ids, group # {}, \A b \in group : \E a \in group : Edge(a, b) PROVE FALSE
  <2> DEFINE places == {n \in DOMAIN order : order[n] \in group}
  <2>1. DOMAIN order = 1 .. Len(order) /\ \A x \in Ids : \E n \in DOMAIN order : order[n] = x
    BY DEF InOrder, ToSet
  <2>2. places # {} /\ places \in SUBSET Nat
    BY <1>2, <2>1
  <2>3. PICK n \in places : \A m \in places : n <= m
    <3> HIDE DEF places
    <3>. QED BY <2>2, LeastNumber
  <2>4. PICK a \in group : Edge(a, order[n])
    BY <1>2
  <2>5. PICK m \in DOMAIN order : order[m] = a
    BY <2>1
  <2>6. m < n /\ m \in places
    BY <2>4, <2>5 DEF InOrder
  <2>7. n <= m /\ m \in Nat /\ n \in Nat
    BY <2>2, <2>3, <2>6
  <2>. QED BY <2>6, <2>7
<1>. QED BY <1>1, <1>2 DEF Cyclic

----------------------------------------------------------------------------
(* The depths of a flow without circles. *)

Result == [depth : Nat, memo : Memos]

\* A number for each processor, less for what it feeds.
Ranking(rank) ==
  /\ rank \in [Ids -> 0 .. Visits]
  /\ \A n \in 1 .. Count : rank[To(n)] < rank[From(n)]

\* The order of the sort, read from its end, is such a number.
LEMMA Ranked ==
  ASSUME DocumentTypes, Known, InOrder, ToSet(order) = Ids
  PROVE  \E rank : Ranking(rank)
<1> DEFINE place == [x \in Ids |-> CHOOSE n \in DOMAIN order : order[n] = x]
           rank == [x \in Ids |-> Visits - place[x]]
<1>1. Visits \in Nat /\ Count \in Nat /\ DOMAIN document.connections = 1 .. Count
  BY DEF DocumentTypes
<1>2. DOMAIN order = 1 .. Visits
  <2>1. Len(order) = Visits
    BY InjectiveCount DEF InOrder, Known
  <2>. QED BY <2>1 DEF InOrder
<1>3. \A x \in Ids : place[x] \in 1 .. Visits /\ order[place[x]] = x
  <2>1. \A x \in Ids : \E n \in DOMAIN order : order[n] = x
    BY DEF ToSet
  <2>. QED BY <1>2, <2>1
<1>4. \A n \in 1 .. Count : place[From(n)] < place[To(n)]
  <2> SUFFICES ASSUME NEW n \in 1 .. Count PROVE place[From(n)] < place[To(n)]
    OBVIOUS
  <2> DEFINE i == place[From(n)]  j == place[To(n)]
  <2>1. From(n) \in Ids /\ To(n) \in Ids
    BY DEF Known
  <2>2. i \in DOMAIN order /\ j \in DOMAIN order /\ order[i] = From(n) /\ order[j] = To(n)
    BY <1>2, <1>3, <2>1
  <2> HIDE DEF i, j
  <2>3. Edge(order[i], order[j])
    BY <1>1, <2>2 DEF Edge, From, To
  <2>. QED BY <2>2, <2>3 DEF InOrder, i, j
<1> HIDE DEF place
<1>5. rank \in [Ids -> 0 .. Visits]
  BY <1>1, <1>3
<1>6. \A n \in 1 .. Count : rank[To(n)] < rank[From(n)]
  <2> SUFFICES ASSUME NEW n \in 1 .. Count PROVE rank[To(n)] < rank[From(n)]
    OBVIOUS
  <2>1. From(n) \in Ids /\ To(n) \in Ids
    BY DEF Known
  <2>2. place[From(n)] \in 1 .. Visits /\ place[To(n)] \in 1 .. Visits /\ place[From(n)] < place[To(n)]
    BY <1>3, <1>4, <2>1
  <2>. QED BY <1>1, <2>1, <2>2
<1> HIDE DEF rank
<1>. QED BY <1>5, <1>6 DEF Ranking

\* An edge is followed to a result, if what it leads to has one.
LEMMA DeepenType ==
  ASSUME DocumentTypes, Known, NEW id \in Ids, NEW f, NEW k \in 1 .. Count, NEW v \in Result,
         From(k) = id => \A q \in Memos : f[<<To(k), q>>] \in Result
  PROVE  Deepen(f, id, v, document.connections[k]) \in Result
<1>1. v.depth \in Nat /\ v.memo \in Memos
  BY DEF Result
<1>2. CASE From(k) # id
  BY <1>2 DEF Deepen, From
<1>3. CASE From(k) = id
  <2> DEFINE below == f[<<To(k), v.memo>>]
  <2>1. below \in Result
    BY <1>1, <1>3
  <2>2. below.depth \in Nat /\ below.memo \in Memos /\ 1 + below.depth \in Nat
    BY <2>1 DEF Result
  <2> HIDE DEF below
  <2>3. Deepen(f, id, v, document.connections[k]) =
          [depth |-> IF 1 + below.depth > v.depth THEN 1 + below.depth ELSE v.depth, memo |-> below.memo]
    BY <1>3 DEF Deepen, From, To, below
  <2>. QED BY <1>1, <2>2, <2>3 DEF Result
<1>. QED BY <1>2, <1>3

\* A visit looks only at what the processor feeds.
LEMMA VisitedSame ==
  ASSUME DocumentTypes, Known, NEW id \in Ids, NEW m \in Memos, NEW f, NEW g,
         \A k \in 1 .. Count : From(k) = id => \A q \in Memos :
            f[<<To(k), q>>] = g[<<To(k), q>>] /\ f[<<To(k), q>>] \in Result
  PROVE  Visited(f, id, m) = Visited(g, id, m) /\ Visited(f, id, m) \in Result
<1> DEFINE base == [depth |-> 0, memo |-> m]
<1>1. base \in Result /\ Count \in Nat
  BY DEF Result, DocumentTypes
<1>2. \A k \in 1 .. Count, v \in Result : /\ Deepen(f, id, v, document.connections[k]) \in Result
                                          /\ Deepen(g, id, v, document.connections[k]) \in Result
  BY DeepenType
<1>3. DeepensWithin(f, id, Result) /\ DeepensWithin(g, id, Result)
  BY <1>2 DEF DeepensWithin
<1>4. PICK R, b : R = Result /\ b = base
  OBVIOUS
<1>5. PICK c \in [0 .. Count -> R] :
        /\ c[0] = b /\ c[Count] = Deepened(f, id, b)
        /\ \A k \in 1 .. Count : c[k] = Deepen(f, id, c[k - 1], document.connections[k])
  <2>1. DeepenedInTurn(f, id, R, b)
    BY <1>1, <1>3, <1>4, DeepenedChain
  <2>. QED BY <2>1 DEF DeepenedInTurn
<1>6. PICK d \in [0 .. Count -> R] :
        /\ d[0] = b /\ d[Count] = Deepened(g, id, b)
        /\ \A k \in 1 .. Count : d[k] = Deepen(g, id, d[k - 1], document.connections[k])
  <2>1. DeepenedInTurn(g, id, R, b)
    BY <1>1, <1>3, <1>4, DeepenedChain
  <2>. QED BY <2>1 DEF DeepenedInTurn
<1> DEFINE K == {k \in Nat : k <= Count => c[k] = d[k]}
<1>7. 0 \in K
  BY <1>5, <1>6
<1>8. ASSUME NEW k \in K PROVE k + 1 \in K
  <2>1. CASE k + 1 <= Count
    <3>1. k + 1 \in 1 .. Count /\ (k + 1) - 1 = k /\ k <= Count /\ k \in 0 .. Count
      BY <1>1, <2>1
    <3>2. c[k] = d[k] /\ c[k] \in Result
      BY <1>4, <1>5, <3>1
    <3>3. /\ c[k + 1] = Deepen(f, id, c[k], document.connections[k + 1])
          /\ d[k + 1] = Deepen(g, id, c[k], document.connections[k + 1])
      BY <1>5, <1>6, <3>1, <3>2
    <3>4. c[k].memo \in Memos
      BY <3>2 DEF Result
    <3>5. c[k + 1] = d[k + 1]
      <4>1. CASE From(k + 1) = id
        <5>1. f[<<To(k + 1), c[k].memo>>] = g[<<To(k + 1), c[k].memo>>]
          BY <3>1, <3>4, <4>1
        <5>. QED BY <3>3, <5>1 DEF Deepen, To
      <4>2. CASE From(k + 1) # id
        BY <3>3, <4>2 DEF Deepen, From
      <4>. QED BY <4>1, <4>2
    <3>. QED BY <3>5
  <2>2. CASE ~(k + 1 <= Count)
    BY <2>2
  <2>. QED BY <2>1, <2>2
<1>9. K = Nat
  <2>1. K \in SUBSET Nat
    OBVIOUS
  <2> HIDE DEF K
  <2>. QED BY <1>7, <1>8, <2>1, Inductive
<1>10. Deepened(f, id, base) = Deepened(g, id, base) /\ Deepened(f, id, base) \in Result
  <2>1. Count \in K /\ Count \in 0 .. Count
    BY <1>1, <1>9
  <2>. QED BY <1>4, <1>5, <1>6, <2>1
<1>11. CASE m[id] # Unknown
  <2>1. m[id] \in Nat
    BY <1>11 DEF Memos
  <2>. QED BY <1>11, <2>1 DEF Visited, Result
<1>12. CASE m[id] = Unknown
  <2> DEFINE r == Deepened(f, id, base)
  <2>1. r.depth \in Nat /\ r.memo \in Memos
    BY <1>10 DEF Result
  <2>2. Visited(f, id, m) = [depth |-> r.depth, memo |-> [r.memo EXCEPT ![id] = r.depth]]
        /\ Visited(g, id, m) = Visited(f, id, m)
    BY <1>10, <1>12 DEF Visited
  <2> HIDE DEF r
  <2>3. [r.memo EXCEPT ![id] = r.depth] \in Memos
    BY <2>1 DEF Memos
  <2>. QED BY <2>1, <2>2, <2>3 DEF Result
<1>. QED BY <1>11, <1>12

Answers(f, x) == \A m \in Memos : f[<<x, m>>] = Visited(f, x, m) /\ f[<<x, m>>] \in Result

\* The visits that the code makes are those of a function.
LEMMA VisitExists ==
  ASSUME DocumentTypes, Known, NEW rank, Ranking(rank)
  PROVE  \E f : f = [pair \in Ids \X Memos |-> Visited(f, pair[1], pair[2])]
<1> DEFINE Calls == Ids \X Memos
           Upto(f, r) == \A x \in Ids : rank[x] < r => Answers(f, x)
           R == {r \in Nat : \E f \in [Calls -> Result] : Upto(f, r)}
<1>1. Count \in Nat /\ Visits \in Nat
  BY DEF DocumentTypes
<1>2. 0 \in R
  <2> DEFINE f == [pair \in Calls |-> [depth |-> 0, memo |-> pair[2]]]
  <2>1. \A pair \in Calls : [depth |-> 0, memo |-> pair[2]] \in Result
    BY DEF Result
  <2>2. f \in [Calls -> Result]
    BY <2>1
  <2>3. \A x \in Ids : ~(rank[x] < 0)
    BY <1>1 DEF Ranking
  <2> HIDE DEF f
  <2>. QED BY <2>2, <2>3
<1>3. ASSUME NEW r \in R PROVE r + 1 \in R
  <2>1. PICK f \in [Calls -> Result] : Upto(f, r)
    OBVIOUS
  <2> DEFINE g == [pair \in Calls |-> IF rank[pair[1]] = r THEN Visited(f, pair[1], pair[2]) ELSE f[pair]]
  <2>2. \A x \in Ids, m \in Memos : <<x, m>> \in Calls /\ f[<<x, m>>] \in Result
    BY <2>1
  <2>3. \A x \in Ids, m \in Memos : Visited(f, x, m) \in Result
    <3> SUFFICES ASSUME NEW x \in Ids, NEW m \in Memos PROVE Visited(f, x, m) \in Result
      OBVIOUS
    <3>1. \A k \in 1 .. Count : From(k) = x => \A q \in Memos :
             f[<<To(k), q>>] = f[<<To(k), q>>] /\ f[<<To(k), q>>] \in Result
      BY <2>2 DEF Known
    <3>. QED BY <3>1, VisitedSame
  <2>4. g \in [Calls -> Result]
    <3>1. \A pair \in Calls : pair[1] \in Ids /\ pair[2] \in Memos /\ f[pair] \in Result
      BY <2>1
    <3>2. \A pair \in Calls : (IF rank[pair[1]] = r THEN Visited(f, pair[1], pair[2]) ELSE f[pair]) \in Result
      BY <2>3, <3>1
    <3> HIDE DEF Calls
    <3>. QED BY <3>2
  <2>5. \A x \in Ids, m \in Memos : g[<<x, m>>] = IF rank[x] = r THEN Visited(f, x, m) ELSE f[<<x, m>>]
    BY <2>2
  <2>6. \A x \in Ids, m \in Memos : g[<<x, m>>] \in Result
    BY <2>2, <2>3, <2>5
  <2> HIDE DEF g
  <2>7. ASSUME NEW x \in Ids, rank[x] < r + 1, NEW m \in Memos
        PROVE  g[<<x, m>>] = Visited(g, x, m)
    <3>1. \A y \in Ids : rank[y] \in Nat
      BY <1>1 DEF Ranking
    <3>2. r \in Nat
      OBVIOUS
    <3>3. \A k \in 1 .. Count : From(k) = x => \A q \in Memos :
             f[<<To(k), q>>] = g[<<To(k), q>>] /\ f[<<To(k), q>>] \in Result
      <4> SUFFICES ASSUME NEW k \in 1 .. Count, From(k) = x, NEW q \in Memos
                   PROVE  f[<<To(k), q>>] = g[<<To(k), q>>] /\ f[<<To(k), q>>] \in Result
        OBVIOUS
      <4>1. To(k) \in Ids /\ rank[To(k)] < rank[x]
        BY DEF Known, Ranking
      <4>2. rank[To(k)] # r
        <5>1. rank[To(k)] \in Nat /\ rank[x] \in Nat
          BY <3>1, <4>1
        <5>. QED BY <2>7, <3>2, <4>1, <5>1
      <4>. QED BY <2>2, <2>5, <4>1, <4>2
    <3>4. Visited(f, x, m) = Visited(g, x, m)
      BY <3>3, VisitedSame
    <3>5. CASE rank[x] = r
      BY <2>5, <3>4, <3>5
    <3>6. CASE rank[x] # r
      <4>1. rank[x] < r
        <5>1. rank[x] \in Nat
          BY <3>1
        <5>. QED BY <2>7, <3>2, <3>6, <5>1
      <4>2. f[<<x, m>>] = Visited(f, x, m)
        BY <2>1, <4>1 DEF Answers
      <4>. QED BY <2>5, <3>4, <3>6, <4>2
    <3>. QED BY <3>5, <3>6
  <2>8. Upto(g, r + 1)
    BY <2>6, <2>7 DEF Answers
  <2>. QED BY <2>4, <2>8
<1>4. R = Nat
  <2>1. R \in SUBSET Nat
    OBVIOUS
  <2> HIDE DEF R
  <2>. QED BY <1>2, <1>3, <2>1, Inductive
<1>5. PICK f \in [Calls -> Result] : Upto(f, Visits + 1)
  <2>1. Visits + 1 \in R
    <3> HIDE DEF R
    <3>. QED BY <1>1, <1>4
  <2>. QED BY <2>1
<1>6. \A x \in Ids, m \in Memos : f[<<x, m>>] = Visited(f, x, m)
  <2>1. \A x \in Ids : rank[x] < Visits + 1
    BY <1>1 DEF Ranking
  <2>. QED BY <1>5, <2>1 DEF Answers
<1>7. f = [pair \in Calls |-> f[pair]]
  BY <1>5
<1>8. \A pair \in Calls : f[pair] = Visited(f, pair[1], pair[2])
  <2> SUFFICES ASSUME NEW pair \in Calls PROVE f[pair] = Visited(f, pair[1], pair[2])
    OBVIOUS
  <2>1. pair[1] \in Ids /\ pair[2] \in Memos /\ pair = <<pair[1], pair[2]>>
    OBVIOUS
  <2>. QED BY <1>6, <2>1
<1>9. f = [pair \in Calls |-> Visited(f, pair[1], pair[2])]
  <2> HIDE DEF Calls
  <2>. QED BY <1>7, <1>8
<1>. QED BY <1>9

\* Each visit is what its definition says, from the visits it makes.
LEMMA VisitEquation ==
  ASSUME DocumentTypes, Known, NEW rank, Ranking(rank)
  PROVE  \A x \in Ids : Answers(Visit, x)
<1> DEFINE Calls == Ids \X Memos
           R == {r \in Nat : \A x \in Ids : rank[x] < r => Answers(Visit, x)}
<1>1. Count \in Nat /\ Visits \in Nat
  BY DEF DocumentTypes
<1>2. Visit = [pair \in Calls |-> Visited(Visit, pair[1], pair[2])]
  <2>1. Visit = CHOOSE f : f = [pair \in Calls |-> Visited(f, pair[1], pair[2])]
    BY Zenon DEF Visit
  <2>. QED BY <2>1, VisitExists, Zenon
<1>3. \A x \in Ids, m \in Memos : Visit[<<x, m>>] = Visited(Visit, x, m)
  <2> SUFFICES ASSUME NEW x \in Ids, NEW m \in Memos PROVE Visit[<<x, m>>] = Visited(Visit, x, m)
    OBVIOUS
  <2> DEFINE V == Visit
  <2>1. V = [pair \in Calls |-> Visited(V, pair[1], pair[2])]
    BY <1>2
  <2> HIDE DEF V
  <2>2. <<x, m>> \in Calls
    OBVIOUS
  <2>3. V[<<x, m>>] = Visited(V, x, m)
    BY <2>1, <2>2
  <2>. QED BY <2>3 DEF V
<1>4. 0 \in R
  <2>1. \A x \in Ids : ~(rank[x] < 0)
    BY <1>1 DEF Ranking
  <2>. QED BY <2>1
<1>5. ASSUME NEW r \in R PROVE r + 1 \in R
  <2> SUFFICES ASSUME NEW x \in Ids, rank[x] < r + 1, NEW m \in Memos PROVE Visit[<<x, m>>] \in Result
    BY <1>3 DEF Answers
  <2>1. PICK f : f = Visit
    OBVIOUS
  <2>2. \A k \in 1 .. Count : From(k) = x => \A q \in Memos :
           f[<<To(k), q>>] = f[<<To(k), q>>] /\ f[<<To(k), q>>] \in Result
    <3> SUFFICES ASSUME NEW k \in 1 .. Count, From(k) = x, NEW q \in Memos PROVE f[<<To(k), q>>] \in Result
      OBVIOUS
    <3>1. To(k) \in Ids /\ rank[To(k)] < rank[x]
      BY DEF Known, Ranking
    <3>2. rank[To(k)] \in Nat /\ rank[x] \in Nat /\ r \in Nat
      BY <1>1, <3>1 DEF Ranking
    <3>3. rank[To(k)] < r
      BY <3>1, <3>2
    <3>. QED BY <2>1, <3>1, <3>3 DEF Answers
  <2>3. Visited(f, x, m) \in Result
    BY <2>2, VisitedSame
  <2>. QED BY <1>3, <2>1, <2>3
<1>6. R = Nat
  <2>1. R \in SUBSET Nat
    OBVIOUS
  <2> HIDE DEF R
  <2>. QED BY <1>4, <1>5, <2>1, Inductive
<1>7. Visits + 1 \in R /\ \A x \in Ids : rank[x] < Visits + 1
  BY <1>1, <1>6 DEF Ranking
<1>. QED BY <1>7

----------------------------------------------------------------------------
(* Paths *)

\* A processor is a path by itself.
LEMMA PathOfOne ==
  ASSUME NEW x \in Ids
  PROVE  PathFrom(x, 0)
<1> DEFINE path == [i \in 0 .. 0 |-> x]
<1>1. path \in [0 .. 0 -> Ids] /\ path[0] = x /\ 1 .. 0 = {}
  OBVIOUS
<1>. QED BY <1>1 DEF PathFrom

\* An edge before a path makes a path longer by one.
LEMMA PathGrows ==
  ASSUME NEW x \in Ids, NEW y, NEW n \in Nat, Edge(x, y), PathFrom(y, n)
  PROVE  PathFrom(x, n + 1)
<1>1. PICK p \in [0 .. n -> Ids] : p[0] = y /\ \A i \in 1 .. n : Edge(p[i - 1], p[i])
  BY DEF PathFrom
<1> DEFINE q == [i \in 0 .. (n + 1) |-> IF i = 0 THEN x ELSE p[i - 1]]
<1>2. \A i \in 0 .. (n + 1) : i # 0 => i - 1 \in 0 .. n
  OBVIOUS
<1>3. q \in [0 .. (n + 1) -> Ids] /\ q[0] = x
  BY <1>2
<1>4. q[1] = y
  BY <1>1
<1>5. \A i \in 1 .. (n + 1) : q[i] = p[i - 1]
  OBVIOUS
<1> HIDE DEF q
<1>6. \A i \in 1 .. (n + 1) : Edge(q[i - 1], q[i])
  <2> SUFFICES ASSUME NEW i \in 1 .. (n + 1) PROVE Edge(q[i - 1], q[i])
    OBVIOUS
  <2>1. CASE i = 1
    <3>1. q[i - 1] = x /\ q[i] = y
      BY <1>3, <1>4, <2>1
    <3>. QED BY <3>1
  <2>2. CASE i # 1
    <3>1. i - 1 \in 1 .. n /\ i - 1 \in 1 .. (n + 1)
      BY <2>2
    <3>2. q[i] = p[i - 1] /\ q[i - 1] = p[(i - 1) - 1]
      BY <1>5, <3>1
    <3>. QED BY <1>1, <3>1, <3>2
  <2>. QED BY <2>1, <2>2
<1>. QED BY <1>3, <1>6 DEF PathFrom

\* A path without its first edge.
LEMMA PathGoesOn ==
  ASSUME NEW x, NEW n \in Nat, PathFrom(x, n + 1)
  PROVE  \E y \in Ids : Edge(x, y) /\ PathFrom(y, n)
<1>1. PICK p \in [0 .. (n + 1) -> Ids] : p[0] = x /\ \A i \in 1 .. (n + 1) : Edge(p[i - 1], p[i])
  BY DEF PathFrom
<1> DEFINE q == [i \in 0 .. n |-> p[i + 1]]
<1>2. q \in [0 .. n -> Ids] /\ q[0] = p[1] /\ p[1] \in Ids
  BY <1>1
<1>3. Edge(x, p[1])
  <2>1. 1 \in 1 .. (n + 1) /\ 1 - 1 = 0
    OBVIOUS
  <2>2. Edge(p[1 - 1], p[1])
    BY <1>1, <2>1
  <2>. QED BY <1>1, <2>1, <2>2
<1>4. \A i \in 0 .. n : q[i] = p[i + 1]
  OBVIOUS
<1> HIDE DEF q
<1>5. \A i \in 1 .. n : Edge(q[i - 1], q[i])
  <2> SUFFICES ASSUME NEW i \in 1 .. n PROVE Edge(q[i - 1], q[i])
    OBVIOUS
  <2>1. i + 1 \in 1 .. (n + 1) /\ (i + 1) - 1 = i /\ i \in 0 .. n /\ i - 1 \in 0 .. n /\ (i - 1) + 1 = i
    OBVIOUS
  <2>2. q[i - 1] = p[i] /\ q[i] = p[i + 1]
    BY <1>4, <2>1
  <2>3. Edge(p[(i + 1) - 1], p[i + 1])
    BY <1>1, <2>1
  <2>. QED BY <2>1, <2>2, <2>3
<1>. QED BY <1>2, <1>3, <1>5 DEF PathFrom

\* A path holds the shorter ones.
LEMMA PathShrinks ==
  ASSUME NEW x, NEW n \in Nat, NEW m \in Nat, m <= n, PathFrom(x, n)
  PROVE  PathFrom(x, m)
<1>1. PICK p \in [0 .. n -> Ids] : p[0] = x /\ \A i \in 1 .. n : Edge(p[i - 1], p[i])
  BY DEF PathFrom
<1> DEFINE q == [i \in 0 .. m |-> p[i]]
<1>2. \A i \in 0 .. m : i \in 0 .. n
  OBVIOUS
<1>3. q \in [0 .. m -> Ids] /\ q[0] = x /\ \A i \in 0 .. m : q[i] = p[i]
  BY <1>1, <1>2
<1> HIDE DEF q
<1>4. \A i \in 1 .. m : Edge(q[i - 1], q[i])
  <2> SUFFICES ASSUME NEW i \in 1 .. m PROVE Edge(q[i - 1], q[i])
    OBVIOUS
  <2>1. i \in 0 .. m /\ i - 1 \in 0 .. m /\ i \in 1 .. n
    OBVIOUS
  <2>2. q[i - 1] = p[i - 1] /\ q[i] = p[i]
    BY <1>3, <2>1
  <2>. QED BY <1>1, <2>1, <2>2
<1>. QED BY <1>3, <1>4 DEF PathFrom

\* A memo that holds the lengths of longest paths.
Right(m) == \A x \in Ids : m[x] # Unknown => LongestPath(x, m[x])

\* The visits of x are right: from a right memo they measure x, and forget nothing.
Measured(x) ==
  \A m \in Memos : Right(m) =>
    /\ LongestPath(x, Visit[<<x, m>>].depth) /\ Right(Visit[<<x, m>>].memo)
    /\ Visit[<<x, m>>].memo[x] # Unknown
    /\ \A y \in Ids : m[y] # Unknown => Visit[<<x, m>>].memo[y] # Unknown

\* The visit of one processor, when those of what it feeds are right.
LEMMA VisitMeasures ==
  ASSUME DocumentTypes, Known, \A x \in Ids : Answers(Visit, x), NEW x \in Ids,
         \A k \in 1 .. Count : From(k) = x => Measured(To(k))
  PROVE  Measured(x)
<1> SUFFICES ASSUME NEW m \in Memos, Right(m)
             PROVE  /\ LongestPath(x, Visit[<<x, m>>].depth) /\ Right(Visit[<<x, m>>].memo)
                    /\ Visit[<<x, m>>].memo[x] # Unknown
                    /\ \A y \in Ids : m[y] # Unknown => Visit[<<x, m>>].memo[y] # Unknown
  BY DEF Measured
<1>1. PICK f : f = Visit
  OBVIOUS
<1>2. f[<<x, m>>] = Visited(f, x, m)
  BY <1>1 DEF Answers
<1>3. CASE m[x] # Unknown
  <2>1. Visited(f, x, m) = [depth |-> m[x], memo |-> m]
    BY <1>3 DEF Visited
  <2>. QED BY <1>1, <1>2, <1>3, <2>1 DEF Right
<1>4. CASE m[x] = Unknown
  <2> DEFINE base == [depth |-> 0, memo |-> m]
             V == {v \in Result : /\ Right(v.memo) /\ PathFrom(x, v.depth)
                                  /\ \A y \in Ids : m[y] # Unknown => v.memo[y] # Unknown}
  <2>1. base \in V
    BY PathOfOne DEF Result
  <2>2. \A k \in 1 .. Count : From(k) = x => \A q \in Memos : f[<<To(k), q>>] \in Result
    BY <1>1 DEF Answers, Known
  <2>3. ASSUME NEW k \in 1 .. Count, NEW v \in V
        PROVE  /\ Deepen(f, x, v, document.connections[k]) \in V
               /\ v.depth <= Deepen(f, x, v, document.connections[k]).depth
               /\ From(k) = x => ~PathFrom(To(k), Deepen(f, x, v, document.connections[k]).depth)
    <3>1. v.depth \in Nat /\ v.memo \in Memos /\ v \in Result
      BY DEF Result
    <3>2. CASE From(k) # x
      <4>1. Deepen(f, x, v, document.connections[k]) = v
        BY <3>2 DEF Deepen, From
      <4>. QED BY <3>1, <3>2, <4>1
    <3>3. CASE From(k) = x
      <4> DEFINE below == f[<<To(k), v.memo>>]
      <4>1. below.depth \in Nat /\ below.memo \in Memos
        BY <2>2, <3>1, <3>3 DEF Result
      <4>2. /\ LongestPath(To(k), below.depth) /\ Right(below.memo)
            /\ \A y \in Ids : v.memo[y] # Unknown => below.memo[y] # Unknown
        BY <1>1, <3>1, <3>3 DEF Measured
      <4> HIDE DEF below
      <4> DEFINE d == IF 1 + below.depth > v.depth THEN 1 + below.depth ELSE v.depth
      <4>3. Deepen(f, x, v, document.connections[k]) = [depth |-> d, memo |-> below.memo]
        BY <3>3 DEF Deepen, From, To, below
      <4>4. d \in Nat /\ v.depth <= d /\ below.depth + 1 <= d /\ below.depth + 1 \in Nat
            /\ (d = below.depth + 1 \/ d = v.depth)
        BY <3>1, <4>1
      <4> HIDE DEF d
      <4>5. PathFrom(x, d)
        <5>1. PathFrom(x, v.depth)
          OBVIOUS
        <5>2. Edge(x, To(k))
          BY <3>3 DEF DocumentTypes, Edge, From, To
        <5>3. PathFrom(x, below.depth + 1)
          <6>1. PICK n \in Nat, y \in {To(k)} : n = below.depth
            BY <4>1
          <6>2. Edge(x, y) /\ PathFrom(y, n)
            BY <4>2, <5>2, <6>1 DEF LongestPath
          <6>3. PathFrom(x, n + 1)
            BY <6>2, PathGrows
          <6>. QED BY <6>1, <6>3
        <5>. QED BY <4>4, <5>1, <5>3
      <4>6. ~PathFrom(To(k), d)
        <5> SUFFICES ASSUME PathFrom(To(k), d) PROVE FALSE
          OBVIOUS
        <5>1. PICK n, y, j : n = d /\ y = To(k) /\ j = below.depth + 1
          OBVIOUS
        <5>2. n \in Nat /\ j \in Nat /\ j <= n /\ PathFrom(y, n)
          BY <4>4, <5>1
        <5>3. PathFrom(y, j)
          BY <5>2, PathShrinks
        <5>. QED BY <4>2, <5>1, <5>3 DEF LongestPath
      <4>7. [depth |-> d, memo |-> below.memo] \in V
        BY <4>1, <4>2, <4>4, <4>5 DEF Result
      <4> HIDE DEF V
      <4>. QED BY <4>3, <4>4, <4>6, <4>7
    <3>. QED BY <3>2, <3>3
  <2> HIDE DEF base, V
  <2>4. PICK a \in [0 .. Count -> V] :
          /\ a[0] = base /\ a[Count] = Deepened(f, x, base)
          /\ \A k \in 1 .. Count : a[k] = Deepen(f, x, a[k - 1], document.connections[k])
    <3>1. PICK b, W : b = base /\ W = V
      OBVIOUS
    <3>2. b \in W /\ DeepensWithin(f, x, W)
      BY <2>1, <2>3, <3>1 DEF DeepensWithin
    <3>3. DeepenedInTurn(f, x, W, b)
      BY <3>2, DeepenedChain
    <3>. QED BY <3>1, <3>3 DEF DeepenedInTurn
  <2>5. Count \in Nat
    BY DEF DocumentTypes
  <2>6. \A k \in 0 .. Count : a[k] \in V /\ a[k].depth \in Nat
    BY <2>4 DEF V, Result
  <2> DEFINE Good(k) == \A n \in 1 .. k : From(n) = x => ~PathFrom(To(n), a[k].depth)
             K == {k \in Nat : k <= Count => Good(k)}
  <2>7. 0 \in K
    OBVIOUS
  <2>8. ASSUME NEW k \in K PROVE k + 1 \in K
    <3> SUFFICES ASSUME k + 1 <= Count, NEW n \in 1 .. (k + 1), From(n) = x PROVE ~PathFrom(To(n), a[k + 1].depth)
      OBVIOUS
    <3>1. k + 1 \in 1 .. Count /\ (k + 1) - 1 = k /\ k <= Count /\ k \in 0 .. Count /\ k + 1 \in 0 .. Count
      BY <2>5
    <3>2. a[k] \in V /\ a[k + 1] = Deepen(f, x, a[k], document.connections[k + 1])
      BY <2>4, <3>1
    <3>3. /\ a[k].depth <= a[k + 1].depth
          /\ From(k + 1) = x => ~PathFrom(To(k + 1), a[k + 1].depth)
      BY <2>3, <3>1, <3>2
    <3>4. CASE n = k + 1
      BY <3>3, <3>4
    <3>5. CASE n # k + 1
      <4>1. n \in 1 .. k
        BY <3>5
      <4>2. ~PathFrom(To(n), a[k].depth)
        BY <3>1, <4>1
      <4>3. PICK y, i, j : y = To(n) /\ i = a[k].depth /\ j = a[k + 1].depth
        OBVIOUS
      <4>4. i \in Nat /\ j \in Nat /\ i <= j
        BY <2>6, <3>1, <3>3, <4>3
      <4>5. PathFrom(y, j) => PathFrom(y, i)
        BY <4>4, PathShrinks
      <4>. QED BY <4>2, <4>3, <4>5
    <3>. QED BY <3>4, <3>5
  <2>9. K = Nat
    <3>1. K \in SUBSET Nat
      OBVIOUS
    <3> HIDE DEF K
    <3>. QED BY <2>7, <2>8, <3>1, Inductive
  <2>10. Good(Count)
    <3>1. Count \in K /\ Count <= Count
      BY <2>5, <2>9
    <3> HIDE DEF Good
    <3>. QED BY <3>1
  <2> DEFINE all == a[Count]
  <2>11. all \in V /\ all.depth \in Nat /\ all.memo \in Memos /\ PathFrom(x, all.depth) /\ Right(all.memo)
         /\ \A y \in Ids : m[y] # Unknown => all.memo[y] # Unknown
    BY <2>5, <2>6 DEF V, Result
  <2>12. all = Deepened(f, x, base)
    BY <2>4
  <2>13. \A n \in 1 .. Count : From(n) = x => ~PathFrom(To(n), all.depth)
    BY <2>10
  <2> HIDE DEF all, Good
  <2>14. LongestPath(x, all.depth)
    <3>1. ASSUME PathFrom(x, all.depth + 1) PROVE FALSE
      <4>1. PICK d \in Nat : d = all.depth
        BY <2>11
      <4>2. PICK y \in Ids : Edge(x, y) /\ PathFrom(y, d)
        BY <3>1, <4>1, PathGoesOn
      <4>3. PICK n \in 1 .. Count : From(n) = x /\ To(n) = y
        BY <4>2 DEF Edge, DocumentTypes, From, To
      <4>. QED BY <2>13, <4>1, <4>2, <4>3
    <3>. QED BY <2>11, <3>1 DEF LongestPath
  <2>15. f[<<x, m>>] = [depth |-> all.depth, memo |-> [all.memo EXCEPT ![x] = all.depth]]
    BY <1>2, <1>4, <2>12 DEF Visited, base
  <2> DEFINE after == [all.memo EXCEPT ![x] = all.depth]
  <2>16. after[x] = all.depth /\ all.depth # Unknown /\ \A y \in Ids : y # x => after[y] = all.memo[y]
    BY <2>11 DEF Memos, Unknown
  <2> HIDE DEF after
  <2>17. Right(after) /\ \A y \in Ids : m[y] # Unknown => after[y] # Unknown
    BY <2>11, <2>14, <2>16 DEF Right
  <2>18. f[<<x, m>>].depth = all.depth /\ f[<<x, m>>].memo = after
    BY <2>15 DEF after
  <2>. QED BY <1>1, <2>14, <2>16, <2>17, <2>18
<1>. QED BY <1>3, <1>4

\* The depths of a flow without circles are its longest paths.
LEMMA DepthsAreRight ==
  ASSUME document \in Manifests, Known, InOrder, ToSet(order) = Ids
  PROVE  \A x \in Ids : LongestPath(x, Depths[x])
<1>1. DocumentTypes
  BY DocumentFacts
<1>2. PICK rank : Ranking(rank)
  BY <1>1, Ranked
<1>3. \A x \in Ids : Answers(Visit, x)
  BY <1>1, <1>2, VisitEquation
<1>4. Visits \in Nat /\ Count \in Nat /\ DOMAIN document.processors = 1 .. Visits
  BY <1>1 DEF DocumentTypes
<1> DEFINE R == {r \in Nat : \A x \in Ids : rank[x] < r => Measured(x)}
<1>5. 0 \in R
  <2>1. \A x \in Ids : ~(rank[x] < 0)
    BY <1>2, <1>4 DEF Ranking
  <2>. QED BY <2>1
<1>6. ASSUME NEW r \in R PROVE r + 1 \in R
  <2> SUFFICES ASSUME NEW x \in Ids, rank[x] < r + 1 PROVE Measured(x)
    OBVIOUS
  <2>1. ASSUME NEW k \in 1 .. Count, From(k) = x PROVE Measured(To(k))
    <3>1. To(k) \in Ids /\ rank[To(k)] < rank[x]
      BY <1>2, <2>1 DEF Known, Ranking
    <3>2. rank[To(k)] \in Nat /\ rank[x] \in Nat /\ r \in Nat
      BY <1>2, <1>4, <3>1 DEF Ranking
    <3>3. rank[To(k)] < r
      BY <3>1, <3>2
    <3>. QED BY <3>1, <3>3
  <2>. QED BY <1>1, <1>3, <2>1, VisitMeasures
<1>7. R = Nat
  <2>1. R \in SUBSET Nat
    OBVIOUS
  <2> HIDE DEF R
  <2>. QED BY <1>5, <1>6, <2>1, Inductive
<1>8. \A x \in Ids : Measured(x)
  <2>1. Visits + 1 \in R
    <3> HIDE DEF R
    <3>. QED BY <1>4, <1>7
  <2>2. \A x \in Ids : rank[x] < Visits + 1
    BY <1>2, <1>4 DEF Ranking
  <2>. QED BY <2>1, <2>2
<1> DEFINE V == {m \in Memos : Right(m)}
           P(k) == document.processors[k]
<1>9. \A k \in 1 .. Visits : P(k) \in Ids
  BY <1>4 DEF Ids
<1>10. ASSUME NEW k \in 1 .. Visits, NEW m \in V
       PROVE  /\ Visit[<<P(k), m>>].memo \in V /\ Visit[<<P(k), m>>].memo[P(k)] # Unknown
              /\ \A y \in Ids : m[y] # Unknown => Visit[<<P(k), m>>].memo[y] # Unknown
  <2>1. Visit[<<P(k), m>>] \in Result
    BY <1>3, <1>9 DEF Answers
  <2>. QED BY <1>8, <1>9, <2>1 DEF Measured, Result
<1>11. Start \in V
  BY DEF Start, Memos, Right, Unknown
<1> HIDE DEF V
<1>12. PICK a \in [0 .. Visits -> V] :
         /\ a[0] = Start /\ a[Visits] = Depths
         /\ \A k \in 1 .. Visits : a[k] = Visit[<<P(k), a[k - 1]>>].memo
  <2>1. PICK W : W = V
    OBVIOUS
  <2>2. Start \in W /\ VisitsWithin(W)
    BY <1>10, <1>11, <2>1 DEF VisitsWithin
  <2>3. VisitedInTurn(W)
    BY <1>1, <2>2, DepthsChain
  <2>. QED BY <2>1, <2>3 DEF VisitedInTurn
<1> DEFINE Good(k) == \A n \in 1 .. k : a[k][P(n)] # Unknown
           K == {k \in Nat : k <= Visits => Good(k)}
<1>13. 0 \in K
  OBVIOUS
<1>14. ASSUME NEW k \in K PROVE k + 1 \in K
  <2> SUFFICES ASSUME k + 1 <= Visits, NEW n \in 1 .. (k + 1) PROVE a[k + 1][P(n)] # Unknown
    OBVIOUS
  <2>1. k + 1 \in 1 .. Visits /\ (k + 1) - 1 = k /\ k <= Visits /\ k \in 0 .. Visits /\ n \in 1 .. Visits
    BY <1>4
  <2>2. a[k] \in V /\ a[k + 1] = Visit[<<P(k + 1), a[k]>>].memo
    BY <1>12, <2>1
  <2>3. CASE n = k + 1
    BY <1>10, <2>1, <2>2, <2>3
  <2>4. CASE n # k + 1
    <3>1. n \in 1 .. k
      BY <2>4
    <3>2. a[k][P(n)] # Unknown
      BY <2>1, <3>1
    <3> HIDE DEF P
    <3>. QED BY <1>9, <1>10, <2>1, <2>2, <3>2
  <2>. QED BY <2>3, <2>4
<1>15. K = Nat
  <2>1. K \in SUBSET Nat
    OBVIOUS
  <2> HIDE DEF K
  <2>. QED BY <1>13, <1>14, <2>1, Inductive
<1>16. Good(Visits) /\ Depths \in V
  <2>1. Visits \in K /\ Visits <= Visits /\ Visits \in 0 .. Visits
    BY <1>4, <1>15
  <2> HIDE DEF Good
  <2>. QED BY <1>12, <2>1
<1>17. \A x \in Ids : Depths[x] # Unknown
  <2>1. \A x \in Ids : \E n \in 1 .. Visits : x = P(n)
    BY <1>4 DEF Ids
  <2>. QED BY <1>12, <1>16, <2>1
<1>. QED BY <1>16, <1>17 DEF V, Right

\* LoadsDags, for every manifest: FlowGraph::build refuses exactly the flows
\* whose connections close a circle, sorts the others with each processor before
\* those it feeds, and processor_downstream_depths measures their longest paths
\* whatever the memo already holds.
THEOREM GraphsAreSorted == LoadingSpec => []LoadsDags
<1>1. LoadingInv => LoadsDags
  <2> SUFFICES ASSUME LoadingInv PROVE LoadsDags
    OBVIOUS
  <2>1. step = "cycle" => Cyclic
    BY DEF LoadingInv
  <2>2. CASE step \in {"parameters", "depths", "accepted"}
    <3>1. document \in Manifests /\ Known /\ InOrder /\ ToSet(order) = Ids
      BY <2>2 DEF LoadingInv, Before
    <3>2. ~Cyclic /\ Len(order) = Cardinality(Ids)
      BY <3>1, SortMeaning
    <3>3. \A x \in Ids : LongestPath(x, Depths[x])
      BY <3>1, DepthsAreRight
    <3>. QED BY <2>1, <3>1, <3>2, <3>3 DEF LoadsDags, InOrder
  <2>3. CASE step \notin {"parameters", "depths", "accepted"}
    BY <2>1, <2>3 DEF LoadsDags
  <2>. QED BY <2>2, <2>3
<1>. QED BY <1>1, LoadingInit1, LoadingStep, PTL DEF LoadingSpec

=============================================================================
