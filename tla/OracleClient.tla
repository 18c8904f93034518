---------------------------- MODULE OracleClient ----------------------------
(***************************************************************************)
(* The Oracle client that `jaiba oracle-client install | remove` keeps in  *)
(* one directory (connectors/oracle_client.rs and the command of           *)
(* jaiba-cli), and the Jaiba processes that load it.  Each command is a    *)
(* process of its own; the file system is all they share.                  *)
(***************************************************************************)
EXTENDS Naturals

CONSTANTS
    Installers,    \* commands of `jaiba oracle-client` run at a time
    Programs,      \* Jaiba processes that may connect to Oracle
    MaxDirectories,  \* directories extracted
    MaxRemovals,   \* `remove` commands
    MaxAccidents   \* operations of the file system that fail, and commands killed

ASSUME OracleClientAssumption ==
    MaxDirectories \in Nat /\ MaxRemovals \in Nat /\ MaxAccidents \in Nat

VARIABLES
    client,        \* the directory at <root>/instantclient; 0 for none
    content,       \* files of each directory
    extracted,     \* directories extracted so far
    installer,     \* what each command is doing, under its .staging-<pid>
    removals, accidents,
    program,       \* what each Jaiba process is doing
    touched,       \* directories a removal has begun to empty
    owed           \* an installed client is neither lost to a removal nor excused

clientVars ==
    <<client, content, extracted, installer, removals, accidents, program, touched, owed>>

Directories == 1 .. MaxDirectories
\* What Jaiba looks for, the libraries that one needs, and Jaiba's own record.
Package == {"library", "dependencies"}
Files == Package \cup {"manifest"}
Whole(d) == content[d] = Files

NoInstaller == [pc |-> "idle", force |-> FALSE, archive |-> {}, new |-> 0, previous |-> 0]
PC(o) == installer[o].pc
Turns(o, pc) == installer' = [installer EXCEPT ![o].pc = pc]
\* Staging is dropped, and everything in it deleted, when the command returns.
Returns(o) == installer' = [installer EXCEPT ![o] = NoInstaller]

Accident == accidents < MaxAccidents /\ accidents' = accidents + 1

\* installed_in: the library and a manifest that can be read.
Reported == IF client # 0 /\ {"library", "manifest"} \subseteq content[client] THEN client ELSE 0

-----------------------------------------------------------------------------
(* install                                                                  *)

\* The command: a client of the same package is good, of another an error.
Given(o) ==
    /\ PC(o) = "idle" /\ extracted < MaxDirectories
    /\ \E force \in BOOLEAN :
          /\ Reported = 0 \/ force
          /\ installer' = [installer EXCEPT ![o] = [NoInstaller EXCEPT !.pc = "check", !.force = force]]
    /\ UNCHANGED <<client, content, extracted, removals, accidents, program, touched, owed>>

\* install looks again, and empties the staging directory of its process number.
Prepares(o) ==
    /\ PC(o) = "check"
    /\ \/ (Reported = 0 \/ installer[o].force) /\ Turns(o, "download")
       \/ Returns(o)
    /\ UNCHANGED <<client, content, extracted, removals, accidents, program, touched, owed>>

Fetched(o, files) == installer' = [installer EXCEPT ![o].pc = "extract", ![o].archive = files]

\* download: all of the package, under its size limit and its checksum.
Fetches(o) ==
    /\ PC(o) = "download"
    /\ Fetched(o, Package) \/ Returns(o)
    /\ UNCHANGED <<client, content, extracted, removals, accidents, program, touched, owed>>

\* extract: each entry of the top directory and each link to a sibling, or an error.
Extracts(o) ==
    /\ PC(o) = "extract" /\ extracted < MaxDirectories
    /\ \/ /\ extracted' = extracted + 1
          /\ content' = [content EXCEPT ![extracted + 1] = installer[o].archive]
          /\ installer' = [installer EXCEPT ![o].pc = "describe", ![o].new = extracted + 1]
       \/ Returns(o) /\ UNCHANGED <<content, extracted>>
    /\ UNCHANGED <<client, removals, accidents, program, touched, owed>>

\* The library must be there; the manifest is written beside it.
WritesManifest(o) ==
    /\ PC(o) = "describe"
    /\ \/ /\ "library" \in content[installer[o].new]
          /\ content' = [content EXCEPT ![installer[o].new] = @ \cup {"manifest"}]
          /\ Turns(o, "displace")
          /\ UNCHANGED accidents
       \/ Returns(o) /\ Accident /\ UNCHANGED content
    /\ UNCHANGED <<client, extracted, removals, program, touched, owed>>

\* The client there is, whoever installed it, is moved into the staging directory.
Displaces(o) ==
    /\ PC(o) = "displace"
    /\ \/ /\ installer' = [installer EXCEPT ![o].pc = "place", ![o].previous = client]
          /\ client' = 0 /\ UNCHANGED accidents
       \/ client # 0 /\ Returns(o) /\ Accident /\ UNCHANGED client
    /\ UNCHANGED <<content, extracted, removals, program, touched, owed>>

\* A rename replaces an empty directory, and no other.
InTheWay == client # 0 /\ content[client] # {}

\* Mistake: the client that was moved away is not put back.
PlaceFailsUndone(o) ==
    /\ (InTheWay /\ UNCHANGED accidents) \/ Accident
    /\ UNCHANGED <<client, owed>>

\* A directory that is in the way by now, or any failure: the previous client
\* is put back if that is possible, and deleted with the staging directory if not.
PlaceFails(o) ==
    \/ InTheWay /\ UNCHANGED <<client, owed, accidents>>
    \/ /\ Accident /\ client' = (IF client = 0 THEN installer[o].previous ELSE client)
       /\ owed' = (owed /\ client' \notin touched)
    \/ client = 0 /\ Accident /\ accidents' < MaxAccidents /\ owed' = FALSE /\ UNCHANGED client

Places(o) ==
    /\ PC(o) = "place"
    /\ \/ /\ ~InTheWay
          /\ client' = installer[o].new /\ owed' = TRUE
          /\ UNCHANGED accidents
       \/ PlaceFails(o)
    /\ Returns(o)
    /\ UNCHANGED <<content, extracted, removals, program, touched>>

-----------------------------------------------------------------------------
(* remove                                                                   *)

\* remove_dir_all opens the directory...
RemovalBegins(o) ==
    /\ PC(o) = "idle" /\ client # 0 /\ removals < MaxRemovals
    /\ removals' = removals + 1
    /\ installer' = [installer EXCEPT ![o] = [NoInstaller EXCEPT !.pc = "remove", !.previous = client]]
    /\ touched' = touched \cup {client} /\ owed' = FALSE
    /\ UNCHANGED <<client, content, extracted, accidents, program>>

\* ... deletes what it holds, wherever it is moved meanwhile...
RemovesFile(o) ==
    /\ PC(o) = "remove"
    /\ \E file \in content[installer[o].previous] :
          content' = [content EXCEPT ![installer[o].previous] = @ \ {file}]
    /\ UNCHANGED <<client, extracted, installer, removals, accidents, program, touched, owed>>

\* ... and deletes the directory at its path, if that is the one it emptied.
RemovalEnds(o) ==
    /\ PC(o) = "remove"
    /\ \/ /\ content[installer[o].previous] = {}
          /\ client' = IF client = installer[o].previous THEN 0 ELSE client
          /\ UNCHANGED accidents
       \/ Accident /\ UNCHANGED client
    /\ Returns(o)
    /\ UNCHANGED <<content, extracted, removals, program, touched, owed>>

\* The command is killed: its staging directory stays until a process of the
\* same number installs, and nobody looks into it.
InstallerKilled(o) ==
    /\ PC(o) # "idle" /\ Accident
    /\ owed' = (owed /\ ~(PC(o) = "place" /\ installer[o].previous # 0))
    /\ Returns(o)
    /\ UNCHANGED <<client, content, extracted, removals, program, touched>>

-----------------------------------------------------------------------------
(* The processes that use it.                                               *)

\* relaunch_with_client: the search path is fixed when the process starts.
Launches(p) ==
    /\ program[p].pc = "off"
    /\ program' = [program EXCEPT ![p].pc = IF Reported = 0 THEN "bare" ELSE "pointed"]
    /\ UNCHANGED <<client, content, extracted, installer, removals, accidents, touched, owed>>

\* ensure_initialized: what the path holds by now; an error is not remembered.
Initializes(p) ==
    /\ program[p].pc = "pointed"
    /\ client # 0 /\ Package \subseteq content[client]
    /\ program' = [program EXCEPT ![p] = [pc |-> "loaded", from |-> client]]
    /\ UNCHANGED <<client, content, extracted, installer, removals, accidents, touched, owed>>

Stops(p) ==
    /\ program[p].pc # "off"
    /\ program' = [program EXCEPT ![p] = [pc |-> "off", from |-> 0]]
    /\ UNCHANGED <<client, content, extracted, installer, removals, accidents, touched, owed>>

-----------------------------------------------------------------------------

ClientInit ==
    /\ client = 0 /\ extracted = 0
    /\ content = [d \in Directories |-> {}]
    /\ installer = [o \in Installers |-> NoInstaller]
    /\ removals = 0 /\ accidents = 0
    /\ program = [p \in Programs |-> [pc |-> "off", from |-> 0]]
    /\ touched = {} /\ owed = FALSE

ClientNext ==
    \/ \E o \in Installers :
          \/ Given(o) \/ Prepares(o) \/ Fetches(o) \/ Extracts(o) \/ WritesManifest(o)
          \/ Displaces(o) \/ Places(o)
          \/ RemovalBegins(o) \/ RemovesFile(o) \/ RemovalEnds(o) \/ InstallerKilled(o)
    \/ \E p \in Programs : Launches(p) \/ Initializes(p) \/ Stops(p)

ClientSpec == ClientInit /\ [][ClientNext]_clientVars

-----------------------------------------------------------------------------

\* A client that installed_client reports, or that a process has loaded, and that
\* no removal has begun to empty, has all its files: installs that interleave,
\* fail or are killed leave none half written.
ReportedIsWhole ==
    \A d \in {Reported} \cup {program[p].from : p \in Programs} :
        d \notin {0} \cup touched => Whole(d)

\* An installed client is in its place, or in the staging of an install about
\* to put one there, until it is removed: a later install that fails, or meets
\* another, loses none.  Only a second failure, a kill between its renames, or a
\* failure that puts back a client that a removal is emptying may.
ClientSurvives ==
    owed => client # 0 \/ \E o \in Installers : PC(o) = "place" /\ installer[o].previous # 0

\* An installed client is whole, and stays.
ClientIsSafe == ReportedIsWhole /\ ClientSurvives

=============================================================================
