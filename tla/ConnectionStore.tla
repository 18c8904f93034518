--------------------------- MODULE ConnectionStore ---------------------------
(***************************************************************************)
(* The connection profiles of a server and their credentials: the API      *)
(* handlers of connection_api, the ConnectionManager they call, the two    *)
(* files it keeps (connections.json, and secrets.enc encrypted with the    *)
(* master key), the key rotation of the command line, and the deployed     *)
(* flow that reads both files to resolve its aliases.                      *)
(*                                                                         *)
(* An identifier and its secret_ref are fresh UUIDs of one creation, so    *)
(* one number names both.  An edition numbers the contents of a profile    *)
(* (endpoint) and of its secret (credentials) that were sent together.     *)
(***************************************************************************)
EXTENDS Integers, FiniteSets

CONSTANTS
    Administrators,       \* concurrent API calls, one of each at a time
    ServerUsages,       \* how the server is used, one chosen at the start:
                  \*   serial: one API call at a time;
                  \*   rotate: "down", "up": when the operator may rotate the key;
                  \*   faults, crashes, deploys: file writes that fail, crashes of
                  \*   the server, deployments of the flow (bounds)
    Names,        \* profile names, equal up to case
    MaxCreates,   \* profiles created
    MaxEdits,     \* contents sent by creations and updates
    MaxConnects,  \* CONNECT_RETRY_ATTEMPTS
    NoName, NoAdmin

ASSUME BoundsAssumption ==
    /\ MaxCreates \in Nat \ {0} /\ MaxEdits \in Nat /\ MaxConnects \in Nat \ {0}
    /\ ServerUsages \subseteq [serial : BOOLEAN, rotate : SUBSET {"down", "up"},
                          faults : Nat, crashes : Nat, deploys : Nat]
    /\ NoName \notin Names /\ NoAdmin \notin Administrators

VARIABLES
    served,     \* the usage of this behaviour
    up,        \* the server runs
    profiles,  \* ConnectionManager.profiles
    health,    \* ConnectionManager.status
    cache,     \* metadata_cache: the edition it was read with
    secrets,   \* Inner.secrets of the server
    masterKey, \* master key the server was started with
    saved,     \* connections.json
    file,      \* secrets.enc
    envKey,    \* JAIBA_MASTER_KEY of the next start
    writer,    \* the call that holds profiles.write() across awaits
    call,      \* the API calls
    cli,       \* `connections rotate-key`
    client,    \* the flow that names a connection by alias
    made, edits, faults, crashes,
    broken     \* a roll back failed, or a crash cut a call short

server == <<up, profiles, health, cache, secrets, masterKey, writer, call>>
files == <<saved, file>>
counters == <<made, edits, faults, crashes, broken>>
connectionVars == <<served, server, files, envKey, cli, client, counters>>

Ids == 1..MaxCreates
NoProfile == [name |-> NoName, edition |-> 0]
NoProfiles == [i \in Ids |-> NoProfile]
NoSecrets == [i \in Ids |-> 0]
Exists(table, i) == table[i].edition # 0
Idle == [op |-> "idle", pc |-> "idle", id |-> 0, from |-> 0,
         name |-> NoName, edition |-> 0, secret |-> 0, previous |-> 0]
NoSecretsFile == [version |-> 0, key |-> "old", secrets |-> NoSecrets]
Unlocked == writer = NoAdmin
Quiet == \A a \in Administrators : call[a] = Idle

-----------------------------------------------------------------------------
(* The files.  A write replaces the whole file (temporary file, fsync,      *)
(* rename), or fails and leaves it.                                         *)

Writes == UNCHANGED faults
WriteFails == faults < served.faults /\ faults' = faults + 1

\* persist_profiles, FileProfileRepository.save.
Saves(table) == saved' = table /\ Writes

\* EncryptedFileSecretStore.store / remove: memory and file, or neither.
KeepsSecret(i, value) ==
    /\ secrets' = [secrets EXCEPT ![i] = value]
    /\ file' = [version |-> 2, key |-> masterKey, secrets |-> secrets']
    /\ Writes
KeepFails == WriteFails /\ UNCHANGED <<secrets, file>>

Goes(a, pc) == call' = [call EXCEPT ![a].pc = pc]
AnswersCall(a) == call' = [call EXCEPT ![a] = Idle]

-----------------------------------------------------------------------------
(* The calls.                                                               *)

\* A request arrives and passes authorisation, validate_input and the
\* existence of its adapter.
AsksCreate(a) ==
    /\ made < MaxCreates /\ edits < MaxEdits
    /\ \E n \in Names :
          call' = [call EXCEPT ![a] = [Idle EXCEPT !.op = "create", !.pc = "store",
                      !.id = made + 1, !.name = n, !.edition = edits + 1, !.secret = edits + 1]]
    /\ made' = made + 1 /\ edits' = edits + 1

AsksDuplicate(a) ==
    /\ made < MaxCreates
    /\ \E n \in Names, i \in 1..made :
          call' = [call EXCEPT ![a] = [Idle EXCEPT !.op = "duplicate", !.pc = "get",
                      !.id = made + 1, !.from = i, !.name = n]]
    /\ made' = made + 1 /\ UNCHANGED edits

\* materialize_connection: the endpoint and the credentials of an update come
\* from one request (a password that is not sent is the one just resolved).
AsksUpdate(a) ==
    /\ edits < MaxEdits
    /\ \E n \in Names, i \in 1..made :
          call' = [call EXCEPT ![a] = [Idle EXCEPT !.op = "update", !.pc = "get", !.id = i,
                      !.from = i, !.name = n, !.edition = edits + 1, !.secret = edits + 1]]
    /\ edits' = edits + 1 /\ UNCHANGED made

AsksAbout(a) ==
    /\ \E i \in 1..made, op \in {"delete", "test", "explore"} :
          call' = [call EXCEPT ![a] = [Idle EXCEPT !.op = op, !.pc = "get",
                      !.id = i, !.from = i]]
    /\ UNCHANGED <<made, edits>>

Asks(a) ==
    /\ up /\ call[a] = Idle
    /\ served.serial => Quiet
    /\ AsksCreate(a) \/ AsksDuplicate(a) \/ AsksUpdate(a) \/ AsksAbout(a)
    /\ UNCHANGED <<served, up, profiles, health, cache, secrets, masterKey, writer, files, envKey,
                   cli, client, faults, crashes, broken>>

\* The first step of duplicate, update_connection, test and list_objects: get
\* the profile.  A cached answer ends list_objects at once.
Gets(a) ==
    LET c == call[a]
        cached == c.op = "explore" /\ cache[c.id] # 0
    IN
    /\ c.pc = "get" /\ c.op # "delete" /\ Unlocked
    /\ IF Exists(profiles, c.from) /\ ~cached
       THEN call' = [call EXCEPT ![a].pc = "resolve",
                        ![a].edition = IF c.op = "update" THEN @ ELSE profiles[c.from].edition]
       ELSE AnswersCall(a)
    /\ UNCHANGED <<served, up, profiles, health, cache, secrets, masterKey, writer, files, envKey,
                   cli, client, counters>>

\* Resolve its secret: the copy of a duplicate, the one update_with_secret puts
\* back, the credentials of a test or an exploration.
Resolves(a) ==
    LET c == call[a]
        next == [duplicate |-> "store", update |-> "store", test |-> "testing",
                 explore |-> "insert"]
    IN
    /\ c.pc = "resolve"
    /\ IF secrets[c.from] # 0
       THEN call' = [call EXCEPT ![a].pc = next[c.op],
                        ![a].secret = IF c.op = "duplicate" THEN secrets[c.from] ELSE @,
                        ![a].previous = secrets[c.from]]
       ELSE AnswersCall(a)
    /\ UNCHANGED <<served, up, profiles, health, cache, secrets, masterKey, writer, files, envKey,
                   cli, client, counters>>

\* Store the secret before the profile that names it.
Stores(a) ==
    LET c == call[a] IN
    /\ c.pc = "store"
    /\ \/ KeepsSecret(c.id, c.secret) /\ Goes(a, IF c.op = "update" THEN "exists" ELSE "upsert")
       \/ KeepFails /\ AnswersCall(a)
    /\ UNCHANGED <<served, up, profiles, health, cache, masterKey, writer, saved, envKey, cli, client,
                   made, edits, crashes, broken>>

\* ConnectionManager.update looks the profile up under a lock it gives back.
Looks(a) ==
    LET c == call[a] IN
    /\ c.pc = "exists" /\ Unlocked
    /\ Goes(a, IF Exists(profiles, c.id) THEN "upsert" ELSE "undo")
    /\ UNCHANGED <<served, up, profiles, health, cache, secrets, masterKey, writer, files, envKey,
                   cli, client, counters>>

\* upsert: the name, the file and the table under one lock.
Duplicated(c) == \E i \in Ids \ {c.id} : profiles[i].name = c.name

UpsertSaves(a, table) ==
    \/ Saves(table) /\ profiles' = table /\ Goes(a, "status")
    \/ WriteFails /\ UNCHANGED <<saved, profiles>> /\ Goes(a, "undo")

Upserts(a) ==
    LET c == call[a] IN
    /\ c.pc = "upsert" /\ Unlocked
    /\ IF Duplicated(c)
       THEN Goes(a, "undo") /\ UNCHANGED <<saved, profiles, faults>>
       ELSE UpsertSaves(a, [profiles EXCEPT ![c.id] = [name |-> c.name, edition |-> c.edition]])
    /\ UNCHANGED <<served, up, health, cache, secrets, masterKey, writer, file, envKey, cli, client,
                   made, edits, crashes, broken>>

\* Then, one lock after the other, its status and the metadata read before.
Published(a) ==
    LET c == call[a] IN
    /\ c.pc = "status"
    /\ health' = [health EXCEPT ![c.id] = IF @ = "none" THEN "unknown" ELSE @]
    /\ cache' = [cache EXCEPT ![c.id] = 0]
    /\ AnswersCall(a)
    /\ UNCHANGED <<served, up, profiles, secrets, masterKey, writer, files, envKey, cli, client,
                   counters>>

\* Mistake: an update that was refused leaves the secret it had stored.
UndoesCreationsOnly(a) ==
    LET c == call[a] IN
    /\ c.pc = "undo" /\ AnswersCall(a)
    /\ IF c.op = "update"
       THEN UNCHANGED <<secrets, file, faults, broken>>
       ELSE \/ KeepsSecret(c.id, 0) /\ UNCHANGED broken
            \/ KeepFails /\ broken' = TRUE
    /\ UNCHANGED <<served, up, profiles, health, cache, masterKey, writer, saved, envKey, cli, client,
                   made, edits, crashes>>

\* A refused creation removes its secret; a refused update puts back the one
\* it had resolved.
Undoes(a) ==
    LET c == call[a] IN
    /\ c.pc = "undo" /\ AnswersCall(a)
    /\ \/ KeepsSecret(c.id, IF c.op = "update" THEN c.previous ELSE 0) /\ UNCHANGED broken
       \/ KeepFails /\ broken' = TRUE
    /\ UNCHANGED <<served, up, profiles, health, cache, masterKey, writer, saved, envKey, cli, client,
                   made, edits, crashes>>

-----------------------------------------------------------------------------
(* delete_with_secret holds the write lock from the first read to the swap. *)

\* Mistake: the profile would be saved away only once its secret is gone.
DeletesUnsaved(a) ==
    LET c == call[a] IN
    /\ c.op = "delete" /\ c.pc = "get" /\ Unlocked
    /\ IF Exists(profiles, c.id) /\ secrets[c.id] # 0
       THEN writer' = a /\ Goes(a, "remove")
       ELSE AnswersCall(a) /\ UNCHANGED writer
    /\ UNCHANGED <<served, up, profiles, saved, health, cache, secrets, masterKey, file, envKey, cli,
                   client, counters>>

Deletes(a) ==
    LET c == call[a] IN
    /\ c.op = "delete" /\ c.pc = "get" /\ Unlocked
    /\ IF Exists(profiles, c.id) /\ secrets[c.id] # 0
       THEN \/ /\ Saves([profiles EXCEPT ![c.id] = NoProfile])
               /\ writer' = a /\ Goes(a, "remove")
            \/ WriteFails /\ AnswersCall(a) /\ UNCHANGED <<saved, writer>>
       ELSE AnswersCall(a) /\ UNCHANGED <<saved, writer, faults>>
    /\ UNCHANGED <<served, up, profiles, health, cache, secrets, masterKey, file, envKey, cli, client,
                   made, edits, crashes, broken>>

RemovesSecret(a) ==
    LET c == call[a] IN
    /\ c.pc = "remove"
    /\ \/ /\ KeepsSecret(c.id, 0)
          /\ profiles' = [profiles EXCEPT ![c.id] = NoProfile]
          /\ writer' = NoAdmin /\ Goes(a, "forget")
       \/ KeepFails /\ Goes(a, "revert") /\ UNCHANGED <<profiles, writer>>
    /\ UNCHANGED <<served, up, health, cache, masterKey, saved, envKey, cli, client, made, edits,
                   crashes, broken>>

\* The secret could not be removed: save the profile again, or let it go.
Reverts(a) ==
    LET c == call[a] IN
    /\ c.pc = "revert" /\ AnswersCall(a)
    /\ writer' = NoAdmin
    /\ \/ Saves(profiles) /\ UNCHANGED <<profiles, broken>>
       \/ /\ WriteFails /\ UNCHANGED saved
          /\ profiles' = [profiles EXCEPT ![c.id] = NoProfile] /\ broken' = TRUE
    /\ UNCHANGED <<served, up, health, cache, secrets, masterKey, file, envKey, cli, client, made,
                   edits, crashes>>

Forgets(a) ==
    LET c == call[a] IN
    /\ c.pc = "forget"
    /\ health' = [health EXCEPT ![c.id] = "none"]
    /\ cache' = [cache EXCEPT ![c.id] = 0]
    /\ AnswersCall(a)
    /\ UNCHANGED <<served, up, profiles, secrets, masterKey, writer, files, envKey, cli, client,
                   counters>>

-----------------------------------------------------------------------------
(* test and list_objects publish what they found when the database answers. *)

Testing(a) ==
    /\ call[a].pc = "testing" /\ Goes(a, "result")
    /\ health' = [health EXCEPT ![call[a].id] = "testing"]

\* The adapter connected or not; either is published, whatever the profile is by now.
Tested(a) ==
    /\ call[a].pc = "result" /\ AnswersCall(a)
    /\ health' = [health EXCEPT ![call[a].id] = "tested"]

Tests(a) ==
    /\ Testing(a) \/ Tested(a)
    /\ UNCHANGED <<served, up, profiles, cache, secrets, masterKey, writer, files, envKey, cli, client,
                   counters>>

\* The objects listed, or a database that answered an error or too late.
Explores(a) ==
    LET c == call[a] IN
    /\ c.pc = "insert" /\ AnswersCall(a)
    /\ \E answer \in {c.edition, cache[c.id]} : cache' = [cache EXCEPT ![c.id] = answer]
    /\ UNCHANGED <<served, up, profiles, health, secrets, masterKey, writer, files, envKey, cli, client,
                   counters>>

CacheExpires(i) ==
    /\ cache[i] # 0
    /\ cache' = [cache EXCEPT ![i] = 0]
    /\ UNCHANGED <<served, up, profiles, health, secrets, masterKey, writer, call, files, envKey, cli,
                   client, counters>>

-----------------------------------------------------------------------------
(* The server starts and crashes.                                           *)

\* open: no file is an empty store; a file opens with the key it was written
\* under and no other (the canary).
Opens(k) == file.version = 0 \/ file.key = k

\* A file of version 1 is written again as version 2 before anything else.
Migrates ==
    \/ Writes /\ file' = [file EXCEPT !.version = 2] /\ up' = TRUE
    \/ WriteFails /\ UNCHANGED <<file, up>>

\* load_persisted: the profiles of the disk, each of unknown status.
OpensFiles ==
    /\ profiles' = saved
    /\ secrets' = file.secrets
    /\ masterKey' = envKey
    /\ health' = [i \in Ids |-> IF Exists(saved, i) THEN "unknown" ELSE "none"]
    /\ cache' = NoSecrets

ServerStarts ==
    /\ ~up
    /\ "up" \notin served.rotate => cli.pc = "idle"
    /\ Opens(envKey)
    /\ IF file.version = 1 THEN Migrates ELSE Writes /\ UNCHANGED file /\ up' = TRUE
    /\ IF up' THEN OpensFiles ELSE UNCHANGED <<profiles, secrets, masterKey, health, cache>>
    /\ UNCHANGED <<served, writer, call, saved, envKey, cli, client, made, edits, crashes, broken>>

\* What only memory held is gone, and so are the deployed flow and the calls.
Crashes ==
    /\ up /\ crashes < served.crashes
    /\ crashes' = crashes + 1
    /\ broken' = (broken \/ ~Quiet)
    /\ up' = FALSE
    /\ profiles' = NoProfiles /\ secrets' = NoSecrets /\ cache' = NoSecrets
    /\ health' = [i \in Ids |-> "none"]
    /\ writer' = NoAdmin
    /\ call' = [a \in Administrators |-> Idle]
    /\ client' = [client EXCEPT !.pc = "idle", !.profiles = NoProfiles, !.secrets = NoSecrets,
                            !.endpoint = 0, !.credentials = 0, !.attempt = 0]
    /\ UNCHANGED <<served, masterKey, files, envKey, cli, made, edits, faults>>

-----------------------------------------------------------------------------
(* `jaiba connections rotate-key`, a process of its own.                    *)

RotateOpens ==
    /\ cli.pc = "idle" /\ ~cli.done
    /\ IF up THEN "up" \in served.rotate ELSE "down" \in served.rotate
    /\ Opens(envKey)
    /\ cli' = [cli EXCEPT !.pc = "opened", !.secrets = file.secrets]
    /\ UNCHANGED <<served, server, files, envKey, client, counters>>

\* rotate_key writes the file with the new key and then its own memory.
RotateWrites ==
    /\ cli.pc = "opened"
    /\ \/ /\ Writes /\ file' = [version |-> 2, key |-> "new", secrets |-> cli.secrets]
          /\ cli' = [cli EXCEPT !.pc = "written"]
       \/ /\ WriteFails /\ UNCHANGED file
          /\ cli' = [cli EXCEPT !.pc = "idle", !.secrets = NoSecrets]
    /\ UNCHANGED <<served, server, saved, envKey, client, made, edits, crashes, broken>>

\* The operator exports the key the command told to use from now on.
OperatorSetsKey ==
    /\ cli.pc = "written"
    /\ envKey' = "new"
    /\ cli' = [pc |-> "idle", done |-> TRUE, secrets |-> NoSecrets]
    /\ UNCHANGED <<served, server, files, client, counters>>

-----------------------------------------------------------------------------
(* A flow that names a connection.  A restart of its engine resolves from    *)
(* the same copies, so they are forgotten once it is connected.             *)

\* A call under way at either read, or one that changed a profile in between.
Overlap == client.overlap \/ ~Quiet \/ saved # client.profiles

\* A deployment builds a resolver: it loads connections.json...
FlowLoadsProfiles ==
    /\ up /\ client.deploys < served.deploys
    /\ client.pc \in {"idle", "connected", "failed"}
    /\ client' = [client EXCEPT !.pc = "secrets", !.deploys = @ + 1, !.profiles = saved,
                            !.secrets = NoSecrets, !.overlap = ~Quiet,
                            !.endpoint = 0, !.credentials = 0, !.attempt = 0]
    /\ UNCHANGED <<served, server, files, envKey, cli, counters>>

\* ... and then opens secrets.enc with the server's key.
FlowOpensSecrets ==
    /\ client.pc = "secrets"
    /\ client' = IF Opens(masterKey)
               THEN [client EXCEPT !.pc = "resolve", !.secrets = file.secrets, !.overlap = Overlap]
               ELSE [client EXCEPT !.pc = "failed", !.profiles = NoProfiles]
    /\ UNCHANGED <<served, server, files, envKey, cli, counters>>

\* Starting the engine resolves the alias from the resolver's copies.
FlowResolves ==
    /\ client.pc = "resolve"
    /\ \E n \in Names :
          LET found == {i \in Ids : client.profiles[i].name = n} IN
          IF \E i \in found : client.secrets[i] # 0
          THEN \E i \in found :
                  client' = [client EXCEPT !.pc = "connect", !.attempt = 1,
                                       !.endpoint = client.profiles[i].edition,
                                       !.credentials = client.secrets[i]]
          ELSE client' = [client EXCEPT !.pc = "failed", !.profiles = NoProfiles,
                                    !.secrets = NoSecrets]
    /\ UNCHANGED <<served, server, files, envKey, cli, counters>>

Forgotten == [client EXCEPT !.profiles = NoProfiles, !.secrets = NoSecrets, !.attempt = 0]

\* insert_database: a pool connects at once, the other drivers on first use.
FlowConnects == client.pc = "connect" /\ client' = [Forgotten EXCEPT !.pc = "connected"]

\* A transient failure is tried again, so many times.
FlowRetries ==
    /\ client.pc = "connect" /\ client.attempt < MaxConnects
    /\ client' = [client EXCEPT !.attempt = @ + 1]

FlowFails ==
    /\ client.pc = "connect"
    /\ client' = [Forgotten EXCEPT !.pc = "failed", !.endpoint = 0, !.credentials = 0]

FlowBuilds ==
    /\ FlowConnects \/ FlowRetries \/ FlowFails
    /\ UNCHANGED <<served, server, files, envKey, cli, counters>>

-----------------------------------------------------------------------------

\* An empty data directory, or one a first version left: a profile whose
\* secret is in a file of version 1.
ConnectionsInit ==
    /\ served \in ServerUsages
    /\ up = FALSE /\ masterKey = "old" /\ envKey = "old"
    /\ profiles = NoProfiles /\ secrets = NoSecrets /\ cache = NoSecrets
    /\ health = [i \in Ids |-> "none"]
    /\ writer = NoAdmin /\ call = [a \in Administrators |-> Idle]
    /\ \/ saved = NoProfiles /\ file = NoSecretsFile /\ made = 0 /\ edits = 0
       \/ /\ \E n \in Names : saved = [NoProfiles EXCEPT ![1] = [name |-> n, edition |-> 1]]
          /\ file = [version |-> 1, key |-> "old", secrets |-> [NoSecrets EXCEPT ![1] = 1]]
          /\ made = 1 /\ edits = 1
    /\ cli = [pc |-> "idle", done |-> FALSE, secrets |-> NoSecrets]
    /\ client = [pc |-> "idle", deploys |-> 0, profiles |-> NoProfiles, secrets |-> NoSecrets,
               overlap |-> FALSE, endpoint |-> 0, credentials |-> 0, attempt |-> 0]
    /\ faults = 0 /\ crashes = 0 /\ broken = FALSE

ConnectionsNext ==
    \/ \E a \in Administrators :
          \/ Asks(a) \/ Gets(a) \/ Resolves(a) \/ Stores(a) \/ Looks(a) \/ Upserts(a)
          \/ Published(a) \/ Undoes(a) \/ Deletes(a) \/ RemovesSecret(a) \/ Reverts(a)
          \/ Forgets(a) \/ Tests(a) \/ Explores(a)
    \/ \E i \in Ids : CacheExpires(i)
    \/ ServerStarts \/ Crashes
    \/ RotateOpens \/ RotateWrites \/ OperatorSetsKey
    \/ FlowLoadsProfiles \/ FlowOpensSecrets \/ FlowResolves \/ FlowBuilds

ConnectionsSpec == ConnectionsInit /\ [][ConnectionsNext]_connectionVars

-----------------------------------------------------------------------------

\* One call at a time, and no key rotated while the server runs (rotate_key
\* writes back the secrets it read, over what was stored meanwhile).
OneByOne == served.serial /\ "up" \notin served.rotate

\* With one call at a time, every profile the disk holds has its credentials on
\* the disk too, whatever write fails and wherever the server crashes: the
\* order of create_connection, update_with_secret and delete_with_secret.
SavedProfilesResolve ==
    OneByOne => \A i \in Ids : Exists(saved, i) => file.secrets[i] # 0

\* However the calls interleave and fail, no two profiles share a name, and the
\* table is the one the disk holds once no deletion is under way (upsert and
\* delete_with_secret change both under one lock).
TableIsSaved ==
    /\ \A i, j \in Ids : i # j /\ Exists(profiles, i) => profiles[i].name # profiles[j].name
    /\ up /\ Unlocked => saved = profiles

\* With one call at a time, a call that was answered leaves nothing half done
\* (unless its roll back failed or a crash cut it): credentials exist exactly
\* for the profiles, of the same edition, and so do statuses; cached metadata
\* is of the current edition.
AnswersLeaveWhole ==
    OneByOne /\ up /\ Quiet /\ ~broken =>
        \A i \in Ids :
            /\ secrets[i] = profiles[i].edition
            /\ health[i] # "none" <=> Exists(profiles, i)
            /\ cache[i] \in {0, profiles[i].edition}

\* A flow connects to an endpoint with the credentials that were sent with it,
\* unless a call was under way while its deployment read the two files
\* (ProfileConnectionResolver.open takes no lock).
FlowsConnectWhole ==
    OneByOne /\ ~broken /\ client.pc = "connected" /\ ~client.overlap =>
        client.endpoint = client.credentials

\* Calls and flows leave, and find, contents that were sent together.
ContentsStayTogether == AnswersLeaveWhole /\ FlowsConnectWhole

\* Rotated while the server is stopped: once the operator has exported the new
\* key, it opens the secrets (rotate_connection_master_key).
RotationLasts == served.rotate \subseteq {"down"} /\ cli.done => file.key = envKey

\* What is on the disk is the table, whole and readable at the next start.
DiskIsWhole == SavedProfilesResolve /\ TableIsSaved /\ RotationLasts

=============================================================================
