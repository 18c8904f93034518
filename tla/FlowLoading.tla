---------------------------- MODULE FlowLoading ----------------------------
(***************************************************************************)
(* How a flow manifest becomes an engine, or an error: `jaiba <flow>` and  *)
(* `jaiba validate <flow>` (jaiba-cli), parse_and_validate (observability),*)
(* FlowGraph::build (Kahn's algorithm), the placeholders of its parameters *)
(* and of the environment, and the depths that the scheduler reserves      *)
(* (executor/validation.rs).                                               *)
(***************************************************************************)
EXTENDS Integers, Sequences, FiniteSets, SequencesExt

CONSTANTS
    Manifests,    \* the files there are
    MaxConcurrency   \* engine.max_concurrency

ASSUME FlowLoadingAssumption ==
    /\ MaxConcurrency \in Nat
    /\ \A m \in Manifests : /\ m.processors \in Seq(STRING)
                           /\ m.connections \in Seq([from : STRING, to : STRING])

VARIABLES
    document,    \* the file
    loader,       \* the command: "run" or "validate"
    step,         \* where it is; "accepted", or why the flow is rejected
    indegree, waiting, order,  \* locals of FlowGraph::build
    text          \* a text of a processor's configuration, being resolved

loadingVars == <<document, loader, step, indegree, waiting, order, text>>
graphVars == <<indegree, waiting, order>>

Ids == {document.processors[n] : n \in DOMAIN document.processors}
Degree(id) == Cardinality({n \in DOMAIN document.connections : document.connections[n].to = id})

Rejects(why) == step' = why

-----------------------------------------------------------------------------

\* read_flow: a file that can be read and has processors.
ReadsFlow ==
    /\ step = "read"
    /\ step' = IF ~document.readable THEN "unreadable"
               ELSE IF loader = "validate" THEN "settings" ELSE "build"
    /\ UNCHANGED <<document, loader, graphVars, text>>

KnownTypes == {"postgres", "mysql", "mariadb", "mongodb", "mongo", "oracle",
               "sqlserver", "mssql", "clickhouse"}

\* parse_and_validate, what only it looks at: the id, the schedule, the memory,
\* and the connections that the flow defines.
ChecksSettings ==
    /\ step = "settings"
    /\ step' = IF document.settings /\ \A name \in DOMAIN document.databases :
                     document.databases[name] \in KnownTypes
               THEN "build" ELSE "settings_error"
    /\ UNCHANGED <<document, loader, graphVars, text>>

\* FlowGraph::build; the first processors of the order come as a HashMap has them.
BuildsGraph ==
    /\ step = "build"
    /\ IF document.processors = <<>> THEN Rejects("empty") /\ UNCHANGED graphVars
       ELSE IF Cardinality(Ids) # Len(document.processors)
            THEN Rejects("duplicate") /\ UNCHANGED graphVars
       ELSE IF \E n \in DOMAIN document.connections :
                 ~({document.connections[n].from, document.connections[n].to} \subseteq Ids)
            THEN Rejects("unknown_processor") /\ UNCHANGED graphVars
       ELSE /\ step' = "sort"
            /\ indegree' = [id \in Ids |-> Degree(id)]
            /\ waiting' \in SetToSeqs({id \in Ids : Degree(id) = 0})
            /\ UNCHANGED order
    /\ UNCHANGED <<document, loader, text>>

\* Mistake: a processor is ready as soon as one of its inputs is sorted.
FollowsAny(id, acc, connection) ==
    LET d == acc.indegree[connection.to] IN
    IF connection.from # id THEN acc
    ELSE [indegree |-> [acc.indegree EXCEPT ![connection.to] = IF @ = 0 THEN 0 ELSE @ - 1],
          waiting |-> IF d = Degree(connection.to) THEN Append(acc.waiting, connection.to) ELSE acc.waiting]

\* An edge less from id; the last one makes its destination ready.
Follows(id, acc, connection) ==
    LET d == acc.indegree[connection.to] - 1 IN
    IF connection.from # id THEN acc
    ELSE [indegree |-> [acc.indegree EXCEPT ![connection.to] = d],
          waiting |-> IF d = 0 THEN Append(acc.waiting, connection.to) ELSE acc.waiting]

\* The edges that leave id, in the order of the file.
Followed(id, acc) ==
    FoldLeft(LAMBDA a, connection : Follows(id, a, connection), acc, document.connections)

Sorts ==
    /\ step = "sort" /\ waiting # <<>>
    /\ order' = Append(order, Head(waiting))
    /\ LET acc == Followed(Head(waiting), [indegree |-> indegree, waiting |-> Tail(waiting)])
       IN indegree' = acc.indegree /\ waiting' = acc.waiting
    /\ UNCHANGED <<document, loader, step, text>>

SortEnds ==
    /\ step = "sort" /\ waiting = <<>>
    /\ step' = IF Len(order) # Len(document.processors) THEN "cycle" ELSE "parameters"
    /\ UNCHANGED <<document, loader, graphVars, text>>

\* interpolate_value: each parameter in turn, in the order of a HashMap, so that
\* what one brings is or is not replaced by another.
Replace(words, name) ==
    FlattenSeq([n \in DOMAIN words |->
        IF words[n] = <<"parameter", name>> THEN document.parameters[name] ELSE <<words[n]>>])

ReplacesParameters ==
    /\ step = "parameters"
    /\ \E names \in SetToSeqs(DOMAIN document.parameters) :
          text' = FoldLeft(Replace, text, names)
    /\ step' = "environment"
    /\ UNCHANGED <<document, loader, graphVars>>

Variables(words) == {n \in DOMAIN words : words[n][1] = "env"}

\* resolve_environment_placeholders: the first one that is left, until none is.
ResolvesVariable ==
    /\ step = "environment" /\ Variables(text) # {}
    /\ LET n == CHOOSE n \in Variables(text) : \A m \in Variables(text) : n <= m
           name == text[n][2]
       IN IF name \in DOMAIN document.environment
          THEN /\ text' = SubSeq(text, 1, n - 1) \o document.environment[name]
                            \o SubSeq(text, n + 1, Len(text))
               /\ UNCHANGED step
          ELSE Rejects("missing_variable") /\ UNCHANGED text
    /\ UNCHANGED <<document, loader, graphVars>>

TextEnds ==
    /\ step = "environment" /\ Variables(text) = {}
    /\ step' = IF \E n \in DOMAIN text : text[n][1] = "parameter" THEN "unresolved" ELSE "depths"
    /\ UNCHANGED <<document, loader, graphVars, text>>

\* processor_downstream_depths: visit, with its memo.  (A circle, where it
\* would stop as well, was refused before.)
Unknown == -1
Memos == [Ids -> Nat \cup {Unknown}]

Deepen(visit, id, acc, connection) ==
    LET below == visit[<<connection.to, acc.memo>>] IN
    IF connection.from # id THEN acc
    ELSE [depth |-> IF 1 + below.depth > acc.depth THEN 1 + below.depth ELSE acc.depth,
          memo |-> below.memo]

Deepened(visit, id, base) ==
    FoldLeft(LAMBDA acc, connection : Deepen(visit, id, acc, connection), base, document.connections)

Visited(visit, id, memo) ==
    IF memo[id] # Unknown THEN [depth |-> memo[id], memo |-> memo]
    ELSE LET all == Deepened(visit, id, [depth |-> 0, memo |-> memo])
         IN [depth |-> all.depth, memo |-> [all.memo EXCEPT ![id] = all.depth]]

Visit == LET visit[call \in Ids \X Memos] == Visited(visit, call[1], call[2]) IN visit

Depths == FoldLeft(LAMBDA memo, id : Visit[<<id, memo>>].memo, [id \in Ids |-> Unknown], document.processors)

\* validate (its other checks are in FlowEngine's Validated).
ChecksDepths ==
    /\ step = "depths"
    /\ step' = IF \E id \in Ids : Depths[id] + 1 > MaxConcurrency THEN "too_deep"
               ELSE IF loader = "validate" THEN "processors" ELSE "accepted"
    /\ UNCHANGED <<document, loader, graphVars, text>>

Required ==
    [query_postgres |-> {"postgres"}, query_mysql |-> {"mysql", "mariadb"},
     query_sqlserver |-> {"sqlserver", "mssql"}, query_mongodb |-> {"mongodb", "mongo"},
     put_mongodb |-> {"mongodb", "mongo"}, put_database |-> KnownTypes]

\* parse_and_validate builds each processor from its configuration as written,
\* and looks up the connection that it names, for the types that it knows.
ChecksProcessors ==
    /\ step = "processors"
    /\ step' = IF /\ document.builds
                  /\ document.uses.type \in DOMAIN Required /\ document.uses.name # "none" =>
                        /\ document.uses.name \in DOMAIN document.databases
                        /\ document.databases[document.uses.name] \in Required[document.uses.type]
               THEN "accepted" ELSE "processor_error"
    /\ UNCHANGED <<document, loader, graphVars, text>>

-----------------------------------------------------------------------------

LoadingInit ==
    /\ document \in Manifests /\ loader \in {"run", "validate"}
    /\ step = "read"
    /\ indegree = <<>> /\ waiting = <<>> /\ order = <<>>
    /\ text = document.text

LoadingNext ==
    \/ ReadsFlow \/ ChecksSettings \/ BuildsGraph \/ Sorts \/ SortEnds
    \/ ReplacesParameters \/ ResolvesVariable \/ TextEnds
    \/ ChecksDepths \/ ChecksProcessors

LoadingSpec == LoadingInit /\ [][LoadingNext]_loadingVars

-----------------------------------------------------------------------------

Edge(a, b) == \E n \in DOMAIN document.connections : document.connections[n].from = a /\ document.connections[n].to = b
Cyclic == \E group \in SUBSET Ids : group # {} /\ \A b \in group : \E a \in group : Edge(a, b)

PathFrom(id, n) ==
    \E path \in [0..n -> Ids] : path[0] = id /\ \A i \in 1..n : Edge(path[i - 1], path[i])
LongestPath(id, n) == PathFrom(id, n) /\ ~PathFrom(id, n + 1)

\* A flow is refused as cyclic exactly when its connections close a circle,
\* repeated and looping ones included, and otherwise its order has each
\* processor once, before those it feeds; the depths, from a memo filled in
\* whatever order, are the longest paths.
LoadsDags ==
    /\ step = "cycle" => Cyclic
    /\ step \in {"parameters", "depths", "accepted"} =>
         /\ ~Cyclic
         /\ ToSet(order) = Ids /\ Len(order) = Cardinality(Ids)
         /\ \A m, n \in DOMAIN order : Edge(order[m], order[n]) => m < n
    /\ step = "depths" => \A id \in Ids : LongestPath(id, Depths[id])

=============================================================================
