------------------------------ MODULE MCTools ------------------------------
(***************************************************************************)
(* Four tools that share nothing but the machine, side by side: the        *)
(* plugins, the Oracle client, the desktop application, and the commands   *)
(* that load a flow.  A behaviour runs one of them and leaves the others   *)
(* where they start.                                                       *)
(***************************************************************************)
EXTENDS Plugins, OracleClient, Desktop, FlowLoading

VARIABLE part

\* Three commands and no packet, or one command around three packets.
MCUsages ==
    {[commands |-> 3, packets |-> 0], [commands |-> 1, packets |-> 3]}

\* The first version is an image, without files; the second a program with two.
MCFilesOf == [v \in Versions |-> 2 * (v - 1)]

\* Every graph over three processors with up to three connections; texts of two
\* placeholders; and settings and uses of a connection, good and bad.
Link(a, b) == [from |-> a, to |-> b]
Plain == [readable |-> TRUE, settings |-> TRUE, processors |-> <<"a", "b", "c">>,
          connections |-> <<>>, databases |-> <<>>, text |-> <<>>,
          parameters |-> <<>>, environment |-> <<>>,
          builds |-> TRUE, uses |-> [type |-> "query_oracle", name |-> "none"]]
Links == {Link(a, b) : a, b \in {"a", "b", "c"}}
Graphs == {[Plain EXCEPT !.connections = links] : links \in UNION {[1..n -> Links] : n \in 0..3}}
           \cup {[Plain EXCEPT !.processors = ids, !.connections = links] :
                    ids \in {<<>>, <<"a">>, <<"a", "a">>}, links \in {<<>>, <<Link("a", "a")>>, <<Link("a", "b")>>}}
Words == {<<"text">>, <<"parameter", "p">>, <<"parameter", "q">>, <<"env", "u">>, <<"env", "v">>}
Texts == {[Plain EXCEPT !.text = t, !.parameters = p, !.environment = e] :
            t \in {<<w1, w2>> : w1, w2 \in Words},
            p \in {<<>>, [p |-> <<<<"env", "u">>>>], [p |-> <<<<"text">>>>, q |-> <<<<"parameter", "p">>>>]},
            e \in {<<>>, [u |-> <<<<"text">>>>], [u |-> <<<<"env", "v">>>>, v |-> <<<<"text">>>>]}}
Uses == {[Plain EXCEPT !.readable = r, !.settings = s, !.builds = b, !.databases = d, !.uses = u] :
            r, s, b \in BOOLEAN, d \in {[x |-> "mysql"], [x |-> "db2"], [x |-> "mongo"]},
            u \in [type : {"query_oracle", "query_mysql", "put_mongodb", "put_database"}, name : {"none", "x", "y"}]}
MCManifests == Graphs \cup Texts \cup Uses

toolVars == <<part, pluginVars, clientVars, desktopVars, loadingVars>>

LoadingIdle ==
    /\ document = Plain /\ loader = "run" /\ step = "read"
    /\ indegree = <<>> /\ waiting = <<>> /\ order = <<>> /\ text = <<>>

Init ==
    /\ part \in {"plugins", "client", "desktop", "loading"}
    /\ IF part = "loading" THEN LoadingInit ELSE LoadingIdle
    /\ PluginInit /\ ClientInit /\ DesktopInit
    /\ part # "plugins" => /\ commands = 3
                           /\ target = Nothing
    /\ part # "desktop" => saved = "none"

Next ==
    \/ part = "plugins" /\ PluginNext /\ UNCHANGED <<part, clientVars, desktopVars, loadingVars>>
    \/ part = "client" /\ ClientNext /\ UNCHANGED <<part, pluginVars, desktopVars, loadingVars>>
    \/ part = "desktop" /\ DesktopNext /\ UNCHANGED <<part, pluginVars, clientVars, loadingVars>>
    \/ part = "loading" /\ LoadingNext /\ UNCHANGED <<part, pluginVars, clientVars, desktopVars>>

\* PluginFairness, of the part that runs.
Spec ==
    /\ Init /\ [][Next]_toolVars
    /\ \A t \in Tasks : WF_toolVars(part = "plugins" /\ Steps(t) /\ UNCHANGED <<part, clientVars, desktopVars, loadingVars>>)

=============================================================================
