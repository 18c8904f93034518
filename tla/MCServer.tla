------------------------------- MODULE MCServer -------------------------------
(***************************************************************************)
(* What a server keeps: the flows it has deployed; its connection          *)
(* profiles; and a repository in which two engines run the same flow (a    *)
(* served flow and the command line, or two servers) while another process *)
(* opens it.  A behaviour runs one of the three and leaves the others      *)
(* where they start.                                                       *)
(***************************************************************************)
EXTENDS PacketRepository, FlowRegistry, ConnectionStore, TLC

CONSTANTS f1, e1, e2

VARIABLE part

MCFlowOf == [e \in {e1, e2} |-> f1]

\* The registry, used by one operator, with every failure; by two operators who
\* deploy and stop two flows; and by one operator of a flow with a schedule.
Operator(c, f) ==
  [callers |-> {c}, flows |-> {f}, persistent |-> TRUE,
   requests |-> Requests \ {"publish"}, faults |-> Faults,
   scheduled |-> {}, overlap |-> "replace"]

Scheduled(c, f, overlap) ==
  [callers |-> {c}, flows |-> {f}, persistent |-> TRUE,
   requests |-> {"publish", "stop", "start"}, faults |-> {"stop", "crash"},
   scheduled |-> {1}, overlap |-> overlap]

Operators ==
  [callers |-> Callers, flows |-> FlowIds, persistent |-> FALSE,
   requests |-> {"publish", "rollback", "stop"}, faults |-> {"start"},
   scheduled |-> {}, overlap |-> "skip"]

Alones == {Operator(c, f) : c \in Callers, f \in FlowIds}
Users ==
  {Operators} \cup Alones
    \cup {Scheduled(c, f, o) : c \in Callers, f \in FlowIds, o \in {"skip", "queue", "replace"}}

\* The connections: one call at a time, with two failing writes; with one and
\* a crash, and a key rotated while the server is stopped; with one and a flow
\* that is deployed; and calls that interleave, and a failing write.
OneCall(keys, writes, cuts, loads) ==
  [serial |-> TRUE, rotate |-> keys, faults |-> writes, crashes |-> cuts, deploys |-> loads]
AnyCalls == [serial |-> FALSE, rotate |-> {}, faults |-> 1, crashes |-> 0, deploys |-> 0]
Served == {OneCall({}, 2, 0, 0), OneCall({"down"}, 1, 1, 0), OneCall({}, 1, 0, 1), AnyCalls}

\* Nothing distinguishes one operator, flow, administrator or profile name
\* from another, and the parts do not share them.
Symmetric ==
  Permutations(Administrators) \cup Permutations(Names)
    \cup Permutations(Callers) \cup Permutations(FlowIds)

ServerInit ==
  /\ part \in {"registry", "connections", "repository"}
  /\ Init /\ RegistryInit /\ ConnectionsInit
  /\ part # "connections" => served = AnyCalls /\ saved = NoProfiles
  /\ part # "registry" => usage \in Alones

ServerNext ==
  \/ part = "registry" /\ RegistryNext /\ UNCHANGED <<part, connectionVars, vars>>
  \/ part = "connections" /\ ConnectionsNext /\ UNCHANGED <<part, registryVars, vars>>
  \/ part = "repository" /\ Next /\ UNCHANGED <<part, registryVars, connectionVars>>

serverVars == <<part, vars, registryVars, connectionVars>>

ServerSpec == ServerInit /\ [][ServerNext]_serverVars

=============================================================================
