------------------------------ MODULE MCEngine ------------------------------
(***************************************************************************)
(* Small flows for FlowEngine: a source and a sink, a source that fans out *)
(* and has another relationship, and a source and a transform whose errors *)
(* have a handler.                                                         *)
(***************************************************************************)
EXTENDS FlowEngine

CONSTANTS p1, p2, p3

Edge(from, relationship, to, capacity) ==
  [from |-> from, relationship |-> relationship, to |-> to, capacity |-> capacity]

LineProcessors  == <<p1, p2>>
LineConnections == <<Edge(p1, "success", p2, 2)>>

ForkProcessors  == <<p1, p2, p3>>
ForkConnections == <<Edge(p1, "success", p2, 1), Edge(p1, "success", p3, 1), Edge(p1, "side", p2, 2)>>

ChainProcessors  == <<p1, p2, p3>>
ChainConnections == <<Edge(p1, "success", p2, 1), Edge(p2, "failure", p3, 1)>>

Depths(n)     == [p \in Procs |-> CASE p = p1 -> n [] p = p2 -> n - 1 [] OTHER -> 0]
LineDepth     == Depths(1)
ForkDepth     == [p \in Procs |-> IF p = p1 THEN 1 ELSE 0]
ChainDepth    == Depths(2)

AllOf(x)      == [p \in Procs |-> x]
Unordered     == AllOf("unordered")
HandlerPreserved == [p \in Procs |-> IF p = p3 THEN "preserve" ELSE "unordered"]
SinkPartitioned == [p \in Procs |-> IF p = p2 THEN "partitioned" ELSE "unordered"]
TwoTasks      == AllOf(2)
NoMaximum     == AllOf(0)
SinkMaximum   == [p \in Procs |-> IF p = p2 THEN 2 ELSE 0]

=============================================================================
