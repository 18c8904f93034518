---------------------------- MODULE MCSupervisor ----------------------------
(***************************************************************************)
(* A supervisor used by one operator who starts and stops and another who  *)
(* only commands; by two operators who start and stop as they like; and by *)
(* one who starts a flow and one who waits for its end.                    *)
(***************************************************************************)
EXTENDS FlowSupervisor

CONSTANTS admin, other

Calls(first, second) == [c \in {admin, other} |-> IF c = admin THEN first ELSE second]

OneOperator ==
  [calls |-> Calls({"start", "stop"}, {"pause", "resume", "drain", "wait"}), modes |-> {"force", "keep"}]
Anyone == [calls |-> Calls({"start", "stop"}, {"start", "stop"}), modes |-> {"force"}]

Operators == {OneOperator, Anyone}
TwoOperators == {Anyone}

=============================================================================
