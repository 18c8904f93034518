----------------------------- MODULE MCTransfers -----------------------------
(***************************************************************************)
(* Both ends of a flow: a sink with its destination, and a source with its *)
(* database or topic.  A behaviour runs one of them; the other has ended,  *)
(* or has not begun.                                                       *)
(***************************************************************************)
EXTENDS Delivery, Intake, TLC

VARIABLE part

\* Two packets for every kind of destination: both sound, in order and with one
\* worker; or at once, one of them flawed (and
\* then one call that fails).
Sound == [p \in Packets |-> "none"]
Bad(flaw) == [p \in Packets |-> IF p = 1 THEN flaw ELSE "none"]

Orderly == {[kind |-> k, flaw |-> Sound, ordered |-> TRUE, pooled |-> TRUE, faults |-> 2] : k \in Kinds}
Crowd ==
  {[kind |-> u[1], flaw |-> Bad(u[2]), ordered |-> FALSE, pooled |-> FALSE, faults |-> 1] :
     u \in ({Postgres} \X {"unreadable", "malformed"}) \cup ({MySql, Oracle} \X {"none", "refused"})
        \cup ({ClickHouse, MongoDb, Kafka} \X {"malformed", "refused"})}

AllUses == Orderly \cup Crowd

Delivered == task = [p \in Packets |-> [at |-> "failure", attempt |-> 1]]

Init ==
  /\ part \in {"delivery", "intake"}
  /\ IntakeInit
  /\ part = "delivery" => DeliveryInit /\ source = "kafka"
  /\ part = "intake" =>
       /\ use = [kind |-> Postgres, flaw |-> Sound, ordered |-> TRUE, pooled |-> TRUE, faults |-> 2]
       /\ Delivered
       /\ work = [p \in Packets |-> [a \in Attempts |-> Idle]]
       /\ table = {} /\ newest = [b \in Batches |-> Nobody]
       /\ circuit = Closed /\ probes = 0 /\ faults = 0

DeliveryPart == part = "delivery" /\ UNCHANGED <<part, intakeVars>>
IntakePart   == part = "intake" /\ UNCHANGED <<part, deliveryVars>>

Next ==
  \/ DeliveryPart /\ DeliveryNext
  \/ IntakePart /\ IntakeNext

hostVars == <<part, deliveryVars, intakeVars>>

\* DeliveryFairness and IntakeFairness, of the part that runs.
Spec ==
  /\ Init /\ [][Next]_hostVars
  /\ \A p \in Packets : WF_hostVars(DeliveryPart /\ TaskStep(p))
  /\ \A p \in Packets, a \in Attempts : WF_hostVars(DeliveryPart /\ WorkStep(p, a))
  /\ WF_hostVars(IntakePart /\ ReaderStep) /\ WF_hostVars(IntakePart /\ Routes)
  /\ \A r \in Readings : WF_hostVars(IntakePart /\ ThreadStep(r))

=============================================================================
