---------------------------- MODULE PacketQueue ----------------------------
(***************************************************************************)
(* What the packet repository promises to the engine, with no database, no *)
(* files and no log: a queue of work items, each handed out until it is    *)
(* finished (at-least-once), set aside when it fails for good, and brought *)
(* back only on request.  PacketRepository implements it.                  *)
(***************************************************************************)

CONSTANT Items          \* identifiers a work item may receive (queue_id)

VARIABLE fate           \* what has become of each item

Fates == {"unborn", "waiting", "leased", "done", "dead"}

QueueTypeOK == fate \in [Items -> Fates]

QueueInit == fate = [i \in Items |-> "unborn"]

----------------------------------------------------------------------------

\* Item i goes from one fate to the next.
Becomes(i, from, to) ==
  /\ fate[i] = from
  /\ fate' = [fate EXCEPT ![i] = to]

Submit(i) == Becomes(i, "unborn", "waiting")
Lease(i)  == Becomes(i, "waiting", "leased")
Finish(i) == Becomes(i, "leased", "done")
Bury(i)   == Becomes(i, "leased", "dead")
Revive(i) == Becomes(i, "dead", "waiting")

\* The items of S had been leased by a consumer that is gone.
Return(S) ==
  /\ S \subseteq {i \in Items : fate[i] = "leased"}
  /\ fate' = [i \in Items |-> IF i \in S THEN "waiting" ELSE fate[i]]

QueueNext ==
  \/ \E i \in Items : Submit(i) \/ Lease(i) \/ Finish(i) \/ Bury(i) \/ Revive(i)
  \/ \E S \in SUBSET Items : Return(S)

QueueSpec == QueueInit /\ [][QueueNext]_fate

=============================================================================
