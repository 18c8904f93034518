------------------------------ MODULE MCMemory ------------------------------
(***************************************************************************)
(* The domain memory and, beside it, the store of its Cold level: a        *)
(* behaviour runs one of them and leaves the other where it starts.  Three *)
(* keys in a Hot with room for two: with every class below Hot, with the   *)
(* classes that reach the file, and with a critical one.  Two keys and two *)
(* values in a Cold of three short segments, where a cell rots, the        *)
(* power fails or a write does.                                            *)
(***************************************************************************)
EXTENDS DomainMemory, ColdStore, TLC

CONSTANTS a, b, c, small, large, x, y, one, two

VARIABLE part

Bytes12 == [v \in Values |-> IF v = small THEN 1 ELSE 2]

Cache(temperature, priority) ==
  [policy |-> "cache", temperature |-> temperature, ttl |-> TRUE, priority |-> priority]
Volatile == [policy |-> "volatile", temperature |-> "hot", ttl |-> TRUE, priority |-> 0]
Deferred(priority) ==
  [policy |-> "deferred", temperature |-> "cold", ttl |-> FALSE, priority |-> priority]
Immediate(temperature) ==
  [policy |-> "immediate", temperature |-> temperature, ttl |-> FALSE, priority |-> Critical]

Classes(ofA, ofB, ofC, faults) ==
  [class |-> (a :> ofA @@ b :> ofB @@ c :> ofC), backends |-> Tiers, faults |-> faults]

Mixes ==
  {Classes(Cache("cold", 1), Cache("warm", 1), Cache("frozen", 2), {"cold", "warm", "frozen", "read"}),
   Classes(Deferred(2), Immediate("cold"), Cache("cold", 1), {"sink", "cold"}),
   Classes(Deferred(2), Deferred(2), Volatile, {"sink", "remove"}),
   Classes(Deferred(1), Immediate("frozen"), Cache("warm", 1), {"sink", "frozen", "warm"})}

Lengths == (one :> 2 @@ two :> 2 @@ Tombstone :> 1)
Weather == {{"rot"}, {"power"}, {"write"}}

\* The domain memory never mentions the keys and values of the Cold store.
Symmetric == Permutations(ColdKeys) \cup Permutations(ColdValues)

Init ==
  /\ part \in {"memory", "cold"}
  /\ MemoryInit /\ ColdInit
  /\ part = "cold" => policy = CHOOSE p \in Mixes : TRUE

Next ==
  \/ part = "memory" /\ MemoryNext /\ UNCHANGED <<part, coldVars>>
  \/ part = "cold" /\ ColdNext /\ UNCHANGED <<part, memoryVars>>

Spec == Init /\ [][Next]_<<part, memoryVars, coldVars>>

=============================================================================
