------------------------------- MODULE RowPrep -------------------------------
(***************************************************************************)
(* One node of the data preparation toolkit (processors/ai_prep), run by   *)
(* the engine on several packets: it reads the rows of a packet and what   *)
(* it keeps from earlier packets under a lock, computes the packet's new   *)
(* rows and emits them once.  An execution that fails is repeated from the *)
(* packet as it came (executor/retry.rs); what it did to the node's memory *)
(* stays.                                                                  *)
(*                                                                         *)
(* A row is a key and one value, the field that the node is configured     *)
(* for.                                                                    *)
(***************************************************************************)
EXTENDS Values, Sequences, FiniteSets, SequencesExt, TLC

CONSTANTS
    Evaluates(_, _),  \* an expression's value for a record's fields, or that it has none
    Packets,      \* packets given to the node
    Cases,        \* configurations of the node, each with the batches of rows it is given
    MaxAttempts,  \* retry.maximum_attempts
    MaxFaults     \* emissions that fail: no memory for the copy, or the timeout

ASSUME RowPrepAssumption ==
    /\ IsFiniteSet(Packets) /\ MaxAttempts \in Nat \ {0} /\ MaxFaults \in Nat
    /\ \A case \in Cases :
          /\ case.node.kind = "dedupe" => case.node.window \in Nat
          /\ \A batch \in case.batches : batch \in Seq(ToSet(batch))

VARIABLES
    node,        \* the processor's configuration
    input,       \* the rows each packet came with
    remembered,  \* what the processor keeps under its lock from packet to packet
    task,        \* each packet: where it is, its attempt, the rows computed
    accepted,    \* keys that the node let through, in the order of its lock
    delivered,   \* packets whose rows were emitted
    faults

nodeVars == <<node, input, remembered, task, accepted, delivered, faults>>

Numbers(rows) ==
    LET numeric == SelectSeq(rows, LAMBDA r : HasNumber(r.value))
    IN [i \in DOMAIN numeric |-> NumberOf(numeric[i].value)]
Ascending(numbers) == SortSeq(numbers, LAMBDA a, b : a < b)

Least(numbers) == Ascending(numbers)[1]
Greatest(numbers) == Ascending(numbers)[Len(numbers)]
Mean(numbers) == FoldLeft(LAMBDA total, n : total + n, 0, numbers) \div Len(numbers)
Median(numbers) ==
    LET sorted == Ascending(numbers)
        middle == Len(sorted) \div 2
    IN IF Len(sorted) % 2 = 0 THEN (sorted[middle] + sorted[middle + 1]) \div 2
       ELSE sorted[middle + 1]

\* percentile of a quarter: between the two nearest places, in proportion.
Quartile(sorted, quarter) ==
    LET rank == quarter * (Len(sorted) - 1)
        low == rank \div 4
        weight == rank % 4
    IN IF weight = 0 THEN sorted[low + 1]
       ELSE (sorted[low + 1] * (4 - weight) + sorted[low + 2] * weight) \div 4

\* What an execution returns: the rows, what the node remembers and the keys
\* it let through; `fails` when it returns an error.
Yields(rows, memory) == [rows |-> rows, memory |-> memory, keys |-> <<>>, fails |-> FALSE]
Error(memory) == [Yields(<<>>, memory) EXCEPT !.fails = TRUE]

Valued(r, v) == [r EXCEPT !.value = v]

-----------------------------------------------------------------------------
(* The processors.                                                          *)

SelectsFields(rows) == [i \in DOMAIN rows |-> Valued(rows[i], <<"absent">>)]

DropsNulls(rows) == SelectSeq(rows, LAMBDA r : ~Missing(r.value))

\* ai_fill_missing.
LastKnown(rows, i) ==
    LET known == {j \in 1..i : ~Missing(rows[j].value)}
    IN IF known = {} THEN rows[i].value
       ELSE rows[CHOOSE j \in known : \A k \in known : k <= j].value
FillsMissing(rows, memory) ==
    LET aggregated == node.strategy \in {"mean", "median"}
        observed == IF node.cumulative THEN memory.observed \o Numbers(rows) ELSE Numbers(rows)
        number == IF node.strategy = "mean" THEN Mean(observed) ELSE Median(observed)
        filled == [i \in DOMAIN rows |->
            CASE ~Missing(rows[i].value) -> rows[i]
              [] Missing(rows[i].value) /\ node.strategy = "previous" ->
                   Valued(rows[i], LastKnown(rows, i))
              [] Missing(rows[i].value) /\ node.strategy = "constant" ->
                   Valued(rows[i], node.constant)
              [] OTHER -> IF observed = <<>> THEN rows[i] ELSE Valued(rows[i], <<"number", number>>)]
    IN Yields(filled,
              IF aggregated /\ node.cumulative THEN [memory EXCEPT !.observed = observed] ELSE memory)

\* Mistake: the window holds one key less than configured.
LetsThroughEarly(state, row) ==
    LET order == Append(state.order, row.key)
        expired == IF node.window > 0 /\ Len(order) >= node.window THEN 1 ELSE 0
    IN IF row.key \in state.seen THEN state
       ELSE [seen |-> (state.seen \cup {row.key}) \ {order[i] : i \in 1..expired},
             order |-> SubSeq(order, expired + 1, Len(order)),
             rows |-> Append(state.rows, row)]

\* ai_remove_duplicates: one row of the loop, with what was seen so far.
LetsThrough(state, row) ==
    LET order == Append(state.order, row.key)
        expired == IF node.window > 0 /\ Len(order) > node.window THEN 1 ELSE 0
    IN IF row.key \in state.seen THEN state
       ELSE [seen |-> (state.seen \cup {row.key}) \ {order[i] : i \in 1..expired},
             order |-> SubSeq(order, expired + 1, Len(order)),
             rows |-> Append(state.rows, row)]

LetThrough(start, rows) == FoldLeft(LetsThrough, start, rows)

\* Without a window it looks at this packet's rows only.
RemovesDuplicates(rows, memory) ==
    LET windowed == node.window > 0
        start == [seen |-> IF windowed THEN memory.seen ELSE {},
                  order |-> IF windowed THEN memory.order ELSE <<>>, rows |-> <<>>]
        end == LetThrough(start, rows)
    IN [Yields(end.rows, IF windowed THEN [memory EXCEPT !.seen = end.seen, !.order = end.order]
                         ELSE memory) EXCEPT
          !.keys = [i \in DOMAIN end.rows |-> end.rows[i].key]]

\* ai_filter_range.  A bound that is not configured is {}.
Within(rows, low, high) ==
    SelectSeq(rows, LAMBDA r :
        /\ HasNumber(r.value)
        /\ \A bound \in low : NumberOf(r.value) >= bound
        /\ \A bound \in high : NumberOf(r.value) <= bound)
FiltersRange(rows) ==
    LET sorted == Ascending(Numbers(rows))
        spread == ((Quartile(sorted, 3) - Quartile(sorted, 1)) * 3) \div 2
    IN CASE node.mode = "min_max" -> Within(rows, node.low, node.high)
         [] node.mode = "iqr" /\ Len(sorted) < 4 -> rows
         [] OTHER -> Within(rows, {Quartile(sorted, 1) - spread}, {Quartile(sorted, 3) + spread})

\* ai_normalize by minimum and maximum.
Scaled(rows, observed) ==
    LET span == Greatest(observed) - Least(observed)
    IN [i \in DOMAIN rows |->
          IF ~HasNumber(rows[i].value) THEN rows[i]
          ELSE Valued(rows[i], <<"number",
                 IF span = 0 THEN 0
                 ELSE ((NumberOf(rows[i].value) - Least(observed)) * Unit) \div span>>)]
Normalizes(rows, memory) ==
    LET observed == IF node.cumulative THEN memory.observed \o Numbers(rows) ELSE Numbers(rows)
    IN Yields(Scaled(rows, observed),
              IF node.cumulative THEN [memory EXCEPT !.observed = observed] ELSE memory)

\* The loops that drop a row they cannot convert, or fail (OnError); `values`
\* are the rows' values, converted.
Refused == <<"refused">>
Converts(rows, memory, values) ==
    LET all == [i \in DOMAIN rows |-> Valued(rows[i], values[i])]
        kept == SelectSeq(all, LAMBDA r : r.value # Refused)
    IN IF kept # all /\ node.on_error = "fail" THEN Error(memory) ELSE Yields(kept, memory)

\* cast_record.
Cast(v) ==
    CASE v[1] \in {"absent", "null"} -> v
      [] v[1] \notin {"absent", "null"} /\ node.to = "number" ->
           IF HasNumber(v) THEN <<"number", NumberOf(v)>> ELSE Refused
      [] v[1] \notin {"absent", "null"} /\ node.to = "string" ->
           CASE v[1] = "number" -> <<"digits", v[2]>>
             [] v[1] = "flag" -> <<"word", v[2]>>
             [] OTHER -> v
      [] v[1] \notin {"absent", "null"} /\ node.to = "bool" ->
           CASE v[1] = "number" -> <<"flag", IF v[2] # 0 THEN 1 ELSE 0>>
             [] v[1] = "digits" -> <<"flag", IF v[2] = Unit THEN 1 ELSE 0>>
             [] v[1] = "flag" -> v
             [] OTHER -> <<"flag", 0>>
      [] OTHER ->
           CASE v[1] = "number" -> <<"digits", v[2]>>
             [] v[1] \in {"digits", "word"} -> v
             [] OTHER -> Refused

\* ai_encode_categories: `mapping` gives a label's code.  A null is the label
\* "null".
Encoded(v) ==
    CASE v[1] = "absent" -> v
      [] v[1] = "word" /\ v[2] \in DOMAIN node.mapping -> <<"number", node.mapping[v[2]]>>
      [] OTHER -> Refused

\* ai_compute_fields.
Computed(v) ==
    LET result == Evaluates(node.tree, IF HasNumber(v) THEN [value |-> NumberOf(v)] ELSE <<>>)
    IN IF result.ok THEN <<"number", result.value>> ELSE Refused

\* ai_lookup_join: the last row of a key wins; a row without one fails the
\* packet, and the next packet builds the index again.
Joins(rows, memory) ==
    LET table == node.table
        Matches(r) == {i \in DOMAIN table : table[i].key = r.key}
        Match(r) == table[CHOOSE i \in Matches(r) : \A j \in Matches(r) : j <= i].value
    IN IF \E i \in DOMAIN table : table[i].key = "none" THEN Error(memory)
       ELSE IF \E i \in DOMAIN rows : rows[i].value = <<"scalar">>
       THEN Error([memory EXCEPT !.indexed = TRUE])
       ELSE Yields([i \in DOMAIN rows |->
                      IF Matches(rows[i]) = {} \/ Match(rows[i]) = <<"absent">> THEN rows[i]
                      ELSE Valued(rows[i], Match(rows[i]))], [memory EXCEPT !.indexed = TRUE])

Executed(rows, memory) ==
    LET objects == \A i \in DOMAIN rows : rows[i].value # <<"scalar">> IN
    CASE ~objects /\ node.kind # "lookup" -> Error(memory)
      [] objects /\ node.kind = "select" -> Yields(SelectsFields(rows), memory)
      [] objects /\ node.kind = "drop_nulls" -> Yields(DropsNulls(rows), memory)
      [] objects /\ node.kind = "fill" -> FillsMissing(rows, memory)
      [] objects /\ node.kind = "dedupe" -> RemovesDuplicates(rows, memory)
      [] objects /\ node.kind = "filter" -> Yields(FiltersRange(rows), memory)
      [] objects /\ node.kind = "normalize" -> Normalizes(rows, memory)
      [] objects /\ node.kind = "cast" -> Converts(rows, memory, [i \in DOMAIN rows |-> Cast(rows[i].value)])
      [] objects /\ node.kind = "encode" -> Converts(rows, memory, [i \in DOMAIN rows |-> Encoded(rows[i].value)])
      [] objects /\ node.kind = "compute" -> Converts(rows, memory, [i \in DOMAIN rows |-> Computed(rows[i].value)])
      [] node.kind = "lookup" -> Joins(rows, memory)

-----------------------------------------------------------------------------
(* The executions.                                                          *)

NotYet == [pc |-> "queued", attempt |-> 1, rows |-> <<>>]
InHand == {p \in Packets : task[p].pc \in {"again", "emits"}}
Admitted(p) ==
    \/ task[p].pc = "queued" /\ Cardinality(InHand) < node.concurrent_tasks
    \/ task[p].pc = "again"

RowInit ==
    /\ \E case \in Cases :
          /\ node = case.node
          /\ input \in [Packets -> case.batches]
    /\ remembered = [seen |-> {}, order |-> <<>>, observed |-> <<>>, indexed |-> FALSE]
    /\ task = [p \in Packets |-> NotYet]
    /\ accepted = <<>>
    /\ delivered = {}
    /\ faults = 0

\* An attempt that failed: another from the packet as it came, or the end.
AfterError(p) ==
    LET next == task[p].attempt + 1 IN
    task' = [task EXCEPT ![p] = [NotYet EXCEPT
               !.pc = IF next <= MaxAttempts THEN "again" ELSE "failed",
               !.attempt = IF next <= MaxAttempts THEN next ELSE MaxAttempts]]

\* The scheduler gives the node a packet while it has a free permit, and the
\* execution runs to its emission: nothing in it waits but the lock.
Executes(p) ==
    LET result == Executed(input[p], remembered) IN
    /\ Admitted(p)
    /\ remembered' = result.memory
    /\ accepted' = accepted \o result.keys
    /\ IF result.fails THEN AfterError(p)
       ELSE task' = [task EXCEPT ![p].pc = "emits", ![p].rows = result.rows]
    /\ UNCHANGED <<node, input, delivered, faults>>

Emits(p) ==
    /\ task[p].pc = "emits"
    /\ task' = [task EXCEPT ![p].pc = "done"]
    /\ delivered' = delivered \cup {p}
    /\ UNCHANGED <<node, input, remembered, accepted, faults>>

\* No memory for the emission, or the timeout while it waits for the channel.
EmissionFails(p) ==
    /\ task[p].pc = "emits" /\ faults < MaxFaults
    /\ faults' = faults + 1
    /\ AfterError(p)
    /\ UNCHANGED <<node, input, remembered, accepted, delivered>>

RowNext == \E p \in Packets : Executes(p) \/ Emits(p) \/ EmissionFails(p)

RowSpec == RowInit /\ [][RowNext]_nodeVars

-----------------------------------------------------------------------------
(* Properties.                                                              *)

KeysOf(rows) == {rows[i].key : i \in DOMAIN rows}
ValuesOf(rows) == {NumberOf(rows[i].value) : i \in {j \in DOMAIN rows : HasNumber(rows[j].value)}}

\* ai_remove_duplicates with a window (transforms.rs) lets a key through again
\* only after as many other keys as the window holds, whichever packets and
\* attempts brought them and however their executions interleave.
WindowKeepsApart ==
    node.kind = "dedupe" /\ node.window > 0 =>
        \A i, j \in DOMAIN accepted :
            i < j /\ accepted[i] = accepted[j] => j - i > node.window

\* The node that removes duplicates removes nothing else: once all packets are
\* processed, each key of the input was delivered.
EveryKeyArrives ==
    node.kind = "dedupe" /\ delivered = Packets =>
        \A p \in Packets : \A key \in KeysOf(input[p]) :
            \E q \in Packets : key \in KeysOf(task[q].rows)

\* So it is as long as no execution with a window was repeated; without a
\* window, always.
KeysArrive == node.kind = "dedupe" /\ (faults = 0 \/ node.window = 0) => EveryKeyArrives

\* Duplicates go, and only duplicates.
DuplicatesGo == WindowKeepsApart /\ KeysArrive

\* What the numeric nodes make up lies where the data lies: a scaled value
\* between 0 and 1, a filled one between the least and the greatest number seen,
\* and the outlier filter keeps the middle half of the numbers at least
\* (features.rs, transforms.rs).
NumbersMakeSense ==
    \A p \in delivered :
        LET rows == task[p].rows
            seen == remembered.observed \o Numbers(input[p])
        IN /\ node.kind = "normalize" => ValuesOf(rows) \subseteq 0..Unit
           /\ node.kind = "fill" /\ node.strategy \in {"mean", "median", "previous"}
                => \A n \in ValuesOf(rows) : Least(seen) <= n /\ n <= Greatest(seen)
           /\ node.kind = "filter" /\ node.mode = "iqr"
                => 2 * Len(Numbers(rows)) >= Len(Numbers(input[p]))
=============================================================================
