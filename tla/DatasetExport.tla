---------------------------- MODULE DatasetExport ----------------------------
(***************************************************************************)
(* From a prepared packet to the files of a dataset: ai_split_dataset cuts *)
(* it in three and emits the parts one by one; ai_export_manifest with     *)
(* collect_splits keeps the parts of a group until the third is there,     *)
(* then writes three CSV files and the manifest and emits the whole.  The  *)
(* engine repeats an execution that fails from its packet                  *)
(* (executor/retry.rs): what the attempt emitted, kept or wrote stays.     *)
(* Packets waiting for a node are taken in any order, as the durable queue *)
(* orders them by second and then by a random identifier.                  *)
(***************************************************************************)
EXTENDS Integers, Sequences, FiniteSets, SequencesExt

CONSTANTS
    Groups,       \* packets given to the split; their ids name the groups (ai.split_group)
    RowCounts,    \* rows a packet may have
    Ratios,       \* <<train, validation>>, in tenths
    Draws,        \* what the generator of one seed yields, in order
    ConcurrentTasks,  \* concurrent_tasks of the manifest node
    PartAttempts,  \* retry.maximum_attempts
    MaxProblems,  \* [split |-> emissions that fail, manifest |-> writes and emissions]
    Nobody        \* what a file is before its first write, and after a torn one

ASSUME DatasetExportAssumption ==
    /\ IsFiniteSet(Groups) /\ Nobody \notin Groups /\ RowCounts \subseteq Nat
    /\ Ratios \subseteq (0..10) \X (0..10)
    /\ \A d \in Draws, n \in RowCounts : \A k \in 1..(n - 1) : d[k] \in Nat
    /\ ConcurrentTasks \in Nat \ {0} /\ PartAttempts \in Nat \ {0}
    /\ MaxProblems \in [split : Nat, manifest : Nat]

VARIABLES
    split,       \* the split's shares, the draws of its seed and each packet's rows
    splitting,   \* each packet at the split: the part it emits next, its attempt
    parts,       \* each emission of the split: its rows, and where it is at the manifest node
    pending,     \* AiExportManifest.pending
    datasets,    \* the group that each file on disk is of
    succeeded,   \* groups whose dataset was emitted, in order
    problems     \* faults so far, by node

exportVars == <<split, splitting, parts, pending, datasets, succeeded, problems>>

SplitNames == <<"train", "validation", "test">>
Targets == SplitNames \o <<"manifest">>
Emissions == Groups \X Range(SplitNames) \X (1..PartAttempts)
Group(m) == m[1]

-----------------------------------------------------------------------------
(* ai_split_dataset.                                                        *)

\* Mistake: the generator keeps its state between executions.
Reshuffled(draws, total) ==
    LET swapped(order, k) ==
            LET i == total + 1 - k
                j == ((draws[k] + problems.split) % i) + 1
            IN [order EXCEPT ![i] = order[j], ![j] = order[i]]
    IN FoldLeft(swapped, [i \in 1..total |-> i], [k \in 1..(total - 1) |-> k])

\* fisher_yates_shuffle of the places 1..total: the k-th draw decides which row
\* goes to the k-th place from the end.
Shuffled(draws, total) ==
    LET swapped(order, k) ==
            LET i == total + 1 - k
                j == (draws[k] % i) + 1
            IN [order EXCEPT ![i] = order[j], ![j] = order[i]]
    IN FoldLeft(swapped, [i \in 1..total |-> i], [k \in 1..(total - 1) |-> k])

\* f64::round of a share given in tenths: a half goes up.
Share(total, tenths) == (2 * total * tenths + 10) \div 20

\* The rows of each part: `test` gets what the rounding leaves.
Cut(plan, total, name) ==
    LET Least(a, b) == IF a <= b THEN a ELSE b
        train_end == Share(total, plan.train)
        validation_end == train_end + Share(total, plan.validation)
        order == Shuffled(plan.draws, total)
    IN CASE name = "train" -> {order[i] : i \in 1..Least(train_end, total)}
         [] name = "validation" ->
              {order[i] : i \in Least(train_end, total) + 1..Least(validation_end, total)}
         [] name = "test" -> {order[i] : i \in Least(validation_end, total) + 1..total}

NotEmitted == [pc |-> "none", attempt |-> 1, step |-> 0, rows |-> {}]

ExportInit ==
    /\ split \in [train : {r[1] : r \in Ratios}, validation : {r[2] : r \in Ratios},
                  draws : Draws, rows : [Groups -> RowCounts]]
    /\ <<split.train, split.validation>> \in Ratios
    /\ splitting = [g \in Groups |-> [next |-> 1, attempt |-> 1]]
    /\ parts = [m \in Emissions |-> NotEmitted]
    /\ pending = [g \in Groups |-> {}]
    /\ datasets = [t \in Range(Targets) |-> Nobody]
    /\ succeeded = <<>>
    /\ problems = [split |-> 0, manifest |-> 0]

\* emit_split: a new packet, with the attributes of the one that was cut.
EmitsPart(g) ==
    LET name == SplitNames[splitting[g].next]
        m == <<g, name, splitting[g].attempt>>
    IN /\ splitting[g].next <= 3
       /\ splitting' = [splitting EXCEPT ![g].next = @ + 1]
       /\ parts' = [parts EXCEPT ![m] =
                       [NotEmitted EXCEPT !.pc = "queued", !.rows = Cut(split, split.rows[g], name)]]
       /\ UNCHANGED <<split, pending, datasets, succeeded, problems>>

\* No memory for the emission, or the timeout: from the first part again.
EmitPartFails(g) ==
    /\ splitting[g].next <= 3 /\ splitting[g].attempt < PartAttempts
    /\ problems.split < MaxProblems.split
    /\ problems' = [problems EXCEPT !.split = @ + 1]
    /\ splitting' = [splitting EXCEPT ![g] = [next |-> 1, attempt |-> @.attempt + 1]]
    /\ UNCHANGED <<split, parts, pending, datasets, succeeded>>

-----------------------------------------------------------------------------
(* ai_export_manifest.                                                      *)

PartsInHand == {m \in Emissions : parts[m].pc \in {"again", "writes"}}

\* Mistake: no permit is asked for.
PartStartsAtOnce(m) == parts[m].pc \in {"queued", "again"}

\* The scheduler gives the node a packet while it has a free permit.
PartStarts(m) ==
    \/ parts[m].pc = "queued" /\ Cardinality(PartsInHand) < ConcurrentTasks
    \/ parts[m].pc = "again"

\* Under the lock: the part joins its group; the third takes the group out.
Collects(m) ==
    LET kept == pending[Group(m)] \cup {m[2]}
        complete == kept = Range(SplitNames)
    IN /\ PartStarts(m)
       /\ pending' = [pending EXCEPT ![Group(m)] = IF complete THEN {} ELSE kept]
       /\ parts' = [parts EXCEPT ![m].pc = IF complete THEN "writes" ELSE "ended",
                                 ![m].step = 1]
       /\ UNCHANGED <<split, splitting, datasets, succeeded, problems>>

\* An attempt that failed: another of the same packet, or the end.
AfterPartError(m) ==
    parts' = [parts EXCEPT ![m] =
        IF @.attempt < PartAttempts
        THEN [@ EXCEPT !.pc = "again", !.attempt = parts[m].attempt + 1, !.step = 0]
        ELSE [@ EXCEPT !.pc = "failed"]]

\* fs::write of the next of the four files.
Writes(m) ==
    /\ parts[m].pc = "writes" /\ parts[m].step <= 4
    /\ datasets' = [datasets EXCEPT ![Targets[parts[m].step]] = Group(m)]
    /\ parts' = [parts EXCEPT ![m].step = @ + 1]
    /\ UNCHANGED <<split, splitting, pending, succeeded, problems>>

\* Bound: MaxProblems.
Stumbles(m) ==
    /\ problems.manifest < MaxProblems.manifest
    /\ problems' = [problems EXCEPT !.manifest = @ + 1]

\* It cannot be opened, or the write stops in the middle.
WriteFails(m) ==
    /\ parts[m].pc = "writes" /\ parts[m].step <= 4
    /\ Stumbles(m)
    /\ \/ datasets' = [datasets EXCEPT ![Targets[parts[m].step]] = Nobody]
       \/ UNCHANGED datasets
    /\ AfterPartError(m)
    /\ UNCHANGED <<split, splitting, pending, succeeded>>

Succeeds(m) ==
    /\ parts[m].pc = "writes" /\ parts[m].step = 5
    /\ succeeded' = Append(succeeded, Group(m))
    /\ parts' = [parts EXCEPT ![m].pc = "ended"]
    /\ UNCHANGED <<split, splitting, pending, datasets, problems>>

SuccessFails(m) ==
    /\ parts[m].pc = "writes" /\ parts[m].step = 5
    /\ Stumbles(m)
    /\ AfterPartError(m)
    /\ UNCHANGED <<split, splitting, pending, datasets, succeeded>>

ExportNext ==
    \/ \E g \in Groups : EmitsPart(g) \/ EmitPartFails(g)
    \/ \E m \in Emissions :
          Collects(m) \/ Writes(m) \/ WriteFails(m) \/ Succeeds(m) \/ SuccessFails(m)

ExportSpec == ExportInit /\ [][ExportNext]_exportVars

-----------------------------------------------------------------------------
(* Properties.                                                              *)

\* A row of the data is in one part of its dataset: not in two that different
\* attempts of the split emitted, and not left out (features.rs: the shuffle
\* starts from the seed at every execution).
RowsInOnePart ==
    \A g \in Groups :
        LET emitted == {m \in Emissions : Group(m) = g /\ parts[m].pc # "none"}
            all == UNION {parts[m].rows : m \in emitted}
        IN /\ \A m, n \in emitted : m[2] # n[2] => parts[m].rows \cap parts[n].rows = {}
           /\ splitting[g].next = 4 => all = 1..split.rows[g]

\* "Emite solo splits no vacíos" (features.rs:382): a part without rows is not
\* emitted.  The code emits the three of them, whatever is in each.
PartsHaveRows == \A m \in Emissions : parts[m].pc # "none" => parts[m].rows # {}

\* "Este emite success una sola vez" (docs/ai-data-prep.md:91): however often
\* the engine repeats the split or the node itself after an error, a dataset is
\* handed on once.  It is of one run of the process: one that was killed starts
\* again from the rows of its queue, without what `pending` held.
SuccessOnce == IsInjective(succeeded)

\* "... cuando los tres CSV y el manifest ya existen": with one task at a time,
\* what is on disk when a dataset is handed on is that dataset, whole.
SuccessIsWhole ==
    [][succeeded' # succeeded =>
         \A t \in Range(Targets) : datasets[t] = Last(succeeded')]_exportVars

\* Once every part of a group was processed without a failure, its dataset was
\* handed on.
SuccessMeansWritten ==
    \A g \in Groups :
        (/\ splitting[g].next = 4
         /\ \A m \in Emissions : Group(m) = g => parts[m].pc \in {"none", "ended"})
          => \E i \in DOMAIN succeeded : succeeded[i] = g

\* So it is while nothing fails in the manifest node, however often the split
\* is repeated (export_manifest.rs: a part that comes again replaces itself).
RepeatedPartsAreWritten == problems.manifest = 0 => SuccessMeansWritten

\* Every row of every dataset is handed on, once.
DatasetsArrive == RowsInOnePart /\ SuccessOnce /\ RepeatedPartsAreWritten
=============================================================================
