------------------------------ MODULE MCProcess ------------------------------
(***************************************************************************)
(* A process that is alone with what it keeps.  A behaviour runs one of    *)
(* three parts and leaves the others where they start: the repository of   *)
(* its flow, the process crashing anywhere; a node that prepares rows; and *)
(* the export of two datasets.                                             *)
(***************************************************************************)
EXTENDS PacketRepository, ComputedRows, DatasetExport

CONSTANTS e1, f1

VARIABLE part

MCFlowOf == [e \in {e1} |-> f1]

N(n) == <<"number", n * Unit>>
Row(k, v) == [key |-> k, value |-> v]
Node(kind) == [kind |-> kind, concurrent_tasks |-> 2, on_error |-> "drop", cumulative |-> FALSE]

Numbers3 == {<<"absent">>, N(1), N(2), N(4)}
Columns == {<<Row("a", v), Row("b", w)>> : v, w \in Numbers3}
Keyed == {<<>>} \cup {<<Row(k, N(1))>> : k \in {"a", "b", "c"}}
        \cup {<<Row(k, N(1)), Row(l, N(1))>> : k, l \in {"a", "b", "c"}}
Spread == {[i \in 1..5 |-> Row("a", IF i \in outliers THEN N(40) ELSE N(i))] : outliers \in SUBSET (1..5)}
           \cup {<<Row("a", N(1)), Row("b", N(9))>>}
Mixed == {<<>>} \cup {<<Row("a", v), Row("b", N(2))>> : v \in {<<"absent">>, <<"null">>, <<"blank">>,
            <<"word", 1>>, <<"digits", Unit>>, <<"flag", 1>>, <<"scalar">>}}

Leaves == {<<"number", 2>>, <<"field", "value">>}
Simple == Leaves \cup {<<"negative", leaf>> : leaf \in Leaves} \cup {<<op, l, r>> : op \in Binary, l, r \in Leaves}
Trees == Simple \cup {<<op, l, r>> : op \in Binary, l \in Simple, r \in Leaves}
                \cup {<<op, l, r>> : op \in Binary, l \in Leaves, r \in Simple}
                \cup {<<"negative", t>> : t \in Simple}

Case(node_, batches_) == [node |-> node_, batches |-> batches_]
MCCases ==
    {Case(Node("dedupe") @@ [window |-> w], Keyed) : w \in 0..2}
    \cup {Case([Node("normalize") EXCEPT !.cumulative = c], Columns) : c \in BOOLEAN}
    \cup {Case([Node("fill") EXCEPT !.cumulative = c] @@ [strategy |-> s, constant |-> N(7)], Columns)
            : c \in BOOLEAN, s \in {"previous", "constant", "mean", "median"}}
    \cup {Case(Node("filter") @@ [mode |-> m, low |-> {0}, high |-> {5 * Unit}], Spread) : m \in {"min_max", "iqr"}}
    \cup {Case([Node("cast") EXCEPT !.on_error = e] @@ [to |-> t], Mixed)
            : e \in {"drop", "fail"}, t \in {"number", "string", "bool", "timestamp"}}
    \cup {Case([Node("encode") EXCEPT !.on_error = e] @@ [mapping |-> <<3>>], Mixed) : e \in {"drop", "fail"}}
    \cup {Case(Node(k), Mixed) : k \in {"select", "drop_nulls"}}
    \cup {Case(Node("lookup") @@ [table |-> t], Mixed)
            : t \in {<<Row("a", N(1)), Row("a", N(2))>>, <<Row("none", N(1))>>}}
    \cup {Case(Node("compute") @@ [tree |-> t], {<<Row("a", N(4)), Row("b", <<"word", 1>>)>>}) : t \in Trees}

MCRatios == {<<7, 2>>, <<5, 5>>, <<0, 10>>}
MCDraws == {<<0, 0>>, <<2, 1>>, <<1, 0>>}
MCProblems == [split |-> 1, manifest |-> 1]

Plain == [train |-> 7, validation |-> 2, draws |-> <<0, 0>>, rows |-> [g \in Groups |-> 3]]

\* The packets of an export are of one size, and their draws matter only when
\* they have rows to swap.
Exported ==
  /\ \A g, h \in Groups : split.rows[g] = split.rows[h]
  /\ split.rows[CHOOSE g \in Groups : TRUE] < 3 => split.draws = <<0, 0>>

InitOf(these) ==
  /\ part \in these
  /\ Init
  /\ part # "rows" => node = Node("select") /\ input = [p \in Packets |-> <<>>]
  /\ RowInit
  /\ part # "export" => split = Plain
  /\ ExportInit
  /\ part = "export" => Exported

ProcessNext ==
  \/ part = "repository" /\ Next /\ UNCHANGED <<part, nodeVars, exportVars>>
  \/ part = "rows" /\ RowNext /\ UNCHANGED <<part, vars, exportVars>>
  \/ part = "export" /\ ExportNext /\ UNCHANGED <<part, vars, nodeVars>>

processVars == <<part, vars, nodeVars, exportVars>>

ProcessSpec == InitOf({"repository", "rows", "export"}) /\ [][ProcessNext]_processVars
PrepSpec == InitOf({"rows", "export"}) /\ [][ProcessNext]_processVars

=============================================================================
