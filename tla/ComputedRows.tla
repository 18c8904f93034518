---------------------------- MODULE ComputedRows ----------------------------
(***************************************************************************)
(* RowPrep with the expressions of ai_compute_fields, as Expressions reads *)
(* and evaluates them.                                                     *)
(***************************************************************************)
EXTENDS RowPrep, Expressions

\* What RowPrep's Evaluates is: the text of the tree, read and computed.
Evaluation(tree, fields) == Evaluated(Written(tree), fields)

\* ai_compute_fields computes what its expression means (support.rs): operators
\* of one strength from left to right, products before sums, parentheses first,
\* and a row whose expression has no value is dropped.
ComputedAsMeant ==
    \A p \in delivered : node.kind = "compute" =>
        LET meaning(r) == Meaning(node.tree, IF HasNumber(r.value)
                                             THEN [value |-> NumberOf(r.value)] ELSE <<>>)
            good == SelectSeq(input[p], LAMBDA r : meaning(r).ok)
        IN task[p].rows = [i \in DOMAIN good |->
                             Valued(good[i], <<"number", meaning(good[i]).value>>)]

\* What a node writes into a row is what its configuration means.
ValuesAreRight == NumbersMakeSense /\ ComputedAsMeant
=============================================================================
