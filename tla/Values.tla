-------------------------------- MODULE Values --------------------------------
(***************************************************************************)
(* The values of the data preparation toolkit (processors/ai_prep):        *)
(* <<"absent">>, <<"null">>, <<"blank">>, <<"word", w>> (a text that is no *)
(* number and does not read as true), <<"digits", n>> (a text that is a    *)
(* number), <<"number", n>> or <<"flag", 0 or 1>>; <<"scalar">> stands for *)
(* a record that is no object.  Numbers are counted in 1/Unit.             *)
(***************************************************************************)
EXTENDS Integers

CONSTANT Unit    \* fractions of one that a number is counted in

ASSUME ValuesAssumption == Unit \in Nat \ {0}

Numeric(v) == v[1] \in {"digits", "number"}
HasNumber(v) == Numeric(v) \/ v[1] = "flag"
NumberOf(v) == IF v[1] = "flag" THEN v[2] * Unit ELSE v[2]
Missing(v) == v[1] \in {"absent", "null", "blank"}
===============================================================================
