----------------------------- MODULE Expressions -----------------------------
(***************************************************************************)
(* The expressions of ai_compute_fields (ai_prep/support.rs): a recursive  *)
(* descent over the tokens that computes as it reads, in multiples of      *)
(* 1/Unit.  The text's characters are left out: an expression is a         *)
(* sequence of tokens <<"number", n>>, <<"field", name>>, <<"+">>, <<"-">>,*)
(* <<"*">>, <<"/">>, <<"(">>, <<")">>.                                     *)
(***************************************************************************)
EXTENDS Values, Sequences

\* What a method of Parser returns: Ok of a value, having read up to `next`,
\* or Err.
Ok(value, next) == [ok |-> TRUE, value |-> value, next |-> next]
Err == [ok |-> FALSE, value |-> 0, next |-> 0]

Peeks(tokens, i, symbol) == i \in DOMAIN tokens /\ tokens[i] = <<symbol>>

Times(a, b) == (a * b) \div Unit
Over(a, b) == (a * Unit) \div b

\* `fields` gives the record's numeric fields.
RECURSIVE Expr(_, _, _), Sum(_, _, _), Term(_, _, _), Product(_, _, _),
          Unary(_, _, _)

Primary(tokens, i, fields) ==
    IF i \notin DOMAIN tokens THEN Err
    ELSE LET token == tokens[i] IN
      CASE token[1] = "number" -> Ok(token[2] * Unit, i + 1)
        [] token[1] = "field" /\ token[2] \in DOMAIN fields -> Ok(fields[token[2]], i + 1)
        [] token[1] = "(" ->
             LET inner == Expr(tokens, i + 1, fields) IN
             IF inner.ok /\ Peeks(tokens, inner.next, ")")
             THEN Ok(inner.value, inner.next + 1) ELSE Err
        [] OTHER -> Err

Unary(tokens, i, fields) ==
    IF Peeks(tokens, i, "-")
    THEN LET operand == Unary(tokens, i + 1, fields) IN
         IF operand.ok THEN Ok(-operand.value, operand.next) ELSE Err
    ELSE IF Peeks(tokens, i, "+") THEN Unary(tokens, i + 1, fields)
    ELSE Primary(tokens, i, fields)

\* The loop of parse_term, after `left`.
Product(tokens, left, fields) ==
    LET right == Unary(tokens, left.next + 1, fields) IN
    CASE ~left.ok -> Err
      [] left.ok /\ Peeks(tokens, left.next, "*") ->
           IF right.ok THEN Product(tokens, Ok(Times(left.value, right.value), right.next), fields)
           ELSE Err
      [] left.ok /\ Peeks(tokens, left.next, "/") ->
           IF right.ok /\ right.value # 0
           THEN Product(tokens, Ok(Over(left.value, right.value), right.next), fields)
           ELSE Err
      [] OTHER -> left

\* Mistake: the right side is read as a whole term, `a / b * c` computed as
\* `a / (b * c)`.
TermRightToLeft(tokens, i, fields) ==
    LET left == Unary(tokens, i, fields)
        right == Term(tokens, left.next + 1, fields)
    IN IF left.ok /\ Peeks(tokens, left.next, "/")
       THEN IF right.ok /\ right.value # 0 THEN Ok(Over(left.value, right.value), right.next)
            ELSE Err
       ELSE Product(tokens, left, fields)

Term(tokens, i, fields) == Product(tokens, Unary(tokens, i, fields), fields)

Sum(tokens, left, fields) ==
    LET right == Term(tokens, left.next + 1, fields) IN
    CASE ~left.ok -> Err
      [] left.ok /\ Peeks(tokens, left.next, "+") ->
           IF right.ok THEN Sum(tokens, Ok(left.value + right.value, right.next), fields) ELSE Err
      [] left.ok /\ Peeks(tokens, left.next, "-") ->
           IF right.ok THEN Sum(tokens, Ok(left.value - right.value, right.next), fields) ELSE Err
      [] OTHER -> left

Expr(tokens, i, fields) == Sum(tokens, Term(tokens, i, fields), fields)

\* eval_expr: every token must have been read.
Evaluated(tokens, fields) ==
    LET result == Expr(tokens, 1, fields) IN
    IF result.ok /\ result.next = Len(tokens) + 1 THEN result ELSE Err

-----------------------------------------------------------------------------
(* What an expression means, by its tree: <<"number", n>>, <<"field",      *)
(* name>>, <<"negative", tree>> or <<operator, left, right>>.               *)

Binary == {"+", "-", "*", "/"}
Strength(tree) == IF tree[1] \in {"+", "-"} THEN 1 ELSE IF tree[1] \in {"*", "/"} THEN 2 ELSE 3

RECURSIVE Meaning(_, _), Written(_)
Meaning(tree, fields) ==
    CASE tree[1] = "number" -> Ok(tree[2] * Unit, 0)
      [] tree[1] = "field" -> IF tree[2] \in DOMAIN fields THEN Ok(fields[tree[2]], 0) ELSE Err
      [] tree[1] = "negative" ->
           LET operand == Meaning(tree[2], fields)
           IN IF operand.ok THEN Ok(-operand.value, 0) ELSE Err
      [] OTHER ->
           LET left == Meaning(tree[2], fields)
               right == Meaning(tree[3], fields)
           IN IF ~left.ok \/ ~right.ok \/ (tree[1] = "/" /\ right.value = 0) THEN Err
              ELSE Ok(CASE tree[1] = "+" -> left.value + right.value
                        [] tree[1] = "-" -> left.value - right.value
                        [] tree[1] = "*" -> Times(left.value, right.value)
                        [] tree[1] = "/" -> Over(left.value, right.value), 0)

\* Its tokens, with the parentheses that its reader needs and no other.
Guarded(tree, strength) ==
    IF Strength(tree) < strength THEN <<<<"(">>>> \o Written(tree) \o <<<<")">>>> ELSE Written(tree)
Written(tree) ==
    CASE tree[1] \in {"number", "field"} -> <<tree>>
      [] tree[1] = "negative" -> <<<<"-">>>> \o Guarded(tree[2], 3)
      [] OTHER -> Guarded(tree[2], Strength(tree)) \o <<<<tree[1]>>>>
                    \o Guarded(tree[3], Strength(tree) + 1)
=============================================================================
