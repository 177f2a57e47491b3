--------------------------- MODULE MC_ParamSubst ---------------------------
(* Model-checking instances of ParamSubst: prepared texts over a small     *)
(* token alphabet and parameter lists over a small set of bound values.    *)
EXTENDS ParamSubst, TLC

(* The texts of length 1..n over the tokens in A. *)
TextsUpTo(A, n) == UNION {[1..m -> A] : m \in 1..n}

(* The lists of length 0..n over the values in V. *)
ListsUpTo(V, n) == UNION {[1..m -> V] : m \in 0..n}

Text(s) == [kind |-> "text", text |-> s]

(* One bound value of every shape parameter_to_string distinguishes: text, *)
(* NULL text, a number, NULL number, a boolean, a special float, a value   *)
(* that does not decode as its declared type, and an unsupported type.     *)
MCValues ==
    { [type |-> "TEXT", value |-> Text(<<"x">>)],
      [type |-> "VARCHAR", value |-> [kind |-> "null"]],
      [type |-> "INT4", value |-> [kind |-> "int", n |-> 2]],
      [type |-> "INT8", value |-> [kind |-> "null"]],
      [type |-> "BOOL", value |-> [kind |-> "bool", b |-> TRUE]],
      [type |-> "FLOAT8", value |-> [kind |-> "nonfinite", name |-> "NaN"]],
      [type |-> "TEXT", value |-> [kind |-> "int", n |-> 1]],
      [type |-> "OTHER", value |-> Text(<<"x">>)] }

MCQueries == TextsUpTo({"$", "1", "2", "x"}, 4)
MCParamLists == ListsUpTo(MCValues, 2)

(* Ten integer parameters, the fewest for a "$10" placeholder; the texts  *)
(* are one placeholder of up to two digits.                                *)
MCQueriesTen == {<<"$">> \o t : t \in TextsUpTo({"1", "0"}, 2)}
MCParamListsTen == {[k \in 1..10 |-> [type |-> "INT4", value |-> [kind |-> "int", n |-> k + 1]]]}

(* A text value holding a quote. *)
MCQueriesQuote == TextsUpTo({"$", "1", "x"}, 2)
MCParamListsQuote == {<<[type |-> "TEXT", value |-> Text(<<"x", "'">>)]>>}
=============================================================================
