------------------------------ MODULE ParamSubst ------------------------------
(***************************************************************************)
(* The extended-flow execute of src/nexus/server/src/main.rs:              *)
(* ExtendedQueryHandler::do_query rewrites the prepared statement's text   *)
(* by replacing "$1", "$2", ... in turn with parameter_to_string of the    *)
(* bound values, and hands the result to the simple-flow parser.  A text   *)
(* is a sequence of tokens: "$", the digits, a quote, a letter standing    *)
(* for any other character, and the words Rust's to_string produces for   *)
(* booleans and special floats.  A bound value is a typed record; whether  *)
(* portal.parameter::<T> decodes it is whether its kind is T's kind.       *)
(* This module is checked by TLC only: its recursive operators keep it     *)
(* out of the proofs.                                                      *)
(***************************************************************************)
EXTENDS Integers, Sequences

CONSTANTS
    Queries,     \* prepared statement texts clients send
    ParamLists   \* bound parameter lists (portal parameters, in order)

DigitChars == {"0", "1", "2", "3", "4", "5", "6", "7", "8", "9"}
DecimalDigit == <<"0", "1", "2", "3", "4", "5", "6", "7", "8", "9">>

Tokens == DigitChars \cup {"$", "'", "-", "x", "true", "false", "NaN", "inf", "NULL"}

(* The declared parameter types do_query meets; "OTHER" is any type        *)
(* parameter_to_string has no arm for.                                     *)
PgTypes == {"TEXT", "VARCHAR", "BOOL", "INT4", "INT8", "FLOAT4", "FLOAT8", "OTHER"}

(* The values portal.parameter::<T> decodes for each supported type.      *)
DecodeKinds == [t \in PgTypes \ {"OTHER"} |->
                  CASE t \in {"TEXT", "VARCHAR"} -> {"text"}
                    [] t = "BOOL"                -> {"bool"}
                    [] t \in {"INT4", "INT8"}    -> {"int"}
                    [] OTHER                     -> {"float", "nonfinite"}]

Value ==
         [kind : {"text"}, text : Seq(Tokens)]
    \cup [kind : {"bool"}, b : BOOLEAN]
    \cup [kind : {"int"}, n : Int]
    \cup [kind : {"float"}, f : Int]
    \cup [kind : {"nonfinite"}, name : {"NaN", "inf", "-inf"}]
    \cup [kind : {"null"}]

Param == [type : PgTypes, value : Value]

ASSUME ParamSubstAssumption ==
    /\ Queries \subseteq Seq(Tokens)
    /\ \A ps \in ParamLists : ps \in Seq(Param)

Err == "unsupported_parameter_value"

-----------------------------------------------------------------------------
(* format!("{}", n) for an integer. *)
Decimal[n \in Nat] ==
    IF n < 10 THEN <<DecimalDigit[n + 1]>>
    ELSE Decimal[n \div 10] \o <<DecimalDigit[(n % 10) + 1]>>

IntToString(n) == IF n < 0 THEN <<"-">> \o Decimal[-n] ELSE Decimal[n]

(* v.to_string() of a decoded bool, integer or float; an integral float    *)
(* prints without a fraction, the special floats as NaN, inf and -inf.     *)
ValueToString(v) ==
    CASE v.kind = "bool"                         -> IF v.b THEN <<"true">> ELSE <<"false">>
      [] v.kind = "int"                          -> IntToString(v.n)
      [] v.kind = "float"                        -> IntToString(v.f)
      [] v.kind = "nonfinite" /\ v.name = "-inf" -> <<"-", "inf">>
      [] OTHER                                   -> <<v.name>>

(* portal.parameter::<T>(idx)? succeeds: the bytes decode as T or are NULL. *)
Decodes(p) == p.type # "OTHER" /\ p.value.kind \in {"null"} \cup DecodeKinds[p.type]

(* parameter_to_string: text is quoted as it is, NULL text becomes '',    *)
(* any other NULL the empty string; an unsupported type or a value that   *)
(* does not decode is an error.                                           *)
ParameterToString(p) ==
    CASE ~Decodes(p)                                  -> Err
      [] p.type \in {"TEXT", "VARCHAR"} /\ p.value.kind = "null" -> <<"'", "'">>
      [] p.type \in {"TEXT", "VARCHAR"}               -> <<"'">> \o p.value.text \o <<"'">>
      [] p.value.kind = "null"                        -> <<>>
      [] OTHER                                        -> ValueToString(p.value)

(* format!("${}", n) *)
Placeholder(n) == <<"$">> \o Decimal[n]

(* str::replace(from, to): every non-overlapping occurrence of `from`,     *)
(* scanning left to right, replaced by `to`; the replacement text is not   *)
(* scanned again.                                                          *)
RECURSIVE StrReplace(_, _, _)
StrReplace(s, from, to) ==
    IF Len(s) < Len(from) THEN s
    ELSE IF SubSeq(s, 1, Len(from)) = from
         THEN to \o StrReplace(SubSeq(s, Len(from) + 1, Len(s)), from, to)
         ELSE <<Head(s)>> \o StrReplace(Tail(s), from, to)

-----------------------------------------------------------------------------
(* The reference the spec states (4.4 and 8): each placeholder token, a    *)
(* "$" and the whole run of digits after it, is replaced in one pass by    *)
(* the SQL literal of the parameter it numbers.                            *)

(* The number of digits at positions j, j+1, ... of s. *)
DigitRun(s, j) ==
    CHOOSE k \in 0..Len(s) :
        /\ \A m \in j..(j + k - 1) : m <= Len(s) /\ s[m] \in DigitChars
        /\ ~(j + k <= Len(s) /\ s[j + k] \in DigitChars)

RECURSIVE NumberOf(_)
NumberOf(ds) ==
    IF ds = <<>> THEN 0
    ELSE 10 * NumberOf(SubSeq(ds, 1, Len(ds) - 1))
           + (CHOOSE d \in 0..9 : DecimalDigit[d + 1] = ds[Len(ds)])

RECURSIVE OnePass(_, _)
OnePass(s, lits) ==
    IF s = <<>> THEN <<>>
    ELSE LET k == DigitRun(s, 2)
             n == NumberOf(SubSeq(s, 2, k + 1))
         IN IF s[1] = "$" /\ k > 0 /\ n \in 1..Len(lits)
            THEN lits[n] \o OnePass(SubSeq(s, k + 2, Len(s)), lits)
            ELSE <<s[1]>> \o OnePass(Tail(s), lits)

(* A string literal doubles its quotes. *)
RECURSIVE Escape(_)
Escape(t) ==
    IF t = <<>> THEN <<>>
    ELSE (IF Head(t) = "'" THEN <<"'", "'">> ELSE <<Head(t)>>) \o Escape(Tail(t))

SqlLiteral(p) ==
    CASE ~Decodes(p)                     -> Err
      [] p.value.kind = "null"           -> <<"NULL">>
      [] p.value.kind = "text"           -> <<"'">> \o Escape(p.value.text) \o <<"'">>
      [] p.value.kind = "nonfinite"      -> <<"'">> \o ValueToString(p.value) \o <<"'">>
      [] OTHER                           -> ValueToString(p.value)

(* What executing the portal sends to the parser: the error, or the text   *)
(* with every placeholder replaced by render(k) of the k-th parameter.     *)
Substituted(q, ps, Render(_)) ==
    IF \E k \in DOMAIN ps : Render(ps[k]) = Err THEN Err
    ELSE OnePass(q, [k \in DOMAIN ps |-> Render(ps[k])])

-----------------------------------------------------------------------------
VARIABLES
    query,    \* stmt.query, the prepared text
    params,   \* the portal's bound parameters
    sql,      \* the `sql` being rewritten
    i,        \* the loop index
    outcome   \* "running", "done" (handed to parse_simple_sql) or "error"

vars == <<query, params, sql, i, outcome>>

TypeOK ==
    /\ query \in Seq(Tokens)
    /\ params \in Seq(Param)
    /\ sql \in Seq(Tokens)
    /\ i \in 0..Len(params)
    /\ outcome \in {"running", "done", "error"}

(* do_query: `let mut sql = stmt.query.clone()`. *)
Init ==
    /\ query \in Queries
    /\ params \in ParamLists
    /\ sql = query
    /\ i = 0
    /\ outcome = "running"

(* Mutant: the placeholder of iteration i is written format!("${}", i).    *)
SubstituteParamFromZero ==
    /\ outcome = "running"
    /\ i < Len(params)
    /\ ParameterToString(params[i + 1]) # Err
    /\ sql' = IF i = 0 THEN sql
              ELSE StrReplace(sql, Placeholder(i), ParameterToString(params[i + 1]))
    /\ i' = i + 1
    /\ UNCHANGED <<query, params, outcome>>

(* Mutant: the loop runs over 0..=parameter_len(), and the unwrap of the   *)
(* parameter type at the index past the end panics.                        *)
SubstituteParamPastEnd ==
    /\ outcome = "running"
    /\ i <= Len(params)
    /\ \/ /\ i = Len(params)
          /\ outcome' = "panicked"
          /\ UNCHANGED <<query, params, sql, i>>
       \/ /\ i < Len(params)
          /\ ParameterToString(params[i + 1]) # Err
          /\ sql' = StrReplace(sql, Placeholder(i + 1), ParameterToString(params[i + 1]))
          /\ i' = i + 1
          /\ UNCHANGED <<query, params, outcome>>

(* One iteration of the loop whose parameter renders. *)
SubstituteParam ==
    /\ outcome = "running"
    /\ i < Len(params)
    /\ ParameterToString(params[i + 1]) # Err
    /\ sql' = StrReplace(sql, Placeholder(i + 1), ParameterToString(params[i + 1]))
    /\ i' = i + 1
    /\ UNCHANGED <<query, params, outcome>>

(* The `?` on parameter_to_string: the request fails, nothing is run. *)
RejectParam ==
    /\ outcome = "running"
    /\ i < Len(params)
    /\ ParameterToString(params[i + 1]) = Err
    /\ outcome' = "error"
    /\ UNCHANGED <<query, params, sql, i>>

(* The loop ends and the text goes to parse_simple_sql and handle_query. *)
Finish ==
    /\ outcome = "running"
    /\ i = Len(params)
    /\ outcome' = "done"
    /\ UNCHANGED <<query, params, sql, i>>

Next == SubstituteParam \/ RejectParam \/ Finish

Spec == Init /\ [][Next]_vars

-----------------------------------------------------------------------------
(* What the request produced: the error, or the text that is run. *)
Result == IF outcome = "error" THEN Err ELSE sql

(* The substitution loop does what a one-pass substitution of the code's   *)
(* own renderings would do, on prepared texts in which every "$" opens a   *)
(* placeholder of one digit from 1 to 9, and bound values whose rendering  *)
(* holds no "$":                                                           *)
(* every "$k" is replaced by the k-th value, and any parameter that does   *)
(* not render fails the request.                                           *)
Canonical(q) ==
    \A j \in 1..Len(q) : q[j] = "$" =>
        /\ DigitRun(q, j + 1) = 1
        /\ q[j + 1] # "0"

NoDollarRendered(ps) ==
    \A k \in DOMAIN ps : ParameterToString(ps[k]) # Err =>
        \A j \in DOMAIN ParameterToString(ps[k]) : ParameterToString(ps[k])[j] # "$"

SubstitutionSound ==
    outcome # "running" /\ Canonical(query) /\ NoDollarRendered(params)
        => Result = Substituted(query, params, ParameterToString)

(* Spec 4.4 and 8: executing a portal is the simple query with the bound   *)
(* values written in as SQL literals, for every prepared text and value.   *)
ExtendedMatchesSimple ==
    outcome # "running" => Result = Substituted(query, params, SqlLiteral)
=============================================================================
