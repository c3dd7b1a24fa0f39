------------------------------ MODULE Condition ------------------------------
(***************************************************************************)
(* The conditions of filter.condition, filter.route and validate.rules     *)
(* (internal/condition/condition.go): Parse and Evaluate.                  *)
(*                                                                         *)
(* An expression is a sequence of tokens, its text being the tokens with   *)
(* one space between them: words, operators, parentheses and quotation     *)
(* marks.  (A mark with a backslash before it, or of the other kind than   *)
(* the one that opened the quotation, is a word.)  A value is a sequence   *)
(* of tokens; those of the operator "in" come with commas.                 *)
(***************************************************************************)
EXTENDS EventFields

CONSTANTS Fields,    \* the path of every word that names a field
          Finds      \* <<how, text, value>>: the value is in the text as a
                     \*   match, a prefix, a suffix or anywhere

Quote == "\""

(* The result of Parse: a ComparisonCondition has a field and a value, the *)
(* others have operands.                                                   *)
Comparison(op, field, value) ==
    [op |-> op, field |-> field, value |-> value, args |-> <<>>]
Connective(op, args) == [op |-> op, field |-> <<>>, value |-> <<>>, args |-> args]
Malformed == Connective("malformed", <<>>)

\* Both lists of operators, in the order they are looked for.
Operators ==
    <<<<"!~", "notmatch">>, <<"=~", "match">>, <<"!=", "ne">>, <<"<=", "lte">>,
      <<">=", "gte">>, <<"<", "lt">>, <<">", "gt">>, <<"==", "eq">>, <<"=", "eq">>,
      <<"contains", "contains">>, <<"startswith", "startswith">>,
      <<"endswith", "endswith">>, <<"in", "in">>>>

-----------------------------------------------------------------------------
(* Parse                                                                   *)

Number(s, i, token) == Cardinality({j \in 1 .. i : s[j] = token})

\* updateQuoteState: a quotation is open after i tokens.
InQuote(s, i) == Number(s, i, Quote) % 2 = 1

\* The parentheses outside quotations that i tokens open, less those they
\* close.
Balance(s, i) ==
    LET plain(token) == {j \in 1 .. i : s[j] = token /\ ~InQuote(s, j)}
    IN  Cardinality(plain("(")) - Cardinality(plain(")"))

\* The depth after i tokens is 0; it does not go below.
Outside(s, i) == \A j \in 0 .. i : Balance(s, i) <= Balance(s, j)

\* The separators splitOutsideParens finds: neither the first nor the last
\* token, nor right after another one it takes, since it takes the spaces too.
Cuts(s, sep) ==
    LET there == {i \in 2 .. Len(s) - 1 : s[i] = sep /\ ~InQuote(s, i) /\ Outside(s, i)}
        before(i) == Max({j \in 0 .. i : j \notin there})
    IN  {i \in there : (i - before(i)) % 2 = 1}

\* splitOutsideParens
SplitOutsideParens(s, sep) ==
    LET ends == SetToSortSeq(Cuts(s, sep) \cup {Len(s) + 1}, <)
        start(i) == IF i = 1 THEN 1 ELSE ends[i - 1] + 1
    IN  [i \in DOMAIN ends |-> SubSeq(s, start(i), ends[i] - 1)]

\* stripOuterParens: the first and the last token are a pair; quotations are
\* not looked at.
Outer(s) ==
    LET level(i) == Number(s, i, "(") - Number(s, i, ")")
    IN  /\ Len(s) >= 2 /\ s[1] = "(" /\ s[Len(s)] = ")"
        /\ level(Len(s)) = 0
        /\ \A i \in 1 .. Len(s) - 1 : s[i] = ")" => level(i) # 0

Inner(s) == SubSeq(s, 2, Len(s) - 1)

\* unquoteValue
Unquote(v) ==
    IF Len(v) >= 2 /\ v[1] = Quote /\ v[Len(v)] = Quote THEN Inner(v) ELSE v

\* findOperatorOutsideQuotes: where the operator stands, with something
\* before and after it.
Found(s, op) == {i \in 2 .. Len(s) - 1 : s[i] = op /\ ~InQuote(s, i)}

\* parseComparisonCondition: the first operator of the list that is there,
\* at its first place.  (Patterns that do not compile are left out.)
ParseComparison(s) ==
    LET there == {k \in DOMAIN Operators : Found(s, Operators[k][1]) # {}}
        k == Min(there)
        i == Min(Found(s, Operators[k][1]))
    IN  IF there = {}
        THEN Malformed
        ELSE Comparison(Operators[k][2], SubSeq(s, 1, i - 1),
                        Unquote(SubSeq(s, i + 1, Len(s))))

RECURSIVE Parse(_)
RECURSIVE ParseUnary(_)

\* A list of operands is malformed if one of them is.
ParseAll(op, parts) ==
    LET args == [i \in DOMAIN parts |-> Parse(parts[i])]
    IN  IF Malformed \in Range(args) THEN Malformed ELSE Connective(op, args)

\* Fault in Parse: AND is split off before OR.
ParseAndFirst(s) ==
    CASE s = <<>> -> Malformed
      [] s # <<>> /\ Cuts(s, "AND") # {} -> ParseAll("and", SplitOutsideParens(s, "AND"))
      [] s # <<>> /\ Cuts(s, "AND") = {} /\ Cuts(s, "OR") # {} ->
            ParseAll("or", SplitOutsideParens(s, "OR"))
      [] OTHER -> ParseUnary(s)

\* Parse
Parse(s) ==
    CASE s = <<>> -> Malformed
      [] s # <<>> /\ Cuts(s, "OR") # {} -> ParseAll("or", SplitOutsideParens(s, "OR"))
      [] s # <<>> /\ Cuts(s, "OR") = {} /\ Cuts(s, "AND") # {} ->
            ParseAll("and", SplitOutsideParens(s, "AND"))
      [] OTHER -> ParseUnary(s)

\* parseUnary
ParseUnary(s) ==
    CASE s[1] = "NOT" /\ Len(s) > 1 ->
            (LET operand == ParseUnary(Tail(s))
             IN  IF operand = Malformed THEN Malformed ELSE Connective("not", <<operand>>))
      [] ~(s[1] = "NOT" /\ Len(s) > 1) /\ Outer(s) -> Parse(Inner(s))
      [] OTHER -> ParseComparison(s)

-----------------------------------------------------------------------------
(* Evaluate: "true", "false", or "error"                                   *)

Answer(b) == IF b THEN "true" ELSE "false"

\* compareNumbers
CompareNumbers(op, text, value) ==
    IF text \in DOMAIN Numbers /\ Len(value) = 1 /\ value[1] \in DOMAIN Numbers
    THEN LET a == Numbers[text]
             b == Numbers[value[1]]
         IN  Answer(CASE op = "lt" -> a < b
                      [] op = "lte" -> a <= b
                      [] op = "gt" -> a > b
                      [] op = "gte" -> a >= b)
    ELSE "error"

\* ComparisonCondition.Evaluate
EvaluateComparison(c, t) ==
    LET named == Len(c.field) = 1 /\ c.field[1] \in DOMAIN Fields
        path == Fields[c.field[1]]
        text == TextOf(t[NodeOf(path)])
    IN  IF ~(named /\ HasField(t, path))
        THEN Answer(c.op \in {"ne", "notmatch"})
        ELSE CASE c.op = "eq" -> Answer(<<text>> = c.value)
               [] c.op = "ne" -> Answer(<<text>> # c.value)
               [] c.op \in {"lt", "lte", "gt", "gte"} -> CompareNumbers(c.op, text, c.value)
               [] c.op \in {"match", "contains", "startswith", "endswith"} ->
                     Answer(<<c.op, text, c.value>> \in Finds)
               [] c.op = "notmatch" -> Answer(<<"match", text, c.value>> \notin Finds)
               [] c.op = "in" -> Answer(text \in Range(c.value))

RECURSIVE Evaluate(_, _)

\* The operands in order, up to the first that is not `more'.
EvaluateUntil(args, t, more) ==
    LET answer == [i \in DOMAIN args |-> Evaluate(args[i], t)]
        stop == {i \in DOMAIN args : answer[i] # more}
    IN  IF stop = {} THEN more ELSE answer[Min(stop)]

\* Evaluate of all four kinds of conditions.
Evaluate(c, t) ==
    CASE c.op = "and" -> EvaluateUntil(c.args, t, "true")
      [] c.op = "or" -> EvaluateUntil(c.args, t, "false")
      [] c.op = "not" ->
            (LET answer == Evaluate(c.args[1], t)
             IN  IF answer = "error" THEN "error" ELSE Answer(answer = "false"))
      [] OTHER -> EvaluateComparison(c, t)

-----------------------------------------------------------------------------
(* What an expression is meant to say                                      *)

RECURSIVE Holds(_, _)

\* A condition in ordinary logic; a comparison that cannot be made does not
\* hold.
Holds(c, t) ==
    CASE c.op = "and" -> \A i \in DOMAIN c.args : Holds(c.args[i], t)
      [] c.op = "or" -> \E i \in DOMAIN c.args : Holds(c.args[i], t)
      [] c.op = "not" -> ~Holds(c.args[1], t)
      [] OTHER -> EvaluateComparison(c, t) = "true"

RECURSIVE Written(_, _)

\* How tight an operator binds.
Strength(c) == CASE c.op = "or" -> 1 [] c.op = "and" -> 2 [] OTHER -> 3

JoinedBy(parts, sep) ==
    FoldLeft(LAMBDA s, part : IF s = <<>> THEN part ELSE s \o <<sep>> \o part,
             <<>>, parts)

\* The condition as text, with parentheses around the operands that need
\* them, or around all; a value in quotation marks unless it is one word.
Written(c, all) ==
    LET operand(a) == IF all \/ Strength(a) < Strength(c) \/ (a.op = c.op /\ c.op # "not")
                      THEN <<"(">> \o Written(a, all) \o <<")">>
                      ELSE Written(a, all)
        operands == [i \in DOMAIN c.args |-> operand(c.args[i])]
        value == IF Len(c.value) = 1 THEN c.value ELSE <<Quote>> \o c.value \o <<Quote>>
    IN  CASE c.op = "and" -> JoinedBy(operands, "AND")
          [] c.op = "or" -> JoinedBy(operands, "OR")
          [] c.op = "not" -> <<"NOT">> \o operands[1]
          [] OTHER -> c.field \o <<(CHOOSE o \in Range(Operators) : o[2] = c.op)[1]>> \o value
=============================================================================
