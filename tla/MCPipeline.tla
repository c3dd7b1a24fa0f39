----------------------------- MODULE MCPipeline -----------------------------
(* Pipeline for TLC: every pipeline of up to three of the transforms that   *)
(* move, split, filter or mark, and of three that convert; every condition  *)
(* of up to three comparisons, written with and without spare parentheses.  *)
EXTENDS PipelineConditions

A == <<"a">>
B == <<"b">>
C == <<"c">>
AX == <<"a", "x">>
AY == <<"a", "y">>
CX == <<"c", "x">>

MCWordOrder == <<"a", "b", "c", "x", "y">>

MCFields == [w \in {"a", "b", "c", "a.x", "c.x"} |->
    CASE w = "a" -> A [] w = "b" -> B [] w = "c" -> C [] w = "a.x" -> AX [] OTHER -> CX]

-----------------------------------------------------------------------------
(* Texts                                                                   *)

\* By their values in tenths.
MCIntText == [n \in {0, 10, 20, 30, 40, 60, 70, 80, 90, 10000000} |->
    CASE n = 0 -> "0" [] n = 10 -> "1" [] n = 20 -> "2" [] n = 30 -> "3" [] n = 40 -> "4"
      [] n = 60 -> "6" [] n = 70 -> "7" [] n = 80 -> "8" [] n = 90 -> "9"
      [] OTHER -> "1000000"]

MCFloatText == [n \in DOMAIN MCIntText \cup {15} |->
    CASE n = 15 -> "1.5" [] n = 10000000 -> "1e+06" [] OTHER -> MCIntText[n]]

MCNumbers == [s \in Range(MCIntText) \cup Range(MCFloatText) |->
    CHOOSE n \in DOMAIN MCFloatText :
        MCFloatText[n] = s \/ (n \in DOMAIN MCIntText /\ MCIntText[n] = s)]

MCIntTexts == Range(MCIntText)

MCBools == [s \in {"true", "false", "1", "0"} |-> s \in {"true", "1"}]

MCTimeTexts == {}

Texts == DOMAIN MCNumbers \cup
    {"2,3", "3,4", "", "true", "false", "TRUE", "null", "map", "array", "time",
     "now", "****", "hash", "text"}

MCRFC3339 == [s \in DOMAIN MCNumbers |-> "now"]

\* sha256, a masked number, and upper case; bcrypt takes no long text, and
\* only numbers are what the decoder takes.
MCRewritten ==
    [how \in {"upper", "mask", "regex", "sha256", "bcrypt", "decode"} |->
       CASE how = "upper" -> [s \in Texts |-> IF s = "true" THEN "TRUE" ELSE s]
         [] how = "mask" -> [s \in Texts |-> IF s = "" THEN s ELSE "****"]
         [] how = "regex" -> [s \in Texts |-> IF s = "2,3" THEN "3,4" ELSE s]
         [] how = "sha256" -> [s \in Texts |-> "hash"]
         [] how = "bcrypt" -> [s \in Texts \ {"text"} |-> "hash"]
         [] how = "decode" -> [s \in DOMAIN MCNumbers |-> "text"]]

MCJoined == [s \in {<<>>, <<"2", "3">>, <<"3", "4">>} |->
    CASE s = <<>> -> "" [] s = <<"2", "3">> -> "2,3" [] OTHER -> "3,4"]

MCFinds == {<<"contains", "2,3", <<"3">>>>, <<"match", "1.5", <<"1.*">>>>}

-----------------------------------------------------------------------------
(* Conditions                                                              *)

IsOne == Comparison("eq", <<"a.x">>, <<"1">>)
AtLeast == Comparison("gte", <<"b">>, <<"4">>)
Absent == Comparison("ne", <<"c.x">>, <<"9">>)
Quoted == Comparison("ne", <<"b">>, <<"x", "OR", "(", "y", ")", "=", "4">>)
Listed == Comparison("in", <<"c">>, <<"1e+06", "AND", "8">>)

Atoms == {IsOne, AtLeast, Quoted}
Simple == Atoms \cup {Connective("not", <<c>>) : c \in {AtLeast, Quoted}}
Pairs(S, T) == {Connective(op, <<c, d>>) : op \in {"and", "or"}, c \in S, d \in T}
Double == Pairs(Simple, Simple)
Triple == Pairs(Atoms, Double) \cup Pairs(Double, Atoms)

Filtering(c, all) == ConfigureFilter(Written(c, all), c)

Filters ==
    {Filtering(c, all) : all \in BOOLEAN,
       c \in Simple \cup Double \cup Triple \cup {Connective("not", <<d>>) : d \in Double}}

FewFilters ==
    {Filtering(c, FALSE) : c \in
       {Connective("not", <<Connective("not", <<AtLeast>>)>>),
        Connective("or", <<IsOne, AtLeast, Absent>>),
        Connective("and", <<Listed, Absent, Connective("or", <<IsOne, Quoted>>)>>),
        Comparison("lt", <<"c">>, <<"1000000">>), Comparison("lte", <<"c">>, <<"1000000">>),
        Comparison("eq", <<"c">>, <<"1000000">>), Comparison("gt", <<"a.x">>, <<"1">>),
        Comparison("contains", <<"a.x">>, <<"3">>),
        Comparison("match", <<"a.x">>, <<"1.*">>), Comparison("notmatch", <<"a.x">>, <<"1.*">>),
        Comparison("startswith", <<"b">>, <<"4">>), Comparison("endswith", <<"b">>, <<"4">>)}}

-----------------------------------------------------------------------------
(* Transforms                                                              *)

MCTransforms ==
    {[type |-> "field.rename", mappings |-> <<<<A, C>>, <<B, A>>>>],
     [type |-> "field.rename", mappings |-> <<<<AX, CX>>, <<B, CX>>>>],
     [type |-> "field.rename", mappings |-> <<<<A, AX>>, <<B, B>>>>],
     [type |-> "field.extract", source |-> AX, target |-> B, overwrite |-> FALSE],
     [type |-> "field.extract", source |-> C, target |-> AY, overwrite |-> TRUE],
     [type |-> "field.add", field |-> CX, value |-> String("9")],
     [type |-> "field.remove", fields |-> <<AX, B>>],
     [type |-> "field.flatten"],
     [type |-> "field.unflatten"],
     Filtering(Connective("and", <<IsOne, Quoted>>), FALSE),
     ConfigureRoute(<<Written(AtLeast, FALSE), Written(IsOne, FALSE)>>, FALSE),
     ConfigureRoute(<<Written(Absent, FALSE)>>, TRUE),
     [type |-> "filter.split", field |-> B, key |-> B],
     [type |-> "split.array", field |-> B, key |-> CX],
     [type |-> "split.array", field |-> AY, key |-> A],
     [type |-> "validate.required", fields |-> <<AX, B>>, onError |-> "drop"],
     [type |-> "validate.required", fields |-> <<CX>>, onError |-> "dlq"],
     [type |-> "validate.required", fields |-> <<B>>, onError |-> "fail"],
     [type |-> "split.regex", field |-> C, key |-> CX],
     [type |-> "split.regex", field |-> AX, key |-> B],
     ConfigureRules(<<Written(AtLeast, TRUE), Written(Absent, TRUE)>>, "dlq",
                    <<AtLeast, Absent>>),
     [type |-> "validate.schema", onError |-> "drop"],
     [type |-> "enrich.redis", keyField |-> B, target |-> AX, dropOnError |-> FALSE],
     [type |-> "enrich.postgres", params |-> <<B, AX>>, target |-> C, dropOnError |-> TRUE],
     [type |-> "enrich.http", placeholders |-> <<>>, target |-> AY, dropOnError |-> FALSE]}

MCData ==
    {[type |-> "data.convert", field |-> f, to |-> to] :
        f \in {AX, C}, to \in {"string", "int", "float", "bool", "timestamp", "other"}}
    \cup
    {[type |-> "data.case", field |-> B, case |-> "upper"],
     [type |-> "data.split", field |-> AX, target |-> B],
     [type |-> "data.split", field |-> B, target |-> B],
     [type |-> "data.join", source |-> B, target |-> B],
     [type |-> "data.join", source |-> AY, target |-> CX],
     [type |-> "data.mask", source |-> B, target |-> AX],
     [type |-> "data.hash", source |-> AX, target |-> AX, algorithm |-> "sha256"],
     [type |-> "data.hash", source |-> B, target |-> B, algorithm |-> "bcrypt"],
     [type |-> "data.regex", source |-> B, target |-> B],
     [type |-> "data.encode", source |-> AX, target |-> C, operation |-> "decode"],
     [type |-> "data.format", field |-> C, args |-> <<AX, B>>, text |-> "text"]}

MCPipelines ==
         UNION {[1 .. n -> MCTransforms] : n \in 1 .. 3}
    \cup {<<f>> : f \in Filters}
    \cup {<<t, f>> : t \in MCTransforms \cup MCData, f \in FewFilters}
    \cup {<<t, u>> : t \in MCTransforms, u \in MCData}
    \cup {<<t, u>> : t \in MCData, u \in MCTransforms}
    \cup [1 .. 3 -> MCData]

\* {"a": {"x": 1, "y": ["2", "3"]}, "b": "4"}
Nested == [n \in {<<>>, <<A>>, <<A, <<"x">>>>, <<A, <<"y">>>>, <<B>>} |->
    CASE n \in {<<>>, <<A>>} -> Map
      [] n = <<A, <<"x">>>> -> Scalar("float", "1")
      [] n = <<A, <<"y">>>> -> Array(<<"2", "3">>)
      [] OTHER -> String("4")]

\* {"a": {"x": {"y": true}}, "a.x": "2", "b": ["3", "4"]}
Mixed == [n \in {<<>>, <<A>>, <<A, <<"x">>>>, <<A, <<"x">>, <<"y">>>>, <<AX>>, <<B>>} |->
    CASE n \in {<<>>, <<A>>, <<A, <<"x">>>>} -> Map
      [] n = <<A, <<"x">>, <<"y">>>> -> Scalar("bool", "true")
      [] n = <<AX>> -> String("2")
      [] OTHER -> Array(<<"3", "4">>)]

\* {"a": {"x": "1"}, "a.x": 1.5, "a.y": [], "b": null}
Doubled == [n \in {<<>>, <<A>>, <<A, <<"x">>>>, <<AX>>, <<AY>>, <<B>>} |->
    CASE n \in {<<>>, <<A>>} -> Map
      [] n = <<A, <<"x">>>> -> String("1")
      [] n = <<AX>> -> Scalar("float", "1.5")
      [] n = <<AY>> -> Array(<<>>)
      [] OTHER -> Null]

\* {"a": {}, "c": 1000000}
Hollow == [n \in {<<>>, <<A>>, <<C>>} |-> IF n = <<C>> THEN Scalar("float", "1e+06") ELSE Map]

\* {"a": {"x": {"y": "2,3"}}}
Deep == [n \in {<<>>, <<A>>, <<A, <<"x">>>>, <<A, <<"x">>, <<"y">>>>} |->
    IF Len(n) = 3 THEN String("2,3") ELSE Map]

\* "8", {"y": "8"} and null
MCAnswers == {Leaf(String("8")), Leaf(Null),
              [n \in {<<>>, <<<<"y">>>>} |-> IF n = <<>> THEN Map ELSE String("8")]}

MCMatches == <<"6", "7">>

MCPayloads == {Nested, Mixed, Doubled, Hollow, Deep}
=============================================================================
