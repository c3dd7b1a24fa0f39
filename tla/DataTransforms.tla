--------------------------- MODULE DataTransforms ---------------------------
(***************************************************************************)
(* The transforms data.* (internal/transform/data): what becomes of a      *)
(* field that is missing, or is of the wrong type, and where the result    *)
(* goes.  What the libraries make of a text is given by constants.         *)
(***************************************************************************)
EXTENDS EventFields

CONSTANTS FloatText,   \* %v of a float64 and of an int64, by their values in
          IntText,     \*   tenths
          IntTexts,    \* the texts ParseInt takes
          Bools,       \* the value of every text ParseBool takes, in lower case
          TimeTexts,   \* the texts the time formats take
          RFC3339,     \* the text of a time, by the text or number it is from
          Rewritten,   \* Rewritten[how]: the string functions; of the decoders
                       \*   and bcrypt not every text has an image
          Joined       \* strings.Join with the separator, by sequences

\* The event with a value set at the target.
Replaced(ev, target, value) == {OneEvent(Copied(ev, SetField(ev.payload, target, Leaf(value))))}

ValueAt(ev, path) == ev.payload[NodeOf(path)]

-----------------------------------------------------------------------------
(* data.convert                                                            *)

\* toString
ConvertToString(v) ==
    {String(IF v.kind = "time" THEN RFC3339[v.items[1]] ELSE TextOf(v))}

Tenths(v) == Numbers[TextOf(v)]

OneOrZero(v) == IF TextOf(v) = "true" THEN 10 ELSE 0

\* Towards zero.
Truncated(n) == IF n >= 0 THEN 10 * (n \div 10) ELSE -(10 * ((-n) \div 10))

Float(n) == Scalar("float", FloatText[n])
Int64(n) == Scalar("int", IntText[n])

\* toInt: no value if it fails.
ConvertToInt(v) ==
    CASE v.kind \in {"int", "float"} -> {Int64(Truncated(Tenths(v)))}
      [] v.kind = "bool" -> {Int64(OneOrZero(v))}
      [] v.kind = "string" /\ TextOf(v) \in IntTexts -> {Int64(Tenths(v))}
      [] OTHER -> {}

\* toFloat
ConvertToFloat(v) ==
    CASE v.kind \in {"int", "float"} -> {Float(Tenths(v))}
      [] v.kind = "bool" -> {Float(OneOrZero(v))}
      [] v.kind = "string" /\ TextOf(v) \in DOMAIN Numbers -> {Float(Tenths(v))}
      [] OTHER -> {}

Bool(b) == Scalar("bool", IF b THEN "true" ELSE "false")

\* toBool
ConvertToBool(v) ==
    CASE v.kind = "bool" -> {v}
      [] v.kind \in {"int", "float"} -> {Bool(Tenths(v) # 0)}
      [] v.kind = "string" /\ TextOf(v) \in DOMAIN Bools -> {Bool(Bools[TextOf(v)])}
      [] OTHER -> {}

\* toTimestamp
ConvertToTimestamp(v) ==
    CASE v.kind = "time" -> {v}
      [] v.kind \in {"int", "float"} -> {Scalar("time", TextOf(v))}
      [] v.kind = "string" /\ TextOf(v) \in TimeTexts -> {Scalar("time", TextOf(v))}
      [] OTHER -> {}

\* convertValue
ConvertValue(to, v) ==
    CASE to = "string" -> ConvertToString(v)
      [] to = "int" -> ConvertToInt(v)
      [] to = "float" -> ConvertToFloat(v)
      [] to = "bool" -> ConvertToBool(v)
      [] to = "timestamp" -> ConvertToTimestamp(v)
      [] OTHER -> {}

\* data.convert: a missing field stays missing.
Convert(tr, ev) ==
    IF ~HasField(ev.payload, tr.field)
    THEN {OneEvent(ev)}
    ELSE LET converted == ConvertValue(tr.to, ValueAt(ev, tr.field))
         IN  IF converted = {}
             THEN {Error}
             ELSE UNION {Replaced(ev, tr.field, v) : v \in converted}

-----------------------------------------------------------------------------
(* The others                                                              *)

HasString(ev, path) == HasField(ev.payload, path) /\ ValueAt(ev, path).kind = "string"

\* data.case
Case(tr, ev) ==
    CASE ~HasField(ev.payload, tr.field) -> {OneEvent(ev)}
      [] HasString(ev, tr.field) ->
            Replaced(ev, tr.field, String(Rewritten[tr.case][TextOf(ValueAt(ev, tr.field))]))
      [] OTHER -> {Error}

\* strings.Split with the separator: one part if it is not there.
PartsOf(text) ==
    LET there == {s \in DOMAIN Joined : s # <<>> /\ Joined[s] = text}
    IN  IF there = {} THEN <<text>> ELSE CHOOSE s \in there : TRUE

\* data.split
SplitString(tr, ev) ==
    CASE ~HasField(ev.payload, tr.field) -> {OneEvent(ev)}
      [] HasString(ev, tr.field) ->
            Replaced(ev, tr.target, Array(PartsOf(TextOf(ValueAt(ev, tr.field)))))
      [] OTHER -> {Error}

\* data.join
Join(tr, ev) ==
    IF HasField(ev.payload, tr.source) /\ ValueAt(ev, tr.source).kind = "array"
    THEN LET items == ValueAt(ev, tr.source).items
         IN  Replaced(ev, tr.target,
                      String(IF Len(items) = 1 THEN items[1] ELSE Joined[items]))
    ELSE {Error}

\* A string becomes another, as `how' has it, or the transform fails.
Rewrite(tr, ev, how) ==
    LET text == TextOf(ValueAt(ev, tr.source))
    IN  IF HasString(ev, tr.source) /\ text \in DOMAIN Rewritten[how]
        THEN Replaced(ev, tr.target, String(Rewritten[how][text]))
        ELSE {Error}

\* data.mask, data.hash, data.regex and data.encode
Mask(tr, ev) == Rewrite(tr, ev, "mask")
Hash(tr, ev) == Rewrite(tr, ev, tr.algorithm)
Regex(tr, ev) == Rewrite(tr, ev, "regex")
Encode(tr, ev) == Rewrite(tr, ev, tr.operation)

\* data.format: one text, whatever the arguments.
Format(tr, ev) ==
    IF \A i \in DOMAIN tr.args : HasField(ev.payload, tr.args[i])
    THEN Replaced(ev, tr.field, String(tr.text))
    ELSE {Error}
=============================================================================
