------------------------------ MODULE Pipeline ------------------------------
(***************************************************************************)
(* Pipeline.Execute (internal/transform/pipeline.go): one event goes       *)
(* through a list of transforms.  The transforms are operators that give   *)
(* the set of results they may return: those that move fields about, split *)
(* the event, filter or mark it are here, data.* in DataTransforms.  Of a  *)
(* schema there is only that an event may fit it, not fit it or fail to be *)
(* evaluated, of the enrichments any answer of their services.  The        *)
(* aggregates keep state and have modules of their own.                    *)
(*                                                                         *)
(* An event is its payload and the names of its headers.                   *)
(***************************************************************************)
EXTENDS DataTransforms

CONSTANTS Pipelines,    \* the configured pipelines: sequences of transforms
          Payloads,     \* payloads of the incoming events
          Answers,      \* what enrichment services answer, as trees
          Matches,      \* what a regular expression finds in a string
          Verdict(_, _) \* Evaluate of a condition on a payload: "true", "false"
                        \*   or "error"

VARIABLES
    transforms,   \* Pipeline.transforms
    trace,        \* the event as it came in and after every transform so far
    out           \* what Execute has come to

pipelineVars == <<transforms, trace, out>>

(* running      the loop goes on with the latest event of trace            *)
(* event        it has returned that event                                 *)
(* events       a transform has returned several events, in out.events     *)
(* returned     and Execute has returned them                              *)
(* drop, error  it has returned ErrDrop, another error                     *)
Outs == {"running", "event", "events", "returned", "drop", "error"}

-----------------------------------------------------------------------------
(* field.*                                                                 *)

\* SetField with the value of another field, then RemoveField of that one.
MoveField(t, from, to) ==
    IF HasField(t, from)
    THEN RemoveField(SetField(t, to, GetField(t, from)), from)
    ELSE t

\* Fault in Conflict: a target that exists is not looked for.
ConflictOfSources(t, mappings) ==
    \E m \in Range(mappings) :
        Cardinality({s \in Range(mappings) :
                       s[2] = m[2] /\ s[1] # m[2] /\ HasField(t, s[1])}) > 1

\* Two fields that are there are to become one, or one is to become another
\* that is there.
Conflict(t, mappings) ==
    \E m \in Range(mappings) :
        LET existing == {s \in Range(mappings) :
                           s[2] = m[2] /\ s[1] # m[2] /\ HasField(t, s[1])}
        IN  \/ Cardinality(existing) > 1
            \/ HasField(t, m[2]) /\ existing # {}

\* field.rename; the mappings are in the order of their sources.
Rename(tr, ev) ==
    IF Conflict(ev.payload, tr.mappings)
    THEN {Error}
    ELSE {OneEvent(Copied(ev, FoldLeft(LAMBDA t, m : MoveField(t, m[1], m[2]),
                                    ev.payload, tr.mappings)))}

\* field.extract
Extract(tr, ev) ==
    CASE ~HasField(ev.payload, tr.source) -> {OneEvent(ev)}
      [] HasField(ev.payload, tr.source) /\ ~tr.overwrite
           /\ HasField(ev.payload, tr.target) -> {Error}
      [] OTHER -> {OneEvent(Copied(ev, MoveField(ev.payload, tr.source, tr.target)))}

\* field.add
Add(tr, ev) == {OneEvent(Copied(ev, SetField(ev.payload, tr.field, Leaf(tr.value))))}

\* field.remove
RemoveAll(tr, ev) ==
    {OneEvent(Copied(ev, FoldLeft(RemoveField, ev.payload, tr.fields)))}

\* Fault in Flatten: only two levels are looked at.
FlattenTwoLevels(tr, ev) ==
    LET t == ev.payload
        top == {n \in Leaves(t) : Len(n) <= 2}
    IN  {OneEvent(Copied(ev, [m \in {<<>>} \cup {<<Dotted(n)>> : n \in top} |->
            IF m = <<>> THEN Map
            ELSE t[CHOOSE n \in top : Dotted(n) = m[1]]]))}

\* field.flatten: every leaf under its dotted name.  Of leaves with the same
\* name any may remain, since Go ranges over a map in any order.  Payloads are
\* of up to 100 levels: what lies deeper flatten.go leaves out.
Flatten(tr, ev) ==
    LET t == ev.payload
        names == {Dotted(n) : n \in Leaves(t)}
        winners == {w \in [names -> Leaves(t)] : \A k \in names : Dotted(w[k]) = k}
    IN  {OneEvent(Copied(ev, [m \in {<<>>} \cup {<<k>> : k \in names} |->
                             IF m = <<>> THEN Map ELSE t[w[m[1]]]])) : w \in winners}

Rank(word) == CHOOSE i \in DOMAIN WordOrder : WordOrder[i] = word

\* The order of dotted names as strings.
Before(j, k) ==
    \E i \in 1 .. Len(k) :
        /\ \A h \in 1 .. i - 1 : h <= Len(j) /\ j[h] = k[h]
        /\ i <= Len(j) => Rank(j[i]) < Rank(k[i])

\* setNested: no map is overwritten, and nothing else becomes a map.
SetNested(t, key, v) ==
    LET n == NodeOf(key)
    IN  [ok |-> /\ \A m \in Prefixes(n) \ {n} : m \in DOMAIN t => t[m] = Map
                /\ n \in DOMAIN t => t[n] # Map,
         tree |-> SetField(t, key, v)]

\* sort.Strings: the keys in order.
Sorted(keys) ==
    {s \in SeqOf(keys, Cardinality(keys)) :
        /\ Range(s) = keys
        /\ \A h, k \in DOMAIN s : h < k => Before(s[h], s[k])}

\* What is under a key.
Under(t, key) ==
    [r \in {RestOf(<<key>>, m) : m \in Below(t, <<key>>)} |-> t[<<key>> \o r]]

\* unflattenMap: each of the keys at its path.
UnflattenKeys(t, keys) ==
    FoldLeft(LAMBDA acc, k : IF acc.ok THEN SetNested(acc.tree, k, Under(t, k)) ELSE acc,
             [ok |-> TRUE, tree |-> Leaf(Map)], keys)

\* field.unflatten: the top-level keys, in order.
Unflatten(tr, ev) ==
    LET t == ev.payload
    IN  {LET end == UnflattenKeys(t, keys)
         IN  IF end.ok THEN OneEvent(Copied(ev, end.tree)) ELSE Error :
         keys \in Sorted({n[1] : n \in DOMAIN t \ {<<>>}})}

-----------------------------------------------------------------------------
(* filter.*, split.*, validate.*, enrich.*                                 *)

\* filter.condition
Filter(tr, ev) ==
    LET match == Verdict(tr.condition, ev.payload)
    IN  {CASE match = "true" -> OneEvent(ev)
           [] match = "false" -> Drop
           [] OTHER -> Error}

\* filter.route: the first rule that does not say no decides, the default if
\* there is none.  (Topics are not told apart.)
Route(tr, ev) ==
    LET open == SelectSeq(tr.conditions, LAMBDA c : Verdict(c, ev.payload) # "false")
        found == IF open = <<>> THEN tr.default ELSE Verdict(open[1], ev.payload) = "true"
    IN  {IF found THEN OneEvent(Marked(ev, "_route_target")) ELSE Error}

\* The events an array field is split into, given the one for each item.
Pieces(value, made) == ManyEvents([i \in DOMAIN value.items |-> made[value.items[i]]])

\* filter.split: the field goes, then the item is set.  Nothing comes out of
\* a field that is missing, null or empty.
FilterSplit(tr, ev) ==
    LET value == ev.payload[NodeOf(tr.field)]
        rest == RemoveField(ev.payload, tr.field)
        made == [v \in Range(value.items) |->
                   Marked(Copied(ev, SetField(rest, tr.key, Leaf(String(v)))), "_split_index")]
    IN  CASE ~HasField(ev.payload, tr.field) -> {Drop}
          [] HasField(ev.payload, tr.field) /\ value \in {Null, Array(<<>>)} -> {Drop}
          [] HasField(ev.payload, tr.field) /\ value.kind \in Scalars \cup {"map"} -> {Error}
          [] OTHER -> {Pieces(value, made)}

\* Fault in SplitArray: the array stays.
SplitArrayKeepsField(tr, ev) ==
    LET value == ev.payload[NodeOf(tr.field)]
        made == [v \in Range(value.items) |->
                   Copied(ev, SetField(ev.payload, tr.key, Leaf(String(v))))]
    IN  IF HasField(ev.payload, tr.field) /\ value.kind = "array"
        THEN {Pieces(value, made)}
        ELSE {Error}

\* split.array: the item is set, then the field goes.
SplitArray(tr, ev) ==
    LET value == ev.payload[NodeOf(tr.field)]
        made == [v \in Range(value.items) |->
                   Copied(ev, RemoveField(SetField(ev.payload, tr.key, Leaf(String(v))),
                                          tr.field))]
    IN  CASE ~HasField(ev.payload, tr.field) -> {Error}
          [] HasField(ev.payload, tr.field) /\ value = Null -> {ManyEvents(<<>>)}
          [] HasField(ev.payload, tr.field) /\ value.kind \in Scalars \cup {"map"} -> {Error}
          [] OTHER -> {Pieces(value, made)}

\* split.regex: like split.array, with the matches in a string.
SplitRegex(tr, ev) ==
    LET value == ev.payload[NodeOf(tr.field)]
        made == [v \in Range(Matches) |->
                   Copied(ev, RemoveField(SetField(ev.payload, tr.key, Leaf(String(v))),
                                          tr.field))]
    IN  CASE ~HasField(ev.payload, tr.field) -> {Error}
          [] HasField(ev.payload, tr.field) /\ value = Null -> {ManyEvents(<<>>)}
          [] HasField(ev.payload, tr.field) /\ value.kind \notin {"null", "string"} -> {Error}
          [] OTHER -> {ManyEvents(<<>>), Pieces(Array(Matches), made)}

\* on_error of the validating transforms: drop the event, mark it or fail.
Invalid(tr, ev) ==
    CASE tr.onError = "drop" -> Drop
      [] tr.onError = "dlq" -> OneEvent(Marked(ev, "_dlq_reason"))
      [] tr.onError = "fail" -> Error

HasAll(t, paths) == \A p \in Range(paths) : HasField(t, p)

\* validate.required
Required(tr, ev) ==
    IF HasAll(ev.payload, tr.fields)
    THEN {OneEvent(ev)}
    ELSE {Invalid(tr, ev)}

\* validate.rules: all rules are evaluated.
Rules(tr, ev) ==
    LET verdicts == {Verdict(c, ev.payload) : c \in Range(tr.rules)}
    IN  {CASE "error" \in verdicts -> Error
           [] "error" \notin verdicts /\ "false" \in verdicts -> Invalid(tr, ev)
           [] OTHER -> OneEvent(ev)}

\* validate.schema: the event fits, or does not, or that cannot be said.
Schema(tr, ev) == {OneEvent(ev), Invalid(tr, ev), Error}

Enriched(tr, ev, answers) ==
    {OneEvent(Copied(ev, SetField(ev.payload, tr.target, a))) : a \in answers}

\* enrich.redis: the event goes on as it is if there is no key or no answer,
\* and also after an error unless it is to be dropped then.
EnrichRedis(tr, ev) ==
    LET failed == IF tr.dropOnError THEN Drop ELSE OneEvent(ev)
    IN  IF HasField(ev.payload, tr.keyField)
        THEN {failed, OneEvent(ev)} \cup Enriched(tr, ev, Answers \ {Leaf(Null)})
        ELSE {failed}

\* enrich.http: the placeholders of url and body have to be there, the call
\* has to succeed and its answer to be JSON.
EnrichHttp(tr, ev) ==
    LET failed == IF tr.dropOnError THEN Drop ELSE Error
    IN  IF HasAll(ev.payload, tr.placeholders)
        THEN {failed} \cup Enriched(tr, ev, Answers)
        ELSE {failed}

\* enrich.postgres: the parameters have to be there and the query to succeed;
\* one without rows gives null.
EnrichPostgres(tr, ev) ==
    LET failed == IF tr.dropOnError THEN Drop ELSE Error
    IN  IF HasAll(ev.payload, tr.params)
        THEN {failed} \cup Enriched(tr, ev, Answers)
        ELSE {failed}

ResultsOf(tr, ev) ==
    CASE tr.type = "field.rename" -> Rename(tr, ev)
      [] tr.type = "field.extract" -> Extract(tr, ev)
      [] tr.type = "field.add" -> Add(tr, ev)
      [] tr.type = "field.remove" -> RemoveAll(tr, ev)
      [] tr.type = "field.flatten" -> Flatten(tr, ev)
      [] tr.type = "field.unflatten" -> Unflatten(tr, ev)
      [] tr.type = "filter.condition" -> Filter(tr, ev)
      [] tr.type = "filter.route" -> Route(tr, ev)
      [] tr.type = "filter.split" -> FilterSplit(tr, ev)
      [] tr.type = "split.array" -> SplitArray(tr, ev)
      [] tr.type = "split.regex" -> SplitRegex(tr, ev)
      [] tr.type = "validate.required" -> Required(tr, ev)
      [] tr.type = "validate.rules" -> Rules(tr, ev)
      [] tr.type = "validate.schema" -> Schema(tr, ev)
      [] tr.type = "enrich.redis" -> EnrichRedis(tr, ev)
      [] tr.type = "enrich.http" -> EnrichHttp(tr, ev)
      [] tr.type = "enrich.postgres" -> EnrichPostgres(tr, ev)
      [] tr.type = "data.convert" -> Convert(tr, ev)
      [] tr.type = "data.case" -> Case(tr, ev)
      [] tr.type = "data.split" -> SplitString(tr, ev)
      [] tr.type = "data.join" -> Join(tr, ev)
      [] tr.type = "data.mask" -> Mask(tr, ev)
      [] tr.type = "data.hash" -> Hash(tr, ev)
      [] tr.type = "data.regex" -> Regex(tr, ev)
      [] tr.type = "data.encode" -> Encode(tr, ev)
      [] tr.type = "data.format" -> Format(tr, ev)

Splits == {"filter.split", "split.array", "split.regex"}
Validations == {"validate.required", "validate.rules", "validate.schema"}
Rewrites == {"data.mask", "data.hash", "data.regex", "data.encode"}

\* What Create and the Configure functions let through.
IsConfigured(tr) ==
    \/ tr.type = "field.rename" /\ tr.mappings \in Seq(Paths \X Paths)
    \/ tr.type = "field.extract" /\ tr.source \in Paths /\ tr.target \in Paths
    \/ tr.type = "field.remove" /\ tr.fields \in Seq(Paths)
    \/ tr.type \in {"field.flatten", "field.unflatten", "filter.condition", "filter.route"}
    \/ tr.type \in Splits /\ {tr.field, tr.key} \subseteq Paths \ {<<>>}
    \/ tr.type \in Validations /\ tr.onError \in {"drop", "dlq", "fail"}
    \/ tr.type \in {"field.add", "data.convert", "data.case", "data.format"}
         /\ tr.field \in Paths
    \/ tr.type \in {"enrich.redis", "enrich.http", "enrich.postgres",
                    "data.split", "data.join"} \cup Rewrites
         /\ tr.target \in Paths

ASSUME PipelinesAssumption ==
    \A p \in Pipelines :
        /\ p \in Seq(Range(p)) \ {<<>>}
        /\ \A k \in DOMAIN p : IsConfigured(p[k])

ASSUME PayloadsAssumption ==
    /\ \A t \in Payloads : IsPayload(t)
    /\ \A t \in Answers : IsTree(t)

-----------------------------------------------------------------------------
IsEvent(ev) ==
    /\ ev \in [payload : {ev.payload}, headers : SUBSET Headers]
    /\ IsPayload(ev.payload)

PipelineTypeOK ==
    /\ trace \in Seq(Range(trace))
    /\ Len(trace) \in 1 .. Len(transforms) + 1
    /\ \A k \in DOMAIN trace : IsEvent(trace[k])
    /\ out \in [kind : Outs, events : {out.events}]
    /\ \A k \in DOMAIN out.events : IsEvent(out.events[k])

PipelineInit ==
    /\ transforms \in Pipelines
    /\ \E p \in Payloads : trace = <<[payload |-> p, headers |-> {}]>>
    /\ out = [kind |-> "running", events |-> <<>>]

\* The loop's next transform returns: an event or several take the place of
\* the one at hand, none and an error end Execute.
Transform ==
    /\ out.kind = "running"
    /\ Len(trace) <= Len(transforms)
    /\ \E r \in ResultsOf(transforms[Len(trace)], Last(trace)) :
          /\ trace' = IF r.kind = "running" THEN Append(trace, r.events[1]) ELSE trace
          /\ out' = CASE r.kind = "running" -> out
                      [] r.kind = "events" /\ r.events = <<>> -> Drop
                      [] OTHER -> r
    /\ UNCHANGED transforms

\* A transform after one that returned several events is handed all of them,
\* and refuses what is not an event.
TransformEvents ==
    /\ out.kind = "events"
    /\ Len(trace) < Len(transforms)
    /\ out' = Error
    /\ UNCHANGED <<transforms, trace>>

\* The list is through.
ReturnResult ==
    /\ \/ /\ out.kind = "running" /\ Len(trace) = Len(transforms) + 1
          /\ out' = [out EXCEPT !.kind = "event"]
       \/ /\ out.kind = "events" /\ Len(trace) = Len(transforms)
          /\ out' = [out EXCEPT !.kind = "returned"]
    /\ UNCHANGED <<transforms, trace>>

\* The context is done before the next transform.
ContextIsDone ==
    /\ out.kind \in {"running", "events"}
    /\ out' = Error
    /\ UNCHANGED <<transforms, trace>>

PipelineNext == Transform \/ TransformEvents \/ ReturnResult \/ ContextIsDone

PipelineSpec == PipelineInit /\ [][PipelineNext]_pipelineVars

-----------------------------------------------------------------------------
(* Properties                                                              *)

Values(t) == UNION {Range(t[n].items) : n \in DOMAIN t}

\* Where a value is.
Holders(t, v) == {n \in DOMAIN t : v \in Range(t[n].items)}

\* The events there are now.
Current == IF out.events = <<>> THEN {Last(trace)} ELSE Range(out.events)

Comparable(p, q) == IsPrefix(p, q) \/ IsPrefix(q, p)

\* There is nothing but maps on the way to a path.
FreeWay(t, path) ==
    \A m \in Prefixes(NodeOf(path)) \ {NodeOf(path)} : m \in DOMAIN t => t[m] = Map

\* A rename whose targets keep clear of its sources, of each other and of
\* the values of the event.
KeepsClear(t, mappings) ==
    \A m \in Range(mappings) :
        /\ m[2] # <<>>
        /\ FreeWay(t, m[2])
        /\ \A s \in Range(mappings) :
              /\ ~Comparable(m[2], s[1])
              /\ m[2] = s[2] \/ ~Comparable(m[2], s[2])

NamesDiffer(t) == \A m, n \in Leaves(t) : m # n => Dotted(m) # Dotted(n)

\* No dotted name goes through the name of a value.
NamesApart(t) ==
    \A m \in Leaves(t) : \A n \in DOMAIN t \ {m} : ~IsPrefix(Dotted(m), Dotted(n))

\* The transforms that move values, where they can be expected to keep them.
Moves(tr, t) ==
    \/ tr.type = "field.rename" /\ KeepsClear(t, tr.mappings)
    \/ tr.type = "field.extract" /\ ~tr.overwrite
         /\ KeepsClear(t, <<<<tr.source, tr.target>>>>)
    \/ tr.type = "field.flatten" /\ NamesDiffer(t)
    \/ tr.type = "field.unflatten" /\ NamesApart(t)

\* A transform that moves values and does not fail loses none and doubles
\* none: conflict detection of field.rename, field.extract and
\* field.unflatten and the removal of the sources see to it, also on payloads
\* that earlier transforms have left behind.
MovesKeepValues ==
    \A i \in 1 .. Len(trace) - 1 :
        Moves(transforms[i], trace[i].payload) =>
            \A v \in Values(trace[i].payload) \cup Values(trace[i + 1].payload) :
                Cardinality(Holders(trace[i + 1].payload, v))
                    = Cardinality(Holders(trace[i].payload, v))

\* A payload of plain keys and no empty maps.
Plain(t) ==
    /\ \A n \in DOMAIN t : \A i \in DOMAIN n : Len(n[i]) = 1
    /\ \A n \in DOMAIN t : t[n] = Map => \E m \in Leaves(t) : IsPrefix(n, m)

\* field.unflatten undoes field.flatten on every payload of plain keys and
\* no empty maps, at whatever place of a pipeline.
UnflattenUndoesFlatten ==
    \A i \in 1 .. Len(trace) - 2 :
        /\ transforms[i].type = "field.flatten"
        /\ transforms[i + 1].type = "field.unflatten"
        /\ Plain(trace[i].payload)
        => trace[i + 2] = trace[i]

\* The mark for the DLQ, and that of a route, once set stays with the event
\* and with every event it is split into, to the end of the pipeline.  (The
\* aggregates, which make new events without headers, are not among its
\* transforms.)
MarksStay ==
    \A i \in DOMAIN trace : \A ev \in Current :
        trace[i].headers \subseteq ev.headers

\* The transform Execute has come to.
Latest == transforms[Len(trace)]

\* Payload t is `before' without the field, but with the item at the key and
\* the maps on the way to it.
IsPiece(tr, before, item, t) ==
    LET field == NodeOf(tr.field)
        key == NodeOf(tr.key)
    IN  /\ \A n \in DOMAIN t :
              \/ n = key /\ t[n] = String(item)
              \/ n # key /\ IsPrefix(n, key) /\ t[n] = Map
              \/ n \in DOMAIN before /\ t[n] = before[n] /\ ~IsPrefix(field, n)
        /\ \A n \in DOMAIN before :
              IsPrefix(field, n) \/ IsPrefix(key, n) \/ n \in DOMAIN t

\* Several events come out of a pipeline only from its last transform, one for
\* every item of the array, and every match: it has the item at the key,
\* unless split.array or split.regex is to put it into the field it then
\* removes, and the array no more, and nothing else has come or gone.
EveryItemGetsItsEvent ==
    out.kind = "returned" =>
        LET before == Last(trace).payload
            items == IF Latest.type = "split.regex"
                     THEN Matches
                     ELSE before[NodeOf(Latest.field)].items
        IN  /\ Len(trace) = Len(transforms)
            /\ DOMAIN out.events = DOMAIN items
            /\ \A k \in DOMAIN items :
                  LET t == out.events[k].payload
                  IN  /\ IsPiece(Latest, before, items[k], t)
                      /\ \/ NodeOf(Latest.key) \in DOMAIN t
                         \/ Latest.type # "filter.split"
                              /\ IsPrefix(NodeOf(Latest.field), NodeOf(Latest.key))
=============================================================================
