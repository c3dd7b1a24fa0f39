---------------------------- MODULE EventFields ----------------------------
(***************************************************************************)
(* The payload of an event and the operations of pkg/event/event.go on it. *)
(*                                                                         *)
(* A payload is a tree of maps, written down as a function from its nodes. *)
(* A node is the sequence of the map keys that lead to it, <<>> is the     *)
(* payload itself.  A key is a sequence of words: the keys "a" and "a.b"   *)
(* are <<"a">> and <<"a", "b">>.  A path of the configuration is such a    *)
(* sequence too, <<>> for "", but every word of it is one step down.       *)
(* A value that is no map is a leaf.                                       *)
(***************************************************************************)
EXTENDS Integers, FiniteSets, SequencesExt

CONSTANTS WordOrder,   \* the words of all keys, in alphabetical order
          Numbers      \* the number, in tenths, of every text ParseFloat takes

Words == Range(WordOrder)
Paths == Seq(Words)

ASSUME WordOrderAssumption == WordOrder \in Seq(Words)

Map == [kind |-> "map", items |-> <<>>]
Null == [kind |-> "null", items |-> <<>>]
Array(vs) == [kind |-> "array", items |-> vs]

(* A scalar is its kind and the text fmt prints of it with %v, or for a    *)
(* time the text or number it was made from.  The items of an array are    *)
(* strings.                                                                *)
Scalar(kind, text) == [kind |-> kind, items |-> <<text>>]
String(text) == Scalar("string", text)

Scalars == {"string", "float", "int", "bool", "time"}

(* Node by node: the maps on the way to every node are there.              *)
IsTree(t) ==
    /\ t \in [DOMAIN t -> Range(t)]
    /\ DOMAIN t \subseteq Seq(Paths) /\ IsFiniteSet(DOMAIN t)
    /\ <<>> \in DOMAIN t
    /\ \A n \in DOMAIN t : \A m \in Prefixes(n) \ {n} : m \in DOMAIN t /\ t[m] = Map

\* Event.Payload is a map.
IsPayload(t) == IsTree(t) /\ t[<<>>] = Map

Leaves(t) == {n \in DOMAIN t : t[n] # Map}

\* A value by itself, as a tree.
Leaf(v) == [n \in {<<>>} |-> v]

\* strings.Split(path, ".")
NodeOf(path) == [i \in DOMAIN path |-> <<path[i]>>]

Below(t, n) == {m \in DOMAIN t : IsPrefix(n, m)}

RestOf(n, m) == SubSeq(m, Len(n) + 1, Len(m))

\* GetField: is there a field?
HasField(t, path) == path # <<>> /\ NodeOf(path) \in DOMAIN t

\* GetField: its value, with everything below it.
GetField(t, path) ==
    LET n == NodeOf(path)
    IN  [r \in {RestOf(n, m) : m \in Below(t, n)} |-> t[n \o r]]

\* Fault in SetField: what is on the way stays what it is.
SetFieldBelowScalar(t, path, v) ==
    LET n == NodeOf(path)
        above == Prefixes(n) \ {n}
        kept == DOMAIN t \ Below(t, n)
    IN  IF path = <<>>
        THEN t
        ELSE [m \in kept \cup above \cup {n \o r : r \in DOMAIN v} |->
                CASE m \in kept -> t[m]
                  [] m \in above \ kept -> Map
                  [] OTHER -> v[RestOf(n, m)]]

\* SetField: what was at the path goes, with everything below it; what is on
\* the way and is no map is replaced by one.
SetField(t, path, v) ==
    LET n == NodeOf(path)
        above == Prefixes(n) \ {n}
        kept == DOMAIN t \ Below(t, n)
    IN  IF path = <<>>
        THEN t
        ELSE [m \in kept \cup above \cup {n \o r : r \in DOMAIN v} |->
                CASE m \in above -> Map
                  [] m \in kept \ above -> t[m]
                  [] OTHER -> v[RestOf(n, m)]]

\* RemoveField
RemoveField(t, path) ==
    IF HasField(t, path) THEN Restrict(t, DOMAIN t \ Below(t, NodeOf(path))) ELSE t

\* fmt's %v; of times, null, arrays and maps a text that no other value has.
TextOf(v) == IF v.kind \in Scalars \ {"time"} THEN v.items[1] ELSE v.kind

\* The dotted name of a node.
Dotted(n) == FlattenSeq(n)

-----------------------------------------------------------------------------
(* What a transform may return                                             *)

Headers == {"_dlq_reason", "_route_target", "_split_index"}

OneEvent(ev) == [kind |-> "running", events |-> <<ev>>]
ManyEvents(evs) == [kind |-> "events", events |-> evs]
Drop == [kind |-> "drop", events |-> <<>>]
Error == [kind |-> "error", events |-> <<>>]

\* Fault in Copied: the headers are not copied.
CopiedBare(ev, payload) == [payload |-> payload, headers |-> {}]

\* A copy of the event with another payload, as Clone, SetField and
\* RemoveField make it.
Copied(ev, payload) == [payload |-> payload, headers |-> ev.headers]

Marked(ev, header) == [ev EXCEPT !.headers = @ \cup {header}]
=============================================================================
