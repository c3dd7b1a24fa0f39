--------------------------- MODULE MCAggregation ---------------------------
(* An instance of Aggregation for TLC: two records of one key, between     *)
(* them one of another key that has no number in the field.  With an idle  *)
(* timeout of 0 a window is idle from the first tick after its last event. *)
EXTENDS Aggregation, TLC

Symmetry == Permutations(Members)

MCAggregations ==
    <<[as |-> "total", field |-> "f", function |-> "sum"],
      [as |-> "mean", field |-> "f", function |-> "avg"],
      [as |-> "least", field |-> "f", function |-> "min"],
      [as |-> "most", field |-> "f", function |-> "max"]>>

Number(o) == CASE o = 0 -> [f \in {"f"} |-> 2]
               [] o = 1 -> [f \in {} |-> 0]
               [] OTHER -> [f \in {"f"} |-> -3]

MCInput ==
    [r \in Records |-> [record |-> r, key |-> {IF r[2] = 1 THEN "j" ELSE "k"},
                        numbers |-> Number(r[2])]]
=============================================================================
