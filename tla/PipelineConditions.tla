------------------------- MODULE PipelineConditions -------------------------
(***************************************************************************)
(* Pipelines whose conditions are parsed expressions: the transforms with  *)
(* conditions are configured with expressions, and Verdict is Evaluate.    *)
(***************************************************************************)
EXTENDS Pipeline, Condition

\* Configure of the transforms with conditions parses the expressions; meant
\* is what they were written for, which only the properties look at.
ConfigureFilter(expression, meant) ==
    [type |-> "filter.condition", condition |-> Parse(expression), meant |-> meant]

ConfigureRoute(expressions, default) ==
    [type |-> "filter.route", default |-> default,
     conditions |-> [i \in DOMAIN expressions |-> Parse(expressions[i])]]

ConfigureRules(expressions, onError, meant) ==
    [type |-> "validate.rules", onError |-> onError, meant |-> meant,
     rules |-> [i \in DOMAIN expressions |-> Parse(expressions[i])]]

-----------------------------------------------------------------------------
(* Properties                                                              *)

\* filter.condition lets an event through only if the condition its
\* expression was written for holds, and drops it only if it does not;
\* validate.rules passes it on unmarked only if all of them hold.  Operators
\* in quotation marks, precedence, parentheses and short cuts around what
\* cannot be compared change nothing, on payloads that any transform has left
\* behind.
ConditionsDecide ==
    /\ \A i \in 1 .. Len(trace) - 1 :
          LET tr == transforms[i]
          IN  /\ tr.type = "filter.condition" => Holds(tr.meant, trace[i].payload)
              /\ tr.type = "validate.rules" =>
                    \/ "_dlq_reason" \in trace[i + 1].headers
                    \/ \A c \in Range(tr.meant) : Holds(c, trace[i].payload)
    /\ out.kind = "drop" /\ Latest.type = "filter.condition" =>
          ~Holds(Latest.meant, Last(trace).payload)
=============================================================================
