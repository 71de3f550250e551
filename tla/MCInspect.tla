----------------------------- MODULE MCInspect -----------------------------
EXTENDS Inspect, TLC

MCProbes ==
    <<[label |-> "grounded", query |-> "clear", want |-> "grounded"],
      [label |-> "repeat", query |-> "clear", want |-> "grounded"]>>

One(kinds) == [k \in Kinds |-> IF k \in kinds THEN 1 ELSE 0]
MCTogether == {One(kinds) : kinds \in
    {{}, {"setback"}, {"restart"}, {"setback", "restart"},
     {"retry"}, {"retry", "rejected"}, {"visit"}, {"rival"}}}

Symmetry == Permutations(Lists)

MCSections == <<"cache", "retrieval", "router", "serving", "answers">>
=============================================================================
