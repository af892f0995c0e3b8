--------------------------- MODULE MCScanDecision ---------------------------
(* ScanDecision on small rule tables. *)
EXTENDS ScanDecision

\* A rule of the rule set's own or a global one, a second global rule, and the
\* two RAG toggles: above the other rules, as in seed_rules.yaml, or below them.
SmallTables ==
    {[r \in 1..4 |->
        CASE r = 1 -> [action |-> a, priority |-> p, own |-> o, key |-> "other"]
          [] r = 2 -> [action |-> IF k = "pii" THEN "mask" ELSE "block",
                       priority |-> 2, own |-> FALSE, key |-> k]
          [] r = 3 -> [action |-> "block", priority |-> 4 - p, own |-> FALSE,
                       key |-> "ragBlock"]
          [] r = 4 -> [action |-> "mask", priority |-> 4 - p, own |-> FALSE,
                       key |-> "ragMask"]] :
      a \in RuleActions, o \in BOOLEAN, p \in {1, 3}, k \in {"pii", "other"}}
=============================================================================
