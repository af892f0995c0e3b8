--------------------------- MODULE MCRuleRuntime ---------------------------
(* RuleRuntime on small instances. *)
EXTENDS RuleRuntime, TLC

CONSTANTS w1, w2, l1, k1, k2, i1, p1, p2

\* The second request runs in another process than all else.
Apart == [x \in Writers \cup Loaders |-> IF x = w2 THEN p2 ELSE p1]

\* Every request there is, to one global key and one custom key.
AllJobs == Job
=============================================================================
