--------------------------- MODULE MCContextTerms ---------------------------
(* ContextTerms on a small instance. *)
EXTENDS ContextTerms, TLC

CONSTANTS w1, w2, w3, l1, l2, e1, r1, r2, p1, p2, key, part, whole, long

\* A request in each process, and a scan.
Apart == [x \in Writers \cup Loaders |-> IF x \in {w2, l2} THEN p2 ELSE p1]

Ranks == <<whole, long>>

Secret(x, on) == [word |-> x, type |-> "secret", on |-> on]
Other(x) == [word |-> x, type |-> "other", on |-> TRUE]

One(x) == [all |-> FALSE, nodes |-> <<[leaf |-> TRUE, words |-> {x}]>>]
Two(x, y) == [all |-> TRUE, nodes |-> <<[leaf |-> TRUE, words |-> {x}],
                                         [leaf |-> TRUE, words |-> {y}]>>]

Asked(kind, r, c, m, ts) == [kind |-> kind, rule |-> r, cond |-> c, mode |-> m, terms |-> ts]

SomeJobs ==
    {Asked("create", r1, One(key), "strict", {Other(key)}),
     Asked("create", r1, One(key), "semantic", {Secret(part, TRUE)}),
     Asked("create", r2, One(long), "semantic", {Secret(key, FALSE)}),
     Asked("apply", r2, Two(key, long), "strict", {Secret(key, FALSE)}),
     Asked("update", r1, Nothing, Nothing, {Secret(part, TRUE)}),
     Asked("update", r1, Nothing, Nothing, {Secret(key, FALSE), Secret(long, TRUE)}),
     Asked("update", r1, Two(key, long), Nothing, Nothing),
     Asked("update", r1, Nothing, "semantic", Nothing),
     Asked("delete", r1, Nothing, Nothing, Nothing)}
=============================================================================
