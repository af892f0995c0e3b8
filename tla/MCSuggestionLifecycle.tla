----------------------- MODULE MCSuggestionLifecycle -----------------------
(* SuggestionLifecycle on small instances. *)
EXTENDS SuggestionLifecycle, TLC

CONSTANTS w1, w2, d1, d2, d3, k1, p1, p2

\* All bear one stable key; d2 becomes d3 when it is put in canonical form.
Keys == (d1 :> k1 @@ d2 :> k1 @@ d3 :> k1)
BodyOf == (d1 :> "b1" @@ d2 :> "b2" @@ d3 :> "b3")
Forms == (d1 :> d1 @@ d2 :> d3 @@ d3 :> d3)

Symmetric == Permutations(Workers) \cup Permutations(Prompts)
=============================================================================
