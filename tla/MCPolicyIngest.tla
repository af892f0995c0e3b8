--------------------------- MODULE MCPolicyIngest ---------------------------
(* PolicyIngest on small instances. *)
EXTENDS PolicyIngest, TLC

CONSTANTS j1, j2, j3, k1, k2, a, b, w1, w2, e1

\* Two contents; the edits disable and enable.
Enabled == [content: Contents, enabled: {TRUE}]

Symmetric == Permutations(Contents) \cup Permutations(Workers)
               \cup Permutations(Keys) \cup Permutations(Jobs)
=============================================================================
