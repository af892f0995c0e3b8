---------------------- MODULE MCConversationAppend ----------------------
(* ConversationAppend on small instances. *)
EXTENDS ConversationAppend, TLC

CONSTANTS r1, r2, r3, c1, e1, e2

\* All sends go to one conversation.
SameTarget == [r \in Requests |-> c1]

\* So the sends are interchangeable, and the edits too.
SameSymmetry == Permutations(Requests) \cup Permutations(Edits)
=============================================================================
