-------------------------- MODULE SuggestionReview --------------------------
(***************************************************************************)
(* What the review of rule suggestions promises, one suggestion at a time:  *)
(* a draft is revised, approved and enacted in that order, a version names   *)
(* one content, and the rule that is made has the content that was approved. *)
(*                                                                         *)
(* A suggestion is contested once a request has written it that had read it  *)
(* before another request's write; nothing is promised of it any more.       *)
(***************************************************************************)
EXTENDS Naturals

CONSTANTS
    Suggestions,
    Contents,       \* what a suggestion may propose
    Canonical,      \* the form of each content that the runtime understands
    NoContent

VARIABLES
    phase,          \* where each suggestion is in its review
    version,
    content,
    made            \* the content of the rule a suggestion has become

vars == <<phase, version, content, made>>

Phases == {"none", "draft", "approved", "applied", "rejected", "expired", "contested"}
Active == {"draft", "approved"}

Init ==
    /\ phase = [s \in Suggestions |-> "none"]
    /\ version = [s \in Suggestions |-> 0]
    /\ content = [s \in Suggestions |-> NoContent]
    /\ made = [s \in Suggestions |-> NoContent]

Moves(s, from, to) ==
    /\ phase[s] \in from
    /\ phase' = [phase EXCEPT ![s] = to]

NextVersion(s) == version' = [version EXCEPT ![s] = @ + 1]

Becomes(s, c) == content' = [content EXCEPT ![s] = c]

Propose(s) ==
    /\ Moves(s, {"none"}, "draft")
    /\ NextVersion(s)
    /\ \E c \in Contents : Becomes(s, c)
    /\ UNCHANGED made

Revise(s) ==
    /\ Moves(s, {"draft"}, "draft")
    /\ NextVersion(s)
    /\ \E c \in Contents : Becomes(s, c)
    /\ UNCHANGED made

Approve(s) ==
    /\ Moves(s, {"draft"}, "approved")
    /\ NextVersion(s)
    /\ Becomes(s, Canonical[content[s]])
    /\ UNCHANGED made

Enact(s) ==
    /\ Moves(s, {"approved"}, "applied")
    /\ NextVersion(s)
    /\ made' = [made EXCEPT ![s] = content[s]]
    /\ UNCHANGED content

Reject(s) ==
    /\ Moves(s, Active, "rejected")
    /\ NextVersion(s)
    /\ UNCHANGED <<content, made>>

Expire(s) ==
    /\ Moves(s, Active, "expired")
    /\ UNCHANGED <<version, content, made>>

Contest(s) ==
    /\ Moves(s, Phases \ {"none", "contested"}, "contested")
    /\ version' = [version EXCEPT ![s] = 0]
    /\ content' = [content EXCEPT ![s] = NoContent]
    /\ made' = [made EXCEPT ![s] = NoContent]

Next ==
    \E s \in Suggestions :
        \/ Propose(s) \/ Revise(s) \/ Approve(s) \/ Enact(s)
        \/ Reject(s) \/ Expire(s) \/ Contest(s)

Spec == Init /\ [][Next]_vars
=============================================================================
