-------------------------- MODULE MCPersonalMemory --------------------------
(* Values of the constants of PersonalMemory for TLC.                       *)
EXTENDS PersonalMemory

MCSectionOf ==
  [a \in {"name", "friends", "trip", "style", "tone"} |->
     CASE a \in {"name", "friends"} -> "facts"
       [] a = "trip" -> "timed"
       [] a \in {"style", "tone"} -> "evolving"]

MCProposal(a, v, c, s, e) == [addr |-> a, value |-> v, conf |-> c, source |-> s, expires |-> e]

\* Two values for the name of the user, one strong; a fact of a set with the
\* content of the weak one, so that a job or the user wants it where a protected
\* name is; a timed fact; two addresses with one content.
MCProposals ==
  {MCProposal("name", "v1", 85, "manual", 0), MCProposal("name", "v2", 70, "weak", 0),
   MCProposal("friends", "v2", 85, "manual", 0), MCProposal("trip", "v1", 80, "explicit", 1),
   MCProposal("tone", "v1", 78, "explicit", 0), MCProposal("style", "v1", 70, "weak", 0)}

MCLimit == [s \in {"facts", "timed", "evolving"} |-> 1]
=============================================================================
