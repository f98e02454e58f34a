-------------------------- MODULE LeasedCatalogue --------------------------
(***************************************************************************)
(* What the Context Engine promises to the tools that change a resource    *)
(* and to the readers of its catalogue, as if locks, snapshots and         *)
(* catalogue were one store: a tool changes only what it has been given,   *)
(* nobody else is given that before the outcome is settled, and settling   *)
(* it brings the catalogue up to date there and nowhere back.              *)
(***************************************************************************)
EXTENDS Naturals

CONSTANTS Calls, Files

VARIABLES
    authority,  \* authority[c]: none, working, ended or settled
    scope,      \* scope[c]: the files call c has been given
    content,    \* content[f]: version of the file
    known       \* known[f]: version in the catalogue

vars == <<authority, scope, content, known>>

Init ==
    /\ authority = [c \in Calls |-> "none"]
    /\ scope = [c \in Calls |-> {}]
    /\ content = [f \in Files |-> 0] /\ known = [f \in Files |-> 0]

\* Nobody has confirmed yet what became of the files given to c.
Held(c) == authority[c] \in {"working", "ended"}

Grant(c) ==
    /\ authority[c] = "none" /\ authority' = [authority EXCEPT ![c] = "working"]
    /\ \E S \in SUBSET Files :
          /\ \A d \in Calls : Held(d) => scope[d] \cap S = {}
          /\ scope' = [scope EXCEPT ![c] = S]
    /\ UNCHANGED <<content, known>>

Write(c, f) ==
    /\ authority[c] = "working" /\ f \in scope[c]
    /\ content' = [content EXCEPT ![f] = @ + 1]
    /\ UNCHANGED <<authority, scope, known>>

\* A tool returns; the process dies, and all its tools with it.
Stop(C) ==
    /\ \A c \in C : authority[c] = "working"
    /\ authority' = [c \in Calls |-> IF c \in C THEN "ended" ELSE authority[c]]
    /\ UNCHANGED <<scope, content, known>>

Settle(c) ==
    /\ authority[c] = "ended" /\ authority' = [authority EXCEPT ![c] = "settled"]
    /\ known' \in [Files -> Nat]
    /\ \A f \in Files :
          known'[f] \in (IF f \in scope[c] THEN content[f] ELSE known[f])..content[f]
    /\ UNCHANGED <<scope, content>>

Next ==
    \/ \E c \in Calls : Grant(c) \/ Settle(c) \/ \E f \in Files : Write(c, f)
    \/ \E C \in SUBSET Calls : Stop(C)

Spec == Init /\ [][Next]_vars
=============================================================================
