------------------------ MODULE AtomicFinalization ------------------------
(***************************************************************************)
(* What the Context Engine promises of its runs, as if SQLite and Git were *)
(* one store: a run that is bound to a workstream ends and enters the      *)
(* shared history in one step, once, with one outcome; an unbound run ends *)
(* without a trace in it.                                                  *)
(***************************************************************************)
EXTENDS Naturals, Sequences

CONSTANTS Run, Workstreams, Outcome, NoWorkstream

VARIABLES
    status,     \* status[r]: none, running, recovery_required or an outcome
    binding,    \* binding[r]: the workstream the run works for
    history     \* the acknowledged commits, oldest first

vars == <<status, binding, history>>

Init ==
    /\ status = [r \in Run |-> "none"]
    /\ binding = [r \in Run |-> NoWorkstream]
    /\ history = << >>

Open(r) == status[r] \in {"running", "recovery_required"}
Become(r, s) == status' = [status EXCEPT ![r] = s]

Start(r) ==
    /\ status[r] = "none" /\ Become(r, "running")
    /\ UNCHANGED <<binding, history>>

Bind(r) ==
    /\ status[r] = "running" /\ binding[r] = NoWorkstream
    /\ \E w \in Workstreams : binding' = [binding EXCEPT ![r] = w]
    /\ UNCHANGED <<status, history>>

\* The run's empty workstream is discarded.
Unbind(r) ==
    /\ status[r] = "running"
    /\ binding' = [binding EXCEPT ![r] = NoWorkstream]
    /\ UNCHANGED <<status, history>>

Suspend(r) ==
    /\ status[r] = "running" /\ Become(r, "recovery_required")
    /\ UNCHANGED <<binding, history>>

Close(r, o) ==
    /\ Open(r) /\ Become(r, o)
    /\ history' = IF binding[r] = NoWorkstream THEN history
                  ELSE Append(history, [run |-> r, ws |-> binding[r], outcome |-> o])
    /\ UNCHANGED binding

Next == \E r \in Run :
    Start(r) \/ Bind(r) \/ Unbind(r) \/ Suspend(r) \/ \E o \in Outcome : Close(r, o)

Spec == Init /\ [][Next]_vars
=============================================================================
