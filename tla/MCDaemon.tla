------------------------------ MODULE MCDaemon ------------------------------
(***************************************************************************)
(* The parts of the daemon, one beside the other: they share no state in   *)
(* these models (a chat turn sees the agent loop, the context preparation  *)
(* and the memory only through their results), so a behaviour follows one  *)
(* of them and leaves the others where they started.                       *)
(***************************************************************************)
EXTENDS MCPersonalMemory, ContextPreparation, ChatTurns, AgentModes

VARIABLE part   \* the part that moves

daemonVars == <<part, memVars, prepVars, chatVars, modeVars>>

DaemonInit ==
  /\ part \in {"memory", "preparation", "chat", "modes"}
  /\ MemInit /\ PrepInit /\ ChatInit /\ ModeInit
  /\ part # "modes" => ~observed

DaemonNext ==
  \/ part = "memory" /\ MemNext /\ UNCHANGED <<part, prepVars, chatVars, modeVars>>
  \/ part = "preparation" /\ PrepNext /\ UNCHANGED <<part, memVars, chatVars, modeVars>>
  \/ part = "chat" /\ ChatNext /\ UNCHANGED <<part, memVars, prepVars, modeVars>>
  \/ part = "modes" /\ ModeNext /\ UNCHANGED <<part, memVars, prepVars, chatVars>>

DaemonSpec == DaemonInit /\ [][DaemonNext]_daemonVars

\* Every variable of every part has a value of its kind.
DaemonTypeOK == MemTypeOK /\ PrepTypeOK /\ ChatTypeOK /\ ModeTypeOK
=============================================================================
