----------------------------- MODULE AgentModes -----------------------------
(***************************************************************************)
(* One run of the agent loop (src/ayati-main/src/ivec/agent-runner): the   *)
(* graph of virtual modes that decides what the model may do next, the     *)
(* three detours that leave a mode and come back to it, the one attempt to *)
(* bind the run to a workstream, the failures that stay active until they  *)
(* are resolved, and the ways a run ends.                                  *)
(*                                                                         *)
(* What the model decides, and whether a tool, a validation or a binding   *)
(* succeeds, is left open; so is the state of the plan (open tasks), and   *)
(* the wording of requests, which may make a transition invalid.           *)
(***************************************************************************)
EXTENDS Integers, Sequences, FiniteSets

CONSTANTS
  MaxIterations,  \* config.maxIterations
  MaxFailures     \* config.maxConsecutiveFailures

ASSUME ModeLimits == MaxIterations \in Nat /\ MaxFailures \in Nat \ {0}

VARIABLES
  vm,           \* state.virtualMode
  operational,  \* its flag: the graph is active
  bound,        \* the loop's context says the run is bound to a workstream
  engineBound,  \* the Context Engine does
  policy,       \* bindingAttemptPolicy
  iteration, credits,   \* of the turn budget
  strikes,      \* consecutiveFailures
  open,         \* scopes of the active failures
  observed,     \* the routing evidence of the run
  journal,      \* tool calls of the run so far
  projection,   \* the journal that runContextProjection was made from
  turn,         \* where the loop is
  result,       \* how the run ended
  left,         \* history: the mode that the detour in progress left
  consumed,     \* history: binding attempts that may have changed something
  proven,       \* history: a validation passed after the last write
  wrote         \* history: a tool that changes the workspace was called

runVars == <<bound, engineBound, policy, observed, journal, projection, consumed, proven, wrote>>
loopVars == <<iteration, credits, strikes, open, turn, result>>
modeVars == <<vm, operational, left, runVars, loopVars>>

Scopes == {"navigation", "binding", "validation", "action"}
Detours == {"context.retrieve", "run.maintain", "context.maintain"}
Destinations == {"context.retrieve", "observe.locate", "observe.investigate",
                 "workstream.route", "resolve", "execute", "validation"}
ModeNames == {"ENTRY"} \cup (Destinations \ {"resolve"}) \cup Detours

\* A mode with the state that it returns to, if it is a detour.
Mode(at, checked, back) ==
  [at |-> at, since |-> iteration, checked |-> checked, tries |-> 0, back |-> back]
EntryMode == [at |-> "ENTRY", since |-> 0, checked |-> "none", tries |-> 0, back |-> <<>>]

-----------------------------------------------------------------------------
(* The graph.                                                              *)

Graph(m) ==
  CASE m = "ENTRY" -> {"context.retrieve", "observe.locate", "observe.investigate"}
    [] m \in {"observe.locate", "observe.investigate"} ->
         {"context.retrieve", "observe.locate", "observe.investigate",
          "workstream.route", "validation"}
    [] m = "workstream.route" ->
         {"context.retrieve", "observe.locate", "observe.investigate", "resolve"}
    [] m = "execute" ->
         {"context.retrieve", "execute", "observe.locate", "observe.investigate", "validation"}
    [] m = "validation" -> {"observe.locate", "observe.investigate"}
    [] m \in Detours -> {}

\* allowedVirtualModeTransitions
Allowed(m) ==
  IF bound
  THEN IF m = "workstream.route" THEN {"execute"}
       ELSE IF m \in {"ENTRY", "observe.locate", "observe.investigate", "validation"}
       THEN (Graph(m) \ {"workstream.route"}) \cup {"execute"}
       ELSE Graph(m)
  ELSE IF m = "ENTRY" /\ observed THEN Graph(m) \cup {"workstream.route"}
  ELSE IF observed THEN Graph(m)
  ELSE Graph(m) \ {IF m = "workstream.route" THEN "resolve" ELSE "workstream.route"}

\* A mutant: the next mode inherits the validation.
MutantApplyTransition(to, checked) ==
  Mode(to, IF to = "validation" THEN checked ELSE vm.checked,
       IF to = "context.retrieve" THEN <<vm>> ELSE <<>>)

\* applyVirtualModeTransition: the next mode starts without validation.
ApplyTransition(to, checked) ==
  Mode(to, checked, IF to = "context.retrieve" THEN <<vm>> ELSE <<>>)

\* recordVirtualResolveVisit
ResolveVisit == [vm EXCEPT !.since = iteration]

\* enterRunMaintainMode, enterContextMaintainMode
EnterDetour(at) == Mode(at, "none", <<vm>>)

\* restoreVirtualModeAfterContextRetrieval, which drops a validation
RestoreRetrieve == [vm.back[1] EXCEPT !.checked = "none"]

\* A mutant: it is restored like a retrieval.
MutantRestoreMaintain == [vm.back[1] EXCEPT !.checked = "none"]

\* restoreVirtualModeAfterRunMaintenance, ...AfterContextMaintenance
RestoreMaintain == vm.back[1]

\* The mode that the outermost detour in progress will come back to.
Leaving(m) == IF vm.at \in Detours THEN left ELSE m

-----------------------------------------------------------------------------
(* Ends, repairs and turns.                                                *)

Deciding == turn \in {"measuring", "deciding"}
Passed == vm.checked = "passed"

Endings == {"none", "guard", "interrupted", "limit", "context_limit", "provider",
            "maintenance", "threw", "reply", "stop", "question"}
End(status, by) == turn' = "ended" /\ result' = [status |-> status, by |-> by]
Continue == turn' = "top" /\ UNCHANGED result

\* An active failure of the scope.  Most repairs end the run when the same
\* one was asked for repeatedly, or too many failures came in a row.
Strike(scope, guarded) ==
  /\ strikes' = strikes + 1
  /\ open' = open \cup {scope}
  /\ \/ /\ guarded
        /\ strikes + 1 >= MaxFailures \/ scope \in open
        /\ End("failed", "guard")
     \/ /\ guarded => strikes + 1 < MaxFailures
        /\ Continue

Succeed(scopes) ==
  /\ strikes' = 0 /\ open' = open \ scopes /\ Continue

KeepMode == UNCHANGED <<vm, operational, left>>
KeepBudget == UNCHANGED <<iteration, credits>>

BeginTurn ==
  /\ turn = "top" /\ iteration - credits < MaxIterations
  /\ \/ /\ iteration' = iteration + 1
        /\ turn' = "measuring"
        /\ UNCHANGED result
     \/ End("failed", "interrupted") /\ UNCHANGED iteration
  /\ KeepMode /\ UNCHANGED <<runVars, credits, strikes, open>>

\* The loop has used its budget: a run that is proven is completed, any other
\* one is handed over.
RunLimit ==
  /\ turn = "top" /\ iteration - credits >= MaxIterations
  /\ \/ Passed /\ open = {} /\ End("completed", "limit")
     \/ End("stuck", "limit")
  /\ KeepMode /\ UNCHANGED <<runVars, iteration, credits, strikes, open>>

-----------------------------------------------------------------------------
(* Inside the call of the model.                                           *)

\* The conversation is compacted: a checkpoint is prepared in context.maintain.
EnterContextMaintain ==
  /\ turn = "measuring"
  /\ vm' = EnterDetour("context.maintain")
  /\ left' = Leaving(vm)
  /\ turn' = "compacting"
  /\ UNCHANGED <<operational, runVars, iteration, credits, strikes, open, result>>

\* The finally of the compaction; a committed checkpoint brings the engine's
\* context with it.
ExitContextMaintain ==
  /\ turn = "compacting"
  /\ vm' = RestoreMaintain
  /\ bound' \in {bound, engineBound}
  /\ turn' = "deciding"
  /\ UNCHANGED <<operational, left, engineBound, policy, observed, journal, projection, consumed,
                 proven, wrote, iteration, credits, strikes, open, result>>

\* No decision: the context does not fit, or the provider failed.
DecisionFails ==
  /\ Deciding
  /\ \/ End("stuck", "context_limit")
     \/ End("failed", "provider")
  /\ KeepMode /\ KeepBudget /\ UNCHANGED <<runVars, strikes, open>>

-----------------------------------------------------------------------------
(* Maintenance of the run context.                                         *)

\* A mutant: it is entered again although nothing new can be released.
MutantEnterRunMaintain ==
  /\ Deciding /\ operational /\ vm.at # "run.maintain"
  /\ vm' = EnterDetour("run.maintain")
  /\ left' = Leaving(vm)
  /\ credits' = credits + 1
  /\ Continue
  /\ UNCHANGED <<operational, runVars, iteration, strikes, open>>

\* Over the soft limit with something new to release: the decision is dropped.
EnterRunMaintain ==
  /\ Deciding /\ operational /\ vm.at # "run.maintain"
  /\ projection < journal
  /\ vm' = EnterDetour("run.maintain")
  /\ left' = Leaving(vm)
  /\ credits' = credits + 1
  /\ Continue
  /\ UNCHANGED <<operational, runVars, iteration, strikes, open>>

\* handleRunContextMaintenanceDecision: the selection is applied, or rejected;
\* after the second rejection the default selection is tried.
MaintainRunContext ==
  /\ Deciding /\ vm.at = "run.maintain"
  /\ credits' = credits + 1
  /\ \/ /\ vm' = RestoreMaintain
        /\ projection' = journal
        /\ bound' \in {bound, engineBound}
        /\ Continue
        /\ UNCHANGED <<strikes, open>>
     \/ /\ vm.tries = 0
        /\ vm' = [vm EXCEPT !.tries = 1]
        /\ Strike("navigation", FALSE)
        /\ UNCHANGED <<projection, bound>>
     \/ /\ vm.tries = 1
        /\ vm' = [vm EXCEPT !.tries = 2]
        /\ End("stuck", "maintenance")
        /\ UNCHANGED <<projection, bound, strikes, open>>
     \/ /\ End("failed", "threw")
        /\ UNCHANGED <<vm, projection, bound, strikes, open>>
  /\ UNCHANGED <<operational, left, engineBound, policy, observed, journal, consumed, proven,
                 wrote, iteration>>

\* A checkpoint of the work state is owed, invalid, or stored.
CheckpointWorkState ==
  /\ Deciding /\ operational /\ vm.at # "run.maintain"
  /\ \/ Strike("navigation", FALSE) /\ UNCHANGED bound
     \/ /\ bound' \in {bound, engineBound}
        /\ Continue
        /\ UNCHANGED <<strikes, open>>
  /\ KeepMode /\ KeepBudget
  /\ UNCHANGED <<engineBound, policy, observed, journal, projection, consumed, proven, wrote>>

-----------------------------------------------------------------------------
(* Answers.                                                                *)

\* directResponseRepair: the scope of the repair, or none.  Whether the plan
\* has open tasks is not modelled.
ReplyRepairs ==
  IF vm.at \in Detours THEN {"navigation"}
  ELSE IF Passed THEN {"validation"} \cup (IF open = {} THEN {"none"} ELSE {})
  ELSE IF operational THEN {"validation"} ELSE {"none"}

Reply ==
  /\ Deciding
  /\ \E scope \in ReplyRepairs :
       IF scope = "none"
       THEN /\ \E status \in {"completed", "failed"} : End(status, "reply")
            /\ UNCHANGED <<strikes, open>>
       ELSE Strike(scope, TRUE)
  /\ KeepMode /\ KeepBudget /\ UNCHANGED runVars

\* dispatchTerminalStop: a blocked or failed outcome needs a failure (or an
\* open task).  What is accepted resolves every failure.
Stop ==
  /\ Deciding /\ operational /\ vm.at # "run.maintain"
  /\ \/ Strike("validation", TRUE)
     \/ /\ \E status \in {"completed", "stuck", "failed"} :
             /\ status = "failed" => open # {}
             /\ End(status, "stop")
        /\ strikes' = 0 /\ open' = {}
  /\ KeepMode /\ KeepBudget /\ UNCHANGED runVars

-----------------------------------------------------------------------------
(* Transitions.                                                            *)

\* Any other destination than resolve.
TransitionMode(to) ==
  /\ Deciding /\ to \in Allowed(vm.at) \ {"resolve"}
  /\ \E checked \in IF to = "validation" THEN {"passed", "failed"} ELSE {"none"} :
       /\ vm' = ApplyTransition(to, checked)
       /\ Succeed(IF checked = "passed" THEN {"navigation", "validation"} ELSE {"navigation"})
       /\ proven' = (proven \/ checked = "passed")
  /\ operational' = (operational \/ to # "context.retrieve")
  /\ left' = IF to = "context.retrieve" THEN vm ELSE left
  /\ KeepBudget
  /\ UNCHANGED <<bound, engineBound, policy, observed, journal, projection, consumed, wrote>>

\* The edge, the request, a target or the proof is not valid.
RejectTransition ==
  /\ Deciding /\ vm.at # "run.maintain"
  /\ \E scope \in {"navigation", "binding", "validation"} : Strike(scope, TRUE)
  /\ KeepMode /\ KeepBudget /\ UNCHANGED runVars

\* dispatchResolveTransition: the visit is recorded whatever comes of it.
AtResolve ==
  /\ Deciding /\ "resolve" \in Allowed(vm.at)
  /\ operational' = TRUE
  /\ KeepBudget /\ UNCHANGED <<left, observed, journal, projection, proven, wrote>>

\* The gate rejects the request, also when the attempt was used.
ResolveRejected ==
  /\ AtResolve
  /\ vm' = ResolveVisit
  /\ \E scope \in {"navigation", "binding"} : Strike(scope, TRUE)
  /\ UNCHANGED <<bound, engineBound, policy, consumed>>

\* The target is owned by another workstream: the user is asked.
ResolveAsks ==
  /\ AtResolve /\ ~policy.unavailable
  /\ vm' = ResolveVisit
  /\ End("completed", "question")
  /\ strikes' = 0 /\ open' = {}
  /\ UNCHANGED <<bound, engineBound, policy, consumed>>

\* A mutant: an attempt is counted, whatever it did.
MutantRecordAttempt(used) ==
  policy' = [attempts |-> policy.attempts + 1,
             unavailable |-> policy.unavailable \/ policy.attempts + 1 >= 2]

\* recordBindingAttempt
RecordAttempt(used) ==
  policy' = [attempts |-> policy.attempts + 1,
             unavailable |-> policy.unavailable \/ used \/ policy.attempts + 1 >= 2]

\* The attempt fails: nothing was changed and it may be corrected, or it may
\* have bound the run in the engine before it failed.
ResolveFails ==
  /\ AtResolve /\ ~policy.unavailable
  /\ vm' = ResolveVisit
  /\ \/ /\ RecordAttempt(FALSE)
        /\ Strike("navigation", FALSE)
        /\ UNCHANGED <<engineBound, consumed>>
     \/ /\ RecordAttempt(TRUE)
        /\ Strike("binding", FALSE)
        /\ engineBound' \in {engineBound, TRUE}
        /\ consumed' = consumed + 1
  /\ UNCHANGED bound

\* The run is bound: it executes, unless no requested tool is eligible.
ResolveBinds ==
  /\ AtResolve /\ ~policy.unavailable
  /\ RecordAttempt(TRUE)
  /\ engineBound' = TRUE /\ bound' = TRUE
  /\ consumed' = consumed + 1
  /\ \/ vm' = ApplyTransition("execute", "none") /\ Succeed({"navigation", "binding"})
     \/ vm' = ResolveVisit /\ Strike("binding", FALSE)

-----------------------------------------------------------------------------
(* Actions.                                                                *)

\* filterToolsForMode
MayObserve == vm.at \in {"observe.locate", "observe.investigate", "validation", "execute"}
MayWrite == vm.at = "execute" /\ bound

\* A tool of another mode, or a read that makes no progress.
RepairAction ==
  /\ Deciding /\ (MayObserve \/ MayWrite)
  /\ \E scope \in Scopes \ {"validation"} : Strike(scope, TRUE)
  /\ KeepMode /\ KeepBudget /\ UNCHANGED runVars

\* A durable step: executed, persisted with the engine's context in return.
RunStep(writes) ==
  /\ Deciding
  /\ IF writes THEN MayWrite ELSE MayObserve
  /\ journal' = journal + 1
  /\ wrote' = (wrote \/ writes)
  /\ proven' = (proven /\ ~writes)
  /\ \/ /\ bound' = engineBound
        /\ observed' \in {observed, TRUE}
        /\ Succeed({"action"})
     \/ /\ bound' = engineBound
        /\ Strike("action", TRUE)
        /\ UNCHANGED observed
     \/ /\ End("failed", "threw")
        /\ UNCHANGED <<bound, observed, strikes, open>>
  /\ KeepMode /\ KeepBudget /\ UNCHANGED <<engineBound, policy, projection, consumed>>

\* context_load, transient: the mode is restored whether it succeeds or fails.
LoadContext ==
  /\ Deciding /\ vm.at = "context.retrieve"
  /\ journal' = journal + 1
  /\ \/ vm' = RestoreRetrieve /\ Succeed({})
     \/ vm' = RestoreRetrieve /\ Strike("action", TRUE)
     \/ End("failed", "threw") /\ UNCHANGED <<vm, strikes, open>>
  /\ KeepBudget
  /\ UNCHANGED <<operational, left, bound, engineBound, policy, observed, projection,
                 consumed, proven, wrote>>

ModeInit ==
  /\ vm = EntryMode /\ operational = FALSE /\ left = EntryMode
  /\ bound = FALSE /\ engineBound = FALSE
  /\ policy = [attempts |-> 0, unavailable |-> FALSE]
  /\ iteration = 0 /\ credits = 0 /\ strikes = 0 /\ open = {}
  /\ observed \in BOOLEAN /\ journal = 0 /\ projection = 0
  /\ turn = "top" /\ result = [status |-> "running", by |-> "none"]
  /\ consumed = 0 /\ proven = FALSE /\ wrote = FALSE

ModeNext ==
  \/ BeginTurn \/ RunLimit
  \/ EnterContextMaintain \/ ExitContextMaintain \/ DecisionFails
  \/ EnterRunMaintain \/ MaintainRunContext \/ CheckpointWorkState
  \/ Reply \/ Stop
  \/ \E to \in Destinations : TransitionMode(to)
  \/ RejectTransition
  \/ ResolveRejected \/ ResolveAsks \/ ResolveFails \/ ResolveBinds
  \/ RepairAction
  \/ \E writes \in BOOLEAN : RunStep(writes)
  \/ LoadContext

ModeSpec == ModeInit /\ [][ModeNext]_modeVars

-----------------------------------------------------------------------------
(* Properties.                                                             *)

\* A place of the graph, and the detours, each with the mode it returns to:
\* compaction may interrupt maintenance, and both may interrupt a retrieval.
ModeRecord(names, returns) ==
  [at : names, since : Nat, checked : {"none", "failed", "passed"}, tries : 0..2, back : returns]
ReturnTo(S) == {s \in Seq(S) : Len(s) = 1}
Places == ModeRecord(ModeNames \ Detours, {<<>>})
Retrievals == ModeRecord({"context.retrieve"}, ReturnTo(Places))
RunMaintains == ModeRecord({"run.maintain"}, ReturnTo(Places \cup Retrievals))
ContextMaintains ==
  ModeRecord({"context.maintain"}, ReturnTo(Places \cup Retrievals \cup RunMaintains))

\* Every variable has a value of its kind.
ModeTypeOK ==
  /\ vm \in Places \cup Retrievals \cup RunMaintains \cup ContextMaintains
  /\ left \in Places
  /\ {operational, bound, engineBound, observed, proven, wrote} \subseteq BOOLEAN
  /\ policy \in [attempts : Nat, unavailable : BOOLEAN]
  /\ iteration \in Nat /\ credits \in Nat /\ strikes \in Nat /\ consumed \in Nat
  /\ open \subseteq Scopes
  /\ journal \in Nat /\ projection \in 0..journal
  /\ turn \in {"top", "measuring", "compacting", "deciding", "ended"}
  /\ result \in [status : {"running", "completed", "stuck", "failed"}, by : Endings]

\* A detour comes back to the mode that was left: same mode, same grant, same
\* validation, also when detours are nested, rejected or cut short.
DetoursReturn ==
  [][vm.at \in Detours /\ vm'.at \notin Detours => vm' = left]_modeVars

\* A run that has worked is reported as completed only when a validation
\* passed after its last write and no failure is active; a run that has not
\* entered the graph has run no step that could need a proof.
CompletedIsProven ==
  result.status = "completed" /\ result.by \in {"reply", "limit"} =>
    IF operational THEN Passed /\ proven /\ open = {} ELSE ~wrote

\* At most one attempt may have changed the engine, it is never followed by
\* another one, and the run writes only when the engine has bound it.
BindingIsTriedOnce ==
  /\ consumed <= 1 /\ policy.attempts <= 2
  /\ consumed = 1 => policy.unavailable
  /\ bound \/ wrote => engineBound

\* Maintenance cannot loop: a run spends at most three turns on each new tool
\* call it can release, and no more turns of work than its budget.
MaintenanceIsBounded ==
  /\ credits <= 3 * journal
  /\ iteration <= MaxIterations + credits
=============================================================================
