------------------------- MODULE ContextPreparation -------------------------
(***************************************************************************)
(* How a run keeps its prompt inside the model's window                    *)
(* (src/ayati-main/src/ivec/context-preparation): before each decision the *)
(* context is compiled; older tool calls may be summarised into a focus    *)
(* overlay, in the background or at the barrier; older conversation may be *)
(* replaced by a checkpoint, which the Context Engine plans and commits    *)
(* (src/ayati-context-engine/src/services/context-checkpoint-service.ts).  *)
(*                                                                         *)
(* Runs follow one another; each has a manager (a lane) with one candidate *)
(* slot.  All lanes share the provider's one background slot, and the      *)
(* summary of a lane that was closed goes on occupying it.  A step is what *)
(* happens from one await to the next.  The policy is "enforce".           *)
(***************************************************************************)
EXTENDS Integers, Sequences, FiniteSets

CONSTANTS
  MaxRuns,       \* bounds the runs
  MaxCalls,      \* bounds the tool calls of a run
  EarlierRuns,   \* runs that ended before the daemon started
  HotCalls       \* HOT_MAIN_CALL_COUNT: the newest calls stay exact

ASSUME PrepBounds ==
  MaxRuns \in Nat /\ MaxCalls \in Nat /\ HotCalls \in Nat /\ EarlierRuns \in Nat

VARIABLES
  run,        \* number of the current or last run
  phase,      \* where the run is in compilePreparedMainContext
  calls,      \* tool calls of the run: "plain", or "kept" (failed, evidence)
  pressure,   \* the measured request
  tries,      \* synchronousAttempts
  overlay,    \* activeOverlay: the calls it covers, and how many came before
  slot,       \* the candidate of the manager
  generation, terminal,      \* of the manager
  prepJobs,   \* runs of runJob that have not settled
  active,     \* key of the task in the provider's background slot
  completed,  \* terminal runs of the stream
  covered,    \* how many of them the active checkpoint covers
  attempted   \* history: sources whose summary was asked of the model

prepVars == <<run, phase, calls, pressure, tries, overlay, slot, generation,
              terminal, prepJobs, active, completed, covered, attempted>>

Pressures == {"low", "trigger", "soft", "barrier"}
AtMost(p) == CASE p = "low" -> {"low"}
               [] p = "trigger" -> {"low", "trigger"}
               [] p = "soft" -> {"low", "trigger", "soft"}
               [] p = "barrier" -> Pressures

Focus(src, n) == [run |-> run, kind |-> "run_focus", src |-> src, base |-> n]
Checkpoint(to) == [run |-> run, kind |-> "durable_checkpoint", src |-> {}, base |-> to]
NoKey == [run |-> 0, kind |-> "none", src |-> {}, base |-> 0]
NoOverlay == [on |-> FALSE, covers |-> {}, nth |-> 0]
EmptySlot == [status |-> "empty", key |-> NoKey, covers |-> {}]
Outstanding(s) == s.status \in {"preparing", "ready"}

-----------------------------------------------------------------------------
(* The journal of the run and what the prompt shows of it.                 *)

Indices == 1..Len(calls)
Hot == {i \in Indices : i > Len(calls) - HotCalls}

\* applyMainFocusOverlay: the covered calls that are neither hot nor kept go.
Shown == {i \in Indices : i \in Hot \/ calls[i] = "kept" \/ i \notin overlay.covers}

\* buildMainSourceSnapshot: the plain calls that are older than the hot ones
\* of those shown.
Eligible == {i \in Shown : /\ calls[i] = "plain"
                           /\ Cardinality({j \in Shown : j > i}) >= HotCalls}
HasSource == Eligible # {} \/ overlay.on
FocusKey == Focus(Eligible, overlay.nth)

\* validateMainCandidate for a focus: the source it was made from is still
\* shown unchanged, and so is the focus it continues.
ValidFocus(s) ==
  /\ s.key.src \subseteq Shown
  /\ s.key.base > 0 => s.key.base = overlay.nth

-----------------------------------------------------------------------------
(* ContextPreparationManager.                                              *)

\* A mutant: a focus covers the calls of its source only.
MutantCandidate(key) ==
  [status |-> "preparing", key |-> key, covers |-> key.src]

\* createPreparingCandidate for a job; a focus covers what the overlay covers
\* and the calls of its source.
Candidate(key) ==
  [status |-> "preparing", key |-> key,
   covers |-> IF key.kind = "run_focus" THEN key.src \cup overlay.covers ELSE {}]

\* The slot moves to adopted, stale or discarded: its job is not run again.
Transition(st) ==
  /\ slot' = [slot EXCEPT !.status = st]
  /\ terminal' = terminal \cup {slot.key}

\* runJob up to its first await: a background summary finds the provider's
\* slot free or busy, a synchronous one waits for it.
Launch(key, background) ==
  /\ generation' = generation + 1
  /\ slot' = Candidate(key)
  /\ prepJobs' = prepJobs \cup
       {[key |-> key, gen |-> generation + 1,
         at |-> IF active = NoKey THEN "running"
                ELSE IF background THEN "busy" ELSE "queued"]}
  /\ active' = IF active = NoKey THEN key ELSE active
  /\ attempted' = IF active = NoKey THEN attempted \cup {key} ELSE attempted

\* startBackground
StartBackground(key) ==
  IF slot.key = key \/ key \in terminal \/ Outstanding(slot)
  THEN UNCHANGED <<generation, slot, prepJobs, active, attempted, terminal>>
  ELSE Launch(key, TRUE) /\ UNCHANGED terminal

\* prepareSynchronously when it has a job to run: whatever occupies the slot
\* is given up first.
MayPrepare(key) == slot.key # key /\ key \notin terminal
PrepareSynchronously(key) ==
  /\ Launch(key, FALSE)
  /\ terminal' = IF Outstanding(slot) THEN terminal \cup {slot.key} ELSE terminal

\* The completion of runJob: it counts only if the lane is open and nothing
\* has replaced its candidate.
StillWanted(j) ==
  phase # "idle" /\ j.key.run = run /\ j.gen = generation /\ slot.key = j.key

\* A mutant: a failed job may be tried again.
MutantSettle(j, status) ==
  /\ prepJobs' = prepJobs \ {j}
  /\ slot' = IF StillWanted(j) THEN [slot EXCEPT !.status = status] ELSE slot
  /\ UNCHANGED terminal

Settle(j, status) ==
  /\ prepJobs' = prepJobs \ {j}
  /\ IF StillWanted(j)
     THEN /\ slot' = [slot EXCEPT !.status = status]
          /\ terminal' = IF status = "failed" THEN terminal \cup {j.key} ELSE terminal
     ELSE UNCHANGED <<slot, terminal>>

-----------------------------------------------------------------------------
(* ProviderBackgroundSummaryScheduler.                                     *)

Elsewhere == <<run, phase, calls, pressure, tries, overlay, generation, completed, covered>>

\* The model answers or fails; the slot is free again.
SummaryEnds ==
  \E j \in prepJobs : \E status \in {"ready", "failed"} :
    /\ j.at = "running"
    /\ active' = NoKey
    /\ Settle(j, status)
    /\ UNCHANGED <<Elsewhere, attempted>>

\* A mutant: the candidate of a job that found the slot busy is not failed.
MutantSlotWasBusy ==
  \E j \in prepJobs :
    /\ j.at = "busy"
    /\ prepJobs' = prepJobs \ {j}
    /\ UNCHANGED <<Elsewhere, slot, terminal, active, attempted>>

\* runSemanticBackground found the slot busy: the job fails.
SlotWasBusy ==
  \E j \in prepJobs :
    /\ j.at = "busy"
    /\ Settle(j, "failed")
    /\ UNCHANGED <<Elsewhere, active, attempted>>

\* A mutant: a queued job does not wait.
MutantSlotIsFree ==
  \E j \in prepJobs :
    /\ j.at = "queued"
    /\ active' = j.key
    /\ attempted' = attempted \cup {j.key}
    /\ prepJobs' = (prepJobs \ {j}) \cup {[j EXCEPT !.at = "running"]}
    /\ UNCHANGED <<Elsewhere, slot, terminal>>

\* runWhenAvailable
SlotIsFree ==
  \E j \in prepJobs :
    /\ j.at = "queued" /\ active = NoKey
    /\ active' = j.key
    /\ attempted' = attempted \cup {j.key}
    /\ prepJobs' = (prepJobs \ {j}) \cup {[j EXCEPT !.at = "running"]}
    /\ UNCHANGED <<Elsewhere, slot, terminal>>

-----------------------------------------------------------------------------
(* compilePreparedMainContext, phase by phase.                             *)

Manager == <<slot, generation, terminal, prepJobs, active, attempted>>
Stream == <<completed, covered>>
Journal == <<run, calls>>

\* A decision is about to be made: the request is measured.
BeginCompile(p) ==
  /\ phase' = "compile" /\ pressure' = p /\ tries' = 0

StartRun ==
  /\ phase = "idle" /\ run < MaxRuns
  /\ run' = run + 1
  /\ calls' = <<>> /\ overlay' = NoOverlay
  /\ slot' = EmptySlot /\ generation' = 0 /\ terminal' = {}
  /\ \E p \in Pressures : BeginCompile(p)
  /\ UNCHANGED <<prepJobs, active, attempted, Stream>>

\* A tool call of the decision; the next decision compiles again.
Act(kind) ==
  /\ phase = "acting" /\ Len(calls) < MaxCalls
  /\ calls' = Append(calls, kind)
  /\ \E p \in Pressures : BeginCompile(p)
  /\ UNCHANGED <<run, overlay, Manager, Stream>>

\* considerCandidate for a focus: adopted with less in the prompt, or stale.
Consider ==
  IF slot.key.kind = "run_focus" /\ ValidFocus(slot)
  THEN /\ overlay' = [on |-> TRUE, covers |-> slot.covers, nth |-> overlay.nth + 1]
       /\ Transition("adopted")
       /\ pressure' \in AtMost(pressure)
  ELSE Transition("stale") /\ UNCHANGED <<overlay, pressure>>

\* The candidate that became ready since the last decision.
ConsiderReady ==
  /\ phase = "compile"
  /\ phase' = "maintain"
  /\ IF slot.status = "ready" THEN Consider
                              ELSE UNCHANGED <<overlay, slot, terminal, pressure>>
  /\ UNCHANGED <<Journal, tries, generation, prepJobs, active, attempted, Stream>>

\* ContextCheckpointService.plan: a prefix of terminal runs before the
\* newest completed one, which stays exact.
PlannedTo == completed - 1
CanPlan == PlannedTo > covered

\* recoverMainContextDeterministically, above the soft limit
Recovered(p) == IF p \in {"soft", "barrier"} THEN AtMost(p) ELSE {p}

\* At the barrier the runtime waits once for a candidate in preparation.
AfterMaintenance(p) ==
  IF p = "barrier" /\ slot'.status = "preparing"
  THEN phase' = "waiting" /\ pressure' = p
  ELSE phase' = "focus" /\ pressure' \in Recovered(p)

\* The conversation outgrew its budget: a checkpoint is prepared, once for a
\* source.
Maintain ==
  /\ phase = "maintain"
  /\ \/ UNCHANGED <<Manager>> /\ AfterMaintenance(pressure)
     \/ /\ CanPlan /\ MayPrepare(Checkpoint(PlannedTo))
        /\ PrepareSynchronously(Checkpoint(PlannedTo))
        /\ phase' = "maintaining" /\ UNCHANGED pressure
  /\ UNCHANGED <<Journal, tries, overlay, Stream>>

\* The checkpoint is ready: the engine checks that the active checkpoint is
\* still the plan's base, and commits.  Everything else ends as stale: also a
\* committed checkpoint whose notification throws (the personal memory is
\* closed before the last run has ended).
CommitCheckpoint ==
  /\ phase = "maintaining" /\ slot.status # "preparing"
  /\ IF slot.status = "ready"
     THEN \/ /\ covered < slot.key.base
             /\ covered' = slot.key.base
             /\ Transition("adopted")
             /\ \E p \in AtMost(pressure) : AfterMaintenance(p)
          \/ /\ Transition("stale")
             /\ covered' \in {covered} \cup {to \in {slot.key.base} : covered < to}
             /\ AfterMaintenance(pressure)
     ELSE UNCHANGED <<covered, slot, terminal>> /\ AfterMaintenance(pressure)
  /\ UNCHANGED <<Journal, tries, overlay, generation, prepJobs, active, attempted, completed>>

WaitedFor ==
  /\ phase = "waiting" /\ slot.status # "preparing"
  /\ phase' = "recover"
  /\ IF slot.status = "ready" THEN Consider
                              ELSE UNCHANGED <<overlay, slot, terminal, pressure>>
  /\ UNCHANGED <<Journal, tries, generation, prepJobs, active, attempted, Stream>>

Recover ==
  /\ phase = "recover"
  /\ phase' = "focus"
  /\ pressure' \in Recovered(pressure)
  /\ UNCHANGED <<Journal, tries, overlay, Manager, Stream>>

\* Still at the barrier: at most two synchronous summaries.
MayRetry == pressure = "barrier" /\ tries < 2 /\ HasSource

FocusNow ==
  /\ phase = "focus" /\ MayRetry
  /\ IF slot.key = FocusKey /\ slot.status = "ready"
     THEN UNCHANGED <<Manager>> /\ phase' = "focusing"
     ELSE IF MayPrepare(FocusKey)
     THEN PrepareSynchronously(FocusKey) /\ phase' = "focusing"
     ELSE UNCHANGED <<Manager>> /\ phase' = "trigger"
  /\ tries' = tries + 1
  /\ UNCHANGED <<Journal, pressure, overlay, Stream>>

FocusReady ==
  /\ phase = "focusing" /\ slot.status # "preparing"
  /\ IF slot.status = "ready"
     THEN Consider /\ phase' = IF ValidFocus(slot) THEN "focus" ELSE "trigger"
     ELSE UNCHANGED <<overlay, slot, terminal, pressure>> /\ phase' = "trigger"
  /\ UNCHANGED <<Journal, tries, generation, prepJobs, active, attempted, Stream>>

\* decideContextPreparationTrigger and startBackground; the barrier then
\* ends the run, anything below it admits the decision.  The measure is spent.
Trigger ==
  /\ phase = "trigger" \/ (phase = "focus" /\ ~MayRetry)
  /\ IF pressure # "low" /\ HasSource
     THEN StartBackground(FocusKey)
     ELSE UNCHANGED <<Manager>>
  /\ phase' = IF pressure = "barrier" THEN "limit" ELSE "acting"
  /\ pressure' = "low" /\ tries' = 0
  /\ UNCHANGED <<Journal, overlay, Stream>>

\* The run ends: with its answer, or incomplete/context_limit.  close gives
\* up the candidate and invalidates what is still running.
EndRun ==
  /\ phase \in {"acting", "limit"}
  /\ phase' = "idle"
  /\ generation' = generation + 1
  /\ IF Outstanding(slot) THEN Transition("discarded") ELSE UNCHANGED <<slot, terminal>>
  /\ overlay' = NoOverlay
  /\ completed' = completed + 1
  /\ UNCHANGED <<run, calls, pressure, tries, prepJobs, active, attempted, covered>>

PrepInit ==
  /\ run = 0 /\ phase = "idle" /\ calls = <<>> /\ pressure = "low" /\ tries = 0
  /\ overlay = NoOverlay /\ slot = EmptySlot
  /\ generation = 0 /\ terminal = {}
  /\ prepJobs = {} /\ active = NoKey
  /\ completed = EarlierRuns /\ covered = 0
  /\ attempted = {}

CompileStep ==
  \/ ConsiderReady \/ Maintain \/ CommitCheckpoint \/ WaitedFor
  \/ Recover \/ FocusNow \/ FocusReady \/ Trigger

JobStep == SummaryEnds \/ SlotWasBusy \/ SlotIsFree

PrepNext ==
  \/ StartRun \/ EndRun \/ CompileStep \/ JobStep
  \/ \E kind \in {"plain", "kept"} : Act(kind)

PrepSpec == PrepInit /\ [][PrepNext]_prepVars

-----------------------------------------------------------------------------
(* Properties.                                                             *)

Keys == [run : 0..MaxRuns, kind : {"none", "run_focus", "durable_checkpoint"},
         src : SUBSET (1..MaxCalls), base : Nat]

\* Every variable has a value of its kind.
PrepTypeOK ==
  /\ run \in 0..MaxRuns
  /\ phase \in {"idle", "compile", "maintain", "maintaining", "waiting",
                "recover", "focus", "focusing", "trigger", "acting", "limit"}
  /\ calls \in Seq({"plain", "kept"}) /\ Len(calls) <= MaxCalls
  /\ pressure \in Pressures /\ tries \in 0..2
  /\ overlay.on \in BOOLEAN /\ overlay.covers \subseteq 1..MaxCalls /\ overlay.nth \in Nat
  /\ slot.status \in {"empty", "preparing", "ready", "adopted", "stale", "discarded", "failed"}
  /\ slot.key \in Keys /\ slot.covers \subseteq 1..MaxCalls
  /\ generation \in Nat /\ terminal \subseteq Keys
  /\ \A j \in prepJobs : j.key \in Keys /\ j.gen \in Nat /\ j.at \in {"running", "busy", "queued"}
  /\ active \in Keys /\ attempted \subseteq Keys
  /\ completed \in Nat /\ covered \in Nat

\* A candidate in preparation has a job that will settle it: a run that waits
\* at the barrier or in maintenance never waits for nothing, however many jobs
\* were superseded, failed or belong to a closed lane.
PreparingHasItsJob ==
  slot.status = "preparing" =>
    /\ phase # "idle"
    /\ \E j \in prepJobs : j.key = slot.key /\ j.gen = generation

\* The provider summarises for one job at a time, over all lanes, and its slot
\* is taken exactly while one does.
OneSummaryAtATime ==
  /\ Cardinality({j \in prepJobs : j.at = "running"}) <= 1
  /\ active = NoKey <=> \A j \in prepJobs : j.at # "running"
  /\ \A j \in prepJobs : j.at = "running" => j.key = active

\* The model is asked at most once to summarise the same source: not again
\* after it failed, was superseded, turned stale or was adopted.
SourceIsTriedOnce ==
  [][\A j \in prepJobs' :
       /\ j.at = "running"
       /\ ~\E i \in prepJobs : i.key = j.key /\ i.gen = j.gen /\ i.at = "running"
       => j.key \notin attempted]_prepVars

\* Within a run a new focus covers all that the one before covered, although it
\* was made from a prompt that no longer shows those calls and replaces the one
\* before: what has left the prompt once does not come back into it.
FocusKeepsItsCoverage ==
  [][overlay.on /\ overlay'.on => overlay.covers \subseteq overlay'.covers]_prepVars
=============================================================================
