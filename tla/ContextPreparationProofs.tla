---------------------- MODULE ContextPreparationProofs ----------------------
(***************************************************************************)
(* Proofs about ContextPreparation, for any runs, tool calls, measures and *)
(* orders of answers.  PrepTyped is its type invariant; Lane relates what each *)
(* actor holds: the candidate of the manager, the jobs that have not       *)
(* settled, the provider's slot and the sources already tried.             *)
(***************************************************************************)
EXTENDS ContextPreparation, FiniteSetTheorems, SequenceTheorems, TLAPS

-----------------------------------------------------------------------------
(* Types.                                                                  *)

Phases == {"idle", "compile", "maintain", "maintaining", "waiting",
           "recover", "focus", "focusing", "trigger", "acting", "limit"}
SlotSet == [status : {"empty", "preparing", "ready", "adopted", "stale", "discarded", "failed"},
            key : Keys, covers : SUBSET (1..MaxCalls)]
OverlaySet == [on : BOOLEAN, covers : SUBSET (1..MaxCalls), nth : Nat]
PrepJobSet == [key : Keys, gen : Nat, at : {"running", "busy", "queued"}]

RunTyped == run \in 0..MaxRuns /\ phase \in Phases /\ pressure \in Pressures /\ tries \in 0..2
CallsTyped == calls \in Seq({"plain", "kept"}) /\ Len(calls) <= MaxCalls
ManagerTyped ==
  /\ slot \in SlotSet /\ overlay \in OverlaySet /\ generation \in Nat /\ terminal \subseteq Keys
  /\ prepJobs \subseteq PrepJobSet /\ active \in Keys /\ attempted \subseteq Keys
StreamTyped == completed \in Nat /\ covered \in Nat

PrepTyped == RunTyped /\ CallsTyped /\ ManagerTyped /\ StreamTyped

LEMMA TypedIsEnough == PrepTyped => PrepTypeOK
  BY DEF PrepTyped, RunTyped, CallsTyped, ManagerTyped, StreamTyped, PrepTypeOK, Phases, SlotSet,
         OverlaySet, PrepJobSet

LEMMA NoKeyIsAKey == NoKey \in Keys
  BY PrepBounds DEF NoKey, Keys

\* What recovery and less context leave of a measure is a measure.
LEMMA MeasuresStay ==
    ASSUME NEW p \in Pressures
    PROVE  AtMost(p) \subseteq Pressures /\ Recovered(p) \subseteq Pressures
<1>1. AtMost(p) \subseteq Pressures
  BY DEF AtMost, Pressures
<1> QED BY <1>1 DEF Recovered

\* The sources of a run that can be asked for are keys of that run.
LEMMA KeysOfTheRun ==
    ASSUME PrepTyped
    PROVE  /\ FocusKey \in Keys /\ FocusKey.run = run /\ FocusKey.kind = "run_focus"
           /\ CanPlan => /\ Checkpoint(PlannedTo) \in Keys /\ Checkpoint(PlannedTo).run = run
                         /\ Checkpoint(PlannedTo).kind = "durable_checkpoint"
<1>1. Eligible \subseteq 1..MaxCalls
  <2>1. Len(calls) \in Nat /\ Len(calls) <= MaxCalls /\ MaxCalls \in Nat
    BY PrepBounds, LenProperties DEF PrepTyped, CallsTyped
  <2>2. Indices \subseteq 1..MaxCalls
    BY <2>1 DEF Indices
  <2> QED BY <2>2 DEF Eligible, Shown
<1>2. overlay.nth \in Nat /\ run \in 0..MaxRuns
  BY DEF PrepTyped, ManagerTyped, OverlaySet, RunTyped
<1>3. CanPlan => PlannedTo \in Nat
  BY DEF CanPlan, PlannedTo, PrepTyped, StreamTyped
<1> QED BY <1>1, <1>2, <1>3 DEF FocusKey, Focus, Checkpoint, Keys

\* A job that is started.
LEMMA LaunchTyped ==
    ASSUME ManagerTyped, NEW key \in Keys, NEW background, Launch(key, background)
    PROVE  /\ slot' \in SlotSet /\ generation' \in Nat
           /\ prepJobs' \subseteq PrepJobSet /\ active' \in Keys /\ attempted' \subseteq Keys
<1> DEFINE at == IF active = NoKey THEN "running" ELSE IF background THEN "busy" ELSE "queued"
           j == [key |-> key, gen |-> generation + 1, at |-> at]
<1>1. overlay.covers \subseteq 1..MaxCalls
  BY DEF ManagerTyped, OverlaySet
<1>2. Candidate(key) \in SlotSet
  BY <1>1 DEF Candidate, SlotSet, Keys
<1>3. at \in {"running", "busy", "queued"} /\ generation + 1 \in Nat
  BY DEF ManagerTyped
<1>4. prepJobs' = prepJobs \cup {j}
  BY DEF Launch
<1> HIDE DEF at
<1>5. j \in PrepJobSet
  BY <1>3 DEF PrepJobSet
<1> QED BY <1>2, <1>3, <1>4, <1>5 DEF Launch, ManagerTyped

\* A slot whose status changes.
LEMMA StatusChanges ==
    ASSUME NEW s \in SlotSet,
           NEW st \in {"empty", "preparing", "ready", "adopted", "stale", "discarded", "failed"}
    PROVE  LET n == [s EXCEPT !.status = st]
           IN  n \in SlotSet /\ n.status = st /\ n.key = s.key /\ n.covers = s.covers
  BY DEF SlotSet

LEMMA PrepTransitionTyped ==
    ASSUME ManagerTyped, NEW st \in {"adopted", "stale", "discarded"}, Transition(st)
    PROVE  slot' \in SlotSet /\ terminal' \subseteq Keys
<1>1. slot \in SlotSet /\ slot.key \in Keys
  BY DEF ManagerTyped, SlotSet
<1>2. slot' = [slot EXCEPT !.status = st] /\ terminal' = terminal \cup {slot.key}
  BY DEF Transition
<1>3. slot' \in SlotSet
  BY <1>1, <1>2, StatusChanges
<1> QED BY <1>1, <1>2, <1>3 DEF ManagerTyped

LEMMA SettleTyped ==
    ASSUME ManagerTyped, NEW j \in prepJobs, NEW st \in {"ready", "failed"}, Settle(j, st)
    PROVE  slot' \in SlotSet /\ terminal' \subseteq Keys /\ prepJobs' \subseteq PrepJobSet
<1>1. slot \in SlotSet /\ j.key \in Keys /\ terminal \subseteq Keys /\ prepJobs \subseteq PrepJobSet
  BY DEF ManagerTyped, PrepJobSet
<1>2. prepJobs' \subseteq PrepJobSet
  BY <1>1 DEF Settle
<1>3. CASE StillWanted(j)
  <2>1. slot' = [slot EXCEPT !.status = st] /\ terminal' \in {terminal, terminal \cup {j.key}}
    BY <1>3 DEF Settle
  <2>2. slot' \in SlotSet
    BY <1>1, <2>1, StatusChanges
  <2> QED BY <1>1, <1>2, <2>1, <2>2
<1>4. CASE ~StillWanted(j)
  BY <1>1, <1>2, <1>4 DEF Settle
<1> QED BY <1>3, <1>4

\* A candidate that is considered.
LEMMA ConsiderTyped ==
    ASSUME ManagerTyped, pressure \in Pressures, Consider
    PROVE  slot' \in SlotSet /\ terminal' \subseteq Keys /\ overlay' \in OverlaySet /\ pressure' \in Pressures
<1>1. overlay \in OverlaySet /\ slot.covers \in SUBSET (1..MaxCalls)
  BY DEF ManagerTyped, SlotSet
<1>2. [on |-> TRUE, covers |-> slot.covers, nth |-> overlay.nth + 1] \in OverlaySet
  BY <1>1 DEF OverlaySet
<1>3. slot' \in SlotSet /\ terminal' \subseteq Keys
  BY PrepTransitionTyped DEF Consider
<1>4. overlay' \in OverlaySet /\ pressure' \in Pressures
  BY <1>1, <1>2, MeasuresStay DEF Consider
<1> QED BY <1>3, <1>4

LEMMA PrepTypedInit == PrepInit => PrepTyped
<1> SUFFICES ASSUME PrepInit PROVE PrepTyped
  OBVIOUS
<1>1. RunTyped
  BY PrepBounds DEF PrepInit, RunTyped, Phases, Pressures
<1>2. CallsTyped
  BY PrepBounds, EmptySeq DEF PrepInit, CallsTyped
<1>3. ManagerTyped
  BY NoKeyIsAKey DEF PrepInit, ManagerTyped, EmptySlot, SlotSet, NoOverlay, OverlaySet
<1>4. StreamTyped
  BY PrepBounds DEF PrepInit, StreamTyped
<1> QED BY <1>1, <1>2, <1>3, <1>4 DEF PrepTyped

LEMMA RetryTyped == tries \in 0..2 /\ tries < 2 => tries + 1 \in 0..2
  OBVIOUS

LEMMA PrepTypedStep == PrepTyped /\ [PrepNext]_prepVars => PrepTyped'
<1> SUFFICES ASSUME PrepTyped, [PrepNext]_prepVars PROVE PrepTyped'
  OBVIOUS
<1>1. /\ run \in 0..MaxRuns /\ phase \in Phases /\ pressure \in Pressures /\ tries \in 0..2
      /\ CallsTyped /\ ManagerTyped /\ StreamTyped /\ RunTyped
  BY DEF PrepTyped, RunTyped
<1>2. /\ UNCHANGED calls => CallsTyped'
      /\ UNCHANGED <<Manager, overlay>> => ManagerTyped'
      /\ UNCHANGED Stream => StreamTyped'
  BY <1>1 DEF CallsTyped, ManagerTyped, StreamTyped, Manager, Stream
<1>3. ASSUME NEW p \in Pressures, BeginCompile(p)
      PROVE  phase' \in Phases /\ pressure' \in Pressures /\ tries' \in 0..2
  BY <1>3 DEF BeginCompile, Phases
<1>4. ASSUME NEW p \in Pressures, AfterMaintenance(p)
      PROVE  phase' \in Phases /\ pressure' \in Pressures
  BY <1>4, MeasuresStay DEF AfterMaintenance, Phases
<1>5. ASSUME NEW key \in Keys, PrepareSynchronously(key), UNCHANGED overlay
      PROVE  ManagerTyped'
  <2>1. terminal' \subseteq Keys
    BY <1>1, <1>5 DEF PrepareSynchronously, ManagerTyped, SlotSet
  <2>2. Launch(key, FALSE)
    BY <1>5 DEF PrepareSynchronously
  <2> QED BY <1>1, <1>5, <2>1, <2>2, LaunchTyped DEF ManagerTyped
<1>6. ASSUME Consider, UNCHANGED <<generation, prepJobs, active, attempted>>
      PROVE  ManagerTyped' /\ pressure' \in Pressures
  <2>1. /\ slot' \in SlotSet /\ terminal' \subseteq Keys /\ overlay' \in OverlaySet
        /\ pressure' \in Pressures
    BY <1>1, <1>6, ConsiderTyped
  <2> QED BY <1>1, <1>6, <2>1 DEF ManagerTyped
<1>7. CASE StartRun
  <2>1. /\ run < MaxRuns /\ run' = run + 1 /\ calls' = <<>> /\ overlay' = NoOverlay
        /\ slot' = EmptySlot /\ generation' = 0 /\ terminal' = {}
        /\ UNCHANGED <<prepJobs, active, attempted>> /\ UNCHANGED Stream
        /\ \E p \in Pressures : BeginCompile(p)
    BY <1>7 DEF StartRun
  <2>2. RunTyped'
    BY <1>1, <1>3, <2>1, PrepBounds DEF RunTyped
  <2>3. CallsTyped'
    BY <2>1, PrepBounds, EmptySeq DEF CallsTyped
  <2>4. ManagerTyped'
    BY <1>1, <2>1, NoKeyIsAKey DEF ManagerTyped, EmptySlot, SlotSet, NoOverlay, OverlaySet
  <2> QED BY <1>2, <2>1, <2>2, <2>3, <2>4 DEF PrepTyped
<1>8. ASSUME NEW kind \in {"plain", "kept"}, Act(kind) PROVE PrepTyped'
  <2>1. /\ Len(calls) < MaxCalls /\ calls' = Append(calls, kind)
        /\ UNCHANGED run /\ UNCHANGED <<Manager, overlay>> /\ UNCHANGED Stream
        /\ \E p \in Pressures : BeginCompile(p)
    BY <1>8 DEF Act
  <2>2. RunTyped'
    BY <1>1, <1>3, <2>1 DEF RunTyped
  <2>3. calls' \in Seq({"plain", "kept"}) /\ Len(calls') = Len(calls) + 1
    BY <1>1, <2>1, AppendProperties DEF CallsTyped
  <2>4. CallsTyped'
    BY <1>1, <2>1, <2>3, LenProperties, PrepBounds DEF CallsTyped
  <2> QED BY <1>2, <2>1, <2>2, <2>4 DEF PrepTyped
<1>9. CASE ConsiderReady
  <2>1. /\ UNCHANGED <<run, calls, tries, generation, prepJobs, active, attempted>>
        /\ UNCHANGED Stream /\ phase' = "maintain"
        /\ Consider \/ UNCHANGED <<overlay, slot, terminal, pressure>>
    BY <1>9 DEF ConsiderReady, Journal
  <2>2. ManagerTyped' /\ pressure' \in Pressures
    BY <1>1, <1>2, <1>6, <2>1 DEF Manager
  <2> QED BY <1>1, <1>2, <2>1, <2>2 DEF PrepTyped, RunTyped, Phases
<1>10. CASE Maintain
  <2>1. UNCHANGED <<run, calls, tries, overlay>> /\ UNCHANGED Stream
    BY <1>10 DEF Maintain, Journal
  <2>2. CASE UNCHANGED <<Manager>> /\ AfterMaintenance(pressure)
    BY <1>1, <1>2, <1>4, <2>1, <2>2 DEF PrepTyped, RunTyped
  <2>3. CASE /\ CanPlan /\ PrepareSynchronously(Checkpoint(PlannedTo))
             /\ phase' = "maintaining" /\ UNCHANGED pressure
    <3>1. ManagerTyped'
      BY <1>5, <2>1, <2>3, KeysOfTheRun
    <3> QED BY <1>1, <1>2, <2>1, <2>3, <3>1 DEF PrepTyped, RunTyped, Phases
  <2> QED BY <1>10, <2>2, <2>3 DEF Maintain
<1>11. CASE CommitCheckpoint
  <2>1. UNCHANGED <<run, calls, tries, overlay, generation, prepJobs, active, attempted, completed>>
    BY <1>11 DEF CommitCheckpoint, Journal
  <2>2. slot.key.base \in Nat
    BY <1>1 DEF ManagerTyped, SlotSet, Keys
  <2>3. covered' \in {covered, slot.key.base}
    BY <1>11 DEF CommitCheckpoint
  <2>4. StreamTyped'
    BY <1>1, <2>1, <2>2, <2>3 DEF StreamTyped
  <2>5. Transition("adopted") \/ Transition("stale") \/ UNCHANGED <<slot, terminal>>
    BY <1>11 DEF CommitCheckpoint
  <2>6. ManagerTyped'
    <3>1. slot' \in SlotSet /\ terminal' \subseteq Keys
      BY <1>1, <2>5, PrepTransitionTyped DEF ManagerTyped
    <3> QED BY <1>1, <2>1, <3>1 DEF ManagerTyped
  <2>7. \E p \in Pressures : AfterMaintenance(p)
    BY <1>1, <1>11, MeasuresStay DEF CommitCheckpoint
  <2> QED BY <1>1, <1>2, <1>4, <2>1, <2>4, <2>6, <2>7 DEF PrepTyped, RunTyped
<1>12. CASE WaitedFor
  <2>1. /\ UNCHANGED <<run, calls, tries, generation, prepJobs, active, attempted>>
        /\ UNCHANGED Stream /\ phase' = "recover"
        /\ Consider \/ UNCHANGED <<overlay, slot, terminal, pressure>>
    BY <1>12 DEF WaitedFor, Journal
  <2>2. ManagerTyped' /\ pressure' \in Pressures
    BY <1>1, <1>2, <1>6, <2>1 DEF Manager
  <2> QED BY <1>1, <1>2, <2>1, <2>2 DEF PrepTyped, RunTyped, Phases
<1>13. CASE Recover
  <2>1. /\ UNCHANGED <<run, calls, tries>> /\ UNCHANGED <<Manager, overlay>> /\ UNCHANGED Stream
        /\ phase' = "focus" /\ pressure' \in Recovered(pressure)
    BY <1>13 DEF Recover, Journal
  <2>2. pressure' \in Pressures
    BY <1>1, <2>1, MeasuresStay
  <2> QED BY <1>1, <1>2, <2>1, <2>2 DEF PrepTyped, RunTyped, Phases
<1>14. CASE FocusNow
  <2>1. /\ UNCHANGED <<run, calls, pressure, overlay>> /\ UNCHANGED Stream
        /\ tries < 2 /\ tries' = tries + 1 /\ phase' \in {"focusing", "trigger"}
        /\ UNCHANGED <<Manager>> \/ PrepareSynchronously(FocusKey)
    BY <1>14 DEF FocusNow, MayRetry, Journal
  <2>2. ManagerTyped'
    BY <1>1, <1>2, <1>5, <2>1, KeysOfTheRun
  <2>3. RunTyped'
    BY <1>1, <2>1, RetryTyped DEF RunTyped, Phases
  <2> QED BY <1>2, <2>1, <2>2, <2>3 DEF PrepTyped
<1>15. CASE FocusReady
  <2>1. /\ UNCHANGED <<run, calls, tries, generation, prepJobs, active, attempted>>
        /\ UNCHANGED Stream /\ phase' \in {"focus", "trigger"}
        /\ Consider \/ UNCHANGED <<overlay, slot, terminal, pressure>>
    BY <1>15 DEF FocusReady, Journal
  <2>2. ManagerTyped' /\ pressure' \in Pressures
    BY <1>1, <1>2, <1>6, <2>1 DEF Manager
  <2> QED BY <1>1, <1>2, <2>1, <2>2 DEF PrepTyped, RunTyped, Phases
<1>16. CASE Trigger
  <2>1. /\ UNCHANGED <<run, calls, overlay>> /\ UNCHANGED Stream
        /\ phase' \in {"limit", "acting"} /\ pressure' = "low" /\ tries' = 0
        /\ UNCHANGED <<Manager>> \/ (Launch(FocusKey, TRUE) /\ UNCHANGED terminal)
    BY <1>16 DEF Trigger, StartBackground, Manager, Journal
  <2>2. CASE Launch(FocusKey, TRUE) /\ UNCHANGED terminal
    <3>1. ManagerTyped'
      BY <1>1, <2>1, <2>2, LaunchTyped, KeysOfTheRun DEF ManagerTyped
    <3> QED BY <1>1, <1>2, <2>1, <3>1 DEF PrepTyped, RunTyped, Phases, Pressures
  <2>3. CASE UNCHANGED <<Manager>>
    BY <1>1, <1>2, <2>1, <2>3 DEF PrepTyped, RunTyped, Phases, Pressures
  <2> QED BY <2>1, <2>2, <2>3
<1>17. CASE EndRun
  <2>1. /\ UNCHANGED <<run, calls, pressure, tries, prepJobs, active, attempted, covered>>
        /\ phase' = "idle" /\ generation' = generation + 1
        /\ overlay' = NoOverlay /\ completed' = completed + 1
        /\ Transition("discarded") \/ UNCHANGED <<slot, terminal>>
    BY <1>17 DEF EndRun
  <2>2. slot' \in SlotSet /\ terminal' \subseteq Keys
    BY <1>1, <2>1, PrepTransitionTyped DEF ManagerTyped
  <2>3. ManagerTyped'
    BY <1>1, <2>1, <2>2 DEF ManagerTyped, NoOverlay, OverlaySet
  <2>4. StreamTyped'
    BY <1>1, <2>1 DEF StreamTyped
  <2> QED BY <1>1, <1>2, <2>1, <2>3, <2>4 DEF PrepTyped, RunTyped, Phases
<1>18. CASE SummaryEnds \/ SlotWasBusy
  <2>1. PICK j \in prepJobs, st \in {"ready", "failed"} :
          /\ Settle(j, st) /\ active' \in {active, NoKey}
          /\ UNCHANGED Elsewhere /\ UNCHANGED attempted
    BY <1>18 DEF SummaryEnds, SlotWasBusy
  <2>2. ManagerTyped'
    BY <1>1, <2>1, SettleTyped, NoKeyIsAKey DEF ManagerTyped, Elsewhere
  <2> QED BY <1>1, <1>2, <2>1, <2>2 DEF PrepTyped, RunTyped, Elsewhere, Stream
<1>19. CASE SlotIsFree
  <2>1. PICK j \in prepJobs :
          /\ active' = j.key /\ attempted' = attempted \cup {j.key}
          /\ prepJobs' = (prepJobs \ {j}) \cup {[j EXCEPT !.at = "running"]}
          /\ UNCHANGED Elsewhere /\ UNCHANGED <<slot, terminal>>
    BY <1>19 DEF SlotIsFree
  <2>2. j \in PrepJobSet
    BY <1>1 DEF ManagerTyped
  <2>3. [j EXCEPT !.at = "running"] \in PrepJobSet /\ j.key \in Keys
    BY <2>2 DEF PrepJobSet
  <2>4. ManagerTyped'
    BY <1>1, <2>1, <2>3 DEF ManagerTyped, Elsewhere
  <2> QED BY <1>1, <1>2, <2>1, <2>4 DEF PrepTyped, RunTyped, Elsewhere, Stream
<1>20. CASE UNCHANGED prepVars
  BY <1>1, <1>2, <1>20 DEF prepVars, PrepTyped, RunTyped, Manager, Stream
<1> QED BY <1>7, <1>8, <1>9, <1>10, <1>11, <1>12, <1>13, <1>14, <1>15, <1>16, <1>17, <1>18,
           <1>19, <1>20 DEF PrepNext, CompileStep, JobStep

LEMMA AlwaysTyped == PrepSpec => []PrepTyped
<1>1. PrepInit => PrepTyped
  BY PrepTypedInit
<1>2. PrepTyped /\ [PrepNext]_prepVars => PrepTyped'
  BY PrepTypedStep
<1> QED BY <1>1, <1>2, PTL DEF PrepSpec

-----------------------------------------------------------------------------
(* What the actors hold.                                                   *)

Known(k) == k = slot.key \/ k \in terminal
PrepGivenUp == {"adopted", "stale", "discarded", "failed"}

\* The slot belongs to the run; what was given up is terminal; a candidate
\* covers at least what the overlay does.
SlotInv ==
  /\ slot.status = "empty" => slot.key = NoKey
  /\ slot.status # "empty" => slot.key.run = run /\ slot.key.kind # "none"
  /\ slot.status \in PrepGivenUp => slot.key \in terminal
  /\ Outstanding(slot) /\ slot.key.kind = "run_focus" => overlay.covers \subseteq slot.covers
  /\ phase # "idle" => run # 0

\* The jobs have keys of their own, which the lane of the run knows; the job
\* of the slot is the one with the slot's key and the lane's generation.
JobsInv ==
  /\ \A j \in prepJobs :
       /\ j.key.kind # "none" /\ j.key.run <= run
       /\ j.key.run = run => Known(j.key) /\ j.gen <= generation
       /\ j.key = slot.key /\ j.gen = generation => slot.status = "preparing"
  /\ \A i, j \in prepJobs : i.key = j.key => i = j
  /\ PreparingHasItsJob

\* The provider's slot holds the key of the job that is running.
ProviderInv ==
  /\ active = NoKey <=> \A j \in prepJobs : j.at # "running"
  /\ \A j \in prepJobs : j.at = "running" => j.key = active

\* A job that has not run was never tried, and what was tried is known.
TriedInv ==
  /\ \A j \in prepJobs : j.at # "running" => j.key \notin attempted
  /\ \A k \in attempted : k.run <= run /\ (k.run = run => Known(k))

Lane == SlotInv /\ JobsInv /\ ProviderInv /\ TriedInv

\* What a step may not do: try a source again, or lose what is covered.
OnlyOnce ==
  \A j \in prepJobs' :
    /\ j.at = "running"
    /\ ~\E i \in prepJobs : i.key = j.key /\ i.gen = j.gen /\ i.at = "running"
    => j.key \notin attempted
KeepsCover == overlay.on /\ overlay'.on => overlay.covers \subseteq overlay'.covers

LEMMA LaneInit == PrepInit => Lane
  BY DEF PrepInit, Lane, SlotInv, JobsInv, ProviderInv, TriedInv, PreparingHasItsJob, EmptySlot,
         Outstanding, PrepGivenUp

\* A step that touches neither the manager nor the provider.
LEMMA QuietStep ==
    ASSUME Lane, UNCHANGED <<Manager, overlay, run>>,
           phase' = phase \/ (phase # "idle" /\ phase' # "idle")
    PROVE  Lane' /\ OnlyOnce /\ KeepsCover
<1>1. UNCHANGED <<slot, generation, terminal, prepJobs, active, attempted, overlay, run>>
  BY DEF Manager
<1>2. SlotInv'
  BY <1>1 DEF Lane, SlotInv, Outstanding, PrepGivenUp
<1>3. JobsInv'
  BY <1>1 DEF Lane, JobsInv, PreparingHasItsJob, Known
<1>4. ProviderInv' /\ TriedInv'
  BY <1>1 DEF Lane, ProviderInv, TriedInv, Known
<1>5. OnlyOnce /\ KeepsCover
  BY <1>1 DEF OnlyOnce, KeepsCover
<1> QED BY <1>2, <1>3, <1>4, <1>5 DEF Lane

\* A job for a source that the lane does not know, when the candidate before
\* it is given up.
LEMMA LaunchStep ==
    ASSUME PrepTyped, Lane, NEW key \in Keys, key.run = run, key.kind # "none", ~Known(key),
           NEW background, Launch(key, background),
           terminal \subseteq terminal', slot.status = "empty" \/ slot.key \in terminal',
           phase # "idle", phase' # "idle", UNCHANGED <<run, overlay>>
    PROVE  Lane' /\ OnlyOnce /\ KeepsCover
<1>1. PICK n :
        /\ n.key = key /\ n.gen = generation + 1 /\ (n.at = "running" <=> active = NoKey)
        /\ generation' = generation + 1 /\ slot' = Candidate(key) /\ prepJobs' = prepJobs \cup {n}
        /\ active' = IF active = NoKey THEN key ELSE active
        /\ attempted' = IF active = NoKey THEN attempted \cup {key} ELSE attempted
  <2> DEFINE at == IF active = NoKey THEN "running" ELSE IF background THEN "busy" ELSE "queued"
             n == [key |-> key, gen |-> generation + 1, at |-> at]
  <2>1. n.key = key /\ n.gen = generation + 1 /\ (n.at = "running" <=> active = NoKey)
    OBVIOUS
  <2>2. /\ generation' = generation + 1 /\ slot' = Candidate(key) /\ prepJobs' = prepJobs \cup {n}
        /\ active' = IF active = NoKey THEN key ELSE active
        /\ attempted' = IF active = NoKey THEN attempted \cup {key} ELSE attempted
    BY DEF Launch
  <2> HIDE DEF n
  <2> QED BY <2>1, <2>2
<1>4. /\ slot'.status = "preparing" /\ slot'.key = key
      /\ key.kind = "run_focus" => overlay.covers \subseteq slot'.covers
  BY <1>1 DEF Candidate
<1>5. /\ run # 0 /\ generation \in Nat /\ run \in Nat
      /\ prepJobs \subseteq PrepJobSet
  BY DEF Lane, SlotInv, PrepTyped, ManagerTyped, RunTyped
<1>6. \A j \in prepJobs : j.key # key /\ (j.key.run = run => j.gen <= generation)
  BY DEF Lane, JobsInv
<1>7. \A k : k.run = run /\ Known(k) => Known(k)'
  <2>1. ASSUME NEW k, k.run = run, Known(k) PROVE k \in terminal'
    <3>1. CASE k = slot.key /\ slot.status = "empty"
      BY <1>5, <2>1, <3>1 DEF Lane, SlotInv, NoKey
    <3> QED BY <2>1, <3>1 DEF Known
  <2> QED BY <2>1 DEF Known
<1>8. SlotInv'
  BY <1>4, <1>5 DEF SlotInv, Outstanding, PrepGivenUp
<1>9. JobsInv'
  <2>1. \A j \in prepJobs' :
          /\ j.key.kind # "none" /\ j.key.run <= run
          /\ j.key.run = run => Known(j.key)' /\ j.gen <= generation'
          /\ j.key = slot'.key /\ j.gen = generation' => slot'.status = "preparing"
    <3>1. ASSUME NEW j \in prepJobs
          PROVE  /\ j.key.kind # "none" /\ j.key.run <= run
                 /\ j.key.run = run => Known(j.key)' /\ j.gen <= generation'
      <4>1. j.key.kind # "none" /\ j.key.run <= run /\ (j.key.run = run => Known(j.key))
        BY DEF Lane, JobsInv
      <4>2. j.key.run = run => j.gen <= generation + 1
        BY <1>5, <1>6 DEF PrepJobSet
      <4> QED BY <1>1, <1>7, <4>1, <4>2
    <3>2. n.key.kind # "none" /\ n.key.run <= run /\ Known(n.key)' /\ n.gen <= generation'
      <4>1. n.gen = generation' /\ generation' \in Nat
        BY <1>1, <1>5
      <4> QED BY <1>1, <1>4, <1>5, <4>1 DEF Known
    <3> QED BY <1>1, <1>4, <3>1, <3>2
  <2>2. \A i, j \in prepJobs' : i.key = j.key => i = j
    <3>1. \A i, j \in prepJobs : i.key = j.key => i = j
      BY DEF Lane, JobsInv
    <3> QED BY <1>1, <1>6, <3>1
  <2>3. PreparingHasItsJob'
    BY <1>1, <1>4 DEF PreparingHasItsJob
  <2>4. run' = run
    OBVIOUS
  <2> QED BY <2>1, <2>2, <2>3, <2>4 DEF JobsInv
<1>10. ProviderInv'
  <2>1. key # NoKey
    BY DEF NoKey
  <2>2. /\ active = NoKey <=> \A j \in prepJobs : j.at # "running"
        /\ \A j \in prepJobs : j.at = "running" => j.key = active
    BY DEF Lane, ProviderInv
  <2> QED BY <1>1, <2>1, <2>2 DEF ProviderInv
<1>11. key \notin attempted
  BY DEF Lane, TriedInv
<1>12. TriedInv'
  <2>1. /\ \A j \in prepJobs : j.at # "running" => j.key \notin attempted
        /\ \A k \in attempted : k.run <= run /\ (k.run = run => Known(k))
    BY DEF Lane, TriedInv
  <2>2. \A j \in prepJobs' : j.at # "running" => j.key \notin attempted'
    BY <1>1, <1>6, <1>11, <2>1
  <2>3. \A k \in attempted' : k.run <= run /\ (k.run = run => Known(k)')
    <3>1. key.run <= run /\ Known(key)'
      BY <1>4, <1>5 DEF Known
    <3> QED BY <1>1, <1>7, <2>1, <3>1
  <2> QED BY <2>2, <2>3 DEF TriedInv
<1>13. OnlyOnce
  BY <1>1, <1>11 DEF OnlyOnce
<1>14. KeepsCover
  BY DEF KeepsCover
<1> QED BY <1>8, <1>9, <1>10, <1>12, <1>13, <1>14 DEF Lane

\* A candidate that leaves its slot: it was ready, or its lane is closed.
LEMMA TransitionStep ==
    ASSUME PrepTyped, Lane, NEW st \in {"adopted", "stale", "discarded"}, Transition(st),
           Outstanding(slot), UNCHANGED <<run, prepJobs, active, attempted>>,
           \/ slot.status = "ready" /\ generation' = generation /\ phase # "idle"
           \/ generation' = generation + 1 /\ (phase' # "idle" => phase # "idle"),
           KeepsCover
    PROVE  Lane' /\ OnlyOnce /\ KeepsCover
<1>1. /\ slot'.status = st /\ slot'.key = slot.key /\ terminal' = terminal \cup {slot.key}
      /\ slot.status # "empty"
  BY StatusChanges DEF Transition, PrepTyped, ManagerTyped, Outstanding
<1>2. SlotInv'
  BY <1>1 DEF Lane, SlotInv, Outstanding, PrepGivenUp
<1>3. \A k : Known(k) => Known(k)'
  BY <1>1 DEF Known
<1>4. JobsInv'
  <2>1. ASSUME NEW j \in prepJobs
        PROVE  /\ j.key.kind # "none" /\ j.key.run <= run
               /\ j.key.run = run => Known(j.key)' /\ j.gen <= generation'
               /\ ~(j.key = slot'.key /\ j.gen = generation')
    <3>1. /\ j.key.kind # "none" /\ j.key.run <= run
          /\ j.key.run = run => Known(j.key) /\ j.gen <= generation
          /\ j.key = slot.key /\ j.gen = generation => slot.status = "preparing"
      BY DEF Lane, JobsInv
    <3>2. j.key = slot.key => j.key.run = run
      BY <1>1 DEF Lane, SlotInv
    <3>3. j.gen \in Nat /\ generation \in Nat
      BY DEF PrepTyped, ManagerTyped, PrepJobSet
    <3>4. j.key.run = run => j.gen <= generation'
      BY <3>1, <3>3
    <3>5. ~(j.key = slot'.key /\ j.gen = generation')
      BY <1>1, <3>1, <3>2, <3>3
    <3> QED BY <1>3, <3>1, <3>4, <3>5
  <2>2. PreparingHasItsJob'
    BY <1>1 DEF PreparingHasItsJob
  <2> QED BY <2>1, <2>2 DEF Lane, JobsInv
<1>5. ProviderInv' /\ TriedInv'
  BY <1>3 DEF Lane, ProviderInv, TriedInv
<1>6. OnlyOnce
  BY DEF OnlyOnce
<1> QED BY <1>2, <1>4, <1>5, <1>6 DEF Lane

\* A candidate that is considered.
LEMMA ConsiderStep ==
    ASSUME PrepTyped, Lane, Consider, slot.status = "ready", phase # "idle",
           UNCHANGED <<run, generation, prepJobs, active, attempted>>
    PROVE  Lane' /\ OnlyOnce /\ KeepsCover
<1>1. Outstanding(slot)
  BY DEF Outstanding
<1>2. KeepsCover
  BY <1>1 DEF KeepsCover, Consider, Lane, SlotInv
<1>3. \E st \in {"adopted", "stale", "discarded"} : Transition(st)
  BY DEF Consider
<1> QED BY <1>1, <1>2, <1>3, TransitionStep

\* A job that settles, and leaves the provider's slot if it had it.
LEMMA SettleStep ==
    ASSUME PrepTyped, Lane, NEW j \in prepJobs, NEW st \in {"ready", "failed"}, Settle(j, st),
           active' = (IF j.at = "running" THEN NoKey ELSE active),
           UNCHANGED <<run, phase, overlay, generation, attempted>>
    PROVE  Lane' /\ OnlyOnce /\ KeepsCover
<1>1. prepJobs' = prepJobs \ {j}
  BY DEF Settle
<1>2. /\ \A i \in prepJobs :
           /\ i.key.kind # "none" /\ i.key.run <= run
           /\ i.key.run = run => Known(i.key) /\ i.gen <= generation
           /\ i.key = slot.key /\ i.gen = generation => slot.status = "preparing"
      /\ \A i, k \in prepJobs : i.key = k.key => i = k
      /\ slot.status = "preparing" =>
           phase # "idle" /\ \E i \in prepJobs : i.key = slot.key /\ i.gen = generation
  BY DEF Lane, JobsInv, PreparingHasItsJob
<1>3. SlotInv' /\ JobsInv' /\ \A k : Known(k) => Known(k)'
  <2>1. CASE StillWanted(j)
    <3>1. /\ j.key = slot.key /\ j.gen = generation /\ slot.status = "preparing"
          /\ slot' = [slot EXCEPT !.status = st]
          /\ terminal' = IF st = "failed" THEN terminal \cup {j.key} ELSE terminal
      BY <1>2, <2>1 DEF Settle, StillWanted
    <3>2. slot'.status = st /\ slot'.key = slot.key /\ slot'.covers = slot.covers
      BY <3>1, StatusChanges DEF PrepTyped, ManagerTyped
    <3>3. SlotInv'
      BY <3>1, <3>2 DEF Lane, SlotInv, Outstanding, PrepGivenUp
    <3>4. \A k : Known(k) => Known(k)'
      BY <3>1, <3>2 DEF Known
    <3>5. \A i \in prepJobs' : i.key # slot'.key
      BY <1>1, <1>2, <3>1, <3>2
    <3>6. PreparingHasItsJob'
      BY <3>2 DEF PreparingHasItsJob
    <3>7. JobsInv'
      BY <1>1, <1>2, <3>4, <3>5, <3>6 DEF JobsInv
    <3> QED BY <3>3, <3>4, <3>7
  <2>2. CASE ~StillWanted(j)
    <3>1. UNCHANGED <<slot, terminal>>
      BY <2>2 DEF Settle
    <3>2. SlotInv' /\ \A k : Known(k) => Known(k)'
      BY <3>1 DEF Lane, SlotInv, Outstanding, PrepGivenUp, Known
    <3>3. slot.status = "preparing" => ~(j.key = slot.key /\ j.gen = generation)
      BY <1>2, <2>2 DEF StillWanted, Lane, SlotInv
    <3>4. PreparingHasItsJob'
      BY <1>1, <1>2, <3>1, <3>3 DEF PreparingHasItsJob
    <3>5. JobsInv'
      BY <1>1, <1>2, <3>1, <3>2, <3>4 DEF JobsInv
    <3> QED BY <3>2, <3>5
  <2> QED BY <2>1, <2>2
<1>4. ProviderInv'
  <2>1. /\ active = NoKey <=> \A i \in prepJobs : i.at # "running"
        /\ \A i \in prepJobs : i.at = "running" => i.key = active
    BY DEF Lane, ProviderInv
  <2>2. CASE j.at = "running"
    BY <1>1, <1>2, <2>1, <2>2 DEF ProviderInv
  <2>3. CASE j.at # "running"
    BY <1>1, <2>1, <2>3 DEF ProviderInv
  <2> QED BY <2>2, <2>3
<1>5. TriedInv'
  BY <1>1, <1>3 DEF Lane, TriedInv
<1>6. OnlyOnce
  BY <1>1 DEF OnlyOnce
<1>7. KeepsCover
  BY DEF KeepsCover
<1> QED BY <1>3, <1>4, <1>5, <1>6, <1>7 DEF Lane

\* A job that waited for the provider's slot gets it.
LEMMA QueuedStep ==
    ASSUME PrepTyped, Lane, SlotIsFree
    PROVE  Lane' /\ OnlyOnce /\ KeepsCover
<1>0. PICK j \in prepJobs :
        /\ j.at = "queued" /\ active = NoKey
        /\ active' = j.key /\ attempted' = attempted \cup {j.key}
        /\ prepJobs' = (prepJobs \ {j}) \cup {[j EXCEPT !.at = "running"]}
        /\ UNCHANGED <<run, phase, overlay, generation, slot, terminal>>
  BY DEF SlotIsFree, Elsewhere
<1>1. PICK n :
        /\ n = [j EXCEPT !.at = "running"]
        /\ j.at = "queued" /\ active = NoKey
        /\ active' = j.key /\ attempted' = attempted \cup {j.key}
        /\ prepJobs' = (prepJobs \ {j}) \cup {n}
        /\ UNCHANGED <<run, phase, overlay, generation, slot, terminal>>
  BY <1>0
<1>2. n.key = j.key /\ n.gen = j.gen /\ n.at = "running"
  BY <1>1 DEF PrepTyped, ManagerTyped, PrepJobSet
<1>3. SlotInv' /\ \A k : Known(k)' <=> Known(k)
  BY <1>1 DEF Lane, SlotInv, Outstanding, PrepGivenUp, Known
<1>4. JobsInv'
  <2>1. /\ \A i \in prepJobs :
             /\ i.key.kind # "none" /\ i.key.run <= run
             /\ i.key.run = run => Known(i.key) /\ i.gen <= generation
             /\ i.key = slot.key /\ i.gen = generation => slot.status = "preparing"
        /\ \A i, k \in prepJobs : i.key = k.key => i = k
        /\ PreparingHasItsJob
    BY DEF Lane, JobsInv
  <2>2. \A i \in prepJobs' : \E k \in prepJobs : k.key = i.key /\ k.gen = i.gen
    BY <1>1, <1>2
  <2>3. \A k \in prepJobs : \E i \in prepJobs' : k.key = i.key /\ k.gen = i.gen
    BY <1>1, <1>2
  <2>4. PreparingHasItsJob'
    <3> SUFFICES ASSUME slot'.status = "preparing"
                 PROVE  phase' # "idle"
                        /\ \E i \in prepJobs' : i.key = slot'.key /\ i.gen = generation'
      BY DEF PreparingHasItsJob
    <3>1. slot.status = "preparing"
      BY <1>1
    <3>2. PICK k \in prepJobs : k.key = slot.key /\ k.gen = generation
      BY <2>1, <3>1 DEF PreparingHasItsJob
    <3>3. phase # "idle"
      BY <2>1, <3>1 DEF PreparingHasItsJob
    <3>4. PICK i \in prepJobs' : k.key = i.key /\ k.gen = i.gen
      BY <2>3
    <3> QED BY <1>1, <3>2, <3>3, <3>4
  <2>5. \A i, k \in prepJobs' : i.key = k.key => i = k
    <3>1. \A i \in prepJobs' : i = n \/ (i \in prepJobs /\ i # j)
      BY <1>1
    <3>2. \A i \in prepJobs : i # j => i.key # n.key
      BY <1>2, <2>1
    <3> QED BY <2>1, <3>1, <3>2
  <2>6. \A i \in prepJobs' :
          /\ i.key.kind # "none" /\ i.key.run <= run
          /\ i.key.run = run => Known(i.key) /\ i.gen <= generation
          /\ i.key = slot.key /\ i.gen = generation => slot.status = "preparing"
    BY <2>1, <2>2
  <2> QED BY <1>1, <1>3, <2>4, <2>5, <2>6 DEF JobsInv
<1>5. j.key # NoKey /\ j.key \notin attempted
  BY <1>1 DEF Lane, JobsInv, TriedInv, NoKey
<1>6. ProviderInv'
  <2>1. \A i \in prepJobs : i.at # "running"
    BY <1>1 DEF Lane, ProviderInv
  <2> QED BY <1>1, <1>2, <1>5, <2>1 DEF ProviderInv
<1>7. TriedInv'
  <2>1. \A i \in prepJobs' : i.at # "running" => i.key # j.key /\ i \in prepJobs
    BY <1>1, <1>2 DEF Lane, JobsInv
  <2>2. j.key.run <= run /\ (j.key.run = run => Known(j.key))
    BY DEF Lane, JobsInv
  <2> QED BY <1>1, <1>3, <2>1, <2>2 DEF Lane, TriedInv
<1>8. OnlyOnce
  BY <1>1, <1>2, <1>5 DEF OnlyOnce
<1>9. KeepsCover
  BY <1>1 DEF KeepsCover
<1> QED BY <1>3, <1>4, <1>6, <1>7, <1>8, <1>9 DEF Lane

LEMMA LaneStep == PrepTyped /\ Lane /\ [PrepNext]_prepVars => Lane' /\ OnlyOnce /\ KeepsCover
<1> SUFFICES ASSUME PrepTyped, Lane, [PrepNext]_prepVars PROVE Lane' /\ OnlyOnce /\ KeepsCover
  OBVIOUS
<1>1. slot.status = "empty" \/ slot.status \in PrepGivenUp \/ Outstanding(slot)
  BY DEF PrepTyped, ManagerTyped, SlotSet, PrepGivenUp, Outstanding
<1>2. slot.status \in PrepGivenUp => slot.key \in terminal
  BY DEF Lane, SlotInv
<1>3. ASSUME NEW key \in Keys, key.run = run, key.kind # "none", MayPrepare(key),
             PrepareSynchronously(key), phase # "idle", phase' # "idle",
             UNCHANGED <<run, overlay>>
      PROVE  Lane' /\ OnlyOnce /\ KeepsCover
  <2>1. ~Known(key)
    BY <1>3 DEF MayPrepare, Known
  <2>2. terminal \subseteq terminal' /\ (slot.status = "empty" \/ slot.key \in terminal')
    BY <1>1, <1>2, <1>3 DEF PrepareSynchronously
  <2>3. Launch(key, FALSE)
    BY <1>3 DEF PrepareSynchronously
  <2> QED BY <1>3, <2>1, <2>2, <2>3, LaunchStep
<1>4. ASSUME phase # "idle", phase' # "idle", UNCHANGED <<Manager, overlay, run>>
      PROVE  Lane' /\ OnlyOnce /\ KeepsCover
  BY <1>4, QuietStep
<1>5. ASSUME phase # "idle", phase' # "idle",
             UNCHANGED <<run, generation, prepJobs, active, attempted>>,
             \/ slot.status = "ready" /\ Consider
             \/ UNCHANGED <<overlay, slot, terminal, pressure>>
      PROVE  Lane' /\ OnlyOnce /\ KeepsCover
  <2>1. CASE slot.status = "ready" /\ Consider
    BY <1>5, <2>1, ConsiderStep
  <2>2. CASE UNCHANGED <<overlay, slot, terminal, pressure>>
    BY <1>4, <1>5, <2>2 DEF Manager
  <2> QED BY <1>5, <2>1, <2>2
<1>6. CASE StartRun
  <2>1. /\ run' = run + 1 /\ overlay' = NoOverlay /\ slot' = EmptySlot /\ terminal' = {}
        /\ UNCHANGED <<prepJobs, active, attempted>>
    BY <1>6 DEF StartRun
  <2>2. slot'.status = "empty" /\ slot'.key = NoKey /\ ~overlay'.on
    BY <2>1 DEF EmptySlot, NoOverlay
  <2>3. run \in Nat /\ \A k \in Keys : k.run \in Nat
    BY DEF PrepTyped, RunTyped, Keys
  <2>4. run' # 0 /\ \A k \in Keys : k.run <= run => k.run <= run' /\ k.run # run'
    BY <2>1, <2>3
  <2>5. SlotInv'
    BY <2>2, <2>4 DEF SlotInv, Outstanding, PrepGivenUp
  <2>6. JobsInv'
    <3>1. \A j \in prepJobs : j.key \in Keys /\ j.key.kind # "none" /\ j.key.run <= run
      BY DEF PrepTyped, ManagerTyped, PrepJobSet, Lane, JobsInv
    <3>2. \A j \in prepJobs : j.key # NoKey
      BY <3>1 DEF NoKey
    <3>3. \A i, j \in prepJobs : i.key = j.key => i = j
      BY DEF Lane, JobsInv
    <3>4. PreparingHasItsJob'
      BY <2>2 DEF PreparingHasItsJob
    <3> QED BY <2>1, <2>2, <2>4, <3>1, <3>2, <3>3, <3>4 DEF JobsInv
  <2>7. ProviderInv'
    BY <2>1 DEF Lane, ProviderInv
  <2>8. TriedInv'
    <3>1. attempted \subseteq Keys
      BY DEF PrepTyped, ManagerTyped
    <3> QED BY <2>1, <2>4, <3>1 DEF Lane, TriedInv
  <2>9. OnlyOnce /\ KeepsCover
    BY <2>1, <2>2 DEF OnlyOnce, KeepsCover
  <2> QED BY <2>5, <2>6, <2>7, <2>8, <2>9 DEF Lane
<1>7. CASE EndRun
  <2>1. /\ UNCHANGED <<run, prepJobs, active, attempted>>
        /\ phase # "idle" /\ phase' = "idle" /\ generation' = generation + 1 /\ ~overlay'.on
        /\ IF Outstanding(slot) THEN Transition("discarded") ELSE UNCHANGED <<slot, terminal>>
    BY <1>7 DEF EndRun, NoOverlay
  <2>2. KeepsCover
    BY <2>1 DEF KeepsCover
  <2>3. CASE Outstanding(slot)
    BY <2>1, <2>2, <2>3, TransitionStep
  <2>4. CASE ~Outstanding(slot)
    <3>1. SlotInv' /\ PreparingHasItsJob'
      BY <2>1, <2>4 DEF Lane, SlotInv, Outstanding, PrepGivenUp, PreparingHasItsJob
    <3>2. \A j \in prepJobs : j.gen \in Nat /\ generation \in Nat
      BY DEF PrepTyped, ManagerTyped, PrepJobSet
    <3>3. \A j \in prepJobs : j.key = slot.key => j.key.run = run
      <4>1. \A j \in prepJobs : j.key # NoKey
        BY DEF Lane, JobsInv, NoKey
      <4> QED BY <4>1 DEF Lane, SlotInv
    <3>4. \A j \in prepJobs :
            /\ j.key.kind # "none" /\ j.key.run <= run
            /\ j.key.run = run => Known(j.key) /\ j.gen <= generation
      BY DEF Lane, JobsInv
    <3>5. \A j \in prepJobs :
            /\ j.key.run = run => j.gen <= generation'
            /\ ~(j.key = slot.key /\ j.gen = generation')
      BY <2>1, <3>2, <3>3, <3>4
    <3>6. JobsInv'
      BY <2>1, <2>4, <3>1, <3>4, <3>5 DEF Lane, JobsInv, Known
    <3>7. ProviderInv' /\ TriedInv'
      BY <2>1, <2>4 DEF Lane, ProviderInv, TriedInv, Known
    <3>8. OnlyOnce
      BY <2>1 DEF OnlyOnce
    <3> QED BY <2>2, <3>1, <3>6, <3>7, <3>8 DEF Lane
  <2> QED BY <2>3, <2>4
<1>8. ASSUME NEW kind \in {"plain", "kept"}, Act(kind) PROVE Lane' /\ OnlyOnce /\ KeepsCover
  BY <1>4, <1>8 DEF Act, BeginCompile
<1>9. CASE ConsiderReady
  BY <1>5, <1>9 DEF ConsiderReady, Journal
<1>10. CASE Maintain
  <2>1. phase # "idle" /\ UNCHANGED <<run, overlay>>
    BY <1>10 DEF Maintain, Journal
  <2>2. CASE UNCHANGED <<Manager>> /\ AfterMaintenance(pressure)
    <3>1. phase' # "idle"
      BY <2>2 DEF AfterMaintenance
    <3> QED BY <1>4, <2>1, <2>2, <3>1
  <2>3. CASE /\ CanPlan /\ MayPrepare(Checkpoint(PlannedTo))
             /\ PrepareSynchronously(Checkpoint(PlannedTo)) /\ phase' = "maintaining"
    <3>1. Checkpoint(PlannedTo) \in Keys /\ Checkpoint(PlannedTo).run = run
          /\ Checkpoint(PlannedTo).kind # "none"
      BY <2>3, KeysOfTheRun
    <3> QED BY <1>3, <2>1, <2>3, <3>1
  <2> QED BY <1>10, <2>2, <2>3 DEF Maintain
<1>11. CASE CommitCheckpoint
  <2>1. /\ UNCHANGED <<run, overlay, generation, prepJobs, active, attempted>>
        /\ phase # "idle" /\ phase' # "idle"
    BY <1>11 DEF CommitCheckpoint, Journal, AfterMaintenance
  <2>2. \/ slot.status = "ready" /\ (Transition("adopted") \/ Transition("stale"))
        \/ UNCHANGED <<slot, terminal>>
    BY <1>11 DEF CommitCheckpoint
  <2>3. KeepsCover
    BY <2>1 DEF KeepsCover
  <2>4. CASE slot.status = "ready" /\ (Transition("adopted") \/ Transition("stale"))
    BY <2>1, <2>3, <2>4, TransitionStep DEF Outstanding
  <2>5. CASE UNCHANGED <<slot, terminal>>
    BY <1>4, <2>1, <2>5 DEF Manager
  <2> QED BY <2>2, <2>4, <2>5
<1>12. CASE WaitedFor
  BY <1>5, <1>12 DEF WaitedFor, Journal
<1>13. CASE Recover
  BY <1>4, <1>13 DEF Recover, Journal
<1>14. CASE FocusNow
  <2>1. phase # "idle" /\ phase' # "idle" /\ UNCHANGED <<run, overlay>>
    BY <1>14 DEF FocusNow, Journal
  <2>2. FocusKey \in Keys /\ FocusKey.run = run /\ FocusKey.kind # "none"
    BY KeysOfTheRun
  <2>3. UNCHANGED <<Manager>> \/ (MayPrepare(FocusKey) /\ PrepareSynchronously(FocusKey))
    BY <1>14 DEF FocusNow
  <2> QED BY <1>3, <1>4, <2>1, <2>2, <2>3
<1>15. CASE FocusReady
  BY <1>5, <1>15 DEF FocusReady, Journal
<1>16. CASE Trigger
  <2>1. phase # "idle" /\ phase' # "idle" /\ UNCHANGED <<run, overlay>>
    BY <1>16 DEF Trigger, Journal
  <2>2. FocusKey \in Keys /\ FocusKey.run = run /\ FocusKey.kind # "none"
    BY KeysOfTheRun
  <2>3. \/ UNCHANGED <<Manager>>
        \/ /\ ~Known(FocusKey) /\ ~Outstanding(slot)
           /\ Launch(FocusKey, TRUE) /\ UNCHANGED terminal
    BY <1>16 DEF Trigger, StartBackground, Manager, Known
  <2>4. CASE UNCHANGED <<Manager>>
    BY <1>4, <2>1, <2>4
  <2>5. CASE /\ ~Known(FocusKey) /\ ~Outstanding(slot)
             /\ Launch(FocusKey, TRUE) /\ UNCHANGED terminal
    <3>1. terminal \subseteq terminal' /\ (slot.status = "empty" \/ slot.key \in terminal')
      BY <1>1, <1>2, <2>5
    <3> QED BY <2>1, <2>2, <2>5, <3>1, LaunchStep
  <2> QED BY <2>3, <2>4, <2>5
<1>17. CASE SummaryEnds
  <2>1. PICK j \in prepJobs, st \in {"ready", "failed"} :
          /\ j.at = "running" /\ active' = NoKey /\ Settle(j, st)
          /\ UNCHANGED Elsewhere /\ UNCHANGED attempted
    BY <1>17 DEF SummaryEnds
  <2> QED BY <2>1, SettleStep DEF Elsewhere
<1>18. CASE SlotWasBusy
  <2>1. PICK j \in prepJobs :
          /\ j.at = "busy" /\ active' = active /\ Settle(j, "failed")
          /\ UNCHANGED Elsewhere /\ UNCHANGED attempted
    BY <1>18 DEF SlotWasBusy
  <2> QED BY <2>1, SettleStep DEF Elsewhere
<1>19. CASE SlotIsFree
  BY <1>19, QueuedStep
<1>20. CASE UNCHANGED prepVars
  BY <1>20, QuietStep DEF prepVars, Manager
<1> QED BY <1>6, <1>7, <1>8, <1>9, <1>10, <1>11, <1>12, <1>13, <1>14, <1>15, <1>16, <1>17,
           <1>18, <1>19, <1>20 DEF PrepNext, CompileStep, JobStep

-----------------------------------------------------------------------------
(* Theorems.                                                               *)

LEMMA AlwaysInLane == PrepSpec => [](PrepTyped /\ Lane)
<1>1. PrepInit => PrepTyped /\ Lane
  BY PrepTypedInit, LaneInit
<1>2. (PrepTyped /\ Lane) /\ [PrepNext]_prepVars => (PrepTyped /\ Lane)'
  BY PrepTypedStep, LaneStep
<1> QED BY <1>1, <1>2, PTL DEF PrepSpec

\* The compilation, the manager and the scheduler keep their fields in range:
\* at most two synchronous attempts, calls within the journal, keys of runs.
THEOREM PreparationIsTyped == PrepSpec => []PrepTypeOK
<1>1. PrepTyped => PrepTypeOK
  BY TypedIsEnough
<1> QED BY <1>1, AlwaysTyped, PTL

\* A candidate in preparation always has the job that will settle it: what
\* waits in compilePreparedMainContext waits for something.
THEOREM WaitsHaveJobs == PrepSpec => []PreparingHasItsJob
<1>1. Lane => PreparingHasItsJob
  BY DEF Lane, JobsInv
<1> QED BY <1>1, AlwaysInLane, PTL

\* The provider's background slot is held by exactly the job that runs.
THEOREM OneSummary == PrepSpec => []OneSummaryAtATime
<1>1. Lane => OneSummaryAtATime
  <2> SUFFICES ASSUME Lane PROVE OneSummaryAtATime
    OBVIOUS
  <2> DEFINE running == {j \in prepJobs : j.at = "running"}
  <2>1. \A i, j \in running : i = j
    BY DEF Lane, ProviderInv, JobsInv
  <2>2. CASE running = {}
    <3>1. Cardinality(running) = 0
      BY <2>2, FS_EmptySet
    <3> QED BY <3>1 DEF OneSummaryAtATime, Lane, ProviderInv
  <2>3. CASE running # {}
    <3>1. PICK j : running = {j}
      BY <2>1, <2>3
    <3>2. Cardinality(running) = 1
      BY <3>1, FS_Singleton
    <3> QED BY <3>2 DEF OneSummaryAtATime, Lane, ProviderInv
  <2> QED BY <2>2, <2>3
<1> QED BY <1>1, AlwaysInLane, PTL

\* The model is asked for each source at most once, whatever fails, is
\* superseded or comes late.
THEOREM SourcesAreTriedOnce == PrepSpec => SourceIsTriedOnce
<1>1. PrepTyped /\ Lane /\ [PrepNext]_prepVars => [OnlyOnce]_prepVars
  BY LaneStep
<1> QED BY <1>1, AlwaysInLane, PTL DEF PrepSpec, SourceIsTriedOnce, OnlyOnce

\* Within a run no new focus loses what an earlier one covers.
THEOREM CoverageIsKept == PrepSpec => FocusKeepsItsCoverage
<1>1. PrepTyped /\ Lane /\ [PrepNext]_prepVars => [KeepsCover]_prepVars
  BY LaneStep
<1> QED BY <1>1, AlwaysInLane, PTL DEF PrepSpec, FocusKeepsItsCoverage, KeepsCover
=============================================================================
