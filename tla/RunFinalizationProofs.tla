----------------------- MODULE RunFinalizationProofs -----------------------
(***************************************************************************)
(* Proofs about RunFinalization, for any number of streams, workstreams,   *)
(* runs, crashes and failing calls.                                        *)
(***************************************************************************)
EXTENDS RunFinalization, TLAPS

-----------------------------------------------------------------------------
(* The inductive invariant, in parts.                                      *)

\* What the operation in progress may rely on.
OperationInv ==
    /\ op.kind # "idle" => op.run \in Run
    /\ op.kind = "route" =>
          /\ boot = "ready" /\ op.ws \in Workstreams
          /\ run[op.run].status = "running" /\ journal[op.run].phase = "none"
    /\ op.kind = "unbound" => unbound[op.run].phase # "none"
    /\ op.kind = "bound" => journal[op.run].phase # "none"

\* A journaled run keeps its workstream.
JournaledIsBound ==
    \A r \in Run : journal[r].phase # "none" => run[r].ws \in Workstreams

\* What recovery has read, it has read from the journals.
StageInv ==
    /\ boot = "unbound" => \A r \in todo : unbound[r].phase # "none"
    /\ boot = "bound" => \A r \in todo : journal[r].phase # "none"
    /\ boot = "sweep" => op.kind = "idle"

\* Where a run is in its life.
Life(r) ==
    /\ run[r].status = "none" =>
          unbound[r].phase = "none" /\ journal[r].phase = "none" /\ run[r].ws = NoWorkstream
    /\ unbound[r].phase # "none" => run[r].ws = NoWorkstream
    /\ unbound[r].phase = "completed" => run[r].status # "running"
    /\ (unbound[r].phase # "none" /\ run[r].status = "running") =>
          \/ op.kind = "unbound" /\ op.run = r
          \/ boot = "down"
          \/ boot = "unbound" /\ r \in todo
    /\ (run[r].status = "running" /\ Bound(r) /\ journal[r].phase = "none") =>
          /\ plan[r].phase = "planned"
          /\ boot = "interrupted" => r \in todo
          /\ boot # "sweep"
    /\ (boot = "sweep" /\ r \in todo) => run[r].status \in Blocking
    /\ (op.kind \in {"unbound", "bound"} /\ op.run = r /\ op.step = "receipt") =>
          run[r].status \in Outcome
    /\ r \in acked => run[r].status \in Outcome

LifeInv == \A r \in Run : Life(r)

\* Git, the journals and SQLite's head.
HistoryInv ==
    /\ CommitsAreJournaled
    /\ SqliteFollowsGit
    /\ TerminalIsCommitted
    /\ \A r \in Run : journal[r].phase # "none" => journal[r].base <= repoHead
    /\ \A r \in Run : journal[r].commit # 0 =>
          /\ journal[r].commit = journal[r].base + 1
          /\ journal[r].commit <= Len(log)
          /\ log[journal[r].commit].run = r
    /\ \A r \in Run : journal[r].phase = "context_committed" => journal[r].commit # 0
    /\ op.kind = "bound" /\ op.step = "written" =>
          /\ journal[op.run].phase = "resource_effects_recorded"
          /\ journal[op.run].base = Len(log)
    /\ op.kind = "bound" /\ op.step = "committed" =>
          /\ journal[op.run].phase = "resource_effects_recorded"
          /\ journal[op.run].base + 1 <= Len(log)
          /\ log[journal[op.run].base + 1].run = op.run

Typing == TypeOK /\ OperationInv /\ JournaledIsBound /\ StageInv

IInv == Typing /\ LifeInv /\ HistoryInv

-----------------------------------------------------------------------------
(* Rows stay rows: one lemma per kind of write.                            *)

\* A write of a run's status.
LEMMA StatusTyped ==
    ASSUME TypeOK, NEW r \in Run, NEW s \in Blocking \cup Outcome, SetStatus(r, s)
    PROVE  run' \in [Run -> RunRow]
<1>1. run[r] \in RunRow
  BY DEF TypeOK
<1>2. [run[r] EXCEPT !.status = s] \in RunRow
  BY <1>1 DEF RunRow
<1> QED BY <1>2 DEF SetStatus, TypeOK

\* markRunRecoveryRequired: a status write, or none.
LEMMA MarkTyped ==
    ASSUME TypeOK, NEW r \in Run, MarkRecovery(r)
    PROVE  run' \in [Run -> RunRow]
<1>1. CASE run[r].status = "running"
  BY <1>1, StatusTyped DEF MarkRecovery, Blocking
<1>2. CASE run[r].status # "running"
  <2>1. run[r] \in RunRow
    BY DEF TypeOK
  <2>2. [run[r] EXCEPT !.status = run[r].status] = run[r]
    BY <2>1 DEF RunRow
  <2>3. run' = [run EXCEPT ![r] = [run[r] EXCEPT !.status = run[r].status]]
    BY <1>2 DEF MarkRecovery, SetStatus
  <2> QED BY <2>1, <2>2, <2>3 DEF TypeOK
<1> QED BY <1>1, <1>2

\* A run is bound to a workstream or detached from it.
LEMMA BindingTyped ==
    ASSUME TypeOK, NEW r \in Run, NEW w \in Workstreams \cup {NoWorkstream},
           run' = [run EXCEPT ![r].ws = w]
    PROVE  run' \in [Run -> RunRow]
<1>1. run[r] \in RunRow
  BY DEF TypeOK
<1>2. [run[r] EXCEPT !.ws = w] \in RunRow
  BY <1>1 DEF RunRow
<1> QED BY <1>2 DEF TypeOK

\* A journal moves to another phase.
LEMMA PhaseTyped ==
    ASSUME TypeOK, NEW r \in Run, NEW p \in JournalPhase, SetPhase(r, p)
    PROVE  journal' \in [Run -> JournalRow]
BY DEF SetPhase, TypeOK, JournalRow

\* A journal records its commit.
LEMMA CommittedTyped ==
    ASSUME TypeOK, NEW r \in Run,
           journal' = [journal EXCEPT ![r] =
              [@ EXCEPT !.phase = "context_committed", !.commit = journal[r].base + 1]]
    PROVE  journal' \in [Run -> JournalRow]
<1>1. journal[r] \in JournalRow /\ journal[r].base + 1 \in Commit
  BY DEF TypeOK, JournalRow, Commit
<1>2. [journal[r] EXCEPT !.phase = "context_committed", !.commit = journal[r].base + 1]
         \in JournalRow
  BY <1>1 DEF JournalRow, JournalPhase
<1> QED BY <1>2 DEF TypeOK

\* An unbound journal moves to another phase.
LEMMA UnboundTyped ==
    ASSUME TypeOK, NEW r \in Run, NEW p \in {"prepared", "completed", "recovery_required"},
           SetUnbound(r, p)
    PROVE  unbound' \in [Run -> UnboundRow]
BY DEF SetUnbound, TypeOK, UnboundRow

\* A route plan moves to another phase.
LEMMA PlanTyped ==
    ASSUME TypeOK, NEW r \in Run,
           NEW p \in {"none", "planned", "recovery_required", "committed", "discarded"},
           plan' = [plan EXCEPT ![r].phase = p]
    PROVE  plan' \in [Run -> PlanRow]
BY DEF TypeOK, PlanRow

\* Every write of a workstream's row.
LEMMA WorkstreamTyped ==
    ASSUME NEW row \in WorkstreamRow, NEW r \in Run, NEW c \in Commit
    PROVE  /\ [row EXCEPT !.status = "initializing", !.creator = r] \in WorkstreamRow
           /\ [row EXCEPT !.ahead = r] \in WorkstreamRow
           /\ [row EXCEPT !.evidence = TRUE] \in WorkstreamRow
           /\ [row EXCEPT !.status = "active", !.lastCommit = c, !.ahead = NoRun]
                 \in WorkstreamRow
           /\ NoWorkstreamRow \in WorkstreamRow
BY DEF WorkstreamRow, NoWorkstreamRow, Commit

\* The operation at the head of the queue reaches another point.
LEMMA StepTyped ==
    ASSUME TypeOK, NEW s \in Points, Step(s)
    PROVE  op' \in [kind : {"idle", "route", "unbound", "bound"}, run : Run \cup {NoRun},
                    ws : Workstreams \cup {NoWorkstream}, caller : BOOLEAN, step : Points]
BY DEF Step, TypeOK

\* The head a plan or journal takes as its base is a commit.
LEMMA HeadTyped ==
    ASSUME TypeOK, NEW w \in Workstreams
    PROVE  WorkstreamHead(w) \in Commit
BY DEF TypeOK, WorkstreamHead, Materialized, WorkstreamRow

\* The compound steps: route, discard, prepare.
LEMMA RouteTyped ==
    ASSUME TypeOK, NEW r \in Run, NEW w \in Workstreams, NEW c \in BOOLEAN, Route(r, w, c)
    PROVE  /\ run' \in [Run -> RunRow]
           /\ plan' \in [Run -> PlanRow]
           /\ workstream' \in [Workstreams -> WorkstreamRow]
<1>1. run' \in [Run -> RunRow]
  BY BindingTyped DEF Route
<1>2. [phase |-> "planned", base |-> WorkstreamHead(w)] \in PlanRow
  BY HeadTyped DEF PlanRow
<1>3. plan' \in [Run -> PlanRow]
  BY <1>2 DEF Route, TypeOK
<1>4. workstream[w] \in WorkstreamRow
  BY DEF TypeOK
<1>5. CASE c
  <2>1. workstream' = [workstream EXCEPT ![w] = [workstream[w] EXCEPT !.ahead = r]]
    BY <1>5 DEF Route
  <2> QED BY <1>1, <1>3, <1>4, <2>1, WorkstreamTyped DEF TypeOK, Commit
<1>6. CASE ~c
  <2>1. [workstream[w] EXCEPT !.ahead = workstream[w].ahead] = workstream[w]
    BY <1>4 DEF WorkstreamRow
  <2>2. workstream' = [workstream EXCEPT ![w] = [workstream[w] EXCEPT !.ahead =
          workstream[w].ahead]]
    BY <1>6 DEF Route
  <2> QED BY <1>1, <1>3, <1>4, <2>1, <2>2 DEF TypeOK
<1> QED BY <1>5, <1>6

\* The transaction that discards an empty workstream.
LEMMA DiscardTyped ==
    ASSUME TypeOK, NEW r \in Run, NEW o \in Outcome, NEW c \in BOOLEAN, Discard(r, o, c)
    PROVE  /\ run' \in [Run -> RunRow]
           /\ plan' \in [Run -> PlanRow]
           /\ workstream' \in [Workstreams -> WorkstreamRow]
           /\ unbound' \in [Run -> UnboundRow]
<1>1. run' \in [Run -> RunRow]
  BY BindingTyped DEF Discard
<1>2. plan' \in [Run -> PlanRow]
  BY DEF Discard, TypeOK, PlanRow, NoPlan, Commit
<1>3. workstream' \in [Workstreams -> WorkstreamRow]
  BY WorkstreamTyped DEF Discard, TypeOK, Commit
<1>4. [phase |-> "prepared", outcome |-> o] \in UnboundRow
  BY DEF UnboundRow
<1>5. unbound' \in [Run -> UnboundRow]
  BY <1>4 DEF Discard, TypeOK
<1> QED BY <1>1, <1>2, <1>3, <1>5

\* The transaction that prepares a bound finalization.
LEMMA PrepareTyped ==
    ASSUME TypeOK, NEW r \in Run, NEW o \in Outcome, NEW e \in BOOLEAN, NEW c \in BOOLEAN,
           Prepare(r, o, e, c)
    PROVE  /\ journal' \in [Run -> JournalRow]
           /\ workstream' \in [Workstreams -> WorkstreamRow]
<1>1. [phase |-> "prepared", base |-> repoHead, commit |-> 0, outcome |-> o] \in JournalRow
  BY DEF TypeOK, JournalRow, JournalPhase, Commit
<1>2. journal' \in [Run -> JournalRow]
  BY <1>1 DEF Prepare, TypeOK
<1>3. DEFINE w == run[r].ws
<1>4. w \in Workstreams
  BY DEF Prepare, Bound, TypeOK, RunRow
<1>5. workstream[w] \in WorkstreamRow
  BY <1>4 DEF TypeOK
<1>6. [workstream[w] EXCEPT !.evidence = @ \/ e] \in WorkstreamRow
  BY <1>5 DEF WorkstreamRow
<1>7. workstream' = [workstream EXCEPT ![w] = [workstream[w] EXCEPT !.evidence = @ \/ e]]
  BY DEF Prepare
<1> QED BY <1>2, <1>6, <1>7 DEF TypeOK

-----------------------------------------------------------------------------
\* Initially all tables are empty.
LEMMA TypingInit == Init => Typing
BY RunAssumption DEF Init, Typing, TypeOK, OperationInv, JournaledIsBound, StageInv,
   RunRow, WorkstreamRow, UnboundRow, PlanRow, JournalRow, JournalPhase,
   NoWorkstreamRow, NoPlan, NoJournal, NoOp, Outcome, Commit, Points

\* No run has begun its life.
LEMMA LifeInit == Init => LifeInv
BY DEF Init, LifeInv, Life, NoJournal, NoOp

\* Nothing is committed.
LEMMA HistoryInit == Init => HistoryInv
BY DEF Init, HistoryInv, CommitsAreJournaled, SqliteFollowsGit, TerminalIsCommitted,
   GitHead, Bound, NoJournal, NoOp

-----------------------------------------------------------------------------
\* Every step keeps the types.
LEMMA TypeStep ==
    ASSUME Typing, [Next]_vars
    PROVE  TypeOK'
<1>1. ASSUME NEW s \in Streams, StartRun(s) PROVE TypeOK'
  <2>1. PICK r \in Run :
          run' = [run EXCEPT ![r] = [@ EXCEPT !.status = "running", !.stream = s]]
    BY <1>1 DEF StartRun
  <2>2. run[r] \in RunRow
    BY DEF Typing, TypeOK
  <2>3. [run[r] EXCEPT !.status = "running", !.stream = s] \in RunRow
    BY <2>2 DEF RunRow, Blocking
  <2> QED BY <1>1, <2>1, <2>2, <2>3 DEF StartRun, Typing, TypeOK, git
<1>2. ASSUME NEW r \in Run, NEW w \in Workstreams, CreateWorkstream(r, w) PROVE TypeOK'
  <2>1. workstream[w] \in WorkstreamRow
    BY DEF Typing, TypeOK
  <2>2. [workstream[w] EXCEPT !.status = "initializing", !.creator = r] \in WorkstreamRow
    BY <2>1 DEF WorkstreamRow
  <2> QED BY <1>2, <2>1, <2>2 DEF CreateWorkstream, EnsureRepository, Begin, Points,
             Typing, TypeOK, git
<1>3. ASSUME NEW r \in Run, NEW w \in Workstreams, NEW c \in BOOLEAN,
             ActivateWorkstream(r, w, c)
      PROVE TypeOK'
  <2>1. Route(r, w, c)
    BY <1>3 DEF ActivateWorkstream
  <2>2. run' \in [Run -> RunRow] /\ plan' \in [Run -> PlanRow]
          /\ workstream' \in [Workstreams -> WorkstreamRow]
    BY <2>1, RouteTyped DEF Typing
  <2> QED BY <1>3, <2>1, <2>2 DEF ActivateWorkstream, Route, Typing, TypeOK, git
<1>4. ASSUME NEW r \in Run, AdmitResources(r) PROVE TypeOK'
  <2>1. PICK w \in Workstreams :
          workstream' = [workstream EXCEPT ![w] = [@ EXCEPT !.evidence = TRUE]]
    BY <1>4 DEF AdmitResources, Bound, Typing, TypeOK, RunRow
  <2>2. workstream[w] \in WorkstreamRow
    BY DEF Typing, TypeOK
  <2>3. [workstream[w] EXCEPT !.evidence = TRUE] \in WorkstreamRow
    BY <2>2 DEF WorkstreamRow
  <2>4. workstream' \in [Workstreams -> WorkstreamRow]
    BY <2>1, <2>3 DEF Typing, TypeOK
  <2> QED BY <1>4, <2>1, <2>2, <2>3, <2>4 DEF AdmitResources, Typing, TypeOK, git, proc
<1>5. ASSUME NEW r \in Run, NEW o \in Outcome, FinalizeUnbound(r, o) PROVE TypeOK'
  BY <1>5 DEF FinalizeUnbound, Begin, git, Typing, TypeOK, UnboundRow, Points
<1>6. ASSUME NEW r \in Run, NEW o \in Outcome, FinalizeDiscard(r, o) PROVE TypeOK'
  <2>1. Discard(r, o, TRUE)
    BY <1>6 DEF FinalizeDiscard
  <2>2. run' \in [Run -> RunRow] /\ plan' \in [Run -> PlanRow]
          /\ workstream' \in [Workstreams -> WorkstreamRow]
               /\ unbound' \in [Run -> UnboundRow]
    BY <2>1, DiscardTyped DEF Typing
  <2> QED BY <1>6, <2>1, <2>2 DEF FinalizeDiscard, Discard, Begin, Points, Typing,
             TypeOK, git
<1>7. ASSUME NEW r \in Run, NEW o \in Outcome, NEW c \in BOOLEAN, FinalizeBound(r, o, c)
      PROVE TypeOK'
  <2>1. Prepare(r, o, c, TRUE)
    BY <1>7 DEF FinalizeBound
  <2>2. journal' \in [Run -> JournalRow] /\ workstream' \in [Workstreams -> WorkstreamRow]
    BY <2>1, PrepareTyped DEF Typing
  <2>3. run[r].ws \in Workstreams \cup {NoWorkstream}
    BY DEF Typing, TypeOK, RunRow
  <2> QED BY <1>7, <2>1, <2>2, <2>3 DEF FinalizeBound, Prepare, Begin, Points, Typing,
             TypeOK, git
<1>8. ASSUME NEW r \in Run, RefuseBound(r) PROVE TypeOK'
  <2>1. run' \in [Run -> RunRow]
    BY <1>8, MarkTyped DEF RefuseBound, Typing
  <2> QED BY <1>8, <2>1 DEF RefuseBound, Typing, TypeOK, git, proc
<1>9. ASSUME NEW r \in Run, RetryUnbound(r) PROVE TypeOK'
  BY <1>9 DEF RetryUnbound, Begin, git, sqlite, Typing, TypeOK, Points
<1>10. ASSUME NEW r \in Run, RetryBound(r) PROVE TypeOK'
  BY <1>10 DEF RetryBound, Begin, git, sqlite, Typing, TypeOK, JournaledIsBound, Points
<1>11. ASSUME NEW r \in Run, RouteCreated(r) PROVE TypeOK'
  <2>1. Route(r, op.ws, FALSE) /\ op.ws \in Workstreams
    BY <1>11 DEF RouteCreated, At, Typing, OperationInv
  <2>2. run' \in [Run -> RunRow] /\ plan' \in [Run -> PlanRow]
          /\ workstream' \in [Workstreams -> WorkstreamRow]
    BY <2>1, RouteTyped DEF Typing
  <2> QED BY <1>11, <2>1, <2>2 DEF RouteCreated, Route, NoOp, Points, Typing, TypeOK,
             git
<1>12. ASSUME NEW r \in Run, RouteRefused(r) PROVE TypeOK'
  BY <1>12 DEF RouteRefused, At, NoOp, git, sqlite, Typing, TypeOK
<1>13. ASSUME NEW r \in Run, CompleteUnbound(r) PROVE TypeOK'
  <2>1. unbound[r].outcome \in Outcome
          /\ run[r].status \in {"none"} \cup Blocking \cup Outcome
    BY DEF Typing, TypeOK, UnboundRow, RunRow
  <2>2. run[r] \in RunRow
    BY DEF Typing, TypeOK
  <2>3. \A x \in {"none"} \cup Blocking \cup Outcome :
          [run[r] EXCEPT !.status = x] \in RunRow
    BY <2>2 DEF RunRow
  <2>4. run' \in [Run -> RunRow]
    BY <1>13, <2>1, <2>3 DEF CompleteUnbound, SetStatus, Typing, TypeOK
  <2>5. unbound' \in [Run -> UnboundRow]
    BY <1>13, UnboundTyped DEF CompleteUnbound, Typing
  <2> QED BY <1>13, <2>1, <2>2, <2>3, <2>4, <2>5 DEF CompleteUnbound, Points, Typing,
             TypeOK, git
<1>14. ASSUME NEW r \in Run, UnboundError(r) PROVE TypeOK'
  <2>1. run' \in [Run -> RunRow]
    BY <1>14, MarkTyped DEF UnboundError, Typing
  <2>2. unbound' \in [Run -> UnboundRow]
    BY <1>14, UnboundTyped DEF UnboundError, Typing
  <2>3. faults' \in 0..MaxFaults
    BY <1>14, RunAssumption DEF UnboundError, Fault, Typing, TypeOK
  <2> QED BY <1>14, <2>1, <2>2, <2>3 DEF UnboundError, Finish, NoOp, Points, Typing,
             TypeOK, git
<1>15. ASSUME NEW r \in Run, Receipt(r) PROVE TypeOK'
  BY <1>15 DEF Receipt, Finish, NoOp, git, sqlite, Typing, TypeOK, Points
<1>16. ASSUME NEW r \in Run, Reexamine(r) PROVE TypeOK'
  <2>1. journal' \in [Run -> JournalRow]
    BY <1>16, PhaseTyped, CommittedTyped DEF Reexamine, Typing, JournalPhase
  <2> QED BY <1>16, <2>1 DEF Reexamine, Typing, TypeOK, git, proc
<1>17. ASSUME NEW r \in Run, RecordEffects(r) PROVE TypeOK'
  <2>1. journal' \in [Run -> JournalRow]
    BY <1>17, PhaseTyped DEF RecordEffects, Typing, JournalPhase
  <2> QED BY <1>17, <2>1 DEF RecordEffects, Typing, TypeOK, git, proc
<1>18. ASSUME NEW r \in Run, WriteContext(r) PROVE TypeOK'
  BY <1>18 DEF WriteContext, Step, sqlite, Typing, TypeOK, Points
<1>19. ASSUME NEW r \in Run, GitCommit(r) PROVE TypeOK'
  <2>1. run[r].ws \in Workstreams /\ journal[r].outcome \in Outcome
    BY <1>19 DEF GitCommit, At, Typing, TypeOK, OperationInv, JournaledIsBound,
       JournalRow
  <2>2. [run |-> r, ws |-> run[r].ws, outcome |-> journal[r].outcome] \in LogEntry
    BY <2>1 DEF LogEntry
  <2>3. log' \in Seq(LogEntry)
    BY <1>19, <2>2 DEF GitCommit, Typing, TypeOK
  <2>4. op' \in [kind : {"idle", "route", "unbound", "bound"}, run :
          Run \cup {NoRun}, ws : Workstreams \cup {NoWorkstream}, caller :
            BOOLEAN, step : Points]
    BY <1>19, StepTyped DEF GitCommit, Points, Typing
  <2> QED BY <1>19, <2>1, <2>2, <2>3, <2>4 DEF GitCommit, Typing, TypeOK, sqlite
<1>20. ASSUME NEW r \in Run, RecogniseCommit(r) PROVE TypeOK'
  BY <1>20 DEF RecogniseCommit, Step, git, sqlite, Typing, TypeOK, Points
<1>21. ASSUME NEW r \in Run, RecordCommit(r) PROVE TypeOK'
  <2>1. journal' \in [Run -> JournalRow]
    BY <1>21, CommittedTyped DEF RecordCommit, Typing
  <2> QED BY <1>21, <2>1 DEF RecordCommit, Step, Points, Typing, TypeOK, git
<1>22. ASSUME NEW r \in Run, Acknowledge(r) PROVE TypeOK'
  <2>1. journal' \in [Run -> JournalRow]
    BY <1>22, PhaseTyped DEF Acknowledge, Typing, JournalPhase
  <2>2. plan' \in [Run -> PlanRow]
    BY <1>22, PlanTyped DEF Acknowledge, Typing
  <2>3. run[r] \in RunRow /\ run[r].status \in {"none"} \cup Blocking \cup Outcome
    BY DEF Typing, TypeOK, RunRow
  <2>4. journal[r].outcome \in Outcome /\ journal[r].commit \in Commit
    BY DEF Typing, TypeOK, JournalRow
  <2>5. \A x \in {"none"} \cup Blocking \cup Outcome :
          [run[r] EXCEPT !.status = x] \in RunRow
    BY <2>3 DEF RunRow
  <2>6. run' \in [Run -> RunRow]
    BY <1>22, <2>3, <2>4, <2>5 DEF Acknowledge, SetStatus, Typing, TypeOK
  <2>7. run[r].ws \in Workstreams
    BY <1>22 DEF Acknowledge, Typing, JournaledIsBound
  <2>8. workstream[run[r].ws] \in WorkstreamRow
    BY <2>7 DEF Typing, TypeOK
  <2>9. [workstream[run[r].ws] EXCEPT !.status = "active", !.lastCommit =
          journal[r].commit, !.ahead = NoRun] \in WorkstreamRow
    BY <2>4, <2>8 DEF WorkstreamRow
  <2>10. workstream' \in [Workstreams -> WorkstreamRow]
    BY <1>22, <2>9 DEF Acknowledge, Typing, TypeOK
  <2>11. repoHead' \in Commit
           /\ repoHealth' \in {"ready", "dirty_external", "recovery_required"}
    BY <1>22, <2>4 DEF Acknowledge, Typing, TypeOK
  <2> QED BY <1>22, <2>1, <2>2, <2>3, <2>4, <2>5, <2>6, <2>7, <2>8, <2>9, <2>10, <2>11
             DEF Acknowledge, Step, Points, Typing, TypeOK, git
<1>23. ASSUME NEW r \in Run, BoundError(r) PROVE TypeOK'
  <2>1. run' \in [Run -> RunRow]
    BY <1>23, MarkTyped DEF BoundError, Typing
  <2>2. journal' \in [Run -> JournalRow]
    BY <1>23, PhaseTyped DEF BoundError, Typing, JournalPhase
  <2>3. plan' \in [Run -> PlanRow]
    BY <1>23, PlanTyped DEF BoundError, Typing
  <2>4. faults' \in 0..MaxFaults
    BY <1>23, RunAssumption DEF BoundError, Fault, Typing, TypeOK
  <2> QED BY <1>23, <2>1, <2>2, <2>3, <2>4 DEF BoundError, Finish, NoOp, Points,
             Typing, TypeOK, git
<1>24. ASSUME NEW r \in Run, RecoverUnbound(r) PROVE TypeOK'
  BY <1>24 DEF RecoverUnbound, Begin, git, sqlite, Typing, TypeOK, Points
<1>25. ASSUME NEW r \in Run, RecoverBound(r) PROVE TypeOK'
  BY <1>25 DEF RecoverBound, Recovering, Begin, git, sqlite, Typing, TypeOK,
     JournaledIsBound, StageInv, Points
<1>26. ASSUME NEW r \in Run, RecoverInterrupted(r) PROVE TypeOK'
  <2>1. CASE Discard(r, "incomplete", FALSE)
    <3>1. /\ run' \in [Run -> RunRow] /\ plan' \in [Run -> PlanRow]
          /\ workstream' \in [Workstreams -> WorkstreamRow]
               /\ unbound' \in [Run -> UnboundRow]
      BY <2>1, DiscardTyped DEF Typing, Outcome
    <3> QED BY <2>1, <3>1 DEF Discard, Begin, Points, Typing, TypeOK, git
  <2>2. CASE Prepare(r, "incomplete", FALSE, FALSE)
    <3>1. journal' \in [Run -> JournalRow] /\ workstream' \in [Workstreams -> WorkstreamRow]
      BY <2>2, PrepareTyped DEF Typing, Outcome
    <3>2. run[r].ws \in Workstreams \cup {NoWorkstream}
      BY DEF Typing, TypeOK, RunRow
    <3> QED BY <2>2, <3>1, <3>2 DEF Prepare, Begin, Points, Typing, TypeOK, git
  <2> QED BY <1>26, <2>1, <2>2 DEF RecoverInterrupted
<1>27. ASSUME NEW r \in Run, SkipInterrupted(r) PROVE TypeOK'
  <2>1. run' \in [Run -> RunRow]
    BY <1>27, MarkTyped DEF SkipInterrupted, Typing, TypeOK
  <2> QED BY <1>27, <2>1 DEF SkipInterrupted, Typing, TypeOK, git
<1>28. ASSUME NEW r \in Run, Sweep(r) PROVE TypeOK'
  <2>1. run' \in [Run -> RunRow]
    BY <1>28, MarkTyped, StatusTyped DEF Sweep, Typing, Outcome
  <2>2. plan[r].phase \in {"none", "planned", "recovery_required", "committed", "discarded"}
    BY DEF Typing, TypeOK, PlanRow
  <2>3. plan' = plan
          \/ \E p \in {"none", "planned", "recovery_required", "committed",
            "discarded"} : plan' = [plan EXCEPT ![r].phase = p]
    BY <1>28, <2>2 DEF Sweep
  <2>4. plan' \in [Run -> PlanRow]
    BY <2>3, PlanTyped DEF Typing, TypeOK
  <2> QED BY <1>28, <2>1, <2>2, <2>3, <2>4 DEF Sweep, Typing, TypeOK, git
<1>29. ASSUME Boot PROVE TypeOK'
  BY <1>29 DEF Boot, EnsureRepository, OpenUnbound, git, Typing, TypeOK, WorkstreamRow,
     NoWorkstreamRow, Commit
<1>30. ASSUME NextStage PROVE TypeOK'
  BY <1>30 DEF NextStage, OpenJournals, ActiveRuns, git, sqlite, Typing, TypeOK
<1>31. ASSUME Crash PROVE TypeOK'
  BY <1>31, RunAssumption DEF Crash, NoOp, git, sqlite, Typing, TypeOK, Points
<1>32. ASSUME UNCHANGED vars PROVE TypeOK'
  BY <1>32 DEF vars, Typing, TypeOK
<1> QED BY <1>1, <1>2, <1>3, <1>4, <1>5, <1>6, <1>7, <1>8, <1>9, <1>10, <1>11, <1>12,
           <1>13, <1>14, <1>15, <1>16, <1>17, <1>18, <1>19, <1>20, <1>21, <1>22, <1>23,
           <1>24, <1>25, <1>26, <1>27, <1>28, <1>29, <1>30, <1>31, <1>32
           DEF Next, Request, Continue, Recover

-----------------------------------------------------------------------------
\* A journal that is examined again stays a journal, and no other one changes.
LEMMA ReexamineRow ==
    ASSUME TypeOK, NEW r \in Run, Reexamine(r)
    PROVE  /\ journal[r].phase # "none" /\ journal'[r].phase # "none"
           /\ \A q \in Run \ {r} : journal'[q] = journal[q]
<1>1. CASE journal' = [journal EXCEPT ![r] =
              [@ EXCEPT !.phase = "context_committed", !.commit = journal[r].base + 1]]
  BY <1>1 DEF Reexamine, TypeOK, JournalRow
<1>2. CASE SetPhase(r, "resource_effects_recorded")
  BY <1>2 DEF Reexamine, SetPhase, TypeOK, JournalRow
<1> QED BY <1>1, <1>2 DEF Reexamine

\* A status write moves no binding and no other run.
LEMMA StatusRow ==
    ASSUME TypeOK, NEW r \in Run, MarkRecovery(r) \/ \E s \in Outcome : SetStatus(r, s)
    PROVE  /\ \A q \in Run : run'[q].ws = run[q].ws
           /\ \A q \in Run \ {r} : run'[q] = run[q]
<1>1. PICK s : run' = [run EXCEPT ![r].status = s]
  BY DEF MarkRecovery, SetStatus
<1> QED BY <1>1 DEF TypeOK, RunRow

\* Every step keeps what the operation in progress and recovery rely on.
LEMMA OperationStep ==
    ASSUME Typing, [Next]_vars
    PROVE  (OperationInv /\ JournaledIsBound /\ StageInv)'
<1>1. ASSUME NEW s \in Streams, StartRun(s)
      PROVE (OperationInv /\ JournaledIsBound /\ StageInv)'
  BY <1>1 DEF StartRun, Typing, OperationInv, JournaledIsBound, StageInv
<1>2. ASSUME NEW r \in Run, NEW w \in Workstreams, CreateWorkstream(r, w)
      PROVE (OperationInv /\ JournaledIsBound /\ StageInv)'
  BY <1>2, RunAssumption DEF CreateWorkstream, Client, Serving, Bound, Begin, Typing,
     OperationInv, JournaledIsBound, StageInv
<1>3. ASSUME NEW r \in Run, NEW w \in Workstreams, NEW c \in BOOLEAN,
             ActivateWorkstream(r, w, c)
      PROVE (OperationInv /\ JournaledIsBound /\ StageInv)'
  BY <1>3 DEF ActivateWorkstream, Route, Typing, OperationInv, JournaledIsBound,
     StageInv
<1>4. ASSUME NEW r \in Run, AdmitResources(r)
      PROVE (OperationInv /\ JournaledIsBound /\ StageInv)'
  BY <1>4 DEF AdmitResources, proc, Typing, OperationInv, JournaledIsBound, StageInv
<1>5. ASSUME NEW r \in Run, NEW o \in Outcome, FinalizeUnbound(r, o)
      PROVE (OperationInv /\ JournaledIsBound /\ StageInv)'
  BY <1>5 DEF FinalizeUnbound, Client, Serving, Begin, Typing, TypeOK, OperationInv,
     JournaledIsBound, StageInv
<1>6. ASSUME NEW r \in Run, NEW o \in Outcome, FinalizeDiscard(r, o)
      PROVE (OperationInv /\ JournaledIsBound /\ StageInv)'
  BY <1>6 DEF FinalizeDiscard, Client, Serving, Discard, Discardable, Begin, Typing,
     TypeOK, OperationInv, JournaledIsBound, StageInv
<1>7. ASSUME NEW r \in Run, NEW o \in Outcome, NEW c \in BOOLEAN, FinalizeBound(r, o, c)
      PROVE (OperationInv /\ JournaledIsBound /\ StageInv)'
  BY <1>7 DEF FinalizeBound, Client, Serving, Prepare, Begin, Bound, Typing, TypeOK,
     OperationInv, JournaledIsBound, StageInv, RunRow
<1>8. ASSUME NEW r \in Run, RefuseBound(r)
      PROVE (OperationInv /\ JournaledIsBound /\ StageInv)'
  BY <1>8 DEF RefuseBound, Client, Serving, Idle, MarkRecovery, SetStatus, proc,
     Typing, OperationInv, JournaledIsBound, StageInv
<1>9. ASSUME NEW r \in Run, RetryUnbound(r)
      PROVE (OperationInv /\ JournaledIsBound /\ StageInv)'
  BY <1>9 DEF RetryUnbound, Serving, Begin, sqlite, Typing, OperationInv,
     JournaledIsBound, StageInv
<1>10. ASSUME NEW r \in Run, RetryBound(r)
       PROVE (OperationInv /\ JournaledIsBound /\ StageInv)'
  BY <1>10 DEF RetryBound, Serving, Begin, sqlite, Typing, OperationInv,
     JournaledIsBound, StageInv
<1>11. ASSUME NEW r \in Run, RouteCreated(r)
       PROVE (OperationInv /\ JournaledIsBound /\ StageInv)'
  BY <1>11 DEF RouteCreated, At, Route, NoOp, Typing, OperationInv, JournaledIsBound,
     StageInv
<1>12. ASSUME NEW r \in Run, RouteRefused(r)
       PROVE (OperationInv /\ JournaledIsBound /\ StageInv)'
  BY <1>12 DEF RouteRefused, NoOp, sqlite, Typing, OperationInv, JournaledIsBound,
     StageInv
<1>13. ASSUME NEW r \in Run, CompleteUnbound(r)
       PROVE (OperationInv /\ JournaledIsBound /\ StageInv)'
  BY <1>13 DEF CompleteUnbound, At, SetStatus, SetUnbound, Typing, OperationInv,
     JournaledIsBound, StageInv
<1>14. ASSUME NEW r \in Run, UnboundError(r)
       PROVE (OperationInv /\ JournaledIsBound /\ StageInv)'
  BY <1>14 DEF UnboundError, MarkRecovery, SetStatus, SetUnbound, Finish, NoOp, Typing,
     OperationInv, JournaledIsBound, StageInv
<1>15. ASSUME NEW r \in Run, Receipt(r)
       PROVE (OperationInv /\ JournaledIsBound /\ StageInv)'
  BY <1>15 DEF Receipt, Finish, NoOp, sqlite, Typing, OperationInv, JournaledIsBound,
     StageInv
<1>16. ASSUME NEW r \in Run, Reexamine(r)
       PROVE (OperationInv /\ JournaledIsBound /\ StageInv)'
  <2>1. UNCHANGED <<run, unbound, op, boot, todo>>
    BY <1>16 DEF Reexamine, proc
  <2> QED BY <1>16, <2>1, ReexamineRow DEF Typing, OperationInv, JournaledIsBound,
             StageInv, TypeOK
<1>17. ASSUME NEW r \in Run, RecordEffects(r)
       PROVE (OperationInv /\ JournaledIsBound /\ StageInv)'
  BY <1>17 DEF RecordEffects, SetPhase, proc, Typing, OperationInv, JournaledIsBound,
     StageInv
<1>18. ASSUME NEW r \in Run, WriteContext(r)
       PROVE (OperationInv /\ JournaledIsBound /\ StageInv)'
  BY <1>18 DEF WriteContext, Step, sqlite, Typing, OperationInv, JournaledIsBound,
     StageInv
<1>19. ASSUME NEW r \in Run, GitCommit(r)
       PROVE (OperationInv /\ JournaledIsBound /\ StageInv)'
  BY <1>19 DEF GitCommit, Step, sqlite, Typing, OperationInv, JournaledIsBound, StageInv
<1>20. ASSUME NEW r \in Run, RecogniseCommit(r)
       PROVE (OperationInv /\ JournaledIsBound /\ StageInv)'
  BY <1>20 DEF RecogniseCommit, Step, sqlite, Typing, OperationInv, JournaledIsBound,
     StageInv
<1>21. ASSUME NEW r \in Run, RecordCommit(r)
       PROVE (OperationInv /\ JournaledIsBound /\ StageInv)'
  BY <1>21 DEF RecordCommit, At, Step, Typing, OperationInv, JournaledIsBound, StageInv
<1>22. ASSUME NEW r \in Run, Acknowledge(r)
       PROVE (OperationInv /\ JournaledIsBound /\ StageInv)'
  BY <1>22 DEF Acknowledge, Step, SetStatus, SetPhase, Typing, OperationInv,
     JournaledIsBound, StageInv
<1>23. ASSUME NEW r \in Run, BoundError(r)
       PROVE (OperationInv /\ JournaledIsBound /\ StageInv)'
  BY <1>23 DEF BoundError, MarkRecovery, SetStatus, SetPhase, Finish, NoOp, Typing,
     OperationInv, JournaledIsBound, StageInv
<1>24. ASSUME NEW r \in Run, RecoverUnbound(r)
       PROVE (OperationInv /\ JournaledIsBound /\ StageInv)'
  BY <1>24 DEF RecoverUnbound, Recovering, Begin, sqlite, Typing, OperationInv,
     JournaledIsBound, StageInv
<1>25. ASSUME NEW r \in Run, RecoverBound(r)
       PROVE (OperationInv /\ JournaledIsBound /\ StageInv)'
  BY <1>25 DEF RecoverBound, Recovering, Begin, sqlite, Typing, OperationInv,
     JournaledIsBound, StageInv
<1>26. ASSUME NEW r \in Run, RecoverInterrupted(r)
       PROVE (OperationInv /\ JournaledIsBound /\ StageInv)'
  <2>1. CASE Discard(r, "incomplete", FALSE)
    BY <1>26, <2>1 DEF RecoverInterrupted, Recovering, Discard, Discardable, Begin,
       Typing, TypeOK, OperationInv, JournaledIsBound, StageInv
  <2>2. CASE Prepare(r, "incomplete", FALSE, FALSE)
    BY <1>26, <2>2 DEF RecoverInterrupted, Recovering, Prepare, Bound, Begin, Typing,
       TypeOK, OperationInv, JournaledIsBound, StageInv, RunRow
  <2> QED BY <1>26, <2>1, <2>2 DEF RecoverInterrupted
<1>27. ASSUME NEW r \in Run, SkipInterrupted(r)
       PROVE (OperationInv /\ JournaledIsBound /\ StageInv)'
  BY <1>27 DEF SkipInterrupted, Recovering, Interrupted, MarkRecovery, SetStatus,
     Typing, TypeOK, OperationInv, JournaledIsBound, StageInv
<1>28. ASSUME NEW r \in Run, Sweep(r)
       PROVE (OperationInv /\ JournaledIsBound /\ StageInv)'
  <2>1. UNCHANGED <<unbound, journal, op, boot>> /\ op.kind = "idle" /\ boot = "sweep"
    BY <1>28 DEF Sweep, Recovering, Idle
  <2>2. \A q \in Run : run'[q].ws = run[q].ws
    BY <1>28, StatusRow DEF Sweep, Typing, Outcome
  <2> QED BY <2>1, <2>2 DEF Typing, OperationInv, JournaledIsBound, StageInv
<1>29. ASSUME Boot PROVE (OperationInv /\ JournaledIsBound /\ StageInv)'
  BY <1>29 DEF Boot, OpenUnbound, Typing, OperationInv, JournaledIsBound, StageInv
<1>30. ASSUME NextStage PROVE (OperationInv /\ JournaledIsBound /\ StageInv)'
  BY <1>30 DEF NextStage, Idle, OpenJournals, sqlite, Typing, OperationInv,
     JournaledIsBound, StageInv
<1>31. ASSUME Crash PROVE (OperationInv /\ JournaledIsBound /\ StageInv)'
  BY <1>31 DEF Crash, NoOp, sqlite, Typing, OperationInv, JournaledIsBound, StageInv
<1>32. ASSUME UNCHANGED vars PROVE (OperationInv /\ JournaledIsBound /\ StageInv)'
  BY <1>32 DEF vars, Typing, OperationInv, JournaledIsBound, StageInv
<1> QED BY <1>1, <1>2, <1>3, <1>4, <1>5, <1>6, <1>7, <1>8, <1>9, <1>10, <1>11, <1>12,
           <1>13, <1>14, <1>15, <1>16, <1>17, <1>18, <1>19, <1>20, <1>21, <1>22, <1>23,
           <1>24, <1>25, <1>26, <1>27, <1>28, <1>29, <1>30, <1>31, <1>32
           DEF Next, Request, Continue, Recover

-----------------------------------------------------------------------------
\* Every step keeps each run's place in its life.
LEMMA LifeStep ==
    ASSUME Typing, LifeInv, TypeOK', [Next]_vars
    PROVE  LifeInv'
<1>1. ASSUME NEW s \in Streams, StartRun(s) PROVE LifeInv'
  BY <1>1 DEF StartRun, LifeInv, Life, Bound, Blocking, Outcome
<1>2. ASSUME NEW r \in Run, NEW w \in Workstreams, CreateWorkstream(r, w) PROVE LifeInv'
  BY <1>2 DEF CreateWorkstream, Client, Serving, Idle, Bound, Begin, LifeInv, Life
<1>3. ASSUME NEW r \in Run, NEW w \in Workstreams, NEW c \in BOOLEAN,
             ActivateWorkstream(r, w, c)
      PROVE LifeInv'
  BY <1>3 DEF ActivateWorkstream, Client, Serving, Idle, Bound, Route, TypeOK, LifeInv,
     Life
<1>4. ASSUME NEW r \in Run, AdmitResources(r) PROVE LifeInv'
  BY <1>4 DEF AdmitResources, Bound, proc, LifeInv, Life
<1>5. ASSUME NEW r \in Run, NEW o \in Outcome, FinalizeUnbound(r, o) PROVE LifeInv'
  BY <1>5 DEF FinalizeUnbound, Client, Serving, Idle, Bound, Begin, LifeInv, Life
<1>6. ASSUME NEW r \in Run, NEW o \in Outcome, FinalizeDiscard(r, o) PROVE LifeInv'
  BY <1>6 DEF FinalizeDiscard, Client, Serving, Idle, Discard, Begin, TypeOK, LifeInv,
     Life, Bound
<1>7. ASSUME NEW r \in Run, NEW o \in Outcome, NEW c \in BOOLEAN, FinalizeBound(r, o, c)
      PROVE LifeInv'
  BY <1>7 DEF FinalizeBound, Client, Serving, Idle, Prepare, Begin, Bound, LifeInv, Life
<1>8. ASSUME NEW r \in Run, RefuseBound(r) PROVE LifeInv'
  BY <1>8 DEF RefuseBound, Bound, MarkRecovery, SetStatus, proc, LifeInv, Life, Outcome
<1>9. ASSUME NEW r \in Run, RetryUnbound(r) PROVE LifeInv'
  BY <1>9 DEF RetryUnbound, Serving, Idle, Begin, sqlite, LifeInv, Life, Bound
<1>10. ASSUME NEW r \in Run, RetryBound(r) PROVE LifeInv'
  BY <1>10 DEF RetryBound, Serving, Idle, Begin, sqlite, LifeInv, Life, Bound
<1>11. ASSUME NEW r \in Run, RouteCreated(r) PROVE LifeInv'
  BY <1>11 DEF RouteCreated, At, Route, NoOp, Typing, TypeOK, OperationInv, LifeInv,
     Life, Bound
<1>12. ASSUME NEW r \in Run, RouteRefused(r) PROVE LifeInv'
  BY <1>12 DEF RouteRefused, At, NoOp, sqlite, LifeInv, Life, Bound
<1>13. ASSUME NEW r \in Run, CompleteUnbound(r) PROVE LifeInv'
  <2>1. /\ unbound[r].phase # "none" /\ op.kind = "unbound" /\ op.run = r
        /\ op' = [op EXCEPT !.step = "receipt"]
             /\ UNCHANGED <<journal, plan, boot, todo, acked>>
    BY <1>13 DEF CompleteUnbound, At, Typing, OperationInv
  <2>2. run[r].status # "none" /\ run[r].ws = NoWorkstream
    BY <2>1 DEF LifeInv, Life
  <2>3. run'[r].status \in Outcome /\ run'[r].ws = run[r].ws
    BY <1>13, <2>2 DEF CompleteUnbound, SetStatus, Typing, TypeOK, RunRow, UnboundRow
  <2>4. unbound'[r].phase = "completed"
    BY <1>13 DEF CompleteUnbound, SetUnbound, Typing, TypeOK
  <2>5. \A q \in Run \ {r} : run'[q] = run[q] /\ unbound'[q] = unbound[q]
    BY <1>13 DEF CompleteUnbound, SetStatus, SetUnbound
  <2>6. Life(r)'
    BY <2>1, <2>2, <2>3, <2>4 DEF LifeInv, Life, Outcome, Typing, StageInv
  <2>7. ASSUME NEW q \in Run \ {r} PROVE Life(q)'
    BY <2>1, <2>5 DEF LifeInv, Life, Bound
  <2> QED BY <2>6, <2>7 DEF LifeInv
<1>14. ASSUME NEW r \in Run, UnboundError(r) PROVE LifeInv'
  BY <1>14 DEF UnboundError, MarkRecovery, SetStatus, SetUnbound, Finish, NoOp, Typing,
     TypeOK, OperationInv, LifeInv, Life, Bound, Outcome
<1>15. ASSUME NEW r \in Run, Receipt(r) PROVE LifeInv'
  BY <1>15 DEF Receipt, Finish, NoOp, sqlite, LifeInv, Life, Bound, Outcome
<1>16. ASSUME NEW r \in Run, Reexamine(r) PROVE LifeInv'
  <2>1. UNCHANGED <<run, unbound, plan, op, boot, todo, acked>>
    BY <1>16 DEF Reexamine, proc
  <2>2. \A q \in Run : journal'[q].phase = "none" <=> journal[q].phase = "none"
    BY <1>16, ReexamineRow DEF Typing
  <2> QED BY <2>1, <2>2 DEF LifeInv, Life, Bound
<1>17. ASSUME NEW r \in Run, RecordEffects(r) PROVE LifeInv'
  BY <1>17 DEF RecordEffects, SetPhase, proc, LifeInv, Life, Bound
<1>18. ASSUME NEW r \in Run, WriteContext(r) PROVE LifeInv'
  BY <1>18 DEF WriteContext, Step, sqlite, LifeInv, Life, Bound
<1>19. ASSUME NEW r \in Run, GitCommit(r) PROVE LifeInv'
  BY <1>19 DEF GitCommit, Step, sqlite, LifeInv, Life, Bound
<1>20. ASSUME NEW r \in Run, RecogniseCommit(r) PROVE LifeInv'
  BY <1>20 DEF RecogniseCommit, Step, sqlite, LifeInv, Life, Bound
<1>21. ASSUME NEW r \in Run, RecordCommit(r) PROVE LifeInv'
  BY <1>21 DEF RecordCommit, At, Step, Typing, OperationInv, LifeInv, Life, Bound
<1>22. ASSUME NEW r \in Run, Acknowledge(r) PROVE LifeInv'
  <2>1. /\ journal[r].phase # "none" /\ op.kind = "bound" /\ op.run = r
        /\ UNCHANGED <<unbound, boot, todo, acked>>
        /\ op' = [op EXCEPT !.step = "receipt"]
    BY <1>22 DEF Acknowledge, At, Step
  <2>2. run[r].status # "none"
    BY <2>1 DEF LifeInv, Life
  <2>3. run'[r].status \in Outcome /\ run'[r].ws = run[r].ws
    BY <1>22, <2>2 DEF Acknowledge, SetStatus, Typing, TypeOK, RunRow, JournalRow
  <2>4. journal'[r].phase # "none"
    BY <1>22 DEF Acknowledge, SetPhase, Typing, TypeOK
  <2>5. \A q \in Run \ {r} : run'[q] = run[q] /\ journal'[q] = journal[q]
          /\ plan'[q] = plan[q]
    BY <1>22 DEF Acknowledge, SetStatus, SetPhase
  <2>6. Life(r)'
    BY <2>1, <2>2, <2>3, <2>4 DEF LifeInv, Life, Outcome, Typing, StageInv
  <2>7. ASSUME NEW q \in Run \ {r} PROVE Life(q)'
    BY <2>1, <2>5 DEF LifeInv, Life, Bound
  <2> QED BY <2>6, <2>7 DEF LifeInv
<1>23. ASSUME NEW r \in Run, BoundError(r) PROVE LifeInv'
  BY <1>23 DEF BoundError, MarkRecovery, SetStatus, SetPhase, Finish, NoOp, Typing,
     TypeOK, OperationInv, LifeInv, Life, Bound, Outcome
<1>24. ASSUME NEW r \in Run, RecoverUnbound(r) PROVE LifeInv'
  BY <1>24 DEF RecoverUnbound, Recovering, Idle, Begin, sqlite, LifeInv, Life, Bound
<1>25. ASSUME NEW r \in Run, RecoverBound(r) PROVE LifeInv'
  BY <1>25 DEF RecoverBound, Recovering, Idle, Begin, sqlite, LifeInv, Life, Bound
<1>26. ASSUME NEW r \in Run, RecoverInterrupted(r) PROVE LifeInv'
  BY <1>26 DEF RecoverInterrupted, Recovering, Idle, Interrupted, Bound, Discard,
     Discardable, Prepare, Begin, Typing, TypeOK, LifeInv, Life, RunRow, UnboundRow,
     JournalRow, Blocking
<1>27. ASSUME NEW r \in Run, SkipInterrupted(r) PROVE LifeInv'
  BY <1>27 DEF SkipInterrupted, Recovering, Interrupted, Bound, MarkRecovery,
     SetStatus, TypeOK, LifeInv, Life, RunRow, Outcome
<1>28. ASSUME NEW r \in Run, Sweep(r) PROVE LifeInv'
  BY <1>28 DEF Sweep, MarkRecovery, SetStatus, TypeOK, LifeInv, Life, Bound, RunRow,
     Outcome
<1>29. ASSUME Boot PROVE LifeInv'
  BY <1>29 DEF Boot, OpenUnbound, LifeInv, Life, Bound
<1>30. ASSUME NextStage PROVE LifeInv'
  BY <1>30 DEF NextStage, ActiveRuns, sqlite, LifeInv, Life, Bound, Blocking
<1>31. ASSUME Crash PROVE LifeInv'
  BY <1>31 DEF Crash, NoOp, sqlite, LifeInv, Life, Bound
<1>32. ASSUME UNCHANGED vars PROVE LifeInv'
  BY <1>32 DEF vars, LifeInv, Life, Bound
<1> QED BY <1>1, <1>2, <1>3, <1>4, <1>5, <1>6, <1>7, <1>8, <1>9, <1>10, <1>11, <1>12,
           <1>13, <1>14, <1>15, <1>16, <1>17, <1>18, <1>19, <1>20, <1>21, <1>22, <1>23,
           <1>24, <1>25, <1>26, <1>27, <1>28, <1>29, <1>30, <1>31, <1>32
           DEF Next, Request, Continue, Recover

-----------------------------------------------------------------------------

\* Commits are made by runs.
LEMMA EntriesTyped ==
    ASSUME TypeOK, NEW k \in 1..Len(log)
    PROVE  log[k] \in LogEntry /\ log[k].run \in Run
<1>1. log[k] \in LogEntry
  BY DEF TypeOK
<1> QED BY <1>1 DEF LogEntry

\* Journals name commits.
LEMMA JournalsTyped ==
    ASSUME TypeOK
    PROVE  \A q \in Run : journal[q].base \in Nat /\ journal[q].commit \in Nat
BY DEF TypeOK, JournalRow, Commit

\* Steps that leave Git, the journals and SQLite's head alone.
LEMMA HistoryFrame ==
    ASSUME Typing, HistoryInv,
           UNCHANGED <<log, repoHead, journal>>,
           \/ op'.kind # "bound"
           \/ op'.step \in {"journal", "receipt"}
           \/ op' = op,
           \A q \in Run : journal[q].phase # "none" => run'[q].ws = run[q].ws,
           \A q \in Run : (run'[q].status \in Outcome /\ run'[q].ws # NoWorkstream) =>
                            run'[q].status = run[q].status /\ run'[q].ws = run[q].ws
    PROVE  HistoryInv'
<1>1. CommitsAreJournaled'
  BY EntriesTyped DEF HistoryInv, CommitsAreJournaled, GitHead, Typing
<1>2. SqliteFollowsGit'
  BY DEF HistoryInv, SqliteFollowsGit, GitHead
<1>3. TerminalIsCommitted'
  BY DEF HistoryInv, TerminalIsCommitted, Bound
<1> QED BY <1>1, <1>2, <1>3 DEF HistoryInv

\* Steps that write the row of one journal.
LEMMA JournalFrame ==
    ASSUME Typing, HistoryInv, NEW r \in Run,
           UNCHANGED <<log, repoHead>>,
           journal' \in [Run -> JournalRow],
           \A q \in Run \ {r} : journal'[q] = journal[q],
           journal[r].phase # "none",
           journal'[r].base = journal[r].base,
           journal'[r].outcome = journal[r].outcome,
           journal'[r].phase \notin {"none", "prepared", "completed"},
           \/ journal'[r].commit = journal[r].commit
           \/ /\ journal'[r].commit = journal[r].base + 1
              /\ journal'[r].commit <= Len(log)
              /\ log[journal'[r].commit].run = r,
           journal'[r].phase = "context_committed" => journal'[r].commit # 0,
           op'.kind # "bound" \/ op'.step \in {"journal", "receipt"},
           \A q \in Run : run'[q].ws = run[q].ws,
           \A q \in Run : run'[q].status \in Outcome => run'[q].status = run[q].status
    PROVE  HistoryInv'
<1>1. /\ log \in Seq(LogEntry) /\ repoHead \in Nat
      /\ \A k \in 1..Len(log) : log[k].run \in Run
      /\ \A q \in Run : journal[q].base \in Nat /\ journal[q].commit \in Nat
  BY EntriesTyped, JournalsTyped DEF Typing, TypeOK, Commit
<1>2. CommitsAreJournaled'
  <2>1. SUFFICES ASSUME NEW k \in 1..Len(log), NEW q \in Run, q = log[k].run
                 PROVE  /\ journal'[q].phase \notin {"none", "prepared"}
                        /\ journal'[q].base = k - 1
                        /\ journal'[q].outcome = log[k].outcome
                        /\ run'[q].ws = log[k].ws
    BY <1>1 DEF CommitsAreJournaled, GitHead
  <2> QED BY <2>1 DEF HistoryInv, CommitsAreJournaled, GitHead
<1>3. SqliteFollowsGit'
  BY <1>1 DEF HistoryInv, SqliteFollowsGit, GitHead
<1>4. TerminalIsCommitted'
  <2>1. SUFFICES ASSUME NEW q \in Run, run[q].status \in Outcome, Bound(q)
                 PROVE  journal'[q].commit = journal[q].commit
    BY <2>1 DEF HistoryInv, TerminalIsCommitted, Bound
  <2>2. journal[q].commit # 0
    BY <1>1, <2>1 DEF HistoryInv, TerminalIsCommitted
  <2> QED BY <1>1, <2>2 DEF HistoryInv
<1>5. \A q \in Run : journal'[q].phase # "none" => journal'[q].base <= repoHead'
  BY DEF HistoryInv
<1>6. \A q \in Run : journal'[q].commit # 0 =>
          /\ journal'[q].commit = journal'[q].base + 1
          /\ journal'[q].commit <= Len(log')
          /\ log'[journal'[q].commit].run = q
  BY <1>1 DEF HistoryInv
<1>7. \A q \in Run : journal'[q].phase = "context_committed" => journal'[q].commit # 0
  BY DEF HistoryInv
<1> QED BY <1>2, <1>3, <1>4, <1>5, <1>6, <1>7 DEF HistoryInv

\* A new journal stands on SQLite's head.
LEMMA PrepareHistory ==
    ASSUME Typing, HistoryInv, journal' \in [Run -> JournalRow],
           NEW r \in Run, NEW o \in Outcome, NEW e \in BOOLEAN, NEW c \in BOOLEAN,
           Prepare(r, o, e, c)
    PROVE  HistoryInv'
<1>1. /\ journal[r].phase = "none" /\ run[r].status = "running"
      /\ UNCHANGED <<run, log, repoHead>>
      /\ op'.step = "journal"
  BY DEF Prepare, Begin, git
<1>2. /\ journal'[r].base = repoHead /\ journal'[r].commit = 0
      /\ journal'[r].phase = "prepared"
      /\ \A q \in Run \ {r} : journal'[q] = journal[q]
  BY DEF Prepare, Typing, TypeOK
<1>3. repoHead \in Nat /\ Len(log) \in Nat
        /\ \A k \in 1..Len(log) : log[k].run \in Run \ {r}
  BY <1>1, EntriesTyped DEF HistoryInv, CommitsAreJournaled, GitHead, Typing, TypeOK,
     Commit
<1>4. CommitsAreJournaled'
  BY <1>1, <1>2, <1>3 DEF HistoryInv, CommitsAreJournaled, GitHead
<1>5. SqliteFollowsGit'
  BY <1>1, <1>2, <1>3 DEF HistoryInv, SqliteFollowsGit, GitHead
<1>6. TerminalIsCommitted'
  BY <1>1, <1>2 DEF HistoryInv, TerminalIsCommitted, Bound, Outcome
<1> QED BY <1>1, <1>2, <1>3, <1>4, <1>5, <1>6 DEF HistoryInv

\* Every step keeps the agreement of the two stores.
LEMMA HistoryStep ==
    ASSUME Typing, LifeInv, HistoryInv, Typing', [Next]_vars
    PROVE  HistoryInv'
<1>1. ASSUME NEW s \in Streams, StartRun(s) PROVE HistoryInv'
  <2>1. UNCHANGED <<log, repoHead, journal>>
    BY <1>1 DEF StartRun, Serving, Idle, git
  <2>2. op'.kind # "bound" \/ op'.step \in {"journal", "receipt"} \/ op' = op
    BY <1>1 DEF StartRun, Serving, Idle, git
  <2>3. \A q \in Run : journal[q].phase # "none" => run'[q].ws = run[q].ws
    BY <1>1 DEF StartRun
  <2>4. \A q \in Run : (run'[q].status \in Outcome /\ run'[q].ws # NoWorkstream) =>
                            run'[q].status = run[q].status /\ run'[q].ws = run[q].ws
    BY <1>1 DEF StartRun, Blocking, Outcome
  <2> QED BY <2>1, <2>2, <2>3, <2>4, HistoryFrame
<1>2. ASSUME NEW r \in Run, NEW w \in Workstreams, CreateWorkstream(r, w)
      PROVE HistoryInv'
  <2>1. UNCHANGED <<log, repoHead, journal>>
    BY <1>2 DEF CreateWorkstream, EnsureRepository, Begin, git
  <2>2. op'.kind # "bound" \/ op'.step \in {"journal", "receipt"} \/ op' = op
    BY <1>2 DEF CreateWorkstream, EnsureRepository, Begin, git
  <2>3. \A q \in Run : journal[q].phase # "none" => run'[q].ws = run[q].ws
    BY <1>2 DEF CreateWorkstream
  <2>4. \A q \in Run : (run'[q].status \in Outcome /\ run'[q].ws # NoWorkstream) =>
                            run'[q].status = run[q].status /\ run'[q].ws = run[q].ws
    BY <1>2 DEF CreateWorkstream
  <2> QED BY <2>1, <2>2, <2>3, <2>4, HistoryFrame
<1>3. ASSUME NEW r \in Run, NEW w \in Workstreams, NEW c \in BOOLEAN,
             ActivateWorkstream(r, w, c)
      PROVE HistoryInv'
  <2>1. UNCHANGED <<log, repoHead, journal>>
    BY <1>3 DEF ActivateWorkstream, Idle, Route, git
  <2>2. op'.kind # "bound" \/ op'.step \in {"journal", "receipt"} \/ op' = op
    BY <1>3 DEF ActivateWorkstream
  <2>3. \A q \in Run : journal[q].phase # "none" => run'[q].ws = run[q].ws
    BY <1>3, RunAssumption DEF ActivateWorkstream, Bound, Route, Typing,
       JournaledIsBound
  <2>4. \A q \in Run : (run'[q].status \in Outcome /\ run'[q].ws # NoWorkstream) =>
                            run'[q].status = run[q].status /\ run'[q].ws = run[q].ws
    BY <1>3 DEF ActivateWorkstream, Client, Route, Outcome
  <2> QED BY <2>1, <2>2, <2>3, <2>4, HistoryFrame
<1>4. ASSUME NEW r \in Run, AdmitResources(r) PROVE HistoryInv'
  BY <1>4 DEF AdmitResources, Bound, git, proc, HistoryInv, CommitsAreJournaled,
     SqliteFollowsGit, TerminalIsCommitted, GitHead
<1>5. ASSUME NEW r \in Run, NEW o \in Outcome, FinalizeUnbound(r, o) PROVE HistoryInv'
  BY <1>5 DEF FinalizeUnbound, Bound, Begin, git, HistoryInv, CommitsAreJournaled,
     SqliteFollowsGit, TerminalIsCommitted, GitHead
<1>6. ASSUME NEW r \in Run, NEW o \in Outcome, FinalizeDiscard(r, o) PROVE HistoryInv'
  <2>1. UNCHANGED <<log, repoHead, journal>>
    BY <1>6 DEF FinalizeDiscard, Discard, Begin, git
  <2>2. op'.kind # "bound" \/ op'.step \in {"journal", "receipt"} \/ op' = op
    BY <1>6 DEF FinalizeDiscard, Discard, Begin, git
  <2>3. \A q \in Run : journal[q].phase # "none" => run'[q].ws = run[q].ws
    BY <1>6 DEF FinalizeDiscard, Discard, Discardable
  <2>4. \A q \in Run : (run'[q].status \in Outcome /\ run'[q].ws # NoWorkstream) =>
                            run'[q].status = run[q].status /\ run'[q].ws = run[q].ws
    BY <1>6 DEF FinalizeDiscard, Idle, Discard
  <2> QED BY <2>1, <2>2, <2>3, <2>4, HistoryFrame
<1>7. ASSUME NEW r \in Run, NEW o \in Outcome, NEW c \in BOOLEAN, FinalizeBound(r, o, c)
      PROVE HistoryInv'
  <2>1. journal' \in [Run -> JournalRow]
    BY DEF Typing, TypeOK
  <2> QED BY <1>7, <2>1, PrepareHistory DEF FinalizeBound
<1>8. ASSUME NEW r \in Run, RefuseBound(r) PROVE HistoryInv'
  <2>1. UNCHANGED <<log, repoHead, journal>>
    BY <1>8 DEF RefuseBound, git, proc
  <2>2. op'.kind # "bound" \/ op'.step \in {"journal", "receipt"} \/ op' = op
    BY <1>8 DEF RefuseBound, git, proc
  <2>3. \A q \in Run : journal[q].phase # "none" => run'[q].ws = run[q].ws
    BY <1>8 DEF RefuseBound, MarkRecovery, SetStatus
  <2>4. \A q \in Run : (run'[q].status \in Outcome /\ run'[q].ws # NoWorkstream) =>
                            run'[q].status = run[q].status /\ run'[q].ws = run[q].ws
    BY <1>8 DEF RefuseBound, MarkRecovery, SetStatus, Outcome
  <2> QED BY <2>1, <2>2, <2>3, <2>4, HistoryFrame
<1>9. ASSUME NEW r \in Run, RetryUnbound(r) PROVE HistoryInv'
  BY <1>9 DEF RetryUnbound, Begin, git, sqlite, HistoryInv, CommitsAreJournaled,
     SqliteFollowsGit, TerminalIsCommitted, GitHead, Bound
<1>10. ASSUME NEW r \in Run, RetryBound(r) PROVE HistoryInv'
  BY <1>10 DEF RetryBound, Begin, git, sqlite, HistoryInv, CommitsAreJournaled,
     SqliteFollowsGit, TerminalIsCommitted, GitHead, Bound
<1>11. ASSUME NEW r \in Run, RouteCreated(r) PROVE HistoryInv'
  <2>1. UNCHANGED <<log, repoHead, journal>>
    BY <1>11 DEF RouteCreated, At, Route, git
  <2>2. op'.kind # "bound" \/ op'.step \in {"journal", "receipt"} \/ op' = op
    BY <1>11 DEF RouteCreated, At, Route, NoOp
  <2>3. \A q \in Run : journal[q].phase # "none" => run'[q].ws = run[q].ws
    BY <1>11 DEF RouteCreated, At, Route, Typing, OperationInv
  <2>4. \A q \in Run : (run'[q].status \in Outcome /\ run'[q].ws # NoWorkstream) =>
                            run'[q].status = run[q].status /\ run'[q].ws = run[q].ws
    BY <1>11 DEF RouteCreated, At, Route, Typing, OperationInv, Outcome
  <2> QED BY <2>1, <2>2, <2>3, <2>4, HistoryFrame
<1>12. ASSUME NEW r \in Run, RouteRefused(r) PROVE HistoryInv'
  BY <1>12 DEF RouteRefused, NoOp, git, sqlite, HistoryInv, CommitsAreJournaled,
     SqliteFollowsGit, TerminalIsCommitted, GitHead, Bound
<1>13. ASSUME NEW r \in Run, CompleteUnbound(r) PROVE HistoryInv'
  <2>1. UNCHANGED <<log, repoHead, journal>>
    BY <1>13 DEF CompleteUnbound, SetUnbound, git
  <2>2. op'.kind # "bound" \/ op'.step \in {"journal", "receipt"} \/ op' = op
    BY <1>13 DEF CompleteUnbound
  <2>3. \A q \in Run : journal[q].phase # "none" => run'[q].ws = run[q].ws
    BY <1>13 DEF CompleteUnbound, At, SetStatus, SetUnbound
  <2>4. \A q \in Run : (run'[q].status \in Outcome /\ run'[q].ws # NoWorkstream) =>
                            run'[q].status = run[q].status /\ run'[q].ws = run[q].ws
    BY <1>13 DEF CompleteUnbound, At, SetStatus, Typing, OperationInv, LifeInv, Life
  <2> QED BY <2>1, <2>2, <2>3, <2>4, HistoryFrame
<1>14. ASSUME NEW r \in Run, UnboundError(r) PROVE HistoryInv'
  <2>1. UNCHANGED <<log, repoHead, journal>>
    BY <1>14 DEF UnboundError, SetUnbound, Finish, git
  <2>2. op'.kind # "bound" \/ op'.step \in {"journal", "receipt"} \/ op' = op
    BY <1>14 DEF UnboundError, Finish, NoOp, git
  <2>3. \A q \in Run : journal[q].phase # "none" => run'[q].ws = run[q].ws
    BY <1>14 DEF UnboundError, MarkRecovery, SetStatus, SetUnbound
  <2>4. \A q \in Run : (run'[q].status \in Outcome /\ run'[q].ws # NoWorkstream) =>
                            run'[q].status = run[q].status /\ run'[q].ws = run[q].ws
    BY <1>14 DEF UnboundError, MarkRecovery, SetStatus, Typing, OperationInv, LifeInv,
       Life
  <2> QED BY <2>1, <2>2, <2>3, <2>4, HistoryFrame
<1>15. ASSUME NEW r \in Run, Receipt(r) PROVE HistoryInv'
  BY <1>15 DEF Receipt, Finish, NoOp, git, sqlite, HistoryInv, CommitsAreJournaled,
     SqliteFollowsGit, TerminalIsCommitted, GitHead, Bound
<1>16. ASSUME NEW r \in Run, Reexamine(r) PROVE HistoryInv'
  <2>1. /\ journal[r].phase # "none" /\ UNCHANGED <<run, log, repoHead, op>>
        /\ op.step = "journal" /\ journal' \in [Run -> JournalRow]
    BY <1>16 DEF Reexamine, At, proc, git, Typing, TypeOK
  <2>2. CASE /\ Recognised(r)
             /\ journal' = [journal EXCEPT ![r] =
                   [@ EXCEPT !.phase = "context_committed", !.commit = journal[r].base + 1]]
    <3>1. /\ \A q \in Run \ {r} : journal'[q] = journal[q]
          /\ journal'[r].base = journal[r].base /\ journal'[r].outcome = journal[r].outcome
          /\ journal'[r].phase = "context_committed"
               /\ journal'[r].commit = journal[r].base + 1
      BY <2>2 DEF Typing, TypeOK, JournalRow
    <3>2. /\ journal[r].base + 1 <= Len(log) /\ log[journal[r].base + 1].run = r
          /\ journal[r].base + 1 # 0
      BY <2>2, JournalsTyped DEF Recognised, GitHead, Typing
    <3> QED BY <2>1, <3>1, <3>2, JournalFrame
  <2>3. CASE SetPhase(r, "resource_effects_recorded")
    <3>1. /\ \A q \in Run \ {r} : journal'[q] = journal[q]
          /\ journal'[r].base = journal[r].base /\ journal'[r].outcome = journal[r].outcome
          /\ journal'[r].phase = "resource_effects_recorded"
               /\ journal'[r].commit = journal[r].commit
      BY <2>3 DEF SetPhase, Typing, TypeOK, JournalRow
    <3> QED BY <2>1, <3>1, JournalFrame
  <2> QED BY <1>16, <2>2, <2>3 DEF Reexamine
<1>17. ASSUME NEW r \in Run, RecordEffects(r) PROVE HistoryInv'
  <2>1. UNCHANGED <<log, repoHead>> /\ journal' \in [Run -> JournalRow]
    BY <1>17 DEF RecordEffects, git, Typing, TypeOK
  <2>2. journal[r].phase # "none"
          /\ (op'.kind # "bound" \/ op'.step \in {"journal", "receipt"})
    BY <1>17 DEF RecordEffects, At, proc
  <2>3. /\ \A q \in Run \ {r} : journal'[q] = journal[q]
        /\ journal'[r].base = journal[r].base /\ journal'[r].outcome = journal[r].outcome
        /\ journal'[r].phase \notin {"none", "prepared", "completed"}
    BY <1>17 DEF RecordEffects, SetPhase, Typing, TypeOK
  <2>4. \/ journal'[r].commit = journal[r].commit
        \/ /\ journal'[r].commit = journal[r].base + 1
           /\ journal'[r].commit <= Len(log)
           /\ log[journal'[r].commit].run = r
    BY <1>17 DEF RecordEffects, At, SetPhase
  <2>5. journal'[r].phase = "context_committed" => journal'[r].commit # 0
    BY <1>17 DEF RecordEffects, At, SetPhase
  <2>6. /\ \A q \in Run : run'[q].ws = run[q].ws
        /\ \A q \in Run : run'[q].status \in Outcome => run'[q].status = run[q].status
    BY <1>17 DEF RecordEffects
  <2> QED BY <2>1, <2>2, <2>3, <2>4, <2>5, <2>6, JournalFrame
<1>18. ASSUME NEW r \in Run, WriteContext(r) PROVE HistoryInv'
  BY <1>18 DEF WriteContext, At, Step, sqlite, HistoryInv, CommitsAreJournaled,
     SqliteFollowsGit, TerminalIsCommitted, GitHead, Bound
<1>19. ASSUME NEW r \in Run, GitCommit(r) PROVE HistoryInv'
  <2>1. /\ journal[r].phase = "resource_effects_recorded" /\ journal[r].base = Len(log)
        /\ op.kind = "bound" /\ op.run = r /\ run[r].ws \in Workstreams
    BY <1>19 DEF GitCommit, At, HistoryInv, Typing, JournaledIsBound
  <2>2. /\ UNCHANGED <<run, journal, repoHead>> /\ op'.step = "committed" /\ op'.run = r
        /\ log' = Append(log, [run |-> r, ws |-> run[r].ws, outcome |-> journal[r].outcome])
    BY <1>19, <2>1 DEF GitCommit, Step, sqlite
  <2>3. log \in Seq(LogEntry) /\ repoHead \in Nat
          /\ \A k \in 1..Len(log) : log[k].run \in Run
    BY EntriesTyped DEF Typing, TypeOK, Commit
  <2>4. /\ Len(log') = Len(log) + 1 /\ Len(log) \in Nat
        /\ \A k \in 1..Len(log) : log'[k] = log[k]
        /\ log'[Len(log) + 1] =
             [run |-> r, ws |-> run[r].ws, outcome |-> journal[r].outcome]
    BY <2>2, <2>3
  <2>5. CommitsAreJournaled'
    BY <2>1, <2>2, <2>3, <2>4 DEF HistoryInv, CommitsAreJournaled, GitHead
  <2>6. repoHead = Len(log)
    BY <2>1, <2>3, <2>4 DEF HistoryInv, SqliteFollowsGit, GitHead
  <2>7. SqliteFollowsGit'
    BY <2>1, <2>2, <2>4, <2>6 DEF SqliteFollowsGit, GitHead
  <2>8. TerminalIsCommitted'
    <3>1. SUFFICES ASSUME NEW q \in Run, run[q].status \in Outcome, Bound(q)
                   PROVE  log'[journal[q].commit] = log[journal[q].commit]
      BY <2>2, <3>1 DEF HistoryInv, TerminalIsCommitted, Bound
    <3> QED BY <2>4, <2>6, <3>1 DEF HistoryInv, TerminalIsCommitted
  <2>9. \A q \in Run : journal'[q].commit # 0 =>
          /\ journal'[q].commit = journal'[q].base + 1
          /\ journal'[q].commit <= Len(log')
          /\ log'[journal'[q].commit].run = q
    <3>1. SUFFICES ASSUME NEW q \in Run, journal[q].commit # 0
                   PROVE  /\ journal[q].commit = journal[q].base + 1
                          /\ journal[q].commit <= Len(log) + 1
                          /\ log'[journal[q].commit].run = q
      BY <2>2, <2>4
    <3>2. journal[q].commit \in Nat /\ journal[q].base \in Nat
      BY JournalsTyped DEF Typing
    <3>3. /\ journal[q].commit = journal[q].base + 1 /\ journal[q].commit <= Len(log)
          /\ log[journal[q].commit].run = q
      BY <3>1 DEF HistoryInv
    <3>4. journal[q].commit \in 1..Len(log)
      BY <2>4, <3>2, <3>3
    <3>5. log'[journal[q].commit] = log[journal[q].commit]
      BY <2>4, <3>4
    <3>6. journal[q].commit <= Len(log) + 1
      BY <2>4, <3>4
    <3> QED BY <3>3, <3>5, <3>6
  <2>10. /\ journal'[r].phase = "resource_effects_recorded"
              /\ journal'[r].base + 1 <= Len(log')
         /\ log'[journal'[r].base + 1].run = r
    BY <2>1, <2>2, <2>4
  <2>11. \A q \in Run : /\ journal'[q].phase # "none" => journal'[q].base <= repoHead'
                       /\ journal'[q].phase = "context_committed" => journal'[q].commit # 0
    BY <2>2 DEF HistoryInv
  <2> QED BY <2>2, <2>5, <2>7, <2>8, <2>9, <2>10, <2>11 DEF HistoryInv
<1>20. ASSUME NEW r \in Run, RecogniseCommit(r) PROVE HistoryInv'
  <2>1. /\ UNCHANGED <<run, journal, repoHead, log>> /\ op'.step = "committed"
             /\ op'.run = r
    BY <1>20 DEF RecogniseCommit, At, Step, sqlite, git
  <2>2. /\ journal[r].phase = "resource_effects_recorded"
        /\ journal[r].base + 1 <= Len(log) /\ log[journal[r].base + 1].run = r
    BY <1>20 DEF RecogniseCommit, Recognised, GitHead
  <2>3. CommitsAreJournaled' /\ SqliteFollowsGit' /\ TerminalIsCommitted'
    BY <2>1 DEF HistoryInv, CommitsAreJournaled, SqliteFollowsGit, TerminalIsCommitted,
       GitHead, Bound
  <2> QED BY <2>1, <2>2, <2>3 DEF HistoryInv
<1>21. ASSUME NEW r \in Run, RecordCommit(r) PROVE HistoryInv'
  <2>1. UNCHANGED <<log, repoHead>> /\ journal' \in [Run -> JournalRow]
    BY <1>21 DEF RecordCommit, git, Typing, TypeOK
  <2>2. journal[r].phase # "none"
          /\ (op'.kind # "bound" \/ op'.step \in {"journal", "receipt"})
    BY <1>21 DEF RecordCommit, At, Step, Typing, OperationInv
  <2>3. /\ \A q \in Run \ {r} : journal'[q] = journal[q]
        /\ journal'[r].base = journal[r].base /\ journal'[r].outcome = journal[r].outcome
        /\ journal'[r].phase \notin {"none", "prepared", "completed"}
    BY <1>21 DEF RecordCommit, Typing, TypeOK
  <2>4. \/ journal'[r].commit = journal[r].commit
        \/ /\ journal'[r].commit = journal[r].base + 1
           /\ journal'[r].commit <= Len(log)
           /\ log[journal'[r].commit].run = r
    BY <1>21 DEF RecordCommit, At, HistoryInv
  <2>5. journal'[r].phase = "context_committed" => journal'[r].commit # 0
    BY <1>21 DEF RecordCommit, Typing, TypeOK, JournalRow, Commit
  <2>6. /\ \A q \in Run : run'[q].ws = run[q].ws
        /\ \A q \in Run : run'[q].status \in Outcome => run'[q].status = run[q].status
    BY <1>21 DEF RecordCommit
  <2> QED BY <2>1, <2>2, <2>3, <2>4, <2>5, <2>6, JournalFrame
<1>22. ASSUME NEW r \in Run, Acknowledge(r) PROVE HistoryInv'
  <2> DEFINE c == journal[r].commit
  <2>1. /\ journal[r].phase = "context_committed" /\ c = Len(log)
             /\ repoHead \in {journal[r].base, c}
        /\ repoHead' = c /\ log' = log /\ op'.step = "receipt"
        /\ op.kind = "bound" /\ op.run = r
    BY <1>22 DEF Acknowledge, Acknowledgeable, GitHead, At, Step, git
  <2>2. /\ \A q \in Run \ {r} : journal'[q] = journal[q] /\ run'[q] = run[q]
        /\ journal'[r].phase = "completed" /\ journal'[r].commit = c
        /\ journal'[r].base = journal[r].base /\ journal'[r].outcome = journal[r].outcome
        /\ run'[r].ws = run[r].ws
        /\ run'[r].status =
             IF run[r].status \in Blocking THEN journal[r].outcome ELSE run[r].status
    BY <1>22 DEF Acknowledge, SetStatus, SetPhase, Typing, TypeOK
  <2>3. /\ log \in Seq(LogEntry) /\ repoHead \in Nat /\ Len(log) \in Nat
        /\ \A k \in 1..Len(log) : log[k].run \in Run
        /\ \A q \in Run : journal[q].base \in Nat /\ journal[q].commit \in Nat
    BY EntriesTyped, JournalsTyped DEF Typing, TypeOK, Commit
  <2>4. c # 0 /\ c = journal[r].base + 1 /\ log[c].run = r
    BY <2>1 DEF HistoryInv
  <2>5. repoHead <= c
    BY <2>1, <2>3, <2>4
  <2>6. CommitsAreJournaled'
    BY <2>1, <2>2, <2>3 DEF HistoryInv, CommitsAreJournaled, GitHead
  <2>7. SqliteFollowsGit'
    BY <2>1, <2>3 DEF SqliteFollowsGit, GitHead
  <2>8. TerminalIsCommitted'
    <3>1. ASSUME NEW q \in Run \ {r}, run'[q].status \in Outcome, Bound(q)'
          PROVE  /\ journal'[q].commit \in 1..repoHead'
                 /\ log'[journal'[q].commit].run = q
                 /\ log'[journal'[q].commit].outcome = run'[q].status
      BY <2>1, <2>2, <2>3, <2>5, <3>1 DEF HistoryInv, TerminalIsCommitted, Bound
    <3>2. c \in 1..repoHead' /\ log[c].run = r /\ log[c].outcome = journal[r].outcome
      BY <2>1, <2>3, <2>4 DEF HistoryInv, CommitsAreJournaled, GitHead
    <3>3. run'[r].status \in Outcome => run'[r].status = log[c].outcome
      <4>1. CASE run[r].status \in Blocking
        BY <2>2, <3>2, <4>1
      <4>2. CASE run[r].status \notin Blocking
        <5>1. run[r].ws # NoWorkstream
          BY <2>1, RunAssumption DEF Typing, JournaledIsBound
        <5> QED BY <2>2, <4>2, <5>1 DEF HistoryInv, TerminalIsCommitted, Bound
      <4> QED BY <4>1, <4>2
    <3> QED BY <2>1, <2>2, <3>1, <3>2, <3>3 DEF TerminalIsCommitted
  <2>9. \A q \in Run : journal'[q].phase # "none" => journal'[q].base <= repoHead'
    BY <2>1, <2>2, <2>3, <2>5 DEF HistoryInv
  <2>10. \A q \in Run : journal'[q].commit # 0 =>
          /\ journal'[q].commit = journal'[q].base + 1
          /\ journal'[q].commit <= Len(log')
          /\ log'[journal'[q].commit].run = q
    BY <2>1, <2>2, <2>3 DEF HistoryInv
  <2> QED BY <2>1, <2>2, <2>6, <2>7, <2>8, <2>9, <2>10 DEF HistoryInv
<1>23. ASSUME NEW r \in Run, BoundError(r) PROVE HistoryInv'
  <2>1. UNCHANGED <<log, repoHead>> /\ journal' \in [Run -> JournalRow]
    BY <1>23 DEF BoundError, git, Typing, TypeOK
  <2>2. journal[r].phase # "none"
          /\ (op'.kind # "bound" \/ op'.step \in {"journal", "receipt"})
    BY <1>23 DEF BoundError, Finish, NoOp, Typing, OperationInv
  <2>3. /\ \A q \in Run \ {r} : journal'[q] = journal[q]
        /\ journal'[r].base = journal[r].base /\ journal'[r].outcome = journal[r].outcome
        /\ journal'[r].phase \notin {"none", "prepared", "completed"}
    BY <1>23 DEF BoundError, SetPhase, Typing, TypeOK
  <2>4. \/ journal'[r].commit = journal[r].commit
        \/ /\ journal'[r].commit = journal[r].base + 1
           /\ journal'[r].commit <= Len(log)
           /\ log[journal'[r].commit].run = r
    BY <1>23 DEF BoundError, MarkRecovery, SetStatus, SetPhase
  <2>5. journal'[r].phase = "context_committed" => journal'[r].commit # 0
    BY <1>23 DEF BoundError, SetPhase, Typing, TypeOK
  <2>6. /\ \A q \in Run : run'[q].ws = run[q].ws
        /\ \A q \in Run : run'[q].status \in Outcome => run'[q].status = run[q].status
    BY <1>23 DEF BoundError, MarkRecovery, SetStatus, Outcome
  <2> QED BY <2>1, <2>2, <2>3, <2>4, <2>5, <2>6, JournalFrame
<1>24. ASSUME NEW r \in Run, RecoverUnbound(r) PROVE HistoryInv'
  BY <1>24 DEF RecoverUnbound, Begin, git, sqlite, HistoryInv, CommitsAreJournaled,
     SqliteFollowsGit, TerminalIsCommitted, GitHead, Bound
<1>25. ASSUME NEW r \in Run, RecoverBound(r) PROVE HistoryInv'
  BY <1>25 DEF RecoverBound, Begin, git, sqlite, HistoryInv, CommitsAreJournaled,
     SqliteFollowsGit, TerminalIsCommitted, GitHead, Bound
<1>26. ASSUME NEW r \in Run, RecoverInterrupted(r) PROVE HistoryInv'
  <2>1. CASE Discard(r, "incomplete", FALSE)
    <3>1. UNCHANGED <<log, repoHead, journal>> /\ op'.kind = "unbound"
            /\ run[r].status = "running"
      BY <2>1 DEF Discard, Discardable, Begin, git
    <3>2. \A q \in Run : run'[q].status = run[q].status /\ (q # r => run'[q] = run[q])
      BY <2>1 DEF Discard, Typing, TypeOK, RunRow
    <3>3. run'[r].ws = NoWorkstream /\ journal[r].phase = "none"
      BY <2>1 DEF Discard, Discardable, Typing, TypeOK
    <3> QED BY <3>1, <3>2, <3>3, HistoryFrame
  <2>2. CASE Prepare(r, "incomplete", FALSE, FALSE)
    BY <2>2, PrepareHistory DEF Typing, TypeOK, Outcome
  <2> QED BY <1>26, <2>1, <2>2 DEF RecoverInterrupted
<1>27. ASSUME NEW r \in Run, SkipInterrupted(r) PROVE HistoryInv'
  <2>1. UNCHANGED <<log, repoHead, journal>>
    BY <1>27 DEF SkipInterrupted, MarkRecovery, SetStatus, git
  <2>2. op'.kind # "bound" \/ op'.step \in {"journal", "receipt"} \/ op' = op
    BY <1>27 DEF SkipInterrupted
  <2>3. \A q \in Run : journal[q].phase # "none" => run'[q].ws = run[q].ws
    BY <1>27 DEF SkipInterrupted, Interrupted, MarkRecovery, SetStatus, Typing, TypeOK
  <2>4. \A q \in Run : (run'[q].status \in Outcome /\ run'[q].ws # NoWorkstream) =>
                            run'[q].status = run[q].status /\ run'[q].ws = run[q].ws
    BY <1>27 DEF SkipInterrupted, MarkRecovery, SetStatus, Typing, TypeOK, RunRow,
       Outcome
  <2> QED BY <2>1, <2>2, <2>3, <2>4, HistoryFrame
<1>28. ASSUME NEW r \in Run, Sweep(r) PROVE HistoryInv'
  <2>1. UNCHANGED <<log, repoHead, journal>>
    BY <1>28 DEF Sweep, MarkRecovery, SetStatus, git
  <2>2. op'.kind # "bound" \/ op'.step \in {"journal", "receipt"} \/ op' = op
    BY <1>28 DEF Sweep
  <2>3. \A q \in Run : journal[q].phase # "none" => run'[q].ws = run[q].ws
    BY <1>28 DEF Sweep, MarkRecovery, SetStatus, Typing, TypeOK, RunRow, Outcome, git
  <2>4. \A q \in Run : (run'[q].status \in Outcome /\ run'[q].ws # NoWorkstream) =>
                            run'[q].status = run[q].status /\ run'[q].ws = run[q].ws
    BY <1>28, RunAssumption DEF Sweep, Recovering, Idle, MarkRecovery, SetStatus,
       Typing, TypeOK, JournaledIsBound, LifeInv, Life, RunRow, Blocking, Outcome, git,
       Bound
  <2> QED BY <2>1, <2>2, <2>3, <2>4, HistoryFrame
<1>29. ASSUME Boot PROVE HistoryInv'
  BY <1>29 DEF Boot, git, HistoryInv, CommitsAreJournaled, SqliteFollowsGit,
     TerminalIsCommitted, GitHead, Bound
<1>30. ASSUME NextStage PROVE HistoryInv'
  BY <1>30 DEF NextStage, git, sqlite, HistoryInv, CommitsAreJournaled,
     SqliteFollowsGit, TerminalIsCommitted, GitHead, Bound
<1>31. ASSUME Crash PROVE HistoryInv'
  BY <1>31 DEF Crash, NoOp, git, sqlite, HistoryInv, CommitsAreJournaled,
     SqliteFollowsGit, TerminalIsCommitted, GitHead, Bound
<1>32. ASSUME UNCHANGED vars PROVE HistoryInv'
  BY <1>32 DEF vars, HistoryInv, CommitsAreJournaled, SqliteFollowsGit,
     TerminalIsCommitted, GitHead, Bound
<1> QED BY <1>1, <1>2, <1>3, <1>4, <1>5, <1>6, <1>7, <1>8, <1>9, <1>10, <1>11, <1>12,
           <1>13, <1>14, <1>15, <1>16, <1>17, <1>18, <1>19, <1>20, <1>21, <1>22, <1>23,
           <1>24, <1>25, <1>26, <1>27, <1>28, <1>29, <1>30, <1>31, <1>32
           DEF Next, Request, Continue, Recover

-----------------------------------------------------------------------------
\* The invariant holds of an empty database.
LEMMA IInvInit == Init => IInv
BY TypingInit, LifeInit, HistoryInit DEF IInv

\* Every step keeps the invariant, the types first: the other parts rely on them.
LEMMA IInvStep == IInv /\ [Next]_vars => IInv'
<1> SUFFICES ASSUME IInv, [Next]_vars PROVE IInv'
  OBVIOUS
<1>1. TypeOK'
  BY TypeStep DEF IInv
<1>2. (OperationInv /\ JournaledIsBound /\ StageInv)'
  BY OperationStep DEF IInv
<1>3. Typing'
  BY <1>1, <1>2 DEF Typing
<1>4. LifeInv'
  BY <1>1, LifeStep DEF IInv
<1>5. HistoryInv'
  BY <1>3, HistoryStep DEF IInv
<1> QED BY <1>3, <1>4, <1>5 DEF IInv

\* The inductive invariant holds in every reachable state of any instance.
THEOREM Invariance == Spec => []IInv
BY IInvInit, IInvStep, PTL DEF Spec

-----------------------------------------------------------------------------
\* What the inductive invariant gives at once.
LEMMA Consequences ==
    ASSUME IInv
    PROVE  TypeOK /\ CommitsAreJournaled /\ SqliteFollowsGit /\ TerminalIsCommitted
BY DEF IInv, Typing, HistoryInv

\* Every variable keeps its type: rows stay rows of their tables, whatever
\* request, failure or crash the service meets.
THEOREM TypeInvariant == Spec => []TypeOK
<1>1. IInv => TypeOK
  BY Consequences
<1> QED BY <1>1, Invariance, PTL

\* Every commit of the shared repository was planned by the journal of its
\* run, at the place in the history and for the workstream the journal says.
THEOREM CommitsFollowJournals == Spec => []CommitsAreJournaled
<1>1. IInv => CommitsAreJournaled
  BY Consequences
<1> QED BY <1>1, Invariance, PTL

\* No retry, recovery or replay of a finalization commits a run twice.
THEOREM AtMostOneCommit == Spec => []OneCommitPerRun
<1>1. ASSUME IInv PROVE OneCommitPerRun
  <2>1. TypeOK /\ CommitsAreJournaled
    BY <1>1, Consequences
  <2>2. SUFFICES ASSUME NEW j \in 1..GitHead, NEW k \in 1..GitHead, log[j].run = log[k].run
                 PROVE  j = k
    BY DEF OneCommitPerRun
  <2>3. GitHead \in Nat
    BY <2>1 DEF TypeOK, GitHead
  <2>4. journal[log[j].run].base = j - 1 /\ journal[log[k].run].base = k - 1
    BY <2>1, <2>2 DEF CommitsAreJournaled
  <2> QED BY <2>2, <2>3, <2>4
<1> QED BY <1>1, Invariance, PTL

\* A terminal status of a bound run is never ahead of Git: its commit, with
\* that outcome, is part of the history SQLite has acknowledged.
THEOREM StatusFollowsGit == Spec => []TerminalIsCommitted
<1>1. IInv => TerminalIsCommitted
  BY Consequences
<1> QED BY <1>1, Invariance, PTL

\* SQLite lags Git by at most one commit, and the journal of that commit is
\* still open.
THEOREM NoCommitIsForgotten == Spec => []SqliteFollowsGit
<1>1. IInv => SqliteFollowsGit
  BY Consequences
<1> QED BY <1>1, Invariance, PTL

\* Every caller finalizeRun has answered has a finished run, also after any
\* number of crashes and restarts.
THEOREM AnswersAreKept == Spec => []AckedIsTerminal
<1>1. IInv => AckedIsTerminal
  BY DEF IInv, Typing, TypeOK, LifeInv, Life, AckedIsTerminal
<1> QED BY <1>1, Invariance, PTL
=============================================================================
