------------------------- MODULE RunRecoveryProofs -------------------------
(***************************************************************************)
(* Proofs about the route plans, the workstreams and the startup recovery  *)
(* of RunFinalization, on top of the inductive invariant IInv of           *)
(* RunFinalizationProofs.                                                  *)
(*                                                                         *)
(* The first part holds for any number of streams and any failing call:    *)
(* plans stay current, requests match Git, finished runs stay finished,    *)
(* and the two stores implement AtomicFinalization.  The second part is    *)
(* about one stream, the way the daemon uses the engine: no run ever       *)
(* becomes recovery-required without a failing call, and a recovery in     *)
(* which no call fails leaves nothing open.  The third part, for any       *)
(* number of streams and any failing call again, is about the end of       *)
(* things: what an operation and a recovery leave behind, how many steps   *)
(* they take, that they never get stuck, and so that operations end.       *)
(***************************************************************************)
EXTENDS RunFinalizationProofs, FiniteSetTheorems

-----------------------------------------------------------------------------
(* The inductive invariant of the first part, in parts.                    *)

\* A run has a route plan exactly while it is bound; the plan is committed
\* with its journal, and an open plan not yet in recovery is a blocking run's.
PlanOf(r) ==
    /\ plan[r].phase # "discarded"
    /\ plan[r].phase = "none" <=> ~Bound(r)
    /\ plan[r].phase = "committed" <=> journal[r].phase = "completed"
    /\ plan[r].phase = "recovery_required" => journal[r].phase # "none"
    /\ plan[r].phase = "committed" => run[r].status \in Outcome
    /\ plan[r].phase = "planned" => run[r].status \in Blocking

\* PlanOf of every run.
PlanInv == \A r \in Run : PlanOf(r)

\* A workstream is active once it has a commit.  No run is bound to a
\* workstream that does not exist, nor to one still being allocated.
WorkstreamInv ==
    /\ \A w \in Workstreams : workstream[w].status = "active" <=> Materialized(w)
    /\ \A r \in Run : Bound(r) => workstream[run[r].ws].status # "absent"
    /\ \A r \in Run : plan[r].phase = "committed" =>
          workstream[run[r].ws].status = "active"
    /\ op.kind = "route" =>
          /\ ~Bound(op.run)
          /\ workstream[op.ws].status = "initializing"
          /\ \A r \in Run : run[r].ws # op.ws

\* A workstream has at most one open plan.
OnePlan ==
    \A r, q \in Run : PlanOpen(r) /\ PlanOpen(q) /\ run[r].ws = run[q].ws => r = q

\* A finalization is at its receipt exactly when its journal is completed, and
\* until it is answered its workstream has no open plan.
ReceiptInv ==
    op.kind = "bound" =>
        /\ op.step = "receipt" <=> journal[op.run].phase = "completed"
        /\ op.step = "receipt" =>
              \A q \in Run : PlanOpen(q) => run[q].ws # run[op.run].ws

\* Recovery drops a journal from its list as soon as it has completed it.
ListInv ==
    boot = "bound" => \A r \in todo : journal[r].phase = "completed" =>
        op.kind = "bound" /\ op.run = r

LockInv == OnePlan /\ ReceiptInv /\ ListInv

\* A stream has at most one run that blocks it.
OneOpenRun ==
    \A r, q \in Run : (/\ run[r].status \in Blocking /\ run[q].status \in Blocking
                       /\ run[r].stream = run[q].stream)
                      => r = q

\* The runs whose commits SQLite has acknowledged are finished.
Acknowledged == \A k \in 1..repoHead : run[log[k].run].status \in Outcome

\* All of it.
PlansInv == /\ PlanInv /\ WorkstreamInv /\ LockInv /\ OneOpenRun /\ Acknowledged
            /\ RequestsMatchGit /\ PlanIsCurrent

-----------------------------------------------------------------------------
(* What some of the steps do to the rows.                                  *)

\* A journal that is examined again goes on from its commit or from its
\* effects, on the base it had.
LEMMA ReexamineRows ==
    ASSUME TypeOK, NEW r \in Run, Reexamine(r)
    PROVE  /\ journal[r].phase = "recovery_required"
           /\ \/ /\ journal'[r].phase = "context_committed"
                 /\ journal'[r].commit = journal[r].base + 1
                 /\ Recognised(r)
              \/ /\ journal'[r].phase = "resource_effects_recorded"
                 /\ journal'[r].commit = journal[r].commit /\ journal[r].commit = 0
                 /\ ~Recognised(r)
           /\ journal'[r].base = journal[r].base
           /\ journal'[r].outcome = journal[r].outcome
           /\ \A q \in Run \ {r} : journal'[q] = journal[q]
           /\ UNCHANGED <<run, workstream, plan, unbound, repoHead, repoHealth, log,
                          dirty, boot, todo, op, live, acked, crashes, faults>>
<1>1. CASE Recognised(r)
  <2>1. /\ journal' = [journal EXCEPT ![r] =
              [@ EXCEPT !.phase = "context_committed", !.commit = journal[r].base + 1]]
        /\ journal[r].phase = "recovery_required"
        /\ UNCHANGED <<run, workstream, plan, unbound, repoHead, repoHealth, git, proc,
                       acked, crashes, faults>>
    BY <1>1 DEF Reexamine
  <2>2. /\ journal'[r].phase = "context_committed"
        /\ journal'[r].commit = journal[r].base + 1
        /\ journal'[r].base = journal[r].base
        /\ journal'[r].outcome = journal[r].outcome
        /\ \A q \in Run \ {r} : journal'[q] = journal[q]
    BY <2>1 DEF TypeOK, JournalRow
  <2> QED BY <1>1, <2>1, <2>2 DEF git, proc
<1>2. CASE ~Recognised(r)
  <2>1. /\ SetPhase(r, "resource_effects_recorded")
        /\ journal[r].commit = 0 /\ journal[r].phase = "recovery_required"
        /\ UNCHANGED <<run, workstream, plan, unbound, repoHead, repoHealth, git, proc,
                       acked, crashes, faults>>
    BY <1>2 DEF Reexamine
  <2>2. /\ journal'[r].phase = "resource_effects_recorded"
        /\ journal'[r].base = journal[r].base /\ journal'[r].commit = journal[r].commit
        /\ journal'[r].outcome = journal[r].outcome
        /\ \A q \in Run \ {r} : journal'[q] = journal[q]
    BY <2>1 DEF SetPhase, TypeOK, JournalRow
  <2> QED BY <1>2, <2>1, <2>2 DEF git, proc
<1> QED BY <1>1, <1>2

\* A mark moves a running run to recovery-required, and nothing else.
LEMMA MarkRows ==
    ASSUME TypeOK, NEW r \in Run, MarkRecovery(r)
    PROVE  /\ \A q \in Run \ {r} : run'[q] = run[q]
           /\ run'[r].ws = run[r].ws /\ run'[r].stream = run[r].stream
           /\ run[r].status = "running" => run'[r].status = "recovery_required"
           /\ run[r].status # "running" => run'[r] = run[r]
<1>1. run[r] \in RunRow
  BY DEF TypeOK
<1>2. CASE run[r].status = "running"
  BY <1>1, <1>2 DEF MarkRecovery, SetStatus, TypeOK, RunRow
<1>3. CASE run[r].status # "running"
  BY <1>1, <1>3 DEF MarkRecovery, SetStatus, TypeOK, RunRow
<1> QED BY <1>2, <1>3

\* Recovery marks an interrupted run it can neither discard nor plan.
LEMMA SkipRows ==
    ASSUME TypeOK, NEW r \in Run, SkipInterrupted(r)
    PROVE  /\ UNCHANGED <<workstream, plan, unbound, journal, repoHead, repoHealth, log,
                          dirty, boot, op, live, acked, crashes, faults>>
           /\ todo' = todo \ {r} /\ op.kind = "idle" /\ boot = "interrupted"
           /\ \A q \in Run \ {r} : run'[q] = run[q]
           /\ run'[r].ws = run[r].ws /\ run'[r].stream = run[r].stream
           /\ \/ run'[r] = run[r] /\ ~Interrupted(r)
              \/ /\ run'[r].status = "recovery_required" /\ Interrupted(r)
                 /\ ~Discardable(r) /\ ~Plannable(r)
<1>1. /\ UNCHANGED <<workstream, plan, unbound, journal, repoHead, repoHealth, log,
                     dirty, boot, op, live, acked, crashes, faults>>
      /\ todo' = todo \ {r} /\ op.kind = "idle" /\ boot = "interrupted"
  BY DEF SkipInterrupted, Recovering, Idle, git
<1>2. CASE ~Interrupted(r)
  BY <1>1, <1>2 DEF SkipInterrupted
<1>3. CASE Interrupted(r)
  <2>1. MarkRecovery(r) /\ run[r].status = "running" /\ ~Discardable(r) /\ ~Plannable(r)
    BY <1>3 DEF SkipInterrupted, Interrupted
  <2> QED BY <1>1, <1>3, <2>1, MarkRows
<1> QED BY <1>2, <1>3

\* The sweep closes a run only if it is bound to no workstream: then it has no
\* plan to discard.
LEMMA SweepRows ==
    ASSUME IInv, PlanInv, NEW r \in Run, Sweep(r)
    PROVE  /\ UNCHANGED <<workstream, plan, unbound, journal, repoHead, repoHealth, log,
                          dirty, boot, op, live, acked, crashes, faults>>
           /\ \A q \in Run \ {r} : run'[q] = run[q]
           /\ run'[r].ws = run[r].ws /\ run'[r].stream = run[r].stream
           /\ \/ run'[r].status = "recovery_required"
              \/ run'[r].status \in Outcome /\ ~Bound(r)
           /\ \/ unbound[r].phase # "none" \/ journal[r].phase # "none"
              \/ run[r].status = "recovery_required"
              \/ run'[r].status \in Outcome
<1>1. run[r] \in RunRow /\ run[r].status \in Blocking /\ plan[r] \in PlanRow
  BY DEF Sweep, Recovering, IInv, Typing, TypeOK, LifeInv, Life
<1>2. /\ UNCHANGED <<workstream, unbound, journal, repoHead, repoHealth, log, dirty,
                     boot, op, live, acked, crashes, faults>>
      /\ boot = "sweep"
  BY DEF Sweep, Recovering, git
<1>3. CASE \/ run[r].status = "recovery_required"
           \/ unbound[r].phase # "none" \/ journal[r].phase # "none"
           \/ plan[r].phase = "recovery_required"
  <2>1. plan[r].phase = "recovery_required" => journal[r].phase # "none"
    BY DEF PlanInv, PlanOf
  <2> QED BY <1>1, <1>2, <1>3, <2>1 DEF Sweep, MarkRecovery, SetStatus, IInv, Typing,
             TypeOK, RunRow, Blocking
<1>4. CASE ~ \/ run[r].status = "recovery_required"
             \/ unbound[r].phase # "none" \/ journal[r].phase # "none"
             \/ plan[r].phase = "recovery_required"
  <2>1. ~Bound(r)
    BY <1>1, <1>2, <1>4 DEF IInv, LifeInv, Life, Blocking
  <2>2. plan[r].phase = "none"
    BY <2>1 DEF PlanInv, PlanOf
  <2>3. /\ run' = [run EXCEPT ![r].status = "incomplete"]
        /\ plan' = [plan EXCEPT ![r] = [plan[r] EXCEPT !.phase = "none"]]
    BY <1>4, <2>2 DEF Sweep, SetStatus
  <2>4. [plan[r] EXCEPT !.phase = "none"] = plan[r]
    BY <1>1, <2>2 DEF PlanRow
  <2>5. plan' = plan
    BY <2>3, <2>4 DEF IInv, Typing, TypeOK
  <2> QED BY <1>1, <1>2, <2>1, <2>3, <2>5 DEF Outcome, IInv, Typing, TypeOK, RunRow
<1> QED BY <1>3, <1>4

-----------------------------------------------------------------------------
\* Every step keeps each run's plan in line with its binding and its journal.
LEMMA PlanStep ==
    ASSUME IInv, IInv', PlanInv, [Next]_vars
    PROVE  PlanInv'
<1> USE DEF IInv, Typing
<1>1. ASSUME NEW s \in Streams, StartRun(s) PROVE PlanInv'
  BY <1>1 DEF StartRun, LifeInv, Life, Blocking, Outcome, PlanInv, PlanOf, Bound
<1>2. ASSUME NEW r \in Run, NEW w \in Workstreams, CreateWorkstream(r, w) PROVE PlanInv'
  BY <1>2 DEF CreateWorkstream, PlanInv, PlanOf, Bound
<1>3. ASSUME NEW r \in Run, NEW w \in Workstreams, NEW c \in BOOLEAN,
             ActivateWorkstream(r, w, c)
      PROVE PlanInv'
  BY <1>3, RunAssumption DEF ActivateWorkstream, Client, Route, Typing,
     JournaledIsBound, TypeOK, Blocking, PlanInv, PlanOf, Bound
<1>4. ASSUME NEW r \in Run, AdmitResources(r) PROVE PlanInv'
  BY <1>4 DEF AdmitResources, proc, PlanInv, PlanOf, Bound
<1>5. ASSUME NEW r \in Run, NEW o \in Outcome, FinalizeUnbound(r, o) PROVE PlanInv'
  BY <1>5 DEF FinalizeUnbound, PlanInv, PlanOf, Bound
<1>6. ASSUME NEW r \in Run, NEW o \in Outcome, FinalizeDiscard(r, o) PROVE PlanInv'
  BY <1>6 DEF FinalizeDiscard, Client, Discard, Discardable, NoPlan, TypeOK, Blocking,
     PlanInv, PlanOf, Bound
<1>7. ASSUME NEW r \in Run, NEW o \in Outcome, NEW c \in BOOLEAN,
             FinalizeBound(r, o, c)
      PROVE PlanInv'
  BY <1>7 DEF FinalizeBound, Client, Prepare, Plannable, TypeOK, Blocking, PlanInv,
     PlanOf, Bound
<1>8. ASSUME NEW r \in Run, RefuseBound(r) PROVE PlanInv'
  BY <1>8 DEF RefuseBound, MarkRecovery, SetStatus, proc, Blocking, Outcome, TypeOK,
     RunRow, PlanInv, PlanOf, Bound
<1>9. ASSUME NEW r \in Run, RetryUnbound(r) PROVE PlanInv'
  BY <1>9 DEF RetryUnbound, sqlite, PlanInv, PlanOf, Bound
<1>10. ASSUME NEW r \in Run, RetryBound(r) PROVE PlanInv'
  BY <1>10 DEF RetryBound, sqlite, PlanInv, PlanOf, Bound
<1>11. ASSUME NEW r \in Run, RouteCreated(r) PROVE PlanInv'
  BY <1>11, RunAssumption DEF RouteCreated, At, Route, NoOp, Typing, TypeOK,
     OperationInv, JournaledIsBound, Blocking, PlanInv, PlanOf, Bound
<1>12. ASSUME NEW r \in Run, RouteRefused(r) PROVE PlanInv'
  BY <1>12 DEF RouteRefused, sqlite, PlanInv, PlanOf, Bound
<1>13. ASSUME NEW r \in Run, CompleteUnbound(r) PROVE PlanInv'
  BY <1>13 DEF CompleteUnbound, At, SetStatus, Typing, TypeOK, OperationInv, LifeInv,
     Life, Blocking, Outcome, RunRow, UnboundRow, PlanInv, PlanOf, Bound
<1>14. ASSUME NEW r \in Run, UnboundError(r) PROVE PlanInv'
  BY <1>14 DEF UnboundError, MarkRecovery, SetStatus, Blocking, Outcome, TypeOK, RunRow,
     PlanInv, PlanOf, Bound
<1>15. ASSUME NEW r \in Run, Receipt(r) PROVE PlanInv'
  BY <1>15 DEF Receipt, sqlite, PlanInv, PlanOf, Bound
<1>16. ASSUME NEW r \in Run, Reexamine(r) PROVE PlanInv'
  BY <1>16, ReexamineRows DEF PlanInv, PlanOf, Bound
<1>17. ASSUME NEW r \in Run, RecordEffects(r) PROVE PlanInv'
  BY <1>17 DEF RecordEffects, At, SetPhase, proc, Typing, TypeOK, PlanInv, PlanOf, Bound
<1>18. ASSUME NEW r \in Run, WriteContext(r) PROVE PlanInv'
  BY <1>18 DEF WriteContext, sqlite, PlanInv, PlanOf, Bound
<1>19. ASSUME NEW r \in Run, GitCommit(r) PROVE PlanInv'
  BY <1>19 DEF GitCommit, sqlite, PlanInv, PlanOf, Bound
<1>20. ASSUME NEW r \in Run, RecogniseCommit(r) PROVE PlanInv'
  BY <1>20 DEF RecogniseCommit, sqlite, PlanInv, PlanOf, Bound
<1>21. ASSUME NEW r \in Run, RecordCommit(r) PROVE PlanInv'
  BY <1>21 DEF RecordCommit, At, HistoryInv, Typing, TypeOK, PlanInv, PlanOf, Bound
<1>22. ASSUME NEW r \in Run, Acknowledge(r) PROVE PlanInv'
  BY <1>22, RunAssumption DEF Acknowledge, At, SetStatus, SetPhase, Typing, TypeOK,
     LifeInv, Life, JournaledIsBound, RunRow, JournalRow, Blocking, Outcome, PlanInv,
     PlanOf, Bound
<1>23. ASSUME NEW r \in Run, BoundError(r) PROVE PlanInv'
  BY <1>23, RunAssumption DEF BoundError, MarkRecovery, SetStatus, SetPhase, Typing,
     TypeOK, OperationInv, JournaledIsBound, RunRow, Blocking, Outcome, PlanInv, PlanOf,
     Bound
<1>24. ASSUME NEW r \in Run, RecoverUnbound(r) PROVE PlanInv'
  BY <1>24 DEF RecoverUnbound, sqlite, PlanInv, PlanOf, Bound
<1>25. ASSUME NEW r \in Run, RecoverBound(r) PROVE PlanInv'
  BY <1>25 DEF RecoverBound, sqlite, PlanInv, PlanOf, Bound
<1>26. ASSUME NEW r \in Run, RecoverInterrupted(r) PROVE PlanInv'
  <2>1. CASE Discard(r, "incomplete", FALSE)
    BY <2>1 DEF Discard, Discardable, NoPlan, Typing, TypeOK, Blocking, PlanInv, PlanOf,
       Bound
  <2>2. CASE Prepare(r, "incomplete", FALSE, FALSE)
    BY <2>2 DEF Prepare, Plannable, Typing, TypeOK, Blocking, PlanInv, PlanOf, Bound
  <2> QED BY <1>26, <2>1, <2>2 DEF RecoverInterrupted
<1>27. ASSUME NEW r \in Run, SkipInterrupted(r) PROVE PlanInv'
  BY <1>27 DEF SkipInterrupted, MarkRecovery, SetStatus, Blocking, Outcome, TypeOK,
     RunRow, PlanInv, PlanOf, Bound
<1>28. ASSUME NEW r \in Run, Sweep(r) PROVE PlanInv'
  <2>1. /\ UNCHANGED <<journal, plan>>
        /\ \A q \in Run \ {r} : run'[q] = run[q]
        /\ run'[r].ws = run[r].ws
        /\ run'[r].status \in Blocking \/ (run'[r].status \in Outcome /\ ~Bound(r))
    BY <1>28, SweepRows DEF Blocking
  <2>2. run[r].status \in Blocking
    BY <1>28 DEF Sweep, Recovering, LifeInv, Life
  <2> QED BY <2>1, <2>2 DEF PlanInv, PlanOf, Bound, Blocking, Outcome
<1>29. ASSUME Boot PROVE PlanInv'
  BY <1>29 DEF Boot, PlanInv, PlanOf, Bound
<1>30. ASSUME NextStage PROVE PlanInv'
  BY <1>30 DEF NextStage, sqlite, PlanInv, PlanOf, Bound
<1>31. ASSUME Crash PROVE PlanInv'
  BY <1>31 DEF Crash, sqlite, PlanInv, PlanOf, Bound
<1>32. ASSUME UNCHANGED vars PROVE PlanInv'
  BY <1>32 DEF vars, PlanInv, PlanOf, Bound
<1> QED BY <1>1, <1>2, <1>3, <1>4, <1>5, <1>6, <1>7, <1>8, <1>9, <1>10, <1>11, <1>12,
           <1>13, <1>14, <1>15, <1>16, <1>17, <1>18, <1>19, <1>20, <1>21, <1>22, <1>23,
           <1>24, <1>25, <1>26, <1>27, <1>28, <1>29, <1>30, <1>31, <1>32
           DEF Next, Request, Continue, Recover

-----------------------------------------------------------------------------
\* The acknowledgement: run, plan, journal, workstream and head together.
LEMMA AcknowledgeRows ==
    ASSUME IInv, NEW r \in Run, Acknowledge(r)
    PROVE  /\ run[r].ws \in Workstreams
           /\ op.kind = "bound" /\ op.run = r /\ op.step = "journal"
           /\ op' = [op EXCEPT !.step = "receipt"]
           /\ op'.kind = "bound" /\ op'.run = r /\ op'.step = "receipt"
           /\ journal[r].phase = "context_committed"
           /\ Acknowledgeable(r)
           /\ repoHead' = journal[r].commit
           /\ repoHealth' = IF repoHead = journal[r].base THEN "ready" ELSE repoHealth
           /\ \A q \in Run \ {r} : /\ run'[q] = run[q] /\ plan'[q] = plan[q]
                                   /\ journal'[q] = journal[q]
           /\ \A q \in Run : run'[q].ws = run[q].ws /\ run'[q].stream = run[q].stream
           /\ run'[r].status \in Outcome
           /\ run[r].status \in Blocking => run'[r].status = journal[r].outcome
           /\ run[r].status \in Outcome => run'[r] = run[r]
           /\ plan'[r].phase = "committed" /\ journal'[r].phase = "completed"
           /\ journal'[r].base = journal[r].base /\ journal'[r].commit = journal[r].commit
           /\ workstream'[run[r].ws].status = "active"
           /\ workstream'[run[r].ws].lastCommit = journal[r].commit
           /\ workstream'[run[r].ws].ahead = NoRun
           /\ \A w \in Workstreams \ {run[r].ws} : workstream'[w] = workstream[w]
           /\ UNCHANGED <<unbound, log, dirty, boot, todo, live, acked, crashes, faults>>
<1>1. /\ op.kind = "bound" /\ op.run = r /\ op.step = "journal"
      /\ op' = [op EXCEPT !.step = "receipt"]
      /\ journal[r].phase = "context_committed" /\ Acknowledgeable(r)
      /\ repoHead' = journal[r].commit
      /\ repoHealth' = IF repoHead = journal[r].base THEN "ready" ELSE repoHealth
      /\ run' = [run EXCEPT ![r].status =
                   IF run[r].status \in Blocking THEN journal[r].outcome
                                                 ELSE run[r].status]
      /\ plan' = [plan EXCEPT ![r].phase = "committed"]
      /\ journal' = [journal EXCEPT ![r].phase = "completed"]
      /\ workstream' = [workstream EXCEPT ![run[r].ws] =
          [@ EXCEPT !.status = "active", !.lastCommit = journal[r].commit,
              !.ahead = NoRun]]
      /\ UNCHANGED <<unbound, log, dirty, boot, todo, live, acked, crashes, faults>>
  BY DEF Acknowledge, At, Step, SetStatus, SetPhase, git
<1>2. /\ op'.kind = "bound" /\ op'.run = r /\ op'.step = "receipt"
      /\ run[r].ws \in Workstreams
  BY <1>1 DEF IInv, Typing, TypeOK, JournaledIsBound
<1>3. /\ \A q \in Run \ {r} : /\ run'[q] = run[q] /\ plan'[q] = plan[q]
                              /\ journal'[q] = journal[q]
      /\ run'[r].ws = run[r].ws /\ run'[r].stream = run[r].stream
      /\ run'[r].status = IF run[r].status \in Blocking THEN journal[r].outcome
                                                        ELSE run[r].status
      /\ plan'[r].phase = "committed" /\ journal'[r].phase = "completed"
      /\ journal'[r].base = journal[r].base /\ journal'[r].commit = journal[r].commit
  BY <1>1 DEF IInv, Typing, TypeOK, RunRow, PlanRow, JournalRow
<1>4. /\ workstream'[run[r].ws].status = "active"
      /\ workstream'[run[r].ws].lastCommit = journal[r].commit
      /\ workstream'[run[r].ws].ahead = NoRun
      /\ \A w \in Workstreams \ {run[r].ws} : workstream'[w] = workstream[w]
  BY <1>1, <1>2 DEF IInv, Typing, TypeOK, WorkstreamRow
<1>5. run[r].status \in Blocking \cup Outcome /\ journal[r].outcome \in Outcome
  BY <1>1 DEF IInv, Typing, TypeOK, LifeInv, Life, RunRow, JournalRow
<1>6. run[r].status \in Outcome => run'[r] = run[r]
  <2>1. Outcome \cap Blocking = {}
    BY DEF Outcome, Blocking
  <2>2. [run[r] EXCEPT !.status = run[r].status] = run[r]
    BY DEF IInv, Typing, TypeOK, RunRow
  <2>3. run[r].status \in Outcome =>
           run' = [run EXCEPT ![r] = [run[r] EXCEPT !.status = run[r].status]]
    BY <1>1, <2>1
  <2> QED BY <2>2, <2>3 DEF IInv, Typing, TypeOK
<1>7. run'[r].status \in Outcome
  BY <1>3, <1>5
<1> QED BY <1>1, <1>2, <1>3, <1>4, <1>6, <1>7

\* The transaction that discards an empty workstream, on request or in recovery.
Discarding(r) == \E o \in Outcome, c \in BOOLEAN : Discard(r, o, c)

\* A run whose empty workstream is discarded is alone on it.
LEMMA DiscardRows ==
    ASSUME IInv, PlanInv, WorkstreamInv, LockInv,
           NEW r \in Run, Discarding(r)
    PROVE  /\ run[r].ws \in Workstreams /\ run[r].status = "running"
           /\ workstream[run[r].ws].status = "initializing"
           /\ plan[r].phase = "planned" /\ journal[r].phase = "none"
           /\ run'[r].status = run[r].status /\ run'[r].ws = NoWorkstream
           /\ run'[r].stream = run[r].stream
           /\ \A q \in Run \ {r} : /\ run'[q] = run[q] /\ plan'[q] = plan[q]
                                   /\ unbound'[q] = unbound[q]
                                   /\ run[q].ws # run[r].ws
           /\ plan'[r].phase = "none"
           /\ unbound'[r].phase = "prepared"
           /\ workstream'[run[r].ws] = NoWorkstreamRow
           /\ \A w \in Workstreams \ {run[r].ws} : workstream'[w] = workstream[w]
           /\ op'.kind = "unbound" /\ op'.run = r
           /\ op'.step = "journal"
           /\ UNCHANGED <<journal, repoHead, repoHealth, log, dirty, boot, todo, live,
                          acked, crashes, faults>>
<1>1. /\ run[r].ws \in Workstreams /\ run[r].status = "running"
      /\ workstream[run[r].ws].status = "initializing" /\ plan[r].phase = "planned"
      /\ journal[r].phase = "none"
  BY DEF Discarding, Discard, Discardable, Bound, IInv, Typing, TypeOK, RunRow
<1>2. ASSUME NEW q \in Run \ {r}, run[q].ws = run[r].ws PROVE FALSE
  <2>1. plan[q].phase # "committed"
    BY <1>1, <1>2 DEF WorkstreamInv
  <2>2. plan[q].phase \notin {"none", "discarded"}
    BY <1>1, <1>2, RunAssumption DEF PlanInv, PlanOf, Bound
  <2>3. PlanOpen(q) /\ PlanOpen(r)
    BY <1>1, <2>1, <2>2 DEF PlanOpen, IInv, Typing, TypeOK, PlanRow
  <2> QED BY <1>2, <2>3 DEF LockInv, OnePlan
<1>0. PICK o \in Outcome, c \in BOOLEAN : Discard(r, o, c)
  BY DEF Discarding
<1>3. /\ run' = [run EXCEPT ![r].ws = NoWorkstream] /\ plan' = [plan EXCEPT ![r] = NoPlan]
      /\ workstream' = [workstream EXCEPT ![run[r].ws] = NoWorkstreamRow]
      /\ unbound' = [unbound EXCEPT ![r] = [phase |-> "prepared", outcome |-> o]]
      /\ op'.kind = "unbound" /\ op'.run = r /\ op'.step = "journal"
      /\ UNCHANGED <<journal, repoHead, repoHealth, log, dirty, boot, todo, live,
                     acked, crashes, faults>>
  BY <1>0 DEF Discard, Begin, git
<1>4. /\ run'[r].status = run[r].status /\ run'[r].ws = NoWorkstream
      /\ run'[r].stream = run[r].stream
      /\ \A q \in Run \ {r} : /\ run'[q] = run[q] /\ plan'[q] = plan[q]
                              /\ unbound'[q] = unbound[q]
      /\ plan'[r].phase = "none" /\ unbound'[r].phase = "prepared"
  BY <1>3 DEF IInv, Typing, TypeOK, RunRow, NoPlan
<1>5. /\ workstream'[run[r].ws] = NoWorkstreamRow
      /\ \A w \in Workstreams \ {run[r].ws} : workstream'[w] = workstream[w]
  BY <1>1, <1>3 DEF IInv, Typing, TypeOK
<1> QED BY <1>1, <1>2, <1>3, <1>4, <1>5

\* The discarded workstream leaves no run behind.
LEMMA DiscardWorkstream ==
    ASSUME IInv, PlanInv, WorkstreamInv, LockInv, op.kind = "idle",
           NEW r \in Run, Discarding(r)
    PROVE  WorkstreamInv'
<1>1. /\ run[r].ws \in Workstreams /\ workstream'[run[r].ws] = NoWorkstreamRow
      /\ \A w \in Workstreams \ {run[r].ws} : workstream'[w] = workstream[w]
      /\ \A q \in Run \ {r} : /\ run'[q] = run[q] /\ plan'[q] = plan[q]
                              /\ run[q].ws # run[r].ws
      /\ run'[r].ws = NoWorkstream /\ plan'[r].phase = "none" /\ op'.kind = "unbound"
  BY DiscardRows
<1>2. NoWorkstreamRow.status = "absent" /\ NoWorkstreamRow.lastCommit = 0
  BY DEF NoWorkstreamRow
<1>3. \A q \in Run : run[q].ws \in Workstreams \cup {NoWorkstream}
  BY DEF IInv, Typing, TypeOK, RunRow
<1>4. \A w \in Workstreams : workstream'[w].status = "active"
          <=> workstream'[w].lastCommit # 0
  BY <1>1, <1>2 DEF WorkstreamInv, Materialized
<1>5. \A q \in Run : run'[q].ws # NoWorkstream
          => workstream'[run'[q].ws].status # "absent"
  BY <1>1, <1>3 DEF WorkstreamInv, Bound
<1>6. \A q \in Run : plan'[q].phase = "committed" =>
          workstream'[run'[q].ws].status = "active"
  <2>1. \A q \in Run : plan[q].phase = "committed" => run[q].ws # NoWorkstream
    BY DEF PlanInv, PlanOf, Bound
  <2> QED BY <1>1, <1>3, <2>1 DEF WorkstreamInv
<1> QED BY <1>1, <1>4, <1>5, <1>6 DEF WorkstreamInv, Materialized, Bound

-----------------------------------------------------------------------------
\* Every step keeps the workstreams in line with the runs bound to them.
LEMMA WorkstreamStep ==
    ASSUME IInv, IInv', PlanInv, WorkstreamInv, LockInv, [Next]_vars
    PROVE  WorkstreamInv'
<1> USE DEF IInv, Typing
<1>1. ASSUME NEW s \in Streams, StartRun(s) PROVE WorkstreamInv'
  BY <1>1 DEF StartRun, Serving, Idle, WorkstreamInv, Materialized, Bound
<1>2. ASSUME NEW r \in Run, NEW w \in Workstreams, CreateWorkstream(r, w)
      PROVE WorkstreamInv'
  BY <1>2, RunAssumption DEF CreateWorkstream, Client, Begin, OperationInv, TypeOK,
     WorkstreamRow, WorkstreamInv, Materialized, Bound
<1>3. ASSUME NEW r \in Run, NEW w \in Workstreams, NEW c \in BOOLEAN,
             ActivateWorkstream(r, w, c)
      PROVE WorkstreamInv'
  BY <1>3 DEF ActivateWorkstream, Client, Serving, Idle, Route, Routable, PlanInv,
     PlanOf, TypeOK, WorkstreamRow, PlanRow, RunRow, WorkstreamInv, Materialized, Bound
<1>4. ASSUME NEW r \in Run, AdmitResources(r) PROVE WorkstreamInv'
  BY <1>4 DEF AdmitResources, proc, RunRow, TypeOK, WorkstreamRow, WorkstreamInv,
     Materialized, Bound
<1>5. ASSUME NEW r \in Run, NEW o \in Outcome, FinalizeUnbound(r, o)
      PROVE WorkstreamInv'
  BY <1>5 DEF FinalizeUnbound, Begin, WorkstreamInv, Materialized, Bound
<1>6. ASSUME NEW r \in Run, NEW o \in Outcome, FinalizeDiscard(r, o)
      PROVE WorkstreamInv'
  BY <1>6, DiscardWorkstream DEF Discarding, FinalizeDiscard, Client, Serving, Idle
<1>7. ASSUME NEW r \in Run, NEW o \in Outcome, NEW c \in BOOLEAN,
             FinalizeBound(r, o, c)
      PROVE WorkstreamInv'
  BY <1>7 DEF FinalizeBound, Client, Prepare, Begin, TypeOK, WorkstreamRow, RunRow,
     WorkstreamInv, Materialized, Bound
<1>8. ASSUME NEW r \in Run, RefuseBound(r) PROVE WorkstreamInv'
  BY <1>8 DEF RefuseBound, MarkRecovery, SetStatus, proc, TypeOK, RunRow, WorkstreamInv,
     Materialized, Bound
<1>9. ASSUME NEW r \in Run, RetryUnbound(r) PROVE WorkstreamInv'
  BY <1>9 DEF RetryUnbound, sqlite, Begin, WorkstreamInv, Materialized, Bound
<1>10. ASSUME NEW r \in Run, RetryBound(r) PROVE WorkstreamInv'
  BY <1>10 DEF RetryBound, sqlite, Begin, WorkstreamInv, Materialized, Bound
<1>11. ASSUME NEW r \in Run, RouteCreated(r) PROVE WorkstreamInv'
  BY <1>11 DEF RouteCreated, At, Route, Routable, NoOp, PlanInv, PlanOf, OperationInv,
     RunRow, PlanRow, TypeOK, WorkstreamRow, WorkstreamInv, Materialized, Bound
<1>12. ASSUME NEW r \in Run, RouteRefused(r) PROVE WorkstreamInv'
  BY <1>12 DEF RouteRefused, sqlite, NoOp, WorkstreamInv, Materialized, Bound
<1>13. ASSUME NEW r \in Run, CompleteUnbound(r) PROVE WorkstreamInv'
  BY <1>13 DEF CompleteUnbound, At, SetStatus, TypeOK, RunRow, WorkstreamInv,
     Materialized, Bound
<1>14. ASSUME NEW r \in Run, UnboundError(r) PROVE WorkstreamInv'
  BY <1>14 DEF UnboundError, MarkRecovery, SetStatus, Finish, NoOp, TypeOK, RunRow,
     WorkstreamInv, Materialized, Bound
<1>15. ASSUME NEW r \in Run, Receipt(r) PROVE WorkstreamInv'
  BY <1>15 DEF Receipt, sqlite, Finish, NoOp, WorkstreamInv, Materialized, Bound
<1>16. ASSUME NEW r \in Run, Reexamine(r) PROVE WorkstreamInv'
  BY <1>16, ReexamineRows DEF WorkstreamInv, Materialized, Bound
<1>17. ASSUME NEW r \in Run, RecordEffects(r) PROVE WorkstreamInv'
  BY <1>17 DEF RecordEffects, proc, WorkstreamInv, Materialized, Bound
<1>18. ASSUME NEW r \in Run, WriteContext(r) PROVE WorkstreamInv'
  BY <1>18 DEF WriteContext, sqlite, At, Step, TypeOK, WorkstreamInv, Materialized,
     Bound
<1>19. ASSUME NEW r \in Run, GitCommit(r) PROVE WorkstreamInv'
  BY <1>19 DEF GitCommit, sqlite, At, Step, TypeOK, WorkstreamInv, Materialized, Bound
<1>20. ASSUME NEW r \in Run, RecogniseCommit(r) PROVE WorkstreamInv'
  BY <1>20 DEF RecogniseCommit, sqlite, At, Step, TypeOK, WorkstreamInv, Materialized,
     Bound
<1>21. ASSUME NEW r \in Run, RecordCommit(r) PROVE WorkstreamInv'
  BY <1>21 DEF RecordCommit, At, Step, TypeOK, WorkstreamInv, Materialized, Bound
<1>22. ASSUME NEW r \in Run, Acknowledge(r) PROVE WorkstreamInv'
  <2>1. PICK v \in Workstreams : run[r].ws = v
    BY <1>22 DEF Acknowledge, JournaledIsBound
  <2>2. /\ op.kind = "bound" /\ op'.kind = "bound"
        /\ \A q \in Run : run'[q].ws = run[q].ws
        /\ \A q \in Run \ {r} : plan'[q] = plan[q]
        /\ workstream'[v].status = "active"
        /\ workstream'[v].lastCommit = journal[r].commit
        /\ \A w \in Workstreams \ {v} : workstream'[w] = workstream[w]
    BY <1>22, <2>1, AcknowledgeRows
  <2>3. journal[r].commit # 0
    BY <1>22 DEF Acknowledge, HistoryInv
  <2>4. \A w \in Workstreams : workstream'[w].status = "active"
            <=> workstream'[w].lastCommit # 0
    BY <2>2, <2>3 DEF WorkstreamInv, Materialized
  <2>5. \A q \in Run : run[q].ws \in Workstreams \cup {NoWorkstream}
    BY DEF TypeOK, RunRow
  <2>6. \A q \in Run : run[q].ws # NoWorkstream
            => workstream'[run[q].ws].status # "absent"
    BY <2>2, <2>5 DEF WorkstreamInv, Bound
  <2>7. \A q \in Run : plan'[q].phase = "committed"
            => workstream'[run[q].ws].status = "active"
    <3>1. \A q \in Run : plan[q].phase = "committed" => run[q].ws # NoWorkstream
      BY DEF PlanInv, PlanOf, Bound
    <3> QED BY <2>1, <2>2, <2>5, <3>1 DEF WorkstreamInv
  <2> QED BY <2>2, <2>4, <2>6, <2>7 DEF WorkstreamInv, Materialized, Bound
<1>23. ASSUME NEW r \in Run, BoundError(r) PROVE WorkstreamInv'
  BY <1>23 DEF BoundError, MarkRecovery, SetStatus, Finish, NoOp, RunRow, PlanRow,
     TypeOK, WorkstreamRow, WorkstreamInv, Materialized, Bound
<1>24. ASSUME NEW r \in Run, RecoverUnbound(r) PROVE WorkstreamInv'
  BY <1>24 DEF RecoverUnbound, sqlite, Begin, WorkstreamInv, Materialized, Bound
<1>25. ASSUME NEW r \in Run, RecoverBound(r) PROVE WorkstreamInv'
  BY <1>25 DEF RecoverBound, sqlite, Begin, WorkstreamInv, Materialized, Bound
<1>26. ASSUME NEW r \in Run, RecoverInterrupted(r) PROVE WorkstreamInv'
  <2>1. CASE Discard(r, "incomplete", FALSE)
    BY <1>26, <2>1, DiscardWorkstream DEF Discarding, RecoverInterrupted, Recovering,
       Idle, Outcome
  <2>2. CASE Prepare(r, "incomplete", FALSE, FALSE)
    BY <2>2 DEF Prepare, Begin, WorkstreamInv, Materialized, Bound, TypeOK, WorkstreamRow,
       RunRow
  <2> QED BY <1>26, <2>1, <2>2 DEF RecoverInterrupted
<1>27. ASSUME NEW r \in Run, SkipInterrupted(r) PROVE WorkstreamInv'
  BY <1>27, SkipRows DEF WorkstreamInv, Materialized, Bound
<1>28. ASSUME NEW r \in Run, Sweep(r) PROVE WorkstreamInv'
  <2>1. op.kind = "idle"
    BY <1>28 DEF Sweep, Recovering, Idle
  <2> QED BY <1>28, <2>1, SweepRows DEF WorkstreamInv, Materialized, Bound
<1>29. ASSUME Boot PROVE WorkstreamInv'
  <2>1. /\ op.kind # "route" /\ UNCHANGED <<run, plan, journal, op>>
        /\ \A w \in Workstreams :
              \/ workstream'[w] = workstream[w]
              \/ /\ workstream[w].status = "initializing"
                 /\ \A q \in Run : run[q].ws # w
                 /\ workstream'[w] = NoWorkstreamRow
    BY <1>29 DEF Boot, OperationInv
  <2>2. NoWorkstreamRow.status = "absent" /\ NoWorkstreamRow.lastCommit = 0
    BY DEF NoWorkstreamRow
  <2>3. \A w \in Workstreams : workstream'[w].status = "active"
            <=> workstream'[w].lastCommit # 0
    BY <2>1, <2>2 DEF WorkstreamInv, Materialized
  <2>4. \A q \in Run : run[q].ws # NoWorkstream
            => workstream'[run[q].ws] = workstream[run[q].ws]
    BY <2>1 DEF TypeOK, RunRow
  <2>5. \A q \in Run : plan[q].phase = "committed" => run[q].ws # NoWorkstream
    BY DEF PlanInv, PlanOf, Bound
  <2> QED BY <2>1, <2>3, <2>4, <2>5 DEF WorkstreamInv, Materialized, Bound
<1>30. ASSUME NextStage PROVE WorkstreamInv'
  BY <1>30 DEF NextStage, sqlite, WorkstreamInv, Materialized, Bound
<1>31. ASSUME Crash PROVE WorkstreamInv'
  BY <1>31 DEF Crash, sqlite, NoOp, WorkstreamInv, Materialized, Bound
<1>32. ASSUME UNCHANGED vars PROVE WorkstreamInv'
  BY <1>32 DEF vars, WorkstreamInv, Materialized, Bound
<1> QED BY <1>1, <1>2, <1>3, <1>4, <1>5, <1>6, <1>7, <1>8, <1>9, <1>10, <1>11, <1>12,
           <1>13, <1>14, <1>15, <1>16, <1>17, <1>18, <1>19, <1>20, <1>21, <1>22, <1>23,
           <1>24, <1>25, <1>26, <1>27, <1>28, <1>29, <1>30, <1>31, <1>32
           DEF Next, Request, Continue, Recover

-----------------------------------------------------------------------------
(* What the compound steps do to the rows.                                 *)

\* A route and a preparation, whatever their flags.
Routing(r, w) == \E c \in BOOLEAN : Route(r, w, c)
Preparing(r)  == \E o \in Outcome, e, c \in BOOLEAN : Prepare(r, o, e, c)

\* A route binds the run, plans on the head of the workstream and may leave a
\* request change in SQLite.
LEMMA RouteRows ==
    ASSUME IInv, NEW r \in Run, NEW w \in Workstreams, Routing(r, w)
    PROVE  /\ Routable(w)
           /\ run'[r].ws = w /\ run'[r].status = run[r].status
           /\ run'[r].stream = run[r].stream
           /\ \A q \in Run \ {r} : run'[q] = run[q] /\ plan'[q] = plan[q]
           /\ plan'[r].phase = "planned" /\ plan'[r].base = WorkstreamHead(w)
           /\ workstream'[w].status = workstream[w].status
           /\ workstream'[w].lastCommit = workstream[w].lastCommit
           /\ workstream'[w].ahead \in {workstream[w].ahead, r}
           /\ \A v \in Workstreams \ {w} : workstream'[v] = workstream[v]
           /\ UNCHANGED <<unbound, journal, repoHead, repoHealth, log, dirty, boot,
                          todo, live, acked, crashes, faults>>
<1>1. PICK c \in BOOLEAN :
      /\ Routable(w)
      /\ run' = [run EXCEPT ![r].ws = w]
      /\ plan' = [plan EXCEPT ![r] = [phase |-> "planned", base |-> WorkstreamHead(w)]]
      /\ workstream' = [workstream EXCEPT ![w].ahead = IF c THEN r ELSE @]
      /\ UNCHANGED <<unbound, journal, repoHead, repoHealth, log, dirty, boot, todo,
                     live, acked, crashes, faults>>
  BY DEF Routing, Route, git
<1>2. /\ run'[r].ws = w /\ run'[r].status = run[r].status
      /\ run'[r].stream = run[r].stream
      /\ plan'[r].phase = "planned" /\ plan'[r].base = WorkstreamHead(w)
      /\ \A q \in Run \ {r} : run'[q] = run[q] /\ plan'[q] = plan[q]
  BY <1>1 DEF IInv, Typing, TypeOK, RunRow
<1>3. /\ workstream'[w].status = workstream[w].status
      /\ workstream'[w].lastCommit = workstream[w].lastCommit
      /\ workstream'[w].ahead \in {workstream[w].ahead, r}
      /\ \A v \in Workstreams \ {w} : workstream'[v] = workstream[v]
  BY <1>1 DEF IInv, Typing, TypeOK, WorkstreamRow
<1> QED BY <1>1, <1>2, <1>3

\* A plan is journaled on SQLite's head.
LEMMA PrepareRows ==
    ASSUME IInv, NEW r \in Run, Preparing(r)
    PROVE  /\ run[r].ws \in Workstreams /\ run[r].status = "running"
           /\ journal[r].phase = "none" /\ Plannable(r)
           /\ journal'[r].phase = "prepared" /\ journal'[r].base = repoHead
           /\ journal'[r].commit = 0
           /\ \A q \in Run \ {r} : journal'[q] = journal[q]
           /\ workstream'[run[r].ws].status = workstream[run[r].ws].status
           /\ workstream'[run[r].ws].lastCommit = workstream[run[r].ws].lastCommit
           /\ workstream'[run[r].ws].ahead = workstream[run[r].ws].ahead
           /\ \A w \in Workstreams \ {run[r].ws} : workstream'[w] = workstream[w]
           /\ op'.kind = "bound" /\ op'.run = r /\ op'.step = "journal"
           /\ UNCHANGED <<run, plan, unbound, repoHead, repoHealth, log, dirty, boot,
                          todo, live, acked, crashes, faults>>
<1>0. PICK o \in Outcome, e \in BOOLEAN, c \in BOOLEAN : Prepare(r, o, e, c)
  BY DEF Preparing
<1>1. /\ run[r].status = "running" /\ Bound(r) /\ journal[r].phase = "none"
      /\ Plannable(r)
      /\ journal' = [journal EXCEPT ![r] =
           [phase |-> "prepared", base |-> repoHead, commit |-> 0, outcome |-> o]]
      /\ workstream' = [workstream EXCEPT ![run[r].ws].evidence = @ \/ e]
      /\ op'.kind = "bound" /\ op'.run = r /\ op'.step = "journal"
      /\ UNCHANGED <<run, plan, unbound, repoHead, repoHealth, log, dirty, boot, todo,
                     live, acked, crashes, faults>>
  BY <1>0 DEF Prepare, Begin, git
<1>2. run[r].ws \in Workstreams
  BY <1>1 DEF Bound, IInv, Typing, TypeOK, RunRow
<1>3. /\ workstream'[run[r].ws].status = workstream[run[r].ws].status
      /\ workstream'[run[r].ws].lastCommit = workstream[run[r].ws].lastCommit
      /\ workstream'[run[r].ws].ahead = workstream[run[r].ws].ahead
      /\ \A w \in Workstreams \ {run[r].ws} : workstream'[w] = workstream[w]
  <2>1. PICK x : workstream' = [workstream EXCEPT ![run[r].ws].evidence = x]
    BY <1>1, Zenon
  <2> QED BY <2>1, <1>2 DEF IInv, Typing, TypeOK, WorkstreamRow
<1>4. /\ journal'[r].phase = "prepared" /\ journal'[r].base = repoHead
      /\ journal'[r].commit = 0
      /\ \A q \in Run \ {r} : journal'[q] = journal[q]
  BY <1>1 DEF IInv, Typing, TypeOK
<1> QED BY <1>1, <1>2, <1>3, <1>4

\* An error of a bound finalization marks the run, its plan and its journal.
LEMMA BoundErrorRows ==
    ASSUME IInv, NEW r \in Run, BoundError(r)
    PROVE  /\ op.kind = "bound" /\ op.run = r
           /\ \/ Stuck(r) /\ faults' = faults
              \/ /\ faults' = faults + 1
                 /\ op.step \in FaultPoints /\ (op.caller \/ RecoveryMayFail)
           /\ journal[r].phase # "none"
           /\ \A q \in Run \ {r} : /\ run'[q] = run[q] /\ plan'[q] = plan[q]
                                   /\ journal'[q] = journal[q]
           /\ run'[r].ws = run[r].ws /\ run'[r].stream = run[r].stream
           /\ run[r].status = "running" => run'[r].status = "recovery_required"
           /\ run[r].status # "running" => run'[r] = run[r]
           /\ plan'[r].phase = "recovery_required" /\ plan'[r].base = plan[r].base
           /\ journal'[r].phase = "recovery_required"
           /\ journal'[r].base = journal[r].base /\ journal'[r].commit = journal[r].commit
           /\ repoHealth' = "recovery_required"
           /\ op' = NoOp /\ op'.kind = "idle" /\ todo' = todo \ {r}
           /\ UNCHANGED <<workstream, unbound, repoHead, log, dirty, boot, live, acked,
                          crashes>>
<1>1. /\ op.kind = "bound" /\ op.run = r
      /\ \/ Stuck(r) /\ faults' = faults
         \/ /\ faults' = faults + 1
            /\ op.step \in FaultPoints /\ (op.caller \/ RecoveryMayFail)
      /\ MarkRecovery(r)
      /\ plan' = [plan EXCEPT ![r].phase = "recovery_required"]
      /\ journal' = [journal EXCEPT ![r].phase = "recovery_required"]
      /\ repoHealth' = "recovery_required"
      /\ op' = NoOp /\ todo' = todo \ {r}
      /\ UNCHANGED <<workstream, unbound, repoHead, log, dirty, boot, live, acked,
             crashes>>
  BY DEF BoundError, Fault, SetPhase, Finish, git
<1>2. /\ \A q \in Run \ {r} : plan'[q] = plan[q] /\ journal'[q] = journal[q]
      /\ plan'[r].phase = "recovery_required" /\ plan'[r].base = plan[r].base
      /\ journal'[r].phase = "recovery_required"
      /\ journal'[r].base = journal[r].base /\ journal'[r].commit = journal[r].commit
  BY <1>1 DEF IInv, Typing, TypeOK, PlanRow, JournalRow
<1>3. /\ \A q \in Run \ {r} : run'[q] = run[q]
      /\ run'[r].ws = run[r].ws /\ run'[r].stream = run[r].stream
      /\ run[r].status = "running" => run'[r].status = "recovery_required"
      /\ run[r].status # "running" => run'[r] = run[r]
  BY <1>1, MarkRows DEF IInv, Typing
<1>4. journal[r].phase # "none" /\ op'.kind = "idle"
  BY <1>1 DEF NoOp, IInv, Typing, OperationInv
<1> QED BY <1>1, <1>2, <1>3, <1>4

\* An unbound finalization ends: the run is closed unless it was before.
LEMMA CompleteRows ==
    ASSUME IInv, NEW r \in Run, CompleteUnbound(r)
    PROVE  /\ op.kind = "unbound" /\ op.run = r /\ op.step = "journal"
           /\ unbound[r].phase # "none" /\ ~Bound(r)
           /\ op'.kind = "unbound" /\ op'.run = r /\ op'.step = "receipt"
           /\ \A q \in Run \ {r} : run'[q] = run[q] /\ unbound'[q] = unbound[q]
           /\ run'[r].ws = run[r].ws /\ run'[r].stream = run[r].stream
           /\ run'[r].status \in Outcome
           /\ run[r].status \in Outcome => run'[r] = run[r]
           /\ unbound'[r].phase = "completed"
           /\ UNCHANGED <<workstream, plan, journal, repoHead, repoHealth, log, dirty,
                          boot, todo, live, acked, crashes, faults>>
<1>1. /\ op.kind = "unbound" /\ op.run = r /\ op.step = "journal"
      /\ op' = [op EXCEPT !.step = "receipt"]
      /\ run' = [run EXCEPT ![r].status =
                   IF run[r].status \in Blocking THEN unbound[r].outcome
                                                 ELSE run[r].status]
      /\ unbound' = [unbound EXCEPT ![r].phase = "completed"]
      /\ UNCHANGED <<workstream, plan, journal, repoHead, repoHealth, log, dirty,
                     boot, todo, live, acked, crashes, faults>>
  BY DEF CompleteUnbound, At, SetStatus, SetUnbound, git
<1>2. unbound[r].phase # "none" /\ ~Bound(r)
  BY <1>1 DEF IInv, Typing, OperationInv, LifeInv, Life, Bound
<1>3. /\ \A q \in Run \ {r} : run'[q] = run[q] /\ unbound'[q] = unbound[q]
      /\ unbound'[r].phase = "completed"
      /\ run'[r].ws = run[r].ws /\ run'[r].stream = run[r].stream
      /\ run'[r].status = IF run[r].status \in Blocking THEN unbound[r].outcome
                                                        ELSE run[r].status
      /\ op'.kind = "unbound" /\ op'.run = r /\ op'.step = "receipt"
  BY <1>1 DEF IInv, Typing, TypeOK, RunRow, UnboundRow
<1>4. run[r].status \in Blocking \cup Outcome /\ unbound[r].outcome \in Outcome
  BY <1>2 DEF IInv, Typing, TypeOK, LifeInv, Life, RunRow, UnboundRow
<1>5. run[r].status \in Outcome => run'[r] = run[r]
  <2>1. Outcome \cap Blocking = {}
    BY DEF Outcome, Blocking
  <2>2. [run[r] EXCEPT !.status = run[r].status] = run[r]
    BY DEF IInv, Typing, TypeOK, RunRow
  <2>3. run[r].status \in Outcome =>
           run' = [run EXCEPT ![r] = [run[r] EXCEPT !.status = run[r].status]]
    BY <1>1, <2>1
  <2> QED BY <2>2, <2>3 DEF IInv, Typing, TypeOK
<1>6. run'[r].status \in Outcome
  BY <1>3, <1>4
<1> QED BY <1>1, <1>2, <1>3, <1>5, <1>6

\* An error of an unbound finalization marks the run and the row.
LEMMA UnboundErrorRows ==
    ASSUME IInv, NEW r \in Run, UnboundError(r)
    PROVE  /\ op.kind = "unbound" /\ op.run = r
           /\ faults' = faults + 1 /\ op.step \in FaultPoints
           /\ op.caller \/ RecoveryMayFail
           /\ unbound[r].phase # "none" /\ ~Bound(r)
           /\ \A q \in Run \ {r} : run'[q] = run[q] /\ unbound'[q] = unbound[q]
           /\ run'[r].ws = run[r].ws /\ run'[r].stream = run[r].stream
           /\ run[r].status = "running" => run'[r].status = "recovery_required"
           /\ run[r].status # "running" => run'[r] = run[r]
           /\ unbound'[r].phase = "recovery_required"
           /\ op' = NoOp /\ op'.kind = "idle" /\ todo' = todo \ {r}
           /\ UNCHANGED <<workstream, plan, journal, repoHead, repoHealth, log, dirty,
                          boot, live, acked, crashes>>
<1>1. /\ op.kind = "unbound" /\ op.run = r
      /\ faults' = faults + 1 /\ op.step \in FaultPoints
      /\ op.caller \/ RecoveryMayFail
      /\ MarkRecovery(r)
      /\ unbound' = [unbound EXCEPT ![r].phase = "recovery_required"]
      /\ op' = NoOp /\ todo' = todo \ {r}
      /\ UNCHANGED <<workstream, plan, journal, repoHead, repoHealth, log, dirty,
                     boot, live, acked, crashes>>
  BY DEF UnboundError, Fault, SetUnbound, Finish, git
<1>2. /\ \A q \in Run \ {r} : unbound'[q] = unbound[q]
      /\ unbound'[r].phase = "recovery_required" /\ op'.kind = "idle"
  BY <1>1 DEF IInv, Typing, TypeOK, UnboundRow, NoOp
<1>3. /\ \A q \in Run \ {r} : run'[q] = run[q]
      /\ run'[r].ws = run[r].ws /\ run'[r].stream = run[r].stream
      /\ run[r].status = "running" => run'[r].status = "recovery_required"
      /\ run[r].status # "running" => run'[r] = run[r]
  BY <1>1, MarkRows DEF IInv, Typing
<1>4. unbound[r].phase # "none" /\ ~Bound(r)
  BY <1>1 DEF IInv, Typing, OperationInv, LifeInv, Life, Bound
<1> QED BY <1>1, <1>2, <1>3, <1>4

\* A journaled run keeps its plan open until the journal is completed.
LEMMA OpenPlan ==
    ASSUME IInv, PlanInv, NEW r \in Run, journal[r].phase \notin {"none", "completed"}
    PROVE  PlanOpen(r) /\ Bound(r) /\ run[r].ws \in Workstreams
<1>1. run[r].ws \in Workstreams /\ Bound(r)
  BY RunAssumption DEF IInv, Typing, JournaledIsBound, Bound
<1>2. plan[r].phase \notin {"none", "discarded", "committed"}
  BY <1>1 DEF PlanInv, PlanOf
<1> QED BY <1>1, <1>2 DEF PlanOpen, IInv, Typing, TypeOK, PlanRow

\* A preparation is one, whatever its outcome and flags.
LEMMA PreparingFor ==
    ASSUME NEW r \in Run, NEW o \in Outcome, NEW e \in BOOLEAN, NEW c \in BOOLEAN,
           Prepare(r, o, e, c)
    PROVE  Preparing(r)
BY DEF Preparing

\* Recovery discards the route of an interrupted run, or prepares its end.
LEMMA InterruptedSteps ==
    ASSUME NEW r \in Run, RecoverInterrupted(r)
    PROVE  Discarding(r) \/ Preparing(r)
BY DEF RecoverInterrupted, Discarding, Preparing, Outcome

-----------------------------------------------------------------------------
\* Every step keeps workstreams locked by at most one open plan.
LEMMA LockStep ==
    ASSUME IInv, IInv', PlansInv, [Next]_vars
    PROVE  LockInv'
<1> USE DEF IInv, Typing, PlansInv
<1>1. ASSUME NEW s \in Streams, StartRun(s) PROVE LockInv'
  BY <1>1 DEF StartRun, Serving, Idle, LockInv, OnePlan, ReceiptInv, ListInv, PlanOpen
<1>2. ASSUME NEW r \in Run, NEW w \in Workstreams, CreateWorkstream(r, w) PROVE LockInv'
  BY <1>2 DEF CreateWorkstream, Client, Serving, Begin, LockInv, OnePlan, ReceiptInv,
     ListInv, PlanOpen
<1>3. ASSUME NEW r \in Run, NEW w \in Workstreams, NEW c \in BOOLEAN,
             ActivateWorkstream(r, w, c)
      PROVE LockInv'
  <2>1. Routing(r, w) /\ op' = op /\ op.kind = "idle" /\ boot = "ready"
    BY <1>3 DEF ActivateWorkstream, Routing, Client, Serving, Idle
  <2>2. ~Locked(w) /\ boot' = "ready" /\ op'.kind = "idle"
    BY <2>1, RouteRows DEF Routable
  <2>3. /\ run'[r].ws = w
        /\ \A q \in Run \ {r} : run'[q].ws = run[q].ws /\ plan'[q].phase = plan[q].phase
    BY <2>1, RouteRows
  <2> QED BY <2>2, <2>3 DEF LockInv, OnePlan, ReceiptInv, ListInv, PlanOpen, Locked
<1>4. ASSUME NEW r \in Run, AdmitResources(r) PROVE LockInv'
  BY <1>4 DEF AdmitResources, proc, LockInv, OnePlan, ReceiptInv, ListInv, PlanOpen
<1>5. ASSUME NEW r \in Run, NEW o \in Outcome, FinalizeUnbound(r, o) PROVE LockInv'
  BY <1>5 DEF FinalizeUnbound, Client, Serving, Begin, LockInv, OnePlan, ReceiptInv,
     ListInv, PlanOpen
<1>6. ASSUME NEW r \in Run, NEW o \in Outcome, FinalizeDiscard(r, o) PROVE LockInv'
  <2>1. Discarding(r) /\ boot = "ready"
    BY <1>6 DEF FinalizeDiscard, Discarding, Client, Serving
  <2>2. /\ boot' = "ready" /\ op'.kind = "unbound" /\ plan'[r].phase = "none"
        /\ \A q \in Run \ {r} : run'[q] = run[q] /\ plan'[q] = plan[q]
    BY <2>1, DiscardRows
  <2> QED BY <2>2 DEF LockInv, OnePlan, ReceiptInv, ListInv, PlanOpen
<1>7. ASSUME NEW r \in Run, NEW o \in Outcome, NEW c \in BOOLEAN,
             FinalizeBound(r, o, c)
      PROVE LockInv'
  <2>1. Preparing(r) /\ boot = "ready"
    BY <1>7, PreparingFor DEF FinalizeBound, Client, Serving
  <2>2. /\ boot' = "ready" /\ op'.kind = "bound" /\ op'.run = r /\ op'.step = "journal"
        /\ UNCHANGED <<run, plan>> /\ journal'[r].phase = "prepared"
    BY <2>1, PrepareRows
  <2> QED BY <2>2 DEF LockInv, OnePlan, ReceiptInv, ListInv, PlanOpen
<1>8. ASSUME NEW r \in Run, RefuseBound(r) PROVE LockInv'
  BY <1>8 DEF RefuseBound, MarkRecovery, SetStatus, proc, TypeOK, RunRow, Client,
     Serving, Idle, LockInv, OnePlan, ReceiptInv, ListInv, PlanOpen
<1>9. ASSUME NEW r \in Run, RetryUnbound(r) PROVE LockInv'
  BY <1>9 DEF RetryUnbound, sqlite, Begin, Serving, LockInv, OnePlan, ReceiptInv,
     ListInv, PlanOpen
<1>10. ASSUME NEW r \in Run, RetryBound(r) PROVE LockInv'
  BY <1>10 DEF RetryBound, sqlite, Begin, Serving, LockInv, OnePlan, ReceiptInv,
     ListInv, PlanOpen
<1>11. ASSUME NEW r \in Run, RouteCreated(r) PROVE LockInv'
  <2>1. op.ws \in Workstreams /\ boot = "ready" /\ op'.kind = "idle"
    BY <1>11 DEF RouteCreated, At, OperationInv, NoOp
  <2>2. PICK w \in Workstreams : op.ws = w
    BY <2>1
  <2>3. Routing(r, w)
    BY <1>11, <2>2 DEF RouteCreated, Routing
  <2>4. ~Locked(w) /\ boot' = "ready"
    BY <2>1, <2>3, RouteRows DEF Routable
  <2>5. /\ run'[r].ws = w
        /\ \A q \in Run \ {r} : run'[q].ws = run[q].ws /\ plan'[q].phase = plan[q].phase
    BY <2>3, RouteRows
  <2> QED BY <2>1, <2>4, <2>5 DEF LockInv, OnePlan, ReceiptInv, ListInv, PlanOpen, Locked
<1>12. ASSUME NEW r \in Run, RouteRefused(r) PROVE LockInv'
  BY <1>12 DEF RouteRefused, sqlite, NoOp, At, LockInv, OnePlan, ReceiptInv, ListInv,
     PlanOpen
<1>13. ASSUME NEW r \in Run, CompleteUnbound(r) PROVE LockInv'
  BY <1>13, CompleteRows DEF LockInv, OnePlan, ReceiptInv, ListInv, PlanOpen
<1>14. ASSUME NEW r \in Run, UnboundError(r) PROVE LockInv'
  BY <1>14, UnboundErrorRows DEF LockInv, OnePlan, ReceiptInv, ListInv, PlanOpen
<1>15. ASSUME NEW r \in Run, Receipt(r) PROVE LockInv'
  BY <1>15 DEF Receipt, sqlite, Finish, NoOp, LockInv, OnePlan, ReceiptInv, ListInv,
     PlanOpen
<1>16. ASSUME NEW r \in Run, Reexamine(r) PROVE LockInv'
  <2>1. /\ UNCHANGED <<run, plan, op, boot, todo>>
        /\ \A q \in Run : journal'[q].phase = "completed"
               <=> journal[q].phase = "completed"
    BY <1>16, ReexamineRows
  <2>2. OnePlan'
    BY <2>1 DEF LockInv, OnePlan, PlanOpen
  <2>3. ReceiptInv'
    BY <2>1 DEF LockInv, ReceiptInv, PlanOpen, OperationInv
  <2>4. ListInv'
    BY <2>1 DEF LockInv, ListInv, TypeOK
  <2> QED BY <2>2, <2>3, <2>4 DEF LockInv
<1>17. ASSUME NEW r \in Run, RecordEffects(r) PROVE LockInv'
  BY <1>17 DEF RecordEffects, proc, At, SetPhase, TypeOK, LockInv, OnePlan, ReceiptInv,
     ListInv, PlanOpen
<1>18. ASSUME NEW r \in Run, WriteContext(r) PROVE LockInv'
  BY <1>18 DEF WriteContext, sqlite, At, Step, TypeOK, LockInv, OnePlan, ReceiptInv,
     ListInv, PlanOpen
<1>19. ASSUME NEW r \in Run, GitCommit(r) PROVE LockInv'
  BY <1>19 DEF GitCommit, sqlite, At, Step, TypeOK, LockInv, OnePlan, ReceiptInv,
     ListInv, PlanOpen
<1>20. ASSUME NEW r \in Run, RecogniseCommit(r) PROVE LockInv'
  BY <1>20 DEF RecogniseCommit, sqlite, At, Step, TypeOK, LockInv, OnePlan, ReceiptInv,
     ListInv, PlanOpen
<1>21. ASSUME NEW r \in Run, RecordCommit(r) PROVE LockInv'
  BY <1>21 DEF RecordCommit, At, Step, TypeOK, LockInv, OnePlan, ReceiptInv, ListInv,
     PlanOpen
<1>22. ASSUME NEW r \in Run, Acknowledge(r) PROVE LockInv'
  <2>1. PlanOpen(r)
    <3>1. journal[r].phase = "context_committed"
      BY <1>22, AcknowledgeRows
    <3> QED BY <3>1, OpenPlan
  <2>2. /\ op'.kind = "bound" /\ op'.run = r /\ op'.step = "receipt"
        /\ op.kind = "bound" /\ op.run = r
        /\ plan'[r].phase = "committed" /\ journal'[r].phase = "completed"
        /\ \A q \in Run \ {r} : plan'[q] = plan[q] /\ journal'[q] = journal[q]
        /\ \A q \in Run : run'[q].ws = run[q].ws
        /\ UNCHANGED <<boot, todo>>
    BY <1>22, AcknowledgeRows
  <2>4. OnePlan'
    BY <2>1, <2>2 DEF LockInv, OnePlan, ReceiptInv, PlanOpen
  <2>5. ReceiptInv'
    BY <2>1, <2>2 DEF LockInv, OnePlan, ReceiptInv, PlanOpen
  <2>6. ListInv'
    BY <2>1, <2>2 DEF LockInv, ListInv, TypeOK
  <2> QED BY <2>4, <2>5, <2>6 DEF LockInv
<1>23. ASSUME NEW r \in Run, BoundError(r) PROVE LockInv'
  <2>1. /\ op.kind = "bound" /\ op.run = r /\ op'.kind = "idle"
        /\ journal[r].phase # "none"
        /\ plan'[r].phase = "recovery_required" /\ journal'[r].phase = "recovery_required"
        /\ \A q \in Run \ {r} : plan'[q] = plan[q] /\ journal'[q] = journal[q]
        /\ \A q \in Run : run'[q].ws = run[q].ws
        /\ boot' = boot /\ todo' = todo \ {r}
    BY <1>23, BoundErrorRows
  <2>2. PlanOpen(r) \/ plan[r].phase = "committed"
    BY <2>1, OpenPlan DEF PlanInv, PlanOf
  <2>3. plan[r].phase = "committed" => op.step = "receipt"
    BY <2>1 DEF PlanInv, PlanOf, LockInv, ReceiptInv
  <2>4. OnePlan'
    BY <2>1, <2>2, <2>3 DEF LockInv, OnePlan, ReceiptInv, PlanOpen
  <2>5. ReceiptInv'
    BY <2>1, <2>2, <2>3 DEF LockInv, OnePlan, ReceiptInv, PlanOpen
  <2>6. ListInv'
    BY <2>1, <2>2, <2>3 DEF LockInv, ListInv, TypeOK
  <2> QED BY <2>4, <2>5, <2>6 DEF LockInv
<1>24. ASSUME NEW r \in Run, RecoverUnbound(r) PROVE LockInv'
  BY <1>24 DEF RecoverUnbound, sqlite, Begin, Recovering, LockInv, OnePlan, ReceiptInv,
     ListInv, PlanOpen
<1>25. ASSUME NEW r \in Run, RecoverBound(r) PROVE LockInv'
  BY <1>25 DEF RecoverBound, sqlite, Begin, Recovering, Idle, LockInv, OnePlan,
     ReceiptInv, ListInv, PlanOpen
<1>26. ASSUME NEW r \in Run, RecoverInterrupted(r) PROVE LockInv'
  <2>1. boot = "interrupted"
    BY <1>26 DEF RecoverInterrupted, Recovering
  <2>2. CASE Discarding(r)
    <3>1. /\ boot' = boot /\ op'.kind = "unbound" /\ plan'[r].phase = "none"
          /\ \A q \in Run \ {r} : run'[q] = run[q] /\ plan'[q] = plan[q]
      BY <2>2, DiscardRows
    <3> QED BY <2>1, <3>1 DEF LockInv, OnePlan, ReceiptInv, ListInv, PlanOpen
  <2>3. CASE Preparing(r)
    <3>1. /\ boot' = boot /\ op'.kind = "bound" /\ op'.run = r /\ op'.step = "journal"
          /\ UNCHANGED <<run, plan>> /\ journal'[r].phase = "prepared"
      BY <2>3, PrepareRows
    <3> QED BY <2>1, <3>1 DEF LockInv, OnePlan, ReceiptInv, ListInv, PlanOpen
  <2> QED BY <1>26, <2>2, <2>3, InterruptedSteps
<1>27. ASSUME NEW r \in Run, SkipInterrupted(r) PROVE LockInv'
  BY <1>27, SkipRows DEF LockInv, OnePlan, ReceiptInv, ListInv, PlanOpen
<1>28. ASSUME NEW r \in Run, Sweep(r) PROVE LockInv'
  <2>1. op.kind = "idle" /\ boot = "sweep"
    BY <1>28 DEF Sweep, Recovering, Idle
  <2> QED BY <1>28, <2>1, SweepRows DEF LockInv, OnePlan, ReceiptInv, ListInv, PlanOpen
<1>29. ASSUME Boot PROVE LockInv'
  BY <1>29 DEF Boot, OpenUnbound, LockInv, OnePlan, ReceiptInv, ListInv, PlanOpen
<1>30. ASSUME NextStage PROVE LockInv'
  BY <1>30 DEF NextStage, sqlite, Idle, OpenJournals, LockInv, OnePlan, ReceiptInv,
     ListInv, PlanOpen
<1>31. ASSUME Crash PROVE LockInv'
  BY <1>31 DEF Crash, sqlite, NoOp, LockInv, OnePlan, ReceiptInv, ListInv, PlanOpen
<1>32. ASSUME UNCHANGED vars PROVE LockInv'
  BY <1>32 DEF vars, LockInv, OnePlan, ReceiptInv, ListInv, PlanOpen
<1> QED BY <1>1, <1>2, <1>3, <1>4, <1>5, <1>6, <1>7, <1>8, <1>9, <1>10, <1>11, <1>12,
           <1>13, <1>14, <1>15, <1>16, <1>17, <1>18, <1>19, <1>20, <1>21, <1>22, <1>23,
           <1>24, <1>25, <1>26, <1>27, <1>28, <1>29, <1>30, <1>31, <1>32
           DEF Next, Request, Continue, Recover

-----------------------------------------------------------------------------
(* Runs across a step.                                                     *)

\* A run that was open before the step, or the only open run of its stream.
OpenedWell(q) ==
    \/ run[q].status \in Blocking /\ run'[q].stream = run[q].stream
    \/ /\ run'[q].stream \in Streams
       /\ \A p \in Run \ {q} : /\ run'[p] = run[p]
                               /\ run[p].stream = run'[q].stream =>
                                     run[p].status \notin Blocking

\* What a step may not do to a run.
RunKept(q) ==
    /\ run[q].status \in Outcome => run'[q] = run[q]
    /\ Bound(q) => \/ run'[q].ws = run[q].ws
                   \/ workstream'[run[q].ws].status = "absent"
    /\ run'[q].status \in Blocking => OpenedWell(q)

\* RunKept of every run.
RunsKept == \A q \in Run : RunKept(q)

\* A step that writes at most one run, and opens none.
LEMMA KeptFrame ==
    ASSUME NEW r \in Run, \A q \in Run \ {r} : run'[q] = run[q],
           run'[r].ws = run[r].ws, run'[r].stream = run[r].stream,
           run[r].status \in Outcome => run'[r] = run[r],
           run'[r].status \in Blocking => run[r].status \in Blocking
    PROVE  RunsKept
BY DEF RunsKept, RunKept, OpenedWell, Bound

\* A step that writes no run.
LEMMA KeptSame == run' = run => RunsKept
BY DEF RunsKept, RunKept, OpenedWell, Bound

\* A discard unbinds one run together with its workstream.
LEMMA DiscardKept ==
    ASSUME IInv, PlansInv, NEW r \in Run, Discarding(r)
    PROVE  RunsKept
<1>1. /\ run[r].status = "running" /\ run'[r].status = run[r].status
      /\ run'[r].stream = run[r].stream
      /\ workstream'[run[r].ws] = NoWorkstreamRow
      /\ \A q \in Run \ {r} : run'[q] = run[q]
  BY DiscardRows DEF PlansInv
<1>2. RunKept(r)
  BY <1>1 DEF RunKept, OpenedWell, NoWorkstreamRow, Outcome
<1>3. ASSUME NEW q \in Run \ {r} PROVE RunKept(q)
  BY <1>1 DEF RunKept, OpenedWell
<1> QED BY <1>2, <1>3 DEF RunsKept

\* Every step keeps finished runs and bindings, and opens no second run.
LEMMA KeptStep ==
    ASSUME IInv, PlansInv, [Next]_vars
    PROVE  RunsKept
<1> USE DEF IInv, Typing, PlansInv
<1>1. ASSUME NEW s \in Streams, StartRun(s) PROVE RunsKept
  <2>1. PICK r \in Run :
          /\ run[r].status = "none"
          /\ run' = [run EXCEPT ![r] = [run[r] EXCEPT !.status = "running", !.stream = s]]
    BY <1>1 DEF StartRun
  <2>2. /\ run'[r].ws = run[r].ws /\ run'[r].stream = s
        /\ \A q \in Run \ {r} : run'[q] = run[q]
    BY <2>1 DEF TypeOK, RunRow
  <2>3. \A q \in Run : run[q].stream = s => run[q].status \notin Blocking
    BY <1>1 DEF StartRun
  <2>4. OpenedWell(r)
    BY <2>2, <2>3 DEF OpenedWell
  <2>5. RunKept(r)
    BY <2>1, <2>2, <2>4 DEF RunKept, Outcome
  <2>6. ASSUME NEW q \in Run \ {r} PROVE RunKept(q)
    BY <2>2 DEF RunKept, OpenedWell
  <2> QED BY <2>5, <2>6 DEF RunsKept
<1>2. ASSUME NEW r \in Run, NEW w \in Workstreams, CreateWorkstream(r, w) PROVE RunsKept
  BY <1>2, KeptSame DEF CreateWorkstream
<1>3. ASSUME NEW r \in Run, NEW w \in Workstreams, NEW c \in BOOLEAN,
             ActivateWorkstream(r, w, c)
      PROVE RunsKept
  <2>1. Routing(r, w) /\ run[r].status = "running" /\ ~Bound(r)
    BY <1>3 DEF ActivateWorkstream, Routing, Client
  <2>2. /\ run'[r].status = run[r].status /\ run'[r].stream = run[r].stream
        /\ \A q \in Run \ {r} : run'[q] = run[q]
    BY <2>1, RouteRows
  <2>3. RunKept(r)
    BY <2>1, <2>2 DEF RunKept, OpenedWell, Outcome
  <2>4. ASSUME NEW q \in Run \ {r} PROVE RunKept(q)
    BY <2>2 DEF RunKept, OpenedWell
  <2> QED BY <2>3, <2>4 DEF RunsKept
<1>4. ASSUME NEW r \in Run, AdmitResources(r) PROVE RunsKept
  BY <1>4, KeptSame DEF AdmitResources
<1>5. ASSUME NEW r \in Run, NEW o \in Outcome, FinalizeUnbound(r, o) PROVE RunsKept
  BY <1>5, KeptSame DEF FinalizeUnbound
<1>6. ASSUME NEW r \in Run, NEW o \in Outcome, FinalizeDiscard(r, o) PROVE RunsKept
  <2>1. Discarding(r)
    BY <1>6 DEF FinalizeDiscard, Discarding
  <2> QED BY <2>1, DiscardKept
<1>7. ASSUME NEW r \in Run, NEW o \in Outcome, NEW c \in BOOLEAN,
             FinalizeBound(r, o, c)
      PROVE RunsKept
  BY <1>7, KeptSame DEF FinalizeBound, Prepare
<1>8. ASSUME NEW r \in Run, RefuseBound(r) PROVE RunsKept
  <2>1. MarkRecovery(r)
    BY <1>8 DEF RefuseBound
  <2> QED BY <2>1, MarkRows, KeptFrame DEF Blocking, Outcome
<1>9. ASSUME NEW r \in Run, RetryUnbound(r) PROVE RunsKept
  BY <1>9, KeptSame DEF RetryUnbound, sqlite
<1>10. ASSUME NEW r \in Run, RetryBound(r) PROVE RunsKept
  BY <1>10, KeptSame DEF RetryBound, sqlite
<1>11. ASSUME NEW r \in Run, RouteCreated(r) PROVE RunsKept
  <2>1. PICK w \in Workstreams : op.ws = w
    BY <1>11 DEF RouteCreated, At, OperationInv
  <2>2. Routing(r, w) /\ run[r].status = "running" /\ ~Bound(r)
    BY <1>11, <2>1 DEF RouteCreated, Routing, At, OperationInv, WorkstreamInv
  <2>3. /\ run'[r].status = run[r].status /\ run'[r].stream = run[r].stream
        /\ \A q \in Run \ {r} : run'[q] = run[q]
    BY <2>2, RouteRows
  <2>4. RunKept(r)
    BY <2>2, <2>3 DEF RunKept, OpenedWell, Outcome
  <2>5. ASSUME NEW q \in Run \ {r} PROVE RunKept(q)
    BY <2>3 DEF RunKept, OpenedWell
  <2> QED BY <2>4, <2>5 DEF RunsKept
<1>12. ASSUME NEW r \in Run, RouteRefused(r) PROVE RunsKept
  BY <1>12, KeptSame DEF RouteRefused, sqlite
<1>13. ASSUME NEW r \in Run, CompleteUnbound(r) PROVE RunsKept
  BY <1>13, CompleteRows, KeptFrame DEF Blocking, Outcome
<1>14. ASSUME NEW r \in Run, UnboundError(r) PROVE RunsKept
  BY <1>14, UnboundErrorRows, KeptFrame DEF Blocking, Outcome
<1>15. ASSUME NEW r \in Run, Receipt(r) PROVE RunsKept
  BY <1>15, KeptSame DEF Receipt, sqlite
<1>16. ASSUME NEW r \in Run, Reexamine(r) PROVE RunsKept
  BY <1>16, KeptSame DEF Reexamine
<1>17. ASSUME NEW r \in Run, RecordEffects(r) PROVE RunsKept
  BY <1>17, KeptSame DEF RecordEffects
<1>18. ASSUME NEW r \in Run, WriteContext(r) PROVE RunsKept
  BY <1>18, KeptSame DEF WriteContext, sqlite
<1>19. ASSUME NEW r \in Run, GitCommit(r) PROVE RunsKept
  BY <1>19, KeptSame DEF GitCommit, sqlite
<1>20. ASSUME NEW r \in Run, RecogniseCommit(r) PROVE RunsKept
  BY <1>20, KeptSame DEF RecogniseCommit, sqlite
<1>21. ASSUME NEW r \in Run, RecordCommit(r) PROVE RunsKept
  BY <1>21, KeptSame DEF RecordCommit
<1>22. ASSUME NEW r \in Run, Acknowledge(r) PROVE RunsKept
  BY <1>22, AcknowledgeRows, KeptFrame DEF Blocking, Outcome
<1>23. ASSUME NEW r \in Run, BoundError(r) PROVE RunsKept
  BY <1>23, BoundErrorRows, KeptFrame DEF Blocking, Outcome
<1>24. ASSUME NEW r \in Run, RecoverUnbound(r) PROVE RunsKept
  BY <1>24, KeptSame DEF RecoverUnbound, sqlite
<1>25. ASSUME NEW r \in Run, RecoverBound(r) PROVE RunsKept
  BY <1>25, KeptSame DEF RecoverBound, sqlite
<1>26. ASSUME NEW r \in Run, RecoverInterrupted(r) PROVE RunsKept
  <2>1. CASE Preparing(r)
    <3>1. run' = run
      BY <2>1, PrepareRows
    <3> QED BY <3>1, KeptSame
  <2> QED BY <1>26, <2>1, InterruptedSteps, DiscardKept
<1>27. ASSUME NEW r \in Run, SkipInterrupted(r) PROVE RunsKept
  BY <1>27, SkipRows, KeptFrame DEF Interrupted, Blocking, Outcome
<1>28. ASSUME NEW r \in Run, Sweep(r) PROVE RunsKept
  <2>1. run[r].status \in Blocking
    BY <1>28 DEF Sweep, Recovering, LifeInv, Life
  <2> QED BY <1>28, <2>1, SweepRows, KeptFrame DEF Blocking, Outcome
<1>29. ASSUME Boot PROVE RunsKept
  BY <1>29, KeptSame DEF Boot
<1>30. ASSUME NextStage PROVE RunsKept
  BY <1>30, KeptSame DEF NextStage, sqlite
<1>31. ASSUME Crash PROVE RunsKept
  BY <1>31, KeptSame DEF Crash, sqlite
<1>32. ASSUME UNCHANGED vars PROVE RunsKept
  BY <1>32, KeptSame DEF vars
<1> QED BY <1>1, <1>2, <1>3, <1>4, <1>5, <1>6, <1>7, <1>8, <1>9, <1>10, <1>11, <1>12,
           <1>13, <1>14, <1>15, <1>16, <1>17, <1>18, <1>19, <1>20, <1>21, <1>22, <1>23,
           <1>24, <1>25, <1>26, <1>27, <1>28, <1>29, <1>30, <1>31, <1>32
           DEF Next, Request, Continue, Recover

\* Every step leaves at most one open run to a stream.
LEMMA OpenRunStep ==
    ASSUME OneOpenRun, RunsKept
    PROVE  OneOpenRun'
<1> SUFFICES ASSUME NEW r \in Run, NEW q \in Run,
                    run'[r].status \in Blocking, run'[q].status \in Blocking,
                    run'[r].stream = run'[q].stream, r # q
             PROVE  FALSE
  BY DEF OneOpenRun
<1>1. OpenedWell(r) /\ OpenedWell(q)
  BY DEF RunsKept, RunKept
<1>2. CASE /\ run[r].status \in Blocking /\ run'[r].stream = run[r].stream
           /\ run[q].status \in Blocking /\ run'[q].stream = run[q].stream
  BY <1>2 DEF OneOpenRun
<1> QED BY <1>1, <1>2 DEF OpenedWell

-----------------------------------------------------------------------------
(* What moves the heads, the stage of the process and the fault count.     *)

\* Only a commit moves Git's head, only an acknowledgement moves SQLite's, only
\* the end of recovery makes the process ready, and calls fail one at a time.
LEMMA HeadStep ==
    ASSUME [Next]_vars
    PROVE  /\ log' = log \/ \E r \in Run : GitCommit(r)
           /\ repoHead' = repoHead \/ \E r \in Run : Acknowledge(r)
           /\ boot' = "ready" => boot = "ready" \/ NextStage
           /\ faults' = faults \/ faults' = faults + 1
           /\ crashes' = crashes \/ Crash
<1> DEFINE Heads == /\ log' = log \/ \E q \in Run : GitCommit(q)
                    /\ repoHead' = repoHead \/ \E q \in Run : Acknowledge(q)
                    /\ boot' = "ready" => boot = "ready" \/ NextStage
                    /\ faults' = faults \/ faults' = faults + 1
                    /\ crashes' = crashes \/ Crash
<1> SUFFICES Heads
  OBVIOUS
<1>1. ASSUME NEW s \in Streams, StartRun(s) PROVE Heads
  BY <1>1 DEF StartRun, git, sqlite, proc
<1>2. ASSUME NEW r \in Run, NEW w \in Workstreams, CreateWorkstream(r, w) PROVE Heads
  BY <1>2 DEF CreateWorkstream, git, sqlite, proc
<1>3. ASSUME NEW r \in Run, NEW w \in Workstreams, NEW c \in BOOLEAN,
             ActivateWorkstream(r, w, c)
      PROVE Heads
  BY <1>3 DEF ActivateWorkstream, Route, git
<1>4. ASSUME NEW r \in Run, AdmitResources(r) PROVE Heads
  BY <1>4 DEF AdmitResources, git, sqlite, proc
<1>5. ASSUME NEW r \in Run, NEW o \in Outcome, FinalizeUnbound(r, o) PROVE Heads
  BY <1>5 DEF FinalizeUnbound, git, sqlite, proc
<1>6. ASSUME NEW r \in Run, NEW o \in Outcome, FinalizeDiscard(r, o) PROVE Heads
  BY <1>6 DEF FinalizeDiscard, Discard, git
<1>7. ASSUME NEW r \in Run, NEW o \in Outcome, NEW c \in BOOLEAN,
             FinalizeBound(r, o, c)
      PROVE Heads
  BY <1>7 DEF FinalizeBound, Prepare, git
<1>8. ASSUME NEW r \in Run, RefuseBound(r) PROVE Heads
  BY <1>8 DEF RefuseBound, git, sqlite, proc
<1>9. ASSUME NEW r \in Run, RetryUnbound(r) PROVE Heads
  BY <1>9 DEF RetryUnbound, git, sqlite, proc
<1>10. ASSUME NEW r \in Run, RetryBound(r) PROVE Heads
  BY <1>10 DEF RetryBound, git, sqlite, proc
<1>11. ASSUME NEW r \in Run, RouteCreated(r) PROVE Heads
  BY <1>11 DEF RouteCreated, Route, git
<1>12. ASSUME NEW r \in Run, RouteRefused(r) PROVE Heads
  BY <1>12 DEF RouteRefused, git, sqlite, proc
<1>13. ASSUME NEW r \in Run, CompleteUnbound(r) PROVE Heads
  BY <1>13 DEF CompleteUnbound, git, sqlite, proc
<1>14. ASSUME NEW r \in Run, UnboundError(r) PROVE Heads
  BY <1>14 DEF UnboundError, Fault, git
<1>15. ASSUME NEW r \in Run, Receipt(r) PROVE Heads
  BY <1>15 DEF Receipt, git, sqlite, proc
<1>16. ASSUME NEW r \in Run, Reexamine(r) PROVE Heads
  BY <1>16 DEF Reexamine, git, sqlite, proc
<1>17. ASSUME NEW r \in Run, RecordEffects(r) PROVE Heads
  BY <1>17 DEF RecordEffects, git, sqlite, proc
<1>18. ASSUME NEW r \in Run, WriteContext(r) PROVE Heads
  BY <1>18 DEF WriteContext, git, sqlite, proc
<1>19. ASSUME NEW r \in Run, GitCommit(r) PROVE Heads
  BY <1>19 DEF GitCommit, git, sqlite, proc
<1>20. ASSUME NEW r \in Run, RecogniseCommit(r) PROVE Heads
  BY <1>20 DEF RecogniseCommit, git, sqlite, proc
<1>21. ASSUME NEW r \in Run, RecordCommit(r) PROVE Heads
  BY <1>21 DEF RecordCommit, git, sqlite, proc
<1>22. ASSUME NEW r \in Run, Acknowledge(r) PROVE Heads
  BY <1>22 DEF Acknowledge, git, sqlite, proc
<1>23. ASSUME NEW r \in Run, BoundError(r) PROVE Heads
  BY <1>23 DEF BoundError, Fault, git
<1>24. ASSUME NEW r \in Run, RecoverUnbound(r) PROVE Heads
  BY <1>24 DEF RecoverUnbound, git, sqlite, proc
<1>25. ASSUME NEW r \in Run, RecoverBound(r) PROVE Heads
  BY <1>25 DEF RecoverBound, git, sqlite, proc
<1>26. ASSUME NEW r \in Run, RecoverInterrupted(r) PROVE Heads
  BY <1>26 DEF RecoverInterrupted, Discard, Prepare, git
<1>27. ASSUME NEW r \in Run, SkipInterrupted(r) PROVE Heads
  BY <1>27 DEF SkipInterrupted, git, sqlite, proc
<1>28. ASSUME NEW r \in Run, Sweep(r) PROVE Heads
  BY <1>28 DEF Sweep, git, sqlite, proc
<1>29. ASSUME Boot PROVE Heads
  BY <1>29 DEF Boot, git, sqlite, proc
<1>30. ASSUME NextStage PROVE Heads
  BY <1>30 DEF NextStage, git, sqlite, proc
<1>31. ASSUME Crash PROVE Heads
  BY <1>31 DEF Crash, git, sqlite, proc
<1>32. ASSUME UNCHANGED vars PROVE Heads
  BY <1>32 DEF vars, git, sqlite, proc
<1> QED BY <1>1, <1>2, <1>3, <1>4, <1>5, <1>6, <1>7, <1>8, <1>9, <1>10, <1>11, <1>12,
           <1>13, <1>14, <1>15, <1>16, <1>17, <1>18, <1>19, <1>20, <1>21, <1>22, <1>23,
           <1>24, <1>25, <1>26, <1>27, <1>28, <1>29, <1>30, <1>31, <1>32
           DEF Next, Request, Continue, Recover

\* The runs SQLite has acknowledged stay finished.
LEMMA AcknowledgedStep ==
    ASSUME IInv, IInv', PlansInv, RunsKept, [Next]_vars
    PROVE  Acknowledged'
<1>1. /\ repoHead \in Nat /\ Len(log) \in Nat /\ repoHead <= Len(log)
      /\ \A k \in 1..repoHead : log[k].run \in Run /\ run[log[k].run].status \in Outcome
  <2>1. repoHead \in Nat /\ Len(log) \in Nat /\ repoHead <= Len(log)
    BY DEF IInv, Typing, TypeOK, Commit, HistoryInv, SqliteFollowsGit, GitHead
  <2>2. \A k \in 1..repoHead : k \in 1..Len(log)
    BY <2>1
  <2> QED BY <2>1, <2>2, EntriesTyped DEF PlansInv, Acknowledged, IInv, Typing
<1>2. \A k \in 1..repoHead : log[k].run \in Run /\ run'[log[k].run].status \in Outcome
  BY <1>1 DEF RunsKept, RunKept
<1>3. CASE repoHead' = repoHead
  <2>1. \A k \in 1..repoHead : log'[k] = log[k]
    <3>1. CASE log' = log
      BY <3>1
    <3>2. CASE \E r \in Run : GitCommit(r)
      <4>1. PICK e : log' = Append(log, e)
        BY <3>2 DEF GitCommit
      <4>2. log \in Seq(LogEntry)
        BY DEF IInv, Typing, TypeOK
      <4> QED BY <1>1, <4>1, <4>2
    <3> QED BY <3>1, <3>2, HeadStep
  <2> QED BY <1>2, <1>3, <2>1 DEF Acknowledged
<1>4. ASSUME NEW r \in Run, Acknowledge(r) PROVE Acknowledged'
  <2>1. /\ repoHead' = journal[r].commit /\ log' = log /\ run'[r].status \in Outcome
        /\ journal[r].phase = "context_committed" /\ Acknowledgeable(r)
    BY <1>4, AcknowledgeRows
  <2>2. /\ journal[r].commit = journal[r].base + 1 /\ log[journal[r].commit].run = r
        /\ repoHead \in {journal[r].base, journal[r].commit}
        /\ journal[r].base \in Nat
    BY <2>1, JournalsTyped DEF IInv, Typing, HistoryInv, Acknowledgeable
  <2>3. \A k \in 1..repoHead' : k \in 1..repoHead \/ k = journal[r].commit
    BY <1>1, <2>1, <2>2
  <2> QED BY <1>2, <2>1, <2>2, <2>3 DEF Acknowledged
<1> QED BY <1>3, <1>4, HeadStep

-----------------------------------------------------------------------------
(* The last commit of a workstream.                                        *)

\* A commit for another workstream does not move it.
LEMMA PathHeadKept ==
    ASSUME TypeOK, NEW w, NEW e, log' = Append(log, e), e.ws # w
    PROVE  PathHead(w)' = PathHead(w)
<1> DEFINE T == {k \in 1..Len(log) : log[k].ws = w}
<1>1. /\ Len(log) \in Nat /\ Len(log') = Len(log) + 1 /\ log'[Len(log) + 1] = e
      /\ \A k \in 1..Len(log) : log'[k] = log[k]
  BY DEF TypeOK
<1>2. T' = T
  BY <1>1
<1>3. PathHead(w) = IF T = {} THEN 0 ELSE CHOOSE k \in T : \A j \in T : j <= k
  BY DEF PathHead, GitHead
<1>4. PathHead(w)' = IF T' = {} THEN 0 ELSE CHOOSE k \in T' : \A j \in T' : j <= k
  BY DEF PathHead, GitHead
<1> HIDE DEF T
<1> QED BY <1>2, <1>3, <1>4

\* A workstream whose commit is the newest of the repository stands on it.
LEMMA PathHeadNewest ==
    ASSUME TypeOK, NEW w, Len(log) # 0, log[Len(log)].ws = w
    PROVE  PathHead(w) = Len(log)
<1> DEFINE T == {k \in 1..Len(log) : log[k].ws = w}
<1>1. Len(log) \in T /\ \A j \in T : j <= Len(log)
  BY DEF TypeOK
<1>2. PICK m : m = CHOOSE k \in T : \A j \in T : j <= k
  OBVIOUS
<1>3. m \in T /\ \A j \in T : j <= m
  BY <1>1, <1>2
<1>4. m = Len(log)
  BY <1>1, <1>3 DEF TypeOK
<1>5. T # {}
  BY <1>1
<1> QED BY <1>2, <1>4, <1>5 DEF PathHead, GitHead

-----------------------------------------------------------------------------
(* Requests and plans across a step.                                       *)

\* A step that projects no request change, and closes a run only together with
\* the change it left in SQLite.
LEMMA RequestsFrame ==
    ASSUME IInv, RequestsMatchGit,
           \A w \in Workstreams : workstream'[w].ahead \in {workstream[w].ahead, NoRun},
           \A q \in Run : (PlanOpen(q) /\ run[q].status \in Blocking) =>
              \/ run'[q].ws = run[q].ws /\ run'[q].status \in Blocking /\ PlanOpen(q)'
              \/ workstream'[run[q].ws].ahead = NoRun
    PROVE  RequestsMatchGit'
<1> SUFFICES ASSUME NEW w \in Workstreams, NEW q, q = workstream'[w].ahead, q # NoRun
             PROVE  run'[q].ws = w /\ run'[q].status \in Blocking /\ PlanOpen(q)'
  BY DEF RequestsMatchGit, PlanOpen
<1>1. q = workstream[w].ahead /\ q \in Run
  BY DEF IInv, Typing, TypeOK, WorkstreamRow
<1>2. run[q].ws = w /\ run[q].status \in Blocking /\ PlanOpen(q)
  BY <1>1 DEF RequestsMatchGit
<1> QED BY <1>1, <1>2

\* Routing: the change is the run's own, its plan open.
LEMMA RequestsRoute ==
    ASSUME IInv, PlansInv, NEW r \in Run, NEW w \in Workstreams, Routing(r, w),
           run[r].status = "running", ~Bound(r)
    PROVE  RequestsMatchGit'
<1>1. /\ run'[r].ws = w /\ run'[r].status = "running" /\ plan'[r].phase = "planned"
      /\ \A q \in Run \ {r} : run'[q] = run[q] /\ plan'[q] = plan[q]
      /\ workstream'[w].ahead \in {workstream[w].ahead, r}
      /\ \A v \in Workstreams \ {w} : workstream'[v] = workstream[v]
  BY RouteRows
<1> SUFFICES ASSUME NEW v \in Workstreams, NEW q, q = workstream'[v].ahead, q # NoRun
             PROVE  run'[q].ws = v /\ run'[q].status \in Blocking /\ PlanOpen(q)'
  BY DEF RequestsMatchGit, PlanOpen
<1>2. CASE q = workstream[v].ahead
  <2>1. q \in Run
    BY <1>2 DEF IInv, Typing, TypeOK, WorkstreamRow
  <2>2. run[q].ws = v /\ run[q].status \in Blocking /\ PlanOpen(q)
    BY <1>2 DEF PlansInv, RequestsMatchGit
  <2>3. q # r
    BY <2>2, RunAssumption DEF Bound
  <2> QED BY <1>1, <2>1, <2>2, <2>3 DEF PlanOpen
<1>3. CASE q # workstream[v].ahead
  <2>1. v = w /\ q = r
    BY <1>1, <1>3
  <2> QED BY <1>1, <2>1 DEF PlanOpen, Blocking
<1> QED BY <1>2, <1>3

\* Discarding: the change goes with its workstream.
LEMMA RequestsDiscard ==
    ASSUME IInv, PlansInv, NEW r \in Run, Discarding(r)
    PROVE  RequestsMatchGit'
<1>1. /\ workstream'[run[r].ws] = NoWorkstreamRow
      /\ \A w \in Workstreams \ {run[r].ws} : workstream'[w] = workstream[w]
      /\ \A q \in Run \ {r} : run'[q] = run[q] /\ plan'[q] = plan[q]
  BY DiscardRows DEF PlansInv
<1> QED BY <1>1, RequestsFrame DEF PlansInv, PlanOpen, NoWorkstreamRow

\* Every step keeps the requests SQLite shows those of Git.
LEMMA RequestsStep ==
    ASSUME IInv, IInv', PlansInv, [Next]_vars
    PROVE  RequestsMatchGit'
<1> USE DEF IInv, Typing, PlansInv
<1>1. ASSUME NEW s \in Streams, StartRun(s) PROVE RequestsMatchGit'
  <2>1. PICK q \in Run :
          /\ run[q].status = "none"
          /\ run' = [run EXCEPT ![q] = [@ EXCEPT !.status = "running", !.stream = s]]
    BY <1>1 DEF StartRun
  <2>2. \A x \in Run \ {q} : run'[x] = run[x]
    BY <2>1
  <2>3. run[q].status \notin Blocking /\ UNCHANGED <<workstream, plan>>
    BY <1>1, <2>1 DEF StartRun, Blocking
  <2> QED BY <2>2, <2>3, RequestsFrame DEF PlanOpen
<1>2. ASSUME NEW r \in Run, NEW w \in Workstreams, CreateWorkstream(r, w)
      PROVE RequestsMatchGit'
  BY <1>2, RequestsFrame DEF CreateWorkstream, TypeOK, WorkstreamRow, PlanOpen
<1>3. ASSUME NEW r \in Run, NEW w \in Workstreams, NEW c \in BOOLEAN,
             ActivateWorkstream(r, w, c)
      PROVE RequestsMatchGit'
  BY <1>3, RequestsRoute DEF ActivateWorkstream, Routing, Client
<1>4. ASSUME NEW r \in Run, AdmitResources(r) PROVE RequestsMatchGit'
  BY <1>4, RequestsFrame DEF AdmitResources, TypeOK, WorkstreamRow, PlanOpen
<1>5. ASSUME NEW r \in Run, NEW o \in Outcome, FinalizeUnbound(r, o)
      PROVE RequestsMatchGit'
  BY <1>5, RequestsFrame DEF FinalizeUnbound, PlanOpen
<1>6. ASSUME NEW r \in Run, NEW o \in Outcome, FinalizeDiscard(r, o)
      PROVE RequestsMatchGit'
  BY <1>6, RequestsDiscard DEF FinalizeDiscard, Discarding
<1>7. ASSUME NEW r \in Run, NEW o \in Outcome, NEW c \in BOOLEAN,
             FinalizeBound(r, o, c)
      PROVE RequestsMatchGit'
  <2>1. Preparing(r)
    BY <1>7, PreparingFor DEF FinalizeBound
  <2>2. /\ UNCHANGED <<run, plan>>
        /\ \A w \in Workstreams : workstream'[w].ahead = workstream[w].ahead
    BY <2>1, PrepareRows
  <2> QED BY <2>2, RequestsFrame DEF PlanOpen
<1>8. ASSUME NEW r \in Run, RefuseBound(r) PROVE RequestsMatchGit'
  <2>1. MarkRecovery(r) /\ UNCHANGED <<workstream, plan>>
    BY <1>8 DEF RefuseBound
  <2> QED BY <2>1, MarkRows, RequestsFrame DEF PlanOpen, Blocking
<1>9. ASSUME NEW r \in Run, RetryUnbound(r) PROVE RequestsMatchGit'
  BY <1>9, RequestsFrame DEF RetryUnbound, sqlite, PlanOpen
<1>10. ASSUME NEW r \in Run, RetryBound(r) PROVE RequestsMatchGit'
  BY <1>10, RequestsFrame DEF RetryBound, sqlite, PlanOpen
<1>11. ASSUME NEW r \in Run, RouteCreated(r) PROVE RequestsMatchGit'
  <2>1. PICK w \in Workstreams : op.ws = w
    BY <1>11 DEF RouteCreated, At, OperationInv
  <2>2. Routing(r, w) /\ run[r].status = "running" /\ ~Bound(r)
    BY <1>11, <2>1 DEF RouteCreated, Routing, At, OperationInv, WorkstreamInv
  <2> QED BY <2>2, RequestsRoute
<1>12. ASSUME NEW r \in Run, RouteRefused(r) PROVE RequestsMatchGit'
  BY <1>12, RequestsFrame DEF RouteRefused, sqlite, PlanOpen
<1>13. ASSUME NEW r \in Run, CompleteUnbound(r) PROVE RequestsMatchGit'
  <2>1. ~PlanOpen(r)
    BY <1>13, CompleteRows DEF PlanInv, PlanOf, PlanOpen
  <2> QED BY <1>13, <2>1, CompleteRows, RequestsFrame DEF PlanOpen
<1>14. ASSUME NEW r \in Run, UnboundError(r) PROVE RequestsMatchGit'
  BY <1>14, UnboundErrorRows, RequestsFrame DEF PlanOpen, Blocking
<1>15. ASSUME NEW r \in Run, Receipt(r) PROVE RequestsMatchGit'
  BY <1>15, RequestsFrame DEF Receipt, sqlite, PlanOpen
<1>16. ASSUME NEW r \in Run, Reexamine(r) PROVE RequestsMatchGit'
  BY <1>16, ReexamineRows, RequestsFrame DEF PlanOpen
<1>17. ASSUME NEW r \in Run, RecordEffects(r) PROVE RequestsMatchGit'
  BY <1>17, RequestsFrame DEF RecordEffects, PlanOpen
<1>18. ASSUME NEW r \in Run, WriteContext(r) PROVE RequestsMatchGit'
  BY <1>18, RequestsFrame DEF WriteContext, sqlite, PlanOpen
<1>19. ASSUME NEW r \in Run, GitCommit(r) PROVE RequestsMatchGit'
  BY <1>19, RequestsFrame DEF GitCommit, sqlite, PlanOpen
<1>20. ASSUME NEW r \in Run, RecogniseCommit(r) PROVE RequestsMatchGit'
  BY <1>20, RequestsFrame DEF RecogniseCommit, sqlite, PlanOpen
<1>21. ASSUME NEW r \in Run, RecordCommit(r) PROVE RequestsMatchGit'
  BY <1>21, RequestsFrame DEF RecordCommit, PlanOpen
<1>22. ASSUME NEW r \in Run, Acknowledge(r) PROVE RequestsMatchGit'
  BY <1>22, AcknowledgeRows, RequestsFrame DEF PlanOpen
<1>23. ASSUME NEW r \in Run, BoundError(r) PROVE RequestsMatchGit'
  BY <1>23, BoundErrorRows, RequestsFrame DEF PlanOpen, Blocking
<1>24. ASSUME NEW r \in Run, RecoverUnbound(r) PROVE RequestsMatchGit'
  BY <1>24, RequestsFrame DEF RecoverUnbound, sqlite, PlanOpen
<1>25. ASSUME NEW r \in Run, RecoverBound(r) PROVE RequestsMatchGit'
  BY <1>25, RequestsFrame DEF RecoverBound, sqlite, PlanOpen
<1>26. ASSUME NEW r \in Run, RecoverInterrupted(r) PROVE RequestsMatchGit'
  <2>1. CASE Preparing(r)
    <3>1. /\ UNCHANGED <<run, plan>>
          /\ \A w \in Workstreams : workstream'[w].ahead = workstream[w].ahead
      BY <2>1, PrepareRows
    <3> QED BY <3>1, RequestsFrame DEF PlanOpen
  <2> QED BY <1>26, <2>1, InterruptedSteps, RequestsDiscard
<1>27. ASSUME NEW r \in Run, SkipInterrupted(r) PROVE RequestsMatchGit'
  BY <1>27, SkipRows, RequestsFrame DEF PlanOpen, Blocking
<1>28. ASSUME NEW r \in Run, Sweep(r) PROVE RequestsMatchGit'
  <2>1. Bound(r) => run'[r].status \in Blocking
    BY <1>28, SweepRows DEF Blocking
  <2>2. PlanOpen(r) => Bound(r)
    BY DEF PlanInv, PlanOf, PlanOpen
  <2> QED BY <1>28, <2>1, <2>2, SweepRows, RequestsFrame DEF PlanOpen
<1>29. ASSUME Boot PROVE RequestsMatchGit'
  BY <1>29, RequestsFrame DEF Boot, NoWorkstreamRow, PlanOpen
<1>30. ASSUME NextStage PROVE RequestsMatchGit'
  BY <1>30, RequestsFrame DEF NextStage, sqlite, PlanOpen
<1>31. ASSUME Crash PROVE RequestsMatchGit'
  BY <1>31, RequestsFrame DEF Crash, sqlite, PlanOpen
<1>32. ASSUME UNCHANGED vars PROVE RequestsMatchGit'
  BY <1>32, RequestsFrame DEF vars, PlanOpen
<1> QED BY <1>1, <1>2, <1>3, <1>4, <1>5, <1>6, <1>7, <1>8, <1>9, <1>10, <1>11, <1>12,
           <1>13, <1>14, <1>15, <1>16, <1>17, <1>18, <1>19, <1>20, <1>21, <1>22, <1>23,
           <1>24, <1>25, <1>26, <1>27, <1>28, <1>29, <1>30, <1>31, <1>32
           DEF Next, Request, Continue, Recover

\* A run whose caller, or recovery, has yet to finalize it.
Working(q) == run[q].status = "running" /\ Bound(q) /\ journal[q].phase = "none"

\* Such a run holds the only open plan of its workstream.
LEMMA WorkingPlan ==
    ASSUME IInv, NEW q \in Run, Working(q)
    PROVE  /\ plan[q].phase = "planned" /\ PlanOpen(q) /\ run[q].ws \in Workstreams
           /\ boot # "sweep"
BY DEF IInv, Typing, TypeOK, RunRow, LifeInv, Life, Working, Bound, PlanOpen

\* Its plan stands on the newest commit of its workstream.
CurrentPlan(q, w) ==
    Materialized(w) => /\ plan[q].phase = "planned"
                       /\ plan[q].base = PathHead(w)
                       /\ workstream[w].lastCommit = plan[q].base

\* PlanIsCurrent, said of each run and its workstream.
LEMMA CurrentPlans ==
    ASSUME IInv
    PROVE  PlanIsCurrent <=> \A q \in Run, w \in Workstreams :
                                (Working(q) /\ run[q].ws = w) => CurrentPlan(q, w)
<1>1. \A q \in Run : Bound(q) => run[q].ws \in Workstreams
  BY DEF IInv, Typing, TypeOK, RunRow, Bound
<1> QED BY <1>1 DEF PlanIsCurrent, Working, CurrentPlan

\* PlanIsCurrent of the next state, said in the same way.
LEMMA CurrentNext ==
    ASSUME IInv',
           \A q \in Run, w \in Workstreams :
              (Working(q)' /\ run'[q].ws = w) => CurrentPlan(q, w)'
    PROVE  PlanIsCurrent'
<1>1. (\A q \in Run, w \in Workstreams :
          (Working(q) /\ run[q].ws = w) => CurrentPlan(q, w))'
  OBVIOUS
<1>2. (PlanIsCurrent <=> \A q \in Run, w \in Workstreams :
          (Working(q) /\ run[q].ws = w) => CurrentPlan(q, w))'
  BY CurrentPlans, PTL
<1> QED BY <1>1, <1>2

\* A step that moves neither a working run nor the head of its workstream.
LEMMA CurrentFrame ==
    ASSUME IInv, IInv', PlanIsCurrent,
           \A q \in Run, w \in Workstreams : (Working(q)' /\ run'[q].ws = w) =>
              /\ Working(q) /\ run[q].ws = w /\ plan'[q] = plan[q]
              /\ workstream'[w].lastCommit = workstream[w].lastCommit
              /\ PathHead(w)' = PathHead(w)
    PROVE  PlanIsCurrent'
<1>1. ASSUME NEW q \in Run, NEW w \in Workstreams, Working(q)', run'[q].ws = w
      PROVE  CurrentPlan(q, w)'
  BY <1>1, CurrentPlans DEF CurrentPlan, Materialized
<1> QED BY <1>1, CurrentNext

\* The newest commit of a workstream is read off the history.
LEMMA PathHeadSame == \A w : log' = log => PathHead(w)' = PathHead(w)
BY DEF PathHead, GitHead

\* No other run works on the workstream of a journal that is open.
LEMMA WorkingApart ==
    ASSUME IInv, PlansInv, NEW r \in Run, journal[r].phase \notin {"none", "completed"},
           NEW q \in Run, Working(q)
    PROVE  run[q].ws # run[r].ws
BY WorkingPlan, OpenPlan DEF PlansInv, LockInv, OnePlan, Working

\* The plan of a new route stands on the newest commit of its workstream.
LEMMA CurrentRoute ==
    ASSUME IInv, IInv', PlansInv, NEW r \in Run, NEW w \in Workstreams, Routing(r, w)
    PROVE  PlanIsCurrent'
<1>1. /\ Routable(w) /\ run'[r].ws = w /\ run'[r].status = run[r].status
      /\ \A q \in Run \ {r} : run'[q] = run[q] /\ plan'[q] = plan[q]
      /\ plan'[r].phase = "planned" /\ plan'[r].base = WorkstreamHead(w)
      /\ workstream'[w].lastCommit = workstream[w].lastCommit
      /\ \A v \in Workstreams \ {w} : workstream'[v] = workstream[v]
      /\ UNCHANGED <<journal, log>>
  BY RouteRows
<1>2. ASSUME NEW q \in Run, NEW v \in Workstreams, Working(q)', run'[q].ws = v
      PROVE  CurrentPlan(q, v)'
  <2>1. PathHead(v)' = PathHead(v)
    BY <1>1, PathHeadSame
  <2>2. CASE q = r
    <3>1. v = w
      BY <1>1, <1>2, <2>2
    <3>2. Materialized(w) => PathHead(w) = workstream[w].lastCommit
                             /\ WorkstreamHead(w) = workstream[w].lastCommit
      BY <1>1 DEF Routable, ValidHead, WorkstreamHead
    <3> QED BY <1>1, <2>1, <2>2, <3>1, <3>2 DEF CurrentPlan, Materialized
  <2>3. CASE q # r
    <3>1. Working(q) /\ run[q].ws = v /\ plan'[q] = plan[q]
      BY <1>1, <1>2, <2>3 DEF Working, Bound
    <3>2. CurrentPlan(q, v)
      BY <3>1, CurrentPlans DEF PlansInv
    <3>3. workstream'[v].lastCommit = workstream[v].lastCommit
      BY <1>1
    <3> QED BY <2>1, <3>1, <3>2, <3>3 DEF CurrentPlan, Materialized
  <2> QED BY <2>2, <2>3
<1> QED BY <1>2, CurrentNext

\* A discard leaves the runs of other workstreams alone.
LEMMA CurrentDiscard ==
    ASSUME IInv, IInv', PlansInv, NEW r \in Run, Discarding(r)
    PROVE  PlanIsCurrent'
<1>1. /\ run'[r].ws = NoWorkstream
      /\ \A q \in Run \ {r} : /\ run'[q] = run[q] /\ plan'[q] = plan[q]
                              /\ run[q].ws # run[r].ws
      /\ \A w \in Workstreams \ {run[r].ws} : workstream'[w] = workstream[w]
      /\ UNCHANGED <<journal, log>>
  BY DiscardRows DEF PlansInv
<1> QED BY <1>1, PathHeadSame, CurrentFrame DEF PlansInv, Working, Bound

\* So does the preparation of a journal.
LEMMA CurrentPrepare ==
    ASSUME IInv, IInv', PlansInv, NEW r \in Run, Preparing(r)
    PROVE  PlanIsCurrent'
<1>1. /\ UNCHANGED <<run, plan, log>> /\ journal'[r].phase = "prepared"
      /\ \A q \in Run \ {r} : journal'[q] = journal[q]
      /\ \A w \in Workstreams : workstream'[w].lastCommit = workstream[w].lastCommit
  BY PrepareRows
<1> QED BY <1>1, PathHeadSame, CurrentFrame DEF PlansInv, Working, Bound

\* Every step keeps the plans of working runs on the newest commit of their
\* workstreams.
LEMMA CurrentStep ==
    ASSUME IInv, IInv', PlansInv, [Next]_vars
    PROVE  PlanIsCurrent'
<1> USE DEF IInv, Typing, PlansInv
<1>1. ASSUME NEW s \in Streams, StartRun(s) PROVE PlanIsCurrent'
  <2>1. PICK q \in Run :
          /\ run[q].status = "none"
          /\ run' = [run EXCEPT ![q] = [run[q] EXCEPT !.status = "running", !.stream = s]]
    BY <1>1 DEF StartRun
  <2>2. /\ \A x \in Run \ {q} : run'[x] = run[x]
        /\ run'[q].ws = NoWorkstream
    BY <2>1 DEF LifeInv, Life, TypeOK, RunRow
  <2>3. UNCHANGED <<workstream, plan, journal, log>>
    BY <1>1 DEF StartRun, git
  <2> QED BY <2>2, <2>3, PathHeadSame, CurrentFrame DEF Working, Bound
<1>2. ASSUME NEW r \in Run, NEW w \in Workstreams, CreateWorkstream(r, w)
      PROVE PlanIsCurrent'
  BY <1>2, PathHeadSame, CurrentFrame DEF CreateWorkstream, git, TypeOK, WorkstreamRow,
     Working, Bound
<1>3. ASSUME NEW r \in Run, NEW w \in Workstreams, NEW c \in BOOLEAN,
             ActivateWorkstream(r, w, c)
      PROVE PlanIsCurrent'
  BY <1>3, CurrentRoute DEF ActivateWorkstream, Routing
<1>4. ASSUME NEW r \in Run, AdmitResources(r) PROVE PlanIsCurrent'
  BY <1>4, PathHeadSame, CurrentFrame DEF AdmitResources, git, TypeOK, WorkstreamRow,
     Working, Bound
<1>5. ASSUME NEW r \in Run, NEW o \in Outcome, FinalizeUnbound(r, o)
      PROVE PlanIsCurrent'
  BY <1>5, PathHeadSame, CurrentFrame DEF FinalizeUnbound, git, Working, Bound
<1>6. ASSUME NEW r \in Run, NEW o \in Outcome, FinalizeDiscard(r, o)
      PROVE PlanIsCurrent'
  BY <1>6, CurrentDiscard DEF FinalizeDiscard, Discarding
<1>7. ASSUME NEW r \in Run, NEW o \in Outcome, NEW c \in BOOLEAN,
             FinalizeBound(r, o, c)
      PROVE PlanIsCurrent'
  BY <1>7, PreparingFor, CurrentPrepare DEF FinalizeBound
<1>8. ASSUME NEW r \in Run, RefuseBound(r) PROVE PlanIsCurrent'
  <2>1. MarkRecovery(r) /\ UNCHANGED <<workstream, plan, journal, log>>
    BY <1>8 DEF RefuseBound, git
  <2> QED BY <2>1, MarkRows, PathHeadSame, CurrentFrame DEF Working, Bound
<1>9. ASSUME NEW r \in Run, RetryUnbound(r) PROVE PlanIsCurrent'
  BY <1>9, PathHeadSame, CurrentFrame DEF RetryUnbound, sqlite, git, Working, Bound
<1>10. ASSUME NEW r \in Run, RetryBound(r) PROVE PlanIsCurrent'
  BY <1>10, PathHeadSame, CurrentFrame DEF RetryBound, sqlite, git, Working, Bound
<1>11. ASSUME NEW r \in Run, RouteCreated(r) PROVE PlanIsCurrent'
  <2>1. PICK w \in Workstreams : op.ws = w
    BY <1>11 DEF RouteCreated, At, OperationInv
  <2>2. Routing(r, w)
    BY <1>11, <2>1 DEF RouteCreated, Routing
  <2> QED BY <2>2, CurrentRoute
<1>12. ASSUME NEW r \in Run, RouteRefused(r) PROVE PlanIsCurrent'
  BY <1>12, PathHeadSame, CurrentFrame DEF RouteRefused, sqlite, git, Working, Bound
<1>13. ASSUME NEW r \in Run, CompleteUnbound(r) PROVE PlanIsCurrent'
  BY <1>13, CompleteRows, PathHeadSame, CurrentFrame DEF Working, Bound, Outcome
<1>14. ASSUME NEW r \in Run, UnboundError(r) PROVE PlanIsCurrent'
  BY <1>14, UnboundErrorRows, PathHeadSame, CurrentFrame DEF Working, Bound, Outcome
<1>15. ASSUME NEW r \in Run, Receipt(r) PROVE PlanIsCurrent'
  BY <1>15, PathHeadSame, CurrentFrame DEF Receipt, sqlite, git, Working, Bound
<1>16. ASSUME NEW r \in Run, Reexamine(r) PROVE PlanIsCurrent'
  <2>1. /\ \A q \in Run : journal'[q].phase = "none" <=> journal[q].phase = "none"
        /\ UNCHANGED <<run, plan, workstream, log>>
    BY <1>16, ReexamineRows
  <2> QED BY <2>1, PathHeadSame, CurrentFrame DEF Working, Bound
<1>17. ASSUME NEW r \in Run, RecordEffects(r) PROVE PlanIsCurrent'
  <2>1. /\ journal[r].phase # "none" /\ \A q \in Run \ {r} : journal'[q] = journal[q]
        /\ UNCHANGED <<run, plan, workstream, log>>
    BY <1>17 DEF RecordEffects, At, git, OperationInv, SetPhase
  <2> QED BY <2>1, <1>17, PathHeadSame, CurrentFrame DEF RecordEffects, SetPhase,
     Working, Bound, TypeOK
<1>18. ASSUME NEW r \in Run, WriteContext(r) PROVE PlanIsCurrent'
  BY <1>18, PathHeadSame, CurrentFrame DEF WriteContext, sqlite, Working, Bound
<1>19. ASSUME NEW r \in Run, GitCommit(r) PROVE PlanIsCurrent'
  <2>1. /\ journal[r].phase = "resource_effects_recorded"
        /\ log' = Append(log, [run |-> r, ws |-> run[r].ws,
               outcome |-> journal[r].outcome])
        /\ UNCHANGED <<run, plan, workstream, journal>>
    BY <1>19 DEF GitCommit, At, sqlite, HistoryInv
  <2>2. ASSUME NEW q \in Run, NEW w \in Workstreams, Working(q)', run'[q].ws = w
        PROVE  /\ Working(q) /\ run[q].ws = w /\ plan'[q] = plan[q]
               /\ workstream'[w].lastCommit = workstream[w].lastCommit
               /\ PathHead(w)' = PathHead(w)
    <3>1. Working(q) /\ run[q].ws = w
      BY <2>1, <2>2 DEF Working, Bound
    <3>2. run[r].ws # w
      BY <2>1, <3>1, WorkingApart
    <3>3. PICK e : log' = Append(log, e) /\ e.ws = run[r].ws
      BY <2>1
    <3> QED BY <2>1, <3>1, <3>2, <3>3, PathHeadKept
  <2> QED BY <2>2, CurrentFrame
<1>20. ASSUME NEW r \in Run, RecogniseCommit(r) PROVE PlanIsCurrent'
  BY <1>20, PathHeadSame, CurrentFrame DEF RecogniseCommit, sqlite, git, Working, Bound
<1>21. ASSUME NEW r \in Run, RecordCommit(r) PROVE PlanIsCurrent'
  <2>1. /\ journal[r].phase # "none" /\ \A q \in Run \ {r} : journal'[q] = journal[q]
        /\ UNCHANGED <<run, plan, workstream, log>>
    BY <1>21 DEF RecordCommit, At, git, OperationInv
  <2> QED BY <2>1, <1>21, PathHeadSame, CurrentFrame DEF RecordCommit, Working, Bound,
     TypeOK
<1>22. ASSUME NEW r \in Run, Acknowledge(r) PROVE PlanIsCurrent'
  <2>1. /\ journal[r].phase = "context_committed" /\ journal'[r].phase = "completed"
        /\ \A q \in Run \ {r} : /\ run'[q] = run[q] /\ plan'[q] = plan[q]
                                /\ journal'[q] = journal[q]
        /\ \A w \in Workstreams \ {run[r].ws} : workstream'[w] = workstream[w]
        /\ log' = log
    BY <1>22, AcknowledgeRows
  <2>2. ASSUME NEW q \in Run, NEW w \in Workstreams, Working(q)', run'[q].ws = w
        PROVE  /\ Working(q) /\ run[q].ws = w /\ plan'[q] = plan[q]
               /\ workstream'[w].lastCommit = workstream[w].lastCommit
               /\ PathHead(w)' = PathHead(w)
    <3>1. q # r
      BY <2>1, <2>2 DEF Working
    <3>2. Working(q) /\ run[q].ws = w
      BY <2>1, <2>2, <3>1 DEF Working, Bound
    <3>3. run[r].ws # w
      BY <2>1, <3>2, WorkingApart
    <3> QED BY <2>1, <3>1, <3>2, <3>3, PathHeadSame
  <2> QED BY <2>2, CurrentFrame
<1>23. ASSUME NEW r \in Run, BoundError(r) PROVE PlanIsCurrent'
  <2>1. /\ journal'[r].phase = "recovery_required"
        /\ \A q \in Run \ {r} : /\ run'[q] = run[q] /\ plan'[q] = plan[q]
                                /\ journal'[q] = journal[q]
        /\ UNCHANGED <<workstream, log>>
    BY <1>23, BoundErrorRows
  <2> QED BY <2>1, PathHeadSame, CurrentFrame DEF Working, Bound
<1>24. ASSUME NEW r \in Run, RecoverUnbound(r) PROVE PlanIsCurrent'
  BY <1>24, PathHeadSame, CurrentFrame DEF RecoverUnbound, sqlite, git, Working, Bound
<1>25. ASSUME NEW r \in Run, RecoverBound(r) PROVE PlanIsCurrent'
  BY <1>25, PathHeadSame, CurrentFrame DEF RecoverBound, sqlite, git, Working, Bound
<1>26. ASSUME NEW r \in Run, RecoverInterrupted(r) PROVE PlanIsCurrent'
  BY <1>26, InterruptedSteps, CurrentDiscard, CurrentPrepare
<1>27. ASSUME NEW r \in Run, SkipInterrupted(r) PROVE PlanIsCurrent'
  BY <1>27, SkipRows, PathHeadSame, CurrentFrame DEF Working, Bound, Outcome
<1>28. ASSUME NEW r \in Run, Sweep(r) PROVE PlanIsCurrent'
  BY <1>28, SweepRows, PathHeadSame, CurrentFrame DEF Working, Bound, Outcome
<1>29. ASSUME Boot PROVE PlanIsCurrent'
  <2>1. /\ UNCHANGED <<run, plan, journal, log>>
        /\ \A w \in Workstreams :
              \/ workstream'[w] = workstream[w]
              \/ \A q \in Run : run[q].ws # w
    BY <1>29 DEF Boot, git
  <2> QED BY <2>1, PathHeadSame, CurrentFrame DEF Working, Bound
<1>30. ASSUME NextStage PROVE PlanIsCurrent'
  BY <1>30, PathHeadSame, CurrentFrame DEF NextStage, sqlite, git, Working, Bound
<1>31. ASSUME Crash PROVE PlanIsCurrent'
  BY <1>31, PathHeadSame, CurrentFrame DEF Crash, sqlite, git, Working, Bound
<1>32. ASSUME UNCHANGED vars PROVE PlanIsCurrent'
  BY <1>32, PathHeadSame, CurrentFrame DEF vars, Working, Bound
<1> QED BY <1>1, <1>2, <1>3, <1>4, <1>5, <1>6, <1>7, <1>8, <1>9, <1>10, <1>11, <1>12,
           <1>13, <1>14, <1>15, <1>16, <1>17, <1>18, <1>19, <1>20, <1>21, <1>22, <1>23,
           <1>24, <1>25, <1>26, <1>27, <1>28, <1>29, <1>30, <1>31, <1>32
           DEF Next, Request, Continue, Recover

-----------------------------------------------------------------------------
\* The invariant holds of an empty database.
LEMMA PlansInit == Init => PlansInv
BY RunAssumption DEF Init, PlansInv, PlanInv, PlanOf, WorkstreamInv, LockInv, OnePlan,
   ReceiptInv, ListInv, OneOpenRun, Acknowledged, RequestsMatchGit, PlanIsCurrent,
   PlanOpen, Bound, Materialized, NoWorkstreamRow, NoPlan, NoJournal, NoOp, Blocking

\* Every step keeps it.
LEMMA PlansStep ==
    ASSUME IInv, IInv', PlansInv, [Next]_vars
    PROVE  PlansInv'
<1>1. PlanInv' /\ WorkstreamInv' /\ LockInv'
  BY PlanStep, WorkstreamStep, LockStep DEF PlansInv
<1>2. OneOpenRun' /\ Acknowledged'
  BY KeptStep, OpenRunStep, AcknowledgedStep DEF PlansInv
<1>3. RequestsMatchGit' /\ PlanIsCurrent'
  BY RequestsStep, CurrentStep
<1> QED BY <1>1, <1>2, <1>3 DEF PlansInv

\* Plans, workstreams and runs agree in every reachable state.
THEOREM PlansAgree == Spec => []PlansInv
<1>1. Init => PlansInv
  BY PlansInit
<1>2. IInv /\ IInv' /\ PlansInv /\ [Next]_vars => PlansInv'
  BY PlansStep
<1> QED BY <1>1, <1>2, Invariance, PTL DEF Spec

\* A request change SQLite shows ahead of Git is always the change of an open
\* run bound to that workstream, with its plan: none is left behind.
THEOREM RequestsFollowGit == Spec => []RequestsMatchGit
<1>1. PlansInv => RequestsMatchGit
  BY DEF PlansInv
<1> QED BY <1>1, PlansAgree, PTL

\* No run, retry or recovery commits to a workstream under a run that works on
\* it: the plan of that run stays on the workstream's newest commit.
THEOREM PlansStayCurrent == Spec => []PlanIsCurrent
<1>1. PlansInv => PlanIsCurrent
  BY DEF PlansInv
<1> QED BY <1>1, PlansAgree, PTL

\* A finished run keeps its status and its binding through every crash, retry
\* and recovery, and a bound run loses only a workstream that is discarded.
THEOREM FinishedRunsStay == Spec => RunsAreFinal
<1>1. IInv /\ PlansInv /\ [Next]_vars =>
        \A r \in Run :
          /\ run[r].status \in Outcome => run'[r] = run[r]
          /\ Bound(r) => \/ run'[r].ws = run[r].ws
                         \/ workstream'[run[r].ws].status = "absent"
  BY KeptStep DEF RunsKept, RunKept
<1> QED BY <1>1, Invariance, PlansAgree, PTL DEF Spec, RunsAreFinal

-----------------------------------------------------------------------------
(* The two stores implement one: AtomicFinalization.                       *)

\* The acknowledged history, and the image of the state.
Status  == [r \in Run |-> run[r].status]
Binding == [r \in Run |-> run[r].ws]
History == SubSeq(log, 1, repoHead)
Image   == <<Status, Binding, History>>

\* A step of the abstract store, or none.
AtomicStep == Atomic!Next \/ UNCHANGED Image

\* A commit that is not yet acknowledged is not part of it.
LEMMA HistoryKept ==
    ASSUME IInv, repoHead' = repoHead, log' = log \/ \E r \in Run : GitCommit(r)
    PROVE  History' = History
<1>1. log \in Seq(LogEntry) /\ repoHead \in Nat /\ repoHead <= Len(log)
  BY DEF IInv, Typing, TypeOK, Commit, HistoryInv, SqliteFollowsGit, GitHead
<1>2. CASE log' = log
  BY <1>2 DEF History
<1>3. CASE \E r \in Run : GitCommit(r)
  <2>1. PICK e : log' = Append(log, e)
    BY <1>3 DEF GitCommit
  <2>2. /\ Len(log') = Len(log) + 1
        /\ \A k \in 1..Len(log) : log'[k] = log[k]
    BY <1>1, <2>1
  <2>3. SubSeq(log', 1, repoHead) = SubSeq(log, 1, repoHead)
    BY <1>1, <2>1, <2>2
  <2> QED BY <2>3 DEF History
<1> QED BY <1>2, <1>3

\* An acknowledged commit is appended to it.
LEMMA HistoryGrows ==
    ASSUME IInv, log' = log, repoHead' = repoHead + 1, repoHead' <= Len(log)
    PROVE  History' = Append(History, log[repoHead'])
<1>1. log \in Seq(LogEntry) /\ repoHead \in Nat
  BY DEF IInv, Typing, TypeOK, Commit
<1> QED BY <1>1 DEF History

\* A step that writes one run writes one place of the image.
LEMMA OneRunImage ==
    ASSUME NEW r \in Run, \A q \in Run \ {r} : run'[q] = run[q]
    PROVE  /\ Status' = [Status EXCEPT ![r] = run'[r].status]
           /\ Binding' = [Binding EXCEPT ![r] = run'[r].ws]
           /\ run'[r].status = run[r].status => Status' = Status
           /\ run'[r].ws = run[r].ws => Binding' = Binding
BY DEF Status, Binding

\* A step that writes no run and no acknowledged commit is not seen.
LEMMA Unseen ==
    ASSUME run' = run, History' = History
    PROVE  AtomicStep
BY DEF AtomicStep, Image, Status, Binding

\* The steps of the abstract store, read off the rows.
LEMMA AtomicStart ==
    ASSUME NEW r \in Run, \A q \in Run \ {r} : run'[q] = run[q], run'[r].ws = run[r].ws,
           run[r].status = "none", run'[r].status = "running", History' = History
    PROVE  AtomicStep
<1>1. Atomic!Start(r)
  BY OneRunImage DEF Atomic!Start, Atomic!Become, Status, Binding, History
<1> QED BY <1>1 DEF AtomicStep, Atomic!Next

\* A route binds a running run that was unbound.
LEMMA AtomicBind ==
    ASSUME NEW r \in Run, \A q \in Run \ {r} : run'[q] = run[q], ~Bound(r),
           run[r].status = "running", run'[r].status = "running",
           run'[r].ws \in Workstreams, History' = History
    PROVE  AtomicStep
<1>1. Atomic!Bind(r)
  BY OneRunImage DEF Atomic!Bind, Status, Binding, History, Bound
<1> QED BY <1>1 DEF AtomicStep, Atomic!Next

\* Discarding a route unbinds it again.
LEMMA AtomicUnbind ==
    ASSUME NEW r \in Run, \A q \in Run \ {r} : run'[q] = run[q],
           run[r].status = "running", run'[r].status = "running",
           run'[r].ws = NoWorkstream, History' = History
    PROVE  AtomicStep
<1>1. Atomic!Unbind(r)
  BY OneRunImage DEF Atomic!Unbind, Status, Binding, History
<1> QED BY <1>1 DEF AtomicStep, Atomic!Next

\* A run whose finalization fails may become recovery-required, or stay.
LEMMA AtomicSuspend ==
    ASSUME NEW r \in Run, \A q \in Run \ {r} : run'[q] = run[q], run'[r].ws = run[r].ws,
           \/ run'[r].status = run[r].status
           \/ run[r].status = "running" /\ run'[r].status = "recovery_required",
           History' = History
    PROVE  AtomicStep
<1>1. CASE run'[r].status = run[r].status
  BY <1>1, OneRunImage DEF AtomicStep, Image
<1>2. CASE run[r].status = "running" /\ run'[r].status = "recovery_required"
  <2>1. Atomic!Suspend(r)
    BY <1>2, OneRunImage DEF Atomic!Suspend, Atomic!Become, Status, Binding, History
  <2> QED BY <2>1 DEF AtomicStep, Atomic!Next
<1> QED BY <1>1, <1>2

\* A run that is bound to no workstream ends without a trace in the history.
LEMMA AtomicCloseUnbound ==
    ASSUME NEW r \in Run, \A q \in Run \ {r} : run'[q] = run[q], run'[r].ws = run[r].ws,
           ~Bound(r), run[r].status \in Blocking, run'[r].status \in Outcome,
           History' = History
    PROVE  AtomicStep
<1>1. Atomic!Close(r, run'[r].status)
  BY OneRunImage DEF Atomic!Close, Atomic!Open, Atomic!Become, Status, Binding, History,
     Bound, Blocking
<1> QED BY <1>1 DEF AtomicStep, Atomic!Next

\* A bound run ends with its entry in the history.
LEMMA AtomicCloseBound ==
    ASSUME NEW r \in Run, \A q \in Run \ {r} : run'[q] = run[q], run'[r].ws = run[r].ws,
           Bound(r), run[r].status \in Blocking, run'[r].status \in Outcome,
           History' = Append(History, [run |-> r, ws |-> run[r].ws,
                                       outcome |-> run'[r].status])
    PROVE  AtomicStep
<1>1. Atomic!Close(r, run'[r].status)
  BY OneRunImage DEF Atomic!Close, Atomic!Open, Atomic!Become, Status, Binding, History,
     Bound, Blocking
<1> QED BY <1>1 DEF AtomicStep, Atomic!Next

\* The acknowledgement is the step in which the two stores become one.
LEMMA AcknowledgeIsClose ==
    ASSUME IInv, PlansInv, NEW r \in Run, Acknowledge(r)
    PROVE  AtomicStep
<1>1. /\ \A q \in Run \ {r} : run'[q] = run[q]
      /\ run'[r].ws = run[r].ws /\ run'[r].status \in Outcome
      /\ run[r].status \in Blocking => run'[r].status = journal[r].outcome
      /\ run[r].status \in Outcome => run'[r] = run[r]
      /\ repoHead' = journal[r].commit /\ log' = log
      /\ journal[r].phase = "context_committed" /\ Acknowledgeable(r)
  BY AcknowledgeRows
<1>2. /\ journal[r].commit = journal[r].base + 1 /\ journal[r].commit <= Len(log)
      /\ log[journal[r].commit].run = r
      /\ repoHead \in {journal[r].base, journal[r].commit}
      /\ journal[r].base \in Nat /\ Len(log) \in Nat
  BY <1>1, JournalsTyped DEF IInv, Typing, TypeOK, HistoryInv, Acknowledgeable
<1>3. run[r].ws \in Workstreams /\ Bound(r)
  BY <1>1, RunAssumption DEF IInv, Typing, JournaledIsBound, Bound
<1>4. run[r].status \in Blocking \cup Outcome
  BY <1>1 DEF IInv, Typing, TypeOK, RunRow, LifeInv, Life
<1>5. journal[r].commit \in 1..GitHead
  BY <1>2 DEF GitHead
<1>6. CASE repoHead = journal[r].base
  <2>1. run[r].status \in Blocking
    BY <1>2, <1>3, <1>4, <1>6 DEF IInv, HistoryInv, TerminalIsCommitted
  <2>2. /\ log[journal[r].commit] \in LogEntry
        /\ log[journal[r].commit].ws = run[r].ws
        /\ log[journal[r].commit].outcome = journal[r].outcome
    BY <1>2, <1>5, EntriesTyped DEF IInv, Typing, TypeOK, HistoryInv,
       CommitsAreJournaled, GitHead
  <2>3. log[journal[r].commit] =
           [run |-> r, ws |-> run[r].ws, outcome |-> run'[r].status]
    BY <1>1, <1>2, <2>1, <2>2 DEF LogEntry
  <2>4. History' = Append(History, log[journal[r].commit])
    BY <1>1, <1>2, <1>6, HistoryGrows
  <2> QED BY <1>1, <1>3, <2>1, <2>3, <2>4, AtomicCloseBound
<1>7. CASE repoHead = journal[r].commit
  <2>1. run[r].status \in Outcome
    BY <1>2, <1>7 DEF PlansInv, Acknowledged
  <2>2. History' = History
    BY <1>1, <1>7, HistoryKept
  <2> QED BY <1>1, <2>1, <2>2, AtomicSuspend
<1> QED BY <1>2, <1>6, <1>7

\* Every step of the service is a step of the abstract store, or none of it.
LEMMA StepIsAtomic ==
    ASSUME IInv, PlansInv, [Next]_vars
    PROVE  AtomicStep
<1>0. ASSUME repoHead' = repoHead PROVE History' = History
  BY <1>0, HistoryKept, HeadStep
<1>1. ASSUME NEW s \in Streams, StartRun(s) PROVE AtomicStep
  <2>1. PICK r \in Run :
          /\ run[r].status = "none"
          /\ run' = [run EXCEPT ![r] = [run[r] EXCEPT !.status = "running", !.stream = s]]
    BY <1>1 DEF StartRun
  <2>2. /\ run'[r].ws = run[r].ws /\ run'[r].status = "running"
        /\ \A q \in Run \ {r} : run'[q] = run[q]
    BY <2>1 DEF IInv, Typing, TypeOK, RunRow
  <2> QED BY <1>0, <1>1, <2>1, <2>2, AtomicStart DEF StartRun
<1>2. ASSUME NEW r \in Run, NEW w \in Workstreams, CreateWorkstream(r, w)
      PROVE AtomicStep
  BY <1>2, <1>0, Unseen DEF CreateWorkstream, sqlite
<1>3. ASSUME NEW r \in Run, NEW w \in Workstreams, NEW c \in BOOLEAN,
             ActivateWorkstream(r, w, c)
      PROVE AtomicStep
  <2>1. Routing(r, w) /\ ~Bound(r) /\ run[r].status = "running"
    BY <1>3 DEF ActivateWorkstream, Client, Routing
  <2> QED BY <1>0, <2>1, RouteRows, AtomicBind
<1>4. ASSUME NEW r \in Run, AdmitResources(r) PROVE AtomicStep
  BY <1>4, <1>0, Unseen DEF AdmitResources, sqlite
<1>5. ASSUME NEW r \in Run, NEW o \in Outcome, FinalizeUnbound(r, o) PROVE AtomicStep
  BY <1>5, <1>0, Unseen DEF FinalizeUnbound, sqlite
<1>6. ASSUME NEW r \in Run, NEW o \in Outcome, FinalizeDiscard(r, o) PROVE AtomicStep
  <2>1. Discarding(r)
    BY <1>6 DEF FinalizeDiscard, Discarding
  <2> QED BY <1>0, <2>1, DiscardRows, AtomicUnbind DEF PlansInv
<1>7. ASSUME NEW r \in Run, NEW o \in Outcome, NEW c \in BOOLEAN,
             FinalizeBound(r, o, c)
      PROVE AtomicStep
  <2>1. Preparing(r)
    BY <1>7, PreparingFor DEF FinalizeBound
  <2> QED BY <1>0, <2>1, PrepareRows, Unseen
<1>8. ASSUME NEW r \in Run, RefuseBound(r) PROVE AtomicStep
  <2>1. MarkRecovery(r) /\ run[r].status = "running" /\ repoHead' = repoHead
    BY <1>8 DEF RefuseBound, Client
  <2> QED BY <1>0, <2>1, MarkRows, AtomicSuspend DEF IInv, Typing
<1>9. ASSUME NEW r \in Run, RetryUnbound(r) PROVE AtomicStep
  BY <1>9, <1>0, Unseen DEF RetryUnbound, sqlite
<1>10. ASSUME NEW r \in Run, RetryBound(r) PROVE AtomicStep
  BY <1>10, <1>0, Unseen DEF RetryBound, sqlite
<1>11. ASSUME NEW r \in Run, RouteCreated(r) PROVE AtomicStep
  <2>1. /\ op.ws \in Workstreams /\ op.run = r /\ run[r].status = "running"
        /\ op.kind = "route"
    BY <1>11 DEF RouteCreated, At, IInv, Typing, OperationInv
  <2>2. Routing(r, op.ws) /\ ~Bound(r)
    BY <1>11, <2>1 DEF RouteCreated, Routing, PlansInv, WorkstreamInv
  <2> QED BY <1>0, <2>1, <2>2, RouteRows, AtomicBind
<1>12. ASSUME NEW r \in Run, RouteRefused(r) PROVE AtomicStep
  BY <1>12, <1>0, Unseen DEF RouteRefused, sqlite
<1>13. ASSUME NEW r \in Run, CompleteUnbound(r) PROVE AtomicStep
  <2>1. run[r].status \in Blocking \cup Outcome
    BY <1>13, CompleteRows DEF IInv, Typing, TypeOK, LifeInv, Life, RunRow
  <2>2. CASE run[r].status \in Blocking
    BY <1>0, <1>13, <2>2, CompleteRows, AtomicCloseUnbound
  <2>3. CASE run[r].status \in Outcome
    BY <1>0, <1>13, <2>3, CompleteRows, AtomicSuspend
  <2> QED BY <2>1, <2>2, <2>3
<1>14. ASSUME NEW r \in Run, UnboundError(r) PROVE AtomicStep
  BY <1>0, <1>14, UnboundErrorRows, AtomicSuspend
<1>15. ASSUME NEW r \in Run, Receipt(r) PROVE AtomicStep
  BY <1>15, <1>0, Unseen DEF Receipt, sqlite
<1>16. ASSUME NEW r \in Run, Reexamine(r) PROVE AtomicStep
  BY <1>0, <1>16, ReexamineRows, Unseen DEF IInv, Typing
<1>17. ASSUME NEW r \in Run, RecordEffects(r) PROVE AtomicStep
  BY <1>17, <1>0, Unseen DEF RecordEffects, sqlite
<1>18. ASSUME NEW r \in Run, WriteContext(r) PROVE AtomicStep
  BY <1>18, <1>0, Unseen DEF WriteContext, sqlite
<1>19. ASSUME NEW r \in Run, GitCommit(r) PROVE AtomicStep
  BY <1>19, <1>0, Unseen DEF GitCommit, sqlite
<1>20. ASSUME NEW r \in Run, RecogniseCommit(r) PROVE AtomicStep
  BY <1>20, <1>0, Unseen DEF RecogniseCommit, sqlite
<1>21. ASSUME NEW r \in Run, RecordCommit(r) PROVE AtomicStep
  BY <1>21, <1>0, Unseen DEF RecordCommit, sqlite
<1>22. ASSUME NEW r \in Run, Acknowledge(r) PROVE AtomicStep
  BY <1>22, AcknowledgeIsClose
<1>23. ASSUME NEW r \in Run, BoundError(r) PROVE AtomicStep
  BY <1>0, <1>23, BoundErrorRows, AtomicSuspend
<1>24. ASSUME NEW r \in Run, RecoverUnbound(r) PROVE AtomicStep
  BY <1>24, <1>0, Unseen DEF RecoverUnbound, sqlite
<1>25. ASSUME NEW r \in Run, RecoverBound(r) PROVE AtomicStep
  BY <1>25, <1>0, Unseen DEF RecoverBound, sqlite
<1>26. ASSUME NEW r \in Run, RecoverInterrupted(r) PROVE AtomicStep
  <2>1. CASE Discarding(r)
    BY <1>0, <2>1, DiscardRows, AtomicUnbind DEF PlansInv
  <2>2. CASE Preparing(r)
    BY <1>0, <2>2, PrepareRows, Unseen
  <2> QED BY <1>26, <2>1, <2>2, InterruptedSteps
<1>27. ASSUME NEW r \in Run, SkipInterrupted(r) PROVE AtomicStep
  BY <1>0, <1>27, SkipRows, AtomicSuspend DEF Interrupted, IInv, Typing
<1>28. ASSUME NEW r \in Run, Sweep(r) PROVE AtomicStep
  <2>1. run[r].status \in Blocking
    BY <1>28 DEF Sweep, Recovering, IInv, LifeInv, Life
  <2>2. CASE run'[r].status = "recovery_required"
    BY <1>0, <1>28, <2>1, <2>2, SweepRows, AtomicSuspend DEF PlansInv, Blocking
  <2>3. CASE run'[r].status \in Outcome /\ ~Bound(r)
    BY <1>0, <1>28, <2>1, <2>3, SweepRows, AtomicCloseUnbound DEF PlansInv
  <2> QED BY <1>28, <2>2, <2>3, SweepRows DEF PlansInv
<1>29. ASSUME Boot PROVE AtomicStep
  BY <1>29, <1>0, Unseen DEF Boot, sqlite
<1>30. ASSUME NextStage PROVE AtomicStep
  BY <1>30, <1>0, Unseen DEF NextStage, sqlite
<1>31. ASSUME Crash PROVE AtomicStep
  BY <1>31, <1>0, Unseen DEF Crash, sqlite
<1>32. ASSUME UNCHANGED vars PROVE AtomicStep
  BY <1>32, <1>0, Unseen DEF vars, sqlite
<1> QED BY <1>1, <1>2, <1>3, <1>4, <1>5, <1>6, <1>7, <1>8, <1>9, <1>10, <1>11, <1>12,
           <1>13, <1>14, <1>15, <1>16, <1>17, <1>18, <1>19, <1>20, <1>21, <1>22, <1>23,
           <1>24, <1>25, <1>26, <1>27, <1>28, <1>29, <1>30, <1>31, <1>32
           DEF Next, Request, Continue, Recover

\* Before the first run, the abstract store is empty.
LEMMA InitIsAtomic == Init => Atomic!Init
BY DEF Init, Atomic!Init

\* The statuses and bindings SQLite shows, and the part of Git's history it has
\* acknowledged, behave like one store: a bound run ends and enters the history
\* in one step, once and with one outcome, whatever crashes, failing calls,
\* retries and recoveries lie between its commit and its acknowledgement.
THEOREM FinalizationIsAtomic == Spec => AtomicSpec
<1>1. IInv /\ PlansInv /\ [Next]_vars => [Atomic!Next]_(Atomic!vars)
  BY StepIsAtomic DEF AtomicStep, Image, Status, Binding, History, Atomic!vars
<1> QED BY <1>1, InitIsAtomic, Invariance, PlansAgree, PTL DEF Spec, AtomicSpec,
   Atomic!Spec

-----------------------------------------------------------------------------
(* The second half: one stream.  The daemon runs a single agent stream, so *)
(* at most one run is open at a time.  Two open runs falsify what follows, *)
(* which is what the runs RunFinalizationStale and RunFinalizationStranded *)
(* show.                                                                   *)

\* There is one stream, or none.
OneStream == \A s, t \in Streams : s = t

\* No call has failed of those that recovery cannot make good at once: the
\* ones of recovery itself, and those after an acknowledgement.
Steady == ("receipt" \in FaultPoints \/ RecoveryMayFail) => faults = 0

\* A finalization row, a journal, that was begun and not completed.
UnboundOpen(r) == unbound[r].phase \notin {"none", "completed"}
JournalOpen(r) == journal[r].phase \notin {"none", "completed"}

\* A run that blocks its stream belongs to one.
Streamed == \A r \in Run : run[r].status \in Blocking => run[r].stream \in Streams

\* At most one run is open.
Alone ==
    \A r, q \in Run : run[r].status \in Blocking /\ run[q].status \in Blocking => r = q

\* A row or a journal is open only for a blocking run, and a run is in recovery
\* only with one of them; without a failed call, none is.
OpenInv ==
    /\ \A r \in Run : UnboundOpen(r) \/ JournalOpen(r) => run[r].status \in Blocking
    /\ \A r \in Run : run[r].status = "recovery_required" =>
          UnboundOpen(r) \/ JournalOpen(r)
    /\ faults = 0 => \A r \in Run : run[r].status # "recovery_required"

\* An unbound finalization is at its receipt exactly when its row is completed,
\* and recovery drops a row from its list as soon as it has completed it.
RowInv ==
    /\ op.kind = "unbound" =>
          (op.step = "receipt" <=> unbound[op.run].phase = "completed")
    /\ boot = "unbound" => \A r \in todo : unbound[r].phase = "completed" =>
          op.kind = "unbound" /\ op.run = r

\* Between finalizations SQLite and Git agree and nothing is left in the tree;
\* during one, SQLite stands on its base and the tree holds only its files.
QuietInv ==
    /\ (\A r \in Run : ~JournalOpen(r)) =>
          repoHead = GitHead /\ Clean /\ repoHealth = "ready"
    /\ \A r \in Run : JournalOpen(r) =>
          /\ repoHead = journal[r].base
          /\ dirty \in {NoRun, r}
          /\ GitHead # repoHead => Clean

\* A run that works on a workstream without a commit is its first: it planned
\* on SQLite's head and has changed no request.
FirstRunInv ==
    \A r \in Run : Working(r) /\ ~Materialized(run[r].ws) =>
        plan[r].base = repoHead /\ workstream[run[r].ws].ahead # r

\* A workstream without a commit is being routed, has an open plan, or is
\* deleted at the next start.
InitializingInv ==
    \A w \in Workstreams : workstream[w].status = "initializing" =>
        \/ op.kind = "route" /\ op.ws = w
        \/ boot = "down"
        \/ Locked(w)

\* Recovery itself starts what runs before the process is ready.
CallerInv == (op.kind # "idle" /\ boot # "ready") => ~op.caller

\* How far each stage of recovery has come.
StagesInv ==
    /\ \A r \in Run : UnboundOpen(r) =>
          /\ boot = "unbound" => r \in todo
          /\ boot \in {"bound", "interrupted", "sweep"} =>
                op.kind = "unbound" /\ op.run = r
    /\ \A r \in Run : JournalOpen(r) =>
          /\ boot = "bound" => r \in todo
          /\ boot \in {"interrupted", "sweep"} => op.kind = "bound" /\ op.run = r
    /\ boot = "sweep" => \A r \in Run : run[r].status \in Blocking => r \in todo

\* All of it.
Calm == /\ Alone /\ OpenInv /\ RowInv /\ QuietInv /\ FirstRunInv /\ InitializingInv
        /\ CallerInv /\ StagesInv

\* The inductive invariant of the second half.
QuietlyInv == Streamed /\ (Steady => Calm)

-----------------------------------------------------------------------------
(* What holds while all is calm.                                           *)

\* A run is opened by a stream.
LEMMA StreamedStep ==
    ASSUME Streamed, RunsKept
    PROVE  Streamed'
BY DEF Streamed, RunsKept, RunKept, OpenedWell

\* While a run blocks that has no open journal, nobody has one.
LEMMA NothingOpen ==
    ASSUME Calm, NEW r \in Run, run[r].status \in Blocking, ~JournalOpen(r)
    PROVE  /\ \A q \in Run : ~JournalOpen(q)
           /\ repoHead = GitHead /\ Clean /\ repoHealth = "ready"
<1>1. ASSUME NEW q \in Run, JournalOpen(q) PROVE FALSE
  BY <1>1 DEF Calm, OpenInv, Alone
<1> QED BY <1>1 DEF Calm, QuietInv

\* A run that works on a workstream can always be planned.
LEMMA WorkingIsPlannable ==
    ASSUME IInv, PlansInv, Calm, NEW r \in Run, Working(r)
    PROVE  Plannable(r)
<1>1. repoHead = GitHead /\ Clean /\ repoHealth = "ready"
  <2>1. run[r].status \in Blocking /\ ~JournalOpen(r)
    BY DEF Working, Blocking, JournalOpen
  <2> QED BY <2>1, NothingOpen
<1>2. plan[r].phase = "planned"
  BY WorkingPlan
<1>3. CASE Materialized(run[r].ws)
  <2>1. /\ plan[r].base = PathHead(run[r].ws)
        /\ workstream[run[r].ws].lastCommit = plan[r].base
    BY <1>3 DEF PlansInv, PlanIsCurrent, Working
  <2> QED BY <1>1, <1>2, <1>3, <2>1 DEF Plannable, HeadMoved, ValidHead, WorkstreamHead,
             ValidRepositoryHead, Healthy
<1>4. CASE ~Materialized(run[r].ws)
  <2>1. plan[r].base = repoHead /\ workstream[run[r].ws].ahead # r
    BY <1>4 DEF Calm, FirstRunInv
  <2> QED BY <1>1, <1>2, <1>4, <2>1 DEF Plannable, HeadMoved, ValidHead, WorkstreamHead,
             ValidRepositoryHead, Healthy
<1> QED BY <1>3, <1>4

\* So no finalization is refused for good.
LEMMA NothingRefused ==
    ASSUME IInv, PlansInv, Calm, NEW r \in Run
    PROVE  ~RefuseBound(r)
<1> SUFFICES ASSUME RefuseBound(r) PROVE FALSE
  OBVIOUS
<1>1. Working(r) /\ ~Plannable(r)
  BY DEF RefuseBound, Client, Working
<1> QED BY <1>1, WorkingIsPlannable

\* Recovery skips only runs it has nothing to do for.
LEMMA SkipKeepsRun ==
    ASSUME IInv, PlansInv, Calm, NEW r \in Run, SkipInterrupted(r)
    PROVE  run' = run
<1>1. CASE Interrupted(r)
  <2>1. Working(r)
    BY <1>1 DEF Interrupted, Working
  <2> QED BY <1>1, <2>1, WorkingIsPlannable DEF SkipInterrupted
<1>2. CASE ~Interrupted(r)
  BY <1>2 DEF SkipInterrupted
<1> QED BY <1>1, <1>2

\* A workstream that was just allocated can be routed to.
LEMMA CreatedIsRoutable ==
    ASSUME IInv, PlansInv, Calm, NEW r \in Run
    PROVE  ~RouteRefused(r)
<1> SUFFICES ASSUME RouteRefused(r) PROVE FALSE
  OBVIOUS
<1>1. /\ op.kind = "route" /\ op.run = r /\ ~Routable(op.ws)
      /\ op.ws \in Workstreams /\ run[r].status = "running" /\ journal[r].phase = "none"
  BY DEF RouteRefused, At, IInv, Typing, OperationInv
<1>2. workstream[op.ws].status = "initializing" /\ \A q \in Run : run[q].ws # op.ws
  BY <1>1 DEF PlansInv, WorkstreamInv
<1>3. ~Materialized(op.ws) /\ ~Locked(op.ws)
  BY <1>1, <1>2 DEF PlansInv, WorkstreamInv, Locked
<1>4. repoHealth = "ready"
  BY <1>1, NothingOpen DEF Blocking, JournalOpen
<1> QED BY <1>1, <1>2, <1>3, <1>4 DEF Routable, ValidHead, WorkstreamHead, Healthy

\* A commit Git has and SQLite has not is the one of the open journal.
LEMMA OpenCommit ==
    ASSUME IInv, Calm, NEW r \in Run, JournalOpen(r), GitHead # journal[r].base
    PROVE  /\ GitHead = journal[r].base + 1 /\ log[GitHead].run = r
           /\ log[GitHead].ws = run[r].ws /\ Clean /\ repoHead = journal[r].base
<1>1. repoHead = journal[r].base /\ Clean
  BY DEF Calm, QuietInv
<1>2. /\ GitHead \in Nat /\ repoHead \in Nat /\ repoHead <= GitHead
      /\ repoHead < GitHead =>
            /\ repoHead + 1 = GitHead
            /\ journal[log[GitHead].run].phase # "completed"
  BY DEF IInv, Typing, TypeOK, Commit, HistoryInv, SqliteFollowsGit, GitHead
<1>3. GitHead \in 1..GitHead /\ repoHead + 1 = GitHead
  BY <1>1, <1>2
<1>4. log[GitHead].run \in Run
  BY <1>3, EntriesTyped DEF GitHead, IInv, Typing
<1>5. /\ journal[log[GitHead].run].phase \notin {"none", "prepared"}
      /\ run[log[GitHead].run].ws = log[GitHead].ws
  BY <1>3 DEF IInv, HistoryInv, CommitsAreJournaled
<1>6. JournalOpen(log[GitHead].run)
  BY <1>1, <1>2, <1>3, <1>5 DEF JournalOpen
<1>7. log[GitHead].run = r
  BY <1>4, <1>6 DEF Calm, OpenInv, Alone
<1> QED BY <1>1, <1>3, <1>5, <1>7

\* None of the checks of executeRecord fails.
LEMMA NeverStuck ==
    ASSUME IInv, PlansInv, Calm, NEW r \in Run
    PROVE  ~Stuck(r)
<1> SUFFICES ASSUME Stuck(r) PROVE FALSE
  OBVIOUS
<1>1. JournalOpen(r)
  BY DEF Stuck, JournalOpen
<1>2. /\ repoHead = journal[r].base /\ dirty \in {NoRun, r}
      /\ journal[r].base \in Nat /\ GitHead \in Nat
  BY <1>1, JournalsTyped DEF Calm, QuietInv, IInv, Typing, TypeOK, GitHead
<1>3. GitHead # journal[r].base => Recognised(r)
  BY <1>1, <1>2, OpenCommit DEF Recognised
<1>4. journal[r].commit # 0 =>
         journal[r].commit = journal[r].base + 1 /\ journal[r].commit <= GitHead
  BY DEF IInv, HistoryInv, GitHead
<1>5. journal[r].commit # 0 => GitHead # journal[r].base
  BY <1>2, <1>4
<1>6. journal[r].phase = "context_committed" => journal[r].commit # 0
  BY DEF IInv, HistoryInv
<1>7. ASSUME journal[r].commit # 0 PROVE Acknowledgeable(r)
  <2>1. /\ GitHead = journal[r].base + 1 /\ log[GitHead].ws = run[r].ws /\ Clean
        /\ journal[r].commit = GitHead
    BY <1>1, <1>4, <1>5, <1>7, OpenCommit
  <2>2. PathHead(run[r].ws) = GitHead
    BY <1>2, <2>1, PathHeadNewest DEF GitHead, IInv, Typing
  <2> QED BY <1>2, <2>1, <2>2 DEF Acknowledgeable
<1> QED BY <1>2, <1>3, <1>5, <1>6, <1>7 DEF Stuck

\* The sweep finds only runs that no journal speaks for, and closes them.
LEMMA SweepCloses ==
    ASSUME IInv, PlansInv, Calm, NEW r \in Run, Sweep(r)
    PROVE  /\ run'[r].status \in Outcome /\ ~Bound(r)
           /\ ~UnboundOpen(r) /\ ~JournalOpen(r)
<1>1. /\ boot = "sweep" /\ op.kind = "idle" /\ run[r].status \in Blocking
  BY DEF Sweep, Recovering, Idle, IInv, LifeInv, Life
<1>2. ~UnboundOpen(r) /\ ~JournalOpen(r)
  BY <1>1 DEF Calm, StagesInv
<1>3. run[r].status = "running"
  BY <1>1, <1>2 DEF Calm, OpenInv, Blocking
<1>4. unbound[r].phase = "none"
  BY <1>2, <1>3 DEF UnboundOpen, IInv, LifeInv, Life
<1>5. journal[r].phase = "none"
  <2>1. journal[r].phase # "completed"
    BY <1>3 DEF PlansInv, PlanInv, PlanOf, Outcome
  <2> QED BY <1>2, <2>1 DEF JournalOpen
<1>6. run'[r].status \in Outcome
  BY <1>3, <1>4, <1>5, SweepRows DEF PlansInv
<1>7. ~Bound(r)
  BY <1>1, <1>3, <1>5 DEF IInv, LifeInv, Life
<1> QED BY <1>2, <1>6, <1>7

\* A call that fails is one of a client, before its receipt.
LEMMA CalmUnboundError ==
    ASSUME IInv, PlansInv, Calm, Steady', NEW r \in Run, UnboundError(r)
    PROVE  UnboundOpen(r) /\ boot = "ready"
<1>1. /\ op.kind = "unbound" /\ op.run = r /\ faults' = faults + 1
      /\ op.step \in FaultPoints /\ (op.caller \/ RecoveryMayFail)
      /\ unbound[r].phase # "none"
  BY UnboundErrorRows
<1>2. faults' # 0
  BY <1>1 DEF IInv, Typing, TypeOK
<1>3. "receipt" \notin FaultPoints /\ ~RecoveryMayFail
  BY <1>2 DEF Steady
<1> QED BY <1>1, <1>3 DEF Calm, RowInv, CallerInv, UnboundOpen

\* A finalization of a bound run fails only under a client, by a failing call,
\* and leaves its journal open.
LEMMA CalmBoundError ==
    ASSUME IInv, PlansInv, Calm, Steady', NEW r \in Run, BoundError(r)
    PROVE  JournalOpen(r) /\ boot = "ready" /\ faults' # 0
<1>1. /\ op.kind = "bound" /\ op.run = r /\ faults' = faults + 1
      /\ op.step \in FaultPoints /\ (op.caller \/ RecoveryMayFail)
      /\ journal[r].phase # "none"
  BY BoundErrorRows, NeverStuck
<1>2. faults' # 0
  BY <1>1 DEF IInv, Typing, TypeOK
<1>3. "receipt" \notin FaultPoints /\ ~RecoveryMayFail
  BY <1>2 DEF Steady
<1> QED BY <1>1, <1>2, <1>3 DEF Calm, CallerInv, PlansInv, LockInv, ReceiptInv,
   JournalOpen

-----------------------------------------------------------------------------
(* A journal that is worked on, and the receipt.                           *)

\* The steps that move an open journal on without touching Git or the run.
JournalWork(r) == Reexamine(r) \/ RecordEffects(r) \/ RecordCommit(r)

\* They keep it open, on its base.
LEMMA JournalWorkRows ==
    ASSUME IInv, NEW r \in Run, JournalWork(r)
    PROVE  /\ op.kind = "bound" /\ op.run = r
           /\ op'.kind = "bound" /\ op'.run = r /\ op'.caller = op.caller
           /\ journal[r].phase \notin {"none", "completed"}
           /\ journal'[r].phase \notin {"none", "completed"}
           /\ journal'[r].base = journal[r].base
           /\ \A q \in Run \ {r} : journal'[q] = journal[q]
           /\ UNCHANGED <<run, workstream, plan, unbound, repoHead, repoHealth, log,
                          dirty, boot, todo, live, acked, crashes, faults>>
<1> USE DEF IInv, Typing
<1>1. CASE Reexamine(r)
  <2>1. op.kind = "bound" /\ op.run = r
    BY <1>1 DEF Reexamine, At
  <2> QED BY <1>1, <2>1, ReexamineRows
<1>2. CASE RecordEffects(r)
  <2>1. /\ op.kind = "bound" /\ op.run = r /\ journal[r].phase = "prepared"
        /\ journal' = [journal EXCEPT ![r].phase = "resource_effects_recorded"]
        /\ UNCHANGED <<run, workstream, plan, unbound, repoHead, repoHealth, log,
                       dirty, boot, todo, op, live, acked, crashes, faults>>
    BY <1>2 DEF RecordEffects, At, SetPhase, git, proc
  <2> QED BY <2>1 DEF TypeOK, JournalRow
<1>3. CASE RecordCommit(r)
  <2>1. /\ op.kind = "bound" /\ op.run = r /\ op.step = "committed"
        /\ journal' = [journal EXCEPT ![r] = [journal[r] EXCEPT
             !.phase = "context_committed", !.commit = journal[r].base + 1]]
        /\ op' = [op EXCEPT !.step = "journal"]
        /\ UNCHANGED <<run, workstream, plan, unbound, repoHead, repoHealth, log,
                       dirty, boot, todo, live, acked, crashes, faults>>
    BY <1>3 DEF RecordCommit, At, Step, git
  <2>2. journal[r].phase = "resource_effects_recorded"
    BY <2>1 DEF HistoryInv
  <2>3. /\ journal'[r].phase = "context_committed" /\ journal'[r].base = journal[r].base
        /\ \A q \in Run \ {r} : journal'[q] = journal[q]
    BY <2>1 DEF TypeOK, JournalRow
  <2>4. op'.kind = "bound" /\ op'.run = r /\ op'.caller = op.caller
    BY <2>1 DEF TypeOK
  <2> QED BY <2>1, <2>2, <2>3, <2>4
<1> QED BY <1>1, <1>2, <1>3 DEF JournalWork

\* The steps of a finalization that touch at most the working tree and Git.
GitWork(r) == WriteContext(r) \/ GitCommit(r) \/ RecogniseCommit(r)

\* They leave SQLite alone, and the operation with its run.
LEMMA GitWorkRows ==
    ASSUME IInv, NEW r \in Run, GitWork(r)
    PROVE  /\ op.kind = "bound" /\ op.run = r
           /\ op'.kind = "bound" /\ op'.run = r /\ op'.caller = op.caller
           /\ journal[r].phase = "resource_effects_recorded"
           /\ dirty' \in {NoRun, r, dirty}
           /\ log' # log => dirty' = NoRun
           /\ dirty' = dirty \/ dirty' = NoRun \/ Len(log) = journal[r].base
           /\ UNCHANGED <<run, workstream, plan, unbound, journal, repoHead, repoHealth,
                          boot, todo, live, acked, crashes, faults>>
<1> USE DEF IInv, Typing
<1>1. /\ op.kind = "bound" /\ op.run = r /\ \E l \in Points : op' = [op EXCEPT !.step = l]
      /\ journal[r].phase = "resource_effects_recorded"
      /\ dirty' \in {NoRun, r, dirty}
      /\ log' # log => dirty' = NoRun
      /\ dirty' = dirty \/ dirty' = NoRun \/ Len(log) = journal[r].base
      /\ UNCHANGED <<run, workstream, plan, unbound, journal, repoHead, repoHealth,
                     boot, todo, live, acked, crashes, faults>>
  BY DEF GitWork, WriteContext, GitCommit, RecogniseCommit, At, Step, Points, sqlite,
     git, HistoryInv, GitHead
<1>2. op'.kind = "bound" /\ op'.run = r /\ op'.caller = op.caller
  BY <1>1 DEF TypeOK
<1> QED BY <1>1, <1>2

\* An operation that is answered leaves neither a row nor a journal open.
LEMMA ReceiptRows ==
    ASSUME IInv, PlansInv, Calm, NEW r \in Run, Receipt(r)
    PROVE  /\ op.kind \in {"unbound", "bound"} /\ op.run = r
           /\ op'.kind = "idle" /\ todo' = todo \ {r}
           /\ ~UnboundOpen(r) /\ ~JournalOpen(r)
           /\ UNCHANGED <<run, workstream, plan, unbound, journal, repoHead, repoHealth,
                          log, dirty, boot, live, crashes, faults>>
<1>1. /\ op.kind \in {"unbound", "bound"} /\ op.run = r /\ op.step = "receipt"
      /\ op'.kind = "idle" /\ todo' = todo \ {r}
      /\ UNCHANGED <<run, workstream, plan, unbound, journal, repoHead, repoHealth,
                     log, dirty, boot, live, crashes, faults>>
  BY DEF Receipt, Finish, NoOp, sqlite, git
<1>2. UnboundOpen(r) => ~Bound(r)
  BY DEF UnboundOpen, Bound, IInv, LifeInv, Life
<1>3. journal[r].phase # "none" => Bound(r)
  BY RunAssumption DEF Bound, IInv, Typing, JournaledIsBound
<1>4. CASE op.kind = "unbound"
  <2>1. unbound[r].phase = "completed" /\ ~Bound(r)
    BY <1>1, <1>4 DEF Calm, RowInv, Bound, IInv, LifeInv, Life
  <2> QED BY <1>1, <1>3, <2>1 DEF UnboundOpen, JournalOpen
<1>5. CASE op.kind = "bound"
  <2>1. journal[r].phase = "completed"
    BY <1>1, <1>5 DEF PlansInv, LockInv, ReceiptInv
  <2> QED BY <1>1, <1>2, <1>3, <2>1 DEF JournalOpen
<1> QED BY <1>1, <1>4, <1>5

-----------------------------------------------------------------------------
(* Open rows and journals across a step.                                   *)

\* A step that writes the rows of one run.
LEMMA OpenFrame ==
    ASSUME Calm, NEW r \in Run,
           \A q \in Run \ {r} : /\ run'[q] = run[q] /\ unbound'[q] = unbound[q]
                                /\ journal'[q] = journal[q],
           (UnboundOpen(r) \/ JournalOpen(r))' => run'[r].status \in Blocking,
           run'[r].status = "recovery_required" => (UnboundOpen(r) \/ JournalOpen(r))',
           faults' = 0 => faults = 0 /\ run'[r].status # "recovery_required"
    PROVE  OpenInv'
BY DEF Calm, OpenInv, UnboundOpen, JournalOpen

\* A step that writes none of them.
LEMMA OpenSame ==
    ASSUME Calm, UNCHANGED <<run, unbound, journal, faults>>
    PROVE  OpenInv'
BY DEF Calm, OpenInv, UnboundOpen, JournalOpen

\* A row is open for an unbound run, a journal for a bound one.
LEMMA OpenApart ==
    ASSUME IInv, NEW r \in Run
    PROVE  /\ unbound[r].phase # "none" => ~Bound(r)
           /\ journal[r].phase # "none" => Bound(r)
           /\ run[r].status = "none" =>
                 unbound[r].phase = "none" /\ journal[r].phase = "none"
BY RunAssumption DEF Bound, IInv, Typing, JournaledIsBound, LifeInv, Life

\* Rows and journals stay open only for blocking runs, and every run that
\* recovery has to look at has one.
LEMMA OpenStep ==
    ASSUME IInv, PlansInv, Calm, Steady', [Next]_vars
    PROVE  OpenInv'
<1>1. ASSUME NEW s \in Streams, StartRun(s) PROVE OpenInv'
  <2>1. PICK r \in Run :
          /\ run[r].status = "none"
          /\ run' = [run EXCEPT ![r] = [run[r] EXCEPT !.status = "running", !.stream = s]]
          /\ UNCHANGED <<unbound, journal, faults>>
    BY <1>1 DEF StartRun
  <2>2. run'[r].status = "running" /\ \A q \in Run \ {r} : run'[q] = run[q]
    BY <2>1 DEF IInv, Typing, TypeOK, RunRow
  <2> QED BY <2>1, <2>2, OpenFrame DEF Blocking
<1>2. ASSUME NEW r \in Run, NEW w \in Workstreams, CreateWorkstream(r, w) PROVE OpenInv'
  BY <1>2, OpenSame DEF CreateWorkstream
<1>3. ASSUME NEW r \in Run, NEW w \in Workstreams, NEW c \in BOOLEAN,
             ActivateWorkstream(r, w, c)
      PROVE OpenInv'
  <2>1. Routing(r, w) /\ run[r].status = "running"
    BY <1>3 DEF ActivateWorkstream, Client, Routing
  <2> QED BY <2>1, RouteRows, OpenFrame DEF Blocking
<1>4. ASSUME NEW r \in Run, AdmitResources(r) PROVE OpenInv'
  BY <1>4, OpenSame DEF AdmitResources, proc
<1>5. ASSUME NEW r \in Run, NEW o \in Outcome, FinalizeUnbound(r, o) PROVE OpenInv'
  <2>1. /\ run[r].status = "running" /\ UNCHANGED <<run, journal, faults>>
        /\ \A q \in Run \ {r} : unbound'[q] = unbound[q]
    BY <1>5 DEF FinalizeUnbound, Client, IInv, Typing, TypeOK
  <2> QED BY <2>1, OpenFrame DEF Blocking
<1>6. ASSUME NEW r \in Run, NEW o \in Outcome, FinalizeDiscard(r, o) PROVE OpenInv'
  <2>1. Discarding(r)
    BY <1>6 DEF FinalizeDiscard, Discarding
  <2> QED BY <2>1, DiscardRows, OpenFrame DEF PlansInv, Blocking
<1>7. ASSUME NEW r \in Run, NEW o \in Outcome, NEW c \in BOOLEAN,
             FinalizeBound(r, o, c)
      PROVE OpenInv'
  <2>1. Preparing(r)
    BY <1>7, PreparingFor DEF FinalizeBound
  <2> QED BY <2>1, PrepareRows, OpenFrame DEF Blocking
<1>8. ASSUME NEW r \in Run, RefuseBound(r) PROVE OpenInv'
  BY <1>8, NothingRefused
<1>9. ASSUME NEW r \in Run, RetryUnbound(r) PROVE OpenInv'
  BY <1>9, OpenSame DEF RetryUnbound, sqlite
<1>10. ASSUME NEW r \in Run, RetryBound(r) PROVE OpenInv'
  BY <1>10, OpenSame DEF RetryBound, sqlite
<1>11. ASSUME NEW r \in Run, RouteCreated(r) PROVE OpenInv'
  <2>1. PICK w \in Workstreams : op.ws = w
    BY <1>11 DEF RouteCreated, At, IInv, Typing, OperationInv
  <2>2. Routing(r, w) /\ run[r].status = "running"
    BY <1>11, <2>1 DEF RouteCreated, Routing, At, IInv, Typing, OperationInv
  <2> QED BY <2>2, RouteRows, OpenFrame DEF Blocking
<1>12. ASSUME NEW r \in Run, RouteRefused(r) PROVE OpenInv'
  BY <1>12, OpenSame DEF RouteRefused, sqlite
<1>13. ASSUME NEW r \in Run, CompleteUnbound(r) PROVE OpenInv'
  <2>1. journal[r].phase = "none"
    BY <1>13, CompleteRows, OpenApart
  <2>2. ~(UnboundOpen(r) \/ JournalOpen(r))'
    BY <1>13, <2>1, CompleteRows DEF UnboundOpen, JournalOpen
  <2>3. run'[r].status # "recovery_required" /\ faults' = faults
    BY <1>13, CompleteRows DEF Outcome
  <2> QED BY <1>13, <2>2, <2>3, CompleteRows, OpenFrame
<1>14. ASSUME NEW r \in Run, UnboundError(r) PROVE OpenInv'
  <2>1. run[r].status \in Blocking
    BY <1>14, CalmUnboundError DEF Calm, OpenInv
  <2>2. run'[r].status \in Blocking
    BY <1>14, <2>1, UnboundErrorRows DEF Blocking
  <2>3. UnboundOpen(r)' /\ faults' # 0
    BY <1>14, UnboundErrorRows DEF UnboundOpen, IInv, Typing, TypeOK
  <2> QED BY <1>14, <2>2, <2>3, UnboundErrorRows, OpenFrame
<1>15. ASSUME NEW r \in Run, Receipt(r) PROVE OpenInv'
  BY <1>15, ReceiptRows, OpenSame
<1>16. ASSUME NEW r \in Run, Reexamine(r) PROVE OpenInv'
  <2>1. JournalWork(r)
    BY <1>16 DEF JournalWork
  <2>2. run[r].status \in Blocking
    BY <2>1, JournalWorkRows DEF Calm, OpenInv, JournalOpen
  <2>3. JournalOpen(r)'
    BY <2>1, JournalWorkRows DEF JournalOpen
  <2>4. faults = 0 => run[r].status # "recovery_required"
    BY DEF Calm, OpenInv
  <2> QED BY <2>1, <2>2, <2>3, <2>4, JournalWorkRows, OpenFrame
<1>17. ASSUME NEW r \in Run, RecordEffects(r) PROVE OpenInv'
  <2>1. JournalWork(r)
    BY <1>17 DEF JournalWork
  <2>2. run[r].status \in Blocking
    BY <2>1, JournalWorkRows DEF Calm, OpenInv, JournalOpen
  <2>3. JournalOpen(r)'
    BY <2>1, JournalWorkRows DEF JournalOpen
  <2>4. faults = 0 => run[r].status # "recovery_required"
    BY DEF Calm, OpenInv
  <2> QED BY <2>1, <2>2, <2>3, <2>4, JournalWorkRows, OpenFrame
<1>18. ASSUME NEW r \in Run, WriteContext(r) PROVE OpenInv'
  <2>1. GitWork(r)
    BY <1>18 DEF GitWork
  <2> QED BY <2>1, GitWorkRows, OpenSame
<1>19. ASSUME NEW r \in Run, GitCommit(r) PROVE OpenInv'
  <2>1. GitWork(r)
    BY <1>19 DEF GitWork
  <2> QED BY <2>1, GitWorkRows, OpenSame
<1>20. ASSUME NEW r \in Run, RecogniseCommit(r) PROVE OpenInv'
  <2>1. GitWork(r)
    BY <1>20 DEF GitWork
  <2> QED BY <2>1, GitWorkRows, OpenSame
<1>21. ASSUME NEW r \in Run, RecordCommit(r) PROVE OpenInv'
  <2>1. JournalWork(r)
    BY <1>21 DEF JournalWork
  <2>2. run[r].status \in Blocking
    BY <2>1, JournalWorkRows DEF Calm, OpenInv, JournalOpen
  <2>3. JournalOpen(r)'
    BY <2>1, JournalWorkRows DEF JournalOpen
  <2>4. faults = 0 => run[r].status # "recovery_required"
    BY DEF Calm, OpenInv
  <2> QED BY <2>1, <2>2, <2>3, <2>4, JournalWorkRows, OpenFrame
<1>22. ASSUME NEW r \in Run, Acknowledge(r) PROVE OpenInv'
  <2>1. unbound[r].phase = "none"
    BY <1>22, AcknowledgeRows, OpenApart
  <2>2. ~(UnboundOpen(r) \/ JournalOpen(r))'
    BY <1>22, <2>1, AcknowledgeRows DEF UnboundOpen, JournalOpen
  <2>3. run'[r].status # "recovery_required" /\ faults' = faults
    BY <1>22, AcknowledgeRows DEF Outcome
  <2>4. UNCHANGED unbound
    BY <1>22, AcknowledgeRows
  <2> QED BY <1>22, <2>2, <2>3, <2>4, AcknowledgeRows, OpenFrame
<1>23. ASSUME NEW r \in Run, BoundError(r) PROVE OpenInv'
  <2>1. run[r].status \in Blocking
    BY <1>23, CalmBoundError DEF Calm, OpenInv
  <2>2. run'[r].status \in Blocking
    BY <1>23, <2>1, BoundErrorRows DEF Blocking
  <2>3. JournalOpen(r)' /\ faults' # 0
    BY <1>23, BoundErrorRows, CalmBoundError DEF JournalOpen
  <2> QED BY <1>23, <2>2, <2>3, BoundErrorRows, OpenFrame
<1>24. ASSUME NEW r \in Run, RecoverUnbound(r) PROVE OpenInv'
  BY <1>24, OpenSame DEF RecoverUnbound, sqlite
<1>25. ASSUME NEW r \in Run, RecoverBound(r) PROVE OpenInv'
  BY <1>25, OpenSame DEF RecoverBound, sqlite
<1>26. ASSUME NEW r \in Run, RecoverInterrupted(r) PROVE OpenInv'
  <2>1. CASE Discarding(r)
    BY <2>1, DiscardRows, OpenFrame DEF PlansInv, Blocking
  <2>2. CASE Preparing(r)
    BY <2>2, PrepareRows, OpenFrame DEF Blocking
  <2> QED BY <1>26, <2>1, <2>2, InterruptedSteps
<1>27. ASSUME NEW r \in Run, SkipInterrupted(r) PROVE OpenInv'
  BY <1>27, SkipKeepsRun, SkipRows, OpenSame DEF IInv, Typing
<1>28. ASSUME NEW r \in Run, Sweep(r) PROVE OpenInv'
  <2>1. /\ \A q \in Run \ {r} : run'[q] = run[q]
        /\ UNCHANGED <<unbound, journal, faults>>
    BY <1>28, SweepRows DEF PlansInv
  <2>2. /\ run'[r].status # "recovery_required"
        /\ ~(UnboundOpen(r) \/ JournalOpen(r))'
    BY <1>28, <2>1, SweepCloses DEF Outcome, UnboundOpen, JournalOpen
  <2> QED BY <2>1, <2>2, OpenFrame
<1>29. ASSUME Boot PROVE OpenInv'
  BY <1>29, OpenSame DEF Boot
<1>30. ASSUME NextStage PROVE OpenInv'
  BY <1>30, OpenSame DEF NextStage, sqlite
<1>31. ASSUME Crash PROVE OpenInv'
  BY <1>31, OpenSame DEF Crash, sqlite
<1>32. ASSUME UNCHANGED vars PROVE OpenInv'
  BY <1>32, OpenSame DEF vars
<1> QED BY <1>1, <1>2, <1>3, <1>4, <1>5, <1>6, <1>7, <1>8, <1>9, <1>10, <1>11, <1>12,
           <1>13, <1>14, <1>15, <1>16, <1>17, <1>18, <1>19, <1>20, <1>21, <1>22, <1>23,
           <1>24, <1>25, <1>26, <1>27, <1>28, <1>29, <1>30, <1>31, <1>32
           DEF Next, Request, Continue, Recover

\* Unbound rows and the operation stay in step.
LEMMA RowStep ==
    ASSUME IInv, PlansInv, Calm, Steady', [Next]_vars
    PROVE  RowInv'
<1>0. RowInv
  BY DEF Calm
<1>1. ASSUME NEW s \in Streams, StartRun(s) PROVE RowInv'
  BY <1>0, <1>1 DEF StartRun, RowInv
<1>2. ASSUME NEW r \in Run, NEW w \in Workstreams, CreateWorkstream(r, w) PROVE RowInv'
  BY <1>0, <1>2 DEF CreateWorkstream, Client, Serving, Begin, RowInv
<1>3. ASSUME NEW r \in Run, NEW w \in Workstreams, NEW c \in BOOLEAN,
             ActivateWorkstream(r, w, c)
      PROVE RowInv'
  BY <1>0, <1>3 DEF ActivateWorkstream, Route, RowInv
<1>4. ASSUME NEW r \in Run, AdmitResources(r) PROVE RowInv'
  BY <1>0, <1>4 DEF AdmitResources, proc, RowInv
<1>5. ASSUME NEW r \in Run, NEW o \in Outcome, FinalizeUnbound(r, o) PROVE RowInv'
  BY <1>0, <1>5 DEF FinalizeUnbound, Client, Serving, Begin, IInv, Typing, TypeOK, RowInv
<1>6. ASSUME NEW r \in Run, NEW o \in Outcome, FinalizeDiscard(r, o) PROVE RowInv'
  <2>1. Discarding(r) /\ boot = "ready"
    BY <1>6 DEF FinalizeDiscard, Discarding, Client, Serving
  <2> QED BY <2>1, DiscardRows DEF PlansInv, RowInv
<1>7. ASSUME NEW r \in Run, NEW o \in Outcome, NEW c \in BOOLEAN,
             FinalizeBound(r, o, c)
      PROVE RowInv'
  <2>1. Preparing(r) /\ boot = "ready"
    BY <1>7, PreparingFor DEF FinalizeBound, Client, Serving
  <2> QED BY <2>1, PrepareRows DEF RowInv
<1>8. ASSUME NEW r \in Run, RefuseBound(r) PROVE RowInv'
  BY <1>8, NothingRefused
<1>9. ASSUME NEW r \in Run, RetryUnbound(r) PROVE RowInv'
  BY <1>0, <1>9 DEF RetryUnbound, Serving, Begin, sqlite, RowInv
<1>10. ASSUME NEW r \in Run, RetryBound(r) PROVE RowInv'
  BY <1>0, <1>10 DEF RetryBound, Serving, Begin, sqlite, RowInv
<1>11. ASSUME NEW r \in Run, RouteCreated(r) PROVE RowInv'
  <2>1. boot = "ready" /\ op'.kind = "idle" /\ boot' = boot
    BY <1>11 DEF RouteCreated, Route, At, NoOp, IInv, Typing, OperationInv
  <2> QED BY <2>1 DEF RowInv
<1>12. ASSUME NEW r \in Run, RouteRefused(r) PROVE RowInv'
  BY <1>0, <1>12 DEF RouteRefused, sqlite, At, NoOp, IInv, Typing, OperationInv, RowInv
<1>13. ASSUME NEW r \in Run, CompleteUnbound(r) PROVE RowInv'
  <2>1. todo \subseteq Run
    BY DEF IInv, Typing, TypeOK
  <2>2. ASSUME NEW q \in todo, boot = "unbound", unbound'[q].phase = "completed"
        PROVE  q = r
    BY <1>0, <1>13, <2>1, <2>2, CompleteRows DEF RowInv
  <2> QED BY <1>13, <2>2, CompleteRows DEF RowInv
<1>14. ASSUME NEW r \in Run, UnboundError(r) PROVE RowInv'
  BY <1>14, CalmUnboundError, UnboundErrorRows DEF RowInv
<1>15. ASSUME NEW r \in Run, Receipt(r) PROVE RowInv'
  BY <1>0, <1>15, ReceiptRows DEF RowInv
<1>16. ASSUME NEW r \in Run, Reexamine(r) PROVE RowInv'
  BY <1>0, <1>16, JournalWorkRows DEF JournalWork, RowInv
<1>17. ASSUME NEW r \in Run, RecordEffects(r) PROVE RowInv'
  BY <1>0, <1>17, JournalWorkRows DEF JournalWork, RowInv
<1>18. ASSUME NEW r \in Run, WriteContext(r) PROVE RowInv'
  BY <1>0, <1>18, GitWorkRows DEF GitWork, RowInv
<1>19. ASSUME NEW r \in Run, GitCommit(r) PROVE RowInv'
  BY <1>0, <1>19, GitWorkRows DEF GitWork, RowInv
<1>20. ASSUME NEW r \in Run, RecogniseCommit(r) PROVE RowInv'
  BY <1>0, <1>20, GitWorkRows DEF GitWork, RowInv
<1>21. ASSUME NEW r \in Run, RecordCommit(r) PROVE RowInv'
  BY <1>0, <1>21, JournalWorkRows DEF JournalWork, RowInv
<1>22. ASSUME NEW r \in Run, Acknowledge(r) PROVE RowInv'
  BY <1>0, <1>22, AcknowledgeRows DEF RowInv
<1>23. ASSUME NEW r \in Run, BoundError(r) PROVE RowInv'
  BY <1>23, CalmBoundError, BoundErrorRows DEF RowInv
<1>24. ASSUME NEW r \in Run, RecoverUnbound(r) PROVE RowInv'
  <2>1. /\ boot = "unbound" /\ op.kind = "idle" /\ r \in todo
        /\ op'.kind = "unbound" /\ op'.run = r /\ op'.step = "journal"
        /\ UNCHANGED <<unbound, boot, todo>>
    BY <1>24 DEF RecoverUnbound, Recovering, Idle, Begin, sqlite
  <2> QED BY <1>0, <2>1 DEF RowInv
<1>25. ASSUME NEW r \in Run, RecoverBound(r) PROVE RowInv'
  BY <1>0, <1>25 DEF RecoverBound, Recovering, Begin, sqlite, RowInv
<1>26. ASSUME NEW r \in Run, RecoverInterrupted(r) PROVE RowInv'
  <2>0. boot = "interrupted"
    BY <1>26 DEF RecoverInterrupted, Recovering
  <2>1. CASE Discarding(r)
    BY <2>0, <2>1, DiscardRows DEF PlansInv, RowInv
  <2>2. CASE Preparing(r)
    BY <2>0, <2>2, PrepareRows DEF RowInv
  <2> QED BY <1>26, <2>1, <2>2, InterruptedSteps
<1>27. ASSUME NEW r \in Run, SkipInterrupted(r) PROVE RowInv'
  BY <1>0, <1>27, SkipRows DEF RowInv, IInv, Typing
<1>28. ASSUME NEW r \in Run, Sweep(r) PROVE RowInv'
  <2>1. boot = "sweep"
    BY <1>28 DEF Sweep, Recovering
  <2> QED BY <1>0, <1>28, <2>1, SweepRows DEF RowInv, PlansInv
<1>29. ASSUME Boot PROVE RowInv'
  BY <1>0, <1>29 DEF Boot, OpenUnbound, RowInv
<1>30. ASSUME NextStage PROVE RowInv'
  BY <1>0, <1>30 DEF NextStage, sqlite, RowInv
<1>31. ASSUME Crash PROVE RowInv'
  BY <1>0, <1>31 DEF Crash, sqlite, NoOp, RowInv
<1>32. ASSUME UNCHANGED vars PROVE RowInv'
  BY <1>0, <1>32 DEF vars, RowInv
<1> QED BY <1>1, <1>2, <1>3, <1>4, <1>5, <1>6, <1>7, <1>8, <1>9, <1>10, <1>11, <1>12,
           <1>13, <1>14, <1>15, <1>16, <1>17, <1>18, <1>19, <1>20, <1>21, <1>22, <1>23,
           <1>24, <1>25, <1>26, <1>27, <1>28, <1>29, <1>30, <1>31, <1>32
           DEF Next, Request, Continue, Recover

-----------------------------------------------------------------------------
(* The two stores across a step.                                           *)

\* A step that touches neither the journals nor the stores' heads.
LEMMA QuietSame ==
    ASSUME Calm, UNCHANGED <<journal, repoHead, repoHealth, log, dirty>>
    PROVE  QuietInv'
BY DEF Calm, QuietInv, JournalOpen, GitHead, Clean

\* While one journal is open, it is the only one.
LEMMA QuietOpen ==
    ASSUME Alone', OpenInv', NEW r \in Run, JournalOpen(r)',
           repoHead' = journal'[r].base, dirty' \in {NoRun, r},
           GitHead' # repoHead' => dirty' = NoRun
    PROVE  QuietInv'
<1>1. ASSUME NEW q \in Run, JournalOpen(q)' PROVE q = r
  BY <1>1 DEF OpenInv, Alone
<1> QED BY <1>1 DEF QuietInv, Clean

\* The health follows the tree only where the heads agree.
LEMMA QuietHealth ==
    ASSUME Calm, EnsureRepository, UNCHANGED <<journal, repoHead, log, dirty>>
    PROVE  QuietInv'
BY DEF Calm, QuietInv, EnsureRepository, JournalOpen, GitHead, Clean

\* Between finalizations the two stores stay in step.
LEMMA QuietStep ==
    ASSUME IInv, PlansInv, Calm, Steady', Alone', OpenInv', [Next]_vars
    PROVE  QuietInv'
<1>0. ASSUME NEW r \in Run, Preparing(r) PROVE QuietInv'
  <2>1. repoHead = GitHead /\ Clean
    BY <1>0, PrepareRows, NothingOpen DEF Blocking, JournalOpen
  <2>2. JournalOpen(r)' /\ repoHead' = journal'[r].base /\ dirty' = NoRun /\ log' = log
    BY <1>0, <2>1, PrepareRows DEF JournalOpen, Clean
  <2>3. GitHead' = repoHead'
    BY <1>0, <2>1, <2>2, PrepareRows DEF GitHead
  <2> QED BY <2>2, <2>3, QuietOpen
<1>1. ASSUME NEW s \in Streams, StartRun(s) PROVE QuietInv'
  BY <1>1, QuietSame DEF StartRun, git
<1>2. ASSUME NEW r \in Run, NEW w \in Workstreams, CreateWorkstream(r, w)
      PROVE QuietInv'
  BY <1>2, QuietHealth DEF CreateWorkstream, git
<1>3. ASSUME NEW r \in Run, NEW w \in Workstreams, NEW c \in BOOLEAN,
             ActivateWorkstream(r, w, c)
      PROVE QuietInv'
  BY <1>3, QuietSame DEF ActivateWorkstream, Route, git
<1>4. ASSUME NEW r \in Run, AdmitResources(r) PROVE QuietInv'
  BY <1>4, QuietSame DEF AdmitResources, git
<1>5. ASSUME NEW r \in Run, NEW o \in Outcome, FinalizeUnbound(r, o) PROVE QuietInv'
  BY <1>5, QuietSame DEF FinalizeUnbound, git
<1>6. ASSUME NEW r \in Run, NEW o \in Outcome, FinalizeDiscard(r, o) PROVE QuietInv'
  BY <1>6, QuietSame DEF FinalizeDiscard, Discard, git
<1>7. ASSUME NEW r \in Run, NEW o \in Outcome, NEW c \in BOOLEAN,
             FinalizeBound(r, o, c)
      PROVE QuietInv'
  BY <1>0, <1>7, PreparingFor DEF FinalizeBound
<1>8. ASSUME NEW r \in Run, RefuseBound(r) PROVE QuietInv'
  BY <1>8, QuietSame DEF RefuseBound, git
<1>9. ASSUME NEW r \in Run, RetryUnbound(r) PROVE QuietInv'
  BY <1>9, QuietSame DEF RetryUnbound, sqlite, git
<1>10. ASSUME NEW r \in Run, RetryBound(r) PROVE QuietInv'
  BY <1>10, QuietSame DEF RetryBound, sqlite, git
<1>11. ASSUME NEW r \in Run, RouteCreated(r) PROVE QuietInv'
  BY <1>11, QuietSame DEF RouteCreated, Route, git
<1>12. ASSUME NEW r \in Run, RouteRefused(r) PROVE QuietInv'
  BY <1>12, QuietSame DEF RouteRefused, sqlite, git
<1>13. ASSUME NEW r \in Run, CompleteUnbound(r) PROVE QuietInv'
  BY <1>13, CompleteRows, QuietSame
<1>14. ASSUME NEW r \in Run, UnboundError(r) PROVE QuietInv'
  BY <1>14, UnboundErrorRows, QuietSame
<1>15. ASSUME NEW r \in Run, Receipt(r) PROVE QuietInv'
  BY <1>15, ReceiptRows, QuietSame
<1>16. ASSUME NEW r \in Run, Reexamine(r) PROVE QuietInv'
  <2>1. JournalWork(r)
    BY <1>16 DEF JournalWork
  <2>2. JournalOpen(r) /\ JournalOpen(r)'
    BY <2>1, JournalWorkRows DEF JournalOpen
  <2>3. /\ repoHead = journal[r].base /\ dirty \in {NoRun, r}
        /\ GitHead # repoHead => dirty = NoRun
    BY <2>2 DEF Calm, QuietInv, Clean
  <2>4. GitHead' = GitHead
    BY <2>1, JournalWorkRows DEF GitHead
  <2> QED BY <2>1, <2>2, <2>3, <2>4, JournalWorkRows, QuietOpen
<1>17. ASSUME NEW r \in Run, RecordEffects(r) PROVE QuietInv'
  <2>1. JournalWork(r)
    BY <1>17 DEF JournalWork
  <2>2. JournalOpen(r) /\ JournalOpen(r)'
    BY <2>1, JournalWorkRows DEF JournalOpen
  <2>3. /\ repoHead = journal[r].base /\ dirty \in {NoRun, r}
        /\ GitHead # repoHead => dirty = NoRun
    BY <2>2 DEF Calm, QuietInv, Clean
  <2>4. GitHead' = GitHead
    BY <2>1, JournalWorkRows DEF GitHead
  <2> QED BY <2>1, <2>2, <2>3, <2>4, JournalWorkRows, QuietOpen
<1>18. ASSUME NEW r \in Run, WriteContext(r) PROVE QuietInv'
  <2>1. GitWork(r)
    BY <1>18 DEF GitWork
  <2>2. JournalOpen(r) /\ JournalOpen(r)'
    BY <2>1, GitWorkRows DEF JournalOpen
  <2>3. /\ repoHead = journal[r].base /\ dirty \in {NoRun, r}
        /\ Len(log) # repoHead => dirty = NoRun
    BY <2>2 DEF Calm, QuietInv, Clean, GitHead
  <2>4. /\ dirty' \in {NoRun, r}
        /\ Len(log') # repoHead => dirty' = NoRun
    BY <2>1, <2>3, GitWorkRows
  <2> QED BY <2>1, <2>2, <2>3, <2>4, GitWorkRows, QuietOpen DEF GitHead
<1>19. ASSUME NEW r \in Run, GitCommit(r) PROVE QuietInv'
  <2>1. GitWork(r)
    BY <1>19 DEF GitWork
  <2>2. JournalOpen(r) /\ JournalOpen(r)'
    BY <2>1, GitWorkRows DEF JournalOpen
  <2>3. /\ repoHead = journal[r].base /\ dirty \in {NoRun, r}
        /\ Len(log) # repoHead => dirty = NoRun
    BY <2>2 DEF Calm, QuietInv, Clean, GitHead
  <2>4. /\ dirty' \in {NoRun, r}
        /\ Len(log') # repoHead => dirty' = NoRun
    BY <2>1, <2>3, GitWorkRows
  <2> QED BY <2>1, <2>2, <2>3, <2>4, GitWorkRows, QuietOpen DEF GitHead
<1>20. ASSUME NEW r \in Run, RecogniseCommit(r) PROVE QuietInv'
  <2>1. GitWork(r)
    BY <1>20 DEF GitWork
  <2>2. JournalOpen(r) /\ JournalOpen(r)'
    BY <2>1, GitWorkRows DEF JournalOpen
  <2>3. /\ repoHead = journal[r].base /\ dirty \in {NoRun, r}
        /\ Len(log) # repoHead => dirty = NoRun
    BY <2>2 DEF Calm, QuietInv, Clean, GitHead
  <2>4. /\ dirty' \in {NoRun, r}
        /\ Len(log') # repoHead => dirty' = NoRun
    BY <2>1, <2>3, GitWorkRows
  <2> QED BY <2>1, <2>2, <2>3, <2>4, GitWorkRows, QuietOpen DEF GitHead
<1>21. ASSUME NEW r \in Run, RecordCommit(r) PROVE QuietInv'
  <2>1. JournalWork(r)
    BY <1>21 DEF JournalWork
  <2>2. JournalOpen(r) /\ JournalOpen(r)'
    BY <2>1, JournalWorkRows DEF JournalOpen
  <2>3. /\ repoHead = journal[r].base /\ dirty \in {NoRun, r}
        /\ GitHead # repoHead => dirty = NoRun
    BY <2>2 DEF Calm, QuietInv, Clean
  <2>4. GitHead' = GitHead
    BY <2>1, JournalWorkRows DEF GitHead
  <2> QED BY <2>1, <2>2, <2>3, <2>4, JournalWorkRows, QuietOpen
<1>22. ASSUME NEW r \in Run, Acknowledge(r) PROVE QuietInv'
  <2>1. JournalOpen(r) /\ Acknowledgeable(r)
    BY <1>22, AcknowledgeRows DEF JournalOpen
  <2>2. repoHead = journal[r].base
    BY <2>1 DEF Calm, QuietInv
  <2>3. ASSUME NEW q \in Run, JournalOpen(q)' PROVE FALSE
    <3>1. q # r
      BY <1>22, <2>3, AcknowledgeRows DEF JournalOpen
    <3>2. JournalOpen(q)
      BY <1>22, <2>3, <3>1, AcknowledgeRows DEF JournalOpen
    <3> QED BY <2>1, <3>1, <3>2 DEF Calm, OpenInv, Alone
  <2>4. repoHead' = GitHead /\ GitHead' = GitHead /\ Clean' /\ repoHealth' = "ready"
    BY <1>22, <2>1, <2>2, AcknowledgeRows DEF Acknowledgeable, Clean, GitHead
  <2> QED BY <2>3, <2>4 DEF QuietInv
<1>23. ASSUME NEW r \in Run, BoundError(r) PROVE QuietInv'
  <2>1. JournalOpen(r) /\ JournalOpen(r)'
    BY <1>23, CalmBoundError, BoundErrorRows DEF JournalOpen
  <2>2. /\ repoHead = journal[r].base /\ dirty \in {NoRun, r}
        /\ GitHead # repoHead => dirty = NoRun
    BY <2>1 DEF Calm, QuietInv, Clean
  <2>3. GitHead' = GitHead
    BY <1>23, BoundErrorRows DEF GitHead
  <2> QED BY <1>23, <2>1, <2>2, <2>3, BoundErrorRows, QuietOpen
<1>24. ASSUME NEW r \in Run, RecoverUnbound(r) PROVE QuietInv'
  BY <1>24, QuietSame DEF RecoverUnbound, sqlite, git
<1>25. ASSUME NEW r \in Run, RecoverBound(r) PROVE QuietInv'
  BY <1>25, QuietSame DEF RecoverBound, sqlite, git
<1>26. ASSUME NEW r \in Run, RecoverInterrupted(r) PROVE QuietInv'
  <2>1. CASE Discarding(r)
    BY <2>1, DiscardRows, QuietSame DEF PlansInv
  <2> QED BY <1>0, <1>26, <2>1, InterruptedSteps
<1>27. ASSUME NEW r \in Run, SkipInterrupted(r) PROVE QuietInv'
  BY <1>27, QuietSame DEF SkipInterrupted, git
<1>28. ASSUME NEW r \in Run, Sweep(r) PROVE QuietInv'
  BY <1>28, QuietSame DEF Sweep, git
<1>29. ASSUME Boot PROVE QuietInv'
  BY <1>29, QuietHealth DEF Boot, git
<1>30. ASSUME NextStage PROVE QuietInv'
  BY <1>30, QuietSame DEF NextStage, sqlite, git
<1>31. ASSUME Crash PROVE QuietInv'
  BY <1>31, QuietSame DEF Crash, sqlite, git
<1>32. ASSUME UNCHANGED vars PROVE QuietInv'
  BY <1>32, QuietSame DEF vars
<1> QED BY <1>1, <1>2, <1>3, <1>4, <1>5, <1>6, <1>7, <1>8, <1>9, <1>10, <1>11, <1>12,
           <1>13, <1>14, <1>15, <1>16, <1>17, <1>18, <1>19, <1>20, <1>21, <1>22, <1>23,
           <1>24, <1>25, <1>26, <1>27, <1>28, <1>29, <1>30, <1>31, <1>32
           DEF Next, Request, Continue, Recover

\* A step after which every working run worked before, on the same rows.
LEMMA FirstRunFrame ==
    ASSUME Calm, repoHead' = repoHead,
           \A q \in Run : Working(q)' =>
               /\ Working(q) /\ run'[q].ws = run[q].ws /\ plan'[q].base = plan[q].base
               /\ workstream'[run[q].ws].lastCommit = workstream[run[q].ws].lastCommit
               /\ workstream'[run[q].ws].ahead = workstream[run[q].ws].ahead
    PROVE  FirstRunInv'
BY DEF Calm, FirstRunInv, Materialized

\* A step that leaves runs, plans, journals and workstreams alone.
LEMMA FirstRunSame ==
    ASSUME Calm, UNCHANGED <<run, plan, journal, workstream, repoHead>>
    PROVE  FirstRunInv'
BY FirstRunFrame DEF Working, Bound

\* A step after which no other run than r can be working.
LEMMA FirstRunOnly ==
    ASSUME Alone', NEW r \in Run, run'[r].status \in Blocking,
           (Working(r) /\ ~Materialized(run[r].ws))' =>
               plan'[r].base = repoHead' /\ workstream'[run'[r].ws].ahead # r
    PROVE  FirstRunInv'
<1>1. ASSUME NEW q \in Run, Working(q)' PROVE q = r
  BY <1>1 DEF Alone, Working, Blocking
<1> QED BY <1>1 DEF FirstRunInv

\* The first run of a workstream keeps its plan on SQLite's head.
LEMMA FirstRunStep ==
    ASSUME IInv, PlansInv, Calm, Steady', Alone', [Next]_vars
    PROVE  FirstRunInv'
<1>0. ASSUME NEW r \in Run, Preparing(r) PROVE FirstRunInv'
  <2>1. run'[r].status \in Blocking /\ ~Working(r)'
    BY <1>0, PrepareRows DEF Blocking, Working
  <2> QED BY <2>1, FirstRunOnly
<1>00. ASSUME NEW r \in Run, Discarding(r) PROVE FirstRunInv'
  <2>1. run'[r].status \in Blocking /\ ~Working(r)'
    BY <1>00, DiscardRows DEF PlansInv, Blocking, Working, Bound
  <2> QED BY <2>1, FirstRunOnly
<1>1. ASSUME NEW s \in Streams, StartRun(s) PROVE FirstRunInv'
  <2>1. PICK r \in Run :
          /\ run[r].status = "none"
          /\ run' = [run EXCEPT ![r] = [run[r] EXCEPT !.status = "running", !.stream = s]]
    BY <1>1 DEF StartRun
  <2>2. run'[r].ws = run[r].ws /\ run'[r].status = "running"
    BY <2>1 DEF IInv, Typing, TypeOK, RunRow
  <2>3. ~Working(r)'
    BY <2>1, <2>2 DEF Working, Bound, IInv, LifeInv, Life
  <2> QED BY <2>2, <2>3, FirstRunOnly DEF Blocking
<1>2. ASSUME NEW r \in Run, NEW w \in Workstreams, CreateWorkstream(r, w)
      PROVE FirstRunInv'
  <2>1. /\ UNCHANGED <<run, plan, journal, repoHead>>
        /\ workstream' = [workstream EXCEPT ![w] =
             [workstream[w] EXCEPT !.status = "initializing", !.creator = r]]
    BY <1>2 DEF CreateWorkstream
  <2>2. \A v \in Workstreams : /\ workstream'[v].lastCommit = workstream[v].lastCommit
                               /\ workstream'[v].ahead = workstream[v].ahead
    BY <2>1 DEF IInv, Typing, TypeOK, WorkstreamRow
  <2>3. \A q \in Run : Working(q)' => Working(q)
    BY <2>1 DEF Working, Bound
  <2> QED BY <2>1, <2>2, <2>3, WorkingPlan, FirstRunFrame
<1>3. ASSUME NEW r \in Run, NEW w \in Workstreams, NEW c \in BOOLEAN,
             ActivateWorkstream(r, w, c)
      PROVE FirstRunInv'
  <2>1. /\ Routing(r, w) /\ run[r].status = "running" /\ Routable(w)
        /\ boot = "ready" /\ op.kind = "idle"
    BY <1>3 DEF ActivateWorkstream, Client, Serving, Idle, Routing, Route
  <2>2. Materialized(w)
    BY <2>1 DEF Routable, Calm, InitializingInv, PlansInv, WorkstreamInv
  <2>3. Materialized(run[r].ws)'
    BY <2>1, <2>2, RouteRows DEF Materialized
  <2> QED BY <2>1, <2>3, RouteRows, FirstRunOnly DEF Blocking
<1>4. ASSUME NEW r \in Run, AdmitResources(r) PROVE FirstRunInv'
  <2>1. /\ UNCHANGED <<run, plan, journal, repoHead>>
        /\ workstream' = [workstream EXCEPT ![run[r].ws].evidence = TRUE]
    BY <1>4 DEF AdmitResources
  <2>2. \A v \in Workstreams : /\ workstream'[v].lastCommit = workstream[v].lastCommit
                               /\ workstream'[v].ahead = workstream[v].ahead
    BY <2>1 DEF IInv, Typing, TypeOK, WorkstreamRow
  <2>3. \A q \in Run : Working(q)' => Working(q)
    BY <2>1 DEF Working, Bound
  <2> QED BY <2>1, <2>2, <2>3, WorkingPlan, FirstRunFrame
<1>5. ASSUME NEW r \in Run, NEW o \in Outcome, FinalizeUnbound(r, o) PROVE FirstRunInv'
  BY <1>5, FirstRunSame DEF FinalizeUnbound
<1>6. ASSUME NEW r \in Run, NEW o \in Outcome, FinalizeDiscard(r, o) PROVE FirstRunInv'
  BY <1>00, <1>6 DEF FinalizeDiscard, Discarding
<1>7. ASSUME NEW r \in Run, NEW o \in Outcome, NEW c \in BOOLEAN,
             FinalizeBound(r, o, c)
      PROVE FirstRunInv'
  BY <1>0, <1>7, PreparingFor DEF FinalizeBound
<1>8. ASSUME NEW r \in Run, RefuseBound(r) PROVE FirstRunInv'
  BY <1>8, NothingRefused
<1>9. ASSUME NEW r \in Run, RetryUnbound(r) PROVE FirstRunInv'
  BY <1>9, FirstRunSame DEF RetryUnbound, sqlite
<1>10. ASSUME NEW r \in Run, RetryBound(r) PROVE FirstRunInv'
  BY <1>10, FirstRunSame DEF RetryBound, sqlite
<1>11. ASSUME NEW r \in Run, RouteCreated(r) PROVE FirstRunInv'
  <2>1. PICK w \in Workstreams : op.ws = w
    BY <1>11 DEF RouteCreated, At, IInv, Typing, OperationInv
  <2>2. /\ Routing(r, w) /\ run[r].status = "running" /\ op.kind = "route"
        /\ workstream' = [workstream EXCEPT ![w].ahead = workstream[w].ahead]
    BY <1>11, <2>1 DEF RouteCreated, Route, Routing, At, IInv, Typing, OperationInv
  <2>3. workstream'[w].ahead = workstream[w].ahead
    BY <2>2 DEF IInv, Typing, TypeOK, WorkstreamRow
  <2>4. workstream[w].ahead # r
    <3>1. run[r].ws # w
      BY <2>1, <2>2 DEF PlansInv, WorkstreamInv
    <3> QED BY <3>1, RunAssumption DEF PlansInv, RequestsMatchGit, Run
  <2>5. ~Materialized(w)
    BY <2>1, <2>2 DEF PlansInv, WorkstreamInv
  <2>6. plan'[r].base = repoHead /\ run'[r].ws = w /\ repoHead' = repoHead
        /\ run'[r].status = "running"
    BY <2>2, <2>5, RouteRows DEF WorkstreamHead
  <2> QED BY <2>3, <2>4, <2>6, FirstRunOnly DEF Blocking
<1>12. ASSUME NEW r \in Run, RouteRefused(r) PROVE FirstRunInv'
  BY <1>12, FirstRunSame DEF RouteRefused, sqlite
<1>13. ASSUME NEW r \in Run, CompleteUnbound(r) PROVE FirstRunInv'
  <2>1. \A q \in Run : Working(q)' => Working(q) /\ q # r
    BY <1>13, CompleteRows DEF Working, Bound, Outcome
  <2> QED BY <1>13, <2>1, CompleteRows, FirstRunFrame
<1>14. ASSUME NEW r \in Run, UnboundError(r) PROVE FirstRunInv'
  <2>1. \A q \in Run : Working(q)' => Working(q) /\ q # r
    BY <1>14, UnboundErrorRows DEF Working, Bound
  <2> QED BY <1>14, <2>1, UnboundErrorRows, FirstRunFrame
<1>15. ASSUME NEW r \in Run, Receipt(r) PROVE FirstRunInv'
  BY <1>15, ReceiptRows, FirstRunSame
<1>16. ASSUME NEW r \in Run, Reexamine(r) PROVE FirstRunInv'
  <2>1. JournalWork(r)
    BY <1>16 DEF JournalWork
  <2>2. \A q \in Run : Working(q)' => Working(q)
    BY <2>1, JournalWorkRows DEF Working, Bound
  <2> QED BY <2>1, <2>2, JournalWorkRows, FirstRunFrame
<1>17. ASSUME NEW r \in Run, RecordEffects(r) PROVE FirstRunInv'
  <2>1. JournalWork(r)
    BY <1>17 DEF JournalWork
  <2>2. \A q \in Run : Working(q)' => Working(q)
    BY <2>1, JournalWorkRows DEF Working, Bound
  <2> QED BY <2>1, <2>2, JournalWorkRows, FirstRunFrame
<1>18. ASSUME NEW r \in Run, WriteContext(r) PROVE FirstRunInv'
  <2>1. GitWork(r)
    BY <1>18 DEF GitWork
  <2> QED BY <2>1, GitWorkRows, FirstRunSame
<1>19. ASSUME NEW r \in Run, GitCommit(r) PROVE FirstRunInv'
  <2>1. GitWork(r)
    BY <1>19 DEF GitWork
  <2> QED BY <2>1, GitWorkRows, FirstRunSame
<1>20. ASSUME NEW r \in Run, RecogniseCommit(r) PROVE FirstRunInv'
  <2>1. GitWork(r)
    BY <1>20 DEF GitWork
  <2> QED BY <2>1, GitWorkRows, FirstRunSame
<1>21. ASSUME NEW r \in Run, RecordCommit(r) PROVE FirstRunInv'
  <2>1. JournalWork(r)
    BY <1>21 DEF JournalWork
  <2>2. \A q \in Run : Working(q)' => Working(q)
    BY <2>1, JournalWorkRows DEF Working, Bound
  <2> QED BY <2>1, <2>2, JournalWorkRows, FirstRunFrame
<1>22. ASSUME NEW r \in Run, Acknowledge(r) PROVE FirstRunInv'
  <2>1. run[r].status \in Blocking
    BY <1>22, AcknowledgeRows DEF Calm, OpenInv, JournalOpen
  <2>2. ASSUME NEW q \in Run, Working(q)' PROVE FALSE
    <3>1. q # r /\ run'[q] = run[q]
      BY <1>22, <2>2, AcknowledgeRows DEF Working, Outcome
    <3> QED BY <2>1, <2>2, <3>1 DEF Calm, Alone, Working, Blocking
  <2> QED BY <2>2 DEF FirstRunInv
<1>23. ASSUME NEW r \in Run, BoundError(r) PROVE FirstRunInv'
  <2>1. \A q \in Run : Working(q)' => Working(q) /\ q # r
    BY <1>23, BoundErrorRows DEF Working, Bound
  <2> QED BY <1>23, <2>1, BoundErrorRows, FirstRunFrame
<1>24. ASSUME NEW r \in Run, RecoverUnbound(r) PROVE FirstRunInv'
  BY <1>24, FirstRunSame DEF RecoverUnbound, sqlite
<1>25. ASSUME NEW r \in Run, RecoverBound(r) PROVE FirstRunInv'
  BY <1>25, FirstRunSame DEF RecoverBound, sqlite
<1>26. ASSUME NEW r \in Run, RecoverInterrupted(r) PROVE FirstRunInv'
  BY <1>0, <1>00, <1>26, InterruptedSteps
<1>27. ASSUME NEW r \in Run, SkipInterrupted(r) PROVE FirstRunInv'
  BY <1>27, SkipKeepsRun, SkipRows, FirstRunSame DEF IInv, Typing
<1>28. ASSUME NEW r \in Run, Sweep(r) PROVE FirstRunInv'
  <2>1. \A q \in Run : Working(q)' => Working(q) /\ q # r
    BY <1>28, SweepRows, SweepCloses DEF PlansInv, Working, Bound, Outcome
  <2> QED BY <1>28, <2>1, SweepRows, FirstRunFrame DEF PlansInv
<1>29. ASSUME Boot PROVE FirstRunInv'
  <2>1. UNCHANGED <<run, plan, journal, repoHead>>
    BY <1>29 DEF Boot
  <2>2. \A q \in Run : Working(q)' => Working(q)
    BY <2>1 DEF Working, Bound
  <2>3. \A q \in Run : run[q].ws \in Workstreams =>
           workstream'[run[q].ws] = workstream[run[q].ws]
    BY <1>29 DEF Boot
  <2> QED BY <2>1, <2>2, <2>3, WorkingPlan, FirstRunFrame
<1>30. ASSUME NextStage PROVE FirstRunInv'
  BY <1>30, FirstRunSame DEF NextStage, sqlite
<1>31. ASSUME Crash PROVE FirstRunInv'
  BY <1>31, FirstRunSame DEF Crash, sqlite
<1>32. ASSUME UNCHANGED vars PROVE FirstRunInv'
  BY <1>32, FirstRunSame DEF vars
<1> QED BY <1>1, <1>2, <1>3, <1>4, <1>5, <1>6, <1>7, <1>8, <1>9, <1>10, <1>11, <1>12,
           <1>13, <1>14, <1>15, <1>16, <1>17, <1>18, <1>19, <1>20, <1>21, <1>22, <1>23,
           <1>24, <1>25, <1>26, <1>27, <1>28, <1>29, <1>30, <1>31, <1>32
           DEF Next, Request, Continue, Recover

-----------------------------------------------------------------------------
(* The stages of recovery across a step.                                   *)

\* A step that unlocks no workstream and initializes none.
LEMMA InitializingFrame ==
    ASSUME Calm, boot' = boot \/ boot # "down",
           op.kind = "route" => op' = op,
           \A w \in Workstreams : workstream'[w].status = "initializing" =>
               workstream[w].status = "initializing" /\ (Locked(w) => Locked(w)')
    PROVE  InitializingInv'
BY DEF Calm, InitializingInv

\* Plans that stay open for the same workstream keep it locked.
LEMMA LockedKept ==
    ASSUME NEW w, \A q \in Run : PlanOpen(q) /\ run[q].ws = w =>
                      PlanOpen(q)' /\ run'[q].ws = w
    PROVE  Locked(w) => Locked(w)'
BY DEF Locked

\* A step that leaves plans, bindings and workstreams alone.
LEMMA InitializingSame ==
    ASSUME Calm, boot' = boot \/ boot # "down", op.kind = "route" => op' = op,
           UNCHANGED <<plan, workstream>>, \A q \in Run : run'[q].ws = run[q].ws
    PROVE  InitializingInv'
<1>1. ASSUME NEW w PROVE Locked(w) => Locked(w)'
  BY LockedKept DEF PlanOpen
<1> QED BY <1>1, InitializingFrame

\* No step leaves a workstream without a commit to nobody.
LEMMA InitializingStep ==
    ASSUME IInv, PlansInv, Calm, Steady', [Next]_vars
    PROVE  InitializingInv'
<1>a. ASSUME NEW r \in Run, Discarding(r), op.kind = "idle" PROVE InitializingInv'
  <2>1. \A w \in Workstreams : workstream'[w].status = "initializing" =>
           w # run[r].ws /\ workstream'[w] = workstream[w]
    BY <1>a, DiscardRows DEF PlansInv, NoWorkstreamRow
  <2>2. ASSUME NEW w \in Workstreams, w # run[r].ws PROVE Locked(w) => Locked(w)'
    BY <1>a, <2>2, DiscardRows, LockedKept DEF PlansInv, PlanOpen
  <2> QED BY <1>a, <2>1, <2>2, DiscardRows, InitializingFrame DEF PlansInv
<1>b. ASSUME NEW r \in Run, Preparing(r), op.kind = "idle" PROVE InitializingInv'
  <2>1. \A w \in Workstreams : workstream'[w].status = workstream[w].status
    BY <1>b, PrepareRows
  <2>2. ASSUME NEW w PROVE Locked(w) => Locked(w)'
    BY <1>b, PrepareRows, LockedKept DEF PlanOpen
  <2> QED BY <1>b, <2>1, <2>2, PrepareRows, InitializingFrame
<1>1. ASSUME NEW s \in Streams, StartRun(s) PROVE InitializingInv'
  <2>1. PICK r \in Run :
          run' = [run EXCEPT ![r] = [run[r] EXCEPT !.status = "running", !.stream = s]]
    BY <1>1 DEF StartRun
  <2>2. \A q \in Run : run'[q].ws = run[q].ws
    BY <2>1 DEF IInv, Typing, TypeOK, RunRow
  <2> QED BY <1>1, <2>2, InitializingSame DEF StartRun
<1>2. ASSUME NEW r \in Run, NEW w \in Workstreams, CreateWorkstream(r, w)
      PROVE InitializingInv'
  <2>1. /\ op.kind = "idle" /\ boot = "ready" /\ boot' = boot
        /\ op'.kind = "route" /\ op'.ws = w
        /\ \A v \in Workstreams \ {w} : workstream'[v] = workstream[v]
        /\ UNCHANGED <<run, plan>>
    BY <1>2 DEF CreateWorkstream, Client, Serving, Idle, Begin, IInv, Typing, TypeOK
  <2>2. ASSUME NEW v \in Workstreams PROVE Locked(v) => Locked(v)'
    BY <2>1, LockedKept DEF PlanOpen
  <2> QED BY <2>1, <2>2 DEF Calm, InitializingInv
<1>3. ASSUME NEW r \in Run, NEW w \in Workstreams, NEW c \in BOOLEAN,
             ActivateWorkstream(r, w, c)
      PROVE InitializingInv'
  <2>1. Routing(r, w) /\ ~Bound(r) /\ op' = op
    BY <1>3 DEF ActivateWorkstream, Client, Routing
  <2>2. \A v \in Workstreams : workstream'[v].status = workstream[v].status
    BY <2>1, RouteRows
  <2>3. ~PlanOpen(r)
    BY <2>1 DEF PlansInv, PlanInv, PlanOf, PlanOpen
  <2>4. ASSUME NEW v \in Workstreams PROVE Locked(v) => Locked(v)'
    BY <2>1, <2>3, RouteRows, LockedKept DEF PlanOpen
  <2> QED BY <2>1, <2>2, <2>4, RouteRows, InitializingFrame
<1>4. ASSUME NEW r \in Run, AdmitResources(r) PROVE InitializingInv'
  <2>1. /\ UNCHANGED <<run, plan, boot, op>>
        /\ workstream' = [workstream EXCEPT ![run[r].ws].evidence = TRUE]
    BY <1>4 DEF AdmitResources, proc
  <2>2. \A v \in Workstreams : workstream'[v].status = workstream[v].status
    BY <2>1 DEF IInv, Typing, TypeOK, WorkstreamRow
  <2>3. ASSUME NEW v \in Workstreams PROVE Locked(v) => Locked(v)'
    BY <2>1, LockedKept DEF PlanOpen
  <2> QED BY <2>1, <2>2, <2>3, InitializingFrame
<1>5. ASSUME NEW r \in Run, NEW o \in Outcome, FinalizeUnbound(r, o)
      PROVE InitializingInv'
  BY <1>5, InitializingSame DEF FinalizeUnbound, Client, Serving, Idle
<1>6. ASSUME NEW r \in Run, NEW o \in Outcome, FinalizeDiscard(r, o)
      PROVE InitializingInv'
  BY <1>a, <1>6 DEF FinalizeDiscard, Discarding, Client, Serving, Idle
<1>7. ASSUME NEW r \in Run, NEW o \in Outcome, NEW c \in BOOLEAN,
             FinalizeBound(r, o, c)
      PROVE InitializingInv'
  BY <1>b, <1>7, PreparingFor DEF FinalizeBound, Client, Serving, Idle
<1>8. ASSUME NEW r \in Run, RefuseBound(r) PROVE InitializingInv'
  BY <1>8, NothingRefused
<1>9. ASSUME NEW r \in Run, RetryUnbound(r) PROVE InitializingInv'
  BY <1>9, InitializingSame DEF RetryUnbound, sqlite, Serving, Idle
<1>10. ASSUME NEW r \in Run, RetryBound(r) PROVE InitializingInv'
  BY <1>10, InitializingSame DEF RetryBound, sqlite, Serving, Idle
<1>11. ASSUME NEW r \in Run, RouteCreated(r) PROVE InitializingInv'
  <2>1. PICK w \in Workstreams : op.ws = w
    BY <1>11 DEF RouteCreated, At, IInv, Typing, OperationInv
  <2>2. /\ Routing(r, w) /\ ~Bound(r) /\ op.kind = "route" /\ boot = "ready"
    BY <1>11, <2>1 DEF RouteCreated, Routing, At, IInv, Typing, OperationInv, PlansInv,
       WorkstreamInv
  <2>3. \A v \in Workstreams : workstream'[v].status = workstream[v].status
    BY <2>2, RouteRows
  <2>4. ~PlanOpen(r)
    BY <2>2 DEF PlansInv, PlanInv, PlanOf, PlanOpen
  <2>5. ASSUME NEW v \in Workstreams PROVE Locked(v) => Locked(v)'
    BY <2>2, <2>4, RouteRows, LockedKept DEF PlanOpen
  <2>6. Locked(w)'
    BY <2>2, RouteRows DEF Locked, PlanOpen
  <2> QED BY <2>1, <2>2, <2>3, <2>5, <2>6 DEF Calm, InitializingInv
<1>12. ASSUME NEW r \in Run, RouteRefused(r) PROVE InitializingInv'
  BY <1>12, CreatedIsRoutable
<1>13. ASSUME NEW r \in Run, CompleteUnbound(r) PROVE InitializingInv'
  <2>1. \A q \in Run : run'[q].ws = run[q].ws
    BY <1>13, CompleteRows
  <2> QED BY <1>13, <2>1, CompleteRows, InitializingSame
<1>14. ASSUME NEW r \in Run, UnboundError(r) PROVE InitializingInv'
  <2>1. \A q \in Run : run'[q].ws = run[q].ws
    BY <1>14, UnboundErrorRows
  <2> QED BY <1>14, <2>1, UnboundErrorRows, InitializingSame
<1>15. ASSUME NEW r \in Run, Receipt(r) PROVE InitializingInv'
  BY <1>15, ReceiptRows, InitializingSame
<1>16. ASSUME NEW r \in Run, Reexamine(r) PROVE InitializingInv'
  BY <1>16, JournalWorkRows, InitializingSame DEF JournalWork
<1>17. ASSUME NEW r \in Run, RecordEffects(r) PROVE InitializingInv'
  BY <1>17, JournalWorkRows, InitializingSame DEF JournalWork
<1>18. ASSUME NEW r \in Run, WriteContext(r) PROVE InitializingInv'
  BY <1>18, GitWorkRows, InitializingSame DEF GitWork
<1>19. ASSUME NEW r \in Run, GitCommit(r) PROVE InitializingInv'
  BY <1>19, GitWorkRows, InitializingSame DEF GitWork
<1>20. ASSUME NEW r \in Run, RecogniseCommit(r) PROVE InitializingInv'
  BY <1>20, GitWorkRows, InitializingSame DEF GitWork
<1>21. ASSUME NEW r \in Run, RecordCommit(r) PROVE InitializingInv'
  BY <1>21, JournalWorkRows, InitializingSame DEF JournalWork
<1>22. ASSUME NEW r \in Run, Acknowledge(r) PROVE InitializingInv'
  <2>1. \A w \in Workstreams : workstream'[w].status = "initializing" =>
           w # run[r].ws /\ workstream'[w] = workstream[w]
    BY <1>22, AcknowledgeRows
  <2>2. ASSUME NEW w \in Workstreams, w # run[r].ws PROVE Locked(w) => Locked(w)'
    <3>1. ASSUME NEW q \in Run, PlanOpen(q), run[q].ws = w
          PROVE  PlanOpen(q)' /\ run'[q].ws = w
      BY <1>22, <2>2, <3>1, AcknowledgeRows DEF PlanOpen
    <3> QED BY <3>1, LockedKept
  <2> QED BY <1>22, <2>1, <2>2, AcknowledgeRows, InitializingFrame
<1>23. ASSUME NEW r \in Run, BoundError(r) PROVE InitializingInv'
  <2>1. ASSUME NEW w PROVE Locked(w) => Locked(w)'
    BY <1>23, BoundErrorRows, LockedKept DEF PlanOpen
  <2> QED BY <1>23, <2>1, BoundErrorRows, InitializingFrame
<1>24. ASSUME NEW r \in Run, RecoverUnbound(r) PROVE InitializingInv'
  BY <1>24, InitializingSame DEF RecoverUnbound, sqlite, Recovering, Idle
<1>25. ASSUME NEW r \in Run, RecoverBound(r) PROVE InitializingInv'
  BY <1>25, InitializingSame DEF RecoverBound, sqlite, Recovering, Idle
<1>26. ASSUME NEW r \in Run, RecoverInterrupted(r) PROVE InitializingInv'
  <2>1. op.kind = "idle"
    BY <1>26 DEF RecoverInterrupted, Recovering, Idle
  <2> QED BY <1>a, <1>b, <1>26, <2>1, InterruptedSteps
<1>27. ASSUME NEW r \in Run, SkipInterrupted(r) PROVE InitializingInv'
  BY <1>27, SkipKeepsRun, SkipRows, InitializingSame DEF IInv, Typing
<1>28. ASSUME NEW r \in Run, Sweep(r) PROVE InitializingInv'
  <2>1. \A q \in Run : run'[q].ws = run[q].ws
    BY <1>28, SweepRows DEF PlansInv
  <2> QED BY <1>28, <2>1, SweepRows, InitializingSame DEF PlansInv
<1>29. ASSUME Boot PROVE InitializingInv'
  <2>1. UNCHANGED <<run, plan>>
    BY <1>29 DEF Boot
  <2>2. ASSUME NEW w \in Workstreams, workstream'[w].status = "initializing"
        PROVE  Locked(w)'
    <3>1. workstream[w].status = "initializing" /\ \E q \in Run : run[q].ws = w
      BY <1>29, <2>2 DEF Boot, NoWorkstreamRow
    <3>2. PICK q \in Run : run[q].ws = w
      BY <3>1
    <3>3. plan[q].phase \notin {"none", "discarded", "committed"}
      BY <3>1, <3>2, RunAssumption DEF PlansInv, PlanInv, PlanOf, WorkstreamInv, Bound
    <3> QED BY <2>1, <3>2, <3>3 DEF Locked, PlanOpen, IInv, Typing, TypeOK, PlanRow
  <2> QED BY <2>2 DEF InitializingInv
<1>30. ASSUME NextStage PROVE InitializingInv'
  BY <1>30, InitializingSame DEF NextStage, sqlite
<1>31. ASSUME Crash PROVE InitializingInv'
  BY <1>31 DEF Crash, InitializingInv
<1>32. ASSUME UNCHANGED vars PROVE InitializingInv'
  BY <1>32, InitializingSame DEF vars
<1> QED BY <1>1, <1>2, <1>3, <1>4, <1>5, <1>6, <1>7, <1>8, <1>9, <1>10, <1>11, <1>12,
           <1>13, <1>14, <1>15, <1>16, <1>17, <1>18, <1>19, <1>20, <1>21, <1>22, <1>23,
           <1>24, <1>25, <1>26, <1>27, <1>28, <1>29, <1>30, <1>31, <1>32
           DEF Next, Request, Continue, Recover

\* Before the process is ready, nothing runs for a caller.
LEMMA CallerStep ==
    ASSUME IInv, PlansInv, Calm, [Next]_vars
    PROVE  CallerInv'
<1>0. CallerInv
  BY DEF Calm
<1>1. ASSUME NEW s \in Streams, StartRun(s) PROVE CallerInv'
  BY <1>0, <1>1 DEF StartRun, CallerInv
<1>2. ASSUME NEW r \in Run, NEW w \in Workstreams, CreateWorkstream(r, w)
      PROVE CallerInv'
  BY <1>0, <1>2 DEF CreateWorkstream, Client, Serving, CallerInv
<1>3. ASSUME NEW r \in Run, NEW w \in Workstreams, NEW c \in BOOLEAN,
             ActivateWorkstream(r, w, c)
      PROVE CallerInv'
  BY <1>0, <1>3 DEF ActivateWorkstream, Route, CallerInv
<1>4. ASSUME NEW r \in Run, AdmitResources(r) PROVE CallerInv'
  BY <1>0, <1>4 DEF AdmitResources, proc, CallerInv
<1>5. ASSUME NEW r \in Run, NEW o \in Outcome, FinalizeUnbound(r, o) PROVE CallerInv'
  BY <1>0, <1>5 DEF FinalizeUnbound, Client, Serving, CallerInv
<1>6. ASSUME NEW r \in Run, NEW o \in Outcome, FinalizeDiscard(r, o) PROVE CallerInv'
  BY <1>0, <1>6 DEF FinalizeDiscard, Client, Serving, Discard, CallerInv
<1>7. ASSUME NEW r \in Run, NEW o \in Outcome, NEW c \in BOOLEAN,
             FinalizeBound(r, o, c)
      PROVE CallerInv'
  BY <1>0, <1>7 DEF FinalizeBound, Client, Serving, Prepare, CallerInv
<1>8. ASSUME NEW r \in Run, RefuseBound(r) PROVE CallerInv'
  BY <1>0, <1>8 DEF RefuseBound, proc, CallerInv
<1>9. ASSUME NEW r \in Run, RetryUnbound(r) PROVE CallerInv'
  BY <1>0, <1>9 DEF RetryUnbound, Serving, CallerInv
<1>10. ASSUME NEW r \in Run, RetryBound(r) PROVE CallerInv'
  BY <1>0, <1>10 DEF RetryBound, Serving, CallerInv
<1>11. ASSUME NEW r \in Run, RouteCreated(r) PROVE CallerInv'
  BY <1>0, <1>11 DEF RouteCreated, NoOp, CallerInv
<1>12. ASSUME NEW r \in Run, RouteRefused(r) PROVE CallerInv'
  BY <1>0, <1>12 DEF RouteRefused, NoOp, CallerInv
<1>13. ASSUME NEW r \in Run, CompleteUnbound(r) PROVE CallerInv'
  BY <1>0, <1>13 DEF CompleteUnbound, At, IInv, Typing, TypeOK, CallerInv
<1>14. ASSUME NEW r \in Run, UnboundError(r) PROVE CallerInv'
  BY <1>14, UnboundErrorRows DEF CallerInv
<1>15. ASSUME NEW r \in Run, Receipt(r) PROVE CallerInv'
  BY <1>15, ReceiptRows DEF CallerInv
<1>16. ASSUME NEW r \in Run, Reexamine(r) PROVE CallerInv'
  BY <1>0, <1>16, JournalWorkRows DEF JournalWork, CallerInv
<1>17. ASSUME NEW r \in Run, RecordEffects(r) PROVE CallerInv'
  BY <1>0, <1>17, JournalWorkRows DEF JournalWork, CallerInv
<1>18. ASSUME NEW r \in Run, WriteContext(r) PROVE CallerInv'
  BY <1>0, <1>18, GitWorkRows DEF GitWork, CallerInv
<1>19. ASSUME NEW r \in Run, GitCommit(r) PROVE CallerInv'
  BY <1>0, <1>19, GitWorkRows DEF GitWork, CallerInv
<1>20. ASSUME NEW r \in Run, RecogniseCommit(r) PROVE CallerInv'
  BY <1>0, <1>20, GitWorkRows DEF GitWork, CallerInv
<1>21. ASSUME NEW r \in Run, RecordCommit(r) PROVE CallerInv'
  BY <1>0, <1>21, JournalWorkRows DEF JournalWork, CallerInv
<1>22. ASSUME NEW r \in Run, Acknowledge(r) PROVE CallerInv'
  BY <1>0, <1>22 DEF Acknowledge, At, Step, IInv, Typing, TypeOK, CallerInv
<1>23. ASSUME NEW r \in Run, BoundError(r) PROVE CallerInv'
  BY <1>23, BoundErrorRows DEF CallerInv
<1>24. ASSUME NEW r \in Run, RecoverUnbound(r) PROVE CallerInv'
  BY <1>0, <1>24 DEF RecoverUnbound, Begin, CallerInv
<1>25. ASSUME NEW r \in Run, RecoverBound(r) PROVE CallerInv'
  BY <1>0, <1>25 DEF RecoverBound, Begin, CallerInv
<1>26. ASSUME NEW r \in Run, RecoverInterrupted(r) PROVE CallerInv'
  BY <1>0, <1>26 DEF RecoverInterrupted, Discard, Prepare, Begin, CallerInv
<1>27. ASSUME NEW r \in Run, SkipInterrupted(r) PROVE CallerInv'
  BY <1>0, <1>27 DEF SkipInterrupted, CallerInv
<1>28. ASSUME NEW r \in Run, Sweep(r) PROVE CallerInv'
  BY <1>0, <1>28 DEF Sweep, CallerInv
<1>29. ASSUME Boot PROVE CallerInv'
  BY <1>0, <1>29 DEF Boot, CallerInv
<1>30. ASSUME NextStage PROVE CallerInv'
  BY <1>0, <1>30 DEF NextStage, Idle, CallerInv
<1>31. ASSUME Crash PROVE CallerInv'
  BY <1>0, <1>31 DEF Crash, NoOp, CallerInv
<1>32. ASSUME UNCHANGED vars PROVE CallerInv'
  BY <1>0, <1>32 DEF vars, CallerInv
<1> QED BY <1>1, <1>2, <1>3, <1>4, <1>5, <1>6, <1>7, <1>8, <1>9, <1>10, <1>11, <1>12,
           <1>13, <1>14, <1>15, <1>16, <1>17, <1>18, <1>19, <1>20, <1>21, <1>22, <1>23,
           <1>24, <1>25, <1>26, <1>27, <1>28, <1>29, <1>30, <1>31, <1>32
           DEF Next, Request, Continue, Recover

\* While the process serves or is down, no stage is under way.
LEMMA StagesServing ==
    ASSUME boot' \in {"ready", "down"}
    PROVE  StagesInv'
BY DEF StagesInv

\* A step of an operation that leaves the list alone and keeps the same rows and
\* journals open.
LEMMA StagesFrame ==
    ASSUME Calm, UNCHANGED <<boot, todo>>, boot # "sweep",
           op'.kind = op.kind, op'.run = op.run,
           \A q \in Run : UnboundOpen(q)' => UnboundOpen(q),
           \A q \in Run : JournalOpen(q)' => JournalOpen(q)
    PROVE  StagesInv'
BY DEF Calm, StagesInv

\* Each stage of recovery gets through its rows before the next one begins.
LEMMA StagesStep ==
    ASSUME IInv, PlansInv, Calm, Steady', [Next]_vars
    PROVE  StagesInv'
<1>0. StagesInv
  BY DEF Calm
<1>a. op.kind # "idle" => boot # "sweep"
  BY DEF IInv, Typing, StageInv
<1>1. ASSUME NEW s \in Streams, StartRun(s) PROVE StagesInv'
  BY <1>1, StagesServing DEF StartRun, Serving
<1>2. ASSUME NEW r \in Run, NEW w \in Workstreams, CreateWorkstream(r, w)
      PROVE StagesInv'
  BY <1>2, StagesServing DEF CreateWorkstream, Client, Serving
<1>3. ASSUME NEW r \in Run, NEW w \in Workstreams, NEW c \in BOOLEAN,
             ActivateWorkstream(r, w, c)
      PROVE StagesInv'
  BY <1>3, StagesServing DEF ActivateWorkstream, Client, Serving, Route
<1>4. ASSUME NEW r \in Run, AdmitResources(r) PROVE StagesInv'
  BY <1>4, StagesServing DEF AdmitResources, Client, Serving, proc
<1>5. ASSUME NEW r \in Run, NEW o \in Outcome, FinalizeUnbound(r, o) PROVE StagesInv'
  BY <1>5, StagesServing DEF FinalizeUnbound, Client, Serving
<1>6. ASSUME NEW r \in Run, NEW o \in Outcome, FinalizeDiscard(r, o) PROVE StagesInv'
  BY <1>6, StagesServing DEF FinalizeDiscard, Client, Serving, Discard
<1>7. ASSUME NEW r \in Run, NEW o \in Outcome, NEW c \in BOOLEAN,
             FinalizeBound(r, o, c)
      PROVE StagesInv'
  BY <1>7, StagesServing DEF FinalizeBound, Client, Serving, Prepare
<1>8. ASSUME NEW r \in Run, RefuseBound(r) PROVE StagesInv'
  BY <1>8, StagesServing DEF RefuseBound, Client, Serving, proc
<1>9. ASSUME NEW r \in Run, RetryUnbound(r) PROVE StagesInv'
  BY <1>9, StagesServing DEF RetryUnbound, Serving
<1>10. ASSUME NEW r \in Run, RetryBound(r) PROVE StagesInv'
  BY <1>10, StagesServing DEF RetryBound, Serving
<1>11. ASSUME NEW r \in Run, RouteCreated(r) PROVE StagesInv'
  BY <1>11, StagesServing DEF RouteCreated, At, Route, IInv, Typing, OperationInv
<1>12. ASSUME NEW r \in Run, RouteRefused(r) PROVE StagesInv'
  BY <1>12, StagesServing DEF RouteRefused, At, IInv, Typing, OperationInv
<1>13. ASSUME NEW r \in Run, CompleteUnbound(r) PROVE StagesInv'
  <2>1. /\ \A q \in Run : UnboundOpen(q)' => UnboundOpen(q)
        /\ \A q \in Run : JournalOpen(q)' => JournalOpen(q)
    BY <1>13, CompleteRows DEF UnboundOpen, JournalOpen
  <2> QED BY <1>a, <1>13, <2>1, CompleteRows, StagesFrame
<1>14. ASSUME NEW r \in Run, UnboundError(r) PROVE StagesInv'
  BY <1>14, CalmUnboundError, UnboundErrorRows, StagesServing
<1>15. ASSUME NEW r \in Run, Receipt(r) PROVE StagesInv'
  <2>1. /\ op.run = r /\ op.kind # "idle" /\ todo' = todo \ {r} /\ boot' = boot
        /\ \A q \in Run : UnboundOpen(q)' => UnboundOpen(q) /\ q # r
        /\ \A q \in Run : JournalOpen(q)' => JournalOpen(q) /\ q # r
    BY <1>15, ReceiptRows DEF UnboundOpen, JournalOpen
  <2> QED BY <1>0, <1>a, <2>1 DEF StagesInv
<1>16. ASSUME NEW r \in Run, Reexamine(r) PROVE StagesInv'
  <2>1. JournalWork(r)
    BY <1>16 DEF JournalWork
  <2>2. /\ \A q \in Run : UnboundOpen(q)' => UnboundOpen(q)
        /\ \A q \in Run : JournalOpen(q)' => JournalOpen(q)
    BY <2>1, JournalWorkRows DEF UnboundOpen, JournalOpen
  <2> QED BY <1>a, <2>1, <2>2, JournalWorkRows, StagesFrame
<1>17. ASSUME NEW r \in Run, RecordEffects(r) PROVE StagesInv'
  <2>1. JournalWork(r)
    BY <1>17 DEF JournalWork
  <2>2. /\ \A q \in Run : UnboundOpen(q)' => UnboundOpen(q)
        /\ \A q \in Run : JournalOpen(q)' => JournalOpen(q)
    BY <2>1, JournalWorkRows DEF UnboundOpen, JournalOpen
  <2> QED BY <1>a, <2>1, <2>2, JournalWorkRows, StagesFrame
<1>18. ASSUME NEW r \in Run, WriteContext(r) PROVE StagesInv'
  <2>1. GitWork(r)
    BY <1>18 DEF GitWork
  <2>2. /\ \A q \in Run : UnboundOpen(q)' => UnboundOpen(q)
        /\ \A q \in Run : JournalOpen(q)' => JournalOpen(q)
    BY <2>1, GitWorkRows DEF UnboundOpen, JournalOpen
  <2> QED BY <1>a, <2>1, <2>2, GitWorkRows, StagesFrame
<1>19. ASSUME NEW r \in Run, GitCommit(r) PROVE StagesInv'
  <2>1. GitWork(r)
    BY <1>19 DEF GitWork
  <2>2. /\ \A q \in Run : UnboundOpen(q)' => UnboundOpen(q)
        /\ \A q \in Run : JournalOpen(q)' => JournalOpen(q)
    BY <2>1, GitWorkRows DEF UnboundOpen, JournalOpen
  <2> QED BY <1>a, <2>1, <2>2, GitWorkRows, StagesFrame
<1>20. ASSUME NEW r \in Run, RecogniseCommit(r) PROVE StagesInv'
  <2>1. GitWork(r)
    BY <1>20 DEF GitWork
  <2>2. /\ \A q \in Run : UnboundOpen(q)' => UnboundOpen(q)
        /\ \A q \in Run : JournalOpen(q)' => JournalOpen(q)
    BY <2>1, GitWorkRows DEF UnboundOpen, JournalOpen
  <2> QED BY <1>a, <2>1, <2>2, GitWorkRows, StagesFrame
<1>21. ASSUME NEW r \in Run, RecordCommit(r) PROVE StagesInv'
  <2>1. JournalWork(r)
    BY <1>21 DEF JournalWork
  <2>2. /\ \A q \in Run : UnboundOpen(q)' => UnboundOpen(q)
        /\ \A q \in Run : JournalOpen(q)' => JournalOpen(q)
    BY <2>1, JournalWorkRows DEF UnboundOpen, JournalOpen
  <2> QED BY <1>a, <2>1, <2>2, JournalWorkRows, StagesFrame
<1>22. ASSUME NEW r \in Run, Acknowledge(r) PROVE StagesInv'
  <2>1. /\ \A q \in Run : UnboundOpen(q)' => UnboundOpen(q)
        /\ \A q \in Run : JournalOpen(q)' => JournalOpen(q)
    BY <1>22, AcknowledgeRows DEF UnboundOpen, JournalOpen
  <2> QED BY <1>a, <1>22, <2>1, AcknowledgeRows, StagesFrame
<1>23. ASSUME NEW r \in Run, BoundError(r) PROVE StagesInv'
  BY <1>23, CalmBoundError, BoundErrorRows, StagesServing
<1>24. ASSUME NEW r \in Run, RecoverUnbound(r) PROVE StagesInv'
  <2>1. boot = "unbound" /\ UNCHANGED <<boot, todo, unbound>>
    BY <1>24 DEF RecoverUnbound, Recovering, sqlite
  <2> QED BY <1>0, <2>1 DEF StagesInv, UnboundOpen
<1>25. ASSUME NEW r \in Run, RecoverBound(r) PROVE StagesInv'
  <2>1. boot = "bound" /\ op.kind = "idle" /\ UNCHANGED <<boot, todo, unbound, journal>>
    BY <1>25 DEF RecoverBound, Recovering, Idle, sqlite
  <2> QED BY <1>0, <2>1 DEF StagesInv, UnboundOpen, JournalOpen
<1>26. ASSUME NEW r \in Run, RecoverInterrupted(r) PROVE StagesInv'
  <2>1. boot = "interrupted" /\ op.kind = "idle"
    BY <1>26 DEF RecoverInterrupted, Recovering, Idle
  <2>2. \A q \in Run : ~UnboundOpen(q) /\ ~JournalOpen(q)
    BY <1>0, <2>1 DEF StagesInv
  <2>3. CASE Discarding(r)
    <3>1. /\ \A q \in Run : UnboundOpen(q)' => q = r
          /\ \A q \in Run : ~JournalOpen(q)'
          /\ boot' = "interrupted" /\ op'.kind = "unbound" /\ op'.run = r
      BY <2>1, <2>2, <2>3, DiscardRows DEF PlansInv, UnboundOpen, JournalOpen
    <3> QED BY <3>1 DEF StagesInv
  <2>4. CASE Preparing(r)
    <3>1. /\ \A q \in Run : JournalOpen(q)' => q = r
          /\ \A q \in Run : ~UnboundOpen(q)'
          /\ boot' = "interrupted" /\ op'.kind = "bound" /\ op'.run = r
      BY <2>1, <2>2, <2>4, PrepareRows DEF UnboundOpen, JournalOpen
    <3> QED BY <3>1 DEF StagesInv
  <2> QED BY <1>26, <2>3, <2>4, InterruptedSteps
<1>27. ASSUME NEW r \in Run, SkipInterrupted(r) PROVE StagesInv'
  <2>1. boot = "interrupted" /\ UNCHANGED <<boot, op, unbound, journal>>
    BY <1>27, SkipRows DEF IInv, Typing
  <2> QED BY <1>0, <2>1 DEF StagesInv, UnboundOpen, JournalOpen
<1>28. ASSUME NEW r \in Run, Sweep(r) PROVE StagesInv'
  <2>1. /\ boot = "sweep" /\ UNCHANGED <<boot, op, unbound, journal>>
        /\ \A q \in Run \ {r} : run'[q] = run[q]
        /\ todo' = todo \ {r}
    BY <1>28, SweepRows DEF PlansInv, Sweep, Recovering
  <2>2. run'[r].status \notin Blocking
    BY <1>28, SweepCloses DEF Outcome, Blocking
  <2> QED BY <1>0, <2>1, <2>2 DEF StagesInv, UnboundOpen, JournalOpen
<1>29. ASSUME Boot PROVE StagesInv'
  <2>1. boot' = "unbound" /\ todo' = OpenUnbound /\ UNCHANGED unbound
    BY <1>29 DEF Boot
  <2> QED BY <2>1 DEF StagesInv, OpenUnbound, UnboundOpen
<1>30. ASSUME NextStage PROVE StagesInv'
  <2>1. op.kind = "idle" /\ todo = {} /\ UNCHANGED <<run, unbound, journal, op>>
    BY <1>30 DEF NextStage, Idle, sqlite
  <2>2. CASE boot = "unbound" /\ boot' = "bound" /\ todo' = OpenJournals
    <3>1. \A q \in Run : ~UnboundOpen(q)'
      BY <1>0, <2>1, <2>2 DEF StagesInv, UnboundOpen
    <3>2. \A q \in Run : JournalOpen(q)' => q \in todo'
      BY <2>1, <2>2 DEF JournalOpen, OpenJournals
    <3> QED BY <2>2, <3>1, <3>2 DEF StagesInv
  <2>3. CASE boot = "bound" /\ boot' = "interrupted"
    BY <1>0, <2>1, <2>3 DEF StagesInv, UnboundOpen, JournalOpen
  <2>4. CASE boot = "interrupted" /\ boot' = "sweep" /\ todo' = ActiveRuns
    BY <1>0, <2>1, <2>4 DEF StagesInv, UnboundOpen, JournalOpen, ActiveRuns
  <2>5. CASE boot' = "ready"
    BY <2>5, StagesServing
  <2> QED BY <1>30, <2>2, <2>3, <2>4, <2>5 DEF NextStage
<1>31. ASSUME Crash PROVE StagesInv'
  BY <1>31, StagesServing DEF Crash
<1>32. ASSUME UNCHANGED vars PROVE StagesInv'
  BY <1>0, <1>32 DEF vars, StagesInv, UnboundOpen, JournalOpen
<1> QED BY <1>1, <1>2, <1>3, <1>4, <1>5, <1>6, <1>7, <1>8, <1>9, <1>10, <1>11, <1>12,
           <1>13, <1>14, <1>15, <1>16, <1>17, <1>18, <1>19, <1>20, <1>21, <1>22, <1>23,
           <1>24, <1>25, <1>26, <1>27, <1>28, <1>29, <1>30, <1>31, <1>32
           DEF Next, Request, Continue, Recover

-----------------------------------------------------------------------------
(* The second half, for every instance with one stream.                    *)

\* Nothing has run yet.
LEMMA QuietlyInit == Init => QuietlyInv
BY DEF Init, QuietlyInv, Streamed, Calm, Alone, OpenInv, RowInv, QuietInv, FirstRunInv,
   InitializingInv, CallerInv, StagesInv, Working, UnboundOpen, JournalOpen, Bound,
   Blocking, GitHead, Clean, NoOp, NoJournal, NoWorkstreamRow

\* Every step keeps it; the parts that need the others at the next state come last.
LEMMA QuietlyStep ==
    ASSUME OneStream, IInv, PlansInv, PlansInv', QuietlyInv, [Next]_vars
    PROVE  QuietlyInv'
<1>1. Streamed'
  BY KeptStep, StreamedStep DEF QuietlyInv
<1>2. Alone'
  BY <1>1 DEF PlansInv, OneStream, OneOpenRun, Streamed, Alone
<1>3. ASSUME Steady' PROVE Calm'
  <2>1. faults' = faults \/ faults' = faults + 1
    BY HeadStep
  <2>2. Steady
    BY <1>3, <2>1 DEF Steady, IInv, Typing, TypeOK
  <2>3. Calm
    BY <2>2 DEF QuietlyInv
  <2>4. OpenInv' /\ RowInv'
    BY <1>3, <2>3, OpenStep, RowStep
  <2>5. QuietInv' /\ FirstRunInv'
    BY <1>2, <1>3, <2>3, <2>4, QuietStep, FirstRunStep
  <2>6. InitializingInv' /\ CallerInv' /\ StagesInv'
    BY <1>3, <2>3, InitializingStep, CallerStep, StagesStep
  <2> QED BY <1>2, <2>4, <2>5, <2>6 DEF Calm
<1> QED BY <1>1, <1>3 DEF QuietlyInv

\* In one stream, and unless a call of recovery fails or one after an
\* acknowledgement does, at most one run is ever open and the two stores are
\* apart only by its commit.
THEOREM OneStreamStaysCalm == OneStream => (Spec => []QuietlyInv)
<1> SUFFICES ASSUME OneStream PROVE Spec => []QuietlyInv
  OBVIOUS
<1>1. Init => QuietlyInv
  BY QuietlyInit
<1>2. IInv /\ PlansInv /\ PlansInv' /\ QuietlyInv /\ [Next]_vars => QuietlyInv'
  BY QuietlyStep
<1> QED BY <1>1, <1>2, Invariance, PlansAgree, PTL DEF Spec

\* While no call fails, no run ever becomes recovery-required: whatever the
\* process is doing when it crashes, and however often, recovery can go on.
THEOREM NoneNeedsRecovery == OneStream => (Spec => []NeverRecoveryRequired)
<1> SUFFICES ASSUME OneStream PROVE Spec => []NeverRecoveryRequired
  OBVIOUS
<1>1. QuietlyInv => NeverRecoveryRequired
  BY DEF QuietlyInv, Steady, Calm, OpenInv, NeverRecoveryRequired
<1> QED BY <1>1, OneStreamStaysCalm, PTL

\* What recovery leaves when its last stage is through.
LEMMA SweptClean ==
    ASSUME IInv, PlansInv, Calm, boot # "ready", boot' = "ready", NextStage
    PROVE  /\ \A r \in Run : /\ run'[r].status \notin Blocking
                             /\ plan'[r].phase \in {"none", "committed"}
                             /\ journal'[r].phase \in {"none", "completed"}
           /\ \A w \in Workstreams : workstream'[w].status # "initializing"
<1>1. /\ boot = "sweep" /\ op.kind = "idle" /\ todo = {}
      /\ UNCHANGED <<run, plan, journal, workstream>>
  BY DEF NextStage, Idle, sqlite
<1>2. \A r \in Run : run[r].status \notin Blocking /\ ~JournalOpen(r)
  BY <1>1 DEF Calm, StagesInv
<1>3. ASSUME NEW r \in Run PROVE plan[r].phase \in {"none", "committed"}
  <2>1. plan[r].phase # "recovery_required"
    BY <1>2 DEF PlansInv, PlanInv, PlanOf, JournalOpen
  <2>2. plan[r].phase \notin {"planned", "discarded"}
    BY <1>2 DEF PlansInv, PlanInv, PlanOf
  <2> QED BY <2>1, <2>2 DEF IInv, Typing, TypeOK, PlanRow
<1>4. ASSUME NEW w \in Workstreams PROVE workstream[w].status # "initializing"
  BY <1>1, <1>3 DEF Calm, InitializingInv, Locked, PlanOpen
<1> QED BY <1>1, <1>2, <1>3, <1>4 DEF JournalOpen

\* Recovery leaves every run of an earlier process closed, its plan with it, and
\* no workstream half created, if none of its own calls fails and none of a
\* client failed after an acknowledgement.
THEOREM RecoveryLeavesNothing ==
    OneStream /\ "receipt" \notin FaultPoints /\ ~RecoveryMayFail
        => (Spec => RecoveryResolves)
<1> SUFFICES ASSUME OneStream, "receipt" \notin FaultPoints, ~RecoveryMayFail
             PROVE  Spec => RecoveryResolves
  OBVIOUS
<1>1. IInv /\ PlansInv /\ QuietlyInv /\ [Next]_vars =>
        ((boot # "ready" /\ boot' = "ready") =>
          /\ \A r \in Run : /\ run'[r].status \notin Blocking
                            /\ plan'[r].phase \in {"none", "committed"}
          /\ \A w \in Workstreams : workstream'[w].status # "initializing")
  BY HeadStep, SweptClean DEF QuietlyInv, Steady
<1> QED BY <1>1, Invariance, PlansAgree, OneStreamStaysCalm, PTL
        DEF Spec, RecoveryResolves

\* Under the same conditions it completes every journal: a finalization that
\* stopped before its commit commits, one that stopped after it is acknowledged.
THEOREM RecoveryCompletesJournals ==
    OneStream /\ "receipt" \notin FaultPoints /\ ~RecoveryMayFail
        => (Spec => JournalsFinish)
<1> SUFFICES ASSUME OneStream, "receipt" \notin FaultPoints, ~RecoveryMayFail
             PROVE  Spec => JournalsFinish
  OBVIOUS
<1>1. IInv /\ PlansInv /\ QuietlyInv /\ [Next]_vars =>
        ((boot # "ready" /\ boot' = "ready") =>
          \A r \in Run : journal'[r].phase \in {"none", "completed"})
  BY HeadStep, SweptClean DEF QuietlyInv, Steady
<1> QED BY <1>1, Invariance, PlansAgree, OneStreamStaysCalm, PTL
        DEF Spec, JournalsFinish

-----------------------------------------------------------------------------
(* The third part: what an operation and a recovery leave behind, and how  *)
(* many steps they take, for any number of streams and any failing call.   *)

\* The operation at the head of the queue finalizes run r, unbound or bound.
OnUnbound(r) == op.kind = "unbound" /\ op.run = r
OnBound(r)   == op.kind = "bound" /\ op.run = r

\* A finalization of a bound run is under way in the journal.
HalfDone(r) ==
    journal[r].phase \in {"prepared", "resource_effects_recorded", "context_committed"}

\* Where an operation can stand, and that none outlives its process.
PointInv ==
    /\ boot = "down" => op.kind = "idle"
    /\ op.kind = "idle" => op.run = NoRun
    /\ op.kind = "route" => op.step = "journal"
    /\ op.kind = "unbound" => op.step \in {"journal", "receipt"}

\* A journal is half done, and a journaled run running, only while the operation
\* at the head of the queue works on it, or recovery has yet to come to it.
Settling(r) ==
    /\ unbound[r].phase = "prepared" =>
          \/ OnUnbound(r) \/ boot = "down"
          \/ boot = "unbound" /\ r \in todo
    /\ OnUnbound(r) /\ op.step = "receipt" => unbound[r].phase = "completed"
    /\ HalfDone(r) \/ (run[r].status = "running" /\ journal[r].phase # "none") =>
          \/ OnBound(r) \/ boot \in {"down", "unbound"}
          \/ boot = "bound" /\ r \in todo
    /\ boot = "sweep" /\ run[r].status = "running" => r \in todo

\* The invariant of the third part, kept together with IInv and PlansInv.
SettledInv == PointInv /\ \A r \in Run : Settling(r)

-----------------------------------------------------------------------------
\* An empty database has nothing under way.
LEMMA SettledInit == Init => SettledInv
BY DEF Init, SettledInv, PointInv, Settling, OnUnbound, OnBound, HalfDone, NoOp, NoJournal

\* Every step keeps it.
LEMMA SettledStep ==
    ASSUME IInv, PlansInv, SettledInv, [Next]_vars
    PROVE  SettledInv'
<1> USE DEF PointInv, Settling, OnUnbound, OnBound, HalfDone
<1>1. ASSUME NEW s \in Streams, StartRun(s) PROVE SettledInv'
  <2>1. PICK r \in Run : /\ run[r].status = "none"
                         /\ run' = [run EXCEPT ![r] =
                               [@ EXCEPT !.status = "running", !.stream = s]]
    BY <1>1 DEF StartRun
  <2>2. journal[r].phase = "none"
    BY <2>1 DEF IInv, LifeInv, Life
  <2>3. /\ \A q \in Run \ {r} : run'[q] = run[q]
        /\ boot = "ready" /\ UNCHANGED <<unbound, journal, boot, todo, op>>
    BY <1>1, <2>1 DEF StartRun, Serving
  <2>4. ASSUME NEW q \in Run PROVE Settling(q)'
    BY <2>2, <2>3 DEF SettledInv
  <2> QED BY <2>3, <2>4 DEF SettledInv
<1>2. ASSUME NEW r \in Run, NEW w \in Workstreams, CreateWorkstream(r, w)
      PROVE SettledInv'
  BY <1>2 DEF CreateWorkstream, Client, Serving, Idle, Begin, SettledInv
<1>3. ASSUME NEW r \in Run, NEW w \in Workstreams, NEW c \in BOOLEAN,
             ActivateWorkstream(r, w, c)
      PROVE SettledInv'
  <2>1. Routing(r, w) /\ UNCHANGED op
    BY <1>3 DEF ActivateWorkstream, Routing
  <2> QED BY <2>1, RouteRows DEF SettledInv
<1>4. ASSUME NEW r \in Run, AdmitResources(r) PROVE SettledInv'
  BY <1>4 DEF AdmitResources, proc, SettledInv
<1>5. ASSUME NEW r \in Run, NEW o \in Outcome, FinalizeUnbound(r, o) PROVE SettledInv'
  BY <1>5 DEF FinalizeUnbound, Client, Serving, Idle, Begin, SettledInv, IInv, Typing, TypeOK
<1>6. ASSUME NEW r \in Run, NEW o \in Outcome, FinalizeDiscard(r, o) PROVE SettledInv'
  <2>1. Discarding(r) /\ op.kind = "idle" /\ boot = "ready"
    BY <1>6 DEF FinalizeDiscard, Client, Serving, Idle, Discarding
  <2> QED BY <2>1, DiscardRows DEF SettledInv, PlansInv
<1>7. ASSUME NEW r \in Run, NEW o \in Outcome, NEW c \in BOOLEAN,
             FinalizeBound(r, o, c)
      PROVE SettledInv'
  <2>1. Preparing(r) /\ op.kind = "idle" /\ boot = "ready"
    BY <1>7 DEF FinalizeBound, Client, Serving, Idle, Preparing
  <2> QED BY <2>1, PrepareRows DEF SettledInv
<1>8. ASSUME NEW r \in Run, RefuseBound(r) PROVE SettledInv'
  <2>1. /\ MarkRecovery(r) /\ journal[r].phase = "none" /\ boot = "ready"
        /\ UNCHANGED <<unbound, journal, boot, todo, op>>
    BY <1>8 DEF RefuseBound, Client, Serving, proc
  <2> QED BY <2>1, MarkRows DEF SettledInv, IInv, Typing
<1>9. ASSUME NEW r \in Run, RetryUnbound(r) PROVE SettledInv'
  BY <1>9 DEF RetryUnbound, Serving, Idle, Begin, sqlite, SettledInv
<1>10. ASSUME NEW r \in Run, RetryBound(r) PROVE SettledInv'
  BY <1>10 DEF RetryBound, Serving, Idle, Begin, sqlite, SettledInv
<1>11. ASSUME NEW r \in Run, RouteCreated(r) PROVE SettledInv'
  <2>1. /\ op.kind = "route" /\ op.run = r /\ op.ws \in Workstreams /\ boot = "ready"
        /\ Routing(r, op.ws) /\ op'.kind = "idle" /\ op'.run = NoRun
    BY <1>11 DEF RouteCreated, At, NoOp, Routing, IInv, Typing, OperationInv
  <2> QED BY <2>1, RouteRows DEF SettledInv
<1>12. ASSUME NEW r \in Run, RouteRefused(r) PROVE SettledInv'
  BY <1>12 DEF RouteRefused, At, NoOp, sqlite, SettledInv
<1>13. ASSUME NEW r \in Run, CompleteUnbound(r) PROVE SettledInv'
  BY <1>13, CompleteRows DEF SettledInv, Outcome, IInv, Typing, StageInv
<1>14. ASSUME NEW r \in Run, UnboundError(r) PROVE SettledInv'
  <2>1. journal[r].phase = "none"
    BY <1>14, UnboundErrorRows, RunAssumption DEF Bound, IInv, Typing, JournaledIsBound
  <2>2. boot # "sweep"
    BY <1>14, UnboundErrorRows DEF IInv, Typing, StageInv
  <2> QED BY <1>14, <2>1, <2>2, UnboundErrorRows DEF SettledInv, NoOp
<1>15. ASSUME NEW r \in Run, Receipt(r) PROVE SettledInv'
  <2>1. /\ op.kind \in {"unbound", "bound"} /\ op.run = r /\ op.step = "receipt"
        /\ op'.kind = "idle" /\ op'.run = NoRun /\ todo' = todo \ {r}
        /\ UNCHANGED <<run, unbound, journal, boot>>
    BY <1>15 DEF Receipt, Finish, NoOp, sqlite
  <2>2. run[r].status # "running"
    BY <2>1 DEF IInv, LifeInv, Life, Outcome
  <2>3. op.kind = "bound" => journal[r].phase = "completed"
    BY <2>1 DEF PlansInv, LockInv, ReceiptInv
  <2>4. boot # "sweep"
    BY <2>1 DEF IInv, Typing, StageInv
  <2>5. unbound[r].phase # "none" => journal[r].phase = "none"
    BY RunAssumption DEF IInv, LifeInv, Life, Typing, JournaledIsBound
  <2>6. op.kind = "unbound" => unbound[r].phase = "completed"
    BY <2>1 DEF SettledInv
  <2>7. op.kind = "bound" => unbound[r].phase = "none"
    BY <2>3, <2>5
  <2> QED BY <2>1, <2>2, <2>3, <2>4, <2>5, <2>6, <2>7 DEF SettledInv
<1>16. ASSUME NEW r \in Run, JournalWork(r) PROVE SettledInv'
  <2>1. op'.kind = "bound"
    BY <1>16, JournalWorkRows
  <2> QED BY <1>16, <2>1, JournalWorkRows DEF SettledInv, IInv, Typing, StageInv
<1>17. ASSUME NEW r \in Run, GitWork(r) PROVE SettledInv'
  BY <1>17, GitWorkRows DEF SettledInv
<1>18. ASSUME NEW r \in Run, Acknowledge(r) PROVE SettledInv'
  BY <1>18, AcknowledgeRows DEF SettledInv, Outcome, IInv, Typing, StageInv
<1>19. ASSUME NEW r \in Run, BoundError(r) PROVE SettledInv'
  <2>1. unbound[r].phase = "none"
    BY <1>19, BoundErrorRows, RunAssumption
       DEF IInv, LifeInv, Life, Typing, JournaledIsBound
  <2>2. boot # "sweep"
    BY <1>19, BoundErrorRows DEF IInv, Typing, StageInv
  <2> QED BY <1>19, <2>1, <2>2, BoundErrorRows DEF SettledInv, NoOp
<1>20. ASSUME NEW r \in Run, RecoverUnbound(r) PROVE SettledInv'
  BY <1>20 DEF RecoverUnbound, Recovering, Idle, Begin, sqlite, SettledInv
<1>21. ASSUME NEW r \in Run, RecoverBound(r) PROVE SettledInv'
  BY <1>21 DEF RecoverBound, Recovering, Idle, Begin, sqlite, SettledInv
<1>22. ASSUME NEW r \in Run, RecoverInterrupted(r) PROVE SettledInv'
  <2>1. op.kind = "idle" /\ boot = "interrupted" /\ (Discarding(r) \/ Preparing(r))
    BY <1>22, InterruptedSteps DEF RecoverInterrupted, Recovering, Idle
  <2>2. CASE Discarding(r)
    BY <2>1, <2>2, DiscardRows DEF SettledInv, PlansInv
  <2>3. CASE Preparing(r)
    BY <2>1, <2>3, PrepareRows DEF SettledInv
  <2> QED BY <2>1, <2>2, <2>3
<1>23. ASSUME NEW r \in Run, SkipInterrupted(r) PROVE SettledInv'
  BY <1>23, SkipRows DEF SettledInv, IInv, Typing, Interrupted
<1>24. ASSUME NEW r \in Run, Sweep(r) PROVE SettledInv'
  <2>1. todo' = todo \ {r} /\ boot = "sweep" /\ op.kind = "idle"
    BY <1>24 DEF Sweep, Recovering, Idle
  <2> QED BY <1>24, <2>1, SweepRows DEF SettledInv, Outcome, PlansInv
<1>25. ASSUME Boot PROVE SettledInv'
  BY <1>25 DEF Boot, OpenUnbound, SettledInv
<1>26. ASSUME NextStage PROVE SettledInv'
  <2>1. \A r \in Run : journal[r].phase = "completed" => run[r].status # "running"
    BY DEF PlansInv, PlanInv, PlanOf, Outcome
  <2>2. /\ op.kind = "idle" /\ todo = {} /\ UNCHANGED <<run, unbound, journal, op>>
        /\ boot \in {"unbound", "bound", "interrupted", "sweep"}
        /\ boot = "unbound" => boot' = "bound" /\ todo' = OpenJournals
        /\ boot = "bound" => boot' = "interrupted"
        /\ boot = "interrupted" => boot' = "sweep" /\ todo' = ActiveRuns
        /\ boot = "sweep" => boot' = "ready"
    BY <1>26 DEF NextStage, Idle, sqlite
  <2> QED BY <2>1, <2>2 DEF OpenJournals, ActiveRuns, Blocking, SettledInv
<1>27. ASSUME Crash PROVE SettledInv'
  BY <1>27 DEF Crash, NoOp, sqlite, SettledInv
<1>28. ASSUME UNCHANGED vars PROVE SettledInv'
  BY <1>28 DEF vars, SettledInv
<1> QED BY <1>1, <1>2, <1>3, <1>4, <1>5, <1>6, <1>7, <1>8, <1>9, <1>10, <1>11, <1>12,
           <1>13, <1>14, <1>15, <1>16, <1>17, <1>18, <1>19, <1>20, <1>21, <1>22, <1>23,
           <1>24, <1>25, <1>26, <1>27, <1>28
           DEF Next, Request, Continue, Recover, JournalWork, GitWork

\* The invariant holds in every reachable state of any instance.
LEMMA SettledInvariance == Spec => []SettledInv
<1>1. IInv /\ PlansInv /\ SettledInv /\ [Next]_vars => SettledInv'
  BY SettledStep
<1> QED BY <1>1, SettledInit, Invariance, PlansAgree, PTL DEF Spec

-----------------------------------------------------------------------------
(* What a served request finds, and what a recovery leaves.                *)

\* No finalization is left half done: its journal is completed or it is marked
\* for recovery, and a run that counts as running was never journaled.
NothingHalfDone ==
    \A r \in Run :
        /\ unbound[r].phase # "prepared"
        /\ journal[r].phase \in {"none", "completed", "recovery_required"}
        /\ run[r].status = "running" =>
              unbound[r].phase = "none" /\ journal[r].phase = "none"

\* Whenever the service takes its next request, nothing is half done, whatever
\* calls have failed and however often the process has crashed.
THEOREM RequestsFindNothingHalfDone == Spec => [](Serving => NothingHalfDone)
<1>1. ASSUME IInv, SettledInv, Serving, NEW r \in Run
      PROVE  /\ unbound[r].phase # "prepared"
             /\ journal[r].phase \in {"none", "completed", "recovery_required"}
             /\ run[r].status = "running" =>
                   unbound[r].phase = "none" /\ journal[r].phase = "none"
  <2>1. boot = "ready" /\ op.kind = "idle"
    BY <1>1 DEF Serving, Idle
  <2>2. /\ unbound[r].phase # "prepared" /\ ~HalfDone(r)
        /\ ~(run[r].status = "running" /\ journal[r].phase # "none")
    BY <1>1, <2>1 DEF SettledInv, Settling, OnUnbound, OnBound
  <2>3. journal[r].phase \in JournalPhase
    BY <1>1 DEF IInv, Typing, TypeOK, JournalRow
  <2>4. run[r].status = "running" => unbound[r].phase = "none"
    BY <1>1, <2>1 DEF IInv, LifeInv, Life
  <2> QED BY <2>2, <2>3, <2>4 DEF HalfDone, JournalPhase
<1>2. IInv /\ SettledInv => (Serving => NothingHalfDone)
  BY <1>1 DEF NothingHalfDone
<1> QED BY <1>2, Invariance, SettledInvariance, PTL

\* A recovery leaves no run running and no plan planned for a run that is not
\* in recovery, even if its own calls fail: what it could not finish it marks.
RecoveryMarksWhatItLeaves ==
    [][(boot # "ready" /\ boot' = "ready") =>
          \A r \in Run : /\ run'[r].status # "running"
                         /\ plan'[r].phase = "planned" =>
                               run'[r].status = "recovery_required"]_vars

\* It does so for any number of streams, and whatever calls fail.
THEOREM RecoveryLeavesNoneRunning == Spec => RecoveryMarksWhatItLeaves
<1>1. ASSUME IInv, PlansInv, SettledInv, [Next]_vars, boot # "ready", boot' = "ready",
             NEW r \in Run
      PROVE  /\ run'[r].status # "running"
             /\ plan'[r].phase = "planned" => run'[r].status = "recovery_required"
  <2>1. NextStage
    BY <1>1, HeadStep
  <2>2. boot = "sweep" /\ todo = {} /\ UNCHANGED <<run, plan>>
    BY <1>1, <2>1 DEF NextStage, sqlite
  <2>3. run[r].status # "running"
    BY <1>1, <2>2 DEF SettledInv, Settling
  <2>4. plan[r].phase = "planned" => run[r].status \in Blocking
    BY <1>1 DEF PlansInv, PlanInv, PlanOf
  <2> QED BY <2>2, <2>3, <2>4 DEF Blocking
<1>2. IInv /\ PlansInv /\ SettledInv /\ [Next]_vars =>
        ((boot # "ready" /\ boot' = "ready") =>
          \A r \in Run : /\ run'[r].status # "running"
                         /\ plan'[r].phase = "planned" =>
                               run'[r].status = "recovery_required")
  BY <1>1
<1> QED BY <1>2, Invariance, PlansAgree, SettledInvariance, PTL
        DEF Spec, RecoveryMarksWhatItLeaves

-----------------------------------------------------------------------------
(* How many steps are left.                                                *)

\* To the operation at the head of the queue, at most.
StepsLeft ==
    CASE op.kind = "idle" -> 0
      [] op.kind = "route" -> 1
      [] op.kind = "unbound" -> IF op.step = "receipt" THEN 1 ELSE 2
      [] OTHER ->
           CASE op.step = "receipt" -> 1
             [] op.step = "committed" -> 3
             [] op.step = "written" -> 4
             [] OTHER ->
                  CASE journal[op.run].phase = "context_committed" -> 2
                    [] journal[op.run].phase = "resource_effects_recorded" -> 5
                    [] OTHER -> 6

\* The stages of a start that are still to come.
StagesLeft ==
    CASE boot = "down" -> 5
      [] boot = "unbound" -> 4
      [] boot = "bound" -> 3
      [] boot = "interrupted" -> 2
      [] boot = "sweep" -> 1
      [] OTHER -> 0

\* To the stage recovery is in: seven for each row it has not begun.
RowsLeft == 7 * Cardinality(todo \ {op.run}) + StepsLeft

\* To the start of the process: a stage to come weighs more than all the rows it
\* can read.
RecoveryLeft == 7 * (MaxRuns + 1) * StagesLeft + RowsLeft

\* An operation under way has between one and six steps left.
LEMMA StepsRange ==
    TypeOK => StepsLeft \in 0..6 /\ (StepsLeft = 0 <=> op.kind = "idle")
BY DEF TypeOK, StepsLeft

\* So it has in the next state.
LEMMA StepsRangeNext ==
    TypeOK' => StepsLeft' \in 0..6 /\ (StepsLeft' = 0 <=> op'.kind = "idle")
BY DEF TypeOK, StepsLeft

-----------------------------------------------------------------------------
(* What a step can do to the operation at the head of the queue and to the *)
(* list of a recovery.                                                     *)

\* The operation goes on, and comes closer to its end.
OperationGoes ==
    /\ op.kind # "idle" /\ op'.kind # "idle" /\ op'.run = op.run
    /\ StepsLeft' < StepsLeft /\ UNCHANGED <<boot, todo>>

\* The operation ends; recovery strikes its row off the list.
OperationEnds ==
    /\ op.kind # "idle" /\ op'.kind = "idle" /\ UNCHANGED boot
    /\ boot = "ready" \/ todo' = todo \ {op.run}

\* Recovery begins an operation for a row of its list.
RowBegins ==
    /\ op.kind = "idle" /\ op'.kind # "idle" /\ op'.run \in todo
    /\ UNCHANGED <<boot, todo>>

\* Recovery passes over a row of its list or sweeps it, without an operation.
RowEnds ==
    /\ op.kind = "idle" /\ UNCHANGED <<boot, op>>
    /\ \E r \in todo : todo' = todo \ {r}

\* Recovery enters its next stage.
StageEnds ==
    op.kind = "idle" /\ UNCHANGED op /\ StagesLeft = StagesLeft' + 1

\* The process serves a request.
Serves == op.kind = "idle" /\ boot = "ready" /\ boot' = "ready"

\* One of these, or the process crashes.
Moves == \/ OperationGoes \/ OperationEnds \/ RowBegins \/ RowEnds \/ StageEnds
         \/ Serves \/ Crash

\* The steps of a bound finalization bring it closer to its end.
LEMMA FinalizationGoes ==
    ASSUME IInv, NEW r \in Run, JournalWork(r) \/ GitWork(r) \/ Acknowledge(r)
    PROVE  OperationGoes
<1> USE DEF OperationGoes, StepsLeft, IInv, Typing, TypeOK
<1>1. CASE Reexamine(r)
  <2>1. op.kind = "bound" /\ op.run = r /\ op.step = "journal"
    BY <1>1 DEF Reexamine, At
  <2> QED BY <1>1, <2>1, ReexamineRows
<1>2. CASE RecordEffects(r)
  <2>1. op.kind = "bound" /\ op.run = r /\ op.step = "journal"
    BY <1>2 DEF RecordEffects, At
  <2>2. journal[r].phase = "prepared" /\ journal'[r].phase = "resource_effects_recorded"
        /\ UNCHANGED <<boot, todo, op>>
    BY <1>2 DEF RecordEffects, SetPhase, JournalRow, proc
  <2> QED BY <2>1, <2>2
<1>3. CASE RecordCommit(r)
  <2>1. op.kind = "bound" /\ op.run = r /\ op.step = "committed"
        /\ op' = [op EXCEPT !.step = "journal"] /\ UNCHANGED <<boot, todo>>
    BY <1>3 DEF RecordCommit, At, Step
  <2>2. journal'[r].phase = "context_committed"
    BY <1>3 DEF RecordCommit, JournalRow
  <2> QED BY <2>1, <2>2
<1>4. CASE GitWork(r)
  <2>1. /\ op.kind = "bound" /\ op.run = r /\ UNCHANGED <<boot, todo, journal>>
        /\ \/ /\ op.step = "journal" /\ journal[r].phase = "resource_effects_recorded"
              /\ \/ op' = [op EXCEPT !.step = "written"]
                 \/ op' = [op EXCEPT !.step = "committed"]
           \/ op.step = "written" /\ op' = [op EXCEPT !.step = "committed"]
    BY <1>4 DEF GitWork, WriteContext, GitCommit, RecogniseCommit, At, Step, sqlite
  <2> QED BY <2>1
<1>5. CASE Acknowledge(r)
  BY <1>5, AcknowledgeRows
<1> QED BY <1>1, <1>2, <1>3, <1>4, <1>5 DEF JournalWork

\* Every step is one of them.
LEMMA StepMoves ==
    ASSUME IInv, PlansInv, SettledInv, Next
    PROVE  Moves
<1> USE DEF Moves
<1>1. ASSUME NEW s \in Streams, StartRun(s) PROVE Moves
  BY <1>1 DEF StartRun, Serving, Idle, Serves
<1>2. ASSUME NEW r \in Run, Request(r) PROVE Moves
  <2>1. Serving /\ UNCHANGED boot
    BY <1>2 DEF Request, CreateWorkstream, ActivateWorkstream, Route, AdmitResources,
       FinalizeUnbound, FinalizeDiscard, Discard, FinalizeBound, Prepare, RefuseBound,
       RetryUnbound, RetryBound, Client, proc
  <2> QED BY <2>1 DEF Serving, Idle, Serves
<1>3. ASSUME NEW r \in Run, RouteCreated(r) \/ RouteRefused(r) PROVE Moves
  <2>1. op.kind = "route" /\ op'.kind = "idle" /\ UNCHANGED boot
    BY <1>3 DEF RouteCreated, RouteRefused, At, Route, NoOp
  <2> QED BY <2>1 DEF IInv, Typing, OperationInv, OperationEnds
<1>4. ASSUME NEW r \in Run, CompleteUnbound(r) PROVE Moves
  BY <1>4, CompleteRows DEF OperationGoes, StepsLeft
<1>5. ASSUME NEW r \in Run, UnboundError(r) PROVE Moves
  BY <1>5, UnboundErrorRows DEF OperationEnds
<1>6. ASSUME NEW r \in Run, Receipt(r) PROVE Moves
  BY <1>6 DEF Receipt, Finish, NoOp, OperationEnds
<1>7. ASSUME NEW r \in Run, JournalWork(r) \/ GitWork(r) \/ Acknowledge(r) PROVE Moves
  BY <1>7, FinalizationGoes
<1>8. ASSUME NEW r \in Run, BoundError(r) PROVE Moves
  BY <1>8, BoundErrorRows DEF OperationEnds
<1>9. ASSUME NEW r \in Run, RecoverUnbound(r) \/ RecoverBound(r) PROVE Moves
  BY <1>9 DEF RecoverUnbound, RecoverBound, Recovering, Idle, Begin, RowBegins
<1>10. ASSUME NEW r \in Run, RecoverInterrupted(r) PROVE Moves
  BY <1>10 DEF RecoverInterrupted, Recovering, Idle, Discard, Prepare, Begin, RowBegins
<1>11. ASSUME NEW r \in Run, SkipInterrupted(r) \/ Sweep(r) PROVE Moves
  BY <1>11 DEF SkipInterrupted, Sweep, Recovering, Idle, RowEnds
<1>12. ASSUME Boot PROVE Moves
  BY <1>12 DEF Boot, SettledInv, PointInv, StageEnds, StagesLeft
<1>13. ASSUME NextStage PROVE Moves
  BY <1>13 DEF NextStage, Idle, StageEnds, StagesLeft
<1>14. ASSUME Crash PROVE Moves
  BY <1>14
<1> QED BY <1>1, <1>2, <1>3, <1>4, <1>5, <1>6, <1>7, <1>8, <1>9, <1>10, <1>11, <1>12,
           <1>13, <1>14 DEF Next, Continue, Recover, JournalWork, GitWork

-----------------------------------------------------------------------------
(* Operations and recoveries are short.                                    *)

\* No operation stays at the head of the queue: it has at most six steps left,
\* and every step that is taken meanwhile leaves it fewer.
OperationEndsSoon == [][op.kind # "idle" => StepsLeft' < StepsLeft]_vars

\* It is so whatever the operation finds and whatever call of it fails.
LEMMA StepsShrink ==
    ASSUME IInv, IInv', PlansInv, SettledInv, Next, op.kind # "idle"
    PROVE  StepsLeft' < StepsLeft
<1>1. /\ StepsLeft \in 0..6 /\ (StepsLeft = 0 <=> op.kind = "idle")
      /\ StepsLeft' \in 0..6 /\ (StepsLeft' = 0 <=> op'.kind = "idle")
  BY StepsRange, StepsRangeNext DEF IInv, Typing
<1>2. OperationGoes \/ OperationEnds \/ Crash
  BY StepMoves DEF Moves, RowBegins, RowEnds, StageEnds, Serves
<1>3. Crash => op'.kind = "idle"
  BY DEF Crash, NoOp
<1> QED BY <1>1, <1>2, <1>3 DEF OperationGoes, OperationEnds

\* So each operation is answered or given up within six steps of the process.
THEOREM OperationsAreShort == Spec => [](StepsLeft \in 0..6) /\ OperationEndsSoon
<1>1. IInv => StepsLeft \in 0..6
  BY StepsRange DEF IInv, Typing
<1>2. IInv /\ IInv' /\ PlansInv /\ SettledInv /\ [Next]_vars
        => [op.kind # "idle" => StepsLeft' < StepsLeft]_vars
  BY StepsShrink
<1> QED BY <1>1, <1>2, Invariance, PlansAgree, SettledInvariance, PTL
        DEF Spec, OperationEndsSoon

\* There are finitely many runs, so that a list can be counted.
LEMMA ListSize ==
    ASSUME TypeOK, NEW S \in SUBSET todo
    PROVE  /\ IsFiniteSet(S) /\ Cardinality(S) \in 0..MaxRuns
           /\ \A r \in S : Cardinality(S \ {r}) = Cardinality(S) - 1
<1>1. IsFiniteSet(Run) /\ Cardinality(Run) = MaxRuns
  BY FS_Interval, RunAssumption DEF Run
<1>2. S \subseteq Run
  BY DEF TypeOK
<1>3. IsFiniteSet(S) /\ Cardinality(S) <= MaxRuns
  BY <1>1, <1>2, FS_Subset
<1>4. Cardinality(S) \in Nat
  BY <1>3, FS_CardinalityType
<1>5. ASSUME NEW r \in S PROVE Cardinality(S \ {r}) = Cardinality(S) - 1
  BY <1>3, <1>5, FS_RemoveElement
<1> QED BY <1>3, <1>4, <1>5, RunAssumption

\* What is left of a stage, and of a recovery, is bounded.
LEMMA RowsRange ==
    IInv => RowsLeft \in Nat /\ RowsLeft < 7 * (MaxRuns + 1) /\ StagesLeft \in 0..5
<1> SUFFICES ASSUME IInv
             PROVE  RowsLeft \in Nat /\ RowsLeft < 7 * (MaxRuns + 1) /\ StagesLeft \in 0..5
  OBVIOUS
<1>1. TypeOK
  BY DEF IInv, Typing
<1>2. Cardinality(todo \ {op.run}) \in 0..MaxRuns
  BY <1>1, ListSize
<1>3. StepsLeft \in 0..6
  BY <1>1, StepsRange
<1>4. StagesLeft \in 0..5
  BY <1>1 DEF TypeOK, StagesLeft
<1> QED BY <1>2, <1>3, <1>4, RunAssumption DEF RowsLeft

\* So it is in the next state.
LEMMA RowsRangeNext ==
    IInv' => RowsLeft' \in Nat /\ RowsLeft' < 7 * (MaxRuns + 1) /\ StagesLeft' \in 0..5
<1>1. (IInv => RowsLeft \in Nat /\ RowsLeft < 7 * (MaxRuns + 1) /\ StagesLeft \in 0..5)'
  BY RowsRange, PTL
<1> QED BY <1>1

\* Within a stage, every step of recovery leaves less of it.
LEMMA RowsShrink ==
    ASSUME IInv, IInv', SettledInv, SettledInv', boot # "ready",
           OperationGoes \/ OperationEnds \/ RowBegins \/ RowEnds
    PROVE  RowsLeft' < RowsLeft /\ UNCHANGED boot
<1>1. TypeOK /\ TypeOK'
  BY DEF IInv, Typing
<1>2. /\ StepsLeft \in 0..6 /\ (StepsLeft = 0 <=> op.kind = "idle")
      /\ StepsLeft' \in 0..6 /\ (StepsLeft' = 0 <=> op'.kind = "idle")
  BY <1>1, StepsRange, StepsRangeNext
<1>3. /\ op.kind = "idle" => op.run = NoRun
      /\ op'.kind = "idle" => op'.run = NoRun
      /\ todo \subseteq Run /\ NoRun \notin Run
  BY <1>1, RunAssumption DEF SettledInv, PointInv, TypeOK, Run
<1>4. \A S \in SUBSET todo : Cardinality(S) \in Nat
  BY <1>1, ListSize
<1> DEFINE left  == Cardinality(todo \ {op.run})
           left1 == Cardinality(todo' \ {op'.run})
<1>5. RowsLeft = 7 * left + StepsLeft /\ RowsLeft' = 7 * left1 + StepsLeft'
  BY DEF RowsLeft
<1>6. left \in Nat
  BY <1>4
<1>7. CASE OperationGoes
  <2>1. left1 = left
    BY <1>7 DEF OperationGoes
  <2> QED BY <1>2, <1>5, <1>6, <1>7, <2>1 DEF OperationGoes
<1>8. CASE OperationEnds
  <2>1. todo' \ {op'.run} = todo \ {op.run}
    BY <1>3, <1>8 DEF OperationEnds
  <2> HIDE DEF left, left1
  <2>2. left1 = left
    BY <2>1 DEF left, left1
  <2> QED BY <1>2, <1>5, <1>6, <1>8, <2>2 DEF OperationEnds
<1>9. CASE RowBegins
  <2>1. todo \ {op.run} = todo /\ op'.run \in todo /\ todo' = todo
    BY <1>3, <1>9 DEF RowBegins
  <2>2. Cardinality(todo \ {op'.run}) = Cardinality(todo) - 1
    BY <1>1, <2>1, ListSize
  <2>3. left = Cardinality(todo) /\ left1 = Cardinality(todo \ {op'.run})
    BY <2>1
  <2> HIDE DEF left, left1
  <2>4. left1 = left - 1
    BY <2>2, <2>3
  <2>5. StepsLeft = 0 /\ StepsLeft' \in 0..6 /\ UNCHANGED boot
    BY <1>2, <1>9 DEF RowBegins
  <2>6. RowsLeft = 7 * left /\ RowsLeft' = 7 * (left - 1) + StepsLeft'
    BY <1>5, <1>6, <2>4, <2>5
  <2>7. \A l \in Nat : \A x \in 0..6 : 7 * (l - 1) + x < 7 * l
    OBVIOUS
  <2> QED BY <1>6, <2>5, <2>6, <2>7
<1>10. CASE RowEnds
  <2>1. PICK r \in todo : todo' = todo \ {r} /\ UNCHANGED op
    BY <1>10 DEF RowEnds
  <2>2. todo \ {op.run} = todo /\ todo' \ {op'.run} = todo \ {r}
    BY <1>3, <1>10, <2>1 DEF RowEnds
  <2>3. Cardinality(todo \ {r}) = Cardinality(todo) - 1
    BY <1>1, ListSize
  <2> HIDE DEF left, left1
  <2>4. left1 = left - 1
    BY <2>2, <2>3 DEF left, left1
  <2>5. StepsLeft = 0 /\ StepsLeft' = 0 /\ UNCHANGED boot
    BY <1>2, <1>10, <2>1 DEF RowEnds
  <2> QED BY <1>5, <1>6, <2>4, <2>5
<1> QED BY <1>7, <1>8, <1>9, <1>10
        DEF OperationGoes, OperationEnds, RowBegins, RowEnds

\* The rows of a stage weigh less than one of the stages to come.
LEMMA StageWeight ==
    ASSUME NEW k \in Nat, NEW s \in 0..5, NEW t \in 0..5, NEW a \in Nat, NEW b \in Nat,
           (s = t /\ b < a) \/ (s = t + 1 /\ b < k)
    PROVE  k * t + b < k * s + a
<1>1. t \in {0, 1, 2, 3, 4, 5}
  OBVIOUS
<1>2. CASE s = t /\ b < a
  BY <1>1, <1>2
<1>3. CASE s = t + 1 /\ b < k
  BY <1>1, <1>3
<1> QED BY <1>2, <1>3

\* The steps a start has left are bounded.
LEMMA RecoveryRange == IInv => RecoveryLeft \in 0..(42 * (MaxRuns + 1))
<1> SUFFICES ASSUME IInv PROVE RecoveryLeft \in 0..(42 * (MaxRuns + 1))
  OBVIOUS
<1> DEFINE k == 7 * (MaxRuns + 1)
<1>1. k \in Nat /\ 42 * (MaxRuns + 1) = 6 * k /\ RecoveryLeft = k * StagesLeft + RowsLeft
  BY RunAssumption DEF RecoveryLeft
<1>2. RowsLeft \in Nat /\ RowsLeft < k /\ StagesLeft \in {0, 1, 2, 3, 4, 5}
  BY RowsRange
<1> HIDE DEF k
<1>3. k * StagesLeft \in 0..(5 * k)
  BY <1>1, <1>2
<1> QED BY <1>1, <1>2, <1>3

\* So they are in the next state.
LEMMA RecoveryRangeNext == IInv' => RecoveryLeft' \in 0..(42 * (MaxRuns + 1))
<1>1. (IInv => RecoveryLeft \in 0..(42 * (MaxRuns + 1)))'
  BY RecoveryRange, PTL
<1> QED BY <1>1

\* Every step of a start but a crash leaves fewer.
LEMMA RecoveryShrinks ==
    ASSUME IInv, IInv', PlansInv, SettledInv, SettledInv', Next, boot # "ready"
    PROVE  RecoveryLeft' < RecoveryLeft \/ Crash
<1> DEFINE k == 7 * (MaxRuns + 1)
<1>1. /\ k \in Nat /\ RecoveryLeft = k * StagesLeft + RowsLeft
      /\ RecoveryLeft' = k * StagesLeft' + RowsLeft'
  BY RunAssumption DEF RecoveryLeft
<1>2. /\ RowsLeft \in Nat /\ StagesLeft \in 0..5
      /\ RowsLeft' \in Nat /\ RowsLeft' < k /\ StagesLeft' \in 0..5
  BY RowsRange, RowsRangeNext
<1> HIDE DEF k
<1>3. CASE OperationGoes \/ OperationEnds \/ RowBegins \/ RowEnds
  <2>1. RowsLeft' < RowsLeft /\ StagesLeft' = StagesLeft
    BY <1>3, RowsShrink DEF StagesLeft
  <2> QED BY <1>1, <1>2, <2>1, StageWeight
<1>4. CASE StageEnds
  <2>1. StagesLeft = StagesLeft' + 1
    BY <1>4 DEF StageEnds
  <2> QED BY <1>1, <1>2, <2>1, StageWeight
<1> QED BY <1>3, <1>4, StepMoves DEF Moves, Serves

\* A start comes to its end: each step of a process that is not ready brings it
\* closer, whatever calls fail, or the process crashes and starts over.
RecoveryEndsSoon ==
    [][boot # "ready" => RecoveryLeft' < RecoveryLeft \/ Crash]_vars

\* A start of n runs takes at most 42 * (n + 1) steps, and every step it takes
\* leaves it fewer, for any number of streams and whatever calls fail.
THEOREM RecoveryIsShort ==
    Spec => [](RecoveryLeft \in 0..(42 * (MaxRuns + 1))) /\ RecoveryEndsSoon
<1>1. IInv => RecoveryLeft \in 0..(42 * (MaxRuns + 1))
  BY RecoveryRange
<1>2. IInv /\ IInv' /\ PlansInv /\ SettledInv /\ SettledInv' /\ [Next]_vars
        => [boot # "ready" => RecoveryLeft' < RecoveryLeft \/ Crash]_vars
  BY RecoveryShrinks
<1> QED BY <1>1, <1>2, Invariance, PlansAgree, SettledInvariance, PTL
        DEF Spec, RecoveryEndsSoon

-----------------------------------------------------------------------------
(* An operation can always go on.                                          *)

\* The guards of the steps of Continue taken together: a finalization in the
\* journal goes on from where its row and Git stand, or is given up.
CanContinue(r) ==
    \/ At("route", r, "journal")
    \/ At("unbound", r, "journal") \/ At("unbound", r, "receipt")
    \/ At("bound", r, "written") \/ At("bound", r, "committed") \/ At("bound", r, "receipt")
    \/ /\ At("bound", r, "journal")
       /\ \/ journal[r].phase = "prepared"
          \/ /\ journal[r].phase = "recovery_required"
             /\ Recognised(r) \/ journal[r].commit = 0
          \/ /\ journal[r].phase = "resource_effects_recorded"
             /\ Recognised(r) \/ (GitHead = journal[r].base /\ dirty \in {NoRun, r})
          \/ journal[r].phase = "context_committed" /\ Acknowledgeable(r)
          \/ Stuck(r)

\* The queue is never wedged: the operation at its head has a step to take,
\* wherever it stands and whatever it finds in its journal and in Git.
THEOREM OperationsCanGoOn == Spec => [](op.kind # "idle" => CanContinue(op.run))
<1>1. ASSUME IInv, PlansInv, SettledInv, op.kind # "idle"
      PROVE  CanContinue(op.run)
  <2> DEFINE r == op.run
  <2>1. op.kind \in {"route", "unbound", "bound"} /\ op.step \in Points /\ r \in Run
    BY <1>1 DEF IInv, Typing, TypeOK, OperationInv
  <2>2. CASE op.kind \in {"route", "unbound"}
    BY <1>1, <2>2 DEF SettledInv, PointInv, CanContinue, At
  <2>3. CASE op.kind = "bound" /\ op.step # "journal"
    BY <2>1, <2>3 DEF Points, CanContinue, At
  <2>4. CASE At("bound", r, "journal")
    <3>1. /\ journal[r].phase \in JournalPhase /\ journal[r].phase # "none"
          /\ dirty \in Run \cup {NoRun}
      BY <1>1, <2>1, <2>4 DEF At, IInv, Typing, TypeOK, JournalRow, OperationInv
    <3>2. journal[r].phase # "completed"
      BY <1>1, <2>4 DEF At, PlansInv, LockInv, ReceiptInv
    <3> HIDE DEF r
    <3>3. \/ journal[r].phase = "prepared"
          \/ /\ journal[r].phase = "recovery_required"
             /\ Recognised(r) \/ journal[r].commit = 0
          \/ /\ journal[r].phase = "resource_effects_recorded"
             /\ Recognised(r) \/ (GitHead = journal[r].base /\ dirty \in {NoRun, r})
          \/ journal[r].phase = "context_committed" /\ Acknowledgeable(r)
          \/ Stuck(r)
      BY <2>4, <3>1, <3>2 DEF JournalPhase, Stuck
    <3>4. CanContinue(r)
      BY <2>4, <3>3 DEF CanContinue
    <3> QED BY <3>4 DEF r
  <2> QED BY <2>1, <2>2, <2>3, <2>4 DEF At
<1>2. IInv /\ PlansInv /\ SettledInv => (op.kind # "idle" => CanContinue(op.run))
  BY <1>1
<1> QED BY <1>2, Invariance, PlansAgree, SettledInvariance, PTL

-----------------------------------------------------------------------------
(* And so it ends.                                                         *)

\* The process does not rest for ever in the middle of an operation.  This is
\* the fairness of FairSpec with what enables a step, an operation under way, in
\* the place of ENABLED; any step will do, since only those of the process and
\* crashes are taken meanwhile.
KeepsGoing == []([](op.kind # "idle") => <><<Next>>_vars)

\* Then the operation at the head of the queue is answered or given up.
THEOREM OperationsEnd == Spec /\ KeepsGoing => ((op.kind # "idle") ~> (op.kind = "idle"))
<1> DEFINE Inv == IInv /\ PlansInv /\ SettledInv
           Busy == op.kind # "idle"
           W1 == StepsLeft <= 1
           W2 == StepsLeft <= 2
           W3 == StepsLeft <= 3
           W4 == StepsLeft <= 4
           W5 == StepsLeft <= 5
<1>1. Spec => []Inv
  BY Invariance, PlansAgree, SettledInvariance, PTL
<1>2. ASSUME Inv, Inv', [Next]_vars, Busy, NEW n \in 1..6, StepsLeft <= n
      PROVE  StepsLeft' <= n /\ (<<Next>>_vars => StepsLeft' <= n - 1)
  <2>1. StepsLeft \in 0..6 /\ StepsLeft' \in 0..6
    BY <1>2, StepsRange, StepsRangeNext DEF IInv, Typing
  <2>2. CASE Next
    BY <1>2, <2>1, <2>2, StepsShrink
  <2>3. CASE UNCHANGED vars
    BY <1>2, <2>3 DEF vars, StepsLeft
  <2> QED BY <1>2, <2>2, <2>3
<1>3. ASSUME Inv, Inv', [Next]_vars, Busy
      PROVE  /\ W1 => W1' /\ (<<Next>>_vars => ~Busy')
             /\ W2 => W2' /\ (<<Next>>_vars => W1')
             /\ W3 => W3' /\ (<<Next>>_vars => W2')
             /\ W4 => W4' /\ (<<Next>>_vars => W3')
             /\ W5 => W5' /\ (<<Next>>_vars => W4')
             /\ <<Next>>_vars => W5'
  <2>1. StepsLeft \in 0..6 /\ StepsLeft' \in 0..6 /\ (StepsLeft' = 0 <=> op'.kind = "idle")
    BY <1>3, StepsRange, StepsRangeNext DEF IInv, Typing
  <2>2. \A n \in 1..6 : StepsLeft <= n =>
          StepsLeft' <= n /\ (<<Next>>_vars => StepsLeft' <= n - 1)
    BY <1>2, <1>3
  <2> QED BY <2>1, <2>2
<1>4. Inv /\ Inv' /\ [Next]_vars /\ Busy =>
        /\ W1 => W1' /\ (<<Next>>_vars => ~Busy')
        /\ W2 => W2' /\ (<<Next>>_vars => W1')
        /\ W3 => W3' /\ (<<Next>>_vars => W2')
        /\ W4 => W4' /\ (<<Next>>_vars => W3')
        /\ W5 => W5' /\ (<<Next>>_vars => W4')
        /\ <<Next>>_vars => W5'
  BY <1>3
<1>5. KeepsGoing => []([]Busy => <><<Next>>_vars)
  BY DEF KeepsGoing
<1>6. (op.kind # "idle" => Busy) /\ (~Busy => op.kind = "idle")
  OBVIOUS
<1> HIDE DEF Inv, Busy, W1, W2, W3, W4, W5
<1>7. Spec /\ KeepsGoing => [](Busy /\ W1 => <>~Busy)
  BY <1>1, <1>4, <1>5, PTL DEF Spec
<1>8. Spec /\ KeepsGoing => [](Busy /\ W2 => <>(~Busy \/ W1))
  BY <1>1, <1>4, <1>5, PTL DEF Spec
<1>9. Spec /\ KeepsGoing => [](Busy /\ W3 => <>(~Busy \/ W2))
  BY <1>1, <1>4, <1>5, PTL DEF Spec
<1>10. Spec /\ KeepsGoing => [](Busy /\ W4 => <>(~Busy \/ W3))
  BY <1>1, <1>4, <1>5, PTL DEF Spec
<1>11. Spec /\ KeepsGoing => [](Busy /\ W5 => <>(~Busy \/ W4))
  BY <1>1, <1>4, <1>5, PTL DEF Spec
<1>12. Spec /\ KeepsGoing => [](Busy => <>(~Busy \/ W5))
  BY <1>1, <1>4, <1>5, PTL DEF Spec
<1>13. Spec /\ KeepsGoing => [](Busy => <>~Busy)
  BY <1>7, <1>8, <1>9, <1>10, <1>11, <1>12, PTL
<1> QED BY <1>6, <1>13, PTL

\* So the finalization of a bound run ends.
THEOREM FinalizationsEnd == Spec /\ KeepsGoing => FinalizationTerminates
<1>1. ASSUME NEW r \in Run
      PROVE  Spec /\ KeepsGoing => ((op.kind = "bound" /\ op.run = r) ~> (op.run # r))
  <2>1. SettledInv /\ op.kind = "idle" => op.run # r
    BY RunAssumption DEF SettledInv, PointInv, Run
  <2>2. op.kind = "bound" => op.kind # "idle"
    OBVIOUS
  <2> QED BY <2>1, <2>2, SettledInvariance, OperationsEnd, PTL
<1> QED BY <1>1 DEF FinalizationTerminates

-----------------------------------------------------------------------------
(* And a start comes closer to its end, its crashes included.              *)

\* To the end of this start or of the last of those that crashes put in its place.
StartsLeft == (42 * (MaxRuns + 1) + 1) * (MaxCrashes - crashes) + RecoveryLeft

\* Every step of a process that is not ready leaves fewer, a crash too.
StartEndsSoon == [][boot # "ready" => StartsLeft' < StartsLeft]_vars

\* It is so because a crash costs one of the crashes to come.
LEMMA StartsShrink ==
    ASSUME IInv, IInv', PlansInv, SettledInv, SettledInv', Next, boot # "ready"
    PROVE  StartsLeft \in Nat /\ StartsLeft' \in Nat /\ StartsLeft' < StartsLeft
<1> DEFINE k == 42 * (MaxRuns + 1) + 1
           more  == MaxCrashes - crashes
           more1 == MaxCrashes - crashes'
<1>1. /\ RecoveryLeft \in 0..(42 * (MaxRuns + 1))
      /\ RecoveryLeft' \in 0..(42 * (MaxRuns + 1))
  BY RecoveryRange, RecoveryRangeNext
<1>2. MaxRuns \in Nat /\ MaxCrashes \in Nat
  BY RunAssumption
<1>3. more \in Nat /\ more1 \in Nat
  <2>1. crashes \in 0..MaxCrashes /\ crashes' \in 0..MaxCrashes
    BY DEF IInv, Typing, TypeOK
  <2>2. \A c \in 0..MaxCrashes : MaxCrashes - c \in Nat
    BY <1>2
  <2> QED BY <2>1, <2>2
<1>4. \/ more1 = more /\ RecoveryLeft' < RecoveryLeft
      \/ more1 = more - 1
  <2>1. CASE Crash
    BY <1>2, <2>1 DEF Crash, IInv, Typing, TypeOK
  <2>2. CASE ~Crash
    BY <2>2, RecoveryShrinks, HeadStep
  <2> QED BY <2>1, <2>2
<1>5. k \in Nat /\ RecoveryLeft \in Nat /\ RecoveryLeft' \in Nat /\ RecoveryLeft' < k
  BY <1>1, <1>2
<1>6. StartsLeft = k * more + RecoveryLeft /\ StartsLeft' = k * more1 + RecoveryLeft'
  BY DEF StartsLeft
<1> HIDE DEF k, more, more1
<1>7. k * more \in Nat /\ k * more1 \in Nat
  BY <1>3, <1>5
<1>8. CASE more1 = more /\ RecoveryLeft' < RecoveryLeft
  BY <1>5, <1>6, <1>7, <1>8
<1>9. CASE more1 = more - 1
  <2>1. k * more1 = k * more - k
    BY <1>3, <1>5, <1>9
  <2> QED BY <1>5, <1>6, <1>7, <2>1
<1> QED BY <1>4, <1>8, <1>9

\* A process that is not ready takes its next step some time: it begins a start,
\* goes on with it, or crashes in it.  This stands for the fairness of FairSpec.
StartsGoOn == []([](boot # "ready") => <><<Next>>_vars)

\* So a start has ever fewer steps left, until the process is ready: the step of
\* an induction that gives RecoveryTerminates.
THEOREM RecoveryMovesOn ==
    ASSUME NEW n \in Nat
    PROVE  Spec /\ StartsGoOn =>
             /\ StartEndsSoon
             /\ (boot # "ready" /\ StartsLeft <= n) ~> (boot = "ready" \/ StartsLeft < n)
<1> DEFINE Inv == IInv /\ PlansInv /\ SettledInv
           Down == boot # "ready"
           M == StartsLeft <= n
           L == StartsLeft < n
<1>1. Spec => []Inv
  BY Invariance, PlansAgree, SettledInvariance, PTL
<1>2. ASSUME Inv, Inv', [Next]_vars, Down
      PROVE  /\ StartsLeft' < StartsLeft \/ UNCHANGED vars
             /\ M => M'
             /\ <<Next>>_vars /\ M => L'
  <2>1. CASE Next
    BY <1>2, <2>1, StartsShrink
  <2>2. CASE UNCHANGED vars
    <3>1. StartsLeft' = StartsLeft
      BY <2>2 DEF vars, StartsLeft, RecoveryLeft, RowsLeft, StagesLeft, StepsLeft
    <3> QED BY <2>2, <3>1
  <2> QED BY <1>2, <2>1, <2>2
<1>3. Inv /\ Inv' /\ [Next]_vars => [boot # "ready" => StartsLeft' < StartsLeft]_vars
  BY <1>2
<1>4. Spec => StartEndsSoon
  BY <1>1, <1>3, PTL DEF Spec, StartEndsSoon
<1>5. Inv /\ Inv' /\ [Next]_vars /\ Down /\ M => M' /\ (<<Next>>_vars => L')
  BY <1>2
<1>6. /\ boot # "ready" /\ StartsLeft <= n => Down /\ M
      /\ ~Down => boot = "ready"
      /\ L => StartsLeft < n
  OBVIOUS
<1>7. StartsGoOn => []([]Down => <><<Next>>_vars)
  BY DEF StartsGoOn
<1> HIDE DEF Inv, Down, M, L
<1>8. Spec /\ StartsGoOn => [](Down /\ M => <>(~Down \/ L))
  BY <1>1, <1>5, <1>7, PTL DEF Spec
<1>9. Spec /\ StartsGoOn =>
        ((boot # "ready" /\ StartsLeft <= n) ~> (boot = "ready" \/ StartsLeft < n))
  BY <1>6, <1>8, PTL
<1> QED BY <1>4, <1>9
=============================================================================
