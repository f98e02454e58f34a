-------------------------- MODULE RunFinalization --------------------------
(***************************************************************************)
(* The life of agent runs in the Context Engine: starting a run, creating  *)
(* or selecting a workstream for it, finalizing it, and recovering at the  *)
(* next start what a crash or a failure interrupted.                       *)
(*                                                                         *)
(* A bound run ends in two stores, the SQLite database and the Git         *)
(* repository all workstreams share, with a journal row as the only link.  *)
(* Each SQLite transaction is one step and each Git effect is one step.    *)
(* The process may die between any two.  Operations of the service run one *)
(* at a time (SerializedWriteQueue): "op" is the one at the head of it.    *)
(***************************************************************************)
EXTENDS Naturals, Sequences, FiniteSets

CONSTANTS
    Streams,        \* agent streams
    Workstreams,    \* workstream identities
    MaxRuns,        \* bound: runs ever started
    MaxCrashes,     \* bound: crashes of the process
    MaxFaults,      \* bound: Git or SQLite calls that fail
    FaultPoints,    \* where a call may fail, a subset of Points
    RecoveryMayFail,\* TRUE: calls may fail during startup recovery, too
    NoRun, NoStream, NoWorkstream

\* The points of a finalization at which a call can fail: before Git writes,
\* after them, after the commit, and after the acknowledgement.
Points == {"journal", "written", "committed", "receipt"}

ASSUME RunAssumption ==
    /\ MaxRuns \in Nat /\ MaxCrashes \in Nat /\ MaxFaults \in Nat
    /\ FaultPoints \subseteq Points
    /\ RecoveryMayFail \in BOOLEAN
    /\ NoRun \notin Nat
    /\ NoStream \notin Streams
    /\ NoWorkstream \notin Workstreams

Run      == 1..MaxRuns      \* run identities, in the order of their creation
Commit   == Nat             \* commits by position; 0 is the initial commit
Outcome  == {"done", "incomplete"}
Blocking == {"running", "recovery_required"}    \* readBlockingRun

VARIABLES
    \* SQLite
    run,        \* run[r]: runs row: status, stream and workstream binding
    workstream, \* workstream[w]: workstreams row
    plan,       \* plan[r]: workstream_request_route_plans row
    unbound,    \* unbound[r]: unbound_run_finalizations row
    journal,    \* journal[r]: workstream_finalizations row
    repoHead,   \* workstream_repository_state.head_sha
    repoHealth, \* workstream_repository_state.repository_health
    \* the shared Git repository
    log,        \* its commits after the initial one; HEAD is Len(log)
    dirty,      \* the run whose planned files lie uncommitted in the tree
    \* the process
    boot,       \* how far ensureStartupRecovery has come
    todo,       \* the rows its present stage has read and not yet handled
    op,         \* the operation at the head of the queue, and where it stands
    live,       \* runs whose caller lives in this process
    acked,      \* runs whose finalizeRun has answered successfully
    crashes, faults

sqlite == <<run, workstream, plan, unbound, journal, repoHead, repoHealth>>
git    == <<log, dirty>>
proc   == <<boot, todo, op, live>>
vars   == <<run, workstream, plan, unbound, journal, repoHead, repoHealth,
            log, dirty, boot, todo, op, live, acked, crashes, faults>>

NoOp == [kind |-> "idle", run |-> NoRun, ws |-> NoWorkstream,
         caller |-> FALSE, step |-> "journal"]

RunRow == [status : {"none"} \cup Blocking \cup Outcome,
           stream : Streams \cup {NoStream},
           ws     : Workstreams \cup {NoWorkstream}]
WorkstreamRow ==
    [status     : {"absent", "initializing", "active"},
     creator    : Run \cup {NoRun},     \* created_by_run_id
     lastCommit : Commit,               \* last_commit_sha, 0: NULL
     evidence   : BOOLEAN,              \* resources, events or leases of it
     ahead      : Run \cup {NoRun}]     \* run whose request change SQLite
                                        \* shows and Git does not yet
UnboundRow == [phase : {"none", "prepared", "completed", "recovery_required"},
               outcome : Outcome]
PlanRow == [phase : {"none", "planned", "recovery_required", "committed", "discarded"},
            base  : Commit]
JournalPhase == {"none", "prepared", "resource_effects_recorded",
                 "context_committed", "completed", "recovery_required"}
JournalRow == [phase : JournalPhase, base : Commit, commit : Commit,
               outcome : Outcome]
LogEntry == [run : Run, ws : Workstreams, outcome : Outcome]

TypeOK ==
    /\ run \in [Run -> RunRow]
    /\ workstream \in [Workstreams -> WorkstreamRow]
    /\ plan \in [Run -> PlanRow]
    /\ unbound \in [Run -> UnboundRow]
    /\ journal \in [Run -> JournalRow]
    /\ repoHead \in Commit
    /\ repoHealth \in {"ready", "dirty_external", "recovery_required"}
    /\ log \in Seq(LogEntry)
    /\ dirty \in Run \cup {NoRun}
    /\ boot \in {"down", "unbound", "bound", "interrupted", "sweep", "ready"}
    /\ todo \subseteq Run
    /\ op \in [kind : {"idle", "route", "unbound", "bound"}, run : Run \cup {NoRun},
               ws : Workstreams \cup {NoWorkstream}, caller : BOOLEAN, step : Points]
    /\ live \subseteq Run
    /\ acked \subseteq Run
    /\ crashes \in 0..MaxCrashes
    /\ faults \in 0..MaxFaults

NoWorkstreamRow == [status |-> "absent", creator |-> NoRun, lastCommit |-> 0,
                    evidence |-> FALSE, ahead |-> NoRun]
NoPlan    == [phase |-> "none", base |-> 0]
NoJournal == [phase |-> "none", base |-> 0, commit |-> 0, outcome |-> "done"]

Init ==
    /\ run = [r \in Run |-> [status |-> "none", stream |-> NoStream, ws |-> NoWorkstream]]
    /\ workstream = [w \in Workstreams |-> NoWorkstreamRow]
    /\ plan = [r \in Run |-> NoPlan]
    /\ unbound = [r \in Run |-> [phase |-> "none", outcome |-> "done"]]
    /\ journal = [r \in Run |-> NoJournal]
    /\ repoHead = 0 /\ repoHealth = "ready"
    /\ log = << >> /\ dirty = NoRun
    /\ boot = "down" /\ todo = {} /\ op = NoOp /\ live = {} /\ acked = {}
    /\ crashes = 0 /\ faults = 0

-----------------------------------------------------------------------------
GitHead     == Len(log)                            \* git rev-parse HEAD
Clean    == dirty = NoRun                       \* git status --porcelain is empty
Bound(r) == run[r].ws # NoWorkstream
Idle     == op.kind = "idle"
Serving  == boot = "ready" /\ Idle              \* the next request is dequeued
Client(r) == Serving /\ r \in live /\ run[r].status = "running"

\* The last commit that touches the directory of w: git log -1 -- <W-*>.
PathHead(w) ==
    LET touching == {k \in 1..GitHead : log[k].ws = w}
    IN  IF touching = {} THEN 0
        ELSE CHOOSE k \in touching : \A j \in touching : j <= k

Materialized(w) == workstream[w].lastCommit # 0

\* WorkstreamInitializationRecord.head: a workstream without a commit stands
\* at whatever SQLite holds as the head of the shared repository.
WorkstreamHead(w) == IF Materialized(w) THEN workstream[w].lastCommit ELSE repoHead

\* What a validation finds: Git itself for a materialized workstream, only
\* SQLite's own picture of it for a provisional one.
ValidHead(w) == IF Materialized(w) THEN PathHead(w) ELSE repoHead
ValidRepositoryHead(w) == IF Materialized(w) THEN GitHead ELSE repoHead
Healthy(w) == IF Materialized(w) THEN Clean ELSE repoHealth = "ready"

PlanOpen(r) == plan[r].phase \in {"planned", "recovery_required"}

\* Mutant: a recovery-required plan does not lock its workstream.
MutantLocked(w) == \E r \in Run : plan[r].phase = "planned" /\ run[r].ws = w
Locked(w)   == \E r \in Run : PlanOpen(r) /\ run[r].ws = w

\* Mutant: a commit that was made and not recorded goes unnoticed.
MutantRecognised(r) == FALSE

\* recognizeCommittedWorkstreamContextPlan: the commit of r on top of its base.
Recognised(r) ==
    LET k == journal[r].base + 1
    IN  GitHead # journal[r].base /\ k <= GitHead /\ log[k].run = r

SetStatus(r, s) == run' = [run EXCEPT ![r].status = s]

\* Mutant: markRunRecoveryRequired without its "AND status = 'running'".
MutantMarkRecovery(r) == SetStatus(r, "recovery_required")
MarkRecovery(r) == SetStatus(r, IF run[r].status = "running"
                                THEN "recovery_required" ELSE run[r].status)
SetPhase(r, p)  == journal' = [journal EXCEPT ![r].phase = p]
Begin(kind, r, w, caller) ==
    op' = [kind |-> kind, run |-> r, ws |-> w, caller |-> caller, step |-> "journal"]
At(kind, r, step) == op.kind = kind /\ op.run = r /\ op.step = step

-----------------------------------------------------------------------------
(* Starting a run and giving it a workstream.                              *)

\* prepareAgentRun: one transaction creates the run, unless the stream has a
\* running or recovery-required one.  Building the answer's context may fail
\* after the transaction: then no caller learns of the run.
StartRun(s) ==
    /\ Serving
    /\ \A r \in Run : run[r].stream = s => run[r].status \notin Blocking
    /\ \E r \in Run :
          /\ run[r].status = "none"
          /\ \A q \in 1..(r - 1) : run[q].status # "none"
          /\ run' = [run EXCEPT ![r] = [@ EXCEPT !.status = "running", !.stream = s]]
          /\ live' \in {live, live \cup {r}}
    /\ UNCHANGED <<workstream, plan, unbound, journal, repoHead, repoHealth,
                   git, boot, todo, op, acked, crashes, faults>>

\* ensureSharedWorkstreamRepository: the health follows the working tree only
\* while SQLite and Git agree on the head.
EnsureRepository ==
    repoHealth' = IF repoHead = GitHead
                  THEN IF Clean THEN "ready" ELSE "dirty_external"
                  ELSE repoHealth

\* create: ensureRepository, then the transaction that allocates the
\* workstream; binding the run to it is a transaction of its own.
CreateWorkstream(r, w) ==
    /\ Client(r) /\ ~Bound(r)
    /\ workstream[w].status = "absent"
    /\ EnsureRepository
    /\ workstream' = [workstream EXCEPT ![w] =
          [@ EXCEPT !.status = "initializing", !.creator = r]]
    /\ Begin("route", r, w, TRUE)
    /\ UNCHANGED <<run, plan, unbound, journal, repoHead, git, boot, todo,
                   live, acked, crashes, faults>>

Routable(w) ==
    /\ workstream[w].status \in {"initializing", "active"}
    /\ ValidHead(w) = WorkstreamHead(w)
    /\ Healthy(w)
    /\ ~Locked(w)

\* The transaction of plan: the request change is projected into SQLite, the
\* route plan is inserted and the run is bound for good.
Route(r, w, changes) ==
    /\ Routable(w)
    /\ run' = [run EXCEPT ![r].ws = w]
    /\ plan' = [plan EXCEPT ![r] = [phase |-> "planned", base |-> WorkstreamHead(w)]]
    /\ workstream' = [workstream EXCEPT ![w].ahead = IF changes THEN r ELSE @]
    /\ UNCHANGED <<unbound, journal, repoHead, repoHealth, git, boot, todo,
                   live, acked, crashes, faults>>

RouteCreated(r) ==
    /\ At("route", r, "journal")
    /\ Route(r, op.ws, FALSE)
    /\ op' = NoOp

\* A refused route leaves the allocated workstream behind, bound to no run.
RouteRefused(r) ==
    /\ At("route", r, "journal")
    /\ ~Routable(op.ws)
    /\ op' = NoOp
    /\ UNCHANGED <<sqlite, git, boot, todo, live, acked, crashes, faults>>

ActivateWorkstream(r, w, changes) ==
    /\ Client(r) /\ ~Bound(r)
    /\ Route(r, w, changes)
    /\ UNCHANGED op

\* Resources bound, attached or mutated through the run.
AdmitResources(r) ==
    /\ Client(r) /\ Bound(r)
    /\ workstream' = [workstream EXCEPT ![run[r].ws].evidence = TRUE]
    /\ UNCHANGED <<run, plan, unbound, journal, repoHead, repoHealth, git,
                   proc, acked, crashes, faults>>

-----------------------------------------------------------------------------
(* Finalizing an unbound run: a journal row, then the terminal status.     *)

SetUnbound(r, p) == unbound' = [unbound EXCEPT ![r].phase = p]

FinalizeUnbound(r, outcome) ==
    /\ Client(r) /\ ~Bound(r)
    /\ unbound' = [unbound EXCEPT ![r] = [phase |-> "prepared", outcome |-> outcome]]
    /\ Begin("unbound", r, NoWorkstream, TRUE)
    /\ UNCHANGED <<run, workstream, plan, journal, repoHead, repoHealth, git,
                   boot, todo, live, acked, crashes, faults>>

\* shouldDiscardEmptyInitializingWorkstream, without completion resources.
Discardable(r) ==
    /\ run[r].status = "running" /\ Bound(r)
    /\ LET w == run[r].ws
       IN  /\ workstream[w].status = "initializing"
           /\ workstream[w].lastCommit = 0
           /\ workstream[w].creator = r
           /\ ~workstream[w].evidence
           /\ \A q \in Run : run[q].ws = w => journal[q].phase = "none"
    /\ plan[r].phase = "planned"

\* One transaction detaches the run, deletes the workstream and its plan and
\* inserts the unbound journal row.
Discard(r, outcome, caller) ==
    /\ Discardable(r)
    /\ run' = [run EXCEPT ![r].ws = NoWorkstream]
    /\ plan' = [plan EXCEPT ![r] = NoPlan]
    /\ workstream' = [workstream EXCEPT ![run[r].ws] = NoWorkstreamRow]
    /\ unbound' = [unbound EXCEPT ![r] = [phase |-> "prepared", outcome |-> outcome]]
    /\ Begin("unbound", r, NoWorkstream, caller)
    /\ UNCHANGED <<journal, repoHead, repoHealth, git, boot, todo, live, acked,
                   crashes, faults>>

FinalizeDiscard(r, outcome) == Client(r) /\ Discard(r, outcome, TRUE)

\* The same request again, after an error left the journal row open.
RetryUnbound(r) ==
    /\ Serving /\ r \in live
    /\ unbound[r].phase \in {"prepared", "recovery_required"}
    /\ Begin("unbound", r, NoWorkstream, TRUE)
    /\ UNCHANGED <<sqlite, git, boot, todo, live, acked, crashes, faults>>

CompleteUnbound(r) ==
    /\ At("unbound", r, "journal")
    /\ SetStatus(r, IF run[r].status \in Blocking THEN unbound[r].outcome
                                                  ELSE run[r].status)
    /\ SetUnbound(r, "completed")
    /\ op' = [op EXCEPT !.step = "receipt"]
    /\ UNCHANGED <<workstream, plan, journal, repoHead, repoHealth, git, boot,
                   todo, live, acked, crashes, faults>>

\* Mutant: a recovered row stays on the list.
MutantFinish(r) == op' = NoOp /\ UNCHANGED todo

\* The end of an operation: answered to its caller, or struck off the list of
\* the recovery that started it.
Finish(r) ==
    /\ op' = NoOp
    /\ todo' = todo \ {r}

Receipt(r) ==
    /\ op.kind \in {"unbound", "bound"} /\ op.run = r /\ op.step = "receipt"
    /\ Finish(r)
    /\ acked' = IF op.caller THEN acked \cup {r} ELSE acked
    /\ UNCHANGED <<sqlite, git, boot, live, crashes, faults>>

\* A SQLite or Git call of the operation fails.
Fault ==
    /\ faults < MaxFaults
    /\ op.step \in FaultPoints
    /\ op.caller \/ RecoveryMayFail
    /\ faults' = faults + 1

UnboundError(r) ==
    /\ op.kind = "unbound" /\ op.run = r
    /\ Fault
    /\ MarkRecovery(r)
    /\ SetUnbound(r, "recovery_required")
    /\ Finish(r)
    /\ UNCHANGED <<workstream, plan, journal, repoHead, repoHealth, git, boot,
                   live, acked, crashes>>

-----------------------------------------------------------------------------
(* Finalizing a bound run.                                                 *)

\* prepareWorkstreamFinalization, whose errors are RECOVERY_REQUIRED except
\* for a workstream head that moved (WORKSTREAM_HEAD_MISMATCH).
HeadMoved(w) == ValidHead(w) # WorkstreamHead(w)

Plannable(r) ==
    LET w == run[r].ws
    IN  /\ ~HeadMoved(w)
        /\ ValidRepositoryHead(w) = repoHead
        /\ Healthy(w)
        /\ plan[r].phase = "planned"
        /\ plan[r].base = ValidHead(w)
        /\ workstream[w].ahead = r => Materialized(w)

\* The transaction that journals the whole plan before Git is touched.
Prepare(r, outcome, resources, caller) ==
    /\ run[r].status = "running" /\ Bound(r)
    /\ journal[r].phase = "none"
    /\ resources \/ ~Discardable(r)
    /\ Plannable(r)
    /\ journal' = [journal EXCEPT ![r] =
          [phase |-> "prepared", base |-> repoHead, commit |-> 0, outcome |-> outcome]]
    /\ workstream' = [workstream EXCEPT ![run[r].ws].evidence = @ \/ resources]
    /\ Begin("bound", r, run[r].ws, caller)
    /\ UNCHANGED <<run, plan, unbound, repoHead, repoHealth, git, boot, todo,
                   live, acked, crashes, faults>>

FinalizeBound(r, outcome, resources) ==
    Client(r) /\ Prepare(r, outcome, resources, TRUE)

\* A plan refused with RECOVERY_REQUIRED marks the run and journals nothing.
RefuseBound(r) ==
    /\ Client(r) /\ Bound(r)
    /\ journal[r].phase = "none"
    /\ ~HeadMoved(run[r].ws) /\ ~Plannable(r)
    /\ MarkRecovery(r)
    /\ UNCHANGED <<workstream, plan, unbound, journal, repoHead, repoHealth,
                   git, proc, acked, crashes, faults>>

\* The same request again finds its journal and goes on from its phase.
RetryBound(r) ==
    /\ Serving /\ r \in live
    /\ journal[r].phase \notin {"none", "completed"}
    /\ Begin("bound", r, run[r].ws, TRUE)
    /\ UNCHANGED <<sqlite, git, boot, todo, live, acked, crashes, faults>>

Step(label) == op' = [op EXCEPT !.step = label]

\* executeRecord of a recovery-required journal: the commit is recognised, or
\* the effects are done again if no commit was ever recorded.
Reexamine(r) ==
    /\ At("bound", r, "journal")
    /\ journal[r].phase = "recovery_required"
    /\ \/ /\ Recognised(r)
          /\ journal' = [journal EXCEPT ![r] =
                [@ EXCEPT !.phase = "context_committed", !.commit = journal[r].base + 1]]
       \/ /\ ~Recognised(r) /\ journal[r].commit = 0
          /\ SetPhase(r, "resource_effects_recorded")
    /\ UNCHANGED <<run, workstream, plan, unbound, repoHead, repoHealth, git,
                   proc, acked, crashes, faults>>

RecordEffects(r) ==
    /\ At("bound", r, "journal")
    /\ journal[r].phase = "prepared"
    /\ SetPhase(r, "resource_effects_recorded")
    /\ UNCHANGED <<run, workstream, plan, unbound, repoHead, repoHealth, git,
                   proc, acked, crashes, faults>>

\* Mutant: the expected HEAD is not compared.
MutantWriteContext(r) ==
    /\ At("bound", r, "journal")
    /\ journal[r].phase = "resource_effects_recorded"
    /\ dirty \in {NoRun, r}
    /\ dirty' = r
    /\ Step("written")
    /\ UNCHANGED <<sqlite, log, boot, todo, live, acked, crashes, faults>>

\* commitWorkstreamContextPlan up to the staged files: HEAD must still be the
\* base and the tree clean, or dirty with this plan's own paths.
WriteContext(r) ==
    /\ At("bound", r, "journal")
    /\ journal[r].phase = "resource_effects_recorded"
    /\ GitHead = journal[r].base
    /\ dirty \in {NoRun, r}
    /\ dirty' = r
    /\ Step("written")
    /\ UNCHANGED <<sqlite, log, boot, todo, live, acked, crashes, faults>>

GitCommit(r) ==
    /\ At("bound", r, "written")
    /\ log' = Append(log, [run |-> r, ws |-> run[r].ws, outcome |-> journal[r].outcome])
    /\ dirty' = NoRun
    /\ Step("committed")
    /\ UNCHANGED <<sqlite, boot, todo, live, acked, crashes, faults>>

\* HEAD moved because the commit was made and not recorded.
RecogniseCommit(r) ==
    /\ At("bound", r, "journal")
    /\ journal[r].phase = "resource_effects_recorded"
    /\ Recognised(r)
    /\ Step("committed")
    /\ UNCHANGED <<sqlite, git, boot, todo, live, acked, crashes, faults>>

\* Mutant: the answer is given before the acknowledgement.
MutantRecordCommit(r) ==
    /\ At("bound", r, "committed")
    /\ journal' = [journal EXCEPT ![r] =
          [@ EXCEPT !.phase = "context_committed", !.commit = journal[r].base + 1]]
    /\ Step("receipt")
    /\ UNCHANGED <<run, workstream, plan, unbound, repoHead, repoHealth, git,
                   boot, todo, live, acked, crashes, faults>>

RecordCommit(r) ==
    /\ At("bound", r, "committed")
    /\ journal' = [journal EXCEPT ![r] =
          [@ EXCEPT !.phase = "context_committed", !.commit = journal[r].base + 1]]
    /\ Step("journal")
    /\ UNCHANGED <<run, workstream, plan, unbound, repoHead, repoHealth, git,
                   boot, todo, live, acked, crashes, faults>>

\* validateCommittedWorkstreamFinalization and the head check of
\* acknowledgeWorkstreamFinalization.
Acknowledgeable(r) ==
    /\ GitHead = journal[r].commit
    /\ PathHead(run[r].ws) = journal[r].commit
    /\ Clean
    /\ repoHead \in {journal[r].base, journal[r].commit}

\* Mutant: only a running run is finalized, a recovery-required one stays.
MutantAcknowledge(r) ==
    /\ At("bound", r, "journal")
    /\ journal[r].phase = "context_committed"
    /\ Acknowledgeable(r)
    /\ repoHead' = journal[r].commit
    /\ repoHealth' = IF repoHead = journal[r].base THEN "ready" ELSE repoHealth
    /\ workstream' = [workstream EXCEPT ![run[r].ws] =
          [@ EXCEPT !.status = "active", !.lastCommit = journal[r].commit, !.ahead = NoRun]]
    /\ SetStatus(r, IF run[r].status = "running" THEN journal[r].outcome
                                                 ELSE run[r].status)
    /\ plan' = [plan EXCEPT ![r].phase = "committed"]
    /\ SetPhase(r, "completed")
    /\ Step("receipt")
    /\ UNCHANGED <<unbound, git, boot, todo, live, acked, crashes, faults>>

\* The transaction that makes the commit part of SQLite's picture: repository
\* head, requests and workstream, run, plan and journal together.
Acknowledge(r) ==
    /\ At("bound", r, "journal")
    /\ journal[r].phase = "context_committed"
    /\ Acknowledgeable(r)
    /\ repoHead' = journal[r].commit
    /\ repoHealth' = IF repoHead = journal[r].base THEN "ready" ELSE repoHealth
    /\ workstream' = [workstream EXCEPT ![run[r].ws] =
          [@ EXCEPT !.status = "active", !.lastCommit = journal[r].commit, !.ahead = NoRun]]
    /\ SetStatus(r, IF run[r].status \in Blocking THEN journal[r].outcome
                                                  ELSE run[r].status)
    /\ plan' = [plan EXCEPT ![r].phase = "committed"]
    /\ SetPhase(r, "completed")
    /\ Step("receipt")
    /\ UNCHANGED <<unbound, git, boot, todo, live, acked, crashes, faults>>

\* The checks of executeRecord that throw.
Stuck(r) ==
    /\ At("bound", r, "journal")
    /\ \/ journal[r].phase = "recovery_required" /\ ~Recognised(r) /\ journal[r].commit # 0
       \/ journal[r].phase = "resource_effects_recorded"
             /\ GitHead # journal[r].base /\ ~Recognised(r)
       \/ journal[r].phase = "resource_effects_recorded"
             /\ GitHead = journal[r].base /\ dirty \notin {NoRun, r}
       \/ journal[r].phase = "context_committed" /\ ~Acknowledgeable(r)

\* Mutant: the checks that throw are swallowed.
MutantBoundError(r) ==
    /\ op.kind = "bound" /\ op.run = r
    /\ Fault
    /\ MarkRecovery(r)
    /\ repoHealth' = "recovery_required"
    /\ SetPhase(r, "recovery_required")
    /\ plan' = [plan EXCEPT ![r].phase = "recovery_required"]
    /\ Finish(r)
    /\ UNCHANGED <<workstream, unbound, repoHead, git, boot, live, acked, crashes>>

\* markRecoveryRequired, whatever phase the journal has reached.
BoundError(r) ==
    /\ op.kind = "bound" /\ op.run = r
    /\ Fault \/ (Stuck(r) /\ UNCHANGED faults)
    /\ MarkRecovery(r)
    /\ repoHealth' = "recovery_required"
    /\ SetPhase(r, "recovery_required")
    /\ plan' = [plan EXCEPT ![r].phase = "recovery_required"]
    /\ Finish(r)
    /\ UNCHANGED <<workstream, unbound, repoHead, git, boot, live, acked, crashes>>

-----------------------------------------------------------------------------
(* Crash and ensureStartupRecovery.                                        *)

Crash ==
    /\ boot # "down"
    /\ crashes < MaxCrashes
    /\ crashes' = crashes + 1
    /\ boot' = "down" /\ todo' = {} /\ op' = NoOp /\ live' = {}
    /\ UNCHANGED <<sqlite, git, acked, faults>>

OpenUnbound  == {r \in Run : unbound[r].phase \notin {"none", "completed"}}

\* Mutant: journals that failed once are not read again.
MutantOpenJournals ==
    {r \in Run : journal[r].phase \notin {"none", "completed", "recovery_required"}}
OpenJournals == {r \in Run : journal[r].phase \notin {"none", "completed"}}
ActiveRuns   == {r \in Run : run[r].status \in Blocking}

\* Mutant: workstreams that were never bound survive the start.
MutantBoot ==
    /\ boot = "down"
    /\ EnsureRepository
    /\ boot' = "unbound"
    /\ todo' = OpenUnbound
    /\ UNCHANGED <<run, workstream, plan, unbound, journal, repoHead, git, op,
                   live, acked, crashes, faults>>

\* recoverInitializingState: a workstream that never got a run bound to it is
\* deleted.
Boot ==
    /\ boot = "down"
    /\ EnsureRepository
    /\ workstream' = [w \in Workstreams |->
          IF /\ workstream[w].status = "initializing"
             /\ \A r \in Run : run[r].ws # w
          THEN NoWorkstreamRow ELSE workstream[w]]
    /\ boot' = "unbound"
    /\ todo' = OpenUnbound
    /\ UNCHANGED <<run, plan, unbound, journal, repoHead, git, op, live, acked,
                   crashes, faults>>

\* Mutant: interrupted bound runs are left to the sweep.
MutantNextStage ==
    /\ Idle /\ todo = {}
    /\ \/ boot = "unbound" /\ boot' = "bound" /\ todo' = OpenJournals
       \/ boot = "bound" /\ boot' = "sweep" /\ todo' = ActiveRuns
       \/ boot = "sweep" /\ boot' = "ready" /\ todo' = {}
    /\ UNCHANGED <<sqlite, git, op, live, acked, crashes, faults>>

\* Each stage reads its rows once and then handles them one by one.  Rows
\* carry the clock of their caller, so the model takes them in any order.
NextStage ==
    /\ Idle /\ todo = {}
    /\ \/ boot = "unbound" /\ boot' = "bound" /\ todo' = OpenJournals
       \/ boot = "bound" /\ boot' = "interrupted" /\ todo' = ActiveRuns
       \/ boot = "interrupted" /\ boot' = "sweep" /\ todo' = ActiveRuns
       \/ boot = "sweep" /\ boot' = "ready" /\ todo' = {}
    /\ UNCHANGED <<sqlite, git, op, live, acked, crashes, faults>>

Recovering(stage, r) == boot = stage /\ Idle /\ r \in todo

RecoverUnbound(r) ==
    /\ Recovering("unbound", r)
    /\ Begin("unbound", r, NoWorkstream, FALSE)
    /\ UNCHANGED <<sqlite, git, boot, todo, live, acked, crashes, faults>>

RecoverBound(r) ==
    /\ Recovering("bound", r)
    /\ Begin("bound", r, run[r].ws, FALSE)
    /\ UNCHANGED <<sqlite, git, boot, todo, live, acked, crashes, faults>>

\* recoverInterruptedBoundRuns: the run of a dead caller is finalized as
\* incomplete; a refusal of any kind marks it.
Interrupted(r) ==
    /\ run[r].status = "running" /\ Bound(r)
    /\ journal[r].phase = "none"
    /\ plan[r].phase = "planned"

RecoverInterrupted(r) ==
    /\ Recovering("interrupted", r)
    /\ Interrupted(r)
    /\ \/ Discard(r, "incomplete", FALSE)
       \/ Prepare(r, "incomplete", FALSE, FALSE)

SkipInterrupted(r) ==
    /\ Recovering("interrupted", r)
    /\ \/ ~Interrupted(r) /\ UNCHANGED run
       \/ Interrupted(r) /\ ~Discardable(r) /\ ~Plannable(r) /\ MarkRecovery(r)
    /\ todo' = todo \ {r}
    /\ UNCHANGED <<workstream, plan, unbound, journal, repoHead, repoHealth,
                   git, boot, op, live, acked, crashes, faults>>

\* Mutant: the stop reason is written as the status.
MutantSweep(r) ==
    /\ Recovering("sweep", r)
    /\ todo' = todo \ {r}
    /\ SetStatus(r, "interrupted")
    /\ UNCHANGED <<workstream, plan, unbound, journal, repoHead, repoHealth, git,
                   boot, op, live, acked, crashes, faults>>

\* StartupRunRecoveryService: a run no journal speaks for ends as incomplete,
\* any other one that is still open stays recovery-required.
Sweep(r) ==
    /\ Recovering("sweep", r)
    /\ todo' = todo \ {r}
    /\ IF \/ run[r].status = "recovery_required"
          \/ unbound[r].phase # "none" \/ journal[r].phase # "none"
          \/ plan[r].phase = "recovery_required"
       THEN MarkRecovery(r) /\ UNCHANGED plan
       ELSE /\ SetStatus(r, "incomplete")
            /\ plan' = [plan EXCEPT ![r].phase = IF @ = "planned" THEN "discarded" ELSE @]
    /\ UNCHANGED <<workstream, unbound, journal, repoHead, repoHealth, git,
                   boot, op, live, acked, crashes, faults>>

-----------------------------------------------------------------------------
Request(r) ==
    \/ \E w \in Workstreams :
          CreateWorkstream(r, w) \/ \E c \in BOOLEAN : ActivateWorkstream(r, w, c)
    \/ AdmitResources(r)
    \/ \E o \in Outcome : FinalizeUnbound(r, o) \/ FinalizeDiscard(r, o)
                          \/ \E c \in BOOLEAN : FinalizeBound(r, o, c)
    \/ RefuseBound(r) \/ RetryUnbound(r) \/ RetryBound(r)

Continue(r) ==
    \/ RouteCreated(r) \/ RouteRefused(r)
    \/ CompleteUnbound(r) \/ UnboundError(r) \/ Receipt(r)
    \/ Reexamine(r) \/ RecordEffects(r) \/ WriteContext(r) \/ GitCommit(r)
    \/ RecogniseCommit(r) \/ RecordCommit(r) \/ Acknowledge(r) \/ BoundError(r)

Recover(r) ==
    RecoverUnbound(r) \/ RecoverBound(r) \/ RecoverInterrupted(r)
    \/ SkipInterrupted(r) \/ Sweep(r)

Next ==
    \/ \E s \in Streams : StartRun(s)
    \/ \E r \in Run : Request(r) \/ Continue(r) \/ Recover(r)
    \/ Boot \/ NextStage \/ Crash

\* The process goes on with an operation it has begun and, once started, with
\* its recovery; requests, crashes and restarts come from outside.
Progress == NextStage \/ \E r \in Run : Continue(r) \/ Recover(r)
Fairness == WF_vars(Progress) /\ WF_vars(Boot)

Spec     == Init /\ [][Next]_vars
FairSpec == Spec /\ Fairness

-----------------------------------------------------------------------------
(* Properties.                                                             *)

\* Each commit stands where its run's journal planned it, on the base the
\* journal recorded and for the run's workstream, whatever was retried: so a
\* run has at most one commit, and the shared history holds no other commit.
CommitsAreJournaled ==
    \A k \in 1..GitHead :
        LET r == log[k].run
        IN  /\ journal[r].phase \notin {"none", "prepared"}
            /\ journal[r].base = k - 1
            /\ journal[r].outcome = log[k].outcome
            /\ run[r].ws = log[k].ws

OneCommitPerRun ==
    \A j, k \in 1..GitHead : log[j].run = log[k].run => j = k

\* A bound run that reached a terminal status has its commit in the history,
\* with that outcome, and SQLite's shared head includes it: the status is
\* never ahead of Git.
TerminalIsCommitted ==
    \A r \in Run : (run[r].status \in Outcome /\ Bound(r)) =>
        /\ journal[r].commit \in 1..repoHead
        /\ log[journal[r].commit].run = r
        /\ log[journal[r].commit].outcome = run[r].status

\* A caller that got an answer has a finished run behind it.
AckedIsTerminal == \A r \in acked : run[r].status \in Outcome

\* SQLite never runs ahead of Git and misses at most its newest commit, whose
\* journal is then still open: no commit is ever forgotten.
SqliteFollowsGit ==
    /\ repoHead <= GitHead
    /\ repoHead < GitHead =>
          /\ repoHead + 1 = GitHead
          /\ journal[log[GitHead].run].phase # "completed"

\* The requests SQLite shows are those of Git, except under an open route
\* plan of a run bound to the workstream: a change is never left behind by a
\* run that ended without its commit.
RequestsMatchGit ==
    \A w \in Workstreams : workstream[w].ahead # NoRun =>
        LET r == workstream[w].ahead
        IN  run[r].ws = w /\ run[r].status \in Blocking /\ PlanOpen(r)

\* A run that works on a committed workstream keeps a plan that stands on the
\* newest commit of that workstream: no other run, retry or recovery commits
\* to the workstream under it.
PlanIsCurrent ==
    \A r \in Run :
        (/\ run[r].status = "running" /\ Bound(r)
         /\ journal[r].phase = "none"
         /\ Materialized(run[r].ws))
        => /\ plan[r].phase = "planned"
           /\ plan[r].base = PathHead(run[r].ws)
           /\ workstream[run[r].ws].lastCommit = plan[r].base

\* A finished run keeps its status and binding, and a bound run its
\* workstream unless the workstream is discarded with it.
RunsAreFinal ==
    [][\A r \in Run :
          /\ run[r].status \in Outcome => run'[r] = run[r]
          /\ Bound(r) => \/ run'[r].ws = run[r].ws
                         \/ workstream'[run[r].ws].status = "absent"]_vars

\* When recovery has gone through, every run of an earlier process is closed,
\* its route plan with it, and no workstream is left half created, provided
\* no call failed meanwhile.
RecoveryResolves ==
    [][(boot # "ready" /\ boot' = "ready") =>
          /\ \A r \in Run : /\ run'[r].status \notin Blocking
                            /\ plan'[r].phase \in {"none", "committed"}
          /\ \A w \in Workstreams : workstream'[w].status # "initializing"]_vars

\* Then, too, every journal is completed: recovery "finishes the exact plan"
\* of a finalization that stopped before its commit and "finishes projection
\* without another commit" of one that stopped after it.
JournalsFinish ==
    [][(boot # "ready" /\ boot' = "ready") =>
          \A r \in Run : journal'[r].phase \in {"none", "completed"}]_vars

\* Without a failing call no run ever becomes recovery-required, whatever the
\* crashes and whatever other runs commit: "an unrelated workstream commit
\* never makes another workstream stale".
NeverRecoveryRequired ==
    faults = 0 => \A r \in Run : run[r].status # "recovery_required"

\* Started, the process gets to serve requests again, whatever it finds.
RecoveryTerminates == (boot # "ready") ~> (boot = "ready")

\* A finalization that is under way ends: the queue is never blocked for good.
FinalizationTerminates ==
    \A r \in Run : (op.kind = "bound" /\ op.run = r) ~> (op.run # r)

-----------------------------------------------------------------------------
\* The run statuses and bindings of SQLite, and the part of Git's history
\* SQLite has acknowledged, behave as if they were one store.
Atomic == INSTANCE AtomicFinalization WITH
    status  <- [r \in Run |-> run[r].status],
    binding <- [r \in Run |-> run[r].ws],
    history <- SubSeq(log, 1, repoHead)

AtomicSpec == Atomic!Spec
=============================================================================
