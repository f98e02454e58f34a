-------------------------- MODULE ResourceMutation --------------------------
(***************************************************************************)
(* Changing a resource through a tool: the engine leases the scope and     *)
(* snapshots the resource (prepareResourceMutation), the tool runs, and    *)
(* the engine compares and records what changed (verifyResourceMutation).  *)
(* A lease whose outcome is unknown is kept, and its run stopped.          *)
(*                                                                         *)
(* Runs work on workstreams of their own that share one resource of        *)
(* several files.  The service's operations run one at a time              *)
(* (SerializedWriteQueue); tools run outside the queue, several at once.   *)
(***************************************************************************)
EXTENDS Naturals, FiniteSets

CONSTANTS
    Runs,       \* runs, each bound to a workstream that may mutate the resource
    Calls,      \* tool calls
    Files,      \* files of the resource
    MaxWrites,  \* bound: changes of one file
    MaxCrashes, \* bound: crashes of the process
    MaxFaults,  \* bound: snapshots and SQLite calls that fail
    NoRun, NoCall, NoSnapshot

ASSUME MutationAssumption ==
    /\ MaxWrites \in Nat /\ MaxCrashes \in Nat /\ MaxFaults \in Nat
    /\ NoRun \notin Runs /\ NoCall \notin Calls
    /\ NoSnapshot \notin [Files -> Nat]

VARIABLES
    \* SQLite
    run,        \* run[r]: status of the runs row
    receipt,    \* receipt[c]: idempotency row of c's prepare; "published":
                \* in_progress with the response in it
    mutation,   \* mutation[c]: operation, lease and lock rows
    known,      \* the resource version of the catalogue
    \* the file system
    content,    \* content[f]: version of the file
    \* the process
    boot,       \* how far startup recovery has come
    head,       \* the operation at the head of the queue
    caller,     \* caller[c]: where the tool executor stands with c
    crashes, faults

sqlite == <<run, receipt, mutation, known>>
vars   == <<run, receipt, mutation, known, content, boot, head, caller, crashes, faults>>

Snapshot == [Files -> 0..MaxWrites]
MutationRow ==
    [run : Runs \cup {NoRun}, scope : SUBSET Files,
     status : {"none", "prepared", "verified", "no_change", "recovery_required"},
     lease : {"none", "active", "released", "recovery_required"},
     before : Snapshot \cup {NoSnapshot},
     reported : BOOLEAN]                \* tool_status IS NOT NULL
NoMutation == [run |-> NoRun, scope |-> {}, status |-> "none", lease |-> "none",
               before |-> NoSnapshot, reported |-> FALSE]
Quiet == [kind |-> "idle", call |-> NoCall, step |-> "begun", after |-> NoSnapshot]

TypeOK ==
    /\ run \in [Runs -> {"none", "running", "recovery_required", "closed"}]
    /\ receipt \in [Calls -> {"none", "in_progress", "published", "completed",
                              "recovery_required"}]
    /\ mutation \in [Calls -> MutationRow]
    /\ known \in Snapshot
    /\ content \in Snapshot
    /\ boot \in {"down", "safe", "mark", "runs", "ready"}
    /\ head \in [kind : {"idle", "prepare", "verify", "release"},
                 call : Calls \cup {NoCall},
                 step : {"begun", "allocated", "snapshotted", "published", "released"},
                 after : Snapshot \cup {NoSnapshot}]
    /\ caller \in [Calls -> {"none", "waiting", "authorised", "ok", "failed", "done"}]
    /\ crashes \in 0..MaxCrashes
    /\ faults \in 0..MaxFaults

Init ==
    /\ run = [r \in Runs |-> "none"]
    /\ receipt = [c \in Calls |-> "none"]
    /\ mutation = [c \in Calls |-> NoMutation]
    /\ known = [f \in Files |-> 0] /\ content = [f \in Files |-> 0]
    /\ boot = "ready" /\ head = Quiet /\ caller = [c \in Calls |-> "none"]
    /\ crashes = 0 /\ faults = 0

-----------------------------------------------------------------------------
Idle    == head.kind = "idle"
Serving == boot = "ready" /\ Idle
Open(c) == mutation[c].lease \in {"active", "recovery_required"}
Of(r)   == {c \in Calls : mutation[c].run = r}
At(kind, c, step) == head.kind = kind /\ head.call = c /\ head.step = step
Advance(step) == head' = [head EXCEPT !.step = step]
Receipt(c, s) == receipt' = [receipt EXCEPT ![c] = s]
Caller(c, s)  == caller' = [caller EXCEPT ![c] = s]

\* Mutant: only active leases lock.
MutantAvailable(r, S) ==
    /\ \A c \in Of(r) : ~Open(c)
    /\ \A c \in Calls : mutation[c].lease = "active" => mutation[c].scope \cap S = {}

\* assertScopesAvailable, and the unique index that gives a run one lease.
Available(r, S) ==
    /\ \A c \in Of(r) : ~Open(c)
    /\ \A c \in Calls : Open(c) => mutation[c].scope \cap S = {}

Fault == faults < MaxFaults /\ faults' = faults + 1

-----------------------------------------------------------------------------
(* Runs, as far as mutations depend on them.                               *)

StartRun(r) ==
    /\ Serving
    /\ run[r] = "none"
    /\ run' = [run EXCEPT ![r] = "running"]
    /\ UNCHANGED <<receipt, mutation, known, content, boot, head, caller, crashes, faults>>

\* requireVerifiedMutationState: a run with an open operation or lease is not
\* finalized, its finalization marks it.
Unverified(r) == \E c \in Of(r) : Open(c)
                     \/ mutation[c].status \in {"prepared", "recovery_required"}

\* Mutant: finalization does not look at leases.
MutantConclude(r) == run' = [run EXCEPT ![r] = "closed"]
Conclude(r) == run' = [run EXCEPT ![r] = IF Unverified(r) THEN "recovery_required"
                                                          ELSE "closed"]

\* The run is finalized when its agent loop is over, and with it its calls.
FinalizeRun(r) ==
    /\ Serving
    /\ run[r] = "running"
    /\ \A c \in Of(r) : caller[c] \in {"none", "done"}
    /\ Conclude(r)
    /\ UNCHANGED <<receipt, mutation, known, content, boot, head, caller, crashes, faults>>

-----------------------------------------------------------------------------
(* prepareResourceMutation.                                                *)

\* The idempotency row, before anything else.
BeginPrepare(c, r, S) ==
    /\ Serving
    /\ caller[c] = "none" /\ receipt[c] = "none"
    /\ run[r] = "running"
    /\ Receipt(c, "in_progress")
    /\ Caller(c, "waiting")
    /\ mutation' = [mutation EXCEPT ![c].run = r, ![c].scope = S]
    /\ head' = [Quiet EXCEPT !.kind = "prepare", !.call = c]
    /\ UNCHANGED <<run, known, content, boot, crashes, faults>>

\* One transaction inserts the lease, its locks and the operation.
Allocate(c) ==
    /\ At("prepare", c, "begun")
    /\ Available(mutation[c].run, mutation[c].scope)
    /\ mutation' = [mutation EXCEPT ![c].status = "prepared", ![c].lease = "active"]
    /\ Advance("allocated")
    /\ UNCHANGED <<run, receipt, known, content, boot, caller, crashes, faults>>

TakeSnapshot(c) ==
    /\ At("prepare", c, "allocated")
    /\ mutation' = [mutation EXCEPT ![c].before = content]
    /\ Advance("snapshotted")
    /\ UNCHANGED <<run, receipt, known, content, boot, caller, crashes, faults>>

\* onAuthorityPrepared stores the response in the row that is in progress.
Publish(c) ==
    /\ At("prepare", c, "snapshotted")
    /\ Receipt(c, "published")
    /\ Advance("published")
    /\ UNCHANGED <<run, mutation, known, content, boot, caller, crashes, faults>>

\* Mutant: the receipt stays in progress.
MutantCompletePrepare(c) ==
    /\ At("prepare", c, "published")
    /\ Caller(c, "authorised")
    /\ head' = Quiet
    /\ UNCHANGED <<sqlite, content, boot, crashes, faults>>

\* The receipt is completed, and only then the caller has the authority.
CompletePrepare(c) ==
    /\ At("prepare", c, "published")
    /\ Receipt(c, "completed")
    /\ Caller(c, "authorised")
    /\ head' = Quiet
    /\ UNCHANGED <<run, mutation, known, content, boot, crashes, faults>>

\* releaseFailedPreparation: no tool has run, so nothing is locked any more.
Release(c) == mutation' = [mutation EXCEPT ![c] =
    [@ EXCEPT !.status = "no_change", !.lease = "released", !.reported = TRUE]]

FailPreparation(c) ==
    /\ At("prepare", c, "allocated") \/ At("prepare", c, "snapshotted")
    /\ Fault
    /\ Release(c)
    /\ Advance("released")
    /\ UNCHANGED <<run, receipt, known, content, boot, caller, crashes>>

\* Whatever prepare throws ends in a failed receipt and an error: a scope that
\* is locked, a released preparation, or a receipt that cannot be completed,
\* whose lease stays active.
RefusePrepare(c) ==
    /\ \/ /\ At("prepare", c, "begun")
          /\ ~Available(mutation[c].run, mutation[c].scope) /\ UNCHANGED faults
       \/ At("prepare", c, "released") /\ UNCHANGED faults
       \/ (At("prepare", c, "begun") \/ At("prepare", c, "published")) /\ Fault
    /\ Receipt(c, "recovery_required")
    /\ Caller(c, "done")
    /\ head' = Quiet
    /\ UNCHANGED <<run, mutation, known, content, boot, crashes>>

-----------------------------------------------------------------------------
(* The tool, outside the queue.                                            *)

Change(f) == content[f] < MaxWrites /\ content' = [content EXCEPT ![f] = @ + 1]

ToolWrites(c, f) ==
    /\ caller[c] = "authorised"
    /\ f \in mutation[c].scope
    /\ Change(f)
    /\ UNCHANGED <<sqlite, boot, head, caller, crashes, faults>>

ToolEnds(c, outcome) ==
    /\ caller[c] = "authorised"
    /\ Caller(c, outcome)
    /\ UNCHANGED <<sqlite, content, boot, head, crashes, faults>>

-----------------------------------------------------------------------------
(* verifyResourceMutation.                                                 *)

Changed(c)  == {f \in Files : mutation[c].before[f] # head.after[f]}

\* The second snapshot.  The service checks that the lease is still active.
BeginVerify(c) ==
    /\ Serving
    /\ caller[c] \in {"ok", "failed"}
    /\ mutation[c].status = "prepared" /\ mutation[c].lease = "active"
    /\ head' = [Quiet EXCEPT !.kind = "verify", !.call = c, !.after = content]
    /\ UNCHANGED <<sqlite, content, boot, caller, crashes, faults>>

\* An operation that is recovery-required keeps its lease and stops its run.
Suspect(c, answered) ==
    /\ mutation' = [mutation EXCEPT ![c] =
          [@ EXCEPT !.status = "recovery_required", !.lease = "recovery_required",
                    !.reported = answered]]
    /\ run' = [run EXCEPT ![mutation[c].run] =
                  IF @ = "running" THEN "recovery_required" ELSE @]

\* Only files of the scope changed, and none if the tool failed.
Trusted(c) ==
    /\ Changed(c) \subseteq mutation[c].scope
    /\ caller[c] = "failed" => Changed(c) = {}

\* The changes are recorded as the resource's new version and the lease is
\* released, in one transaction.
Confirm(c) ==
    /\ At("verify", c, "begun")
    /\ Trusted(c)
    /\ mutation' = [mutation EXCEPT ![c] =
          [@ EXCEPT !.status = IF Changed(c) = {} THEN "no_change" ELSE "verified",
                    !.lease = "released", !.reported = TRUE]]
    /\ known' = IF Changed(c) = {} THEN known ELSE head.after
    /\ Caller(c, "done")
    /\ head' = Quiet
    /\ UNCHANGED <<run, receipt, content, boot, crashes, faults>>

Reject(c) ==
    /\ At("verify", c, "begun")
    /\ ~Trusted(c)
    /\ Suspect(c, TRUE)
    /\ Caller(c, "done")
    /\ head' = Quiet
    /\ UNCHANGED <<receipt, known, content, boot, crashes, faults>>

\* The second snapshot cannot be taken: markRecoveryRequired.
FailVerification(c) ==
    /\ At("verify", c, "begun")
    /\ Fault
    /\ Suspect(c, FALSE)
    /\ Caller(c, "done")
    /\ head' = Quiet
    /\ UNCHANGED <<receipt, known, content, boot, crashes>>

-----------------------------------------------------------------------------
(* Crash and recoverInterrupted, then the recovery of runs.                *)

Crash ==
    /\ boot # "down"
    /\ crashes < MaxCrashes
    /\ crashes' = crashes + 1
    /\ boot' = "down" /\ head' = Quiet
    /\ caller' = [c \in Calls |-> IF caller[c] = "none" THEN "none" ELSE "done"]
    /\ UNCHANGED <<sqlite, content, faults>>

\* Mutant: the receipt is not looked at.
MutantUnpublished(c) ==
    /\ Open(c) /\ mutation[c].status \in {"prepared", "recovery_required"}
    /\ ~mutation[c].reported

\* The candidates of recoverSafePreExecutionFailures whose preparation was not
\* completed: nobody can have received their authority.
Unpublished(c) ==
    /\ Open(c) /\ mutation[c].status \in {"prepared", "recovery_required"}
    /\ ~mutation[c].reported
    /\ receipt[c] # "completed"

ReleaseUnpublished(c) ==
    /\ boot = "safe" /\ Idle
    /\ Unpublished(c)
    /\ Release(c)
    /\ head' = [Quiet EXCEPT !.kind = "release", !.call = c]
    /\ UNCHANGED <<run, receipt, known, content, boot, caller, crashes, faults>>

\* Mutant: the run stays as it was marked.
MutantRestoreRun(c) ==
    /\ At("release", c, "begun")
    /\ head' = Quiet
    /\ UNCHANGED <<run, receipt, mutation, known, content, boot, caller, crashes, faults>>

\* An update of its own sets the run back to running, so that the recovery of
\* interrupted runs can close it.  (runHasRecoveryBlocker also looks at the
\* finalization journals, which this module's runs have not got.)
RestoreRun(c) ==
    /\ At("release", c, "begun")
    /\ LET r == mutation[c].run
           blocked == \E d \in Of(r) : Open(d)
       IN  run' = [run EXCEPT ![r] =
                     IF @ = "recovery_required" /\ ~blocked THEN "running" ELSE @]
    /\ head' = Quiet
    /\ UNCHANGED <<receipt, mutation, known, content, boot, caller, crashes, faults>>

MarkInterrupted(c) ==
    /\ boot = "mark" /\ Idle
    /\ mutation[c].lease = "active"
    /\ Suspect(c, mutation[c].reported)
    /\ UNCHANGED <<receipt, known, content, boot, head, caller, crashes, faults>>

\* recoverInterruptedBoundRuns and the sweep, which both refuse a run with an
\* open lease.
RecoverRun(r) ==
    /\ boot = "runs" /\ Idle
    /\ run[r] = "running"
    /\ Conclude(r)
    /\ UNCHANGED <<receipt, mutation, known, content, boot, head, caller, crashes, faults>>

NextStage ==
    /\ Idle
    /\ \/ boot = "down" /\ boot' = "safe"
       \/ boot = "safe" /\ boot' = "mark" /\ \A c \in Calls : ~Unpublished(c)
       \/ boot = "mark" /\ boot' = "runs" /\ \A c \in Calls : mutation[c].lease # "active"
       \/ boot = "runs" /\ boot' = "ready" /\ \A r \in Runs : run[r] # "running"
    /\ UNCHANGED <<sqlite, content, head, caller, crashes, faults>>

-----------------------------------------------------------------------------
Prepare(c) ==
    \/ \E r \in Runs, S \in SUBSET Files \ {{}} : BeginPrepare(c, r, S)
    \/ Allocate(c) \/ TakeSnapshot(c) \/ Publish(c) \/ CompletePrepare(c)
    \/ FailPreparation(c) \/ RefusePrepare(c)

Tool(c) ==
    \/ \E f \in Files : ToolWrites(c, f)
    \/ \E outcome \in {"ok", "failed"} : ToolEnds(c, outcome)

Verify(c) == BeginVerify(c) \/ Confirm(c) \/ Reject(c) \/ FailVerification(c)

Recover(c) == ReleaseUnpublished(c) \/ RestoreRun(c) \/ MarkInterrupted(c)

Next ==
    \/ \E r \in Runs : StartRun(r) \/ FinalizeRun(r) \/ RecoverRun(r)
    \/ \E c \in Calls : Prepare(c) \/ Tool(c) \/ Verify(c) \/ Recover(c)
    \/ Crash \/ NextStage

Spec == Init /\ [][Next]_vars

-----------------------------------------------------------------------------
(* Properties.                                                             *)

\* The caller of c has, or had, the authority to change the scope of c, and
\* nobody has confirmed yet what became of it.
Undecided(c) == receipt[c] = "completed"
                /\ mutation[c].status \notin {"verified", "no_change"}

\* Two tools never work on one file at a time, and none works on a file that
\* another one may have left half changed, whatever crashed in between.
ExclusiveScopes ==
    \A c, d \in Calls : (c # d /\ Undecided(c) /\ caller[d] = "authorised")
                        => mutation[c].scope \cap mutation[d].scope = {}

\* A file differs from the version the catalogue knows only under an open
\* lease of its scope: no change of a tool is forgotten by an answer, a
\* failure or a recovery.
ChangesAreAccounted ==
    \A f \in Files : content[f] # known[f] =>
        \E c \in Calls : Open(c) /\ f \in mutation[c].scope

\* A run with a mutation that is in doubt neither goes on nor ends, and no run
\* ends under an open lease.
DoubtStopsRun ==
    \A c \in Calls : Open(c) =>
        /\ run[mutation[c].run] \in {"running", "recovery_required"}
        /\ mutation[c].lease = "recovery_required" => run[mutation[c].run] # "running"

\* Recovery leaves a run recovery-required only for a mutation in doubt: an
\* unpublished preparation is "a safe no-effect interruption", and startup
\* resumes "idempotently" when it was itself interrupted.
RecoveryResolves ==
    [][(boot # "ready" /\ boot' = "ready") =>
          \A r \in Runs : run'[r] = "recovery_required" => \E c \in Of(r)' : Open(c)']_vars

-----------------------------------------------------------------------------
\* How far the authority of c has come: it begins with the completed receipt, and
\* the confirmation of its changes settles it.  Given: the files it is for.
Authority(c) == IF receipt[c] # "completed" THEN "none"
                ELSE IF ~Undecided(c) THEN "settled"
                ELSE IF caller[c] = "authorised" THEN "working"
                ELSE "ended"
Given(c) == IF receipt[c] = "completed" THEN mutation[c].scope ELSE {}

\* Tools, files and catalogue behave as if granting a scope, and settling what
\* became of it, were one step each.
Leases == INSTANCE LeasedCatalogue WITH
    authority <- [c \in Calls |-> Authority(c)],
    scope     <- [c \in Calls |-> Given(c)]

LeasesSpec == Leases!Spec
=============================================================================
