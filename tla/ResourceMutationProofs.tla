----------------------- MODULE ResourceMutationProofs -----------------------
(***************************************************************************)
(* Proofs about ResourceMutation, for any number of runs, calls, files,    *)
(* writes, crashes and failing calls.                                      *)
(* The last part shows that it implements LeasedCatalogue.                 *)
(***************************************************************************)
EXTENDS ResourceMutation, TLAPS

-----------------------------------------------------------------------------
(* The inductive invariant, in parts.                                      *)

Working == {"authorised", "ok", "failed"}
Disjoint(c, d) == mutation[c].scope \cap mutation[d].scope = {}

\* Open leases belong to runs, to operations in progress or in doubt, and
\* lock disjoint scopes.
LeaseInv ==
    /\ \A c \in Calls : Open(c) => mutation[c].run \in Runs
    /\ \A c \in Calls : mutation[c].lease = "active" <=> mutation[c].status = "prepared"
    /\ \A c \in Calls : mutation[c].lease = "recovery_required"
                            <=> mutation[c].status = "recovery_required"
    /\ \A c, d \in Calls : (c # d /\ Open(c) /\ Open(d)) => Disjoint(c, d)

\* What an operation at the head of the queue may rely on.
HeadInv ==
    /\ head.kind = "prepare" =>
          /\ boot = "ready" /\ head.call \in Calls
          /\ caller[head.call] = "waiting"
          /\ mutation[head.call].run \in Runs
          /\ run[mutation[head.call].run] = "running"
          /\ receipt[head.call] # "completed"
          /\ head.step = "begun" => mutation[head.call].status = "none"
          /\ head.step \in {"begun", "allocated"} => mutation[head.call].before = NoSnapshot
          /\ head.step \in {"allocated", "snapshotted", "published"} =>
                mutation[head.call].lease = "active"
          /\ head.step \in {"snapshotted", "published"} =>
                mutation[head.call].before # NoSnapshot
    /\ head.kind = "verify" =>
          /\ boot = "ready" /\ head.call \in Calls
          /\ caller[head.call] \in {"ok", "failed"}
          /\ head.after # NoSnapshot
    /\ head.kind = "release" => boot = "safe" /\ head.call \in Calls

\* A caller works under the active lease of a completed preparation; a call
\* that was never prepared has nothing.
CallerInv == \A c \in Calls :
    /\ caller[c] \in Working =>
          boot = "ready" /\ mutation[c].lease = "active" /\ receipt[c] = "completed"
    /\ receipt[c] = "completed" =>
          mutation[c].status # "none" /\ mutation[c].before # NoSnapshot
    /\ receipt[c] = "none" =>
          mutation[c].status = "none" /\ mutation[c].before = NoSnapshot

\* Versions only grow: what a lease has seen before, the catalogue and the
\* files come in this order, and a lease nobody was told of has changed
\* nothing.
VersionInv ==
    /\ ChangesAreAccounted
    /\ \A f \in Files : known[f] <= content[f]
    /\ \A c \in Calls : Open(c) /\ receipt[c] # "completed" =>
          \A f \in mutation[c].scope : content[f] = known[f]
    /\ \A c \in Calls : Open(c) /\ mutation[c].before # NoSnapshot =>
          \A f \in mutation[c].scope : mutation[c].before[f] <= known[f]

\* The second snapshot of a verification is outdated only where another tool
\* works, and not older than the first snapshot of any open lease, nor than the
\* catalogue.
AfterInv == head.kind = "verify" =>
    /\ \A f \in Files : head.after[f] <= content[f]
    /\ \A f \in Files : head.after[f] # content[f] =>
          \E c \in Calls \ {head.call} :
             Open(c) /\ receipt[c] = "completed" /\ f \in mutation[c].scope
    /\ \A c \in Calls : Open(c) /\ mutation[c].before # NoSnapshot =>
          \A f \in mutation[c].scope : mutation[c].before[f] <= head.after[f]
    /\ \A f \in Files : known[f] <= head.after[f]

Structure == TypeOK /\ LeaseInv /\ HeadInv /\ CallerInv

IInv == Structure /\ DoubtStopsRun /\ VersionInv /\ AfterInv

-----------------------------------------------------------------------------
(* Rows stay rows.                                                         *)

\* Every write of an operation, from its allocation to its end.
LEMMA RowTyped ==
    ASSUME NEW row \in MutationRow
    PROVE  /\ \A r \in Runs, S \in SUBSET Files :
                 [row EXCEPT !.run = r, !.scope = S] \in MutationRow
           /\ [row EXCEPT !.status = "prepared", !.lease = "active"] \in MutationRow
           /\ \A v \in Snapshot : [row EXCEPT !.before = v] \in MutationRow
           /\ \A s \in {"verified", "no_change"} :
                 [row EXCEPT !.status = s, !.lease = "released", !.reported = TRUE]
                    \in MutationRow
           /\ \A b \in BOOLEAN :
                 [row EXCEPT !.status = "recovery_required", !.lease = "recovery_required",
                             !.reported = b] \in MutationRow
BY DEF MutationRow

\* A row is replaced by a row.
LEMMA RowReplaced ==
    ASSUME TypeOK, NEW c \in Calls, NEW row \in MutationRow,
           mutation' = [mutation EXCEPT ![c] = row]
    PROVE  mutation' \in [Calls -> MutationRow]
BY DEF TypeOK

\* An operation in doubt keeps its row a row and stops its run.
LEMMA SuspectTyped ==
    ASSUME TypeOK, NEW c \in Calls, NEW b \in BOOLEAN, Suspect(c, b)
    PROVE  /\ mutation' \in [Calls -> MutationRow]
           /\ run' \in [Runs -> {"none", "running", "recovery_required", "closed"}]
<1>1. mutation[c] \in MutationRow
  BY DEF TypeOK
<1>2. mutation' \in [Calls -> MutationRow]
  BY <1>1, RowTyped, RowReplaced DEF Suspect
<1>3. run' \in [Runs -> {"none", "running", "recovery_required", "closed"}]
  BY DEF Suspect, TypeOK
<1> QED BY <1>2, <1>3

\* A release keeps its row a row.
LEMMA ReleaseTyped ==
    ASSUME TypeOK, NEW c \in Calls, Release(c)
    PROVE  mutation' \in [Calls -> MutationRow]
<1>1. mutation[c] \in MutationRow
  BY DEF TypeOK
<1> QED BY <1>1, RowTyped, RowReplaced DEF Release

-----------------------------------------------------------------------------
(* What one write does to the other calls.                                 *)

\* A verification works on a call whose tool has ended, under its lease.
LEMMA VerifiedCall ==
    ASSUME Structure, NEW c \in Calls, At("verify", c, "begun")
    PROVE  /\ boot = "ready" /\ caller[c] \in {"ok", "failed"}
           /\ mutation[c].lease = "active" /\ mutation[c].status = "prepared"
           /\ receipt[c] = "completed" /\ mutation[c].before # NoSnapshot
           /\ mutation[c].run \in Runs
BY DEF Structure, HeadInv, CallerInv, LeaseInv, At, Working, Open

\* A doubt changes one row.
LEMMA SuspectRow ==
    ASSUME TypeOK, NEW c \in Calls, NEW b \in BOOLEAN, Suspect(c, b)
    PROVE  /\ \A d \in Calls \ {c} : mutation'[d] = mutation[d]
           /\ mutation'[c].run = mutation[c].run
           /\ mutation'[c].scope = mutation[c].scope
           /\ mutation'[c].before = mutation[c].before
           /\ mutation'[c].status = "recovery_required"
           /\ mutation'[c].lease = "recovery_required"
BY DEF Suspect, TypeOK, MutationRow

\* So does a confirmation.
LEMMA ConfirmRow ==
    ASSUME TypeOK, NEW c \in Calls, Confirm(c)
    PROVE  /\ \A d \in Calls \ {c} : mutation'[d] = mutation[d]
           /\ mutation'[c].run = mutation[c].run
           /\ mutation'[c].scope = mutation[c].scope
           /\ mutation'[c].before = mutation[c].before
           /\ mutation'[c].status \in {"verified", "no_change"}
           /\ mutation'[c].lease = "released"
BY DEF Confirm, TypeOK, MutationRow

-----------------------------------------------------------------------------
\* Every step keeps the types.
LEMMA TypeStep ==
    ASSUME Structure, [Next]_vars
    PROVE  TypeOK'
<1>1. ASSUME NEW r \in Runs, StartRun(r) PROVE TypeOK'
  BY <1>1 DEF StartRun, Structure, TypeOK
<1>2. ASSUME NEW r \in Runs, FinalizeRun(r) PROVE TypeOK'
  BY <1>2 DEF FinalizeRun, Conclude, Structure, TypeOK
<1>3. ASSUME NEW r \in Runs, RecoverRun(r) PROVE TypeOK'
  BY <1>3 DEF RecoverRun, Conclude, Structure, TypeOK
<1>4. ASSUME NEW c \in Calls, NEW r \in Runs, NEW S \in SUBSET Files \ {{}},
             BeginPrepare(c, r, S)
      PROVE TypeOK'
  <2>1. mutation[c] \in MutationRow
    BY DEF Structure, TypeOK
  <2>2. mutation' = [mutation EXCEPT ![c] = [mutation[c] EXCEPT !.run = r, !.scope = S]]
    BY <1>4 DEF BeginPrepare, Structure, TypeOK, MutationRow
  <2>3. mutation' \in [Calls -> MutationRow]
    BY <2>1, <2>2, RowTyped, RowReplaced DEF Structure
  <2> QED BY <1>4, <2>3 DEF BeginPrepare, Receipt, Caller, Quiet, Structure, TypeOK
<1>5. ASSUME NEW c \in Calls, Allocate(c) PROVE TypeOK'
  <2>1. mutation[c] \in MutationRow
    BY DEF Structure, TypeOK
  <2>2. mutation' = [mutation EXCEPT ![c] =
                        [mutation[c] EXCEPT !.status = "prepared", !.lease = "active"]]
    BY <1>5 DEF Allocate, Structure, TypeOK, MutationRow
  <2>3. mutation' \in [Calls -> MutationRow]
    BY <2>1, <2>2, RowTyped, RowReplaced DEF Structure
  <2> QED BY <1>5, <2>3 DEF Allocate, Advance, Structure, TypeOK
<1>6. ASSUME NEW c \in Calls, TakeSnapshot(c) PROVE TypeOK'
  <2>1. mutation[c] \in MutationRow /\ content \in Snapshot
    BY DEF Structure, TypeOK
  <2>2. mutation' = [mutation EXCEPT ![c] = [mutation[c] EXCEPT !.before = content]]
    BY <1>6 DEF TakeSnapshot, Structure, TypeOK, MutationRow
  <2>3. mutation' \in [Calls -> MutationRow]
    BY <2>1, <2>2, RowTyped, RowReplaced DEF Structure
  <2> QED BY <1>6, <2>3 DEF TakeSnapshot, Advance, Structure, TypeOK
<1>7. ASSUME NEW c \in Calls, Publish(c) PROVE TypeOK'
  BY <1>7 DEF Publish, Advance, Receipt, Structure, TypeOK
<1>8. ASSUME NEW c \in Calls, CompletePrepare(c) PROVE TypeOK'
  BY <1>8 DEF CompletePrepare, Receipt, Caller, Quiet, Structure, TypeOK
<1>9. ASSUME NEW c \in Calls, FailPreparation(c) PROVE TypeOK'
  <2>1. mutation' \in [Calls -> MutationRow]
    BY <1>9, ReleaseTyped DEF FailPreparation, Structure
  <2>2. faults' \in 0..MaxFaults
    BY <1>9, MutationAssumption DEF FailPreparation, Fault, Structure, TypeOK
  <2> QED BY <1>9, <2>1, <2>2 DEF FailPreparation, Advance, Structure, TypeOK
<1>10. ASSUME NEW c \in Calls, RefusePrepare(c) PROVE TypeOK'
  BY <1>10, MutationAssumption DEF RefusePrepare, Fault, Receipt, Caller, Quiet,
     Structure, TypeOK
<1>11. ASSUME NEW c \in Calls, NEW f \in Files, ToolWrites(c, f) PROVE TypeOK'
  BY <1>11, MutationAssumption DEF ToolWrites, Change, sqlite, Structure, TypeOK,
     Snapshot
<1>12. ASSUME NEW c \in Calls, NEW o \in {"ok", "failed"}, ToolEnds(c, o) PROVE TypeOK'
  BY <1>12 DEF ToolEnds, Caller, sqlite, Structure, TypeOK
<1>13. ASSUME NEW c \in Calls, BeginVerify(c) PROVE TypeOK'
  BY <1>13 DEF BeginVerify, Quiet, sqlite, Structure, TypeOK
<1>14. ASSUME NEW c \in Calls, Confirm(c) PROVE TypeOK'
  <2>1. mutation[c] \in MutationRow
    BY DEF Structure, TypeOK
  <2>2. mutation' \in [Calls -> MutationRow]
    BY <1>14, <2>1, RowTyped, RowReplaced DEF Confirm, Structure
  <2>3. known' \in Snapshot
    BY <1>14 DEF Confirm, At, Structure, TypeOK, HeadInv
  <2> QED BY <1>14, <2>2, <2>3 DEF Confirm, Caller, Quiet, Structure, TypeOK
<1>15. ASSUME NEW c \in Calls, Reject(c) PROVE TypeOK'
  <2>1. /\ mutation' \in [Calls -> MutationRow]
        /\ run' \in [Runs -> {"none", "running", "recovery_required", "closed"}]
    BY <1>15, SuspectTyped DEF Reject, Structure
  <2> QED BY <1>15, <2>1 DEF Reject, Caller, Quiet, Structure, TypeOK
<1>16. ASSUME NEW c \in Calls, FailVerification(c) PROVE TypeOK'
  <2>1. /\ mutation' \in [Calls -> MutationRow]
        /\ run' \in [Runs -> {"none", "running", "recovery_required", "closed"}]
    BY <1>16, SuspectTyped DEF FailVerification, Structure
  <2>2. faults' \in 0..MaxFaults
    BY <1>16, MutationAssumption DEF FailVerification, Fault, Structure, TypeOK
  <2> QED BY <1>16, <2>1, <2>2 DEF FailVerification, Caller, Quiet, Structure, TypeOK
<1>17. ASSUME NEW c \in Calls, ReleaseUnpublished(c) PROVE TypeOK'
  <2>1. mutation' \in [Calls -> MutationRow]
    BY <1>17, ReleaseTyped DEF ReleaseUnpublished, Structure
  <2> QED BY <1>17, <2>1 DEF ReleaseUnpublished, Quiet, Structure, TypeOK
<1>18. ASSUME NEW c \in Calls, RestoreRun(c) PROVE TypeOK'
  BY <1>18 DEF RestoreRun, Quiet, Structure, TypeOK
<1>19. ASSUME NEW c \in Calls, MarkInterrupted(c) PROVE TypeOK'
  <2>1. mutation[c].reported \in BOOLEAN
    BY DEF Structure, TypeOK, MutationRow
  <2>2. /\ mutation' \in [Calls -> MutationRow]
        /\ run' \in [Runs -> {"none", "running", "recovery_required", "closed"}]
    BY <1>19, <2>1, SuspectTyped DEF MarkInterrupted, Structure
  <2> QED BY <1>19, <2>2 DEF MarkInterrupted, Structure, TypeOK
<1>20. ASSUME Crash PROVE TypeOK'
  BY <1>20, MutationAssumption DEF Crash, Quiet, sqlite, Structure, TypeOK
<1>21. ASSUME NextStage PROVE TypeOK'
  BY <1>21 DEF NextStage, sqlite, Structure, TypeOK
<1>22. ASSUME UNCHANGED vars PROVE TypeOK'
  BY <1>22 DEF vars, Structure, TypeOK
<1> QED BY <1>1, <1>2, <1>3, <1>4, <1>5, <1>6, <1>7, <1>8, <1>9, <1>10, <1>11, <1>12,
           <1>13, <1>14, <1>15, <1>16, <1>17, <1>18, <1>19, <1>20, <1>21, <1>22
           DEF Next, Prepare, Tool, Verify, Recover

\* Every step keeps open leases apart and with their runs.
LEMMA LeaseStep ==
    ASSUME Structure, TypeOK', [Next]_vars
    PROVE  LeaseInv'
<1>1. ASSUME NEW r \in Runs, StartRun(r) PROVE LeaseInv'
  BY <1>1 DEF StartRun, Structure, LeaseInv, Open, Disjoint
<1>2. ASSUME NEW r \in Runs, FinalizeRun(r) PROVE LeaseInv'
  BY <1>2 DEF FinalizeRun, Structure, LeaseInv, Open, Disjoint
<1>3. ASSUME NEW r \in Runs, RecoverRun(r) PROVE LeaseInv'
  BY <1>3 DEF RecoverRun, Structure, LeaseInv, Open, Disjoint
<1>4. ASSUME NEW c \in Calls, NEW r \in Runs, NEW S \in SUBSET Files \ {{}},
             BeginPrepare(c, r, S)
      PROVE LeaseInv'
  BY <1>4 DEF BeginPrepare, Structure, TypeOK, LeaseInv, CallerInv, Open, Disjoint
<1>5. ASSUME NEW c \in Calls, Allocate(c) PROVE LeaseInv'
  BY <1>5 DEF Allocate, At, Structure, TypeOK, MutationRow, LeaseInv, HeadInv
<1>6. ASSUME NEW c \in Calls, TakeSnapshot(c) PROVE LeaseInv'
  BY <1>6 DEF TakeSnapshot, Structure, LeaseInv, Open, Disjoint
<1>7. ASSUME NEW c \in Calls, Publish(c) PROVE LeaseInv'
  BY <1>7 DEF Publish, Structure, LeaseInv, Open, Disjoint
<1>8. ASSUME NEW c \in Calls, CompletePrepare(c) PROVE LeaseInv'
  BY <1>8 DEF CompletePrepare, Structure, LeaseInv, Open, Disjoint
<1>9. ASSUME NEW c \in Calls, FailPreparation(c) PROVE LeaseInv'
  BY <1>9 DEF FailPreparation, Release, Structure, LeaseInv, Open, Disjoint
<1>10. ASSUME NEW c \in Calls, RefusePrepare(c) PROVE LeaseInv'
  BY <1>10 DEF RefusePrepare, Structure, LeaseInv, Open, Disjoint
<1>11. ASSUME NEW c \in Calls, NEW f \in Files, ToolWrites(c, f) PROVE LeaseInv'
  BY <1>11 DEF ToolWrites, sqlite, Structure, LeaseInv, Open, Disjoint
<1>12. ASSUME NEW c \in Calls, NEW o \in {"ok", "failed"}, ToolEnds(c, o)
       PROVE LeaseInv'
  BY <1>12 DEF ToolEnds, sqlite, Structure, LeaseInv, Open, Disjoint
<1>13. ASSUME NEW c \in Calls, BeginVerify(c) PROVE LeaseInv'
  BY <1>13 DEF BeginVerify, sqlite, Structure, LeaseInv, Open, Disjoint
<1>14. ASSUME NEW c \in Calls, Confirm(c) PROVE LeaseInv'
  <2>1. /\ \A d \in Calls \ {c} : mutation'[d] = mutation[d]
        /\ mutation'[c].status \in {"verified", "no_change"}
        /\ mutation'[c].lease = "released"
    BY <1>14, ConfirmRow DEF Structure
  <2> QED BY <1>14, <2>1 DEF Confirm, Structure, LeaseInv, Open, Disjoint
<1>15. ASSUME NEW c \in Calls, Reject(c) PROVE LeaseInv'
  <2>1. /\ \A d \in Calls \ {c} : mutation'[d] = mutation[d]
        /\ mutation'[c].run = mutation[c].run /\ mutation'[c].scope = mutation[c].scope
        /\ mutation'[c].status = "recovery_required"
        /\ mutation'[c].lease = "recovery_required"
    BY <1>15, SuspectRow DEF Reject, Structure
  <2>2. Open(c) /\ mutation[c].run \in Runs
    BY <1>15, VerifiedCall DEF Reject, Open
  <2> QED BY <2>1, <2>2 DEF Structure, LeaseInv, Open, Disjoint
<1>16. ASSUME NEW c \in Calls, FailVerification(c) PROVE LeaseInv'
  <2>1. /\ \A d \in Calls \ {c} : mutation'[d] = mutation[d]
        /\ mutation'[c].run = mutation[c].run /\ mutation'[c].scope = mutation[c].scope
        /\ mutation'[c].status = "recovery_required"
        /\ mutation'[c].lease = "recovery_required"
    BY <1>16, SuspectRow DEF FailVerification, Structure
  <2>2. Open(c) /\ mutation[c].run \in Runs
    BY <1>16, VerifiedCall DEF FailVerification, Open
  <2> QED BY <2>1, <2>2 DEF Structure, LeaseInv, Open, Disjoint
<1>17. ASSUME NEW c \in Calls, ReleaseUnpublished(c) PROVE LeaseInv'
  BY <1>17 DEF ReleaseUnpublished, Release, Structure, LeaseInv, Open, Disjoint
<1>18. ASSUME NEW c \in Calls, RestoreRun(c) PROVE LeaseInv'
  BY <1>18 DEF RestoreRun, Structure, LeaseInv, Open, Disjoint
<1>19. ASSUME NEW c \in Calls, MarkInterrupted(c) PROVE LeaseInv'
  BY <1>19 DEF MarkInterrupted, Suspect, Structure, LeaseInv, Open, Disjoint
<1>20. ASSUME Crash PROVE LeaseInv'
  BY <1>20 DEF Crash, sqlite, Structure, LeaseInv, Open, Disjoint
<1>21. ASSUME NextStage PROVE LeaseInv'
  BY <1>21 DEF NextStage, sqlite, Structure, LeaseInv, Open, Disjoint
<1>22. ASSUME UNCHANGED vars PROVE LeaseInv'
  BY <1>22 DEF vars, Structure, LeaseInv, Open, Disjoint
<1> QED BY <1>1, <1>2, <1>3, <1>4, <1>5, <1>6, <1>7, <1>8, <1>9, <1>10, <1>11, <1>12,
           <1>13, <1>14, <1>15, <1>16, <1>17, <1>18, <1>19, <1>20, <1>21, <1>22
           DEF Next, Prepare, Tool, Verify, Recover

\* Every step keeps what the operation at the head of the queue relies on.
LEMMA HeadStep ==
    ASSUME Structure, TypeOK', [Next]_vars
    PROVE  HeadInv'
<1>1. ASSUME NEW r \in Runs, StartRun(r) PROVE HeadInv'
  BY <1>1 DEF StartRun, Serving, Idle, HeadInv
<1>2. ASSUME NEW r \in Runs, FinalizeRun(r) PROVE HeadInv'
  BY <1>2 DEF FinalizeRun, Serving, Idle, HeadInv
<1>3. ASSUME NEW r \in Runs, RecoverRun(r) PROVE HeadInv'
  BY <1>3 DEF RecoverRun, Idle, HeadInv
<1>4. ASSUME NEW c \in Calls, NEW r \in Runs, NEW S \in SUBSET Files \ {{}},
             BeginPrepare(c, r, S)
      PROVE HeadInv'
  BY <1>4 DEF BeginPrepare, Serving, Receipt, Caller, Quiet, Structure, TypeOK,
     HeadInv, CallerInv
<1>5. ASSUME NEW c \in Calls, Allocate(c) PROVE HeadInv'
  BY <1>5 DEF Allocate, At, Advance, Structure, TypeOK, HeadInv
<1>6. ASSUME NEW c \in Calls, TakeSnapshot(c) PROVE HeadInv'
  <2>1. content # NoSnapshot
    BY MutationAssumption DEF Structure, TypeOK, Snapshot
  <2>2. /\ mutation'[c].before = content /\ mutation'[c].run = mutation[c].run
        /\ mutation'[c].lease = mutation[c].lease
    BY <1>6 DEF TakeSnapshot, Structure, TypeOK, MutationRow
  <2> QED BY <1>6, <2>1, <2>2 DEF TakeSnapshot, At, Advance, Structure, HeadInv
<1>7. ASSUME NEW c \in Calls, Publish(c) PROVE HeadInv'
  BY <1>7 DEF Publish, At, Advance, Receipt, Structure, HeadInv
<1>8. ASSUME NEW c \in Calls, CompletePrepare(c) PROVE HeadInv'
  BY <1>8 DEF CompletePrepare, Quiet, HeadInv
<1>9. ASSUME NEW c \in Calls, FailPreparation(c) PROVE HeadInv'
  BY <1>9 DEF FailPreparation, Advance, Release, Structure, HeadInv
<1>10. ASSUME NEW c \in Calls, RefusePrepare(c) PROVE HeadInv'
  BY <1>10 DEF RefusePrepare, Quiet, HeadInv
<1>11. ASSUME NEW c \in Calls, NEW f \in Files, ToolWrites(c, f) PROVE HeadInv'
  BY <1>11 DEF ToolWrites, sqlite, Structure, HeadInv
<1>12. ASSUME NEW c \in Calls, NEW o \in {"ok", "failed"}, ToolEnds(c, o) PROVE HeadInv'
  BY <1>12 DEF ToolEnds, Caller, sqlite, Structure, HeadInv
<1>13. ASSUME NEW c \in Calls, BeginVerify(c) PROVE HeadInv'
  <2>1. content # NoSnapshot
    BY MutationAssumption DEF Structure, TypeOK, Snapshot
  <2>2. /\ head'.kind = "verify" /\ head'.call = c /\ head'.after = content
        /\ boot' = "ready" /\ caller'[c] \in {"ok", "failed"}
    BY <1>13 DEF BeginVerify, Serving, Idle, Quiet
  <2> QED BY <2>1, <2>2 DEF HeadInv
<1>14. ASSUME NEW c \in Calls, Confirm(c) PROVE HeadInv'
  BY <1>14 DEF Confirm, Quiet, HeadInv
<1>15. ASSUME NEW c \in Calls, Reject(c) PROVE HeadInv'
  BY <1>15 DEF Reject, Quiet, HeadInv
<1>16. ASSUME NEW c \in Calls, FailVerification(c) PROVE HeadInv'
  BY <1>16 DEF FailVerification, Quiet, HeadInv
<1>17. ASSUME NEW c \in Calls, ReleaseUnpublished(c) PROVE HeadInv'
  BY <1>17 DEF ReleaseUnpublished, MutationRow, LeaseInv, HeadInv
<1>18. ASSUME NEW c \in Calls, RestoreRun(c) PROVE HeadInv'
  BY <1>18 DEF RestoreRun, Quiet, HeadInv
<1>19. ASSUME NEW c \in Calls, MarkInterrupted(c) PROVE HeadInv'
  BY <1>19 DEF MarkInterrupted, Idle, HeadInv
<1>20. ASSUME Crash PROVE HeadInv'
  BY <1>20 DEF Crash, Quiet, HeadInv
<1>21. ASSUME NextStage PROVE HeadInv'
  BY <1>21 DEF NextStage, Idle, HeadInv
<1>22. ASSUME UNCHANGED vars PROVE HeadInv'
  BY <1>22 DEF vars, Structure, HeadInv
<1> QED BY <1>1, <1>2, <1>3, <1>4, <1>5, <1>6, <1>7, <1>8, <1>9, <1>10, <1>11, <1>12,
           <1>13, <1>14, <1>15, <1>16, <1>17, <1>18, <1>19, <1>20, <1>21, <1>22
           DEF Next, Prepare, Tool, Verify, Recover

\* Every step keeps tools under active leases with a completed receipt.
LEMMA CallerStep ==
    ASSUME Structure, TypeOK', [Next]_vars
    PROVE  CallerInv'
<1>1. ASSUME NEW r \in Runs, StartRun(r) PROVE CallerInv'
  BY <1>1 DEF StartRun, Structure, CallerInv
<1>2. ASSUME NEW r \in Runs, FinalizeRun(r) PROVE CallerInv'
  BY <1>2 DEF FinalizeRun, Structure, CallerInv
<1>3. ASSUME NEW r \in Runs, RecoverRun(r) PROVE CallerInv'
  BY <1>3 DEF RecoverRun, Structure, CallerInv
<1>4. ASSUME NEW c \in Calls, NEW r \in Runs, NEW S \in SUBSET Files \ {{}},
             BeginPrepare(c, r, S)
      PROVE CallerInv'
  BY <1>4 DEF BeginPrepare, Receipt, Caller, Structure, TypeOK, CallerInv, Working
<1>5. ASSUME NEW c \in Calls, Allocate(c) PROVE CallerInv'
  BY <1>5 DEF Allocate, Structure, TypeOK, MutationRow, LeaseInv, CallerInv
<1>6. ASSUME NEW c \in Calls, TakeSnapshot(c) PROVE CallerInv'
  BY <1>6 DEF TakeSnapshot, At, Structure, LeaseInv, HeadInv, CallerInv
<1>7. ASSUME NEW c \in Calls, Publish(c) PROVE CallerInv'
  BY <1>7 DEF Publish, At, Receipt, Structure, HeadInv, CallerInv
<1>8. ASSUME NEW c \in Calls, CompletePrepare(c) PROVE CallerInv'
  BY <1>8 DEF CompletePrepare, At, Receipt, Caller, Structure, TypeOK, LeaseInv,
     HeadInv, CallerInv
<1>9. ASSUME NEW c \in Calls, FailPreparation(c) PROVE CallerInv'
  BY <1>9 DEF FailPreparation, At, Release, Structure, LeaseInv, HeadInv, CallerInv
<1>10. ASSUME NEW c \in Calls, RefusePrepare(c) PROVE CallerInv'
  BY <1>10 DEF RefusePrepare, Receipt, Caller, Structure, TypeOK, CallerInv, Working
<1>11. ASSUME NEW c \in Calls, NEW f \in Files, ToolWrites(c, f) PROVE CallerInv'
  BY <1>11 DEF ToolWrites, sqlite, Structure, CallerInv
<1>12. ASSUME NEW c \in Calls, NEW o \in {"ok", "failed"}, ToolEnds(c, o)
       PROVE CallerInv'
  BY <1>12 DEF ToolEnds, Caller, sqlite, Structure, CallerInv, Working
<1>13. ASSUME NEW c \in Calls, BeginVerify(c) PROVE CallerInv'
  BY <1>13 DEF BeginVerify, sqlite, Structure, CallerInv
<1>14. ASSUME NEW c \in Calls, Confirm(c) PROVE CallerInv'
  <2>1. /\ \A d \in Calls \ {c} : mutation'[d] = mutation[d]
        /\ mutation'[c].status \in {"verified", "no_change"}
        /\ mutation'[c].before = mutation[c].before
    BY <1>14, ConfirmRow DEF Structure
  <2>2. receipt[c] = "completed" /\ mutation[c].before # NoSnapshot
    BY <1>14, VerifiedCall DEF Confirm
  <2>3. caller' = [caller EXCEPT ![c] = "done"] /\ UNCHANGED <<receipt, boot>>
    BY <1>14 DEF Confirm, Caller
  <2> QED BY <2>1, <2>2, <2>3 DEF Structure, TypeOK, CallerInv, Working
<1>15. ASSUME NEW c \in Calls, Reject(c) PROVE CallerInv'
  BY <1>15 DEF Reject, At, Suspect, Caller, Structure, TypeOK, HeadInv, CallerInv,
     Working
<1>16. ASSUME NEW c \in Calls, FailVerification(c) PROVE CallerInv'
  BY <1>16 DEF FailVerification, At, Suspect, Caller, Structure, TypeOK, HeadInv,
     CallerInv, Working
<1>17. ASSUME NEW c \in Calls, ReleaseUnpublished(c) PROVE CallerInv'
  BY <1>17 DEF ReleaseUnpublished, Unpublished, Release, Structure, CallerInv
<1>18. ASSUME NEW c \in Calls, RestoreRun(c) PROVE CallerInv'
  BY <1>18 DEF RestoreRun, Structure, CallerInv
<1>19. ASSUME NEW c \in Calls, MarkInterrupted(c) PROVE CallerInv'
  BY <1>19 DEF MarkInterrupted, Suspect, Structure, LeaseInv, CallerInv
<1>20. ASSUME Crash PROVE CallerInv'
  BY <1>20 DEF Crash, sqlite, Structure, CallerInv, Working
<1>21. ASSUME NextStage PROVE CallerInv'
  BY <1>21 DEF NextStage, sqlite, Structure, CallerInv
<1>22. ASSUME UNCHANGED vars PROVE CallerInv'
  BY <1>22 DEF vars, Structure, CallerInv, Working
<1> QED BY <1>1, <1>2, <1>3, <1>4, <1>5, <1>6, <1>7, <1>8, <1>9, <1>10, <1>11, <1>12,
           <1>13, <1>14, <1>15, <1>16, <1>17, <1>18, <1>19, <1>20, <1>21, <1>22
           DEF Next, Prepare, Tool, Verify, Recover

\* Every step keeps a run with a mutation in doubt stopped, and open.
LEMMA DoubtStep ==
    ASSUME Structure, TypeOK', DoubtStopsRun, [Next]_vars
    PROVE  DoubtStopsRun'
<1>1. ASSUME NEW r \in Runs, StartRun(r) PROVE DoubtStopsRun'
  BY <1>1 DEF StartRun, DoubtStopsRun, Open
<1>2. ASSUME NEW r \in Runs, FinalizeRun(r) PROVE DoubtStopsRun'
  BY <1>2 DEF FinalizeRun, Conclude, Unverified, Of, DoubtStopsRun, Open
<1>3. ASSUME NEW r \in Runs, RecoverRun(r) PROVE DoubtStopsRun'
  BY <1>3 DEF RecoverRun, Conclude, Unverified, Of, DoubtStopsRun, Open
<1>4. ASSUME NEW c \in Calls, NEW r \in Runs, NEW S \in SUBSET Files \ {{}},
             BeginPrepare(c, r, S)
      PROVE DoubtStopsRun'
  BY <1>4 DEF BeginPrepare, Structure, TypeOK, LeaseInv, CallerInv, DoubtStopsRun, Open
<1>5. ASSUME NEW c \in Calls, Allocate(c) PROVE DoubtStopsRun'
  BY <1>5 DEF Allocate, At, Structure, TypeOK, MutationRow, LeaseInv, HeadInv
<1>6. ASSUME NEW c \in Calls, TakeSnapshot(c) PROVE DoubtStopsRun'
  BY <1>6 DEF TakeSnapshot, DoubtStopsRun, Open
<1>7. ASSUME NEW c \in Calls, Publish(c) PROVE DoubtStopsRun'
  BY <1>7 DEF Publish, CallerInv, DoubtStopsRun, Open
<1>8. ASSUME NEW c \in Calls, CompletePrepare(c) PROVE DoubtStopsRun'
  BY <1>8 DEF CompletePrepare, CallerInv, DoubtStopsRun, Open
<1>9. ASSUME NEW c \in Calls, FailPreparation(c) PROVE DoubtStopsRun'
  BY <1>9 DEF FailPreparation, Release, DoubtStopsRun, Open
<1>10. ASSUME NEW c \in Calls, RefusePrepare(c) PROVE DoubtStopsRun'
  BY <1>10 DEF RefusePrepare, CallerInv, DoubtStopsRun, Open
<1>11. ASSUME NEW c \in Calls, NEW f \in Files, ToolWrites(c, f) PROVE DoubtStopsRun'
  BY <1>11 DEF ToolWrites, sqlite, DoubtStopsRun, Open
<1>12. ASSUME NEW c \in Calls, NEW o \in {"ok", "failed"}, ToolEnds(c, o)
       PROVE DoubtStopsRun'
  BY <1>12 DEF ToolEnds, sqlite, DoubtStopsRun, Open
<1>13. ASSUME NEW c \in Calls, BeginVerify(c) PROVE DoubtStopsRun'
  BY <1>13 DEF BeginVerify, sqlite, DoubtStopsRun, Open
<1>14. ASSUME NEW c \in Calls, Confirm(c) PROVE DoubtStopsRun'
  <2>1. /\ \A d \in Calls \ {c} : mutation'[d] = mutation[d]
        /\ mutation'[c].status \in {"verified", "no_change"}
        /\ mutation'[c].lease = "released"
    BY <1>14, ConfirmRow DEF Structure
  <2> QED BY <1>14, <2>1 DEF Confirm, DoubtStopsRun, Open
<1>15. ASSUME NEW c \in Calls, Reject(c) PROVE DoubtStopsRun'
  <2>1. /\ \A d \in Calls \ {c} : mutation'[d] = mutation[d]
        /\ mutation'[c].run = mutation[c].run
    BY <1>15, SuspectRow DEF Reject, Structure
  <2>2. Open(c) /\ mutation[c].run \in Runs
    BY <1>15, VerifiedCall DEF Reject, Open
  <2>3. run' = [run EXCEPT ![mutation[c].run] = IF @ =
          "running" THEN "recovery_required" ELSE @]
    BY <1>15 DEF Reject, Suspect
  <2> QED BY <2>1, <2>2, <2>3 DEF Structure, TypeOK, DoubtStopsRun, Open
<1>16. ASSUME NEW c \in Calls, FailVerification(c) PROVE DoubtStopsRun'
  <2>1. /\ \A d \in Calls \ {c} : mutation'[d] = mutation[d]
        /\ mutation'[c].run = mutation[c].run
    BY <1>16, SuspectRow DEF FailVerification, Structure
  <2>2. Open(c) /\ mutation[c].run \in Runs
    BY <1>16, VerifiedCall DEF FailVerification, Open
  <2>3. run' = [run EXCEPT ![mutation[c].run] = IF @ =
          "running" THEN "recovery_required" ELSE @]
    BY <1>16 DEF FailVerification, Suspect
  <2> QED BY <2>1, <2>2, <2>3 DEF Structure, TypeOK, DoubtStopsRun, Open
<1>17. ASSUME NEW c \in Calls, ReleaseUnpublished(c) PROVE DoubtStopsRun'
  BY <1>17 DEF ReleaseUnpublished, Release, DoubtStopsRun, Open
<1>18. ASSUME NEW c \in Calls, RestoreRun(c) PROVE DoubtStopsRun'
  BY <1>18 DEF RestoreRun, Of, DoubtStopsRun, Open
<1>19. ASSUME NEW c \in Calls, MarkInterrupted(c) PROVE DoubtStopsRun'
  BY <1>19 DEF MarkInterrupted, Suspect, TypeOK, DoubtStopsRun, Open
<1>20. ASSUME Crash PROVE DoubtStopsRun'
  BY <1>20 DEF Crash, sqlite, DoubtStopsRun, Open
<1>21. ASSUME NextStage PROVE DoubtStopsRun'
  BY <1>21 DEF NextStage, sqlite, DoubtStopsRun, Open
<1>22. ASSUME UNCHANGED vars PROVE DoubtStopsRun'
  BY <1>22 DEF vars, DoubtStopsRun, Open
<1> QED BY <1>1, <1>2, <1>3, <1>4, <1>5, <1>6, <1>7, <1>8, <1>9, <1>10, <1>11, <1>12,
           <1>13, <1>14, <1>15, <1>16, <1>17, <1>18, <1>19, <1>20, <1>21, <1>22
           DEF Next, Prepare, Tool, Verify, Recover

\* Every step keeps the order of versions under open leases.
LEMMA VersionStep ==
    ASSUME Structure, Structure', VersionInv, AfterInv, [Next]_vars
    PROVE  VersionInv'
<1>1. ASSUME NEW r \in Runs, StartRun(r) PROVE VersionInv'
  BY <1>1 DEF StartRun, VersionInv, ChangesAreAccounted, Open
<1>2. ASSUME NEW r \in Runs, FinalizeRun(r) PROVE VersionInv'
  BY <1>2 DEF FinalizeRun, VersionInv, ChangesAreAccounted, Open
<1>3. ASSUME NEW r \in Runs, RecoverRun(r) PROVE VersionInv'
  BY <1>3 DEF RecoverRun, VersionInv, ChangesAreAccounted, Open
<1>4. ASSUME NEW c \in Calls, NEW r \in Runs, NEW S \in SUBSET Files \ {{}},
             BeginPrepare(c, r, S)
      PROVE VersionInv'
  BY <1>4 DEF BeginPrepare, Idle, Receipt, Caller, Quiet, Structure, TypeOK,
     MutationRow, Snapshot, LeaseInv, Disjoint, CallerInv, VersionInv,
     ChangesAreAccounted, Open, Working
<1>5. ASSUME NEW c \in Calls, Allocate(c) PROVE VersionInv'
  BY <1>5 DEF Allocate, At, Structure, TypeOK, MutationRow, LeaseInv, HeadInv
<1>6. ASSUME NEW c \in Calls, TakeSnapshot(c) PROVE VersionInv'
  BY <1>6 DEF TakeSnapshot, At, Structure, TypeOK, MutationRow, HeadInv, VersionInv,
     ChangesAreAccounted, Open
<1>7. ASSUME NEW c \in Calls, Publish(c) PROVE VersionInv'
  BY <1>7 DEF Publish, At, Receipt, Structure, HeadInv, VersionInv,
     ChangesAreAccounted, Open
<1>8. ASSUME NEW c \in Calls, CompletePrepare(c) PROVE VersionInv'
  BY <1>8 DEF CompletePrepare, Receipt, VersionInv, ChangesAreAccounted, Open
<1>9. ASSUME NEW c \in Calls, FailPreparation(c) PROVE VersionInv'
  BY <1>9 DEF FailPreparation, At, Release, Structure, HeadInv, VersionInv,
     ChangesAreAccounted, Open
<1>10. ASSUME NEW c \in Calls, RefusePrepare(c) PROVE VersionInv'
  BY <1>10 DEF RefusePrepare, At, Receipt, Structure, HeadInv, VersionInv,
     ChangesAreAccounted, Open
<1>11. ASSUME NEW c \in Calls, NEW f \in Files, ToolWrites(c, f) PROVE VersionInv'
  BY <1>11 DEF ToolWrites, Change, sqlite, Structure, TypeOK, Snapshot, LeaseInv,
     Disjoint, CallerInv, VersionInv, ChangesAreAccounted, Open, Working
<1>12. ASSUME NEW c \in Calls, NEW o \in {"ok", "failed"}, ToolEnds(c, o)
       PROVE VersionInv'
  BY <1>12 DEF ToolEnds, sqlite, VersionInv, ChangesAreAccounted, Open
<1>13. ASSUME NEW c \in Calls, BeginVerify(c) PROVE VersionInv'
  BY <1>13 DEF BeginVerify, sqlite, VersionInv, ChangesAreAccounted, Open
<1>14. ASSUME NEW c \in Calls, Confirm(c) PROVE VersionInv'
  <2>1. /\ \A d \in Calls \ {c} : mutation'[d] = mutation[d]
        /\ mutation'[c].lease = "released"
    BY <1>14, ConfirmRow DEF Structure
  <2>2. /\ mutation[c].lease = "active" /\ receipt[c] = "completed"
        /\ mutation[c].before # NoSnapshot
    BY <1>14, VerifiedCall DEF Confirm
  <2>3. UNCHANGED <<content, receipt>>
    BY <1>14 DEF Confirm
  <2>4. /\ head.after \in Snapshot /\ known \in Snapshot /\ content \in Snapshot
        /\ known' \in Snapshot /\ mutation[c].before \in Snapshot
    BY <1>14, <2>2 DEF Structure, TypeOK, MutationRow, HeadInv, Confirm, At
  <2>5. \A f \in Files : head.after[f] <= content[f]
    BY <1>14 DEF Confirm, At, AfterInv
  <2>6. ASSUME NEW f \in Files, known'[f] # content[f]
        PROVE  \E e \in Calls \ {c} : /\ Open(e) /\ receipt[e] = "completed"
                                       /\ f \in mutation[e].scope
    <3>1. CASE Changed(c) # {}
      BY <1>14, <2>6, <3>1 DEF Confirm, At, AfterInv
    <3>2. CASE Changed(c) = {}
      <4>1. known' = known /\ mutation[c].before[f] = head.after[f]
        BY <1>14, <3>2 DEF Confirm, Changed
      <4>2. CASE head.after[f] # content[f]
        BY <1>14, <4>2 DEF Confirm, At, AfterInv
      <4>3. CASE head.after[f] = content[f]
        <5>1. f \notin mutation[c].scope
          BY <2>2, <2>4, <2>6, <4>1, <4>3 DEF VersionInv, Open, Snapshot
        <5>2. PICK e \in Calls : Open(e) /\ f \in mutation[e].scope
          BY <2>6, <4>1 DEF VersionInv, ChangesAreAccounted
        <5>3. receipt[e] = "completed"
          BY <2>6, <4>1, <5>2 DEF VersionInv
        <5> QED BY <5>1, <5>2, <5>3
      <4> QED BY <4>2, <4>3
    <3> QED BY <3>1, <3>2
  <2>7. ChangesAreAccounted'
    BY <2>1, <2>3, <2>6 DEF ChangesAreAccounted, Open
  <2>8. \A f \in Files : known'[f] <= content[f]
    BY <1>14, <2>5 DEF Confirm, VersionInv
  <2>9. ASSUME NEW d \in Calls, Open(d), receipt[d] # "completed", NEW f \in
                 mutation[d].scope
        PROVE  content[f] = known'[f]
    <3>1. f \in Files
      BY DEF Structure, TypeOK, MutationRow
    <3> QED BY <2>6, <2>9, <3>1 DEF Structure, LeaseInv, Disjoint
  <2>10. ASSUME NEW d \in Calls, Open(d), mutation[d].before # NoSnapshot,
                NEW f \in mutation[d].scope
         PROVE  mutation[d].before[f] <= known'[f]
    BY <1>14, <2>10 DEF Confirm, At, VersionInv, AfterInv
  <2> QED BY <2>1, <2>3, <2>7, <2>8, <2>9, <2>10 DEF VersionInv, Open
<1>15. ASSUME NEW c \in Calls, Reject(c) PROVE VersionInv'
  BY <1>15 DEF Reject, At, Suspect, Structure, HeadInv, CallerInv, VersionInv,
     ChangesAreAccounted, Open, Working
<1>16. ASSUME NEW c \in Calls, FailVerification(c) PROVE VersionInv'
  BY <1>16 DEF FailVerification, At, Suspect, Structure, HeadInv, CallerInv,
     VersionInv, ChangesAreAccounted, Open, Working
<1>17. ASSUME NEW c \in Calls, ReleaseUnpublished(c) PROVE VersionInv'
  BY <1>17 DEF ReleaseUnpublished, Unpublished, Release, VersionInv,
     ChangesAreAccounted, Open
<1>18. ASSUME NEW c \in Calls, RestoreRun(c) PROVE VersionInv'
  BY <1>18 DEF RestoreRun, VersionInv, ChangesAreAccounted, Open
<1>19. ASSUME NEW c \in Calls, MarkInterrupted(c) PROVE VersionInv'
  BY <1>19 DEF MarkInterrupted, Suspect, VersionInv, ChangesAreAccounted, Open
<1>20. ASSUME Crash PROVE VersionInv'
  BY <1>20 DEF Crash, sqlite, VersionInv, ChangesAreAccounted, Open
<1>21. ASSUME NextStage PROVE VersionInv'
  BY <1>21 DEF NextStage, sqlite, VersionInv, ChangesAreAccounted, Open
<1>22. ASSUME UNCHANGED vars PROVE VersionInv'
  BY <1>22 DEF vars, VersionInv, ChangesAreAccounted, Open
<1> QED BY <1>1, <1>2, <1>3, <1>4, <1>5, <1>6, <1>7, <1>8, <1>9, <1>10, <1>11, <1>12,
           <1>13, <1>14, <1>15, <1>16, <1>17, <1>18, <1>19, <1>20, <1>21, <1>22
           DEF Next, Prepare, Tool, Verify, Recover

\* Every step keeps the second snapshot between the first one and the files.
LEMMA AfterStep ==
    ASSUME Structure, Structure', VersionInv, AfterInv, [Next]_vars
    PROVE  AfterInv'
<1>1. ASSUME NEW r \in Runs, StartRun(r) PROVE AfterInv'
  BY <1>1 DEF StartRun, AfterInv, Open
<1>2. ASSUME NEW r \in Runs, FinalizeRun(r) PROVE AfterInv'
  BY <1>2 DEF FinalizeRun, AfterInv, Open
<1>3. ASSUME NEW r \in Runs, RecoverRun(r) PROVE AfterInv'
  BY <1>3 DEF RecoverRun, AfterInv, Open
<1>4. ASSUME NEW c \in Calls, NEW r \in Runs, NEW S \in SUBSET Files \ {{}},
             BeginPrepare(c, r, S)
      PROVE AfterInv'
  BY <1>4 DEF BeginPrepare, AfterInv, Open
<1>5. ASSUME NEW c \in Calls, Allocate(c) PROVE AfterInv'
  BY <1>5 DEF Allocate, At, Structure, TypeOK, MutationRow, LeaseInv, HeadInv
<1>6. ASSUME NEW c \in Calls, TakeSnapshot(c) PROVE AfterInv'
  BY <1>6 DEF TakeSnapshot, At, Advance, AfterInv
<1>7. ASSUME NEW c \in Calls, Publish(c) PROVE AfterInv'
  BY <1>7 DEF Publish, At, Advance, AfterInv
<1>8. ASSUME NEW c \in Calls, CompletePrepare(c) PROVE AfterInv'
  BY <1>8 DEF CompletePrepare, Quiet, AfterInv
<1>9. ASSUME NEW c \in Calls, FailPreparation(c) PROVE AfterInv'
  BY <1>9 DEF FailPreparation, At, Advance, AfterInv
<1>10. ASSUME NEW c \in Calls, RefusePrepare(c) PROVE AfterInv'
  BY <1>10 DEF RefusePrepare, Quiet, AfterInv
<1>11. ASSUME NEW c \in Calls, NEW f \in Files, ToolWrites(c, f) PROVE AfterInv'
  BY <1>11 DEF ToolWrites, Change, sqlite, Structure, TypeOK, Snapshot, HeadInv,
     CallerInv, AfterInv, Open, Working
<1>12. ASSUME NEW c \in Calls, NEW o \in {"ok", "failed"}, ToolEnds(c, o)
       PROVE AfterInv'
  BY <1>12 DEF ToolEnds, sqlite, AfterInv, Open
<1>13. ASSUME NEW c \in Calls, BeginVerify(c) PROVE AfterInv'
  BY <1>13 DEF BeginVerify, sqlite, Structure, TypeOK, MutationRow, Snapshot,
     VersionInv, AfterInv, Open
<1>14. ASSUME NEW c \in Calls, Confirm(c) PROVE AfterInv'
  BY <1>14 DEF Confirm, Quiet, AfterInv
<1>15. ASSUME NEW c \in Calls, Reject(c) PROVE AfterInv'
  BY <1>15 DEF Reject, Quiet, AfterInv
<1>16. ASSUME NEW c \in Calls, FailVerification(c) PROVE AfterInv'
  BY <1>16 DEF FailVerification, Quiet, AfterInv
<1>17. ASSUME NEW c \in Calls, ReleaseUnpublished(c) PROVE AfterInv'
  BY <1>17 DEF ReleaseUnpublished, AfterInv, Open
<1>18. ASSUME NEW c \in Calls, RestoreRun(c) PROVE AfterInv'
  BY <1>18 DEF RestoreRun, Quiet, AfterInv
<1>19. ASSUME NEW c \in Calls, MarkInterrupted(c) PROVE AfterInv'
  BY <1>19 DEF MarkInterrupted, Idle, AfterInv, Open
<1>20. ASSUME Crash PROVE AfterInv'
  BY <1>20 DEF Crash, Quiet, AfterInv, Open
<1>21. ASSUME NextStage PROVE AfterInv'
  BY <1>21 DEF NextStage, Idle, AfterInv, Open
<1>22. ASSUME UNCHANGED vars PROVE AfterInv'
  BY <1>22 DEF vars, AfterInv, Open
<1> QED BY <1>1, <1>2, <1>3, <1>4, <1>5, <1>6, <1>7, <1>8, <1>9, <1>10, <1>11, <1>12,
           <1>13, <1>14, <1>15, <1>16, <1>17, <1>18, <1>19, <1>20, <1>21, <1>22
           DEF Next, Prepare, Tool, Verify, Recover

-----------------------------------------------------------------------------
\* No lease, no call, and every file as the catalogue knows it.
LEMMA IInvInit == Init => IInv
<1> SUFFICES ASSUME Init PROVE IInv
  OBVIOUS
<1>1. TypeOK
  BY MutationAssumption DEF Init, TypeOK, MutationRow, NoMutation, Snapshot, Quiet
<1>2. LeaseInv /\ HeadInv /\ CallerInv
  BY DEF Init, LeaseInv, HeadInv, CallerInv, Open, NoMutation, Quiet, Working
<1>3. DoubtStopsRun /\ VersionInv /\ AfterInv
  BY DEF Init, DoubtStopsRun, VersionInv, ChangesAreAccounted, AfterInv, Open,
     NoMutation, Quiet
<1> QED BY <1>1, <1>2, <1>3 DEF IInv, Structure

\* Every step, the structure first: the other parts rely on it.
LEMMA IInvStep == IInv /\ [Next]_vars => IInv'
<1> SUFFICES ASSUME IInv, [Next]_vars PROVE IInv'
  OBVIOUS
<1>1. TypeOK'
  BY TypeStep DEF IInv
<1>2. Structure'
  BY <1>1, LeaseStep, HeadStep, CallerStep DEF IInv, Structure
<1>3. DoubtStopsRun'
  BY <1>1, DoubtStep DEF IInv
<1>4. VersionInv' /\ AfterInv'
  BY <1>2, VersionStep, AfterStep DEF IInv
<1> QED BY <1>2, <1>3, <1>4 DEF IInv

\* The inductive invariant holds in every reachable state of any instance.
THEOREM Invariance == Spec => []IInv
BY IInvInit, IInvStep, PTL DEF Spec

\* Rows stay rows of their tables, whatever fails or dies.
THEOREM TypeInvariant == Spec => []TypeOK
<1>1. IInv => TypeOK
  BY DEF IInv, Structure
<1> QED BY <1>1, Invariance, PTL

\* Two tools never work on one file, and none works on a file another one may
\* have left half changed: the locks of prepareResourceMutation suffice,
\* although the tools run outside the queue.
THEOREM ToolsExclude == Spec => []ExclusiveScopes
<1>1. IInv => ExclusiveScopes
  BY DEF IInv, Structure, TypeOK, MutationRow, LeaseInv, CallerInv, ExclusiveScopes,
     Undecided, Open, Disjoint, Working
<1> QED BY <1>1, Invariance, PTL

\* No change of a file escapes the catalogue without an open lease on it,
\* although verifications compare snapshots that are outdated elsewhere.
THEOREM ChangesStayAccounted == Spec => []ChangesAreAccounted
<1>1. IInv => ChangesAreAccounted
  BY DEF IInv, VersionInv
<1> QED BY <1>1, Invariance, PTL

\* A run neither ends under an open lease nor goes on with one in doubt.
THEOREM DoubtIsKept == Spec => []DoubtStopsRun
<1>1. IInv => DoubtStopsRun
  BY DEF IInv
<1> QED BY <1>1, Invariance, PTL

-----------------------------------------------------------------------------
(* Stopped runs and their leases.  A second crash, between the release of  *)
(* a preparation and the update of its run, leaves that run                *)
(* recovery-required for good; nothing else does.                          *)

\* A run has one open lease: the unique index of the leases table.
OneLease == \A c, d \in Calls :
    (c # d /\ Open(c) /\ Open(d)) => mutation[c].run # mutation[d].run

\* The run of a call whose tool works, or whose answer is awaited, goes on.
WorkInv == \A c \in Calls : caller[c] \in Working => run[mutation[c].run] = "running"

\* Only a process that died before is in recovery.
RestartInv == boot # "ready" => crashes >= 1

\* The startup that released the preparation of r has not restored r yet.
Restoring(r) == head.kind = "release" /\ mutation[head.call].run = r

\* A stopped run has a mutation in doubt, or is about to be restored, or the
\* process died twice.
StoppedInv == \A r \in Runs : run[r] = "recovery_required" =>
    (\E c \in Of(r) : Open(c)) \/ Restoring(r) \/ crashes >= 2

\* The four of them.
StopInv == OneLease /\ WorkInv /\ RestartInv /\ StoppedInv

\* A lease is inserted only for a run that has none, and every other write
\* keeps the run of an open lease.
LEMMA OneLeaseStep ==
    ASSUME Structure, TypeOK', OneLease, [Next]_vars
    PROVE  OneLease'
<1>1. ASSUME NEW r \in Runs, StartRun(r) PROVE OneLease'
  BY <1>1 DEF StartRun, OneLease, Open
<1>2. ASSUME NEW r \in Runs, FinalizeRun(r) PROVE OneLease'
  BY <1>2 DEF FinalizeRun, OneLease, Open
<1>3. ASSUME NEW r \in Runs, RecoverRun(r) PROVE OneLease'
  BY <1>3 DEF RecoverRun, OneLease, Open
<1>4. ASSUME NEW c \in Calls, NEW r \in Runs, NEW S \in SUBSET Files \ {{}},
   BeginPrepare(c, r, S) PROVE OneLease'
  BY <1>4 DEF BeginPrepare, Structure, TypeOK, LeaseInv, CallerInv, OneLease, Open
<1>5. ASSUME NEW c \in Calls, Allocate(c) PROVE OneLease'
  BY <1>5 DEF Allocate, At, Available, Of, Structure, TypeOK, MutationRow, HeadInv,
     OneLease, Open
<1>6. ASSUME NEW c \in Calls, TakeSnapshot(c) PROVE OneLease'
  BY <1>6 DEF TakeSnapshot, OneLease, Open
<1>7. ASSUME NEW c \in Calls, Publish(c) PROVE OneLease'
  BY <1>7 DEF Publish, OneLease, Open
<1>8. ASSUME NEW c \in Calls, CompletePrepare(c) PROVE OneLease'
  BY <1>8 DEF CompletePrepare, OneLease, Open
<1>9. ASSUME NEW c \in Calls, FailPreparation(c) PROVE OneLease'
  BY <1>9 DEF FailPreparation, Release, OneLease, Open
<1>10. ASSUME NEW c \in Calls, RefusePrepare(c) PROVE OneLease'
  BY <1>10 DEF RefusePrepare, OneLease, Open
<1>11. ASSUME NEW c \in Calls, NEW f \in Files, ToolWrites(c, f) PROVE OneLease'
  BY <1>11 DEF ToolWrites, sqlite, OneLease, Open
<1>12. ASSUME NEW c \in Calls, NEW o \in {"ok", "failed"}, ToolEnds(c, o) PROVE
   OneLease'
  BY <1>12 DEF ToolEnds, sqlite, OneLease, Open
<1>13. ASSUME NEW c \in Calls, BeginVerify(c) PROVE OneLease'
  BY <1>13 DEF BeginVerify, sqlite, OneLease, Open
<1>14. ASSUME NEW c \in Calls, Confirm(c) PROVE OneLease'
  <2>1. /\ \A d \in Calls \ {c} : mutation'[d] = mutation[d]
        /\ mutation'[c].run = mutation[c].run
        /\ mutation'[c].lease = "released"
    BY <1>14, ConfirmRow DEF Structure
  <2> QED BY <2>1 DEF OneLease, Open
<1>15. ASSUME NEW c \in Calls, Reject(c) PROVE OneLease'
  <2>1. /\ \A d \in Calls \ {c} : mutation'[d] = mutation[d]
        /\ mutation'[c].run = mutation[c].run
        /\ mutation'[c].lease = "recovery_required"
    BY <1>15, SuspectRow DEF Reject, Structure

  <2>2. mutation[c].lease = "active" /\ mutation[c].run \in Runs
    BY <1>15, VerifiedCall DEF Reject
  <2> QED BY <2>1, <2>2 DEF OneLease, Open
<1>16. ASSUME NEW c \in Calls, FailVerification(c) PROVE OneLease'
  <2>1. /\ \A d \in Calls \ {c} : mutation'[d] = mutation[d]
        /\ mutation'[c].run = mutation[c].run
        /\ mutation'[c].lease = "recovery_required"
    BY <1>16, SuspectRow DEF FailVerification, Structure

  <2>2. mutation[c].lease = "active" /\ mutation[c].run \in Runs
    BY <1>16, VerifiedCall DEF FailVerification
  <2> QED BY <2>1, <2>2 DEF OneLease, Open
<1>17. ASSUME NEW c \in Calls, ReleaseUnpublished(c) PROVE OneLease'
  BY <1>17 DEF ReleaseUnpublished, Release, OneLease, Open
<1>18. ASSUME NEW c \in Calls, RestoreRun(c) PROVE OneLease'
  BY <1>18 DEF RestoreRun, OneLease, Open
<1>19. ASSUME NEW c \in Calls, MarkInterrupted(c) PROVE OneLease'
  <2>0. mutation[c].reported \in BOOLEAN
    BY DEF Structure, TypeOK, MutationRow

  <2>1. /\ \A d \in Calls \ {c} : mutation'[d] = mutation[d]
        /\ mutation'[c].run = mutation[c].run
        /\ mutation'[c].lease = "recovery_required"
    BY <1>19, SuspectRow, <2>0 DEF MarkInterrupted, Structure
  <2>2. mutation[c].lease = "active"
    BY <1>19 DEF MarkInterrupted
  <2> QED BY <2>1, <2>2 DEF OneLease, Open
<1>20. ASSUME Crash PROVE OneLease'
  BY <1>20 DEF Crash, sqlite, OneLease, Open
<1>21. ASSUME NextStage PROVE OneLease'
  BY <1>21 DEF NextStage, sqlite, OneLease, Open
<1>22. ASSUME UNCHANGED vars PROVE OneLease'
  BY <1>22 DEF vars, OneLease, Open
<1> QED BY <1>1, <1>2, <1>3, <1>4, <1>5, <1>6, <1>7, <1>8, <1>9, <1>10, <1>11, <1>12,
           <1>13, <1>14, <1>15, <1>16, <1>17, <1>18, <1>19, <1>20, <1>21, <1>22
           DEF Next, Prepare, Tool, Verify, Recover

\* A run is stopped or ended only when no tool of it works: its finalization
\* waits for its calls, and a doubt ends the only call that had its lease.
LEMMA WorkStep ==
    ASSUME Structure, TypeOK', OneLease, WorkInv, [Next]_vars
    PROVE  WorkInv'
<1>1. ASSUME NEW r \in Runs, StartRun(r) PROVE WorkInv'
  BY <1>1 DEF StartRun, Structure, TypeOK, WorkInv
<1>2. ASSUME NEW r \in Runs, FinalizeRun(r) PROVE WorkInv'
  BY <1>2 DEF FinalizeRun, Conclude, Of, Working, Structure, TypeOK, WorkInv
<1>3. ASSUME NEW r \in Runs, RecoverRun(r) PROVE WorkInv'
  <2>1. boot # "ready" /\ UNCHANGED caller
    BY <1>3 DEF RecoverRun
  <2> QED BY <2>1 DEF Structure, CallerInv, WorkInv
<1>4. ASSUME NEW c \in Calls, NEW r \in Runs, NEW S \in SUBSET Files \ {{}},
   BeginPrepare(c, r, S) PROVE WorkInv'
  BY <1>4 DEF BeginPrepare, Caller, Working, Structure, TypeOK, MutationRow, WorkInv
<1>5. ASSUME NEW c \in Calls, Allocate(c) PROVE WorkInv'
  BY <1>5 DEF Allocate, Structure, TypeOK, MutationRow, WorkInv
<1>6. ASSUME NEW c \in Calls, TakeSnapshot(c) PROVE WorkInv'
  BY <1>6 DEF TakeSnapshot, Structure, TypeOK, MutationRow, WorkInv
<1>7. ASSUME NEW c \in Calls, Publish(c) PROVE WorkInv'
  BY <1>7 DEF Publish, WorkInv
<1>8. ASSUME NEW c \in Calls, CompletePrepare(c) PROVE WorkInv'
  BY <1>8 DEF CompletePrepare, At, Caller, Working, Structure, TypeOK, HeadInv,
     WorkInv
<1>9. ASSUME NEW c \in Calls, FailPreparation(c) PROVE WorkInv'
  BY <1>9 DEF FailPreparation, Release, Structure, TypeOK, MutationRow, WorkInv
<1>10. ASSUME NEW c \in Calls, RefusePrepare(c) PROVE WorkInv'
  BY <1>10 DEF RefusePrepare, Caller, Working, Structure, TypeOK, WorkInv
<1>11. ASSUME NEW c \in Calls, NEW f \in Files, ToolWrites(c, f) PROVE WorkInv'
  BY <1>11 DEF ToolWrites, sqlite, WorkInv
<1>12. ASSUME NEW c \in Calls, NEW o \in {"ok", "failed"}, ToolEnds(c, o) PROVE
   WorkInv'
  BY <1>12 DEF ToolEnds, sqlite, Caller, Working, Structure, TypeOK, WorkInv
<1>13. ASSUME NEW c \in Calls, BeginVerify(c) PROVE WorkInv'
  BY <1>13 DEF BeginVerify, sqlite, WorkInv
<1>14. ASSUME NEW c \in Calls, Confirm(c) PROVE WorkInv'
  <2>1. /\ \A d \in Calls \ {c} : mutation'[d] = mutation[d]
        /\ mutation'[c].run = mutation[c].run
        /\ mutation'[c].lease = "released"
    BY <1>14, ConfirmRow DEF Structure
  <2> QED BY <1>14, <2>1 DEF Confirm, Caller, Working, WorkInv, Structure, TypeOK
<1>15. ASSUME NEW c \in Calls, Reject(c) PROVE WorkInv'
  <2>1. /\ \A d \in Calls \ {c} : mutation'[d] = mutation[d]
        /\ mutation'[c].run = mutation[c].run
        /\ mutation'[c].lease = "recovery_required"
    BY <1>15, SuspectRow DEF Reject, Structure

  <2>2. mutation[c].lease = "active" /\ mutation[c].run \in Runs
    BY <1>15, VerifiedCall DEF Reject

  <2>3. /\ run' = [run EXCEPT ![mutation[c].run] =
                         IF @ = "running" THEN "recovery_required" ELSE @]
        /\ caller' = [caller EXCEPT ![c] = "done"]
    BY <1>15 DEF Reject, Suspect, Caller
  <2>4. ASSUME NEW d \in Calls, caller'[d] \in Working
        PROVE  run'[mutation'[d].run] = "running"
    <3>1. d # c /\ caller[d] \in Working
      BY <2>3, <2>4 DEF Working, Structure, TypeOK
    <3>2. mutation[d].run # mutation[c].run
      BY <2>2, <3>1 DEF Structure, CallerInv, OneLease, Open
    <3> QED BY <2>1, <2>3, <3>1, <3>2 DEF WorkInv, Structure, TypeOK
  <2> QED BY <2>4 DEF WorkInv
<1>16. ASSUME NEW c \in Calls, FailVerification(c) PROVE WorkInv'
  <2>1. /\ \A d \in Calls \ {c} : mutation'[d] = mutation[d]
        /\ mutation'[c].run = mutation[c].run
        /\ mutation'[c].lease = "recovery_required"
    BY <1>16, SuspectRow DEF FailVerification, Structure

  <2>2. mutation[c].lease = "active" /\ mutation[c].run \in Runs
    BY <1>16, VerifiedCall DEF FailVerification

  <2>3. /\ run' = [run EXCEPT ![mutation[c].run] =
                         IF @ = "running" THEN "recovery_required" ELSE @]
        /\ caller' = [caller EXCEPT ![c] = "done"]
    BY <1>16 DEF FailVerification, Suspect, Caller
  <2>4. ASSUME NEW d \in Calls, caller'[d] \in Working
        PROVE  run'[mutation'[d].run] = "running"
    <3>1. d # c /\ caller[d] \in Working
      BY <2>3, <2>4 DEF Working, Structure, TypeOK
    <3>2. mutation[d].run # mutation[c].run
      BY <2>2, <3>1 DEF Structure, CallerInv, OneLease, Open
    <3> QED BY <2>1, <2>3, <3>1, <3>2 DEF WorkInv, Structure, TypeOK
  <2> QED BY <2>4 DEF WorkInv
<1>17. ASSUME NEW c \in Calls, ReleaseUnpublished(c) PROVE WorkInv'
  <2>1. boot # "ready" /\ UNCHANGED caller
    BY <1>17 DEF ReleaseUnpublished
  <2> QED BY <2>1 DEF Structure, CallerInv, WorkInv
<1>18. ASSUME NEW c \in Calls, RestoreRun(c) PROVE WorkInv'
  <2>1. boot # "ready" /\ UNCHANGED caller
    BY <1>18 DEF RestoreRun, At, Structure, HeadInv
  <2> QED BY <2>1 DEF Structure, CallerInv, WorkInv
<1>19. ASSUME NEW c \in Calls, MarkInterrupted(c) PROVE WorkInv'
  <2>1. boot # "ready" /\ UNCHANGED caller
    BY <1>19 DEF MarkInterrupted
  <2> QED BY <2>1 DEF Structure, CallerInv, WorkInv
<1>20. ASSUME Crash PROVE WorkInv'
  BY <1>20 DEF Crash, sqlite, Working, WorkInv
<1>21. ASSUME NextStage PROVE WorkInv'
  BY <1>21 DEF NextStage, sqlite, WorkInv
<1>22. ASSUME UNCHANGED vars PROVE WorkInv'
  BY <1>22 DEF vars, WorkInv
<1> QED BY <1>1, <1>2, <1>3, <1>4, <1>5, <1>6, <1>7, <1>8, <1>9, <1>10, <1>11, <1>12,
           <1>13, <1>14, <1>15, <1>16, <1>17, <1>18, <1>19, <1>20, <1>21, <1>22
           DEF Next, Prepare, Tool, Verify, Recover

\* Recovery follows a crash.
LEMMA RestartStep ==
    ASSUME Structure, RestartInv, [Next]_vars
    PROVE  RestartInv'
<1>1. ASSUME NEW r \in Runs, StartRun(r) PROVE RestartInv'
  BY <1>1 DEF StartRun, RestartInv
<1>2. ASSUME NEW r \in Runs, FinalizeRun(r) PROVE RestartInv'
  BY <1>2 DEF FinalizeRun, RestartInv
<1>3. ASSUME NEW r \in Runs, RecoverRun(r) PROVE RestartInv'
  BY <1>3 DEF RecoverRun, RestartInv
<1>4. ASSUME NEW c \in Calls, NEW r \in Runs, NEW S \in SUBSET Files \ {{}},
   BeginPrepare(c, r, S) PROVE RestartInv'
  BY <1>4 DEF BeginPrepare, RestartInv
<1>5. ASSUME NEW c \in Calls, Allocate(c) PROVE RestartInv'
  BY <1>5 DEF Allocate, RestartInv
<1>6. ASSUME NEW c \in Calls, TakeSnapshot(c) PROVE RestartInv'
  BY <1>6 DEF TakeSnapshot, RestartInv
<1>7. ASSUME NEW c \in Calls, Publish(c) PROVE RestartInv'
  BY <1>7 DEF Publish, RestartInv
<1>8. ASSUME NEW c \in Calls, CompletePrepare(c) PROVE RestartInv'
  BY <1>8 DEF CompletePrepare, RestartInv
<1>9. ASSUME NEW c \in Calls, FailPreparation(c) PROVE RestartInv'
  BY <1>9 DEF FailPreparation, RestartInv
<1>10. ASSUME NEW c \in Calls, RefusePrepare(c) PROVE RestartInv'
  BY <1>10 DEF RefusePrepare, RestartInv
<1>11. ASSUME NEW c \in Calls, NEW f \in Files, ToolWrites(c, f) PROVE RestartInv'
  BY <1>11 DEF ToolWrites, sqlite, RestartInv
<1>12. ASSUME NEW c \in Calls, NEW o \in {"ok", "failed"}, ToolEnds(c, o) PROVE
   RestartInv'
  BY <1>12 DEF ToolEnds, sqlite, RestartInv
<1>13. ASSUME NEW c \in Calls, BeginVerify(c) PROVE RestartInv'
  BY <1>13 DEF BeginVerify, sqlite, RestartInv
<1>14. ASSUME NEW c \in Calls, Confirm(c) PROVE RestartInv'
  BY <1>14 DEF Confirm, RestartInv
<1>15. ASSUME NEW c \in Calls, Reject(c) PROVE RestartInv'
  BY <1>15 DEF Reject, RestartInv
<1>16. ASSUME NEW c \in Calls, FailVerification(c) PROVE RestartInv'
  BY <1>16 DEF FailVerification, RestartInv
<1>17. ASSUME NEW c \in Calls, ReleaseUnpublished(c) PROVE RestartInv'
  BY <1>17 DEF ReleaseUnpublished, RestartInv
<1>18. ASSUME NEW c \in Calls, RestoreRun(c) PROVE RestartInv'
  BY <1>18 DEF RestoreRun, RestartInv
<1>19. ASSUME NEW c \in Calls, MarkInterrupted(c) PROVE RestartInv'
  BY <1>19 DEF MarkInterrupted, RestartInv
<1>20. ASSUME Crash PROVE RestartInv'
  BY <1>20 DEF Crash, sqlite, Structure, TypeOK, RestartInv
<1>21. ASSUME NextStage PROVE RestartInv'
  BY <1>21 DEF NextStage, sqlite, RestartInv
<1>22. ASSUME UNCHANGED vars PROVE RestartInv'
  BY <1>22 DEF vars, RestartInv
<1> QED BY <1>1, <1>2, <1>3, <1>4, <1>5, <1>6, <1>7, <1>8, <1>9, <1>10, <1>11, <1>12,
           <1>13, <1>14, <1>15, <1>16, <1>17, <1>18, <1>19, <1>20, <1>21, <1>22
           DEF Next, Prepare, Tool, Verify, Recover

\* A lease of a stopped run is released by recovery only, which restores the
\* run next; a crash in between is the second one.
LEMMA StoppedStep ==
    ASSUME Structure, TypeOK', OneLease, WorkInv, RestartInv, StoppedInv, [Next]_vars
    PROVE  StoppedInv'
<1>1. ASSUME NEW r \in Runs, StartRun(r) PROVE StoppedInv'
  BY <1>1 DEF StartRun, Structure, TypeOK, StoppedInv, Restoring, Of, Open
<1>2. ASSUME NEW r \in Runs, FinalizeRun(r) PROVE StoppedInv'
  <2>1. UNCHANGED <<mutation, head, crashes>>
    BY <1>2 DEF FinalizeRun
  <2>2. run'[r] = "recovery_required" => \E c \in Of(r) : Open(c)
    BY <1>2 DEF FinalizeRun, Conclude, Unverified, Of, Open, Structure, TypeOK, LeaseInv
  <2>3. \A q \in Runs \ {r} : run'[q] = run[q]
    BY <1>2 DEF FinalizeRun, Conclude, Structure, TypeOK
  <2> QED BY <2>1, <2>2, <2>3 DEF StoppedInv, Restoring, Of, Open
<1>3. ASSUME NEW r \in Runs, RecoverRun(r) PROVE StoppedInv'
  <2>1. UNCHANGED <<mutation, head, crashes>>
    BY <1>3 DEF RecoverRun
  <2>2. run'[r] = "recovery_required" => \E c \in Of(r) : Open(c)
    BY <1>3 DEF RecoverRun, Conclude, Unverified, Of, Open, Structure, TypeOK, LeaseInv
  <2>3. \A q \in Runs \ {r} : run'[q] = run[q]
    BY <1>3 DEF RecoverRun, Conclude, Structure, TypeOK
  <2> QED BY <2>1, <2>2, <2>3 DEF StoppedInv, Restoring, Of, Open
<1>4. ASSUME NEW c \in Calls, NEW r \in Runs, NEW S \in SUBSET Files \ {{}},
   BeginPrepare(c, r, S) PROVE StoppedInv'
  BY <1>4 DEF BeginPrepare, Serving, Idle, Quiet, Structure, TypeOK, MutationRow,
     LeaseInv, CallerInv, StoppedInv, Restoring, Of, Open
<1>5. ASSUME NEW c \in Calls, Allocate(c) PROVE StoppedInv'
  BY <1>5 DEF Allocate, At, Advance, Structure, TypeOK, MutationRow, StoppedInv,
     Restoring, Of, Open
<1>6. ASSUME NEW c \in Calls, TakeSnapshot(c) PROVE StoppedInv'
  BY <1>6 DEF TakeSnapshot, At, Advance, Structure, TypeOK, MutationRow, StoppedInv,
     Restoring, Of, Open
<1>7. ASSUME NEW c \in Calls, Publish(c) PROVE StoppedInv'
  BY <1>7 DEF Publish, At, StoppedInv, Restoring, Of, Open
<1>8. ASSUME NEW c \in Calls, CompletePrepare(c) PROVE StoppedInv'
  BY <1>8 DEF CompletePrepare, At, StoppedInv, Restoring, Of, Open
<1>9. ASSUME NEW c \in Calls, FailPreparation(c) PROVE StoppedInv'
  BY <1>9 DEF FailPreparation, At, Release, Advance, Structure, TypeOK, MutationRow,
     HeadInv, StoppedInv, Restoring, Of, Open
<1>10. ASSUME NEW c \in Calls, RefusePrepare(c) PROVE StoppedInv'
  BY <1>10 DEF RefusePrepare, At, StoppedInv, Restoring, Of, Open
<1>11. ASSUME NEW c \in Calls, NEW f \in Files, ToolWrites(c, f) PROVE StoppedInv'
  BY <1>11 DEF ToolWrites, sqlite, StoppedInv, Restoring, Of, Open
<1>12. ASSUME NEW c \in Calls, NEW o \in {"ok", "failed"}, ToolEnds(c, o) PROVE
   StoppedInv'
  BY <1>12 DEF ToolEnds, sqlite, StoppedInv, Restoring, Of, Open
<1>13. ASSUME NEW c \in Calls, BeginVerify(c) PROVE StoppedInv'
  BY <1>13 DEF BeginVerify, sqlite, Serving, Idle, StoppedInv, Restoring, Of, Open
<1>14. ASSUME NEW c \in Calls, Confirm(c) PROVE StoppedInv'
  <2>1. /\ \A d \in Calls \ {c} : mutation'[d] = mutation[d]
        /\ mutation'[c].run = mutation[c].run
        /\ mutation'[c].lease = "released"
    BY <1>14, ConfirmRow DEF Structure
  <2>2. run[mutation[c].run] = "running"
    BY <1>14, VerifiedCall DEF Confirm, WorkInv, Working
  <2>3. UNCHANGED <<run, crashes>> /\ \A q \in Runs : ~Restoring(q)
    BY <1>14 DEF Confirm, At, Restoring
  <2> QED BY <2>1, <2>2, <2>3 DEF StoppedInv, Of, Open
<1>15. ASSUME NEW c \in Calls, Reject(c) PROVE StoppedInv'
  <2>1. /\ \A d \in Calls \ {c} : mutation'[d] = mutation[d]
        /\ mutation'[c].run = mutation[c].run
        /\ mutation'[c].lease = "recovery_required"
    BY <1>15, SuspectRow DEF Reject, Structure

  <2>2. mutation[c].lease = "active" /\ mutation[c].run \in Runs
    BY <1>15, VerifiedCall DEF Reject

  <2>3. \A q \in Runs : ~Restoring(q) /\ (q # mutation[c].run => run'[q] = run[q])
        /\ UNCHANGED crashes
    BY <1>15 DEF Reject, Suspect, Restoring, At, Idle, Structure, TypeOK
  <2> QED BY <2>1, <2>2, <2>3 DEF StoppedInv, Of, Open
<1>16. ASSUME NEW c \in Calls, FailVerification(c) PROVE StoppedInv'
  <2>1. /\ \A d \in Calls \ {c} : mutation'[d] = mutation[d]
        /\ mutation'[c].run = mutation[c].run
        /\ mutation'[c].lease = "recovery_required"
    BY <1>16, SuspectRow DEF FailVerification, Structure

  <2>2. mutation[c].lease = "active" /\ mutation[c].run \in Runs
    BY <1>16, VerifiedCall DEF FailVerification

  <2>3. \A q \in Runs : ~Restoring(q) /\ (q # mutation[c].run => run'[q] = run[q])
        /\ UNCHANGED crashes
    BY <1>16 DEF FailVerification, Suspect, Restoring, At, Idle, Structure, TypeOK
  <2> QED BY <2>1, <2>2, <2>3 DEF StoppedInv, Of, Open
<1>17. ASSUME NEW c \in Calls, ReleaseUnpublished(c) PROVE StoppedInv'
  BY <1>17 DEF ReleaseUnpublished, Idle, Release, Quiet, Structure, TypeOK,
     MutationRow, StoppedInv, Restoring, Of, Open
<1>18. ASSUME NEW c \in Calls, RestoreRun(c) PROVE StoppedInv'
  BY <1>18 DEF RestoreRun, At, Quiet, Structure, TypeOK, HeadInv, StoppedInv,
     Restoring, Of, Open
<1>19. ASSUME NEW c \in Calls, MarkInterrupted(c) PROVE StoppedInv'
  <2>0. mutation[c].reported \in BOOLEAN
    BY DEF Structure, TypeOK, MutationRow

  <2>1. /\ \A d \in Calls \ {c} : mutation'[d] = mutation[d]
        /\ mutation'[c].run = mutation[c].run
        /\ mutation'[c].lease = "recovery_required"
    BY <1>19, SuspectRow, <2>0 DEF MarkInterrupted, Structure
  <2>2. mutation[c].run \in Runs
    BY <1>19 DEF MarkInterrupted, Structure, LeaseInv, Open

  <2>3. \A q \in Runs : ~Restoring(q) /\ (q # mutation[c].run => run'[q] = run[q])
        /\ UNCHANGED crashes
    BY <1>19 DEF MarkInterrupted, Suspect, Restoring, At, Idle, Structure, TypeOK
  <2> QED BY <2>1, <2>2, <2>3 DEF StoppedInv, Of, Open
<1>20. ASSUME Crash PROVE StoppedInv'
  <2>1. crashes \in Nat /\ crashes' = crashes + 1
    BY <1>20, MutationAssumption DEF Crash, Structure, TypeOK
  <2>2. head.kind = "release" => crashes >= 1
    BY DEF Structure, HeadInv, RestartInv
  <2> QED BY <1>20, <2>1, <2>2 DEF Crash, sqlite, StoppedInv, Restoring, Of, Open
<1>21. ASSUME NextStage PROVE StoppedInv'
  BY <1>21 DEF NextStage, sqlite, Idle, StoppedInv, Restoring, Of, Open
<1>22. ASSUME UNCHANGED vars PROVE StoppedInv'
  BY <1>22 DEF vars, StoppedInv, Restoring, Of, Open
<1> QED BY <1>1, <1>2, <1>3, <1>4, <1>5, <1>6, <1>7, <1>8, <1>9, <1>10, <1>11, <1>12,
           <1>13, <1>14, <1>15, <1>16, <1>17, <1>18, <1>19, <1>20, <1>21, <1>22
           DEF Next, Prepare, Tool, Verify, Recover

\* No lease, no stopped run.
LEMMA StopInit == Init => StopInv
BY DEF Init, StopInv, OneLease, WorkInv, Working, RestartInv, StoppedInv, Open, NoMutation

\* Every step keeps the four parts.
LEMMA StopStep ==
    ASSUME IInv, IInv', StopInv, [Next]_vars
    PROVE  StopInv'
BY OneLeaseStep, WorkStep, RestartStep, StoppedStep DEF IInv, Structure, StopInv

\* A run is recovery-required without a mutation in doubt only while its
\* startup restores it, or after a crash that came between the two statements of
\* recoverSafePreExecutionFailures: never in a process that died once only.
THEOREM StoppedForDoubt == Spec => []StopInv
<1>1. IInv /\ IInv' /\ StopInv /\ [Next]_vars => StopInv'
  BY StopStep
<1> QED BY <1>1, Invariance, StopInit, PTL DEF Spec

\* The recovery of interrupted runs leaves a run stopped only for a mutation
\* in doubt, when the process dies at most once: what recoverInterrupted
\* released was safe, and its run was closed.
THEOREM DoubtHasItsLease == MaxCrashes <= 1 => (Spec => RecoveryResolves)
<1> SUFFICES ASSUME MaxCrashes <= 1 PROVE Spec => RecoveryResolves
  OBVIOUS
<1>1. ASSUME IInv, StopInv, [Next]_vars, boot # "ready", boot' = "ready",
             NEW r \in Runs, run'[r] = "recovery_required"
      PROVE  \E c \in Of(r)' : Open(c)'
  <2>1. NextStage
    BY <1>1 DEF Next, Prepare, Tool, Verify, Recover, StartRun, FinalizeRun, RecoverRun,
       BeginPrepare, Allocate, TakeSnapshot, Publish, CompletePrepare, FailPreparation,
       RefusePrepare, ToolWrites, ToolEnds, BeginVerify, Confirm, Reject,
       FailVerification, ReleaseUnpublished, RestoreRun, MarkInterrupted, Crash, vars
  <2>2. Idle /\ UNCHANGED <<run, mutation>>
    BY <2>1 DEF NextStage, sqlite
  <2>3. ~(crashes >= 2)
    BY <1>1, MutationAssumption DEF IInv, Structure, TypeOK
  <2>4. \E c \in Of(r) : Open(c)
    BY <1>1, <2>2, <2>3 DEF StopInv, StoppedInv, Restoring, Idle
  <2> QED BY <2>2, <2>4 DEF Of, Open
<1>2. IInv /\ StopInv /\ [Next]_vars =>
        [(boot # "ready" /\ boot' = "ready") =>
            \A r \in Runs : run'[r] = "recovery_required" =>
                \E c \in Of(r)' : Open(c)']_vars
  BY <1>1
<1> QED BY <1>2, Invariance, StoppedForDoubt, PTL DEF Spec, RecoveryResolves

-----------------------------------------------------------------------------
(* The abstract catalogue.                                                 *)

\* A step that neither gives nor takes the authority of a call.
Same(c) == Authority(c)' = Authority(c) /\ Given(c)' = Given(c)

\* Nor does it change any version: the abstract catalogue stutters.
Unseen == (\A c \in Calls : Same(c)) /\ UNCHANGED <<content, known>>

\* Nobody sees it.
LEMMA UnseenStutters == Unseen => UNCHANGED Leases!vars
BY DEF Unseen, Same, Leases!vars

\* What a step changes of one call shows in its authority only.
LEMMA OthersSame ==
    ASSUME NEW c \in Calls, receipt'[c] = receipt[c], mutation'[c] = mutation[c],
           caller'[c] = caller[c]
    PROVE  Same(c)
BY DEF Same, Authority, Given, Undecided

\* A call without a completed receipt has no authority, whatever its row says.
LEMMA UnansweredSame ==
    ASSUME NEW c \in Calls, receipt[c] # "completed", receipt'[c] # "completed"
    PROVE  Same(c)
BY DEF Same, Authority, Given

\* Before any preparation nothing is given.
LEMMA AbstractInit == Init => Leases!Init
BY DEF Init, Leases!Init, Authority, Given

\* The completed receipt grants the scope: the open leases of the others are
\* disjoint from it.
LEMMA CompleteIsGrant ==
    ASSUME IInv, NEW c \in Calls, CompletePrepare(c)
    PROVE  Leases!Grant(c)
<1>1. /\ receipt[c] # "completed" /\ mutation[c].lease = "active"
      /\ mutation[c].status = "prepared"
  BY DEF CompletePrepare, At, IInv, Structure, HeadInv, LeaseInv
<1>2. /\ receipt' = [receipt EXCEPT ![c] = "completed"]
      /\ caller' = [caller EXCEPT ![c] = "authorised"]
      /\ UNCHANGED <<mutation, known, content>>
  BY DEF CompletePrepare, Receipt, Caller
<1>3. receipt'[c] = "completed" /\ caller'[c] = "authorised"
      /\ \A d \in Calls \ {c} : receipt'[d] = receipt[d] /\ caller'[d] = caller[d]
  BY <1>2 DEF IInv, Structure, TypeOK
<1>4. Authority(c) = "none" /\ Authority(c)' = "working" /\ Given(c)' = mutation[c].scope
  BY <1>1, <1>2, <1>3 DEF Authority, Given, Undecided
<1>5. \A d \in Calls \ {c} : Same(d)
  BY <1>2, <1>3, OthersSame
<1>6. mutation[c].scope \in SUBSET Files
  BY DEF IInv, Structure, TypeOK, MutationRow
<1>7. ASSUME NEW d \in Calls, Authority(d) \in {"working", "ended"}
      PROVE  Given(d) \cap mutation[c].scope = {}
  <2>1. receipt[d] = "completed" /\ Undecided(d) /\ d # c
    BY <1>1, <1>7 DEF Authority
  <2>2. Open(d)
    BY <2>1 DEF IInv, Structure, TypeOK, MutationRow, LeaseInv, CallerInv, Undecided, Open
  <2>3. Disjoint(d, c)
    BY <1>1, <2>1, <2>2 DEF IInv, Structure, LeaseInv, Open
  <2> QED BY <2>1, <2>3 DEF Given, Disjoint
<1>8. /\ [d \in Calls |-> Authority(d)]' =
             [[d \in Calls |-> Authority(d)] EXCEPT ![c] = "working"]
      /\ [d \in Calls |-> Given(d)]' =
             [[d \in Calls |-> Given(d)] EXCEPT ![c] = mutation[c].scope]
  BY <1>4, <1>5 DEF Same
<1> QED BY <1>2, <1>4, <1>6, <1>7, <1>8 DEF Leases!Grant, Leases!Held

\* A tool changes a file it was given.
LEMMA WriteIsWrite ==
    ASSUME IInv, NEW c \in Calls, NEW f \in Files, ToolWrites(c, f)
    PROVE  Leases!Write(c, f)
<1>1. /\ caller[c] = "authorised" /\ f \in mutation[c].scope
      /\ content' = [content EXCEPT ![f] = @ + 1]
      /\ UNCHANGED <<receipt, mutation, caller, known>>
  BY DEF ToolWrites, Change, sqlite
<1>2. Authority(c) = "working" /\ f \in Given(c)
  BY <1>1 DEF IInv, Structure, LeaseInv, CallerInv, Working, Authority, Given, Undecided
<1>3. /\ [d \in Calls |-> Authority(d)]' = [d \in Calls |-> Authority(d)]
      /\ [d \in Calls |-> Given(d)]' = [d \in Calls |-> Given(d)]
  BY <1>1, OthersSame DEF Same
<1> QED BY <1>1, <1>2, <1>3 DEF Leases!Write

\* The end of tools, by themselves or with the process, is theirs only.
LEMMA EndIsStop ==
    ASSUME IInv, NEW C \in SUBSET Calls, \A c \in C : caller[c] = "authorised",
           \A c \in C : caller'[c] # "authorised",
           \A c \in Calls \ C :
              \/ caller[c] # "authorised" /\ caller'[c] # "authorised"
              \/ caller'[c] = caller[c],
           UNCHANGED <<receipt, mutation, known, content>>
    PROVE  Leases!Stop(C)
<1>1. ASSUME NEW c \in C
      PROVE  Authority(c) = "working" /\ Authority(c)' = "ended"
  BY <1>1 DEF IInv, Structure, LeaseInv, CallerInv, Working, Authority, Undecided
<1>2. ASSUME NEW c \in Calls \ C
      PROVE  Authority(c)' = Authority(c)
  BY <1>2 DEF Authority, Undecided
<1>3. \A c \in Calls : Given(c)' = Given(c)
  BY DEF Given
<1>4. /\ [c \in Calls |-> Authority(c)]' =
             [c \in Calls |-> IF c \in C THEN "ended"
                              ELSE [d \in Calls |-> Authority(d)][c]]
      /\ [c \in Calls |-> Given(c)]' = [c \in Calls |-> Given(c)]
  BY <1>1, <1>2, <1>3
<1> QED BY <1>1, <1>4 DEF Leases!Stop

\* A confirmation settles: in its scope the catalogue has the version of the
\* files, elsewhere none older than before and none newer than the files.
LEMMA ConfirmIsSettle ==
    ASSUME IInv, IInv', NEW c \in Calls, Confirm(c)
    PROVE  Leases!Settle(c)
<1>1. /\ boot = "ready" /\ caller[c] \in {"ok", "failed"} /\ mutation[c].lease = "active"
      /\ mutation[c].status = "prepared" /\ receipt[c] = "completed"
      /\ mutation[c].before # NoSnapshot
  BY VerifiedCall DEF Confirm, IInv
<1>2. /\ \A d \in Calls \ {c} : mutation'[d] = mutation[d]
      /\ mutation'[c].scope = mutation[c].scope
      /\ mutation'[c].status \in {"verified", "no_change"}
  BY ConfirmRow DEF IInv, Structure
<1>3. /\ UNCHANGED <<receipt, content>>
      /\ \A d \in Calls \ {c} : caller'[d] = caller[d]
      /\ known' = IF Changed(c) = {} THEN known ELSE head.after
      /\ head.kind = "verify" /\ head.call = c
  BY DEF Confirm, Caller, At, IInv, Structure, TypeOK
<1>4. Authority(c) = "ended" /\ Authority(c)' = "settled" /\ Given(c)' = Given(c)
      /\ Given(c) = mutation[c].scope
  BY <1>1, <1>2, <1>3 DEF Authority, Given, Undecided
<1>5. \A d \in Calls \ {c} : Same(d)
  BY <1>2, <1>3, OthersSame
<1>6. /\ [d \in Calls |-> Authority(d)]' =
             [[d \in Calls |-> Authority(d)] EXCEPT ![c] = "settled"]
      /\ [d \in Calls |-> Given(d)]' = [d \in Calls |-> Given(d)]
  BY <1>4, <1>5 DEF Same
<1>7. /\ head.after \in Snapshot /\ known \in Snapshot /\ content \in Snapshot
      /\ known' \in Snapshot /\ mutation[c].before \in Snapshot
  BY <1>1, <1>3 DEF IInv, Structure, TypeOK, MutationRow, HeadInv
<1>8. ASSUME NEW f \in Files
      PROVE  /\ known[f] \in Nat /\ content[f] \in Nat /\ known'[f] \in Nat
             /\ known[f] <= known'[f] /\ known'[f] <= content[f]
  BY <1>3, <1>7, MutationAssumption DEF Snapshot, IInv, AfterInv, VersionInv
<1>9. ASSUME NEW f \in mutation[c].scope PROVE known'[f] = content[f]
  <2>1. f \in Files
    BY DEF IInv, Structure, TypeOK, MutationRow
  <2>2. head.after[f] = content[f]
    BY <1>1, <1>3, <2>1 DEF IInv, AfterInv, Structure, LeaseInv, Disjoint, Open
  <2>3. CASE Changed(c) # {}
    BY <1>3, <2>2, <2>3
  <2>4. CASE Changed(c) = {}
    <3>1. mutation[c].before[f] = head.after[f] /\ known' = known
      BY <1>3, <2>1, <2>4 DEF Changed
    <3>2. mutation[c].before[f] <= known[f]
      BY <1>1 DEF IInv, VersionInv, Open
    <3> QED BY <1>8, <2>1, <2>2, <3>1, <3>2
  <2> QED BY <2>3, <2>4
<1>10. known' \in [Files -> Nat]
  BY <1>7, MutationAssumption DEF Snapshot
<1>11. \A f \in Files :
          known'[f] \in (IF f \in mutation[c].scope THEN content[f] ELSE known[f])..content[f]
  BY <1>8, <1>9
<1> QED BY <1>3, <1>4, <1>6, <1>10, <1>11 DEF Leases!Settle

\* Every step is one of the catalogue's or unseen.
LEMMA StepIsLeased ==
    ASSUME IInv, IInv', [Next]_vars
    PROVE  [Leases!Next]_(Leases!vars)
<1> DEFINE Goal == [Leases!Next]_(Leases!vars)
<1> SUFFICES Goal
  OBVIOUS
<1>1. ASSUME Unseen PROVE Goal
  BY <1>1, UnseenStutters
<1>2. ASSUME UNCHANGED <<receipt, mutation, caller, known, content>> PROVE Unseen
  BY <1>2, OthersSame DEF Unseen
<1>3. ASSUME NEW r \in Runs, StartRun(r) \/ FinalizeRun(r) \/ RecoverRun(r) PROVE Unseen
  BY <1>2, <1>3 DEF StartRun, FinalizeRun, RecoverRun
<1>4. ASSUME NEW c \in Calls, NEW r \in Runs, NEW S \in SUBSET Files \ {{}},
             BeginPrepare(c, r, S)
      PROVE Unseen
  <2>1. receipt[c] # "completed" /\ receipt'[c] # "completed"
    BY <1>4 DEF BeginPrepare, Receipt, IInv, Structure, TypeOK
  <2>2. \A d \in Calls \ {c} : receipt'[d] = receipt[d] /\ mutation'[d] = mutation[d]
                               /\ caller'[d] = caller[d]
    BY <1>4 DEF BeginPrepare, Receipt, Caller, IInv, Structure, TypeOK
  <2> QED BY <1>4, <2>1, <2>2, UnansweredSame, OthersSame DEF BeginPrepare, Unseen
<1>5. ASSUME NEW c \in Calls,
             \/ Allocate(c) \/ TakeSnapshot(c) \/ Publish(c) \/ FailPreparation(c)
             \/ RefusePrepare(c)
      PROVE Unseen
  <2>1. receipt[c] # "completed" /\ receipt'[c] # "completed"
    BY <1>5 DEF Allocate, TakeSnapshot, Publish, FailPreparation, RefusePrepare, Receipt,
       At, IInv, Structure, TypeOK, HeadInv
  <2>2. \A d \in Calls \ {c} : receipt'[d] = receipt[d] /\ mutation'[d] = mutation[d]
                               /\ caller'[d] = caller[d]
    BY <1>5 DEF Allocate, TakeSnapshot, Publish, FailPreparation, RefusePrepare, Receipt,
       Caller, Release, IInv, Structure, TypeOK
  <2>3. UNCHANGED <<content, known>>
    BY <1>5 DEF Allocate, TakeSnapshot, Publish, FailPreparation, RefusePrepare
  <2> QED BY <2>1, <2>2, <2>3, UnansweredSame, OthersSame DEF Unseen
<1>6. ASSUME NEW c \in Calls, CompletePrepare(c) PROVE Goal
  BY <1>6, CompleteIsGrant DEF Leases!Next
<1>7. ASSUME NEW c \in Calls, NEW f \in Files, ToolWrites(c, f) PROVE Goal
  BY <1>7, WriteIsWrite DEF Leases!Next
<1>8. ASSUME NEW c \in Calls, NEW o \in {"ok", "failed"}, ToolEnds(c, o) PROVE Goal
  <2>1. /\ caller[c] = "authorised" /\ caller' = [caller EXCEPT ![c] = o]
        /\ UNCHANGED <<receipt, mutation, known, content>>
    BY <1>8 DEF ToolEnds, Caller, sqlite
  <2>2. caller'[c] # "authorised" /\ \A d \in Calls \ {c} : caller'[d] = caller[d]
    BY <2>1 DEF IInv, Structure, TypeOK
  <2>3. Leases!Stop({c})
    BY <2>1, <2>2, EndIsStop
  <2> QED BY <2>3 DEF Leases!Next
<1>9. ASSUME NEW c \in Calls, BeginVerify(c) \/ RestoreRun(c) PROVE Unseen
  BY <1>2, <1>9 DEF BeginVerify, RestoreRun, sqlite
<1>10. ASSUME NEW c \in Calls, Confirm(c) PROVE Goal
  BY <1>10, ConfirmIsSettle DEF Leases!Next
<1>11. ASSUME NEW c \in Calls, Reject(c) \/ FailVerification(c) PROVE Unseen
  <2>1. PICK b \in BOOLEAN : Suspect(c, b)
    BY <1>11 DEF Reject, FailVerification
  <2>2. /\ caller[c] \in {"ok", "failed"} /\ mutation[c].status = "prepared"
        /\ receipt[c] = "completed"
    BY <1>11, VerifiedCall DEF Reject, FailVerification, IInv
  <2>3. /\ caller' = [caller EXCEPT ![c] = "done"] /\ UNCHANGED <<receipt, known, content>>
    BY <1>11 DEF Reject, FailVerification, Caller
  <2>4. /\ mutation'[c].scope = mutation[c].scope
        /\ mutation'[c].status = "recovery_required"
        /\ \A d \in Calls \ {c} : mutation'[d] = mutation[d]
    BY <2>1, SuspectRow DEF IInv, Structure
  <2>5. caller'[c] = "done" /\ \A d \in Calls \ {c} : caller'[d] = caller[d]
    BY <2>3 DEF IInv, Structure, TypeOK
  <2>6. Same(c)
    BY <2>2, <2>3, <2>4, <2>5 DEF Same, Authority, Given, Undecided
  <2> QED BY <2>3, <2>4, <2>5, <2>6, OthersSame DEF Unseen
<1>12. ASSUME NEW c \in Calls, ReleaseUnpublished(c) PROVE Unseen
  <2>1. /\ receipt[c] # "completed" /\ UNCHANGED <<receipt, caller, known, content>>
        /\ \A d \in Calls \ {c} : mutation'[d] = mutation[d]
    BY <1>12 DEF ReleaseUnpublished, Unpublished, Release, IInv, Structure, TypeOK
  <2> QED BY <2>1, UnansweredSame, OthersSame DEF Unseen
<1>13. ASSUME NEW c \in Calls, MarkInterrupted(c) PROVE Unseen
  <2>1. PICK b \in BOOLEAN : Suspect(c, b)
    BY <1>13 DEF MarkInterrupted, IInv, Structure, TypeOK, MutationRow
  <2>2. mutation[c].status = "prepared" /\ UNCHANGED <<receipt, caller, known, content>>
    BY <1>13 DEF MarkInterrupted, IInv, Structure, LeaseInv
  <2>3. /\ mutation'[c].scope = mutation[c].scope
        /\ mutation'[c].status = "recovery_required"
        /\ \A d \in Calls \ {c} : mutation'[d] = mutation[d]
    BY <2>1, SuspectRow DEF IInv, Structure
  <2>4. Same(c)
    BY <2>2, <2>3 DEF Same, Authority, Given, Undecided
  <2> QED BY <2>2, <2>3, <2>4, OthersSame DEF Unseen
<1>14. ASSUME Crash PROVE Goal
  <2> DEFINE C == {c \in Calls : caller[c] = "authorised"}
  <2>1. /\ caller' = [c \in Calls |-> IF caller[c] = "none" THEN "none" ELSE "done"]
        /\ UNCHANGED <<receipt, mutation, known, content>>
    BY <1>14 DEF Crash, sqlite
  <2>2. Leases!Stop(C)
    BY <2>1, EndIsStop
  <2> QED BY <2>2 DEF Leases!Next
<1>15. ASSUME NextStage \/ UNCHANGED vars PROVE Unseen
  BY <1>2, <1>15 DEF NextStage, sqlite, vars
<1> QED BY <1>1, <1>3, <1>4, <1>5, <1>6, <1>7, <1>8, <1>9, <1>10, <1>11, <1>12, <1>13,
           <1>14, <1>15 DEF Next, Prepare, Tool, Verify, Recover

\* Locks, snapshots, receipts and recovery implement the catalogue of leases, for
\* any number of runs, calls, files, crashes and failing calls.
THEOREM LeasesAreExact == Spec => LeasesSpec
<1>1. IInv /\ IInv' /\ [Next]_vars => [Leases!Next]_(Leases!vars)
  BY StepIsLeased
<1> QED BY <1>1, AbstractInit, Invariance, PTL DEF Spec, LeasesSpec, Leases!Spec
=============================================================================
