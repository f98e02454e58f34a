----------------------------- MODULE WriterLock -----------------------------
(***************************************************************************)
(* The directory lock that makes one daemon process the writer of the      *)
(* Context Engine database: ContextEngineWriterLock (writer-lock.ts) as    *)
(* startContextEngineHost and its stop (runtime.ts) use it.                *)
(*                                                                         *)
(* Several daemon processes share one lock directory and its owner.json.   *)
(* Every file-system call is one step, because every call is awaited and   *)
(* the other processes run between them.                                   *)
(***************************************************************************)
EXTENDS Naturals, FiniteSets

CONSTANTS
    Daemon,         \* daemon process starts, each with its own startedAt
    Pid,            \* process ids the operating system hands out
    NoOwner,        \* "owner.json is missing or partial"
    NoPid,          \* "not started"
    ReusePids,      \* TRUE: the pid of a dead process may be handed out again
    OverlapStarts   \* TRUE: two processes may be inside acquire together

ASSUME LockAssumption ==
    /\ NoOwner \notin Daemon
    /\ NoPid \notin Pid
    /\ ReusePids \in BOOLEAN
    /\ OverlapStarts \in BOOLEAN

MutantMaxAttempts == 1      \* mutant: no second round after a stale removal
MaxAttempts == 2            \* the loop bound of acquire

VARIABLES
    lockDir,    \* BOOLEAN: the directory <database>.writer-lock exists
    owner,      \* whose metadata owner.json holds, NoOwner: missing or partial
    pid,        \* pid[d]: the process id of daemon d, NoPid before its start
    alive,      \* alive[d]: the process exists
    pc,         \* pc[d]: where daemon d stands in acquire, run or release
    attempt     \* attempt[d]: completed rounds of the loop of acquire

vars == <<lockDir, owner, pid, alive, pc, attempt>>

Acquiring == {"mkdir", "write", "read", "remove"}
Releasing == {"readOwn", "removeOwn"}
Stopped   == {"refused", "failed", "released", "dead"}

TypeOK ==
    /\ lockDir \in BOOLEAN
    /\ owner \in Daemon \cup {NoOwner}
    /\ owner # NoOwner => lockDir
    /\ pid \in [Daemon -> Pid \cup {NoPid}]
    /\ alive \in [Daemon -> BOOLEAN]
    /\ pc \in [Daemon -> {"new", "open"} \cup Acquiring \cup Releasing \cup Stopped]
    /\ attempt \in [Daemon -> 0..MaxAttempts]

Init ==
    /\ lockDir = FALSE
    /\ owner = NoOwner
    /\ pid = [d \in Daemon |-> NoPid]
    /\ alive = [d \in Daemon |-> FALSE]
    /\ pc = [d \in Daemon |-> "new"]
    /\ attempt = [d \in Daemon |-> 0]

LivePids == {pid[d] : d \in {e \in Daemon : alive[e]}}
UsedPids == {pid[d] : d \in Daemon} \ {NoPid}

\* process.kill(pid, 0) of the pid recorded in owner.json: it answers for
\* whatever process has that pid now.
OwnerIsLive == owner # NoOwner /\ pid[owner] \in LivePids

Goto(d, label) == pc' = [pc EXCEPT ![d] = label]
End(d, label)  == Goto(d, label) /\ alive' = [alive EXCEPT ![d] = FALSE]

-----------------------------------------------------------------------------
\* startContextEngineHost reaches ContextEngineWriterLock.acquire.
Start(d) ==
    /\ pc[d] = "new"
    /\ ~OverlapStarts => \A e \in Daemon : pc[e] \notin Acquiring
    /\ \E p \in Pid \ (IF ReusePids THEN LivePids ELSE UsedPids) :
          pid' = [pid EXCEPT ![d] = p]
    /\ alive' = [alive EXCEPT ![d] = TRUE]
    /\ Goto(d, "mkdir")
    /\ UNCHANGED <<lockDir, owner, attempt>>

\* mkdir creates the directory or fails with EEXIST.
MakeDirectory(d) ==
    /\ pc[d] = "mkdir"
    /\ lockDir' = TRUE
    /\ Goto(d, IF lockDir THEN "read" ELSE "write")
    /\ UNCHANGED <<owner, pid, alive, attempt>>

\* writeFile with flag wx: the lock is taken when owner.json is new; EEXIST
\* joins the branch of a failed mkdir; a directory removed meanwhile is an
\* ENOENT, which acquire throws.
WriteOwner(d) ==
    /\ pc[d] = "write"
    /\ \/ /\ lockDir /\ owner = NoOwner
          /\ owner' = d
          /\ Goto(d, "open")
          /\ UNCHANGED alive
       \/ /\ lockDir /\ owner # NoOwner
          /\ Goto(d, "read")
          /\ UNCHANGED <<owner, alive>>
       \/ /\ ~lockDir
          /\ End(d, "failed")
          /\ UNCHANGED owner
    /\ UNCHANGED <<lockDir, pid, attempt>>

\* Mutants: the owner's process is not looked up; a missing owner.json counts
\* as a live owner.
MutantNoLiveCheck(d) ==
    /\ pc[d] = "read"
    /\ Goto(d, "remove")
    /\ UNCHANGED <<lockDir, owner, pid, alive, attempt>>

MutantMissingIsLive(d) ==
    /\ pc[d] = "read"
    /\ IF owner = NoOwner \/ OwnerIsLive
       THEN End(d, "refused")
       ELSE Goto(d, "remove") /\ UNCHANGED alive
    /\ UNCHANGED <<lockDir, owner, pid, attempt>>

\* readLockMetadata, then isProcessAlive: a live owner refuses the start, a
\* dead, missing or partial one is judged stale.
ReadOwner(d) ==
    /\ pc[d] = "read"
    /\ IF OwnerIsLive THEN End(d, "refused")
                      ELSE Goto(d, "remove") /\ UNCHANGED alive
    /\ UNCHANGED <<lockDir, owner, pid, attempt>>

\* rm -rf of the directory judged stale, then the next round of the loop.
RemoveStale(d) ==
    /\ pc[d] = "remove"
    /\ lockDir' = FALSE
    /\ owner' = NoOwner
    /\ attempt' = [attempt EXCEPT ![d] = @ + 1]
    /\ IF attempt[d] + 1 < MaxAttempts
       THEN Goto(d, "mkdir") /\ UNCHANGED alive
       ELSE End(d, "failed")
    /\ UNCHANGED pid

\* stop, or a failed startup: the service is closed, then release begins.
BeginRelease(d) ==
    /\ pc[d] = "open"
    /\ Goto(d, "readOwn")
    /\ UNCHANGED <<lockDir, owner, pid, alive, attempt>>

\* release removes the directory only while owner.json names this daemon:
\* the same pid and the same startedAt.
ReadOwnLock(d) ==
    /\ pc[d] = "readOwn"
    /\ IF owner = d THEN Goto(d, "removeOwn") /\ UNCHANGED alive
                    ELSE End(d, "released")
    /\ UNCHANGED <<lockDir, owner, pid, attempt>>

\* Mutant: the directory goes, the record of its owner stays.
MutantKeepsOwner(d) ==
    /\ pc[d] = "removeOwn"
    /\ lockDir' = FALSE
    /\ End(d, "released")
    /\ UNCHANGED <<owner, pid, attempt>>

RemoveOwnLock(d) ==
    /\ pc[d] = "removeOwn"
    /\ lockDir' = FALSE
    /\ owner' = NoOwner
    /\ End(d, "released")
    /\ UNCHANGED <<pid, attempt>>

\* The process dies between any two calls; the directory stays as it is.
Crash(d) ==
    /\ alive[d]
    /\ End(d, "dead")
    /\ UNCHANGED <<lockDir, owner, pid, attempt>>

Acquire(d) ==
    MakeDirectory(d) \/ WriteOwner(d) \/ ReadOwner(d) \/ RemoveStale(d)

Release(d) == ReadOwnLock(d) \/ RemoveOwnLock(d)

Next == \E d \in Daemon :
    Start(d) \/ Acquire(d) \/ BeginRelease(d) \/ Release(d) \/ Crash(d)

\* A living process goes on with the call it is in; starting, stopping and
\* crashing are the environment's.
Fairness == \A d \in Daemon : WF_vars(Acquire(d) \/ Release(d))

Spec == Init /\ [][Next]_vars
FairSpec == Spec /\ Fairness

-----------------------------------------------------------------------------
Writers == {d \in Daemon : pc[d] = "open"}

\* At most one process has the database open for writing: what the comment
\* "its exclusive durable writer" of startContextEngineHost promises.
ExclusiveWriter == Cardinality(Writers) <= 1

\* owner.json names a living writer for as long as it runs: nobody removes or
\* replaces the lock of an open database, by a takeover or by a late release.
WriterKeepsLock == \A d \in Writers : lockDir /\ owner = d

\* A serialised start never ends with "Could not acquire" or with the ENOENT
\* of a directory removed under its feet.
NeverGivesUp == \A d \in Daemon : pc[d] # "failed"

\* A daemon that starts while every other process is gone becomes the writer
\* (unless it crashes itself or another one starts), whichever call the
\* earlier ones died in: a crash never locks the database for good.
Alone(d) == \A e \in Daemon \ {d} : ~alive[e]

LoneStartOpens == \A d \in Daemon :
    (pc[d] = "mkdir" /\ attempt[d] = 0 /\ Alone(d))
        ~> (pc[d] \in {"open", "dead"} \/ ~Alone(d))
=============================================================================
