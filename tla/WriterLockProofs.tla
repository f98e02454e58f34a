-------------------------- MODULE WriterLockProofs --------------------------
(***************************************************************************)
(* Proofs about WriterLock: while starts do not overlap, the directory     *)
(* lock excludes a second writer, for any number of daemon starts, deaths  *)
(* and reused process ids; and while process ids are not reused, a start   *)
(* that is alone opens the database, whatever the dead ones have left.     *)
(***************************************************************************)
EXTENDS WriterLock, TLAPS, FiniteSetTheorems

-----------------------------------------------------------------------------
(* The inductive invariant, in parts.                                      *)

Holding == {"open"} \cup Releasing

\* Starts are serialised: one process at a time is inside acquire.
OneAcquirer == \A d, e \in Daemon : (pc[d] \in Acquiring /\ pc[e] \in Acquiring) => d = e

\* From the end of acquire to the end of release the lock names its holder.
HolderOwns == \A d \in Daemon : pc[d] \in Holding => lockDir /\ owner = d

\* A process lives while it is somewhere in acquire, run or release.
LifeInv == \A d \in Daemon : alive[d] <=> pc[d] \in Acquiring \cup Holding

\* What the process inside acquire has seen still holds when it acts on it:
\* the lock it is about to remove has no living owner, the directory it has
\* made is still there, and its second round finds none.
AcquirerInv == \A d \in Daemon :
    /\ pc[d] = "remove" => owner = NoOwner \/ ~alive[owner]
    /\ pc[d] = "write" => lockDir /\ owner = NoOwner
    /\ pc[d] \in {"read", "remove"} => attempt[d] = 0
    /\ pc[d] = "new" => attempt[d] = 0
    /\ (pc[d] = "mkdir" /\ attempt[d] # 0) => ~lockDir

IInv == /\ TypeOK /\ OneAcquirer /\ HolderOwns /\ LifeInv /\ AcquirerInv /\ NeverGivesUp

-----------------------------------------------------------------------------
\* No lock, no process: nobody holds or acquires anything yet.
LEMMA IInvInit == Init => IInv
<1> SUFFICES ASSUME Init PROVE IInv
  OBVIOUS
<1> USE LockAssumption DEF Init, Holding, Acquiring, Releasing, Stopped
<1>1. TypeOK
  <2>1. pid \in [Daemon -> Pid \cup {NoPid}] /\ attempt \in [Daemon -> 0..MaxAttempts]
    BY DEF MaxAttempts
  <2>2. alive \in [Daemon -> BOOLEAN]
    OBVIOUS
  <2>3. pc \in [Daemon -> {"new", "open"} \cup Acquiring \cup Releasing \cup Stopped]
    OBVIOUS
  <2> QED BY <2>1, <2>2, <2>3 DEF TypeOK
<1>2. OneAcquirer /\ HolderOwns
  BY DEF OneAcquirer, HolderOwns
<1>3. LifeInv /\ AcquirerInv /\ NeverGivesUp
  BY DEF LifeInv, AcquirerInv, NeverGivesUp
<1> QED BY <1>1, <1>2, <1>3 DEF IInv

\* A living owner is found alive: its pid is one of the living pids, so an
\* owner that is not found alive is dead.
LEMMA NotFoundIsDead ==
    ASSUME TypeOK, ~OwnerIsLive
    PROVE  owner = NoOwner \/ ~alive[owner]
BY DEF TypeOK, OwnerIsLive, LivePids

\* Every step, as long as starts are serialised.
LEMMA IInvStep ==
    ASSUME ~OverlapStarts, IInv, [Next]_vars
    PROVE  IInv'
<1> USE DEF Acquiring, Releasing, Holding, Stopped
<1> USE LockAssumption
<1>1. ASSUME NEW d \in Daemon, Start(d) PROVE IInv'
  BY <1>1 DEF Start, Goto, IInv, TypeOK, OneAcquirer, HolderOwns, LifeInv, AcquirerInv,
     NeverGivesUp
<1>2. ASSUME NEW d \in Daemon, MakeDirectory(d) PROVE IInv'
  BY <1>2 DEF MakeDirectory, Goto, IInv, TypeOK, OneAcquirer, HolderOwns, LifeInv,
     AcquirerInv, NeverGivesUp
<1>3. ASSUME NEW d \in Daemon, WriteOwner(d) PROVE IInv'
  BY <1>3 DEF WriteOwner, Goto, End, IInv, TypeOK, OneAcquirer, HolderOwns, LifeInv,
     AcquirerInv, NeverGivesUp
<1>4. ASSUME NEW d \in Daemon, ReadOwner(d) PROVE IInv'
  <2> USE <1>4 DEF ReadOwner, Goto, End
  <2>1. TypeOK'
    BY DEF IInv, TypeOK
  <2>2. OneAcquirer' /\ HolderOwns' /\ LifeInv'
    BY DEF IInv, TypeOK, OneAcquirer, HolderOwns, LifeInv
  <2>3. ~OwnerIsLive => (owner = NoOwner \/ ~alive[owner])
    BY NotFoundIsDead DEF IInv
  <2>4. AcquirerInv'
    BY <2>3 DEF IInv, TypeOK, OneAcquirer, AcquirerInv
  <2>5. NeverGivesUp'
    BY DEF IInv, TypeOK, NeverGivesUp
  <2> QED BY <2>1, <2>2, <2>4, <2>5 DEF IInv
<1>5. ASSUME NEW d \in Daemon, RemoveStale(d) PROVE IInv'
  <2> USE <1>5 DEF RemoveStale, Goto, End, MaxAttempts
  <2>1. attempt[d] = 0 /\ (owner = NoOwner \/ ~alive[owner])
    BY DEF IInv, AcquirerInv
  <2>2. TypeOK'
    <3>1. attempt' \in [Daemon -> 0..MaxAttempts]
      BY <2>1 DEF IInv, TypeOK
    <3>2. pc' \in [Daemon -> {"new", "open"} \cup Acquiring \cup Releasing \cup Stopped]
      BY <2>1 DEF IInv, TypeOK
    <3> QED BY <2>1, <3>1, <3>2 DEF IInv, TypeOK
  <2>3. OneAcquirer' /\ LifeInv'
    BY <2>1 DEF IInv, TypeOK, OneAcquirer, LifeInv
  <2>4. HolderOwns'
    BY <2>1 DEF IInv, TypeOK, HolderOwns, LifeInv
  <2>5. AcquirerInv'
    BY <2>1 DEF IInv, TypeOK, OneAcquirer, AcquirerInv
  <2>6. NeverGivesUp'
    BY <2>1 DEF IInv, TypeOK, NeverGivesUp
  <2> QED BY <2>2, <2>3, <2>4, <2>5, <2>6 DEF IInv
<1>6. ASSUME NEW d \in Daemon, BeginRelease(d) PROVE IInv'
  BY <1>6 DEF BeginRelease, Goto, IInv, TypeOK, OneAcquirer, HolderOwns, LifeInv,
     AcquirerInv, NeverGivesUp
<1>7. ASSUME NEW d \in Daemon, ReadOwnLock(d) PROVE IInv'
  BY <1>7 DEF ReadOwnLock, Goto, End, IInv, TypeOK, OneAcquirer, HolderOwns, LifeInv,
     AcquirerInv, NeverGivesUp
<1>8. ASSUME NEW d \in Daemon, RemoveOwnLock(d) PROVE IInv'
  <2> USE <1>8 DEF RemoveOwnLock, Goto, End
  <2>1. TypeOK'
    BY DEF IInv, TypeOK
  <2>2. OneAcquirer' /\ LifeInv'
    BY DEF IInv, TypeOK, OneAcquirer, LifeInv
  <2>3. HolderOwns'
    BY DEF IInv, TypeOK, HolderOwns
  <2>4. AcquirerInv'
    BY DEF IInv, TypeOK, HolderOwns, AcquirerInv
  <2>5. NeverGivesUp'
    BY DEF IInv, TypeOK, NeverGivesUp
  <2> QED BY <2>1, <2>2, <2>3, <2>4, <2>5 DEF IInv
<1>9. ASSUME NEW d \in Daemon, Crash(d) PROVE IInv'
  BY <1>9 DEF Crash, Goto, End, IInv, TypeOK, OneAcquirer, HolderOwns, LifeInv,
     AcquirerInv, NeverGivesUp
<1>10. ASSUME UNCHANGED vars PROVE IInv'
  BY <1>10 DEF vars, IInv, TypeOK, OneAcquirer, HolderOwns, LifeInv, AcquirerInv,
     NeverGivesUp
<1> QED BY <1>1, <1>2, <1>3, <1>4, <1>5, <1>6, <1>7, <1>8, <1>9, <1>10
           DEF Next, Acquire, Release

\* The inductive invariant holds whenever starts are serialised.
THEOREM Invariance == ASSUME ~OverlapStarts PROVE Spec => []IInv
<1>1. IInv /\ [Next]_vars => IInv'
  BY IInvStep
<1> QED BY <1>1, IInvInit, PTL DEF Spec

\* Nobody removes or replaces the lock of an open database: neither a start
\* that takes over a dead daemon's lock nor the late release of another one.
THEOREM LockIsKept == ASSUME ~OverlapStarts PROVE Spec => []WriterKeepsLock
<1>1. IInv => WriterKeepsLock
  BY DEF IInv, HolderOwns, Holding, WriterKeepsLock, Writers
<1> QED BY <1>1, Invariance, PTL

\* At most one daemon has the database open for writing.
THEOREM Exclusion == ASSUME ~OverlapStarts PROVE Spec => []ExclusiveWriter
<1>1. ASSUME IInv PROVE ExclusiveWriter
  <2>1. \A d, e \in Writers : d = e
    BY <1>1 DEF IInv, HolderOwns, Holding, Writers
  <2>2. CASE Writers = {}
    BY <2>2, FS_EmptySet DEF ExclusiveWriter
  <2>3. CASE Writers # {}
    <3>1. PICK d \in Writers : TRUE
      BY <2>3
    <3>2. Writers = {d}
      BY <2>1, <3>1
    <3>3. Cardinality({d}) = 1
      BY FS_Singleton
    <3> QED BY <3>2, <3>3 DEF ExclusiveWriter
  <2> QED BY <2>2, <2>3
<1> QED BY <1>1, Invariance, PTL

\* A serialised start never fails for want of the lock: it opens, is refused
\* by a living owner, or dies.
THEOREM StartsSucceed == ASSUME ~OverlapStarts PROVE Spec => []NeverGivesUp
<1>1. IInv => NeverGivesUp
  BY DEF IInv
<1> QED BY <1>1, Invariance, PTL

-----------------------------------------------------------------------------
(* Starts that overlap: what is left without exclusion.                    *)

\* Whoever is before or inside acquire has a round left.
RoundsLeft == \A d \in Daemon :
    pc[d] \in {"new"} \cup Acquiring => attempt[d] < MaxAttempts

LEMMA RoundsInit == Init => TypeOK /\ RoundsLeft
<1> SUFFICES ASSUME Init PROVE TypeOK /\ RoundsLeft
  OBVIOUS
<1>1. TypeOK
  BY IInvInit DEF IInv
<1>2. RoundsLeft
  BY DEF Init, RoundsLeft, MaxAttempts
<1> QED BY <1>1, <1>2

LEMMA RoundsStep == TypeOK /\ RoundsLeft /\ [Next]_vars => (TypeOK /\ RoundsLeft)'
<1> SUFFICES ASSUME TypeOK, RoundsLeft, [Next]_vars PROVE TypeOK' /\ RoundsLeft'
  OBVIOUS
<1> USE LockAssumption DEF Acquiring, Releasing, Stopped, MaxAttempts
<1>1. ASSUME NEW d \in Daemon, Start(d) PROVE TypeOK' /\ RoundsLeft'
  BY <1>1 DEF Start, Goto, TypeOK, RoundsLeft
<1>2. ASSUME NEW d \in Daemon, MakeDirectory(d) PROVE TypeOK' /\ RoundsLeft'
  BY <1>2 DEF MakeDirectory, Goto, TypeOK, RoundsLeft
<1>3. ASSUME NEW d \in Daemon, WriteOwner(d) PROVE TypeOK' /\ RoundsLeft'
  BY <1>3 DEF WriteOwner, Goto, End, TypeOK, RoundsLeft
<1>4. ASSUME NEW d \in Daemon, ReadOwner(d) PROVE TypeOK' /\ RoundsLeft'
  BY <1>4 DEF ReadOwner, Goto, End, TypeOK, RoundsLeft
<1>5. ASSUME NEW d \in Daemon, RemoveStale(d) PROVE TypeOK' /\ RoundsLeft'
  <2>1. attempt[d] \in 0..2 /\ attempt[d] < 2
    BY <1>5 DEF RemoveStale, TypeOK, RoundsLeft
  <2>2. attempt[d] + 1 \in 0..2
    BY <2>1
  <2>3. TypeOK'
    BY <1>5, <2>2 DEF RemoveStale, Goto, End, TypeOK
  <2>4. RoundsLeft'
    BY <1>5, <2>2 DEF RemoveStale, Goto, End, TypeOK, RoundsLeft
  <2> QED BY <2>3, <2>4
<1>6. ASSUME NEW d \in Daemon, BeginRelease(d) PROVE TypeOK' /\ RoundsLeft'
  BY <1>6 DEF BeginRelease, Goto, TypeOK, RoundsLeft
<1>7. ASSUME NEW d \in Daemon, ReadOwnLock(d) PROVE TypeOK' /\ RoundsLeft'
  BY <1>7 DEF ReadOwnLock, Goto, End, TypeOK, RoundsLeft
<1>8. ASSUME NEW d \in Daemon, RemoveOwnLock(d) PROVE TypeOK' /\ RoundsLeft'
  BY <1>8 DEF RemoveOwnLock, Goto, End, TypeOK, RoundsLeft
<1>9. ASSUME NEW d \in Daemon, Crash(d) PROVE TypeOK' /\ RoundsLeft'
  BY <1>9 DEF Crash, Goto, End, TypeOK, RoundsLeft
<1>10. ASSUME UNCHANGED vars PROVE TypeOK' /\ RoundsLeft'
  BY <1>10 DEF vars, TypeOK, RoundsLeft
<1> QED BY <1>1, <1>2, <1>3, <1>4, <1>5, <1>6, <1>7, <1>8, <1>9, <1>10
           DEF Next, Acquire, Release

\* However starts overlap, owner.json is never without its directory and no
\* start goes through more rounds than the loop of acquire has.
THEOREM LockIsTyped == Spec => []TypeOK
<1>1. Init => TypeOK /\ RoundsLeft
  BY RoundsInit
<1>2. (TypeOK /\ RoundsLeft) /\ [Next]_vars => (TypeOK /\ RoundsLeft)'
  BY RoundsStep
<1> QED BY <1>1, <1>2, PTL DEF Spec

-----------------------------------------------------------------------------
(* A start that is alone opens the database, overlapping starts or not.    *)

\* Without reuse of process ids a pid belongs to one daemon.
PidInv == \A d, e \in Daemon : pid[d] # NoPid /\ pid[d] = pid[e] => d = e

\* owner.json never names a daemon that is still in acquire.
OwnerInv ==
    \A d \in Daemon : owner = d => pc[d] \in Holding \cup {"released", "dead"}

\* A daemon has a process id from its start on.
StartedInv == \A d \in Daemon : pc[d] = "new" <=> pid[d] = NoPid

\* What a start that is alone relies on, in every interleaving with the others.
LoneInv ==
    /\ TypeOK /\ LifeInv /\ PidInv /\ OwnerInv /\ StartedInv
    /\ \A d \in Daemon : pc[d] = "new" => attempt[d] = 0

\* Nobody has started.
LEMMA LoneInit == Init => LoneInv
<1> SUFFICES ASSUME Init PROVE LoneInv
  OBVIOUS
<1>1. TypeOK /\ LifeInv
  BY IInvInit DEF IInv
<1>2. PidInv /\ OwnerInv /\ StartedInv /\ \A d \in Daemon : pc[d] = "new" => attempt[d] = 0
  BY LockAssumption DEF Init, PidInv, OwnerInv, StartedInv
<1> QED BY <1>1, <1>2 DEF LoneInv

\* Every step keeps it, overlapping starts included.
LEMMA LoneStep ==
    ASSUME ~ReusePids, LoneInv, TypeOK', [Next]_vars
    PROVE  LoneInv'
<1> USE LockAssumption DEF LoneInv, LifeInv, PidInv, OwnerInv, StartedInv,
        Acquiring, Releasing, Holding
<1>1. ASSUME NEW d \in Daemon, Start(d) PROVE LoneInv'
  <2>1. PICK p \in Pid \ UsedPids : pid' = [pid EXCEPT ![d] = p]
    BY <1>1 DEF Start
  <2>2. \A e \in Daemon : pid[e] # p
    BY <2>1 DEF UsedPids
  <2>3. pc' = [pc EXCEPT ![d] = "mkdir"] /\ alive' = [alive EXCEPT ![d] = TRUE]
        /\ UNCHANGED <<lockDir, owner, attempt>> /\ pc[d] = "new"
    BY <1>1 DEF Start, Goto
  <2>4. PidInv' /\ StartedInv'
    BY <2>1, <2>2, <2>3 DEF TypeOK
  <2>5. LifeInv' /\ OwnerInv' /\ \A e \in Daemon : pc'[e] = "new" => attempt'[e] = 0
    BY <2>3 DEF TypeOK
  <2> QED BY <2>4, <2>5
<1>2. ASSUME NEW d \in Daemon, MakeDirectory(d) PROVE LoneInv'
  BY <1>2 DEF MakeDirectory, Goto, TypeOK
<1>3. ASSUME NEW d \in Daemon, WriteOwner(d) PROVE LoneInv'
  BY <1>3 DEF WriteOwner, Goto, End, TypeOK
<1>4. ASSUME NEW d \in Daemon, ReadOwner(d) PROVE LoneInv'
  BY <1>4 DEF ReadOwner, Goto, End, TypeOK
<1>5. ASSUME NEW d \in Daemon, RemoveStale(d) PROVE LoneInv'
  BY <1>5 DEF RemoveStale, Goto, End, TypeOK
<1>6. ASSUME NEW d \in Daemon, BeginRelease(d) PROVE LoneInv'
  BY <1>6 DEF BeginRelease, Goto, TypeOK
<1>7. ASSUME NEW d \in Daemon, ReadOwnLock(d) PROVE LoneInv'
  BY <1>7 DEF ReadOwnLock, Goto, End, TypeOK
<1>8. ASSUME NEW d \in Daemon, RemoveOwnLock(d) PROVE LoneInv'
  BY <1>8 DEF RemoveOwnLock, Goto, End, TypeOK
<1>9. ASSUME NEW d \in Daemon, Crash(d) PROVE LoneInv'
  BY <1>9 DEF Crash, Goto, End, TypeOK
<1>10. ASSUME UNCHANGED vars PROVE LoneInv'
  BY <1>10 DEF vars, TypeOK
<1> QED BY <1>1, <1>2, <1>3, <1>4, <1>5, <1>6, <1>7, <1>8, <1>9, <1>10
           DEF Next, Acquire, Release

\* So it holds in every reachable state.
LEMMA LoneInvariance == ASSUME ~ReusePids PROVE Spec => []LoneInv
<1>1. LoneInv /\ TypeOK' /\ [Next]_vars => LoneInv'
  BY LoneStep
<1> QED BY <1>1, LoneInit, LockIsTyped, PTL DEF Spec

\* A process does not rest for ever in a call of acquire or of release.  This is
\* Fairness with what enables those calls, the place the process is at, instead
\* of ENABLED.
KeepsGoing(d) ==
    []([](pc[d] \in Acquiring \cup Releasing) => <><<Acquire(d) \/ Release(d)>>_vars)

\* The calls of acquire a start on its own has before it, from the last to the
\* fifth: it finds a directory, reads no living owner, removes the directory,
\* makes its own and writes owner.json.
Fifth(d)  == pc[d] = "mkdir" /\ attempt[d] = 0
Fourth(d) == pc[d] = "read" /\ attempt[d] = 0
Third(d)  == pc[d] = "remove" /\ attempt[d] = 0
Second(d) == pc[d] = "mkdir" /\ ~lockDir
Last(d)   == pc[d] = "write" /\ lockDir /\ owner = NoOwner

\* Where the property lets it end.
Over(d) == pc[d] \in {"open", "dead"} \/ ~Alone(d)

\* It is in a call that returns.
AtCall(d) == pc[d] \in Acquiring \cup Releasing

\* Every call of a daemon on its own brings it to the next; any other step leaves
\* it where it is, kills it, or starts another daemon.
LEMMA LoneCalls ==
    ASSUME ~ReusePids, LoneInv, NEW d \in Daemon, Alone(d), [Next]_vars
    PROVE  /\ Last(d) => Last(d)' \/ Over(d)'
           /\ Second(d) => Second(d)' \/ Last(d)' \/ Over(d)'
           /\ Third(d) => Third(d)' \/ Second(d)' \/ Over(d)'
           /\ Fourth(d) => Fourth(d)' \/ Third(d)' \/ Over(d)'
           /\ Fifth(d) => Fifth(d)' \/ Fourth(d)' \/ Last(d)' \/ Over(d)'
           /\ <<Acquire(d) \/ Release(d)>>_vars =>
                 /\ Last(d) => Over(d)'
                 /\ Second(d) => Last(d)'
                 /\ Third(d) => Second(d)'
                 /\ Fourth(d) => Third(d)'
                 /\ Fifth(d) => Fourth(d)' \/ Last(d)'
<1> USE LockAssumption DEF Fifth, Fourth, Third, Second, Last, Over
<1>1. owner # NoOwner => lockDir
  BY DEF LoneInv, TypeOK
<1>2. ASSUME MakeDirectory(d)
      PROVE  /\ Second(d) => Last(d)'
             /\ Fifth(d) => Fourth(d)' \/ Last(d)'
             /\ pc[d] = "mkdir"
  BY <1>1, <1>2 DEF MakeDirectory, Goto, LoneInv, TypeOK
<1>3. ASSUME WriteOwner(d) PROVE (Last(d) => Over(d)') /\ pc[d] = "write"
  BY <1>3 DEF WriteOwner, Goto, LoneInv, TypeOK
<1>4. ASSUME ReadOwner(d) PROVE (Fourth(d) => Third(d)') /\ pc[d] = "read"
  <2>1. pc[d] = "read"
    BY <1>4 DEF ReadOwner
  <2>2. owner # NoOwner => owner \in Daemon \ {d} /\ ~alive[owner]
    BY <2>1 DEF LoneInv, TypeOK, OwnerInv, Holding, Releasing, Alone
  <2>3. \A e \in Daemon : alive[e] => e = d
    BY DEF Alone, LoneInv, TypeOK
  <2>4. ~OwnerIsLive
    <3>1. LivePids \subseteq {pid[d]}
      BY <2>3 DEF LivePids
    <3>2. pid[d] # NoPid
      BY <2>1 DEF LoneInv, StartedInv
    <3>3. owner # NoOwner => pid[owner] # pid[d]
      BY <2>2, <3>2 DEF LoneInv, PidInv
    <3> QED BY <3>1, <3>3 DEF OwnerIsLive
  <2> QED BY <1>4, <2>1, <2>4 DEF ReadOwner, Goto, LoneInv, TypeOK
<1>5. ASSUME RemoveStale(d) PROVE (Third(d) => Second(d)') /\ pc[d] = "remove"
  <2>1. pc[d] = "remove" /\ lockDir' = FALSE
    BY <1>5 DEF RemoveStale
  <2>2. attempt[d] = 0 => pc' = [pc EXCEPT ![d] = "mkdir"]
    BY <1>5 DEF RemoveStale, Goto, MaxAttempts
  <2> QED BY <2>1, <2>2 DEF LoneInv, TypeOK
<1>6. ASSUME Release(d) PROVE pc[d] \in Releasing
  BY <1>6 DEF Release, ReadOwnLock, RemoveOwnLock, Releasing
<1>7. ASSUME Start(d) \/ BeginRelease(d) PROVE pc[d] \in {"new", "open"}
  BY <1>7 DEF Start, BeginRelease
<1>8. ASSUME Crash(d) PROVE Over(d)'
  BY <1>8 DEF Crash, End, Goto, LoneInv, TypeOK
<1>9. ASSUME NEW e \in Daemon \ {d},
             Start(e) \/ Acquire(e) \/ BeginRelease(e) \/ Release(e) \/ Crash(e)
      PROVE  Over(d)'
  <2>1. ~alive[e] /\ pc[e] \notin Acquiring \cup Holding
    BY DEF Alone, LoneInv, LifeInv
  <2>2. Start(e)
    BY <1>9, <2>1 DEF Acquire, MakeDirectory, WriteOwner, ReadOwner, RemoveStale, Release,
       ReadOwnLock, RemoveOwnLock, BeginRelease, Crash, Acquiring, Holding, Releasing
  <2>3. alive'[e] = TRUE
    BY <2>2 DEF Start, LoneInv, TypeOK
  <2> QED BY <2>3 DEF Alone
<1>10. CASE UNCHANGED vars
  BY <1>10 DEF vars, Alone
<1>11. CASE Acquire(d) \/ Release(d)
  BY <1>2, <1>3, <1>4, <1>5, <1>6, <1>11 DEF Acquire, Releasing
<1>12. CASE ~(Acquire(d) \/ Release(d)) /\ ~UNCHANGED vars
  BY <1>7, <1>8, <1>9, <1>12 DEF Next
<1> QED BY <1>10, <1>11, <1>12

\* A daemon that starts while no other process lives becomes the writer, unless it
\* crashes or another one starts: whatever lock directory the dead ones have left,
\* for any number of daemons and overlapping starts, if no pid is reused.
THEOREM LoneStartsOpen ==
    ASSUME ~ReusePids
    PROVE  Spec /\ (\A d \in Daemon : KeepsGoing(d)) => LoneStartOpens
<1>1. ASSUME NEW d \in Daemon
      PROVE  Spec /\ KeepsGoing(d) =>
               ((pc[d] = "mkdir" /\ attempt[d] = 0 /\ Alone(d))
                  ~> (pc[d] \in {"open", "dead"} \/ ~Alone(d)))
  <2> DEFINE L1 == Last(d)
             L2 == Second(d)
             L3 == Third(d)
             L4 == Fourth(d)
             L5 == Fifth(d)
             O  == Over(d)
             C  == AtCall(d)
             A  == Acquire(d) \/ Release(d)
  <2>1. /\ pc[d] = "mkdir" /\ attempt[d] = 0 /\ Alone(d) => L5
        /\ O => pc[d] \in {"open", "dead"} \/ ~Alone(d)
    BY DEF Fifth, Over
  <2>2. LoneInv /\ ~O /\ [Next]_vars =>
           /\ L1 => L1' \/ O'
           /\ L2 => L2' \/ L1' \/ O'
           /\ L3 => L3' \/ L2' \/ O'
           /\ L4 => L4' \/ L3' \/ O'
           /\ L5 => L5' \/ L4' \/ L1' \/ O'
           /\ <<A>>_vars =>
                 /\ L1 => O'
                 /\ L2 => L1'
                 /\ L3 => L2'
                 /\ L4 => L3'
                 /\ L5 => L4' \/ L1'
    BY LoneCalls DEF Over
  <2>3. L1 \/ L2 \/ L3 \/ L4 \/ L5 => C
    BY DEF Last, Second, Third, Fourth, Fifth, AtCall, Acquiring
  <2>4. KeepsGoing(d) => []([]C => <><<A>>_vars)
    BY DEF KeepsGoing, AtCall
  <2> HIDE DEF L1, L2, L3, L4, L5, O, C, A
  <2>5. Spec => []LoneInv
    BY LoneInvariance
  <2>6. Spec /\ KeepsGoing(d) => [](L1 => <>O)
    BY <2>2, <2>3, <2>4, <2>5, PTL DEF Spec
  <2>7. Spec /\ KeepsGoing(d) => [](L2 => <>(L1 \/ O))
    BY <2>2, <2>3, <2>4, <2>5, PTL DEF Spec
  <2>8. Spec /\ KeepsGoing(d) => [](L3 => <>(L2 \/ O))
    BY <2>2, <2>3, <2>4, <2>5, PTL DEF Spec
  <2>9. Spec /\ KeepsGoing(d) => [](L4 => <>(L3 \/ O))
    BY <2>2, <2>3, <2>4, <2>5, PTL DEF Spec
  <2>10. Spec /\ KeepsGoing(d) => [](L5 => <>(L4 \/ L1 \/ O))
    BY <2>2, <2>3, <2>4, <2>5, PTL DEF Spec
  <2> QED BY <2>1, <2>6, <2>7, <2>8, <2>9, <2>10, PTL
<1> QED BY <1>1 DEF LoneStartOpens
=============================================================================
