--------------------------- MODULE DaemonProofs ---------------------------
(***************************************************************************)
(* Proofs about ChatTurns: for any messages, any number of receipts, and   *)
(* any crashes and restarts of the daemon, a message is worked on at most  *)
(* once, and a run that stays active is somebody's.  The last part is      *)
(* about the daemon as a whole (MCDaemon): a behaviour of the daemon is a  *)
(* behaviour of each of its parts, so that the theorems about the parts    *)
(* hold of it.                                                             *)
(***************************************************************************)
EXTENDS MCDaemon, PersonalMemoryProofs, ContextPreparationProofs, AgentModesProofs, TLAPS,
        SequenceTheorems

-----------------------------------------------------------------------------
(* The inductive invariant, in parts.                                      *)

RunType == [msg : Messages, status : RunStatus]
Last == chatRuns[Len(chatRuns)]

\* A turn past its preparation works on the newest run, for its message.
TurnHolds ==
  turnStep # "idle" =>
    backlog # <<>> /\ chatRuns # <<>> /\ Last = [msg |-> Current, status |-> "running"]

\* A run was asked for: its message has a receipt in the engine.
RunsAreAsked == \A i \in 1..Len(chatRuns) : requests[chatRuns[i].msg] # "none"

\* No queue and no turn outlive the daemon.
DownIsEmpty == daemon = "down" => backlog = <<>> /\ turnStep = "idle"

ChatInv == ChatTypeOK /\ TurnHolds /\ RunsAreAsked /\ DownIsEmpty /\ OneRunPerMessage /\ ActiveRunIsHeld

-----------------------------------------------------------------------------
\* The daemon starts with nothing to do.
LEMMA ChatInvInit == ChatInit => ChatInv
<1> SUFFICES ASSUME ChatInit PROVE ChatInv
  OBVIOUS
<1> USE ChatBounds DEF ChatInit
<1>1. ChatTypeOK
  <2>1. receipts \in Seq(Messages) /\ backlog \in Seq(Messages)
        /\ chatRuns \in Seq([msg : Messages, status : RunStatus])
    OBVIOUS
  <2>2. answers \in [Messages -> SUBSET {"reply", "error"}]
    OBVIOUS
  <2>3. requests \in [Messages -> {"none", "in_progress", "completed", "recovery_required"}]
    OBVIOUS
  <2> QED BY <2>1, <2>2, <2>3 DEF ChatTypeOK
<1>2. 1..Len(chatRuns) = {}
  OBVIOUS
<1>3. TurnHolds /\ RunsAreAsked /\ DownIsEmpty
  BY <1>2 DEF TurnHolds, RunsAreAsked, DownIsEmpty
<1>4. OneRunPerMessage /\ ActiveRunIsHeld
  BY <1>2 DEF OneRunPerMessage, ActiveRunIsHeld, ActiveRuns
<1> QED BY <1>1, <1>3, <1>4 DEF ChatInv

\* Setting the status of a run keeps its message.
LEMMA StatusChange ==
    ASSUME NEW r \in RunType, NEW st \in RunStatus
    PROVE  LET new == [r EXCEPT !.status = st]
           IN  new \in RunType /\ new.msg = r.msg /\ new.status = st
BY DEF RunType

\* What setting the status of the newest run does.
LEMMA SetLastEffect ==
    ASSUME ChatTypeOK, chatRuns # <<>>, NEW st \in RunStatus, chatRuns' = SetLast(st)
    PROVE  /\ chatRuns' \in Seq(RunType)
           /\ Len(chatRuns') = Len(chatRuns) /\ Len(chatRuns) \in Nat \ {0}
           /\ \A i \in 1..Len(chatRuns) :
                /\ chatRuns'[i].msg = chatRuns[i].msg
                /\ chatRuns'[i].status = IF i = Len(chatRuns) THEN st ELSE chatRuns[i].status
<1> DEFINE n == Len(chatRuns)
           new == [chatRuns[n] EXCEPT !.status = st]
<1>1. chatRuns \in Seq(RunType) /\ n \in Nat \ {0} /\ chatRuns[n] \in RunType
  <2>1. chatRuns \in Seq(RunType)
    BY DEF ChatTypeOK, RunType
  <2>2. n \in Nat \ {0}
    BY <2>1, EmptySeq
  <2> QED BY <2>1, <2>2, ElementOfSeq
<1>2. new \in RunType /\ new.msg = chatRuns[n].msg /\ new.status = st
  BY <1>1, StatusChange
<1>3. chatRuns' = [chatRuns EXCEPT ![n] = new]
  BY DEF SetLast
<1> HIDE DEF new
<1>4. /\ chatRuns' \in Seq(RunType) /\ Len(chatRuns') = n
      /\ \A i \in 1..n : chatRuns'[i] = IF i = n THEN new ELSE chatRuns[i]
  BY <1>1, <1>2, <1>3
<1> QED BY <1>1, <1>2, <1>4

\* Every message keeps its one run when only statuses change, as long as the
\* run of a message with a reply stays ended.
LEMMA StatusStep ==
    ASSUME ChatInv, chatRuns # <<>>, NEW st \in RunStatus, chatRuns' = SetLast(st),
           UNCHANGED requests, st = "ended" \/ chatRuns[Len(chatRuns)].status # "ended",
           NEW m \in Messages, "reply" \in answers[m]
    PROVE  \E i \in 1..Len(chatRuns') : chatRuns'[i].msg = m /\ chatRuns'[i].status = "ended"
<1>1. PICK i \in 1..Len(chatRuns) : chatRuns[i].msg = m /\ chatRuns[i].status = "ended"
  BY DEF ChatInv, OneRunPerMessage
<1>2. chatRuns'[i].msg = m /\ chatRuns'[i].status = "ended" /\ Len(chatRuns') = Len(chatRuns)
  BY <1>1, SetLastEffect DEF ChatInv
<1> QED BY <1>1, <1>2

\* The status of the newest run is set by a turn, or at a start.
LEMMA RunsAfterSetLast ==
    ASSUME ChatInv, chatRuns # <<>>, NEW st \in RunStatus, chatRuns' = SetLast(st),
           UNCHANGED requests
    PROVE  /\ RunsAreAsked'
           /\ \A i, j \in 1..Len(chatRuns') : chatRuns'[i].msg = chatRuns'[j].msg => i = j
           /\ \A i \in ActiveRuns' : i = Len(chatRuns') /\ chatRuns'[i].msg = Last.msg
                                     /\ st \in Blocking
           /\ chatRuns' \in Seq(RunType)
<1>1. ChatTypeOK
  BY DEF ChatInv
<1>2. RunsAreAsked'
  BY <1>1, SetLastEffect DEF ChatInv, RunsAreAsked
<1>3. \A i, j \in 1..Len(chatRuns') : chatRuns'[i].msg = chatRuns'[j].msg => i = j
  BY <1>1, SetLastEffect DEF ChatInv, OneRunPerMessage
<1>4. ASSUME NEW i \in ActiveRuns'
      PROVE  i = Len(chatRuns') /\ chatRuns'[i].msg = Last.msg /\ st \in Blocking
  <2>1. i \in 1..Len(chatRuns) /\ chatRuns'[i].status \in Blocking
    BY <1>1, SetLastEffect DEF ActiveRuns
  <2>2. i = Len(chatRuns)
    <3> SUFFICES ASSUME i # Len(chatRuns) PROVE FALSE
      OBVIOUS
    <3>1. chatRuns[i].status \in Blocking
      BY <1>1, <2>1, SetLastEffect
    <3> QED BY <2>1, <3>1 DEF ChatInv, ActiveRunIsHeld, ActiveRuns
  <2> QED BY <1>1, <2>1, <2>2, SetLastEffect DEF Last
<1>5. chatRuns' \in Seq(RunType)
  BY <1>1, SetLastEffect
<1> QED BY <1>2, <1>3, <1>4, <1>5

\* The first message of the queue, and the rest.
LEMMA ChatQueueStep ==
    ASSUME ChatTypeOK
    PROVE  /\ backlog # <<>> => Current \in Messages /\ Tail(backlog) \in Seq(Messages)
           /\ \A m \in Messages :
                /\ Append(backlog, m) \in Seq(Messages) /\ Append(backlog, m) # <<>>
                /\ backlog # <<>> => Head(Append(backlog, m)) = Head(backlog)
           /\ \A m \in Messages : Remember1(m) \in Seq(Messages)
<1> USE DEF ChatTypeOK
<1>1. backlog # <<>> => Current \in Messages /\ Tail(backlog) \in Seq(Messages)
  BY DEF Current
<1>2. ASSUME NEW m \in Messages
      PROVE  /\ Append(backlog, m) \in Seq(Messages) /\ Append(backlog, m) # <<>>
             /\ backlog # <<>> => Head(Append(backlog, m)) = Head(backlog)
  OBVIOUS
<1>3. ASSUME NEW m \in Messages PROVE Remember1(m) \in Seq(Messages)
  <2>1. receipts # <<>> => Tail(receipts) \in Seq(Messages)
    OBVIOUS
  <2>2. Len(receipts) >= MaxReceipts => receipts # <<>>
    BY ChatBounds
  <2>3. (IF Len(receipts) >= MaxReceipts THEN Tail(receipts) ELSE receipts) \in Seq(Messages)
    BY <2>1, <2>2
  <2> QED BY <2>3 DEF Remember1
<1> QED BY <1>1, <1>2, <1>3

\* A turn that settles with an error leaves the replies as they were.
LEMMA SettleError ==
    ASSUME ChatInv, backlog # <<>>, Settled("error")
    PROVE  /\ answers' \in [Messages -> SUBSET {"reply", "error"}]
           /\ backlog' \in Seq(Messages) /\ turnStep' = "idle"
           /\ \A m \in Messages : "reply" \in answers'[m] => "reply" \in answers[m]
<1>1. Current \in Messages /\ Tail(backlog) \in Seq(Messages)
  BY ChatQueueStep DEF ChatInv
<1> QED BY <1>1 DEF Settled, ChatInv, ChatTypeOK

-----------------------------------------------------------------------------
\* A message is accepted.
LEMMA HandleMessageStep ==
    ASSUME ChatInv, NEW m \in Messages, HandleMessage(m) PROVE ChatInv'
<1> USE DEF HandleMessage, engineVars
<1>1. ChatTypeOK'
  BY ChatQueueStep DEF ChatInv, ChatTypeOK
<1>2. TurnHolds'
  BY ChatQueueStep DEF ChatInv, TurnHolds, Current, Last
<1>3. RunsAreAsked' /\ DownIsEmpty' /\ OneRunPerMessage'
  BY DEF ChatInv, RunsAreAsked, DownIsEmpty, OneRunPerMessage
<1>4. ActiveRunIsHeld'
  BY ChatQueueStep DEF ChatInv, ActiveRunIsHeld, ActiveRuns, Current
<1> QED BY <1>1, <1>2, <1>3, <1>4 DEF ChatInv

\* A run is prepared: its message had no receipt, so it had no run.
LEMMA PrepareRunStep == ASSUME ChatInv, PrepareRun PROVE ChatInv'
<1> USE DEF PrepareRun, GoesTo, TurnUnchanged
<1> DEFINE new == [msg |-> Current, status |-> "running"]
<1>1. Current \in Messages /\ new \in RunType /\ chatRuns \in Seq(RunType)
  BY ChatQueueStep DEF ChatInv, ChatTypeOK, RunType, RunStatus, Blocking
<1>2. /\ chatRuns' \in Seq(RunType) /\ Len(chatRuns') = Len(chatRuns) + 1
      /\ \A i \in 1..Len(chatRuns) : chatRuns'[i] = chatRuns[i]
      /\ chatRuns'[Len(chatRuns')] = new /\ chatRuns' # <<>> /\ Len(chatRuns) \in Nat
  BY <1>1
<1>3. ChatTypeOK'
  BY <1>1, <1>2 DEF ChatInv, ChatTypeOK, RunType
<1>4. TurnHolds'
  BY <1>2 DEF TurnHolds, Last, Current
<1>5. RunsAreAsked'
  <2> SUFFICES ASSUME NEW i \in 1..Len(chatRuns') PROVE requests'[chatRuns'[i].msg] # "none"
    BY DEF RunsAreAsked
  <2>1. requests \in [Messages -> {"none", "in_progress", "completed", "recovery_required"}]
    BY DEF ChatInv, ChatTypeOK
  <2>2. CASE i = Len(chatRuns')
    BY <1>1, <1>2, <2>1, <2>2
  <2>3. CASE i # Len(chatRuns')
    <3>1. i \in 1..Len(chatRuns) /\ chatRuns'[i] = chatRuns[i] /\ chatRuns[i] \in RunType
      BY <1>1, <1>2, <2>3
    <3> QED BY <2>1, <3>1 DEF ChatInv, RunsAreAsked, RunType
  <2> QED BY <2>2, <2>3
<1>6. DownIsEmpty'
  BY DEF ChatInv, DownIsEmpty
<1>7. OneRunPerMessage'
  <2>1. \A i \in 1..Len(chatRuns) : chatRuns[i].msg # Current
    BY DEF ChatInv, RunsAreAsked
  <2>2. \A i, j \in 1..Len(chatRuns') : chatRuns'[i].msg = chatRuns'[j].msg => i = j
    <3> SUFFICES ASSUME NEW i \in 1..Len(chatRuns'), NEW j \in 1..Len(chatRuns'),
                        chatRuns'[i].msg = chatRuns'[j].msg
                 PROVE  i = j
      OBVIOUS
    <3>1. CASE i \in 1..Len(chatRuns) /\ j \in 1..Len(chatRuns)
      BY <1>2, <3>1 DEF ChatInv, OneRunPerMessage
    <3>2. CASE i = Len(chatRuns') \/ j = Len(chatRuns')
      <4>1. \A k \in 1..Len(chatRuns') : k # Len(chatRuns') => chatRuns'[k].msg # Current
        BY <1>2, <2>1
      <4> QED BY <1>2, <3>2, <4>1
    <3> QED BY <1>2, <3>1, <3>2
  <2>3. ASSUME NEW m \in Messages, "reply" \in answers'[m]
        PROVE  \E i \in 1..Len(chatRuns') : chatRuns'[i].msg = m /\ chatRuns'[i].status = "ended"
    <3>1. PICK i \in 1..Len(chatRuns) : chatRuns[i].msg = m /\ chatRuns[i].status = "ended"
      BY <2>3 DEF ChatInv, OneRunPerMessage
    <3> QED BY <1>2, <3>1
  <2> QED BY <2>2, <2>3 DEF OneRunPerMessage
<1>8. ActiveRunIsHeld'
  <2> SUFFICES ASSUME NEW i \in ActiveRuns'
               PROVE  /\ i = Len(chatRuns') /\ turnStep' # "idle" /\ backlog' # <<>>
                      /\ chatRuns'[i].msg = Current'
    BY DEF ActiveRunIsHeld
  <2>1. i = Len(chatRuns')
    BY <1>2 DEF ActiveRuns
  <2> QED BY <1>2, <2>1 DEF Current
<1> QED BY <1>3, <1>4, <1>5, <1>6, <1>7, <1>8 DEF ChatInv

\* A turn that has no run is refused.
LEMMA RefuseTurnStep == ASSUME ChatInv, RefuseTurn PROVE ChatInv'
<1> USE DEF RefuseTurn, TurnUnchanged, engineVars
<1>1. /\ answers' \in [Messages -> SUBSET {"reply", "error"}]
      /\ backlog' \in Seq(Messages) /\ turnStep' = "idle"
      /\ \A m \in Messages : "reply" \in answers'[m] => "reply" \in answers[m]
  BY SettleError
<1>2. ChatTypeOK' /\ TurnHolds' /\ RunsAreAsked' /\ DownIsEmpty'
  BY <1>1 DEF ChatInv, ChatTypeOK, TurnHolds, RunsAreAsked, DownIsEmpty
<1>3. OneRunPerMessage'
  BY <1>1 DEF ChatInv, OneRunPerMessage
<1>4. ActiveRunIsHeld'
  BY <1>1 DEF ChatInv, ActiveRunIsHeld, ActiveRuns
<1> QED BY <1>2, <1>3, <1>4 DEF ChatInv

\* The context of the new run is built, or the daemon never learns of it.
LEMMA BuildContextStep == ASSUME ChatInv, BuildContext PROVE ChatInv'
<1> USE DEF BuildContext, TurnUnchanged
<1>1. backlog # <<>> /\ chatRuns # <<>> /\ Last.msg = Current /\ Current \in Messages
  BY ChatQueueStep DEF ChatInv, TurnHolds
<1>2. /\ requests' \in [Messages -> {"none", "in_progress", "completed", "recovery_required"}]
      /\ \A m \in Messages : requests[m] # "none" => requests'[m] # "none"
  BY <1>1 DEF ChatInv, ChatTypeOK
<1>3. RunsAreAsked'
  <2>1. \A i \in 1..Len(chatRuns) : chatRuns[i].msg \in Messages
    <3>1. chatRuns \in Seq([msg : Messages, status : RunStatus])
      BY DEF ChatInv, ChatTypeOK
    <3>2. \A i \in 1..Len(chatRuns) : chatRuns[i] \in [msg : Messages, status : RunStatus]
      BY <3>1, ElementOfSeq
    <3> QED BY <3>2
  <2> QED BY <1>2, <2>1 DEF ChatInv, RunsAreAsked
<1>4. CASE GoesTo("loop") /\ UNCHANGED faulted
  <2> USE <1>4 DEF GoesTo
  <2>1. ChatTypeOK' /\ TurnHolds' /\ DownIsEmpty'
    BY <1>2 DEF ChatInv, ChatTypeOK, TurnHolds, DownIsEmpty, Current, Last
  <2>2. OneRunPerMessage' /\ ActiveRunIsHeld'
    BY DEF ChatInv, OneRunPerMessage, ActiveRunIsHeld, ActiveRuns, Current
  <2> QED BY <1>3, <2>1, <2>2 DEF ChatInv
<1>5. CASE faulted' = TRUE /\ Settled("error")
  <2>1. /\ answers' \in [Messages -> SUBSET {"reply", "error"}]
        /\ backlog' \in Seq(Messages) /\ turnStep' = "idle"
        /\ \A m \in Messages : "reply" \in answers'[m] => "reply" \in answers[m]
    BY <1>1, <1>5, SettleError
  <2>2. ChatTypeOK' /\ TurnHolds' /\ DownIsEmpty'
    BY <1>2, <1>5, <2>1 DEF ChatInv, ChatTypeOK, TurnHolds, DownIsEmpty
  <2>3. OneRunPerMessage' /\ ActiveRunIsHeld'
    BY <1>5, <2>1 DEF ChatInv, OneRunPerMessage, ActiveRunIsHeld, ActiveRuns
  <2> QED BY <1>3, <2>2, <2>3 DEF ChatInv
<1> QED BY <1>4, <1>5

\* The agent loop returns.
LEMMA LoopReturnsStep == ASSUME ChatInv, LoopReturns PROVE ChatInv'
<1> USE DEF LoopReturns, GoesTo, TurnUnchanged, engineVars
<1>1. ChatTypeOK' /\ TurnHolds' /\ RunsAreAsked' /\ DownIsEmpty'
  BY DEF ChatInv, ChatTypeOK, TurnHolds, RunsAreAsked, DownIsEmpty, Current, Last
<1>2. OneRunPerMessage' /\ ActiveRunIsHeld'
  BY DEF ChatInv, OneRunPerMessage, ActiveRunIsHeld, ActiveRuns, Current
<1> QED BY <1>1, <1>2 DEF ChatInv

\* A turn settles with an error after the engine finished the run, or failed.
LEMMA SettleFailedStep ==
    ASSUME ChatInv, turnStep # "idle", NEW st \in RunStatus, chatRuns' = SetLast(st),
           Settled("error"), faulted' \in BOOLEAN, st \in Blocking => faulted',
           UNCHANGED requests, TurnUnchanged
    PROVE  ChatInv'
<1> USE DEF TurnUnchanged
<1>1. backlog # <<>> /\ chatRuns # <<>> /\ Last.status = "running"
  BY DEF ChatInv, TurnHolds
<1>2. /\ answers' \in [Messages -> SUBSET {"reply", "error"}]
      /\ backlog' \in Seq(Messages) /\ turnStep' = "idle"
      /\ \A m \in Messages : "reply" \in answers'[m] => "reply" \in answers[m]
  BY <1>1, SettleError
<1>3. /\ RunsAreAsked'
      /\ \A i, j \in 1..Len(chatRuns') : chatRuns'[i].msg = chatRuns'[j].msg => i = j
      /\ \A i \in ActiveRuns' : i = Len(chatRuns') /\ st \in Blocking
      /\ chatRuns' \in Seq(RunType)
  BY <1>1, RunsAfterSetLast
<1>4. ChatTypeOK' /\ TurnHolds' /\ DownIsEmpty'
  BY <1>2, <1>3 DEF ChatInv, ChatTypeOK, TurnHolds, DownIsEmpty, RunType
<1>5. OneRunPerMessage'
  <2>1. Last.status # "ended"
    BY <1>1
  <2>2. ASSUME NEW m \in Messages, "reply" \in answers'[m]
        PROVE  \E i \in 1..Len(chatRuns') : chatRuns'[i].msg = m /\ chatRuns'[i].status = "ended"
    BY <1>1, <1>2, <2>1, <2>2, StatusStep DEF Last
  <2> QED BY <1>3, <2>2 DEF OneRunPerMessage
<1>6. ActiveRunIsHeld'
  BY <1>3 DEF ActiveRunIsHeld
<1> QED BY <1>3, <1>4, <1>5, <1>6 DEF ChatInv

\* A run is finalized and its message answered, or the turn fails.
LEMMA FinalizeTurnStep == ASSUME ChatInv, FinalizeTurn PROVE ChatInv'
<1> USE DEF FinalizeTurn
<1>1. CASE chatRuns' = SetLast("ended") /\ Settled("reply") /\ UNCHANGED faulted
  <2> USE <1>1 DEF TurnUnchanged
  <2>1. /\ backlog # <<>> /\ chatRuns # <<>> /\ Last = [msg |-> Current, status |-> "running"]
        /\ Current \in Messages /\ Tail(backlog) \in Seq(Messages) /\ "ended" \in RunStatus
    BY ChatQueueStep DEF ChatInv, TurnHolds, RunStatus
  <2>2. /\ RunsAreAsked' /\ chatRuns' \in Seq(RunType) /\ ActiveRuns' = {}
        /\ \A i, j \in 1..Len(chatRuns') : chatRuns'[i].msg = chatRuns'[j].msg => i = j
    <3>1. "ended" \notin Blocking
      BY DEF Blocking
    <3> QED BY <2>1, <3>1, RunsAfterSetLast
  <2>3. /\ answers' \in [Messages -> SUBSET {"reply", "error"}]
        /\ \A m \in Messages : m # Current => answers'[m] = answers[m]
    BY <2>1 DEF ChatInv, ChatTypeOK, Settled
  <2>4. ChatTypeOK' /\ TurnHolds' /\ DownIsEmpty'
    BY <2>1, <2>2, <2>3 DEF ChatInv, ChatTypeOK, TurnHolds, DownIsEmpty, RunType, Settled
  <2>5. ASSUME NEW m \in Messages, "reply" \in answers'[m]
        PROVE  \E i \in 1..Len(chatRuns') : chatRuns'[i].msg = m /\ chatRuns'[i].status = "ended"
    <3>1. CASE m = Current
      BY <2>1, <3>1, SetLastEffect DEF ChatInv, Last
    <3>2. CASE m # Current
      BY <2>1, <2>3, <2>5, <3>2, StatusStep
    <3> QED BY <3>1, <3>2
  <2>6. OneRunPerMessage' /\ ActiveRunIsHeld'
    BY <2>2, <2>5 DEF OneRunPerMessage, ActiveRunIsHeld
  <2> QED BY <2>2, <2>4, <2>6 DEF ChatInv
<1>2. CASE \E st \in Blocking : chatRuns' = SetLast(st) /\ Settled("error") /\ faulted' = TRUE
  BY <1>2, SettleFailedStep DEF RunStatus
<1> QED BY <1>1, <1>2

\* The run of a failed turn is finalized, or that fails too.
LEMMA FailTurnStep == ASSUME ChatInv, FailTurn PROVE ChatInv'
<1> USE DEF FailTurn
<1>1. CASE chatRuns' = SetLast("ended") /\ UNCHANGED faulted
  <2>1. "ended" \in RunStatus /\ "ended" \notin Blocking /\ faulted' \in BOOLEAN
    BY <1>1 DEF RunStatus, Blocking, ChatInv, ChatTypeOK
  <2> QED BY <1>1, <2>1, SettleFailedStep
<1>2. CASE \E st \in Blocking : chatRuns' = SetLast(st) /\ faulted' = TRUE
  BY <1>2, SettleFailedStep DEF RunStatus
<1> QED BY <1>1, <1>2

\* The daemon stops, or dies.
LEMMA StopStep == ASSUME ChatInv, StopChannels \/ StopEngine \/ CrashDaemon PROVE ChatInv'
<1> USE DEF StopChannels, StopEngine, CrashDaemon, engineVars
<1>1. ChatTypeOK'
  <2>1. receipts' \in Seq(Messages) /\ backlog' \in Seq(Messages)
    <3>1. /\ receipts' = receipts \/ receipts' = <<>>
          /\ backlog' = backlog \/ backlog' = <<>>
      OBVIOUS
    <3> QED BY <3>1, EmptySeq DEF ChatInv, ChatTypeOK
  <2>2. turnStep' \in {"idle", "context", "loop", "finalize", "failing"}
        /\ daemon' \in {"up", "stopping", "down"}
    BY DEF ChatInv, ChatTypeOK
  <2>3. UNCHANGED <<chatRuns, requests, answers, faulted, accepted, daemons>>
    OBVIOUS
  <2> QED BY <2>1, <2>2, <2>3 DEF ChatInv, ChatTypeOK
<1>2. TurnHolds' /\ DownIsEmpty'
  BY DEF ChatInv, TurnHolds, DownIsEmpty, Current, Last
<1>3. RunsAreAsked' /\ OneRunPerMessage'
  BY DEF ChatInv, RunsAreAsked, OneRunPerMessage
<1>4. ActiveRunIsHeld'
  BY DEF ChatInv, ActiveRunIsHeld, ActiveRuns, Current, TurnHolds, DownIsEmpty
<1> QED BY <1>1, <1>2, <1>3, <1>4 DEF ChatInv

\* Recovery ends the runs that were left, or marks the one it cannot end.
LEMMA StartDaemonStep == ASSUME ChatInv, StartDaemon PROVE ChatInv'
<1>0. /\ daemon = "down" /\ daemon' = "up" /\ daemons' = daemons + 1
      /\ UNCHANGED <<receipts, backlog, turnStep, requests, answers, accepted>>
  BY DEF StartDaemon
<1>1. turnStep' = "idle"
  BY <1>0 DEF ChatInv, DownIsEmpty
<1>2. CASE /\ chatRuns' = [i \in 1..Len(chatRuns) |-> [chatRuns[i] EXCEPT !.status = "ended"]]
           /\ faulted' = FALSE
  <2>1. /\ chatRuns' \in Seq(RunType) /\ Len(chatRuns') = Len(chatRuns)
        /\ \A i \in 1..Len(chatRuns) :
             chatRuns'[i].msg = chatRuns[i].msg /\ chatRuns'[i].status = "ended"
    <3>1. chatRuns \in Seq(RunType) /\ "ended" \in RunStatus
      BY DEF ChatInv, ChatTypeOK, RunType, RunStatus
    <3>2. \A i \in 1..Len(chatRuns) :
            LET new == [chatRuns[i] EXCEPT !.status = "ended"]
            IN  new \in RunType /\ new.msg = chatRuns[i].msg /\ new.status = "ended"
      BY <3>1, StatusChange
    <3> DEFINE new(i) == [chatRuns[i] EXCEPT !.status = "ended"]
    <3>3. chatRuns' = [i \in 1..Len(chatRuns) |-> new(i)]
      BY <1>2
    <3>4. \A i \in 1..Len(chatRuns) :
            new(i) \in RunType /\ new(i).msg = chatRuns[i].msg /\ new(i).status = "ended"
      BY <3>2
    <3> HIDE DEF new
    <3>5. chatRuns' \in [1..Len(chatRuns) -> RunType] /\ Len(chatRuns) \in Nat
      BY <3>1, <3>3, <3>4
    <3>6. chatRuns' \in Seq(RunType) /\ Len(chatRuns') = Len(chatRuns)
      BY <3>5, SeqDef, LenProperties
    <3> QED BY <3>3, <3>4, <3>6
  <2>2. ChatTypeOK' /\ TurnHolds' /\ DownIsEmpty'
    <3>1. faulted' = FALSE
      BY <1>2
    <3>2. chatRuns' \in Seq([msg : Messages, status : RunStatus])
      BY <2>1 DEF RunType
    <3>3. ChatTypeOK'
      <4>1. ChatTypeOK
        BY DEF ChatInv
      <4>2. daemons' \in Nat
        BY <1>0, <4>1 DEF ChatTypeOK
      <4>6. faulted' \in BOOLEAN
        BY <3>1
      <4>3. receipts' \in Seq(Messages) /\ backlog' \in Seq(Messages)
        BY <1>0, <4>1 DEF ChatTypeOK
      <4>4. /\ requests' \in [Messages -> {"none", "in_progress", "completed", "recovery_required"}]
            /\ answers' \in [Messages -> SUBSET {"reply", "error"}]
        BY <1>0, <4>1 DEF ChatTypeOK
      <4>5. /\ turnStep' \in {"idle", "context", "loop", "finalize", "failing"}
            /\ daemon' \in {"up", "stopping", "down"} /\ accepted' \in Nat
        BY <1>0, <4>1 DEF ChatTypeOK
      <4> QED BY <3>2, <4>2, <4>3, <4>4, <4>5, <4>6 DEF ChatTypeOK
    <3> QED BY <1>0, <1>1, <3>3 DEF TurnHolds, DownIsEmpty
  <2>3. RunsAreAsked'
    BY <1>0, <2>1 DEF ChatInv, RunsAreAsked
  <2>4. OneRunPerMessage'
    BY <1>0, <2>1 DEF ChatInv, OneRunPerMessage
  <2>5. ActiveRunIsHeld'
    BY <2>1 DEF ActiveRunIsHeld, ActiveRuns, Blocking
  <2> QED BY <2>2, <2>3, <2>4, <2>5 DEF ChatInv
<1>3. CASE ActiveRuns # {} /\ chatRuns' = SetLast("recovery_required") /\ faulted' = TRUE
  <2>1. chatRuns # <<>> /\ Last.status # "ended" /\ "recovery_required" \in RunStatus
    <3>1. PICK i \in ActiveRuns : TRUE
      BY <1>3
    <3>2. i \in 1..Len(chatRuns) /\ i = Len(chatRuns) /\ chatRuns[i].status # "ended"
      BY <3>1 DEF ChatInv, ActiveRunIsHeld, ActiveRuns, Blocking
    <3> QED BY <3>2 DEF Last, RunStatus, Blocking
  <2>2. /\ RunsAreAsked' /\ chatRuns' \in Seq(RunType)
        /\ \A i, j \in 1..Len(chatRuns') : chatRuns'[i].msg = chatRuns'[j].msg => i = j
        /\ \A i \in ActiveRuns' : i = Len(chatRuns')
    BY <1>0, <1>3, <2>1, RunsAfterSetLast
  <2>3. ChatTypeOK' /\ TurnHolds' /\ DownIsEmpty'
    BY <1>0, <1>1, <1>3, <2>2 DEF ChatInv, ChatTypeOK, TurnHolds, DownIsEmpty, RunType
  <2>4. ASSUME NEW m \in Messages, "reply" \in answers'[m]
        PROVE  \E i \in 1..Len(chatRuns') : chatRuns'[i].msg = m /\ chatRuns'[i].status = "ended"
    BY <1>0, <1>3, <2>1, <2>4, StatusStep DEF Last
  <2>5. OneRunPerMessage' /\ ActiveRunIsHeld'
    BY <1>3, <2>2, <2>4 DEF OneRunPerMessage, ActiveRunIsHeld
  <2> QED BY <2>2, <2>3, <2>5 DEF ChatInv
<1> QED BY <1>2, <1>3 DEF StartDaemon

\* Every step.
LEMMA ChatInvStep == ASSUME ChatInv, [ChatNext]_chatVars PROVE ChatInv'
<1>1. CASE \E m \in Messages : HandleMessage(m)
  BY <1>1, HandleMessageStep
<1>2. CASE TurnStep
  BY <1>2, PrepareRunStep, RefuseTurnStep, BuildContextStep, LoopReturnsStep, FinalizeTurnStep,
     FailTurnStep DEF TurnStep
<1>3. CASE StopChannels \/ StopEngine \/ CrashDaemon
  BY <1>3, StopStep
<1>4. CASE StartDaemon
  BY <1>4, StartDaemonStep
<1>5. CASE UNCHANGED chatVars
  BY <1>5 DEF chatVars, engineVars, ChatInv, ChatTypeOK, TurnHolds, RunsAreAsked, DownIsEmpty,
     OneRunPerMessage, ActiveRunIsHeld, ActiveRuns, Current, Last
<1> QED BY <1>1, <1>2, <1>3, <1>4, <1>5 DEF ChatNext

\* The parts together are an invariant.
LEMMA ChatInvariant == ChatSpec => []ChatInv
BY ChatInvInit, ChatInvStep, PTL DEF ChatSpec

-----------------------------------------------------------------------------
\* Every variable has a value of its kind.
THEOREM ChatIsTyped == ChatSpec => []ChatTypeOK
<1>1. ChatInv => ChatTypeOK
  BY DEF ChatInv
<1> QED BY <1>1, ChatInvariant, PTL

\* A message is worked on at most once, whatever is resent, forgotten, crashed
\* and restarted, and a reply is sent only for a run that has ended.
THEOREM MessagesRunOnce == ChatSpec => []OneRunPerMessage
<1>1. ChatInv => OneRunPerMessage
  BY DEF ChatInv
<1> QED BY <1>1, ChatInvariant, PTL

\* No active run is forgotten: it belongs to the turn in progress, or the
\* engine failed, or the daemon is down and will recover it.
THEOREM NoForgottenRun == ChatSpec => []ActiveRunIsHeld
<1>1. ChatInv => ActiveRunIsHeld
  BY DEF ChatInv
<1> QED BY <1>1, ChatInvariant, PTL

-----------------------------------------------------------------------------
(* The daemon: one part moves, the others rest where they started.         *)

\* Each part starts where its own specification starts.
LEMMA PartsStart == DaemonInit => MemInit /\ PrepInit /\ ChatInit /\ ModeInit
BY DEF DaemonInit

\* Each step of the daemon is, for each part, a step of its own or none.
LEMMA PartsStep ==
    [DaemonNext]_daemonVars =>
      [MemNext]_memVars /\ [PrepNext]_prepVars /\ [ChatNext]_chatVars /\ [ModeNext]_modeVars
BY DEF DaemonNext, daemonVars

\* The daemon runs its parts: what a part promises by itself (no second run
\* for a message, no overlooked job, no second summary, no stale validation)
\* it promises inside the daemon.
THEOREM DaemonRunsItsParts == DaemonSpec => MemSpec /\ PrepSpec /\ ChatSpec /\ ModeSpec
BY PartsStart, PartsStep, PTL DEF DaemonSpec, MemSpec, PrepSpec, ChatSpec, ModeSpec

\* Every variable of every part has a value of its kind.
THEOREM DaemonIsTyped == DaemonSpec => []DaemonTypeOK
<1>1. MemTypeOK /\ PrepTypeOK /\ ChatTypeOK /\ ModeTypeOK => DaemonTypeOK
  BY DEF DaemonTypeOK
<1> QED
  BY <1>1, DaemonRunsItsParts, MemoryIsTyped, PreparationIsTyped, ChatIsTyped, ModesAreTyped, PTL

\* What the parts promise of every state, the daemon promises: one card for an
\* address, no overlooked job and no stale snapshot; a preparation with its job
\* and one summary at a time; one run for a message and no forgotten run; no
\* unproven completion, one binding, bounded maintenance.
THEOREM DaemonIsSafe ==
  DaemonSpec => /\ []OneCardPerSlot /\ []NoJobIsOverlooked /\ []SnapshotFollowsJobs
                /\ []PreparingHasItsJob /\ []OneSummaryAtATime
                /\ []OneRunPerMessage /\ []ActiveRunIsHeld
                /\ []CompletedIsProven /\ []BindingIsTriedOnce /\ []MaintenanceIsBounded
BY DaemonRunsItsParts, OneValuePerSlot, JobsAreSeen, SnapshotFollows, WaitsHaveJobs, OneSummary,
   MessagesRunOnce, NoForgottenRun, CompletedRunsAreProven, OneBinding, BoundedMaintenance, PTL

\* What the parts promise of every step, the daemon promises: a protected
\* fact is only corrected or forgotten, a source is summarized once, a focus keeps what it
\* covers, and a detour returns to the mode it left.
THEOREM DaemonStepsAreSafe ==
  DaemonSpec => /\ ProtectedFactsStay /\ SourceIsTriedOnce
                /\ FocusKeepsItsCoverage /\ DetoursReturn
BY DaemonRunsItsParts, ProtectedFactsAreKept, SourcesAreTriedOnce, CoverageIsKept, DetoursComeBack, PTL
=============================================================================
