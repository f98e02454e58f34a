----------------------------- MODULE ChatTurns -----------------------------
(***************************************************************************)
(* The chat turns of the daemon: messages are accepted once                *)
(* (src/ayati-main/src/ivec/index.ts), wait in the global run queue        *)
(* (agent-run-queue.ts) and are processed one after the other              *)
(* (src/ayati-main/src/app/chat-turn-runtime.ts): a run is prepared in the *)
(* Context Engine under a request id derived from the message, the agent   *)
(* loop works, the run is finalized and the answer is sent.                *)
(*                                                                         *)
(* There is one agent stream, which holds at most one active run.  The     *)
(* engine is seen through its replies here; RunFinalization models it.     *)
(* The live streaming of a reply is left out: nothing emits its events.    *)
(***************************************************************************)
EXTENDS Integers, Sequences, FiniteSets

CONSTANTS
  Messages,      \* message ids
  MaxReceipts,   \* MAX_RECENT_CHAT_RECEIPTS: 2048 in the code
  MaxAccepted,   \* bounds the acceptances
  MaxDaemons     \* bounds the starts of the daemon

ASSUME ChatBounds == MaxReceipts \in Nat \ {0} /\ MaxAccepted \in Nat /\ MaxDaemons \in Nat

VARIABLES
  receipts,     \* recentChatReceipts, oldest first
  backlog,      \* messages in runQueue, the one that is processed first
  turnStep,     \* where processChat is
  chatRuns,     \* runs of the stream, oldest first: message and status
  requests,     \* idempotency_requests of prepare_agent_run
  answers,      \* history: what a message was answered
  faulted,      \* history: the engine failed a turn that had a run
  daemon,       \* "up", "stopping", "down"
  accepted, daemons

engineVars == <<chatRuns, requests>>
chatVars == <<receipts, backlog, turnStep, engineVars, answers, faulted, daemon,
              accepted, daemons>>

Blocking == {"running", "recovery_required"}
ActiveRuns == {i \in 1..Len(chatRuns) : chatRuns[i].status \in Blocking}
Remembered(m) == \E i \in 1..Len(receipts) : receipts[i] = m
Current == Head(backlog)

-----------------------------------------------------------------------------
(* Ingress.                                                                *)

\* rememberChatReceipt: a full map forgets its oldest receipt.
Remember1(m) == Append(IF Len(receipts) >= MaxReceipts THEN Tail(receipts) ELSE receipts, m)

\* handleMessage of a message that has no receipt.  One that has is answered
\* with the old receipt, and nothing else happens.
HandleMessage(m) ==
  /\ daemon = "up" /\ accepted < MaxAccepted
  /\ ~Remembered(m)
  /\ receipts' = Remember1(m)
  /\ backlog' = Append(backlog, m)
  /\ accepted' = accepted + 1
  /\ UNCHANGED <<turnStep, engineVars, answers, faulted, daemon, daemons>>

-----------------------------------------------------------------------------
(* processChat.                                                            *)

TurnUnchanged == UNCHANGED <<receipts, daemon, accepted, daemons>>

\* The turn settles with one answer and the queue moves on.
Settled(answer) ==
  /\ answers' = [answers EXCEPT ![Current] = @ \cup {answer}]
  /\ backlog' = Tail(backlog)
  /\ turnStep' = "idle"

GoesTo(st) == turnStep' = st /\ UNCHANGED <<answers, backlog>>

SetLast(st) == [chatRuns EXCEPT ![Len(chatRuns)].status = st]

\* A mutant: the receipt of an earlier attempt is not looked for.
MutantPrepareRun ==
  /\ turnStep = "idle" /\ backlog # <<>>
  /\ ActiveRuns = {}
  /\ chatRuns' = Append(chatRuns, [msg |-> Current, status |-> "running"])
  /\ requests' = [requests EXCEPT ![Current] = "in_progress"]
  /\ GoesTo("context")
  /\ UNCHANGED faulted /\ TurnUnchanged

\* prepareAgentRun up to its commit: the receipt, the run and the message in
\* one transaction.
PrepareRun ==
  /\ turnStep = "idle" /\ backlog # <<>>
  /\ requests[Current] = "none" /\ ActiveRuns = {}
  /\ chatRuns' = Append(chatRuns, [msg |-> Current, status |-> "running"])
  /\ requests' = [requests EXCEPT ![Current] = "in_progress"]
  /\ GoesTo("context")
  /\ UNCHANGED faulted /\ TurnUnchanged

\* RUN_ALREADY_ACTIVE, IDEMPOTENCY_CONFLICT (the payload holds the time of the
\* attempt, so a second attempt never matches the first), RECOVERY_REQUIRED or
\* any other failure before the commit: nothing is stored.
RefuseTurn ==
  /\ turnStep = "idle" /\ backlog # <<>>
  /\ Settled("error")
  /\ UNCHANGED <<engineVars, faulted>> /\ TurnUnchanged

\* The rest of prepareAgentRun: the context is built and the receipt
\* completed.  When that fails the daemon never learns of the run.
BuildContext ==
  /\ turnStep = "context"
  /\ \/ /\ requests' = [requests EXCEPT ![Current] = "completed"]
        /\ GoesTo("loop")
        /\ UNCHANGED faulted
     \/ /\ requests' = [requests EXCEPT ![Current] = "recovery_required"]
        /\ faulted' = TRUE
        /\ Settled("error")
  /\ UNCHANGED chatRuns /\ TurnUnchanged

\* agentLoop returns its result or throws.
LoopReturns ==
  /\ turnStep = "loop"
  /\ \E st \in {"finalize", "failing"} : GoesTo(st)
  /\ UNCHANGED <<engineVars, faulted>> /\ TurnUnchanged

\* finalizeChatContextRun, then dispatchAgentResponse.  A failure here is not
\* retried (finalizationAttempted).
FinalizeTurn ==
  /\ turnStep = "finalize"
  /\ \/ chatRuns' = SetLast("ended") /\ Settled("reply") /\ UNCHANGED faulted
     \/ \E st \in Blocking : chatRuns' = SetLast(st) /\ Settled("error") /\ faulted' = TRUE
  /\ UNCHANGED requests /\ TurnUnchanged

\* A mutant: the run of a failed turn is not finalized.
MutantFailTurn ==
  /\ turnStep = "failing"
  /\ Settled("error")
  /\ UNCHANGED <<engineVars, faulted>> /\ TurnUnchanged

\* completeFailedChatContextRun: its own failure is only logged.
FailTurn ==
  /\ turnStep = "failing"
  /\ Settled("error")
  /\ \/ chatRuns' = SetLast("ended") /\ UNCHANGED faulted
     \/ \E st \in Blocking : chatRuns' = SetLast(st) /\ faulted' = TRUE
  /\ UNCHANGED requests /\ TurnUnchanged

-----------------------------------------------------------------------------
(* The daemon.                                                             *)

\* shutdown stops the channels first ...
StopChannels ==
  /\ daemon = "up" /\ daemon' = "stopping"
  /\ UNCHANGED <<receipts, backlog, turnStep, engineVars, answers, faulted, accepted, daemons>>

\* ... then drains the queue, and stops the engine host at last.
StopEngine ==
  /\ daemon = "stopping" /\ backlog = <<>>
  /\ daemon' = "down"
  /\ receipts' = <<>>
  /\ UNCHANGED <<backlog, turnStep, engineVars, answers, faulted, accepted, daemons>>

\* The process dies: the queue and the receipts are gone.
CrashDaemon ==
  /\ daemon # "down" /\ daemon' = "down"
  /\ receipts' = <<>> /\ backlog' = <<>> /\ turnStep' = "idle"
  /\ UNCHANGED <<engineVars, answers, faulted, accepted, daemons>>

\* Startup recovery precedes every operation of the engine: the run that was
\* left open is finished (as interrupted, or by its journal) or stays blocked.
StartDaemon ==
  /\ daemon = "down" /\ daemons < MaxDaemons
  /\ daemon' = "up" /\ daemons' = daemons + 1
  /\ \/ /\ chatRuns' = [i \in 1..Len(chatRuns) |-> [chatRuns[i] EXCEPT !.status = "ended"]]
        /\ faulted' = FALSE
     \/ /\ ActiveRuns # {}
        /\ chatRuns' = SetLast("recovery_required")
        /\ faulted' = TRUE
  /\ UNCHANGED <<receipts, backlog, turnStep, requests, answers, accepted>>

ChatInit ==
  /\ receipts = <<>> /\ backlog = <<>> /\ turnStep = "idle"
  /\ chatRuns = <<>> /\ requests = [m \in Messages |-> "none"]
  /\ answers = [m \in Messages |-> {}]
  /\ faulted = FALSE
  /\ daemon = "up" /\ accepted = 0 /\ daemons = 1

TurnStep ==
  PrepareRun \/ RefuseTurn \/ BuildContext \/ LoopReturns \/ FinalizeTurn \/ FailTurn

ChatNext ==
  \/ \E m \in Messages : HandleMessage(m)
  \/ TurnStep
  \/ StopChannels \/ StopEngine \/ CrashDaemon \/ StartDaemon

ChatSpec == ChatInit /\ [][ChatNext]_chatVars

-----------------------------------------------------------------------------
(* Properties.                                                             *)

RunStatus == Blocking \cup {"ended"}

\* Every variable has a value of its kind.
ChatTypeOK ==
  /\ receipts \in Seq(Messages) /\ backlog \in Seq(Messages)
  /\ turnStep \in {"idle", "context", "loop", "finalize", "failing"}
  /\ chatRuns \in Seq([msg : Messages, status : RunStatus])
  /\ requests \in [Messages -> {"none", "in_progress", "completed", "recovery_required"}]
  /\ answers \in [Messages -> SUBSET {"reply", "error"}]
  /\ faulted \in BOOLEAN
  /\ daemon \in {"up", "stopping", "down"}
  /\ accepted \in Nat /\ daemons \in Nat

\* A message is worked on at most once: not again after its receipt was
\* forgotten, after its turn failed half-way, or after a crash and a resend.
\* A reply is sent only when that run has ended.
OneRunPerMessage ==
  /\ \A i, j \in 1..Len(chatRuns) : chatRuns[i].msg = chatRuns[j].msg => i = j
  /\ \A m \in Messages :
       "reply" \in answers[m] =>
         \E i \in 1..Len(chatRuns) : chatRuns[i].msg = m /\ chatRuns[i].status = "ended"

\* An active run is the newest one and somebody's: the turn in progress works
\* on it, or the engine has failed that turn, or the daemon is down.  It never
\* outlives a turn that the engine did not fail, to block the next message.
ActiveRunIsHeld ==
  \A i \in ActiveRuns :
    /\ i = Len(chatRuns)
    /\ \/ turnStep # "idle" /\ backlog # <<>> /\ chatRuns[i].msg = Current
       \/ faulted
       \/ daemon = "down"
=============================================================================
