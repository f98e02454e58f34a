--------------------------- MODULE PersonalMemory ---------------------------
(***************************************************************************)
(* The personal memory of the daemon (src/ayati-main/src/memory/personal): *)
(* the store of memory cards, the resolver that applies a proposal to it,  *)
(* the background worker that turns checkpoints into proposals, and the    *)
(* snapshot of the cards that the agent is shown.                          *)
(*                                                                         *)
(* The worker shares the store with the memory tools of the running agent. *)
(* Between two awaits JavaScript runs alone, so an action below is what    *)
(* the worker or a tool does from one await to the next; a crash can fall  *)
(* between any two actions.  One user owns all the cards.                  *)
(***************************************************************************)
EXTENDS Integers, FiniteSets

CONSTANTS
  Jobs,           \* consolidation jobs, numbered in the order of created_at
  CardIds,        \* a bound on the cards ever created
  Addresses,      \* section/kind/slot triples
  SectionOf,      \* the section of an address
  MultiValued,    \* addresses whose slot holds several values (friends, ...)
  CoreSlots,      \* CORE_IDENTITY_SLOTS
  Values,         \* classes of equal content
  Proposals,      \* what the model may propose and the user may ask to remember
  SectionLimit,   \* maxLiveCards of each section
  MaxAttempts,    \* attempts of a job: 3 in the code
  MaxTime,        \* bounds the clock
  MaxStarts,      \* bounds the starts of the daemon
  MaxChanges      \* bounds the proposals and forgets applied

Sections == <<"facts", "timed", "evolving">>
CardStates == {"candidate", "active", "superseded", "archived", "expired", "rejected"}
LiveStates == {"candidate", "active"}
Sources == {"manual", "explicit", "weak"}
NoAddress == "none"

ASSUME MemIdsAreNumbers == Jobs \subseteq Nat /\ CardIds \subseteq Nat
ASSUME MemAttempts == MaxAttempts \in Nat \ {0}
ASSUME MemAddressesHaveSections ==
  /\ SectionOf \in [Addresses -> {Sections[i] : i \in 1..3}]
  /\ NoAddress \notin Addresses
ASSUME MemProposalsAreTyped ==
  Proposals \subseteq [addr : Addresses, value : Values, conf : 1..99,
                       source : Sources, expires : Nat]

VARIABLES
  jobs,       \* memory_consolidation_jobs: status and attempts
  cards,      \* memory_cards; a card that was never created has state "none"
  aliases,    \* memory_aliases: the address another one stands for
  stored,     \* memory_snapshot: ids of the cards in the stored snapshot
  cache,      \* PersonalMemorySnapshotCache.snapshots
  worker,     \* processingPromise: where processJobs is
  mode,       \* "up", "stopping" (shuttingDown), "down"
  clock,      \* days
  fresh,      \* history: jobs enqueued since the daemon started
  touched,    \* history: a tool changed a card since the last projection
  starts, changes

memStore == <<jobs, cards, aliases, stored>>
memVars == <<jobs, cards, aliases, stored, cache, worker, mode, clock, fresh,
             touched, starts, changes>>

NoCard == [addr |-> NoAddress, value |-> "none", conf |-> 0, source |-> "none",
           expires |-> 0, state |-> "none"]
Idle == [at |-> "idle", job |-> 0, section |-> 0, content |-> {}]

-----------------------------------------------------------------------------
(* Readings of the store.                                                  *)

Live(cs, c) == cs[c].state \in LiveStates
InSection(cs, c, s) == cs[c].state # "none" /\ SectionOf[cs[c].addr] = s
LiveAt(cs, a) == {c \in CardIds : Live(cs, c) /\ cs[c].addr = a}
LiveInSection(cs, s) == {c \in CardIds : Live(cs, c) /\ InSection(cs, c, s)}

\* The first row of ORDER BY confidence DESC.
Strongest(cs, S) == CHOOSE c \in S : \A d \in S : cs[d].conf <= cs[c].conf

\* sameMemory: one day for a timed memory, equal content for the others.
SameMemory(card, p) ==
  IF SectionOf[p.addr] = "timed"
  THEN card.addr = p.addr /\ card.expires = p.expires
  ELSE SectionOf[card.addr] = SectionOf[p.addr] /\ card.value = p.value

StrongCorrection(p) == p.source \in {"manual", "explicit"} /\ p.conf >= 80

\* isProtectedFact
Protected(card) ==
  \/ card.source = "manual" /\ card.conf >= 80
  \/ card.state = "active" /\ card.conf >= 80 /\ card.addr \in CoreSlots

InitialState(p) ==
  LET least == CASE SectionOf[p.addr] = "facts"    -> 80
                 [] SectionOf[p.addr] = "timed"    -> 75
                 [] SectionOf[p.addr] = "evolving" -> 72
  IN  IF p.conf >= least THEN "active" ELSE "candidate"

-----------------------------------------------------------------------------
(* Statements of the store, as functions from cards to cards.              *)

SetState(cs, S, st) ==
  [c \in CardIds |-> IF c \in S THEN [cs[c] EXCEPT !.state = st] ELSE cs[c]]

ExpireTimed(cs, t) ==
  SetState(cs, {c \in LiveInSection(cs, "timed") : cs[c].expires <= t}, "expired")

MinOf(a, b) == IF a <= b THEN a ELSE b
MaxOf(a, b) == IF a >= b THEN a ELSE b

ConfirmMemory(cs, c) ==
  LET conf == MinOf(99, cs[c].conf + 4)
  IN  [cs EXCEPT ![c].conf = conf,
                 ![c].state = IF conf >= 80 THEN "active" ELSE @]

RecordContradiction(cs, c) ==
  LET conf == MaxOf(5, cs[c].conf - 20)
  IN  [cs EXCEPT ![c].conf = conf,
                 ![c].state = IF conf < 25 /\ @ = "candidate" THEN "rejected" ELSE @]

MarkSuperseded(cs, c) == SetState(cs, {c}, "superseded")

FreeCards(cs) == {c \in CardIds : cs[c].state = "none"}
NextCard(cs) == CHOOSE c \in FreeCards(cs) : \A d \in FreeCards(cs) : c <= d

CreateCard(cs, p, a) ==
  [cs EXCEPT ![NextCard(cs)] =
     [addr |-> a, value |-> p.value, conf |-> p.conf, source |-> p.source,
      expires |-> p.expires, state |-> InitialState(p)]]

\* A mutant: protected facts can be given up.
MutantRemovable(cs, s) == LiveInSection(cs, s)

\* findWeakestRemovable*: the scores are not modelled, so any card that a
\* section may give up can be the weakest one.
Removable(cs, s) ==
  {c \in LiveInSection(cs, s) : s = "facts" => ~Protected(cs[c])}

\* The snapshot: active cards that are trusted enough.  The score of a card
\* falls under its threshold with the first contradiction.
Projection(cs) == {c \in CardIds : cs[c].state = "active" /\ cs[c].conf >= 66}

-----------------------------------------------------------------------------
(* MemoryResolver.applyProposal: the outcomes of one proposal.             *)

Unchanged(cs, as) == {[cards |-> cs, aliases |-> as]}

\* A mutant: the card that is corrected stays live.
MutantCorrectCard(cs, as, p, old) ==
  IF StrongCorrection(p)
  THEN [cards |-> CreateCard(cs, p, cs[old].addr), aliases |-> as]
  ELSE [cards |-> RecordContradiction(cs, old), aliases |-> as]

CorrectCard(cs, as, p, old) ==
  IF StrongCorrection(p)
  THEN [cards |-> CreateCard(MarkSuperseded(cs, old), p, cs[old].addr), aliases |-> as]
  ELSE [cards |-> RecordContradiction(cs, old), aliases |-> as]

AliasedCards(cs, as, p) ==
  {c \in CardIds : /\ Live(cs, c)
                   /\ cs[c].addr = as[p.addr]
                   /\ ~SameMemory(cs[c], p)}

SimilarCards(cs, p) == {c \in CardIds : Live(cs, c) /\ SameMemory(cs[c], p)}

LearnAlias(cs, as, p, c) ==
  IF cs[c].addr = p.addr THEN as ELSE [as EXCEPT ![p.addr] = cs[c].addr]

\* ensureCapacity, then the new card.  A full section admits a proposal that
\* outscores its weakest removable card, which it archives.
Admit(cs, as, p) ==
  LET s == SectionOf[p.addr]
      full == Cardinality(LiveInSection(cs, s)) >= SectionLimit[s]
  IN  IF ~full
      THEN {[cards |-> CreateCard(cs, p, p.addr), aliases |-> as]}
      ELSE Unchanged(cs, as) \cup
           {[cards |-> CreateCard(SetState(cs, {w}, "archived"), p, p.addr),
             aliases |-> as] : w \in Removable(cs, s)}

Stale(p) == SectionOf[p.addr] = "timed" /\ p.expires <= clock

ApplyProposal(cs0, as, p) ==
  LET cs      == IF SectionOf[p.addr] = "timed" THEN ExpireTimed(cs0, clock) ELSE cs0
      exact   == LiveAt(cs, p.addr)
      same    == {c \in exact : SameMemory(cs[c], p)}
      aliased == AliasedCards(cs, as, p)
      similar == SimilarCards(cs, p)
      single  == p.addr \notin MultiValued
  IN  IF Stale(p) THEN Unchanged(cs0, as)
      ELSE IF same # {}
           THEN {[cards |-> ConfirmMemory(cs, Strongest(cs, same)), aliases |-> as]}
      ELSE IF exact # {} /\ single
           THEN {CorrectCard(cs, as, p, Strongest(cs, exact))}
      ELSE IF aliased # {} /\ single
           THEN {CorrectCard(cs, as, p, Strongest(cs, aliased))}
      ELSE IF similar # {}
           THEN LET c == Strongest(cs, similar)
                IN  {[cards |-> ConfirmMemory(cs, c), aliases |-> LearnAlias(cs, as, p, c)]}
      ELSE Admit(cs, as, p)

\* One transaction of the resolver.  CardIds bounds the cards.
Resolve(p) ==
  /\ FreeCards(cards) # {}
  /\ \E out \in ApplyProposal(cards, aliases, p) :
       /\ cards' = out.cards
       /\ aliases' = out.aliases

-----------------------------------------------------------------------------
(* The queue of jobs.                                                      *)

Pending == {j \in Jobs : jobs[j].status = "pending"}
OldestPending == CHOOSE j \in Pending : \A i \in Pending : j <= i

\* scheduleProcessing: one worker, none after shutdown was asked for.
Scheduled(w) == IF w.at = "idle" /\ mode = "up" THEN [Idle EXCEPT !.at = "claim"] ELSE w

\* enqueueCheckpoint of the next checkpoint.  The closed store throws.
EnqueueCheckpoint(j) ==
  /\ mode # "down"
  /\ jobs[j].status = "none"
  /\ \A i \in Jobs : i < j => jobs[i].status # "none"
  /\ jobs' = [jobs EXCEPT ![j] = [status |-> "pending", attempts |-> 0]]
  /\ worker' = Scheduled(worker)
  /\ fresh' = fresh \cup {j}
  /\ UNCHANGED <<cards, aliases, stored, cache, mode, clock, touched, starts, changes>>

-----------------------------------------------------------------------------
(* processJobs and processJob.                                             *)

\* claimNextJob
ClaimJob ==
  /\ worker.at = "claim" /\ Pending # {}
  /\ jobs' = [jobs EXCEPT ![OldestPending] =
                [status |-> "running", attempts |-> @.attempts + 1]]
  /\ worker' = [Idle EXCEPT !.at = "section", !.job = OldestPending, !.section = 1]
  /\ UNCHANGED <<cards, aliases, stored, cache, mode, clock, fresh, touched, starts, changes>>

\* processJobs returns: processingPromise is set until finally has run.
NoMoreJobs ==
  /\ worker.at = "claim" /\ Pending = {}
  /\ worker' = [worker EXCEPT !.at = "ending"]
  /\ UNCHANGED <<memStore, cache, mode, clock, fresh, touched, starts, changes>>

\* A mutant: nothing looks for jobs that came in meanwhile.
MutantWorkerEnds ==
  /\ worker.at = "ending"
  /\ worker' = Idle
  /\ UNCHANGED <<memStore, cache, mode, clock, fresh, touched, starts, changes>>

\* The finally of scheduleProcessing.
WorkerEnds ==
  /\ worker.at = "ending"
  /\ worker' = IF Pending # {} THEN Scheduled(Idle) ELSE Idle
  /\ UNCHANGED <<memStore, cache, mode, clock, fresh, touched, starts, changes>>

NextSection(w) ==
  IF w.section < 3 THEN [w EXCEPT !.section = @ + 1] ELSE [w EXCEPT !.at = "prune"]

\* The model answered for a section: its proposals go through the resolver.
ResolveSection ==
  /\ worker.at = "section"
  /\ \/ UNCHANGED <<cards, aliases, changes>>
     \/ \E p \in Proposals :
          /\ SectionOf[p.addr] = Sections[worker.section]
          /\ changes < MaxChanges
          /\ Resolve(p)
          /\ changes' = changes + 1
  /\ worker' = NextSection(worker)
  /\ UNCHANGED <<jobs, stored, cache, mode, clock, fresh, touched, starts>>

\* A mutant: the snapshot is projected before the cards are pruned.
MutantPruneAndProject ==
  /\ worker.at = "prune"
  /\ \E decayed \in SUBSET LiveInSection(cards, "evolving") :
       cards' = SetState(ExpireTimed(cards, clock), decayed, "archived")
  /\ stored' = Projection(cards)
  /\ worker' = [worker EXCEPT !.at = "publish", !.content = Projection(cards)]
  /\ touched' = FALSE
  /\ UNCHANGED <<jobs, aliases, cache, mode, clock, fresh, starts, changes>>

\* archiveExpiredAndPrune, then ProfileProjector.regenerate up to the stored
\* snapshot: no await between them.  Which evolving cards have decayed is a
\* matter of scores.
PruneAndProject ==
  /\ worker.at = "prune"
  /\ \E decayed \in SUBSET LiveInSection(cards, "evolving") :
       cards' = SetState(ExpireTimed(cards, clock), decayed, "archived")
  /\ stored' = Projection(cards')
  /\ worker' = [worker EXCEPT !.at = "publish", !.content = Projection(cards')]
  /\ touched' = FALSE
  /\ UNCHANGED <<jobs, aliases, cache, mode, clock, fresh, starts, changes>>

\* onSnapshotRegenerated and markJobDone
PublishSnapshot ==
  /\ worker.at = "publish"
  /\ cache' = worker.content
  /\ jobs' = [jobs EXCEPT ![worker.job].status = "done"]
  /\ worker' = [Idle EXCEPT !.at = "claim"]
  /\ UNCHANGED <<cards, aliases, stored, mode, clock, fresh, touched, starts, changes>>

\* A mutant: one attempt too many.
MutantJobFails ==
  /\ worker.at \in {"section", "prune", "publish"}
  /\ jobs' = [jobs EXCEPT ![worker.job].status = IF jobs[worker.job].attempts > MaxAttempts
                                                  THEN "failed" ELSE "pending"]
  /\ worker' \in {[Idle EXCEPT !.at = a] : a \in {"claim", "ending"}}
  /\ UNCHANGED <<cards, aliases, stored, cache, mode, clock, fresh, touched, starts, changes>>

\* A call of the model, a statement or the audit file failed: markJobFailed.
\* When the audit of the failure fails too the worker itself ends.
JobFails ==
  /\ worker.at \in {"section", "prune", "publish"}
  /\ jobs' = [jobs EXCEPT ![worker.job].status = IF jobs[worker.job].attempts >= MaxAttempts
                                                  THEN "failed" ELSE "pending"]
  /\ worker' \in {[Idle EXCEPT !.at = a] : a \in {"claim", "ending"}}
  /\ UNCHANGED <<cards, aliases, stored, cache, mode, clock, fresh, touched, starts, changes>>

-----------------------------------------------------------------------------
(* The memory tools of a run, between any two steps of the worker.  Neither *)
(* regenerates the snapshot.                                               *)

\* memory_remember
Remember(p) ==
  /\ mode # "down" /\ changes < MaxChanges
  /\ p.source = "manual"
  /\ Resolve(p)
  /\ changes' = changes + 1
  /\ touched' = TRUE
  /\ UNCHANGED <<jobs, stored, cache, worker, mode, clock, fresh, starts>>

\* memory_forget, by id (whatever the card's state) or by slot
Forget(S) ==
  /\ mode # "down" /\ changes < MaxChanges
  /\ \/ \E c \in CardIds : cards[c].state # "none" /\ S = {c}
     \/ \E a \in Addresses : S = LiveAt(cards, a) /\ S # {}
  /\ cards' = SetState(cards, S, "archived")
  /\ changes' = changes + 1
  /\ touched' = TRUE
  /\ UNCHANGED <<jobs, aliases, stored, cache, worker, mode, clock, fresh, starts>>

-----------------------------------------------------------------------------
(* The daemon.                                                             *)

\* createMemoryRuntime: opens the store and refreshes the cache, schedules
\* nothing.
StartMemory ==
  /\ mode = "down" /\ starts < MaxStarts
  /\ mode' = "up" /\ starts' = starts + 1
  /\ cards' = ExpireTimed(cards, clock)
  /\ stored' = Projection(cards')
  /\ cache' = stored'
  /\ worker' = Idle
  /\ fresh' = {} /\ touched' = FALSE
  /\ UNCHANGED <<jobs, aliases, clock, changes>>

\* stop: shuttingDown is set ...
StopMemory ==
  /\ mode = "up"
  /\ mode' = "stopping"
  /\ UNCHANGED <<memStore, cache, worker, clock, fresh, touched, starts, changes>>

\* ... and the store is closed when processingPromise has settled.
CloseStore ==
  /\ mode = "stopping" /\ worker.at = "idle"
  /\ mode' = "down"
  /\ UNCHANGED <<memStore, cache, worker, clock, fresh, touched, starts, changes>>

CrashMemory ==
  /\ mode # "down"
  /\ mode' = "down"
  /\ worker' = Idle
  /\ cache' = {}
  /\ UNCHANGED <<memStore, clock, fresh, touched, starts, changes>>

Tick ==
  /\ clock < MaxTime
  /\ clock' = clock + 1
  /\ UNCHANGED <<memStore, cache, worker, mode, fresh, touched, starts, changes>>

MemInit ==
  /\ jobs = [j \in Jobs |-> [status |-> "none", attempts |-> 0]]
  /\ cards = [c \in CardIds |-> NoCard]
  /\ aliases = [a \in Addresses |-> NoAddress]
  /\ stored = {} /\ cache = {}
  /\ worker = Idle
  /\ mode = "up" /\ clock = 0
  /\ fresh = {} /\ touched = FALSE
  /\ starts = 1 /\ changes = 0

WorkerStep ==
  ClaimJob \/ NoMoreJobs \/ WorkerEnds \/ ResolveSection \/ PruneAndProject
  \/ PublishSnapshot \/ JobFails

MemNext ==
  \/ \E j \in Jobs : EnqueueCheckpoint(j)
  \/ WorkerStep
  \/ \E p \in Proposals : Remember(p)
  \/ \E S \in SUBSET CardIds : Forget(S)
  \/ StartMemory \/ StopMemory \/ CloseStore \/ CrashMemory \/ Tick

MemSpec == MemInit /\ [][MemNext]_memVars

-----------------------------------------------------------------------------
(* Properties.                                                             *)

\* Every variable has a value of its kind.
MemTypeOK ==
  /\ jobs \in [Jobs -> [status : {"none", "pending", "running", "done", "failed"},
                        attempts : 0..MaxAttempts]]
  /\ cards \in [CardIds ->
       [addr : Addresses \cup {NoAddress}, value : Values \cup {"none"}, conf : 0..99,
        source : Sources \cup {"none"}, expires : Nat, state : CardStates \cup {"none"}]]
  /\ \A c \in CardIds : cards[c].state # "none" => cards[c].addr \in Addresses
  /\ aliases \in [Addresses -> Addresses \cup {NoAddress}]
  /\ stored \subseteq CardIds /\ cache \subseteq CardIds
  /\ worker \in [at : {"idle", "claim", "section", "prune", "publish", "ending"},
                 job : Jobs \cup {0}, section : 0..3, content : SUBSET CardIds]
  /\ mode \in {"up", "stopping", "down"}
  /\ clock \in Nat /\ starts \in Nat /\ changes \in Nat
  /\ fresh \subseteq Jobs /\ touched \in BOOLEAN

\* A slot that holds one value has at most one live card, whatever mixture of
\* corrections, contradictions, aliases, retried jobs and tools led there:
\* otherwise the agent would be shown two names for one user.
OneCardPerSlot ==
  \A c, d \in CardIds :
    /\ Live(cards, c) /\ Live(cards, d)
    /\ cards[c].addr = cards[d].addr
    /\ cards[c].addr \notin MultiValued
    => c = d

\* A fact that isProtectedFact protects (a confident one that the user asked to
\* remember, or an active, confident part of their identity) is never given up
\* to make room, neither by a job nor by memory_remember, nor is it pruned: it
\* goes when memory_forget archives it, or when a strong correction puts a new
\* card in its slot.  A contradiction may cost a fact its protection first.
ProtectedFactsStay ==
  [][(\E S \in SUBSET CardIds : Forget(S))
     \/ \A c \in CardIds :
          /\ Live(cards, c) /\ SectionOf[cards[c].addr] = "facts" /\ Protected(cards[c])
          /\ ~Live(cards', c)
          => /\ cards'[c].state = "superseded"
             /\ \E d \in CardIds : cards[d].state = "none" /\ Live(cards', d)
                                   /\ cards'[d].addr = cards[c].addr]_memVars

\* A job that was enqueued since the daemon started never waits with no
\* worker to claim it: not even when it was enqueued after the worker found
\* the queue empty and before its finally had run, or when the worker died.
NoJobIsOverlooked ==
  mode = "up" /\ (\E j \in fresh : jobs[j].status = "pending") => worker.at # "idle"

\* When the worker rests and every job of this start is done, the snapshot in
\* the cache is the projection of the cards: retries, late corrections and
\* expiries included, as long as no tool has changed a card since.
SnapshotFollowsJobs ==
  /\ mode = "up" /\ worker.at = "idle" /\ ~touched
  /\ \A j \in fresh : jobs[j].status = "done"
  => cache = Projection(cards) /\ stored = cache

\* Accepted memory cards regenerate the snapshot that is served as current:
\* when the worker rests after its last job, the cache holds the cards.
SnapshotIsCurrent ==
  /\ mode = "up" /\ worker.at = "idle"
  /\ \A j \in fresh : jobs[j].status = "done"
  => cache = Projection(cards)
=============================================================================
