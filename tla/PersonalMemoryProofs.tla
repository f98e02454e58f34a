------------------------ MODULE PersonalMemoryProofs ------------------------
(***************************************************************************)
(* Proofs about PersonalMemory, for any cards, addresses, proposals, jobs, *)
(* tools, crashes and restarts: a slot that holds one value has one live   *)
(* card, no job of this start waits without a worker, protected facts are  *)
(* kept, and the snapshot follows the jobs.                                *)
(***************************************************************************)
EXTENDS PersonalMemory, TLAPS, WellFoundedInduction

CardSet ==
  [addr : Addresses \cup {NoAddress}, value : Values \cup {"none"}, conf : 0..99,
   source : Sources \cup {"none"}, expires : Nat, state : CardStates \cup {"none"}]

\* Cards of the right kind, and at most one live card in a slot for one value.
CardsTyped(cs) ==
  cs \in [CardIds -> CardSet] /\ \A c \in CardIds : cs[c].state # "none" => cs[c].addr \in Addresses
OnePerSlot(cs) ==
  \A c, d \in CardIds :
    Live(cs, c) /\ Live(cs, d) /\ cs[c].addr = cs[d].addr /\ cs[c].addr \notin MultiValued => c = d
Good(cs) == CardsTyped(cs) /\ OnePerSlot(cs)

-----------------------------------------------------------------------------
(* Choices.                                                                *)

\* What is minimal for the order of the numbers is a least number.
LEMMA LeastOfRelation ==
    ASSUME NEW R, \A k, m \in Nat : <<k, m>> \in R <=> k < m,
           NEW T, T \subseteq Nat, \E m \in T : \A k \in T : <<k, m>> \notin R
    PROVE  \E m \in T : \A k \in T : m <= k
<1>1. PICK m \in T : \A k \in T : <<k, m>> \notin R
  OBVIOUS
<1>2. \A k \in T : ~(k < m)
  BY <1>1
<1>3. \A k \in T : k \in Nat /\ m \in Nat
  OBVIOUS
<1>4. \A k \in T : m <= k
  BY <1>2, <1>3
<1> QED BY <1>4

\* A set of numbers has a least one.
LEMMA Least ==
    ASSUME NEW T, T \subseteq Nat, T # {}
    PROVE  \E m \in T : \A k \in T : m <= k
<1>1. \E m \in T : \A k \in T : <<k, m>> \notin OpToRel(<, Nat)
  BY NatLessThanWellFounded, WFMin, Zenon
<1>2. \A k, m \in Nat : <<k, m>> \in OpToRel(<, Nat) <=> k < m
  BY DEF OpToRel
<1> QED BY <1>1, <1>2, LeastOfRelation, Zenon

\* The strongest card of a set is in the set.
LEMMA StrongestIsThere ==
    ASSUME NEW cs, CardsTyped(cs), NEW S, S \subseteq CardIds, S # {}
    PROVE  Strongest(cs, S) \in S
<1> DEFINE weakness == {99 - cs[c].conf : c \in S}
<1>1. \A c \in S : cs[c].conf \in 0..99
  BY DEF CardsTyped, CardSet
<1>2. weakness \subseteq Nat /\ weakness # {}
  BY <1>1
<1>3. PICK m \in weakness : \A k \in weakness : m <= k
  BY <1>2, Least
<1>4. PICK c \in S : m = 99 - cs[c].conf
  BY <1>3
<1>5. \A d \in S : cs[d].conf <= cs[c].conf
  <2> SUFFICES ASSUME NEW d \in S PROVE cs[d].conf <= cs[c].conf
    OBVIOUS
  <2>1. 99 - cs[c].conf <= 99 - cs[d].conf
    BY <1>3, <1>4
  <2>2. cs[c].conf \in Int /\ cs[d].conf \in Int
    BY <1>1
  <2> QED BY <2>1, <2>2
<1> QED BY <1>5 DEF Strongest

\* A new card takes a free id.
LEMMA NextCardIsFree ==
    ASSUME NEW cs, FreeCards(cs) # {}
    PROVE  NextCard(cs) \in CardIds /\ cs[NextCard(cs)].state = "none"
<1>1. FreeCards(cs) \subseteq Nat
  BY MemIdsAreNumbers DEF FreeCards
<1>2. \E c \in FreeCards(cs) : \A d \in FreeCards(cs) : c <= d
  BY <1>1, Least
<1>3. NextCard(cs) \in FreeCards(cs)
  BY <1>2 DEF NextCard
<1> QED BY <1>3 DEF FreeCards

\* The oldest pending job is pending, and no pending job is older.
LEMMA OldestIsPending ==
    ASSUME Pending # {}
    PROVE  OldestPending \in Pending /\ \A i \in Pending : OldestPending <= i
<1>1. Pending \subseteq Nat
  BY MemIdsAreNumbers DEF Pending
<1>2. \E j \in Pending : \A i \in Pending : j <= i
  BY <1>1, Least
<1> QED BY <1>2 DEF OldestPending

-----------------------------------------------------------------------------
(* Statements of the store.                                                *)

\* Cards that are given up leave their slot, and free no id.
LEMMA MemGivenUp ==
    ASSUME NEW cs, Good(cs), NEW S, \A c \in S \cap CardIds : cs[c].state # "none",
           NEW st \in CardStates \ LiveStates
    PROVE  LET new == SetState(cs, S, st)
           IN  /\ Good(new) /\ FreeCards(new) = FreeCards(cs)
               /\ \A c \in CardIds : /\ new[c].addr = cs[c].addr
                                     /\ Live(new, c) <=> Live(cs, c) /\ c \notin S
<1> DEFINE new == SetState(cs, S, st)
<1>1. \A c \in CardIds : cs[c] \in CardSet
  BY DEF Good, CardsTyped
<1>2. ASSUME NEW r \in CardSet
      PROVE  LET n == [r EXCEPT !.state = st] IN n \in CardSet /\ n.addr = r.addr /\ n.state = st
  BY DEF CardSet
<1> DEFINE given(c) == [cs[c] EXCEPT !.state = st]
<1>3. \A c \in CardIds : given(c) \in CardSet /\ given(c).addr = cs[c].addr /\ given(c).state = st
  BY <1>1, <1>2
<1>4. new = [c \in CardIds |-> IF c \in S THEN given(c) ELSE cs[c]]
  BY DEF SetState
<1> HIDE DEF given, new
<1>5. new \in [CardIds -> CardSet]
  BY <1>1, <1>3, <1>4
<1>6. \A c \in CardIds :
        new[c].addr = cs[c].addr /\ new[c].state = IF c \in S THEN st ELSE cs[c].state
  BY <1>3, <1>4
<1>7. st # "none" /\ st \notin LiveStates
  BY DEF CardStates, LiveStates
<1>8. \A c \in CardIds : Live(new, c) <=> Live(cs, c) /\ c \notin S
  BY <1>6, <1>7 DEF Live
<1>9. CardsTyped(new)
  BY <1>5, <1>6 DEF CardsTyped, Good
<1>10. OnePerSlot(new)
  BY <1>6, <1>8 DEF OnePerSlot, Good
<1>11. FreeCards(new) = FreeCards(cs)
  BY <1>6, <1>7 DEF FreeCards
<1> QED BY <1>6, <1>8, <1>9, <1>10, <1>11 DEF Good, new

Reweigh(cs, c, conf, st) == [cs EXCEPT ![c].conf = conf, ![c].state = st]

\* A card that changes its trust, and is not revived, keeps its slot.
LEMMA Reweighed ==
    ASSUME NEW cs, Good(cs), NEW c \in CardIds, Live(cs, c),
           NEW conf \in 0..99, NEW st \in CardStates
    PROVE  Good(Reweigh(cs, c, conf, st))
<1> DEFINE r == [[cs[c] EXCEPT !.conf = conf] EXCEPT !.state = st]
           new == [cs EXCEPT ![c] = r]
<1>1. cs \in [CardIds -> CardSet] /\ cs[c] \in CardSet /\ cs[c].addr \in Addresses
  BY DEF Good, CardsTyped, Live, LiveStates
<1>2. r \in CardSet /\ r.addr = cs[c].addr
  BY <1>1 DEF CardSet
<1>3. Reweigh(cs, c, conf, st) = new
  BY <1>1 DEF Reweigh
<1> HIDE DEF r
<1>4. new \in [CardIds -> CardSet] /\ \A d \in CardIds : new[d] = IF d = c THEN r ELSE cs[d]
  BY <1>1, <1>2
<1> HIDE DEF new
<1>5. CardsTyped(new)
  BY <1>1, <1>2, <1>4 DEF Good, CardsTyped
<1>6. \A d \in CardIds : new[d].addr = cs[d].addr /\ (Live(new, d) => Live(cs, d))
  BY <1>2, <1>4 DEF Live
<1>7. OnePerSlot(new)
  BY <1>6 DEF Good, OnePerSlot
<1> QED BY <1>3, <1>5, <1>7 DEF Good

\* A new card may join a slot for several values, or an empty one.
LEMMA Created ==
    ASSUME NEW cs, Good(cs), FreeCards(cs) # {}, NEW p \in Proposals, NEW a \in Addresses,
           a \in MultiValued \/ \A c \in CardIds : ~(Live(cs, c) /\ cs[c].addr = a)
    PROVE  Good(CreateCard(cs, p, a))
<1> DEFINE n == NextCard(cs)
           r == [addr |-> a, value |-> p.value, conf |-> p.conf, source |-> p.source,
                 expires |-> p.expires, state |-> InitialState(p)]
           new == [cs EXCEPT ![n] = r]
<1>1. n \in CardIds /\ cs \in [CardIds -> CardSet]
  BY NextCardIsFree DEF Good, CardsTyped
<1>2. p \in [addr : Addresses, value : Values, conf : 1..99, source : Sources, expires : Nat]
  BY MemProposalsAreTyped
<1>3. InitialState(p) \in LiveStates
  BY DEF InitialState, LiveStates
<1>4. r \in CardSet /\ r.addr = a /\ r.state # "none"
  BY <1>2, <1>3 DEF CardSet, CardStates, LiveStates
<1>5. CreateCard(cs, p, a) = new
  BY DEF CreateCard
<1> HIDE DEF r, n
<1>6. new \in [CardIds -> CardSet] /\ \A d \in CardIds : new[d] = IF d = n THEN r ELSE cs[d]
  BY <1>1, <1>4
<1> HIDE DEF new
<1>7. CardsTyped(new)
  BY <1>4, <1>6 DEF Good, CardsTyped
<1>8. \A d \in CardIds : d # n => (Live(new, d) <=> Live(cs, d)) /\ new[d].addr = cs[d].addr
  BY <1>6 DEF Live
<1>9. OnePerSlot(new)
  BY <1>1, <1>4, <1>6, <1>8 DEF Good, OnePerSlot
<1> QED BY <1>5, <1>7, <1>9 DEF Good

\* Confirming a live card.
LEMMA Confirmed ==
    ASSUME NEW cs, Good(cs), NEW c \in CardIds, Live(cs, c)
    PROVE  Good(ConfirmMemory(cs, c))
<1> DEFINE conf == MinOf(99, cs[c].conf + 4)
           st == IF conf >= 80 THEN "active" ELSE cs[c].state
<1>1. cs \in [CardIds -> CardSet] /\ cs[c] \in CardSet
  BY DEF Good, CardsTyped
<1>2. cs[c].conf \in 0..99 /\ cs[c].state \in CardStates
  BY <1>1 DEF CardSet, Live, LiveStates, CardStates
<1>3. conf \in 0..99 /\ st \in CardStates
  BY <1>2 DEF MinOf, CardStates
<1>4. ConfirmMemory(cs, c) = Reweigh(cs, c, conf, st)
  BY <1>1 DEF ConfirmMemory, CardSet, Reweigh
<1> HIDE DEF conf, st
<1> QED BY <1>3, <1>4, Reweighed

\* Recording a contradiction with a live card.
LEMMA Contradicted ==
    ASSUME NEW cs, Good(cs), NEW c \in CardIds, Live(cs, c)
    PROVE  Good(RecordContradiction(cs, c))
<1> DEFINE conf == MaxOf(5, cs[c].conf - 20)
           st == IF conf < 25 /\ cs[c].state = "candidate" THEN "rejected" ELSE cs[c].state
<1>1. cs \in [CardIds -> CardSet] /\ cs[c] \in CardSet
  BY DEF Good, CardsTyped
<1>2. cs[c].conf \in 0..99 /\ cs[c].state \in CardStates
  BY <1>1 DEF CardSet, Live, LiveStates, CardStates
<1>3. conf \in 0..99 /\ st \in CardStates
  BY <1>2 DEF MaxOf, CardStates
<1>4. RecordContradiction(cs, c) = Reweigh(cs, c, conf, st)
  BY <1>1 DEF RecordContradiction, CardSet, Reweigh
<1> HIDE DEF conf, st
<1> QED BY <1>3, <1>4, Reweighed

-----------------------------------------------------------------------------
(* The resolver.                                                           *)

\* A correction replaces the one card of its slot, or only weakens it.
LEMMA Corrected ==
    ASSUME NEW cs, Good(cs), FreeCards(cs) # {}, NEW as, NEW p \in Proposals,
           NEW old \in CardIds, Live(cs, old)
    PROVE  LET out == CorrectCard(cs, as, p, old)
           IN  Good(out.cards) /\ out.aliases = as
<1> DEFINE a == cs[old].addr
           rest == MarkSuperseded(cs, old)
<1>1. a \in Addresses /\ cs[old].state # "none"
  BY DEF Good, CardsTyped, Live, LiveStates
<1>2. "superseded" \in CardStates \ LiveStates
  BY DEF CardStates, LiveStates
<1>3. /\ Good(rest) /\ FreeCards(rest) = FreeCards(cs)
      /\ \A c \in CardIds : /\ rest[c].addr = cs[c].addr
                            /\ Live(rest, c) <=> Live(cs, c) /\ c \notin {old}
  BY <1>1, <1>2, MemGivenUp DEF MarkSuperseded
<1>4. a \in MultiValued \/ \A c \in CardIds : ~(Live(rest, c) /\ rest[c].addr = a)
  BY <1>3 DEF Good, OnePerSlot
<1>5. Good(CreateCard(rest, p, a))
  <2> HIDE DEF rest, a
  <2> QED BY <1>1, <1>3, <1>4, Created
<1>6. Good(RecordContradiction(cs, old))
  BY Contradicted
<1> QED BY <1>5, <1>6 DEF CorrectCard

\* A proposal is admitted to an empty slot, or to one for several values.
LEMMA Admitted ==
    ASSUME NEW cs, Good(cs), FreeCards(cs) # {}, NEW as, NEW p \in Proposals,
           p.addr \in MultiValued \/ LiveAt(cs, p.addr) = {},
           NEW out \in Admit(cs, as, p)
    PROVE  Good(out.cards) /\ out.aliases = as
<1>1. p.addr \in Addresses
  BY MemProposalsAreTyped
<1>2. p.addr \in MultiValued \/ \A c \in CardIds : ~(Live(cs, c) /\ cs[c].addr = p.addr)
  BY DEF LiveAt
<1>3. CASE out = [cards |-> CreateCard(cs, p, p.addr), aliases |-> as]
  BY <1>1, <1>2, <1>3, Created
<1>4. CASE out = [cards |-> cs, aliases |-> as]
  BY <1>4
<1>5. ASSUME NEW w \in Removable(cs, SectionOf[p.addr]),
             out = [cards |-> CreateCard(SetState(cs, {w}, "archived"), p, p.addr),
                    aliases |-> as]
      PROVE  Good(out.cards) /\ out.aliases = as
  <2> DEFINE rest == SetState(cs, {w}, "archived")
  <2>1. w \in CardIds /\ cs[w].state # "none"
    BY <1>5 DEF Removable, LiveInSection, InSection
  <2>2. "archived" \in CardStates \ LiveStates
    BY DEF CardStates, LiveStates
  <2>3. /\ Good(rest) /\ FreeCards(rest) = FreeCards(cs)
        /\ \A c \in CardIds : /\ rest[c].addr = cs[c].addr
                              /\ Live(rest, c) <=> Live(cs, c) /\ c \notin {w}
    BY <2>1, <2>2, MemGivenUp
  <2>4. p.addr \in MultiValued \/ \A c \in CardIds : ~(Live(rest, c) /\ rest[c].addr = p.addr)
    BY <1>2, <2>3
  <2>5. Good(CreateCard(rest, p, p.addr))
    <3> HIDE DEF rest
    <3> QED BY <1>1, <2>3, <2>4, Created
  <2> QED BY <1>5, <2>5
<1> QED BY <1>3, <1>4, <1>5 DEF Admit, Unchanged

AliasesTyped(as) == as \in [Addresses -> Addresses \cup {NoAddress}]

\* What expires, whatever the time, is given up.
LEMMA Expired ==
    ASSUME NEW cs, Good(cs), NEW t
    PROVE  Good(ExpireTimed(cs, t)) /\ FreeCards(ExpireTimed(cs, t)) = FreeCards(cs)
<1> DEFINE S == {c \in LiveInSection(cs, "timed") : cs[c].expires <= t}
<1>1. \A c \in S \cap CardIds : cs[c].state # "none"
  BY DEF LiveInSection, InSection
<1>2. "expired" \in CardStates \ LiveStates
  BY DEF CardStates, LiveStates
<1>3. Good(SetState(cs, S, "expired")) /\ FreeCards(SetState(cs, S, "expired")) = FreeCards(cs)
  <2> HIDE DEF S
  <2> QED BY <1>1, <1>2, MemGivenUp
<1> QED BY <1>3 DEF ExpireTimed

Present(cs, p) == IF SectionOf[p.addr] = "timed" THEN ExpireTimed(cs, clock) ELSE cs

\* What a proposal comes to, once the timed cards that are over are gone: it
\* is refused, confirms a live card, corrects one, or asks to be admitted.
LEMMA Outcomes ==
    ASSUME NEW cs0, Good(cs0), NEW as, NEW p \in Proposals, NEW out \in ApplyProposal(cs0, as, p)
    PROVE  LET cs == Present(cs0, p)
           IN  \/ out = [cards |-> cs0, aliases |-> as]
               \/ \E c \in CardIds : /\ Live(cs, c) /\ out.cards = ConfirmMemory(cs, c)
                                     /\ out.aliases \in {as, LearnAlias(cs, as, p, c)}
               \/ \E c \in CardIds : Live(cs, c) /\ out = CorrectCard(cs, as, p, c)
               \/ /\ p.addr \in MultiValued \/ LiveAt(cs, p.addr) = {}
                  /\ out \in Admit(cs, as, p)
<1> DEFINE cs == Present(cs0, p)
           exact == LiveAt(cs, p.addr)
           same == {c \in exact : SameMemory(cs[c], p)}
           aliased == AliasedCards(cs, as, p)
           similar == SimilarCards(cs, p)
<1>1. CardsTyped(cs)
  BY Expired DEF Good, Present
<1>2. \/ out = [cards |-> cs0, aliases |-> as]
      \/ /\ same # {}
         /\ out = [cards |-> ConfirmMemory(cs, Strongest(cs, same)), aliases |-> as]
      \/ exact # {} /\ out = CorrectCard(cs, as, p, Strongest(cs, exact))
      \/ aliased # {} /\ out = CorrectCard(cs, as, p, Strongest(cs, aliased))
      \/ /\ similar # {}
         /\ out = [cards |-> ConfirmMemory(cs, Strongest(cs, similar)),
                   aliases |-> LearnAlias(cs, as, p, Strongest(cs, similar))]
      \/ (p.addr \in MultiValued \/ exact = {}) /\ out \in Admit(cs, as, p)
  BY DEF ApplyProposal, Unchanged, Present
<1>3. \A S \in {same, exact, aliased, similar} :
        S # {} => Strongest(cs, S) \in CardIds /\ Live(cs, Strongest(cs, S))
  <2>1. \A S \in {same, exact, aliased, similar} : S \subseteq {c \in CardIds : Live(cs, c)}
    BY DEF LiveAt, AliasedCards, SimilarCards
  <2>2. ASSUME NEW S, S \subseteq {c \in CardIds : Live(cs, c)}, S # {}
        PROVE  Strongest(cs, S) \in CardIds /\ Live(cs, Strongest(cs, S))
    <3> HIDE DEF cs
    <3> QED BY <1>1, <2>2, StrongestIsThere
  <2> HIDE DEF cs, exact, same, aliased, similar
  <2> QED BY <2>1, <2>2
<1> HIDE DEF cs, same, aliased, similar
<1>4. CASE same # {} /\ out = [cards |-> ConfirmMemory(cs, Strongest(cs, same)), aliases |-> as]
  BY <1>3, <1>4 DEF cs
<1>5. CASE exact # {} /\ out = CorrectCard(cs, as, p, Strongest(cs, exact))
  BY <1>3, <1>5 DEF cs
<1>6. CASE aliased # {} /\ out = CorrectCard(cs, as, p, Strongest(cs, aliased))
  BY <1>3, <1>6 DEF cs
<1>7. CASE similar # {} /\ out = [cards |-> ConfirmMemory(cs, Strongest(cs, similar)),
                                  aliases |-> LearnAlias(cs, as, p, Strongest(cs, similar))]
  BY <1>3, <1>7 DEF cs
<1> QED BY <1>2, <1>4, <1>5, <1>6, <1>7 DEF cs

\* A proposal keeps the cards of the right kind and one in each slot for one
\* value, whichever way it goes.
LEMMA Applied ==
    ASSUME NEW cs0, Good(cs0), FreeCards(cs0) # {}, NEW as, AliasesTyped(as),
           NEW p \in Proposals, NEW out \in ApplyProposal(cs0, as, p)
    PROVE  Good(out.cards) /\ AliasesTyped(out.aliases)
<1> DEFINE cs == Present(cs0, p)
<1>1. Good(cs) /\ FreeCards(cs) # {}
  BY Expired DEF Present
<1>2. \/ out = [cards |-> cs0, aliases |-> as]
      \/ \E c \in CardIds : /\ Live(cs, c) /\ out.cards = ConfirmMemory(cs, c)
                            /\ out.aliases \in {as, LearnAlias(cs, as, p, c)}
      \/ \E c \in CardIds : Live(cs, c) /\ out = CorrectCard(cs, as, p, c)
      \/ /\ p.addr \in MultiValued \/ LiveAt(cs, p.addr) = {}
         /\ out \in Admit(cs, as, p)
  BY Outcomes
<1> HIDE DEF cs
<1>3. CASE out = [cards |-> cs0, aliases |-> as]
  BY <1>3
<1>4. ASSUME NEW c \in CardIds, Live(cs, c), out.cards = ConfirmMemory(cs, c),
             out.aliases \in {as, LearnAlias(cs, as, p, c)}
      PROVE  Good(out.cards) /\ AliasesTyped(out.aliases)
  <2>1. cs[c].addr \in Addresses
    BY <1>1, <1>4 DEF Good, CardsTyped, Live, LiveStates
  <2>2. AliasesTyped(LearnAlias(cs, as, p, c))
    BY <2>1 DEF LearnAlias, AliasesTyped
  <2> QED BY <1>1, <1>4, <2>2, Confirmed
<1>5. ASSUME NEW c \in CardIds, Live(cs, c), out = CorrectCard(cs, as, p, c)
      PROVE  Good(out.cards) /\ AliasesTyped(out.aliases)
  BY <1>1, <1>5, Corrected
<1>6. CASE /\ p.addr \in MultiValued \/ LiveAt(cs, p.addr) = {}
           /\ out \in Admit(cs, as, p)
  BY <1>1, <1>6, Admitted
<1> QED BY <1>2, <1>3, <1>4, <1>5, <1>6

-----------------------------------------------------------------------------
(* The invariant, in three parts that different actions disturb.           *)

CardsKept == Good(cards) /\ AliasesTyped(aliases)

MemJobSet == [status : {"none", "pending", "running", "done", "failed"}, attempts : 0..MaxAttempts]
WorkerSet == [at : {"idle", "claim", "section", "prune", "publish", "ending"},
              job : Jobs \cup {0}, section : 0..3, content : SUBSET CardIds]
Busy == {"section", "prune", "publish"}

\* A job that can be claimed has attempts left, and a busy worker has a job.
QueueKept ==
  /\ jobs \in [Jobs -> MemJobSet] /\ worker \in WorkerSet
  /\ mode \in {"up", "stopping", "down"} /\ fresh \subseteq Jobs
  /\ \A j \in Jobs : jobs[j].status = "pending" => jobs[j].attempts < MaxAttempts
  /\ worker.at \in Busy => worker.job \in Jobs
  /\ worker.at = "section" => worker.section \in 1..3
  /\ NoJobIsOverlooked

RestTyped ==
  /\ stored \subseteq CardIds /\ cache \subseteq CardIds
  /\ clock \in Nat /\ starts \in Nat /\ changes \in Nat /\ touched \in BOOLEAN

MemInv == CardsKept /\ QueueKept /\ RestTyped

LEMMA MemInvIsEnough == MemInv => MemTypeOK /\ OneCardPerSlot /\ NoJobIsOverlooked
  BY DEF MemInv, CardsKept, Good, CardsTyped, CardSet, OnePerSlot, AliasesTyped, QueueKept,
         MemJobSet, WorkerSet, RestTyped, MemTypeOK, OneCardPerSlot

LEMMA MemInvInit == MemInit => MemInv
<1> SUFFICES ASSUME MemInit PROVE MemInv
  OBVIOUS
<1>1. CardsKept
  <2>1. NoCard \in CardSet
    BY DEF NoCard, CardSet
  <2>2. \A c \in CardIds : cards[c] = NoCard
    BY DEF MemInit
  <2>3. \A c \in CardIds : cards[c].state = "none" /\ ~Live(cards, c)
    BY <2>2 DEF NoCard, Live, LiveStates
  <2> QED BY <2>1, <2>3 DEF MemInit, CardsKept, Good, CardsTyped, OnePerSlot, AliasesTyped
<1>2. QueueKept
  BY MemAttempts DEF MemInit, QueueKept, MemJobSet, WorkerSet, Idle, Busy, NoJobIsOverlooked
<1>3. RestTyped
  BY DEF MemInit, RestTyped
<1> QED BY <1>1, <1>2, <1>3 DEF MemInv

\* One transaction of the resolver.
LEMMA Resolved ==
    ASSUME CardsKept, NEW p \in Proposals, Resolve(p)
    PROVE  CardsKept'
<1>1. PICK out \in ApplyProposal(cards, aliases, p) : cards' = out.cards /\ aliases' = out.aliases
  BY DEF Resolve
<1>2. Good(out.cards) /\ AliasesTyped(out.aliases)
  BY Applied DEF CardsKept, Resolve
<1>3. Good(cards') /\ AliasesTyped(aliases')
  BY <1>1, <1>2
<1> QED BY <1>3 DEF CardsKept, Good, CardsTyped, OnePerSlot, Live, AliasesTyped

\* Giving up created cards.
LEMMA Given ==
    ASSUME CardsKept, NEW cs, Good(cs), NEW S, \A c \in S \cap CardIds : cs[c].state # "none",
           NEW st \in CardStates \ LiveStates,
           cards' = SetState(cs, S, st), aliases' = aliases
    PROVE  CardsKept'
<1>1. Good(cards')
  BY MemGivenUp
<1> QED BY <1>1 DEF CardsKept, Good, CardsTyped, OnePerSlot, Live, AliasesTyped

LEMMA CardsStep == CardsKept /\ [MemNext]_memVars => CardsKept'
<1> SUFFICES ASSUME CardsKept, [MemNext]_memVars PROVE CardsKept'
  OBVIOUS
<1>1. CASE UNCHANGED <<cards, aliases>>
  BY <1>1 DEF CardsKept, Good, CardsTyped, OnePerSlot, Live, AliasesTyped
<1>2. ASSUME NEW p \in Proposals, Resolve(p) PROVE CardsKept'
  BY <1>2, Resolved
<1>3. CASE ResolveSection
  BY <1>1, <1>2, <1>3 DEF ResolveSection
<1>4. CASE PruneAndProject
  <2>1. PICK decayed \in SUBSET LiveInSection(cards, "evolving") :
          cards' = SetState(ExpireTimed(cards, clock), decayed, "archived") /\ aliases' = aliases
    BY <1>4 DEF PruneAndProject
  <2>2. Good(ExpireTimed(cards, clock)) /\ FreeCards(ExpireTimed(cards, clock)) = FreeCards(cards)
    BY Expired DEF CardsKept
  <2>3. \A c \in decayed \cap CardIds : ExpireTimed(cards, clock)[c].state # "none"
    BY <2>2 DEF LiveInSection, InSection, FreeCards
  <2>4. "archived" \in CardStates \ LiveStates
    BY DEF CardStates, LiveStates
  <2> QED BY <2>1, <2>2, <2>3, <2>4, Given
<1>5. ASSUME NEW S \in SUBSET CardIds, Forget(S) PROVE CardsKept'
  <2>1. \A c \in S \cap CardIds : cards[c].state # "none"
    BY <1>5 DEF Forget, LiveAt, Live, LiveStates
  <2>2. "archived" \in CardStates \ LiveStates
    BY DEF CardStates, LiveStates
  <2>3. cards' = SetState(cards, S, "archived") /\ aliases' = aliases
    BY <1>5 DEF Forget
  <2> QED BY <2>1, <2>2, <2>3, Given DEF CardsKept
<1>6. CASE StartMemory
  <2>1. cards' = ExpireTimed(cards, clock) /\ aliases' = aliases
    BY <1>6 DEF StartMemory
  <2>2. Good(cards')
    BY <2>1, Expired DEF CardsKept
  <2> QED BY <2>1, <2>2 DEF CardsKept, Good, CardsTyped, OnePerSlot, Live, AliasesTyped
<1>7. ASSUME NEW p \in Proposals, Remember(p) PROVE CardsKept'
  BY <1>2, <1>7 DEF Remember
<1>8. ASSUME NEW j \in Jobs, EnqueueCheckpoint(j) PROVE UNCHANGED <<cards, aliases>>
  BY <1>8 DEF EnqueueCheckpoint
<1>9. CASE ClaimJob \/ NoMoreJobs \/ WorkerEnds \/ PublishSnapshot \/ JobFails
  BY <1>1, <1>9 DEF ClaimJob, NoMoreJobs, WorkerEnds, PublishSnapshot, JobFails, memStore
<1>10. CASE StopMemory \/ CloseStore \/ CrashMemory \/ Tick
  BY <1>1, <1>10 DEF StopMemory, CloseStore, CrashMemory, Tick, memStore
<1>11. CASE UNCHANGED memVars
  BY <1>1, <1>11 DEF memVars
<1> QED BY <1>1, <1>3, <1>4, <1>5, <1>6, <1>7, <1>8, <1>9, <1>10, <1>11 DEF MemNext, WorkerStep

\* A job that changes its status keeps its attempts, and the others theirs.
LEMMA MemMarked ==
    ASSUME jobs \in [Jobs -> MemJobSet], NEW j \in Jobs,
           NEW st \in {"pending", "running", "done", "failed"},
           jobs' = [jobs EXCEPT ![j].status = st]
    PROVE  /\ jobs' \in [Jobs -> MemJobSet]
           /\ jobs'[j].status = st /\ jobs'[j].attempts = jobs[j].attempts
           /\ \A i \in Jobs \ {j} : jobs'[i] = jobs[i]
<1> DEFINE r == [jobs[j] EXCEPT !.status = st]
<1>1. r \in MemJobSet /\ r.status = st /\ r.attempts = jobs[j].attempts
  BY DEF MemJobSet
<1>2. jobs' = [jobs EXCEPT ![j] = r]
  OBVIOUS
<1> HIDE DEF r
<1> QED BY <1>1, <1>2

\* The worker between two jobs.
LEMMA AtRest ==
    ASSUME NEW at \in {"idle", "claim", "ending"}, NEW w, w = [Idle EXCEPT !.at = at]
    PROVE  w \in WorkerSet /\ w.at = at
  BY DEF Idle, WorkerSet

LEMMA MemQueueStep == QueueKept /\ CardsKept /\ [MemNext]_memVars => QueueKept'
<1> SUFFICES ASSUME QueueKept, CardsKept, [MemNext]_memVars PROVE QueueKept'
  OBVIOUS
<1>1. /\ jobs \in [Jobs -> MemJobSet] /\ worker \in WorkerSet
      /\ mode \in {"up", "stopping", "down"} /\ fresh \subseteq Jobs
      /\ \A j \in Jobs : jobs[j].status = "pending" => jobs[j].attempts < MaxAttempts
      /\ worker.at \in Busy => worker.job \in Jobs
      /\ worker.at = "section" => worker.section \in 1..3
      /\ mode = "up" /\ (\E j \in fresh : jobs[j].status = "pending") => worker.at # "idle"
  BY DEF QueueKept, NoJobIsOverlooked
<1>2. worker.at \in {"idle", "claim", "section", "prune", "publish", "ending"}
  BY <1>1 DEF WorkerSet
<1>3. CASE UNCHANGED <<jobs, worker, mode, fresh>>
  BY <1>1, <1>3 DEF QueueKept, NoJobIsOverlooked
<1>4. ASSUME NEW j \in Jobs, EnqueueCheckpoint(j) PROVE QueueKept'
  <2>1. /\ jobs' = [jobs EXCEPT ![j] = [status |-> "pending", attempts |-> 0]]
        /\ worker' = Scheduled(worker) /\ fresh' = fresh \cup {j} /\ mode' = mode
    BY <1>4 DEF EnqueueCheckpoint
  <2>2. [status |-> "pending", attempts |-> 0] \in MemJobSet /\ 0 < MaxAttempts
    BY MemAttempts DEF MemJobSet
  <2>3. /\ jobs' \in [Jobs -> MemJobSet]
        /\ \A i \in Jobs : jobs'[i].status = "pending" => jobs'[i].attempts < MaxAttempts
    BY <1>1, <2>1, <2>2
  <2>4. CASE worker.at = "idle" /\ mode = "up"
    <3>1. worker' \in WorkerSet /\ worker'.at = "claim"
      BY <2>1, <2>4, AtRest DEF Scheduled
    <3> QED BY <1>1, <2>1, <2>3, <3>1 DEF QueueKept, Busy, NoJobIsOverlooked
  <2>5. CASE ~(worker.at = "idle" /\ mode = "up")
    <3>1. worker' = worker
      BY <2>1, <2>5 DEF Scheduled
    <3> QED BY <1>1, <2>1, <2>3, <2>5, <3>1 DEF QueueKept, NoJobIsOverlooked
  <2> QED BY <2>4, <2>5
<1>5. CASE ClaimJob
  <2> DEFINE j == OldestPending
  <2>1. j \in Jobs /\ jobs[j].status = "pending" /\ jobs[j] \in MemJobSet
    BY <1>1, <1>5, OldestIsPending DEF ClaimJob, Pending
  <2>2. jobs' = [jobs EXCEPT ![j] = [status |-> "running", attempts |-> @.attempts + 1]]
    BY <1>5 DEF ClaimJob
  <2>3. /\ worker' = [Idle EXCEPT !.at = "section", !.job = j, !.section = 1]
        /\ mode' = mode /\ fresh' = fresh
    BY <1>5 DEF ClaimJob
  <2> HIDE DEF j
  <2>4. jobs[j].attempts < MaxAttempts /\ jobs[j].attempts \in 0..MaxAttempts
    BY <1>1, <2>1 DEF MemJobSet
  <2>5. jobs[j].attempts + 1 \in 0..MaxAttempts
    BY <2>4, MemAttempts
  <2>6. jobs' = [jobs EXCEPT ![j] = [status |-> "running", attempts |-> jobs[j].attempts + 1]]
    BY <1>1, <2>1, <2>2
  <2>7. [status |-> "running", attempts |-> jobs[j].attempts + 1] \in MemJobSet
    BY <2>5 DEF MemJobSet
  <2>8. /\ jobs' \in [Jobs -> MemJobSet]
        /\ \A i \in Jobs : jobs'[i].status = "pending" => jobs'[i].attempts < MaxAttempts
    BY <1>1, <2>1, <2>6, <2>7
  <2>9. worker' \in WorkerSet /\ worker'.at = "section" /\ worker'.job = j /\ worker'.section = 1
    <3>1. worker' = [at |-> "section", job |-> j, section |-> 1, content |-> {}]
      BY <2>3 DEF Idle
    <3> QED BY <2>1, <3>1 DEF WorkerSet
  <2>10. worker'.job \in Jobs /\ worker'.section \in 1..3 /\ worker'.at # "idle"
    BY <2>1, <2>9
  <2> QED BY <1>1, <2>3, <2>8, <2>9, <2>10 DEF QueueKept, NoJobIsOverlooked
<1>6. CASE NoMoreJobs
  <2>1. worker' = [worker EXCEPT !.at = "ending"] /\ UNCHANGED <<jobs, mode, fresh>>
    BY <1>6 DEF NoMoreJobs, memStore
  <2>2. worker' \in WorkerSet /\ worker'.at = "ending"
    BY <1>1, <2>1 DEF WorkerSet
  <2> QED BY <1>1, <2>1, <2>2 DEF QueueKept, Busy, NoJobIsOverlooked
<1>7. CASE WorkerEnds
  <2>1. /\ UNCHANGED <<jobs, mode, fresh>>
        /\ worker' = IF Pending # {} THEN Scheduled(Idle) ELSE Idle
    BY <1>7 DEF WorkerEnds, memStore
  <2>2. CASE Pending # {} /\ mode = "up"
    <3>1. worker' \in WorkerSet /\ worker'.at = "claim"
      BY <2>1, <2>2, AtRest DEF Scheduled, Idle
    <3> QED BY <1>1, <2>1, <3>1 DEF QueueKept, Busy, NoJobIsOverlooked
  <2>3. CASE ~(Pending # {} /\ mode = "up")
    <3>1. worker' \in WorkerSet /\ worker'.at = "idle"
      BY <2>1, <2>3 DEF Scheduled, Idle, WorkerSet
    <3> QED BY <1>1, <2>1, <2>3, <3>1 DEF QueueKept, Busy, NoJobIsOverlooked, Pending
  <2> QED BY <2>2, <2>3
<1>8. CASE ResolveSection
  <2>1. /\ worker.at = "section" /\ worker' = NextSection(worker)
        /\ UNCHANGED <<jobs, mode, fresh>>
    BY <1>8 DEF ResolveSection
  <2>2. worker.section \in 1..3 /\ worker.job \in Jobs
    BY <1>1, <2>1 DEF Busy
  <2>3. ASSUME NEW w \in WorkerSet, w.section \in 1..3
        PROVE  /\ NextSection(w) \in WorkerSet /\ NextSection(w).job = w.job
               /\ \/ NextSection(w).at = w.at /\ NextSection(w).section \in 1..3
                  \/ NextSection(w).at = "prune"
    BY <2>3 DEF NextSection, WorkerSet
  <2>4. /\ worker' \in WorkerSet /\ worker'.job \in Jobs
        /\ \/ worker'.at = "section" /\ worker'.section \in 1..3
           \/ worker'.at = "prune"
    BY <1>1, <2>1, <2>2, <2>3
  <2> QED BY <1>1, <2>1, <2>4 DEF QueueKept, NoJobIsOverlooked
<1>9. CASE PruneAndProject
  <2>1. /\ worker.at = "prune" /\ UNCHANGED <<jobs, mode, fresh>>
        /\ worker' = [worker EXCEPT !.at = "publish", !.content = Projection(cards')]
    BY <1>9 DEF PruneAndProject
  <2>2. Projection(cards') \in SUBSET CardIds
    BY DEF Projection
  <2>3. worker' \in WorkerSet /\ worker'.at = "publish" /\ worker'.job = worker.job
    BY <1>1, <2>1, <2>2 DEF WorkerSet
  <2> QED BY <1>1, <2>1, <2>3 DEF QueueKept, Busy, NoJobIsOverlooked
<1>10. CASE PublishSnapshot
  <2>1. /\ worker.at = "publish" /\ UNCHANGED <<mode, fresh>>
        /\ jobs' = [jobs EXCEPT ![worker.job].status = "done"]
        /\ worker' = [Idle EXCEPT !.at = "claim"]
    BY <1>10 DEF PublishSnapshot
  <2>2. worker.job \in Jobs
    BY <1>1, <2>1 DEF Busy
  <2>3. /\ jobs' \in [Jobs -> MemJobSet]
        /\ \A i \in Jobs : jobs'[i].status = "pending" => jobs'[i].attempts < MaxAttempts
    BY <1>1, <2>1, <2>2, MemMarked
  <2>4. worker' \in WorkerSet /\ worker'.at = "claim"
    BY <2>1, AtRest
  <2> QED BY <1>1, <2>1, <2>3, <2>4 DEF QueueKept, Busy, NoJobIsOverlooked
<1>11. CASE JobFails
  <2> DEFINE st == IF jobs[worker.job].attempts >= MaxAttempts THEN "failed" ELSE "pending"
  <2>1. /\ worker.at \in Busy /\ UNCHANGED <<mode, fresh>>
        /\ jobs' = [jobs EXCEPT ![worker.job].status = st]
        /\ \E at \in {"claim", "ending"} : worker' = [Idle EXCEPT !.at = at]
    BY <1>11 DEF JobFails, Busy
  <2>2. worker.job \in Jobs /\ st \in {"pending", "running", "done", "failed"}
    BY <1>1, <2>1
  <2>3. jobs[worker.job].attempts \in 0..MaxAttempts
    BY <1>1, <2>2 DEF MemJobSet
  <2>4. st = "pending" => jobs[worker.job].attempts < MaxAttempts
    BY <2>3, MemAttempts
  <2> HIDE DEF st
  <2>5. /\ jobs' \in [Jobs -> MemJobSet]
        /\ \A i \in Jobs : jobs'[i].status = "pending" => jobs'[i].attempts < MaxAttempts
    BY <1>1, <2>1, <2>2, <2>4, MemMarked
  <2>6. worker' \in WorkerSet /\ worker'.at \in {"claim", "ending"}
    BY <2>1, AtRest
  <2>7. worker'.at \notin Busy /\ worker'.at # "section" /\ worker'.at # "idle"
    BY <2>6 DEF Busy
  <2> QED BY <1>1, <2>1, <2>5, <2>6, <2>7 DEF QueueKept, NoJobIsOverlooked
<1>12. CASE StartMemory
  <2>1. worker' = Idle /\ fresh' = {} /\ mode' = "up" /\ jobs' = jobs
    BY <1>12 DEF StartMemory
  <2>2. worker' \in WorkerSet /\ worker'.at = "idle"
    BY <2>1 DEF Idle, WorkerSet
  <2> QED BY <1>1, <2>1, <2>2 DEF QueueKept, Busy, NoJobIsOverlooked
<1>13. CASE StopMemory \/ CloseStore
  <2>1. UNCHANGED <<jobs, worker, fresh>> /\ mode' \in {"stopping", "down"}
    BY <1>13 DEF StopMemory, CloseStore, memStore
  <2> QED BY <1>1, <2>1 DEF QueueKept, NoJobIsOverlooked
<1>14. CASE CrashMemory
  <2>1. worker' = Idle /\ mode' = "down" /\ UNCHANGED <<jobs, fresh>>
    BY <1>14 DEF CrashMemory, memStore
  <2>2. worker' \in WorkerSet /\ worker'.at = "idle"
    BY <2>1 DEF Idle, WorkerSet
  <2> QED BY <1>1, <2>1, <2>2 DEF QueueKept, Busy, NoJobIsOverlooked
<1>15. CASE Tick \/ UNCHANGED memVars
  BY <1>3, <1>15 DEF Tick, memStore, memVars
<1>16. ASSUME NEW p \in Proposals, Remember(p) PROVE QueueKept'
  BY <1>3, <1>16 DEF Remember
<1>17. ASSUME NEW S \in SUBSET CardIds, Forget(S) PROVE QueueKept'
  BY <1>3, <1>17 DEF Forget
<1> QED BY <1>4, <1>5, <1>6, <1>7, <1>8, <1>9, <1>10, <1>11, <1>12, <1>13, <1>14, <1>15,
           <1>16, <1>17 DEF MemNext, WorkerStep

LEMMA RestStep == RestTyped /\ QueueKept /\ [MemNext]_memVars => RestTyped'
<1> SUFFICES ASSUME RestTyped, QueueKept, [MemNext]_memVars PROVE RestTyped'
  OBVIOUS
<1>1. worker.content \subseteq CardIds
  BY DEF QueueKept, WorkerSet
<1>2. \A cs : Projection(cs) \subseteq CardIds
  BY DEF Projection
<1>3. CASE UNCHANGED <<stored, cache, clock, starts, changes, touched>>
  BY <1>3 DEF RestTyped
<1>4. ASSUME NEW j \in Jobs, EnqueueCheckpoint(j) PROVE RestTyped'
  BY <1>3, <1>4 DEF EnqueueCheckpoint
<1>5. CASE ClaimJob \/ NoMoreJobs \/ WorkerEnds \/ JobFails
  BY <1>3, <1>5 DEF ClaimJob, NoMoreJobs, WorkerEnds, JobFails, memStore
<1>6. CASE ResolveSection
  <2>1. changes' \in {changes, changes + 1} /\ UNCHANGED <<stored, cache, clock, starts, touched>>
    BY <1>6 DEF ResolveSection
  <2> QED BY <2>1 DEF RestTyped
<1>7. CASE PruneAndProject
  <2>1. /\ stored' = Projection(cards') /\ touched' = FALSE
        /\ UNCHANGED <<cache, clock, starts, changes>>
    BY <1>7 DEF PruneAndProject
  <2> QED BY <1>2, <2>1 DEF RestTyped
<1>8. CASE PublishSnapshot
  <2>1. cache' = worker.content /\ UNCHANGED <<stored, clock, starts, changes, touched>>
    BY <1>8 DEF PublishSnapshot
  <2> QED BY <1>1, <2>1 DEF RestTyped
<1>9. ASSUME NEW p \in Proposals, Remember(p) PROVE RestTyped'
  <2>1. changes' = changes + 1 /\ touched' = TRUE /\ UNCHANGED <<stored, cache, clock, starts>>
    BY <1>9 DEF Remember
  <2> QED BY <2>1 DEF RestTyped
<1>10. ASSUME NEW S \in SUBSET CardIds, Forget(S) PROVE RestTyped'
  <2>1. changes' = changes + 1 /\ touched' = TRUE /\ UNCHANGED <<stored, cache, clock, starts>>
    BY <1>10 DEF Forget
  <2> QED BY <2>1 DEF RestTyped
<1>11. CASE StartMemory
  <2>1. /\ starts' = starts + 1 /\ touched' = FALSE /\ UNCHANGED <<clock, changes>>
        /\ stored' = Projection(cards') /\ cache' = stored'
    BY <1>11 DEF StartMemory
  <2>2. stored' \subseteq CardIds /\ cache' \subseteq CardIds
    BY <1>2, <2>1
  <2>3. starts' \in Nat /\ changes' \in Nat /\ clock' \in Nat
    BY <2>1 DEF RestTyped
  <2> QED BY <2>1, <2>2, <2>3 DEF RestTyped
<1>12. CASE CrashMemory
  <2>1. cache' = {} /\ UNCHANGED <<stored, clock, starts, changes, touched>>
    BY <1>12 DEF CrashMemory, memStore
  <2> QED BY <2>1 DEF RestTyped
<1>13. CASE Tick
  <2>1. clock' = clock + 1 /\ UNCHANGED <<stored, cache, starts, changes, touched>>
    BY <1>13 DEF Tick, memStore
  <2> QED BY <2>1 DEF RestTyped
<1>14. CASE StopMemory \/ CloseStore
  BY <1>3, <1>14 DEF StopMemory, CloseStore, memStore
<1>15. CASE UNCHANGED memVars
  BY <1>3, <1>15 DEF memVars
<1> QED BY <1>4, <1>5, <1>6, <1>7, <1>8, <1>9, <1>10, <1>11, <1>12, <1>13, <1>14, <1>15
        DEF MemNext, WorkerStep

LEMMA MemInvAlways == MemSpec => []MemInv
<1>1. MemInit => MemInv
  BY MemInvInit
<1>2. MemInv /\ [MemNext]_memVars => MemInv'
  <2>1. CardsKept /\ [MemNext]_memVars => CardsKept'
    BY CardsStep
  <2>2. QueueKept /\ CardsKept /\ [MemNext]_memVars => QueueKept'
    BY MemQueueStep
  <2>3. RestTyped /\ QueueKept /\ [MemNext]_memVars => RestTyped'
    BY RestStep
  <2> QED BY <2>1, <2>2, <2>3 DEF MemInv
<1> QED BY <1>1, <1>2, PTL DEF MemSpec

-----------------------------------------------------------------------------
\* The store, the queue of jobs and the snapshots are of the right kind, for
\* any cards, proposals, tools, crashes and restarts: no attempt of a job goes
\* past MaxAttempts (claimNextJob and markJobFailed), and every card of the
\* snapshot is a card.
THEOREM MemoryIsTyped == MemSpec => []MemTypeOK
<1>1. MemInv => MemTypeOK
  BY MemInvIsEnough
<1> QED BY <1>1, MemInvAlways, PTL

\* A slot that holds one value never has two live cards, whichever branch of
\* applyProposal a retried job or a tool takes.
THEOREM OneValuePerSlot == MemSpec => []OneCardPerSlot
<1>1. MemInv => OneCardPerSlot
  BY MemInvIsEnough
<1> QED BY <1>1, MemInvAlways, PTL

\* A pending job of this start always has a worker that will come to it: the
\* finally of scheduleProcessing looks at the queue again.
THEOREM JobsAreSeen == MemSpec => []NoJobIsOverlooked
<1>1. MemInv => NoJobIsOverlooked
  BY MemInvIsEnough
<1> QED BY <1>1, MemInvAlways, PTL

-----------------------------------------------------------------------------
(* Protected facts.                                                        *)

Guarded(cs, c) == Live(cs, c) /\ SectionOf[cs[c].addr] = "facts" /\ Protected(cs[c])
Replaced(cs, new, c) ==
  /\ new[c].state = "superseded"
  /\ \E d \in CardIds : cs[d].state = "none" /\ Live(new, d) /\ new[d].addr = cs[c].addr

\* From cs to new every protected fact stays live or is replaced.
Stays(cs, new) == \A c \in CardIds : Guarded(cs, c) => Live(new, c) \/ Replaced(cs, new, c)

\* A new card takes a free id and leaves the other cards alone.
LEMMA CreatedCard ==
    ASSUME NEW cs, CardsTyped(cs), FreeCards(cs) # {}, NEW p, NEW a
    PROVE  \E n \in CardIds :
             /\ cs[n].state = "none"
             /\ CreateCard(cs, p, a)[n].addr = a /\ Live(CreateCard(cs, p, a), n)
             /\ \A d \in CardIds \ {n} : CreateCard(cs, p, a)[d] = cs[d]
<1> DEFINE n == NextCard(cs)
           r == [addr |-> a, value |-> p.value, conf |-> p.conf, source |-> p.source,
                 expires |-> p.expires, state |-> InitialState(p)]
<1>1. n \in CardIds /\ cs[n].state = "none" /\ cs \in [CardIds -> CardSet]
  BY NextCardIsFree DEF CardsTyped
<1>2. r.addr = a /\ r.state \in LiveStates
  BY DEF InitialState, LiveStates
<1>3. CreateCard(cs, p, a) = [cs EXCEPT ![n] = r]
  BY DEF CreateCard
<1> HIDE DEF n, r
<1>4. CreateCard(cs, p, a)[n] = r /\ \A d \in CardIds \ {n} : CreateCard(cs, p, a)[d] = cs[d]
  BY <1>1, <1>3
<1> QED BY <1>1, <1>2, <1>4 DEF Live

\* No fact is in the timed or the evolving section.
LEMMA ExpiredStays ==
    ASSUME NEW cs, NEW t
    PROVE  \A c \in CardIds : SectionOf[cs[c].addr] = "facts" => ExpireTimed(cs, t)[c] = cs[c]
  BY DEF ExpireTimed, SetState, LiveInSection, InSection

\* A confirmed card stays live, and so does a protected one that is contradicted.
LEMMA WeighedStays ==
    ASSUME NEW cs, Good(cs), NEW c \in CardIds, Live(cs, c)
    PROVE  Stays(cs, ConfirmMemory(cs, c)) /\ Stays(cs, RecordContradiction(cs, c))
<1>1. cs \in [CardIds -> CardSet] /\ cs[c] \in CardSet
  BY DEF Good, CardsTyped
<1>2. cs[c].conf \in 0..99
  BY <1>1 DEF CardSet
<1>3. ASSUME NEW conf, NEW st, st \in LiveStates \/ ~Guarded(cs, c)
      PROVE  Stays(cs, Reweigh(cs, c, conf, st))
  <2> DEFINE r == [[cs[c] EXCEPT !.conf = conf] EXCEPT !.state = st]
  <2>1. r.state = st
    BY <1>1 DEF CardSet
  <2>2. Reweigh(cs, c, conf, st) = [cs EXCEPT ![c] = r]
    BY <1>1 DEF Reweigh
  <2> HIDE DEF r
  <2>3. \A d \in CardIds : Reweigh(cs, c, conf, st)[d] = IF d = c THEN r ELSE cs[d]
    BY <1>1, <2>2
  <2> QED BY <1>3, <2>1, <2>3 DEF Stays, Live, Guarded
<1>4. Stays(cs, ConfirmMemory(cs, c))
  <2> DEFINE conf == MinOf(99, cs[c].conf + 4)
             st == IF conf >= 80 THEN "active" ELSE cs[c].state
  <2>1. ConfirmMemory(cs, c) = Reweigh(cs, c, conf, st)
    BY <1>1 DEF ConfirmMemory, CardSet, Reweigh
  <2>2. st \in LiveStates
    BY DEF Live, LiveStates
  <2> HIDE DEF conf, st
  <2> QED BY <1>3, <2>1, <2>2
<1>5. Stays(cs, RecordContradiction(cs, c))
  <2> DEFINE conf == MaxOf(5, cs[c].conf - 20)
             st == IF conf < 25 /\ cs[c].state = "candidate" THEN "rejected" ELSE cs[c].state
  <2>1. RecordContradiction(cs, c) = Reweigh(cs, c, conf, st)
    BY <1>1 DEF RecordContradiction, CardSet, Reweigh
  <2>2. Guarded(cs, c) => cs[c].conf >= 80
    BY DEF Guarded, Protected
  <2>3. cs[c].conf >= 80 => ~(conf < 25)
    BY <1>2 DEF MaxOf
  <2>4. st \in LiveStates \/ ~Guarded(cs, c)
    BY <2>2, <2>3 DEF Live
  <2> HIDE DEF conf, st
  <2> QED BY <1>3, <2>1, <2>4
<1> QED BY <1>4, <1>5

\* Only the card that is corrected goes, and the new one takes its slot.
LEMMA CorrectedStays ==
    ASSUME NEW cs, Good(cs), FreeCards(cs) # {}, NEW as, NEW p \in Proposals,
           NEW old \in CardIds, Live(cs, old)
    PROVE  Stays(cs, CorrectCard(cs, as, p, old).cards)
<1> DEFINE a == cs[old].addr
           rest == MarkSuperseded(cs, old)
           new == CreateCard(rest, p, a)
<1>1. cs[old].state # "none" /\ "superseded" \in CardStates \ LiveStates
  BY DEF Live, LiveStates, CardStates
<1>2. Good(rest) /\ FreeCards(rest) = FreeCards(cs)
  BY <1>1, MemGivenUp DEF MarkSuperseded
<1>3. /\ \A c \in CardIds \ {old} : rest[c] = cs[c]
      /\ rest[old].state = "superseded"
  <2>1. cs[old] \in CardSet
    BY DEF Good, CardsTyped
  <2>2. [cs[old] EXCEPT !.state = "superseded"].state = "superseded"
    BY <2>1 DEF CardSet
  <2> QED BY <2>2 DEF MarkSuperseded, SetState
<1> HIDE DEF rest, a
<1>4. PICK n \in CardIds :
        /\ rest[n].state = "none" /\ new[n].addr = a /\ Live(new, n)
        /\ \A d \in CardIds \ {n} : new[d] = rest[d]
  BY <1>2, CreatedCard DEF Good
<1> HIDE DEF new
<1>5. n # old /\ cs[n].state = "none"
  BY <1>3, <1>4
<1>6. Stays(cs, new)
  <2> SUFFICES ASSUME NEW c \in CardIds, Guarded(cs, c)
               PROVE  Live(new, c) \/ Replaced(cs, new, c)
    BY DEF Stays
  <2>1. c # n
    BY <1>5 DEF Guarded, Live, LiveStates
  <2>2. CASE c # old
    BY <1>3, <1>4, <2>1, <2>2 DEF Guarded, Live
  <2>3. CASE c = old
    BY <1>3, <1>4, <1>5, <2>1, <2>3 DEF Replaced, a
  <2> QED BY <2>2, <2>3
<1>7. Stays(cs, RecordContradiction(cs, old))
  BY WeighedStays
<1> QED BY <1>6, <1>7 DEF CorrectCard, new, rest, a

\* Room is made with a card that may be given up.
LEMMA AdmittedStays ==
    ASSUME NEW cs, Good(cs), FreeCards(cs) # {}, NEW as, NEW p \in Proposals,
           NEW out \in Admit(cs, as, p)
    PROVE  Stays(cs, out.cards)
<1>1. ASSUME NEW rest, CardsTyped(rest), FreeCards(rest) = FreeCards(cs),
             \A c \in CardIds : Guarded(cs, c) => rest[c] = cs[c],
             out.cards = CreateCard(rest, p, p.addr)
      PROVE  Stays(cs, out.cards)
  <2>1. PICK n \in CardIds : rest[n].state = "none"
          /\ \A d \in CardIds \ {n} : CreateCard(rest, p, p.addr)[d] = rest[d]
    BY <1>1, CreatedCard
  <2>2. n \in FreeCards(cs)
    BY <1>1, <2>1 DEF FreeCards
  <2>3. \A c \in CardIds : Guarded(cs, c) => c # n
    BY <2>2 DEF FreeCards, Guarded, Live, LiveStates
  <2> QED BY <1>1, <2>1, <2>3 DEF Stays, Guarded, Live
<1>2. CASE out = [cards |-> CreateCard(cs, p, p.addr), aliases |-> as]
  BY <1>1, <1>2 DEF Good
<1>3. CASE out = [cards |-> cs, aliases |-> as]
  BY <1>3 DEF Stays, Guarded
<1>4. ASSUME NEW w \in Removable(cs, SectionOf[p.addr]),
             out = [cards |-> CreateCard(SetState(cs, {w}, "archived"), p, p.addr),
                    aliases |-> as]
      PROVE  Stays(cs, out.cards)
  <2> DEFINE rest == SetState(cs, {w}, "archived")
  <2>1. w \in CardIds /\ cs[w].state # "none" /\ ~Guarded(cs, w)
    BY DEF Removable, LiveInSection, InSection, Guarded
  <2>2. "archived" \in CardStates \ LiveStates
    BY DEF CardStates, LiveStates
  <2>3. Good(rest) /\ FreeCards(rest) = FreeCards(cs)
    BY <2>1, <2>2, MemGivenUp
  <2>4. \A c \in CardIds : Guarded(cs, c) => rest[c] = cs[c]
    BY <2>1 DEF SetState
  <2> HIDE DEF rest
  <2>5. out.cards = CreateCard(rest, p, p.addr)
    BY <1>4 DEF rest
  <2> QED BY <1>1, <2>3, <2>4, <2>5 DEF Good
<1> QED BY <1>2, <1>3, <1>4 DEF Admit, Unchanged

LEMMA AppliedStays ==
    ASSUME NEW cs0, Good(cs0), FreeCards(cs0) # {}, NEW as,
           NEW p \in Proposals, NEW out \in ApplyProposal(cs0, as, p)
    PROVE  Stays(cs0, out.cards)
<1> DEFINE cs == Present(cs0, p)
<1>1. Good(cs) /\ FreeCards(cs) = FreeCards(cs0)
  BY Expired DEF Present
<1>2. \A c \in CardIds : SectionOf[cs0[c].addr] = "facts" => cs[c] = cs0[c]
  BY ExpiredStays DEF Present
<1>3. \/ out = [cards |-> cs0, aliases |-> as]
      \/ \E c \in CardIds : Live(cs, c) /\ out.cards = ConfirmMemory(cs, c)
      \/ \E c \in CardIds : Live(cs, c) /\ out = CorrectCard(cs, as, p, c)
      \/ out \in Admit(cs, as, p)
  BY Outcomes
<1> HIDE DEF cs
<1>4. out.cards = cs0 \/ Stays(cs, out.cards)
  <2>1. ASSUME NEW c \in CardIds, Live(cs, c), out.cards = ConfirmMemory(cs, c)
        PROVE  Stays(cs, out.cards)
    BY <1>1, <2>1, WeighedStays
  <2>2. ASSUME NEW c \in CardIds, Live(cs, c), out = CorrectCard(cs, as, p, c)
        PROVE  Stays(cs, out.cards)
    BY <1>1, <2>2, CorrectedStays
  <2>3. ASSUME out \in Admit(cs, as, p) PROVE Stays(cs, out.cards)
    BY <1>1, <2>3, AdmittedStays
  <2>4. out = [cards |-> cs0, aliases |-> as] => out.cards = cs0
    OBVIOUS
  <2> QED BY <1>3, <2>1, <2>2, <2>3, <2>4, Zenon
<1>5. CASE out.cards = cs0
  BY <1>5 DEF Stays, Guarded
<1>6. CASE Stays(cs, out.cards)
  <2> SUFFICES ASSUME NEW c \in CardIds, Guarded(cs0, c)
               PROVE  Live(out.cards, c) \/ Replaced(cs0, out.cards, c)
    BY DEF Stays
  <2>1. cs[c] = cs0[c]
    BY <1>2 DEF Guarded
  <2>2. Live(out.cards, c) \/ Replaced(cs, out.cards, c)
    BY <1>6, <2>1 DEF Stays, Guarded, Live
  <2>3. \A d \in CardIds : cs[d].state = "none" => cs0[d].state = "none"
    BY <1>1 DEF FreeCards
  <2> QED BY <2>1, <2>2, <2>3 DEF Replaced
<1> QED BY <1>4, <1>5, <1>6

\* Forgetting is the only step that takes a protected fact away unreplaced: no
\* step of a job or of the daemon does, and memory_remember does not.
LEMMA OnlyForgettingTakes ==
    ASSUME CardsKept, [MemNext]_memVars, ~\E S \in SUBSET CardIds : Forget(S)
    PROVE  Stays(cards, cards')
<1>1. CASE UNCHANGED cards
  BY <1>1 DEF Stays, Guarded
<1>2. CASE ResolveSection \/ \E p \in Proposals : Remember(p)
  <2>1. UNCHANGED cards \/ \E p \in Proposals : Resolve(p)
    BY <1>2 DEF ResolveSection, Remember
  <2>2. ASSUME NEW p \in Proposals, Resolve(p) PROVE Stays(cards, cards')
    <3>1. PICK out \in ApplyProposal(cards, aliases, p) : cards' = out.cards
      BY <2>2 DEF Resolve
    <3>2. FreeCards(cards) # {} /\ Good(cards)
      BY <2>2 DEF Resolve, CardsKept
    <3>3. Stays(cards, out.cards)
      BY <3>2, AppliedStays
    <3> QED BY <3>1, <3>3
  <2> QED BY <1>1, <2>1, <2>2
<1>3. CASE PruneAndProject
  <2>1. PICK decayed \in SUBSET LiveInSection(cards, "evolving") :
          cards' = SetState(ExpireTimed(cards, clock), decayed, "archived")
    BY <1>3 DEF PruneAndProject
  <2>2. ASSUME NEW c \in CardIds, Guarded(cards, c) PROVE cards'[c] = cards[c]
    <3>1. ExpireTimed(cards, clock)[c] = cards[c]
      BY <2>2, ExpiredStays DEF Guarded
    <3>2. c \notin decayed
      BY <2>2 DEF LiveInSection, InSection, Guarded
    <3> QED BY <2>1, <3>1, <3>2 DEF SetState
  <2> QED BY <2>2 DEF Stays, Guarded, Live
<1>4. CASE StartMemory
  <2>1. cards' = ExpireTimed(cards, clock)
    BY <1>4 DEF StartMemory
  <2> QED BY <2>1, ExpiredStays DEF Stays, Guarded, Live
<1>5. ASSUME NEW j \in Jobs, EnqueueCheckpoint(j) PROVE UNCHANGED cards
  BY <1>5 DEF EnqueueCheckpoint
<1>6. CASE ClaimJob \/ NoMoreJobs \/ WorkerEnds \/ PublishSnapshot \/ JobFails
  BY <1>1, <1>6 DEF ClaimJob, NoMoreJobs, WorkerEnds, PublishSnapshot, JobFails, memStore
<1>7. CASE StopMemory \/ CloseStore \/ CrashMemory \/ Tick
  BY <1>1, <1>7 DEF StopMemory, CloseStore, CrashMemory, Tick, memStore
<1>8. CASE UNCHANGED memVars
  BY <1>1, <1>8 DEF memVars
<1> QED BY <1>1, <1>2, <1>3, <1>4, <1>5, <1>6, <1>7, <1>8 DEF MemNext, WorkerStep

\* A fact that isProtectedFact protects leaves its slot only when it is forgotten
\* or superseded by another card in that slot: neither a job nor memory_remember
\* archives it for room (findWeakestRemovableFact), and no contradiction, pruning
\* or start takes it away.
THEOREM ProtectedFactsAreKept == MemSpec => ProtectedFactsStay
<1>1. ASSUME MemInv, [MemNext]_memVars, NEW c \in CardIds,
             Live(cards, c), SectionOf[cards[c].addr] = "facts", Protected(cards[c]),
             ~Live(cards', c), ~\E S \in SUBSET CardIds : Forget(S)
      PROVE  /\ cards'[c].state = "superseded"
             /\ \E d \in CardIds : cards[d].state = "none" /\ Live(cards', d)
                                   /\ cards'[d].addr = cards[c].addr
  <2>1. Stays(cards, cards')
    BY <1>1, OnlyForgettingTakes DEF MemInv
  <2> QED BY <1>1, <2>1 DEF Stays, Guarded, Replaced
<1> DEFINE step == (\E S \in SUBSET CardIds : Forget(S))
      \/ \A c \in CardIds :
           /\ Live(cards, c) /\ SectionOf[cards[c].addr] = "facts" /\ Protected(cards[c])
           /\ ~Live(cards', c)
           => /\ cards'[c].state = "superseded"
              /\ \E d \in CardIds : cards[d].state = "none" /\ Live(cards', d)
                                    /\ cards'[d].addr = cards[c].addr
<1>2. MemInv /\ [MemNext]_memVars => [step]_memVars
  BY <1>1
<1> QED BY <1>2, MemInvAlways, PTL DEF MemSpec, ProtectedFactsStay

-----------------------------------------------------------------------------
(* The snapshot.                                                           *)

\* Jobs are enqueued in their order, those of this start after the others.
InOrder ==
  /\ \A i, j \in Jobs : jobs[i].status = "none" /\ i < j => jobs[j].status = "none"
  /\ \A j \in fresh : jobs[j].status # "none"
  /\ \A i \in Jobs \ fresh : \A j \in fresh : jobs[i].status # "none" => i < j

\* The worker moves only once a job of this start is there, and takes the jobs
\* that earlier starts left first.
LeftOversFirst ==
  /\ worker.at # "idle" => fresh # {}
  /\ worker.at \in Busy => jobs[worker.job].status = "running"
  /\ \A i \in Jobs \ fresh :
       jobs[i].status = "pending" \/ (worker.at \in Busy /\ worker.job = i)
       => \A j \in fresh : jobs[j].status = "pending"

\* What is about to be published is stored, and nobody changed a card since;
\* between two jobs the cache is behind only if a job is not done.
Projected ==
  /\ worker.at = "publish" =>
       worker.content = stored /\ (~touched => stored = Projection(cards))
  /\ mode # "down" /\ worker.at \notin Busy /\ ~touched
     /\ (\A j \in fresh : jobs[j].status = "done")
     => cache = Projection(cards) /\ stored = cache

SnapInv == InOrder /\ LeftOversFirst /\ Projected

LEMMA SnapInvInit == MemInit => SnapInv
<1> SUFFICES ASSUME MemInit PROVE SnapInv
  OBVIOUS
<1>1. \A c \in CardIds : cards[c].state # "active"
  BY DEF MemInit, NoCard
<1>2. Projection(cards) = {}
  BY <1>1 DEF Projection
<1>3. worker.at = "idle" /\ worker.at \notin Busy /\ fresh = {} /\ stored = {} /\ cache = {}
  BY DEF MemInit, Idle, Busy
<1>4. \A j \in Jobs : jobs[j].status = "none"
  BY DEF MemInit
<1> QED BY <1>2, <1>3, <1>4 DEF SnapInv, InOrder, LeftOversFirst, Projected

LEMMA SnapInvStep == MemInv /\ SnapInv /\ [MemNext]_memVars => SnapInv'
<1> SUFFICES ASSUME MemInv, SnapInv, [MemNext]_memVars PROVE SnapInv'
  OBVIOUS
<1>1. /\ jobs \in [Jobs -> MemJobSet] /\ worker \in WorkerSet /\ fresh \subseteq Jobs
      /\ worker.at \in Busy => worker.job \in Jobs
  BY DEF MemInv, QueueKept
<1>2. Jobs \subseteq Nat
  BY MemIdsAreNumbers
<1>3. /\ UNCHANGED <<jobs, fresh>> => InOrder'
      /\ UNCHANGED <<jobs, fresh, worker>> => LeftOversFirst'
      /\ UNCHANGED <<jobs, fresh, worker, stored, cards, touched, cache, mode>> => Projected'
  BY DEF SnapInv, InOrder, LeftOversFirst, Projected, Projection
<1>4. ASSUME NEW j \in Jobs, EnqueueCheckpoint(j) PROVE SnapInv'
  <2>1. /\ mode # "down" /\ jobs[j].status = "none"
        /\ jobs' = [jobs EXCEPT ![j] = [status |-> "pending", attempts |-> 0]]
        /\ worker' = Scheduled(worker) /\ fresh' = fresh \cup {j}
        /\ UNCHANGED <<cards, stored, cache, mode, touched>>
        /\ \A i \in Jobs : i < j => jobs[i].status # "none"
    BY <1>4 DEF EnqueueCheckpoint
  <2>2. jobs'[j].status = "pending" /\ \A i \in Jobs \ {j} : jobs'[i] = jobs[i]
    BY <1>1, <2>1
  <2>3. worker' = worker \/ (worker.at = "idle" /\ worker'.at = "claim")
    BY <2>1, AtRest DEF Scheduled
  <2>4. \A i \in Jobs : jobs[i].status # "none" => i < j
    BY <1>2, <2>1 DEF SnapInv, InOrder
  <2>5. InOrder'
    BY <1>2, <2>1, <2>2, <2>4 DEF SnapInv, InOrder
  <2>6. LeftOversFirst'
    <3>1. worker'.at \in Busy => worker' = worker
      BY <2>3 DEF Busy
    <3>2. worker'.at \in Busy => worker'.job # j
      BY <2>1, <3>1 DEF SnapInv, LeftOversFirst
    <3> QED BY <1>1, <2>1, <2>2, <3>1, <3>2 DEF SnapInv, LeftOversFirst
  <2>7. Projected'
    <3>1. worker'.at = "publish" => worker' = worker
      BY <2>3
    <3>2. ~\A i \in fresh' : jobs'[i].status = "done"
      BY <2>1, <2>2
    <3> QED BY <2>1, <3>1, <3>2 DEF SnapInv, Projected, Projection
  <2> QED BY <2>5, <2>6, <2>7 DEF SnapInv
<1>5. CASE ClaimJob
  <2> DEFINE m == OldestPending
  <2>1. /\ m \in Jobs /\ jobs[m].status = "pending"
        /\ \A i \in Jobs : jobs[i].status = "pending" => m <= i
    BY <1>5, OldestIsPending DEF ClaimJob, Pending
  <2>2. /\ worker.at = "claim"
        /\ worker' = [Idle EXCEPT !.at = "section", !.job = m, !.section = 1]
        /\ jobs' = [jobs EXCEPT ![m] = [status |-> "running", attempts |-> @.attempts + 1]]
        /\ UNCHANGED <<cards, stored, cache, mode, fresh, touched>>
    BY <1>5 DEF ClaimJob
  <2> HIDE DEF m
  <2>3. worker'.at = "section" /\ worker'.job = m
    <3>1. worker' = [at |-> "section", job |-> m, section |-> 1, content |-> {}]
      BY <2>2 DEF Idle
    <3> QED BY <3>1
  <2>4. jobs'[m].status = "running" /\ \A i \in Jobs \ {m} : jobs'[i] = jobs[i]
    BY <1>1, <2>1, <2>2
  <2>5. InOrder'
    BY <1>1, <2>1, <2>2, <2>4 DEF SnapInv, InOrder
  <2>6. m \in fresh => \A i \in Jobs \ fresh : jobs[i].status # "pending"
    BY <1>2, <2>1 DEF SnapInv, InOrder
  <2>7. m \notin fresh => \A i \in fresh : jobs'[i].status = "pending"
    BY <1>1, <2>1, <2>4 DEF SnapInv, LeftOversFirst
  <2>8. fresh # {}
    BY <2>2 DEF SnapInv, LeftOversFirst
  <2>9. LeftOversFirst'
    <3>1. \A i \in Jobs \ fresh : jobs'[i].status = "pending" =>
            \A k \in fresh : jobs'[k].status = "pending"
      BY <1>1, <2>4, <2>6, <2>7
    <3> QED BY <2>2, <2>3, <2>4, <2>7, <2>8, <3>1 DEF LeftOversFirst
  <2>10. Projected'
    BY <2>3 DEF Projected, Busy
  <2> QED BY <2>5, <2>9, <2>10 DEF SnapInv
<1>6. CASE NoMoreJobs \/ WorkerEnds
  <2>1. /\ UNCHANGED <<jobs, cards, stored, cache, mode, fresh, touched>>
        /\ worker.at \in {"claim", "ending"}
    BY <1>6 DEF NoMoreJobs, WorkerEnds, memStore
  <2>2. worker'.at \in {"idle", "claim", "ending"}
    <3>1. CASE NoMoreJobs
      BY <1>1, <3>1 DEF NoMoreJobs, WorkerSet
    <3>2. CASE WorkerEnds
      BY <3>2, AtRest DEF WorkerEnds, Scheduled, Idle
    <3> QED BY <1>6, <3>1, <3>2
  <2>3. worker'.at \notin Busy /\ worker'.at # "publish" /\ worker.at \notin Busy /\ worker.at # "idle"
    BY <2>1, <2>2 DEF Busy
  <2>4. LeftOversFirst'
    BY <2>1, <2>3 DEF SnapInv, LeftOversFirst
  <2>5. Projected'
    BY <2>1, <2>3 DEF SnapInv, Projected, Projection
  <2> QED BY <1>3, <2>1, <2>4, <2>5 DEF SnapInv
<1>7. CASE ResolveSection \/ PruneAndProject
  <2>1. /\ UNCHANGED <<jobs, fresh>> /\ worker.at \in Busy
        /\ worker'.at \in Busy /\ worker'.job = worker.job
        /\ worker'.at = "publish" => worker'.content = stored' /\ stored' = Projection(cards')
    <3>1. CASE ResolveSection
      <4>1. /\ worker.at = "section" /\ worker' = NextSection(worker) /\ UNCHANGED <<jobs, fresh>>
        BY <3>1 DEF ResolveSection
      <4>2. ASSUME NEW w \in WorkerSet, w.at = "section"
            PROVE  NextSection(w).at \in {"section", "prune"} /\ NextSection(w).job = w.job
        BY <4>2 DEF NextSection, WorkerSet
      <4> QED BY <1>1, <4>1, <4>2 DEF Busy
    <3>2. CASE PruneAndProject
      <4>1. /\ worker.at = "prune" /\ UNCHANGED <<jobs, fresh>> /\ stored' = Projection(cards')
            /\ worker' = [worker EXCEPT !.at = "publish", !.content = Projection(cards')]
        BY <3>2 DEF PruneAndProject
      <4>2. /\ worker'.at = "publish" /\ worker'.job = worker.job
            /\ worker'.content = Projection(cards')
        BY <1>1, <4>1 DEF WorkerSet
      <4> QED BY <4>1, <4>2 DEF Busy
    <3> QED BY <1>7, <3>1, <3>2
  <2>2. worker.at # "idle"
    BY <2>1 DEF Busy
  <2>3. LeftOversFirst'
    BY <2>1, <2>2 DEF SnapInv, LeftOversFirst
  <2>4. Projected'
    BY <2>1 DEF Projected, Projection
  <2> QED BY <1>3, <2>1, <2>3, <2>4 DEF SnapInv
<1>8. CASE PublishSnapshot
  <2>1. /\ worker.at = "publish" /\ cache' = worker.content
        /\ UNCHANGED <<cards, stored, mode, fresh, touched>>
        /\ jobs' = [jobs EXCEPT ![worker.job].status = "done"]
        /\ worker' = [Idle EXCEPT !.at = "claim"]
    BY <1>8 DEF PublishSnapshot
  <2>2. worker.at \in Busy /\ worker.job \in Jobs /\ worker.at # "idle"
    BY <1>1, <2>1 DEF Busy
  <2>3. worker'.at = "claim" /\ worker'.at \notin Busy
    BY <2>1, AtRest DEF Busy
  <2>4. /\ jobs'[worker.job].status = "done"
        /\ \A i \in Jobs \ {worker.job} : jobs'[i] = jobs[i]
    BY <1>1, <2>1, <2>2, MemMarked
  <2>5. jobs[worker.job].status = "running" /\ fresh # {}
    BY <2>2 DEF SnapInv, LeftOversFirst
  <2>6. InOrder'
    BY <1>1, <2>1, <2>2, <2>4, <2>5 DEF SnapInv, InOrder
  <2>7. LeftOversFirst'
    <3>1. ASSUME NEW i \in Jobs \ fresh, jobs'[i].status = "pending"
          PROVE  \A k \in fresh : jobs'[k].status = "pending"
      <4>1. jobs[i].status = "pending"
        BY <2>4, <3>1
      <4>2. \A k \in fresh : jobs[k].status = "pending"
        BY <4>1 DEF SnapInv, LeftOversFirst
      <4> QED BY <1>1, <2>4, <2>5, <4>2
    <3> QED BY <2>1, <2>3, <2>5, <3>1 DEF LeftOversFirst
  <2>8. Projected'
    BY <2>1, <2>3 DEF SnapInv, Projected, Projection
  <2> QED BY <2>6, <2>7, <2>8 DEF SnapInv
<1>9. CASE JobFails
  <2>1. PICK st \in {"failed", "pending"}, at \in {"claim", "ending"} :
          /\ worker.at \in Busy /\ worker' = [Idle EXCEPT !.at = at]
          /\ jobs' = [jobs EXCEPT ![worker.job].status = st]
          /\ UNCHANGED <<cards, stored, cache, mode, fresh, touched>>
    BY <1>9 DEF JobFails, Busy
  <2>2. worker.job \in Jobs /\ worker.at # "idle"
    BY <1>1, <2>1 DEF Busy
  <2>3. worker'.at \notin Busy /\ worker'.at # "idle" /\ worker'.at # "publish"
    BY <2>1, AtRest DEF Busy
  <2>4. jobs'[worker.job].status = st /\ \A i \in Jobs \ {worker.job} : jobs'[i] = jobs[i]
    BY <1>1, <2>1, <2>2, MemMarked
  <2>5. jobs[worker.job].status = "running" /\ fresh # {}
    BY <2>1, <2>2 DEF SnapInv, LeftOversFirst
  <2>6. InOrder'
    BY <1>1, <2>1, <2>2, <2>4, <2>5 DEF SnapInv, InOrder
  <2>7. worker.job \notin fresh => \A k \in fresh : jobs'[k].status = "pending"
    BY <1>1, <2>1, <2>2, <2>4 DEF SnapInv, LeftOversFirst
  <2>8. LeftOversFirst'
    <3>1. ASSUME NEW i \in Jobs \ fresh, jobs'[i].status = "pending"
          PROVE  \A k \in fresh : jobs'[k].status = "pending"
      <4>1. CASE worker.job \in fresh
        <5>1. jobs[i].status = "pending"
          BY <2>4, <3>1, <4>1
        <5>2. \A k \in fresh : jobs[k].status = "pending"
          BY <5>1 DEF SnapInv, LeftOversFirst
        <5> QED BY <2>5, <4>1, <5>2
      <4> QED BY <2>7, <4>1
    <3> QED BY <2>1, <2>3, <2>5, <3>1 DEF LeftOversFirst
  <2>9. ~\A k \in fresh : jobs'[k].status = "done"
    BY <2>1, <2>4, <2>5, <2>7
  <2>10. Projected'
    BY <2>1, <2>3, <2>9 DEF Projected
  <2> QED BY <2>6, <2>8, <2>10 DEF SnapInv
<1>10. ASSUME touched' = TRUE, UNCHANGED <<jobs, stored, worker, fresh>> PROVE SnapInv'
  <2>1. Projected'
    BY <1>10 DEF SnapInv, Projected
  <2> QED BY <1>3, <1>10, <2>1 DEF SnapInv
<1>11. ASSUME NEW p \in Proposals, Remember(p) PROVE SnapInv'
  BY <1>10, <1>11 DEF Remember
<1>12. ASSUME NEW S \in SUBSET CardIds, Forget(S) PROVE SnapInv'
  BY <1>10, <1>12 DEF Forget
<1>13. CASE StartMemory
  <2>1. /\ worker' = Idle /\ fresh' = {} /\ UNCHANGED jobs
        /\ stored' = Projection(cards') /\ cache' = stored'
    BY <1>13 DEF StartMemory
  <2>2. worker'.at = "idle" /\ worker'.at \notin Busy
    BY <2>1 DEF Idle, Busy
  <2>3. InOrder'
    BY <2>1 DEF SnapInv, InOrder
  <2>4. LeftOversFirst'
    BY <2>1, <2>2 DEF LeftOversFirst
  <2>5. Projected'
    BY <2>1, <2>2 DEF Projected, Projection
  <2> QED BY <2>3, <2>4, <2>5 DEF SnapInv
<1>14. CASE StopMemory \/ CloseStore
  <2>1. /\ UNCHANGED <<jobs, worker, cards, stored, cache, fresh, touched>>
        /\ mode # "down"
    BY <1>14 DEF StopMemory, CloseStore, memStore
  <2>2. Projected'
    BY <2>1 DEF SnapInv, Projected, Projection
  <2> QED BY <1>3, <2>1, <2>2 DEF SnapInv
<1>15. CASE CrashMemory
  <2>1. worker' = Idle /\ mode' = "down" /\ UNCHANGED <<jobs, fresh>>
    BY <1>15 DEF CrashMemory, memStore
  <2>2. worker'.at = "idle" /\ worker'.at \notin Busy
    BY <2>1 DEF Idle, Busy
  <2>3. LeftOversFirst'
    BY <2>1, <2>2 DEF SnapInv, LeftOversFirst
  <2>4. Projected'
    BY <2>1, <2>2 DEF Projected
  <2> QED BY <1>3, <2>1, <2>3, <2>4 DEF SnapInv
<1>16. CASE Tick \/ UNCHANGED memVars
  BY <1>3, <1>16 DEF Tick, memStore, memVars, SnapInv
<1> QED BY <1>4, <1>5, <1>6, <1>7, <1>8, <1>9, <1>11, <1>12, <1>13, <1>14, <1>15, <1>16
        DEF MemNext, WorkerStep

\* When the worker rests and the jobs of this start are done, the cache is the
\* projection of the cards, whatever jobs an earlier start left, failed or were
\* retried: PruneAndProject and PublishSnapshot run in every job, and a tool is
\* the only one that changes a card after them.
THEOREM SnapshotFollows == MemSpec => []SnapshotFollowsJobs
<1>1. MemInit => MemInv /\ SnapInv
  BY MemInvInit, SnapInvInit
<1>2. (MemInv /\ SnapInv) /\ [MemNext]_memVars => (MemInv /\ SnapInv)'
  <2>1. MemInv /\ [MemNext]_memVars => MemInv'
    BY CardsStep, MemQueueStep, RestStep DEF MemInv
  <2> QED BY <2>1, SnapInvStep
<1>3. SnapInv => SnapshotFollowsJobs
  BY DEF SnapInv, Projected, SnapshotFollowsJobs, Busy
<1> QED BY <1>1, <1>2, <1>3, PTL DEF MemSpec
=============================================================================
