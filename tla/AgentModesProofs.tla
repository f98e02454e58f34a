-------------------------- MODULE AgentModesProofs --------------------------
(***************************************************************************)
(* Proofs about AgentModes: for any budget and any limit of failures, a    *)
(* detour comes back to the mode that was left, the run is bound at most   *)
(* once, maintenance is bounded by the tool calls it can release, and only *)
(* a proven run is completed.                                              *)
(*                                                                         *)
(* The invariant is built in layers.  ModeTyped says which modes may be inside *)
(* which; the other layers are about Work, the mode below maintenance,     *)
(* which entering and leaving maintenance does not change.                 *)
(***************************************************************************)
EXTENDS AgentModes, TLAPS, SequenceTheorems

-----------------------------------------------------------------------------
(* The inductive invariant, in layers.                                     *)

Modes == Places \cup Retrievals \cup RunMaintains \cup ContextMaintains
Checks == {"none", "failed", "passed"}

\* Compaction is inside the call of the model, and nothing else is then.
ModeTyped == ModeTypeOK /\ (turn = "compacting" <=> vm.at = "context.maintain")

\* The mode below maintenance: a place or a retrieval.
Below(m) == IF m.at \in {"run.maintain", "context.maintain"} THEN m.back[1] ELSE m
WorkOf(m) == Below(Below(m))
Work == WorkOf(vm)

\* The release of run context in progress, also while it is compacted.
ReleasingIn(m) ==
  m.at = "run.maintain" \/ (m.at = "context.maintain" /\ m.back[1].at = "run.maintain")
ReleaseOf(m) == IF m.at = "run.maintain" THEN m ELSE m.back[1]

\* The detours come back to the mode that was left, and only a place where
\* something was validated remembers a validation.
Lands ==
  /\ vm.at \in Detours =>
       /\ vm.checked = "none"
       /\ ReleasingIn(vm) => ReleaseOf(vm).checked = "none"
       /\ IF Work.at = "context.retrieve"
          THEN Work.back[1] = left /\ left.checked = "none" ELSE Work = left
  /\ Work.checked # "none" => Work.at = "validation"

\* An attempt that was used, or the second one, is the last one.
BoundOnce ==
  /\ consumed <= 1 /\ policy.attempts <= 2
  /\ consumed = 1 \/ policy.attempts = 2 => policy.unavailable
  /\ bound \/ wrote => engineBound

\* A release costs at most three turns, and then covers the journal.
Bounded ==
  /\ credits <= 3 * journal /\ iteration <= MaxIterations + credits
  /\ turn # "ended" =>
       IF ReleasingIn(vm)
       THEN /\ projection < journal /\ ReleaseOf(vm).tries <= 1
            /\ credits <= 3 * projection + 1 + ReleaseOf(vm).tries
       ELSE credits <= 3 * projection

\* What the modes say of the run is true: that it is proven, or that it works.
Origin == IF Work.at = "context.retrieve" THEN left ELSE Work
ModeMarked ==
  /\ Work.checked = "passed" => proven
  /\ Origin.at # "ENTRY" \/ wrote => operational
Proven == ModeMarked /\ (turn # "ended" => result.status = "running") /\ CompletedIsProven

ModeInv == ModeTyped /\ Lands /\ BoundOnce /\ Bounded /\ Proven

-----------------------------------------------------------------------------
(* Modes.                                                                  *)

\* A sequence of one mode.
LEMMA OneMode ==
    ASSUME NEW S
    PROVE  /\ \A s \in ReturnTo(S) : s[1] \in S
           /\ \A x \in S : <<x>> \in ReturnTo(S)
<1>1. ASSUME NEW s \in ReturnTo(S) PROVE s[1] \in S
  <2>1. s \in Seq(S) /\ Len(s) = 1
    BY DEF ReturnTo
  <2>2. 1 \in 1..Len(s)
    BY <2>1
  <2> QED BY <2>1, <2>2, ElementOfSeq
<1>2. ASSUME NEW x \in S PROVE <<x>> \in ReturnTo(S)
  <2>1. <<x>> \in Seq(S) /\ Len(<<x>>) = 1
    OBVIOUS
  <2> QED BY <2>1 DEF ReturnTo
<1> QED BY <1>1, <1>2

\* The name of a mode tells what it is and what it returns to.
LEMMA ModeFacts ==
    ASSUME NEW m \in Modes
    PROVE  /\ m.at \in ModeNames /\ m.checked \in Checks /\ m.tries \in 0..2
           /\ m.at \notin Detours => m \in Places
           /\ m.at = "context.retrieve" => m \in Retrievals /\ m.back[1] \in Places
           /\ m.at = "run.maintain" =>
                m \in RunMaintains /\ m.back[1] \in Places \cup Retrievals
           /\ m.at = "context.maintain" =>
                m \in ContextMaintains /\ m.back[1] \in Places \cup Retrievals \cup RunMaintains
<1> USE DEF ModeRecord, Checks, ModeNames, Detours, Destinations
<1>1. CASE m \in Places
  BY <1>1 DEF Places
<1>2. CASE m \in Retrievals
  <2>1. m.at = "context.retrieve" /\ m.back \in ReturnTo(Places)
        /\ m.checked \in Checks /\ m.tries \in 0..2
    BY <1>2 DEF Retrievals
  <2> QED BY <1>2, <2>1, OneMode
<1>3. CASE m \in RunMaintains
  <2>1. m.at = "run.maintain" /\ m.back \in ReturnTo(Places \cup Retrievals)
        /\ m.checked \in Checks /\ m.tries \in 0..2
    BY <1>3 DEF RunMaintains
  <2> QED BY <1>3, <2>1, OneMode
<1>4. CASE m \in ContextMaintains
  <2>1. m.at = "context.maintain" /\ m.back \in ReturnTo(Places \cup Retrievals \cup RunMaintains)
        /\ m.checked \in Checks /\ m.tries \in 0..2
    BY <1>4 DEF ContextMaintains
  <2> QED BY <1>4, <2>1, OneMode
<1> QED BY <1>1, <1>2, <1>3, <1>4 DEF Modes

\* Each kind of mode has its names.
LEMMA KindNames ==
    ASSUME NEW m
    PROVE  /\ m \in Places => m.at \in ModeNames \ Detours
           /\ m \in Retrievals => m.at = "context.retrieve"
           /\ m \in RunMaintains => m.at = "run.maintain"
           /\ m \in ContextMaintains => m.at = "context.maintain"
BY DEF Places, Retrievals, RunMaintains, ContextMaintains, ModeRecord

\* A new mode is of its kind.
LEMMA NewMode ==
    ASSUME iteration \in Nat, NEW c \in Checks
    PROVE  /\ \A at \in ModeNames \ Detours : Mode(at, c, <<>>) \in Places
           /\ \A m \in Places : Mode("context.retrieve", c, <<m>>) \in Retrievals
           /\ \A m \in Places \cup Retrievals : Mode("run.maintain", c, <<m>>) \in RunMaintains
           /\ \A m \in Places \cup Retrievals \cup RunMaintains :
                Mode("context.maintain", c, <<m>>) \in ContextMaintains
<1> USE DEF Mode, ModeRecord, Checks
<1>1. \A at \in ModeNames \ Detours : Mode(at, c, <<>>) \in Places
  BY DEF Places
<1>2. ASSUME NEW m \in Places PROVE Mode("context.retrieve", c, <<m>>) \in Retrievals
  <2>1. <<m>> \in ReturnTo(Places)
    BY OneMode
  <2> QED BY <2>1 DEF Retrievals
<1>3. ASSUME NEW m \in Places \cup Retrievals PROVE Mode("run.maintain", c, <<m>>) \in RunMaintains
  <2>1. <<m>> \in ReturnTo(Places \cup Retrievals)
    BY OneMode
  <2> QED BY <2>1 DEF RunMaintains
<1>4. ASSUME NEW m \in Places \cup Retrievals \cup RunMaintains
      PROVE  Mode("context.maintain", c, <<m>>) \in ContextMaintains
  <2>1. <<m>> \in ReturnTo(Places \cup Retrievals \cup RunMaintains)
    BY OneMode
  <2> QED BY <2>1 DEF ContextMaintains
<1> QED BY <1>1, <1>2, <1>3, <1>4

-----------------------------------------------------------------------------
(* Types.                                                                  *)

FlagsTyped ==
  /\ operational \in BOOLEAN /\ bound \in BOOLEAN /\ engineBound \in BOOLEAN
  /\ observed \in BOOLEAN /\ proven \in BOOLEAN /\ wrote \in BOOLEAN
CountsTyped ==
  /\ policy \in [attempts : Nat, unavailable : BOOLEAN]
  /\ iteration \in Nat /\ credits \in Nat /\ consumed \in Nat
  /\ journal \in Nat /\ projection \in 0..journal
TurnTyped ==
  /\ strikes \in Nat /\ open \subseteq Scopes
  /\ turn \in {"top", "measuring", "compacting", "deciding", "ended"}
  /\ result \in [status : {"running", "completed", "stuck", "failed"}, by : Endings]

\* The types, taken apart.
LEMMA TypeParts ==
  ModeTypeOK <=> vm \in Modes /\ left \in Places /\ FlagsTyped /\ CountsTyped /\ TurnTyped
BY DEF ModeTypeOK, Modes, FlagsTyped, CountsTyped, TurnTyped

\* A repair counts one more failure, and ends the run at most as failed.
LEMMA StrikeEffect ==
    ASSUME TurnTyped, NEW scope \in Scopes, NEW guarded \in BOOLEAN, Strike(scope, guarded)
    PROVE  /\ TurnTyped'
           /\ \/ turn' = "top" /\ result' = result
              \/ turn' = "ended" /\ result' = [status |-> "failed", by |-> "guard"]
BY DEF TurnTyped, Strike, End, Continue, Endings

\* A success resolves failures and continues.
LEMMA SucceedEffect ==
    ASSUME TurnTyped, NEW scopes, Succeed(scopes)
    PROVE  TurnTyped' /\ turn' = "top" /\ result' = result /\ open' \subseteq open
BY DEF TurnTyped, Succeed, Continue

\* Entering maintenance, or leaving it.
LEMMA EnterEffect ==
    ASSUME ModeTyped, NEW at \in {"run.maintain", "context.maintain"}, vm.at # "context.maintain",
           vm.at = "run.maintain" => at = "context.maintain",
           vm' = EnterDetour(at), left' = Leaving(vm)
    PROVE  /\ vm' \in Modes /\ left' \in Places /\ vm'.at = at /\ vm'.checked = "none"
           /\ vm'.back[1] = vm /\ vm'.tries = 0
           /\ left' = IF vm.at \in Detours THEN left ELSE vm
<1>1. vm \in Modes /\ left \in Places /\ iteration \in Nat
  BY DEF ModeTyped, ModeTypeOK, Modes
<1>2. vm.at \in ModeNames /\ (vm.at \notin Detours => vm \in Places)
      /\ (vm.at = "context.retrieve" => vm \in Retrievals)
      /\ (vm.at = "run.maintain" => vm \in RunMaintains)
  BY <1>1, ModeFacts
<1>3. vm \in Places \cup Retrievals \cup RunMaintains
      /\ (at = "run.maintain" => vm \in Places \cup Retrievals)
  BY <1>2 DEF ModeNames, Detours, Destinations
<1>4. vm' \in Modes
  BY <1>1, <1>3, NewMode DEF EnterDetour, Modes, Checks
<1>5. vm'.at = at /\ vm'.checked = "none" /\ vm'.back[1] = vm /\ vm'.tries = 0
  BY DEF EnterDetour, Mode
<1> QED BY <1>1, <1>2, <1>4, <1>5 DEF Leaving

\* The mode below maintenance is a mode that is not compaction.
LEMMA ExitEffect ==
    ASSUME ModeTyped, vm.at \in {"run.maintain", "context.maintain"}, vm' = RestoreMaintain
    PROVE  /\ vm' \in Modes /\ vm'.at # "context.maintain"
           /\ vm.at = "run.maintain" => vm'.at # "run.maintain"
<1>1. vm \in Modes
  BY DEF ModeTyped, ModeTypeOK, Modes
<1>2. vm' \in Places \cup Retrievals \cup RunMaintains
      /\ (vm.at = "run.maintain" => vm' \in Places \cup Retrievals)
  BY <1>1, ModeFacts DEF RestoreMaintain
<1>3. vm' \in Modes
  BY <1>2 DEF Modes
<1> QED BY <1>2, <1>3, KindNames DEF Detours

\* Where there are transitions there is a place.
LEMMA AllowedPlace ==
    ASSUME ModeTyped, NEW to \in Allowed(vm.at)
    PROVE  /\ vm \in Places /\ vm.at \notin Detours
           /\ (vm.at = "validation" => to # "context.retrieve")
           /\ to = "resolve" => vm.at = "workstream.route"
           /\ to # "resolve" => to \in ModeNames /\ (to \in Detours => to = "context.retrieve")
<1>1. vm \in Modes /\ vm.at \in ModeNames
  BY ModeFacts DEF ModeTyped, ModeTypeOK, Modes
<1>2. vm.at \notin Detours
  BY DEF Allowed, Graph, Detours
<1>3. vm \in Places
  BY <1>1, <1>2, ModeFacts
<1>4. vm.at = "validation" => to # "context.retrieve"
  BY <1>2 DEF Allowed, Graph, Detours
<1>5. to = "resolve" => vm.at = "workstream.route"
  BY <1>1, <1>2 DEF Allowed, Graph, Detours, ModeNames, Destinations
<1>6. to # "resolve" => to \in ModeNames /\ (to \in Detours => to = "context.retrieve")
  BY <1>1, <1>2 DEF Allowed, Graph, Detours, ModeNames, Destinations
<1> QED BY <1>2, <1>3, <1>4, <1>5, <1>6

\* A transition enters a place, or a retrieval that returns to this mode.
LEMMA TransitionEffect ==
    ASSUME ModeTyped, NEW to \in Allowed(vm.at) \ {"resolve"}, NEW c \in Checks,
           vm' = ApplyTransition(to, c)
    PROVE  /\ vm' \in Modes /\ vm'.at = to /\ vm'.checked = c
           /\ to = "context.retrieve" => vm'.back[1] = vm
<1>1. iteration \in Nat
  BY DEF ModeTyped, ModeTypeOK
<1>2. vm \in Places /\ to \in ModeNames /\ (to \in Detours => to = "context.retrieve")
  BY AllowedPlace
<1>3. CASE to = "context.retrieve"
  BY <1>1, <1>2, <1>3, NewMode DEF ApplyTransition, Modes, Mode
<1>4. CASE to # "context.retrieve"
  BY <1>1, <1>2, <1>4, NewMode DEF ApplyTransition, Modes, Mode
<1> QED BY <1>3, <1>4

\* A visit of resolve keeps the place.
LEMMA ResolveEffect ==
    ASSUME ModeTyped, "resolve" \in Allowed(vm.at), vm' = ResolveVisit
    PROVE  vm' \in Places /\ vm'.at = "workstream.route" /\ vm'.checked = vm.checked
<1>1. vm \in Places /\ vm.at = "workstream.route" /\ iteration \in Nat
  BY AllowedPlace DEF ModeTyped, ModeTypeOK
<1> DEFINE visit == [vm EXCEPT !.since = iteration]
<1>2. visit \in Places /\ visit.at = vm.at /\ visit.checked = vm.checked
  BY <1>1 DEF Places, ModeRecord
<1> QED BY <1>1, <1>2 DEF ResolveVisit

\* Binding enters execute.
LEMMA BindEffect ==
    ASSUME ModeTyped, vm' = ApplyTransition("execute", "none")
    PROVE  vm' \in Places /\ vm'.at = "execute" /\ vm'.checked = "none"
<1>1. iteration \in Nat
  BY DEF ModeTyped, ModeTypeOK
<1>2. "execute" \in ModeNames \ Detours /\ "none" \in Checks
  BY DEF ModeNames, Destinations, Detours, Checks
<1> QED BY <1>1, <1>2, NewMode DEF ApplyTransition, Mode

\* A retrieval returns to the place that was left, without its validation.
LEMMA LoadEffect ==
    ASSUME ModeTyped, vm.at = "context.retrieve", vm' = RestoreRetrieve
    PROVE  /\ vm' \in Places /\ vm'.at = vm.back[1].at /\ vm'.checked = "none"
           /\ vm.back[1].checked = "none" => vm' = vm.back[1]
<1>1. vm \in Modes
  BY DEF ModeTyped, ModeTypeOK, Modes
<1>2. vm.back[1] \in Places
  BY <1>1, ModeFacts
<1>3. ASSUME NEW m \in Places
      PROVE  LET new == [m EXCEPT !.checked = "none"]
             IN  /\ new \in Places /\ new.at = m.at /\ new.checked = "none"
                 /\ m.checked = "none" => new = m
  BY DEF Places, ModeRecord
<1> DEFINE new == [vm.back[1] EXCEPT !.checked = "none"]
<1>4. new \in Places /\ new.at = vm.back[1].at /\ new.checked = "none"
      /\ (vm.back[1].checked = "none" => new = vm.back[1])
  BY <1>2, <1>3
<1> QED BY <1>4 DEF RestoreRetrieve

\* A rejected selection counts one try.
LEMMA TryEffect ==
    ASSUME ModeTyped, NEW t \in 0..2, vm.at = "run.maintain", vm' = [vm EXCEPT !.tries = t]
    PROVE  /\ vm' \in Modes /\ vm'.at = vm.at /\ vm'.checked = vm.checked
           /\ vm'.tries = t /\ vm'.back = vm.back
<1>1. vm \in Modes
  BY DEF ModeTyped, ModeTypeOK, Modes
<1>2. vm \in RunMaintains
  BY <1>1, ModeFacts
<1> DEFINE new == [vm EXCEPT !.tries = t]
<1>3. /\ new \in RunMaintains /\ new.at = vm.at /\ new.checked = vm.checked
      /\ new.tries = t /\ new.back = vm.back
  BY <1>2 DEF RunMaintains, ModeRecord
<1> QED BY <1>3 DEF Modes

\* The types hold at the start ...
LEMMA ModeTypedInit == ModeInit => ModeTyped
<1> SUFFICES ASSUME ModeInit PROVE ModeTyped
  OBVIOUS
<1>1. EntryMode \in Places
  BY DEF EntryMode, Places, ModeRecord, ModeNames, Destinations, Detours
<1>2. vm \in Modes /\ left \in Places /\ vm.at # "context.maintain"
  BY <1>1 DEF ModeInit, Modes, EntryMode
<1>3. FlagsTyped
  BY DEF ModeInit, FlagsTyped
<1>4. CountsTyped
  BY DEF ModeInit, CountsTyped
<1>5. TurnTyped
  BY DEF ModeInit, TurnTyped, Endings
<1> QED BY <1>2, <1>3, <1>4, <1>5, TypeParts DEF ModeInit, ModeTyped

\* ... and every action keeps those of the modes, of the run and of the turn.
ModesTyped == vm \in Modes /\ left \in Places /\ (turn = "compacting" <=> vm.at = "context.maintain")

\* The edges of a turn and of a run.
LEMMA TurnEdgesTyped ==
    ASSUME ModeTyped, BeginTurn \/ RunLimit \/ DecisionFails
    PROVE  ModesTyped' /\ FlagsTyped' /\ CountsTyped' /\ TurnTyped'
<1>0. ModesTyped /\ FlagsTyped /\ CountsTyped /\ TurnTyped
  BY TypeParts DEF ModeTyped, ModesTyped
<1> USE DEF BeginTurn, RunLimit, DecisionFails, Deciding, KeepMode, KeepBudget, runVars, End
<1>1. ModesTyped'
  BY <1>0 DEF ModesTyped
<1>2. FlagsTyped'
  BY <1>0 DEF FlagsTyped
<1>3. CountsTyped'
  BY <1>0 DEF CountsTyped
<1>4. TurnTyped'
  BY <1>0 DEF TurnTyped, Endings
<1> QED BY <1>1, <1>2, <1>3, <1>4
\* Compaction.
LEMMA CompactionTyped ==
    ASSUME ModeTyped, EnterContextMaintain \/ ExitContextMaintain
    PROVE  ModesTyped' /\ FlagsTyped' /\ CountsTyped' /\ TurnTyped'
<1>0. ModesTyped /\ FlagsTyped /\ CountsTyped /\ TurnTyped
  BY TypeParts DEF ModeTyped, ModesTyped
<1>1. CASE EnterContextMaintain
  <2> USE <1>1 DEF EnterContextMaintain, runVars
  <2>1. vm.at # "context.maintain"
    BY DEF ModeTyped
  <2>2. vm' \in Modes /\ left' \in Places /\ vm'.at = "context.maintain"
    BY <2>1, EnterEffect
  <2>3. ModesTyped'
    BY <2>2 DEF ModesTyped
  <2>4. FlagsTyped' /\ CountsTyped' /\ TurnTyped'
    BY <1>0 DEF FlagsTyped, CountsTyped, TurnTyped
  <2> QED BY <2>3, <2>4
<1>2. CASE ExitContextMaintain
  <2> USE <1>2 DEF ExitContextMaintain
  <2>1. vm' \in Modes /\ vm'.at # "context.maintain"
    BY ExitEffect DEF ModeTyped
  <2>2. ModesTyped'
    BY <1>0, <2>1 DEF ModesTyped
  <2>3. FlagsTyped'
    BY <1>0 DEF FlagsTyped
  <2>4. CountsTyped' /\ TurnTyped'
    BY <1>0 DEF CountsTyped, TurnTyped
  <2> QED BY <2>2, <2>3, <2>4
<1> QED BY <1>1, <1>2
\* The release of run context.
LEMMA ReleaseTyped ==
    ASSUME ModeTyped, EnterRunMaintain \/ MaintainRunContext \/ CheckpointWorkState
    PROVE  ModesTyped' /\ FlagsTyped' /\ CountsTyped' /\ TurnTyped'
<1>0. ModesTyped /\ FlagsTyped /\ CountsTyped /\ TurnTyped
  BY TypeParts DEF ModeTyped, ModesTyped
<1>1. turn # "compacting" /\ vm.at # "context.maintain"
  BY DEF EnterRunMaintain, MaintainRunContext, CheckpointWorkState, Deciding, ModeTyped
<1>2. CASE EnterRunMaintain
  <2> USE <1>2 DEF EnterRunMaintain, runVars, Continue
  <2>1. vm' \in Modes /\ left' \in Places /\ vm'.at = "run.maintain"
    BY <1>1, EnterEffect
  <2>2. ModesTyped'
    BY <2>1 DEF ModesTyped
  <2>3. FlagsTyped' /\ CountsTyped' /\ TurnTyped'
    BY <1>0 DEF FlagsTyped, CountsTyped, TurnTyped
  <2> QED BY <2>2, <2>3
<1>3. CASE MaintainRunContext
  <2>1. vm' \in Modes /\ vm'.at # "context.maintain"
    <3>1. CASE vm' = RestoreMaintain
      BY <1>3, <3>1, ExitEffect DEF MaintainRunContext
    <3>2. CASE vm' = [vm EXCEPT !.tries = 1]
      BY <1>3, <3>2, TryEffect DEF MaintainRunContext
    <3>3. CASE vm' = [vm EXCEPT !.tries = 2]
      BY <1>3, <3>3, TryEffect DEF MaintainRunContext
    <3>4. CASE UNCHANGED vm
      BY <1>0, <1>1, <3>4 DEF ModesTyped
    <3> QED BY <1>3, <3>1, <3>2, <3>3, <3>4 DEF MaintainRunContext
  <2>2. TurnTyped' /\ turn' \in {"top", "ended"}
    <3>1. CASE Strike("navigation", FALSE)
      BY <1>0, <3>1, StrikeEffect DEF Scopes
    <3>2. CASE UNCHANGED <<strikes, open>> /\ (Continue \/ End("stuck", "maintenance") \/ End("failed", "threw"))
      BY <1>0, <3>2 DEF TurnTyped, Continue, End, Endings
    <3> QED BY <1>3, <3>1, <3>2 DEF MaintainRunContext
  <2>3. ModesTyped'
    BY <1>0, <1>3, <2>1, <2>2 DEF ModesTyped, MaintainRunContext
  <2>4. bound' \in BOOLEAN
    BY <1>0, <1>3 DEF MaintainRunContext, FlagsTyped
  <2>5. FlagsTyped'
    BY <1>0, <1>3, <2>4 DEF MaintainRunContext, FlagsTyped
  <2>6. projection' \in 0..journal
    <3>1. projection' = journal \/ projection' = projection
      BY <1>3 DEF MaintainRunContext
    <3> QED BY <1>0, <3>1 DEF CountsTyped
  <2>7. CountsTyped'
    BY <1>0, <1>3, <2>6 DEF MaintainRunContext, CountsTyped
  <2> QED BY <2>2, <2>3, <2>5, <2>7
<1>4. CASE CheckpointWorkState
  <2> USE <1>4 DEF CheckpointWorkState, KeepMode, KeepBudget
  <2>1. TurnTyped' /\ turn' \in {"top", "ended"}
    <3>1. CASE Strike("navigation", FALSE)
      BY <1>0, <3>1, StrikeEffect DEF Scopes
    <3>2. CASE UNCHANGED <<strikes, open>> /\ Continue
      BY <1>0, <3>2 DEF TurnTyped, Continue
    <3> QED BY <3>1, <3>2
  <2>2. ModesTyped'
    BY <1>0, <1>1, <2>1 DEF ModesTyped
  <2>3. bound' \in BOOLEAN
    BY <1>0 DEF FlagsTyped
  <2>4. FlagsTyped' /\ CountsTyped'
    BY <1>0, <2>3 DEF FlagsTyped, CountsTyped
  <2> QED BY <2>1, <2>2, <2>4
<1> QED BY <1>2, <1>3, <1>4
\* Answers, and the repairs that keep the mode.
LEMMA AnswerTyped ==
    ASSUME ModeTyped, Reply \/ Stop \/ RejectTransition \/ RepairAction
    PROVE  ModesTyped' /\ FlagsTyped' /\ CountsTyped' /\ TurnTyped'
<1>0. ModesTyped /\ FlagsTyped /\ CountsTyped /\ TurnTyped
  BY TypeParts DEF ModeTyped, ModesTyped
<1>1. /\ turn # "compacting" /\ vm.at # "context.maintain"
      /\ UNCHANGED <<vm, operational, left, runVars, iteration, credits>>
  BY DEF Reply, Stop, RejectTransition, RepairAction, Deciding, ModeTyped, KeepMode, KeepBudget
<1>2. TurnTyped' /\ turn' \in {"top", "ended"}
  <2>1. ASSUME NEW scope \in Scopes, Strike(scope, TRUE) PROVE TurnTyped' /\ turn' \in {"top", "ended"}
    BY <1>0, <2>1, StrikeEffect
  <2>2. CASE Reply
    <3>1. PICK scope \in ReplyRepairs :
            IF scope = "none"
            THEN /\ \E status \in {"completed", "failed"} : End(status, "reply")
                 /\ UNCHANGED <<strikes, open>>
            ELSE Strike(scope, TRUE)
      BY <2>2 DEF Reply
    <3>2. scope \in Scopes \cup {"none"}
      BY DEF ReplyRepairs, Scopes
    <3>3. CASE scope = "none"
      BY <1>0, <3>1, <3>3 DEF TurnTyped, End, Endings
    <3> QED BY <2>1, <3>1, <3>2, <3>3
  <2>3. CASE Stop
    <3>1. CASE Strike("validation", TRUE)
      BY <2>1, <3>1 DEF Scopes
    <3>2. CASE /\ \E status \in {"completed", "stuck", "failed"} : End(status, "stop")
               /\ strikes' = 0 /\ open' = {}
      BY <1>0, <3>2 DEF TurnTyped, End, Endings
    <3> QED BY <2>3, <3>1, <3>2 DEF Stop
  <2>4. CASE RejectTransition \/ RepairAction
    BY <2>1, <2>4 DEF RejectTransition, RepairAction, Scopes
  <2> QED BY <2>2, <2>3, <2>4
<1>3. ModesTyped'
  BY <1>0, <1>1, <1>2 DEF ModesTyped
<1>4. FlagsTyped' /\ CountsTyped'
  BY <1>0, <1>1 DEF FlagsTyped, CountsTyped, runVars
<1> QED BY <1>2, <1>3, <1>4
\* Transitions.
LEMMA ModeTransitionTyped ==
    ASSUME ModeTyped, NEW to \in Destinations, TransitionMode(to)
    PROVE  ModesTyped' /\ FlagsTyped' /\ CountsTyped' /\ TurnTyped'
<1>0. ModesTyped /\ FlagsTyped /\ CountsTyped /\ TurnTyped
  BY TypeParts DEF ModeTyped, ModesTyped
<1>1. PICK checked \in IF to = "validation" THEN {"passed", "failed"} ELSE {"none"} :
        /\ vm' = ApplyTransition(to, checked)
        /\ Succeed(IF checked = "passed" THEN {"navigation", "validation"} ELSE {"navigation"})
        /\ proven' = (proven \/ checked = "passed")
  BY DEF TransitionMode
<1>2. checked \in Checks /\ to \in Allowed(vm.at) \ {"resolve"}
  BY DEF Checks, TransitionMode
<1>3. vm' \in Modes /\ vm'.at = to /\ vm \in Places
  BY <1>1, <1>2, TransitionEffect, AllowedPlace
<1>4. to # "context.maintain"
  BY DEF Destinations
<1>5. TurnTyped' /\ turn' = "top"
  BY <1>0, <1>1, SucceedEffect
<1>6. ModesTyped'
  BY <1>0, <1>3, <1>4, <1>5 DEF ModesTyped, TransitionMode
<1>7. FlagsTyped'
  BY <1>0, <1>1 DEF FlagsTyped, TransitionMode
<1>8. CountsTyped'
  BY <1>0 DEF CountsTyped, TransitionMode, KeepBudget
<1> QED BY <1>5, <1>6, <1>7, <1>8
\* The attempt to bind the run.
LEMMA ResolveTyped ==
    ASSUME ModeTyped, ResolveRejected \/ ResolveAsks \/ ResolveFails \/ ResolveBinds
    PROVE  ModesTyped' /\ FlagsTyped' /\ CountsTyped' /\ TurnTyped'
<1>0. ModesTyped /\ FlagsTyped /\ CountsTyped /\ TurnTyped
  BY TypeParts DEF ModeTyped, ModesTyped
<1>1. AtResolve
  BY DEF ResolveRejected, ResolveAsks, ResolveFails, ResolveBinds
<1>2. "resolve" \in Allowed(vm.at) /\ UNCHANGED left
  BY <1>1 DEF AtResolve
<1>3. vm' \in Modes /\ vm'.at # "context.maintain"
  <2>1. CASE vm' = ResolveVisit
    BY <1>2, <2>1, ResolveEffect DEF Modes
  <2>2. CASE vm' = ApplyTransition("execute", "none")
    BY <2>2, BindEffect DEF Modes
  <2> QED BY <2>1, <2>2 DEF ResolveRejected, ResolveAsks, ResolveFails, ResolveBinds
<1>4. TurnTyped' /\ turn' \in {"top", "ended"}
  <2>1. CASE \E scope \in {"navigation", "binding"}, guarded \in BOOLEAN : Strike(scope, guarded)
    BY <1>0, <2>1, StrikeEffect DEF Scopes
  <2>2. CASE ResolveAsks
    BY <1>0, <2>2 DEF ResolveAsks, TurnTyped, End, Endings
  <2>3. CASE Succeed({"navigation", "binding"})
    BY <1>0, <2>3, SucceedEffect
  <2> QED BY <2>1, <2>2, <2>3 DEF ResolveRejected, ResolveAsks, ResolveFails, ResolveBinds
<1>5. ModesTyped'
  BY <1>0, <1>2, <1>3, <1>4 DEF ModesTyped
<1>6. FlagsTyped'
  <2>1. engineBound' \in BOOLEAN /\ bound' \in BOOLEAN
    BY <1>0 DEF ResolveRejected, ResolveAsks, ResolveFails, ResolveBinds, FlagsTyped
  <2> QED BY <1>0, <1>1, <2>1 DEF FlagsTyped, AtResolve
<1>7. CountsTyped'
  <2>1. policy' \in [attempts : Nat, unavailable : BOOLEAN] /\ consumed' \in Nat
    <3>1. \/ policy' = policy /\ consumed' = consumed
          \/ \E used \in BOOLEAN : RecordAttempt(used) /\ consumed' \in {consumed, consumed + 1}
      BY DEF ResolveRejected, ResolveAsks, ResolveFails, ResolveBinds
    <3>2. ASSUME NEW used \in BOOLEAN, RecordAttempt(used)
          PROVE  policy' \in [attempts : Nat, unavailable : BOOLEAN]
      BY <1>0, <3>2 DEF RecordAttempt, CountsTyped
    <3> QED BY <1>0, <3>1, <3>2 DEF CountsTyped
  <2> QED BY <1>0, <1>1, <2>1 DEF CountsTyped, AtResolve, KeepBudget
<1> QED BY <1>4, <1>5, <1>6, <1>7
\* Tools.
LEMMA ToolTyped ==
    ASSUME ModeTyped, (\E writes \in BOOLEAN : RunStep(writes)) \/ LoadContext
    PROVE  ModesTyped' /\ FlagsTyped' /\ CountsTyped' /\ TurnTyped'
<1>0. ModesTyped /\ FlagsTyped /\ CountsTyped /\ TurnTyped
  BY TypeParts DEF ModeTyped, ModesTyped
<1>1. CASE \E writes \in BOOLEAN : RunStep(writes)
  <2>1. PICK writes \in BOOLEAN : RunStep(writes)
    BY <1>1
  <2> USE <2>1
  <2>2. turn # "compacting" /\ vm.at # "context.maintain"
    BY DEF RunStep, Deciding, ModeTyped
  <2>3. TurnTyped' /\ turn' \in {"top", "ended"}
    <3>1. CASE Succeed({"action"})
      BY <1>0, <3>1, SucceedEffect
    <3>2. CASE Strike("action", TRUE)
      BY <1>0, <3>2, StrikeEffect DEF Scopes
    <3>3. CASE End("failed", "threw") /\ UNCHANGED <<strikes, open>>
      BY <1>0, <3>3 DEF TurnTyped, End, Endings
    <3> QED BY <3>1, <3>2, <3>3 DEF RunStep
  <2>4. ModesTyped'
    BY <1>0, <2>2, <2>3 DEF ModesTyped, RunStep, KeepMode
  <2>5. bound' \in BOOLEAN /\ observed' \in BOOLEAN
    BY <1>0 DEF RunStep, FlagsTyped
  <2>6. wrote' \in BOOLEAN /\ proven' \in BOOLEAN
    BY DEF RunStep
  <2>7. FlagsTyped'
    BY <1>0, <2>5, <2>6 DEF FlagsTyped, RunStep, KeepMode
  <2>8. CountsTyped'
    BY <1>0 DEF CountsTyped, RunStep, KeepBudget
  <2> QED BY <2>3, <2>4, <2>7, <2>8
<1>2. CASE LoadContext
  <2> USE <1>2
  <2>1. turn # "compacting" /\ vm.at = "context.retrieve"
    BY DEF LoadContext, Deciding
  <2>2. vm' \in Modes /\ vm'.at # "context.maintain"
    <3>1. CASE vm' = RestoreRetrieve
      BY <2>1, <3>1, LoadEffect, KindNames DEF Modes, Detours
    <3>2. CASE UNCHANGED vm
      BY <1>0, <2>1, <3>2 DEF ModesTyped
    <3> QED BY <3>1, <3>2 DEF LoadContext
  <2>3. TurnTyped' /\ turn' \in {"top", "ended"}
    <3>1. CASE Succeed({})
      BY <1>0, <3>1, SucceedEffect
    <3>2. CASE Strike("action", TRUE)
      BY <1>0, <3>2, StrikeEffect DEF Scopes
    <3>3. CASE End("failed", "threw") /\ UNCHANGED <<strikes, open>>
      BY <1>0, <3>3 DEF TurnTyped, End, Endings
    <3> QED BY <3>1, <3>2, <3>3 DEF LoadContext
  <2>4. ModesTyped'
    BY <1>0, <2>2, <2>3 DEF ModesTyped, LoadContext
  <2>5. FlagsTyped' /\ CountsTyped'
    BY <1>0 DEF FlagsTyped, CountsTyped, LoadContext, KeepBudget
  <2> QED BY <2>3, <2>4, <2>5
<1> QED BY <1>1, <1>2
\* Every step keeps the types.
LEMMA ModeTypedStep == ASSUME ModeTyped, [ModeNext]_modeVars PROVE ModeTyped'
<1>1. ASSUME ModeNext PROVE ModesTyped' /\ FlagsTyped' /\ CountsTyped' /\ TurnTyped'
  BY <1>1, TurnEdgesTyped, CompactionTyped, ReleaseTyped, AnswerTyped, ModeTransitionTyped,
     ResolveTyped, ToolTyped DEF ModeNext
<1>2. ASSUME ModesTyped' /\ FlagsTyped' /\ CountsTyped' /\ TurnTyped' PROVE ModeTyped'
  BY <1>2 DEF ModeTyped, ModeTypeOK, ModesTyped, Modes, FlagsTyped, CountsTyped, TurnTyped
<1>3. CASE UNCHANGED modeVars
  BY <1>3 DEF modeVars, runVars, loopVars, ModeTyped, ModeTypeOK
<1> QED BY <1>1, <1>2, <1>3

-----------------------------------------------------------------------------
(* What is below maintenance.                                              *)

\* The mode below maintenance is a place or a retrieval.
LEMMA WorkFacts ==
    ASSUME NEW m \in Modes
    PROVE  /\ WorkOf(m) \in Places \cup Retrievals
           /\ m.at \notin {"run.maintain", "context.maintain"} => WorkOf(m) = m /\ ~ReleasingIn(m)
           /\ m.at = "run.maintain" =>
                WorkOf(m) = m.back[1] /\ ReleasingIn(m) /\ ReleaseOf(m) = m
           /\ m.at = "context.maintain" =>
                /\ WorkOf(m) = Below(m.back[1]) /\ WorkOf(m) = WorkOf(m.back[1])
                /\ ReleasingIn(m) <=> ReleasingIn(m.back[1])
                /\ ReleasingIn(m) => ReleaseOf(m) = ReleaseOf(m.back[1])
           /\ m.at \notin Detours => WorkOf(m) \in Places
           /\ m.at = "context.retrieve" => WorkOf(m) \in Retrievals
<1> USE DEF WorkOf, ReleasingIn, ReleaseOf
<1>1. CASE m.at \notin {"run.maintain", "context.maintain"}
  <2>1. WorkOf(m) = m /\ ~ReleasingIn(m)
    BY <1>1 DEF Below
  <2>2. m.at \notin Detours => m \in Places
    BY ModeFacts
  <2>3. m.at = "context.retrieve" => m \in Retrievals
    BY ModeFacts
  <2> QED BY <1>1, <2>1, <2>2, <2>3 DEF Detours
<1>2. CASE m.at = "run.maintain"
  <2>1. m.back[1] \in Places \cup Retrievals
    BY <1>2, ModeFacts
  <2>2. m.back[1].at \notin {"run.maintain", "context.maintain"}
    BY <2>1, KindNames DEF Detours
  <2> QED BY <1>2, <2>1, <2>2 DEF Below, Detours
<1>3. CASE m.at = "context.maintain"
  <2>1. m.back[1] \in Places \cup Retrievals \cup RunMaintains
    BY <1>3, ModeFacts
  <2>2. m.back[1].at # "context.maintain"
    BY <2>1, KindNames DEF Detours
  <2>3. CASE m.back[1].at = "run.maintain"
    <3>1. m.back[1] \in Modes /\ m.back[1].back[1] \in Places \cup Retrievals
      BY <2>1, <2>3, ModeFacts DEF Modes
    <3>2. m.back[1].back[1].at \notin {"run.maintain", "context.maintain"}
      BY <3>1, KindNames DEF Detours
    <3> QED BY <1>3, <2>3, <3>1, <3>2 DEF Below, Detours
  <2>4. CASE m.back[1].at # "run.maintain"
    <3>1. m.back[1] \in Places \cup Retrievals
      BY <2>1, <2>4, KindNames
    <3> QED BY <1>3, <2>2, <2>4, <3>1 DEF Below, Detours
  <2> QED BY <2>3, <2>4
<1> QED BY <1>1, <1>2, <1>3

\* Entering maintenance keeps what is below.
LEMMA EnterWork ==
    ASSUME ModeTyped, NEW at \in {"run.maintain", "context.maintain"}, vm.at # "context.maintain",
           vm.at = "run.maintain" => at = "context.maintain",
           vm' = EnterDetour(at), left' = Leaving(vm)
    PROVE  /\ Work' = Work
           /\ at = "run.maintain" => ReleasingIn(vm') /\ ReleaseOf(vm') = vm'
           /\ at = "context.maintain" =>
                /\ ReleasingIn(vm') <=> ReleasingIn(vm)
                /\ ReleasingIn(vm') => ReleaseOf(vm') = ReleaseOf(vm)
<1>1. vm \in Modes
  BY DEF ModeTyped, ModeTypeOK, Modes
<1>2. vm' \in Modes /\ vm'.at = at /\ vm'.back[1] = vm
  BY EnterEffect
<1>3. CASE at = "run.maintain"
  <2>1. WorkOf(vm') = vm'.back[1] /\ ReleasingIn(vm') /\ ReleaseOf(vm') = vm'
    BY <1>2, <1>3, WorkFacts
  <2>2. WorkOf(vm) = vm
    BY <1>1, <1>3, WorkFacts
  <2> QED BY <1>2, <1>3, <2>1, <2>2 DEF Work
<1>4. CASE at = "context.maintain"
  BY <1>2, <1>4, WorkFacts DEF Work
<1> QED BY <1>3, <1>4

\* Leaving it keeps what is below.
LEMMA ExitWork ==
    ASSUME ModeTyped, vm.at \in {"run.maintain", "context.maintain"}, vm' = RestoreMaintain
    PROVE  /\ Work' = Work
           /\ vm.at = "run.maintain" => ~ReleasingIn(vm')
           /\ vm.at = "context.maintain" =>
                /\ ReleasingIn(vm') <=> ReleasingIn(vm)
                /\ ReleasingIn(vm) => ReleaseOf(vm') = ReleaseOf(vm)
<1>1. vm \in Modes /\ vm' = vm.back[1]
  BY DEF ModeTyped, ModeTypeOK, Modes, RestoreMaintain
<1>2. vm' \in Modes /\ vm'.at # "context.maintain" /\ (vm.at = "run.maintain" => vm'.at # "run.maintain")
  BY ExitEffect
<1>3. CASE vm.at = "run.maintain"
  <2>1. WorkOf(vm) = vm'
    BY <1>1, <1>3, WorkFacts
  <2>2. WorkOf(vm') = vm' /\ ~ReleasingIn(vm')
    BY <1>2, <1>3, WorkFacts
  <2> QED BY <1>3, <2>1, <2>2 DEF Work
<1>4. CASE vm.at = "context.maintain"
  BY <1>1, <1>4, WorkFacts DEF Work
<1> QED BY <1>3, <1>4

\* So does a rejected selection.
LEMMA TryWork ==
    ASSUME ModeTyped, NEW t \in 0..2, vm.at = "run.maintain", vm' = [vm EXCEPT !.tries = t]
    PROVE  Work' = Work /\ ReleasingIn(vm') /\ ReleaseOf(vm') = vm'
<1>1. vm \in Modes
  BY DEF ModeTyped, ModeTypeOK, Modes
<1>2. vm' \in Modes /\ vm'.at = vm.at /\ vm'.back = vm.back
  BY TryEffect
<1>3. WorkOf(vm) = vm.back[1]
  BY <1>1, WorkFacts
<1>4. WorkOf(vm') = vm'.back[1] /\ ReleasingIn(vm') /\ ReleaseOf(vm') = vm'
  BY <1>2, WorkFacts
<1> QED BY <1>2, <1>3, <1>4 DEF Work

-----------------------------------------------------------------------------
(* Detours.                                                                *)

\* A run starts at a place, with nothing validated.
LEMMA LandsInit == ModeInit => Lands
<1> SUFFICES ASSUME ModeInit PROVE Lands
  OBVIOUS
<1>1. vm.at = "ENTRY" /\ vm.checked = "none" /\ vm \in Modes
  BY ModeTypedInit DEF ModeInit, EntryMode, ModeTyped, ModeTypeOK, Modes
<1>2. Work = vm
  BY <1>1, WorkFacts DEF Work
<1> QED BY <1>1, <1>2 DEF Lands, Detours

\* A place that is not a detour, entered from a place.
LEMMA LandsAtPlace ==
    ASSUME vm' \in Modes, vm'.at \notin Detours, vm'.checked # "none" => vm'.at = "validation"
    PROVE  Lands'
<1>1. WorkOf(vm') = vm'
  BY WorkFacts DEF Detours
<1> QED BY <1>1 DEF Lands, Work

\* Maintenance is entered: a place that is left is remembered.
LEMMA LandsEnter ==
    ASSUME ModeTyped, Lands, NEW at \in {"run.maintain", "context.maintain"},
           vm.at # "context.maintain", vm.at = "run.maintain" => at = "context.maintain",
           vm' = EnterDetour(at), left' = Leaving(vm)
    PROVE  Lands'
<1>1. /\ vm' \in Modes /\ vm'.at = at /\ vm'.checked = "none" /\ Work' = Work
      /\ left' = IF vm.at \in Detours THEN left ELSE vm
  BY EnterEffect, EnterWork
<1>2. ReleasingIn(vm') => ReleaseOf(vm').checked = "none"
  <2>1. CASE at = "run.maintain"
    BY <1>1, <2>1, EnterWork
  <2>2. CASE at = "context.maintain"
    <3>1. ReleasingIn(vm) => vm.at \in Detours
      BY DEF ReleasingIn, Detours
    <3> QED BY <2>2, <3>1, EnterWork DEF Lands
  <2> QED BY <2>1, <2>2
<1>3. CASE vm.at \in Detours
  BY <1>1, <1>2, <1>3 DEF Lands
<1>4. CASE vm.at \notin Detours
  <2>1. vm \in Modes
    BY DEF ModeTyped, ModeTypeOK, Modes
  <2>2. Work = vm /\ Work.at # "context.retrieve"
    BY <1>4, <2>1, WorkFacts DEF Work, Detours
  <2> QED BY <1>1, <1>2, <1>4, <2>2 DEF Lands
<1> QED BY <1>3, <1>4

\* Maintenance is left.
LEMMA LandsExit ==
    ASSUME ModeTyped, Lands, vm.at \in {"run.maintain", "context.maintain"}, vm' = RestoreMaintain,
           UNCHANGED left
    PROVE  /\ Lands'
           /\ vm'.at \notin Detours => vm' = left
<1>1. vm \in Modes /\ vm' = vm.back[1] /\ vm.at \in Detours
  BY DEF ModeTyped, ModeTypeOK, Modes, RestoreMaintain, Detours
<1>2. vm' \in Modes /\ vm'.at # "context.maintain" /\ Work' = Work
  BY ExitEffect, ExitWork
<1>3. CASE vm'.at = "run.maintain"
  <2>1. vm.at = "context.maintain"
    BY <1>3, ExitEffect
  <2>2. ReleasingIn(vm') /\ ReleaseOf(vm') = vm'
    BY <1>2, <1>3, WorkFacts
  <2>3. ReleasingIn(vm) /\ ReleaseOf(vm') = ReleaseOf(vm)
    BY <2>1, <2>2, ExitWork
  <2>4. vm'.checked = "none"
    BY <1>1, <2>2, <2>3 DEF Lands
  <2> QED BY <1>1, <1>2, <1>3, <2>2, <2>4 DEF Lands, Detours
<1>4. CASE vm'.at # "run.maintain"
  <2>1. WorkOf(vm') = vm' /\ ~ReleasingIn(vm') /\ WorkOf(vm') = Work
    BY <1>2, <1>4, WorkFacts DEF Work
  <2>2. vm'.at \notin Detours => vm' = left
    BY <1>1, <2>1 DEF Lands, Detours
  <2>3. vm'.at = "context.retrieve" => vm'.checked = "none"
    BY <2>1 DEF Lands
  <2> QED BY <1>1, <1>2, <1>4, <2>1, <2>2, <2>3 DEF Lands, Work, Detours
<1> QED BY <1>3, <1>4

\* The mode stays, and so does what a detour in progress has left.
ModeKept == UNCHANGED <<vm, left>>

\* Every step of the layer; a step out of the detours lands where they began.
LEMMA LandsStep ==
    ASSUME ModeTyped, Lands, [ModeNext]_modeVars
    PROVE  Lands' /\ (vm.at \in Detours /\ vm'.at \notin Detours => vm' = left)
<1> DEFINE Goal == Lands' /\ (vm.at \in Detours /\ vm'.at \notin Detours => vm' = left)
<1>0. vm \in Modes /\ left \in Places /\ iteration \in Nat
  BY DEF ModeTyped, ModeTypeOK, Modes
<1>1. ASSUME ModeKept PROVE Goal
  BY <1>1 DEF ModeKept, Lands, Work, WorkOf, Below, ReleasingIn, ReleaseOf
<1>2. ASSUME BeginTurn \/ RunLimit \/ DecisionFails \/ CheckpointWorkState \/ Reply \/ Stop
             \/ RejectTransition \/ RepairAction \/ \E writes \in BOOLEAN : RunStep(writes)
      PROVE  ModeKept
  BY <1>2 DEF ModeKept, BeginTurn, RunLimit, DecisionFails, CheckpointWorkState, Reply, Stop,
     RejectTransition, RepairAction, RunStep, KeepMode
<1>3. CASE EnterContextMaintain
  <2>1. vm.at # "context.maintain" /\ vm' = EnterDetour("context.maintain") /\ left' = Leaving(vm)
    BY <1>3 DEF EnterContextMaintain, ModeTyped
  <2>2. vm'.at \in Detours
    BY <2>1, EnterEffect DEF Detours
  <2> QED BY <2>1, <2>2, LandsEnter
<1>4. CASE EnterRunMaintain
  <2>1. /\ vm.at # "context.maintain" /\ vm.at # "run.maintain"
        /\ vm' = EnterDetour("run.maintain") /\ left' = Leaving(vm)
    BY <1>4 DEF EnterRunMaintain, Deciding, ModeTyped
  <2>2. vm'.at \in Detours
    BY <2>1, EnterEffect DEF Detours
  <2> QED BY <2>1, <2>2, LandsEnter
<1>5. CASE ExitContextMaintain
  BY <1>5, LandsExit DEF ExitContextMaintain, ModeTyped
<1>6. CASE MaintainRunContext
  <2>1. vm.at = "run.maintain" /\ UNCHANGED left
    BY <1>6 DEF MaintainRunContext
  <2>2. CASE vm' = RestoreMaintain
    BY <2>1, <2>2, LandsExit
  <2>3. ASSUME NEW t \in 0..2, vm' = [vm EXCEPT !.tries = t] PROVE Goal
    <3>1. /\ Work' = Work /\ ReleasingIn(vm') /\ ReleaseOf(vm') = vm'
          /\ vm'.at = vm.at /\ vm'.checked = vm.checked
      BY <2>1, <2>3, TryWork, TryEffect
    <3> QED BY <2>1, <3>1 DEF Lands, Detours
  <2>4. CASE UNCHANGED vm
    BY <1>1, <2>1, <2>4 DEF ModeKept
  <2>5. vm' = RestoreMaintain \/ vm' = [vm EXCEPT !.tries = 1] \/ vm' = [vm EXCEPT !.tries = 2] \/ UNCHANGED vm
    BY <1>6 DEF MaintainRunContext
  <2>6. 1 \in 0..2 /\ 2 \in 0..2
    OBVIOUS
  <2> QED BY <2>2, <2>3, <2>4, <2>5, <2>6
<1>7. ASSUME NEW to \in Destinations, TransitionMode(to) PROVE Goal
  <2>1. PICK c \in IF to = "validation" THEN {"passed", "failed"} ELSE {"none"} :
          vm' = ApplyTransition(to, c)
    BY <1>7 DEF TransitionMode
  <2>2. c \in Checks /\ to \in Allowed(vm.at) \ {"resolve"} /\ (c # "none" => to = "validation")
    BY <1>7 DEF Checks, TransitionMode
  <2>3. /\ vm' \in Modes /\ vm'.at = to /\ vm'.checked = c /\ vm.at \notin Detours
        /\ to = "context.retrieve" => vm'.back[1] = vm /\ vm.at # "validation"
        /\ to \in Detours => to = "context.retrieve"
    BY <2>1, <2>2, TransitionEffect, AllowedPlace
  <2>4. CASE to = "context.retrieve"
    <3>1. left' = vm
      BY <1>7, <2>4 DEF TransitionMode
    <3>2. WorkOf(vm') = vm' /\ ~ReleasingIn(vm')
      BY <2>3, <2>4, WorkFacts
    <3>3. Work = vm
      BY <1>0, <2>3, WorkFacts DEF Work, Detours
    <3>4. vm.checked = "none"
      BY <2>3, <2>4, <3>3 DEF Lands
    <3>5. Work' = vm' /\ vm'.checked = "none"
      BY <2>2, <2>3, <2>4, <3>2 DEF Work
    <3> QED BY <2>3, <2>4, <3>1, <3>2, <3>4, <3>5 DEF Lands, Detours
  <2>5. CASE to # "context.retrieve"
    BY <2>2, <2>3, <2>5, LandsAtPlace
  <2> QED BY <2>4, <2>5
<1>8. CASE ResolveRejected \/ ResolveAsks \/ ResolveFails \/ ResolveBinds
  <2>1. "resolve" \in Allowed(vm.at)
    BY <1>8 DEF ResolveRejected, ResolveAsks, ResolveFails, ResolveBinds, AtResolve
  <2>2. vm.at \notin Detours
    BY <2>1, AllowedPlace
  <2>3. CASE vm' = ResolveVisit
    <3>1. vm' \in Places /\ vm'.at = "workstream.route" /\ vm'.checked = vm.checked
      BY <2>1, <2>3, ResolveEffect
    <3>2. vm.at = "workstream.route" /\ Work = vm
      BY <1>0, <2>1, AllowedPlace, WorkFacts DEF Work
    <3>3. vm'.checked = "none"
      BY <3>1, <3>2 DEF Lands
    <3>4. vm' \in Modes /\ vm'.at \notin Detours
      BY <3>1 DEF Modes, Detours
    <3> QED BY <2>2, <3>3, <3>4, LandsAtPlace
  <2>4. CASE vm' = ApplyTransition("execute", "none")
    <3>1. vm' \in Modes /\ vm'.at \notin Detours /\ vm'.checked = "none"
      BY <2>4, BindEffect DEF Modes, Detours
    <3> QED BY <2>2, <3>1, LandsAtPlace
  <2> QED BY <1>8, <2>3, <2>4 DEF ResolveRejected, ResolveAsks, ResolveFails, ResolveBinds
<1>9. CASE LoadContext
  <2>1. vm.at = "context.retrieve" /\ UNCHANGED left
    BY <1>9 DEF LoadContext
  <2>2. CASE vm' = RestoreRetrieve
    <3>1. Work = vm
      BY <1>0, <2>1, WorkFacts DEF Work
    <3>2. vm.back[1] = left /\ left.checked = "none"
      BY <2>1, <3>1 DEF Lands, Detours
    <3>3. vm' = left /\ vm' \in Places
      BY <2>1, <2>2, <3>2, LoadEffect
    <3>4. vm' \in Modes /\ vm'.at \notin Detours /\ vm'.checked = "none"
      BY <3>2, <3>3, KindNames DEF Modes
    <3> QED BY <3>3, <3>4, LandsAtPlace
  <2>3. CASE UNCHANGED vm
    BY <1>1, <2>1, <2>3 DEF ModeKept
  <2> QED BY <1>9, <2>2, <2>3 DEF LoadContext
<1>10. CASE UNCHANGED modeVars
  BY <1>1, <1>10 DEF ModeKept, modeVars
<1> QED BY <1>1, <1>2, <1>3, <1>4, <1>5, <1>6, <1>7, <1>8, <1>9, <1>10 DEF ModeNext

-----------------------------------------------------------------------------
(* The binding.                                                            *)

\* An attempt is made only while one is available.
LEMMA BoundOnceStep ==
    ASSUME ModeTyped, BoundOnce, [ModeNext]_modeVars
    PROVE  BoundOnce'
<1> USE DEF BoundOnce
<1>0. FlagsTyped /\ CountsTyped
  BY TypeParts DEF ModeTyped
<1>1. ASSUME UNCHANGED <<bound, engineBound, policy, consumed, wrote>> PROVE BoundOnce'
  BY <1>1
<1>2. CASE BeginTurn \/ RunLimit \/ EnterContextMaintain \/ DecisionFails \/ EnterRunMaintain
           \/ Reply \/ Stop \/ RejectTransition \/ RepairAction
  BY <1>1, <1>2 DEF BeginTurn, RunLimit, EnterContextMaintain, DecisionFails, EnterRunMaintain,
     Reply, Stop, RejectTransition, RepairAction, runVars
<1>3. CASE LoadContext \/ \E to \in Destinations : TransitionMode(to)
  BY <1>1, <1>3 DEF LoadContext, TransitionMode
<1>4. CASE ExitContextMaintain \/ MaintainRunContext \/ CheckpointWorkState
  <2>1. bound' \in {bound, engineBound} /\ UNCHANGED <<engineBound, policy, consumed, wrote>>
    BY <1>4 DEF ExitContextMaintain, MaintainRunContext, CheckpointWorkState
  <2> QED BY <2>1
<1>5. CASE ResolveRejected \/ ResolveAsks
  BY <1>1, <1>5 DEF ResolveRejected, ResolveAsks, AtResolve
<1>6. CASE ResolveFails \/ ResolveBinds
  <2>1. ~policy.unavailable /\ UNCHANGED wrote
    BY <1>6 DEF ResolveFails, ResolveBinds, AtResolve
  <2>2. policy.attempts <= 1 /\ consumed = 0
    BY <1>0, <2>1 DEF CountsTyped
  <2>3. /\ \/ RecordAttempt(FALSE) /\ UNCHANGED consumed
           \/ RecordAttempt(TRUE) /\ consumed' = consumed + 1
        /\ \/ bound' = bound /\ engineBound' = engineBound
           \/ engineBound' = TRUE
    BY <1>6 DEF ResolveFails, ResolveBinds
  <2>4. consumed' <= 1 /\ policy'.attempts <= 2
    BY <1>0, <2>2, <2>3 DEF RecordAttempt, CountsTyped
  <2>5. consumed' = 1 \/ policy'.attempts = 2 => policy'.unavailable
    <3>1. CASE RecordAttempt(TRUE)
      <4>1. policy'.unavailable = (policy.unavailable \/ TRUE \/ policy.attempts + 1 >= 2)
        BY <3>1 DEF RecordAttempt
      <4> QED BY <4>1
    <3>2. CASE RecordAttempt(FALSE) /\ UNCHANGED consumed
      <4>1. /\ policy'.attempts = policy.attempts + 1
            /\ policy'.unavailable = (policy.unavailable \/ FALSE \/ policy.attempts + 1 >= 2)
        BY <3>2 DEF RecordAttempt
      <4>2. policy'.attempts = 2 => policy.attempts + 1 >= 2
        BY <1>0, <4>1 DEF CountsTyped
      <4> QED BY <2>2, <3>2, <4>1, <4>2
    <3> QED BY <2>3, <3>1, <3>2
  <2>6. bound' \/ wrote' => engineBound'
    BY <2>1, <2>3
  <2> QED BY <2>4, <2>5, <2>6
<1>7. ASSUME NEW writes \in BOOLEAN, RunStep(writes) PROVE BoundOnce'
  <2>1. /\ bound' = engineBound \/ UNCHANGED bound
        /\ wrote' = (wrote \/ writes) /\ (writes => bound)
        /\ UNCHANGED <<engineBound, policy, consumed>>
    BY <1>7 DEF RunStep, MayWrite
  <2> QED BY <2>1
<1>8. CASE UNCHANGED modeVars
  BY <1>1, <1>8 DEF modeVars, runVars
<1> QED BY <1>2, <1>3, <1>4, <1>5, <1>6, <1>7, <1>8 DEF ModeNext

-----------------------------------------------------------------------------
(* The budget.                                                             *)

\* A repair, a success and an end leave the budget to the action.
LEMMA BoundedKept ==
    ASSUME Bounded, turn # "ended", UNCHANGED <<credits, iteration, projection, journal>>,
           ReleasingIn(vm') <=> ReleasingIn(vm),
           ReleasingIn(vm') => ReleaseOf(vm').tries = ReleaseOf(vm).tries
    PROVE  Bounded'
BY DEF Bounded

\* Every step of the layer.
LEMMA BoundedStep ==
    ASSUME ModeTyped, Bounded, [ModeNext]_modeVars
    PROVE  Bounded'
<1>0. /\ vm \in Modes /\ iteration \in Nat /\ credits \in Nat /\ journal \in Nat
      /\ projection \in 0..journal
  BY DEF ModeTyped, ModeTypeOK, Modes
<1>1. ASSUME turn # "ended", UNCHANGED <<vm, credits, iteration, projection, journal>> PROVE Bounded'
  BY <1>1, BoundedKept
<1>2. CASE BeginTurn
  BY <1>0, <1>2, ModeLimits DEF BeginTurn, KeepMode, runVars, Bounded
<1>3. CASE RunLimit \/ DecisionFails \/ CheckpointWorkState \/ Reply \/ Stop
           \/ RejectTransition \/ RepairAction
  BY <1>1, <1>3 DEF RunLimit, DecisionFails, CheckpointWorkState, Reply, Stop, RejectTransition,
     RepairAction, KeepMode, KeepBudget, runVars, Deciding
<1>4. CASE EnterContextMaintain
  <2>1. vm.at # "context.maintain" /\ vm' = EnterDetour("context.maintain") /\ left' = Leaving(vm)
    BY <1>4 DEF EnterContextMaintain, ModeTyped
  <2>2. /\ ReleasingIn(vm') <=> ReleasingIn(vm)
        /\ ReleasingIn(vm') => ReleaseOf(vm').tries = ReleaseOf(vm).tries
    BY <2>1, EnterWork
  <2> QED BY <1>4, <2>2, BoundedKept DEF EnterContextMaintain, runVars
<1>5. CASE ExitContextMaintain
  <2>1. vm.at = "context.maintain" /\ vm' = RestoreMaintain
    BY <1>5 DEF ExitContextMaintain, ModeTyped
  <2>2. /\ ReleasingIn(vm') <=> ReleasingIn(vm)
        /\ ReleasingIn(vm') => ReleaseOf(vm').tries = ReleaseOf(vm).tries
    BY <2>1, ExitWork
  <2> QED BY <1>5, <2>2, BoundedKept DEF ExitContextMaintain
<1>6. CASE EnterRunMaintain
  <2>1. /\ vm.at # "context.maintain" /\ vm.at # "run.maintain" /\ turn # "ended"
        /\ vm' = EnterDetour("run.maintain") /\ left' = Leaving(vm)
        /\ projection < journal /\ credits' = credits + 1
        /\ UNCHANGED <<iteration, projection, journal>>
    BY <1>6 DEF EnterRunMaintain, Deciding, ModeTyped, runVars
  <2>2. ReleasingIn(vm') /\ ReleaseOf(vm') = vm' /\ vm'.tries = 0
    BY <2>1, EnterEffect, EnterWork
  <2>3. ~ReleasingIn(vm)
    BY <2>1 DEF ReleasingIn
  <2> QED BY <1>0, <2>1, <2>2, <2>3, ModeLimits DEF Bounded
<1>7. CASE MaintainRunContext
  <2>1. /\ vm.at = "run.maintain" /\ turn # "ended" /\ credits' = credits + 1
        /\ UNCHANGED <<iteration, journal>>
    BY <1>7 DEF MaintainRunContext, Deciding
  <2>2. ReleasingIn(vm) /\ ReleaseOf(vm) = vm
    BY <1>0, <2>1, WorkFacts
  <2>3. /\ projection < journal /\ vm.tries <= 1 /\ credits <= 3 * projection + 1 + vm.tries
        /\ iteration <= MaxIterations + credits /\ vm.tries \in 0..2
    BY <1>0, <2>1, <2>2, ModeFacts DEF Bounded
  <2>4. credits' <= 3 * journal' /\ iteration' <= MaxIterations + credits'
    BY <1>0, <2>1, <2>3, ModeLimits
  <2>5. CASE vm' = RestoreMaintain /\ projection' = journal
    <3>1. ~ReleasingIn(vm')
      BY <2>1, <2>5, ExitWork
    <3> QED BY <1>0, <2>1, <2>4, <2>5, <3>1 DEF Bounded
  <2>6. CASE vm.tries = 0 /\ vm' = [vm EXCEPT !.tries = 1] /\ UNCHANGED projection
    <3>1. ASSUME NEW t \in 0..2, vm' = [vm EXCEPT !.tries = t]
          PROVE  ReleasingIn(vm') /\ ReleaseOf(vm') = vm' /\ vm'.tries = t
      BY <2>1, <3>1, TryWork, TryEffect
    <3>2. ReleasingIn(vm') /\ ReleaseOf(vm') = vm' /\ vm'.tries = 1
      <4>1. 1 \in 0..2
        OBVIOUS
      <4> QED BY <2>6, <3>1, <4>1
    <3>3. vm.tries = 0 /\ projection' = projection
      BY <2>6
    <3>4. projection' < journal' /\ credits' <= 3 * projection' + 1 + 1
      BY <1>0, <2>1, <2>3, <3>3
    <3> QED BY <2>4, <3>2, <3>4 DEF Bounded
  <2>7. CASE turn' = "ended"
    BY <2>4, <2>7 DEF Bounded
  <2> QED BY <1>7, <2>5, <2>6, <2>7 DEF MaintainRunContext, End
<1>8. ASSUME NEW to \in Destinations, TransitionMode(to) PROVE Bounded'
  <2>1. PICK c \in IF to = "validation" THEN {"passed", "failed"} ELSE {"none"} :
          vm' = ApplyTransition(to, c)
    BY <1>8 DEF TransitionMode
  <2>2. c \in Checks /\ to \in Allowed(vm.at) \ {"resolve"}
    BY <1>8 DEF Checks, TransitionMode
  <2>3. vm' \in Modes /\ vm'.at = to /\ vm.at \notin Detours
    BY <2>1, <2>2, TransitionEffect, AllowedPlace
  <2>4. ~ReleasingIn(vm) /\ ~ReleasingIn(vm')
    BY <1>0, <2>3, WorkFacts DEF Detours, Destinations
  <2> QED BY <1>8, <2>4, BoundedKept DEF TransitionMode, KeepBudget, Deciding
<1>9. CASE ResolveRejected \/ ResolveAsks \/ ResolveFails \/ ResolveBinds
  <2>1. AtResolve
    BY <1>9 DEF ResolveRejected, ResolveAsks, ResolveFails, ResolveBinds
  <2>2. vm.at \notin Detours /\ "resolve" \in Allowed(vm.at)
    BY <2>1, AllowedPlace DEF AtResolve
  <2>3. vm' \in Places
    <3>1. CASE vm' = ResolveVisit
      BY <2>2, <3>1, ResolveEffect
    <3>2. CASE vm' = ApplyTransition("execute", "none")
      BY <3>2, BindEffect
    <3> QED BY <1>9, <3>1, <3>2 DEF ResolveRejected, ResolveAsks, ResolveFails, ResolveBinds
  <2>4. ~ReleasingIn(vm) /\ ~ReleasingIn(vm')
    BY <2>2, <2>3, KindNames DEF ReleasingIn, Detours
  <2> QED BY <2>1, <2>4, BoundedKept DEF AtResolve, KeepBudget, Deciding
<1>10. ASSUME turn # "ended", ~ReleasingIn(vm), ~ReleasingIn(vm'), journal' = journal + 1,
              UNCHANGED <<credits, iteration, projection>>
       PROVE  Bounded'
  BY <1>0, <1>10 DEF Bounded
<1>11. ASSUME NEW writes \in BOOLEAN, RunStep(writes) PROVE Bounded'
  <2>1. ~ReleasingIn(vm) /\ UNCHANGED vm
    BY <1>11 DEF RunStep, MayWrite, MayObserve, ReleasingIn, KeepMode
  <2> QED BY <1>10, <1>11, <2>1 DEF RunStep, KeepBudget, Deciding
<1>12. CASE LoadContext
  <2>1. vm.at = "context.retrieve" /\ ~ReleasingIn(vm)
    BY <1>12 DEF LoadContext, ReleasingIn
  <2>2. ~ReleasingIn(vm')
    <3>1. CASE vm' = RestoreRetrieve
      BY <2>1, <3>1, LoadEffect, KindNames DEF ReleasingIn, Detours
    <3>2. CASE UNCHANGED vm
      BY <2>1, <3>2
    <3> QED BY <1>12, <3>1, <3>2 DEF LoadContext
  <2> QED BY <1>10, <1>12, <2>1, <2>2 DEF LoadContext, KeepBudget, Deciding
<1>13. CASE UNCHANGED modeVars
  BY <1>13 DEF modeVars, runVars, loopVars, Bounded
<1> QED BY <1>2, <1>3, <1>4, <1>5, <1>6, <1>7, <1>8, <1>9, <1>11, <1>12, <1>13 DEF ModeNext

-----------------------------------------------------------------------------
(* The proof.                                                              *)

Otherwise ==
  \/ result' = result
  \/ turn' = "ended" /\ (result'.status # "completed" \/ result'.by \notin {"reply", "limit"})

\* A run that goes on, or ends otherwise, is not reported as completed.
LEMMA NotCompleted ==
    ASSUME Proven, ModeMarked', turn # "ended", Otherwise
    PROVE  Proven'
BY DEF Proven, CompletedIsProven, Otherwise

\* An end that is no completion, or is one by a question or a stop.
LEMMA EndResult ==
    ASSUME NEW status, NEW by, End(status, by),
           status # "completed" \/ by \notin {"reply", "limit"}
    PROVE  Otherwise
<1>1. turn' = "ended" /\ result'.status = status /\ result'.by = by
  BY DEF End
<1> QED BY <1>1 DEF Otherwise

\* What the modes say stays true while what is below maintenance stays.
LEMMA MarkedKept ==
    ASSUME ModeMarked, Work' = Work, Work.at = "context.retrieve" => UNCHANGED left,
           UNCHANGED <<operational, proven, wrote>>
    PROVE  ModeMarked'
BY DEF ModeMarked, Origin

\* A repair never completes a run.
LEMMA StrikeResult ==
    ASSUME NEW scope, NEW guarded, Strike(scope, guarded)
    PROVE  Otherwise
<1>1. End("failed", "guard") \/ result' = result
  BY DEF Strike, Continue
<1>2. CASE End("failed", "guard")
  BY <1>2, EndResult
<1> QED BY <1>1, <1>2 DEF Otherwise

\* So does a success.
LEMMA SucceedResult == ASSUME NEW scopes, Succeed(scopes) PROVE Otherwise
BY DEF Succeed, Continue, Otherwise

\* A run that is reported as completed is proven, or has not worked.
LEMMA CompletedStep ==
    ASSUME ModeTyped, Lands, Proven, Reply \/ RunLimit
    PROVE  Proven'
<1>1. /\ UNCHANGED <<vm, left, operational, proven, wrote>> /\ turn # "ended"
      /\ vm \in Modes
  BY DEF Reply, RunLimit, KeepMode, runVars, Deciding, ModeTyped, ModeTypeOK, Modes
<1>2. ModeMarked'
  <2>1. Work' = Work
    BY <1>1 DEF Work
  <2> QED BY <1>1, <2>1, MarkedKept DEF Proven
<1>3. Passed => vm.at \notin Detours /\ Work = vm /\ proven /\ operational
  <2> SUFFICES ASSUME Passed PROVE vm.at \notin Detours /\ Work = vm /\ proven /\ operational
    OBVIOUS
  <2>1. vm.at \notin Detours
    BY DEF Passed, Lands
  <2>2. Work = vm
    BY <1>1, <2>1, WorkFacts DEF Work, Detours
  <2>3. vm.at = "validation" /\ Origin = vm
    BY <2>2 DEF Lands, Passed, Origin
  <2> QED BY <2>1, <2>2, <2>3 DEF Proven, ModeMarked, Passed
<1>4. ASSUME result'.status = "completed", turn' = "ended",
             IF operational THEN Passed /\ open = {} ELSE TRUE, UNCHANGED open
      PROVE  Proven'
  <2>1. Passed' = Passed
    BY <1>1 DEF Passed
  <2>2. ~operational => ~wrote
    BY DEF Proven, ModeMarked
  <2> QED BY <1>1, <1>2, <1>3, <1>4, <2>1, <2>2 DEF Proven, CompletedIsProven
<1>5. ASSUME Otherwise PROVE Proven'
  BY <1>1, <1>2, <1>5, NotCompleted
<1>6. CASE RunLimit
  <2>1. CASE Passed /\ open = {} /\ End("completed", "limit")
    BY <1>4, <1>6, <2>1 DEF RunLimit, End
  <2>2. CASE End("stuck", "limit")
    BY <1>5, <2>2, EndResult
  <2> QED BY <1>6, <2>1, <2>2 DEF RunLimit
<1>7. CASE Reply
  <2>1. PICK scope \in ReplyRepairs :
          IF scope = "none"
          THEN /\ \E status \in {"completed", "failed"} : End(status, "reply")
               /\ UNCHANGED <<strikes, open>>
          ELSE Strike(scope, TRUE)
    BY <1>7 DEF Reply
  <2>2. CASE scope # "none"
    BY <1>5, <2>1, <2>2, StrikeResult
  <2>3. CASE scope = "none" /\ End("failed", "reply")
    BY <1>5, <2>3, EndResult
  <2>4. CASE scope = "none" /\ End("completed", "reply")
    <3>1. operational => Passed /\ open = {}
      BY <2>4 DEF ReplyRepairs
    <3> QED BY <1>4, <2>1, <2>4, <3>1 DEF End
  <2> QED BY <2>1, <2>2, <2>3, <2>4
<1> QED BY <1>6, <1>7

\* Every step of the layer.
LEMMA ProvenStep ==
    ASSUME ModeTyped, Lands, Proven, [ModeNext]_modeVars
    PROVE  Proven'
<1>0. vm \in Modes /\ left \in Places
  BY DEF ModeTyped, ModeTypeOK, Modes
<1>1. CASE Reply \/ RunLimit
  BY <1>1, CompletedStep
<1>2. CASE BeginTurn \/ DecisionFails \/ Stop \/ RejectTransition \/ RepairAction \/ CheckpointWorkState
  <2>1. /\ UNCHANGED <<vm, left, operational, proven, wrote>> /\ turn # "ended"
    BY <1>2 DEF BeginTurn, DecisionFails, Stop, RejectTransition, RepairAction, CheckpointWorkState,
       KeepMode, runVars, Deciding
  <2>2. Work' = Work
    BY <2>1 DEF Work
  <2>3. ModeMarked'
    BY <2>1, <2>2, MarkedKept DEF Proven
  <2>4. Otherwise
    <3>1. CASE \E scope \in Scopes, guarded \in BOOLEAN : Strike(scope, guarded)
      BY <3>1, StrikeResult
    <3>2. CASE BeginTurn \/ DecisionFails
      BY <3>2, EndResult DEF BeginTurn, DecisionFails, Otherwise
    <3>3. CASE Stop
      BY <3>1, <3>3, EndResult DEF Stop, Scopes
    <3>4. CASE RejectTransition \/ RepairAction
      BY <3>1, <3>4 DEF RejectTransition, RepairAction, Scopes
    <3>5. CASE CheckpointWorkState
      BY <3>1, <3>5 DEF CheckpointWorkState, Continue, Scopes, Otherwise
    <3> QED BY <1>2, <3>2, <3>3, <3>4, <3>5
  <2> QED BY <2>1, <2>3, <2>4, NotCompleted
<1>3. CASE EnterContextMaintain \/ EnterRunMaintain
  <2>1. PICK at \in {"run.maintain", "context.maintain"} :
          vm' = EnterDetour(at) /\ vm.at # "context.maintain" /\ (vm.at = "run.maintain" => at = "context.maintain")
    BY <1>3 DEF EnterContextMaintain, EnterRunMaintain, ModeTyped, Deciding
  <2>2. /\ left' = Leaving(vm) /\ turn # "ended"
        /\ UNCHANGED <<operational, proven, wrote, result>>
    BY <1>3 DEF EnterContextMaintain, EnterRunMaintain, runVars, Deciding, Continue
  <2>3. Work' = Work
    BY <2>1, <2>2, EnterWork
  <2>4. Work.at = "context.retrieve" => UNCHANGED left
    <3>1. vm.at \notin Detours => Work = vm
      BY <1>0, WorkFacts DEF Work, Detours
    <3>2. left' = IF vm.at \in Detours THEN left ELSE vm
      BY <2>1, <2>2, EnterEffect
    <3> QED BY <3>1, <3>2 DEF Detours
  <2>5. ModeMarked'
    BY <2>2, <2>3, <2>4, MarkedKept DEF Proven
  <2> QED BY <2>2, <2>5, NotCompleted DEF Otherwise
<1>4. CASE ExitContextMaintain \/ MaintainRunContext
  <2>1. vm.at \in {"run.maintain", "context.maintain"}
    BY <1>4 DEF ExitContextMaintain, MaintainRunContext, ModeTyped
  <2>2. UNCHANGED <<left, operational, proven, wrote>> /\ turn # "ended"
    BY <1>4 DEF ExitContextMaintain, MaintainRunContext, Deciding
  <2>3. Work' = Work
    <3>1. CASE vm' = RestoreMaintain
      BY <2>1, <3>1, ExitWork
    <3>2. ASSUME NEW t \in 0..2, vm' = [vm EXCEPT !.tries = t], vm.at = "run.maintain"
          PROVE  Work' = Work
      BY <3>2, TryWork
    <3>3. CASE UNCHANGED vm
      BY <3>3 DEF Work
    <3>4. \/ vm' = RestoreMaintain \/ UNCHANGED vm
          \/ vm.at = "run.maintain" /\ (vm' = [vm EXCEPT !.tries = 1] \/ vm' = [vm EXCEPT !.tries = 2])
      BY <1>4 DEF ExitContextMaintain, MaintainRunContext
    <3>5. 1 \in 0..2 /\ 2 \in 0..2
      OBVIOUS
    <3> QED BY <3>1, <3>2, <3>3, <3>4, <3>5
  <2>4. ModeMarked'
    BY <2>2, <2>3, MarkedKept DEF Proven
  <2>5. Otherwise
    <3>1. \/ Strike("navigation", FALSE) \/ End("stuck", "maintenance") \/ End("failed", "threw")
          \/ result' = result
      BY <1>4 DEF ExitContextMaintain, MaintainRunContext, Continue
    <3>2. CASE Strike("navigation", FALSE)
      BY <3>2, StrikeResult
    <3>3. CASE End("stuck", "maintenance") \/ End("failed", "threw")
      BY <3>3, EndResult
    <3> QED BY <3>1, <3>2, <3>3 DEF Otherwise
  <2> QED BY <2>2, <2>4, <2>5, NotCompleted
<1>5. ASSUME NEW to \in Destinations, TransitionMode(to) PROVE Proven'
  <2>1. PICK c \in IF to = "validation" THEN {"passed", "failed"} ELSE {"none"} :
          /\ vm' = ApplyTransition(to, c)
          /\ Succeed(IF c = "passed" THEN {"navigation", "validation"} ELSE {"navigation"})
          /\ proven' = (proven \/ c = "passed")
    BY <1>5 DEF TransitionMode
  <2>2. /\ to \in Allowed(vm.at) \ {"resolve"} /\ turn # "ended" /\ UNCHANGED wrote
        /\ operational' = (operational \/ to # "context.retrieve")
        /\ left' = IF to = "context.retrieve" THEN vm ELSE left
    BY <1>5 DEF TransitionMode, Deciding
  <2>3. c \in Checks
    BY DEF Checks
  <2>4. vm' \in Modes /\ vm'.at = to /\ vm'.checked = c /\ vm.at \notin Detours
        /\ (to \in Detours => to = "context.retrieve")
    BY <2>1, <2>2, <2>3, TransitionEffect, AllowedPlace
  <2>5. WorkOf(vm') = vm' /\ WorkOf(vm) = vm
    BY <1>0, <2>4, WorkFacts DEF Detours
  <2>6. Work' = vm' /\ Work = vm /\ Origin = vm
    BY <2>4, <2>5 DEF Work, Origin, Detours
  <2>7. Origin'.at # "ENTRY" \/ wrote' => operational'
    <3>1. CASE to = "context.retrieve"
      BY <2>2, <2>4, <2>6, <3>1 DEF Origin, Proven, ModeMarked
    <3>2. CASE to # "context.retrieve"
      BY <2>2, <3>2
    <3> QED BY <3>1, <3>2
  <2>8. ModeMarked'
    BY <2>1, <2>4, <2>6, <2>7 DEF ModeMarked
  <2>9. result' = result
    BY <2>1 DEF Succeed, Continue
  <2> QED BY <2>2, <2>8, <2>9, NotCompleted DEF Otherwise
<1>6. CASE ResolveRejected \/ ResolveAsks \/ ResolveFails \/ ResolveBinds
  <2>1. AtResolve
    BY <1>6 DEF ResolveRejected, ResolveAsks, ResolveFails, ResolveBinds
  <2>2. /\ vm.at \notin Detours /\ "resolve" \in Allowed(vm.at) /\ operational' = TRUE
        /\ UNCHANGED proven /\ turn # "ended"
    BY <2>1, AllowedPlace DEF AtResolve, Deciding
  <2>3. WorkOf(vm) = vm
    BY <1>0, <2>2, WorkFacts DEF Detours
  <2>4. vm' \in Modes /\ vm'.at \notin Detours /\ (vm'.checked = "passed" => vm.checked = "passed")
    <3>1. CASE vm' = ResolveVisit
      BY <2>2, <3>1, ResolveEffect DEF Modes, Detours
    <3>2. CASE vm' = ApplyTransition("execute", "none")
      BY <3>2, BindEffect DEF Modes, Detours
    <3> QED BY <1>6, <3>1, <3>2 DEF ResolveRejected, ResolveAsks, ResolveFails, ResolveBinds
  <2>5. WorkOf(vm') = vm'
    BY <2>4, WorkFacts DEF Detours
  <2>6. ModeMarked'
    BY <2>2, <2>3, <2>4, <2>5 DEF ModeMarked, Proven, Work
  <2>7. Otherwise
    <3>1. \/ \E scope \in {"navigation", "binding"}, guarded \in BOOLEAN : Strike(scope, guarded)
          \/ End("completed", "question") \/ Succeed({"navigation", "binding"})
      BY <1>6 DEF ResolveRejected, ResolveAsks, ResolveFails, ResolveBinds
    <3>2. CASE \E scope \in {"navigation", "binding"}, guarded \in BOOLEAN : Strike(scope, guarded)
      BY <3>2, StrikeResult
    <3>3. CASE End("completed", "question")
      BY <3>3, EndResult
    <3> QED BY <3>1, <3>2, <3>3, SucceedResult
  <2> QED BY <2>2, <2>6, <2>7, NotCompleted
<1>7. ASSUME NEW writes \in BOOLEAN, RunStep(writes) PROVE Proven'
  <2>1. /\ UNCHANGED <<vm, left, operational>> /\ turn # "ended"
        /\ wrote' = (wrote \/ writes) /\ proven' = (proven /\ ~writes)
        /\ writes => vm.at = "execute"
    BY <1>7 DEF RunStep, KeepMode, Deciding, MayWrite
  <2>2. Work' = Work
    BY <2>1 DEF Work
  <2>3. writes => operational /\ Work.checked # "passed"
    <3> SUFFICES ASSUME writes PROVE operational /\ Work.checked # "passed"
      OBVIOUS
    <3>1. Work = vm /\ vm.at = "execute"
      BY <1>0, <2>1, WorkFacts DEF Work
    <3>2. Origin = vm
      BY <3>1 DEF Origin
    <3> QED BY <3>1, <3>2 DEF Proven, ModeMarked, Lands
  <2>4. Origin' = Origin
    BY <2>1, <2>2 DEF Origin
  <2>5. Work'.checked = "passed" => proven'
    BY <2>1, <2>2, <2>3 DEF Proven, ModeMarked
  <2>6. Origin'.at # "ENTRY" \/ wrote' => operational'
    BY <2>1, <2>3, <2>4 DEF Proven, ModeMarked
  <2>7. ModeMarked'
    BY <2>5, <2>6 DEF ModeMarked
  <2>8. Otherwise
    <3>1. Succeed({"action"}) \/ Strike("action", TRUE) \/ End("failed", "threw")
      BY <1>7 DEF RunStep
    <3>2. CASE End("failed", "threw")
      BY <3>2, EndResult
    <3> QED BY <3>1, <3>2, StrikeResult, SucceedResult
  <2> QED BY <2>1, <2>7, <2>8, NotCompleted
<1>8. CASE LoadContext
  <2>1. /\ vm.at = "context.retrieve" /\ UNCHANGED <<left, operational, proven, wrote>>
        /\ turn # "ended"
    BY <1>8 DEF LoadContext, Deciding
  <2>2. Work = vm
    BY <1>0, <2>1, WorkFacts DEF Work
  <2>3. ModeMarked'
    <3>1. CASE UNCHANGED vm
      BY <2>1, <3>1, MarkedKept DEF Proven, Work
    <3>2. CASE vm' = RestoreRetrieve
      <4>1. vm.back[1] = left /\ left.checked = "none" /\ Origin = left
        BY <2>1, <2>2 DEF Lands, Detours, Origin
      <4>2. vm' = left /\ left.at \notin Detours
        BY <1>0, <2>1, <3>2, <4>1, LoadEffect, KindNames
      <4>3. WorkOf(vm') = vm'
        BY <1>0, <4>2, WorkFacts DEF Detours, Modes
      <4>4. Work' = left /\ Origin' = left
        BY <2>1, <4>2, <4>3 DEF Work, Origin
      <4> QED BY <2>1, <4>1, <4>4 DEF ModeMarked, Proven
    <3> QED BY <1>8, <3>1, <3>2 DEF LoadContext
  <2>4. Otherwise
    <3>1. Succeed({}) \/ Strike("action", TRUE) \/ End("failed", "threw")
      BY <1>8 DEF LoadContext
    <3>2. CASE End("failed", "threw")
      BY <3>2, EndResult
    <3> QED BY <3>1, <3>2, StrikeResult, SucceedResult
  <2> QED BY <2>1, <2>3, <2>4, NotCompleted
<1>9. CASE UNCHANGED modeVars
  BY <1>9 DEF modeVars, runVars, loopVars, Proven, ModeMarked, Origin, Work, CompletedIsProven, Passed
<1> QED BY <1>1, <1>2, <1>3, <1>4, <1>5, <1>6, <1>7, <1>8, <1>9 DEF ModeNext

-----------------------------------------------------------------------------
(* The theorems.                                                           *)

\* A run starts at ENTRY with nothing done.
LEMMA ModeInvInit == ModeInit => ModeInv
<1> SUFFICES ASSUME ModeInit PROVE ModeInv
  OBVIOUS
<1>1. ModeTyped /\ Lands
  BY ModeTypedInit, LandsInit
<1>2. vm \in Modes /\ vm.at = "ENTRY" /\ vm.checked = "none"
  BY <1>1 DEF ModeTyped, ModeTypeOK, Modes, ModeInit, EntryMode
<1>3. Work = vm /\ ~ReleasingIn(vm) /\ Origin = vm
  BY <1>2, WorkFacts DEF Work, Origin
<1>4. BoundOnce
  BY DEF ModeInit, BoundOnce
<1>5. Bounded
  BY <1>3, ModeLimits DEF ModeInit, Bounded
<1>6. Proven
  BY <1>2, <1>3 DEF ModeInit, Proven, ModeMarked, CompletedIsProven
<1> QED BY <1>1, <1>4, <1>5, <1>6 DEF ModeInv

\* Every step keeps every layer.
LEMMA ModeInvStep == ASSUME ModeInv, [ModeNext]_modeVars PROVE ModeInv'
BY ModeTypedStep, LandsStep, BoundOnceStep, BoundedStep, ProvenStep DEF ModeInv

\* The layers together are an invariant.
LEMMA ModeInvariant == ModeSpec => []ModeInv
BY ModeInvInit, ModeInvStep, PTL DEF ModeSpec

\* Every variable has a value of its kind: detours nest in one order only.
THEOREM ModesAreTyped == ModeSpec => []ModeTypeOK
<1>1. ModeInv => ModeTypeOK
  BY DEF ModeInv, ModeTyped
<1> QED BY <1>1, ModeInvariant, PTL

\* A detour comes back to the mode that was left, however detours are nested,
\* rejected or cut short.
THEOREM DetoursComeBack == ModeSpec => DetoursReturn
<1>1. ModeInv /\ [ModeNext]_modeVars => [vm.at \in Detours /\ vm'.at \notin Detours => vm' = left]_modeVars
  BY LandsStep DEF ModeInv
<1> QED BY <1>1, ModeInvariant, PTL DEF ModeSpec, DetoursReturn

\* At most one binding attempt may have changed the engine, and no attempt
\* follows it.
THEOREM OneBinding == ModeSpec => []BindingIsTriedOnce
<1>1. ModeInv => BindingIsTriedOnce
  BY DEF ModeInv, BoundOnce, BindingIsTriedOnce
<1> QED BY <1>1, ModeInvariant, PTL

\* Maintenance of the run context cannot keep a run going: for any budget, its
\* turns are bounded by the tool calls that the run has made.
THEOREM BoundedMaintenance == ModeSpec => []MaintenanceIsBounded
<1>1. ModeInv => MaintenanceIsBounded
  BY DEF ModeInv, Bounded, MaintenanceIsBounded
<1> QED BY <1>1, ModeInvariant, PTL

\* A run is completed only with a proof that is newer than its last write.
THEOREM CompletedRunsAreProven == ModeSpec => []CompletedIsProven
<1>1. ModeInv => CompletedIsProven
  BY DEF ModeInv, Proven
<1> QED BY <1>1, ModeInvariant, PTL
=============================================================================
