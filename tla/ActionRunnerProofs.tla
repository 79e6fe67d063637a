------------------------- MODULE ActionRunnerProofs -------------------------
(***************************************************************************)
(* For every tree of flows, whatever their actions, people and failures:   *)
(* the runner's state is sound, and the reply it composes is an abstract   *)
(* script that goes with its transaction.  For trees whose authors keep    *)
(* the rules of AuthoringRules: what the reply tells whom is true.         *)
(***************************************************************************)
EXTENDS AuthoringRules, FiniteSetTheorems, SequenceTheorems, TLAPS

Stack(fs) == fs \in Seq(Frame) /\ Nested(fs)

LEMMA ScriptType ==
  ASSUME NEW frame \in Frame
  PROVE  Script(frame) \in Seq(DiscussionAction)
  BY DocumentAssumption DEF Frame, Script, Parts

LEMMA StartType ==
  ASSUME NEW f \in Flow, NEW part \in Parts, NEW rec \in BOOLEAN
  PROVE  Start(f, part, rec) \in Frame /\ Start(f, part, rec).at = 1
  BY DEF Start, Frame

LEMMA NextAction ==
  ASSUME NEW frame \in Frame
  PROVE  /\ [frame EXCEPT !.at = @ + 1] \in Frame
         /\ [frame EXCEPT !.at = @ + 1].at = frame.at + 1
         /\ Script([frame EXCEPT !.at = @ + 1]) = Script(frame)
  BY DEF Frame, Script

\* Going on, leaving and entering keep the stack of interrupted runs.
LEMMA AdvancedStack ==
  ASSUME Stack(frames), frames # <<>>
  PROVE  /\ Stack(Advanced) /\ Len(Advanced) = Len(frames) /\ Advanced # <<>>
         /\ \A i \in 1..(Len(frames) - 1) : Advanced[i] = frames[i]
         /\ Advanced[Len(frames)] = [Top EXCEPT !.at = @ + 1]
         /\ Top \in Frame
  <1> DEFINE n == Len(frames)
  <1>1. n \in Nat /\ n > 0 /\ Top \in Frame
    BY DEF Stack, Top
  <1>2. [Top EXCEPT !.at = @ + 1] \in Frame /\ [Top EXCEPT !.at = @ + 1].at > 0
    BY <1>1, NextAction DEF Frame
  <1>3. /\ Advanced \in Seq(Frame) /\ Len(Advanced) = n
        /\ \A i \in 1..(n - 1) : Advanced[i] = frames[i]
        /\ Advanced[n] = [Top EXCEPT !.at = @ + 1]
    BY <1>1, <1>2 DEF Stack, Advanced, Top
  <1>4. \A i \in 1..(n - 1) : frames[i].at > 0
    BY <1>1 DEF Stack, Nested
  <1>5. \A i \in 1..n : Advanced[i].at > 0
    <2>1. TAKE i \in 1..n
    <2>2. CASE i = n
      BY <1>2, <1>3, <2>2
    <2>3. CASE i # n
      BY <1>1, <1>3, <1>4, <2>1, <2>3
    <2> QED BY <2>2, <2>3
  <1>6. \A i \in 1..(n - 1) : Suspended(Advanced[i])
    BY <1>1, <1>3 DEF Stack, Nested
  <1> QED BY <1>1, <1>3, <1>5, <1>6 DEF Stack, Nested

LEMMA PoppedStack ==
  ASSUME Stack(frames), frames # <<>>
  PROVE  Stack(Popped) /\ Len(Popped) = Len(frames) - 1 /\ AfterFailure = Popped
  <1>1. /\ Popped \in Seq(Frame) /\ Len(Popped) = Len(frames) - 1
        /\ \A i \in 1..(Len(frames) - 1) : Popped[i] = frames[i]
    <2>1. Len(frames) \in Nat \ {0} /\ \A i \in 1..(Len(frames) - 1) : frames[i] \in Frame
      BY EmptySeq DEF Stack
    <2> QED BY <2>1 DEF Popped
  <1> QED BY <1>1 DEF Stack, Nested, Popped, AfterFailure

LEMMA PushStack ==
  ASSUME NEW fs, Stack(fs), NEW frame \in Frame, frame.at > 0,
         fs # <<>> => Suspended(fs[Len(fs)])
  PROVE  Stack(Append(fs, frame)) /\ Append(fs, frame) # <<>>
  <1>1. /\ Append(fs, frame) \in Seq(Frame) /\ Len(Append(fs, frame)) = Len(fs) + 1
        /\ \A i \in 1..Len(fs) : Append(fs, frame)[i] = fs[i]
        /\ Append(fs, frame)[Len(fs) + 1] = frame
    BY DEF Stack
  <1> QED BY <1>1 DEF Stack, Nested

\* A child that takes the place of its parent.
LEMMA ReplacedStack ==
  ASSUME Stack(frames), frames # <<>>, NEW frame \in Frame, frame.at > 0
  PROVE  Stack(Append(Popped, frame)) /\ Append(Popped, frame) # <<>>
  <1>1. Popped # <<>> => Suspended(Popped[Len(Popped)])
    BY DEF Stack, Popped, Nested
  <1> QED BY <1>1, PoppedStack, PushStack

\* A root run inside the action that enters it.
LEMMA NestedStack ==
  ASSUME Stack(frames), Doing(Entries \cup {"return_to_nearest_checkpoint"}),
         NEW frame \in Frame, frame.at > 0
  PROVE  Stack(Append(Advanced, frame)) /\ Append(Advanced, frame) # <<>>
  <1>0. frames # <<>> /\ Len(frames) \in Nat \ {0} /\ Top.at <= Len(Script(Top))
    BY EmptySeq DEF Doing, Running, Stack
  <1>1. Top \in Frame /\ Top.at \in 1..Len(Script(Top))
    <2>1. Top \in Frame /\ Top.at > 0
      BY <1>0 DEF Stack, Top, Nested
    <2>2. Top.at \in Nat /\ Len(Script(Top)) \in Nat
      BY <2>1, ScriptType DEF Frame
    <2> QED BY <1>0, <2>1, <2>2
  <1>2. Script([Top EXCEPT !.at = @ + 1]) = Script(Top)
        /\ [Top EXCEPT !.at = @ + 1].at = Top.at + 1
    BY <1>1, NextAction
  <1>3. Suspended([Top EXCEPT !.at = @ + 1])
    BY <1>1, <1>2, ScriptType DEF Suspended, Doing, Action
  <1> QED BY <1>0, <1>1, <1>3, AdvancedStack, PushStack

LEMMA NestedLength ==
  ASSUME Stack(frames), frames # <<>>, NEW frame \in Frame
  PROVE  Len(Append(Advanced, frame)) = Len(frames) + 1
  BY AdvancedStack DEF Stack
-----------------------------------------------------------------------------
(* What every action does to the stack and to what is shown.               *)

LEMMA DoingFacts ==
  ASSUME RunnerInvariant, NEW types, Doing(types)
  PROVE  /\ Stack(frames) /\ frames # <<>> /\ executed # <<>> /\ turn # "idle"
         /\ Top \in Frame /\ Action.type \in types /\ Action.buttons \subseteq STRING
  <1>1. Stack(frames) /\ frames # <<>> /\ executed # <<>> /\ turn # "idle"
    BY DEF Doing, Running, RunnerInvariant, TypeOK, Stack
  <1>2. Top \in Frame /\ Top.at > 0
    BY <1>1, EmptySeq DEF Stack, Top, Nested
  <1>3. Script(Top) \in Seq(DiscussionAction) /\ Top.at \in 1..Len(Script(Top))
    BY <1>2, ScriptType DEF Frame, Doing
  <1>4. Action \in DiscussionAction
    BY <1>3, ElementOfSeq DEF Action
  <1> QED BY <1>1, <1>2, <1>4 DEF Doing, DiscussionAction

LEMMA ItemType ==
  ASSUME RunnerInvariant, NEW to \in Responder \cup {Guest},
         NEW says \in {"text", "notice", "farewell", "contact", "fallback"},
         NEW who \in Responder \cup {Nobody}
  PROVE  Item(to, says, who) \in Presentation
  BY DEF RunnerInvariant, TypeOK, Knowledge, Item, Presentation

LEMMA FlushedType ==
  ASSUME RunnerInvariant
  PROVE  Flushed \in Seq(Presentation)
  BY DEF RunnerInvariant, TypeOK, Flushed

\* A step of a run that leaves the rest of the update alone.
Keeps == UNCHANGED <<turn, task, db, screen>> /\ turn # "idle" /\ frames # <<>>

\* What is shown stays a sequence of presentations with one at most open.
Showing ==
  /\ pending' \in Seq(Presentation) /\ Len(pending') <= 1
  /\ buffer' \in Seq(Presentation)

\* The contexts stay contexts, and those of the callers are kept.
KeepsContexts == knows' \in Knowledge /\ callers' \in Seq(Knowledge) /\ ContextsKept'

LEMMA CallersFacts ==
  ASSUME RunnerInvariant, frames # <<>>
  PROVE  /\ callers \in Seq(Knowledge) /\ Len(frames) \in Nat \ {0}
         /\ Len(executed) = 1 => Len(callers) = Len(frames) - 1
         /\ Len(callers) \in {Len(frames) - 1, Len(frames)}
  <1>1. callers \in Seq(Knowledge) /\ frames \in Seq(Frame)
    BY DEF RunnerInvariant, TypeOK
  <1> QED BY <1>1, EmptySeq DEF RunnerInvariant, ContextsKept

LEMMA CopyKeeps ==
  ASSUME callers \in Seq(Knowledge), NEW c \in Knowledge, Copy(c)
  PROVE  /\ knows' = c /\ callers' \in Seq(Knowledge)
         /\ callers = <<>> => callers' = <<c>> /\ Len(callers') = 1
         /\ callers # <<>> => callers' = callers
  BY DEF Copy

LEMMA NestKeeps ==
  ASSUME callers \in Seq(Knowledge), knows \in Knowledge, NEW c, Nest(c)
  PROVE  /\ knows' = c /\ callers' \in Seq(Knowledge) /\ Len(callers') = Len(callers) + 1
         /\ callers'[Len(callers) + 1] = knows
         /\ \A i \in 1..Len(callers) : callers'[i] = callers[i]
  BY DEF Nest

LEMMA LeaveKeeps ==
  ASSUME callers \in Seq(Knowledge), NEW c \in Knowledge, Leave(c)
  PROVE  /\ knows' \in Knowledge /\ callers' \in Seq(Knowledge)
         /\ callers = <<>> => knows' = c /\ callers' = callers
         /\ callers # <<>> => /\ knows' = callers[Len(callers)]
                              /\ Len(callers') = Len(callers) - 1
                              /\ \A i \in 1..Len(callers') : callers'[i] = callers[i]
  <1>1. CASE callers = <<>>
    BY <1>1 DEF Leave
  <1>2. CASE callers # <<>>
    <2> DEFINE rest == [i \in 1..(Len(callers) - 1) |-> callers[i]]
    <2>1. Len(callers) \in Nat \ {0} /\ \A i \in 1..Len(callers) : callers[i] \in Knowledge
      BY <1>2, EmptySeq
    <2>2. /\ rest \in Seq(Knowledge) /\ Len(rest) = Len(callers) - 1
          /\ \A i \in 1..Len(rest) : rest[i] = callers[i]
      BY <2>1
    <2>3. callers' = rest /\ knows' = callers[Len(callers)]
      BY <1>2 DEF Leave
    <2> HIDE DEF rest
    <2> QED BY <1>2, <2>1, <2>2, <2>3
  <1> QED BY <1>1, <1>2

LEMMA ContextsAdvanced ==
  ASSUME RunnerInvariant, frames # <<>>, Len(frames') = Len(frames), frames' # <<>>,
         UNCHANGED <<executed, callers>>
  PROVE  callers' \in Seq(Knowledge) /\ ContextsKept'
  BY CallersFacts DEF RunnerInvariant, ContextsKept

LEMMA ContextsLeft ==
  ASSUME RunnerInvariant, frames # <<>>, frames' = Popped, executed' = executed,
         NEW c \in Knowledge, Leave(c)
  PROVE  KeepsContexts
  <1>1. frames' \in Seq(Frame) /\ Len(frames') = Len(frames) - 1
    BY PoppedStack DEF RunnerInvariant, TypeOK, Stack
  <1>2. knows' \in Knowledge /\ callers' \in Seq(Knowledge)
    BY CallersFacts, LeaveKeeps
  <1>3. Len(callers') = IF Len(callers) = 0 THEN 0 ELSE Len(callers) - 1
    BY CallersFacts, LeaveKeeps, EmptySeq
  <1>4. CASE frames' = <<>>
    <2>1. Len(callers') = 0
      BY <1>1, <1>3, <1>4, CallersFacts, EmptySeq
    <2> QED BY <1>2, <1>4, <2>1, EmptySeq DEF KeepsContexts, ContextsKept
  <1>5. CASE frames' # <<>>
    <2>1. Len(frames) >= 2
      BY <1>1, <1>5, CallersFacts, EmptySeq
    <2>2. Len(callers') = Len(callers) - 1
      BY <1>3, <2>1, CallersFacts
    <2> QED BY <1>1, <1>2, <1>5, <2>1, <2>2, CallersFacts DEF KeepsContexts, ContextsKept
  <1> QED BY <1>4, <1>5

LEMMA ContextsHanded ==
  ASSUME RunnerInvariant, frames # <<>>, executed # <<>>, Len(frames') = Len(frames),
         frames' # <<>>, NEW g \in Flow,
         executed' = IF Len(frames) = 1 THEN Append(executed, g) ELSE executed,
         NEW c \in Knowledge, Copy(c)
  PROVE  KeepsContexts
  <1>1. /\ knows' \in Knowledge /\ callers' \in Seq(Knowledge)
        /\ Len(callers') = IF Len(callers) = 0 THEN 1 ELSE Len(callers)
    BY CallersFacts, CopyKeeps, EmptySeq
  <1>2. CASE Len(frames) = 1
    <2>1. executed \in Seq(Flow) /\ Len(executed) > 0
      BY EmptySeq DEF RunnerInvariant, TypeOK
    <2>2. Len(executed') # 1
      BY <1>2, <2>1
    <2>3. Len(callers') = 1
      BY <1>1, <1>2, CallersFacts
    <2> QED BY <1>1, <1>2, <2>2, <2>3 DEF KeepsContexts, ContextsKept
  <1>3. CASE Len(frames) # 1
    <2>1. Len(callers') = Len(callers)
      BY <1>1, <1>3, CallersFacts
    <2> QED BY <1>1, <1>3, <2>1, CallersFacts DEF KeepsContexts, ContextsKept
  <1> QED BY <1>2, <1>3

LEMMA ContextsNested ==
  ASSUME RunnerInvariant, frames # <<>>, Len(frames') = Len(frames) + 1, frames' # <<>>,
         executed' = executed, NEW c \in Knowledge, Nest(c)
  PROVE  KeepsContexts
  <1>1. /\ knows' \in Knowledge /\ callers' \in Seq(Knowledge)
        /\ Len(callers') = Len(callers) + 1
    BY CallersFacts, NestKeeps DEF RunnerInvariant, TypeOK
  <1> QED BY <1>1, CallersFacts DEF KeepsContexts, ContextsKept

LEMMA Appended ==
  ASSUME NEW g \in Flow, NEW s \in Seq(Flow), s # <<>>
  PROVE  /\ Append(s, g) \in Seq(Flow) /\ Append(s, g) # <<>>
         /\ Append(s, g)[1] = s[1]
  BY EmptySeq

\* A handed over, silent or ended event.
LEMMA EmitKeeps ==
  ASSUME RunnerInvariant, NEW types, Doing(types), NEW key, NEW c \in Knowledge,
         Emit(key, c), Flush
  PROVE  /\ Stack(frames') /\ executed' \in Seq(Flow) /\ executed' # <<>>
         /\ executed'[1] = executed[1] /\ Showing /\ pending' = <<>> /\ KeepsContexts
  <1>1. Stack(frames) /\ frames # <<>> /\ executed \in Seq(Flow) /\ executed # <<>>
    BY DoingFacts DEF RunnerInvariant, TypeOK
  <1>2. Showing /\ pending' = <<>>
    BY FlushedType DEF Flush, Showing
  <1>3. ASSUME NEW g \in EventChild(Top, key), HandTo(g, key = "error"), Copy(c)
        PROVE  Stack(frames') /\ executed' \in Seq(Flow) /\ executed' # <<>>
               /\ executed'[1] = executed[1] /\ KeepsContexts
    <2> DEFINE start == Start(g, "does", key = "error")
    <2>1. g \in Flow
      BY DEF EventChild
    <2>2. start \in Frame /\ start.at > 0
      BY <2>1 DEF Start, Frame, Parts
    <2>3. frames' = Append(Popped, start)
      BY <1>3 DEF HandTo
    <2>4. Stack(frames') /\ frames' # <<>>
      BY <1>1, <2>2, <2>3, ReplacedStack
    <2>5. Len(frames') = Len(frames)
      <3>1. Popped \in Seq(Frame) /\ Len(Popped) = Len(frames) - 1
        BY <1>1, PoppedStack DEF Stack
      <3> QED BY <1>1, <2>2, <2>3, <3>1 DEF Stack
    <2>6. executed' \in Seq(Flow) /\ executed' # <<>> /\ executed'[1] = executed[1]
      BY <1>1, <1>3, <2>1, Appended DEF HandTo
    <2>7. KeepsContexts
      BY <1>1, <1>3, <2>1, <2>4, <2>5, ContextsHanded DEF HandTo
    <2> QED BY <2>4, <2>6, <2>7
  <1>4. CASE frames' = Popped /\ executed' = executed /\ Leave(c)
    BY <1>1, <1>2, <1>4, PoppedStack, ContextsLeft
  <1> QED BY <1>2, <1>3, <1>4 DEF Emit

\* A step that shows soundly, keeps the stack, the contexts and the rows typed is
\* sound.
LEMMA RunStep ==
  ASSUME RunnerInvariant, Keeps, Showing, Stack(frames'),
         executed' \in Seq(Flow), executed' # <<>>, executed'[1] = executed[1],
         frames' = <<>> => pending' = <<>>, KeepsContexts,
         failed' \subseteq {"flow", "handler"}, work' \in Rows
  PROVE  RunnerInvariant'
  <1>1. TypeOK'
    BY DEF RunnerInvariant, TypeOK, Keeps, Showing, Stack, KeepsContexts
  <1> QED BY <1>1 DEF RunnerInvariant, Keeps, Showing, Stack, Settled, KeepsContexts

LEMMA FlushShowing ==
  ASSUME RunnerInvariant, Flush
  PROVE  Showing /\ pending' = <<>>
  BY FlushedType DEF Flush, Showing

LEMMA PresentShowing ==
  ASSUME RunnerInvariant, NEW item \in Presentation,
         \/ buffer' = Flushed /\ pending' = <<item>>
         \/ buffer' = Append(Flushed, item) /\ pending' = <<>>
  PROVE  Showing
  <1>1. Flushed \in Seq(Presentation) /\ Append(Flushed, item) \in Seq(Presentation)
    BY FlushedType
  <1>2. <<item>> \in Seq(Presentation) /\ Len(<<item>>) = 1
    OBVIOUS
  <1>3. <<>> \in Seq(Presentation) /\ Len(<<>>) = 0
    BY EmptySeq
  <1>4. CASE buffer' = Flushed /\ pending' = <<item>>
    BY <1>1, <1>2, <1>4 DEF Showing
  <1>5. CASE buffer' = Append(Flushed, item) /\ pending' = <<>>
    BY <1>1, <1>3, <1>5 DEF Showing
  <1> QED BY <1>4, <1>5

LEMMA AdvanceStep ==
  ASSUME RunnerInvariant, NEW types, Doing(types), Showing, frames' = Advanced,
         UNCHANGED <<turn, task, executed, callers, failed, db, screen>>,
         knows' \in Knowledge, work' \in Rows
  PROVE  RunnerInvariant'
  <1>1. Stack(frames) /\ frames # <<>> /\ executed # <<>> /\ Keeps
    BY DoingFacts DEF Keeps
  <1>2. Stack(frames') /\ frames' # <<>> /\ Len(frames') = Len(frames)
    BY <1>1, AdvancedStack
  <1>3. executed' \in Seq(Flow) /\ executed'[1] = executed[1]
        /\ failed' \subseteq {"flow", "handler"}
    BY DEF RunnerInvariant, TypeOK
  <1>4. KeepsContexts
    BY <1>1, <1>2, ContextsAdvanced DEF KeepsContexts
  <1> QED BY <1>1, <1>2, <1>3, <1>4, RunStep

LEMMA EmitStep ==
  ASSUME RunnerInvariant, NEW types, Doing(types), NEW key, NEW c \in Knowledge,
         Emit(key, c), Flush, UNCHANGED <<turn, task, db, screen>>,
         work' \in Rows, failed' \subseteq {"flow", "handler"}
  PROVE  RunnerInvariant'
  <1>1. Keeps
    BY DoingFacts DEF Keeps
  <1> QED BY <1>1, EmitKeeps, RunStep

LEMMA ShowKeepsInvariant ==
  ASSUME RunnerInvariant, ShowText \/ AttachButtons \/ OfferServices
  PROVE  RunnerInvariant'
  <1>0. knows \in Knowledge /\ work \in Rows
    BY DEF RunnerInvariant, TypeOK
  <1>1. CASE ShowText
    <2>1. Showing
      BY <1>1, ItemType, PresentShowing DEF ShowText
    <2> QED BY <1>0, <1>1, <2>1, AdvanceStep DEF ShowText
  <1>2. CASE AttachButtons
    <2> DEFINE item == [pending[1] EXCEPT !.buttons = @ \cup CarriedButtons]
    <2>1. pending \in Seq(Presentation) /\ pending[1] \in Presentation
      BY <1>2, EmptySeq DEF RunnerInvariant, TypeOK, AttachButtons
    <2>2. CarriedButtons \subseteq Carried
      BY <1>0, <1>2, DoingFacts DEF AttachButtons, CarriedButtons, Carried, Knowledge
    <2>3. item \in Presentation
      BY <2>1, <2>2 DEF Presentation
    <2>4. Showing
      BY <1>2, <2>3 DEF AttachButtons, Showing, RunnerInvariant, TypeOK
    <2> QED BY <1>0, <1>2, <2>4, AdvanceStep DEF AttachButtons
  <1>3. CASE OfferServices
    <2> DEFINE item == [Item(Guest, "text", Nobody) EXCEPT
                          !.buttons = {<<b, NoRequest>> : b \in Action.buttons}]
    <2>1. {<<b, NoRequest>> : b \in Action.buttons} \subseteq Carried
      BY <1>3, DoingFacts DEF OfferServices, Carried, Request
    <2>2. Item(Guest, "text", Nobody) \in Presentation
      BY ItemType
    <2>3. item \in Presentation
      BY <2>1, <2>2 DEF Presentation
    <2>4. Showing
      BY <1>3, <2>3, PresentShowing DEF OfferServices
    <2> QED BY <1>0, <1>3, <2>4, AdvanceStep DEF OfferServices
  <1> QED BY <1>1, <1>2, <1>3

LEMMA EffectKeepsInvariant ==
  ASSUME RunnerInvariant,
         \/ PassStep \/ MarkPending \/ SaveInterest \/ Confirm \/ Release \/ Exclude
  PROVE  RunnerInvariant'
  <1>0. knows \in Knowledge /\ work \in Rows
    BY DEF RunnerInvariant, TypeOK
  <1>1. CASE PassStep \/ MarkPending
    BY <1>0, <1>1, FlushShowing, AdvanceStep DEF PassStep, MarkPending
  <1>2. CASE SaveInterest
    <2>1. knows' \in Knowledge
      BY <1>0, <1>2 DEF SaveInterest, Knowledge, Request, Kind
    <2> QED BY <1>0, <1>2, <2>1, FlushShowing, AdvanceStep DEF SaveInterest
  <1>3. CASE Confirm
    <2>1. knows.request \in Kind /\ work.holder[knows.request] \in Responder \cup {Nobody}
      BY <1>0, <1>3 DEF Confirm, Knowledge, Request, Rows
    <2>2. knows' \in Knowledge
      BY <1>0, <1>3, <2>1 DEF Confirm, Knowledge
    <2> QED BY <1>0, <1>3, <2>2, FlushShowing, AdvanceStep DEF Confirm
  <1>4. CASE Release
    <2>1. knows.request \in Kind /\ work.holder[knows.request] \in Responder \cup {Nobody}
      BY <1>0, <1>4 DEF Release, Knowledge, Request, Rows
    <2>2. knows' \in Knowledge
      BY <1>0, <1>4, <2>1 DEF Release, Knowledge
    <2>3. work' \in Rows
      BY <1>0, <1>4, <2>1 DEF Release, Rows
    <2> QED BY <1>4, <2>2, <2>3, FlushShowing, AdvanceStep DEF Release
  <1>5. CASE Exclude
    <2>1. knows.request \in Kind /\ knows.previous \in Responder
      BY <1>0, <1>5 DEF Exclude, Knowledge, Request
    <2>2. work' \in Rows
      BY <1>0, <1>5, <2>1 DEF Exclude, Rows
    <2> QED BY <1>0, <1>5, <2>2, FlushShowing, AdvanceStep DEF Exclude
  <1> QED BY <1>1, <1>2, <1>3, <1>4, <1>5

LEMMA PartnerType ==
  ASSUME RunnerInvariant
  PROVE  Partner \in Responder \cup {Nobody}
  BY DEF RunnerInvariant, TypeOK, Partner, Knowledge, Request, Rows

LEMMA ContactKeepsInvariant ==
  ASSUME RunnerInvariant, Notify \/ ShareContact \/ NotifyPrevious
  PROVE  RunnerInvariant'
  <1>0. knows \in Knowledge /\ work \in Rows
    BY DEF RunnerInvariant, TypeOK
  <1>1. CASE Notify
    <2>1. Partner \in Responder /\ knows' \in Knowledge
      BY <1>0, <1>1, PartnerType DEF Notify, Knowledge
    <2>2. Item(Partner, "notice", Partner) \in Presentation
      BY <2>1, ItemType
    <2> QED BY <1>0, <1>1, <2>1, <2>2, PresentShowing, AdvanceStep DEF Notify
  <1>2. CASE ShareContact
    <2>1. Partner \in Responder /\ knows' \in Knowledge
      BY <1>0, <1>2, PartnerType DEF ShareContact, Knowledge
    <2>2. Item(Guest, "contact", Partner) \in Presentation
      BY <2>1, ItemType
    <2> QED BY <1>0, <1>2, <2>1, <2>2, PresentShowing, AdvanceStep DEF ShareContact
  <1>3. CASE NotifyPrevious
    <2>1. knows.previous \in Responder
      BY <1>0, <1>3 DEF NotifyPrevious, Knowledge
    <2>2. Item(knows.previous, "farewell", knows.previous) \in Presentation
      BY <2>1, ItemType
    <2> QED BY <1>0, <1>3, <2>2, PresentShowing, AdvanceStep DEF NotifyPrevious
  <1> QED BY <1>1, <1>2, <1>3

LEMMA SearchKeepsInvariant ==
  ASSUME RunnerInvariant, NEW k \in Kind,
         ReserveNobody(k) \/ \E r \in Pool[k] : Reserve(k, r)
  PROVE  RunnerInvariant'
  <1>0. knows \in Knowledge /\ work \in Rows /\ failed \subseteq {"flow", "handler"}
    BY DEF RunnerInvariant, TypeOK
  <1>1. CASE ReserveNobody(k)
    <2> DEFINE c == [knows EXCEPT !.request = k, !.holder = Nobody]
    <2>1. c \in Knowledge
      BY <1>0 DEF Knowledge, Request
    <2>2. Emit(NotFound[k], c)
      BY <1>1 DEF ReserveNobody
    <2> HIDE DEF c
    <2> QED BY <1>0, <1>1, <2>1, <2>2, EmitStep DEF ReserveNobody
  <1>2. ASSUME NEW r \in Pool[k], Reserve(k, r) PROVE RunnerInvariant'
    <2> DEFINE c == [knows EXCEPT !.request = k, !.holder = r]
    <2>1. r \in Responder
      BY PeopleAssumption
    <2>2. c \in Knowledge
      BY <1>0, <2>1 DEF Knowledge, Request
    <2>3. work' \in Rows
      BY <1>0, <1>2, <2>1 DEF Reserve, Rows
    <2>4. Emit(Found[k], c)
      BY <1>2 DEF Reserve
    <2> HIDE DEF c
    <2> QED BY <1>0, <1>2, <2>2, <2>3, <2>4, EmitStep DEF Reserve
  <1> QED BY <1>1, <1>2

LEMMA AttendanceKeepsInvariant ==
  ASSUME RunnerInvariant,
         SelectAttendance \/ \E some \in BOOLEAN : ResolveOptions(some)
  PROVE  RunnerInvariant'
  <1>0. knows \in Knowledge /\ work \in Rows /\ failed \subseteq {"flow", "handler"}
    BY DEF RunnerInvariant, TypeOK
  <1>1. CASE SelectAttendance
    BY <1>0, <1>1, EmitStep DEF SelectAttendance
  <1>2. ASSUME NEW some \in BOOLEAN, ResolveOptions(some) PROVE RunnerInvariant'
    <2> DEFINE c == [knows EXCEPT !.choices = some]
    <2>1. c \in Knowledge
      BY <1>0 DEF Knowledge
    <2>2. PICK key : Emit(key, c)
      BY <1>2 DEF ResolveOptions
    <2> HIDE DEF c
    <2> QED BY <1>0, <1>2, <2>1, <2>2, EmitStep DEF ResolveOptions
  <1> QED BY <1>1, <1>2

LEMMA NavigationKeepsInvariant ==
  ASSUME RunnerInvariant, EnterRoot \/ ReturnNow
  PROVE  RunnerInvariant'
  <1>0. /\ knows \in Knowledge /\ work \in Rows /\ failed \subseteq {"flow", "handler"}
        /\ executed \in Seq(Flow) /\ Stack(frames)
    BY DEF RunnerInvariant, TypeOK, Stack
  <1>1. CASE EnterRoot
    <2>1. Doing(Entries \cup {"return_to_nearest_checkpoint"}) /\ executed # <<>> /\ Keeps
      BY <1>1, DoingFacts DEF EnterRoot, Doing, Keeps
    <2>2. Entered \in Flow
      BY DocumentAssumption DEF Entered
    <2>3. Start(Entered, "does", FALSE) \in Frame /\ Start(Entered, "does", FALSE).at > 0
      BY <2>2 DEF Start, Frame, Parts
    <2>4. Stack(frames') /\ frames' # <<>> /\ Len(frames') = Len(frames) + 1
      BY <1>0, <1>1, <2>1, <2>3, NestedStack, NestedLength DEF EnterRoot, Keeps
    <2>5. work' \in Rows
      BY <1>0, <1>1, <2>2 DEF EnterRoot, Rows
    <2>6. [knows EXCEPT !.branch = Entered] \in Knowledge
      BY <1>0, <2>2 DEF Knowledge
    <2>7. KeepsContexts
      BY <1>1, <2>1, <2>4, <2>6, ContextsNested DEF EnterRoot, Keeps
    <2> QED BY <1>0, <1>1, <2>1, <2>4, <2>5, <2>7, FlushShowing, RunStep DEF EnterRoot
  <1>2. CASE ReturnNow
    <2> DEFINE p == Pop(knows.branch)
    <2>1. Doing(Entries \cup {"return_to_nearest_checkpoint"}) /\ executed # <<>> /\ Keeps
      BY <1>2, DoingFacts DEF ReturnNow, Doing, Keeps
    <2>2. knows.branch \in Flow
      BY <1>0 DEF Knowledge
    <2>3. p \in Flow
      BY <1>2, <2>2, DocumentAssumption, NearestAssumption DEF ReturnNow, Pop
    <2>4. Start(p, "back", FALSE) \in Frame /\ Start(p, "back", FALSE).at > 0
      BY <2>3 DEF Start, Frame, Parts
    <2>5. Stack(frames') /\ frames' # <<>> /\ Len(frames') = Len(frames) + 1
      BY <1>0, <1>2, <2>1, <2>4, NestedStack, NestedLength DEF ReturnNow, Keeps
    <2>6. KeepsContexts
      BY <1>0, <1>2, <2>1, <2>5, ContextsNested DEF ReturnNow, Keeps
    <2> QED BY <1>0, <1>2, <2>1, <2>5, <2>6, FlushShowing, RunStep DEF ReturnNow
  <1> QED BY <1>1, <1>2

LEMMA LearntType ==
  ASSUME RunnerInvariant
  PROVE  Learnt \subseteq Knowledge
  <1>1. knows \in Knowledge /\ Partner \in Responder \cup {Nobody}
    BY PartnerType DEF RunnerInvariant, TypeOK
  <1>2. Sought \subseteq Request
    BY DEF Sought, Request
  <1> QED BY <1>1, <1>2 DEF Learnt, Knowledge

LEMMA FailKeepsInvariant ==
  ASSUME RunnerInvariant, Fail
  PROVE  RunnerInvariant'
  <1>0. work' \in Rows /\ failed' \subseteq {"flow", "handler"}
    BY DEF RunnerInvariant, TypeOK, Fail
  <1>1. ASSUME NEW c \in Knowledge, Flush, Emit("error", c) PROVE RunnerInvariant'
    BY <1>0, <1>1, EmitStep DEF Fail
  <1>2. ASSUME NEW c \in Knowledge, buffer' = Append(Flushed, Fallback), pending' = <<>>,
               frames' = AfterFailure, executed' = executed, Leave(c)
        PROVE  RunnerInvariant'
    <2>1. Fallback \in Presentation
      BY ItemType DEF Fallback
    <2>2. Showing
      BY <1>2, <2>1, PresentShowing
    <2>3. /\ Stack(frames) /\ frames # <<>> /\ executed # <<>> /\ Keeps
          /\ executed \in Seq(Flow)
      BY DoingFacts DEF Fail, Keeps, RunnerInvariant, TypeOK
    <2>4. Stack(frames') /\ frames' = Popped
      BY <1>2, <2>3, PoppedStack
    <2>5. KeepsContexts
      BY <1>2, <2>3, <2>4, ContextsLeft
    <2> QED BY <1>0, <1>2, <2>2, <2>3, <2>4, <2>5, RunStep
  <1>3. PICK c \in Learnt :
          \/ Flush /\ Emit("error", c)
          \/ /\ buffer' = Append(Flushed, Fallback) /\ pending' = <<>>
             /\ frames' = AfterFailure /\ executed' = executed /\ Leave(c)
    BY DEF Fail
  <1> QED BY <1>1, <1>2, <1>3, LearntType

LEMMA EndFlowKeepsInvariant ==
  ASSUME RunnerInvariant, EndFlow
  PROVE  RunnerInvariant'
  <1>1. /\ knows \in Knowledge /\ work' \in Rows /\ failed' \subseteq {"flow", "handler"}
        /\ Stack(frames) /\ frames # <<>> /\ executed # <<>> /\ Keeps
        /\ executed \in Seq(Flow)
    BY DEF RunnerInvariant, TypeOK, EndFlow, Running, Stack, Keeps
  <1>2. Stack(frames')
    BY <1>1, PoppedStack DEF EndFlow
  <1>3. KeepsContexts
    BY <1>1, ContextsLeft DEF EndFlow
  <1> QED BY <1>1, <1>2, <1>3, FlushShowing, RunStep DEF EndFlow
-----------------------------------------------------------------------------
(* How a run begins and what is left when it has ended.                    *)

LEMMA OneFrame ==
  ASSUME NEW frame \in Frame, frame.at = 1
  PROVE  /\ <<frame>> \in Seq(Frame) /\ Len(<<frame>>) = 1 /\ <<frame>> # <<>>
         /\ Nested(<<frame>>)
  BY DEF Nested

LEMMA BeginKeepsInvariant ==
  ASSUME RunnerInvariant, NEW f \in Flow, NEW how \in {"text", "resumed", "button", "root"},
         NEW what \in {"answer", "choice", "root"}, NEW request \in Request,
         Begin(f, how, what, request), work' \in Rows, pending = <<>>,
         what = "choice" => Parent[f] # NoFlow, how # "root" => Parent[f] # NoFlow
  PROVE  RunnerInvariant'
  <1>1. Start(f, "does", FALSE) \in Frame /\ Start(f, "does", FALSE).at = 1
    BY DEF Start, Frame, Parts
  <1>2. frames' \in Seq(Frame) /\ frames' # <<>> /\ Nested(frames')
    BY <1>1, OneFrame DEF Begin
  <1>4. executed' \in Seq(Flow) /\ executed' # <<>> /\ executed'[1] = f
    BY DEF Begin
  <1>5. knows' \in Knowledge /\ callers' = <<>> /\ callers' \in Seq(Knowledge)
    BY DocumentAssumption, EmptySeq DEF Begin, Unknowing, Knowledge
  <1>7. ContextsKept'
    BY <1>1, <1>2, <1>5, OneFrame, EmptySeq DEF Begin, ContextsKept
  <1>6. TypeOK'
    BY <1>2, <1>4, <1>5 DEF RunnerInvariant, TypeOK, Begin
  <1> QED BY <1>2, <1>4, <1>6, <1>7 DEF RunnerInvariant, Begin, Settled

LEMMA PreparedType ==
  ASSUME RunnerInvariant
  PROVE  /\ [work EXCEPT !.open = Prepared(@)] \in Rows
         /\ Prepared(work.open) \subseteq Flow
         /\ \A f \in Flow : [work EXCEPT !.open = (@ \cap OfService) \cup {System}] \in Rows
                            /\ [work EXCEPT !.open = @ \cup {f}] \in Rows
  <1>1. work \in Rows
    BY DEF RunnerInvariant, TypeOK
  <1>2. Prepared(work.open) \subseteq Flow
    BY <1>1, DocumentAssumption DEF Prepared, Rows
  <1> QED BY <1>1, <1>2, DocumentAssumption DEF Rows

LEMMA AskKeepsInvariant ==
  ASSUME RunnerInvariant, NEW f \in Flow,
         AnswerText(f) \/ ChooseByText(f) \/ Resume(f) \/ OpenRoot(f)
  PROVE  RunnerInvariant'
  <1>0. work \in Rows /\ work.open \subseteq Flow /\ Prepared(work.open) \subseteq Flow
    BY PreparedType DEF RunnerInvariant, TypeOK, Rows
  <1>1. CASE AnswerText(f)
    <2>1. work' \in Rows /\ Begin(f, "text", "answer", NoRequest)
      BY <1>1, PreparedType DEF AnswerText
    <2>2. pending = <<>>
      BY <1>1 DEF AnswerText, RunnerInvariant, Settled
    <2>3. Parent[f] # NoFlow
      BY <1>1 DEF AnswerText, Offers
    <2> QED BY <2>1, <2>2, <2>3, BeginKeepsInvariant DEF Request
  <1>2. CASE ChooseByText(f)
    <2>1. work' \in Rows /\ Begin(f, "text", "choice", NoRequest)
      BY <1>2, PreparedType DEF ChooseByText
    <2>2. pending = <<>>
      BY <1>2 DEF ChooseByText, RunnerInvariant, Settled
    <2>3. Parent[f] # NoFlow
      BY <1>2 DEF ChooseByText, Offers
    <2> QED BY <2>1, <2>2, <2>3, BeginKeepsInvariant DEF Request
  <1>3. CASE Resume(f)
    <2>1. work' \in Rows /\ Begin(f, "resumed", "choice", NoRequest)
      BY <1>0, <1>3 DEF Resume
    <2>2. pending = <<>>
      BY <1>3 DEF Resume, RunnerInvariant, Settled
    <2>3. Parent[f] # NoFlow
      BY <1>0, <1>3, DocumentAssumption DEF Resume
    <2> QED BY <2>1, <2>2, <2>3, BeginKeepsInvariant DEF Request
  <1>4. CASE OpenRoot(f)
    <2>1. work' \in Rows /\ Begin(f, "root", "root", NoRequest)
      BY <1>4, PreparedType DEF OpenRoot
    <2>2. pending = <<>>
      BY <1>4 DEF OpenRoot, RunnerInvariant
    <2> QED BY <2>1, <2>2, BeginKeepsInvariant DEF Request
  <1> QED BY <1>1, <1>2, <1>3, <1>4

LEMMA PressKeepsInvariant ==
  ASSUME RunnerInvariant, NEW b \in screen, NEW f \in Pressed(b), Press(b, f)
  PROVE  RunnerInvariant'
  <1>1. b[2] \in Request
    BY DEF RunnerInvariant, TypeOK, Carried
  <1>2. f \in Flow /\ Parent[f] \in work.open /\ work.open \subseteq Flow
    BY DEF Pressed, RunnerInvariant, TypeOK, Rows
  <1>3. work' \in Rows /\ pending = <<>> /\ Parent[f] # NoFlow
    BY <1>2, DocumentAssumption DEF Press, Begin, RunnerInvariant, TypeOK
  <1> QED BY <1>1, <1>2, <1>3, BeginKeepsInvariant DEF Press

LEMMA EndKeepsInvariant ==
  ASSUME RunnerInvariant, EndChoice \/ EndRun
  PROVE  RunnerInvariant'
  <1>1. executed \in Seq(Flow) /\ executed # <<>> /\ work \in Rows /\ frames = <<>>
    BY DEF RunnerInvariant, TypeOK, EndChoice, EndRun
  <1>4. callers = <<>> /\ callers' = <<>>
    BY <1>1 DEF RunnerInvariant, ContextsKept, EndChoice, EndRun
  <1>2. CASE EndChoice
    <2>1. Len(executed) \in Nat \ {0} /\ \A i \in 1..Len(executed) : executed[i] \in Flow
      BY <1>1, EmptySeq
    <2>2. Last \in Flow /\ Chosen \subseteq Flow
      BY <2>1 DEF Last, Chosen
    <2>3. work' \in Rows
      BY <1>1, <1>2, <2>2 DEF EndChoice, RowsAfter, Rows
    <2>4. CASE LeadsBack
      <3>1. Nearest[Last] \in Flow
        BY <1>2, <2>2, <2>4, NearestAssumption DEF EndChoice, NoWayBack, LeadsBack
      <3>2. /\ Start(Nearest[Last], "back", FALSE) \in Frame
            /\ Start(Nearest[Last], "back", FALSE).at = 1
        BY <3>1 DEF Start, Frame, Parts
      <3>3. frames' = <<Start(Nearest[Last], "back", FALSE)>> /\ task' = "return"
        BY <1>2, <2>4 DEF EndChoice
      <3>4. frames' \in Seq(Frame) /\ frames' # <<>> /\ Nested(frames')
        BY <3>2, <3>3, OneFrame
      <3>6. TypeOK'
        BY <1>2, <2>3, <3>3, <3>4 DEF RunnerInvariant, TypeOK, EndChoice
      <3>7. ContextsKept'
        BY <1>4, <3>2, <3>3, <3>4, OneFrame, EmptySeq DEF ContextsKept
      <3> QED BY <1>2, <3>3, <3>4, <3>6, <3>7 DEF RunnerInvariant, EndChoice, Settled
    <2>5. CASE ~LeadsBack
      <3>1. frames' = <<>> /\ task' = "done"
        BY <1>2, <2>5 DEF EndChoice
      <3>2. TypeOK'
        BY <1>1, <1>2, <2>3, <3>1 DEF RunnerInvariant, TypeOK, EndChoice
      <3> QED BY <1>1, <1>2, <1>4, <3>1, <3>2 DEF RunnerInvariant, EndChoice, Settled, ContextsKept
    <2> QED BY <2>4, <2>5
  <1>3. CASE EndRun
    <2>1. task' \in {"answered", "completed", "done"}
      BY <1>3 DEF EndRun
    <2>2. TypeOK'
      BY <1>3, <2>1 DEF RunnerInvariant, TypeOK, EndRun
    <2> QED BY <1>1, <1>3, <1>4, <2>1, <2>2 DEF RunnerInvariant, EndRun, Settled, ContextsKept
  <1> QED BY <1>2, <1>3

LEMMA IdleKeepsInvariant ==
  ASSUME RunnerInvariant, Idle, db' \in Rows, work' = db', screen' \subseteq Carried
  PROVE  RunnerInvariant'
  <1>1. knows' \in Knowledge
    BY DocumentAssumption DEF Idle, Unknowing, Knowledge, Request
  <1>2. /\ <<>> \in Seq(Frame) /\ <<>> \in Seq(Flow) /\ <<>> \in Seq(Presentation)
        /\ <<>> \in Seq(Knowledge) /\ Len(<<>>) = 0
    BY EmptySeq
  <1>3. TypeOK'
    BY <1>1, <1>2 DEF TypeOK, Idle
  <1>4. Nested(frames')
    BY <1>2 DEF Nested, Idle
  <1>5. ContextsKept'
    BY DEF Idle, ContextsKept
  <1> QED BY <1>2, <1>3, <1>4, <1>5 DEF RunnerInvariant, Idle, Settled

LEMMA DispatchKeepsInvariant ==
  ASSUME RunnerInvariant, Commit \/ Abort \/ Raise
  PROVE  RunnerInvariant'
  <1>1. work \in Rows /\ db \in Rows /\ screen \subseteq Carried
    BY DEF RunnerInvariant, TypeOK
  <1>2. CASE Commit
    <2>1. ButtonsOf(buffer) \subseteq Carried
      <3>1. \A i \in 1..Len(buffer) : buffer[i] \in Presentation
        BY ElementOfSeq DEF RunnerInvariant, TypeOK
      <3>2. \A i \in 1..Len(buffer) : buffer[i].buttons \subseteq Carried
        BY <3>1 DEF Presentation
      <3> QED BY <3>2 DEF ButtonsOf
    <2> QED BY <1>1, <1>2, <2>1, IdleKeepsInvariant DEF Commit
  <1>3. CASE Abort \/ Raise
    BY <1>1, <1>3, IdleKeepsInvariant DEF Abort, Raise, Lose
  <1> QED BY <1>2, <1>3

LEMMA InitInvariant == Init => RunnerInvariant
  <1> SUFFICES ASSUME Init PROVE RunnerInvariant
    OBVIOUS
  <1>1. work \in Rows /\ db \in Rows
    BY DocumentAssumption DEF Init, Rows
  <1>2. knows \in Knowledge
    BY DocumentAssumption DEF Init, Unknowing, Knowledge, Request
  <1>3. /\ <<>> \in Seq(Frame) /\ <<>> \in Seq(Flow) /\ <<>> \in Seq(Presentation)
        /\ <<>> \in Seq(Knowledge) /\ Len(<<>>) = 0
    BY EmptySeq
  <1>4. TypeOK
    BY <1>1, <1>2, <1>3 DEF Init, TypeOK
  <1>5. ContextsKept
    BY DEF Init, ContextsKept
  <1> QED BY <1>3, <1>4, <1>5 DEF Init, RunnerInvariant, Nested, Settled

LEMMA NextKeepsInvariant == RunnerInvariant /\ [Next]_vars => RunnerInvariant'
  <1> SUFFICES ASSUME RunnerInvariant, [Next]_vars PROVE RunnerInvariant'
    OBVIOUS
  <1>1. CASE UNCHANGED vars
    BY <1>1 DEF vars, RunnerInvariant, TypeOK, Nested, Suspended, Script, Settled,
              ContextsKept
  <1>2. CASE Act
    BY <1>2, ShowKeepsInvariant, EffectKeepsInvariant, ContactKeepsInvariant,
       SearchKeepsInvariant, AttendanceKeepsInvariant, NavigationKeepsInvariant,
       FailKeepsInvariant, EndFlowKeepsInvariant, EndKeepsInvariant, DispatchKeepsInvariant
       DEF Act
  <1>3. CASE Commit \/ Abort
    BY <1>3, DispatchKeepsInvariant
  <1>4. ASSUME NEW f \in Flow, AnswerText(f) \/ ChooseByText(f) \/ Resume(f) \/ OpenRoot(f)
        PROVE  RunnerInvariant'
    BY <1>4, AskKeepsInvariant
  <1>5. ASSUME NEW b \in screen, NEW f \in Pressed(b), Press(b, f) PROVE RunnerInvariant'
    BY <1>5, PressKeepsInvariant
  <1> QED BY <1>1, <1>2, <1>3, <1>4, <1>5 DEF Next

\* The runner's state is sound in every reachable state: presentations, nested
\* runs, the flows of a choice and the transaction.
THEOREM Invariant == Spec => []RunnerInvariant
  BY InitInvariant, NextKeepsInvariant, PTL DEF Spec
-----------------------------------------------------------------------------
(* Every step adds to the script, hangs buttons below its end, hands it    *)
(* over, drops it, or leaves it alone.                                     *)

LEMMA ScriptKept ==
  ASSUME RunnerInvariant, Flush, UNCHANGED <<db, screen>>
  PROVE  UNCHANGED Reply!scriptVars
  BY FlushedType, ConcatEmptySeq DEF Flush, Flushed, Reply!scriptVars

LEMMA Adds ==
  ASSUME RunnerInvariant, UNCHANGED <<db, screen>>, NEW item \in Presentation,
         \/ buffer' = Flushed /\ pending' = <<item>>
         \/ buffer' = Append(Flushed, item) /\ pending' = <<>>
  PROVE  Reply!ScriptNext
  <1>1. Flushed \in Seq(Presentation) /\ Len(Flushed) \in Nat
    BY FlushedType
  <1>2. Append(Flushed, item) \in Seq(Presentation)
        /\ Flushed \o <<item>> = Append(Flushed, item)
        /\ Append(Flushed, item) \o <<>> = Append(Flushed, item)
    BY <1>1, ConcatEmptySeq
  <1>3. Flushed' = Append(Flushed, item)
    BY <1>2 DEF Flushed
  <1>4. /\ Len(Append(Flushed, item)) = Len(Flushed) + 1
        /\ \A i \in 1..Len(Flushed) : Append(Flushed, item)[i] = Flushed[i]
    BY <1>1
  <1>5. Reply!Add
    BY <1>2, <1>3, <1>4 DEF Reply!Add
  <1> QED BY <1>5 DEF Reply!ScriptNext

LEMMA MapShow ==
  ASSUME RunnerInvariant, ShowText \/ OfferServices
  PROVE  Reply!ScriptNext
  <1>1. CASE ShowText
    BY <1>1, ItemType, Adds DEF ShowText
  <1>2. CASE OfferServices
    <2> DEFINE item == [Item(Guest, "text", Nobody) EXCEPT
                          !.buttons = {<<b, NoRequest>> : b \in Action.buttons}]
    <2>1. {<<b, NoRequest>> : b \in Action.buttons} \subseteq Carried
      BY <1>2, DoingFacts DEF OfferServices, Carried, Request
    <2>2. Item(Guest, "text", Nobody) \in Presentation
      BY ItemType
    <2>3. item \in Presentation
      BY <2>1, <2>2 DEF Presentation
    <2> QED BY <1>2, <2>3, Adds DEF OfferServices
  <1> QED BY <1>1, <1>2

LEMMA MapContact ==
  ASSUME RunnerInvariant, Notify \/ ShareContact \/ NotifyPrevious
  PROVE  Reply!ScriptNext
  <1>0. knows.previous \in Responder \cup {Nobody} /\ Partner \in Responder \cup {Nobody}
    BY PartnerType DEF RunnerInvariant, TypeOK, Knowledge
  <1>1. CASE Notify
    BY <1>0, <1>1, ItemType, Adds DEF Notify
  <1>2. CASE ShareContact
    BY <1>0, <1>2, ItemType, Adds DEF ShareContact
  <1>3. CASE NotifyPrevious
    BY <1>0, <1>3, ItemType, Adds DEF NotifyPrevious
  <1> QED BY <1>1, <1>2, <1>3

LEMMA LastOne ==
  ASSUME NEW s \in Seq(Presentation), NEW t \in Seq(Presentation), Len(t) = 1
  PROVE  /\ s \o t \in Seq(Presentation) /\ Len(s \o t) = Len(s) + 1
         /\ (s \o t)[Len(s) + 1] = t[1]
         /\ \A i \in 1..(Len(s) + 1 - 1) : (s \o t)[i] = s[i]
  <1> DEFINE u == s \o t
             n == Len(s)
  <1>1. n \in Nat
    OBVIOUS
  <1>2. /\ u \in Seq(Presentation) /\ Len(u) = n + Len(t)
        /\ \A i \in 1..(n + Len(t)) : u[i] = IF i <= n THEN s[i] ELSE t[i - n]
    BY ConcatProperties
  <1> HIDE DEF u, n
  <1>3. Len(u) = n + 1 /\ u[n + 1] = t[1]
    BY <1>1, <1>2
  <1>4. \A i \in 1..(n + 1 - 1) : u[i] = s[i]
    BY <1>1, <1>2
  <1>5. /\ u \in Seq(Presentation) /\ Len(u) = n + 1 /\ u[n + 1] = t[1]
        /\ \A i \in 1..(n + 1 - 1) : u[i] = s[i]
    BY <1>2, <1>3, <1>4
  <1> QED BY <1>5 DEF u, n

LEMMA MapAttach ==
  ASSUME RunnerInvariant, AttachButtons
  PROVE  Reply!ScriptNext
  <1> DEFINE item == [pending[1] EXCEPT !.buttons = @ \cup CarriedButtons]
             n == Len(buffer) + 1
  <1>1. /\ pending \in Seq(Presentation) /\ Len(pending) = 1 /\ pending[1] \in Presentation
        /\ buffer \in Seq(Presentation) /\ Len(buffer) \in Nat
    BY EmptySeq DEF RunnerInvariant, TypeOK, AttachButtons
  <1>2. CarriedButtons \subseteq Carried
    BY DoingFacts DEF AttachButtons, CarriedButtons, Carried, RunnerInvariant, TypeOK,
                      Knowledge
  <1>3. /\ item \in Presentation
        /\ pending[1].buttons \subseteq item.buttons
        /\ pending[1] = [item EXCEPT !.buttons = pending[1].buttons]
    BY <1>1, <1>2 DEF Presentation
  <1>4. pending' = <<item>> /\ buffer' = buffer /\ UNCHANGED <<screen, db>>
    BY DEF AttachButtons
  <1>5. /\ Flushed \in Seq(Presentation) /\ Len(Flushed) = n /\ Flushed[n] = pending[1]
        /\ \A i \in 1..(n - 1) : Flushed[i] = buffer[i]
    BY <1>1, LastOne DEF Flushed
  <1> HIDE DEF item
  <1>6. /\ Flushed' \in Seq(Presentation) /\ Len(Flushed') = n /\ Flushed'[n] = item
        /\ \A i \in 1..(n - 1) : Flushed'[i] = buffer[i]
    BY <1>1, <1>3, <1>4 DEF Flushed
  <1>7. Reply!Hang
    BY <1>1, <1>3, <1>4, <1>5, <1>6 DEF Reply!Hang
  <1> QED BY <1>7 DEF Reply!ScriptNext

LEMMA MapFail ==
  ASSUME RunnerInvariant, Fail
  PROVE  [Reply!ScriptNext]_(Reply!scriptVars)
  <1>1. CASE Flush
    BY <1>1, ScriptKept DEF Fail
  <1>2. CASE buffer' = Append(Flushed, Fallback) /\ pending' = <<>>
    BY <1>2, ItemType, Adds DEF Fail, Fallback
  <1> QED BY <1>1, <1>2 DEF Fail

LEMMA MapRun ==
  ASSUME RunnerInvariant,
         \/ PassStep \/ MarkPending \/ SaveInterest \/ Confirm \/ Release \/ Exclude
         \/ \E k \in Kind : ReserveNobody(k) \/ \E r \in Pool[k] : Reserve(k, r)
         \/ SelectAttendance \/ \E some \in BOOLEAN : ResolveOptions(some)
         \/ EnterRoot \/ ReturnNow \/ EndFlow
  PROVE  UNCHANGED Reply!scriptVars
  BY ScriptKept DEF PassStep, MarkPending, SaveInterest, Confirm, Release, Exclude,
     ReserveNobody, Reserve, SelectAttendance, ResolveOptions, EnterRoot, ReturnNow, EndFlow

LEMMA MapAsk ==
  ASSUME RunnerInvariant,
         \/ \E f \in Flow : AnswerText(f) \/ ChooseByText(f) \/ Resume(f) \/ OpenRoot(f)
         \/ \E b \in screen : \E f \in Pressed(b) : Press(b, f)
         \/ EndChoice \/ EndRun
  PROVE  UNCHANGED Reply!scriptVars
  BY DEF AnswerText, ChooseByText, Resume, OpenRoot, Press, Begin, EndChoice, EndRun,
         Flushed, Reply!scriptVars

LEMMA MapDispatch ==
  ASSUME RunnerInvariant, Commit \/ Abort \/ Raise
  PROVE  Reply!ScriptNext
  <1>1. Flushed' = <<>>
    BY ConcatEmptySeq, EmptySeq DEF Commit, Abort, Raise, Lose, Idle, Flushed
  <1>2. CASE Commit
    <2>1. \A i \in 1..Len(buffer) : i \in 1..Len(Flushed) /\ Flushed[i] = buffer[i]
      BY ConcatProperties DEF Flushed, RunnerInvariant, TypeOK
    <2>2. ButtonsOf(buffer) \subseteq UNION {Flushed[i].buttons : i \in 1..Len(Flushed)}
      BY <2>1 DEF ButtonsOf
    <2>3. Reply!HandOver
      BY <1>1, <1>2, <2>2 DEF Commit, Reply!HandOver, RunnerInvariant, TypeOK
    <2> QED BY <2>3 DEF Reply!ScriptNext
  <1>3. CASE Abort \/ Raise
    BY <1>1, <1>3 DEF Abort, Raise, Lose, Reply!Drop, Reply!ScriptNext
  <1> QED BY <1>2, <1>3

LEMMA MapNext == RunnerInvariant /\ [Next]_vars => [Reply!ScriptNext]_(Reply!scriptVars)
  <1> SUFFICES ASSUME RunnerInvariant, [Next]_vars
               PROVE  [Reply!ScriptNext]_(Reply!scriptVars)
    OBVIOUS
  <1>1. CASE UNCHANGED vars
    BY <1>1 DEF vars, Flushed, Reply!scriptVars
  <1>2. CASE Act
    BY <1>2, MapShow, MapContact, MapAttach, MapFail, MapRun, MapAsk, MapDispatch DEF Act
  <1>3. CASE Next /\ ~Act
    BY <1>3, MapAsk, MapDispatch DEF Next
  <1> QED BY <1>1, <1>2, <1>3

LEMMA MapInit == Init => Reply!ScriptInit
  <1> SUFFICES ASSUME Init PROVE Reply!ScriptInit
    OBVIOUS
  <1>1. Flushed = <<>>
    BY ConcatEmptySeq, EmptySeq DEF Init, Flushed
  <1> QED BY <1>1, InitInvariant DEF Init, Reply!ScriptInit, RunnerInvariant, TypeOK

\* Whatever is nested in a reply or fails in it, it keeps its order, and goes or
\* is dropped with its transaction.
THEOREM Refinement == Spec => ImplementsReplyScript
  BY MapInit, MapNext, Invariant, PTL DEF Spec, ImplementsReplyScript, Reply!ScriptSpec
-----------------------------------------------------------------------------
(* Publication enforces two of the authoring rules.                        *)

\* Both modules name the same events.
LEMMA SameEvents ==
  ASSUME NEW type \in Emitting
  PROVE  Rulebook!EventKeys(type) = Outcomes[type] /\ Outcomes[type] # {}
  BY DEF Emitting, Outcomes, Rulebook!EventKeys, Found, NotFound

LEMMA SameCardinality ==
  ASSUME NEW S PROVE Rulebook!Cardinality(S) = Cardinality(S)
  BY DEF Rulebook!Cardinality, Cardinality

\* A flow hangs below another one in one tree.
LEMMA SameTree ==
  ASSUME NEW Trees, NEW Document, Published(Trees, Document),
         NEW f \in Flow, NEW g \in Flow, Parent[g] = f
  PROVE  \E D \in Trees : /\ Document[f] \in D
                          /\ Document[g] \in Rulebook!Children(D, Document[f])
  <1>1. /\ Document[f].key = f /\ Document[g].parent = f /\ f # NoFlow
        /\ \E D \in Trees : Document[g] \in D
    BY DocumentAssumption DEF Published
  <1>2. PICK D \in Trees : Document[g] \in D
    BY <1>1
  <1>3. PICK e \in D : e.key = f
    BY <1>1, <1>2 DEF Published
  <1>4. Document[f] = e
    BY <1>3 DEF Published
  <1> QED BY <1>1, <1>2, <1>3, <1>4 DEF Rulebook!Children

\* What publication accepts has leaves for answers, emits nothing before the end
\* of its return actions, and has a child for each event of its flows
\* (_validate_answer_flow, _validate_action_list, _validate_direct_event_handlers).
THEOREM PublishedKeepsRules ==
  ASSUME NEW Trees, NEW Document, Published(Trees, Document)
  PROVE  AnswerRule /\ EventRule
  <1>1. AnswerRule
    <2> SUFFICES ASSUME NEW f \in Answers, NEW g \in Flow, Parent[g] = f PROVE FALSE
      BY DEF AnswerRule, Leaf
    <2>1. f \in Flow /\ Document[f].answer
      BY DocumentAssumption DEF Published
    <2>2. PICK D \in Trees : /\ Document[f] \in D
                             /\ Document[g] \in Rulebook!Children(D, Document[f])
      BY <2>1, SameTree
    <2>3. Rulebook!ValidShape(D, Document[f])
      BY <2>2 DEF Published, Rulebook!Publishable
    <2> QED BY <2>1, <2>2, <2>3 DEF Rulebook!ValidShape, Rulebook!ValidAnswer
  <1>2. ASSUME NEW f \in Flow, NEW i \in 1..(Len(Back[f]) - 1)
        PROVE  Back[f][i].type \notin Emitting
    <2>1. PICK D \in Trees : Document[f] \in D
      BY DEF Published
    <2>2. Rulebook!ValidActions(Back[f])
      BY <2>1 DEF Published, Rulebook!Publishable
    <2>3. Rulebook!EventKeys(Back[f][i].type) = {}
      BY <1>2, <2>2 DEF Rulebook!ValidActions
    <2> QED BY <2>3, SameEvents
  <1>3. ASSUME NEW f \in Flow, NEW type \in Types(Does[f]) \cap Emitting, NEW key \in Outcomes[type]
        PROVE  \E g \in Flow : Parent[g] = f /\ <<"action_event", key>> \in On[g]
    <2> DEFINE d == Document[f]
               handled(D) == {c \in Rulebook!Children(D, d) : c.on = {Rulebook!Event(key)}}
    <2>1. PICK D \in Trees : d \in D
      BY DEF Published
    <2>2. d.key = f /\ d.does = Does[f] /\ Does[f] \in Seq(DiscussionAction)
      BY DocumentAssumption DEF Published
    <2>3. PICK i \in 1..Len(Does[f]) : Does[f][i].type = type
      BY DEF Types
    <2>4. Does[f][i] \in Rulebook!Range(d.does)
      BY <2>2, <2>3 DEF Rulebook!Range
    <2>5. key \in Rulebook!EventKeys(Does[f][i].type)
      BY <2>3, SameEvents
    <2>6. key \in Rulebook!Declared(d)
      BY <2>4, <2>5 DEF Rulebook!Declared
    <2>7. Rulebook!ValidHandlers(D, d)
      BY <2>1 DEF Published, Rulebook!Publishable
    <2>8. Cardinality(handled(D)) = 1
      BY <2>6, <2>7, SameCardinality DEF Rulebook!ValidHandlers
    <2>9. PICK c \in handled(D) : TRUE
      <3>1. Cardinality({}) = 0
        BY FS_EmptySet
      <3> HIDE DEF handled
      <3>2. handled(D) # {}
        BY <2>8, <3>1
      <3> QED BY <3>2
    <2>10. /\ c \in D /\ c.parent = f /\ c.key \in Flow /\ Document[c.key] = c
           /\ c.on = {<<"action_event", key>>}
      BY <2>2, <2>9 DEF Published, Rulebook!Children, Rulebook!Event
    <2>11. Parent[c.key] = f /\ <<"action_event", key>> \in On[c.key]
      BY <2>10 DEF Published
    <2> QED BY <2>10, <2>11
  <1> QED BY <1>1, <1>2, <1>3 DEF EventRule
-----------------------------------------------------------------------------
(* From here on the documents keep authoring rules.  What a step does to    *)
(* what is told, ...                                                       *)

Tell(item) == <<item.says, item.to, item.request>>

LEMMA ToldKept ==
  ASSUME RunnerInvariant, Flush \/ UNCHANGED <<buffer, pending>>
  PROVE  Flushed' = Flushed /\ Told' = Told
  <1>1. Flushed' = Flushed
    BY FlushedType, ConcatEmptySeq DEF Flush, Flushed
  <1> QED BY <1>1 DEF Told

LEMMA ToldAdds ==
  ASSUME RunnerInvariant, NEW item \in Presentation,
         \/ buffer' = Flushed /\ pending' = <<item>>
         \/ buffer' = Append(Flushed, item) /\ pending' = <<>>
  PROVE  Flushed' = Append(Flushed, item) /\ Told' = Told \cup {Tell(item)}
  <1>1. Flushed \in Seq(Presentation) /\ Len(Flushed) \in Nat
    BY FlushedType
  <1>2. Append(Flushed, item) \in Seq(Presentation)
        /\ Flushed \o <<item>> = Append(Flushed, item)
        /\ Append(Flushed, item) \o <<>> = Append(Flushed, item)
    BY <1>1, ConcatEmptySeq
  <1>3. Flushed' = Append(Flushed, item)
    BY <1>2 DEF Flushed
  <1>4. /\ Len(Flushed') = Len(Flushed) + 1 /\ Flushed'[Len(Flushed) + 1] = item
        /\ \A i \in 1..Len(Flushed) : Flushed'[i] = Flushed[i]
    BY <1>1, <1>3
  <1>5. 1..(Len(Flushed) + 1) = (1..Len(Flushed)) \cup {Len(Flushed) + 1}
    BY <1>1
  <1>6. Told' = {<<Flushed'[i].says, Flushed'[i].to, Flushed'[i].request>> :
                   i \in 1..(Len(Flushed) + 1)}
    BY <1>4 DEF Told
  <1>7. Told' = Told \cup {Tell(item)}
    BY <1>4, <1>5, <1>6 DEF Told, Tell
  <1> QED BY <1>3, <1>7

LEMMA ToldAttach ==
  ASSUME RunnerInvariant, AttachButtons
  PROVE  /\ Told' = Told /\ Len(Flushed') = Len(Flushed)
         /\ \A i \in 1..Len(Flushed) :
              /\ Flushed'[i].says = Flushed[i].says /\ Flushed'[i].to = Flushed[i].to
              /\ Flushed'[i].who = Flushed[i].who
  <1> DEFINE item == [pending[1] EXCEPT !.buttons = @ \cup CarriedButtons]
             n == Len(buffer) + 1
  <1>1. /\ pending \in Seq(Presentation) /\ Len(pending) = 1 /\ pending[1] \in Presentation
        /\ buffer \in Seq(Presentation) /\ Len(buffer) \in Nat
    BY EmptySeq DEF RunnerInvariant, TypeOK, AttachButtons
  <1>2. CarriedButtons \subseteq Carried
    BY DoingFacts DEF AttachButtons, CarriedButtons, Carried, RunnerInvariant, TypeOK,
                      Knowledge
  <1>3. /\ item \in Presentation
        /\ item.says = pending[1].says /\ item.to = pending[1].to
        /\ item.who = pending[1].who /\ item.request = pending[1].request
    BY <1>1, <1>2 DEF Presentation
  <1>4. pending' = <<item>> /\ buffer' = buffer
    BY DEF AttachButtons
  <1>5. /\ Len(Flushed) = n /\ Flushed[n] = pending[1]
        /\ \A i \in 1..(n - 1) : Flushed[i] = buffer[i]
    BY <1>1, LastOne DEF Flushed
  <1> HIDE DEF item
  <1>6. /\ Len(Flushed') = n /\ Flushed'[n] = item
        /\ \A i \in 1..(n - 1) : Flushed'[i] = buffer[i]
    BY <1>1, <1>3, <1>4 DEF Flushed
  <1>7. \A i \in 1..n : /\ Flushed'[i].says = Flushed[i].says /\ Flushed'[i].to = Flushed[i].to
                        /\ Flushed'[i].who = Flushed[i].who
                        /\ Flushed'[i].request = Flushed[i].request
    <2>1. TAKE i \in 1..n
    <2>2. CASE i = n
      BY <1>3, <1>5, <1>6, <2>2
    <2>3. CASE i # n
      BY <1>1, <1>5, <1>6, <2>1, <2>3
    <2> QED BY <2>2, <2>3
  <1>8. Told' = Told
    BY <1>5, <1>6, <1>7 DEF Told
  <1> QED BY <1>5, <1>6, <1>7, <1>8

LEMMA ToldEmpty ==
  ASSUME Idle
  PROVE  Flushed' = <<>> /\ Told' = {}
  <1>1. Flushed' = <<>> /\ Len(<<>>) = 0
    BY ConcatEmptySeq, EmptySeq DEF Idle, Flushed
  <1> QED BY <1>1 DEF Told

\* When a run has ended, nothing is held back.
LEMMA ToldSettled ==
  ASSUME RunnerInvariant, Settled
  PROVE  /\ frames = <<>> /\ turn # "idle" /\ Flushed = buffer
         /\ \A t \in Told : \E i \in 1..Len(buffer) :
              t = <<buffer[i].says, buffer[i].to, buffer[i].request>>
  <1>1. frames = <<>> /\ turn # "idle" /\ pending = <<>>
    BY DEF RunnerInvariant, Settled
  <1>2. Flushed = buffer
    BY <1>1, ConcatEmptySeq DEF Flushed, RunnerInvariant, TypeOK
  <1> QED BY <1>1, <1>2 DEF Told
-----------------------------------------------------------------------------
(* ... to the frame on top, ...                                            *)

LEMMA TopFacts ==
  ASSUME RunnerInvariant, frames # <<>>
  PROVE  /\ Stack(frames) /\ Len(frames) \in Nat \ {0} /\ Top \in Frame
         /\ Top.at \in Nat \ {0} /\ Script(Top) \in Seq(DiscussionAction)
         /\ Script(Top) \in Scripts /\ turn # "idle" /\ executed # <<>>
         /\ Top = frames[Len(frames)]
  <1>1. Stack(frames) /\ turn # "idle" /\ executed # <<>>
    BY DEF RunnerInvariant, TypeOK, Stack
  <1>2. Len(frames) \in Nat \ {0} /\ Top \in Frame /\ Top.at > 0
    BY <1>1, EmptySeq DEF Stack, Top, Nested
  <1>3. Script(Top) \in Seq(DiscussionAction) /\ Script(Top) \in Scripts
    BY <1>2, ScriptType DEF Script, Scripts, Frame
  <1> QED BY <1>1, <1>2, <1>3 DEF Frame, Top

LEMMA AdvancedTop ==
  ASSUME RunnerInvariant, frames # <<>>, frames' = Advanced
  PROVE  /\ frames' # <<>> /\ Len(frames') = Len(frames)
         /\ Top'.at = Top.at + 1 /\ Top'.part = Top.part /\ Top'.flow = Top.flow
         /\ Script(Top)' = Script(Top)
         /\ \A i \in 1..Len(frames) :
              frames'[i].part = frames[i].part /\ frames'[i].flow = frames[i].flow
  <1>1. /\ Stack(frames) /\ Len(frames) \in Nat \ {0} /\ Top \in Frame
        /\ Top = frames[Len(frames)]
    BY TopFacts
  <1>2. /\ frames' # <<>> /\ Len(frames') = Len(frames)
        /\ \A i \in 1..(Len(frames) - 1) : frames'[i] = frames[i]
        /\ frames'[Len(frames)] = [Top EXCEPT !.at = @ + 1]
    BY <1>1, AdvancedStack
  <1>3. Top' = [Top EXCEPT !.at = @ + 1]
    BY <1>2 DEF Top
  <1>4. /\ Top'.at = Top.at + 1 /\ Top'.part = Top.part /\ Top'.flow = Top.flow
        /\ Script(Top)' = Script(Top)
    BY <1>1, <1>3 DEF Frame, Script
  <1>5. ASSUME NEW i \in 1..Len(frames)
        PROVE  frames'[i].part = frames[i].part /\ frames'[i].flow = frames[i].flow
    <2>1. CASE i = Len(frames)
      BY <1>1, <1>2, <1>3, <1>4, <2>1
    <2>2. CASE i # Len(frames)
      BY <1>1, <1>2, <2>2
    <2> QED BY <2>1, <2>2
  <1> QED BY <1>2, <1>4, <1>5

LEMMA ReplacedTop ==
  ASSUME RunnerInvariant, frames # <<>>, NEW frame \in Frame,
         frames' = Append(Popped, frame)
  PROVE  /\ frames' # <<>> /\ Len(frames') = Len(frames) /\ Top' = frame
         /\ \A i \in 1..(Len(frames) - 1) : frames'[i] = frames[i]
         /\ frames'[Len(frames)] = frame
  <1>1. Stack(frames) /\ Len(frames) \in Nat \ {0}
    BY TopFacts
  <1>2. /\ Popped \in Seq(Frame) /\ Len(Popped) = Len(frames) - 1
        /\ \A i \in 1..(Len(frames) - 1) : Popped[i] = frames[i]
    BY <1>1, PoppedStack DEF Stack, Popped
  <1>3. /\ Len(frames') = Len(frames) /\ frames'[Len(frames)] = frame
        /\ \A i \in 1..(Len(frames) - 1) : frames'[i] = frames[i]
    BY <1>1, <1>2
  <1>4. frames' # <<>>
    BY <1>1, <1>2
  <1> QED BY <1>3, <1>4 DEF Top

LEMMA PushedTop ==
  ASSUME RunnerInvariant, frames # <<>>, NEW frame \in Frame,
         frames' = Append(Advanced, frame)
  PROVE  /\ frames' # <<>> /\ Len(frames') = Len(frames) + 1 /\ Top' = frame
         /\ \A i \in 1..Len(frames) :
              frames'[i].part = frames[i].part /\ frames'[i].flow = frames[i].flow
         /\ frames'[Len(frames) + 1] = frame
  <1>1. /\ Stack(frames) /\ Len(frames) \in Nat \ {0} /\ Top \in Frame
        /\ Top = frames[Len(frames)]
    BY TopFacts
  <1>2. /\ Advanced \in Seq(Frame) /\ Len(Advanced) = Len(frames)
        /\ \A i \in 1..(Len(frames) - 1) : Advanced[i] = frames[i]
        /\ Advanced[Len(frames)] = [Top EXCEPT !.at = @ + 1]
    BY <1>1, AdvancedStack DEF Stack
  <1>3. /\ Len(frames') = Len(frames) + 1 /\ frames'[Len(frames) + 1] = frame
        /\ \A i \in 1..Len(frames) : frames'[i] = Advanced[i]
    BY <1>1, <1>2
  <1>4. frames' # <<>>
    BY <1>1, <1>2
  <1>5. ASSUME NEW i \in 1..Len(frames)
        PROVE  frames'[i].part = frames[i].part /\ frames'[i].flow = frames[i].flow
    <2>1. CASE i = Len(frames)
      BY <1>1, <1>2, <1>3, <2>1 DEF Frame
    <2>2. CASE i # Len(frames)
      BY <1>1, <1>2, <1>3, <2>2
    <2> QED BY <2>1, <2>2
  <1> QED BY <1>3, <1>4, <1>5 DEF Top

LEMMA PoppedTop ==
  ASSUME RunnerInvariant, frames # <<>>, frames' = Popped
  PROVE  /\ Len(frames') = Len(frames) - 1
         /\ \A i \in 1..(Len(frames) - 1) : frames'[i] = frames[i]
         /\ frames' # <<>> => Suspended(Top') /\ Top' \in Frame
  <1>1. Stack(frames) /\ Len(frames) \in Nat \ {0}
    BY TopFacts
  <1>2. /\ Popped \in Seq(Frame) /\ Len(Popped) = Len(frames) - 1
        /\ \A i \in 1..(Len(frames) - 1) : Popped[i] = frames[i]
    BY <1>1, PoppedStack DEF Stack, Popped
  <1>3. ASSUME frames' # <<>> PROVE Suspended(Top') /\ Top' \in Frame
    <2>1. Len(frames) - 1 \in 1..(Len(frames) - 1)
      BY <1>1, <1>2, <1>3, EmptySeq
    <2>2. Top' = frames[Len(frames) - 1]
      BY <1>2, <2>1 DEF Top
    <2> QED BY <1>1, <2>1, <2>2 DEF Stack, Nested
  <1> QED BY <1>2, <1>3
-----------------------------------------------------------------------------
(* ... and to what has been run and what is to come.                       *)

LEMMA SinceNext ==
  ASSUME NEW actions \in Seq(DiscussionAction), NEW at \in 1..Len(actions), NEW type,
         Since(actions, at + 1, type)
  PROVE  actions[at].type = type \/ (actions[at].type \in Quiet /\ Since(actions, at, type))
  <1>1. PICK i \in 1..at : /\ actions[i].type = type
                           /\ \A j \in (i + 1)..at : actions[j].type \in Quiet
    BY DEF Since
  <1>2. CASE i = at
    BY <1>1, <1>2
  <1>3. CASE i # at
    <2>1. i \in 1..(at - 1) /\ at \in (i + 1)..at
      BY <1>1, <1>3
    <2>2. \A j \in (i + 1)..(at - 1) : j \in (i + 1)..at /\ j <= Len(actions)
      BY <1>1
    <2>3. i <= Len(actions)
      BY <1>1
    <2> QED BY <1>1, <2>1, <2>2, <2>3 DEF Since
  <1> QED BY <1>2, <1>3

LEMMA UntilNext ==
  ASSUME NEW actions \in Seq(DiscussionAction), NEW at \in Nat, NEW type,
         Until(actions, at, type)
  PROVE  /\ at <= Len(actions)
         /\ \/ actions[at].type = type
            \/ actions[at].type \in Quiet /\ Until(actions, at + 1, type)
  <1>1. PICK i \in at..Len(actions) : /\ actions[i].type = type
                                      /\ \A j \in at..(i - 1) : actions[j].type \in Quiet
    BY DEF Until
  <1>2. CASE i = at
    BY <1>1, <1>2
  <1>3. CASE i # at
    <2>1. i \in (at + 1)..Len(actions) /\ at \in at..(i - 1)
      BY <1>1, <1>3
    <2>2. \A j \in (at + 1)..(i - 1) : j \in at..(i - 1)
      BY <1>1
    <2> QED BY <1>1, <2>1, <2>2 DEF Until
  <1> QED BY <1>2, <1>3

\* What is interrupted was not just after a quiet action.
LEMMA SinceInterrupted ==
  ASSUME NEW frame \in Frame, Suspended(frame), NEW type, type \notin Openings
  PROVE  ~Since(Script(frame), frame.at, type)
  <1> DEFINE s == Script(frame)
             n == frame.at - 1
  <1>1. n \in 1..Len(s) /\ s[n].type \in Openings /\ s \in Seq(DiscussionAction)
    BY ScriptType DEF Suspended, Frame, Openings
  <1>2. Openings \cap Quiet = {}
    BY DEF Openings, Quiet, Entries, Texts, Steps
  <1> SUFFICES ASSUME Since(s, n + 1, type) PROVE FALSE
    BY DEF Frame
  <1> HIDE DEF s, n
  <1> QED BY <1>1, <1>2, SinceNext

\* Nothing has been run in a frame that starts.
LEMMA SinceStart ==
  ASSUME NEW actions, NEW type
  PROVE  ~Since(actions, 1, type)
  BY DEF Since

\* How what has been run, and what is to come, changes when a script goes on, ...
LEMMA Onwards ==
  ASSUME RunnerInvariant, NEW types, Doing(types), frames' = Advanced, NEW type
  PROVE  /\ Ran(type)' => Action.type = type \/ (Action.type \in Quiet /\ Ran(type))
         /\ Ahead(type) => Action.type = type \/ (Action.type \in Quiet /\ Ahead(type)')
         /\ Until(Script(Top), Top.at + 1, type) => Ahead(type)'
  <1>1. frames # <<>> /\ Top.at <= Len(Script(Top))
    BY DEF Doing, Running
  <1>2. Script(Top) \in Seq(DiscussionAction) /\ Top.at \in 1..Len(Script(Top)) /\ Top.at \in Nat
    BY <1>1, TopFacts
  <1>3. frames' # <<>> /\ Top'.at = Top.at + 1 /\ Script(Top)' = Script(Top)
    BY <1>1, AdvancedTop
  <1>4. Ran(type)' => Action.type = type \/ (Action.type \in Quiet /\ Ran(type))
    BY <1>1, <1>2, <1>3, SinceNext DEF Ran, Action
  <1>5. Ahead(type)' <=> Until(Script(Top), Top.at + 1, type)
    BY <1>3 DEF Ahead
  <1>6. Ahead(type) => Action.type = type \/ (Action.type \in Quiet /\ Ahead(type)')
    BY <1>1, <1>2, <1>5, UntilNext DEF Ahead, Action
  <1> QED BY <1>4, <1>5, <1>6

\* ... when one starts, ...
LEMMA Starts ==
  ASSUME frames' # <<>>, Top'.at = 1, NEW type
  PROVE  ~Ran(type)'
  BY SinceStart DEF Ran

\* ... and when one is left.
LEMMA Left ==
  ASSUME RunnerInvariant, frames # <<>>, frames' = Popped, NEW type, type \notin Openings
  PROVE  ~Ran(type)'
  BY PoppedTop, SinceInterrupted DEF Ran
-----------------------------------------------------------------------------
(* What the groups of actions do to all of these.                          *)

Extends ==
  UNCHANGED <<turn, task, executed, failed, db>> /\ frames # <<>> /\ frames' = Advanced

LEMMA QuietStep ==
  ASSUME RunnerInvariant, ShowText \/ AttachButtons \/ OfferServices \/ PassStep \/ MarkPending
  PROVE  /\ Doing(Quiet) /\ Extends /\ UNCHANGED <<knows, work>>
         /\ \/ Told' = Told
            \/ Told' = Told \cup {<<"text", Guest, knows.request>>}
         /\ Action.type \in Voices => <<"text", Guest, knows.request>> \in Told'
  <1>1. CASE ShowText
    <2>1. Told' = Told \cup {Tell(Item(Guest, "text", Nobody))}
      BY <1>1, ItemType, ToldAdds DEF ShowText
    <2> QED BY <1>1, <2>1 DEF ShowText, Doing, Running, Extends, Quiet, Tell, Item
  <1>2. CASE AttachButtons
    BY <1>2, ToldAttach
       DEF AttachButtons, Doing, Running, Extends, Quiet, Voices, Texts
  <1>3. CASE OfferServices
    <2> DEFINE item == [Item(Guest, "text", Nobody) EXCEPT
                          !.buttons = {<<b, NoRequest>> : b \in Action.buttons}]
    <2>1. {<<b, NoRequest>> : b \in Action.buttons} \subseteq Carried
      BY <1>3, DoingFacts DEF OfferServices, Carried, Request
    <2>2. Item(Guest, "text", Nobody) \in Presentation
      BY ItemType
    <2>3. item \in Presentation /\ Tell(item) = <<"text", Guest, knows.request>>
      BY <2>1, <2>2 DEF Presentation, Tell, Item
    <2>4. Told' = Told \cup {Tell(item)}
      BY <1>3, <2>3, ToldAdds DEF OfferServices
    <2> QED BY <1>3, <2>3, <2>4 DEF OfferServices, Doing, Running, Extends, Quiet
  <1>4. CASE PassStep
    BY <1>4, ToldKept DEF PassStep, Doing, Running, Extends, Quiet, Voices, Texts, Steps
  <1>5. CASE MarkPending
    BY <1>5, ToldKept DEF MarkPending, Doing, Running, Extends, Quiet, Voices, Texts
  <1> QED BY <1>1, <1>2, <1>3, <1>4, <1>5

LEMMA EffectStep ==
  ASSUME RunnerInvariant, SaveInterest \/ Confirm \/ Release \/ Exclude
  PROVE  Extends /\ Told' = Told
  BY ToldKept DEF SaveInterest, Confirm, Release, Exclude, Extends, Doing, Running

LEMMA ContactStep ==
  ASSUME RunnerInvariant
  PROVE  /\ Notify => /\ Extends /\ Partner \in Responder
                      /\ Flushed' = Append(Flushed, Item(Partner, "notice", Partner))
                      /\ Told' = Told \cup {<<"notice", Partner, knows.request>>}
         /\ ShareContact => /\ Extends /\ Partner \in Responder
                            /\ Flushed' = Append(Flushed, Item(Guest, "contact", Partner))
                            /\ Told' = Told \cup {<<"contact", Guest, knows.request>>}
         /\ NotifyPrevious =>
              /\ Extends /\ knows.previous \in Responder
              /\ Flushed' = Append(Flushed, Item(knows.previous, "farewell", knows.previous))
              /\ Told' = Told \cup {<<"farewell", knows.previous, knows.request>>}
  <1>1. ASSUME Notify
        PROVE  /\ Extends /\ Partner \in Responder
               /\ Flushed' = Append(Flushed, Item(Partner, "notice", Partner))
               /\ Told' = Told \cup {<<"notice", Partner, knows.request>>}
    <2>1. Partner \in Responder
      BY <1>1, PartnerType DEF Notify
    <2>2. /\ Flushed' = Append(Flushed, Item(Partner, "notice", Partner))
          /\ Told' = Told \cup {Tell(Item(Partner, "notice", Partner))}
      BY <1>1, <2>1, ItemType, ToldAdds DEF Notify
    <2> QED BY <1>1, <2>1, <2>2 DEF Notify, Extends, Doing, Running, Tell, Item
  <1>2. ASSUME ShareContact
        PROVE  /\ Extends /\ Partner \in Responder
               /\ Flushed' = Append(Flushed, Item(Guest, "contact", Partner))
               /\ Told' = Told \cup {<<"contact", Guest, knows.request>>}
    <2>1. Partner \in Responder
      BY <1>2, PartnerType DEF ShareContact
    <2>2. /\ Flushed' = Append(Flushed, Item(Guest, "contact", Partner))
          /\ Told' = Told \cup {Tell(Item(Guest, "contact", Partner))}
      BY <1>2, <2>1, ItemType, ToldAdds DEF ShareContact
    <2> QED BY <1>2, <2>1, <2>2 DEF ShareContact, Extends, Doing, Running, Tell, Item
  <1>3. ASSUME NotifyPrevious
        PROVE  /\ Extends /\ knows.previous \in Responder
               /\ Flushed' = Append(Flushed, Item(knows.previous, "farewell", knows.previous))
               /\ Told' = Told \cup {<<"farewell", knows.previous, knows.request>>}
    <2>1. knows.previous \in Responder
      BY <1>3 DEF NotifyPrevious, RunnerInvariant, TypeOK, Knowledge
    <2>2. /\ Flushed' = Append(Flushed, Item(knows.previous, "farewell", knows.previous))
          /\ Told' = Told \cup {Tell(Item(knows.previous, "farewell", knows.previous))}
      BY <1>3, <2>1, ItemType, ToldAdds DEF NotifyPrevious
    <2> QED BY <1>3, <2>1, <2>2 DEF NotifyPrevious, Extends, Doing, Running, Tell, Item
  <1> QED BY <1>1, <1>2, <1>3

\* A flow hands over to its child for an event, or ends.
Hands(key) ==
  \/ \E g \in EventChild(Top, key) : \E rec \in BOOLEAN : HandTo(g, rec)
  \/ EventChild(Top, key) = {} /\ frames' = Popped /\ executed' = executed

LEMMA EmitHands ==
  ASSUME NEW key, NEW c, Emit(key, c)
  PROVE  Hands(key)
  <1>1. ASSUME NEW g \in EventChild(Top, key), HandTo(g, key = "error")
        PROVE  \E rec \in BOOLEAN : HandTo(g, rec)
    <2>1. (key = "error") \in BOOLEAN
      OBVIOUS
    <2> QED BY <1>1, <2>1, Zenon
  <1> QED BY <1>1 DEF Emit, Hands

Searching ==
  \E k \in Kind : ReserveNobody(k) \/ \E r \in Pool[k] : Reserve(k, r)
Attending == SelectAttendance \/ \E some \in BOOLEAN : ResolveOptions(some)

LEMMA EmittingStep ==
  ASSUME RunnerInvariant, Searching \/ Attending
  PROVE  /\ Told' = Told /\ UNCHANGED <<turn, task, failed, db>>
         /\ Doing(Emitting) /\ \E key \in Outcomes[Action.type] : Hands(key)
         /\ Attending => UNCHANGED work
         /\ Searching => Action.type \in Searches
  <1>1. ASSUME NEW k \in Kind, ReserveNobody(k) \/ \E r \in Pool[k] : Reserve(k, r)
        PROVE  /\ Told' = Told /\ UNCHANGED <<turn, task, failed, db>>
               /\ Doing(Emitting) /\ \E key \in Outcomes[Action.type] : Hands(key)
               /\ Action.type \in Searches
    <2>1. Told' = Told /\ UNCHANGED <<turn, task, failed, db>>
      BY <1>1, ToldKept DEF ReserveNobody, Reserve
    <2>2. Doing({Search[k]}) /\ (Hands(Found[k]) \/ Hands(NotFound[k]))
      BY <1>1, EmitHands DEF ReserveNobody, Reserve
    <2>3. Action.type = Search[k] /\ Search[k] \in Searches
      BY <2>2 DEF Doing, Searches
    <2>4. Search[k] \in Emitting /\ Outcomes[Search[k]] = {Found[k], NotFound[k]}
      <3>1. CASE k = "normal"
        BY <3>1 DEF Search, Outcomes, Emitting
      <3>2. CASE k = "safety"
        BY <3>2 DEF Search, Outcomes, Emitting
      <3> QED BY <3>1, <3>2 DEF Kind
    <2>5. Doing(Emitting)
      BY <2>2, <2>3, <2>4 DEF Doing
    <2>6. \E key \in Outcomes[Action.type] : Hands(key)
      BY <2>2, <2>3, <2>4
    <2> QED BY <2>1, <2>3, <2>5, <2>6
  <1>2. ASSUME SelectAttendance
        PROVE  /\ Told' = Told /\ UNCHANGED <<turn, task, failed, db>>
               /\ Doing(Emitting) /\ \E key \in Outcomes[Action.type] : Hands(key)
               /\ UNCHANGED work
    <2>1. /\ Told' = Told /\ UNCHANGED <<turn, task, failed, db>>
          /\ UNCHANGED work
      BY <1>2, ToldKept DEF SelectAttendance
    <2>2. Doing({"select_service_attendance"})
          /\ \E key \in {"service_attendance.selected", "service_attendance.latecomer",
                         "service_attendance.ended"} : Hands(key)
      BY <1>2, EmitHands DEF SelectAttendance
    <2>3. /\ "select_service_attendance" \in Emitting
          /\ Outcomes["select_service_attendance"] =
               {"service_attendance.selected", "service_attendance.latecomer",
                "service_attendance.ended"}
      BY DEF Outcomes, Emitting
    <2> QED BY <2>1, <2>2, <2>3 DEF Doing
  <1>3. ASSUME NEW some \in BOOLEAN, ResolveOptions(some)
        PROVE  /\ Told' = Told /\ UNCHANGED <<turn, task, failed, db>>
               /\ Doing(Emitting) /\ \E key \in Outcomes[Action.type] : Hands(key)
               /\ UNCHANGED work
    <2>1. /\ Told' = Told /\ UNCHANGED <<turn, task, failed, db>>
          /\ UNCHANGED work
      BY <1>3, ToldKept DEF ResolveOptions
    <2>2. Doing({"resolve_service_switch_options"})
          /\ \E key \in {"service_attendance.choice_required",
                         "service_attendance.none_available"} : Hands(key)
      BY <1>3, EmitHands DEF ResolveOptions
    <2>3. /\ "resolve_service_switch_options" \in Emitting
          /\ Outcomes["resolve_service_switch_options"] =
               {"service_attendance.choice_required", "service_attendance.none_available"}
      BY DEF Outcomes, Emitting
    <2> QED BY <2>1, <2>2, <2>3 DEF Doing
  <1> QED BY <1>1, <1>2, <1>3 DEF Searching, Attending

\* An opened root or checkpoint starts on top.
LEMMA OpeningStep ==
  ASSUME RunnerInvariant, EnterRoot \/ ReturnNow
  PROVE  /\ Told' = Told /\ UNCHANGED <<turn, task, executed, failed, db>>
         /\ UNCHANGED <<work.holder, work.excluded>>
         /\ Doing(Openings)
         /\ \E frame \in Frame :
              /\ frames' = Append(Advanced, frame)
              /\ frame.at = 1
              /\ \/ frame.part = "does" /\ frame.flow \in {Home, Latecomer}
                    /\ \/ frame.flow = Home
                       \/ Action.type = "enter_selected_service_latecomer_flow"
                 \/ frame.part = "back" /\ (frame.flow = System
                                            \/ \E f \in Flow : Nearest[f] = frame.flow)
  <1>1. CASE EnterRoot
    <2>1. /\ Entered \in Flow /\ Entered \in {Home, Latecomer}
          /\ Entered = Home \/ Action.type = "enter_selected_service_latecomer_flow"
      BY DocumentAssumption DEF Entered
    <2>2. /\ Start(Entered, "does", FALSE) \in Frame /\ Start(Entered, "does", FALSE).at = 1
          /\ Start(Entered, "does", FALSE).part = "does"
          /\ Start(Entered, "does", FALSE).flow = Entered
      BY <2>1, StartType DEF Start, Parts
    <2>3. Told' = Told
      BY <1>1, ToldKept DEF EnterRoot
    <2>4. UNCHANGED <<work.holder, work.excluded>>
      BY <1>1 DEF EnterRoot, RunnerInvariant, TypeOK, Rows
    <2>5. Doing(Openings)
      BY <1>1 DEF EnterRoot, Doing, Openings
    <2> QED BY <1>1, <2>1, <2>2, <2>3, <2>4, <2>5 DEF EnterRoot
  <1>2. CASE ReturnNow
    <2> DEFINE p == knows.branch
               frame == Start(Pop(p), "back", FALSE)
    <2>1. Doing(Openings)
      BY <1>2 DEF ReturnNow, Doing, Openings
    <2>4. p \in Flow
      BY DEF RunnerInvariant, TypeOK, Knowledge
    <2>5. Pop(p) # NoFlow /\ frames' = Append(Advanced, frame)
      BY <1>2 DEF ReturnNow
    <2>6. Pop(p) \in Flow /\ (Pop(p) = System \/ \E f \in Flow : Nearest[f] = Pop(p))
      BY <2>4, <2>5, DocumentAssumption, NearestAssumption DEF Pop
    <2>7. /\ frame \in Frame /\ frame.at = 1 /\ frame.part = "back" /\ frame.flow = Pop(p)
      BY <2>6, StartType DEF Start, Parts
    <2>8. Told' = Told
      BY <1>2, ToldKept DEF ReturnNow
    <2>9. UNCHANGED <<turn, task, executed, failed, db, work>>
      BY <1>2 DEF ReturnNow
    <2> QED BY <2>1, <2>5, <2>6, <2>7, <2>8, <2>9
  <1> QED BY <1>1, <1>2

LEMMA FailStep ==
  ASSUME RunnerInvariant, Fail
  PROVE  /\ frames # <<>> /\ failed' # {} /\ UNCHANGED <<turn, task, work, db>>
         /\ failed' \subseteq failed \cup {"flow", "handler"}
         /\ Top.at <= Len(Script(Top))
         /\ \/ /\ Told' = Told
               /\ \E g \in EventChild(Top, "error") : \E rec \in BOOLEAN : HandTo(g, rec)
               /\ "handler" \in failed' => "handler" \in failed
            \/ /\ Told' = Told \cup {<<"fallback", Guest, knows.request>>}
               /\ frames' = Popped /\ executed' = executed
               /\ Flushed' = Append(Flushed, Fallback)
  <1>1. frames # <<>> /\ Stack(frames) /\ Top.at <= Len(Script(Top))
    BY DoingFacts DEF Fail, Doing
  <1>2. ASSUME NEW c, Handled, Flush, Emit("error", c)
        PROVE  /\ Told' = Told
               /\ \E g \in EventChild(Top, "error") : \E rec \in BOOLEAN : HandTo(g, rec)
               /\ "handler" \in failed' => "handler" \in failed
    <2>1. Told' = Told /\ EventChild(Top, "error") # {} /\ ~Top.recovering
      BY <1>2, ToldKept DEF Handled
    <2>2. PICK g \in EventChild(Top, "error") : HandTo(g, "error" = "error")
      BY <1>2, <2>1 DEF Emit
    <2>3. \E rec \in BOOLEAN : HandTo(g, rec)
      <3>1. ("error" = "error") \in BOOLEAN
        OBVIOUS
      <3> QED BY <2>2, <3>1, Zenon
    <2>4. failed' = failed \cup {"flow"}
      BY <2>1 DEF Fail
    <2> QED BY <2>1, <2>3, <2>4
  <1>3. ASSUME buffer' = Append(Flushed, Fallback), pending' = <<>>,
               frames' = AfterFailure, executed' = executed
        PROVE  /\ Told' = Told \cup {<<"fallback", Guest, knows.request>>}
               /\ frames' = Popped /\ executed' = executed
               /\ Flushed' = Append(Flushed, Fallback)
    <2>1. Fallback \in Presentation /\ Tell(Fallback) = <<"fallback", Guest, knows.request>>
      BY ItemType DEF Fallback, Tell, Item
    <2>2. Told' = Told \cup {Tell(Fallback)} /\ Flushed' = Append(Flushed, Fallback)
      BY <1>3, <2>1, ToldAdds
    <2>3. frames' = Popped
      BY <1>1, <1>3, PoppedStack
    <2> QED BY <1>3, <2>1, <2>2, <2>3
  <1>4. PICK c \in Learnt :
          \/ Handled /\ Flush /\ Emit("error", c)
          \/ /\ buffer' = Append(Flushed, Fallback) /\ pending' = <<>>
             /\ frames' = AfterFailure /\ executed' = executed
    BY DEF Fail
  <1>5. /\ failed' # {} /\ UNCHANGED <<turn, task, work, db>>
        /\ failed' \subseteq failed \cup {"flow", "handler"}
    BY DEF Fail
  <1> QED BY <1>1, <1>2, <1>3, <1>4, <1>5

LEMMA EndFlowStep ==
  ASSUME RunnerInvariant, EndFlow
  PROVE  /\ Told' = Told /\ frames # <<>> /\ frames' = Popped /\ Top.at > Len(Script(Top))
         /\ UNCHANGED <<turn, task, executed, failed, work, db>>
  BY ToldKept DEF EndFlow, Running

LEMMA EndChoiceStep ==
  ASSUME RunnerInvariant, EndChoice
  PROVE  /\ Told' = Told /\ Flushed' = Flushed /\ frames = <<>> /\ executed # <<>>
         /\ UNCHANGED <<turn, executed, failed, knows, db, buffer>> /\ turn # "idle"
         /\ UNCHANGED <<work.holder, work.excluded>>
         /\ \/ task' = "done" /\ frames' = <<>>
            \/ task' = "return" /\ \E frame \in Frame :
                 /\ frames' = <<frame>> /\ frame.at = 1 /\ frame.part = "back"
  <1>1. executed \in Seq(Flow) /\ executed # <<>>
    BY DEF EndChoice, RunnerInvariant, TypeOK
  <1>2. Last \in Flow
    BY <1>1, EmptySeq DEF Last
  <1>3. UNCHANGED <<work.holder, work.excluded>>
    BY DEF EndChoice, RunnerInvariant, TypeOK, Rows
  <1>4. CASE LeadsBack
    <2>1. Nearest[Last] \in Flow
      BY <1>2, <1>4, NearestAssumption DEF EndChoice, NoWayBack, LeadsBack
    <2>2. /\ Start(Nearest[Last], "back", FALSE) \in Frame
          /\ Start(Nearest[Last], "back", FALSE).at = 1
          /\ Start(Nearest[Last], "back", FALSE).part = "back"
      BY <2>1, StartType DEF Start, Parts
    <2> QED BY <1>1, <1>3, <1>4, <2>2, ToldKept DEF EndChoice
  <1>5. CASE ~LeadsBack
    BY <1>1, <1>3, <1>5, ToldKept DEF EndChoice
  <1> QED BY <1>4, <1>5

LEMMA EndRunStep ==
  ASSUME RunnerInvariant, EndRun
  PROVE  /\ Told' = Told /\ Flushed' = Flushed /\ frames = <<>> /\ frames' = <<>>
         /\ UNCHANGED <<turn, executed, failed, knows, db, work, buffer>> /\ turn # "idle"
         /\ task' \in {"answered", "completed", "done"}
         /\ task' = "answered" => task = "answer"
         /\ task' = "completed" => Leaf(executed[1])
  BY ToldKept DEF EndRun

\* A run begins with a frame for its flow; only a button carries a request.
Asking ==
  \/ \E f \in Flow : AnswerText(f) \/ ChooseByText(f) \/ Resume(f) \/ OpenRoot(f)
  \/ \E b \in screen : \E f \in Pressed(b) : Press(b, f)

LEMMA AskStep ==
  ASSUME RunnerInvariant, Asking
  PROVE  /\ Told' = Told /\ Flushed' = Flushed /\ frames = <<>>
         /\ UNCHANGED <<failed, db, buffer>>
         /\ UNCHANGED <<work.holder, work.excluded>>
         /\ turn' # "idle" /\ task' \in {"answer", "choice", "root"}
         /\ turn = "idle" \/ (turn = "text" /\ task \in {"answered", "completed"})
         /\ turn = "idle" \/ turn' # "button"
         /\ turn' = "button" \/ knows'.request = NoRequest
         /\ \E f \in Flow : /\ executed' = <<f>>
                            /\ frames' = <<Start(f, "does", FALSE)>>
                            /\ task' = "answer" => f \in Answers
  <1>1. ASSUME NEW f \in Flow, AnswerText(f) \/ ChooseByText(f) \/ Resume(f) \/ OpenRoot(f)
        PROVE  /\ UNCHANGED <<failed, db, buffer, pending>>
               /\ UNCHANGED <<work.holder, work.excluded>>
               /\ turn' # "idle" /\ task' \in {"answer", "choice", "root"}
               /\ turn = "idle" \/ (turn = "text" /\ task \in {"answered", "completed"})
               /\ turn' # "button" /\ knows'.request = NoRequest
               /\ executed' = <<f>> /\ frames' = <<Start(f, "does", FALSE)>>
               /\ task' = "answer" => f \in Answers
    <2>1. work \in Rows /\ UNCHANGED <<failed, db, buffer, pending>>
      BY <1>1 DEF AnswerText, ChooseByText, Resume, OpenRoot, Begin, RunnerInvariant, TypeOK
    <2>2. UNCHANGED <<work.holder, work.excluded>>
      <3>1. CASE AnswerText(f) \/ ChooseByText(f)
        BY <2>1, <3>1 DEF AnswerText, ChooseByText, Rows
      <3>2. CASE Resume(f)
        BY <3>2 DEF Resume
      <3>3. CASE OpenRoot(f)
        <4>1. work' = [work EXCEPT !.open = IF f = System THEN (@ \cap OfService) \cup {System}
                                                          ELSE @ \cup {f}]
          BY <3>3 DEF OpenRoot
        <4> QED BY <2>1, <4>1 DEF Rows
      <3> QED BY <1>1, <3>1, <3>2, <3>3
    <2>3. knows'.request = NoRequest
      <3>1. \E branch : knows' = Unknowing(branch, NoRequest)
        BY <1>1 DEF AnswerText, ChooseByText, Resume, OpenRoot, Begin
      <3> QED BY <3>1 DEF Unknowing
    <2>4. executed' = <<f>> /\ frames' = <<Start(f, "does", FALSE)>>
      BY <1>1 DEF AnswerText, ChooseByText, Resume, OpenRoot, Begin
    <2>5. CASE AnswerText(f)
      BY <2>1, <2>2, <2>3, <2>4, <2>5 DEF AnswerText, Begin
    <2>6. CASE ChooseByText(f)
      BY <2>1, <2>2, <2>3, <2>4, <2>6 DEF ChooseByText, Begin
    <2>7. CASE Resume(f)
      BY <2>1, <2>2, <2>3, <2>4, <2>7 DEF Resume, Begin
    <2>8. CASE OpenRoot(f)
      BY <2>1, <2>2, <2>3, <2>4, <2>8 DEF OpenRoot, Begin
    <2> QED BY <1>1, <2>5, <2>6, <2>7, <2>8
  <1>2. ASSUME NEW b \in screen, NEW f \in Pressed(b), Press(b, f)
        PROVE  /\ UNCHANGED <<failed, db, buffer, pending, work>>
               /\ turn' = "button" /\ task' = "choice" /\ turn = "idle" /\ f \in Flow
               /\ executed' = <<f>> /\ frames' = <<Start(f, "does", FALSE)>>
    BY <1>2 DEF Press, Begin, Pressed
  <1>3. /\ UNCHANGED <<failed, db, buffer, pending>>
        /\ UNCHANGED <<work.holder, work.excluded>>
        /\ turn' # "idle" /\ task' \in {"answer", "choice", "root"}
        /\ turn = "idle" \/ (turn = "text" /\ task \in {"answered", "completed"})
        /\ turn = "idle" \/ turn' # "button"
        /\ turn' = "button" \/ knows'.request = NoRequest
        /\ \E f \in Flow : /\ executed' = <<f>>
                           /\ frames' = <<Start(f, "does", FALSE)>>
                           /\ task' = "answer" => f \in Answers
    <2>1. CASE \E f \in Flow : AnswerText(f) \/ ChooseByText(f) \/ Resume(f) \/ OpenRoot(f)
      BY <1>1, <2>1
    <2>2. CASE \E b \in screen : \E f \in Pressed(b) : Press(b, f)
      <3>1. PICK b \in screen : \E f \in Pressed(b) : Press(b, f)
        BY <2>2
      <3>2. PICK f \in Pressed(b) : Press(b, f)
        BY <3>1
      <3>3. turn' = "button" /\ turn' # "idle" /\ task' \in {"answer", "choice", "root"}
            /\ task' # "answer" /\ turn = "idle" /\ f \in Flow
        BY <1>2, <3>2
      <3> QED BY <1>2, <3>2, <3>3
    <2> QED BY <2>1, <2>2 DEF Asking
  <1>4. frames = <<>>
    BY <1>3 DEF RunnerInvariant, Settled
  <1>5. Told' = Told /\ Flushed' = Flushed
    BY <1>3, ToldKept
  <1> QED BY <1>3, <1>4, <1>5

LEMMA OverStep ==
  ASSUME Commit \/ Abort \/ Raise
  PROVE  Idle /\ Told' = {} /\ Flushed' = <<>> /\ turn' = "idle"
  BY ToldEmpty DEF Commit, Abort, Raise, Lose, Idle

\* A proof that an invariant is kept goes through these groups.
LEMMA Groups ==
  ASSUME [Next]_vars
  PROVE  \/ UNCHANGED vars
         \/ ShowText \/ AttachButtons \/ OfferServices \/ PassStep \/ MarkPending
         \/ SaveInterest \/ Confirm \/ Release \/ Exclude
         \/ Notify \/ ShareContact \/ NotifyPrevious
         \/ Searching \/ Attending \/ EnterRoot \/ ReturnNow \/ Fail \/ EndFlow
         \/ EndChoice \/ EndRun \/ Asking \/ Commit \/ Abort \/ Raise
  BY DEF Next, Act, Searching, Attending, Asking
-----------------------------------------------------------------------------
(* Whoever shares a contact has notified.                                  *)

LEMMA ShareIsAfterNotice ==
  ASSUME RunnerInvariant, ContactRule, Doing({"share_human_contact"})
  PROVE  Ran("notify_matched_human")
  <1>1. frames # <<>> /\ Top.at <= Len(Script(Top)) /\ Action.type = "share_human_contact"
    BY DEF Doing, Running
  <1>2. Top.at \in 1..Len(Script(Top)) /\ Script(Top) \in Scripts
    BY <1>1, TopFacts
  <1>3. Since(Script(Top), Top.at, "notify_matched_human")
    BY <1>1, <1>2 DEF ContactRule, Action
  <1> QED BY <1>1, <1>3 DEF Ran

\* A reply that only grows by something else than a contact keeps the order.
LEMMA OrderKept ==
  ASSUME NEW reply \in Seq(Presentation), NoticeFirst(reply), NEW item \in Presentation,
         item.says = "contact" =>
           \E j \in 1..Len(reply) : reply[j].says = "notice" /\ reply[j].to = item.who
  PROVE  NoticeFirst(Append(reply, item))
  <1> DEFINE s == Append(reply, item)
             n == Len(reply)
  <1>1. /\ n \in Nat /\ Len(s) = n + 1 /\ s[n + 1] = item
        /\ \A i \in 1..n : s[i] = reply[i]
    OBVIOUS
  <1> HIDE DEF s
  <1>2. ASSUME NEW i \in 1..Len(s), s[i].says = "contact"
        PROVE  \E j \in 1..i : s[j].says = "notice" /\ s[j].to = s[i].who
    <2>1. CASE i = n + 1
      <3>1. PICK j \in 1..n : reply[j].says = "notice" /\ reply[j].to = item.who
        BY <1>1, <1>2, <2>1
      <3> QED BY <1>1, <2>1, <3>1
    <2>2. CASE i # n + 1
      <3>1. i \in 1..n /\ s[i] = reply[i]
        BY <1>1, <1>2, <2>2
      <3>2. PICK j \in 1..i : reply[j].says = "notice" /\ reply[j].to = reply[i].who
        BY <1>2, <3>1 DEF NoticeFirst
      <3> QED BY <1>1, <3>1, <3>2
    <2> QED BY <2>1, <2>2
  <1>3. NoticeFirst(s)
    BY <1>2 DEF NoticeFirst
  <1> QED BY <1>3 DEF s

LEMMA BufferGrows ==
  ASSUME RunnerInvariant
  PROVE  /\ Len(buffer) \in Nat /\ Len(Flushed) \in Nat /\ Len(buffer) <= Len(Flushed)
         /\ \A i \in 1..Len(buffer) : i \in 1..Len(Flushed) /\ Flushed[i] = buffer[i]
  <1>1. /\ buffer \in Seq(Presentation) /\ pending \in Seq(Presentation)
        /\ Len(buffer) \in Nat /\ Len(pending) \in Nat
    BY DEF RunnerInvariant, TypeOK
  <1>2. Len(Flushed) = Len(buffer) + Len(pending)
        /\ \A i \in 1..Len(buffer) : Flushed[i] = buffer[i]
    BY <1>1, ConcatProperties DEF Flushed
  <1> QED BY <1>1, <1>2

\* Where nothing has just been notified, the order of the reply is all there is.
LEMMA ContactOrder ==
  ASSUME ~Ran("notify_matched_human")', NoticeFirst(Flushed')
  PROVE  ContactInvariant'
  BY DEF ContactInvariant, NoticeFirst

\* A notice stays where it is, and the context retains whom it went to.
LEMMA ContactRetained ==
  ASSUME RunnerInvariant, ContactInvariant, Extends, knows' = knows,
         buffer' = Flushed \/ buffer' = buffer, NoticeFirst(Flushed'),
         Action.type # "notify_matched_human", NEW types, Doing(types)
  PROVE  ContactInvariant'
  <1> SUFFICES ASSUME Ran("notify_matched_human")'
               PROVE  /\ knows.holder # Nobody
                      /\ \E j \in 1..Len(buffer') :
                           buffer'[j].says = "notice" /\ buffer'[j].to = knows.holder
    BY DEF ContactInvariant, NoticeFirst
  <1>1. Ran("notify_matched_human")
    BY Onwards DEF Extends
  <1>2. knows.holder # Nobody
    BY <1>1 DEF ContactInvariant
  <1>3. PICK j \in 1..Len(buffer) : buffer[j].says = "notice" /\ buffer[j].to = knows.holder
    BY <1>1 DEF ContactInvariant
  <1>4. j \in 1..Len(buffer') /\ buffer'[j] = buffer[j]
    BY <1>3, BufferGrows
  <1> QED BY <1>2, <1>3, <1>4

LEMMA ContactQuiet ==
  ASSUME RunnerInvariant, ContactInvariant,
         ShowText \/ AttachButtons \/ OfferServices \/ PassStep \/ MarkPending
  PROVE  ContactInvariant'
  <1>1. Extends /\ Doing(Quiet) /\ knows' = knows /\ Action.type # "notify_matched_human"
    BY QuietStep DEF Doing, Quiet, Texts, Steps
  <1>2. buffer' = Flushed \/ buffer' = buffer
    BY DEF ShowText, AttachButtons, OfferServices, PassStep, MarkPending, Flush
  <1>3. NoticeFirst(Flushed)
    BY DEF ContactInvariant
  <1>4. NoticeFirst(Flushed')
    <2>1. CASE ShowText
      <3>1. Item(Guest, "text", Nobody) \in Presentation
            /\ Item(Guest, "text", Nobody).says = "text"
        BY ItemType DEF Item
      <3>2. Flushed' = Append(Flushed, Item(Guest, "text", Nobody))
        BY <2>1, <3>1, ToldAdds DEF ShowText
      <3> QED BY <1>3, <3>1, <3>2, OrderKept, FlushedType
    <2>2. CASE OfferServices
      <3> DEFINE item == [Item(Guest, "text", Nobody) EXCEPT
                            !.buttons = {<<b, NoRequest>> : b \in Action.buttons}]
      <3>1. {<<b, NoRequest>> : b \in Action.buttons} \subseteq Carried
        BY <2>2, DoingFacts DEF OfferServices, Carried, Request
      <3>2. Item(Guest, "text", Nobody) \in Presentation
        BY ItemType
      <3>3. item \in Presentation /\ item.says = "text"
        BY <3>1, <3>2 DEF Presentation, Item
      <3>4. Flushed' = Append(Flushed, item)
        BY <2>2, <3>3, ToldAdds DEF OfferServices
      <3> HIDE DEF item
      <3> QED BY <1>3, <3>3, <3>4, OrderKept, FlushedType
    <2>3. CASE AttachButtons
      <3>1. \A i \in 1..Len(Flushed) : \A j \in 1..i : j \in 1..Len(Flushed)
        BY FlushedType
      <3> QED BY <1>3, <2>3, <3>1, ToldAttach DEF NoticeFirst
    <2>4. CASE PassStep \/ MarkPending
      BY <1>3, <2>4, ToldKept DEF PassStep, MarkPending
    <2> QED BY <2>1, <2>2, <2>3, <2>4
  <1> QED BY <1>1, <1>2, <1>4, ContactRetained

LEMMA ContactEffect ==
  ASSUME RunnerInvariant, ContactInvariant, SaveInterest \/ Confirm \/ Release \/ Exclude
  PROVE  ContactInvariant'
  <1>1. NoticeFirst(Flushed')
    BY ToldKept DEF SaveInterest, Confirm, Release, Exclude, ContactInvariant
  <1>2. /\ Extends
        /\ Doing({"save_incoming", "confirm_human_match", "release_human_match",
                  "exclude_previous_human_from_next_attempt"})
    BY EffectStep DEF SaveInterest, Confirm, Release, Exclude, Doing
  <1>3. /\ Action.type # "notify_matched_human" /\ Action.type \notin Quiet
    BY <1>2 DEF Doing, Quiet, Texts, Steps
  <1>4. ~Ran("notify_matched_human")'
    BY <1>2, <1>3, Onwards DEF Extends
  <1> QED BY <1>1, <1>4, ContactOrder

LEMMA ContactTold ==
  ASSUME RunnerInvariant, ContactInvariant, ContactRule,
         Notify \/ ShareContact \/ NotifyPrevious
  PROVE  ContactInvariant'
  <1>0. NoticeFirst(Flushed) /\ Flushed \in Seq(Presentation) /\ Len(Flushed) \in Nat
    BY FlushedType DEF ContactInvariant
  <1>1. CASE Notify
    <2> DEFINE item == Item(Partner, "notice", Partner)
    <2>1. Partner \in Responder /\ Flushed' = Append(Flushed, item)
      BY <1>1, ContactStep
    <2>2. item \in Presentation /\ item.says = "notice" /\ item.to = Partner
      BY <2>1, ItemType DEF Item
    <2>3. NoticeFirst(Flushed')
      BY <1>0, <2>1, <2>2, OrderKept
    <2>4. knows'.holder = Partner /\ Partner # Nobody /\ buffer' = Append(Flushed, item)
      BY <1>1 DEF Notify, RunnerInvariant, TypeOK, Knowledge
    <2>5. Len(Flushed) + 1 \in 1..Len(buffer') /\ buffer'[Len(Flushed) + 1] = item
      BY <1>0, <2>2, <2>4
    <2> HIDE DEF item
    <2> QED BY <2>2, <2>3, <2>4, <2>5 DEF ContactInvariant, NoticeFirst
  <1>2. CASE ShareContact
    <2> DEFINE item == Item(Guest, "contact", Partner)
    <2>1. Partner \in Responder /\ Flushed' = Append(Flushed, item) /\ Extends
      BY <1>2, ContactStep
    <2>2. item \in Presentation /\ item.who = Partner
      BY <2>1, ItemType DEF Item
    <2>3. Ran("notify_matched_human")
      BY <1>2, ShareIsAfterNotice DEF ShareContact
    <2>4. Partner = knows.holder
      BY <2>3 DEF ContactInvariant, Partner
    <2>5. \E j \in 1..Len(Flushed) : Flushed[j].says = "notice" /\ Flushed[j].to = Partner
      BY <2>3, <2>4, BufferGrows DEF ContactInvariant
    <2>6. NoticeFirst(Flushed')
      BY <1>0, <2>1, <2>2, <2>5, OrderKept
    <2>7. Action.type = "share_human_contact" /\ Doing({"share_human_contact"})
      BY <1>2 DEF ShareContact, Doing
    <2>8. ~Ran("notify_matched_human")'
      BY <2>1, <2>7, Onwards DEF Extends, Quiet, Texts, Steps
    <2> QED BY <2>6, <2>8, ContactOrder
  <1>3. CASE NotifyPrevious
    <2> DEFINE item == Item(knows.previous, "farewell", knows.previous)
    <2>1. knows.previous \in Responder /\ Flushed' = Append(Flushed, item) /\ Extends
      BY <1>3, ContactStep
    <2>2. item \in Presentation /\ item.says = "farewell"
      BY <2>1, ItemType DEF Item
    <2>3. NoticeFirst(Flushed')
      BY <1>0, <2>1, <2>2, OrderKept
    <2>4. Action.type = "notify_previous_human" /\ Doing({"notify_previous_human"})
      BY <1>3 DEF NotifyPrevious, Doing
    <2>5. ~Ran("notify_matched_human")'
      BY <2>1, <2>4, Onwards DEF Extends, Quiet, Texts, Steps
    <2> QED BY <2>3, <2>5, ContactOrder
  <1> QED BY <1>1, <1>2, <1>3

\* A flow that starts or is left has not just notified.
LEMMA NothingRan ==
  ASSUME RunnerInvariant, frames # <<>>, NEW type, type \notin Openings,
         \/ \E key : Hands(key)
         \/ \E g, key, error : g \in EventChild(Top, key) /\ HandTo(g, error) /\ error \in BOOLEAN
         \/ frames' = Popped
         \/ \E frame \in Frame : frames' = Append(Advanced, frame) /\ frame.at = 1
  PROVE  ~Ran(type)'
  <1>1. ASSUME NEW g, NEW key, NEW error \in BOOLEAN, g \in EventChild(Top, key),
               HandTo(g, error)
        PROVE  ~Ran(type)'
    <2>1. Start(g, "does", error) \in Frame /\ Start(g, "does", error).at = 1
      BY <1>1, StartType DEF EventChild, Parts
    <2>2. frames' # <<>> /\ Top'.at = 1
      BY <1>1, <2>1, ReplacedTop DEF HandTo
    <2> QED BY <2>2, Starts
  <1>2. CASE frames' = Popped
    BY <1>2, Left
  <1>3. ASSUME NEW frame \in Frame, frames' = Append(Advanced, frame), frame.at = 1
        PROVE  ~Ran(type)'
    <2>1. frames' # <<>> /\ Top'.at = 1
      BY <1>3, PushedTop
    <2> QED BY <2>1, Starts
  <1> QED BY <1>1, <1>2, <1>3 DEF Hands

LEMMA ContactMoves ==
  ASSUME RunnerInvariant, ContactInvariant,
         \/ Searching \/ Attending \/ EnterRoot \/ ReturnNow \/ Fail \/ EndFlow
  PROVE  ContactInvariant'
  <1>0. "notify_matched_human" \notin Openings /\ NoticeFirst(Flushed)
        /\ Flushed \in Seq(Presentation)
    BY FlushedType DEF Openings, Entries, ContactInvariant
  <1>1. CASE Searching \/ Attending
    <2>1. frames # <<>> /\ \E key : Hands(key)
      BY <1>1, EmittingStep DEF Doing, Running
    <2>2. Flush
      BY <1>1 DEF Searching, Attending, ReserveNobody, Reserve, SelectAttendance, ResolveOptions
    <2> QED BY <1>0, <2>1, <2>2, ToldKept, NothingRan, ContactOrder
  <1>2. CASE EnterRoot \/ ReturnNow
    <2>1. frames # <<>> /\ \E frame \in Frame : frames' = Append(Advanced, frame) /\ frame.at = 1
      BY <1>2, OpeningStep DEF Doing, Running
    <2>2. Flush
      BY <1>2 DEF EnterRoot, ReturnNow
    <2> QED BY <1>0, <2>1, <2>2, ToldKept, NothingRan, ContactOrder
  <1>3. CASE Fail
    <2>1. frames # <<>>
      BY <1>3, FailStep
    <2>2. ~Ran("notify_matched_human")'
      BY <1>0, <1>3, <2>1, FailStep, NothingRan
    <2>3. NoticeFirst(Flushed')
      <3>1. CASE Flush
        BY <1>0, <3>1, ToldKept
      <3>2. CASE buffer' = Append(Flushed, Fallback) /\ pending' = <<>>
        <4>1. Fallback \in Presentation /\ Fallback.says = "fallback"
          BY ItemType DEF Fallback, Item
        <4> QED BY <1>0, <3>2, <4>1, ToldAdds, OrderKept
      <3> QED BY <1>3, <3>1, <3>2 DEF Fail
    <2> QED BY <2>2, <2>3, ContactOrder
  <1>4. CASE EndFlow
    BY <1>0, <1>4, EndFlowStep, ToldKept, NothingRan, ContactOrder DEF EndFlow
  <1> QED BY <1>1, <1>2, <1>3, <1>4

LEMMA OneTop ==
  ASSUME NEW frame, frames' = <<frame>>
  PROVE  frames' # <<>> /\ Len(frames') = 1 /\ Top' = frame /\ frames'[1] = frame
  BY DEF Top

LEMMA ContactTurns ==
  ASSUME RunnerInvariant, ContactInvariant,
         EndChoice \/ EndRun \/ Asking \/ Commit \/ Abort \/ Raise
  PROVE  ContactInvariant'
  <1>0. NoticeFirst(Flushed)
    BY DEF ContactInvariant
  <1>1. CASE EndChoice
    <2>1. ~Ran("notify_matched_human")'
      <3>1. CASE frames' = <<>>
        BY <3>1 DEF Ran
      <3>2. ASSUME NEW frame \in Frame, frames' = <<frame>>, frame.at = 1
            PROVE  ~Ran("notify_matched_human")'
        BY <3>2, OneTop, Starts
      <3> QED BY <1>1, <3>1, <3>2, EndChoiceStep
    <2> QED BY <1>0, <1>1, <2>1, EndChoiceStep, ContactOrder
  <1>2. CASE EndRun
    <2>1. ~Ran("notify_matched_human")'
      BY <1>2, EndRunStep DEF Ran
    <2> QED BY <1>0, <1>2, <2>1, EndRunStep, ContactOrder
  <1>3. CASE Asking
    <2>1. PICK f : frames' = <<Start(f, "does", FALSE)>>
      BY <1>3, AskStep
    <2>2. frames' # <<>> /\ Top'.at = 1
      BY <2>1, OneTop DEF Start
    <2> QED BY <1>0, <1>3, <2>2, AskStep, Starts, ContactOrder
  <1>4. CASE Commit \/ Abort \/ Raise
    <2>1. Flushed' = <<>> /\ frames' = <<>>
      BY <1>4, OverStep DEF Idle
    <2>2. NoticeFirst(Flushed') /\ ~Ran("notify_matched_human")'
      BY <2>1 DEF NoticeFirst, Ran
    <2> QED BY <2>2, ContactOrder
  <1> QED BY <1>1, <1>2, <1>3, <1>4

LEMMA ContactNext ==
  ContactRule /\ RunnerInvariant /\ ContactInvariant /\ [Next]_vars => ContactInvariant'
  <1> SUFFICES ASSUME ContactRule, RunnerInvariant, ContactInvariant, [Next]_vars
               PROVE  ContactInvariant'
    OBVIOUS
  <1>1. CASE UNCHANGED vars
    BY <1>1 DEF vars, ContactInvariant, NoticeFirst, Flushed, Ran, Since, Script, Top
  <1> QED BY <1>1, Groups, ContactQuiet, ContactEffect, ContactTold, ContactMoves, ContactTurns

LEMMA ContactInit == Init => ContactInvariant
  <1> SUFFICES ASSUME Init PROVE ContactInvariant
    OBVIOUS
  <1>1. Flushed = <<>> /\ frames = <<>>
    BY ConcatEmptySeq, EmptySeq DEF Init, Flushed
  <1> QED BY <1>1 DEF ContactInvariant, NoticeFirst, Ran

LEMMA ContactGives == RunnerInvariant /\ ContactInvariant => ContactAfterNotice
  <1> SUFFICES ASSUME RunnerInvariant, ContactInvariant,
                      NEW i \in 1..Len(buffer), buffer[i].says = "contact"
               PROVE  \E j \in 1..i : buffer[j].says = "notice" /\ buffer[j].to = buffer[i].who
    BY DEF ContactAfterNotice
  <1>1. i \in 1..Len(Flushed) /\ Flushed[i] = buffer[i]
    BY BufferGrows
  <1>2. PICK j \in 1..i : Flushed[j].says = "notice" /\ Flushed[j].to = Flushed[i].who
    BY <1>1 DEF ContactInvariant, NoticeFirst
  <1>3. j \in 1..Len(buffer)
    BY BufferGrows
  <1> QED BY <1>1, <1>2, <1>3, BufferGrows

\* Documents that share a contact only after a notice: whoever the guest is put in
\* touch with was told before, in the same reply, whatever fails or is nested.
THEOREM ContactsAfterNotices == ASSUME ContactRule PROVE Spec => []ContactAfterNotice
  <1>1. Init => ContactInvariant
    BY ContactInit
  <1>2. RunnerInvariant /\ ContactInvariant /\ [Next]_vars => ContactInvariant'
    BY ContactNext
  <1>3. RunnerInvariant /\ ContactInvariant => ContactAfterNotice
    BY ContactGives
  <1> QED BY <1>1, <1>2, <1>3, Invariant, PTL DEF Spec
-----------------------------------------------------------------------------
(* Only the lowest frame hands over: an entered root has no child for an    *)
(* event, and return actions have none at all.                             *)

LEMMA AboveLowest ==
  ASSUME RunnerInvariant, FramesTraced, frames # <<>>, Len(frames) # 1
  PROVE  Top.part = "back" \/ Top.flow \in {Home, Latecomer}
  <1>1. Len(frames) \in Nat \ {0} /\ Top = frames[Len(frames)]
    BY TopFacts
  <1>2. Len(frames) \in 2..Len(frames)
    BY <1>1
  <1> QED BY <1>1, <1>2 DEF FramesTraced

LEMMA HandedFrame ==
  ASSUME RunnerInvariant, FramesTraced, EnteredRule, frames # <<>>,
         NEW key, NEW g \in EventChild(Top, key), NEW rec \in BOOLEAN, HandTo(g, rec)
  PROVE  /\ g \in Flow /\ Parent[g] = Top.flow /\ <<"action_event", key>> \in On[g]
         /\ OnEvent(g) /\ Top.part = "does"
         /\ Len(frames) = 1 /\ task # "return"
         /\ Top.flow = executed[Len(executed)] /\ executed' = Append(executed, g)
         /\ frames' # <<>> /\ Len(frames') = 1 /\ Top' = Start(g, "does", rec)
         /\ frames'[1] = Start(g, "does", rec)
  <1>1. /\ g \in Flow /\ Parent[g] = Top.flow /\ <<"action_event", key>> \in On[g]
        /\ Top.part = "does"
    BY DEF EventChild
  <1>2. OnEvent(g)
    BY <1>1 DEF OnEvent
  <1>3. Top.flow \notin {Home, Latecomer}
    BY <1>1, <1>2 DEF EnteredRule
  <1>4. Len(frames) \in Nat \ {0} /\ Top = frames[Len(frames)]
    BY TopFacts
  <1>5. Len(frames) = 1
    BY <1>1, <1>3, AboveLowest
  <1>6. task # "return" /\ Top.flow = executed[Len(executed)]
    BY <1>1, <1>4, <1>5 DEF FramesTraced
  <1>7. Start(g, "does", rec) \in Frame
    BY <1>1, StartType DEF Parts
  <1>8. /\ frames' # <<>> /\ Len(frames') = 1 /\ Top' = Start(g, "does", rec)
        /\ frames'[1] = Start(g, "does", rec)
    BY <1>5, <1>7, ReplacedTop DEF HandTo
  <1> QED BY <1>1, <1>2, <1>5, <1>6, <1>8 DEF HandTo

LEMMA LastAppended ==
  ASSUME RunnerInvariant, frames # <<>>, NEW g \in Flow
  PROVE  /\ Len(executed) \in Nat \ {0} /\ Len(Append(executed, g)) = Len(executed) + 1
         /\ Append(executed, g)[Len(executed) + 1] = g
         /\ \A i \in 1..Len(executed) : Append(executed, g)[i] = executed[i]
  <1>1. executed \in Seq(Flow) /\ executed # <<>>
    BY TopFacts DEF RunnerInvariant, TypeOK
  <1> QED BY <1>1, EmptySeq

\* A step that leaves flows and parts of frames where they are keeps the trace.
LEMMA TraceExtends ==
  ASSUME RunnerInvariant, FramesTraced, Extends
  PROVE  FramesTraced'
  <1>1. /\ Len(frames') = Len(frames) /\ Len(frames) \in Nat \ {0}
        /\ \A i \in 1..Len(frames) :
             frames'[i].part = frames[i].part /\ frames'[i].flow = frames[i].flow
    BY AdvancedTop, TopFacts DEF Extends
  <1> QED BY <1>1 DEF FramesTraced, Extends

LEMMA TraceHands ==
  ASSUME RunnerInvariant, FramesTraced, EnteredRule, frames # <<>>, task' = task,
         \/ \E key : Hands(key)
         \/ \E key : \E g \in EventChild(Top, key) : \E rec \in BOOLEAN : HandTo(g, rec)
         \/ frames' = Popped /\ executed' = executed
  PROVE  FramesTraced'
  <1>1. ASSUME NEW key, NEW g \in EventChild(Top, key), NEW rec \in BOOLEAN, HandTo(g, rec)
        PROVE  FramesTraced'
    <2>1. /\ g \in Flow /\ task # "return" /\ executed' = Append(executed, g)
          /\ Len(frames') = 1 /\ frames'[1] = Start(g, "does", rec)
      BY <1>1, HandedFrame
    <2>2. executed'[Len(executed')] = g
      BY <2>1, LastAppended
    <2> QED BY <2>1, <2>2 DEF FramesTraced, Start
  <1>2. CASE frames' = Popped /\ executed' = executed
    <2>1. /\ Len(frames') = Len(frames) - 1 /\ Len(frames) \in Nat \ {0}
          /\ \A i \in 1..(Len(frames) - 1) : frames'[i] = frames[i]
      BY <1>2, PoppedTop, TopFacts
    <2>2. frames' # <<>> => 1 \in 1..(Len(frames) - 1)
      <3>1. Popped \in Seq(Frame)
        BY PoppedStack, TopFacts DEF Stack
      <3> QED BY <1>2, <2>1, <3>1, EmptySeq
    <2> QED BY <1>2, <2>1, <2>2 DEF FramesTraced
  <1> QED BY <1>1, <1>2 DEF Hands

LEMMA TraceOpens ==
  ASSUME RunnerInvariant, FramesTraced, EnterRoot \/ ReturnNow
  PROVE  FramesTraced'
  <1>1. frames # <<>> /\ UNCHANGED <<task, executed>>
    BY OpeningStep DEF Doing, Running
  <1>2. PICK frame \in Frame : /\ frames' = Append(Advanced, frame)
                               /\ frame.part = "back" \/ frame.flow \in {Home, Latecomer}
    BY OpeningStep
  <1>3. /\ Len(frames') = Len(frames) + 1 /\ Len(frames) \in Nat \ {0}
        /\ frames'[Len(frames) + 1] = frame
        /\ \A i \in 1..Len(frames) :
             frames'[i].part = frames[i].part /\ frames'[i].flow = frames[i].flow
    BY <1>1, <1>2, PushedTop, TopFacts
  <1>4. ASSUME NEW i \in 2..Len(frames')
        PROVE  frames'[i].part = "back" \/ frames'[i].flow \in {Home, Latecomer}
    <2>1. CASE i = Len(frames) + 1
      BY <1>2, <1>3, <2>1
    <2>2. CASE i # Len(frames) + 1
      <3>1. i \in 2..Len(frames)
        BY <1>3, <1>4, <2>2
      <3> QED BY <1>3, <3>1 DEF FramesTraced
    <2> QED BY <2>1, <2>2
  <1> QED BY <1>1, <1>3, <1>4 DEF FramesTraced

LEMMA TraceTurns ==
  ASSUME RunnerInvariant, EndChoice \/ EndRun \/ Asking \/ Commit \/ Abort \/ Raise
  PROVE  FramesTraced'
  <1>0. Len(<<>>) = 0
    BY EmptySeq
  <1>1. CASE EndChoice
    <2>1. CASE frames' = <<>>
      BY <1>0, <2>1 DEF FramesTraced
    <2>2. ASSUME NEW frame, frames' = <<frame>>, frame.part = "back", task' = "return"
          PROVE  FramesTraced'
      BY <2>2, OneTop DEF FramesTraced
    <2> QED BY <1>1, <2>1, <2>2, EndChoiceStep
  <1>2. CASE EndRun
    BY <1>0, <1>2, EndRunStep DEF FramesTraced
  <1>3. CASE Asking
    <2>1. PICK f \in Flow : executed' = <<f>> /\ frames' = <<Start(f, "does", FALSE)>>
      BY <1>3, AskStep
    <2>2. task' # "return" /\ Len(frames') = 1 /\ frames'[1] = Start(f, "does", FALSE)
      BY <1>3, <2>1, AskStep, OneTop
    <2>3. executed'[Len(executed')] = f
      BY <2>1
    <2> QED BY <2>2, <2>3 DEF FramesTraced, Start
  <1>4. CASE Commit \/ Abort \/ Raise
    <2>1. frames' = <<>> /\ Len(frames') = 0
      BY <1>0, <1>4, OverStep DEF Idle
    <2> QED BY <2>1 DEF FramesTraced
  <1> QED BY <1>1, <1>2, <1>3, <1>4

LEMMA TraceNext ==
  ASSUME EnteredRule, RunnerInvariant, FramesTraced, [Next]_vars
  PROVE  FramesTraced'
  <1>1. CASE UNCHANGED vars
    BY <1>1 DEF vars, FramesTraced
  <1>2. CASE \/ ShowText \/ AttachButtons \/ OfferServices \/ PassStep \/ MarkPending
             \/ SaveInterest \/ Confirm \/ Release \/ Exclude
             \/ Notify \/ ShareContact \/ NotifyPrevious
    BY <1>2, QuietStep, EffectStep, ContactStep, TraceExtends
  <1>3. CASE Searching \/ Attending
    <2>1. frames # <<>> /\ task' = task /\ \E key : Hands(key)
      BY <1>3, EmittingStep DEF Doing, Running
    <2> QED BY <2>1, TraceHands
  <1>4. CASE Fail
    BY <1>4, FailStep, TraceHands
  <1>5. CASE EndFlow
    BY <1>5, EndFlowStep, TraceHands
  <1> QED BY <1>1, <1>2, <1>3, <1>4, <1>5, TraceOpens, TraceTurns, Groups
-----------------------------------------------------------------------------
(* A failure is answered.                                                  *)

\* A handed over event adds a flow below what was executed.
LEMMA HandsExecuted ==
  ASSUME RunnerInvariant, FailureInvariant, EnteredRule, frames # <<>>,
         NEW key, NEW g \in EventChild(Top, key), NEW rec \in BOOLEAN, HandTo(g, rec)
  PROVE  /\ executed'[1] = executed[1] /\ ~Leaf(executed'[1])
         /\ Len(executed') = Len(executed) + 1 /\ Len(executed) \in Nat \ {0}
         /\ <<"action_event", key>> \in On[executed'[Len(executed')]]
         /\ \A i \in 1..Len(executed) : executed'[i] = executed[i]
  <1>1. /\ g \in Flow /\ Parent[g] = Top.flow /\ <<"action_event", key>> \in On[g]
        /\ Top.flow = executed[Len(executed)] /\ executed' = Append(executed, g)
    BY HandedFrame DEF FailureInvariant
  <1>2. /\ Len(executed) \in Nat \ {0} /\ Len(executed') = Len(executed) + 1
        /\ executed'[Len(executed) + 1] = g
        /\ \A i \in 1..Len(executed) : executed'[i] = executed[i]
    BY <1>1, LastAppended
  <1>3. ~Leaf(executed[1])
    <2>1. CASE Len(executed) = 1
      BY <1>1, <2>1 DEF Leaf
    <2>2. CASE Len(executed) # 1
      <3>1. \A n \in Nat \ {0} : n # 1 => n > 1
        OBVIOUS
      <3>2. Len(executed) > 1
        BY <1>2, <2>2, <3>1, Zenon
      <3> QED BY <3>2 DEF FailureInvariant
    <2> QED BY <2>1, <2>2
  <1> QED BY <1>1, <1>2, <1>3

LEMMA AnsweredStays ==
  ASSUME Answered, Told \subseteq Told', Len(executed) \in Nat,
         Len(executed') \in Nat, Len(executed') >= Len(executed),
         \A i \in 1..Len(executed) : executed'[i] = executed[i]
  PROVE  Answered'
  BY DEF Answered

LEMMA FailureSame ==
  ASSUME RunnerInvariant, FailureInvariant, FramesTraced', Told \subseteq Told',
         UNCHANGED <<turn, task, executed, failed>>
  PROVE  FailureInvariant'
  <1>1. Len(executed) \in Nat
    BY DEF RunnerInvariant, TypeOK
  <1>2. failed # {} => Answered'
    BY <1>1, AnsweredStays DEF FailureInvariant
  <1>3. "handler" \in failed => \E t \in Told' : t[1] = "fallback"
    BY DEF FailureInvariant
  <1> QED BY <1>2, <1>3 DEF FailureInvariant

LEMMA FailureHands ==
  ASSUME RunnerInvariant, FailureInvariant, EnteredRule, FramesTraced', frames # <<>>,
         Told' = Told, UNCHANGED <<turn, task>>,
         NEW key, NEW g \in EventChild(Top, key), NEW rec \in BOOLEAN, HandTo(g, rec),
         failed' = failed \/ key = "error",
         "handler" \in failed' => "handler" \in failed
  PROVE  FailureInvariant'
  <1>1. /\ executed'[1] = executed[1] /\ ~Leaf(executed'[1])
        /\ Len(executed') = Len(executed) + 1 /\ Len(executed) \in Nat \ {0}
        /\ <<"action_event", key>> \in On[executed'[Len(executed')]]
        /\ \A i \in 1..Len(executed) : executed'[i] = executed[i]
    BY HandsExecuted
  <1>2. turn # "idle" /\ task \notin {"completed", "answered"}
    <2>1. turn # "idle" /\ ~Settled
      BY TopFacts DEF RunnerInvariant
    <2> QED BY <2>1 DEF Settled
  <1>3. failed' # {} => Answered'
    <2>1. CASE failed' = failed
      BY <1>1, <2>1, AnsweredStays DEF FailureInvariant
    <2>2. CASE key = "error"
      <3>1. Len(executed') \in 2..Len(executed')
        BY <1>1
      <3> QED BY <1>1, <2>2, <3>1 DEF Answered
    <2> QED BY <2>1, <2>2
  <1>4. "handler" \in failed' => \E t \in Told' : t[1] = "fallback"
    BY DEF FailureInvariant
  <1> QED BY <1>1, <1>2, <1>3, <1>4 DEF FailureInvariant

LEMMA FailureNext ==
  EnteredRule /\ AnswerRule /\ RunnerInvariant /\ FailureInvariant /\ [Next]_vars
    => FailureInvariant'
  <1> SUFFICES ASSUME EnteredRule, AnswerRule, RunnerInvariant, FailureInvariant, [Next]_vars
               PROVE  FailureInvariant'
    OBVIOUS
  <1>0. FramesTraced'
    BY TraceNext DEF FailureInvariant
  <1>1. CASE UNCHANGED vars
    <2>1. Told' = Told /\ UNCHANGED <<turn, task, executed, failed>>
      BY <1>1, ToldKept DEF vars
    <2> QED BY <1>0, <2>1, FailureSame
  <1>2. CASE \/ ShowText \/ AttachButtons \/ OfferServices \/ PassStep \/ MarkPending
             \/ SaveInterest \/ Confirm \/ Release \/ Exclude
             \/ Notify \/ ShareContact \/ NotifyPrevious
    <2>1. Extends /\ Told \subseteq Told'
      BY <1>2, QuietStep, EffectStep, ContactStep
    <2> QED BY <1>0, <2>1, FailureSame DEF Extends
  <1>3. CASE Searching \/ Attending
    <2>1. Told' = Told /\ UNCHANGED <<turn, task, failed>> /\ frames # <<>>
      BY <1>3, EmittingStep DEF Doing, Running
    <2>2. PICK key : Hands(key)
      BY <1>3, EmittingStep
    <2>3. CASE executed' = executed
      BY <1>0, <2>1, <2>3, FailureSame
    <2>4. ASSUME NEW g \in EventChild(Top, key), NEW rec \in BOOLEAN, HandTo(g, rec)
          PROVE  FailureInvariant'
      BY <1>0, <2>1, <2>4, FailureHands
    <2> QED BY <2>2, <2>3, <2>4 DEF Hands
  <1>4. CASE EnterRoot \/ ReturnNow \/ EndFlow
    BY <1>0, <1>4, OpeningStep, EndFlowStep, FailureSame
  <1>5. CASE Fail
    <2>1. frames # <<>> /\ UNCHANGED <<turn, task>>
      BY <1>5, FailStep
    <2>2. ASSUME NEW g \in EventChild(Top, "error"), NEW rec \in BOOLEAN, HandTo(g, rec),
                 Told' = Told, "handler" \in failed' => "handler" \in failed
          PROVE  FailureInvariant'
      BY <1>0, <2>1, <2>2, FailureHands
    <2>3. CASE Told' = Told \cup {<<"fallback", Guest, knows.request>>} /\ executed' = executed
      <3>1. Answered' /\ \E t \in Told' : t[1] = "fallback"
        <4>1. <<"fallback", Guest, knows.request>> \in Told'
          BY <2>3
        <4>2. <<"fallback", Guest, knows.request>>[1] = "fallback"
          OBVIOUS
        <4> QED BY <4>1, <4>2 DEF Answered
      <3>2. turn # "idle"
        BY <2>1, TopFacts
      <3> QED BY <1>0, <2>1, <2>3, <3>1, <3>2 DEF FailureInvariant
    <2> QED BY <1>5, <2>2, <2>3, FailStep
  <1>6. CASE EndChoice
    <2>1. /\ Told' = Told /\ UNCHANGED <<turn, executed, failed>> /\ turn # "idle"
          /\ task' \in {"done", "return"}
      BY <1>6, EndChoiceStep
    <2>2. failed # {} => Answered'
      BY <2>1 DEF FailureInvariant, Answered
    <2> QED BY <1>0, <2>1, <2>2 DEF FailureInvariant
  <1>7. CASE EndRun
    <2>1. /\ Told' = Told /\ UNCHANGED <<turn, executed, failed>> /\ turn # "idle"
          /\ task' \in {"answered", "completed", "done"}
          /\ task' = "answered" => task = "answer"
          /\ task' = "completed" => Leaf(executed[1])
      BY <1>7, EndRunStep
    <2>2. failed # {} => Answered'
      BY <2>1 DEF FailureInvariant, Answered
    <2> QED BY <1>0, <2>1, <2>2 DEF FailureInvariant
  <1>8. CASE Asking
    <2>1. /\ Told' = Told /\ failed' = failed
          /\ turn' # "idle" /\ task' \in {"answer", "choice", "root"}
          /\ turn = "idle" \/ (turn = "text" /\ task \in {"answered", "completed"})
      BY <1>8, AskStep
    <2>2. PICK f \in Flow : executed' = <<f>> /\ (task' = "answer" => f \in Answers)
      BY <1>8, AskStep
    <2>3. executed'[1] = f /\ Len(executed') = 1
      BY <2>2
    <2>4. ASSUME failed # {} PROVE \E t \in Told : t[1] = "fallback"
      <3>1. turn = "text" /\ task \in {"answered", "completed"}
        BY <2>1, <2>4 DEF FailureInvariant
      <3>2. executed # <<>> /\ executed \in Seq(Flow)
        BY <3>1 DEF RunnerInvariant, TypeOK
      <3>3. Leaf(executed[1])
        BY <3>1 DEF FailureInvariant, AnswerRule
      <3>4. Len(executed) \in Nat /\ ~(Len(executed) > 1)
        BY <3>2, <3>3 DEF FailureInvariant
      <3> QED BY <2>4, <3>4 DEF FailureInvariant, Answered
    <2>5. failed # {} => Answered'
      BY <2>1, <2>4 DEF Answered
    <2> QED BY <1>0, <2>1, <2>2, <2>3, <2>5 DEF FailureInvariant
  <1>9. CASE Commit \/ Abort \/ Raise
    <2>1. turn' = "idle" /\ task' = "none" /\ executed' = <<>> /\ failed' = {} /\ Len(<<>>) = 0
      BY <1>9, OverStep, EmptySeq DEF Idle
    <2> QED BY <1>0, <2>1 DEF FailureInvariant
  <1> QED BY <1>1, <1>2, <1>3, <1>4, <1>5, <1>6, <1>7, <1>8, <1>9, Groups

LEMMA FailureInit == Init => FailureInvariant
  <1> SUFFICES ASSUME Init PROVE FailureInvariant
    OBVIOUS
  <1>1. frames = <<>> /\ executed = <<>> /\ Len(<<>>) = 0
    BY EmptySeq DEF Init
  <1> QED BY <1>1 DEF Init, FailureInvariant, FramesTraced

LEMMA FailureGives == RunnerInvariant /\ FailureInvariant => FailureAnswered
  <1> SUFFICES ASSUME RunnerInvariant, FailureInvariant, Settled
               PROVE  FailureAnswered
    BY DEF FailureAnswered
  <1>1. (failed # {} => Answered) /\ ("handler" \in failed => \E t \in Told : t[1] = "fallback")
    BY DEF FailureInvariant
  <1>2. (\E t \in Told : t[1] = "fallback") => FallbackShown
    BY ToldSettled DEF FallbackShown
  <1> QED BY <1>1, <1>2 DEF FailureAnswered, Answered

\* Documents whose answers are leaves and whose entered roots have no child for
\* an event: a failure, in whatever nested run, ends in the fixed text or in a
\* handler, even when another run follows in the same update; a failure in a
\* handler ends in the fixed text, though the handler may have one of its own.
THEOREM FailuresAnswered ==
  ASSUME EnteredRule, AnswerRule PROVE Spec => []FailureAnswered
  <1>1. Init => FailureInvariant
    BY FailureInit
  <1>2. RunnerInvariant /\ FailureInvariant /\ [Next]_vars => FailureInvariant'
    BY FailureNext
  <1>3. RunnerInvariant /\ FailureInvariant => FailureAnswered
    BY FailureGives
  <1> QED BY <1>1, <1>2, <1>3, Invariant, PTL DEF Spec
-----------------------------------------------------------------------------
(* Every update shows the guest something.                                 *)

LEMMA Kinds ==
  /\ Voices \cap Openings = {} /\ Voices \cap Emitting = {} /\ Openings \cap Emitting = {}
  /\ Quiet \cap Openings = {} /\ Quiet \cap Emitting = {}
  /\ Searches = {"find_and_reserve_server", "find_and_reserve_safety_responder"}
  /\ Searches \subseteq Emitting
  <1>1. Emitting = {"find_and_reserve_server", "find_and_reserve_safety_responder",
                    "select_service_attendance", "resolve_service_switch_options"}
    BY DEF Emitting, Outcomes
  <1>2. Searches = {"find_and_reserve_server", "find_and_reserve_safety_responder"}
    BY DEF Searches, Search, Kind
  <1> QED BY <1>1, <1>2 DEF Voices, Openings, Quiet, Texts, Steps, Entries

\* A flow that starts has something to show or somewhere to go.
LEMMA FlowPromises ==
  ASSUME VoiceRule, NEW f \in Flow, NEW error \in BOOLEAN
  PROVE  Promises(Start(f, "does", error))
  <1>1. Script(Start(f, "does", error)) = Does[f] /\ Start(f, "does", error).at = 1
        /\ Start(f, "does", error).part = "does"
    BY DEF Script, Start
  <1>2. \E i \in 1..Len(Does[f]) : Does[f][i].type \in Voices \cup Openings \cup Emitting
    BY DEF VoiceRule, Types
  <1> QED BY <1>1, <1>2 DEF Promises

\* So has a checkpoint that is gone back to.
LEMMA BackPromises ==
  ASSUME VoiceRule, NEW frame \in Frame, frame.at = 1, frame.part = "back",
         frame.flow = System \/ \E f \in Flow : Nearest[f] = frame.flow
  PROVE  Promises(frame)
  <1>1. frame.flow \in Flow
    BY DEF Frame
  <1>2. Types(Back[frame.flow]) \cap Voices # {}
    BY <1>1, DocumentAssumption DEF VoiceRule
  <1>3. Script(frame) = Back[frame.flow]
    BY DEF Script
  <1> QED BY <1>2, <1>3 DEF Promises, Types

\* What a promise comes to when its frame goes on.
LEMMA PromiseNext ==
  ASSUME RunnerInvariant, frames # <<>>, Promises(Top), Top.at <= Len(Script(Top))
  PROVE  \/ Action.type \in Voices
         \/ Top.part = "does" /\ Action.type \in Openings \cup Emitting
         \/ Extends => Promises(Top)'
  <1> DEFINE kept == IF Top.part = "does" THEN Voices \cup Openings \cup Emitting ELSE Voices
  <1>1. Top.at \in Nat \ {0} /\ Len(Script(Top)) \in Nat
    BY TopFacts
  <1>2. PICK i \in Top.at..Len(Script(Top)) : Script(Top)[i].type \in kept
    BY DEF Promises
  <1>3. CASE i = Top.at
    BY <1>2, <1>3 DEF Action
  <1>4. ASSUME i # Top.at, Extends PROVE Promises(Top)'
    <2>1. i \in (Top.at + 1)..Len(Script(Top))
      BY <1>1, <1>2, <1>4
    <2>2. Top'.at = Top.at + 1 /\ Top'.part = Top.part /\ Script(Top)' = Script(Top)
      BY <1>4, AdvancedTop DEF Extends
    <2> QED BY <1>2, <2>1, <2>2 DEF Promises
  <1> QED BY <1>3, <1>4

LEMMA VoicedStays ==
  ASSUME Voiced, Told \subseteq Told'
  PROVE  Voiced'
  BY DEF Voiced

\* Once shown, it is all that is asked.
LEMMA AnswerStays ==
  ASSUME Told \subseteq Told', Voiced \/ turn' = "idle"
  PROVE  AnswerInvariant'
  BY VoicedStays DEF AnswerInvariant

LEMMA AnswerExtends ==
  ASSUME RunnerInvariant, AnswerInvariant, VoiceRule, Extends, ~Voiced, NEW types, Doing(types),
         types \cap (Openings \cup Emitting) = {},
         Action.type \in Voices => \E t \in Told' : t[2] = Guest
  PROVE  AnswerInvariant'
  <1>1. frames # <<>> /\ turn # "idle" /\ Promises(Top) /\ Top.at <= Len(Script(Top))
    BY TopFacts DEF AnswerInvariant, Extends, Doing
  <1>2. Action.type \notin Openings \cup Emitting
    BY DEF Doing
  <1>3. CASE Action.type \in Voices
    BY <1>3 DEF AnswerInvariant, Voiced
  <1>4. CASE Action.type \notin Voices
    <2>1. Promises(Top)' /\ frames' # <<>>
      BY <1>1, <1>2, <1>4, PromiseNext, AdvancedTop DEF Extends
    <2> QED BY <2>1 DEF AnswerInvariant
  <1> QED BY <1>3, <1>4

LEMMA AnswerHands ==
  ASSUME RunnerInvariant, VoiceRule, frames # <<>>, NEW key, NEW g \in EventChild(Top, key),
         NEW rec \in BOOLEAN, HandTo(g, rec)
  PROVE  AnswerInvariant'
  <1>1. g \in Flow /\ Start(g, "does", rec) \in Frame
    BY StartType DEF EventChild, Parts
  <1>2. frames' # <<>> /\ Top' = Start(g, "does", rec)
    BY <1>1, ReplacedTop DEF HandTo
  <1>3. Promises(Top')
    BY <1>1, <1>2, FlowPromises
  <1>4. Promises(Top)'
    BY <1>3 DEF Promises, Script
  <1> QED BY <1>2, <1>4 DEF AnswerInvariant

LEMMA AnswerEmits ==
  ASSUME RunnerInvariant, AnswerInvariant, VoiceRule, EventRule, Searching \/ Attending, ~Voiced
  PROVE  AnswerInvariant'
  <1>1. /\ frames # <<>> /\ turn # "idle" /\ Top.at <= Len(Script(Top))
        /\ Action.type \in Emitting
    BY EmittingStep, TopFacts DEF Doing, Running
  <1>2. Promises(Top)
    BY <1>1 DEF AnswerInvariant
  <1>3. PICK key \in Outcomes[Action.type] : Hands(key)
    BY EmittingStep
  <1>4. /\ Top \in Frame /\ Top.at \in Nat \ {0} /\ Len(Script(Top)) \in Nat
        /\ Top.at \in 1..Len(Script(Top))
    BY <1>1, TopFacts
  <1>5. CASE Top.part = "does"
    <2>1. Top.flow \in Flow /\ Script(Top) = Does[Top.flow]
      BY <1>4, <1>5 DEF Frame, Script
    <2>2. Action.type \in Types(Does[Top.flow])
      BY <1>4, <2>1 DEF Action, Types
    <2>3. \E g \in Flow : Parent[g] = Top.flow /\ <<"action_event", key>> \in On[g]
      BY <1>1, <1>3, <2>1, <2>2 DEF EventRule
    <2>4. EventChild(Top, key) # {}
      BY <1>5, <2>3 DEF EventChild
    <2>5. PICK g \in EventChild(Top, key), rec \in BOOLEAN : HandTo(g, rec)
      BY <1>3, <2>4 DEF Hands
    <2> QED BY <1>1, <2>5, AnswerHands
  <1>6. CASE Top.part # "does"
    <2>1. Top.flow \in Flow /\ Script(Top) = Back[Top.flow]
      BY <1>4, <1>6 DEF Frame, Script
    <2>2. Top.at = Len(Script(Top))
      <3>1. CASE Top.at \in 1..(Len(Back[Top.flow]) - 1)
        BY <1>1, <2>1, <3>1 DEF EventRule, Action
      <3> QED BY <1>4, <2>1, <3>1
    <2>3. PICK i \in Top.at..Len(Script(Top)) : Script(Top)[i].type \in Voices
      BY <1>2, <1>6 DEF Promises
    <2>4. Action.type \in Voices
      BY <1>4, <2>2, <2>3 DEF Action
    <2> QED BY <1>1, <2>4, Kinds
  <1> QED BY <1>5, <1>6

LEMMA AnswerNext ==
  VoiceRule /\ EventRule /\ RunnerInvariant /\ AnswerInvariant /\ [Next]_vars => AnswerInvariant'
  <1> SUFFICES ASSUME VoiceRule, EventRule, RunnerInvariant, AnswerInvariant, [Next]_vars
               PROVE  AnswerInvariant'
    OBVIOUS
  <1>1. CASE UNCHANGED vars
    <2>1. Told' = Told /\ UNCHANGED <<turn, frames>>
      BY <1>1, ToldKept DEF vars
    <2> QED BY <2>1 DEF AnswerInvariant, Voiced, Promises, Top, Script
  <1>2. CASE ShowText \/ AttachButtons \/ OfferServices \/ PassStep \/ MarkPending
    <2>1. /\ Doing(Quiet) /\ Extends /\ Told \subseteq Told'
          /\ Action.type \in Voices => <<"text", Guest, knows.request>> \in Told'
      BY <1>2, QuietStep
    <2>2. <<"text", Guest, knows.request>>[2] = Guest
      OBVIOUS
    <2>3. Action.type \in Voices => \E t \in Told' : t[2] = Guest
      BY <2>1, <2>2
    <2> QED BY <2>1, <2>3, Kinds, AnswerStays, AnswerExtends
  <1>3. CASE SaveInterest \/ Confirm \/ Release \/ Exclude \/ Notify \/ NotifyPrevious
    <2> DEFINE types == {"save_incoming", "confirm_human_match", "release_human_match",
                         "exclude_previous_human_from_next_attempt", "notify_matched_human",
                         "notify_previous_human"}
    <2>1. Doing(types)
      BY <1>3 DEF SaveInterest, Confirm, Release, Exclude, Notify, NotifyPrevious, Doing
    <2>2. Extends /\ Told \subseteq Told'
      BY <1>3, EffectStep, ContactStep
    <2>3. types \cap (Openings \cup Emitting) = {} /\ types \cap Voices = {}
      BY DEF Openings, Emitting, Outcomes, Voices, Entries, Texts
    <2>4. Action.type \notin Voices
      BY <2>1, <2>3 DEF Doing
    <2> HIDE DEF types
    <2> QED BY <2>1, <2>2, <2>3, <2>4, AnswerStays, AnswerExtends
  <1>4. CASE ShareContact
    <2>1. <<"contact", Guest, knows.request>> \in Told'
      BY <1>4, ContactStep
    <2>2. <<"contact", Guest, knows.request>>[2] = Guest
      OBVIOUS
    <2> QED BY <2>1, <2>2 DEF AnswerInvariant, Voiced
  <1>5. CASE Searching \/ Attending
    <2>1. Told' = Told
      BY <1>5, EmittingStep
    <2> QED BY <1>5, <2>1, AnswerStays, AnswerEmits
  <1>6. CASE EnterRoot \/ ReturnNow
    <2>1. frames # <<>>
      BY <1>6, OpeningStep DEF Doing, Running
    <2>2. PICK frame \in Frame :
            /\ frames' = Append(Advanced, frame) /\ frame.at = 1
            /\ \/ frame.part = "does" /\ frame.flow \in {Home, Latecomer}
               \/ frame.part = "back" /\ (frame.flow = System
                                          \/ \E f \in Flow : Nearest[f] = frame.flow)
      BY <1>6, OpeningStep
    <2>3. frames' # <<>> /\ Top' = frame
      BY <2>1, <2>2, PushedTop
    <2>4. Promises(frame)
      <3>1. CASE frame.part = "back"
        BY <2>2, <3>1, BackPromises
      <3>2. CASE frame.part = "does"
        <4>1. /\ frame.flow \in Flow
              /\ Script(frame) = Script(Start(frame.flow, "does", FALSE))
              /\ Start(frame.flow, "does", FALSE).at = 1
              /\ Start(frame.flow, "does", FALSE).part = "does"
          BY <3>2 DEF Frame, Script, Start
        <4> QED BY <2>2, <3>2, <4>1, FlowPromises DEF Promises
      <3> QED BY <2>2, <3>1, <3>2
    <2>5. Promises(Top)'
      BY <2>3, <2>4 DEF Promises, Script
    <2> QED BY <2>3, <2>5 DEF AnswerInvariant
  <1>7. CASE Fail
    <2>1. frames # <<>>
      BY <1>7, FailStep
    <2>2. CASE Told' = Told \cup {<<"fallback", Guest, knows.request>>}
      <3>1. <<"fallback", Guest, knows.request>> \in Told'
            /\ <<"fallback", Guest, knows.request>>[2] = Guest
        BY <2>2
      <3> QED BY <3>1 DEF AnswerInvariant, Voiced
    <2>3. CASE \E g \in EventChild(Top, "error") : \E rec \in BOOLEAN : HandTo(g, rec)
      BY <2>1, <2>3, AnswerHands
    <2> QED BY <1>7, <2>2, <2>3, FailStep
  <1>8. CASE EndFlow
    <2>1. Told' = Told /\ frames # <<>> /\ Top.at > Len(Script(Top)) /\ turn # "idle"
      BY <1>8, EndFlowStep, TopFacts
    <2>2. Top.at \in Nat /\ Len(Script(Top)) \in Nat
      BY <2>1, TopFacts
    <2>3. ~Promises(Top)
      BY <2>1, <2>2 DEF Promises
    <2> QED BY <2>1, <2>3, AnswerStays DEF AnswerInvariant
  <1>9. CASE EndChoice \/ EndRun
    <2>1. Told' = Told /\ frames = <<>> /\ turn # "idle"
      BY <1>9, EndChoiceStep, EndRunStep
    <2> QED BY <2>1, AnswerStays DEF AnswerInvariant
  <1>10. CASE Asking
    <2>1. PICK f \in Flow : frames' = <<Start(f, "does", FALSE)>>
      BY <1>10, AskStep
    <2>2. frames' # <<>> /\ Top' = Start(f, "does", FALSE)
      BY <2>1, OneTop
    <2>3. Promises(Top')
      BY <2>2, FlowPromises
    <2>4. Promises(Top)'
      BY <2>3 DEF Promises, Script
    <2> QED BY <2>2, <2>4 DEF AnswerInvariant
  <1>11. CASE Commit \/ Abort \/ Raise
    BY <1>11, OverStep DEF AnswerInvariant
  <1> QED BY <1>1, <1>2, <1>3, <1>4, <1>5, <1>6, <1>7, <1>8, <1>9, <1>10, <1>11, Groups

LEMMA AnswerGives == RunnerInvariant /\ AnswerInvariant => AlwaysAnswered
  <1> SUFFICES ASSUME RunnerInvariant, AnswerInvariant, Settled
               PROVE  \E i \in 1..Len(buffer) : buffer[i].to = Guest
    BY DEF AlwaysAnswered
  <1>1. frames = <<>> /\ turn # "idle"
    BY ToldSettled
  <1>2. PICK t \in Told : t[2] = Guest
    BY <1>1 DEF AnswerInvariant, Voiced
  <1>3. PICK i \in 1..Len(buffer) : t = <<buffer[i].says, buffer[i].to, buffer[i].request>>
    BY ToldSettled
  <1> QED BY <1>2, <1>3

\* Documents whose flows and checkpoints speak, and whose events have a child to go
\* to: every update that is dispatched to a flow shows the guest something, through
\* any chain of events, nested roots, returns and failures.
THEOREM UpdatesAnswered == ASSUME VoiceRule, EventRule PROVE Spec => []AlwaysAnswered
  <1>1. Init => AnswerInvariant
    BY DEF Init, AnswerInvariant
  <1>2. RunnerInvariant /\ AnswerInvariant /\ [Next]_vars => AnswerInvariant'
    BY AnswerNext
  <1>3. RunnerInvariant /\ AnswerInvariant => AlwaysAnswered
    BY AnswerGives
  <1> QED BY <1>1, <1>2, <1>3, Invariant, PTL DEF Spec
-----------------------------------------------------------------------------
(* Nobody loses a guest without being told.                                *)

\* What has been said of those who lost the guest stays said.
ToldOff(k) == \E t \in Told : t[1] = "farewell" /\ t[2] = db.holder[k]
Dropped(k) == db.holder[k] \notin {Nobody, work.holder[k]}
Tells(k) == knows.previous = db.holder[k] /\ Ahead("notify_previous_human")

LEMMA DropUnfolds ==
  /\ DropInvariant <=> (turn # "idle" /\ failed = {} =>
                          \A k \in Kind : Dropped(k) => ToldOff(k) \/ Tells(k))
  /\ DropInvariant' <=> (turn' # "idle" /\ failed' = {} =>
                          \A k \in Kind : Dropped(k)' => ToldOff(k)' \/ Tells(k)')
  BY DEF DropInvariant, Dropped, ToldOff, Tells

LEMMA ToldOffStays ==
  ASSUME Told \subseteq Told', db' = db, NEW k, ToldOff(k)
  PROVE  ToldOff(k)'
  BY DEF ToldOff

\* A script that goes on by another action than the farewell, a release or a quiet
\* one has no farewell ahead.
LEMMA NoFarewell ==
  ASSUME RunnerInvariant, NEW types, Doing(types), NEW type, type \notin types,
         types \cap Quiet = {}
  PROVE  ~Ahead(type)
  <1>1. /\ Script(Top) \in Seq(DiscussionAction) /\ Top.at \in Nat /\ frames # <<>>
        /\ Action.type \in types
    BY TopFacts DEF Doing, Running
  <1> QED BY <1>1, UntilNext DEF Ahead, Action

LEMMA DropQuiet ==
  ASSUME RunnerInvariant, DropInvariant,
         ShowText \/ AttachButtons \/ OfferServices \/ PassStep \/ MarkPending
  PROVE  DropInvariant'
  <1>1. Doing(Quiet) /\ Extends /\ UNCHANGED <<knows, work>> /\ Told \subseteq Told'
    BY QuietStep
  <1> SUFFICES ASSUME turn' # "idle", failed' = {}, NEW k \in Kind, Dropped(k)'
               PROVE  ToldOff(k)' \/ Tells(k)'
    BY DropUnfolds
  <1>2. ToldOff(k) \/ Tells(k)
    BY <1>1, DropUnfolds DEF Extends, Dropped
  <1>3. Action.type # "notify_previous_human"
    BY <1>1 DEF Doing, Quiet, Texts, Steps
  <1>4. Tells(k) => Tells(k)'
    BY <1>1, <1>3, Onwards DEF Tells, Extends
  <1> QED BY <1>1, <1>2, <1>4, ToldOffStays DEF Extends

\* Other actions find everybody told who had to be.
LEMMA DropPlain ==
  ASSUME RunnerInvariant, DropInvariant, turn # "idle" /\ failed' = {} => failed = {},
         Told \subseteq Told', db' = db, ~Ahead("notify_previous_human"),
         turn # "idle" \/ turn' = "idle",
         \A k \in Kind : work'.holder[k] = work.holder[k] \/ work.holder[k] = Nobody
  PROVE  DropInvariant'
  <1> SUFFICES ASSUME turn' # "idle", failed' = {}, NEW k \in Kind, Dropped(k)'
               PROVE  ToldOff(k)'
    BY DropUnfolds
  <1>1. Dropped(k)
    BY DEF Dropped
  <1>2. ToldOff(k)
    BY <1>1, DropUnfolds DEF Tells
  <1> QED BY <1>2, ToldOffStays

LEMMA DropEffect ==
  ASSUME RunnerInvariant, DropInvariant, SaveInterest \/ Confirm \/ Exclude
  PROVE  DropInvariant'
  <1>1. /\ Extends /\ Told' = Told
        /\ Doing({"save_incoming", "confirm_human_match",
                  "exclude_previous_human_from_next_attempt"})
    BY EffectStep DEF SaveInterest, Confirm, Exclude, Doing
  <1>2. ~Ahead("notify_previous_human")
    BY <1>1, NoFarewell DEF Quiet, Texts, Steps
  <1>3. work'.holder = work.holder
    BY DEF SaveInterest, Confirm, Exclude, RunnerInvariant, TypeOK, Rows
  <1>4. turn # "idle"
    BY <1>1 DEF Doing, Running
  <1> QED BY <1>1, <1>2, <1>3, <1>4, DropPlain DEF Extends

LEMMA ReleaseStep ==
  ASSUME RunnerInvariant, Release
  PROVE  /\ Extends /\ Told' = Told /\ Doing({"release_human_match"})
         /\ knows.request \in Kind /\ knows'.request = knows.request
         /\ knows'.previous = work.holder[knows.request]
         /\ work.holder[knows.request] \in Responder \cup {Nobody}
         /\ work'.holder[knows.request] = Nobody /\ work'.excluded = work.excluded
         /\ \A k \in Kind \ {knows.request} : work'.holder[k] = work.holder[k]
  <1>1. /\ Extends /\ Told' = Told /\ Doing({"release_human_match"})
        /\ knows \in Knowledge /\ work \in Rows /\ knows.request # NoRequest
    BY EffectStep DEF Release, RunnerInvariant, TypeOK
  <1>2. knows.request \in Kind /\ work.holder[knows.request] \in Responder \cup {Nobody}
    BY <1>1 DEF Knowledge, Request, Rows
  <1>3. knows'.request = knows.request /\ knows'.previous = work.holder[knows.request]
    BY <1>1 DEF Release, Knowledge
  <1>4. /\ work'.holder[knows.request] = Nobody /\ work'.excluded = work.excluded
        /\ \A k \in Kind \ {knows.request} : work'.holder[k] = work.holder[k]
    BY <1>1, <1>2 DEF Release, Rows
  <1> QED BY <1>1, <1>2, <1>3, <1>4

LEMMA DropRelease ==
  ASSUME RunnerInvariant, DropInvariant, FarewellRule, Release
  PROVE  DropInvariant'
  <1>1. /\ Extends /\ Told' = Told /\ Doing({"release_human_match"})
        /\ knows.request \in Kind
        /\ knows'.previous = work.holder[knows.request]
        /\ work'.holder[knows.request] = Nobody
        /\ \A k \in Kind \ {knows.request} : work'.holder[k] = work.holder[k]
    BY ReleaseStep
  <1>2. ~Ahead("notify_previous_human")
    BY <1>1, NoFarewell DEF Quiet, Texts, Steps
  <1>3. Ahead("notify_previous_human")'
    <2>1. Top.at \in 1..Len(Script(Top)) /\ Script(Top) \in Scripts
          /\ Script(Top)[Top.at].type = "release_human_match"
      BY <1>1, TopFacts DEF Doing, Running, Action
    <2>2. Until(Script(Top), Top.at + 1, "notify_previous_human")
      BY <2>1 DEF FarewellRule
    <2> QED BY <1>1, <2>2, Onwards DEF Extends
  <1> SUFFICES ASSUME turn' # "idle", failed' = {}, NEW k \in Kind, Dropped(k)'
               PROVE  ToldOff(k)' \/ Tells(k)'
    BY DropUnfolds
  <1>4. CASE Dropped(k)
    <2>1. ToldOff(k)
      BY <1>1, <1>2, <1>4, DropUnfolds DEF Extends, Tells
    <2> QED BY <1>1, <2>1, ToldOffStays DEF Extends
  <1>5. CASE ~Dropped(k)
    <2>1. k = knows.request /\ db.holder[k] = work.holder[k]
      BY <1>1, <1>5 DEF Dropped, Extends
    <2> QED BY <1>1, <1>3, <2>1 DEF Tells, Extends
  <1> QED BY <1>4, <1>5

LEMMA DropTold ==
  ASSUME RunnerInvariant, DropInvariant, Notify \/ ShareContact \/ NotifyPrevious
  PROVE  DropInvariant'
  <1>0. Extends /\ Told \subseteq Told' /\ turn # "idle" /\ work' = work
    BY ContactStep DEF Notify, ShareContact, NotifyPrevious, Doing, Running
  <1>1. CASE Notify \/ ShareContact
    <2>1. Doing({"notify_matched_human", "share_human_contact"})
      BY <1>1 DEF Notify, ShareContact, Doing
    <2>2. ~Ahead("notify_previous_human")
      BY <2>1, NoFarewell DEF Quiet, Texts, Steps
    <2> QED BY <1>0, <2>2, DropPlain DEF Extends
  <1>2. CASE NotifyPrevious
    <2>1. <<"farewell", knows.previous, knows.request>> \in Told'
      BY <1>2, ContactStep
    <2>2. /\ <<"farewell", knows.previous, knows.request>>[1] = "farewell"
          /\ <<"farewell", knows.previous, knows.request>>[2] = knows.previous
      OBVIOUS
    <2> SUFFICES ASSUME turn' # "idle", failed' = {}, NEW k \in Kind, Dropped(k)'
                 PROVE  ToldOff(k)' \/ Tells(k)'
      BY DropUnfolds
    <2>3. ToldOff(k) \/ Tells(k)
      BY <1>0, DropUnfolds DEF Extends, Dropped
    <2>4. Tells(k) => ToldOff(k)'
      BY <1>0, <2>1, <2>2 DEF Tells, ToldOff, Extends
    <2> QED BY <1>0, <2>3, <2>4, ToldOffStays DEF Extends
  <1> QED BY <1>1, <1>2

LEMMA ReserveStep ==
  ASSUME RunnerInvariant, NEW k \in Kind, NEW r \in Pool[k], Reserve(k, r)
  PROVE  /\ work.holder[k] = Nobody /\ r \notin work.excluded[k] /\ r \in Responder
         /\ work'.holder[k] = r /\ work'.excluded = work.excluded
         /\ \A j \in Kind \ {k} : work'.holder[j] = work.holder[j]
         /\ Doing(Searches)
  <1>1. work \in Rows /\ r \in Responder
    BY PeopleAssumption DEF RunnerInvariant, TypeOK
  <1>2. work' = [work EXCEPT !.holder[k] = r] /\ work.holder[k] = Nobody
        /\ r \notin work.excluded[k]
    BY DEF Reserve, Free
  <1>3. Doing(Searches)
    BY DEF Reserve, Doing, Searches
  <1> QED BY <1>1, <1>2, <1>3 DEF Rows

LEMMA DropNext ==
  FarewellRule /\ RunnerInvariant /\ DropInvariant /\ [Next]_vars => DropInvariant'
  <1> SUFFICES ASSUME FarewellRule, RunnerInvariant, DropInvariant, [Next]_vars
               PROVE  DropInvariant'
    OBVIOUS
  <1>1. CASE UNCHANGED vars
    <2>1. Told' = Told /\ UNCHANGED <<turn, failed, frames, knows, work, db>>
      BY <1>1, ToldKept DEF vars
    <2> QED BY <2>1 DEF DropInvariant, Ahead, Top, Script
  <1>2. CASE Searching
    <2>1. Told' = Told /\ UNCHANGED <<turn, failed, db>> /\ Doing(Searches) /\ turn # "idle"
      BY <1>2, EmittingStep DEF Doing, Running
    <2>2. ~Ahead("notify_previous_human")
      BY <2>1, NoFarewell, Kinds
    <2>3. \A k \in Kind : work'.holder[k] = work.holder[k] \/ work.holder[k] = Nobody
      <3>1. ASSUME NEW k \in Kind, NEW r \in Pool[k], Reserve(k, r)
            PROVE  \A j \in Kind : work'.holder[j] = work.holder[j] \/ work.holder[j] = Nobody
        BY <3>1, ReserveStep
      <3>2. ASSUME NEW k \in Kind, ReserveNobody(k) PROVE work' = work
        BY <3>2 DEF ReserveNobody
      <3> QED BY <1>2, <3>1, <3>2 DEF Searching
    <2> QED BY <2>1, <2>2, <2>3, DropPlain
  <1>3. CASE Attending
    <2>1. /\ Told' = Told /\ UNCHANGED <<turn, failed, db, work>> /\ Doing(Emitting)
          /\ turn # "idle"
      BY <1>3, EmittingStep DEF Doing, Running
    <2>2. ~Ahead("notify_previous_human")
      BY <2>1, NoFarewell, Kinds DEF Emitting, Outcomes
    <2> QED BY <2>1, <2>2, DropPlain
  <1>4. CASE EnterRoot \/ ReturnNow
    <2>1. /\ Told' = Told /\ UNCHANGED <<turn, failed, db>> /\ Doing(Openings)
          /\ turn # "idle" /\ work'.holder = work.holder
      BY <1>4, OpeningStep DEF Doing, Running
    <2>2. ~Ahead("notify_previous_human")
      BY <2>1, NoFarewell, Kinds DEF Openings, Entries
    <2> QED BY <2>1, <2>2, DropPlain
  <1>5. CASE Fail
    BY <1>5, FailStep DEF DropInvariant
  <1>6. CASE EndFlow
    <2>1. /\ Told' = Told /\ frames # <<>> /\ Top.at > Len(Script(Top))
          /\ UNCHANGED <<turn, failed, work, db>>
      BY <1>6, EndFlowStep
    <2>2. /\ Top.at \in Nat /\ Script(Top) \in Seq(DiscussionAction)
          /\ Len(Script(Top)) \in Nat /\ turn # "idle"
      BY <2>1, TopFacts
    <2>3. ~Ahead("notify_previous_human")
      BY <2>1, <2>2, UntilNext DEF Ahead
    <2> QED BY <2>1, <2>2, <2>3, DropPlain
  <1>7. CASE EndChoice \/ EndRun
    <2>1. /\ Told' = Told /\ frames = <<>> /\ UNCHANGED <<turn, failed, db>> /\ turn # "idle"
          /\ work'.holder = work.holder
      BY <1>7, EndChoiceStep, EndRunStep
    <2> QED BY <2>1, DropPlain DEF Ahead
  <1>8. CASE Asking
    <2>1. /\ Told' = Told /\ frames = <<>> /\ UNCHANGED <<failed, db>>
          /\ work'.holder = work.holder
      BY <1>8, AskStep
    <2>2. CASE turn = "idle"
      <3>1. work = db
        BY <2>2 DEF RunnerInvariant
      <3> QED BY <2>1, <3>1 DEF DropInvariant
    <2>3. CASE turn # "idle"
      BY <2>1, <2>3, DropPlain DEF Ahead
    <2> QED BY <2>2, <2>3
  <1>9. CASE Commit \/ Abort \/ Raise
    BY <1>9, OverStep DEF DropInvariant
  <1> QED BY <1>1, <1>2, <1>3, <1>4, <1>5, <1>6, <1>7, <1>8, <1>9, Groups,
             DropQuiet, DropEffect, DropRelease, DropTold

LEMMA DropGives == RunnerInvariant /\ DropInvariant => NobodyDroppedSilently
  <1> SUFFICES ASSUME RunnerInvariant, DropInvariant, Settled, failed = {}, NEW k \in Kind,
                      db.holder[k] \notin {Nobody, work.holder[k]}
               PROVE  \E i \in 1..Len(buffer) :
                        buffer[i].says = "farewell" /\ buffer[i].to = db.holder[k]
    BY DEF NobodyDroppedSilently
  <1>1. frames = <<>> /\ turn # "idle"
    BY ToldSettled
  <1>2. PICK t \in Told : t[1] = "farewell" /\ t[2] = db.holder[k]
    BY <1>1 DEF DropInvariant, Ahead
  <1>3. PICK i \in 1..Len(buffer) : t = <<buffer[i].says, buffer[i].to, buffer[i].request>>
    BY ToldSettled
  <1> QED BY <1>2, <1>3

\* Documents that say farewell to whom they release: nobody loses a guest without
\* being told so in the same update, unless an action failed.
THEOREM NobodyIsDroppedSilently ==
  ASSUME FarewellRule PROVE Spec => []NobodyDroppedSilently
  <1>1. Init => DropInvariant
    BY DEF Init, DropInvariant
  <1>2. RunnerInvariant /\ DropInvariant /\ [Next]_vars => DropInvariant'
    BY DropNext
  <1>3. RunnerInvariant /\ DropInvariant => NobodyDroppedSilently
    BY DropGives
  <1> QED BY <1>1, <1>2, <1>3, Invariant, PTL DEF Spec
-----------------------------------------------------------------------------
(* Contexts retain only who holds the request.                             *)

\* A frame that did not start with the choice has no release in it.
LEMMA NoReleaseAhead ==
  ASSUME ContextRule, NEW frame \in Frame, Secondary(frame)
  PROVE  \A i \in 1..Len(Script(frame)) : Script(frame)[i].type # "release_human_match"
  <1>1. frame.flow \in Flow /\ frame.part \in {"does", "back"}
    BY DEF Frame, Parts
  <1>2. CASE frame.part = "back"
    BY <1>1, <1>2 DEF ContextRule, Types, Script
  <1>3. CASE frame.part = "does" /\ (frame.flow \in {Home, Latecomer} \/ OnEvent(frame.flow))
    BY <1>1, <1>3 DEF ContextRule, Releasing, Types, Script
  <1> QED BY <1>1, <1>2, <1>3 DEF Secondary

\* Nobody who holds a request is replaced or released.
Holding == \A k \in Kind : work.holder[k] # Nobody => work'.holder[k] = work.holder[k]
Contexts == {knows} \cup {callers[i] : i \in 1..Len(callers)}
SecondaryAbove == \A i \in 1..Len(frames) : Secondary(frames[i]) \/ (i = 1 /\ Len(executed) = 1)

LEMMA CurrentStays ==
  ASSUME Holding, NEW c \in Knowledge, Current(c)
  PROVE  Current(c)'
  BY DEF Holding, Current, Knowledge, Request

LEMMA ContextsTyped ==
  ASSUME RunnerInvariant, ContextsCurrent
  PROVE  Contexts \subseteq Knowledge /\ \A c \in Contexts : Current(c)
  <1>1. knows \in Knowledge /\ \A i \in 1..Len(callers) : callers[i] \in Knowledge
    BY ElementOfSeq DEF RunnerInvariant, TypeOK
  <1> QED BY <1>1 DEF Contexts, ContextsCurrent

\* Contexts are kept, copied, or changed into one that is current.
LEMMA ContextsMove ==
  ASSUME RunnerInvariant, ContextsCurrent, Holding, NEW c \in Knowledge, Current(c)',
         knows' \in Contexts \cup {c},
         \A i \in 1..Len(callers') : callers'[i] \in Contexts \cup {c}
  PROVE  ContextsCurrent'
  <1>1. ASSUME NEW d \in Contexts \cup {c} PROVE Current(d)'
    BY CurrentStays, ContextsTyped
  <1>2. Current(knows)'
    BY <1>1 DEF Current
  <1>3. ASSUME NEW i \in 1..Len(callers') PROVE Current(callers[i])'
    BY <1>1 DEF Current
  <1> QED BY <1>2, <1>3 DEF ContextsCurrent

\* The context of the flow that goes on is the one that changes.
LEMMA ContextsChange ==
  ASSUME RunnerInvariant, ContextsCurrent, Holding, knows' \in Knowledge, callers' = callers,
         knows'.holder # Nobody =>
           knows'.request # NoRequest /\ work'.holder[knows'.request] = knows'.holder
  PROVE  ContextsCurrent'
  <1>1. PICK c \in Knowledge : c = knows'
    OBVIOUS
  <1>2. Current(c)'
    BY <1>1 DEF Current
  <1> QED BY <1>1, <1>2, ContextsMove DEF Contexts

LEMMA ContextsPassed ==
  ASSUME RunnerInvariant, ContextsCurrent, Holding, NEW c \in Knowledge, Current(c)',
         Copy(c) \/ Nest(c) \/ Leave(c)
  PROVE  ContextsCurrent'
  <1>1. callers \in Seq(Knowledge) /\ knows \in Knowledge /\ Len(callers) \in Nat
    BY DEF RunnerInvariant, TypeOK
  <1>2. CASE Copy(c)
    <2>1. knows' = c /\ \A i \in 1..Len(callers') : callers'[i] \in Contexts \cup {c}
      BY <1>1, <1>2, CopyKeeps DEF Contexts
    <2> QED BY <2>1, ContextsMove
  <1>3. CASE Nest(c)
    <2>1. /\ knows' = c /\ Len(callers') = Len(callers) + 1
          /\ callers'[Len(callers) + 1] = knows
          /\ \A i \in 1..Len(callers) : callers'[i] = callers[i]
      BY <1>1, <1>3, NestKeeps
    <2>2. ASSUME NEW i \in 1..Len(callers') PROVE callers'[i] \in Contexts
      <3>1. i = Len(callers) + 1 \/ i \in 1..Len(callers)
        BY <1>1, <2>1
      <3> QED BY <2>1, <3>1 DEF Contexts
    <2> QED BY <2>1, <2>2, ContextsMove
  <1>4. CASE Leave(c)
    <2>1. CASE callers = <<>>
      BY <1>1, <1>4, <2>1, LeaveKeeps, ContextsMove DEF Contexts
    <2>2. CASE callers # <<>>
      <3>1. /\ knows' = callers[Len(callers)] /\ Len(callers') = Len(callers) - 1
            /\ \A i \in 1..Len(callers') : callers'[i] = callers[i]
            /\ Len(callers) \in 1..Len(callers)
        BY <1>1, <1>4, <2>2, LeaveKeeps, EmptySeq
      <3>2. knows' \in Contexts
        BY <3>1 DEF Contexts
      <3>3. ASSUME NEW i \in 1..Len(callers') PROVE callers'[i] \in Contexts
        BY <1>1, <3>1 DEF Contexts
      <3> QED BY <3>2, <3>3, ContextsMove
    <2> QED BY <2>1, <2>2
  <1> QED BY <1>2, <1>3, <1>4

LEMMA PartnerHolds ==
  ASSUME RunnerInvariant, ContextsCurrent, Partner # Nobody
  PROVE  knows.request \in Kind /\ work.holder[knows.request] = Partner
  BY DEF RunnerInvariant, TypeOK, Knowledge, Request, ContextsCurrent, Current, Partner

\* What an action has retained when it fails is so.
LEMMA LearntHolds ==
  ASSUME RunnerInvariant, ContextsCurrent, NEW c \in Learnt
  PROVE  c \in Knowledge /\ Current(c)
  <1>1. c \in Knowledge /\ knows \in Knowledge
    BY LearntType DEF RunnerInvariant, TypeOK
  <1>2. CASE c = knows
    BY <1>1, <1>2 DEF ContextsCurrent
  <1>3. ASSUME NEW k \in Sought, c = [knows EXCEPT !.request = k] PROVE Current(c)
    <2>1. c.holder = knows.holder /\ c.request = k /\ knows.request \in {NoRequest, k}
      BY <1>1, <1>3 DEF Knowledge, Sought
    <2> QED BY <2>1 DEF ContextsCurrent, Current
  <1>4. CASE c = [knows EXCEPT !.holder = Partner]
    <2>1. c.holder = Partner /\ c.request = knows.request
      BY <1>1, <1>4 DEF Knowledge
    <2>2. NoRequest \notin Kind
      BY DEF NoRequest, Kind
    <2> QED BY <1>1, <2>1, <2>2, PartnerHolds DEF Current
  <1> QED BY <1>1, <1>2, <1>3, <1>4 DEF Learnt

\* An action that goes on: only a release, in the one context there is, takes a
\* request from its holder.
LEMMA ContextsExtend ==
  ASSUME ContextRule, ContextInvariant,
         \/ ShowText \/ AttachButtons \/ OfferServices \/ PassStep \/ MarkPending
         \/ SaveInterest \/ Confirm \/ Exclude \/ Notify \/ ShareContact \/ NotifyPrevious
         \/ Release
  PROVE  ContextsCurrent' /\ SecondaryAbove'
  <1>0. /\ RunnerInvariant /\ ContextsCurrent /\ SecondaryAbove
        /\ knows \in Knowledge /\ work \in Rows /\ Current(knows)
        /\ knows' \in Knowledge
    <2>1. RunnerInvariant'
      BY NextKeepsInvariant DEF ContextInvariant, Next, Act
    <2> QED BY <2>1 DEF ContextInvariant, SecondaryAbove, RunnerInvariant, TypeOK, ContextsCurrent
  <1>1. SecondaryAbove'
    <2>1. Extends
      BY <1>0, QuietStep, EffectStep, ContactStep
    <2>2. /\ Len(frames') = Len(frames) /\ executed' = executed
          /\ \A i \in 1..Len(frames) :
               frames'[i].part = frames[i].part /\ frames'[i].flow = frames[i].flow
      BY <1>0, <2>1, AdvancedTop DEF Extends
    <2> QED BY <1>0, <2>2 DEF SecondaryAbove, Secondary
  <1>2. ASSUME ~Release PROVE ContextsCurrent'
    <2>1. callers' = callers /\ work'.holder = work.holder
      BY <1>0, <1>2 DEF ShowText, AttachButtons, OfferServices, PassStep, MarkPending,
                        SaveInterest, Confirm, Exclude, Notify, ShareContact, NotifyPrevious, Rows
    <2>2. Holding
      BY <2>1 DEF Holding
    <2>3. CASE knows' = knows
      BY <1>0, <2>1, <2>2, <2>3, ContextsChange DEF Current
    <2>4. CASE Notify \/ ShareContact
      <3>1. Partner # Nobody /\ knows'.holder = Partner /\ knows'.request = knows.request
        BY <1>0, <2>4 DEF Notify, ShareContact, Knowledge
      <3>2. knows.request \in Kind /\ work.holder[knows.request] = Partner /\ NoRequest \notin Kind
        BY <1>0, <3>1, PartnerHolds DEF NoRequest, Kind
      <3> QED BY <1>0, <2>1, <2>2, <3>1, <3>2, ContextsChange
    <2>5. CASE Confirm
      <3>1. /\ knows.request # NoRequest /\ knows'.request = knows.request
            /\ knows'.holder = work.holder[knows.request]
        BY <1>0, <2>5 DEF Confirm, Knowledge
      <3> QED BY <1>0, <2>1, <2>2, <3>1, ContextsChange
    <2>6. CASE SaveInterest
      <3>1. /\ knows.request \in {NoRequest, "normal"} /\ knows'.request = "normal"
            /\ knows'.holder = knows.holder /\ "normal" # NoRequest
        BY <1>0, <2>6 DEF SaveInterest, Knowledge, Request, Kind, NoRequest
      <3> QED BY <1>0, <2>1, <2>2, <3>1, ContextsChange DEF Current
    <2> QED BY <1>2, <2>3, <2>4, <2>5, <2>6
         DEF ShowText, AttachButtons, OfferServices, PassStep, MarkPending, Exclude,
             NotifyPrevious
  <1>3. ASSUME Release PROVE ContextsCurrent'
    <2>1. /\ Doing({"release_human_match"}) /\ callers' = callers /\ knows'.holder = Nobody
      BY <1>0, <1>3 DEF Release, Knowledge
    <2>2. /\ Top \in Frame /\ Top.at \in 1..Len(Script(Top)) /\ frames # <<>>
          /\ Script(Top)[Top.at].type = "release_human_match"
          /\ Top = frames[Len(frames)] /\ Len(frames) \in 1..Len(frames)
      BY <1>0, <2>1, TopFacts DEF Doing, Running, Action
    <2>3. ~Secondary(Top)
      BY <2>2, NoReleaseAhead
    <2>4. Len(frames) = 1 /\ Len(executed) = 1
      BY <1>0, <2>2, <2>3 DEF SecondaryAbove
    <2>5. Len(callers) = 0
      BY <1>0, <2>2, <2>4, CallersFacts
    <2> QED BY <2>1, <2>5 DEF ContextsCurrent, Current
  <1> QED BY <1>1, <1>2, <1>3

\* Whatever the event is, its child is no longer the choice itself.
LEMMA SecondaryHands ==
  ASSUME RunnerInvariant, SecondaryAbove, frames # <<>>, NEW key, Hands(key)
  PROVE  SecondaryAbove'
  <1>1. Len(frames) \in Nat \ {0}
    BY TopFacts
  <1>2. ASSUME NEW g \in EventChild(Top, key), NEW rec \in BOOLEAN, HandTo(g, rec)
        PROVE  SecondaryAbove'
    <2>1. /\ Start(g, "does", rec) \in Frame /\ Start(g, "does", rec).flow = g
          /\ OnEvent(g)
      BY StartType DEF EventChild, Parts, Start, OnEvent
    <2>2. frames' = Append(Popped, Start(g, "does", rec))
      BY <1>2 DEF HandTo
    <2>3. /\ Len(frames') = Len(frames)
          /\ \A i \in 1..(Len(frames) - 1) : frames'[i] = frames[i]
          /\ frames'[Len(frames)] = Start(g, "does", rec)
      BY <2>1, <2>2, ReplacedTop
    <2>4. Len(frames) # 1 => executed' = executed
      BY <1>2 DEF HandTo
    <2>5. ASSUME NEW i \in 1..Len(frames')
          PROVE  Secondary(frames'[i]) \/ (i = 1 /\ Len(executed') = 1)
      <3>1. CASE i = Len(frames)
        BY <2>1, <2>3, <3>1 DEF Secondary
      <3>2. CASE i # Len(frames)
        <4>1. i \in 1..(Len(frames) - 1) /\ i \in 1..Len(frames) /\ Len(frames) # 1
          BY <1>1, <2>3, <3>2
        <4> QED BY <2>3, <2>4, <4>1 DEF SecondaryAbove
      <3> QED BY <3>1, <3>2
    <2> QED BY <2>5 DEF SecondaryAbove, Secondary
  <1>3. CASE frames' = Popped /\ executed' = executed
    <2>1. /\ Len(frames') = Len(frames) - 1
          /\ \A i \in 1..(Len(frames) - 1) : frames'[i] = frames[i]
      BY <1>3, PoppedTop
    <2> QED BY <1>1, <1>3, <2>1 DEF SecondaryAbove, Secondary
  <1> QED BY <1>2, <1>3 DEF Hands

LEMMA ContextsEmit ==
  ASSUME RunnerInvariant, ContextsCurrent, SecondaryAbove, frames # <<>>, Holding,
         NEW c \in Knowledge, Current(c)', NEW key, Emit(key, c)
  PROVE  ContextsCurrent' /\ SecondaryAbove'
  <1>1. Copy(c) \/ Leave(c)
    BY DEF Emit
  <1> QED BY <1>1, EmitHands, SecondaryHands, ContextsPassed

LEMMA ContextsEmitting ==
  ASSUME ContextInvariant, Searching \/ Attending
  PROVE  ContextsCurrent' /\ SecondaryAbove'
  <1>0. /\ RunnerInvariant /\ ContextsCurrent /\ SecondaryAbove
        /\ knows \in Knowledge /\ work \in Rows /\ Current(knows)
    BY DEF ContextInvariant, SecondaryAbove, RunnerInvariant, TypeOK, ContextsCurrent
  <1>1. frames # <<>>
    BY <1>0, EmittingStep DEF Doing, Running
  <1>2. ASSUME NEW k \in Kind, NEW r \in Pool[k], Reserve(k, r)
        PROVE  ContextsCurrent' /\ SecondaryAbove'
    <2>1. PICK c : c = [knows EXCEPT !.request = k, !.holder = r]
      OBVIOUS
    <2>2. /\ work.holder[k] = Nobody /\ work'.holder[k] = r /\ r \in Responder
          /\ \A j \in Kind \ {k} : work'.holder[j] = work.holder[j]
      BY <1>0, <1>2, ReserveStep
    <2>3. c \in Knowledge /\ c.request = k /\ c.holder = r
      BY <1>0, <2>1, <2>2 DEF Knowledge, Request
    <2>4. Holding
      BY <2>2 DEF Holding
    <2>5. Current(c)'
      BY <2>2, <2>3 DEF Current, Kind, NoRequest
    <2>6. Emit(Found[k], c)
      BY <1>2, <2>1 DEF Reserve
    <2> QED BY <1>0, <1>1, <2>3, <2>4, <2>5, <2>6, ContextsEmit
  <1>3. ASSUME NEW k \in Kind, ReserveNobody(k)
        PROVE  ContextsCurrent' /\ SecondaryAbove'
    <2>1. PICK c : c = [knows EXCEPT !.request = k, !.holder = Nobody]
      OBVIOUS
    <2>2. c \in Knowledge /\ c.holder = Nobody
      BY <1>0, <2>1 DEF Knowledge, Request
    <2>3. Holding
      BY <1>3 DEF ReserveNobody, Holding
    <2>4. Current(c)'
      BY <2>2 DEF Current
    <2>5. Emit(NotFound[k], c)
      BY <1>3, <2>1 DEF ReserveNobody
    <2> QED BY <1>0, <1>1, <2>2, <2>3, <2>4, <2>5, ContextsEmit
  <1>4. CASE Attending
    <2>1. PICK c \in Knowledge :
            c.holder = knows.holder /\ c.request = knows.request /\ \E key : Emit(key, c)
      <3>1. CASE SelectAttendance
        BY <1>0, <3>1 DEF SelectAttendance
      <3>2. ASSUME NEW some \in BOOLEAN, ResolveOptions(some)
            PROVE  \E c \in Knowledge : /\ c.holder = knows.holder
                                         /\ c.request = knows.request
                                         /\ \E key : Emit(key, c)
        <4>1. PICK c : c = [knows EXCEPT !.choices = some]
          OBVIOUS
        <4>2. c \in Knowledge /\ c.holder = knows.holder /\ c.request = knows.request
          BY <1>0, <4>1 DEF Knowledge
        <4> QED BY <3>2, <4>1, <4>2 DEF ResolveOptions
      <3> QED BY <1>4, <3>1, <3>2 DEF Attending
    <2>2. work' = work
      BY <1>0, <1>4, EmittingStep
    <2>3. Holding
      BY <2>2 DEF Holding
    <2>4. Current(c)'
      BY <1>0, <2>1, <2>2 DEF Current
    <2> QED BY <1>0, <1>1, <2>1, <2>3, <2>4, ContextsEmit
  <1> QED BY <1>2, <1>3, <1>4 DEF Searching

\* What is nested in an action is not the choice; a run that ends gives its caller's
\* context back.
LEMMA ContextsNesting ==
  ASSUME ContextInvariant, EnterRoot \/ ReturnNow \/ EndFlow
  PROVE  ContextsCurrent' /\ SecondaryAbove'
  <1>0. /\ RunnerInvariant /\ ContextsCurrent /\ SecondaryAbove
        /\ knows \in Knowledge /\ Current(knows)
    BY DEF ContextInvariant, SecondaryAbove, RunnerInvariant, TypeOK, ContextsCurrent
  <1>1. CASE EnterRoot \/ ReturnNow
    <2>1. /\ frames # <<>> /\ executed' = executed /\ work'.holder = work.holder
          /\ Len(frames) \in Nat
      BY <1>0, <1>1, OpeningStep, TopFacts DEF Doing, Running
    <2>2. PICK c \in Knowledge :
            c.holder = knows.holder /\ c.request = knows.request /\ Nest(c)
      <3>1. CASE EnterRoot
        <4>1. PICK c : c = [knows EXCEPT !.branch = Entered]
          OBVIOUS
        <4>2. Entered \in Flow
          BY DocumentAssumption DEF Entered
        <4>3. c \in Knowledge /\ c.holder = knows.holder /\ c.request = knows.request
          BY <1>0, <4>1, <4>2 DEF Knowledge
        <4> QED BY <3>1, <4>1, <4>3 DEF EnterRoot
      <3>2. CASE ReturnNow
        BY <1>0, <3>2 DEF ReturnNow
      <3> QED BY <1>1, <3>1, <3>2
    <2>3. Holding
      BY <2>1 DEF Holding
    <2>4. Current(c)'
      BY <1>0, <2>1, <2>2 DEF Current
    <2>5. PICK frame \in Frame : /\ frames' = Append(Advanced, frame)
                                 /\ frame.part = "back" \/ frame.flow \in {Home, Latecomer}
      BY <1>0, <1>1, OpeningStep
    <2>6. /\ Len(frames') = Len(frames) + 1 /\ frames'[Len(frames) + 1] = frame
          /\ \A i \in 1..Len(frames) :
               frames'[i].part = frames[i].part /\ frames'[i].flow = frames[i].flow
      BY <1>0, <2>1, <2>5, PushedTop
    <2>7. ASSUME NEW i \in 1..Len(frames')
          PROVE  Secondary(frames'[i]) \/ (i = 1 /\ Len(executed') = 1)
      <3>1. CASE i = Len(frames) + 1
        BY <2>5, <2>6, <3>1 DEF Secondary
      <3>2. CASE i # Len(frames) + 1
        <4>1. i \in 1..Len(frames)
          BY <2>1, <2>6, <3>2
        <4> QED BY <1>0, <2>1, <2>6, <4>1 DEF SecondaryAbove, Secondary
      <3> QED BY <3>1, <3>2
    <2>8. SecondaryAbove'
      BY <2>7 DEF SecondaryAbove, Secondary
    <2> QED BY <1>0, <2>2, <2>3, <2>4, <2>8, ContextsPassed
  <1>2. CASE EndFlow
    <2>1. frames # <<>> /\ frames' = Popped /\ executed' = executed /\ work' = work
      BY <1>0, <1>2, EndFlowStep
    <2>2. Holding
      BY <2>1 DEF Holding
    <2>3. PICK c \in Knowledge : c = knows
      BY <1>0
    <2>4. Leave(c) /\ Current(c)'
      BY <1>0, <1>2, <2>1, <2>3 DEF EndFlow, Current
    <2>5. ContextsCurrent'
      BY <1>0, <2>2, <2>4, ContextsPassed
    <2>6. /\ Len(frames') = Len(frames) - 1 /\ Len(frames) \in Nat
          /\ \A i \in 1..(Len(frames) - 1) : frames'[i] = frames[i]
      BY <1>0, <2>1, PoppedTop, TopFacts
    <2>7. SecondaryAbove'
      BY <1>0, <2>1, <2>6 DEF SecondaryAbove, Secondary
    <2> QED BY <2>5, <2>7
  <1> QED BY <1>1, <1>2

LEMMA ContextsFail ==
  ASSUME ContextInvariant, Fail
  PROVE  ContextsCurrent' /\ SecondaryAbove'
  <1>0. RunnerInvariant /\ ContextsCurrent /\ SecondaryAbove
    BY DEF ContextInvariant, SecondaryAbove
  <1>1. frames # <<>> /\ work' = work /\ Len(frames) \in Nat
    BY <1>0, FailStep, TopFacts
  <1>2. Holding
    BY <1>1 DEF Holding
  <1>3. PICK c \in Learnt :
          Emit("error", c) \/ (frames' = AfterFailure /\ executed' = executed /\ Leave(c))
    BY DEF Fail
  <1>4. c \in Knowledge /\ Current(c)
    BY <1>0, LearntHolds
  <1>5. Current(c)'
    BY <1>1, <1>4 DEF Current
  <1>6. CASE Emit("error", c)
    BY <1>0, <1>1, <1>2, <1>4, <1>5, <1>6, ContextsEmit
  <1>7. CASE frames' = AfterFailure /\ executed' = executed /\ Leave(c)
    <2>1. ContextsCurrent'
      BY <1>0, <1>2, <1>4, <1>5, <1>7, ContextsPassed
    <2>2. /\ Len(frames') = Len(frames) - 1
          /\ \A i \in 1..(Len(frames) - 1) : frames'[i] = frames[i]
      BY <1>0, <1>1, <1>7, PoppedTop DEF AfterFailure, Popped
    <2>3. SecondaryAbove'
      BY <1>0, <1>1, <1>7, <2>2 DEF SecondaryAbove, Secondary
    <2> QED BY <2>1, <2>3
  <1> QED BY <1>3, <1>6, <1>7

\* A run begins with a context that retains nobody, and the way back with the one
\* that the choice has left.
LEMMA ContextsTurn ==
  ASSUME ContextInvariant, EndChoice \/ EndRun \/ Asking \/ Commit \/ Abort \/ Raise
  PROVE  ContextsCurrent' /\ SecondaryAbove'
  <1>0. RunnerInvariant /\ ContextsCurrent /\ Len(<<>>) = 0
    BY EmptySeq DEF ContextInvariant
  <1>1. CASE EndChoice \/ EndRun
    <2>1. UNCHANGED <<knows, callers>> /\ work'.holder = work.holder
      BY <1>0, <1>1, EndChoiceStep, EndRunStep DEF EndChoice, EndRun
    <2>2. ContextsCurrent'
      BY <1>0, <2>1 DEF ContextsCurrent, Current
    <2>3. \/ frames' = <<>>
          \/ \E frame \in Frame : frames' = <<frame>> /\ frame.part = "back"
      BY <1>0, <1>1, EndChoiceStep, EndRunStep
    <2>4. SecondaryAbove'
      <3>1. CASE frames' = <<>>
        BY <1>0, <3>1 DEF SecondaryAbove
      <3>2. ASSUME NEW frame \in Frame, frames' = <<frame>>, frame.part = "back"
            PROVE  SecondaryAbove'
        <4>1. Len(frames') = 1 /\ frames'[1] = frame
          BY <3>2
        <4> QED BY <3>2, <4>1 DEF SecondaryAbove, Secondary
      <3> QED BY <2>3, <3>1, <3>2
    <2> QED BY <2>2, <2>4
  <1>2. CASE Asking
    <2>1. knows'.holder = Nobody /\ callers' = <<>>
      <3>1. ASSUME NEW f, NEW how, NEW what, NEW request, Begin(f, how, what, request)
            PROVE  knows'.holder = Nobody /\ callers' = <<>>
        BY <3>1 DEF Begin, Unknowing
      <3> QED BY <1>2, <3>1 DEF Asking, AnswerText, ChooseByText, Resume, OpenRoot, Press
    <2>2. PICK f \in Flow : executed' = <<f>> /\ frames' = <<Start(f, "does", FALSE)>>
      BY <1>0, <1>2, AskStep
    <2>3. Len(frames') = 1 /\ Len(executed') = 1
      BY <2>2
    <2> QED BY <1>0, <2>1, <2>3 DEF ContextsCurrent, Current, SecondaryAbove
  <1>3. CASE Commit \/ Abort \/ Raise
    <2>1. knows'.holder = Nobody /\ callers' = <<>> /\ frames' = <<>>
      BY <1>3, OverStep DEF Idle, Unknowing
    <2> QED BY <1>0, <2>1 DEF ContextsCurrent, Current, SecondaryAbove
  <1> QED BY <1>1, <1>2, <1>3

LEMMA ContextNext ==
  ContextRule /\ ContextInvariant /\ [Next]_vars => ContextInvariant'
  <1> SUFFICES ASSUME ContextRule, ContextInvariant, [Next]_vars PROVE ContextInvariant'
    OBVIOUS
  <1>1. RunnerInvariant'
    BY NextKeepsInvariant DEF ContextInvariant
  <1>2. CASE UNCHANGED vars
    BY <1>1, <1>2 DEF vars, ContextInvariant, ContextsCurrent, Current, Secondary
  <1>3. CASE ~UNCHANGED vars
    <2>1. ContextsCurrent' /\ SecondaryAbove'
      BY <1>3, Groups, ContextsExtend, ContextsEmitting, ContextsNesting, ContextsFail,
         ContextsTurn
    <2> QED BY <1>1, <2>1 DEF ContextInvariant, SecondaryAbove
  <1> QED BY <1>2, <1>3

\* Documents in which only a flow that the guest chose releases: in every reachable
\* state each context, of the run and of the callers who wait for it and will go on
\* with copies of their own, retains nobody but who holds its request.
THEOREM ContextsHold == ASSUME ContextRule PROVE Spec => []ContextInvariant
  <1>1. Init => ContextInvariant
    <2> SUFFICES ASSUME Init PROVE ContextInvariant
      OBVIOUS
    <2>1. frames = <<>> /\ callers = <<>> /\ knows.holder = Nobody /\ Len(<<>>) = 0
      BY EmptySeq DEF Init, Unknowing
    <2> QED BY <2>1, InitInvariant DEF ContextInvariant, ContextsCurrent, Current
  <1>2. ContextInvariant /\ [Next]_vars => ContextInvariant'
    BY ContextNext
  <1> QED BY <1>1, <1>2, PTL DEF Spec
-----------------------------------------------------------------------------
(* Notices and farewells are true.                                         *)

\* So that whatever releases is the lowest frame.
LEMMA ReleasesBelow ==
  ASSUME RunnerInvariant, FramesTraced, ContextRule, ReleaseRule, frames # <<>>,
         NEW i \in 1..Len(Script(Top)), Script(Top)[i].type = "release_human_match"
  PROVE  /\ Len(frames) = 1 /\ Top.part = "does" /\ Releasing(Top.flow)
         /\ Top.flow \in Flow /\ ~OnEvent(Top.flow)
         /\ \A j \in 1..(i - 1) : Script(Top)[j].type \in Quiet
  <1>1. /\ Top \in Frame /\ Len(frames) \in Nat \ {0} /\ Top = frames[Len(frames)]
        /\ Top.flow \in Flow /\ Top.part \in {"does", "back"}
    BY TopFacts DEF Frame, Parts
  <1>2. /\ Top.part # "back" /\ Top.flow \notin {Home, Latecomer} /\ ~OnEvent(Top.flow)
    BY <1>1, NoReleaseAhead DEF Secondary
  <1>3. Len(frames) = 1
    BY <1>1, <1>2, AboveLowest
  <1>4. Top.part = "does" /\ Script(Top) = Does[Top.flow]
    BY <1>1, <1>2 DEF Script
  <1>5. Releasing(Top.flow)
    BY <1>4 DEF Releasing, Types
  <1>6. \A j \in 1..(i - 1) : Script(Top)[j].type \in Quiet
    BY <1>1, <1>4 DEF ReleaseRule
  <1> QED BY <1>1, <1>2, <1>3, <1>4, <1>5, <1>6

\* A release that is still to come stays so only over quiet actions.
LEMMA ReleaseOnwards ==
  ASSUME RunnerInvariant, FramesTraced, ContextRule, ReleaseRule, Extends, ReleaseAhead',
         Top.at <= Len(Script(Top))
  PROVE  ReleaseAhead /\ Action.type \in Quiet
  <1>1. frames # <<>> /\ Top.at \in Nat \ {0} /\ Len(Script(Top)) \in Nat
    BY TopFacts DEF Extends
  <1>2. Top'.at = Top.at + 1 /\ Script(Top)' = Script(Top)
    BY <1>1, AdvancedTop DEF Extends
  <1>3. PICK i \in (Top.at + 1)..Len(Script(Top)) : Script(Top)[i].type = "release_human_match"
    BY <1>2 DEF ReleaseAhead
  <1>4. i \in 1..Len(Script(Top)) /\ Top.at \in 1..(i - 1) /\ i \in Top.at..Len(Script(Top))
    BY <1>1, <1>3
  <1>5. \A j \in 1..(i - 1) : Script(Top)[j].type \in Quiet
    BY <1>1, <1>3, <1>4, ReleasesBelow
  <1> QED BY <1>1, <1>3, <1>4, <1>5 DEF ReleaseAhead, Action

\* Nothing that moves to another frame has a release ahead.
LEMMA ReleaseMoves ==
  ASSUME RunnerInvariant, FramesTraced, ContextRule, ReleaseRule, EnteredRule, frames # <<>>,
         \/ \E key : Hands(key)
         \/ \E key : \E g \in EventChild(Top, key) : \E rec \in BOOLEAN : HandTo(g, rec)
         \/ frames' = Popped
         \/ \E frame \in Frame : /\ frames' = Append(Advanced, frame) /\ frame.at = 1
                                 /\ frame.part = "back" \/ frame.flow \in {Home, Latecomer}
  PROVE  ~ReleaseAhead'
  <1>1. ASSUME NEW key, NEW g \in EventChild(Top, key), NEW rec \in BOOLEAN, HandTo(g, rec)
        PROVE  ~ReleaseAhead'
    <2>1. /\ Start(g, "does", rec) \in Frame /\ Start(g, "does", rec).at = 1
          /\ Start(g, "does", rec).flow = g
      BY StartType DEF EventChild, Parts, Start
    <2>2. OnEvent(g) /\ Top' = Start(g, "does", rec)
      BY <1>1, HandedFrame
    <2> QED BY <2>1, <2>2, NoReleaseAhead DEF ReleaseAhead, Script, Secondary
  <1>2. CASE frames' = Popped
    <2>1. frames' # <<>> => Suspended(Top') /\ Top' \in Frame
      BY <1>2, PoppedTop
    <2>2. \A i \in 1..(Len(frames) - 1) : frames'[i] = frames[i]
      BY <1>2, PoppedTop
    <2>3. Len(frames') = Len(frames) - 1 /\ Len(frames) \in Nat \ {0}
      BY <1>2, PoppedTop, TopFacts
    <2> SUFFICES ASSUME frames' # <<>>, NEW i \in (Top'.at)..Len(Script(Top')),
                        Script(Top')[i].type = "release_human_match"
                 PROVE  FALSE
      BY DEF ReleaseAhead, Script
    <2>4. /\ Top' \in Frame /\ Top'.at - 1 \in 1..(i - 1) /\ i \in 1..Len(Script(Top'))
          /\ Script(Top')[Top'.at - 1].type \in Openings
      BY <2>1, ScriptType DEF Suspended, Frame, Openings
    <2>5. Top'.part = "does" /\ Top'.flow \in Flow
      <3>1. Top'.part # "back"
        BY <2>4, NoReleaseAhead DEF Secondary
      <3> QED BY <2>4, <3>1 DEF Frame, Parts
    <2>6. Script(Top') = Does[Top'.flow]
      BY <2>5 DEF Script
    <2>7. Script(Top')[Top'.at - 1].type \in Quiet
      BY <2>4, <2>5, <2>6 DEF ReleaseRule
    <2> QED BY <2>4, <2>7, Kinds
  <1>3. ASSUME NEW frame \in Frame, frames' = Append(Advanced, frame), frame.at = 1,
               frame.part = "back" \/ frame.flow \in {Home, Latecomer}
        PROVE  ~ReleaseAhead'
    <2>1. Top' = frame
      BY <1>3, PushedTop
    <2> QED BY <1>3, <2>1, NoReleaseAhead DEF ReleaseAhead, Script, Secondary
  <1> QED BY <1>1, <1>2, <1>3 DEF Hands

\* The parts of the invariant, as facts of two moments.
Executing == Len(executed) > 1 => OnEvent(executed[Len(executed)])
True(t) == t[3] # NoRequest /\ work.holder[t[3]] = t[2]
Excluded(t) ==
  /\ t[3] # NoRequest /\ work.holder[t[3]] # t[2]
  /\ t[2] \in work.excluded[t[3]] \/ (turn = "button" /\ (Excluding(t) \/ Settling))
Fresh == ReleaseAhead => knows.request = NoRequest \/ (turn = "button" /\ Noticed = {})
Freed ==
  Ran("release_human_match") =>
    turn = "button" /\ knows.request # NoRequest /\ work.holder[knows.request] = Nobody

LEMMA NoticeParts ==
  /\ NoticeInvariant <=> /\ FramesTraced /\ Executing
                         /\ \A t \in Noticed : True(t)
                         /\ \A t \in Parted : Excluded(t)
                         /\ Fresh /\ Freed
  /\ NoticeInvariant' <=> /\ FramesTraced' /\ Executing'
                          /\ \A t \in Noticed' : True(t)'
                          /\ \A t \in Parted' : Excluded(t)'
                          /\ Fresh' /\ Freed'
  BY DEF NoticeInvariant, Executing, True, Excluded, Fresh, Freed

LEMMA ToldType ==
  ASSUME RunnerInvariant, NEW t \in Told
  PROVE  t[3] \in Request /\ t[2] \in Responder \cup {Guest} /\ t[2] # Nobody
  <1>1. PICK i \in 1..Len(Flushed) : t = <<Flushed[i].says, Flushed[i].to, Flushed[i].request>>
    BY DEF Told
  <1>2. Flushed[i] \in Presentation
    BY <1>1, FlushedType, ElementOfSeq
  <1> QED BY <1>1, <1>2, PeopleAssumption DEF Presentation

\* Neither is added to by anything else than a notice or a farewell.
LEMMA SameNotices ==
  ASSUME NEW says, NEW to, NEW request, says \notin {"notice", "farewell"},
         Told' = Told \/ Told' = Told \cup {<<says, to, request>>}
  PROVE  Noticed' = Noticed /\ Parted' = Parted
  <1>1. <<says, to, request>>[1] = says
    OBVIOUS
  <1> QED BY <1>1 DEF Noticed, Parted

LEMMA SettlingStays ==
  ASSUME RunnerInvariant, Settling, frames # <<>>, Extends \/ frames' = Popped
  PROVE  Settling'
  <1>1. CASE Extends
    BY <1>1, AdvancedTop DEF Extends, Settling
  <1>2. CASE frames' = Popped
    <2>1. /\ Len(frames') = Len(frames) - 1 /\ Len(frames) \in Nat \ {0}
          /\ \A i \in 1..(Len(frames) - 1) : frames'[i] = frames[i]
      BY <1>2, PoppedTop, TopFacts
    <2> QED BY <2>1 DEF Settling
  <1> QED BY <1>1, <1>2

\* A calm frame hands nothing over.
LEMMA SettlingHands ==
  ASSUME RunnerInvariant, FramesTraced, EnteredRule, Settling, frames # <<>>,
         NEW key, NEW g \in EventChild(Top, key), NEW rec \in BOOLEAN, HandTo(g, rec)
  PROVE  FALSE
  <1>1. /\ g \in Flow /\ Parent[g] = Top.flow /\ OnEvent(g) /\ Top.part = "does"
        /\ Len(frames) = 1
    BY HandedFrame
  <1>2. Top = frames[1]
    BY <1>1 DEF Top
  <1>3. Calm(Top.flow)
    BY <1>1, <1>2 DEF Settling
  <1> QED BY <1>1, <1>3 DEF Calm

\* Nor does it search.
LEMMA SettlingSearch ==
  ASSUME RunnerInvariant, CalmRule, Settling, Doing(Searches)
  PROVE  FALSE
  <1>1. /\ frames # <<>> /\ Action.type \in Searches /\ Top.at <= Len(Script(Top))
    BY DEF Doing, Running
  <1>2. /\ Top \in Frame /\ Top.at \in 1..Len(Script(Top)) /\ Top = frames[Len(frames)]
        /\ Len(frames) \in 1..Len(frames)
    BY <1>1, TopFacts
  <1>3. Top.flow \in Flow /\ Top.part \in {"does", "back"}
    BY <1>2 DEF Frame, Parts
  <1>4. Action.type \in Types(Script(Top))
    BY <1>2 DEF Action, Types
  <1>5. CASE Top.part = "back"
    BY <1>1, <1>3, <1>4, <1>5 DEF CalmRule, Script
  <1>6. CASE Top.part # "back"
    <2>1. Calm(Top.flow)
      BY <1>2, <1>6 DEF Settling
    <2>2. Script(Top) = Does[Top.flow]
      BY <1>3, <1>6 DEF Script
    <2> QED BY <1>1, <1>4, <2>1, <2>2 DEF Calm
  <1> QED BY <1>5, <1>6

ExcludedFor(t) == t[2] \in work.excluded[t[3]]

\* An action that goes on and is neither quiet nor about who left: no release is
\* ahead, and whoever left is excluded, or nothing is searched for any more.
LEMMA NoticePlain ==
  ASSUME RunnerInvariant, NoticeInvariant, ContextRule, ReleaseRule, Extends,
         NEW types, Doing(types), types \cap Quiet = {},
         types \cap {"release_human_match", "exclude_previous_human_from_next_attempt"} = {}
  PROVE  /\ FramesTraced' /\ Executing' /\ Fresh' /\ Freed'
         /\ \A t \in Parted : ExcludedFor(t) \/ (turn' = "button" /\ Settling')
  <1>1. FramesTraced' /\ Executing'
    BY TraceExtends, NoticeParts DEF Executing, Extends
  <1>2. Action.type \notin Quiet /\ Action.type # "release_human_match"
        /\ frames # <<>> /\ Top.at <= Len(Script(Top)) /\ frames' = Advanced
    BY DEF Doing, Running, Extends
  <1>3. Fresh'
    BY <1>2, ReleaseOnwards, NoticeParts DEF Fresh
  <1>4. Freed'
    BY <1>2, Onwards DEF Freed
  <1>5. ASSUME NEW t \in Parted
        PROVE  ExcludedFor(t) \/ (turn' = "button" /\ Settling')
    <2>1. ~Excluding(t)
      BY NoFarewell DEF Excluding
    <2> QED BY <1>2, <2>1, NoticeParts, SettlingStays DEF Excluded, ExcludedFor, Extends
  <1> QED BY <1>1, <1>3, <1>4, <1>5

LEMMA NoticeQuiet ==
  ASSUME RunnerInvariant, NoticeInvariant, ContextRule, ReleaseRule,
         ShowText \/ AttachButtons \/ OfferServices \/ PassStep \/ MarkPending
  PROVE  NoticeInvariant'
  <1>1. /\ Doing(Quiet) /\ Extends /\ UNCHANGED <<knows, work>>
        /\ Told' = Told \/ Told' = Told \cup {<<"text", Guest, knows.request>>}
    BY QuietStep
  <1>2. Noticed' = Noticed /\ Parted' = Parted
    <2>1. CASE Told' = Told
      BY <2>1 DEF Noticed, Parted
    <2>2. CASE Told' = Told \cup {<<"text", Guest, knows.request>>}
      <3>1. <<"text", Guest, knows.request>>[1] = "text"
        OBVIOUS
      <3> QED BY <2>2, <3>1 DEF Noticed, Parted
    <2> QED BY <1>1, <2>1, <2>2
  <1>3. /\ Action.type \in Quiet /\ frames # <<>> /\ Top.at <= Len(Script(Top))
        /\ frames' = Advanced
    BY <1>1 DEF Doing, Running, Extends
  <1>4. /\ Action.type # "release_human_match"
        /\ Action.type # "exclude_previous_human_from_next_attempt"
    BY <1>3 DEF Quiet, Texts, Steps
  <1>5. FramesTraced' /\ Executing'
    BY <1>1, TraceExtends, NoticeParts DEF Executing, Extends
  <1>6. \A t \in Noticed' : True(t)'
    BY <1>1, <1>2, NoticeParts DEF True
  <1>7. ASSUME NEW t \in Parted PROVE Excluded(t)'
    <2>1. Excluding(t) => Excluding(t)'
      <3> SUFFICES ASSUME Excluding(t) PROVE Excluding(t)'
        OBVIOUS
      <3>1. Ahead("exclude_previous_human_from_next_attempt")'
        BY <1>1, <1>3, <1>4, Onwards DEF Excluding
      <3>2. Len(frames') = Len(frames) /\ Top'.part = Top.part /\ Top'.flow = Top.flow
        BY <1>3, AdvancedTop
      <3> QED BY <1>1, <3>1, <3>2 DEF Excluding
    <2>2. Excluded(t)
      BY NoticeParts
    <2>3. Settling => Settling'
      BY <1>1, <1>3, SettlingStays
    <2> QED BY <1>1, <2>1, <2>2, <2>3 DEF Excluded, Extends
  <1>8. Fresh'
    BY <1>1, <1>2, <1>3, ReleaseOnwards, NoticeParts DEF Fresh, Extends
  <1>9. Freed'
    BY <1>1, <1>3, <1>4, Onwards, NoticeParts DEF Freed, Extends
  <1> QED BY <1>2, <1>5, <1>6, <1>7, <1>8, <1>9, NoticeParts

\* Where the match stays as it is, what was said of it stays true.
LEMMA NoticeSame ==
  ASSUME RunnerInvariant, NoticeInvariant, Noticed' = Noticed, Parted' = Parted,
         UNCHANGED <<work.holder, work.excluded>>,
         FramesTraced', Executing', Fresh', Freed',
         \A t \in Parted : ExcludedFor(t) \/ (turn' = "button" /\ Settling')
  PROVE  NoticeInvariant'
  <1>1. \A t \in Noticed' : True(t)'
    BY NoticeParts DEF True
  <1>2. ASSUME NEW t \in Parted PROVE Excluded(t)'
    BY <1>2, NoticeParts DEF Excluded, ExcludedFor
  <1> QED BY <1>1, <1>2, NoticeParts

LEMMA NoticeEffect ==
  ASSUME RunnerInvariant, NoticeInvariant, ContextRule, ReleaseRule,
         SaveInterest \/ Confirm \/ ShareContact
  PROVE  NoticeInvariant'
  <1>1. /\ Extends /\ work' = work
        /\ Doing({"save_incoming", "confirm_human_match", "share_human_contact"})
    BY EffectStep, ContactStep DEF SaveInterest, Confirm, ShareContact, Doing
  <1>2. Noticed' = Noticed /\ Parted' = Parted
    <2>1. CASE SaveInterest \/ Confirm
      BY <2>1, EffectStep DEF Noticed, Parted
    <2>2. CASE ShareContact
      <3>1. Told' = Told \cup {<<"contact", Guest, knows.request>>}
        BY <2>2, ContactStep
      <3> QED BY <3>1, SameNotices
    <2> QED BY <2>1, <2>2
  <1>3. /\ {"save_incoming", "confirm_human_match", "share_human_contact"} \cap Quiet = {}
        /\ {"save_incoming", "confirm_human_match", "share_human_contact"}
             \cap {"release_human_match", "exclude_previous_human_from_next_attempt"} = {}
    BY DEF Quiet, Texts, Steps
  <1> QED BY <1>1, <1>2, <1>3, NoticePlain, NoticeSame

LEMMA NoticeNotify ==
  ASSUME RunnerInvariant, ContextsCurrent, NoticeInvariant, ContextRule, ReleaseRule, Notify
  PROVE  NoticeInvariant'
  <1> DEFINE new == <<"notice", Partner, knows.request>>
  <1>1. /\ Extends /\ work' = work /\ Doing({"notify_matched_human"})
        /\ Told' = Told \cup {new} /\ Partner \in Responder /\ Partner # Nobody
    BY ContactStep DEF Notify
  <1>2. new[1] = "notice" /\ new[2] = Partner /\ new[3] = knows.request
    OBVIOUS
  <1>3. Noticed' = Noticed \cup {new} /\ Parted' = Parted
    BY <1>1, <1>2 DEF Noticed, Parted
  <1>4. True(new)
    BY <1>1, <1>2, PartnerHolds DEF True, Kind, NoRequest
  <1>5. \A t \in Noticed' : True(t)'
    BY <1>1, <1>3, <1>4, NoticeParts DEF True
  <1>6. /\ FramesTraced' /\ Executing' /\ Fresh' /\ Freed'
        /\ \A t \in Parted : ExcludedFor(t) \/ (turn' = "button" /\ Settling')
    BY <1>1, NoticePlain DEF Quiet, Texts, Steps
  <1>7. ASSUME NEW t \in Parted PROVE Excluded(t)'
    BY <1>1, <1>6, <1>7, NoticeParts DEF Excluded, ExcludedFor
  <1> QED BY <1>3, <1>5, <1>6, <1>7, NoticeParts

LEMMA NoticeRelease ==
  ASSUME RunnerInvariant, NoticeInvariant, ContextRule, ReleaseRule, Release
  PROVE  NoticeInvariant'
  <1>1. /\ Extends /\ Told' = Told /\ Doing({"release_human_match"})
        /\ knows.request \in Kind /\ knows'.request = knows.request
        /\ work'.holder[knows.request] = Nobody /\ work'.excluded = work.excluded
        /\ \A k \in Kind \ {knows.request} : work'.holder[k] = work.holder[k]
    BY ReleaseStep
  <1>2. /\ Action.type = "release_human_match" /\ frames # <<>>
        /\ Top.at <= Len(Script(Top)) /\ frames' = Advanced /\ knows.request # NoRequest
    BY <1>1 DEF Doing, Running, Extends, Release
  <1>3. Action.type \notin Quiet
    BY <1>2 DEF Quiet, Texts, Steps
  <1>4. ReleaseAhead
    <2>1. Top.at \in Top.at..Len(Script(Top))
      BY <1>2, TopFacts
    <2> QED BY <1>2, <2>1 DEF ReleaseAhead, Action
  <1>5. turn = "button" /\ Noticed = {}
    BY <1>2, <1>4, NoticeParts DEF Fresh
  <1>6. Noticed' = {} /\ Parted' = Parted
    BY <1>1, <1>5 DEF Noticed, Parted
  <1>7. FramesTraced' /\ Executing'
    BY <1>1, TraceExtends, NoticeParts DEF Executing, Extends
  <1>8. Fresh'
    BY <1>1, <1>2, <1>3, ReleaseOnwards, NoticeParts DEF Fresh
  <1>9. Freed'
    BY <1>1, <1>2, <1>5 DEF Freed, Extends
  <1>10. ASSUME NEW t \in Parted PROVE Excluded(t)'
    <2>1. t[3] \in Kind /\ t[2] # Nobody /\ work.holder[t[3]] # t[2]
      BY ToldType, NoticeParts DEF Excluded, Parted, Request
    <2>2. ~Excluding(t)
      BY <1>1, NoFarewell DEF Excluding, Quiet, Texts, Steps
    <2>3. t[2] \in work.excluded[t[3]] \/ (turn = "button" /\ Settling)
      BY <2>2, NoticeParts DEF Excluded
    <2>4. Settling => Settling'
      BY <1>1, <1>2, SettlingStays
    <2>5. work'.holder[t[3]] # t[2]
      BY <1>1, <2>1
    <2>6. t[3] # NoRequest
      BY <2>1 DEF Kind, NoRequest
    <2> QED BY <1>1, <2>3, <2>4, <2>5, <2>6 DEF Excluded, Extends
  <1> QED BY <1>6, <1>7, <1>8, <1>9, <1>10, NoticeParts

LEMMA NoticeFarewell ==
  ASSUME RunnerInvariant, NoticeInvariant, ContextRule, ReleaseRule, NotifyPrevious
  PROVE  NoticeInvariant'
  <1> DEFINE new == <<"farewell", knows.previous, knows.request>>
  <1>1. /\ Extends /\ UNCHANGED <<work, knows>> /\ Doing({"notify_previous_human"})
        /\ Told' = Told \cup {new} /\ knows.previous \in Responder /\ knows.previous # Nobody
    BY ContactStep DEF NotifyPrevious
  <1>2. new[1] = "farewell" /\ new[2] = knows.previous /\ new[3] = knows.request
    OBVIOUS
  <1>3. Noticed' = Noticed /\ Parted' = Parted \cup {new}
    BY <1>1, <1>2 DEF Noticed, Parted
  <1>4. /\ FramesTraced' /\ Executing' /\ Fresh' /\ Freed'
        /\ \A t \in Parted : ExcludedFor(t) \/ (turn' = "button" /\ Settling')
    BY <1>1, NoticePlain DEF Quiet, Texts, Steps
  <1>5. \A t \in Noticed' : True(t)'
    BY <1>1, <1>3, NoticeParts DEF True
  <1>6. ASSUME NEW t \in Parted PROVE Excluded(t)'
    BY <1>1, <1>4, <1>6, NoticeParts DEF Excluded, ExcludedFor
  <1>7. ASSUME NEW t, t = new PROVE Excluded(t)'
    <2>1. /\ frames # <<>> /\ Script(Top) \in Scripts /\ Top.at \in 1..Len(Script(Top))
          /\ Script(Top)[Top.at].type = "notify_previous_human"
      BY <1>1, TopFacts DEF Doing, Running, Action
    <2>2. /\ Since(Script(Top), Top.at, "release_human_match")
          /\ Until(Script(Top), Top.at + 1, "exclude_previous_human_from_next_attempt")
      BY <2>1 DEF ReleaseRule
    <2>3. turn = "button" /\ knows.request # NoRequest /\ work.holder[knows.request] = Nobody
      BY <2>1, <2>2, NoticeParts DEF Freed, Ran
    <2>4. Ahead("exclude_previous_human_from_next_attempt")'
      BY <1>1, <2>2, Onwards DEF Extends
    <2>5. PICK i \in 1..Len(Script(Top)) : Script(Top)[i].type = "release_human_match"
      BY <2>1, <2>2 DEF Since
    <2>6. Len(frames) = 1 /\ Top.part = "does" /\ Releasing(Top.flow)
      BY <2>1, <2>5, ReleasesBelow, NoticeParts
    <2>7. Len(frames') = Len(frames) /\ Top'.part = Top.part /\ Top'.flow = Top.flow
      BY <1>1, <2>1, AdvancedTop DEF Extends
    <2>8. Excluding(t)'
      BY <1>1, <1>2, <1>7, <2>4, <2>6, <2>7 DEF Excluding
    <2>9. turn' = "button" /\ t[3] # NoRequest
      BY <1>1, <1>2, <1>7, <2>3 DEF Extends
    <2>10. work'.holder[t[3]] # t[2]
      BY <1>1, <1>2, <1>7, <2>3
    <2> QED BY <2>8, <2>9, <2>10 DEF Excluded
  <1> QED BY <1>3, <1>4, <1>5, <1>6, <1>7, NoticeParts

LEMMA NoticeExclude ==
  ASSUME RunnerInvariant, NoticeInvariant, ContextRule, ReleaseRule, Exclude
  PROVE  NoticeInvariant'
  <1>1. /\ Extends /\ Told' = Told /\ knows' = knows
        /\ Doing({"exclude_previous_human_from_next_attempt"})
    BY EffectStep DEF Exclude
  <1>2. /\ knows.request \in Kind /\ work'.holder = work.holder
        /\ work'.excluded[knows.request] = work.excluded[knows.request] \cup {knows.previous}
        /\ \A k \in Kind : work.excluded[k] \subseteq work'.excluded[k]
    <2>1. knows.request \in Kind /\ work \in Rows
      BY DEF Exclude, RunnerInvariant, TypeOK, Knowledge, Request
    <2> QED BY <2>1 DEF Exclude, Rows
  <1>3. /\ Action.type = "exclude_previous_human_from_next_attempt" /\ frames # <<>>
        /\ Top.at <= Len(Script(Top)) /\ frames' = Advanced
    BY <1>1 DEF Doing, Running, Extends
  <1>4. Action.type \notin Quiet /\ Action.type # "release_human_match"
    BY <1>3 DEF Quiet, Texts, Steps
  <1>5. Noticed' = Noticed /\ Parted' = Parted
    BY <1>1 DEF Noticed, Parted
  <1>6. FramesTraced' /\ Executing'
    BY <1>1, TraceExtends, NoticeParts DEF Executing, Extends
  <1>7. Fresh'
    BY <1>1, <1>3, <1>4, ReleaseOnwards, NoticeParts DEF Fresh
  <1>8. Freed'
    BY <1>1, <1>3, <1>4, Onwards DEF Freed
  <1>9. \A t \in Noticed' : True(t)'
    BY <1>2, <1>5, NoticeParts DEF True
  <1>10. ASSUME NEW t \in Parted PROVE Excluded(t)'
    <2>1. Excluded(t) /\ t[3] \in Kind
      BY ToldType, NoticeParts DEF Excluded, Parted, Request
    <2>2. Excluding(t) => t[2] \in work'.excluded[t[3]]
      BY <1>2 DEF Excluding
    <2>3. Settling => Settling'
      BY <1>1, <1>3, SettlingStays
    <2> QED BY <1>1, <1>2, <2>1, <2>2, <2>3 DEF Excluded, Extends
  <1> QED BY <1>5, <1>6, <1>7, <1>8, <1>9, <1>10, NoticeParts

LEMMA ExecutingHands ==
  ASSUME RunnerInvariant, FramesTraced, EnteredRule, Executing, frames # <<>>,
         NEW key, NEW g \in EventChild(Top, key), NEW rec \in BOOLEAN, HandTo(g, rec)
  PROVE  Executing'
  <1>1. g \in Flow /\ OnEvent(g) /\ executed' = Append(executed, g)
    BY HandedFrame
  <1>2. executed'[Len(executed')] = g
    BY <1>1, LastAppended
  <1> QED BY <1>1, <1>2 DEF Executing

\* What leaves a frame, or hands over, has no exclusion and no release ahead.
LEMMA NoticeHands ==
  ASSUME RunnerInvariant, NoticeInvariant, ContextRule, ReleaseRule, EnteredRule, frames # <<>>,
         task' = task, NEW key, Hands(key)
  PROVE  FramesTraced' /\ Executing' /\ Fresh' /\ Freed' /\ (Settling => Settling')
  <1>1. FramesTraced /\ Executing
    BY NoticeParts
  <1>2. FramesTraced'
    BY <1>1, TraceHands
  <1>3. Executing'
    <2>1. CASE executed' = executed
      BY <1>1, <2>1 DEF Executing
    <2> QED BY <1>1, <2>1, ExecutingHands DEF Hands
  <1>4. Fresh'
    BY <1>1, ReleaseMoves DEF Fresh
  <1>5. Freed'
    BY NothingRan DEF Freed, Openings, Entries
  <1>6. Settling => Settling'
    BY <1>1, SettlingHands, SettlingStays DEF Hands
  <1> QED BY <1>2, <1>3, <1>4, <1>5, <1>6

LEMMA NoticeSearch ==
  ASSUME RunnerInvariant, NoticeInvariant, ContextRule, ReleaseRule,
         EnteredRule, CalmRule, Searching
  PROVE  NoticeInvariant'
  <1>1. /\ Told' = Told /\ UNCHANGED <<turn, task>> /\ Doing(Searches) /\ frames # <<>>
    BY EmittingStep DEF Doing, Running
  <1>2. PICK key : Hands(key)
    BY EmittingStep
  <1>3. FramesTraced' /\ Executing' /\ Fresh' /\ Freed'
    BY <1>1, <1>2, NoticeHands
  <1>4. Noticed' = Noticed /\ Parted' = Parted
    BY <1>1 DEF Noticed, Parted
  <1>5. ASSUME NEW t \in Parted
        PROVE  t[3] \in Kind /\ t[2] \in work.excluded[t[3]] /\ work.holder[t[3]] # t[2]
    <2>1. ~Excluding(t)
      BY <1>1, NoFarewell, Kinds DEF Excluding
    <2>2. ~Settling
      BY <1>1, SettlingSearch
    <2> QED BY <2>1, <2>2, ToldType, NoticeParts DEF Excluded, Parted, Request
  <1>6. ASSUME NEW t \in Noticed PROVE t[3] \in Kind /\ t[2] # Nobody /\ work.holder[t[3]] = t[2]
    BY ToldType, NoticeParts DEF True, Noticed, Request
  <1>7. NoRequest \notin Kind
    BY DEF NoRequest, Kind
  <1>8. ASSUME NEW k \in Kind, NEW r \in Pool[k], Reserve(k, r) PROVE NoticeInvariant'
    <2>1. /\ work.holder[k] = Nobody /\ r \notin work.excluded[k]
          /\ work'.holder[k] = r /\ work'.excluded = work.excluded
          /\ \A j \in Kind \ {k} : work'.holder[j] = work.holder[j]
      BY <1>8, ReserveStep
    <2>2. ASSUME NEW t \in Noticed PROVE True(t)'
      BY <1>6, <1>7, <2>1 DEF True
    <2>3. ASSUME NEW t \in Parted PROVE Excluded(t)'
      BY <1>5, <1>7, <2>1 DEF Excluded
    <2> QED BY <1>3, <1>4, <2>2, <2>3, NoticeParts
  <1>9. ASSUME NEW k \in Kind, ReserveNobody(k) PROVE NoticeInvariant'
    <2>1. work' = work
      BY <1>9 DEF ReserveNobody
    <2> QED BY <1>3, <1>4, <1>5, <2>1, NoticeSame DEF ExcludedFor
  <1> QED BY <1>8, <1>9 DEF Searching

LEMMA NoticeMoves ==
  ASSUME RunnerInvariant, NoticeInvariant, ContextRule, ReleaseRule, EnteredRule, CalmRule,
         Attending \/ EnterRoot \/ ReturnNow \/ EndFlow
  PROVE  NoticeInvariant'
  <1>0. FramesTraced /\ Executing
    BY NoticeParts
  <1>1. CASE Attending
    <2>1. /\ Told' = Told /\ UNCHANGED <<turn, task, work>> /\ Doing(Emitting) /\ frames # <<>>
      BY <1>1, EmittingStep DEF Doing, Running
    <2>2. PICK key : Hands(key)
      BY <1>1, EmittingStep
    <2>3. FramesTraced' /\ Executing' /\ Fresh' /\ Freed' /\ (Settling => Settling')
      BY <2>1, <2>2, NoticeHands
    <2>4. Noticed' = Noticed /\ Parted' = Parted
      BY <2>1 DEF Noticed, Parted
    <2>5. ASSUME NEW t \in Parted PROVE ExcludedFor(t) \/ (turn' = "button" /\ Settling')
      <3>1. ~Excluding(t)
        BY <2>1, NoFarewell, Kinds DEF Excluding, Emitting, Outcomes
      <3> QED BY <2>1, <2>3, <3>1, NoticeParts DEF Excluded, ExcludedFor
    <2> QED BY <2>1, <2>3, <2>4, <2>5, NoticeSame
  <1>2. CASE EnterRoot \/ ReturnNow
    <2>1. /\ Told' = Told /\ UNCHANGED <<turn, task, executed>> /\ Doing(Openings)
          /\ UNCHANGED <<work.holder, work.excluded>> /\ frames # <<>>
      BY <1>2, OpeningStep DEF Doing, Running
    <2>2. PICK frame \in Frame : /\ frames' = Append(Advanced, frame) /\ frame.at = 1
                                 /\ frame.part = "back" \/ frame.flow \in {Home, Latecomer}
      BY <1>2, OpeningStep
    <2>3. FramesTraced' /\ Executing'
      BY <1>0, <1>2, <2>1, TraceOpens DEF Executing
    <2>4. Fresh'
      BY <1>0, <2>1, <2>2, ReleaseMoves DEF Fresh
    <2>5. Freed'
      BY <2>1, <2>2, NothingRan DEF Freed, Openings, Entries
    <2>6. Settling => Settling'
      <3>1. /\ Len(frames') = Len(frames) + 1 /\ Len(frames) \in Nat
            /\ frames'[Len(frames) + 1] = frame
            /\ \A i \in 1..Len(frames) :
                 frames'[i].part = frames[i].part /\ frames'[i].flow = frames[i].flow
        BY <2>1, <2>2, PushedTop, TopFacts
      <3>2. frame.part = "back" \/ Calm(frame.flow)
        BY <2>2 DEF CalmRule
      <3>3. ASSUME Settling, NEW i \in 1..Len(frames')
            PROVE  frames'[i].part = "back" \/ Calm(frames'[i].flow)
        <4>1. CASE i = Len(frames) + 1
          BY <3>1, <3>2, <4>1
        <4>2. CASE i # Len(frames) + 1
          <5>1. i \in 1..Len(frames)
            BY <3>1, <3>3, <4>2
          <5> QED BY <3>1, <3>3, <5>1 DEF Settling
        <4> QED BY <4>1, <4>2
      <3> QED BY <3>3 DEF Settling
    <2>7. Noticed' = Noticed /\ Parted' = Parted
      BY <2>1 DEF Noticed, Parted
    <2>8. ASSUME NEW t \in Parted PROVE ExcludedFor(t) \/ (turn' = "button" /\ Settling')
      <3>1. ~Excluding(t)
        BY <2>1, NoFarewell, Kinds DEF Excluding, Openings, Entries
      <3> QED BY <2>1, <2>6, <3>1, NoticeParts DEF Excluded, ExcludedFor
    <2> QED BY <2>1, <2>3, <2>4, <2>5, <2>7, <2>8, NoticeSame
  <1>3. CASE EndFlow
    <2>1. /\ Told' = Told /\ frames # <<>> /\ frames' = Popped /\ Top.at > Len(Script(Top))
          /\ UNCHANGED <<turn, task, executed, work>>
      BY <1>3, EndFlowStep
    <2>2. FramesTraced' /\ Executing'
      BY <1>0, <2>1, TraceHands DEF Executing
    <2>3. Fresh'
      BY <1>0, <2>1, ReleaseMoves DEF Fresh
    <2>4. Freed'
      BY <2>1, NothingRan DEF Freed, Openings, Entries
    <2>5. Noticed' = Noticed /\ Parted' = Parted
      BY <2>1 DEF Noticed, Parted
    <2>6. ASSUME NEW t \in Parted PROVE ExcludedFor(t) \/ (turn' = "button" /\ Settling')
      <3>1. /\ Top.at \in Nat /\ Script(Top) \in Seq(DiscussionAction)
            /\ Len(Script(Top)) \in Nat
        BY <2>1, TopFacts
      <3>2. ~Excluding(t)
        BY <2>1, <3>1, UntilNext DEF Excluding, Ahead
      <3> QED BY <2>1, <3>2, SettlingStays, NoticeParts DEF Excluded, ExcludedFor
    <2> QED BY <2>1, <2>2, <2>3, <2>4, <2>5, <2>6, NoticeSame
  <1> QED BY <1>1, <1>2, <1>3

\* A failure: no flow that failed goes on to exclude, and none searches after it.
LEMMA NoticeFail ==
  ASSUME RunnerInvariant, NoticeInvariant, ContextRule, ReleaseRule, EnteredRule, CalmRule, Fail
  PROVE  NoticeInvariant'
  <1>0. FramesTraced /\ Executing
    BY NoticeParts
  <1>1. /\ frames # <<>> /\ UNCHANGED <<turn, task, work, db>>
        /\ Len(frames) \in Nat \ {0} /\ Top = frames[Len(frames)]
    BY FailStep, TopFacts
  <1>2. ASSUME NEW t \in Parted
        PROVE  ExcludedFor(t) \/ (turn = "button" /\ (Excluding(t) \/ Settling))
    BY NoticeParts DEF Excluded, ExcludedFor
  <1>3. ASSUME Told' = Told, NEW g \in EventChild(Top, "error"), NEW rec \in BOOLEAN, HandTo(g, rec)
        PROVE  NoticeInvariant'
    <2>1. FramesTraced' /\ Executing'
      BY <1>0, <1>1, <1>3, TraceHands, ExecutingHands
    <2>2. Fresh'
      BY <1>0, <1>1, <1>3, ReleaseMoves DEF Fresh
    <2>3. /\ g \in Flow /\ Parent[g] = Top.flow /\ <<"action_event", "error">> \in On[g]
          /\ Top.part = "does" /\ frames' # <<>> /\ Len(frames') = 1
          /\ Top' = Start(g, "does", rec) /\ frames'[1] = Start(g, "does", rec)
      BY <1>0, <1>1, <1>3, HandedFrame
    <2>4. Freed'
      BY <2>3, Starts DEF Freed, Start
    <2>5. Noticed' = Noticed /\ Parted' = Parted
      BY <1>3 DEF Noticed, Parted
    <2>6. ASSUME NEW t \in Parted PROVE ExcludedFor(t) \/ (turn' = "button" /\ Settling')
      <3>1. ~Settling
        BY <1>0, <1>1, <1>3, SettlingHands
      <3>2. ASSUME Excluding(t) PROVE Settling'
        <4>1. Top.flow \in Flow /\ Releasing(Top.flow) /\ ErrorChild(Top.flow, g)
          BY <1>1, <2>3, <3>2, TopFacts DEF Excluding, ErrorChild, Frame
        <4>2. Calm(g)
          BY <2>3, <4>1 DEF CalmRule
        <4> QED BY <2>3, <4>2 DEF Settling, Start
      <3> QED BY <1>1, <1>2, <3>1, <3>2
    <2> QED BY <1>1, <2>1, <2>2, <2>4, <2>5, <2>6, NoticeSame
  <1>4. ASSUME Told' = Told \cup {<<"fallback", Guest, knows.request>>}, frames' = Popped,
               executed' = executed
        PROVE  NoticeInvariant'
    <2>1. FramesTraced' /\ Executing'
      BY <1>0, <1>1, <1>4, TraceHands DEF Executing
    <2>2. Fresh'
      BY <1>0, <1>1, <1>4, ReleaseMoves DEF Fresh
    <2>3. Freed'
      BY <1>1, <1>4, Left DEF Freed, Openings, Entries
    <2>4. Noticed' = Noticed /\ Parted' = Parted
      BY <1>4, SameNotices
    <2>5. ASSUME NEW t \in Parted PROVE ExcludedFor(t) \/ (turn' = "button" /\ Settling')
      <3>1. Settling => Settling'
        BY <1>1, <1>4, SettlingStays
      <3>2. ASSUME Excluding(t) PROVE Settling'
        <4>1. Len(frames') = 0
          BY <1>1, <1>4, <3>2, PoppedTop DEF Excluding
        <4> QED BY <4>1 DEF Settling
      <3> QED BY <1>1, <1>2, <3>1, <3>2
    <2> QED BY <1>1, <2>1, <2>2, <2>3, <2>4, <2>5, NoticeSame
  <1> QED BY <1>3, <1>4, FailStep

\* The turns of an update.  A run that follows another knows of no request.
LEMMA NoticeTurns ==
  ASSUME RunnerInvariant, NoticeInvariant, ContextRule, ReleaseRule,
         EndChoice \/ EndRun \/ Asking \/ Commit \/ Abort \/ Raise
  PROVE  NoticeInvariant'
  <1>0. /\ FramesTraced /\ Executing /\ FramesTraced' /\ Len(<<>>) = 0
        /\ \A t \in Parted : ExcludedFor(t) \/ (turn = "button" /\ (Excluding(t) \/ Settling))
    BY NoticeParts, TraceTurns, EmptySeq DEF Excluded, ExcludedFor
  <1>1. CASE EndChoice \/ EndRun
    <2>1. /\ Told' = Told /\ frames = <<>> /\ UNCHANGED <<turn, executed, knows>>
          /\ UNCHANGED <<work.holder, work.excluded>>
      BY <1>1, EndChoiceStep, EndRunStep
    <2>2. \/ frames' = <<>>
          \/ \E frame \in Frame : frames' = <<frame>> /\ frame.at = 1 /\ frame.part = "back"
      BY <1>1, EndChoiceStep, EndRunStep
    <2>3. Fresh' /\ Freed' /\ Settling'
      <3>1. CASE frames' = <<>>
        BY <1>0, <3>1 DEF Fresh, Freed, Settling, ReleaseAhead, Ran
      <3>2. ASSUME NEW frame \in Frame, frames' = <<frame>>, frame.at = 1, frame.part = "back"
            PROVE  Fresh' /\ Freed' /\ Settling'
        <4>1. frames' # <<>> /\ Top' = frame /\ Len(frames') = 1 /\ frames'[1] = frame
          BY <3>2, OneTop
        <4>2. Settling'
          BY <3>2, <4>1 DEF Settling
        <4>3. Freed'
          BY <3>2, <4>1, Starts DEF Freed
        <4>4. Fresh'
          BY <3>2, <4>1, NoReleaseAhead DEF Fresh, ReleaseAhead, Script, Secondary
        <4> QED BY <4>2, <4>3, <4>4
      <3> QED BY <2>2, <3>1, <3>2
    <2>4. \A t \in Parted : ExcludedFor(t) \/ (turn' = "button" /\ Settling')
      BY <1>0, <2>1, <2>3 DEF Excluding, Ahead
    <2>5. Executing' /\ Noticed' = Noticed /\ Parted' = Parted
      BY <1>0, <2>1 DEF Executing, Noticed, Parted
    <2> QED BY <1>0, <2>1, <2>3, <2>4, <2>5, NoticeSame
  <1>2. CASE Asking
    <2>1. /\ Told' = Told /\ UNCHANGED <<work.holder, work.excluded>>
          /\ turn = "idle" \/ turn = "text"
          /\ turn = "idle" \/ turn' # "button"
          /\ turn' = "button" \/ knows'.request = NoRequest
      BY <1>2, AskStep
    <2>2. PICK f \in Flow : executed' = <<f>> /\ frames' = <<Start(f, "does", FALSE)>>
      BY <1>2, AskStep
    <2>3. frames' # <<>> /\ Top' = Start(f, "does", FALSE)
      BY <2>2, OneTop
    <2>4. turn = "idle" => Told = {}
      <3>1. turn = "idle" => buffer = <<>> /\ pending = <<>>
        BY DEF RunnerInvariant
      <3>2. <<>> \o <<>> = <<>>
        BY ConcatEmptySeq
      <3> QED BY <1>0, <3>1, <3>2 DEF Told, Flushed
    <2>5. Noticed' = Noticed /\ Parted' = Parted
      BY <2>1 DEF Noticed, Parted
    <2>6. \A t \in Parted : ExcludedFor(t)
      BY <1>0, <2>1, <2>4 DEF Parted
    <2>7. Freed'
      BY <2>3, Starts DEF Freed, Start
    <2>8. Fresh'
      <3>1. CASE turn' = "button"
        BY <2>1, <2>4, <2>5, <3>1 DEF Fresh, Noticed
      <3> QED BY <2>1, <3>1 DEF Fresh
    <2>9. Executing'
      BY <2>2 DEF Executing
    <2> QED BY <1>0, <2>1, <2>5, <2>6, <2>7, <2>8, <2>9, NoticeSame
  <1>3. CASE Commit \/ Abort \/ Raise
    <2>1. Told' = {} /\ frames' = <<>> /\ executed' = <<>>
      BY <1>3, OverStep DEF Idle
    <2>2. Noticed' = {} /\ Parted' = {}
      BY <2>1 DEF Noticed, Parted
    <2>3. Executing' /\ Fresh' /\ Freed'
      BY <1>0, <2>1 DEF Executing, Fresh, Freed, ReleaseAhead, Ran
    <2> QED BY <1>0, <2>2, <2>3, NoticeParts
  <1> QED BY <1>1, <1>2, <1>3

LEMMA NoticeNext ==
  /\ EnteredRule /\ ContextRule /\ ReleaseRule /\ CalmRule
  /\ ContextInvariant /\ NoticeInvariant /\ [Next]_vars
  => NoticeInvariant'
  <1> SUFFICES ASSUME EnteredRule, ContextRule, ReleaseRule, CalmRule,
                      RunnerInvariant, ContextsCurrent, NoticeInvariant, [Next]_vars
               PROVE  NoticeInvariant'
    BY DEF ContextInvariant
  <1>1. CASE UNCHANGED vars
    <2>1. Told' = Told /\ UNCHANGED <<turn, task, frames, executed, knows, work>>
      BY <1>1, ToldKept DEF vars
    <2> QED BY <2>1 DEF NoticeInvariant, FramesTraced, Noticed, Parted, Excluding, Settling,
                        ReleaseAhead, Ran, Ahead, Top, Script
  <1>2. CASE ShowText \/ AttachButtons \/ OfferServices \/ PassStep \/ MarkPending
    BY <1>2, NoticeQuiet
  <1>3. CASE SaveInterest \/ Confirm \/ ShareContact
    BY <1>3, NoticeEffect
  <1>4. CASE Release
    BY <1>4, NoticeRelease
  <1>5. CASE Exclude
    BY <1>5, NoticeExclude
  <1>6. CASE Notify
    BY <1>6, NoticeNotify
  <1>7. CASE NotifyPrevious
    BY <1>7, NoticeFarewell
  <1>8. CASE Searching
    BY <1>8, NoticeSearch
  <1>9. CASE Attending \/ EnterRoot \/ ReturnNow \/ EndFlow
    BY <1>9, NoticeMoves
  <1>10. CASE Fail
    BY <1>10, NoticeFail
  <1>11. CASE EndChoice \/ EndRun \/ Asking \/ Commit \/ Abort \/ Raise
    BY <1>11, NoticeTurns
  <1> QED BY <1>1, <1>2, <1>3, <1>4, <1>5, <1>6, <1>7, <1>8, <1>9, <1>10, <1>11, Groups

LEMMA NoticeInit == Init => NoticeInvariant
  <1> SUFFICES ASSUME Init PROVE NoticeInvariant
    OBVIOUS
  <1>1. /\ frames = <<>> /\ executed = <<>> /\ buffer = <<>> /\ pending = <<>>
        /\ Len(<<>>) = 0
    BY EmptySeq DEF Init
  <1>2. Flushed = <<>>
    BY <1>1, ConcatEmptySeq DEF Flushed
  <1>3. Told = {}
    BY <1>1, <1>2 DEF Told
  <1> QED BY <1>1, <1>3 DEF NoticeInvariant, FramesTraced, Noticed, Parted, ReleaseAhead, Ran

LEMMA NoticeGives == RunnerInvariant /\ NoticeInvariant => NoticesReachHolder
  <1> SUFFICES ASSUME RunnerInvariant, NoticeInvariant, Settled, NEW i \in 1..Len(buffer)
               PROVE  /\ buffer[i].says = "notice" =>
                           work.holder[buffer[i].request] = buffer[i].to
                      /\ buffer[i].says = "farewell" =>
                           work.holder[buffer[i].request] # buffer[i].to
    BY DEF NoticesReachHolder
  <1> DEFINE t == <<buffer[i].says, buffer[i].to, buffer[i].request>>
  <1>1. Flushed = buffer
    BY ToldSettled
  <1>2. t \in Told
    BY <1>1 DEF Told
  <1>3. t[1] = buffer[i].says /\ t[2] = buffer[i].to /\ t[3] = buffer[i].request
    OBVIOUS
  <1> HIDE DEF t
  <1>4. t[1] = "notice" => work.holder[t[3]] = t[2]
    BY <1>2, NoticeParts DEF Noticed, True
  <1>5. t[1] = "farewell" => work.holder[t[3]] # t[2]
    BY <1>2, NoticeParts DEF Parted, Excluded
  <1> QED BY <1>3, <1>4, <1>5

\* Documents in which only a chosen flow releases, first of all, followed by the farewell
\* and the exclusion, and is searched after in no flow that recovers: when the
\* reply is handed over, every notice in it is to the one who holds the request,
\* and every farewell to one who does not.
THEOREM NoticesHold ==
  ASSUME EnteredRule, ContextRule, ReleaseRule, CalmRule PROVE Spec => []NoticesReachHolder
  <1>1. Init => NoticeInvariant
    BY NoticeInit
  <1>2. ContextInvariant /\ NoticeInvariant /\ [Next]_vars => NoticeInvariant'
    BY NoticeNext
  <1>3. ContextInvariant /\ NoticeInvariant => NoticesReachHolder
    BY NoticeGives DEF ContextInvariant
  <1>4. Spec => []ContextInvariant
    BY ContextsHold
  <1> QED BY <1>1, <1>2, <1>3, <1>4, PTL DEF Spec

-----------------------------------------------------------------------------
(* Every dispatch comes to its end: nested runs are bounded, and each step  *)
(* leaves less to run.                                                     *)

LEMMA LevelBounds == \A frame : Level(frame) \in {0, 1, 2}
  BY DEF Level

\* What is entered nests less deep than what it is entered from.
LEMMA OpensBelow ==
  ASSUME RunnerInvariant, NestingRule, EnterRoot \/ ReturnNow
  PROVE  \E frame \in Frame : /\ frames' = Append(Advanced, frame) /\ frame.at = 1
                              /\ Level(frame) < Level(Top)
  <1>1. /\ frames # <<>> /\ Action.type \in Openings /\ Top.at <= Len(Script(Top))
        /\ Top.at \in 1..Len(Script(Top)) /\ Top \in Frame
    BY OpeningStep, TopFacts DEF Doing, Running
  <1>2. PICK frame \in Frame :
          /\ frames' = Append(Advanced, frame) /\ frame.at = 1
          /\ \/ frame.part = "back" \/ frame.flow = Home
             \/ frame.flow = Latecomer /\ Action.type = "enter_selected_service_latecomer_flow"
    BY OpeningStep
  <1>3. Top.flow \in Flow /\ Top.part \in {"does", "back"} /\ Action.type \in Types(Script(Top))
    BY <1>1 DEF Frame, Parts, Types, Action
  <1>4. Top.part = "does" /\ Top.flow # Home
    BY <1>1, <1>3 DEF NestingRule, Script
  <1>5. Top.flow = Latecomer => Action.type # "enter_selected_service_latecomer_flow"
    BY <1>3, <1>4 DEF NestingRule, Script
  <1>6. Level(Top) = IF Top.flow = Latecomer THEN 1 ELSE 2
    BY <1>4 DEF Level
  <1>7. Level(frame) = 0 \/ (Level(frame) = 1 /\ frame.flow = Latecomer
                               /\ Action.type = "enter_selected_service_latecomer_flow")
    BY <1>2 DEF Level
  <1>8. Level(frame) < Level(Top)
    BY <1>5, <1>6, <1>7
  <1> QED BY <1>2, <1>8

Descending == \A i \in 1..(Len(frames) - 1) : Level(frames[i + 1]) < Level(frames[i])
Inside == frames # <<>> => Top.at <= Len(Script(Top)) + 1

LEMMA NestingExtends ==
  ASSUME RunnerInvariant, NestingInvariant, Extends, NEW types, Doing(types)
  PROVE  Descending' /\ Inside'
  <1>1. /\ Len(frames') = Len(frames) /\ Len(frames) \in Nat \ {0} /\ frames # <<>>
        /\ Top'.at = Top.at + 1 /\ Script(Top)' = Script(Top)
        /\ \A i \in 1..Len(frames) :
             frames'[i].part = frames[i].part /\ frames'[i].flow = frames[i].flow
    BY AdvancedTop, TopFacts DEF Extends
  <1>2. \A i \in 1..Len(frames) : Level(frames'[i]) = Level(frames[i])
    BY <1>1 DEF Level
  <1>3. Descending'
    BY <1>1, <1>2 DEF Descending, NestingInvariant
  <1>4. Top.at <= Len(Script(Top)) /\ Top.at \in Nat /\ Len(Script(Top)) \in Nat
    BY <1>1, TopFacts DEF Doing, Running
  <1> QED BY <1>1, <1>3, <1>4 DEF Inside

LEMMA NestingHands ==
  ASSUME RunnerInvariant, NestingInvariant, EnteredRule, frames # <<>>,
         \/ \E key : Hands(key)
         \/ \E key : \E g \in EventChild(Top, key) : \E rec \in BOOLEAN : HandTo(g, rec)
         \/ frames' = Popped
  PROVE  Descending' /\ Inside'
  <1>1. ASSUME NEW key, NEW g \in EventChild(Top, key), NEW rec \in BOOLEAN, HandTo(g, rec)
        PROVE  Descending' /\ Inside'
    <2>1. Len(frames') = 1 /\ g \in Flow /\ Top' = Start(g, "does", rec)
      BY <1>1, HandedFrame DEF NestingInvariant
    <2>2. PICK frame \in Frame : Top' = frame /\ frame.at = 1
      BY <2>1, StartType DEF Parts
    <2>3. Len(Script(frame)) \in Nat
      BY ScriptType
    <2>4. Descending'
      <3>1. 1..(Len(frames') - 1) = {}
        BY <2>1
      <3> QED BY <3>1 DEF Descending
    <2>5. Inside'
      BY <2>2, <2>3 DEF Inside, Script
    <2> QED BY <2>4, <2>5
  <1>2. CASE frames' = Popped
    <2>1. /\ Len(frames') = Len(frames) - 1 /\ Len(frames) \in Nat \ {0}
          /\ \A i \in 1..(Len(frames) - 1) : frames'[i] = frames[i]
          /\ frames' # <<>> => Suspended(Top') /\ Top' \in Frame
      BY <1>2, PoppedTop, TopFacts
    <2>2. Descending'
      BY <2>1 DEF Descending, NestingInvariant
    <2>3. ASSUME frames' # <<>> PROVE Top'.at <= Len(Script(Top')) + 1
      BY <2>1, <2>3, ScriptType DEF Suspended
    <2> QED BY <2>2, <2>3 DEF Inside, Script
  <1> QED BY <1>1, <1>2 DEF Hands

LEMMA NestingOpens ==
  ASSUME RunnerInvariant, NestingInvariant, NestingRule, EnterRoot \/ ReturnNow
  PROVE  Descending' /\ Inside'
  <1>1. frames # <<>>
    BY OpeningStep DEF Doing, Running
  <1>2. PICK frame \in Frame : /\ frames' = Append(Advanced, frame) /\ frame.at = 1
                               /\ Level(frame) < Level(Top)
    BY OpensBelow
  <1>3. /\ Len(frames') = Len(frames) + 1 /\ Len(frames) \in Nat \ {0} /\ Top' = frame
        /\ Top = frames[Len(frames)] /\ frames'[Len(frames) + 1] = frame
        /\ \A i \in 1..Len(frames) :
             frames'[i].part = frames[i].part /\ frames'[i].flow = frames[i].flow
    BY <1>1, <1>2, PushedTop, TopFacts
  <1>4. \A i \in 1..Len(frames) : Level(frames'[i]) = Level(frames[i])
    BY <1>3 DEF Level
  <1>5. ASSUME NEW i \in 1..(Len(frames') - 1)
        PROVE  Level(frames'[i + 1]) < Level(frames'[i])
    <2>1. CASE i = Len(frames)
      BY <1>2, <1>3, <1>4, <2>1
    <2>2. CASE i # Len(frames)
      <3>1. i \in 1..(Len(frames) - 1) /\ i \in 1..Len(frames) /\ i + 1 \in 1..Len(frames)
        BY <1>3, <1>5, <2>2
      <3> QED BY <1>4, <3>1 DEF NestingInvariant
    <2> QED BY <2>1, <2>2
  <1>6. Len(Script(frame)) \in Nat
    BY ScriptType
  <1> QED BY <1>2, <1>3, <1>5, <1>6 DEF Descending, Inside, Script

LEMMA NestingTurns ==
  ASSUME RunnerInvariant, EndChoice \/ EndRun \/ Asking \/ Commit \/ Abort \/ Raise
  PROVE  Descending' /\ Inside'
  <1>1. \/ frames' = <<>>
        \/ \E frame \in Frame : frames' = <<frame>> /\ frame.at = 1
    <2>1. CASE Asking
      <3>1. PICK f \in Flow : frames' = <<Start(f, "does", FALSE)>>
        BY <2>1, AskStep
      <3> QED BY <3>1, StartType DEF Parts
    <2> QED BY <2>1, EndChoiceStep, EndRunStep, OverStep DEF Idle
  <1>2. CASE frames' = <<>>
    BY <1>2, EmptySeq DEF Descending, Inside
  <1>3. ASSUME NEW frame \in Frame, frames' = <<frame>>, frame.at = 1
        PROVE  Descending' /\ Inside'
    <2>1. Len(frames') = 1 /\ Top' = frame
      BY <1>3, OneTop
    <2>2. Len(Script(frame)) \in Nat
      BY ScriptType
    <2> QED BY <1>3, <2>1, <2>2 DEF Descending, Inside, Script
  <1> QED BY <1>1, <1>2, <1>3

LEMMA NestingNext ==
  (EnteredRule /\ NestingRule) /\ RunnerInvariant /\ NestingInvariant /\ [Next]_vars
    => NestingInvariant'
  <1> SUFFICES ASSUME EnteredRule, NestingRule, RunnerInvariant, NestingInvariant, [Next]_vars
               PROVE  NestingInvariant'
    OBVIOUS
  <1>1. FramesTraced'
    BY TraceNext DEF NestingInvariant
  <1>2. CASE UNCHANGED vars
    BY <1>2 DEF vars, NestingInvariant, FramesTraced, Top, Script
  <1>3. CASE \/ ShowText \/ AttachButtons \/ OfferServices \/ PassStep \/ MarkPending
             \/ SaveInterest \/ Confirm \/ Release \/ Exclude
             \/ Notify \/ ShareContact \/ NotifyPrevious
    <2>1. Extends
      BY <1>3, QuietStep, EffectStep, ContactStep
    <2>2. \E types : Doing(types)
      BY <1>3 DEF ShowText, AttachButtons, OfferServices, PassStep, MarkPending, SaveInterest,
                  Confirm, Release, Exclude, Notify, ShareContact, NotifyPrevious
    <2>3. Descending' /\ Inside'
      BY <2>1, <2>2, NestingExtends
    <2> QED BY <1>1, <2>3 DEF NestingInvariant, Descending, Inside
  <1>4. CASE Searching \/ Attending \/ Fail \/ EndFlow
    <2>1. frames # <<>>
      BY <1>4, EmittingStep, FailStep, EndFlowStep DEF Doing, Running
    <2>2. \/ \E key : Hands(key)
          \/ \E key : \E g \in EventChild(Top, key) : \E rec \in BOOLEAN : HandTo(g, rec)
          \/ frames' = Popped
      BY <1>4, EmittingStep, FailStep, EndFlowStep
    <2>3. Descending' /\ Inside'
      BY <2>1, <2>2, NestingHands
    <2> QED BY <1>1, <2>3 DEF NestingInvariant, Descending, Inside
  <1>5. CASE EnterRoot \/ ReturnNow
    BY <1>1, <1>5, NestingOpens DEF NestingInvariant, Descending, Inside
  <1>6. CASE EndChoice \/ EndRun \/ Asking \/ Commit \/ Abort \/ Raise
    BY <1>1, <1>6, NestingTurns DEF NestingInvariant, Descending, Inside
  <1> QED BY <1>2, <1>3, <1>4, <1>5, <1>6, Groups

LEMMA NestingInit == Init => NestingInvariant
  <1> SUFFICES ASSUME Init PROVE NestingInvariant
    OBVIOUS
  <1>1. frames = <<>> /\ Len(<<>>) = 0
    BY EmptySeq DEF Init
  <1> QED BY <1>1 DEF NestingInvariant, FramesTraced

LEMMA UpToThree == /\ \A n : n \in Nat /\ n <= 3 => n \in 0..3
                   /\ \A n : n \in 0..3 => n <= 3
  OBVIOUS

\* Every frame has something left, its end at least.
LEMMA RestFacts ==
  ASSUME RunnerInvariant, NestingInvariant
  PROVE  /\ Len(frames) \in 0..3
         /\ \A i \in Nat : Rest(i) \in Nat
         /\ \A i \in 1..Len(frames) : Rest(i) > 0
  <1>1. frames \in Seq(Frame) /\ Len(frames) \in Nat /\ Nested(frames)
    BY DEF RunnerInvariant, TypeOK
  <1>2. Len(frames) <= 3
    <2> SUFFICES ASSUME Len(frames) > 3 PROVE FALSE
      BY <1>1
    <2>1. 1 \in 1..(Len(frames) - 1) /\ 2 \in 1..(Len(frames) - 1) /\ 3 \in 1..(Len(frames) - 1)
      BY <1>1
    <2>2. /\ Level(frames[2]) < Level(frames[1]) /\ Level(frames[3]) < Level(frames[2])
          /\ Level(frames[4]) < Level(frames[3])
      BY <2>1 DEF NestingInvariant
    <2> QED BY <2>2, LevelBounds
  <1>3. ASSUME NEW i \in 1..Len(frames)
        PROVE  /\ frames[i].at \in Nat /\ Len(Script(frames[i])) \in Nat
               /\ frames[i].at <= Len(Script(frames[i])) + 1
    <2>1. frames[i] \in Frame
      BY <1>1
    <2>2. frames[i].at \in Nat /\ Len(Script(frames[i])) \in Nat
      BY <2>1, ScriptType DEF Frame
    <2>3. CASE i = Len(frames)
      <3>1. frames # <<>>
        BY <1>1, <2>3, EmptySeq
      <3> QED BY <2>2, <2>3, <3>1 DEF NestingInvariant, Top
    <2>4. CASE i # Len(frames)
      <3>1. i \in 1..(Len(frames) - 1)
        BY <1>1, <1>3, <2>4
      <3> QED BY <1>1, <2>2, <3>1 DEF Nested, Suspended
    <2> QED BY <2>2, <2>3, <2>4
  <1>4. ASSUME NEW i \in 1..Len(frames) PROVE Rest(i) \in Nat /\ Rest(i) > 0
    BY <1>3, <1>4 DEF Rest
  <1>5. ASSUME NEW i \in Nat PROVE Rest(i) \in Nat
    <2>1. CASE i \in 1..Len(frames)
      BY <1>4, <2>1
    <2>2. CASE i \notin 1..Len(frames)
      BY <2>2 DEF Rest
    <2> QED BY <2>1, <2>2
  <1>6. Len(frames) \in 0..3
    <2>1. Len(frames) \in Nat
      BY <1>1
    <2> QED BY <1>2, <2>1, UpToThree
  <1>7. \A i \in Nat : Rest(i) \in Nat
    BY <1>5
  <1>8. \A i \in 1..Len(frames) : Rest(i) > 0
    BY <1>4
  <1> QED BY <1>6, <1>7, <1>8

\* A step of the topmost run leaves less of it, and of those below it the same.
LEMMA Shorter ==
  ASSUME RunnerInvariant, NestingInvariant, frames # <<>>,
         \A i \in 1..(Len(frames) - 1) : i \in 1..Len(frames') /\ frames'[i] = frames[i],
         \/ Len(frames') = Len(frames) - 1
         \/ /\ Len(frames) \in 1..Len(frames')
            /\ frames'[Len(frames)].at = Top.at + 1
            /\ Script(frames'[Len(frames)]) = Script(Top)
  PROVE  Shortens
  <1>0. Len(frames) \in 1..3
    BY RestFacts, TopFacts
  <1>1. PICK n \in 1..3 : n = Len(frames)
    BY <1>0
  <1>2. n \in 1..n /\ n \in Nat /\ Top = frames[n]
    BY <1>1, TopFacts
  <1>3. Rest(n) \in Nat /\ Rest(n) > 0
    BY <1>1, <1>2, RestFacts
  <1>4. Rest(n)' < Rest(n)
    <2>1. CASE Len(frames') = n - 1
      <3>1. n \notin 1..Len(frames')
        BY <2>1
      <3> QED BY <1>3, <3>1 DEF Rest
    <2>2. CASE /\ n \in 1..Len(frames') /\ frames'[n].at = Top.at + 1
               /\ Script(frames'[n]) = Script(Top)
      <3>1. Len(Script(Top)) \in Nat /\ Top.at \in Nat
        BY <1>0, TopFacts
      <3>2. Rest(n)' = Len(Script(Top)) + 2 - (Top.at + 1)
        BY <2>2 DEF Rest, Script
      <3>3. Rest(n) = Len(Script(Top)) + 2 - Top.at
        BY <1>1, <1>2 DEF Rest
      <3> QED BY <3>1, <3>2, <3>3
    <2> QED BY <1>1, <2>1, <2>2
  <1>5. ASSUME NEW j \in 1..(n - 1) PROVE Rest(j)' = Rest(j)
    <2>1. j \in 1..Len(frames) /\ j \in 1..Len(frames') /\ frames'[j] = frames[j]
      BY <1>1, <1>5
    <2> QED BY <2>1 DEF Rest, Script
  <1> QED BY <1>4, <1>5 DEF Shortens

LEMMA StepsShorten ==
  ASSUME RunnerInvariant, NestingInvariant, frames # <<>>,
         \/ frames' = Advanced
         \/ frames' = Popped
         \/ \E frame \in Frame : frames' = Append(Advanced, frame)
  PROVE  Shortens
  <1>1. /\ Stack(frames) /\ Len(frames) \in Nat \ {0} /\ Top \in Frame
        /\ Top = frames[Len(frames)]
    BY TopFacts
  <1>2. /\ Advanced \in Seq(Frame) /\ Len(Advanced) = Len(frames)
        /\ \A i \in 1..(Len(frames) - 1) : Advanced[i] = frames[i]
        /\ Advanced[Len(frames)] = [Top EXCEPT !.at = @ + 1]
    BY <1>1, AdvancedStack DEF Stack
  <1>3. /\ [Top EXCEPT !.at = @ + 1].at = Top.at + 1
        /\ Script([Top EXCEPT !.at = @ + 1]) = Script(Top)
    BY <1>1, NextAction
  <1>4. CASE frames' = Advanced
    <2>1. \A i \in 1..(Len(frames) - 1) : i \in 1..Len(frames') /\ frames'[i] = frames[i]
      BY <1>1, <1>2, <1>4
    <2>2. Len(frames) \in 1..Len(frames')
      BY <1>1, <1>2, <1>4
    <2>3. frames'[Len(frames)] = [Top EXCEPT !.at = @ + 1]
      BY <1>2, <1>4
    <2>4. /\ frames'[Len(frames)].at = Top.at + 1
          /\ Script(frames'[Len(frames)]) = Script(Top)
      BY <1>3, <2>3
    <2> QED BY <2>1, <2>2, <2>4, Shorter
  <1>5. CASE frames' = Popped
    <2>1. /\ Len(frames') = Len(frames) - 1
          /\ \A i \in 1..(Len(frames) - 1) : frames'[i] = frames[i]
      BY <1>5, PoppedTop
    <2>2. \A i \in 1..(Len(frames) - 1) : i \in 1..Len(frames') /\ frames'[i] = frames[i]
      BY <1>1, <2>1
    <2> QED BY <2>1, <2>2, Shorter
  <1>6. ASSUME NEW frame \in Frame, frames' = Append(Advanced, frame) PROVE Shortens
    <2>1. /\ Len(frames') = Len(frames) + 1
          /\ \A i \in 1..Len(frames) : frames'[i] = Advanced[i]
      BY <1>1, <1>2, <1>6
    <2>2. \A i \in 1..(Len(frames) - 1) : i \in 1..Len(frames') /\ frames'[i] = frames[i]
      BY <1>1, <1>2, <2>1
    <2>3. Len(frames) \in 1..Len(frames') /\ Len(frames) \in 1..Len(frames)
      BY <1>1, <2>1
    <2>4. frames'[Len(frames)] = [Top EXCEPT !.at = @ + 1]
      BY <1>2, <2>1, <2>3
    <2>5. /\ frames'[Len(frames)].at = Top.at + 1
          /\ Script(frames'[Len(frames)]) = Script(Top)
      BY <1>3, <2>4
    <2> QED BY <2>2, <2>3, <2>5, Shorter
  <1> QED BY <1>4, <1>5, <1>6

\* A hand-over goes down the tree.
LEMMA HandsDescend ==
  ASSUME RunnerInvariant, NestingInvariant, EnteredRule, frames # <<>>,
         NEW height \in Heights, NEW key,
         NEW g \in EventChild(Top, key), NEW rec \in BOOLEAN, HandTo(g, rec)
  PROVE  height[Last'] < height[Last]
  <1>1. /\ g \in Flow /\ Parent[g] = Top.flow /\ Top.flow = Last
        /\ executed' = Append(executed, g)
    BY HandedFrame DEF NestingInvariant, Last
  <1>2. Last' = g
    BY <1>1, LastAppended DEF Last
  <1>3. Top.flow \in Flow /\ Top.flow # NoFlow
    BY TopFacts, DocumentAssumption DEF Frame
  <1> QED BY <1>1, <1>2, <1>3 DEF Heights

LEMMA RunDescends ==
  ASSUME EnteredRule, NestingRule, RunnerInvariant, NestingInvariant,
         NEW height \in Heights, Act
  PROVE  Raise \/ Descends(height)
  <1>1. CASE \/ ShowText \/ AttachButtons \/ OfferServices \/ PassStep \/ MarkPending
             \/ SaveInterest \/ Confirm \/ Release \/ Exclude
             \/ Notify \/ ShareContact \/ NotifyPrevious
    <2>1. Extends
      BY <1>1, QuietStep, EffectStep, ContactStep
    <2>2. Shortens
      BY <2>1, StepsShorten DEF Extends
    <2> QED BY <2>1, <2>2 DEF Extends, Descends, Stage, Last
  <1>2. CASE Searching \/ Attending \/ Fail
    <2>1. frames # <<>> /\ task' = task
      BY <1>2, EmittingStep, FailStep DEF Doing, Running
    <2>2. \/ \E key : \E g \in EventChild(Top, key) : \E rec \in BOOLEAN : HandTo(g, rec)
          \/ frames' = Popped /\ executed' = executed
      BY <1>2, EmittingStep, FailStep DEF Hands
    <2>3. CASE frames' = Popped /\ executed' = executed
      BY <2>1, <2>3, StepsShorten DEF Descends, Stage, Last
    <2> QED BY <2>1, <2>2, <2>3, HandsDescend DEF Descends, Stage
  <1>3. CASE EndFlow
    BY <1>3, EndFlowStep, StepsShorten DEF Descends, Stage, Last
  <1>4. CASE EnterRoot \/ ReturnNow
    <2>1. frames # <<>> /\ UNCHANGED <<task, executed>>
      BY <1>4, OpeningStep DEF Doing, Running
    <2>2. Shortens
      BY <1>4, <2>1, OpeningStep, StepsShorten
    <2> QED BY <2>1, <2>2 DEF Descends, Stage, Last
  <1>5. CASE EndChoice
    BY <1>5 DEF EndChoice, Descends, Stage
  <1>6. CASE EndRun
    BY <1>6 DEF EndRun, Descends, Stage
  <1> QED BY <1>1, <1>2, <1>3, <1>4, <1>5, <1>6 DEF Act, Searching, Attending

LEMMA NestingGives == RunnerInvariant /\ NestingInvariant => Bounded
  <1> SUFFICES ASSUME RunnerInvariant, NestingInvariant PROVE Bounded
    OBVIOUS
  <1>1. Len(frames) \in 0..3
    BY RestFacts
  <1>2. \A i \in Nat : Rest(i) \in Nat
    BY RestFacts
  <1>3. \A i \in 1..3 : Rest(i) \in Nat
    BY <1>2
  <1>4. Len(frames) <= 3
    BY <1>1, UpToThree
  <1> QED BY <1>3, <1>4 DEF Bounded

\* Documents in which only the latecomers' root enters another one: no run is
\* nested more than twice, ...
THEOREM NestingBounded ==
  ASSUME EnteredRule, NestingRule PROVE Spec => []Bounded
  <1>1. Init => NestingInvariant
    BY NestingInit
  <1>2. RunnerInvariant /\ NestingInvariant /\ [Next]_vars => NestingInvariant'
    BY NestingNext
  <1>3. RunnerInvariant /\ NestingInvariant => Bounded
    BY NestingGives
  <1> QED BY <1>1, <1>2, <1>3, Invariant, PTL DEF Spec

\* ... and every step of a dispatch, whatever it emits, enters or fails at, leaves
\* less to run.
THEOREM DispatchDescends ==
  ASSUME EnteredRule, NestingRule, NEW height \in Heights
  PROVE  Spec => [][Act => Raise \/ Descends(height)]_vars
  <1>1. Init => NestingInvariant
    BY NestingInit
  <1>2. RunnerInvariant /\ NestingInvariant /\ [Next]_vars => NestingInvariant'
    BY NestingNext
  <1>3. RunnerInvariant /\ NestingInvariant => [Act => Raise \/ Descends(height)]_vars
    BY RunDescends
  <1> QED BY <1>1, <1>2, <1>3, Invariant, PTL DEF Spec
=============================================================================
