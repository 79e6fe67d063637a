--------------------------- MODULE AuthoringRules ---------------------------
(***************************************************************************)
(* The properties of a reply in ActionRunner depend on what the documents  *)
(* make the runner do: that a contact is shared only after a notice, say,  *)
(* holds because every script shares after it has notified.  Here are the  *)
(* rules that authors keep, as predicates of the documents, and the        *)
(* invariants that follow from them at every step of a run.  Two of the    *)
(* rules, EventRule and AnswerRule, hold of whatever is published; nothing *)
(* in the code enforces the others.                                        *)
(***************************************************************************)
EXTENDS ActionRunner

\* The events an action may emit (declared_event_keys of each action).
Outcomes ==
  [find_and_reserve_server |-> {Found["normal"], NotFound["normal"]},
   find_and_reserve_safety_responder |-> {Found["safety"], NotFound["safety"]},
   select_service_attendance |->
     {"service_attendance.selected", "service_attendance.latecomer", "service_attendance.ended"},
   resolve_service_switch_options |->
     {"service_attendance.choice_required", "service_attendance.none_available"}]
Emitting == DOMAIN Outcomes
Searches == {Search[k] : k \in Kind}

\* Actions that show the guest something.
Voices == Texts \cup {"send_service_choice_buttons", "share_human_contact"}

\* Actions that run another script inside them.
Openings == Entries \cup {"return_to_nearest_checkpoint"}

\* Actions that change neither the match nor what is known of it.
Quiet == Texts \cup Steps \cup
         {"send_buttons", "send_service_choice_buttons", "mark_safety_request_pending"}

Types(actions) == {actions[i].type : i \in 1..Len(actions)}
Scripts == {Does[f] : f \in Flow} \cup {Back[f] : f \in Flow}

\* Nothing but quiet actions lies between an action of the type and the one at a
\* position: it has been run, or will be.
Since(actions, at, type) ==
  \E i \in 1..(at - 1) : /\ i <= Len(actions) /\ actions[i].type = type
                         /\ \A j \in (i + 1)..(at - 1) :
                              j <= Len(actions) /\ actions[j].type \in Quiet
Until(actions, at, type) ==
  \E i \in at..Len(actions) : /\ actions[i].type = type
                              /\ \A j \in at..(i - 1) : actions[j].type \in Quiet

OnEvent(f) == \E e \in On[f] : e[1] = "action_event"
Releasing(f) == "release_human_match" \in Types(Does[f])
ErrorChild(f, g) == Parent[g] = f /\ <<"action_event", "error">> \in On[g]

\* A flow that searches for nobody and hands over to nobody.
Calm(f) ==
  /\ Types(Does[f]) \cap Searches = {}
  /\ \A g \in Flow : Parent[g] = f => ~OnEvent(g)
-----------------------------------------------------------------------------
(* The rules.                                                              *)

\* A contact is shared right after the notice to whom it belongs.
ContactRule ==
  \A s \in Scripts : \A i \in 1..Len(s) :
    s[i].type = "share_human_contact" => Since(s, i, "notify_matched_human")

\* Answers have no flows below them.
AnswerRule == \A f \in Answers : Leaf(f)

\* The roots that are entered by an action have no children for events.
EnteredRule == \A g \in Flow : Parent[g] \in {Home, Latecomer} => ~OnEvent(g)

\* An event comes last in return actions, and has a child to go to elsewhere.
EventRule ==
  /\ \A f \in Flow : \A i \in 1..(Len(Back[f]) - 1) : Back[f][i].type \notin Emitting
  /\ \A f \in Flow : \A type \in Types(Does[f]) \cap Emitting : \A key \in Outcomes[type] :
       \E g \in Flow : Parent[g] = f /\ <<"action_event", key>> \in On[g]

\* Every flow shows something, opens a script or emits; every checkpoint that
\* something goes back to shows something.
VoiceRule ==
  /\ \A f \in Flow : Types(Does[f]) \cap (Voices \cup Openings \cup Emitting) # {}
  /\ \A f \in Flow : Nearest[f] # NoFlow => Types(Back[Nearest[f]]) \cap Voices # {}
  /\ Types(Back[System]) \cap Voices # {}

\* Whoever is released is told next.
FarewellRule ==
  \A s \in Scripts : \A i \in 1..Len(s) :
    s[i].type = "release_human_match" => Until(s, i + 1, "notify_previous_human")

\* Only a flow that the guest chooses releases: it works with the one context there
\* is.  A release in a root entered by an action, in a handler of an event or in
\* return actions would leave a context behind that still names who was released.
ContextRule ==
  /\ \A f \in Flow : Releasing(f) => f \notin {Home, Latecomer} /\ ~OnEvent(f)
  /\ \A f \in Flow : "release_human_match" \notin Types(Back[f])

\* A release comes first in its flow; it is followed by the farewell, and that by
\* the exclusion.
ReleaseRule ==
  /\ \A f \in Flow : \A i \in 1..Len(Does[f]) : Does[f][i].type = "release_human_match" =>
       \A j \in 1..(i - 1) : Does[f][j].type \in Quiet
  /\ \A s \in Scripts : \A i \in 1..Len(s) : s[i].type = "notify_previous_human" =>
       /\ Since(s, i, "release_human_match")
       /\ Until(s, i + 1, "exclude_previous_human_from_next_attempt")

\* Where a run goes when an exclusion fails, it does not search again.
CalmRule ==
  /\ Calm(Home) /\ Calm(Latecomer)
  /\ \A f, g \in Flow : Releasing(f) /\ ErrorChild(f, g) => Calm(g)
  /\ \A f \in Flow : Types(Back[f]) \cap Searches = {}

\* What is entered inside an action enters nothing, but that the latecomers' root
\* may enter home.
NestingRule ==
  /\ \A f \in Flow : Types(Back[f]) \cap Openings = {}
  /\ Types(Does[Home]) \cap Openings = {}
  /\ "enter_selected_service_latecomer_flow" \notin Types(Does[Latecomer])

Rules ==
  /\ ContactRule /\ AnswerRule /\ EnteredRule /\ EventRule /\ VoiceRule
  /\ FarewellRule /\ ContextRule /\ ReleaseRule /\ CalmRule /\ NestingRule
-----------------------------------------------------------------------------
(* What publication has to do with them.                                   *)

Rulebook == INSTANCE Publication

\* The flows are those of the trees, each of which publication has accepted.
Published(Trees, Document) ==
  /\ \A D \in Trees :
       /\ \E kind \in {"system", "service", "timestamp"} : Rulebook!Publishable(D, kind)
       /\ \A d \in D : /\ d.key \in Flow /\ Document[d.key] = d
                       /\ d.parent = NoFlow \/ \E e \in D : e.key = d.parent
  /\ \A f \in Flow :
       /\ Document[f].key = f /\ \E D \in Trees : Document[f] \in D
       /\ Parent[f] = Document[f].parent /\ On[f] = Document[f].on
       /\ Does[f] = Document[f].does /\ Back[f] = Document[f].back
       /\ f \in Answers <=> Document[f].answer
-----------------------------------------------------------------------------
(* What is so at every step of a run.                                      *)

\* Whoever a context retains holds the request in the database, through releases,
\* searches, failures and nested runs; so do the contexts of the callers, who will
\* go on with their own.
Current(c) == c.holder # Nobody => c.request # NoRequest /\ work.holder[c.request] = c.holder
ContextsCurrent == Current(knows) /\ \A i \in 1..Len(callers) : Current(callers[i])

\* A flow that the guest did not choose, or one that is not run for a choice.
Secondary(frame) ==
  frame.part = "back" \/ frame.flow \in {Home, Latecomer} \/ OnEvent(frame.flow)

ContextInvariant ==
  /\ RunnerInvariant
  /\ ContextsCurrent
  /\ \A i \in 1..Len(frames) : Secondary(frames[i]) \/ (i = 1 /\ Len(executed) = 1)

\* What the reply says so far, to whom and for which request, were it flushed.
Told == {<<Flushed[i].says, Flushed[i].to, Flushed[i].request>> : i \in 1..Len(Flushed)}

Ran(type) == frames # <<>> /\ Since(Script(Top), Top.at, type)
Ahead(type) == frames # <<>> /\ Until(Script(Top), Top.at, type)

\* Each contact comes after its notice; between the two the context retains whom
\* the notice went to.
NoticeFirst(reply) ==
  \A i \in 1..Len(reply) : reply[i].says = "contact" =>
    \E j \in 1..i : reply[j].says = "notice" /\ reply[j].to = reply[i].who
ContactInvariant ==
  /\ NoticeFirst(Flushed)
  /\ Ran("notify_matched_human") =>
       /\ knows.holder # Nobody
       /\ \E j \in 1..Len(buffer) : buffer[j].says = "notice" /\ buffer[j].to = knows.holder

\* The lowest frame runs the flow that was executed last, or goes back; above it
\* are only entered roots and checkpoints.
FramesTraced ==
  /\ frames # <<>> =>
       IF task = "return" THEN frames[1].part = "back"
       ELSE frames[1].part = "does" /\ frames[1].flow = executed[Len(executed)]
  /\ \A i \in 2..Len(frames) :
       frames[i].part = "back" \/ frames[i].flow \in {Home, Latecomer}

\* A failure has been answered as soon as it happened.
Answered ==
  \/ \E t \in Told : t[1] = "fallback"
  \/ \E i \in 2..Len(executed) : <<"action_event", "error">> \in On[executed[i]]

\* What was executed after the first flow hangs below it, so that a run that may
\* be followed by another one has executed one flow.
FailureInvariant ==
  /\ FramesTraced
  /\ turn = "idle" => failed = {}
  /\ turn # "idle" => task # "none"
  /\ task \in {"answer", "answered"} => executed[1] \in Answers
  /\ task = "completed" => Leaf(executed[1])
  /\ Len(executed) > 1 => ~Leaf(executed[1])
  /\ failed # {} => Answered
  /\ "handler" \in failed => \E t \in Told : t[1] = "fallback"

\* A frame that still has something to show, or somewhere to go that has.
Promises(frame) ==
  \E i \in frame.at..Len(Script(frame)) :
    Script(frame)[i].type \in
      (IF frame.part = "does" THEN Voices \cup Openings \cup Emitting ELSE Voices)

Voiced == \E t \in Told : t[2] = Guest
AnswerInvariant == turn # "idle" /\ ~Voiced => frames # <<>> /\ Promises(Top)

\* Whoever has lost the guest in this update was told, or is about to be.
DropInvariant ==
  turn # "idle" /\ failed = {} => \A k \in Kind :
    LET r == db.holder[k] IN
    r \notin {Nobody, work.holder[k]} =>
      \/ \E t \in Told : t[1] = "farewell" /\ t[2] = r
      \/ knows.previous = r /\ Ahead("notify_previous_human")

\* Notices and farewells are true.  A release is still to come only where nobody
\* was notified; whoever was told farewell is excluded, or about to be, or there
\* is no search to come.
Noticed == {t \in Told : t[1] = "notice"}
Parted == {t \in Told : t[1] = "farewell"}

ReleaseAhead ==
  frames # <<>> /\ \E i \in Top.at..Len(Script(Top)) : Script(Top)[i].type = "release_human_match"

Excluding(t) ==
  /\ Ahead("exclude_previous_human_from_next_attempt")
  /\ Len(frames) = 1 /\ Top.part = "does" /\ Releasing(Top.flow)
  /\ knows.request = t[3] /\ knows.previous = t[2]

Settling == \A i \in 1..Len(frames) : frames[i].part = "back" \/ Calm(frames[i].flow)

NoticeInvariant ==
  /\ FramesTraced
  /\ Len(executed) > 1 => OnEvent(executed[Len(executed)])
  /\ \A t \in Noticed : t[3] # NoRequest /\ work.holder[t[3]] = t[2]
  /\ \A t \in Parted :
       /\ t[3] # NoRequest /\ work.holder[t[3]] # t[2]
       /\ \/ t[2] \in work.excluded[t[3]]
          \/ turn = "button" /\ (Excluding(t) \/ Settling)
  /\ ReleaseAhead => knows.request = NoRequest \/ (turn = "button" /\ Noticed = {})
  /\ Ran("release_human_match") =>
       /\ turn = "button" /\ knows.request # NoRequest
       /\ work.holder[knows.request] = Nobody
-----------------------------------------------------------------------------
(* A run descends.                                                         *)

\* How deep a frame may still nest.
Level(frame) ==
  IF frame.part = "back" \/ frame.flow = Home THEN 0 ELSE IF frame.flow = Latecomer THEN 1 ELSE 2

NestingInvariant ==
  /\ FramesTraced
  /\ \A i \in 1..(Len(frames) - 1) : Level(frames[i + 1]) < Level(frames[i])
  /\ frames # <<>> => Top.at <= Len(Script(Top)) + 1

\* A height for every flow, above those of the flows below it.
Heights == {height \in [Flow -> Nat] :
              \A f \in Flow : Parent[f] # NoFlow => height[f] < height[Parent[f]]}

\* What is left to run: of the choice, below the flow that was executed last, and
\* in each nested run.
Stage == CASE task = "choice" -> 2 [] task \in {"answer", "return", "root"} -> 1 [] OTHER -> 0
Rest(i) == IF i \in 1..Len(frames) THEN Len(Script(frames[i])) + 2 - frames[i].at ELSE 0

\* No run is nested more than twice, whatever each has left.
Bounded == Len(frames) <= 3 /\ \A i \in 1..3 : Rest(i) \in Nat

Shortens == \E i \in 1..3 : Rest(i)' < Rest(i) /\ \A j \in 1..(i - 1) : Rest(j)' = Rest(j)

\* The first of these that changes becomes less.
Descends(height) ==
  \/ Stage' < Stage
  \/ /\ Stage' = Stage
     /\ \/ height[Last'] < height[Last]
        \/ Last' = Last /\ Shortens
=============================================================================
