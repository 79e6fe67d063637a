----------------------------- MODULE Publication -----------------------------
(***************************************************************************)
(* The rules a root is held to before it is published                      *)
(* (domain/publication.py), and the shipped documents under them.  The     *)
(* runner counts on these rules: an event is the last thing a script does, *)
(* and has one child to go to.                                             *)
(***************************************************************************)
EXTENDS Documents, FiniteSets, Functions

\* declared_event_keys of each action.
EventKeys(type) ==
  CASE type = "select_service_attendance" ->
         {"service_attendance.selected", "service_attendance.latecomer", "service_attendance.ended"}
    [] type = "resolve_service_switch_options" ->
         {"service_attendance.choice_required", "service_attendance.none_available"}
    [] type = "find_and_reserve_server" -> {"human_match.found", "human_match.not_found"}
    [] type = "find_and_reserve_safety_responder" -> {"safety_match.found", "safety_match.not_found"}
    [] OTHER -> {}

Presentations ==
  {"send_message_paraphrased", "send_message_llm", "send_message_fixed", "send_buttons", "send_photo"}

\* The flows of a root, and what they are to one another.
Root(D) == CHOOSE d \in D : d.parent = NoParent
Children(D, d) == {c \in D : c.parent = d.key}
Declared(d) == UNION {EventKeys(a.type) : a \in Range(d.does) \cup Range(d.back)}

UniqueKeys(D) == \A c, d \in D : c.key = d.key => c = d

ValidRoot(D, kind) ==
  /\ Root(D).on = {}
  /\ kind \in {"system", "service"} => Root(D).mode = "checkpoint"

ValidAnswer(D, d) ==
  /\ Children(D, d) = {} /\ d.back = <<>>
  /\ \A a \in Range(d.does) : a.type \in Presentations

ValidShape(D, d) ==
  /\ d # Root(D) => d.on # {}
  /\ d.back # <<>> => d.mode = "checkpoint"
  /\ d.answer => ValidAnswer(D, d)

\* What emits an event comes last.
ValidActions(actions) == \A i \in 1..(Len(actions) - 1) : EventKeys(actions[i].type) = {}

\* Each event that is declared has one direct handler, and no other has any.
ValidHandlers(D, d) ==
  LET handled(k) == {c \in Children(D, d) : c.on = {Event(k)}} IN
  /\ \A k \in Declared(d) : Cardinality(handled(k)) = 1
  /\ \A c \in Children(D, d) : \A t \in c.on :
       c.on = {t} /\ t[1] = "action_event" => t[2] \in Declared(d) \cup {"error"}
  /\ Cardinality(handled("error")) <= 1

Publishable(D, kind) ==
  /\ UniqueKeys(D)
  /\ ValidRoot(D, kind)
  /\ \A d \in D :
       /\ ValidShape(D, d)
       /\ ValidActions(d.does) /\ ValidActions(d.back)
       /\ ValidHandlers(D, d)
-----------------------------------------------------------------------------
RootKind(d) == CASE d.key = "system" -> "system" [] d.key = "home" -> "service" [] OTHER -> "timestamp"

RootOf ==
  LET root[d \in Shipped] ==
        IF d.parent = NoParent THEN d ELSE root[CHOOSE e \in Shipped : e.key = d.parent]
  IN  root

\* Everything that is shipped can be published, and a choice has one name even
\* across roots, which are on offer together.
ASSUME ShippedArePublishable ==
  /\ UniqueKeys(Shipped)
  /\ \A r \in Range(RootOf) : Publishable({d \in Shipped : RootOf[d] = r}, RootKind(r))

\* What publication does not ask: every button that is shown chooses one flow.  One
\* chooses two, and pressing it does nothing.
Shown == UNION {a.buttons : a \in UNION {Range(d.does) \cup Range(d.back) : d \in Shipped}}
ChosenBy(b) == {d \in Shipped : Button(b) \in d.on}

ASSUME OneDeadButton ==
  {b \in Shown : Cardinality(ChosenBy(b)) # 1} = {"system.global.menu.timings"}
=============================================================================
