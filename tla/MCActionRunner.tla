--------------------------- MODULE MCActionRunner ---------------------------
(* An instance of ActionRunner for TLC: flows of the shipped documents,    *)
(* where "not responding" is also a button, as the service example draws   *)
(* it, and a search and the change of a service have handlers of errors,   *)
(* which have such a handler themselves.                                   *)
EXTENDS AuthoringRules, Publication

CONSTANTS Topic,     \* keys of the shipped flows to leave in
          Useful,    \* identifiers of the buttons to leave in
          s1, s2, l1 \* servers, and a leader

NotResponding == "zone_x.connect.not_responding"

\* A handler of the errors of a flow, and one of its own errors.
Handlers(f) == {
  Once(f \o ".error", f, {Event("error")}, <<Do("show_activity"), Paraphrased>>),
  Once(f \o ".error.error", f \o ".error", {Event("error")}, <<Paraphrased>>) }
Recovering == {"connect.capture_interest", "change_service"}

Revised(d) ==
  CASE d.key = "connect.join_group" ->
         [d EXCEPT !.does = Append(@, Buttons({NotResponding}))]
    [] d.key = "connect.join_group.not_responding" ->
         [d EXCEPT !.on = @ \cup {Button(NotResponding)}]
    [] OTHER -> d

Document == {Revised(d) : d \in {e \in Shipped : e.key \in Topic}} \cup
            UNION {Handlers(f) : f \in Topic \cap Recovering}
Of(f) == CHOOSE d \in Document : d.key = f

MCFlow == {d.key : d \in Document}

Trim(actions) == [i \in 1..Len(actions) |-> [actions[i] EXCEPT !.buttons = @ \cap Useful]]

MCParent == [f \in MCFlow |-> Of(f).parent]
MCMode == [f \in MCFlow |-> Of(f).mode]
MCOn == [f \in MCFlow |-> Of(f).on]
MCDoes == [f \in MCFlow |-> Trim(Of(f).does)]
MCBack == [f \in MCFlow |-> Trim(Of(f).back)]
MCAnswer == {f \in MCFlow : Of(f).answer}
MCNearest ==
  LET nearest[f \in MCFlow] ==
        IF Of(f).mode = "checkpoint" THEN f
        ELSE IF Of(f).parent = NoParent THEN NoParent ELSE nearest[Of(f).parent]
  IN  nearest
MCPool == [normal |-> {s1, s2}, safety |-> {l1}]
MCOfService == MCFlow \ {d.key : d \in SystemDocuments}

-----------------------------------------------------------------------------
(* The authoring rules, on these flows and on every shipped one but that of *)
(* the closing of a service, whose action belongs to ServiceLifecycle.     *)

ASSUME RulesKept == Rules

Everything == {d.key : d \in Shipped} \ {"interaction_ends"}
Entry(f) == CHOOSE d \in Shipped : d.key = f
AllNearest ==
  LET nearest[f \in Everything] ==
        IF Entry(f).mode = "checkpoint" THEN f
        ELSE IF Entry(f).parent = NoParent THEN NoParent ELSE nearest[Entry(f).parent]
  IN  nearest

Whole == INSTANCE AuthoringRules
  WITH Flow <- Everything,
       Parent <- [f \in Everything |-> Entry(f).parent],
       Mode <- [f \in Everything |-> Entry(f).mode],
       On <- [f \in Everything |-> Entry(f).on],
       Does <- [f \in Everything |-> Entry(f).does],
       Back <- [f \in Everything |-> Entry(f).back],
       Answers <- {f \in Everything : Entry(f).answer},
       Nearest <- AllNearest,
       OfService <- Everything \ {d.key : d \in SystemDocuments}

ASSUME ShippedAsAssumed ==
  Whole!DocumentAssumption /\ Whole!NearestAssumption /\ Whole!PeopleAssumption
ASSUME ShippedKeepRules == Whole!Rules

\* No flow is its own ancestor: a height can be given to each.
AllHeights ==
  LET height[f \in Everything] ==
        IF Entry(f).parent = NoParent THEN Cardinality(Everything) ELSE height[Entry(f).parent] - 1
  IN  height
ASSUME ShippedHaveHeights == AllHeights \in Whole!Heights

\* They are published, so that two of the rules need no author's care.
ASSUME ShippedArePublished ==
  Whole!Published({{d \in Shipped : RootOf[d] = r} : r \in {RootOf[Entry(f)] : f \in Everything}},
                  [f \in Everything |-> Entry(f)])
=============================================================================
