------------------------------ MODULE Documents ------------------------------
(***************************************************************************)
(* The flow documents shipped with the bot (seeds/system_global.py and     *)
(* seeds/services/zone_x.py) as data: the tree of flows of each root, how  *)
(* each flow is chosen, and the actions it runs.  The words are left out;  *)
(* keys lose their common prefix.                                          *)
(***************************************************************************)
EXTENDS Naturals, Sequences

NoParent == "no flow"

\* Triggers.
Says == <<"message">>
Button(id) == <<"button", id>>
Event(key) == <<"action_event", key>>

\* Actions, with the identifiers of the buttons they show.
Do(type) == [type |-> type, buttons |-> {}]
Paraphrased == Do("send_message_paraphrased")
Llm == Do("send_message_llm")
Fixed == Do("send_message_fixed")
Photo == Do("send_photo")
Buttons(ids) == [type |-> "send_buttons", buttons |-> ids]
Choices(id) == [type |-> "send_service_choice_buttons", buttons |-> {id}]

\* Flows: a document of each shape.
Doc(key, parent, mode, on, does, back, answer) ==
  [key |-> key, parent |-> parent, mode |-> mode, on |-> on,
   does |-> does, back |-> back, answer |-> answer]
Once(key, parent, on, does) == Doc(key, parent, "once", on, does, <<>>, FALSE)
Many(key, parent, on, does) == Doc(key, parent, "many", on, does, <<>>, FALSE)
Answer(key, parent, on, does) == Doc(key, parent, "many", on, does, <<>>, TRUE)
CheckpointRoot(key, does, back) == Doc(key, NoParent, "checkpoint", {}, does, back, FALSE)

-----------------------------------------------------------------------------
(* The service: zone_x.py.                                                 *)

ServiceMenu == Buttons({"zone_x.menu.directions", "zone_x.menu.expect",
                        "zone_x.menu.connect", "zone_x.menu.change_service"})

HomeFlows == {
  CheckpointRoot("home", <<Paraphrased, ServiceMenu>>, <<Paraphrased, ServiceMenu>>),
  Many("directions", "home", {Button("zone_x.menu.directions"), Says}, <<Paraphrased, Fixed>>),
  Answer("what_to_expect", "home", {Button("zone_x.menu.expect"), Says}, <<Paraphrased>>) }

ConnectFlows == {
  Once("connect.start", "home", {Button("zone_x.menu.connect"), Says}, <<Paraphrased>>),
  Once("connect.capture_interest", "connect.start", {Says},
       <<Do("save_incoming"), Do("show_activity"), Do("find_and_reserve_server")>>),
  Once("connect.match_found", "connect.capture_interest", {Event("human_match.found")},
       <<Paraphrased, Buttons({"zone_x.connect.join_group", "zone_x.connect.join_me"})>>),
  Once("connect.no_match", "connect.capture_interest", {Event("human_match.not_found")},
       <<Paraphrased>>) }

\* One way of meeting, and the search for somebody else, chosen by "reported".
Meeting(key, button, reported) == {
  Many(key, "connect.match_found", {Button(button)},
       <<Do("confirm_human_match"), Do("notify_matched_human"), Do("share_human_contact"),
         Paraphrased>>),
  Once(key \o ".not_responding", key, {reported},
       <<Do("release_human_match"), Do("notify_previous_human"),
         Do("exclude_previous_human_from_next_attempt"), Do("show_activity"),
         Do("find_and_reserve_server")>>),
  Once(key \o ".rematch_found", key \o ".not_responding", {Event("human_match.found")},
       <<Do("notify_matched_human"), Do("share_human_contact")>>),
  Once(key \o ".rematch_not_found", key \o ".not_responding", {Event("human_match.not_found")},
       <<Paraphrased>>) }

JoinGroupFlows == Meeting("connect.join_group", "zone_x.connect.join_group", Says)
JoinMeFlows == Meeting("connect.join_me", "zone_x.connect.join_me", Says)

\* A selected attendance, and where its three outcomes lead.
Attendance(key, parent, on) == {
  Once(key, parent, {on}, <<Do("select_service_attendance")>>),
  Once(key \o ".selected", key, {Event("service_attendance.selected")},
       <<Do("enter_selected_service_checkpoint")>>),
  Once(key \o ".latecomer", key, {Event("service_attendance.latecomer")},
       <<Do("enter_selected_service_latecomer_flow")>>),
  Once(key \o ".ended", key, {Event("service_attendance.ended")}, <<Paraphrased>>) }

ChangeServiceFlows == {
  Once("change_service", "home", {Button("zone_x.menu.change_service"), Says},
       <<Do("resolve_service_switch_options")>>),
  Once("change_service.choice_required", "change_service",
       {Event("service_attendance.choice_required")}, <<Choices("service.attendance.select")>>),
  Once("change_service.none_available", "change_service",
       {Event("service_attendance.none_available")}, <<Paraphrased>>) }
SwitchFlows ==
  Attendance("change_service.select", "change_service.choice_required",
             Button("service.attendance.select"))

LatecomerFlows == {
  Many("latecomer", NoParent, {},
       <<Do("add_service_attendance"), Do("enter_service_checkpoint"), Paraphrased>>) }

MarketingFlows == {
  CheckpointRoot("marketing",
       <<Photo, Buttons({"zone_x.marketing.what_to_expect", "zone_x.marketing.directions"})>>,
       <<Paraphrased>>),
  Once("marketing.expect", "marketing", {Button("zone_x.marketing.what_to_expect")}, <<Paraphrased>>),
  Once("marketing.directions", "marketing", {Button("zone_x.marketing.directions")}, <<Fixed>>) }

OneDayBeforeFlows == {
  CheckpointRoot("one_day_before", <<Paraphrased, Fixed>>, <<Paraphrased>>) }

DoorsOpenFlows ==
  { Once("doors_open", NoParent, {}, <<Paraphrased>>) }
    \cup Attendance("doors_open.check_in", "doors_open", Says)

QuestionMenu == Buttons({"zone_x.service.toilet", "zone_x.service.who_is_jesus"})

ServiceQuestionFlows == {
  CheckpointRoot("service_questions", <<Paraphrased, QuestionMenu>>, <<Paraphrased, QuestionMenu>>),
  Answer("toilet", "service_questions", {Button("zone_x.service.toilet"), Says}, <<Paraphrased>>),
  Answer("who_is_jesus", "service_questions", {Button("zone_x.service.who_is_jesus"), Says},
         <<Paraphrased>>),
  Answer("unknown_question", "service_questions", {Says}, <<Paraphrased>>) }

AfterServiceFlows == {
  CheckpointRoot("after_service",
       <<Paraphrased, Buttons({"zone_x.after.connect", "zone_x.after.ask"})>>, <<Paraphrased>>),
  Many("after.connect", "after_service", {Button("zone_x.after.connect")}, <<Paraphrased>>),
  Many("after.ask", "after_service", {Button("zone_x.after.ask")}, <<Paraphrased>>) }

ThankYouFlows == { Many("thank_you", NoParent, {}, <<Paraphrased>>) }

InteractionEndsFlows == {
  Once("interaction_ends", NoParent, {}, <<Paraphrased, Do("end_service_interactions")>>) }
-----------------------------------------------------------------------------
(* The system root: system_global.py.                                      *)

MainMenu == Buttons({"system.global.menu.timings", "system.global.menu.directions",
                     "system.global.menu.expect", "system.global.menu.zone",
                     "system.global.menu.connect"})

SystemRoot == {
  CheckpointRoot("system", <<Paraphrased, MainMenu>>, <<Paraphrased, MainMenu>>) }

AdministrativeFlows == {
  Once("never_mind", "system", {Says}, <<Do("return_to_nearest_checkpoint")>>),
  Once("system.thank_you", "system", {Says}, <<Paraphrased>>),
  Many("possible_options", "system", {Says}, <<Paraphrased>>) }

SafetyFlows == {
  Once("safety", "system", {Says},
       <<Paraphrased, Do("show_activity"), Do("find_and_reserve_safety_responder")>>),
  Once("safety.responder_found", "safety", {Event("safety_match.found")},
       <<Do("notify_matched_human"), Do("share_human_contact")>>),
  Once("safety.no_responder", "safety", {Event("safety_match.not_found")},
       <<Paraphrased, Do("notify_all_admins"), Do("mark_safety_request_pending")>>) }

InformationFlows == {
  Answer("information.ncc", "system", {Says}, <<Llm>>),
  Answer("information.beliefs", "system", {Says}, <<Llm>>),
  Answer("information.zone", "system",
         {Button("system.global.menu.timings"), Button("system.global.menu.zone"), Says}, <<Llm>>),
  Answer("information.zone.timings", "system",
         {Button("system.global.menu.timings"), Says}, <<Fixed>>),
  Answer("information.directions.star", "system",
         {Button("system.global.menu.directions"), Says}, <<Llm, Fixed>>) }

MenuFlows == {
  Answer("menu.expect", "system", {Button("system.global.menu.expect"), Says}, <<Paraphrased>>),
  Answer("menu.connect", "system", {Button("system.global.menu.connect"), Says}, <<Fixed>>) }

\* Questions answered with one paraphrased text each.
Topics(keys) == {Answer(k, "system", {Says}, <<Paraphrased>>) : k \in keys}

VisitTopics == Topics({"handicap_assistance", "arrival.first_visit", "arrival.registration",
  "arrival.guest", "arrival.late", "travel.bus", "travel.drive", "travel.entrance",
  "travel.accessibility", "expect.programme", "expect.language", "expect.sensory",
  "expect.participation"})
PeopleTopics == Topics({"community.meet_someone", "community.socials", "community.serve",
  "community.contact_after", "faith.jesus", "faith.christianity", "faith.follow_jesus",
  "faith.bible_baptism", "faith.prayer", "faith.personal_question", "support.personal"})
VenueTopics == Topics({"venue.toilet", "venue.food_water", "venue.wifi_charging",
  "venue.lost_property", "venue.medical", "policy.privacy", "policy.photos",
  "policy.parental_consent", "policy.safeguarding", "help.unanswered"})

SmallGroupFlows == {
  Many("small_group", "system", {Says}, <<Paraphrased>>),
  Answer("small_group.follow_up", "small_group", {Says}, <<Paraphrased>>) }
-----------------------------------------------------------------------------
ServiceDocuments ==
  HomeFlows \cup ConnectFlows \cup JoinGroupFlows \cup JoinMeFlows \cup ChangeServiceFlows
    \cup SwitchFlows \cup LatecomerFlows \cup MarketingFlows \cup OneDayBeforeFlows
    \cup DoorsOpenFlows \cup ServiceQuestionFlows \cup AfterServiceFlows \cup ThankYouFlows
    \cup InteractionEndsFlows

SystemDocuments ==
  SystemRoot \cup AdministrativeFlows \cup SafetyFlows \cup InformationFlows \cup MenuFlows
    \cup VisitTopics \cup PeopleTopics \cup VenueTopics \cup SmallGroupFlows

Shipped == ServiceDocuments \cup SystemDocuments
=============================================================================
