---------------------------- MODULE ActionRunner ----------------------------
(***************************************************************************)
(* What happens to a guest's choice: the runner performs the actions of    *)
(* the chosen flow in order, an event they emit or a failure hands over to *)
(* a direct child, entering a root runs that root inside the action, a     *)
(* leaf goes back to its checkpoint, and everything shown on the way is    *)
(* collected and sent after the commit (actions/runner.py, context.py,     *)
(* executors.py, telegram/presentations.py and the dispatch of app.py).    *)
(*                                                                         *)
(* One guest is followed.  What an action reads beyond the state kept here *)
(* (template values, clocks, rows of others) is its freedom to fail.  The  *)
(* action that closes a service is part of ServiceLifecycle, and how rows  *)
(* are focused of Conversation.                                            *)
(***************************************************************************)
EXTENDS Naturals, Sequences, FiniteSets

CONSTANTS
  Flow,          \* flows of the published documents
  NoFlow,
  Parent,        \* the flow each is a next flow of, NoFlow for a root
  Mode,          \* next_flow_mode
  On,            \* what chooses each flow: a text, buttons, an action event
  Does,          \* its actions
  Back,          \* the return actions of a checkpoint
  Answers,       \* flows that are answers
  Nearest,       \* the checkpoint each leads back to, NoFlow without one
  OfService,     \* flows of the service's documents
  System, Home, Latecomer,  \* the roots the application opens itself
  Guest, Responder, Nobody,
  Pool,          \* who may be found for each kind of request (Matching)
  MaxAnswers     \* answers to one text

Kind == {"normal", "safety"}
NoRequest == "none"
Parts == {"does", "back"}

Texts == {"send_message_paraphrased", "send_message_llm", "send_message_fixed", "send_photo"}
Steps == {"show_activity", "add_service_attendance", "notify_all_admins"}
Entries == {"enter_service_checkpoint", "enter_selected_service_checkpoint",
            "enter_selected_service_latecomer_flow"}
ActionType ==
  Texts \cup Steps \cup Entries \cup
  {"send_buttons", "send_service_choice_buttons", "mark_safety_request_pending",
   "save_incoming", "find_and_reserve_server", "find_and_reserve_safety_responder",
   "confirm_human_match", "notify_matched_human", "share_human_contact",
   "release_human_match", "notify_previous_human",
   "exclude_previous_human_from_next_attempt", "select_service_attendance",
   "resolve_service_switch_options", "return_to_nearest_checkpoint"}
DiscussionAction == [type : ActionType, buttons : SUBSET STRING]

Leaf(f) == \A g \in Flow : Parent[g] # f
Returns(f) == \E i \in 1..Len(Does[f]) : Does[f][i].type = "return_to_nearest_checkpoint"

ASSUME DocumentAssumption ==
  /\ NoFlow \notin Flow
  /\ Parent \in [Flow -> Flow \cup {NoFlow}]
  /\ Mode \in [Flow -> {"once", "many", "checkpoint"}]
  /\ Does \in [Flow -> Seq(DiscussionAction)]
  /\ Back \in [Flow -> Seq(DiscussionAction)]
  /\ Answers \subseteq Flow /\ OfService \subseteq Flow
  /\ {System, Home, Latecomer} \subseteq {f \in Flow : Parent[f] = NoFlow}

ASSUME NearestAssumption ==
  /\ Nearest \in [Flow -> Flow \cup {NoFlow}]
  /\ \A f \in Flow :
       Nearest[f] = IF Mode[f] = "checkpoint" THEN f
                    ELSE IF Parent[f] = NoFlow THEN NoFlow ELSE Nearest[Parent[f]]

ASSUME PeopleAssumption ==
  /\ Guest \notin Responder /\ Nobody \notin Responder \cup {Guest}
  /\ Pool \in [Kind -> SUBSET Responder]

VARIABLES
  turn,      \* how the current run was asked for, "idle" between updates
  task,      \* what is being run for it
  frames,    \* flows being run, each inside an action of the one before
  executed,  \* flows run for the choice (ActionRunResult)
  plan,      \* addresses of actions with a planned text
  knows,     \* what the context of the topmost run retains
  callers,   \* the contexts that will be used again once that run is over
  failed,    \* where an action of the update has failed
  pending,   \* presentation still open for buttons, if any
  buffer,    \* presentations to send after the commit
  work, db,  \* the guest's rows, in the transaction and committed
  screen     \* buttons the guest has been sent, each with its request

vars ==
  <<turn, task, frames, executed, plan, knows, callers, failed, pending, buffer, work, db, screen>>

Frame == [flow : Flow, part : Parts, at : Nat, recovering : BOOLEAN]
Request == Kind \cup {NoRequest}
Carried == STRING \X Request
Presentation ==
  [to : Responder \cup {Guest}, says : {"text", "notice", "farewell", "contact", "fallback"},
   who : Responder \cup {Nobody}, request : Request,
   buttons : SUBSET Carried]
Rows == [open : SUBSET Flow, holder : [Kind -> Responder \cup {Nobody}],
         excluded : [Kind -> SUBSET Responder]]
Knowledge == [branch : Flow, request : Request, holder : Responder \cup {Nobody},
              previous : Responder \cup {Nobody}, choices : BOOLEAN]

Unknowing(branch, request) ==
  [branch |-> branch, request |-> request, holder |-> Nobody, previous |-> Nobody,
   choices |-> FALSE]
-----------------------------------------------------------------------------
(* The runner's own state.                                                 *)

Start(f, part, rec) == [flow |-> f, part |-> part, at |-> 1, recovering |-> rec]
Top == frames[Len(frames)]
Script(frame) == IF frame.part = "does" THEN Does[frame.flow] ELSE Back[frame.flow]
Action == Script(Top)[Top.at]
Running == turn # "idle" /\ frames # <<>>
Doing(types) == Running /\ Top.at <= Len(Script(Top)) /\ Action.type \in types

Advanced == [frames EXCEPT ![Len(frames)].at = @ + 1]

\* Mutation of Popped: a flow that has no action left is not left.
Unfinished == frames
Popped == [i \in 1..(Len(frames) - 1) |-> frames[i]]

\* Mutations of Flushed: it overtakes what waits, or is cleared too early.
FlushedFirst == pending \o buffer
FlushedNever == buffer

\* flush_presentation, before an effect, an event or the end of a flow.
Flushed == buffer \o pending
Flush == buffer' = Flushed /\ pending' = <<>>

\* The direct child that handles an event; return actions have no children.
EventChild(frame, key) ==
  {g \in Flow : frame.part = "does" /\ Parent[g] = frame.flow
                /\ <<"action_event", key>> \in On[g]}

\* _run_direct_event_child with a child: it takes the place of its parent.
HandTo(g, error) ==
  /\ frames' = Append(Popped, Start(g, "does", error))
  /\ executed' = IF Len(frames) = 1 THEN Append(executed, g) ELSE executed

\* for_child: what comes next works on a copy of the context c.  The first copy
\* leaves behind the context of the choice, which its way back will use; whoever
\* else hands over is done with its own.
Copy(c) ==
  /\ knows' = c
  /\ callers' = IF callers = <<>> THEN <<c>> ELSE callers

\* A nested run is given a copy, and its caller goes on with its own context.
Nest(c) ==
  /\ knows' = c
  /\ callers' = Append(callers, knows)

\* A run is over, with c for its context: whoever waits for it takes up its own.
Leave(c) ==
  IF callers = <<>> THEN knows' = c /\ callers' = callers
  ELSE /\ knows' = callers[Len(callers)]
       /\ callers' = [i \in 1..(Len(callers) - 1) |-> callers[i]]

\* The event ends the flow, whose context has become c.  A handler of errors runs
\* as a recovery.  An event other than an error that no child handles is a silent
\* diagnostic.
Emit(key, c) ==
  \/ \E g \in EventChild(Top, key) : HandTo(g, key = "error") /\ Copy(c)
  \/ EventChild(Top, key) = {} /\ frames' = Popped /\ executed' = executed /\ Leave(c)

Item(to, says, who) ==
  [to |-> to, says |-> says, who |-> who, request |-> knows.request, buttons |-> {}]
Fallback == Item(Guest, "fallback", Nobody)

\* plan_candidate_responses: the generated texts that may be shown before the
\* next input.  A paraphrased text falls back on its own words, so that only
\* one generated from a source needs its plan.  Return actions are planned under
\* their checkpoint's key, and run under another (_run_checkpoint_return).
Cause[f \in Flow] ==
  IF \E e \in On[f] : e[1] = "action_event" THEN Cause[Parent[f]] ELSE f
Sourced(actions) == {i \in 1..Len(actions) : actions[i].type = "send_message_llm"}
Slots(f) ==
  UNION {{<<g, i>> : i \in Sourced(Does[g])} : g \in {h \in Flow : Cause[h] = f}}
  \cup IF Nearest[f] = NoFlow THEN {}
       ELSE {<<Nearest[f], i>> : i \in Sourced(Back[Nearest[f]])}

HasPlan == Top.part = "does" /\ <<Top.flow, Top.at>> \in plan
-----------------------------------------------------------------------------
Init ==
  /\ turn = "idle" /\ task = "none"
  /\ frames = <<>> /\ executed = <<>>
  /\ plan = {}
  /\ knows = Unknowing(System, NoRequest) /\ callers = <<>>
  /\ failed = {}
  /\ pending = <<>> /\ buffer = <<>>
  /\ work = [open |-> {System}, holder |-> [k \in Kind |-> Nobody],
             excluded |-> [k \in Kind |-> {}]]
  /\ db = work
  /\ screen = {}

\* A root is its own branch, and the branch of a choice is where it hangs.
Begin(f, how, what, request) ==
  /\ turn' = how
  /\ task' = what
  /\ frames' = <<Start(f, "does", FALSE)>>
  /\ executed' = <<f>>
  /\ plan' \in {{}, Slots(f)}
  /\ knows' = Unknowing(IF how = "root" THEN f ELSE Parent[f], request)
  /\ callers' = <<>>
  /\ UNCHANGED <<failed, pending, buffer, db, screen>>

\* The system branch as a text finds it: one row, or reset to its root.
Prepared(open) ==
  IF Cardinality(open \ OfService) = 1 THEN open ELSE (open \cap OfService) \cup {System}

\* select_child needs a checkpoint to lead a leaf back to.
NoWayBack(f) == Leaf(f) /\ ~Returns(f) /\ Nearest[f] = NoFlow

Offers(f, e) == Parent[f] # NoFlow /\ Parent[f] \in Prepared(work.open) /\ e \in On[f]

\* A text routed to answers, each a fragment that leaves the rows alone, ...
AnswerText(f) ==
  /\ \/ turn = "idle"
     \/ turn = "text" /\ task = "answered" /\ Len(buffer) < MaxAnswers
  /\ f \in Answers /\ Offers(f, <<"message">>)
  /\ work' = [work EXCEPT !.open = Prepared(@)]
  /\ Begin(f, "text", "answer", NoRequest)

\* ... and then to one choice.
ChooseByText(f) ==
  /\ turn = "idle" \/ (turn = "text" /\ task = "answered")
  /\ f \notin Answers /\ Offers(f, <<"message">>) /\ ~NoWayBack(f)
  /\ work' = [work EXCEPT !.open = Prepared(@)]
  /\ Begin(f, "text", "choice", NoRequest)

\* A choice that completed is followed by one that was deferred.
Resume(f) ==
  /\ turn = "text" /\ task = "completed"
  /\ f \notin Answers /\ f # executed[1]
  /\ Parent[f] \in work.open /\ <<"message">> \in On[f] /\ ~NoWayBack(f)
  /\ work' = work
  /\ Begin(f, "resumed", "choice", NoRequest)

\* A button that was sent, of the one open flow it chooses.
Pressed(b) ==
  {f \in Flow : Parent[f] \in work.open /\ <<"button", b[1]>> \in On[f]
                /\ (b[2] = "normal" => f \in OfService)}
Press(b, f) ==
  /\ turn = "idle"
  /\ b \in screen /\ Pressed(b) = {f} /\ ~NoWayBack(f)
  /\ work' = work
  /\ Begin(f, "button", "choice", b[2])

\* A root opened by the application: /start, the name, or a timestamp.
OpenRoot(r) ==
  /\ turn = "idle"
  /\ r \in Flow /\ Parent[r] = NoFlow
  /\ work' = [work EXCEPT !.open = IF r = System THEN (@ \cap OfService) \cup {System}
                                                 ELSE @ \cup {r}]
  /\ Begin(r, "root", "root", NoRequest)
-----------------------------------------------------------------------------
(* Actions that show something: they only flush what came before.          *)

ShowText ==
  /\ Doing(Texts)
  /\ Action.type = "send_message_llm" => HasPlan
  /\ buffer' = Flushed
  /\ pending' = <<Item(Guest, "text", Nobody)>>
  /\ frames' = Advanced
  /\ UNCHANGED <<turn, task, executed, plan, knows, callers, failed, work, db, screen>>

CarriedButtons == {<<b, knows.request>> : b \in Action.buttons}

AttachButtons ==
  /\ Doing({"send_buttons"})
  /\ pending # <<>>
  /\ pending' = <<[pending[1] EXCEPT !.buttons = @ \cup CarriedButtons]>>
  /\ frames' = Advanced
  /\ UNCHANGED <<turn, task, executed, plan, knows, callers, failed, buffer, work, db, screen>>

OfferServices ==
  /\ Doing({"send_service_choice_buttons"})
  /\ knows.choices
  /\ buffer' = Flushed
  /\ pending' = <<[Item(Guest, "text", Nobody) EXCEPT
                     !.buttons = {<<b, NoRequest>> : b \in Action.buttons}]>>
  /\ frames' = Advanced
  /\ UNCHANGED <<turn, task, executed, plan, knows, callers, failed, work, db, screen>>
-----------------------------------------------------------------------------
(* Actions with an effect.                                                 *)

PassStep ==
  /\ Doing(Steps)
  /\ Flush
  /\ frames' = Advanced
  /\ UNCHANGED <<turn, task, executed, plan, knows, callers, failed, work, db, screen>>

MarkPending ==
  /\ Doing({"mark_safety_request_pending"})
  /\ knows.request = "safety" /\ work.holder["safety"] = Nobody
  /\ Flush
  /\ frames' = Advanced
  /\ UNCHANGED <<turn, task, executed, plan, knows, callers, failed, work, db, screen>>

SaveInterest ==
  /\ Doing({"save_incoming"})
  /\ turn \in {"text", "resumed"}
  /\ knows.request # "safety"
  /\ knows' = [knows EXCEPT !.request = "normal"]
  /\ Flush
  /\ frames' = Advanced
  /\ UNCHANGED <<turn, task, executed, plan, callers, failed, work, db, screen>>

Search == [normal |-> "find_and_reserve_server",
           safety |-> "find_and_reserve_safety_responder"]
Found == [normal |-> "human_match.found", safety |-> "safety_match.found"]
NotFound == [normal |-> "human_match.not_found", safety |-> "safety_match.not_found"]

\* Mutation of Free: a search replaces whoever is assigned.
Replaceable(k) == TRUE

\* A request that has somebody already finds nobody (reserve_ranked).
Free(k) == work.holder[k] = Nobody

Reserve(k, r) ==
  /\ Doing({Search[k]})
  /\ knows.request \in {NoRequest, k}
  /\ Free(k) /\ r \notin work.excluded[k]
  /\ work' = [work EXCEPT !.holder[k] = r]
  /\ Flush
  /\ Emit(Found[k], [knows EXCEPT !.request = k, !.holder = r])
  /\ UNCHANGED <<turn, task, plan, failed, db, screen>>

ReserveNobody(k) ==
  /\ Doing({Search[k]})
  /\ knows.request \in {NoRequest, k}
  /\ Flush
  /\ Emit(NotFound[k], [knows EXCEPT !.request = k, !.holder = Nobody])
  /\ UNCHANGED <<turn, task, plan, failed, work, db, screen>>

Confirm ==
  /\ Doing({"confirm_human_match"})
  /\ knows.request # NoRequest
  /\ work.holder[knows.request] # Nobody
  /\ knows' = [knows EXCEPT !.holder = work.holder[knows.request]]
  /\ Flush
  /\ frames' = Advanced
  /\ UNCHANGED <<turn, task, executed, plan, callers, failed, work, db, screen>>

\* Mutation of Partner: somebody released is still the partner.
StalePartner == IF knows.previous # Nobody THEN knows.previous ELSE knows.holder

\* _current_responder: the one retained, or the one assigned.
Partner ==
  IF knows.holder # Nobody \/ knows.request = NoRequest THEN knows.holder
  ELSE work.holder[knows.request]

Notify ==
  /\ Doing({"notify_matched_human"})
  /\ Partner # Nobody
  /\ knows' = [knows EXCEPT !.holder = Partner]
  /\ buffer' = Append(Flushed, Item(Partner, "notice", Partner))
  /\ pending' = <<>>
  /\ frames' = Advanced
  /\ UNCHANGED <<turn, task, executed, plan, callers, failed, work, db, screen>>

ShareContact ==
  /\ Doing({"share_human_contact"})
  /\ Partner # Nobody
  /\ knows' = [knows EXCEPT !.holder = Partner]
  /\ buffer' = Flushed
  /\ pending' = <<Item(Guest, "contact", Partner)>>
  /\ frames' = Advanced
  /\ UNCHANGED <<turn, task, executed, plan, callers, failed, work, db, screen>>

Release ==
  /\ Doing({"release_human_match"})
  /\ knows.request # NoRequest
  /\ knows' = [knows EXCEPT !.holder = Nobody, !.previous = work.holder[knows.request]]
  /\ work' = [work EXCEPT !.holder[knows.request] = Nobody]
  /\ Flush
  /\ frames' = Advanced
  /\ UNCHANGED <<turn, task, executed, plan, callers, failed, db, screen>>

NotifyPrevious ==
  /\ Doing({"notify_previous_human"})
  /\ knows.previous # Nobody
  /\ buffer' = Append(Flushed, Item(knows.previous, "farewell", knows.previous))
  /\ pending' = <<>>
  /\ frames' = Advanced
  /\ UNCHANGED <<turn, task, executed, plan, knows, callers, failed, work, db, screen>>

Exclude ==
  /\ Doing({"exclude_previous_human_from_next_attempt"})
  /\ knows.previous # Nobody /\ knows.request # NoRequest
  /\ work' = [work EXCEPT !.excluded[knows.request] = @ \cup {knows.previous}]
  /\ Flush
  /\ frames' = Advanced
  /\ UNCHANGED <<turn, task, executed, plan, knows, callers, failed, db, screen>>

SelectAttendance ==
  /\ Doing({"select_service_attendance"})
  /\ Flush
  /\ \/ Emit("service_attendance.selected", knows)
     \/ Emit("service_attendance.latecomer", knows)
     \/ Emit("service_attendance.ended", knows)
  /\ UNCHANGED <<turn, task, plan, failed, work, db, screen>>

\* Whether another service is under way is not modelled.
ResolveOptions(some) ==
  /\ Doing({"resolve_service_switch_options"})
  /\ Flush
  /\ Emit(IF some THEN "service_attendance.choice_required"
                  ELSE "service_attendance.none_available",
          [knows EXCEPT !.choices = some])
  /\ UNCHANGED <<turn, task, plan, failed, work, db, screen>>

Entered == IF Action.type = "enter_selected_service_latecomer_flow" THEN Latecomer ELSE Home

\* _open_root with the caller's context: the root runs inside the action, as a
\* branch of its own.
EnterRoot ==
  /\ Doing(Entries)
  /\ Flush
  /\ frames' = Append(Advanced, Start(Entered, "does", FALSE))
  /\ Nest([knows EXCEPT !.branch = Entered])
  /\ work' = [work EXCEPT !.open = @ \cup {Entered}]
  /\ UNCHANGED <<turn, task, executed, plan, failed, db, screen>>

\* The checkpoint an explicit return from the branch of p goes to.
Pop(p) ==
  IF Mode[p] # "checkpoint" THEN Nearest[p]
  ELSE IF Parent[p] # NoFlow /\ Nearest[Parent[p]] # NoFlow THEN Nearest[Parent[p]]
  ELSE IF p = System THEN p ELSE NoFlow

ReturnNow ==
  /\ Doing({"return_to_nearest_checkpoint"})
  /\ Pop(knows.branch) # NoFlow
  /\ Flush
  /\ frames' = Append(Advanced, Start(Pop(knows.branch), "back", FALSE))
  /\ Nest(knows)
  /\ UNCHANGED <<turn, task, executed, plan, failed, work, db, screen>>

\* Mutation of AfterFailure: the actions after the failed one are run.
Onward == Advanced

\* The rest of a flow that failed is not run.
AfterFailure == [i \in 1..(Len(frames) - 1) |-> frames[i]]

\* Mutation of Handled: a handler that fails has its own handler.
HandledAgain == EventChild(Top, "error") # {}

\* Whether a child answers for a failure: none does for one in a handler.
Handled == ~Top.recovering /\ EventChild(Top, "error") # {}

\* What an action may have retained by the time it fails: the request that it
\* looked up or made, or the responder.
Sought ==
  {k \in Kind : /\ knows.request \in {NoRequest, k}
                /\ \/ Action.type = Search[k]
                   \/ k = "normal" /\ Action.type = "save_incoming" /\ turn \in {"text", "resumed"}}
Learnt ==
  {knows} \cup {[knows EXCEPT !.request = k] : k \in Sought}
    \cup {[knows EXCEPT !.holder = Partner] :
             type \in {Action.type} \cap {"notify_matched_human", "share_human_contact"}}

\* _run_action fails: it has done nothing to the rows, and emits "error".
Fail ==
  /\ Doing(ActionType)
  /\ failed' = failed \cup {IF Top.recovering THEN "handler" ELSE "flow"}
  /\ \E c \in Learnt :
       \/ /\ Handled
          /\ Flush
          /\ Emit("error", c)
       \/ /\ ~Handled
          /\ buffer' = Append(Flushed, Fallback)
          /\ pending' = <<>>
          /\ frames' = AfterFailure
          /\ executed' = executed
          /\ Leave(c)
  /\ UNCHANGED <<turn, task, plan, work, db, screen>>

EndFlow ==
  /\ Running /\ Top.at > Len(Script(Top))
  /\ Flush
  /\ frames' = Popped
  /\ Leave(knows)
  /\ UNCHANGED <<turn, task, executed, plan, failed, work, db, screen>>
-----------------------------------------------------------------------------
(* After the run.                                                          *)

Last == executed[Len(executed)]
Chosen == {executed[i] : i \in 1..Len(executed)}

\* _parent_mutation and the rows of the flows with choices, along the chain.
RowsAfter ==
  (work.open \cup {f \in Chosen : ~Leaf(f)})
    \ {p \in {Parent[f] : f \in Chosen} : Mode[p] = "once"}

LeadsBack == Leaf(Last) /\ ~Returns(Last)

\* _execute_selection after its run: the rows, and the way back, with the context
\* that the choice was run with.
EndChoice ==
  /\ turn # "idle" /\ task = "choice" /\ frames = <<>>
  /\ ~NoWayBack(Last)
  /\ work' = [work EXCEPT !.open = RowsAfter]
  /\ task' = IF LeadsBack THEN "return" ELSE "done"
  /\ frames' = IF LeadsBack THEN <<Start(Nearest[Last], "back", FALSE)>> ELSE <<>>
  /\ UNCHANGED <<turn, executed, plan, knows, callers, failed, pending, buffer, db, screen>>

\* A chosen leaf that went back completes the interaction of a text.
EndRun ==
  /\ turn # "idle" /\ task \in {"answer", "return", "root"} /\ frames = <<>>
  /\ task' = CASE task = "answer" -> "answered"
               [] task = "return" /\ turn = "text" /\ Leaf(executed[1]) -> "completed"
               [] OTHER -> "done"
  /\ UNCHANGED
       <<turn, frames, executed, plan, knows, callers, failed, pending, buffer, work, db, screen>>

Settled == turn # "idle" /\ task \in {"answered", "completed", "done"}

ButtonsOf(items) == UNION {items[i].buttons : i \in 1..Len(items)}

Idle ==
  /\ turn' = "idle" /\ task' = "none"
  /\ frames' = <<>> /\ executed' = <<>>
  /\ plan' = {}
  /\ knows' = Unknowing(System, NoRequest) /\ callers' = <<>>
  /\ failed' = {}
  /\ pending' = <<>> /\ buffer' = <<>>

\* The transaction commits; then its presentations are sent.  A send that fails
\* leaves the guest with fewer buttons to press, which is nothing new.
Commit ==
  /\ Settled
  /\ Idle
  /\ db' = work /\ work' = work
  /\ screen' = screen \cup ButtonsOf(buffer)

\* The dispatch raises, and the process ends with its transaction.
Lose ==
  /\ Idle
  /\ work' = db
  /\ UNCHANGED <<db, screen>>

\* A database error; it may come in the middle of any action.
Abort == turn # "idle" /\ Lose

\* An event's leaf has no checkpoint to go back to.
Raise == turn # "idle" /\ task = "choice" /\ frames = <<>> /\ NoWayBack(Last) /\ Lose

Act ==
  \/ ShowText \/ AttachButtons \/ OfferServices
  \/ PassStep \/ MarkPending \/ SaveInterest
  \/ \E k \in Kind : ReserveNobody(k) \/ \E r \in Pool[k] : Reserve(k, r)
  \/ Confirm \/ Notify \/ ShareContact \/ Release \/ NotifyPrevious \/ Exclude
  \/ SelectAttendance \/ \E some \in BOOLEAN : ResolveOptions(some)
  \/ EnterRoot \/ ReturnNow
  \/ Fail \/ EndFlow \/ EndChoice \/ EndRun \/ Raise

Next ==
  \/ \E f \in Flow : AnswerText(f) \/ ChooseByText(f) \/ Resume(f) \/ OpenRoot(f)
  \/ \E b \in screen : \E f \in Pressed(b) : Press(b, f)
  \/ Act \/ Commit \/ Abort

Spec == Init /\ [][Next]_vars

\* One task takes a dispatch to its end; nothing makes a guest write.
FairSpec == Spec /\ WF_vars(Act) /\ WF_vars(Commit)
-----------------------------------------------------------------------------
TypeOK ==
  /\ turn \in {"idle", "text", "resumed", "button", "root"}
  /\ task \in {"none", "answer", "choice", "return", "root", "answered", "completed", "done"}
  /\ frames \in Seq(Frame) /\ executed \in Seq(Flow)
  /\ knows \in Knowledge /\ callers \in Seq(Knowledge)
  /\ failed \subseteq {"flow", "handler"}
  /\ pending \in Seq(Presentation) /\ buffer \in Seq(Presentation)
  /\ work \in Rows /\ db \in Rows
  /\ screen \subseteq Carried

\* A run inside a run is inside the action that entered a root or went back.
Suspended(frame) ==
  /\ frame.at \in 2..(Len(Script(frame)) + 1)
  /\ Script(frame)[frame.at - 1].type \in Entries \cup {"return_to_nearest_checkpoint"}
Nested(stack) ==
  /\ \A i \in 1..Len(stack) : stack[i].at > 0
  /\ \A i \in 1..(Len(stack) - 1) : Suspended(stack[i])

\* Every run inside which another runs has its context kept, and so has a choice
\* that has handed over.
ContextsKept ==
  IF frames = <<>> THEN callers = <<>>
  ELSE IF Len(executed) = 1 THEN Len(callers) = Len(frames) - 1
  ELSE Len(callers) \in {Len(frames) - 1, Len(frames)}

\* The types; at most one presentation is open for buttons, and none when a run
\* has ended or is interrupted by another; what is interrupted is a navigation; a
\* choice hangs below an open flow; what is settled has nothing left to run;
\* between updates the transaction is the database.
RunnerInvariant ==
  /\ TypeOK
  /\ Len(pending) <= 1
  /\ frames = <<>> => pending = <<>>
  /\ Nested(frames)
  /\ ContextsKept
  /\ turn # "idle" => executed # <<>>
  /\ task = "choice" => turn # "idle" /\ Parent[executed[1]] # NoFlow
  /\ Settled \/ turn = "idle" => frames = <<>>
  /\ turn = "idle" => buffer = <<>> /\ work = db

\* Whoever the guest is put in touch with was told before, in the same reply: a
\* failed notice stops the flow before the contact is shared.
ContactAfterNotice ==
  \A i \in 1..Len(buffer) : buffer[i].says = "contact" =>
    \E j \in 1..i : buffer[j].says = "notice" /\ buffer[j].to = buffer[i].who

\* When the reply is handed over, a notice is to the one who holds the request
\* and a farewell to one who does not: contacts retained by the context along
\* the way are those of the database.
NoticesReachHolder ==
  Settled => \A i \in 1..Len(buffer) :
    /\ buffer[i].says = "notice" => work.holder[buffer[i].request] = buffer[i].to
    /\ buffer[i].says = "farewell" => work.holder[buffer[i].request] # buffer[i].to

\* Nobody loses a guest without being told so, unless an action failed.
NobodyDroppedSilently ==
  Settled /\ failed = {} => \A k \in Kind :
    LET r == db.holder[k] IN
    r \notin {Nobody, work.holder[k]} =>
      \E i \in 1..Len(buffer) : buffer[i].says = "farewell" /\ buffer[i].to = r

\* Every update that is dispatched to a flow shows the guest something.
AlwaysAnswered == Settled => \E i \in 1..Len(buffer) : buffer[i].to = Guest

\* A failure, in whatever nested run, ends in the fixed text or in a handler, and
\* one in a handler always in the fixed text: no handler stands in for another.
FallbackShown == \E i \in 1..Len(buffer) : buffer[i].says = "fallback"
FailureAnswered ==
  Settled =>
    /\ failed # {} =>
         \/ FallbackShown
         \/ \E i \in 2..Len(executed) : <<"action_event", "error">> \in On[executed[i]]
    /\ "handler" \in failed => FallbackShown

\* The reply keeps its order and goes with the transaction, whatever is nested in
\* it or fails.
Reply == INSTANCE ReplyScript
           WITH script <- Flushed, stored <- db, Stored <- Rows

ImplementsReplyScript == Reply!ScriptSpec

\* Every dispatch comes to an end: no chain of events, recoveries and nested
\* roots goes on for ever.
DispatchEnds == turn # "idle" ~> turn = "idle"
=============================================================================
