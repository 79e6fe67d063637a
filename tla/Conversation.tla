---------------------------- MODULE Conversation ----------------------------
(***************************************************************************)
(* One guest's conversation: the open flow selections that say which       *)
(* choices the guest has, the queue of intents deferred by a message with  *)
(* several, and the dispatch of texts and buttons over both (app.py,       *)
(* domain/state.py, intents/service.py and their repositories).            *)
(*                                                                         *)
(* A dispatch holds the user's row lock and commits once, so it is a step. *)
(* A selection is the row of a flow with choices: its identifier is fixed  *)
(* by its path, so a flow has one row at most.  The language model may     *)
(* route a text to any choice on offer; an answer that opens nothing is    *)
(* not told from a text without a match.                                   *)
(***************************************************************************)
EXTENDS Naturals, Sequences

CONSTANTS
  Flow,        \* flows of the published documents
  NoFlow,
  Parent,      \* the flow each is a next flow of, NoFlow for a root
  Tree,        \* the root each belongs to
  Mode,        \* next_flow_mode
  Trigger,     \* how each is chosen: message, button or action event
  Returns,     \* flows whose action returns to the nearest checkpoint
  Enters,      \* flows whose action enters the service checkpoint
  Checkpoints, \* the CHECKPOINT flows on the way down to each, itself included
  System,      \* the system root, which belongs to no service
  Home,        \* the service checkpoint
  MaxPending   \* pending intents kept for a user

Own(f) == IF Mode[f] = "checkpoint" THEN <<f>> ELSE <<>>
Above(f) == IF Parent[f] = NoFlow THEN <<>> ELSE Checkpoints[Parent[f]]
Root == {f \in Flow : Parent[f] = NoFlow}

ASSUME FlowAssumption ==
  /\ NoFlow \notin Flow
  /\ Parent \in [Flow -> Flow \cup {NoFlow}]
  /\ Tree \in [Flow -> Flow]
  /\ \A f \in Flow : Tree[f] = IF Parent[f] = NoFlow THEN f ELSE Tree[Parent[f]]
  /\ Mode \in [Flow -> {"once", "many", "checkpoint"}]
  /\ Trigger \in [Flow -> SUBSET {"message", "button", "event"}]
  /\ Returns \subseteq {f \in Flow : "event" \notin Trigger[f]}
  /\ Enters \subseteq Flow
  /\ System \in Root /\ Home \in Root /\ System # Home
  /\ Mode[System] = "checkpoint" /\ Mode[Home] = "checkpoint"
  /\ MaxPending \in Nat \ {0}

\* Keys are unique in a document, and a path stays in its tree.
ASSUME PathAssumption ==
  /\ Checkpoints \in [Flow -> Seq(Flow)]
  /\ \A f \in Flow :
       /\ Checkpoints[f] = Above(f) \o Own(f)
       /\ \A i \in 1..Len(Above(f)) : Above(f)[i] # f
       /\ \A i \in 1..Len(Checkpoints[f]) :
            Tree[Checkpoints[f][i]] = Tree[f] /\ Mode[Checkpoints[f][i]] = "checkpoint"

VARIABLES
  selections,  \* open_flow_selections: flow to row, for the flows that have one
  pending,     \* pending_flow_intents in the order of their positions
  named,       \* whether the guest's name is known
  announced,   \* timestamp roots delivered to the guest
  over,        \* whether the service's interactions have been closed
  running      \* whether the runtime is up

vars == <<selections, pending, named, announced, over, running>>

Row == [current : BOOLEAN, checks : Seq(Flow)]

Leaf(f) == \A g \in Flow : Parent[g] # f
OfService(f) == Tree[f] # System
-----------------------------------------------------------------------------
(* The repository of open selections, as functions on its rows.            *)

Delete(s, F) == [f \in DOMAIN s \ F |-> s[f]]

Focus(s, F, b) ==
  [f \in DOMAIN s |-> IF f \in F THEN [s[f] EXCEPT !.current = b] ELSE s[f]]

Upsert(s, f, row) == [g \in DOMAIN s \cup {f} |-> IF g = f THEN row ELSE s[g]]

\* open_root: idempotent.
OpenRoot(s, f) ==
  IF f \in DOMAIN s THEN s ELSE Upsert(s, f, [current |-> TRUE, checks |-> Own(f)])

\* Mutation of ResetSystem: every branch of the user goes.
ResetAll(s) == OpenRoot(Delete(s, DOMAIN s), System)

\* reset_global_root.
ResetSystem(s) == OpenRoot(Delete(s, {f \in DOMAIN s : ~OfService(f)}), System)
-----------------------------------------------------------------------------
(* The transition engine.                                                  *)

AppendOnce(q, f) == IF \E i \in 1..Len(q) : q[i] = f THEN q ELSE Append(q, f)

\* Mutation of ChildChecks: the child's own checkpoint is left out.
ParentChecks(s, c) == s[Parent[c]].checks

\* _child_checkpoint_lineage.
ChildChecks(s, c) ==
  LET p == Parent[c]
      inherited == IF Mode[p] = "checkpoint" THEN AppendOnce(s[p].checks, p)
                                             ELSE s[p].checks
  IN  IF Mode[c] = "checkpoint" THEN AppendOnce(inherited, c) ELSE inherited

\* Mutation of Consumed: only reusable flows survive a choice.
ConsumedUnlessMany(p) == IF Mode[p] = "many" THEN {} ELSE {p}

\* _parent_mutation: the row deleted by a choice under p.
Consumed(p) == IF Mode[p] = "once" THEN {p} ELSE {}

\* A leaf that does not return explicitly needs a checkpoint: select_child
\* raises MissingCheckpointError where the branch has none.
NoWayBack(s, c) == Leaf(c) /\ c \notin Returns /\ ChildChecks(s, c) = <<>>

\* The focus a choice leaves: the opened child, or the nearest checkpoint.
Target(s, c) ==
  LET path == ChildChecks(s, c) IN
  IF ~Leaf(c) THEN {c} ELSE IF c \in Returns THEN {} ELSE {path[Len(path)]}

\* select_child computes its transition from the rows as they were listed, and
\* apply carries it out on the rows the actions of the choice have left.
Choose(listed, s, c) ==
  LET p == Parent[c]
      kept == Delete(s, Consumed(p))
      past == Focus(kept, IF listed[p].current THEN {p} ELSE {}, FALSE)
      back == Focus(past, Target(listed, c), TRUE)
  IN  IF Leaf(c) THEN back
      ELSE Upsert(back, c, [current |-> TRUE, checks |-> ChildChecks(listed, c)])

\* return_to_nearest_checkpoint from the row of p.  Where it raises, in the
\* checkpoint of a service, the action runner answers with an error instead.
Return(s, p) ==
  LET q == s[p].checks  n == Len(q) IN
  CASE n > 0 /\ q[n] # p -> Focus(s, {q[n]}, TRUE)
    [] n > 1 /\ q[n] = p -> Focus(Focus(s, {p}, FALSE), {q[n - 1]}, TRUE)
    [] n = 1 /\ q[n] = p /\ ~OfService(p) -> Focus(s, {p}, TRUE)
    [] OTHER -> s

\* What the actions of c, and of the event child e it emits, do to selections.  A
\* closed service cannot be entered: the action fails and the runner answers.
Act(s, c, e) ==
  LET returned == IF c \in Returns THEN Return(s, Parent[c]) ELSE s IN
  IF (c \in Enters \/ e \in Enters) /\ ~over THEN OpenRoot(returned, Home) ELSE returned

\* The event children the actions of c may run; none where they fail.
Events(c) == {e \in Flow : Parent[e] = c /\ "event" \in Trigger[e]} \cup {NoFlow}

\* _execute_selection of the choice c whose actions emit e.
Execute(s, c, e) ==
  LET chosen == Choose(s, Act(s, c, e), c) IN
  IF e = NoFlow THEN chosen ELSE Choose(chosen, chosen, e)

Raises(s, c, e) ==
  NoWayBack(s, c) \/ (e # NoFlow /\ NoWayBack(Choose(s, Act(s, c, e), c), e))

\* Only a leaf that went back to a checkpoint completes an interaction.
Completes(c) == Leaf(c) /\ c \notin Returns

\* Mutation of Listed: rows of a closed service are listed too.
Kept(s) == DOMAIN s

\* _valid_branches, and the choices of one kind they offer.
Listed(s) == {f \in DOMAIN s : OfService(f) => ~over}
Choices(s, kind) ==
  LET listed == Listed(s) IN {c \in Flow : kind \in Trigger[c] /\ Parent[c] \in listed}
-----------------------------------------------------------------------------
(* The queue of deferred intents.                                          *)

\* The oldest give way where the queue is full.
Room(q) == SubSeq(q, IF Len(q) < MaxPending THEN 1 ELSE Len(q) - MaxPending + 2, Len(q))

\* append: a flow that waits already moves to the back.
Enqueue(q, f) ==
  IF \E i \in 1..Len(q) : q[i] = f
  THEN LET i == CHOOSE i \in 1..Len(q) : q[i] = f
       IN  Append(SubSeq(q, 1, i - 1) \o SubSeq(q, i + 1, Len(q)), f)
  ELSE Append(Room(q), f)

Deferred(q, d) == IF d = NoFlow THEN q ELSE Enqueue(q, d)

\* The first intent that is still a choice; those before it are removed.
Resumable(q, s) ==
  LET offered == Choices(s, "message") IN
  {i \in 1..Len(q) : q[i] \in offered /\ \A j \in 1..(i - 1) : q[j] \notin offered}
-----------------------------------------------------------------------------
Init ==
  /\ selections = [f \in {} |-> [current |-> FALSE, checks |-> <<>>]]
  /\ pending = <<>>
  /\ named = FALSE
  /\ announced = {}
  /\ over = FALSE
  /\ running = TRUE

\* The name is captured: the service's checkpoint, or the system's.
CaptureName ==
  /\ running /\ ~named
  /\ named' = TRUE
  /\ \/ ~over /\ selections' = OpenRoot(selections, Home)
     \/ selections' = ResetSystem(selections)
  /\ UNCHANGED <<pending, announced, over, running>>

\* /start from a guest with a name.
StartAgain ==
  /\ running /\ named
  /\ selections' = ResetSystem(selections)
  /\ UNCHANGED <<pending, named, announced, over, running>>

\* The scheduler opens a timestamp's root, once (ServiceLifecycle).
OpenTimestamp(f) ==
  /\ running /\ ~over
  /\ f \in Root \ {System, Home}
  /\ f \notin announced
  /\ announced' = announced \cup {f}
  /\ selections' = OpenRoot(selections, f)
  /\ UNCHANGED <<pending, named, over, running>>

\* Mutation of Expire: the guest's service rows expire and that is all.
ExpireOnly(s) == Focus(s, {f \in DOMAIN s : OfService(f)}, FALSE)

\* expire_service_bound, then return_users_to_system_checkpoint for the
\* users it affected.
Expire(s) ==
  LET ended == {f \in DOMAIN s : OfService(f)} IN
  IF ended = {} THEN s ELSE OpenRoot(Focus(s, ended, FALSE), System)

CloseService ==
  /\ running /\ ~over
  /\ over' = TRUE
  /\ selections' = Expire(selections)
  /\ UNCHANGED <<pending, named, announced, running>>

\* Before a text is routed the system branch is brought back to its root, unless
\* it has exactly one row.
Prepared ==
  IF \E f \in DOMAIN selections : {g \in DOMAIN selections : ~OfService(g)} = {f}
  THEN selections ELSE ResetSystem(selections)

Offered == Choices(Prepared, "message")

\* A text to which nothing interactive is routed.
Chat ==
  /\ running /\ named
  /\ selections' = Prepared
  /\ UNCHANGED <<pending, named, announced, over, running>>

\* The model routes a text to the choice c on offer and perhaps, after it, to
\* another, d, which is deferred.  More than one deferral at a time is left out.
\* Here the choice runs, and no deferred intent follows it.
Say(c, d, e) ==
  LET q == Deferred(pending, d)
      s == Execute(Prepared, c, e)
  IN
  /\ running /\ named
  /\ ~Raises(Prepared, c, e)
  /\ Completes(c) => Resumable(q, s) = {}
  /\ selections' = s
  /\ pending' = IF Completes(c) THEN <<>> ELSE q
  /\ UNCHANGED <<named, announced, over, running>>

\* The choice completes its interaction and the first deferred intent that is
\* still on offer runs in the same dispatch.
SayAndResume(c, d) ==
  LET q == Deferred(pending, d)
      s == Execute(Prepared, c, NoFlow)
  IN
  /\ running /\ named
  /\ Completes(c) /\ ~Raises(Prepared, c, NoFlow)
  /\ \E i \in Resumable(q, s) : \E e \in Events(q[i]) :
       /\ q[i] # c
       /\ ~Raises(s, q[i], e)
       /\ selections' = Execute(s, q[i], e)
       /\ pending' = SubSeq(q, i + 1, Len(q))
  /\ UNCHANGED <<named, announced, over, running>>

\* The dispatch of a text raises: a choice without a way back, or a deferred
\* intent that is the very choice the text has just made
\* (DuplicateFlowExecutionError).  All of it rolls back and the runtime ends.
SayRaises(c, d) ==
  LET q == Deferred(pending, d)
      s == Execute(Prepared, c, NoFlow)
  IN
  /\ running /\ named
  /\ \/ \E e \in Events(c) : Raises(Prepared, c, e)
     \/ /\ Completes(c) /\ ~Raises(Prepared, c, NoFlow)
        /\ \E i \in Resumable(q, s) :
             q[i] = c \/ \E e \in Events(q[i]) : Raises(s, q[i], e)
  /\ running' = FALSE
  /\ UNCHANGED <<selections, pending, named, announced, over>>

\* A button: neither the system root nor the queue is looked at.
Press(c, e) ==
  /\ running
  /\ c \in Choices(selections, "button")
  /\ ~Raises(selections, c, e)
  /\ selections' = Execute(selections, c, e)
  /\ UNCHANGED <<pending, named, announced, over, running>>

PressRaises(c, e) ==
  /\ running
  /\ c \in Choices(selections, "button")
  /\ Raises(selections, c, e)
  /\ running' = FALSE
  /\ UNCHANGED <<selections, pending, named, announced, over>>

\* The oldest intent reaches its 24 hours; the next look at the queue removes it.
Lapse ==
  /\ pending # <<>>
  /\ pending' = Tail(pending)
  /\ UNCHANGED <<selections, named, announced, over, running>>

\* The process is started again.
Restart ==
  /\ ~running
  /\ running' = TRUE
  /\ UNCHANGED <<selections, pending, named, announced, over>>

Next ==
  \/ CaptureName \/ StartAgain \/ CloseService \/ Chat \/ Lapse \/ Restart
  \/ \E f \in Flow : OpenTimestamp(f)
  \/ \E c \in Offered : \E d \in (Offered \cup {NoFlow}) \ {c} :
       \/ \E e \in Events(c) : Say(c, d, e)
       \/ SayAndResume(c, d)
       \/ SayRaises(c, d)
  \/ \E c \in Choices(selections, "button") : \E e \in Events(c) :
       Press(c, e) \/ PressRaises(c, e)

Spec == Init /\ [][Next]_vars
-----------------------------------------------------------------------------
\* The rows are typed, and each carries its flow's path of checkpoints.
Sound(s) ==
  /\ DOMAIN s \subseteq Flow
  /\ s \in [DOMAIN s -> Row]
  /\ \A f \in DOMAIN s : s[f].checks = Checkpoints[f]

\* Every checkpoint a row may return to has a row.
Anchored(s) ==
  \A f \in DOMAIN s : \A i \in 1..Len(s[f].checks) : s[f].checks[i] \in DOMAIN s

TypeOK ==
  /\ pending \in Seq(Flow)
  /\ named \in BOOLEAN /\ over \in BOOLEAN /\ running \in BOOLEAN
  /\ announced \subseteq Root

\* A return reaches its checkpoint: the row it focuses exists.  apply focuses by
\* an UPDATE, which would touch nothing and say nothing if the row were gone.
ReturnTargetOpen == Anchored(selections)

\* A guest with a name always has a checkpoint on offer, whatever was consumed,
\* reset or expired: the bot never has nothing to answer a text with.
NeverStranded == named => \E f \in Listed(selections) : Mode[f] = "checkpoint"

\* Rows of a closed service stay asleep: nothing focuses or opens them again.
ClosedRowsRest ==
  over => \A f \in DOMAIN selections : OfService(f) => ~selections[f].current

\* However often intents are deferred, a flow waits once and few wait.
PendingBounded ==
  /\ Len(pending) <= MaxPending
  /\ \A i, j \in 1..Len(pending) : pending[i] = pending[j] => i = j

\* Types, lineages equal to the published path (what every later validation of
\* a row checks, and raises on), and the properties above.
ConversationInvariant ==
  /\ TypeOK
  /\ Sound(selections)
  /\ ReturnTargetOpen
  /\ NeverStranded
  /\ ClosedRowsRest
  /\ PendingBounded

\* A service's branch is lost only by making the one choice it allowed; talking
\* to the system, /start and the resets of its root leave it alone.
OnlyOnceConsumed ==
  [][\A f \in DOMAIN selections \ DOMAIN selections' : OfService(f) => Mode[f] = "once"]_vars

\* No dispatch raises: every choice on offer can be made.
NoDispatchRaises == running
=============================================================================
