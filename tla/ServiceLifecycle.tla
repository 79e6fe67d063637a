-------------------------- MODULE ServiceLifecycle --------------------------
(***************************************************************************)
(* One service from its first announcement to the end of its interactions: *)
(* services/scheduler.py, attendance.py, lifecycle.py, the composition in  *)
(* app.py and the repositories under them.                                 *)
(*                                                                         *)
(* Three notions of time meet here.  A scheduler run works with the time   *)
(* at which it began, its audience is resolved with a fresh one, and the   *)
(* dispatch of an update uses the date of its Telegram message: for a text *)
(* the time it was sent, for a button the time the bot sent the button.    *)
(*                                                                         *)
(* Each transaction that touches the service holds its row lock from its   *)
(* first look at the closure mark to its commit, so each is one step.      *)
(***************************************************************************)
EXTENDS Naturals

CONSTANTS
  User,        \* Telegram users, role NBNC
  Runtime,     \* bot processes; several live only after a lost lock session
  Timestamp,   \* service_timestamps rows of the service
  NoTimestamp, \* no timestamp is being delivered
  NoUser,      \* nobody is being delivered to
  OccursAt,    \* when each timestamp falls due
  Audience,    \* whom each timestamp is for
  CheckInAt,   \* the timestamp whose root asks "are you here?"
  DoorsOpen, DoorsClose, Ends,  \* boundaries of the service
  MaxClock,    \* bound on the wall clock
  MaxMishaps   \* bound on stopped processes and failed transactions

ASSUME ServiceAssumption ==
  /\ NoTimestamp \notin Timestamp /\ NoUser \notin User
  /\ CheckInAt \in Timestamp
  /\ OccursAt \in [Timestamp -> Nat \ {0}]
  /\ Audience \in [Timestamp -> {"nbncs", "attendees"}]
  /\ DoorsOpen \in Nat \ {0} /\ DoorsClose \in Nat /\ Ends \in Nat
  /\ DoorsOpen < DoorsClose /\ DoorsClose < Ends
  /\ MaxClock \in Nat /\ MaxMishaps \in Nat

VARIABLES
  clock,       \* wall clock
  closedAt,    \* services.interaction_closed_at, 0 while it is null
  guest,       \* what the bot knows of each user
  asked,       \* users with an open selection on CheckInAt's root
  menu,        \* date of the first service menu of each user, 0 if none
  used,        \* when the service last answered each user, 0 if never
  claims,      \* timestamp_delivery_claims rows
  attempts,    \* sends attempted for each timestamp and user
  pc,          \* where the scheduler loop of each runtime is
  tick,        \* the time its current run began
  due,         \* timestamps of that run not yet finished
  current,     \* the one it is at
  recipients,  \* users of its audience not yet handled
  target,      \* the recipient whose presentations are being sent
  mishaps      \* stopped processes and failed transactions so far

vars == <<clock, closedAt, guest, asked, menu, used, claims, attempts,
          pc, tick, due, current, recipients, target, mishaps>>

durable == <<closedAt, guest, asked, menu, used, claims>>
schedulers == <<pc, tick, due, current, recipients, target>>

Guest == {"unknown", "unnamed", "named", "ordinary", "latecomer", "left"}
Attending == {"ordinary", "latecomer"}
PC == {"stopped", "idle", "listed", "expanded", "sending"}

Init ==
  /\ clock = 0 /\ closedAt = 0
  /\ guest = [u \in User |-> "unknown"]
  /\ asked = {}
  /\ menu = [u \in User |-> 0]
  /\ used = [u \in User |-> 0]
  /\ claims = {}
  /\ attempts = [d \in Timestamp \X User |-> 0]
  /\ pc = [r \in Runtime |-> "stopped"]
  /\ tick = [r \in Runtime |-> 0]
  /\ due = [r \in Runtime |-> {}]
  /\ current = [r \in Runtime |-> NoTimestamp]
  /\ recipients = [r \in Runtime |-> {}]
  /\ target = [r \in Runtime |-> NoUser]
  /\ mishaps = 0

Closed == closedAt # 0
Terminal(t) == OccursAt[t] = Ends
-----------------------------------------------------------------------------
(* Time, and the life of a runtime: one task group runs the poll loop and  *)
(* the scheduler loop, and an exception in either ends both.               *)

TimePasses ==
  /\ clock < MaxClock
  /\ clock' = clock + 1
  /\ UNCHANGED <<durable, attempts, schedulers, mishaps>>

Start(r) ==
  /\ pc[r] = "stopped"
  /\ pc' = [pc EXCEPT ![r] = "idle"]
  /\ UNCHANGED <<clock, durable, attempts, tick, due, current, recipients, target, mishaps>>

\* The open transactions roll back; presentations held in memory are gone.
End(r) ==
  /\ pc' = [pc EXCEPT ![r] = "stopped"]
  /\ due' = [due EXCEPT ![r] = {}]
  /\ current' = [current EXCEPT ![r] = NoTimestamp]
  /\ recipients' = [recipients EXCEPT ![r] = {}]
  /\ target' = [target EXCEPT ![r] = NoUser]
  /\ UNCHANGED <<clock, durable, attempts, tick>>

Mishap(r) ==
  /\ mishaps < MaxMishaps
  /\ mishaps' = mishaps + 1
  /\ End(r)

\* A crash, a stop signal, or a probe that finds the lock session gone.
Stop(r) ==
  /\ pc[r] # "stopped"
  /\ Mishap(r)

-----------------------------------------------------------------------------
(* The fences on the service row.                                          *)

\* Mutation of ServiceOpen: only the schedule is consulted, not the durable mark.
NotYetEnded(at) == at < Ends

\* _lock_open_service, for attendance and selection transitions.
ServiceOpen(at) == ~Closed /\ at < Ends

\* Mutation of DeliveryOpen: the closure mark is not read.
DeliveryInTime(t, at) == at < Ends \/ Terminal(t)

\* Mutation of DeliveryOpen: nothing is exempt from the end.
DeliveryBeforeEnd(t, at) == ~Closed /\ at < Ends

\* _lock_timestamp_delivery_service and _lock_root_service: the terminal
\* timestamp alone may still be delivered once the end has come.
DeliveryOpen(t, at) == ~Closed /\ (at < Ends \/ Terminal(t))

\* Mutation of IsDue: a timestamp is due only at its very moment.
IsDueNow(t, now) == OccursAt[t] = now /\ DeliveryOpen(t, now)

\* list_due_timestamps: overdue ones are caught up after a restart.
IsDue(t, now) == OccursAt[t] <= now /\ DeliveryOpen(t, now)

\* list_audience_user_ids with the resolver's own clock.
InAudience(u, t, now) ==
  \/ Audience[t] = "nbncs" /\ guest[u] # "unknown"
  \/ Audience[t] = "attendees" /\ guest[u] \in Attending /\ now < Ends

-----------------------------------------------------------------------------
(* The scheduler (ServiceDeliveryScheduler.run_once).                      *)

ListDue(r) ==
  /\ pc[r] = "idle"
  /\ tick' = [tick EXCEPT ![r] = clock]
  /\ due' = [due EXCEPT ![r] = {t \in Timestamp : IsDue(t, clock)}]
  /\ pc' = [pc EXCEPT ![r] = "listed"]
  /\ UNCHANGED <<clock, durable, attempts, current, recipients, target, mishaps>>

\* The next timestamp, earliest first, and its audience as of now.
Expand(r, t) ==
  /\ pc[r] = "listed"
  /\ t \in due[r]
  /\ \A s \in due[r] : OccursAt[t] <= OccursAt[s]
  /\ current' = [current EXCEPT ![r] = t]
  /\ due' = [due EXCEPT ![r] = @ \ {t}]
  /\ recipients' = [recipients EXCEPT ![r] = {u \in User : InAudience(u, t, clock)}]
  /\ pc' = [pc EXCEPT ![r] = "expanded"]
  /\ UNCHANGED <<clock, durable, attempts, tick, target, mishaps>>

RunDone(r) ==
  /\ pc[r] = "listed"
  /\ due[r] = {}
  /\ pc' = [pc EXCEPT ![r] = "idle"]
  /\ UNCHANGED <<clock, durable, attempts, tick, due, current, recipients, target, mishaps>>

TimestampDone(r) ==
  /\ pc[r] = "expanded"
  /\ recipients[r] = {}
  /\ current' = [current EXCEPT ![r] = NoTimestamp]
  /\ pc' = [pc EXCEPT ![r] = "listed"]
  /\ UNCHANGED <<clock, durable, attempts, tick, due, recipients, target, mishaps>>

\* Mutation of Unclaimed: the claim is not unique.
AlwaysUnclaimed(t, u) == TRUE

Unclaimed(t, u) == <<t, u>> \notin claims

\* The fence refuses the recipient, or the claim finds its row: on to the next.
Skip(r, u) ==
  /\ pc[r] = "expanded"
  /\ u \in recipients[r]
  /\ DeliveryOpen(current[r], tick[r]) => ~Unclaimed(current[r], u)
  /\ recipients' = [recipients EXCEPT ![r] = @ \ {u}]
  /\ UNCHANGED <<clock, durable, attempts, pc, tick, due, current, target, mishaps>>

\* One recipient's transaction: the claim and the root commit together.
Prepare(r, u) ==
  /\ pc[r] = "expanded"
  /\ u \in recipients[r]
  /\ DeliveryOpen(current[r], tick[r])
  /\ Unclaimed(current[r], u)
  /\ claims' = claims \cup {<<current[r], u>>}
  /\ asked' = IF current[r] = CheckInAt THEN asked \cup {u} ELSE asked
  /\ recipients' = [recipients EXCEPT ![r] = @ \ {u}]
  /\ target' = [target EXCEPT ![r] = u]
  /\ pc' = [pc EXCEPT ![r] = "sending"]
  /\ UNCHANGED <<clock, menu, used, attempts, tick, due, current, mishaps>>

Announce(r, u) ==
  /\ Prepare(r, u)
  /\ ~Terminal(current[r])
  /\ UNCHANGED <<closedAt, guest>>

\* Mutation of EndAttendances: closure leaves attendance as it is.
KeepAttendances == guest

\* end_active_for_service.
EndAttendances ==
  [u \in User |-> IF guest[u] \in Attending THEN "left" ELSE guest[u]]

\* The terminal root's end_service_interactions closes the service in the same
\* transaction: claim_interaction_closure, expired selections, ended attendance.
Close(r, u) ==
  /\ Prepare(r, u)
  /\ Terminal(current[r])
  /\ closedAt' = tick[r]
  /\ guest' = EndAttendances

\* A recipient's transaction fails, as the victim of a deadlock for one: only a
\* refusal of the fence is caught, anything else ends the runtime.
PrepareFails(r) ==
  /\ pc[r] = "expanded"
  /\ recipients[r] # {}
  /\ Mishap(r)

\* One attempt after the commit, whatever Telegram answers.
Send(r) ==
  /\ pc[r] = "sending"
  /\ attempts' = [attempts EXCEPT ![<<current[r], target[r]>>] = @ + 1]
  /\ target' = [target EXCEPT ![r] = NoUser]
  /\ pc' = [pc EXCEPT ![r] = "expanded"]
  /\ UNCHANGED <<clock, durable, tick, due, current, recipients, mishaps>>
-----------------------------------------------------------------------------
(* Updates of guests, dispatched by the poll loop of a live runtime with   *)
(* the date "at" of their message.                                         *)

Live(r) == pc[r] # "stopped"

\* A first message: resolve_telegram_sender creates the user.
Meet(r, u) ==
  /\ Live(r)
  /\ guest[u] = "unknown"
  /\ guest' = [guest EXCEPT ![u] = "unnamed"]
  /\ UNCHANGED <<clock, closedAt, asked, menu, used, claims, attempts,
                 schedulers, mishaps>>

Kind(at) == IF at >= DoorsClose THEN "latecomer" ELSE "ordinary"

\* start_or_switch, then the service checkpoint with its menu.
Attend(u, at) ==
  /\ guest' = [guest EXCEPT ![u] = Kind(at)]
  /\ menu' = [menu EXCEPT ![u] = clock]

\* The name is captured: a new guest attends the ongoing highkey service at
\* once, or else is taken to the system checkpoint.
CaptureName(r, u, at) ==
  /\ Live(r)
  /\ guest[u] = "unnamed"
  /\ IF DoorsOpen <= at /\ ServiceOpen(at)
       THEN Attend(u, at)
       ELSE /\ guest' = [guest EXCEPT ![u] = "named"]
            /\ UNCHANGED menu
  /\ UNCHANGED <<clock, closedAt, asked, used, claims, attempts, schedulers, mishaps>>

\* list_for_user and _valid_branches: a selection expires at closedAt, and what
\* that means depends on the date of the message.
Listed(at) == at < Ends /\ (Closed => at < closedAt)

\* "i am here", routed to the question while the service is open.
CheckingIn(r, u, at) ==
  /\ Live(r)
  /\ guest[u] \notin {"unknown", "unnamed"}
  /\ u \in asked
  /\ Listed(at)
  /\ ServiceOpen(at)

\* Before the doors open the attendance action fails, and the failure is
\* answered; the question's selection is consumed all the same.
CheckInEarly(r, u, at) ==
  /\ CheckingIn(r, u, at)
  /\ at < DoorsOpen
  /\ asked' = asked \ {u}
  /\ UNCHANGED <<clock, closedAt, guest, menu, used, claims, attempts,
                 schedulers, mishaps>>

\* With the doors open the attendance is written and its menu opened, but the
\* event's leaf then returns to a checkpoint, and the question's root has none:
\* select_child raises, nothing catches it and everything rolls back.
CheckInRaises(r, u, at) ==
  /\ CheckingIn(r, u, at)
  /\ DoorsOpen <= at
  /\ Mishap(r)

\* A text is dispatched late, but never before it was written; a menu button
\* carries the date of its menu, however late it is pressed.
HasMenu(u, at) == menu[u] # 0 /\ menu[u] <= at

\* A menu button, or a question routed to the service's branch.
UseService(r, u, at) ==
  /\ Live(r)
  /\ HasMenu(u, at)
  /\ Listed(at)
  /\ ServiceOpen(at)
  /\ used' = [used EXCEPT ![u] = clock]
  /\ UNCHANGED <<clock, closedAt, guest, asked, menu, claims, attempts,
                 schedulers, mishaps>>

\* The branch is still listed for so old a message, but the service has closed:
\* open_selections.apply raises and nothing catches it.
DispatchRaises(r, u, at) ==
  /\ Live(r)
  /\ guest[u] \notin {"unknown", "unnamed"}
  /\ u \in asked \/ HasMenu(u, at)
  /\ Listed(at)
  /\ ~ServiceOpen(at)
  /\ Mishap(r)

\* Checking in at another service ends this attendance.
Leave(r, u) ==
  /\ Live(r)
  /\ guest[u] \in Attending
  /\ guest' = [guest EXCEPT ![u] = "left"]
  /\ UNCHANGED <<clock, closedAt, asked, menu, used, claims, attempts,
                 schedulers, mishaps>>
-----------------------------------------------------------------------------
Guests(r, u) ==
  \/ Meet(r, u) \/ Leave(r, u)
  \/ \E at \in 0..clock :
       \/ CaptureName(r, u, at) \/ CheckInEarly(r, u, at) \/ UseService(r, u, at)
       \/ CheckInRaises(r, u, at) \/ DispatchRaises(r, u, at)

Run(r) ==
  \/ ListDue(r) \/ RunDone(r) \/ TimestampDone(r) \/ Send(r)
  \/ \E t \in Timestamp : Expand(r, t)
  \/ \E u \in User : Skip(r, u) \/ Announce(r, u) \/ Close(r, u)

Next ==
  \/ TimePasses
  \/ \E r \in Runtime :
       \/ Start(r) \/ Stop(r) \/ Run(r) \/ PrepareFails(r)
       \/ \E u \in User : Guests(r, u)

Spec == Init /\ [][Next]_vars

\* The scheduler loop keeps running, and a stopped bot is started again.
Fairness == \A r \in Runtime : WF_vars(Run(r)) /\ WF_vars(Start(r))

\* Time may stop: the scheduler must then catch up with what is due.
FairSpec == Spec /\ Fairness
-----------------------------------------------------------------------------
TypeOK ==
  /\ clock \in Nat /\ closedAt \in Nat
  /\ guest \in [User -> Guest]
  /\ asked \subseteq User
  /\ menu \in [User -> Nat]
  /\ used \in [User -> Nat]
  /\ claims \subseteq Timestamp \X User
  /\ attempts \in [Timestamp \X User -> Nat]
  /\ pc \in [Runtime -> PC]
  /\ tick \in [Runtime -> Nat]
  /\ due \in [Runtime -> SUBSET Timestamp]
  /\ current \in [Runtime -> Timestamp \cup {NoTimestamp}]
  /\ recipients \in [Runtime -> SUBSET User]
  /\ target \in [Runtime -> User \cup {NoUser}]
  /\ mishaps \in Nat

\* Each announcement is attempted at most once for each user, and only after
\* its claim committed: restarts, catch-up and overlapping schedulers included.
AnnouncedAtMostOnce ==
  \A d \in Timestamp \X User : attempts[d] <= 1 /\ (attempts[d] = 1 => d \in claims)

\* A closed service has no active attendance, however late an update that was
\* written before the end is dispatched.
ClosedServiceIsEmpty ==
  Closed => \A u \in User : guest[u] \notin Attending

\* Closure is final: no claim, question, menu or answer of the service follows
\* it, from a scheduler run that began earlier or from a delayed update.
ClosureFreezes ==
  [][Closed => UNCHANGED <<closedAt, claims, asked, menu, used>>]_vars

\* An announcement for attendees is prepared only for users who have attended.
OnlyAttendeesTold ==
  \A t \in Timestamp, u \in User :
    <<t, u>> \in claims /\ Audience[t] = "attendees" =>
      guest[u] \in Attending \cup {"left"}

\* A timestamp that has fallen due reaches every user who stays in its audience,
\* across restarts, unless the service ends first.
DueIsDelivered ==
  \A t \in Timestamp, u \in User :
    OccursAt[t] <= clock /\ InAudience(u, t, clock)
      ~> <<t, u>> \in claims \/ ~InAudience(u, t, clock) \/ clock >= Ends

\* Once its end has come the service's interactions are closed, and the matches
\* and selections they hold released.
ServiceCloses ==
  clock >= Ends /\ (\E u \in User : guest[u] # "unknown") ~> Closed

-----------------------------------------------------------------------------
(* The inductive strengthening of the safety properties.                   *)

\* A service is closed by a run that began at or after its end.
ClosedAfterEnd == Closed => closedAt >= Ends

\* A send in progress is of a claimed announcement not attempted before, and no
\* two schedulers are sending the same one.
OneSenderEach ==
  \A r \in Runtime :
    pc[r] = "sending" =>
      /\ <<current[r], target[r]>> \in claims
      /\ attempts[<<current[r], target[r]>>] = 0
      /\ \A q \in Runtime \ {r} :
           pc[q] = "sending" => <<current[q], target[q]>> # <<current[r], target[r]>>

\* Where a run is: a timestamp is current exactly while its audience is being
\* served, everything it holds has fallen due, and its recipients belong to it.
RunsConsistent ==
  \A r \in Runtime :
    /\ pc[r] \in {"expanded", "sending"} <=> current[r] \in Timestamp
    /\ pc[r] = "sending" => target[r] \in User
    /\ \A t \in due[r] \cup {current[r]} : t \in Timestamp => OccursAt[t] <= tick[r]
    /\ current[r] \in Timestamp /\ Audience[current[r]] = "attendees" =>
         \A u \in recipients[r] : guest[u] \in Attending \cup {"left"}

ServiceInvariant ==
  /\ TypeOK
  /\ ClosedAfterEnd
  /\ OneSenderEach
  /\ RunsConsistent
  /\ AnnouncedAtMostOnce
  /\ ClosedServiceIsEmpty
  /\ OnlyAttendeesTold
-----------------------------------------------------------------------------
\* What the lifecycle promises to a guest.
Promise == INSTANCE ServicePromise
  WITH over <- Closed,
       present <- {u \in User : guest[u] \in Attending},
       announced <- claims,
       sent <- {d \in Timestamp \X User : attempts[d] > 0}

ImplementsPromise == Promise!PromiseSpec
=============================================================================
