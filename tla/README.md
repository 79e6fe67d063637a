# Friendly Bot: specifications, model checking and proofs

Friendly Bot (`src/friendly-bot`) is a Telegram bot for guests of a church
service. One Python process polls Telegram, routes each text through a language
model, walks the user through published discussion flows, matches a guest with
a human responder, and sends scheduled announcements around a service. All of
its durable state is in PostgreSQL. This directory holds TLA+ modules of the
parts of it that are hard to test, the TLC configurations that check them on
small instances, and proofs that TLAPS checks for every instance.

## 1. The system

Paths are relative to `src/friendly-bot/src/friendly_bot/`.

| Component | State | Operations | Hard behaviours |
|---|---|---|---|
| Update ingress: `telegram/poller.py`, `runtime_lock.py`, `sender.py`, the loop of `app.py` | polling cursor, processed updates, advisory lock, presentations in memory | acquire lock, probe, read offset, fetch, claim, dispatch, commit, send | redelivery, lost lock session, overlapping runtimes, exceptions, lost replies |
| Human matching: `matching/service.py`, `actions/executors.py`, match repository | requests, reservations, assignments, exclusions, capacity counters | find, confirm, release and find again, close | an await in the middle of a transaction, limited capacity, stale candidates |
| Service lifecycle: `services/*.py`, `app.py`, service and attendance repositories | services, timestamps, delivery claims, attendance | list due, expand audience, claim and prepare, send, attend, close | clocks that disagree, catch-up, old buttons, the step that ends everything |
| Open selections: `domain/state.py`, open-selection repository | a tree position per branch, its lineage and checkpoints | select a child, return to a checkpoint, open, reset and expire roots | lineage across long conversations, reuse of past selections |
| Pending intents: `intents/service.py`, its repository | a queue of at most five flows per user | enqueue, expire, resume | bound, duplicates, a resumed flow that has already run |
| Dispatch and action runner: `app.py`, `actions/*.py`, `telegram/presentations.py` | the frames of nested runs, the context's retained match, the presentation held back | perform actions, emit events, handle failures, navigate into roots, collect the reply | partial effects, failing actions, nested runs, a contact that has changed since it was read |
| Operational accounts: `onboarding/accounts.py`, `app.py`, profile, login and attempt repositories | profiles, logins and their history, one session per guest | provision, log in, manage interests, log out, answer a session | commands in the middle of a session, sessions that expire, capacity below what is reserved |
| Onboarding: `onboarding/service.py`, `app.py` | display name, messages so far | special commands, `/start`, capture the name | commands sent before the name, answers that come too late |
| Routing and the gateway: `routing/*`, `responses/*` | the request under way | ask, retry, validate an answer, plan replies, fall back, rank | an external model that fails, is slow or answers anything |
| Row locks: `persistence/uow.py`, repositories | user, timestamp, service and profile row locks | lock, commit, roll back | lock order of ingress and scheduler |
| Persona: `persona/service.py` | a cursor and a summary | maintain | ordering of windows (used by no composition) |
| Publication: `domain/publication.py` and the flow types | immutable versions | validate, hash, publish | rules the runner counts on |
| Schema: `persistence/models.py`, migrations | constraints | none | guards of the actions above |
| Seeds: `seeds/*.py` | the documents: 91 flows | none | what every other component is run on |
| Settings, scripts, assets | constants | none | input to the rest |

How they interact. `run_application` runs two loops in one task group: the poll
loop hands each update to ingress, which opens one transaction, claims the
update, calls the dispatcher, commits and only then sends; the scheduler loop
claims each announcement for each recipient in a transaction of its own and
sends after the commit. An exception that neither loop catches cancels both and
ends the process; so does a probe that finds the advisory lock's session gone.
The loops share only the database, mostly through the service row, whose lock
fences closure against attendance, selection changes and finds.

A dispatch passes through the components in this order: a slash command or an
open session takes the update (`Reception` over `OperationalAccounts`); failing
that, the name is captured; failing that, a text is routed (`Routing`) among what
the guest's branches offer (`Conversation`), or a button chooses directly; the
chosen flow is run (`ActionRunner`), with what it does to matches (`Matching`)
and attendance (`ServiceLifecycle`); the whole is one transaction of
`UpdateIngress`.

Three parts decide whether guests can trust the bot: updates take effect exactly
once, capacity is never given twice or lost, and a service ends once and for
all. The others decide whether the bot always has an answer, whether the answer
is what its authors wrote and reaches whom it is for, and whether an account
stays with its owner.

## 2. Modules

| Module | What it is |
|---|---|
| `UpdateLog` | what ingress promises: updates take effect once and in order, replies are attempted at most once |
| `UpdateIngress` | the protocol: lock, cursor, batches, claim, commit, send |
| `UpdateIngressProofs` | its inductive invariant, action properties and refinement of `UpdateLog` |
| `Matching` | requests, finds with their pause at the ranker, capacity, closure |
| `MatchingProofs` | its inductive invariant and safety properties |
| `ServicePromise` | what the lifecycle promises: join, part, announce, finish, tell |
| `ServiceLifecycle` | scheduler, attendance, closure, and the dates updates are judged by |
| `ServiceLifecycleProofs` | its inductive invariant, finality of closure, refinement of `ServicePromise` |
| `Conversation` | one guest's open selections, the queue of deferred intents, and the dispatch of texts and buttons over both |
| `ConversationProofs` | its inductive invariant for any set of documents |
| `OperationalAccounts` | profiles, logins, the sessions of `/login` and `/manage`, provisioning at each start |
| `OperationalAccountsProofs` | its inductive invariant, exclusive attachment and ownership of interests |
| `Reception` | who takes an update first; composes `OperationalAccounts` with names and messages |
| `ReceptionProofs` | that it is a composition, and its properties for every population |
| `Documents` | the shipped documents as data: every flow, how it is chosen, what it does |
| `Publication` | the rules of publication, and the shipped documents held to them |
| `ReplyScript` | what the bot promises about the reply to one update |
| `ActionRunner` | one dispatch: actions, events, failures, nested roots, presentations |
| `AuthoringRules` | rules the authors of documents keep, and what then holds at every step of a run |
| `ActionRunnerProofs` | its invariant and its refinement of `ReplyScript` for any documents, and that replies are true for documents that keep the rules |
| `Routing` | requests to the language model, the checks on its answers, plans, fallbacks, rankings |
| `RoutingProofs` | that no answer does harm, for any flows, slots and texts |
| `MC...` | constants and symmetries of the runs |

### UpdateIngress

`pc[r]` follows one runtime round `_poll_forever` and `TelegramPoller.run_once`:
`looping` (probe the lock), `polling` (read the offset in its own transaction),
`fetching` (getUpdates), `batch` (between updates), `dispatching` (a transaction
is open and has inserted its claim), `sending` (after the commit). The claim and
the commit are two steps because dispatch awaits the language model in between;
the inserted key makes another runtime wait (`KeyFree`). Telegram is external:
it numbers updates upwards with gaps, forgets what lies below the requested
offset and may lose an answer. `Poison` updates are those whose dispatch raises,
`Malformed` those the strict parser refuses, `Ignored` those without a message.
`MaxFaults` bounds lost sessions and stopped processes.

### Matching

A find is two steps: `AskNormal`, `AskSafety` and `Report` read the candidates
and stop at the ranker's await; `Reserve`, `NotFound`, `RankingFails` and
`Abort` end the transaction. What a transaction writes before the await nobody
sees before the commit, so it is written in the second step (the operators
`Kept...`). The service row is locked from the first step to the last of a
normal find (`ServiceUnlocked`). The ranker may choose any candidate.
`Preference` is what a requester may ask for. Leaders count for safety requests
whether they attend or not, since the caller never supplies their attendance.
`Runtimes` is the number of pollers alive: one, or more after a lost session.

### ServiceLifecycle

One service with its timestamps and users. `pc[r]` follows
`ServiceDeliveryScheduler.run_once`; `tick[r]` is the time the run began, which
the code passes to every claim, while `InAudience` uses the clock of the moment.
Updates of users carry `at`, the date of their message. A text has any date up
to now, since it may have waited; a button has the date of its menu however
late it is pressed. Each transaction holds the service's row lock from its look
at the closure mark to the commit, and is one step. `PrepareFails` is a
recipient's transaction that fails for any other reason than closure.

### Conversation

`selections` is the guest's `open_flow_selections`. The identifier of a row is
fixed by its path, so a flow has one row at most and the module keys rows by
flow; a row keeps its focus (`current`) and its checkpoints on the way down
(`checks`), which the code stores as a lineage and validates at every use.
`Choose` is `select_child` with `apply`, on the rows as they were listed before
the actions of the choice ran; `Return`, `OpenRoot`, `ResetSystem` and `Expire`
are the other writers. One dispatch holds the user's row lock and commits once,
so it is one step: `Say` routes a text to a choice and perhaps defers a second
one, `SayAndResume` also runs the first deferred intent still on offer after the
choice completed its interaction, `Press` is a button, `Chat` a text to which
nothing is routed, and `SayRaises` and `PressRaises` are the dispatches that
raise, roll back and end the process. `Prepared` is the reset of the system
branch before each text. A flow's actions are seen by what they do to selections
(`Returns`, `Enters`) and by the event child they emit, any of those the flow
has, or none. `Lapse` is an intent's 24 hours.

### OperationalAccounts

Commands and answers of a guest are updates handled under the guest's row lock,
so each is a step; `date` is the date of the newest message, which is the code's
time. `session` has a guest's row of `operational_login_attempts`: it is replaced
by the next command, expires by `Lifetime`, and is removed when it is read too
late (`Expire`). `Occupied` is the three unique keys an attachment may meet. The
history of all logins decides whether a login is a profile's first (`FirstEver`).
`Start` provisions any seed at every start of the process and cannot happen where
the seed's capacity is below what is reserved. `TakePlace` and `GiveBack` are what
`Matching` does to a profile. A profile's role does not change.

### Reception

One action per way an update can be taken: `SendLogin`, `SendManage`,
`SendLogout` and `SendUnknown` are commands, which come before everything else
and leave an open session open; `SendAnswer` and `SendNonsense` are texts in an
open session; `GreetText`, `CaptureName` and `Converse` are what is left of the
texts, `SendStart` and `PressButton` the rest. Each names the step of
`OperationalAccounts` it takes, or leaves the accounts alone. `heard` is whether
a message of the guest is kept, which is how `_dispatch_onboarding` tells a first
text from a name; `question` is what the last reply asked. `Elsewhere` is what
the accounts do without an update: restarts and matches.

### Documents and Publication

`Documents` is the two seed files, flow by flow, without the words: key, parent,
mode, triggers, actions, return actions. `Publication` has the rules of
`domain/publication.py` as operators and states, as named assumptions that TLC
evaluates, that the shipped documents pass them (`ShippedArePublishable`) and
that exactly one of the buttons they show chooses no single flow
(`OneDeadButton`, see section 6). The runs of `ActionRunner` take their flows
from `Documents`; `Conversation` uses a smaller set of its own.

### ActionRunner

`turn` is how the current run was asked for (a text, a resumed intent, a button,
a root that is opened), `task` what is being run for it (an answer before the
choice, the choice, return actions). `frames` is the stack of
`_run_flow`: the flow, the script of actions and the position in it; entering a
root inside an action pushes a frame and returning pops it. `work` is the open
transaction and `db` what is committed: the guest's open flows, who holds each
request and who is excluded from it. `pending` is the presentation that waits for
its buttons, `buffer` the reply. `screen` has the buttons the guest can still
press. Every type of action in the registry is an action of the module, or one of
a group that does the same to this state; the freedom to fail (`Fail`) is that of
any action.

`knows` is what the context of the topmost run retains between actions: the
request, whom it is assigned to, whom it was taken from. An event child, an
entered root and return actions each run on a copy (`for_child`, `context.py:327`),
and who handed over goes on with the context it had. `callers` has the contexts
that will be used again: one for each frame inside which another runs (`Nest`),
and that of the choice, which its way back uses, once an event child has taken its
place (`Copy`; `app.py:917` and `1052`). `Leave` takes the last of them up. What a
nested run learns or releases is thus unknown to its caller. An action that fails
may have retained something before it did (`Learnt`).

`AfterFailure` and `Handled` are the runner's recovery: the direct "error" child
if there is one, the fixed text otherwise. The child runs as a recovery
(`HandTo(g, key = "error")`, `runner.py:150`): a failure in it gets the fixed text
even if it has an "error" child of its own (`runner.py:91`). `failed` remembers
which of the two kinds of failure the update has seen. `Raise` is what leaves
the runner: an event's leaf without a checkpoint to go back to; `Abort` is a
database error. Both roll everything back.

### AuthoringRules

What a reply says depends on the documents: a flow that shares a contact without
a notice before it would make `ContactAfterNotice` false without any fault of the
runner. The module names what the shipped flows do that the runner counts on:

| rule | what authors keep | enforced by the code |
|---|---|---|
| `ContactRule` | a contact is shared right after the notice to whom it belongs | no |
| `AnswerRule` | answers have no flows below them | publication (`_validate_answer_flow`) |
| `EnteredRule` | `Home` and `Latecomer`, entered by an action, have no child for an event | no |
| `EventRule` | an event comes last in return actions, and has a child to go to elsewhere | publication (`_validate_action_list`, `_validate_direct_event_handlers`) |
| `VoiceRule` | every flow shows something, opens a script or emits; every checkpoint shows something | no |
| `FarewellRule` | whoever is released is told next | no |
| `ContextRule` | only flows that the guest chooses release: no entered root, no event child, no return actions | no |
| `ReleaseRule` | a release comes first in its flow, before farewell and exclusion | no |
| `CalmRule` | where a run goes after a failed exclusion, it does not search | no |
| `NestingRule` | home, and the return actions of any flow, enter no other flow; the latecomers' root does not enter itself | no |

"Right after" allows the actions in between that change nothing about the match
(`Quiet`). `MCActionRunner` states, as assumptions that TLC evaluates, that the
flows of the runs keep all of them (`RulesKept`) and that every shipped flow does
(`ShippedKeepRules`), but `interaction_ends`: its one action belongs to
`ServiceLifecycle`. `Published` says that the flows are those of trees which
`Publication` accepts; that they then keep the two enforced rules is a theorem,
and that the shipped ones are such trees another assumption
(`ShippedArePublished`).

### Routing

`op` is the operation under way: `route` (a text among several flows), `known`
(copy for a flow a button or a resumed intent has chosen) or `rank` (candidates
for a match). The provider is arbitrary: each post either brings nothing (`Lost`:
a failure, a timeout, an undecodable body; retried up to `MaxAttempts`), or an
answer that is read element by element, each a free choice among all flows, a
stranger, all texts and slots. `Acceptable` and `Permitted` are the decoder's
checks, `Foreign` the flows whose first slot belongs to an event child, for which
even a valid answer about a known flow is thrown away (section 6). `said` are the
texts planned for the slots, `verdict` is how the operation ended; `raised` would
be an error that nothing catches. A ranking is one post for each place: `asked` are
the candidates by their position in the request (the aliases of
`_rank_profile_ids`), `remaining` those still to be named, and `RankDone` appends
them in the order of the request when the provider has enough. A ranking whose
post fails is given up, and the search with it.

## 3. Runs

| Run | Asks | Instance |
|---|---|---|
| `ingress` | effects exactly once, nothing skipped, replies, refinement of `UpdateLog`, every update before a poisoned one handled | 2 runtimes, updates 1, 2 and 4 (a gap; 2 has no message, the dispatch of 4 raises), batches of 2, 2 faults |
| `ingress_malformed` | whether every update is handled | 2 updates, one malformed |
| `matching` | the ledger through finds, rematches, exclusions and closure | 2 requesters, 2 servers and 1 helper of capacity 1, 2 runtimes |
| `matching_report_message` | whether a reported responder is replaced | 1 requester, 2 servers, reports by text |
| `service` | announcements once, closure final and complete, refinement of `ServicePromise`, what is due is delivered, the service closes | 1 user, 2 runtimes, 3 timestamps, clock to the end, 1 mishap |
| `service_shipped` | whether the service closes with the shipped audience | as above |
| `conversation` | lineages, returns, a checkpoint on offer, closed rows, the queue | 14 flows in 3 documents, queue of 2 |
| `conversation_check_in` | whether a dispatch can raise | 5 of those flows |
| `reception` | attachment, sessions, names and questions, restarts with other seeds | 2 guests, 1 profile, session of 1 tick, dates 0 and 1, capacity up to 1 |
| `runner` | contexts and their copies, contacts, notices, farewells under failures | 17 flows: connect and safety as shipped, an error handler that has one itself, a report by button; 2 servers, 1 leader |
| `navigation` | that a dispatch ends, shows something, answers failures and those of handlers; refinement of `ReplyScript` | 20 flows: roots, change of service with an error handler that has one itself, check-in, an answer, an administrative topic |
| `routing` | what an answer of the provider can do | 4 flows, a stranger, 6 texts, 2 slots, 2 attempts, answers of up to 3 matches, rankings of up to 3 candidates |

Why the bounds are enough to be interesting. Two runtimes are the smallest
number that can overlap, and two faults allow a lost session followed by a
crash. A gap in the identifiers is what an off-by-one in the cursor would fall
into. Two requesters and a place for one are the smallest race for capacity;
two servers let a rematch find somebody else, and the helper is the other pool.
The service has one timestamp of each sort: a question for everybody at doors
open, an announcement for attendees, and the terminal one; a run that began
before the end can act after it. The documents of `conversation` are the shipped
ones reduced to one flow of each sort (reusable and single-use, leaf and inner,
explicit return, service entry, event child, text and button), with a checkpoint
below a checkpoint added; a queue of two is the smallest that both overflows and
keeps an order. Two guests and one profile compete for it; with a session of one
tick an answer comes in time or too late. (With one guest and two profiles of one
name the properties of `reception` hold as well; that two profiles exclude each
other for every population is proved.) `runner` and `navigation` use the shipped
flows themselves. Two changes let rare code run: an "error" child with an "error" child of its
own, which the runner supports (`tests/e2e/test_action_runner.py:211`) and no shipped flow has,
and a button for the report of a silent responder, as
`docs/examples/zone-x-service-example.md` draws it. In `routing` the texts are one
of each relation to the authored copy: a rewording, one that loses a token, one
that changes their order, one with a URL too many, one with a forbidden dash.

Every safety property of the passing runs is proved for every value of the
constants, the six about contexts and replies for documents that keep the rules of
`AuthoringRules`; liveness is only checked (section 5).

`service` gives the terminal timestamp an audience that outlives the end (every
known guest), as the scheduler's own tests do: with the shipped audience the
closure it asks about never happens, which `service_shipped` shows.

Deadlock is checked in every run: the models have no state in which nothing can
happen any more.

## 4. Fairness

Ingress (`FairSpec` of `UpdateIngress`):

* `WF(Work(r))`: an asyncio loop takes its next step; each await in it has a
  timeout or ends with an exception.
* `WF(Start(r))`: an operator or a supervisor starts a stopped bot again. The
  repository leaves this to the deployment; without it nothing is live.
* `SF(Fetch(r))`: getUpdates is retried every half second and does not fail for
  ever.

`EveryUpdateHandled` speaks of the updates before a poisoned one: a dispatch
that always raises blocks what comes after it for as long as the code is not
repaired, however often the bot is started again. `MaxFaults` bounds lost
sessions and stops from outside.

Service (`FairSpec` of `ServiceLifecycle`): `WF(Run(r))` and `WF(Start(r))` for
the same reasons. Time is not fair: it may stop at any moment, and the scheduler
must then catch up with all that is due. `MaxMishaps` bounds stopped processes
and failed transactions; what they were about is due again at the next start.

Action runner: `WF(Act)` and `WF(Commit)`, one asyncio task that takes a dispatch
to its end. Nothing makes a guest write.

Routing: `WF(Answer)`. A post ends with an answer or after ten seconds
(`timeout=self._timeout_seconds`); that timeout is one for each socket operation,
so a provider that sends a byte now and then could hold a dispatch longer. The
assumption is that it does not for ever.

Nothing is assumed of users or of faults. `Matching`, `Conversation`,
`OperationalAccounts` and `Reception` state no fairness and no liveness: their
steps are answers to guests, who may stop writing.

## 5. What is proved

Each `...Proofs` module proves `Spec => []Inv` for one inductive invariant, with
one lemma per group of actions, and derives the rest from it.

* `UpdateIngressProofs`. `IngressInvariant` adds to the properties that the
  cursor separates claimed from unclaimed updates exactly and Telegram still
  keeps the latter (`CursorExact`), that a batch leaves nothing unclaimed behind
  its members (`BatchesLeaveNothingBehind`), and that no two runtimes are inside
  the same update (`OneTransactionPerUpdate`). Exactly-once needs all three: a
  second runtime may hold the same batch, and only the order within it and the
  claimed prefix keep its commit from being a repetition or a skip. From it:
  exactly-once effects, no skipped update, order, replies (attempted once at
  most, and lost by a fault only), the monotone cursor and the refinement of
  `UpdateLog`.
* `MatchingProofs`. `MatchingInvariant` adds what an open find may rely on after
  its pause (`FindsConsistent`): the profile it released is still its request's
  responder in the committed tables, and a find for a closed service does not
  exist. The ledger lemma is about cardinality: each profile's counter is the
  number of its active reservations. Assumption: finitely many requesters.
* `ServiceLifecycleProofs`. `ServiceInvariant` adds `OneSenderEach` (a send in
  progress has its claim, has not been attempted, and is the only one) and
  `RunsConsistent` (a scheduler's recipients belong to the audience even when
  time and attendance have moved on). `ClosureIsFinal` is an action property;
  `Refinement` maps each step to a step of `ServicePromise` or to a stutter.
* `ConversationProofs`. The documents are arbitrary: any trees whose paths have
  unique keys and whose system root and service root are checkpoints
  (`FlowAssumption`, `PathAssumption`, what publication validates). The
  invariant holds because each writer keeps four facts about rows, stated and
  proved for each: `Good` (every row carries the published path of its flow and
  every checkpoint on it has a row), `Asleep` (no row of a closed service is
  current), `Refuge` (a named guest has a checkpoint on offer) and `Spared` (only
  single-use rows of a service are lost); `Sparse` is the bound on the queue of
  intents, which holds no flow twice. A resumed intent is two such writers in
  one step, which is why they are facts about any set of rows and not about the
  state.
* `OperationalAccountsProofs`. `AccountsInvariant` is inductive as it stands. It
  needs the history: `HistoryKept` (whatever is attached is in it) and
  `CapturesRecorded` (a profile that was asked has a row in it) are what makes a
  first login the only one to ask.
* `ReceptionProofs`. `ComposesAccounts` shows that every step of `Reception` is a
  step of the accounts or leaves them alone, so that `AccountsInvariant` holds
  behind the front door without being proved again. `NamesAreAsked` and
  `QuestionIsOpen` are then invariants of the composition; the second needs the
  first's companion, that what is asked last is recorded in the session's row by
  the same step.
* `ActionRunnerProofs`. The documents are arbitrary trees with arbitrary scripts.
  `RunnerInvariant` says that at most one presentation is held back, nested runs
  are inside navigations, and every run that waits for another has its context
  kept (`ContextsKept`). `Refinement` maps the reply as it would be if it
  were flushed now (`Flushed`) to the script: that flushing changes nothing there
  is the reason why buttons may be collected late.

  The other six properties of the runner are proved for documents that keep
  rules of `AuthoringRules`, each theorem naming those it needs. `ContextInvariant`
  is inductive as it stands. The others are not, since each speaks of the settled
  reply or of the buffer alone, while an update runs many flows; each has an
  invariant of its own over `Told`, what
  the reply says so far, and over what the topmost script has run since the last
  action that matters (`Ran`) or is about to run (`Ahead`):

  | theorem | rules | the invariant says, in addition |
  |---|---|---|
  | `ContextsHold` | `ContextRule` | whoever a context retains holds the request in the database, and so for the contexts of the callers; but for the flow that was chosen, whatever runs was entered, is an event's child or goes back (`ContextInvariant`) |
  | `ContactsAfterNotices` | `ContactRule` | between a notice and its contact the context retains whom the notice went to (`ContactInvariant`) |
  | `FailuresAnswered` | `EnteredRule`, `AnswerRule` | only the lowest frame hands over (`FramesTraced`), an update goes on with another run only after flows that had no child to recover in, and a failure in a handler has had the fixed text (`FailureInvariant`) |
  | `UpdatesAnswered` | `VoiceRule`, `EventRule` | while nothing was shown, the topmost frame still has something to show or a child to go to (`AnswerInvariant`) |
  | `NobodyIsDroppedSilently` | `FarewellRule` | whoever lost the guest was told, or is retained with the farewell ahead (`DropInvariant`) |
  | `NoticesHold` | `EnteredRule`, `ContextRule`, `ReleaseRule`, `CalmRule` | a release is ahead only where nobody was notified yet; whoever was told farewell is excluded, or is about to be, or no search is to come (`NoticeInvariant`) |

  `ContextRule` is a restriction the runner does not impose. A flow that releases
  in an entered root, in a handler or on the way back changes its own copy, and the
  caller's context goes on naming who was released: a contact shared after that
  would be of somebody who no longer holds the request. No shipped flow does so
  (`ShippedKeepRules`), and for those that do `ContextsHold` and `NoticesHold` say
  nothing. A search in a nested run is harmless: it finds somebody only
  where nobody holds the request, so that its caller retains nobody either.

  `NoticesHold` is where the rules bite most: if the exclusion fails after the farewell
  was said, a search in the error handler could find the same person again, and
  the farewell would be false. The runner does not prevent it; `CalmRule` says
  that no document asks for it. `PublishedKeepsRules` discharges `AnswerRule` and
  `EventRule` for whatever publication accepts.

  A flow may enter another one within an action, and that one another: the code
  bounds neither the depth nor the number of such runs. `NestingBounded` says that
  documents which keep `EnteredRule` and `NestingRule` never have more than three
  frames at once. `DispatchDescends` says that every step of a dispatch but a raise,
  which ends it, leaves less to run: less of the choice, or a flow further down the
  tree, or fewer actions in the lowest nested run that changed. That order
  (`Descends`) is lexicographic over natural numbers, so a dispatch cannot go on for ever: the
  safety half of `DispatchEnds`, for every such set of documents in
  which a flow can be given a height above those below it (`Heights`), as in any
  finite forest; `ShippedHaveHeights` gives one for the shipped flows. The
  inductive invariant is `NestingInvariant`. TLC checked the invariants of all these
  theorems on both runs before they were proved.
* `RoutingProofs`. `IInv` says that the plan read so far is sound whatever the
  provider has answered: distinct offered flows, slots of the flow, permitted
  texts. Binding can then raise nothing, at most one choice runs, the safety flow
  runs alone, and tokens and URLs are the authors'.

Assumptions are the named ones of each module (`IngressAssumption`,
`MatchingAssumption`, `ServiceAssumption`, `FlowAssumption`, `PathAssumption`,
`AccountsAssumption`, `DocumentAssumption`, `NearestAssumption`,
`PeopleAssumption`, `RoutingAssumption`): types of the constants; for the
service, that doors open before they close and close before the end; for the
documents, what is said above. TLC evaluates all of them, and the authoring rules
on the flows of the runs and on the shipped ones.

Only model-checked: liveness (`EveryUpdateHandled`, `DueIsDelivered`,
`ServiceCloses`, `DispatchEnds`, `EveryTextAnswered`), which is out of the
prover's reach, though `DispatchDescends` proves what `DispatchEnds` rests on. Every other property of the passing runs has a theorem.

## 6. Where code and documents disagree

Four runs each check one sentence of the documents, quoted in `PROJECT.json`, and
find it violated:

* one malformed update blocks all later ones (`ingress_malformed`);
* reporting a silent responder changes nothing when it comes as a text, as it
  does in the shipped service (`matching_report_message`);
* the shipped terminal announcement never closes the service (`service_shipped`);
* checking in under the shipped doors-open root, which has no checkpoint, raises
  out of the dispatch and ends the process (`conversation_check_in`).

Read in the code while modelling, or seen in counterexamples, without a run of
their own:

* Ingress and scheduler: a lost lock session is noticed only between batches; one
  raising dispatch stops the bot, and its update comes first after the restart;
  only the first recipient of the terminal announcement gets it, since it closes
  the service under the others; one failing recipient stops the scheduler for
  all; a menu button sent before the end works after it.
* Matching: a responder who has logged out cannot be released; a guest who is
  matched and asks again is told that nobody is available; leaders who merely
  attend never count for safety requests; a responder without a group name makes
  `match_found` fail after the reservation, one without a Telegram link is told
  of a guest who gets an error; a release is committed though a later farewell
  fails.
* Choices: a deferred intent that the guest meanwhile asks for again raises out of
  the dispatch (`_resume_one_pending_intent`, `app.py:967`; `SayRaises`), where
  `docs/superpowers/specs/2026-09-15-multi-intent-responses-and-direct-telegram-delivery-design.md:182`
  has it resumed; a choice whose actions fail is consumed (`app.py:916`), where
  `docs/superpowers/specs/2026-09-11-friendly-bot-mvp-design.md:143` says "The
  failed selection remains available for a safe retry."; the `follow_up` below
  the system's `small_group` topic can never be chosen, since its row makes two
  system branches and the next text resets them (`app.py:1458`); the button
  `system.global.menu.timings` chooses two flows, `information.zone` and
  `information.zone.timings`, so pressing it does nothing (`app.py:849`,
  `OneDeadButton`), where `tests/e2e/test_zone_x_seed.py:86` says "New users can
  discover the core system-level actions without model routing."; `never mind` at
  the system root leaves no current row; interactions that complete through an
  event leaf or a button never resume a deferred intent.
* Actions: the options of a change of service leave out the current one, so
  choosing another always fails at `enter_service_checkpoint` (`app.py:1291`)
  after attendance has been switched; the reply planned for return actions is
  never used, since they run under another address (`app.py:1058`); a database
  error inside an action is recorded in the aborted transaction, which raises, so
  that the whole dispatch is rolled back; no shipped flow has an "error" child.
* Routing: for a flow whose first slot belongs to an event child a valid answer is
  thrown away and the authored copy used (`app.py:1384`, `Foreign`);
  `_reply_is_permitted` looks at token names and not at `| optional`.
* Front door: the first text after any earlier message, a command say, is stored
  as the display name without having been asked for (`NamesAreAsked` allows just
  that), and a `/login` session swallows the reply to the question for the name;
  an answer to a login question that comes after ten minutes goes on to the
  conversation, while the README says that names and dates of birth never reach
  the routing provider; an invalid answer is asked for again without renewing the
  ten minutes; `/start` does not end a session.
* Accounts: a seed that lowers a capacity below the places taken keeps the bot
  from starting, and only the running bot gives places back;
  `interests_not_attached` and `login_not_started` cannot be reached.

## 7. Abstractions

Texts, names, pictures and wording are left out: a property that does not
mention them cannot depend on them; in `Routing` a text is known by its tokens and
URLs. A transaction that holds the row lock it needs from its first read to its
commit is one step; where it awaits an outside service in between, the pause is a
state. Each presentation is sent once, with an open outcome: neither sender nor
client retries (`telegram/sender.py:72`, `client.py:128`). Ranking and routing
answers are open choices. PostgreSQL's READ COMMITTED isolation is
modelled by what each statement reads at its own step and by the row locks and
unique keys it waits for. Users who check in at another service are seen as
leaving this one. `Conversation` defers at most one intent for a text, runs at
most one event child for a choice, and knows the current documents only; it is
one guest's, since no two guests share a row of it. `ActionRunner` follows one
guest too, and leaves to `Conversation` how rows are focused.

## 8. Not modelled

* The order of row locks of ingress and scheduler (user, timestamp, service,
  profile). PostgreSQL ends a cycle of waits by failing one transaction, and a
  failed transaction is an action of `UpdateIngress` and `ServiceLifecycle`; that
  a cycle is possible is read from the code and not checked.
* `persona/service.py`: no composition constructs it, so its cursor never moves.
* Versions of documents: what a republished root leaves of older branches. With
  the shipped documents keys are unique over all roots (`ShippedArePublishable`)
  and the system branch is reset before a text; a service's older branch would
  stay on offer beside the new one.
* Hashing, storing and rendering of documents; prompts; the request for a persona
  summary, which nothing sends.
* Seeds that change a profile's role. Methods without a caller.
* Migrations, settings, preflight, assets and scripts: they run once or only read.
* A theorem that connects the modules that see one closure from three sides
  (`ServiceLifecycle`, `Matching`, `Conversation`): each models the whole of its
  own tables, and the service row's lock is in all of them, but the composition of
  the three is too large for TLC.
