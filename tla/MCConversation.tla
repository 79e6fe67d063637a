--------------------------- MODULE MCConversation ---------------------------
(* Small instances of Conversation for TLC: the shipped documents, reduced *)
(* to one flow of each sort, with a checkpoint below a checkpoint added.   *)
EXTENDS Conversation, TLC, Functions

CONSTANTS
  root, nevermind, thanks, group, follow,          \* system
  home, connect, interest, found,                 \* the service checkpoint
  topic, leave,                                     \* a checkpoint below it
  doors, checkin, attending                        \* the doors-open timestamp

Parents ==
  root :> NoFlow @@ nevermind :> root @@ thanks :> root @@ group :> root
  @@ follow :> group
  @@ home :> NoFlow @@ connect :> home
  @@ interest :> connect @@ found :> interest
  @@ topic :> home @@ leave :> topic
  @@ doors :> NoFlow @@ checkin :> doors @@ attending :> checkin

Trees ==
  [f \in {root, nevermind, thanks, group, follow} |-> root]
  @@ [f \in {home, connect, interest, found, topic, leave} |-> home]
  @@ [f \in {doors, checkin, attending} |-> doors]

Modes ==
  [f \in {root, home, topic} |-> "checkpoint"]
  @@ [f \in {group, follow} |-> "many"]
  @@ [f \in {nevermind, thanks, connect, interest, found, leave,
             doors, checkin, attending} |-> "once"]

\* connect can be pressed or said; check-in too here.
Triggers ==
  [f \in {root, home, doors, follow} |-> {}]
  @@ [f \in {nevermind, thanks, group, interest, topic, leave} |-> {"message"}]
  @@ [f \in {connect, checkin} |-> {"message", "button"}]
  @@ [f \in {found, attending} |-> {"event"}]

Paths ==
  [f \in {root, nevermind, thanks, group, follow} |-> <<root>>]
  @@ [f \in {home, connect, interest, found} |-> <<home>>]
  @@ [f \in {topic, leave} |-> <<home, topic>>]
  @@ [f \in {doors, checkin, attending} |-> <<>>]

\* The instances share these definitions and differ in their flows.
MCParent == Restrict(Parents, Flow)
MCTree == Restrict(Trees, Flow)
MCMode == Restrict(Modes, Flow)
MCTrigger == Restrict(Triggers, Flow)
MCCheckpoints == Restrict(Paths, Flow)
MCReturns == Flow \cap {nevermind, leave}
MCEnters == Flow \cap {attending}
=============================================================================
