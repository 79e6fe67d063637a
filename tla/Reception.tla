------------------------------ MODULE Reception ------------------------------
(***************************************************************************)
(* Who takes an update first: the slash commands, the open question of a   *)
(* command session, onboarding, and only then the conversation (dispatch,  *)
(* _dispatch_special_command and _dispatch_onboarding of app.py with       *)
(* onboarding/service.py).  It composes OperationalAccounts with the       *)
(* guests' names and the messages kept of them.                            *)
(*                                                                         *)
(* An update is one transaction.  What is said in reply is known here by   *)
(* the question it puts to the guest, if any.                              *)
(***************************************************************************)
EXTENDS OperationalAccounts

VARIABLES
  named,     \* guests with a display name
  heard,     \* guests of whom a conversation message is kept
  commanded, \* guests who have sent a command other than /start
  invited,   \* guests who were asked for their name
  question   \* what the latest reply asks each guest for

talk == <<named, heard, commanded, invited, question>>
everything == <<vars, talk>>

Question == Step \cup {"guest_name", "nothing"}

ReceptionInit ==
  /\ Init
  /\ named = {} /\ heard = {} /\ commanded = {} /\ invited = {}
  /\ question = [u \in Guest |-> "nothing"]
-----------------------------------------------------------------------------
\* The poller keeps the message before it is dispatched.
Hear(u, asks) ==
  /\ heard' = heard \cup {u}
  /\ question' = [question EXCEPT ![u] = asks]

\* Slash commands come first; the session they find open stays open.
Command(u, asks) ==
  /\ Hear(u, asks)
  /\ commanded' = commanded \cup {u}
  /\ UNCHANGED <<named, invited>>

SendLogin(u) == StartLogin(u) /\ Command(u, "login_name")

SendManage(u) ==
  \/ Manage(u) /\ Command(u, "interests")
  \/ /\ running /\ AttachedTo(u) \cap Operational = {}
     /\ Command(u, "nothing")
     /\ UNCHANGED vars

SendLogout(u) == Logout(u) /\ Command(u, "nothing")

SendUnknown(u) == running /\ Command(u, "nothing") /\ UNCHANGED vars

\* Texts in an open session: the answer, or words that cannot be one, which are
\* asked for again.
Answered(u) == IF u \in DOMAIN session' THEN session'[u].step ELSE "nothing"

SendAnswer(u) ==
  /\ Live(u)
  /\ \/ \E n \in Name : AnswerName(u, n)
     \/ \E p \in Profile : LogIn(u, p)
     \/ LoginRefused(u)
     \/ AnswerInterests(u)
  /\ Hear(u, Answered(u))
  /\ UNCHANGED <<named, commanded, invited>>

SendNonsense(u) ==
  /\ running /\ Live(u)
  /\ Hear(u, session[u].step)
  /\ UNCHANGED <<vars, named, commanded, invited>>

\* A text that finds no open session; a row whose time is over is removed.
Unclaimed(u) ==
  \/ Expire(u)
  \/ running /\ u \notin DOMAIN session /\ UNCHANGED vars

AskName(u) ==
  /\ Hear(u, "guest_name")
  /\ invited' = invited \cup {u}
  /\ UNCHANGED <<named, commanded>>

\* /start does not look at the session.
SendStart(u) ==
  /\ running
  /\ \/ u \notin named /\ AskName(u)
     \/ u \in named /\ Hear(u, "nothing") /\ UNCHANGED <<named, commanded, invited>>
  /\ UNCHANGED vars

\* Mutation of NameReply: the message itself counts as an earlier one.
NameReplyAtOnce(u) == u \in heard \cup {u}

\* _is_name_reply: this is not the first message that is kept.
NameReply(u) == u \in heard

GreetText(u) ==
  /\ u \notin named /\ ~NameReply(u)
  /\ Unclaimed(u)
  /\ AskName(u)

\* What opens after the name is decided by the service (ServiceLifecycle).
CaptureName(u) ==
  /\ u \notin named /\ NameReply(u)
  /\ Unclaimed(u)
  /\ named' = named \cup {u}
  /\ Hear(u, "nothing")
  /\ UNCHANGED <<commanded, invited>>

Converse(u) ==
  /\ u \in named
  /\ Unclaimed(u)
  /\ Hear(u, "nothing")
  /\ UNCHANGED <<named, commanded, invited>>

\* A pressed button goes to the conversation at once.  Announcements, with their
\* buttons, are for whoever has written, named or not.
PressButton(u) ==
  /\ running /\ u \in heard
  /\ Hear(u, "nothing")
  /\ UNCHANGED <<vars, named, commanded, invited>>

Update(u) ==
  \/ SendLogin(u) \/ SendManage(u) \/ SendLogout(u) \/ SendUnknown(u)
  \/ SendAnswer(u) \/ SendNonsense(u) \/ SendStart(u)
  \/ GreetText(u) \/ CaptureName(u) \/ Converse(u) \/ PressButton(u)

Elsewhere ==
  /\ \/ \E s \in Seeds : Start(s)
     \/ Stop \/ TimePasses
     \/ \E p \in Profile : TakePlace(p) \/ GiveBack(p)
  /\ UNCHANGED talk

ReceptionNext == Elsewhere \/ \E u \in Guest : Update(u)

ReceptionSpec == ReceptionInit /\ [][ReceptionNext]_everything
-----------------------------------------------------------------------------
ReceptionTypeOK ==
  /\ TypeOK
  /\ named \subseteq Guest /\ heard \subseteq Guest
  /\ commanded \subseteq Guest /\ invited \subseteq Guest
  /\ question \in [Guest -> Question]

\* Whoever has a name was asked for it, unless a command came first: a command
\* counts as a message, and the text after it is taken for the name.
NamesAreAsked == \A u \in named : u \in invited \/ u \in commanded

\* When the last thing a guest reads is a question of /login or /manage, that
\* question is the one the session waits for, whatever came in between: commands,
\* refusals, other accounts, restarts.
QuestionIsOpen ==
  \A u \in Guest : question[u] \in Step =>
    u \in DOMAIN session /\ session[u].step = question[u]

\* Sessions are of those who sent commands, and messages are kept only of them
\* and of those who were asked for their name.
ReceptionInvariant ==
  /\ ReceptionTypeOK
  /\ NamesAreAsked
  /\ QuestionIsOpen
  /\ DOMAIN session \subseteq commanded
  /\ heard \subseteq commanded \cup invited
=============================================================================
