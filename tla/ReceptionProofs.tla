-------------------------- MODULE ReceptionProofs ---------------------------
(***************************************************************************)
(* For every population: whatever is asked and answered at the front door, *)
(* the accounts behave as OperationalAccounts, names are asked for, and    *)
(* the question a guest reads last is the one that is open.                *)
(***************************************************************************)
EXTENDS Reception, OperationalAccountsProofs

\* Every update is a step of the accounts or leaves them alone.
LEMMA UpdateIsStep ==
  ASSUME NEW u \in Guest, Update(u)
  PROVE  [Next]_vars
  <1>1. CASE SendLogin(u) \/ SendLogout(u)
    BY <1>1 DEF SendLogin, SendLogout, Next
  <1>2. CASE SendManage(u)
    BY <1>2 DEF SendManage, Next
  <1>3. CASE SendAnswer(u)
    BY <1>3 DEF SendAnswer, Next
  <1>4. CASE SendUnknown(u) \/ SendNonsense(u) \/ SendStart(u) \/ PressButton(u)
    BY <1>4 DEF SendUnknown, SendNonsense, SendStart, PressButton
  <1>5. CASE GreetText(u) \/ CaptureName(u) \/ Converse(u)
    BY <1>5 DEF GreetText, CaptureName, Converse, Unclaimed, Next
  <1> QED BY <1>1, <1>2, <1>3, <1>4, <1>5 DEF Update

LEMMA NextIsStep == [ReceptionNext]_everything => [Next]_vars
  <1> SUFFICES ASSUME [ReceptionNext]_everything PROVE [Next]_vars
    OBVIOUS
  <1>1. CASE UNCHANGED everything
    BY <1>1 DEF everything
  <1>2. CASE Elsewhere
    BY <1>2 DEF Elsewhere, Next
  <1>3. ASSUME NEW u \in Guest, Update(u) PROVE [Next]_vars
    BY <1>3, UpdateIsStep
  <1> QED BY <1>1, <1>2, <1>3 DEF ReceptionNext

\* The front door composes the accounts without a step of its own on them.
THEOREM ComposesAccounts == ReceptionSpec => Spec
  <1>1. ReceptionInit => Init
    BY DEF ReceptionInit
  <1> QED BY <1>1, NextIsStep, PTL DEF ReceptionSpec, Spec

\* So all that holds of the accounts holds behind the front door.
THEOREM AccountsBehindReception == ReceptionSpec => []AccountsInvariant
  BY ComposesAccounts, Invariant, PTL
-----------------------------------------------------------------------------
(* The questions asked.                                                    *)

\* Only the session of the guest whose update it is may change.
OthersKept(u) ==
  \A v \in Guest \ {u} :
    /\ v \in DOMAIN session' <=> v \in DOMAIN session
    /\ v \in DOMAIN session => session'[v].step = session[v].step

LEMMA OpenedStep ==
  ASSUME TypeOK, NEW u \in Guest, NEW step \in Step, NEW names \in SUBSET Name,
         session' = Open(session, u, step, names)
  PROVE  /\ OthersKept(u)
         /\ DOMAIN session' = DOMAIN session \cup {u}
         /\ session'[u].step = step
  BY OpenRows DEF OthersKept

LEMMA ClearedStep ==
  ASSUME TypeOK, NEW u \in Guest, session' = Clear(session, u)
  PROVE  OthersKept(u) /\ DOMAIN session' = DOMAIN session \ {u}
  BY ClearRows DEF OthersKept

\* The reply to an update asks for what the session now waits for, if it asks
\* for a step of a session at all.
Consistent(u) ==
  /\ OthersKept(u)
  /\ \E asks \in Question :
       /\ Hear(u, asks)
       /\ asks \in Step => u \in DOMAIN session' /\ session'[u].step = asks
  /\ DOMAIN session' \subseteq commanded'

LEMMA CommandConsistent ==
  ASSUME TypeOK, DOMAIN session \subseteq commanded, NEW u \in Guest,
         SendLogin(u) \/ SendManage(u) \/ SendLogout(u) \/ SendUnknown(u)
  PROVE  Consistent(u)
  <1>0. commanded' = commanded \cup {u} /\ {} \in SUBSET Name
    BY DEF SendLogin, SendManage, SendLogout, SendUnknown, Command
  <1>q. "login_name" \in Step /\ "interests" \in Step /\ Step \subseteq Question
        /\ "nothing" \in Question /\ "nothing" \notin Step
    BY DEF Step, Question
  <1>1. CASE SendLogin(u)
    <2>1. session' = Open(session, u, "login_name", {}) /\ Hear(u, "login_name")
      BY <1>1 DEF SendLogin, StartLogin, Command
    <2>2. OthersKept(u) /\ DOMAIN session' = DOMAIN session \cup {u}
          /\ session'[u].step = "login_name"
      BY <1>0, <1>q, <2>1, OpenedStep
    <2> QED BY <1>0, <1>q, <2>1, <2>2 DEF Consistent
  <1>2. CASE Manage(u) /\ Command(u, "interests")
    <2>1. session' = Open(session, u, "interests", {}) /\ Hear(u, "interests")
      BY <1>2 DEF Manage, Command
    <2>2. OthersKept(u) /\ DOMAIN session' = DOMAIN session \cup {u}
          /\ session'[u].step = "interests"
      BY <1>0, <1>q, <2>1, OpenedStep
    <2> QED BY <1>0, <1>q, <2>1, <2>2 DEF Consistent
  <1>3. CASE SendLogout(u)
    <2>1. session' = Clear(session, u) /\ Hear(u, "nothing")
      BY <1>3 DEF SendLogout, Logout, Forget, Command
    <2>2. OthersKept(u) /\ DOMAIN session' = DOMAIN session \ {u}
      BY <2>1, ClearedStep
    <2> QED BY <1>0, <1>q, <2>1, <2>2 DEF Consistent
  <1>4. CASE UNCHANGED session /\ Hear(u, "nothing")
    BY <1>0, <1>q, <1>4 DEF Consistent, OthersKept
  <1> QED BY <1>1, <1>2, <1>3, <1>4 DEF SendManage, SendUnknown, Command, vars

LEMMA AnswerConsistent ==
  ASSUME TypeOK, DOMAIN session \subseteq commanded, NEW u \in Guest,
         SendAnswer(u) \/ SendNonsense(u)
  PROVE  Consistent(u)
  <1>q. "interests" \in Step /\ "login_dob" \in Step /\ Step \subseteq Question
        /\ "nothing" \in Question /\ "nothing" \notin Step
    BY DEF Step, Question
  <1>0. u \in DOMAIN session /\ UNCHANGED commanded
    BY DEF SendAnswer, SendNonsense, Live
  <1>1. CASE SendNonsense(u)
    <2>1. Hear(u, session[u].step) /\ UNCHANGED session
      BY <1>1 DEF SendNonsense, vars
    <2>2. session[u].step \in Step
      BY <1>0 DEF TypeOK, Row
    <2> QED BY <1>0, <1>q, <2>1, <2>2 DEF Consistent, OthersKept
  <1>2. CASE SendAnswer(u)
    <2>1. Hear(u, Answered(u))
      BY <1>2 DEF SendAnswer
    <2>2. /\ OthersKept(u)
          /\ DOMAIN session' \subseteq DOMAIN session
          /\ u \in DOMAIN session' => session'[u].step \in Step
      <3>1. CASE session' = Clear(session, u)
        BY <3>1, ClearedStep
      <3>2. ASSUME NEW n \in Name, session' = Open(session, u, "login_dob", {n})
            PROVE  <2>2!1 /\ <2>2!2 /\ <2>2!3
        <4>1. {n} \in SUBSET Name
          OBVIOUS
        <4> QED BY <1>0, <1>q, <3>2, <4>1, OpenedStep
      <3>3. CASE session' = Open(session, u, "interests", {})
        <4>1. {} \in SUBSET Name
          OBVIOUS
        <4> QED BY <1>0, <1>q, <3>3, <4>1, OpenedStep
      <3> QED BY <1>2, <3>1, <3>2, <3>3
              DEF SendAnswer, AnswerName, LogIn, LoginRefused, AnswerInterests
    <2> DEFINE asks == Answered(u)
    <2>3. /\ asks \in Question
          /\ asks \in Step => u \in DOMAIN session' /\ session'[u].step = asks
      BY <1>q, <2>2 DEF Answered
    <2>4. DOMAIN session' \subseteq commanded'
      BY <1>0, <2>2
    <2>5. Hear(u, asks)
      BY <2>1
    <2> HIDE DEF asks
    <2> QED BY <2>2, <2>3, <2>4, <2>5 DEF Consistent
  <1> QED BY <1>1, <1>2

LEMMA TextConsistent ==
  ASSUME TypeOK, DOMAIN session \subseteq commanded, NEW u \in Guest,
         SendStart(u) \/ GreetText(u) \/ CaptureName(u) \/ Converse(u) \/ PressButton(u)
  PROVE  Consistent(u)
  <1>1. UNCHANGED commanded
    BY DEF SendStart, GreetText, CaptureName, Converse, PressButton, AskName
  <1>2. \E asks \in {"guest_name", "nothing"} : Hear(u, asks)
    BY DEF SendStart, GreetText, CaptureName, Converse, PressButton, AskName
  <1>3. {"guest_name", "nothing"} \subseteq Question \ Step
    BY DEF Step, Question
  <1>4. UNCHANGED session \/ session' = Clear(session, u)
    BY DEF SendStart, GreetText, CaptureName, Converse, PressButton, Unclaimed, Expire, vars
  <1>5. OthersKept(u) /\ DOMAIN session' \subseteq DOMAIN session
    BY <1>4, ClearedStep DEF OthersKept
  <1> QED BY <1>1, <1>2, <1>3, <1>5 DEF Consistent

\* Names and messages.
LEMMA TalkStep ==
  ASSUME ReceptionInvariant, NEW u \in Guest, Update(u)
  PROVE  /\ named' \subseteq Guest /\ heard' \subseteq Guest
         /\ commanded' \subseteq Guest /\ invited' \subseteq Guest
         /\ NamesAreAsked'
         /\ heard' \subseteq commanded' \cup invited'
  <1> USE DEF ReceptionInvariant, ReceptionTypeOK, NamesAreAsked, Hear
  <1>1. CASE SendLogin(u) \/ SendManage(u) \/ SendLogout(u) \/ SendUnknown(u)
    BY <1>1 DEF SendLogin, SendManage, SendLogout, SendUnknown, Command
  <1>2. CASE SendAnswer(u) \/ SendNonsense(u)
    <2>1. u \in commanded
      BY <1>2 DEF SendAnswer, SendNonsense, Live
    <2> QED BY <1>2, <2>1 DEF SendAnswer, SendNonsense
  <1>3. CASE SendStart(u) \/ GreetText(u) \/ CaptureName(u)
    BY <1>3 DEF SendStart, GreetText, CaptureName, AskName, NameReply
  <1>4. CASE Converse(u) \/ PressButton(u)
    BY <1>4 DEF Converse, PressButton
  <1> QED BY <1>1, <1>2, <1>3, <1>4 DEF Update

LEMMA UpdateStep ==
  ASSUME ReceptionInvariant, TypeOK', NEW u \in Guest, Update(u)
  PROVE  ReceptionInvariant'
  <1>1. TypeOK /\ DOMAIN session \subseteq commanded
    BY DEF ReceptionInvariant, ReceptionTypeOK
  <1>2. Consistent(u)
    BY <1>1, CommandConsistent, AnswerConsistent, TextConsistent DEF Update
  <1>3. PICK asks \in Question :
          /\ Hear(u, asks)
          /\ asks \in Step => u \in DOMAIN session' /\ session'[u].step = asks
    BY <1>2 DEF Consistent
  <1>4. question \in [Guest -> Question] /\ question' = [question EXCEPT ![u] = asks]
    BY <1>3 DEF Hear, ReceptionInvariant, ReceptionTypeOK
  <1>5. question' \in [Guest -> Question]
    BY <1>4
  <1>6. QuestionIsOpen'
    <2> SUFFICES ASSUME NEW v \in Guest, question'[v] \in Step
                 PROVE  v \in DOMAIN session' /\ session'[v].step = question'[v]
      BY DEF QuestionIsOpen, Step
    <2>1. CASE v = u
      BY <1>3, <1>4, <2>1
    <2>2. CASE v # u
      <3>1. question'[v] = question[v]
        BY <1>4, <2>2
      <3>2. v \in DOMAIN session /\ session[v].step = question[v]
        BY <3>1 DEF ReceptionInvariant, QuestionIsOpen
      <3> QED BY <1>2, <2>2, <3>1, <3>2 DEF Consistent, OthersKept
    <2> QED BY <2>1, <2>2
  <1>7. DOMAIN session' \subseteq commanded'
    BY <1>2 DEF Consistent
  <1> QED BY <1>5, <1>6, <1>7, TalkStep DEF ReceptionInvariant, ReceptionTypeOK

LEMMA ElsewhereStep ==
  ASSUME ReceptionInvariant, TypeOK', Elsewhere
  PROVE  ReceptionInvariant'
  <1>1. UNCHANGED <<talk, session>>
    BY DEF Elsewhere, Start, Stop, TimePasses, TakePlace, GiveBack
  <1> QED BY <1>1 DEF talk, ReceptionInvariant, ReceptionTypeOK, NamesAreAsked, QuestionIsOpen

\* The front door's invariant for every population: what a guest reads last is
\* what is waited for, and names are asked for unless a command came first.
THEOREM FrontDoor == ReceptionSpec => []ReceptionInvariant
  <1>1. AccountsInvariant => TypeOK
    BY DEF AccountsInvariant
  <1>2. ReceptionInit /\ TypeOK => ReceptionInvariant
    <2> SUFFICES ASSUME ReceptionInit, TypeOK PROVE ReceptionInvariant
      OBVIOUS
    <2>1. question \in [Guest -> Question] /\ \A u \in Guest : question[u] \notin Step
      BY DEF ReceptionInit, Question, Step
    <2>2. DOMAIN session = {}
      BY DEF ReceptionInit, Init
    <2> QED BY <2>1, <2>2 DEF ReceptionInit, ReceptionInvariant, ReceptionTypeOK,
            NamesAreAsked, QuestionIsOpen
  <1>3. ReceptionInvariant /\ TypeOK' /\ [ReceptionNext]_everything => ReceptionInvariant'
    <2> SUFFICES ASSUME ReceptionInvariant, TypeOK', [ReceptionNext]_everything
                 PROVE  ReceptionInvariant'
      OBVIOUS
    <2>1. CASE UNCHANGED everything
      BY <2>1 DEF everything, vars, talk, ReceptionInvariant, ReceptionTypeOK,
         NamesAreAsked, QuestionIsOpen
    <2>2. CASE Elsewhere
      BY <2>2, ElsewhereStep
    <2>3. ASSUME NEW u \in Guest, Update(u) PROVE ReceptionInvariant'
      BY <2>3, UpdateStep
    <2> QED BY <2>1, <2>2, <2>3 DEF ReceptionNext
  <1> QED BY <1>1, <1>2, <1>3, AccountsBehindReception, PTL DEF ReceptionSpec

\* Whoever has a name was asked for it or had sent a command before.
THEOREM NamesAsked == ReceptionSpec => []NamesAreAsked
  <1>1. ReceptionInvariant => NamesAreAsked
    BY DEF ReceptionInvariant
  <1> QED BY <1>1, FrontDoor, PTL

\* The question of /login or /manage a guest reads last is the one that is open.
THEOREM LastQuestionOpen == ReceptionSpec => []QuestionIsOpen
  <1>1. ReceptionInvariant => QuestionIsOpen
    BY DEF ReceptionInvariant
  <1> QED BY <1>1, FrontDoor, PTL
=============================================================================
