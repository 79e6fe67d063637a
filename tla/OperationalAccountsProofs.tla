---------------------- MODULE OperationalAccountsProofs ----------------------
(* Safety of OperationalAccounts for any number of guests, profiles, names, *)
(* dates and places: the invariant is inductive as it stands.  Each lemma   *)
(* is one conjunct and the actions that could disturb it.                   *)
EXTENDS OperationalAccounts, TLAPS

LEMMA InitHolds == Init => AccountsInvariant
  <1> SUFFICES ASSUME Init PROVE AccountsInvariant
    OBVIOUS
  <1> USE DEF Init
  <1>1. Provisioned = {} /\ DOMAIN session = {} /\ logins = {} /\ history = {}
    BY DEF Provisioned
  <1>2. /\ capacity \in [Provisioned -> Nat]
        /\ reserved \in [Provisioned -> Nat]
        /\ interests \in [Provisioned -> Guest \cup {Seed}]
    BY <1>1
  <1>3. session \in [DOMAIN session -> Row]
    OBVIOUS
  <1>4. captures \in [Profile -> Nat] /\ \A p \in Profile : captures[p] = 0
    OBVIOUS
  <1>5. TypeOK
    BY <1>1, <1>2, <1>3, <1>4 DEF TypeOK
  <1>6. /\ OneAccountEach /\ AskedAreAttached /\ FirstLoginAsks
        /\ PlacesKept /\ HistoryKept /\ CapturesRecorded
    BY <1>1, <1>4 DEF OneAccountEach, AskedAreAttached, FirstLoginAsks, PlacesKept,
       HistoryKept, CapturesRecorded
  <1> QED BY <1>5, <1>6 DEF AccountsInvariant

\* Opening a session gives a guest one row and leaves the others alone.
LEMMA OpenRows ==
  ASSUME TypeOK, NEW u \in Guest, NEW step \in Step, NEW names \in SUBSET Name,
         session' = Open(session, u, step, names)
  PROVE  /\ DOMAIN session' \subseteq Guest
         /\ session' \in [DOMAIN session' -> Row]
         /\ DOMAIN session' = DOMAIN session \cup {u}
         /\ session'[u].step = step
         /\ \A v \in DOMAIN session : v # u => session'[v] = session[v]
  BY AccountsAssumption DEF TypeOK, Open, Row

LEMMA ClearRows ==
  ASSUME TypeOK, NEW u \in Guest
  PROVE  LET s == Clear(session, u) IN
         /\ DOMAIN s \subseteq Guest
         /\ s \in [DOMAIN s -> Row]
         /\ DOMAIN s = DOMAIN session \ {u}
         /\ \A v \in DOMAIN s : s[v] = session[v]
  BY DEF TypeOK, Clear

\* A start adds profiles and never takes away places that are in use.
LEMMA StartStep ==
  ASSUME AccountsInvariant, NEW s \in Seeds, Start(s)
  PROVE  AccountsInvariant'
  <1> USE DEF AccountsInvariant
  <1>1. DOMAIN s \subseteq Profile /\ s \in [DOMAIN s -> Nat]
    BY AccountsAssumption DEF Seeds
  <1>2. Provisioned' = Provisioned \cup DOMAIN s
    BY DEF Start, Provisioned
  <1>3. /\ capacity' \in [Provisioned' -> Nat]
        /\ reserved' \in [Provisioned' -> Nat]
    BY <1>1, <1>2 DEF TypeOK, Start, Provisioned
  <1>4. interests' \in [Provisioned' -> Guest \cup {Seed}]
    BY <1>2 DEF TypeOK, Start, Reseeded
  <1>5. TypeOK'
    BY <1>1, <1>2, <1>3, <1>4 DEF TypeOK, Start
  <1>6. PlacesKept'
    <2> SUFFICES ASSUME NEW p \in Provisioned' PROVE reserved'[p] <= capacity'[p]
      BY DEF PlacesKept
    <2>1. CASE p \in Provisioned /\ p \in DOMAIN s
      <3>1. reserved'[p] = reserved[p] /\ capacity'[p] = s[p]
        BY <1>2, <2>1 DEF Start
      <3> QED BY <2>1, <3>1 DEF Start, Fits
    <2>2. CASE p \in Provisioned /\ p \notin DOMAIN s
      <3>1. reserved'[p] = reserved[p] /\ capacity'[p] = capacity[p]
        BY <1>2, <2>2 DEF Start
      <3> QED BY <2>2, <3>1 DEF PlacesKept
    <2>3. CASE p \notin Provisioned
      <3>1. reserved'[p] = 0 /\ capacity'[p] = s[p] /\ s[p] \in Nat
        BY <1>1, <1>2, <2>3 DEF Start
      <3> QED BY <3>1
    <2> QED BY <1>2, <2>1, <2>2, <2>3
  <1>7. /\ OneAccountEach' /\ AskedAreAttached' /\ FirstLoginAsks'
        /\ HistoryKept' /\ CapturesRecorded'
    BY DEF Start, OneAccountEach, AskedAreAttached, AttachedTo, FirstLoginAsks,
           HistoryKept, CapturesRecorded
  <1> QED BY <1>5, <1>6, <1>7

LEMMA PlaceStep ==
  ASSUME AccountsInvariant, NEW p \in Profile, TakePlace(p) \/ GiveBack(p)
  PROVE  AccountsInvariant'
  <1> USE DEF AccountsInvariant, TakePlace, GiveBack, accounts
  <1>1. reserved' \in [Provisioned -> Nat]
    BY DEF TypeOK
  <1>2. \A q \in Provisioned : reserved'[q] <= capacity[q]
    BY DEF TypeOK, PlacesKept
  <1>3. TypeOK' /\ PlacesKept'
    BY <1>1, <1>2 DEF TypeOK, Provisioned, PlacesKept
  <1>4. /\ OneAccountEach' /\ AskedAreAttached' /\ FirstLoginAsks'
        /\ HistoryKept' /\ CapturesRecorded'
    BY DEF OneAccountEach, AskedAreAttached, AttachedTo, FirstLoginAsks,
           HistoryKept, CapturesRecorded
  <1> QED BY <1>3, <1>4

\* Time passing leaves rows in the past.
LEMMA TimeStep ==
  ASSUME AccountsInvariant, TimePasses
  PROVE  AccountsInvariant'
  <1> USE DEF AccountsInvariant, TimePasses, matching, accounts
  <1>1. TypeOK'
    BY DEF TypeOK, Provisioned
  <1>2. HistoryKept'
    <2>1. date \in Nat /\ date' = date + 1
      BY DEF TypeOK
    <2>2. \A t \in 0..date : t \in 0..date'
      BY <2>1
    <2>3. \A l \in logins : \E t \in 0..date' : <<l[1], l[2], t>> \in history
      BY <2>2 DEF HistoryKept
    <2>4. \A h \in history : h[3] <= date'
      <3> SUFFICES ASSUME NEW h \in history PROVE h[3] <= date'
        OBVIOUS
      <3>1. h[3] \in Nat /\ h[3] <= date
        BY DEF TypeOK, HistoryKept
      <3> QED BY <2>1, <3>1
    <2> QED BY <2>3, <2>4 DEF HistoryKept
  <1>3. /\ OneAccountEach' /\ AskedAreAttached' /\ FirstLoginAsks'
        /\ PlacesKept' /\ CapturesRecorded'
    BY DEF OneAccountEach, AskedAreAttached, AttachedTo, FirstLoginAsks,
           PlacesKept, Provisioned, CapturesRecorded
  <1> QED BY <1>1, <1>2, <1>3

\* Steps that only open, close or remove the session of one guest.
LEMMA SessionStep ==
  ASSUME AccountsInvariant, NEW u \in Guest,
         \/ StartLogin(u) \/ Manage(u) \/ LoginRefused(u) \/ Expire(u)
         \/ \E n \in Name : AnswerName(u, n)
  PROVE  AccountsInvariant'
  <1> USE DEF AccountsInvariant
  <1>t. TypeOK
    OBVIOUS
  <1>1. UNCHANGED <<running, date, matching, accounts>>
    BY DEF StartLogin, Manage, LoginRefused, Expire, AnswerName
  <1>2. /\ DOMAIN session' \subseteq Guest
        /\ session' \in [DOMAIN session' -> Row]
        /\ \A v \in DOMAIN session' : v # u => v \in DOMAIN session /\ session'[v] = session[v]
        /\ u \in DOMAIN session' /\ session'[u].step = "interests"
             => AttachedTo(u) \cap Operational # {}
    <2>1. CASE StartLogin(u)
      <3>1. "login_name" \in Step /\ {} \in SUBSET Name
        BY DEF Step
      <3>2. session' = Open(session, u, "login_name", {})
        BY <2>1 DEF StartLogin
      <3>3. /\ DOMAIN session' \subseteq Guest
            /\ session' \in [DOMAIN session' -> Row]
            /\ DOMAIN session' = DOMAIN session \cup {u}
            /\ session'[u].step = "login_name"
            /\ \A v \in DOMAIN session : v # u => session'[v] = session[v]
        BY ONLY <1>t, <3>1, <3>2, OpenRows, u \in Guest
      <3> QED BY <3>3 DEF TypeOK
    <2>2. CASE Manage(u)
      <3>1. "interests" \in Step /\ {} \in SUBSET Name
        BY DEF Step
      <3>2. /\ session' = Open(session, u, "interests", {})
            /\ AttachedTo(u) \cap Operational # {}
        BY <2>2 DEF Manage
      <3>3. /\ DOMAIN session' \subseteq Guest
            /\ session' \in [DOMAIN session' -> Row]
            /\ DOMAIN session' = DOMAIN session \cup {u}
            /\ session'[u].step = "interests"
            /\ \A v \in DOMAIN session : v # u => session'[v] = session[v]
        BY ONLY <1>t, <3>1, <3>2, OpenRows, u \in Guest
      <3> QED BY <3>2, <3>3
    <2>3. CASE LoginRefused(u) \/ Expire(u)
      BY <2>3, ClearRows DEF LoginRefused, Expire
    <2>4. ASSUME NEW n \in Name, AnswerName(u, n) PROVE <1>2!1 /\ <1>2!2 /\ <1>2!3 /\ <1>2!4
      <3>1. "login_dob" \in Step /\ {n} \in SUBSET Name
        BY DEF Step
      <3>2. session' = Open(session, u, "login_dob", {n})
        BY <2>4 DEF AnswerName
      <3>3. /\ DOMAIN session' \subseteq Guest
            /\ session' \in [DOMAIN session' -> Row]
            /\ DOMAIN session' = DOMAIN session \cup {u}
            /\ session'[u].step = "login_dob"
            /\ \A v \in DOMAIN session : v # u => session'[v] = session[v]
        BY ONLY <1>t, <3>1, <3>2, OpenRows, u \in Guest
      <3> QED BY <3>3 DEF TypeOK
    <2> QED BY <2>1, <2>2, <2>3, <2>4
  <1>3. TypeOK'
    BY <1>1, <1>2 DEF TypeOK, Provisioned, matching, accounts
  <1>4. AskedAreAttached'
    BY <1>1, <1>2 DEF AskedAreAttached, AttachedTo, accounts
  <1>5. OneAccountEach' /\ FirstLoginAsks' /\ PlacesKept' /\ HistoryKept' /\ CapturesRecorded'
    BY <1>1 DEF OneAccountEach, FirstLoginAsks, PlacesKept, Provisioned, HistoryKept,
                CapturesRecorded, matching, accounts
  <1> QED BY <1>3, <1>4, <1>5

\* Logging out takes the session along with the attachment.
LEMMA LogoutStep ==
  ASSUME AccountsInvariant, NEW u \in Guest, Logout(u)
  PROVE  AccountsInvariant'
  <1> USE DEF AccountsInvariant, Logout, matching
  <1>1. session' = Clear(session, u)
    BY DEF Forget
  <1>2. TypeOK'
    BY <1>1, ClearRows DEF TypeOK, Provisioned
  <1>3. AskedAreAttached'
    <2> SUFFICES ASSUME NEW v \in DOMAIN session', session'[v].step = "interests"
                 PROVE  (AttachedTo(v) \cap Operational)' # {}
      BY DEF AskedAreAttached
    <2>1. v \in DOMAIN session /\ v # u /\ session[v].step = "interests"
      BY <1>1, ClearRows
    <2>2. PICK p \in AttachedTo(v) \cap Operational : TRUE
      BY <2>1 DEF AskedAreAttached
    <2>3. <<p, v>> \in logins'
      BY <2>1, <2>2 DEF AttachedTo
    <2> QED BY <2>2, <2>3 DEF AttachedTo
  <1>4. OneAccountEach' /\ FirstLoginAsks' /\ PlacesKept' /\ HistoryKept' /\ CapturesRecorded'
    BY DEF OneAccountEach, FirstLoginAsks, PlacesKept, Provisioned, HistoryKept, CapturesRecorded
  <1> QED BY <1>2, <1>3, <1>4

LEMMA InterestsStep ==
  ASSUME AccountsInvariant, NEW u \in Guest, AnswerInterests(u)
  PROVE  AccountsInvariant'
  <1> USE DEF AccountsInvariant, AnswerInterests, matching
  <1>1. interests' \in [Provisioned -> Guest \cup {Seed}]
    BY DEF TypeOK
  <1>2. TypeOK'
    BY <1>1, ClearRows DEF TypeOK, Provisioned
  <1>3. AskedAreAttached'
    BY ClearRows DEF AskedAreAttached, AttachedTo
  <1>4. OneAccountEach' /\ FirstLoginAsks' /\ PlacesKept' /\ HistoryKept' /\ CapturesRecorded'
    BY DEF OneAccountEach, FirstLoginAsks, PlacesKept, Provisioned, HistoryKept, CapturesRecorded
  <1> QED BY <1>2, <1>3, <1>4

\* A profile with no earlier row has never asked for interests.
LEMMA NeverCaptured ==
  ASSUME AccountsInvariant, NEW p \in Profile, FirstEver(p)
  PROVE  captures[p] = 0
  <1> USE DEF AccountsInvariant
  <1> SUFFICES ASSUME NEW h \in history, h[1] = p PROVE FALSE
    BY DEF CapturesRecorded
  <1>1. h[2] \in Guest /\ h[3] \in Nat /\ h = <<h[1], h[2], h[3]>>
    BY DEF TypeOK
  <1>2. h[3] \in 0..date
    BY <1>1 DEF TypeOK, HistoryKept
  <1> QED BY <1>1, <1>2 DEF FirstEver

LEMMA LogInStep ==
  ASSUME AccountsInvariant, NEW u \in Guest, NEW p \in Profile, LogIn(u, p)
  PROVE  AccountsInvariant'
  <1> USE DEF AccountsInvariant
  <1>0. /\ UNCHANGED <<running, date, matching, interests>>
        /\ logins' = logins \cup {<<p, u>>}
        /\ history' = history \cup {<<p, u, date>>}
        /\ p \in Provisioned
        /\ ~Occupied(p, u)
    BY DEF LogIn
  <1>t. TypeOK
    OBVIOUS
  <1>1. /\ DOMAIN session' \subseteq Guest
        /\ session' \in [DOMAIN session' -> Row]
        /\ \A v \in DOMAIN session' : v # u => v \in DOMAIN session /\ session'[v] = session[v]
        /\ u \in DOMAIN session' => p \in Operational
    <2>1. CASE FirstEver(p) /\ p \in Operational
      <3>1. "interests" \in Step /\ {} \in SUBSET Name
        BY DEF Step
      <3>2. session' = Open(session, u, "interests", {})
        BY <2>1 DEF LogIn
      <3>3. /\ DOMAIN session' \subseteq Guest
            /\ session' \in [DOMAIN session' -> Row]
            /\ DOMAIN session' = DOMAIN session \cup {u}
            /\ session'[u].step = "interests"
            /\ \A v \in DOMAIN session : v # u => session'[v] = session[v]
        BY ONLY <1>t, <3>1, <3>2, OpenRows, u \in Guest
      <3>4. p \in Operational
        BY <2>1
      <3> QED BY <3>3, <3>4
    <2>2. CASE ~(FirstEver(p) /\ p \in Operational)
      BY <2>2, ClearRows DEF LogIn
    <2> QED BY <2>1, <2>2
  <1>2. captures' \in [Profile -> Nat] /\ \A q \in Profile : captures'[q] <= 1
    <2>1. CASE FirstEver(p) /\ p \in Operational
      <3>1. captures' = [captures EXCEPT ![p] = @ + 1] /\ captures[p] = 0
        BY <2>1, NeverCaptured DEF LogIn
      <3> QED BY <3>1 DEF TypeOK, FirstLoginAsks
    <2>2. CASE ~(FirstEver(p) /\ p \in Operational)
      BY <2>2 DEF LogIn, TypeOK, FirstLoginAsks
    <2> QED BY <2>1, <2>2
  <1>3. \A q \in Profile : q # p => captures'[q] = captures[q]
    BY DEF LogIn, TypeOK
  <1>4. TypeOK'
    BY <1>0, <1>1, <1>2 DEF TypeOK, Provisioned, matching
  <1>5. OneAccountEach'
    <2>1. \A l \in logins : l[1] # p /\ l[2] # u
      <3> SUFFICES ASSUME NEW l \in logins PROVE l[1] # p /\ l[2] # u
        OBVIOUS
      <3>1. l = <<l[1], l[2]>> /\ l[1] \in Profile /\ l[2] \in Guest
        BY DEF TypeOK
      <3> QED BY <1>0, <3>1 DEF Occupied, AttachedTo
    <2> QED BY <1>0, <2>1 DEF OneAccountEach
  <1>6. AskedAreAttached'
    <2> SUFFICES ASSUME NEW v \in DOMAIN session', session'[v].step = "interests"
                 PROVE  (AttachedTo(v) \cap Operational)' # {}
      BY DEF AskedAreAttached
    <2>1. CASE v = u
      BY <1>0, <1>1, <2>1 DEF AttachedTo
    <2>2. CASE v # u
      <3>1. PICK q \in AttachedTo(v) \cap Operational : TRUE
        BY <1>1, <2>2 DEF AskedAreAttached
      <3> QED BY <1>0, <3>1 DEF AttachedTo
    <2> QED BY <2>1, <2>2
  <1>7. HistoryKept'
    <2>1. date \in Nat /\ date \in 0..date /\ date' = date
      BY <1>0 DEF TypeOK
    <2>2. \A l \in logins' : \E t \in 0..date' : <<l[1], l[2], t>> \in history'
      BY <1>0, <2>1 DEF HistoryKept
    <2>3. \A h \in history' : h[3] <= date'
      BY <1>0, <2>1 DEF HistoryKept
    <2> QED BY <2>2, <2>3 DEF HistoryKept
  <1>8. CapturesRecorded'
    <2> SUFFICES ASSUME NEW q \in Profile, captures'[q] # 0
                 PROVE  \E h \in history' : h[1] = q
      BY DEF CapturesRecorded
    <2>1. CASE q = p
      <3>1. <<p, u, date>> \in history'
        BY <1>0
      <3>2. <<p, u, date>>[1] = q
        BY <2>1
      <3> QED BY <3>1, <3>2, Zenon
    <2>2. CASE q # p
      BY <1>0, <1>3, <2>2 DEF CapturesRecorded
    <2> QED BY <2>1, <2>2
  <1>9. FirstLoginAsks' /\ PlacesKept'
    BY <1>0, <1>2 DEF FirstLoginAsks, PlacesKept, Provisioned, matching
  <1> QED BY <1>4, <1>5, <1>6, <1>7, <1>8, <1>9

\* The invariant for every population, however commands, answers, restarts and
\* matches follow each other.
THEOREM Invariant == Spec => []AccountsInvariant
  <1>1. AccountsInvariant /\ [Next]_vars => AccountsInvariant'
    <2> SUFFICES ASSUME AccountsInvariant, [Next]_vars PROVE AccountsInvariant'
      OBVIOUS
    <2>1. CASE UNCHANGED vars
      BY <2>1 DEF vars, AccountsInvariant, TypeOK, Provisioned, OneAccountEach,
         AskedAreAttached, AttachedTo, FirstLoginAsks, PlacesKept, HistoryKept, CapturesRecorded
    <2>2. ASSUME NEW s \in Seeds, Start(s) PROVE AccountsInvariant'
      BY <2>2, StartStep
    <2>3. CASE Stop
      BY <2>3 DEF Stop, matching, accounts, AccountsInvariant, TypeOK, Provisioned,
         OneAccountEach, AskedAreAttached, AttachedTo, FirstLoginAsks, PlacesKept,
         HistoryKept, CapturesRecorded
    <2>4. CASE TimePasses
      BY <2>4, TimeStep
    <2>5. ASSUME NEW p \in Profile, TakePlace(p) \/ GiveBack(p) PROVE AccountsInvariant'
      BY <2>5, PlaceStep
    <2>6. ASSUME NEW u \in Guest,
                 \/ StartLogin(u) \/ Manage(u) \/ LoginRefused(u) \/ Expire(u)
                 \/ \E n \in Name : AnswerName(u, n)
          PROVE  AccountsInvariant'
      BY <2>6, SessionStep
    <2>7. ASSUME NEW u \in Guest, Logout(u) PROVE AccountsInvariant'
      BY <2>7, LogoutStep
    <2>8. ASSUME NEW u \in Guest, NEW p \in Profile, LogIn(u, p) PROVE AccountsInvariant'
      BY <2>8, LogInStep
    <2>9. ASSUME NEW u \in Guest, AnswerInterests(u) PROVE AccountsInvariant'
      BY <2>9, InterestsStep
    <2> QED BY <2>1, <2>2, <2>3, <2>4, <2>5, <2>6, <2>7, <2>8, <2>9 DEF Next
  <1> QED BY <1>1, InitHolds, PTL DEF Spec

\* At no time are two Telegram accounts on one profile, or two profiles on one
\* Telegram account.
THEOREM Exclusive == Spec => []OneAccountEach
  <1>1. AccountsInvariant => OneAccountEach
    BY DEF AccountsInvariant
  <1> QED BY <1>1, Invariant, PTL

\* Nobody is asked for interests that could not be saved.
THEOREM NoLostInterests == Spec => []AskedAreAttached
  <1>1. AccountsInvariant => AskedAreAttached
    BY DEF AccountsInvariant
  <1> QED BY <1>1, Invariant, PTL

\* The capture of a first login opens once for each profile.
THEOREM CapturedOnce == Spec => []FirstLoginAsks
  <1>1. AccountsInvariant => FirstLoginAsks
    BY DEF AccountsInvariant
  <1> QED BY <1>1, Invariant, PTL

\* No sequence of restarts with other seeds leaves a profile overbooked.
THEOREM PlacesRemain == Spec => []PlacesKept
  <1>1. AccountsInvariant => PlacesKept
    BY DEF AccountsInvariant
  <1> QED BY <1>1, Invariant, PTL

\* Interests are written by the attached account and by nothing else.
THEOREM OwnersWrite == Spec => InterestsByOwner
  <1>1. AccountsInvariant /\ [Next]_vars =>
          [\A p \in Provisioned :
             interests'[p] # interests[p] => <<p, interests'[p]>> \in logins]_vars
    <2> SUFFICES ASSUME AccountsInvariant, Next, NEW p \in Provisioned,
                        interests'[p] # interests[p]
                 PROVE  <<p, interests'[p]>> \in logins
      OBVIOUS
    <2> USE DEF AccountsInvariant
    <2>1. ASSUME NEW s \in Seeds, Start(s) PROVE interests'[p] = interests[p]
      BY <2>1 DEF Start, Reseeded
    <2>2. ASSUME NEW u \in Guest, AnswerInterests(u)
          PROVE  <<p, interests'[p]>> \in logins
      <3>1. interests'[p] = IF p \in AttachedTo(u) THEN u ELSE interests[p]
        BY <2>2 DEF AnswerInterests
      <3> QED BY <3>1 DEF AttachedTo
    <2> QED BY <2>1, <2>2 DEF Next, Stop, TimePasses, TakePlace, GiveBack, StartLogin,
               Manage, Logout, AnswerName, LogIn, LoginRefused, Expire, matching, accounts
  <1> QED BY <1>1, Invariant, PTL DEF Spec, InterestsByOwner
=============================================================================
