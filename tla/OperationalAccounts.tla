------------------------ MODULE OperationalAccounts -------------------------
(***************************************************************************)
(* The accounts of servers, leaders and staff: provisioning at start, the  *)
(* command sessions of /login and /manage, attachment and interests        *)
(* (onboarding/accounts.py, the slash commands of app.py and the profile,  *)
(* login and attempt repositories).                                        *)
(*                                                                         *)
(* A command or an answer is one update, handled under the guest's row     *)
(* lock in a transaction that awaits nothing but the database, so it is a  *)
(* step.  Telegram delivers updates in the order of their dates, and the   *)
(* code takes the date of a message for the time.                          *)
(***************************************************************************)
EXTENDS Naturals

CONSTANTS
  Guest,        \* Telegram accounts
  Profile,      \* operational profiles, each with a name and a date of birth
  Name, NameOf, \* names, not unique among profiles
  Operational,  \* profiles whose owner is a server, a leader or staff
  Lifetime,     \* _LOGIN_ATTEMPT_TTL
  MaxDate,      \* bound: the latest message
  MaxCapacity,  \* bound: capacity a seed gives
  Seed          \* the writer of provisioned interests, no guest

ASSUME AccountsAssumption ==
  /\ NameOf \in [Profile -> Name]
  /\ Operational \subseteq Profile
  /\ Lifetime \in Nat \ {0} /\ MaxDate \in Nat /\ MaxCapacity \in Nat
  /\ Seed \notin Guest

VARIABLES
  running,   \* whether the bot has started
  date,      \* of the newest message
  capacity,  \* of each provisioned profile
  reserved,  \* operational_profiles.reserved_capacity
  interests, \* who wrote the interests of each provisioned profile
  logins,    \* operational_logins rows still attached, <<profile, guest>>
  history,   \* all operational_logins rows, <<profile, guest, attached_at>>
  session,   \* operational_login_attempts: guest to row
  captures   \* how often a login has opened the capture of interests

vars == <<running, date, capacity, reserved, interests, logins, history, session, captures>>
matching == <<capacity, reserved>>
accounts == <<interests, logins, history, captures>>

Provisioned == DOMAIN capacity

Step == {"login_name", "login_dob", "interests"}

Row == [step : Step, names : SUBSET Name, expires : Nat]

Init ==
  /\ running = FALSE
  /\ date = 0
  /\ capacity = [p \in {} |-> 0]
  /\ reserved = [p \in {} |-> 0]
  /\ interests = [p \in {} |-> Seed]
  /\ logins = {} /\ history = {}
  /\ session = [u \in {} |-> [step |-> "interests", names |-> {}, expires |-> 0]]
  /\ captures = [p \in Profile |-> 0]
-----------------------------------------------------------------------------
(* Repositories.                                                           *)

\* start: one row per guest, replaced whatever it held.
Open(s, u, step, names) ==
  [v \in DOMAIN s \cup {u} |->
    IF v = u THEN [step |-> step, names |-> names, expires |-> date + Lifetime] ELSE s[v]]

\* clear.
Clear(s, u) == [v \in DOMAIN s \ {u} |-> s[v]]

\* current: a row is one until its time, and from then on is removed when read.
Live(u) == u \in DOMAIN session /\ session[u].expires > date

Awaiting(u, step) == running /\ Live(u) /\ session[u].step = step

AttachedTo(u) == {p \in Profile : <<p, u>> \in logins}

\* Mutation of Occupied: only the profile is looked at.
OccupiedProfile(p, u) ==
  \/ \E v \in Guest : <<p, v>> \in logins
  \/ <<p, u, date>> \in history

\* attach inserts unless one of three unique keys is taken: the active profile,
\* the active guest, the same attachment at the same second.
Occupied(p, u) ==
  \/ \E v \in Guest : <<p, v>> \in logins
  \/ AttachedTo(u) # {}
  \/ <<p, u, date>> \in history

\* Mutation of FirstEver: only attachments still active are found.
FirstNow(p) == ~\E u \in Guest : <<p, u>> \in logins

\* No other row of the profile exists, attached or detached.
FirstEver(p) == ~\E u \in Guest : \E t \in 0..date : <<p, u, t>> \in history

\* Mutation of Reseeded: the seed's interests replace those of the profile.
ReseededAll(s) == [p \in Provisioned \cup DOMAIN s |-> Seed]

\* provision never touches the interests of a profile that exists.
Reseeded(s) == [p \in Provisioned \cup DOMAIN s |-> IF p \in Provisioned THEN interests[p] ELSE Seed]

\* Mutation of Fits: the capacity is overwritten without the check constraint.
FitsAnything(s) == TRUE

\* ck_operational_profiles_reserved_capacity_within_capacity.
Fits(s) == \A p \in Provisioned \cap DOMAIN s : reserved[p] <= s[p]
-----------------------------------------------------------------------------
(* Provisioning, the process, and what other components do to profiles.    *)

\* Every start provisions the profiles s of the seed file with their capacity,
\* in one transaction; profiles the file no longer has stay.
Start(s) ==
  /\ ~running
  /\ Fits(s)
  /\ running' = TRUE
  /\ capacity' = [p \in Provisioned \cup DOMAIN s |-> IF p \in DOMAIN s THEN s[p] ELSE capacity[p]]
  /\ reserved' = [p \in Provisioned \cup DOMAIN s |-> IF p \in Provisioned THEN reserved[p] ELSE 0]
  /\ interests' = Reseeded(s)
  /\ UNCHANGED <<date, logins, history, session, captures>>

\* The process ends; what it has not committed is gone.
Stop ==
  /\ running
  /\ running' = FALSE
  /\ UNCHANGED <<date, matching, accounts, session>>

TimePasses ==
  /\ date < MaxDate
  /\ date' = date + 1
  /\ UNCHANGED <<running, matching, accounts, session>>

\* A match takes a place with an attached responder, or gives one back.
TakePlace(p) ==
  /\ running
  /\ p \in Provisioned
  /\ \E u \in Guest : <<p, u>> \in logins
  /\ reserved[p] < capacity[p]
  /\ reserved' = [reserved EXCEPT ![p] = @ + 1]
  /\ UNCHANGED <<running, date, capacity, accounts, session>>

GiveBack(p) ==
  /\ running
  /\ p \in Provisioned
  /\ reserved[p] > 0
  /\ reserved' = [reserved EXCEPT ![p] = @ - 1]
  /\ UNCHANGED <<running, date, capacity, accounts, session>>
-----------------------------------------------------------------------------
(* Commands.                                                               *)

\* Mutation of StartLogin: a session that is there is left as it is.
StartLoginOnce(u) ==
  /\ running
  /\ session' = IF u \in DOMAIN session THEN session ELSE Open(session, u, "login_name", {})
  /\ UNCHANGED <<running, date, matching, accounts>>

\* /login asks for the name, whoever is logged in and whatever was asked.
StartLogin(u) ==
  /\ running
  /\ session' = Open(session, u, "login_name", {})
  /\ UNCHANGED <<running, date, matching, accounts>>

\* /manage opens the editor for the profile the guest is attached to.
Manage(u) ==
  /\ running
  /\ AttachedTo(u) \cap Operational # {}
  /\ session' = Open(session, u, "interests", {})
  /\ UNCHANGED <<running, date, matching, accounts>>

\* Mutation of Forget: the session outlives the attachment.
ForgetNothing(s, u) == s

Forget(s, u) == Clear(s, u)

\* /logout.
Logout(u) ==
  /\ running
  /\ session' = Forget(session, u)
  /\ logins' = {l \in logins : l[2] # u}
  /\ UNCHANGED <<running, date, matching, interests, history, captures>>
-----------------------------------------------------------------------------
(* Ordinary texts, first offered to the guest's session.  An invalid answer *)
(* leaves the session as it is.                                             *)

AnswerName(u, n) ==
  /\ Awaiting(u, "login_name")
  /\ session' = Open(session, u, "login_dob", {n})
  /\ UNCHANGED <<running, date, matching, accounts>>

\* The date of birth and the name given before it are those of p.
LogIn(u, p) ==
  /\ Awaiting(u, "login_dob")
  /\ NameOf[p] \in session[u].names
  /\ p \in Provisioned
  /\ ~Occupied(p, u)
  /\ logins' = logins \cup {<<p, u>>}
  /\ history' = history \cup {<<p, u, date>>}
  /\ IF FirstEver(p) /\ p \in Operational
       THEN /\ session' = Open(session, u, "interests", {})
            /\ captures' = [captures EXCEPT ![p] = @ + 1]
       ELSE session' = Clear(session, u) /\ UNCHANGED captures
  /\ UNCHANGED <<running, date, matching, interests>>

\* They are those of nobody, or of a profile that cannot be attached now.
LoginRefused(u) ==
  /\ Awaiting(u, "login_dob")
  /\ session' = Clear(session, u)
  /\ UNCHANGED <<running, date, matching, accounts>>

\* update_interests_in_uow, which finds the profile attached at that moment.
AnswerInterests(u) ==
  /\ Awaiting(u, "interests")
  /\ session' = Clear(session, u)
  /\ interests' = [p \in Provisioned |-> IF p \in AttachedTo(u) THEN u ELSE interests[p]]
  /\ UNCHANGED <<running, date, matching, logins, history, captures>>

\* A text that comes too late removes the row and goes on to the conversation.
Expire(u) ==
  /\ running
  /\ u \in DOMAIN session /\ ~Live(u)
  /\ session' = Clear(session, u)
  /\ UNCHANGED <<running, date, matching, accounts>>

Seeds == UNION {[P -> 0..MaxCapacity] : P \in SUBSET Profile}

Next ==
  \/ \E s \in Seeds : Start(s)
  \/ Stop \/ TimePasses
  \/ \E p \in Profile : TakePlace(p) \/ GiveBack(p)
  \/ \E u \in Guest :
       \/ StartLogin(u) \/ Manage(u) \/ Logout(u)
       \/ \E n \in Name : AnswerName(u, n)
       \/ \E p \in Profile : LogIn(u, p)
       \/ LoginRefused(u) \/ AnswerInterests(u) \/ Expire(u)

Spec == Init /\ [][Next]_vars
-----------------------------------------------------------------------------
TypeOK ==
  /\ running \in BOOLEAN /\ date \in Nat
  /\ Provisioned \subseteq Profile
  /\ capacity \in [Provisioned -> Nat]
  /\ reserved \in [Provisioned -> Nat]
  /\ interests \in [Provisioned -> Guest \cup {Seed}]
  /\ logins \subseteq Provisioned \X Guest
  /\ history \subseteq Provisioned \X Guest \X Nat
  /\ DOMAIN session \subseteq Guest
  /\ session \in [DOMAIN session -> Row]
  /\ captures \in [Profile -> Nat]

\* A Telegram account holds one profile, and a profile one Telegram account.
OneAccountEach ==
  \A l, m \in logins : l # m => l[1] # m[1] /\ l[2] # m[2]

\* Whoever is asked for interests is attached to a profile that has them, so the
\* answer is never lost (interests_not_attached): no order of commands, logouts
\* and answers leaves such a question behind.
AskedAreAttached ==
  \A u \in DOMAIN session :
    session[u].step = "interests" => AttachedTo(u) \cap Operational # {}

\* A login asks for interests once in a profile's life, whoever logs in to it.
FirstLoginAsks == \A p \in Profile : captures[p] <= 1

\* A restart with another seed never leaves more places taken than there are.
PlacesKept == \A p \in Provisioned : reserved[p] <= capacity[p]

\* Interests change only by the hand of the account attached to the profile;
\* provisioning the profile again at a restart leaves them alone.
InterestsByOwner ==
  [][\A p \in Provisioned :
       interests'[p] # interests[p] => <<p, interests'[p]>> \in logins]_vars

\* The history has every attachment, and none in the future.
HistoryKept ==
  /\ \A l \in logins : \E t \in 0..date : <<l[1], l[2], t>> \in history
  /\ \A h \in history : h[3] <= date

\* A capture was opened only for a profile with a login row.
CapturesRecorded ==
  \A p \in Profile : captures[p] # 0 => \E h \in history : h[1] = p

AccountsInvariant ==
  /\ TypeOK
  /\ OneAccountEach
  /\ AskedAreAttached
  /\ FirstLoginAsks
  /\ PlacesKept
  /\ HistoryKept
  /\ CapturesRecorded
=============================================================================
