----------------------- MODULE ServiceLifecycleProofs -----------------------
(***************************************************************************)
(* For every set of users, runtimes and timestamps, whatever their times   *)
(* and audiences: announcements are attempted at most once, a closed       *)
(* service is empty and stays as it is, and the lifecycle implements       *)
(* ServicePromise.                                                         *)
(***************************************************************************)
EXTENDS ServiceLifecycle, TLAPS

USE ServiceAssumption

LEMMA InitInvariant == Init => ServiceInvariant
  BY DEF Init, ServiceInvariant, TypeOK, ClosedAfterEnd, OneSenderEach, RunsConsistent,
         AnnouncedAtMostOnce, ClosedServiceIsEmpty, OnlyAttendeesTold, Guest, PC,
         Attending, Closed

\* A runtime that ends leaves the database alone and holds nothing.
LEMMA EndKeepsInvariant ==
  ASSUME ServiceInvariant, NEW r \in Runtime, End(r), mishaps' \in Nat
  PROVE  ServiceInvariant'
  <1> USE DEF End, durable, ServiceInvariant
  <1>1. TypeOK'
    BY DEF TypeOK, PC
  <1>2. ClosedAfterEnd' /\ AnnouncedAtMostOnce' /\ ClosedServiceIsEmpty' /\ OnlyAttendeesTold'
    BY DEF ClosedAfterEnd, AnnouncedAtMostOnce, ClosedServiceIsEmpty, OnlyAttendeesTold,
           Closed
  <1>3. OneSenderEach'
    BY DEF OneSenderEach, TypeOK
  <1>4. RunsConsistent'
    BY DEF RunsConsistent, TypeOK
  <1> QED BY <1>1, <1>2, <1>3, <1>4

\* Steps of the scheduler loop between two recipients.
LEMMA LoopKeepsInvariant ==
  ASSUME ServiceInvariant, NEW r \in Runtime,
         \/ Start(r) \/ ListDue(r) \/ RunDone(r) \/ TimestampDone(r)
         \/ \E t \in Timestamp : Expand(r, t)
         \/ \E u \in User : Skip(r, u)
  PROVE  ServiceInvariant'
  <1> USE DEF durable, ServiceInvariant
  <1>0. UNCHANGED <<clock, durable, attempts, target, mishaps>> /\ pc[r] # "sending"
          /\ \E p \in PC \ {"sending"} : pc' = [pc EXCEPT ![r] = p]
    <2>1. CASE Start(r) \/ ListDue(r) \/ RunDone(r) \/ TimestampDone(r)
      BY <2>1 DEF Start, ListDue, RunDone, TimestampDone, PC
    <2>2. CASE \E t \in Timestamp : Expand(r, t)
      BY <2>2 DEF Expand, PC
    <2>3. CASE \E u \in User : Skip(r, u)
      BY <2>3 DEF Skip, PC, TypeOK
    <2> QED BY <2>1, <2>2, <2>3
  <1>1. TypeOK'
    <2>1. pc' \in [Runtime -> PC]
      BY <1>0 DEF TypeOK
    <2>2. /\ tick' \in [Runtime -> Nat]
          /\ due' \in [Runtime -> SUBSET Timestamp]
          /\ current' \in [Runtime -> Timestamp \cup {NoTimestamp}]
          /\ recipients' \in [Runtime -> SUBSET User]
      <3>1. CASE Start(r) \/ RunDone(r)
        BY <3>1 DEF TypeOK, Start, RunDone
      <3>2. CASE ListDue(r)
        BY <3>2 DEF TypeOK, ListDue
      <3>5. CASE TimestampDone(r)
        BY <3>5 DEF TypeOK, TimestampDone
      <3>3. ASSUME NEW t \in Timestamp, Expand(r, t)
            PROVE  /\ due' \in [Runtime -> SUBSET Timestamp]
                   /\ recipients' \in [Runtime -> SUBSET User]
                   /\ current' \in [Runtime -> Timestamp \cup {NoTimestamp}] /\ tick' = tick
        BY <3>3 DEF TypeOK, Expand
      <3>4. ASSUME NEW u \in User, Skip(r, u)
            PROVE  recipients' \in [Runtime -> SUBSET User] /\ UNCHANGED <<tick, due, current>>
        BY <3>4 DEF TypeOK, Skip
      <3> QED BY <3>1, <3>2, <3>3, <3>4, <3>5 DEF TypeOK
    <2> QED BY <1>0, <2>1, <2>2 DEF TypeOK
  <1>2. ClosedAfterEnd' /\ AnnouncedAtMostOnce' /\ ClosedServiceIsEmpty' /\ OnlyAttendeesTold'
    BY <1>0 DEF ClosedAfterEnd, AnnouncedAtMostOnce, ClosedServiceIsEmpty,
                OnlyAttendeesTold, Closed
  <1>3. OneSenderEach'
    <2>1. \A q \in Runtime : pc'[q] = "sending" =>
            pc[q] = "sending" /\ q # r /\ current'[q] = current[q] /\ target'[q] = target[q]
      BY <1>0 DEF TypeOK, Start, ListDue, RunDone, TimestampDone, Expand, Skip
    <2> QED BY <1>0, <2>1 DEF OneSenderEach
  <1>4. RunsConsistent'
    <2>1. CASE Start(r) \/ ListDue(r) \/ RunDone(r) \/ TimestampDone(r)
      BY <2>1 DEF RunsConsistent, TypeOK, Start, ListDue, RunDone, TimestampDone, IsDue
    <2>2. ASSUME NEW t \in Timestamp, Expand(r, t) PROVE RunsConsistent'
      BY <2>2 DEF RunsConsistent, TypeOK, Expand, InAudience
    <2>3. ASSUME NEW u \in User, Skip(r, u) PROVE RunsConsistent'
      BY <2>3 DEF RunsConsistent, TypeOK, Skip
    <2> QED BY <2>1, <2>2, <2>3
  <1> QED BY <1>1, <1>2, <1>3, <1>4

\* A recipient's transaction claims a pair nobody is sending or has sent.
LEMMA PrepareKeepsInvariant ==
  ASSUME ServiceInvariant, NEW r \in Runtime, NEW u \in User, Announce(r, u) \/ Close(r, u)
  PROVE  ServiceInvariant'
  <1> USE DEF ServiceInvariant
  <1>0. /\ Prepare(r, u) /\ current[r] \in Timestamp /\ ~Closed
        /\ <<current[r], u>> \notin claims /\ attempts[<<current[r], u>>] = 0
    <2>1. Prepare(r, u)
      BY DEF Announce, Close
    <2>2. ~Closed /\ <<current[r], u>> \notin claims /\ current[r] \in Timestamp
      BY <2>1 DEF Prepare, DeliveryOpen, Unclaimed, RunsConsistent
    <2>3. attempts[<<current[r], u>>] \in Nat
      BY <2>2 DEF TypeOK
    <2> QED BY <2>1, <2>2, <2>3 DEF AnnouncedAtMostOnce
  <1>1. /\ closedAt' \in Nat /\ guest' \in [User -> Guest]
        /\ \A v \in User : /\ guest'[v] \in Attending => guest[v] \in Attending
                           /\ guest[v] \in Attending \cup {"left"} =>
                                guest'[v] \in Attending \cup {"left"}
        /\ Closed' => closedAt' >= Ends /\ \A v \in User : guest'[v] \notin Attending
    <2>1. CASE Announce(r, u)
      BY <1>0, <2>1 DEF Announce, TypeOK, Closed
    <2>2. CASE Close(r, u)
      <3>1. tick[r] >= Ends
        BY <1>0, <2>2 DEF Close, Terminal, RunsConsistent, TypeOK
      <3> QED BY <2>2, <3>1 DEF Close, EndAttendances, TypeOK, Attending, Guest
    <2> QED BY <2>1, <2>2
  <1>2. TypeOK'
    BY <1>0, <1>1 DEF Prepare, TypeOK, PC
  <1>3. ClosedAfterEnd' /\ ClosedServiceIsEmpty'
    BY <1>1 DEF ClosedAfterEnd, ClosedServiceIsEmpty
  <1>4. AnnouncedAtMostOnce'
    BY <1>0 DEF AnnouncedAtMostOnce, Prepare
  <1>5. OneSenderEach'
    BY <1>0 DEF OneSenderEach, Prepare, TypeOK
  <1>6. OnlyAttendeesTold'
    BY <1>0, <1>1 DEF OnlyAttendeesTold, Prepare, RunsConsistent
  <1>7. RunsConsistent'
    BY <1>0, <1>1 DEF RunsConsistent, Prepare, TypeOK
  <1> QED BY <1>2, <1>3, <1>4, <1>5, <1>6, <1>7

LEMMA SendKeepsInvariant ==
  ASSUME ServiceInvariant, NEW r \in Runtime, Send(r)
  PROVE  ServiceInvariant'
  <1> USE DEF Send, durable, ServiceInvariant
  <1> DEFINE d == <<current[r], target[r]>>
  <1>1. /\ d \in Timestamp \X User /\ d \in claims /\ attempts[d] = 0
        /\ attempts' = [attempts EXCEPT ![d] = 1]
    <2>1. current[r] \in Timestamp /\ target[r] \in User /\ d \in claims /\ attempts[d] = 0
      BY DEF RunsConsistent, OneSenderEach
    <2> QED BY <2>1
  <1>2. TypeOK'
    BY <1>1 DEF TypeOK, PC
  <1>3. ClosedAfterEnd' /\ ClosedServiceIsEmpty' /\ OnlyAttendeesTold'
    BY DEF ClosedAfterEnd, ClosedServiceIsEmpty, OnlyAttendeesTold, Closed
  <1>4. AnnouncedAtMostOnce'
    <2> SUFFICES ASSUME NEW e \in Timestamp \X User
                 PROVE  attempts'[e] <= 1 /\ (attempts'[e] = 1 => e \in claims')
      BY DEF AnnouncedAtMostOnce
    <2>1. CASE e = d
      BY <1>1, <2>1 DEF TypeOK
    <2>2. CASE e # d
      <3>1. attempts'[e] = attempts[e]
        BY <1>1, <2>2 DEF TypeOK
      <3> QED BY <3>1 DEF AnnouncedAtMostOnce
    <2> QED BY <2>1, <2>2
  <1>5. OneSenderEach'
    <2> SUFFICES ASSUME NEW q \in Runtime, pc'[q] = "sending"
                 PROVE  /\ <<current'[q], target'[q]>> \in claims'
                        /\ attempts'[<<current'[q], target'[q]>>] = 0
                        /\ \A p \in Runtime \ {q} : pc'[p] = "sending" =>
                             <<current'[p], target'[p]>> # <<current'[q], target'[q]>>
      BY DEF OneSenderEach
    <2>1. q # r /\ pc[q] = "sending" /\ target'[q] = target[q]
      BY DEF TypeOK
    <2>2. <<current[q], target[q]>> # d
      BY <2>1 DEF OneSenderEach
    <2>3. \A p \in Runtime : pc'[p] = "sending" => pc[p] = "sending" /\ target'[p] = target[p]
      BY DEF TypeOK
    <2> QED BY <1>1, <2>1, <2>2, <2>3 DEF OneSenderEach, TypeOK
  <1>6. RunsConsistent'
    BY DEF RunsConsistent, TypeOK
  <1> QED BY <1>2, <1>3, <1>4, <1>5, <1>6

\* An update of a guest changes neither claims nor schedulers, makes nobody who
\* has attended a stranger to the service, and nobody attend a closed one.
LEMMA GuestKeepsInvariant ==
  ASSUME ServiceInvariant,
         UNCHANGED <<clock, closedAt, claims, attempts, schedulers, mishaps>>,
         asked' \subseteq User, menu' \in [User -> Nat], used' \in [User -> Nat],
         guest' \in [User -> Guest],
         \A v \in User : guest[v] \in Attending \cup {"left"} =>
                           guest'[v] \in Attending \cup {"left"},
         Closed => \A v \in User : guest'[v] \in Attending => guest[v] \in Attending
  PROVE  ServiceInvariant'
  <1> USE DEF schedulers, ServiceInvariant
  <1>1. TypeOK'
    BY DEF TypeOK
  <1>2. ClosedAfterEnd' /\ ClosedServiceIsEmpty' /\ AnnouncedAtMostOnce' /\ OneSenderEach'
    BY DEF ClosedAfterEnd, ClosedServiceIsEmpty, AnnouncedAtMostOnce, OneSenderEach, Closed
  <1>3. OnlyAttendeesTold'
    BY DEF OnlyAttendeesTold
  <1>4. RunsConsistent'
    BY DEF RunsConsistent, TypeOK
  <1> QED BY <1>1, <1>2, <1>3, <1>4

\* So does an attendance recorded while the service is open.
LEMMA AttendKeepsInvariant ==
  ASSUME ServiceInvariant, NEW u \in User, NEW at \in Nat, Attend(u, at), ~Closed,
         UNCHANGED <<clock, closedAt, claims, attempts, used, schedulers, mishaps>>,
         asked' \subseteq User
  PROVE  ServiceInvariant'
  <1>1. guest' \in [User -> Guest] /\ menu' \in [User -> Nat] /\ used' \in [User -> Nat]
    BY DEF Attend, Kind, ServiceInvariant, TypeOK, Guest, Attending
  <1>2. \A v \in User : guest[v] \in Attending \cup {"left"} =>
                          guest'[v] \in Attending \cup {"left"}
    BY DEF Attend, Kind, ServiceInvariant, TypeOK, Attending
  <1> QED BY <1>1, <1>2, GuestKeepsInvariant

LEMMA GuestsKeepInvariant ==
  ASSUME ServiceInvariant, NEW r \in Runtime, NEW u \in User, Guests(r, u)
  PROVE  ServiceInvariant'
  <1> USE DEF ServiceInvariant, TypeOK, Attending, Guest
  <1>1. CASE Meet(r, u)
    BY <1>1, GuestKeepsInvariant DEF Meet
  <1>2. CASE Leave(r, u)
    BY <1>2, GuestKeepsInvariant DEF Leave
  <1>3. ASSUME NEW at \in 0..clock, CaptureName(r, u, at) PROVE ServiceInvariant'
    <2>1. CASE DoorsOpen <= at /\ ServiceOpen(at)
      BY <1>3, <2>1, AttendKeepsInvariant DEF CaptureName, ServiceOpen
    <2>2. CASE ~(DoorsOpen <= at /\ ServiceOpen(at))
      BY <1>3, <2>2, GuestKeepsInvariant DEF CaptureName
    <2> QED BY <2>1, <2>2
  <1>4. ASSUME NEW at \in 0..clock, CheckInEarly(r, u, at) PROVE ServiceInvariant'
    BY <1>4, GuestKeepsInvariant DEF CheckInEarly
  <1>5. ASSUME NEW at \in 0..clock, UseService(r, u, at) PROVE ServiceInvariant'
    BY <1>5, GuestKeepsInvariant DEF UseService
  <1>6. ASSUME NEW at \in 0..clock, CheckInRaises(r, u, at) \/ DispatchRaises(r, u, at)
        PROVE  ServiceInvariant'
    BY <1>6, EndKeepsInvariant DEF CheckInRaises, DispatchRaises, Mishap, ServiceInvariant, TypeOK
  <1> QED BY <1>1, <1>2, <1>3, <1>4, <1>5, <1>6 DEF Guests

LEMMA NextKeepsInvariant == ServiceInvariant /\ [Next]_vars => ServiceInvariant'
  <1> SUFFICES ASSUME ServiceInvariant, [Next]_vars PROVE ServiceInvariant'
    OBVIOUS
  <1>1. CASE UNCHANGED vars
    BY <1>1 DEF vars, ServiceInvariant, TypeOK, ClosedAfterEnd, OneSenderEach,
                RunsConsistent, AnnouncedAtMostOnce, ClosedServiceIsEmpty,
                OnlyAttendeesTold, Closed
  <1>2. CASE TimePasses
    BY <1>2 DEF TimePasses, durable, schedulers, ServiceInvariant, TypeOK,
                ClosedAfterEnd, OneSenderEach, RunsConsistent, AnnouncedAtMostOnce,
                ClosedServiceIsEmpty, OnlyAttendeesTold, Closed
  <1>3. ASSUME NEW r \in Runtime, Stop(r) \/ PrepareFails(r) PROVE ServiceInvariant'
    <2>1. End(r) /\ mishaps' \in Nat
      BY <1>3 DEF Stop, PrepareFails, Mishap, ServiceInvariant, TypeOK
    <2> QED BY <2>1, EndKeepsInvariant
  <1>4. ASSUME NEW r \in Runtime, Start(r) \/ Run(r) PROVE ServiceInvariant'
    BY <1>4, LoopKeepsInvariant, PrepareKeepsInvariant, SendKeepsInvariant DEF Run
  <1>5. ASSUME NEW r \in Runtime, NEW u \in User, Guests(r, u) PROVE ServiceInvariant'
    BY <1>5, GuestsKeepInvariant
  <1> QED BY <1>1, <1>2, <1>3, <1>4, <1>5 DEF Next

\* The inductive invariant of the lifecycle.
THEOREM Invariant == Spec => []ServiceInvariant
  BY InitInvariant, NextKeepsInvariant, PTL DEF Spec

\* The types of the lifecycle's variables.
THEOREM TypeCorrect == Spec => []TypeOK
  <1>1. ServiceInvariant => TypeOK
    BY DEF ServiceInvariant
  <1> QED BY <1>1, Invariant, PTL

\* No announcement is attempted twice for a user, nor without its claim.
THEOREM AnnouncedOnce == Spec => []AnnouncedAtMostOnce
  <1>1. ServiceInvariant => AnnouncedAtMostOnce
    BY DEF ServiceInvariant
  <1> QED BY <1>1, Invariant, PTL

\* Nobody attends a closed service.
THEOREM ClosedIsEmpty == Spec => []ClosedServiceIsEmpty
  <1>1. ServiceInvariant => ClosedServiceIsEmpty
    BY DEF ServiceInvariant
  <1> QED BY <1>1, Invariant, PTL

\* Announcements for attendees reach nobody who never attended.
THEOREM AttendeesOnly == Spec => []OnlyAttendeesTold
  <1>1. ServiceInvariant => OnlyAttendeesTold
    BY DEF ServiceInvariant
  <1> QED BY <1>1, Invariant, PTL

\* Nothing of the service moves once it has closed.
THEOREM ClosureIsFinal == Spec => ClosureFreezes
  <1>1. [Next]_vars => [Closed => UNCHANGED <<closedAt, claims, asked, menu, used>>]_vars
    <2> SUFFICES ASSUME Next, Closed PROVE UNCHANGED <<closedAt, claims, asked, menu, used>>
      BY DEF vars
    <2> USE DEF durable
    <2>1. CASE TimePasses
      BY <2>1 DEF TimePasses
    <2>2. ASSUME NEW r \in Runtime, Start(r) \/ Stop(r) \/ PrepareFails(r)
          PROVE  UNCHANGED <<closedAt, claims, asked, menu, used>>
      BY <2>2 DEF Start, Stop, PrepareFails, Mishap, End
    <2>3. ASSUME NEW r \in Runtime, Run(r)
          PROVE  UNCHANGED <<closedAt, claims, asked, menu, used>>
      BY <2>3 DEF Run, ListDue, RunDone, TimestampDone, Send, Expand, Skip, Announce, Close,
                  Prepare, DeliveryOpen
    <2>4. ASSUME NEW r \in Runtime, NEW u \in User, Guests(r, u)
          PROVE  UNCHANGED <<closedAt, claims, asked, menu, used>>
      BY <2>4 DEF Guests, Meet, Leave, CaptureName, CheckInEarly, CheckingIn, UseService,
                  CheckInRaises, DispatchRaises, Mishap, End, ServiceOpen
    <2> QED BY <2>1, <2>2, <2>3, <2>4 DEF Next
  <1> QED BY <1>1, PTL DEF Spec, ClosureFreezes
-----------------------------------------------------------------------------
LEMMA MapInit == Init => Promise!PromiseInit
  BY DEF Init, Promise!PromiseInit, Closed, Attending

\* What the promise sees of a step that leaves database and sends alone.
LEMMA MapStutter ==
  ASSUME UNCHANGED <<closedAt, guest, claims, attempts>>
  PROVE  UNCHANGED Promise!promiseVars
  BY DEF Promise!promiseVars, Closed

\* An attendance recorded while the service is open is a guest joining.
LEMMA MapAttend ==
  ASSUME ServiceInvariant, NEW u \in User, NEW at, Attend(u, at), ~Closed,
         UNCHANGED <<closedAt, claims, attempts>>
  PROVE  Promise!PromiseNext
  <1>1. {v \in User : guest'[v] \in Attending} = {v \in User : guest[v] \in Attending} \cup {u}
    BY DEF ServiceInvariant, TypeOK, Attend, Kind, Attending
  <1>2. Promise!Join(u)
    BY <1>1 DEF Promise!Join, Closed
  <1> QED BY <1>2 DEF Promise!PromiseNext

LEMMA MapNext == ServiceInvariant /\ [Next]_vars => [Promise!PromiseNext]_(Promise!promiseVars)
  <1> SUFFICES ASSUME ServiceInvariant, [Next]_vars
               PROVE  [Promise!PromiseNext]_(Promise!promiseVars)
    OBVIOUS
  <1> USE DEF durable
  <1>1. CASE UNCHANGED vars \/ TimePasses
    BY <1>1, MapStutter DEF vars, TimePasses
  <1>2. ASSUME NEW r \in Runtime,
               \/ Start(r) \/ Stop(r) \/ PrepareFails(r)
               \/ ListDue(r) \/ RunDone(r) \/ TimestampDone(r)
               \/ \E t \in Timestamp : Expand(r, t)
               \/ \E u \in User : Skip(r, u)
               \/ \E u \in User, at \in 0..clock :
                    \/ UseService(r, u, at) \/ CheckInEarly(r, u, at)
                    \/ CheckInRaises(r, u, at) \/ DispatchRaises(r, u, at)
        PROVE  UNCHANGED Promise!promiseVars
    BY <1>2, MapStutter DEF Start, Stop, PrepareFails, Mishap, End, ListDue, RunDone, TimestampDone,
                            Expand, Skip, UseService, CheckInEarly, CheckInRaises, DispatchRaises
  <1>3. ASSUME NEW r \in Runtime, NEW u \in User, Announce(r, u) \/ Close(r, u)
        PROVE  Promise!PromiseNext
    <2>1. /\ current[r] \in Timestamp /\ ~Closed /\ <<current[r], u>> \notin claims
          /\ claims' = claims \cup {<<current[r], u>>} /\ UNCHANGED attempts
      BY <1>3 DEF Announce, Close, Prepare, DeliveryOpen, Unclaimed, ServiceInvariant,
                  RunsConsistent, TypeOK
    <2>2. CASE Announce(r, u)
      <3>1. Promise!Announce(current[r], u)
        BY <2>1, <2>2 DEF Announce, Promise!Announce, Closed
      <3> QED BY <2>1, <3>1 DEF Promise!PromiseNext
    <2>3. CASE Close(r, u)
      <3>1. Closed'
        <4>1. tick[r] >= Ends /\ closedAt' = tick[r] /\ tick[r] \in Nat
          BY <2>1, <2>3 DEF Close, Terminal, ServiceInvariant, RunsConsistent, TypeOK
        <4> QED BY <4>1 DEF Closed
      <3>2. {v \in User : guest'[v] \in Attending} = {}
        BY <2>3 DEF Close, EndAttendances, Attending
      <3>3. Promise!Finish(current[r], u)
        BY <2>1, <3>1, <3>2 DEF Promise!Finish
      <3> QED BY <2>1, <3>3 DEF Promise!PromiseNext
    <2> QED BY <1>3, <2>2, <2>3
  <1>4. ASSUME NEW r \in Runtime, Send(r) PROVE Promise!PromiseNext
    <2> DEFINE d == <<current[r], target[r]>>
    <2>1. /\ current[r] \in Timestamp /\ target[r] \in User
          /\ d \in claims /\ attempts[d] = 0
      BY <1>4 DEF Send, ServiceInvariant, RunsConsistent, OneSenderEach
    <2>2. attempts' = [attempts EXCEPT ![d] = 1] /\ UNCHANGED <<closedAt, guest, claims>>
      BY <1>4, <2>1 DEF Send, ServiceInvariant, TypeOK
    <2>3. {e \in Timestamp \X User : attempts'[e] > 0}
            = {e \in Timestamp \X User : attempts[e] > 0} \cup {d}
      BY <2>1, <2>2 DEF ServiceInvariant, TypeOK
    <2>4. PICK t \in Timestamp, u \in User : t = current[r] /\ u = target[r]
      BY <2>1
    <2>5. Promise!Tell(t, u)
      BY <2>1, <2>2, <2>3, <2>4 DEF Promise!Tell, Closed
    <2> QED BY <2>5 DEF Promise!PromiseNext
  <1>5. ASSUME NEW r \in Runtime, NEW u \in User, Meet(r, u)
        PROVE  UNCHANGED Promise!promiseVars
    <2>1. {v \in User : guest'[v] \in Attending} = {v \in User : guest[v] \in Attending}
      BY <1>5 DEF Meet, ServiceInvariant, TypeOK, Attending
    <2> QED BY <1>5, <2>1 DEF Meet, Promise!promiseVars, Closed
  <1>6. ASSUME NEW r \in Runtime, NEW u \in User, Leave(r, u) PROVE Promise!PromiseNext
    <2>1. {v \in User : guest'[v] \in Attending} = {v \in User : guest[v] \in Attending} \ {u}
      BY <1>6 DEF Leave, ServiceInvariant, TypeOK, Attending
    <2>2. Promise!Part(u)
      BY <1>6, <2>1 DEF Leave, Promise!Part, Closed
    <2> QED BY <2>2 DEF Promise!PromiseNext
  <1>7. ASSUME NEW r \in Runtime, NEW u \in User, NEW at \in 0..clock, CaptureName(r, u, at)
        PROVE  [Promise!PromiseNext]_(Promise!promiseVars)
    <2>1. CASE DoorsOpen <= at /\ ServiceOpen(at)
      BY <1>7, <2>1, MapAttend DEF CaptureName, ServiceOpen
    <2>2. CASE ~(DoorsOpen <= at /\ ServiceOpen(at))
      <3>1. {v \in User : guest'[v] \in Attending} = {v \in User : guest[v] \in Attending}
        BY <1>7, <2>2 DEF CaptureName, ServiceInvariant, TypeOK, Attending
      <3> QED BY <1>7, <3>1 DEF CaptureName, Promise!promiseVars, Closed
    <2> QED BY <2>1, <2>2
  <1> QED BY <1>1, <1>2, <1>3, <1>4, <1>5, <1>6, <1>7 DEF Next, Run, Guests

\* A guest may forget schedulers, clocks, crashes and late messages.
THEOREM Refinement == Spec => ImplementsPromise
  BY MapInit, MapNext, Invariant, PTL DEF Spec, ImplementsPromise, Promise!PromiseSpec
=============================================================================
