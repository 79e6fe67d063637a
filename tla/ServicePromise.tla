--------------------------- MODULE ServicePromise ---------------------------
(***************************************************************************)
(* What the service lifecycle of Friendly Bot promises, with no scheduler, *)
(* no clock and no transaction: guests join and part while a service runs, *)
(* each announcement is prepared at most once for each guest and sent at   *)
(* most once after that, and the service is over once and for all.         *)
(***************************************************************************)
CONSTANTS User,        \* guests
          Timestamp    \* announcements of the service

VARIABLES over,        \* the service's interactions have ended
          present,     \* guests attending it
          announced,   \* announcements prepared, <<timestamp, guest>>
          sent         \* announcements attempted

promiseVars == <<over, present, announced, sent>>

PromiseInit ==
  /\ over = FALSE
  /\ present = {}
  /\ announced = {}
  /\ sent = {}

Join(u) ==
  /\ ~over
  /\ present' = present \cup {u}
  /\ UNCHANGED <<over, announced, sent>>

Part(u) ==
  /\ present' = present \ {u}
  /\ UNCHANGED <<over, announced, sent>>

Announce(t, u) ==
  /\ ~over
  /\ <<t, u>> \notin announced
  /\ announced' = announced \cup {<<t, u>>}
  /\ UNCHANGED <<over, present, sent>>

\* The last announcement ends the service: everybody has left it.
Finish(t, u) ==
  /\ ~over
  /\ <<t, u>> \notin announced
  /\ announced' = announced \cup {<<t, u>>}
  /\ over' = TRUE
  /\ present' = {}
  /\ UNCHANGED sent

Tell(t, u) ==
  /\ <<t, u>> \in announced \ sent
  /\ sent' = sent \cup {<<t, u>>}
  /\ UNCHANGED <<over, present, announced>>

PromiseNext ==
  \E u \in User :
    \/ Join(u) \/ Part(u)
    \/ \E t \in Timestamp : Announce(t, u) \/ Finish(t, u) \/ Tell(t, u)

PromiseSpec == PromiseInit /\ [][PromiseNext]_promiseVars
=============================================================================
