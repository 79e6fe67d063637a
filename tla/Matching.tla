------------------------------ MODULE Matching ------------------------------
(***************************************************************************)
(* Human connection: matching/service.py, the match executors of           *)
(* actions/executors.py and SqlAlchemyMatchRepository.  A requester has at *)
(* most one normal request, for the one composed service, and one safety   *)
(* request, which the shipped safety flow never binds to a service.        *)
(*                                                                         *)
(* A find is one transaction with a pause in it: candidates are read, the  *)
(* ranker is awaited, and only then is capacity reserved.  Nothing it      *)
(* writes is visible before it commits, so its writes are all in the step  *)
(* that ends it; what it read and locked before the pause is state.        *)
(***************************************************************************)
EXTENDS Integers, FiniteSets

CONSTANTS
  Requester,        \* users asking for a human
  Server,           \* profiles whose owner's role is server
  Helper,           \* profiles whose owner is a leader or staff
  AlwaysAvailable,  \* helpers provisioned as always available
  Capacity,         \* matches each profile can hold
  Nobody,           \* no profile
  Preference,       \* meeting preferences: either joins the other
  Runtimes,         \* pollers alive at once, above 1 after a lost lock session
  ReportTrigger     \* what starts the flow that reports a silent responder

Profile == Server \cup Helper

ASSUME MatchingAssumption ==
  /\ IsFiniteSet(Requester)
  /\ Server \cap Helper = {}
  /\ AlwaysAvailable \subseteq Helper
  /\ Capacity \in [Profile -> Nat]
  /\ Nobody \notin Profile
  /\ Runtimes \in Nat
  /\ ReportTrigger \in {"button", "message"}

Kind == {"normal", "safety"}
Request == Requester \X Kind

VARIABLES
  status,      \* of each request
  preference,  \* meeting preference of each request
  responder,   \* profile of each request's active assignment
  held,        \* active capacity_reservations rows, <<profile, request>>
  reserved,    \* operational_profiles.reserved_capacity
  excluded,    \* human_match_exclusions rows, <<request, profile>>
  online,      \* profiles with an attached login
  present,     \* profiles whose login user attends the service
  closed,      \* the service's interactions are closed
  offered,     \* requesters with an open match_found selection
  joined,      \* requesters with an open join selection
  reported,    \* profile each requester last reported as not responding
  finding,     \* kind of the find each requester's transaction is in
  eligible,    \* candidates that find has read
  released     \* profile that find has released and excluded

vars == <<status, preference, responder, held, reserved, excluded, online,
          present, closed, offered, joined, reported, finding, eligible, released>>

people == <<online, present>>
selections == <<offered, joined>>
find == <<finding, eligible, released>>

Status == {"absent", "pending", "reserved", "confirmed", "resolved"}

Init ==
  /\ status = [q \in Request |-> "absent"]
  /\ preference = [q \in Request |-> "none"]
  /\ responder = [q \in Request |-> Nobody]
  /\ held = {}
  /\ reserved = [p \in Profile |-> 0]
  /\ excluded = {}
  /\ online = {} /\ present = {}
  /\ closed = FALSE
  /\ offered = {} /\ joined = {}
  /\ reported = [u \in Requester |-> Nobody]
  /\ finding = [u \in Requester |-> "none"]
  /\ eligible = [u \in Requester |-> {}]
  /\ released = [u \in Requester |-> Nobody]
-----------------------------------------------------------------------------
(* Responders come and go: /login, /logout, a switch to another service.   *)
(* These are updates too, and need a poller that is not inside a find.     *)

PollerFree == Cardinality({u \in Requester : finding[u] # "none"}) < Runtimes

Login(p) ==
  /\ PollerFree
  /\ online' = online \cup {p}
  /\ UNCHANGED <<status, preference, responder, held, reserved, excluded,
                 present, closed, selections, reported, find>>

Logout(p) ==
  /\ PollerFree
  /\ online' = online \ {p}
  /\ UNCHANGED <<status, preference, responder, held, reserved, excluded,
                 present, closed, selections, reported, find>>

Leave(p) ==
  /\ PollerFree
  /\ present' = present \ {p}
  /\ UNCHANGED <<status, preference, responder, held, reserved, excluded,
                 online, closed, selections, reported, find>>
-----------------------------------------------------------------------------
(* Locks and candidate queries.                                            *)

\* Mutation of ServiceUnlocked: the fence is checked without taking the row lock.
NoServiceLock == TRUE

\* A service-bound find keeps the service row locked until it commits.
ServiceUnlocked == \A u \in Requester : finding[u] # "normal"

\* Mutation of ServiceOpen: the lock is taken, the closure mark is not read.
LockedOnly == ServiceUnlocked

\* _lock_open_service: wait for the row, then refuse a closed service.
ServiceOpen == ServiceUnlocked /\ ~closed

\* Check-in: start_or_switch takes the same lock.
Arrive(p) ==
  /\ PollerFree
  /\ ServiceOpen
  /\ present' = present \cup {p}
  /\ UNCHANGED <<status, preference, responder, held, reserved, excluded,
                 online, closed, selections, reported, find>>

\* Mutation of NotExcluded: exclusions are written and never consulted.
ExclusionIgnored(q, p) == TRUE

NotExcluded(q, p) == <<q, p>> \notin excluded

Reachable(q, p) == p \in online /\ NotExcluded(q, p) /\ reserved[p] < Capacity[p]

\* list_eligible_normal: exact servers that attend the service.
EligibleNormal(q) == {p \in Server : Reachable(q, p) /\ p \in present}

\* list_eligible_safety without a service, as the shipped flow calls it: the
\* template value active_service.id has no writer, so attendance never counts.
EligibleSafety(q) == {p \in Helper : Reachable(q, p) /\ p \in AlwaysAvailable}
-----------------------------------------------------------------------------
(* The first half of a find: everything up to the ranker's await.          *)

\* capture_interest: get_or_create_active_request, then the candidate query.
AskNormal(u) ==
  /\ finding[u] = "none" /\ PollerFree /\ ServiceOpen
  /\ finding' = [finding EXCEPT ![u] = "normal"]
  /\ eligible' = [eligible EXCEPT ![u] = EligibleNormal(<<u, "normal">>)]
  /\ UNCHANGED <<status, preference, responder, held, reserved, excluded,
                 people, closed, selections, reported, released>>

AskSafety(u) ==
  /\ finding[u] = "none" /\ PollerFree
  /\ finding' = [finding EXCEPT ![u] = "safety"]
  /\ eligible' = [eligible EXCEPT ![u] = EligibleSafety(<<u, "safety">>)]
  /\ UNCHANGED <<status, preference, responder, held, reserved, excluded,
                 people, closed, selections, reported, released>>

\* release_human_match knows the request from its button's context, and its
\* responder only while that responder is logged in.
CanRelease(p) == ReportTrigger = "button" /\ p \in online

\* not_responding: release, notify and exclude the responder, then find again.
Report(u) ==
  LET q == <<u, "normal">>  p == responder[q]  IN
  /\ finding[u] = "none" /\ PollerFree /\ ServiceOpen
  /\ u \in joined
  /\ p # Nobody
  /\ CanRelease(p)
  /\ finding' = [finding EXCEPT ![u] = "normal"]
  /\ released' = [released EXCEPT ![u] = p]
  /\ eligible' = [eligible EXCEPT ![u] = EligibleNormal(q) \ {p}]
  /\ UNCHANGED <<status, preference, responder, held, reserved, excluded,
                 people, closed, selections, reported>>

\* The release raises; the runner turns that into an error message and the
\* rest of the flow is not run.
ReportFails(u) ==
  LET p == responder[<<u, "normal">>]  IN
  /\ finding[u] = "none" /\ PollerFree /\ ServiceOpen
  /\ u \in joined
  /\ p # Nobody
  /\ ~CanRelease(p)
  /\ reported' = [reported EXCEPT ![u] = p]
  /\ UNCHANGED <<status, preference, responder, held, reserved, excluded,
                 people, closed, selections, find>>
-----------------------------------------------------------------------------
(* The second half: reserve_ranked, the outcome event and the commit.      *)

\* Mutation of KeptReserved: the counter is not given back.
KeptReservedHeld(u) == reserved

\* What the tables hold once u's own release and exclusion are written.
KeptResponder(u, q) == IF released[u] = Nobody THEN responder[q] ELSE Nobody
KeptHeld(u, q) == held \ {<<released[u], q>>}
KeptReserved(u) ==
  [p \in Profile |-> IF p = released[u] THEN reserved[p] - 1 ELSE reserved[p]]
KeptExcluded(u, q) ==
  IF released[u] = Nobody THEN excluded ELSE excluded \cup {<<q, released[u]>>}

\* Mutation of Takeable: capacity is trusted from the candidate query.
TakeableUnguarded(u, q) ==
  {p \in eligible[u] : /\ KeptResponder(u, q) = Nobody
                       /\ NotExcluded(q, p)
                       /\ <<p, q>> \notin KeptHeld(u, q)}

\* Candidates the guarded update still accepts, in whatever order they were
\* ranked; a request with an active assignment gets none.
Takeable(u, q) ==
  {p \in eligible[u] : /\ KeptResponder(u, q) = Nobody
                       /\ NotExcluded(q, p)
                       /\ KeptReserved(u)[p] < Capacity[p]
                       /\ <<p, q>> \notin KeptHeld(u, q)}

\* A released request is pending again; a new one starts pending.
KeptStatus(u, q) ==
  IF status[q] = "absent" \/ released[u] # Nobody THEN "pending" ELSE status[q]

KeptReported(u) ==
  IF released[u] = Nobody THEN reported ELSE [reported EXCEPT ![u] = released[u]]

EndFind(u) ==
  /\ finding' = [finding EXCEPT ![u] = "none"]
  /\ eligible' = [eligible EXCEPT ![u] = {}]
  /\ released' = [released EXCEPT ![u] = Nobody]

\* A candidate is reserved.  match_found is offered only while the profile can
\* still be reached; if not, releasing it raises and the reservation stays.
Reserve(u, p) ==
  LET q == <<u, finding[u]>>  IN
  /\ finding[u] # "none"
  /\ p \in Takeable(u, q)
  /\ responder' = [responder EXCEPT ![q] = p]
  /\ held' = KeptHeld(u, q) \cup {<<p, q>>}
  /\ reserved' = [KeptReserved(u) EXCEPT ![p] = @ + 1]
  /\ excluded' = KeptExcluded(u, q)
  /\ status' = [status EXCEPT ![q] = "reserved"]
  /\ offered' = IF p \in online /\ finding[u] = "normal" /\ released[u] = Nobody
                THEN offered \cup {u} ELSE offered
  /\ reported' = KeptReported(u)
  /\ EndFind(u)
  /\ UNCHANGED <<preference, people, closed, joined>>

\* The find commits what it did before the reservation, and no more.
KeepOnly(u, q) ==
  /\ responder' = [responder EXCEPT ![q] = KeptResponder(u, q)]
  /\ held' = KeptHeld(u, q)
  /\ reserved' = KeptReserved(u)
  /\ excluded' = KeptExcluded(u, q)
  /\ status' = [status EXCEPT ![q] = KeptStatus(u, q)]
  /\ reported' = KeptReported(u)
  /\ EndFind(u)
  /\ UNCHANGED <<preference, people, closed, selections>>

\* human_match.not_found or safety_match.not_found.
NotFound(u) ==
  LET q == <<u, finding[u]>>  IN
  /\ finding[u] # "none"
  /\ Takeable(u, q) = {}
  /\ KeepOnly(u, q)

\* The ranker's answer is missing or invalid; the runner reports an error.
RankingFails(u) ==
  /\ finding[u] # "none"
  /\ eligible[u] # {}
  /\ KeepOnly(u, <<u, finding[u]>>)

\* The runtime dies, or the commit fails: nothing of the find remains.
Abort(u) ==
  /\ finding[u] # "none"
  /\ EndFind(u)
  /\ UNCHANGED <<status, preference, responder, held, reserved, excluded,
                 people, closed, selections, reported>>
-----------------------------------------------------------------------------
(* join_group and join_me: confirm_human_match, then the contact.  The     *)
(* selection moves on whether or not the confirmation was accepted.        *)

Join(u, m) ==
  LET q == <<u, "normal">>  IN
  /\ finding[u] = "none" /\ PollerFree /\ ServiceOpen
  /\ u \in offered
  /\ offered' = offered \ {u}
  /\ joined' = joined \cup {u}
  /\ IF responder[q] # Nobody /\ preference[q] \in {"none", m}
       THEN /\ status' = [status EXCEPT ![q] = "confirmed"]
            /\ preference' = [preference EXCEPT ![q] = m]
       ELSE UNCHANGED <<status, preference>>
  /\ UNCHANGED <<responder, held, reserved, excluded, people, closed, reported, find>>

\* end_interactions: claim_interaction_closure, expire_service_bound and
\* release_service_bound under the service's row lock.
Assigned == {q \in Requester \X {"normal"} : responder[q] # Nobody}

Close ==
  /\ ServiceUnlocked
  /\ ~closed
  /\ closed' = TRUE
  /\ offered' = {} /\ joined' = {}
  /\ responder' = [q \in Request |-> IF q \in Assigned THEN Nobody ELSE responder[q]]
  /\ status' = [q \in Request |-> IF q \in Assigned THEN "resolved" ELSE status[q]]
  /\ held' = {h \in held : h[2] \notin Assigned}
  /\ reserved' = [p \in Profile |->
       reserved[p] - Cardinality({q \in Assigned : <<p, q>> \in held})]
  /\ present' = {}
  /\ UNCHANGED <<preference, excluded, online, reported, find>>

\* Of a leader's attendance nothing depends here (EligibleSafety).
People(p) == Login(p) \/ Logout(p) \/ (p \in Server /\ (Arrive(p) \/ Leave(p)))

Next ==
  \/ \E p \in Profile : People(p)
  \/ \E u \in Requester :
       \/ AskNormal(u) \/ AskSafety(u) \/ Report(u) \/ ReportFails(u)
       \/ \E p \in Profile : Reserve(u, p)
       \/ NotFound(u) \/ RankingFails(u) \/ Abort(u)
       \/ \E m \in Preference : Join(u, m)
  \/ Close

Spec == Init /\ [][Next]_vars
-----------------------------------------------------------------------------
TypeOK ==
  /\ status \in [Request -> Status]
  /\ preference \in [Request -> Preference \cup {"none"}]
  /\ responder \in [Request -> Profile \cup {Nobody}]
  /\ held \subseteq Profile \X Request
  /\ reserved \in [Profile -> Int]
  /\ excluded \subseteq Request \X Profile
  /\ online \subseteq Profile /\ present \subseteq Profile
  /\ closed \in BOOLEAN
  /\ offered \subseteq Requester /\ joined \subseteq Requester
  /\ reported \in [Requester -> Profile \cup {Nobody}]
  /\ finding \in [Requester -> Kind \cup {"none"}]
  /\ eligible \in [Requester -> SUBSET Profile]
  /\ released \in [Requester -> Profile \cup {Nobody}]

HeldBy(p) == {q \in Request : <<p, q>> \in held}

\* The capacity counter agrees with the reservation ledger and never exceeds
\* the profile's capacity, with concurrent finds reading it before their ranker
\* answers (reserve_ranked's guarded update).
CapacityLedger ==
  \A p \in Profile : /\ reserved[p] = Cardinality(HeldBy(p))
                     /\ reserved[p] <= Capacity[p]

\* Every active assignment has exactly its own reservation, so no capacity is
\* held for nobody and nobody is assigned without capacity.
ReservationsMatchAssignments ==
  \A q \in Request, p \in Profile : <<p, q>> \in held <=> responder[q] = p

\* A request says reserved or confirmed exactly while somebody is assigned to
\* it, whichever of the release paths it went through.
StatusMatchesAssignment ==
  \A q \in Request : status[q] \in {"reserved", "confirmed"} <=> responder[q] # Nobody

\* A responder excluded from a request is never assigned to it again.
ExcludedNeverAssigned ==
  \A q \in Request : <<q, responder[q]>> \notin excluded

\* Safety requests never fall back to an ordinary server, normal ones never
\* take a leader or staff.
PoolsStayApart ==
  \A u \in Requester : /\ responder[<<u, "normal">>] \notin Helper
                       /\ responder[<<u, "safety">>] \notin Server

\* Once the service's interactions are closed no normal request holds capacity,
\* whatever find was waiting for its ranker when they closed.
ClosureReturnsCapacity ==
  closed => \A u \in Requester : responder[<<u, "normal">>] = Nobody

\* A resolved request stays resolved.
ResolvedIsFinal ==
  [][\A q \in Request : status[q] = "resolved" => status'[q] = "resolved"]_vars

\* A find is consistent with the row locks it holds: what it has released is
\* still its own request's responder in the committed tables, its candidates
\* come from its own pool, and none is open on a closed service.
FindsConsistent ==
  \A u \in Requester :
    /\ finding[u] = "none" => eligible[u] = {} /\ released[u] = Nobody
    /\ finding[u] = "normal" => eligible[u] \subseteq Server /\ ~closed
    /\ finding[u] = "safety" => eligible[u] \subseteq Helper
    /\ released[u] # Nobody =>
         /\ finding[u] = "normal"
         /\ responder[<<u, "normal">>] = released[u]
         /\ released[u] \notin eligible[u]

ResolvedOnlyByClosure ==
  \A q \in Request : status[q] = "resolved" => closed /\ q[2] = "normal"

MatchingInvariant ==
  /\ TypeOK
  /\ CapacityLedger
  /\ ReservationsMatchAssignments
  /\ StatusMatchesAssignment
  /\ ExcludedNeverAssigned
  /\ PoolsStayApart
  /\ ClosureReturnsCapacity
  /\ FindsConsistent
  /\ ResolvedOnlyByClosure

\* Reporting a responder replaces it: afterwards the requester has another one
\* or none, never the same ("excludes them from the next attempt").
ReportedIsReplaced ==
  \A u \in Requester :
    reported[u] # Nobody => responder[<<u, "normal">>] # reported[u]

=============================================================================
