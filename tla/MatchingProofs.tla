--------------------------- MODULE MatchingProofs ---------------------------
(***************************************************************************)
(* For every finite set of requesters, every set of profiles and every     *)
(* capacity: the counter agrees with the reservation ledger and respects   *)
(* the capacity, excluded responders stay away, the pools stay apart and a *)
(* closed service holds nobody's capacity.                                 *)
(***************************************************************************)
EXTENDS Matching, FiniteSetTheorems, TLAPS

USE MatchingAssumption

tables == <<status, responder, held, reserved, excluded, closed>>

\* Requests are finitely many, and so are those a profile's capacity is held by.
LEMMA HeldByFinite ==
  ASSUME NEW S \in SUBSET Request
  PROVE  IsFiniteSet(S) /\ Cardinality(S) \in Nat
  <1>1. IsFiniteSet(Kind)
    <2>1. IsFiniteSet({"normal"})
      BY FS_Singleton
    <2>2. IsFiniteSet({"normal"} \cup {"safety"})
      BY <2>1, FS_AddElement
    <2>3. Kind = {"normal"} \cup {"safety"}
      BY DEF Kind
    <2> QED BY <2>2, <2>3
  <1>2. IsFiniteSet(Request)
    BY <1>1, FS_Product DEF Request
  <1> QED BY <1>2, FS_Subset, FS_CardinalityType

\* Initially nothing is requested and nothing is held.
LEMMA InitInvariant == Init => MatchingInvariant
  <1> SUFFICES ASSUME Init PROVE MatchingInvariant
    OBVIOUS
  <1>1. TypeOK
    <2>1. status \in [Request -> Status] /\ preference \in [Request -> Preference \cup {"none"}]
      BY DEF Init, Status
    <2>2. finding \in [Requester -> Kind \cup {"none"}] /\ closed \in BOOLEAN
      BY DEF Init
    <2> QED BY <2>1, <2>2 DEF Init, TypeOK
  <1>2. CapacityLedger
    <2>1. \A p \in Profile : HeldBy(p) = {}
      BY DEF Init, HeldBy
    <2>2. \A p \in Profile : reserved[p] = 0 /\ Capacity[p] \in Nat
      BY DEF Init
    <2>3. Cardinality({}) = 0
      BY FS_EmptySet
    <2> QED BY <2>1, <2>2, <2>3 DEF CapacityLedger
  <1>3. ReservationsMatchAssignments /\ StatusMatchesAssignment /\ ExcludedNeverAssigned
    BY DEF Init, ReservationsMatchAssignments, StatusMatchesAssignment,
           ExcludedNeverAssigned
  <1>4. PoolsStayApart /\ ClosureReturnsCapacity /\ FindsConsistent /\ ResolvedOnlyByClosure
    BY DEF Init, PoolsStayApart, ClosureReturnsCapacity, FindsConsistent,
           ResolvedOnlyByClosure, Request, Kind, Profile
  <1> QED BY <1>1, <1>2, <1>3, <1>4 DEF MatchingInvariant

\* A step that leaves the tables alone only has to keep the finds consistent.
LEMMA TablesUntouched ==
  ASSUME MatchingInvariant, UNCHANGED tables, TypeOK', FindsConsistent'
  PROVE  MatchingInvariant'
  <1> USE DEF tables, MatchingInvariant
  <1>1. CapacityLedger'
    BY DEF CapacityLedger, HeldBy
  <1>2. ReservationsMatchAssignments' /\ StatusMatchesAssignment' /\ ExcludedNeverAssigned'
    BY DEF ReservationsMatchAssignments, StatusMatchesAssignment, ExcludedNeverAssigned
  <1>3. PoolsStayApart' /\ ClosureReturnsCapacity' /\ ResolvedOnlyByClosure'
    BY DEF PoolsStayApart, ClosureReturnsCapacity, ResolvedOnlyByClosure
  <1> QED BY <1>1, <1>2, <1>3

\* Logins, attendance and failed reports touch neither tables nor finds.
LEMMA PeopleStep ==
  ASSUME MatchingInvariant, NEW p \in Profile, People(p)
  PROVE  MatchingInvariant'
  <1> USE DEF People, Login, Logout, Arrive, Leave, ServiceOpen
  <1>1. TypeOK'
    BY DEF MatchingInvariant, TypeOK, selections, find
  <1>2. FindsConsistent'
    BY DEF MatchingInvariant, FindsConsistent, selections, find
  <1> QED BY <1>1, <1>2, TablesUntouched DEF tables, selections, find

LEMMA ReportFailsStep ==
  ASSUME MatchingInvariant, NEW u \in Requester, ReportFails(u)
  PROVE  MatchingInvariant'
  <1>1. TypeOK'
    BY DEF MatchingInvariant, TypeOK, ReportFails, people, selections, find, Request, Kind
  <1>2. FindsConsistent'
    BY DEF MatchingInvariant, FindsConsistent, ReportFails, find
  <1> QED BY <1>1, <1>2, TablesUntouched DEF tables, ReportFails

\* A find that begins reads candidates of its own pool, on an open service.
LEMMA AskStep ==
  ASSUME MatchingInvariant, NEW u \in Requester, AskNormal(u) \/ AskSafety(u)
  PROVE  MatchingInvariant'
  <1> USE DEF AskNormal, AskSafety, EligibleNormal, EligibleSafety, ServiceOpen
  <1>1. TypeOK'
    BY DEF MatchingInvariant, TypeOK, people, selections, Kind, Profile
  <1>2. FindsConsistent'
    <2> SUFFICES ASSUME NEW v \in Requester
                 PROVE  /\ finding'[v] = "none" => eligible'[v] = {} /\ released'[v] = Nobody
                        /\ finding'[v] = "normal" => eligible'[v] \subseteq Server /\ ~closed'
                        /\ finding'[v] = "safety" => eligible'[v] \subseteq Helper
                        /\ released'[v] # Nobody =>
                             /\ finding'[v] = "normal"
                             /\ responder'[<<v, "normal">>] = released'[v]
                             /\ released'[v] \notin eligible'[v]
      BY DEF FindsConsistent
    <2>1. CASE v = u
      <3>1. released'[v] = Nobody /\ finding'[v] \in {"normal", "safety"}
        BY <2>1 DEF MatchingInvariant, TypeOK, FindsConsistent
      <3>2. CASE AskNormal(u)
        BY <2>1, <3>1, <3>2 DEF MatchingInvariant, TypeOK
      <3>3. CASE AskSafety(u)
        BY <2>1, <3>1, <3>3 DEF MatchingInvariant, TypeOK
      <3> QED BY <3>2, <3>3
    <2>2. CASE v # u
      BY <2>2 DEF MatchingInvariant, TypeOK, FindsConsistent
    <2> QED BY <2>1, <2>2
  <1> QED BY <1>1, <1>2, TablesUntouched DEF tables

LEMMA ReportStep ==
  ASSUME MatchingInvariant, NEW u \in Requester, Report(u)
  PROVE  MatchingInvariant'
  <1> USE DEF Report, EligibleNormal, ServiceOpen
  <1>1. TypeOK'
    BY DEF MatchingInvariant, TypeOK, people, selections, Kind, Profile, Request
  <1>2. FindsConsistent'
    BY DEF MatchingInvariant, TypeOK, FindsConsistent
  <1> QED BY <1>1, <1>2, TablesUntouched DEF tables

LEMMA AbortStep ==
  ASSUME MatchingInvariant, NEW u \in Requester, Abort(u)
  PROVE  MatchingInvariant'
  <1> USE DEF Abort, EndFind
  <1>1. TypeOK'
    BY DEF MatchingInvariant, TypeOK, people, selections, Kind
  <1>2. FindsConsistent'
    BY DEF MatchingInvariant, TypeOK, FindsConsistent
  <1> QED BY <1>1, <1>2, TablesUntouched DEF tables

\* A confirmation needs an active assignment, so the status stays truthful.
LEMMA JoinStep ==
  ASSUME MatchingInvariant, NEW u \in Requester, NEW m \in Preference, Join(u, m)
  PROVE  MatchingInvariant'
  <1> DEFINE q == <<u, "normal">>
  <1> USE DEF MatchingInvariant
  <1>0. q \in Request
    BY DEF Request, Kind
  <1>1. TypeOK'
    BY <1>0 DEF TypeOK, Join, people, find, Status
  <1>2. CapacityLedger' /\ ReservationsMatchAssignments' /\ ExcludedNeverAssigned'
          /\ PoolsStayApart' /\ ClosureReturnsCapacity'
    BY DEF Join, CapacityLedger, HeldBy, ReservationsMatchAssignments,
           ExcludedNeverAssigned, PoolsStayApart, ClosureReturnsCapacity
  <1>3. StatusMatchesAssignment' /\ ResolvedOnlyByClosure'
    BY <1>0 DEF Join, TypeOK, StatusMatchesAssignment, ResolvedOnlyByClosure
  <1>4. FindsConsistent'
    BY DEF Join, FindsConsistent, find
  <1> QED BY <1>1, <1>2, <1>3, <1>4

\* What a find leaves behind before it reserves: its own release and exclusion
\* keep the ledger, the counter and the assignments in step with one another.
LEMMA KeptTables ==
  ASSUME MatchingInvariant, NEW u \in Requester, finding[u] # "none",
         NEW q, q = <<u, finding[u]>>
  PROVE  /\ q \in Request
         /\ KeptResponder(u, q) \in Profile \cup {Nobody}
         /\ KeptHeld(u, q) \subseteq Profile \X Request
         /\ \A p \in Profile : <<p, q>> \in KeptHeld(u, q) <=> KeptResponder(u, q) = p
         /\ \A r \in Request, p \in Profile :
              r # q => (<<p, r>> \in KeptHeld(u, q) <=> <<p, r>> \in held)
  <1> USE DEF MatchingInvariant, FindsConsistent
  <1>1. finding[u] \in Kind /\ q \in Request
    BY DEF TypeOK, Request
  <1>2. responder[q] \in Profile \cup {Nobody} /\ released[u] \in Profile \cup {Nobody}
    BY <1>1 DEF TypeOK
  <1>3. \A p \in Profile : <<p, q>> \in held <=> responder[q] = p
    BY <1>1 DEF ReservationsMatchAssignments
  <1>4. KeptHeld(u, q) \subseteq held /\ held \subseteq Profile \X Request
    BY DEF KeptHeld, TypeOK
  <1>5. CASE released[u] = Nobody
    BY <1>1, <1>2, <1>3, <1>4, <1>5 DEF KeptHeld, KeptResponder
  <1>6. CASE released[u] # Nobody
    <2>1. responder[q] = released[u] /\ released[u] \in Profile
      BY <1>2, <1>6
    <2> QED BY <1>1, <1>2, <1>3, <1>4, <1>6, <2>1 DEF KeptHeld, KeptResponder
  <1> QED BY <1>5, <1>6

\* The counter a find leaves behind counts the reservations it leaves behind.
LEMMA KeptCounter ==
  ASSUME MatchingInvariant, NEW u \in Requester, finding[u] # "none",
         NEW q, q = <<u, finding[u]>>, NEW p \in Profile
  PROVE  LET left == {r \in Request : <<p, r>> \in KeptHeld(u, q)} IN
         /\ IsFiniteSet(left) /\ Cardinality(left) \in Nat
         /\ KeptReserved(u)[p] = Cardinality(left)
         /\ KeptReserved(u)[p] <= Capacity[p]
  <1> DEFINE left == {r \in Request : <<p, r>> \in KeptHeld(u, q)}
  <1> USE DEF MatchingInvariant, FindsConsistent
  <1>1. IsFiniteSet(left) /\ Cardinality(left) \in Nat
    BY HeldByFinite
  <1>2. /\ reserved[p] = Cardinality(HeldBy(p)) /\ reserved[p] <= Capacity[p]
        /\ IsFiniteSet(HeldBy(p)) /\ Cardinality(HeldBy(p)) \in Nat
    BY HeldByFinite DEF CapacityLedger, HeldBy
  <1>3. q \in Request /\ (<<p, q>> \in held <=> responder[q] = p)
    BY KeptTables DEF ReservationsMatchAssignments
  <1>4. Capacity[p] \in Nat
    OBVIOUS
  <1>5. CASE p = released[u]
    <2>1. responder[q] = p
      BY <1>5
    <2>2. left = HeldBy(p) \ {q} /\ q \in HeldBy(p)
      BY <1>3, <1>5, <2>1 DEF KeptHeld, HeldBy
    <2>3. Cardinality(left) = Cardinality(HeldBy(p)) - 1
      <3> HIDE DEF left
      <3>1. Cardinality(HeldBy(p) \ {q}) = Cardinality(HeldBy(p)) - 1
        BY <1>2, <2>2, FS_RemoveElement
      <3> QED BY <2>2, <3>1
    <2>4. KeptReserved(u)[p] = reserved[p] - 1
      BY <1>5 DEF KeptReserved
    <2> QED BY <1>1, <1>2, <1>4, <2>3, <2>4
  <1>6. CASE p # released[u]
    <2>1. left = HeldBy(p)
      BY <1>6 DEF KeptHeld, HeldBy
    <2>2. KeptReserved(u)[p] = reserved[p]
      BY <1>6 DEF KeptReserved
    <2> QED BY <1>1, <1>2, <2>1, <2>2
  <1> QED BY <1>5, <1>6

\* Ending one find disturbs no other: only the ending one's request may change.
LEMMA EndFindConsistent ==
  ASSUME MatchingInvariant, NEW u \in Requester, finding[u] # "none", EndFind(u),
         UNCHANGED closed,
         \A r \in Request : r # <<u, finding[u]>> => responder'[r] = responder[r]
  PROVE  FindsConsistent'
  <1> USE DEF MatchingInvariant, EndFind
  <1> SUFFICES ASSUME NEW v \in Requester
               PROVE  /\ finding'[v] = "none" => eligible'[v] = {} /\ released'[v] = Nobody
                      /\ finding'[v] = "normal" => eligible'[v] \subseteq Server /\ ~closed'
                      /\ finding'[v] = "safety" => eligible'[v] \subseteq Helper
                      /\ released'[v] # Nobody =>
                           /\ finding'[v] = "normal"
                           /\ responder'[<<v, "normal">>] = released'[v]
                           /\ released'[v] \notin eligible'[v]
    BY DEF FindsConsistent
  <1>1. CASE v = u
    BY <1>1 DEF TypeOK
  <1>2. CASE v # u
    <2>1. <<v, "normal">> \in Request /\ <<v, "normal">> # <<u, finding[u]>>
      BY <1>2 DEF Request, Kind
    <2>2. /\ finding'[v] = finding[v] /\ eligible'[v] = eligible[v]
          /\ released'[v] = released[v]
      BY <1>2 DEF TypeOK
    <2> QED BY <2>1, <2>2 DEF FindsConsistent
  <1> QED BY <1>1, <1>2

\* A find that ends without a reservation keeps only its release.
LEMMA KeepOnlyStep ==
  ASSUME MatchingInvariant, NEW u \in Requester, finding[u] # "none",
         NEW q, q = <<u, finding[u]>>, KeepOnly(u, q)
  PROVE  MatchingInvariant'
  <1> USE DEF MatchingInvariant, KeepOnly
  <1>1. /\ q \in Request
        /\ KeptResponder(u, q) \in Profile \cup {Nobody}
        /\ KeptHeld(u, q) \subseteq Profile \X Request
        /\ \A p \in Profile : <<p, q>> \in KeptHeld(u, q) <=> KeptResponder(u, q) = p
        /\ \A r \in Request, p \in Profile :
             r # q => (<<p, r>> \in KeptHeld(u, q) <=> <<p, r>> \in held)
    BY KeptTables
  <1>2. /\ responder' = [responder EXCEPT ![q] = KeptResponder(u, q)]
        /\ responder'[q] = KeptResponder(u, q)
        /\ \A r \in Request : r # q => responder'[r] = responder[r]
    BY <1>1 DEF TypeOK
  <1>3. CapacityLedger'
    <2> SUFFICES ASSUME NEW p \in Profile
                 PROVE  reserved'[p] = Cardinality(HeldBy(p)') /\ reserved'[p] <= Capacity[p]
      BY DEF CapacityLedger
    <2> DEFINE left == {r \in Request : <<p, r>> \in KeptHeld(u, q)}
    <2>1. KeptReserved(u)[p] = Cardinality(left) /\ KeptReserved(u)[p] <= Capacity[p]
      BY KeptCounter
    <2>2. HeldBy(p)' = left
      BY DEF HeldBy
    <2>3. reserved' = KeptReserved(u)
      OBVIOUS
    <2> HIDE DEF left, MatchingInvariant, KeepOnly
    <2> QED BY <2>1, <2>2, <2>3
  <1>4. ReservationsMatchAssignments'
    BY <1>1, <1>2 DEF ReservationsMatchAssignments
  <1>5. StatusMatchesAssignment' /\ ResolvedOnlyByClosure' /\ status' \in [Request -> Status]
    <2>1. status[q] \in Status /\ (status[q] = "absent" => responder[q] = Nobody)
      BY <1>1 DEF TypeOK, StatusMatchesAssignment
    <2>2. KeptStatus(u, q) \in Status
      BY <2>1 DEF KeptStatus, Status
    <2>3. KeptStatus(u, q) \in {"reserved", "confirmed"} <=> KeptResponder(u, q) # Nobody
      BY <1>1, <2>1 DEF KeptStatus, KeptResponder, StatusMatchesAssignment
    <2>4. KeptStatus(u, q) = "resolved" => status[q] = "resolved"
      BY DEF KeptStatus
    <2>5. status'[q] = KeptStatus(u, q) /\ \A r \in Request : r # q => status'[r] = status[r]
      BY <1>1 DEF TypeOK
    <2> QED
      BY <1>1, <1>2, <2>2, <2>3, <2>4, <2>5
      DEF TypeOK, StatusMatchesAssignment, ResolvedOnlyByClosure
  <1>6. ExcludedNeverAssigned'
    BY <1>1, <1>2 DEF ExcludedNeverAssigned, KeptExcluded, KeptResponder, TypeOK
  <1>7. PoolsStayApart' /\ ClosureReturnsCapacity'
    <2>1. \A r \in Request : responder'[r] \in {responder[r], Nobody}
      BY <1>1, <1>2 DEF KeptResponder
    <2>2. \A v \in Requester : <<v, "normal">> \in Request /\ <<v, "safety">> \in Request
      BY DEF Request, Kind
    <2> QED BY <2>1, <2>2 DEF PoolsStayApart, ClosureReturnsCapacity, Profile
  <1>8. FindsConsistent'
    BY <1>2, EndFindConsistent
  <1>9. TypeOK'
    <2>1. /\ responder' \in [Request -> Profile \cup {Nobody}]
          /\ held' \subseteq Profile \X Request
          /\ excluded' \subseteq Request \X Profile
      BY <1>1 DEF TypeOK, KeptExcluded
    <2>2. reserved' \in [Profile -> Int]
      BY DEF TypeOK, KeptReserved
    <2>3. reported' \in [Requester -> Profile \cup {Nobody}]
      BY DEF TypeOK, KeptReported
    <2>4. /\ finding' \in [Requester -> Kind \cup {"none"}]
          /\ eligible' \in [Requester -> SUBSET Profile]
          /\ released' \in [Requester -> Profile \cup {Nobody}]
      BY DEF TypeOK, EndFind
    <2> QED BY <1>5, <2>1, <2>2, <2>3, <2>4 DEF TypeOK, people, selections
  <1> QED BY <1>3, <1>4, <1>5, <1>6, <1>7, <1>8, <1>9

\* A reservation takes one place of a candidate that still has one.
LEMMA ReserveStep ==
  ASSUME MatchingInvariant, NEW u \in Requester, NEW p \in Profile, Reserve(u, p)
  PROVE  MatchingInvariant'
  <1> DEFINE q == <<u, finding[u]>>
  <1> USE DEF MatchingInvariant
  <1>0. /\ finding[u] # "none" /\ p \in Takeable(u, q)
        /\ responder' = [responder EXCEPT ![q] = p]
        /\ held' = KeptHeld(u, q) \cup {<<p, q>>}
        /\ reserved' = [KeptReserved(u) EXCEPT ![p] = @ + 1]
        /\ excluded' = KeptExcluded(u, q)
        /\ status' = [status EXCEPT ![q] = "reserved"]
        /\ closed' = closed
    BY DEF Reserve
  <1>1. /\ q \in Request
        /\ KeptHeld(u, q) \subseteq Profile \X Request
        /\ \A x \in Profile : <<x, q>> \in KeptHeld(u, q) <=> KeptResponder(u, q) = x
        /\ \A r \in Request, x \in Profile :
             r # q => (<<x, r>> \in KeptHeld(u, q) <=> <<x, r>> \in held)
    BY <1>0, KeptTables
  <1>2. /\ responder'[q] = p /\ p # Nobody
        /\ \A r \in Request : r # q => responder'[r] = responder[r]
    BY <1>0, <1>1 DEF TypeOK
  <1>3. /\ p \in eligible[u] /\ KeptResponder(u, q) = Nobody
        /\ KeptReserved(u)[p] < Capacity[p] /\ <<p, q>> \notin KeptHeld(u, q)
        /\ NotExcluded(q, p)
    BY <1>0 DEF Takeable
  <1>4. finding[u] \in Kind
    BY <1>0 DEF TypeOK
  <1>5. CapacityLedger'
    <2> SUFFICES ASSUME NEW x \in Profile
                 PROVE  reserved'[x] = Cardinality(HeldBy(x)') /\ reserved'[x] <= Capacity[x]
      BY DEF CapacityLedger
    <2> DEFINE left == {r \in Request : <<x, r>> \in KeptHeld(u, q)}
    <2>1. /\ IsFiniteSet(left) /\ Cardinality(left) \in Nat
          /\ KeptReserved(u)[x] = Cardinality(left)
          /\ KeptReserved(u)[x] <= Capacity[x]
      BY <1>0, KeptCounter
    <2>2. Capacity[x] \in Nat
      OBVIOUS
    <2>3. CASE x = p
      <3>1. HeldBy(x)' = left \cup {q} /\ q \notin left
        BY <1>0, <1>1, <1>3, <2>3 DEF HeldBy
      <3>2. reserved'[x] = KeptReserved(u)[x] + 1
        BY <1>0, <2>3 DEF KeptReserved
      <3>3. Cardinality(left \cup {q}) = Cardinality(left) + 1
        <4> HIDE DEF left, q
        <4> QED BY <2>1, <3>1, FS_AddElement
      <3> HIDE DEF left
      <3>4. KeptReserved(u)[x] < Capacity[x]
        BY <1>3, <2>3
      <3> QED BY <2>1, <2>2, <3>1, <3>2, <3>3, <3>4
    <2>4. CASE x # p
      <3>1. HeldBy(x)' = left
        BY <1>0, <2>4 DEF HeldBy
      <3>2. reserved'[x] = KeptReserved(u)[x]
        BY <1>0, <2>4 DEF KeptReserved
      <3> QED BY <2>1, <3>1, <3>2
    <2> QED BY <2>3, <2>4
  <1>6. ReservationsMatchAssignments'
    BY <1>0, <1>1, <1>2, <1>3 DEF ReservationsMatchAssignments
  <1>7. StatusMatchesAssignment' /\ ResolvedOnlyByClosure' /\ status' \in [Request -> Status]
    BY <1>0, <1>1, <1>2 DEF TypeOK, Status, StatusMatchesAssignment, ResolvedOnlyByClosure
  <1>8. ExcludedNeverAssigned'
    <2>1. p # released[u] \/ released[u] = Nobody
      BY <1>3 DEF FindsConsistent
    <2>2. <<q, p>> \notin excluded'
      BY <1>0, <1>2, <1>3, <2>1 DEF KeptExcluded, NotExcluded
    <2>3. \A r \in Request : r # q => <<r, responder[r]>> \notin excluded'
      BY <1>0 DEF KeptExcluded, ExcludedNeverAssigned
    <2> QED BY <1>2, <2>2, <2>3 DEF ExcludedNeverAssigned
  <1>9. PoolsStayApart' /\ ClosureReturnsCapacity'
    <2>1. /\ finding[u] = "normal" => p \notin Helper /\ ~closed
          /\ finding[u] = "safety" => p \notin Server
      BY <1>3 DEF FindsConsistent
    <2>2. \A v \in Requester : <<v, "normal">> \in Request /\ <<v, "safety">> \in Request
      BY DEF Request, Kind
    <2>3. \A r \in Request : r # q => responder'[r] = responder[r]
      BY <1>2
    <2>4. /\ \A v \in Requester :
               /\ responder[<<v, "normal">>] \notin Helper
               /\ responder[<<v, "safety">>] \notin Server
               /\ closed => responder[<<v, "normal">>] = Nobody
          /\ closed' = closed /\ responder'[q] = p
      BY <1>0, <1>2 DEF PoolsStayApart, ClosureReturnsCapacity
    <2>5. \A v \in Requester :
            /\ <<v, "normal">> = q => finding[u] = "normal"
            /\ <<v, "safety">> = q => finding[u] = "safety"
      OBVIOUS
    <2> SUFFICES ASSUME NEW v \in Requester
                 PROVE  /\ responder'[<<v, "normal">>] \notin Helper
                        /\ responder'[<<v, "safety">>] \notin Server
                        /\ closed => responder'[<<v, "normal">>] = Nobody
      BY <2>4 DEF PoolsStayApart, ClosureReturnsCapacity
    <2> HIDE DEF q
    <2>6. /\ responder'[<<v, "normal">>] \notin Helper
          /\ closed => responder'[<<v, "normal">>] = Nobody
      <3>1. CASE <<v, "normal">> = q
        <4>1. responder'[<<v, "normal">>] = p
          BY <2>4, <3>1, Zenon
        <4>2. finding[u] = "normal"
          BY <2>5, <3>1
        <4> QED BY <2>1, <4>1, <4>2
      <3>2. CASE <<v, "normal">> # q
        <4>1. responder'[<<v, "normal">>] = responder[<<v, "normal">>]
          BY <2>2, <2>3, <3>2
        <4> QED BY <2>4, <4>1
      <3> QED BY <3>1, <3>2
    <2>7. responder'[<<v, "safety">>] \notin Server
      <3>1. CASE <<v, "safety">> = q
        <4>1. responder'[<<v, "safety">>] = p
          BY <2>4, <3>1, Zenon
        <4>2. finding[u] = "safety"
          BY <2>5, <3>1
        <4> QED BY <2>1, <4>1, <4>2
      <3>2. CASE <<v, "safety">> # q
        <4>1. responder'[<<v, "safety">>] = responder[<<v, "safety">>]
          BY <2>2, <2>3, <3>2
        <4> QED BY <2>4, <4>1
      <3> QED BY <3>1, <3>2
    <2> QED BY <2>6, <2>7
  <1>10. FindsConsistent'
    <2>1. EndFind(u)
      BY DEF Reserve
    <2> QED BY <1>0, <1>2, <2>1, EndFindConsistent
  <1>11. TypeOK'
    <2>1. /\ responder' \in [Request -> Profile \cup {Nobody}]
          /\ held' \subseteq Profile \X Request
          /\ excluded' \subseteq Request \X Profile
      <3>1. responder' = [responder EXCEPT ![q] = p]
        BY DEF Reserve
      <3>2. responder' \in [Request -> Profile \cup {Nobody}]
        BY <1>0, <1>1, <3>1 DEF TypeOK
      <3>3. held' \subseteq Profile \X Request
        BY <1>0, <1>1 DEF TypeOK
      <3>4. excluded' \subseteq Request \X Profile
        BY <1>0, <1>1 DEF TypeOK, KeptExcluded
      <3> QED BY <3>2, <3>3, <3>4
    <2>2. reserved' \in [Profile -> Int]
      BY <1>0 DEF TypeOK, KeptReserved
    <2>3. reported' \in [Requester -> Profile \cup {Nobody}]
      BY DEF TypeOK, KeptReported, Reserve
    <2>4. /\ finding' \in [Requester -> Kind \cup {"none"}]
          /\ eligible' \in [Requester -> SUBSET Profile]
          /\ released' \in [Requester -> Profile \cup {Nobody}]
          /\ offered' \subseteq Requester
      BY DEF TypeOK, EndFind, Reserve
    <2> QED BY <1>0, <1>7, <2>1, <2>2, <2>3, <2>4 DEF TypeOK, people, Reserve
  <1> QED BY <1>5, <1>6, <1>7, <1>8, <1>9, <1>10, <1>11

\* Closure takes back every reservation of a normal request; no find is open on
\* the service, whose row it locks.
LEMMA CloseStep ==
  ASSUME MatchingInvariant, Close
  PROVE  MatchingInvariant'
  <1> USE DEF MatchingInvariant, Close
  <1>1. Assigned \subseteq Request
    BY DEF Assigned, Request, Kind
  <1>2. \A q \in Request : responder'[q] = IF q \in Assigned THEN Nobody ELSE responder[q]
    OBVIOUS
  <1>3. \A p \in Profile, q \in Request :
          <<p, q>> \in held' <=> <<p, q>> \in held /\ q \notin Assigned
    OBVIOUS
  <1>4. CapacityLedger'
    <2> SUFFICES ASSUME NEW p \in Profile
                 PROVE  reserved'[p] = Cardinality(HeldBy(p)') /\ reserved'[p] <= Capacity[p]
      BY DEF CapacityLedger
    <2> DEFINE back == {q \in Assigned : <<p, q>> \in held}
    <2>1. /\ reserved[p] = Cardinality(HeldBy(p)) /\ reserved[p] <= Capacity[p]
          /\ IsFiniteSet(HeldBy(p)) /\ Cardinality(HeldBy(p)) \in Nat
      BY HeldByFinite DEF CapacityLedger, HeldBy
    <2>2. HeldBy(p) \cap back = back /\ HeldBy(p)' = HeldBy(p) \ back
      BY <1>1, <1>3 DEF HeldBy
    <2>3. reserved'[p] = reserved[p] - Cardinality(back)
      OBVIOUS
    <2>4. IsFiniteSet(back) /\ Cardinality(back) \in Nat
      BY <1>1, HeldByFinite
    <2> HIDE DEF back
    <2>5. Cardinality(HeldBy(p) \ back) = Cardinality(HeldBy(p)) - Cardinality(HeldBy(p) \cap back)
      BY <2>1, FS_Difference
    <2>6. Cardinality(HeldBy(p)') = Cardinality(HeldBy(p)) - Cardinality(back)
      BY <2>2, <2>5
    <2>7. Capacity[p] \in Nat
      OBVIOUS
    <2> QED BY <2>1, <2>3, <2>4, <2>6, <2>7
  <1>5. ReservationsMatchAssignments'
    BY <1>2, <1>3 DEF ReservationsMatchAssignments, Assigned
  <1>6. StatusMatchesAssignment' /\ ResolvedOnlyByClosure' /\ status' \in [Request -> Status]
    BY <1>1, <1>2 DEF TypeOK, Status, StatusMatchesAssignment, ResolvedOnlyByClosure, Assigned
  <1>7. ExcludedNeverAssigned'
    BY <1>2 DEF TypeOK, ExcludedNeverAssigned
  <1>8. PoolsStayApart' /\ ClosureReturnsCapacity'
    <2>1. \A v \in Requester :
            /\ <<v, "normal">> \in Request /\ <<v, "safety">> \in Request
            /\ responder'[<<v, "normal">>] = Nobody
            /\ responder'[<<v, "safety">>] \in {responder[<<v, "safety">>], Nobody}
      BY <1>2 DEF Request, Kind, Assigned
    <2> QED BY <2>1 DEF PoolsStayApart, ClosureReturnsCapacity, Profile
  <1>9. FindsConsistent'
    BY DEF FindsConsistent, ServiceUnlocked, find
  <1>10. TypeOK'
    <2>1. responder' \in [Request -> Profile \cup {Nobody}]
      BY DEF TypeOK
    <2>2. held' \subseteq Profile \X Request
      BY DEF TypeOK
    <2>3. reserved' \in [Profile -> Int]
      <3>1. \A p \in Profile : Cardinality({q \in Assigned : <<p, q>> \in held}) \in Nat
        BY <1>1, HeldByFinite
      <3> QED BY <3>1 DEF TypeOK
    <2> QED BY <1>6, <2>1, <2>2, <2>3 DEF TypeOK, find
  <1> QED BY <1>4, <1>5, <1>6, <1>7, <1>8, <1>9, <1>10

\* One case per action.
LEMMA NextInvariant == MatchingInvariant /\ [Next]_vars => MatchingInvariant'
  <1> SUFFICES ASSUME MatchingInvariant, [Next]_vars PROVE MatchingInvariant'
    OBVIOUS
  <1>1. CASE UNCHANGED vars
    <2>1. TypeOK' /\ FindsConsistent'
      BY <1>1 DEF MatchingInvariant, TypeOK, FindsConsistent, vars
    <2> QED BY <1>1, <2>1, TablesUntouched DEF vars, tables
  <1>2. ASSUME NEW p \in Profile, People(p) PROVE MatchingInvariant'
    BY <1>2, PeopleStep
  <1>3. ASSUME NEW u \in Requester, AskNormal(u) \/ AskSafety(u) PROVE MatchingInvariant'
    BY <1>3, AskStep
  <1>4. ASSUME NEW u \in Requester, Report(u) PROVE MatchingInvariant'
    BY <1>4, ReportStep
  <1>5. ASSUME NEW u \in Requester, ReportFails(u) PROVE MatchingInvariant'
    BY <1>5, ReportFailsStep
  <1>6. ASSUME NEW u \in Requester, NEW p \in Profile, Reserve(u, p) PROVE MatchingInvariant'
    BY <1>6, ReserveStep
  <1>7. ASSUME NEW u \in Requester, NotFound(u) \/ RankingFails(u) PROVE MatchingInvariant'
    BY <1>7, KeepOnlyStep DEF NotFound, RankingFails
  <1>8. ASSUME NEW u \in Requester, Abort(u) PROVE MatchingInvariant'
    BY <1>8, AbortStep
  <1>9. ASSUME NEW u \in Requester, NEW m \in Preference, Join(u, m) PROVE MatchingInvariant'
    BY <1>9, JoinStep
  <1>10. CASE Close
    BY <1>10, CloseStep
  <1> QED
    BY <1>1, <1>2, <1>3, <1>4, <1>5, <1>6, <1>7, <1>8, <1>9, <1>10 DEF Next

\* Every reachable state satisfies the inductive invariant.
THEOREM Invariant == Spec => []MatchingInvariant
  BY InitInvariant, NextInvariant, PTL DEF Spec

\* The tables, the selections and the finds in progress keep their types.
THEOREM TypeCorrect == Spec => []TypeOK
  <1>1. MatchingInvariant => TypeOK
    BY DEF MatchingInvariant
  <1> QED BY <1>1, Invariant, PTL

\* No profile is ever booked beyond its capacity and its counter never drifts
\* from the reservation ledger, for every population and every capacity.
THEOREM CapacityRespected == Spec => []CapacityLedger
  <1>1. MatchingInvariant => CapacityLedger
    BY DEF MatchingInvariant
  <1> QED BY <1>1, Invariant, PTL

\* Every active reservation belongs to exactly the assignment it was made for.
THEOREM LedgerMatchesAssignments == Spec => []ReservationsMatchAssignments
  <1>1. MatchingInvariant => ReservationsMatchAssignments
    BY DEF MatchingInvariant
  <1> QED BY <1>1, Invariant, PTL

\* The request's status and its assignment never disagree.
THEOREM StatusTruthful == Spec => []StatusMatchesAssignment
  <1>1. MatchingInvariant => StatusMatchesAssignment
    BY DEF MatchingInvariant
  <1> QED BY <1>1, Invariant, PTL

\* A responder reported and released is never assigned to that request again.
THEOREM ExclusionHolds == Spec => []ExcludedNeverAssigned
  <1>1. MatchingInvariant => ExcludedNeverAssigned
    BY DEF MatchingInvariant
  <1> QED BY <1>1, Invariant, PTL

\* Servers never answer safety requests, leaders and staff never normal ones.
THEOREM PoolsApart == Spec => []PoolsStayApart
  <1>1. MatchingInvariant => PoolsStayApart
    BY DEF MatchingInvariant
  <1> QED BY <1>1, Invariant, PTL

\* After closure no normal request holds anybody's capacity.
THEOREM ClosureReturns == Spec => []ClosureReturnsCapacity
  <1>1. MatchingInvariant => ClosureReturnsCapacity
    BY DEF MatchingInvariant
  <1> QED BY <1>1, Invariant, PTL

\* A resolved request is normal and its service closed, so nothing reopens it.
LEMMA ResolvedStep ==
  ASSUME MatchingInvariant, [Next]_vars, NEW q \in Request, status[q] = "resolved"
  PROVE  status'[q] = "resolved"
  <1> USE DEF MatchingInvariant
  <1>1. closed /\ q[2] = "normal" /\ responder[q] = Nobody
    BY DEF ResolvedOnlyByClosure, StatusMatchesAssignment, TypeOK
  <1>2. \A u \in Requester : finding[u] # "normal"
    BY <1>1 DEF FindsConsistent
  <1>3. \A u \in Requester : finding[u] # "none" => q # <<u, finding[u]>>
    BY <1>1, <1>2
  <1>4. ASSUME NEW u \in Requester, NEW p \in Profile, Reserve(u, p)
        PROVE  status'[q] = "resolved"
    BY <1>3, <1>4 DEF Reserve, TypeOK
  <1>5. ASSUME NEW u \in Requester, NotFound(u) \/ RankingFails(u)
        PROVE  status'[q] = "resolved"
    BY <1>3, <1>5 DEF NotFound, RankingFails, KeepOnly, TypeOK
  <1>6. ASSUME NEW u \in Requester, NEW m \in Preference, Join(u, m)
        PROVE  status'[q] = "resolved"
    BY <1>1, <1>6 DEF Join, ServiceOpen
  <1>7. CASE Close
    BY <1>1, <1>7 DEF Close
  <1>8. ASSUME UNCHANGED status PROVE status'[q] = "resolved"
    BY <1>8
  <1> QED
    BY <1>4, <1>5, <1>6, <1>7, <1>8
    DEF Next, vars, People, Login, Logout, Arrive, Leave, AskNormal, AskSafety,
        Report, ReportFails, Abort

\* Once resolved by closure a request stays resolved in every later step.
THEOREM ResolvedStays == Spec => ResolvedIsFinal
  <1>1. MatchingInvariant /\ [Next]_vars =>
          [\A q \in Request : status[q] = "resolved" => status'[q] = "resolved"]_vars
    BY ResolvedStep
  <1> QED BY <1>1, Invariant, PTL DEF Spec, ResolvedIsFinal
=============================================================================
