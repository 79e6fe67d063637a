------------------------ MODULE UpdateIngressProofs ------------------------
(***************************************************************************)
(* For every set of runtimes and updates and every pattern of crashes and  *)
(* lost lock sessions: updates take effect exactly once and in order, none *)
(* is skipped, replies are attempted at most once, and the ingress         *)
(* implements the log of UpdateLog.                                        *)
(***************************************************************************)
EXTENDS UpdateIngress, TLAPS

USE IngressAssumption

\* The cursor after a commit of u is above u and not below the old cursor.
LEMMA AdvancedBound ==
  ASSUME NEW u \in UpdateId, offset \in Nat
  PROVE  Advanced(u) \in Nat /\ Advanced(u) > u /\ Advanced(u) >= offset
  BY DEF Advanced

\* Initially nothing has arrived and every runtime is stopped.
LEMMA InitInvariant == Init => IngressInvariant
  BY DEF Init, IngressInvariant, TypeOK, CursorExact, BatchesLeaveNothingBehind,
         OneTransactionPerUpdate, RepliesFollowEffects, EffectsExactlyOnce,
         RepliesAtMostOnce, PC

\* The parts of the invariant are kept by the end of a runtime.
LEMMA EndKeepsInvariant ==
  ASSUME IngressInvariant, NEW r \in Runtime, End(r), faults' \in Nat
  PROVE  IngressInvariant'
  <1> USE DEF End, telegram, database, IngressInvariant
  <1>1. TypeOK'
    BY DEF TypeOK, PC
  <1>2. CursorExact' /\ RepliesFollowEffects' /\ EffectsExactlyOnce' /\ RepliesAtMostOnce'
    BY DEF CursorExact, RepliesFollowEffects, EffectsExactlyOnce, RepliesAtMostOnce
  <1>3. BatchesLeaveNothingBehind'
    BY DEF BatchesLeaveNothingBehind, TypeOK
  <1>4. OneTransactionPerUpdate'
    BY DEF OneTransactionPerUpdate, TypeOK, IsNext
  <1> QED BY <1>1, <1>2, <1>3, <1>4

\* Steps that only move program counters of the loop.
LEMMA LoopStepKeepsInvariant ==
  ASSUME IngressInvariant, NEW r \in Runtime, pc[r] \notin {"dispatching", "sending"},
         pc' = [pc EXCEPT ![r] = "looping"] \/ pc' = [pc EXCEPT ![r] = "polling"]
           \/ pc' = [pc EXCEPT ![r] = "fetching"],
         UNCHANGED <<arrived, database, batch, current, attempts>>,
         queue' \in {queue, Kept(from[r])}, faults' \in Nat,
         lock' \in Runtime \cup {NoRuntime},
         from' \in {from, [from EXCEPT ![r] = offset]}
  PROVE  IngressInvariant'
  <1> USE DEF database, IngressInvariant
  <1>1. TypeOK'
    BY DEF TypeOK, PC, Kept
  <1>2. CursorExact'
    <2>1. \A u \in arrived \ claimed : u \in queue'
      BY DEF CursorExact, TypeOK, Kept
    <2>2. queue' \subseteq arrived /\ \A q \in Runtime : from'[q] <= offset
      BY DEF CursorExact, TypeOK, Kept
    <2> QED BY <2>1, <2>2 DEF CursorExact
  <1>3. BatchesLeaveNothingBehind' /\ RepliesFollowEffects' /\ EffectsExactlyOnce'
          /\ RepliesAtMostOnce'
    BY DEF BatchesLeaveNothingBehind, RepliesFollowEffects, EffectsExactlyOnce,
           RepliesAtMostOnce
  <1>4. OneTransactionPerUpdate'
    BY DEF OneTransactionPerUpdate, TypeOK, IsNext
  <1> QED BY <1>1, <1>2, <1>3, <1>4
\* A new update has a greater identifier than every other one.
LEMMA ArriveKeepsInvariant ==
  ASSUME IngressInvariant, NEW u \in UpdateId, Arrive(u)
  PROVE  IngressInvariant'
  <1> USE DEF Arrive, database, IngressInvariant
  <1>1. TypeOK'
    BY DEF TypeOK
  <1>2. CursorExact'
    <2>1. u \in Nat /\ offset \in Nat /\ offset <= u /\ u \notin claimed
      BY DEF CursorExact, TypeOK
    <2> QED BY <2>1 DEF CursorExact
  <1>3. BatchesLeaveNothingBehind'
    BY DEF BatchesLeaveNothingBehind, TypeOK
  <1>4. RepliesFollowEffects' /\ EffectsExactlyOnce' /\ RepliesAtMostOnce'
          /\ OneTransactionPerUpdate'
    BY DEF RepliesFollowEffects, EffectsExactlyOnce, RepliesAtMostOnce,
           OneTransactionPerUpdate, IsNext
  <1> QED BY <1>1, <1>2, <1>3, <1>4

\* A fetched page leaves behind only updates that are claimed: below the read
\* cursor all are, above it the page is a prefix of what Telegram keeps.
LEMMA FetchKeepsInvariant ==
  ASSUME IngressInvariant, NEW r \in Runtime, Fetch(r)
  PROVE  IngressInvariant'
  <1> USE DEF database, IngressInvariant
  <1> PICK p \in Pages(from[r]) : batch' = [batch EXCEPT ![r] = p]
    BY DEF Fetch
  <1>1. p \subseteq Kept(from[r]) /\ \A u \in p, v \in Kept(from[r]) : v < u => v \in p
    BY DEF Pages
  <1>2. TypeOK'
    BY <1>1 DEF Fetch, TypeOK, PC, Kept
  <1>3. CursorExact'
    <2>1. \A u \in arrived \ claimed : u \in queue'
      BY DEF CursorExact, TypeOK, Kept, Fetch
    <2> QED BY <2>1 DEF CursorExact, Fetch, Kept
  <1>4. BatchesLeaveNothingBehind'
    <2>1. p \subseteq arrived
      BY <1>1 DEF Kept, CursorExact
    <2>2. ASSUME NEW u \in p, NEW v \in arrived, v < u, v \notin p
          PROVE  v \in claimed
      <3>1. v \notin queue \/ ~(v >= from[r])
        BY <1>1, <2>2 DEF Kept
      <3>2. CASE v \notin queue
        BY <3>2 DEF CursorExact
      <3>3. CASE ~(v >= from[r])
        <4>1. v < offset
          BY <3>3 DEF CursorExact, TypeOK
        <4> QED BY <4>1 DEF CursorExact
      <3> QED BY <3>1, <3>2, <3>3
    <2>3. \A q \in Runtime : batch'[q] = p \/ batch'[q] = batch[q]
      BY DEF TypeOK
    <2> QED BY <2>1, <2>2, <2>3 DEF BatchesLeaveNothingBehind, Fetch
  <1>5. RepliesFollowEffects' /\ EffectsExactlyOnce' /\ RepliesAtMostOnce'
    BY DEF Fetch, RepliesFollowEffects, EffectsExactlyOnce, RepliesAtMostOnce
  <1>6. OneTransactionPerUpdate'
    BY DEF Fetch, OneTransactionPerUpdate, TypeOK, IsNext
  <1> QED BY <1>2, <1>3, <1>4, <1>5, <1>6

\* A duplicate moves nothing: its claim says the cursor is already past it.
LEMMA DuplicateKeepsInvariant ==
  ASSUME IngressInvariant, NEW r \in Runtime, NEW u \in UpdateId, Duplicate(r, u)
  PROVE  IngressInvariant' /\ offset' = offset
  <1> USE DEF IngressInvariant, Duplicate, telegram
  <1>1. u \in Nat /\ u \in arrived /\ u < offset /\ offset' = offset
    BY DEF CursorExact, TypeOK, Advanced
  <1>2. TypeOK' /\ CursorExact' /\ RepliesFollowEffects' /\ EffectsExactlyOnce'
          /\ RepliesAtMostOnce'
    BY <1>1 DEF TypeOK, CursorExact, RepliesFollowEffects, EffectsExactlyOnce,
                RepliesAtMostOnce
  <1>3. BatchesLeaveNothingBehind'
    BY DEF BatchesLeaveNothingBehind, TypeOK
  <1>4. OneTransactionPerUpdate'
    BY DEF OneTransactionPerUpdate, TypeOK, IsNext
  <1> QED BY <1>1, <1>2, <1>3, <1>4

\* A claim opens the transaction of the oldest unclaimed update of the batch.
LEMMA ClaimKeepsInvariant ==
  ASSUME IngressInvariant, NEW r \in Runtime, NEW u \in UpdateId, Claim(r, u)
  PROVE  IngressInvariant'
  <1> USE DEF IngressInvariant, Claim, telegram, database
  <1>1. TypeOK'
    BY DEF TypeOK, PC
  <1>2. CursorExact' /\ RepliesFollowEffects' /\ EffectsExactlyOnce' /\ RepliesAtMostOnce'
          /\ BatchesLeaveNothingBehind'
    BY DEF CursorExact, RepliesFollowEffects, EffectsExactlyOnce, RepliesAtMostOnce,
           BatchesLeaveNothingBehind
  <1>3. OneTransactionPerUpdate'
    BY DEF OneTransactionPerUpdate, TypeOK, IsNext, KeyFree
  <1> QED BY <1>1, <1>2, <1>3

\* A commit claims the oldest unclaimed update and moves the cursor just past it.
LEMMA CommitKeepsCursor ==
  ASSUME IngressInvariant, NEW r \in Runtime, NEW u \in UpdateId,
         CommitTogether(r, u), UNCHANGED <<telegram, from>>
  PROVE  /\ CursorExact' /\ BatchesLeaveNothingBehind'
         /\ claimed' \subseteq UpdateId /\ offset' \in Nat /\ offset' >= offset
         /\ batch' \in [Runtime -> SUBSET UpdateId]
         /\ u \in arrived \ claimed
         /\ \A v \in arrived : v < u => v \in claimed
  <1> USE DEF IngressInvariant, CommitTogether, telegram
  <1>1. IsNext(r, u) /\ u \notin claimed /\ u \in arrived /\ u \in Nat
    BY DEF OneTransactionPerUpdate, BatchesLeaveNothingBehind, IsNext
  <1>2. \A v \in arrived : v < u => v \in claimed
    <2>1. \A v \in batch[r] : u <= v /\ v \in Nat
      BY <1>1 DEF IsNext, TypeOK
    <2> QED BY <1>1, <2>1 DEF BatchesLeaveNothingBehind, IsNext
  <1>3. offset' = u + 1 /\ offset' \in Nat /\ offset' >= offset
    BY <1>1 DEF CursorExact, TypeOK, Advanced
  <1>4. \A v \in arrived : v \in claimed' <=> v < offset'
    <2> SUFFICES ASSUME NEW v \in arrived PROVE v \in claimed' <=> v < u + 1
      BY <1>3
    <2>1. v \in Nat
      BY DEF TypeOK
    <2>2. CASE v < u
      BY <1>1, <1>2, <2>1, <2>2
    <2>3. CASE v = u
      BY <1>1, <2>3
    <2>4. CASE u < v
      BY <1>1, <1>3, <2>1, <2>4 DEF CursorExact, TypeOK
    <2> QED BY <1>1, <2>1, <2>2, <2>3, <2>4
  <1>5. CursorExact'
    <2>1. claimed' \subseteq arrived' /\ queue' \subseteq arrived'
            /\ \A v \in arrived' \ claimed' : v \in queue'
      BY <1>1 DEF CursorExact
    <2>2. \A q \in Runtime : from'[q] <= offset'
      BY <1>3 DEF CursorExact, TypeOK
    <2> QED BY <1>3, <1>4, <2>1, <2>2 DEF CursorExact
  <1>6. BatchesLeaveNothingBehind' /\ claimed' \subseteq UpdateId
          /\ batch' \in [Runtime -> SUBSET UpdateId]
    BY DEF BatchesLeaveNothingBehind, TypeOK
  <1> QED BY <1>1, <1>2, <1>3, <1>5, <1>6
\* A commit without presentations: an ignored update, or a silent dispatch.
LEMMA SilentCommitKeepsInvariant ==
  ASSUME IngressInvariant, NEW r \in Runtime, NEW u \in UpdateId,
         CommitTogether(r, u), UNCHANGED <<telegram, from, attempts, owed, faults>>,
         pc' = [pc EXCEPT ![r] = "batch"], lock' = lock,
         current' = [current EXCEPT ![r] = NoUpdate],
         IF u \in Ignored THEN effects' = effects
                          ELSE effects' = [effects EXCEPT ![u] = @ + 1]
  PROVE  IngressInvariant'
  <1> USE DEF IngressInvariant, telegram
  <1>1. CursorExact' /\ BatchesLeaveNothingBehind' /\ claimed' \subseteq UpdateId
          /\ offset' \in Nat /\ batch' \in [Runtime -> SUBSET UpdateId]
          /\ u \notin claimed
    BY CommitKeepsCursor
  <1>2. TypeOK'
    <2>1. effects' \in [UpdateId -> Nat] /\ pc' \in [Runtime -> PC]
            /\ current' \in [Runtime -> UpdateId \cup {NoUpdate}]
      BY DEF TypeOK, PC
    <2> QED BY <1>1, <2>1 DEF TypeOK
  <1>3. EffectsExactlyOnce'
    BY <1>1 DEF CommitTogether, EffectsExactlyOnce, TypeOK
  <1>4. RepliesFollowEffects' /\ RepliesAtMostOnce'
    BY DEF CommitTogether, RepliesFollowEffects, RepliesAtMostOnce
  <1>5. OneTransactionPerUpdate'
    BY DEF CommitTogether, OneTransactionPerUpdate, TypeOK, IsNext
  <1> QED BY <1>1, <1>2, <1>3, <1>4, <1>5

LEMMA CommitIgnoredKeepsInvariant ==
  ASSUME IngressInvariant, NEW r \in Runtime, NEW u \in UpdateId, CommitIgnored(r, u)
  PROVE  IngressInvariant'
  BY SilentCommitKeepsInvariant DEF CommitIgnored, telegram

\* A commit with presentations hands them to the sender.
LEMMA CommitDispatchedKeepsInvariant ==
  ASSUME IngressInvariant, NEW r \in Runtime, NEW u \in UpdateId, CommitDispatched(r, u)
  PROVE  IngressInvariant'
  <1> USE DEF IngressInvariant, telegram
  <1>1. CASE pc' = [pc EXCEPT ![r] = "batch"] /\ UNCHANGED owed
               /\ current' = [current EXCEPT ![r] = NoUpdate]
    BY <1>1, SilentCommitKeepsInvariant DEF CommitDispatched
  <1>2. CASE pc' = [pc EXCEPT ![r] = "sending"] /\ UNCHANGED current
               /\ owed' = owed \cup {u}
    <2>1. CommitTogether(r, u) /\ u \notin Ignored
            /\ effects' = [effects EXCEPT ![u] = @ + 1]
            /\ UNCHANGED <<telegram, lock, from, attempts, faults>>
      BY DEF CommitDispatched
    <2>2. CursorExact' /\ BatchesLeaveNothingBehind' /\ claimed' \subseteq UpdateId
            /\ offset' \in Nat /\ batch' \in [Runtime -> SUBSET UpdateId]
            /\ u \notin claimed
      BY <2>1, CommitKeepsCursor
    <2>3. TypeOK'
      <3>1. effects' \in [UpdateId -> Nat] /\ pc' \in [Runtime -> PC]
        BY <1>2, <2>1 DEF TypeOK, PC
      <3> QED BY <1>2, <2>1, <2>2, <3>1 DEF TypeOK
    <2>4. EffectsExactlyOnce' /\ RepliesFollowEffects'
      BY <1>2, <2>1, <2>2
         DEF CommitTogether, EffectsExactlyOnce, RepliesFollowEffects, TypeOK
    <2>5. u \notin owed /\ attempts[u] = 0
      BY <2>2 DEF RepliesFollowEffects, RepliesAtMostOnce, TypeOK
    <2>6. RepliesAtMostOnce'
      BY <1>2, <2>1 DEF RepliesAtMostOnce
    <2>7. OneTransactionPerUpdate'
      <3>1. current[r] = u /\ claimed' = claimed \cup {u}
              /\ batch' = [batch EXCEPT ![r] = @ \ {u}]
        BY <2>1 DEF CommitTogether
      <3>2. pc'[r] = "sending" /\ \A q \in Runtime \ {r} : pc'[q] = pc[q]
        BY <1>2 DEF TypeOK
      <3>3. ASSUME NEW q \in Runtime, pc'[q] = "dispatching"
            PROVE  /\ IsNext(q, current[q])' /\ current'[q] \notin claimed'
                   /\ \A t \in Runtime \ {q} : pc'[t] = pc'[q] => current'[t] # current'[q]
        <4>1. q # r /\ pc[q] = "dispatching" /\ pc[r] = "dispatching"
          BY <2>1, <3>2, <3>3 DEF CommitTogether
        <4>2. current[q] # u /\ IsNext(q, current[q]) /\ current[q] \notin claimed
          BY <3>1, <4>1 DEF OneTransactionPerUpdate
        <4>3. batch'[q] = batch[q] /\ current' = current
          BY <1>2, <3>1, <4>1 DEF TypeOK
        <4>4. \A t \in Runtime \ {q} : pc'[t] = "dispatching" => current[t] # current[q]
          BY <3>2, <4>1 DEF OneTransactionPerUpdate
        <4> QED BY <3>1, <3>3, <4>2, <4>3, <4>4 DEF IsNext
      <3>4. ASSUME NEW q \in Runtime, pc'[q] = "sending"
            PROVE  /\ current'[q] \in owed' /\ attempts'[current'[q]] = 0
                   /\ \A t \in Runtime \ {q} : pc'[t] = pc'[q] => current'[t] # current'[q]
        <4>1. \A t \in Runtime \ {r} : pc[t] = "sending" => current[t] # u
          BY <2>5 DEF OneTransactionPerUpdate
        <4>2. CASE q = r
          BY <4>1, <4>2, <1>2, <2>1, <2>5, <3>1, <3>2
        <4>3. CASE q # r
          BY <4>1, <4>3, <1>2, <2>1, <3>1, <3>2, <3>4 DEF OneTransactionPerUpdate
        <4> QED BY <4>2, <4>3
      <3> QED BY <3>3, <3>4, <3>2 DEF OneTransactionPerUpdate
    <2> QED BY <2>2, <2>3, <2>4, <2>6, <2>7
  <1> QED BY <1>1, <1>2 DEF CommitDispatched

\* The one attempt at a reply.
LEMMA SendKeepsInvariant ==
  ASSUME IngressInvariant, NEW r \in Runtime, NEW u \in UpdateId, Send(r, u)
  PROVE  IngressInvariant'
  <1> USE DEF IngressInvariant, Send, telegram, database
  <1>1. TypeOK'
    BY DEF TypeOK, PC
  <1>2. CursorExact' /\ BatchesLeaveNothingBehind' /\ RepliesFollowEffects'
          /\ EffectsExactlyOnce'
    BY DEF CursorExact, BatchesLeaveNothingBehind, RepliesFollowEffects, EffectsExactlyOnce
  <1>3. u \in owed /\ attempts[u] = 0
    BY DEF OneTransactionPerUpdate
  <1>4. RepliesAtMostOnce'
    BY <1>3 DEF RepliesAtMostOnce, TypeOK
  <1>5. OneTransactionPerUpdate'
    BY DEF OneTransactionPerUpdate, TypeOK, IsNext
  <1> QED BY <1>1, <1>2, <1>4, <1>5
-----------------------------------------------------------------------------
\* Every step keeps the invariant.
LEMMA NextKeepsInvariant == IngressInvariant /\ [Next]_vars => IngressInvariant'
  <1> SUFFICES ASSUME IngressInvariant, [Next]_vars PROVE IngressInvariant'
    OBVIOUS
  <1> USE DEF telegram, database
  <1>0. TypeOK /\ OneTransactionPerUpdate
    BY DEF IngressInvariant
  <1>1. CASE UNCHANGED vars
    BY <1>1 DEF vars, IngressInvariant, TypeOK, CursorExact, BatchesLeaveNothingBehind,
                OneTransactionPerUpdate, RepliesFollowEffects, EffectsExactlyOnce,
                RepliesAtMostOnce, IsNext
  <1>2. ASSUME NEW u \in UpdateId, Arrive(u) PROVE IngressInvariant'
    BY <1>2, ArriveKeepsInvariant
  <1>3. ASSUME NEW r \in Runtime, LoseSession(r) PROVE IngressInvariant'
    BY <1>3 DEF LoseSession, IngressInvariant, TypeOK, CursorExact,
                BatchesLeaveNothingBehind, OneTransactionPerUpdate, RepliesFollowEffects,
                EffectsExactlyOnce, RepliesAtMostOnce, IsNext
  <1>4. ASSUME NEW r \in Runtime, Start(r) PROVE IngressInvariant'
    BY <1>0, <1>4, LoopStepKeepsInvariant DEF Start, TypeOK
  <1>5. ASSUME NEW r \in Runtime, Stop(r) PROVE IngressInvariant'
    BY <1>0, <1>5, EndKeepsInvariant DEF Stop, TypeOK
  <1>6. ASSUME NEW r \in Runtime, ProbeHealthy(r) PROVE IngressInvariant'
    BY <1>0, <1>6, LoopStepKeepsInvariant DEF ProbeHealthy, TypeOK
  <1>7. ASSUME NEW r \in Runtime, ProbeLost(r) PROVE IngressInvariant'
    BY <1>0, <1>7, EndKeepsInvariant DEF ProbeLost, TypeOK
  <1>8. ASSUME NEW r \in Runtime, ReadOffset(r) PROVE IngressInvariant'
    BY <1>0, <1>8, LoopStepKeepsInvariant DEF ReadOffset, TypeOK
  <1>9. ASSUME NEW r \in Runtime, FetchFails(r) PROVE IngressInvariant'
    BY <1>0, <1>9, LoopStepKeepsInvariant DEF FetchFails, TypeOK
  <1>10. ASSUME NEW r \in Runtime, Fetch(r) PROVE IngressInvariant'
    BY <1>10, FetchKeepsInvariant
  <1>11. ASSUME NEW r \in Runtime, BatchDone(r) PROVE IngressInvariant'
    BY <1>0, <1>11, LoopStepKeepsInvariant DEF BatchDone, TypeOK
  <1>12. ASSUME NEW r \in Runtime, DispatchRaises(r) PROVE IngressInvariant'
    BY <1>0, <1>12, EndKeepsInvariant DEF DispatchRaises, TypeOK
  <1>13. ASSUME NEW r \in Runtime, HandleUpdate(r) PROVE IngressInvariant'
    BY <1>13, DuplicateKeepsInvariant, ClaimKeepsInvariant, CommitIgnoredKeepsInvariant,
       CommitDispatchedKeepsInvariant, SendKeepsInvariant DEF HandleUpdate
  <1> QED BY <1>1, <1>2, <1>3, <1>4, <1>5, <1>6, <1>7, <1>8, <1>9, <1>10, <1>11, <1>12,
             <1>13 DEF Next, Work

\* The claims, the cursor, the batches in memory, the lock and the replies agree
\* with each other in every reachable state: the inductive invariant itself.
THEOREM InvariantHolds == Spec => []IngressInvariant
  BY InitInvariant, NextKeepsInvariant, PTL DEF Spec

\* The types of the ingress variables.
THEOREM TypeCorrect == Spec => []TypeOK
  <1>1. IngressInvariant => TypeOK
    BY DEF IngressInvariant
  <1> QED BY <1>1, InvariantHolds, PTL

\* Each update takes effect exactly once, however runtimes crash and overlap.
THEOREM ExactlyOnce == Spec => []EffectsExactlyOnce
  <1>1. IngressInvariant => EffectsExactlyOnce
    BY DEF IngressInvariant
  <1> QED BY <1>1, InvariantHolds, PTL

\* The cursor and Telegram's own deletion of old updates lose no update.
THEOREM NothingSkipped == Spec => []NoUpdateSkipped
  <1>1. IngressInvariant => NoUpdateSkipped
    BY DEF IngressInvariant, NoUpdateSkipped, CursorExact, TypeOK
  <1> QED BY <1>1, InvariantHolds, PTL

\* Updates commit in identifier order.
THEOREM InOrder == Spec => []CommittedInOrder
  <1>1. IngressInvariant => CommittedInOrder
    BY DEF IngressInvariant, CommittedInOrder, CursorExact, TypeOK
  <1> QED BY <1>1, InvariantHolds, PTL

\* No reply is attempted twice, and none for an update that did not commit.
THEOREM ReplyAtMostOnce == Spec => []RepliesAtMostOnce
  <1>1. IngressInvariant => RepliesAtMostOnce
    BY DEF IngressInvariant
  <1> QED BY <1>1, InvariantHolds, PTL

\* Without a fault no committed reply is lost: it has been attempted, or a
\* runtime is about to (_send_after_commit).
THEOREM RepliesKept == Spec => []ReplyLostOnlyByFault
  <1>1. Init => ReplyLostOnlyByFault
    BY DEF Init, ReplyLostOnlyByFault
  <1>2. IngressInvariant /\ ReplyLostOnlyByFault /\ [Next]_vars => ReplyLostOnlyByFault'
    <2> SUFFICES ASSUME IngressInvariant, ReplyLostOnlyByFault, [Next]_vars, faults' = 0,
                        NEW v \in owed'
                 PROVE  \/ attempts'[v] = 1
                        \/ \E q \in Runtime : pc'[q] = "sending" /\ current'[q] = v
      BY DEF ReplyLostOnlyByFault
    <2> USE DEF telegram, database
    <2>0. TypeOK /\ OneTransactionPerUpdate /\ faults \in Nat
      BY DEF IngressInvariant, TypeOK
    <2> DEFINE Waiting(q) == pc[q] = "sending" /\ current[q] = v
    <2>1. faults = 0 /\ v \in owed => attempts[v] = 1 \/ \E q \in Runtime : Waiting(q)
      BY DEF ReplyLostOnlyByFault
    <2>2. CASE /\ UNCHANGED <<owed, attempts, faults>>
               /\ \A q \in Runtime : pc[q] = "sending" => pc'[q] = "sending" /\ current'[q] = current[q]
      BY <2>1, <2>2
    <2>3. CASE UNCHANGED vars \/ \E u \in UpdateId : Arrive(u)
      BY <2>2, <2>3 DEF vars, Arrive
    <2>4. ASSUME NEW r \in Runtime, LoseSession(r) \/ Stop(r) PROVE FALSE
      BY <2>0, <2>4 DEF LoseSession, Stop
    <2>5. ASSUME NEW r \in Runtime, pc[r] # "sending", UNCHANGED <<owed, attempts, faults>>,
                 \A q \in Runtime \ {r} : pc'[q] = pc[q] /\ current'[q] = current[q]
          PROVE  \/ attempts'[v] = 1
                 \/ \E q \in Runtime : pc'[q] = "sending" /\ current'[q] = v
      BY <2>2, <2>5
    <2>6. ASSUME NEW r \in Runtime,
                 \/ Start(r) \/ ProbeHealthy(r) \/ ProbeLost(r) \/ ReadOffset(r)
                 \/ FetchFails(r) \/ Fetch(r) \/ BatchDone(r) \/ DispatchRaises(r)
          PROVE  /\ pc[r] # "sending" /\ UNCHANGED <<owed, attempts, faults>>
                 /\ \A q \in Runtime \ {r} : pc'[q] = pc[q] /\ current'[q] = current[q]
      BY <2>0, <2>6 DEF Start, ProbeHealthy, ProbeLost, ReadOffset, FetchFails, Fetch,
                        BatchDone, DispatchRaises, End, TypeOK
    <2>7. ASSUME NEW r \in Runtime, NEW u \in UpdateId,
                 Duplicate(r, u) \/ Claim(r, u) \/ CommitIgnored(r, u)
          PROVE  /\ pc[r] # "sending" /\ UNCHANGED <<owed, attempts, faults>>
                 /\ \A q \in Runtime \ {r} : pc'[q] = pc[q] /\ current'[q] = current[q]
      BY <2>0, <2>7 DEF Duplicate, Claim, CommitIgnored, CommitTogether, TypeOK
    <2>8. ASSUME NEW r \in Runtime, NEW u \in UpdateId, CommitDispatched(r, u)
          PROVE  \/ attempts'[v] = 1
                 \/ \E q \in Runtime : pc'[q] = "sending" /\ current'[q] = v
      <3>1. /\ pc[r] = "dispatching" /\ current[r] = u /\ UNCHANGED <<attempts, faults>>
            /\ \A q \in Runtime \ {r} : pc'[q] = pc[q] /\ current'[q] = current[q]
        BY <2>0, <2>8 DEF CommitDispatched, CommitTogether, TypeOK
      <3>2. \/ owed' = owed
            \/ owed' = owed \cup {u} /\ pc'[r] = "sending" /\ current'[r] = u
        BY <2>0, <2>8, <3>1 DEF CommitDispatched, TypeOK
      <3>3. CASE v \in owed
        BY <2>1, <3>1, <3>3
      <3>4. CASE v \notin owed
        BY <3>2, <3>4
      <3> QED BY <3>3, <3>4
    <2>9. ASSUME NEW r \in Runtime, NEW u \in UpdateId, Send(r, u)
          PROVE  \/ attempts'[v] = 1
                 \/ \E q \in Runtime : pc'[q] = "sending" /\ current'[q] = v
      <3>1. /\ current[r] = u /\ attempts[u] = 0 /\ UNCHANGED <<owed, faults>>
            /\ attempts' = [attempts EXCEPT ![u] = @ + 1]
            /\ \A q \in Runtime \ {r} : pc'[q] = pc[q] /\ current'[q] = current[q]
        BY <2>0, <2>9 DEF Send, TypeOK, OneTransactionPerUpdate
      <3>2. CASE v = u
        BY <2>0, <3>1, <3>2 DEF TypeOK
      <3>3. CASE v # u
        BY <2>0, <2>1, <3>1, <3>3 DEF TypeOK
      <3> QED BY <3>2, <3>3
    <2> QED BY <2>3, <2>4, <2>5, <2>6, <2>7, <2>8, <2>9 DEF Next, Work, HandleUpdate
  <1> QED BY <1>1, <1>2, InvariantHolds, PTL DEF Spec

\* The cursor only grows.
THEOREM CursorGrows == Spec => CursorMonotone
  <1>1. IngressInvariant /\ [Next]_vars => [offset' >= offset]_vars
    <2> SUFFICES ASSUME IngressInvariant, Next, offset' # offset PROVE offset' >= offset
      BY DEF vars, IngressInvariant, TypeOK
    <2>1. PICK r \in Runtime, u \in UpdateId : offset' = Advanced(u)
      BY DEF Next, Arrive, LoseSession, Start, Stop, End, Fetch, FetchFails, Work,
             ProbeHealthy, ProbeLost, ReadOffset, BatchDone, DispatchRaises, HandleUpdate,
             Duplicate, Claim, CommitIgnored, CommitDispatched, CommitTogether, Send, database
    <2> QED BY <2>1, AdvancedBound DEF IngressInvariant, TypeOK
  <1> QED BY <1>1, InvariantHolds, PTL DEF Spec, CursorMonotone
-----------------------------------------------------------------------------
\* The variables of the log, as the refinement maps them.
LEMMA MapInit == Init => Log!LogInit
  BY DEF Init, Log!LogInit

\* A commit is a step of the log, a send is its reply, everything else is a
\* stutter.
LEMMA MapNext == IngressInvariant /\ [Next]_vars => [Log!LogNext]_(Log!logVars)
  <1> SUFFICES ASSUME IngressInvariant, [Next]_vars PROVE [Log!LogNext]_(Log!logVars)
    OBVIOUS
  <1> USE DEF telegram, database, Log!logVars
  <1>1. CASE UNCHANGED vars
    BY <1>1 DEF vars
  <1>2. ASSUME NEW u \in UpdateId, Arrive(u) PROVE Log!LogNext
    BY <1>2 DEF Arrive, Log!LogNext, Log!LogArrive
  <1>3. ASSUME NEW r \in Runtime,
               \/ LoseSession(r) \/ Start(r) \/ Stop(r) \/ Fetch(r) \/ FetchFails(r)
               \/ ProbeHealthy(r) \/ ProbeLost(r) \/ ReadOffset(r) \/ BatchDone(r)
               \/ DispatchRaises(r)
        PROVE  UNCHANGED Log!logVars
    BY <1>3 DEF LoseSession, Start, Stop, End, Fetch, FetchFails, ProbeHealthy, ProbeLost,
                ReadOffset, BatchDone, DispatchRaises
  <1>4. ASSUME NEW r \in Runtime, NEW u \in UpdateId, Duplicate(r, u) \/ Claim(r, u)
        PROVE  UNCHANGED Log!logVars
    BY <1>4 DEF Duplicate, Claim
  <1>5. ASSUME NEW r \in Runtime, NEW u \in UpdateId,
               CommitIgnored(r, u) \/ CommitDispatched(r, u)
        PROVE  Log!LogNext
    <2>1. u \in arrived \ claimed /\ \A v \in arrived : v < u => v \in claimed
      BY <1>5, CommitKeepsCursor DEF CommitIgnored, CommitDispatched
    <2>2. claimed' = claimed \cup {u} /\ UNCHANGED <<arrived, attempts>>
      BY <1>5 DEF CommitIgnored, CommitDispatched, CommitTogether
    <2> QED BY <2>1, <2>2 DEF Log!LogNext, Log!LogProcess
  <1>6. ASSUME NEW r \in Runtime, NEW u \in UpdateId, Send(r, u) PROVE Log!LogNext
    <2>1. u \in claimed /\ attempts[u] = 0
      BY <1>6 DEF IngressInvariant, OneTransactionPerUpdate, RepliesFollowEffects, Send
    <2>2. attempts' = [attempts EXCEPT ![u] = 1] /\ UNCHANGED <<arrived, claimed>>
      BY <1>6, <2>1 DEF Send
    <2>3. {v \in UpdateId : attempts'[v] > 0} = {v \in UpdateId : attempts[v] > 0} \cup {u}
      BY <2>2 DEF IngressInvariant, TypeOK
    <2> QED BY <2>1, <2>2, <2>3 DEF Log!LogNext, Log!LogReply
  <1> QED BY <1>1, <1>2, <1>3, <1>4, <1>5, <1>6 DEF Next, Work, HandleUpdate

\* The polling protocol implements the log: a reader of UpdateLog may forget
\* cursors, batches, locks and crashes.
THEOREM Refinement == Spec => ImplementsLog
  BY MapInit, MapNext, InvariantHolds, PTL DEF Spec, ImplementsLog, Log!LogSpec
=============================================================================
