--------------------------- MODULE UpdateIngress ---------------------------
(***************************************************************************)
(* Telegram long polling: telegram/poller.py, runtime_lock.py, sender.py   *)
(* and the loop of app.py that drives them.  Several runtimes may exist,   *)
(* because the advisory lock that keeps them apart belongs to a PostgreSQL *)
(* session which can die while its runtime is in the middle of a batch.    *)
(*                                                                         *)
(* One update is one transaction.  Its claim (the insert into              *)
(* processed_telegram_updates) is a step of its own, since the dispatch    *)
(* that follows awaits the router: the row it inserted is locked until the *)
(* transaction ends.                                                       *)
(***************************************************************************)
EXTENDS Naturals, FiniteSets

CONSTANTS
  Runtime,      \* bot processes
  NoRuntime,    \* nobody owns the advisory lock
  UpdateId,     \* identifiers of updates
  NoUpdate,     \* no transaction is open
  BatchLimit,   \* the most updates one getUpdates call returns
  Ignored,      \* updates without a message: claimed, never dispatched
  Malformed,    \* updates parse_update rejects
  Poison,       \* updates whose dispatch raises
  MaxFaults     \* bound on lost lock sessions and stopped processes

ASSUME IngressAssumption ==
  /\ UpdateId \subseteq Nat \ {0}
  /\ Ignored \subseteq UpdateId
  /\ NoUpdate \notin UpdateId
  /\ NoRuntime \notin Runtime
  /\ BatchLimit \in Nat \ {0}
  /\ MaxFaults \in Nat

VARIABLES
  arrived,    \* updates Telegram has accepted
  queue,      \* updates Telegram still keeps for getUpdates
  claimed,    \* committed rows of processed_telegram_updates
  offset,     \* telegram_poll_state.next_update_offset
  lock,       \* runtime whose session holds the advisory lock
  pc,         \* where the poll loop of each runtime is
  from,       \* offset each runtime has read for its next request
  batch,      \* updates of the current batch not yet finished
  current,    \* update of the open transaction, or of the reply being sent
  effects,    \* committed dispatches of each update
  owed,       \* updates whose dispatch produced presentations
  attempts,   \* replies attempted for each update
  faults      \* lost sessions and stopped processes so far

vars == <<arrived, queue, claimed, offset, lock, pc, from, batch, current,
          effects, owed, attempts, faults>>

telegram == <<arrived, queue>>
database == <<claimed, offset, effects, owed>>

PC == {"stopped", "looping", "polling", "fetching",
       "batch", "dispatching", "sending"}

Init ==
  /\ arrived = {} /\ queue = {}
  /\ claimed = {} /\ offset = 0
  /\ lock = NoRuntime
  /\ pc = [r \in Runtime |-> "stopped"]
  /\ from = [r \in Runtime |-> 0]
  /\ batch = [r \in Runtime |-> {}]
  /\ current = [r \in Runtime |-> NoUpdate]
  /\ effects = [u \in UpdateId |-> 0]
  /\ owed = {}
  /\ attempts = [u \in UpdateId |-> 0]
  /\ faults = 0
-----------------------------------------------------------------------------
(* The environment.                                                        *)

\* A user writes or presses a button; Telegram numbers updates upwards.
Arrive(u) ==
  /\ \A v \in arrived : v < u
  /\ arrived' = arrived \cup {u}
  /\ queue' = queue \cup {u}
  /\ UNCHANGED <<database, lock, pc, from, batch, current, attempts, faults>>

\* The lock's session dies; its runtime learns of it at its next health probe.
LoseSession(r) ==
  /\ lock = r
  /\ faults < MaxFaults
  /\ faults' = faults + 1
  /\ lock' = NoRuntime
  /\ UNCHANGED <<telegram, database, pc, from, batch, current, attempts>>

-----------------------------------------------------------------------------
(* The runtime's life.                                                     *)

\* TelegramRuntimeLock.acquire succeeds; a taken lock refuses the start.
Start(r) ==
  /\ pc[r] = "stopped"
  /\ lock = NoRuntime
  /\ lock' = r
  /\ pc' = [pc EXCEPT ![r] = "looping"]
  /\ UNCHANGED <<telegram, database, from, batch, current, attempts, faults>>

\* The process ends: its sessions close, the open transaction rolls back and
\* the presentations it held in memory are gone.
End(r) ==
  /\ pc' = [pc EXCEPT ![r] = "stopped"]
  /\ batch' = [batch EXCEPT ![r] = {}]
  /\ current' = [current EXCEPT ![r] = NoUpdate]
  /\ lock' = IF lock = r THEN NoRuntime ELSE lock
  /\ UNCHANGED <<telegram, database, from, attempts>>

\* A crash, a stop signal, or the scheduler's probe finding the session gone:
\* the task group cancels the poll loop wherever it is.
Stop(r) ==
  /\ pc[r] # "stopped"
  /\ faults < MaxFaults
  /\ faults' = faults + 1
  /\ End(r)

\* ensure_healthy before each batch; a lost session ends the runtime.
ProbeHealthy(r) ==
  /\ pc[r] = "looping"
  /\ lock = r
  /\ pc' = [pc EXCEPT ![r] = "polling"]
  /\ UNCHANGED <<telegram, database, lock, from, batch, current, attempts, faults>>

ProbeLost(r) ==
  /\ pc[r] = "looping"
  /\ lock # r
  /\ End(r)
  /\ UNCHANGED faults

-----------------------------------------------------------------------------
(* One poll.                                                               *)

\* Mutation of ReadOffset: asks for the update after the cursor.
ReadOffsetPastCursor(r) ==
  /\ pc[r] = "polling"
  /\ from' = [from EXCEPT ![r] = offset + 1]
  /\ pc' = [pc EXCEPT ![r] = "fetching"]
  /\ UNCHANGED <<telegram, database, lock, batch, current, attempts, faults>>

\* polling_offset: a short transaction of its own.
ReadOffset(r) ==
  /\ pc[r] = "polling"
  /\ from' = [from EXCEPT ![r] = offset]
  /\ pc' = [pc EXCEPT ![r] = "fetching"]
  /\ UNCHANGED <<telegram, database, lock, batch, current, attempts, faults>>

\* getUpdates forgets everything below the requested offset.
Kept(o) == {u \in queue : u >= o}

\* What it may answer: the oldest kept updates, at most BatchLimit of them.
Pages(o) ==
  {p \in SUBSET Kept(o) :
     /\ \A u \in p, v \in Kept(o) : v < u => v \in p
     /\ Cardinality(p) <= BatchLimit
     /\ p = {} => Kept(o) = {}}

\* The answer is lost, or holds an update parse_update rejects: either way the
\* whole batch is a TelegramApiFailure and the loop polls again, cursor unmoved.
FetchFails(r) ==
  /\ pc[r] = "fetching"
  /\ queue' \in {queue, Kept(from[r])}
  /\ pc' = [pc EXCEPT ![r] = "looping"]
  /\ UNCHANGED <<arrived, database, lock, from, batch, current, attempts, faults>>

Fetch(r) ==
  /\ pc[r] = "fetching"
  /\ \E p \in Pages(from[r]) :
       /\ p \cap Malformed = {}
       /\ batch' = [batch EXCEPT ![r] = p]
  /\ queue' = Kept(from[r])
  /\ pc' = [pc EXCEPT ![r] = "batch"]
  /\ UNCHANGED <<arrived, database, lock, from, current, attempts, faults>>

BatchDone(r) ==
  /\ pc[r] = "batch"
  /\ batch[r] = {}
  /\ pc' = [pc EXCEPT ![r] = "looping"]
  /\ UNCHANGED <<telegram, database, lock, from, batch, current, attempts, faults>>

-----------------------------------------------------------------------------
(* One update (TelegramIngress.process).                                   *)

\* Updates are taken in identifier order.
IsNext(r, u) == u \in batch[r] /\ \A v \in batch[r] : u <= v

\* Mutations of Advanced: off by one, and a plain overwrite of the cursor.
AdvancedTooFar(u) == IF u + 2 > offset THEN u + 2 ELSE offset
Overwritten(u) == u + 1

\* advance_monotonically keeps the greater cursor.
Advanced(u) == IF u + 1 > offset THEN u + 1 ELSE offset

\* Mutation of KeyFree: a claim that looks before it inserts, and waits for nobody.
ClaimWithoutKey(r, u) == TRUE

\* The claim's insert waits while another transaction holds the same key.
KeyFree(r, u) == \A q \in Runtime \ {r} : pc[q] = "dispatching" => current[q] # u

\* The claim finds the row: only the cursor moves.
Duplicate(r, u) ==
  /\ pc[r] = "batch"
  /\ IsNext(r, u)
  /\ KeyFree(r, u)
  /\ u \in claimed
  /\ offset' = Advanced(u)
  /\ batch' = [batch EXCEPT ![r] = @ \ {u}]
  /\ UNCHANGED <<telegram, claimed, effects, owed, lock, pc, from, current,
                 attempts, faults>>

\* The claim inserts the row; the transaction stays open through the dispatch.
Claim(r, u) ==
  /\ pc[r] = "batch"
  /\ IsNext(r, u)
  /\ KeyFree(r, u)
  /\ u \notin claimed
  /\ current' = [current EXCEPT ![r] = u]
  /\ pc' = [pc EXCEPT ![r] = "dispatching"]
  /\ UNCHANGED <<telegram, database, lock, from, batch, attempts, faults>>

\* Mutation of CommitTogether: the claim stays out of the transaction.
CommitWithoutClaim(r, u) ==
  /\ pc[r] = "dispatching"
  /\ current[r] = u
  /\ offset' = Advanced(u)
  /\ batch' = [batch EXCEPT ![r] = @ \ {u}]
  /\ UNCHANGED claimed

\* Claim, effects and cursor commit together.
CommitTogether(r, u) ==
  /\ pc[r] = "dispatching"
  /\ current[r] = u
  /\ claimed' = claimed \cup {u}
  /\ offset' = Advanced(u)
  /\ batch' = [batch EXCEPT ![r] = @ \ {u}]

\* An update without a message commits its claim and the cursor, nothing else.
CommitIgnored(r, u) ==
  /\ u \in Ignored
  /\ CommitTogether(r, u)
  /\ pc' = [pc EXCEPT ![r] = "batch"]
  /\ current' = [current EXCEPT ![r] = NoUpdate]
  /\ UNCHANGED <<telegram, effects, owed, lock, from, attempts, faults>>

\* The dispatch's effects commit; presentations, if any, are sent afterwards.
CommitDispatched(r, u) ==
  /\ u \notin Ignored \cup Poison
  /\ CommitTogether(r, u)
  /\ effects' = [effects EXCEPT ![u] = @ + 1]
  /\ \/ /\ owed' = owed \cup {u}
        /\ pc' = [pc EXCEPT ![r] = "sending"]
        /\ UNCHANGED current
     \/ /\ pc' = [pc EXCEPT ![r] = "batch"]
        /\ current' = [current EXCEPT ![r] = NoUpdate]
        /\ UNCHANGED owed
  /\ UNCHANGED <<telegram, lock, from, attempts, faults>>

\* An exception of the dispatch rolls the transaction back and, caught by
\* nobody, ends the runtime.
DispatchRaises(r) ==
  /\ pc[r] = "dispatching"
  /\ current[r] \in Poison \ Ignored
  /\ End(r)
  /\ UNCHANGED faults

\* Mutations of Send: retry until Telegram confirms, and drop without trying.
SendUntilConfirmed(r, u) ==
  /\ pc[r] = "sending"
  /\ current[r] = u
  /\ attempts[u] < 2
  /\ attempts' = [attempts EXCEPT ![u] = @ + 1]
  /\ UNCHANGED <<telegram, database, lock, pc, from, batch, current, faults>>

SendDropped(r, u) ==
  /\ pc[r] = "sending"
  /\ current[r] = u
  /\ current' = [current EXCEPT ![r] = NoUpdate]
  /\ pc' = [pc EXCEPT ![r] = "batch"]
  /\ UNCHANGED <<telegram, database, lock, from, batch, attempts, faults>>

\* send_all tries each presentation once and swallows every failure.
Send(r, u) ==
  /\ pc[r] = "sending"
  /\ current[r] = u
  /\ attempts' = [attempts EXCEPT ![u] = @ + 1]
  /\ current' = [current EXCEPT ![r] = NoUpdate]
  /\ pc' = [pc EXCEPT ![r] = "batch"]
  /\ UNCHANGED <<telegram, database, lock, from, batch, faults>>

-----------------------------------------------------------------------------
\* Everything a healthy runtime does between two polls.
HandleUpdate(r) ==
  \E u \in UpdateId :
    \/ Duplicate(r, u) \/ Claim(r, u)
    \/ CommitIgnored(r, u) \/ CommitDispatched(r, u) \/ Send(r, u)

Work(r) ==
  \/ ProbeHealthy(r) \/ ProbeLost(r) \/ ReadOffset(r)
  \/ BatchDone(r) \/ DispatchRaises(r) \/ HandleUpdate(r)

Next ==
  \/ \E u \in UpdateId : Arrive(u)
  \/ \E r \in Runtime : \/ LoseSession(r) \/ Start(r) \/ Stop(r)
                        \/ Fetch(r) \/ FetchFails(r) \/ Work(r)

Spec == Init /\ [][Next]_vars

\* The loop always takes its next step, a stopped bot is started again, and
\* getUpdates does not fail for ever while it keeps being retried.
Fairness ==
  \A r \in Runtime : WF_vars(Work(r)) /\ WF_vars(Start(r)) /\ SF_vars(Fetch(r))

FairSpec == Spec /\ Fairness
-----------------------------------------------------------------------------
TypeOK ==
  /\ arrived \subseteq UpdateId /\ queue \subseteq UpdateId
  /\ claimed \subseteq UpdateId /\ offset \in Nat
  /\ lock \in Runtime \cup {NoRuntime}
  /\ pc \in [Runtime -> PC]
  /\ from \in [Runtime -> Nat]
  /\ batch \in [Runtime -> SUBSET UpdateId]
  /\ current \in [Runtime -> UpdateId \cup {NoUpdate}]
  /\ effects \in [UpdateId -> Nat]
  /\ owed \subseteq UpdateId
  /\ attempts \in [UpdateId -> Nat]
  /\ faults \in Nat

\* The effects of an update are committed exactly once, with its claim: a
\* redelivery, a crash and a second runtime that overlaps the first change
\* nothing (updates.claim_update and the single transaction of process).
EffectsExactlyOnce ==
  \A u \in UpdateId :
    effects[u] = IF u \in claimed \ Ignored THEN 1 ELSE 0

\* No update is skipped: whatever the cursor has passed has been claimed, and
\* whatever has not been claimed Telegram still keeps, so that a restart finds
\* it ("never skips a returned update").
NoUpdateSkipped ==
  \A u \in arrived : u \notin claimed => u >= offset /\ u \in queue

\* Updates take effect in identifier order, across runtimes: one is never
\* committed while an older one that has arrived is not.
CommittedInOrder ==
  \A u \in claimed, v \in arrived : v < u => v \in claimed

\* A reply is attempted at most once, and only after its update has committed.
RepliesAtMostOnce ==
  \A u \in UpdateId : attempts[u] <= 1 /\ (attempts[u] = 1 => u \in owed)

\* A committed reply is lost only by a process that stopped before sending it:
\* with no fault each one has been attempted or is about to be.
ReplyLostOnlyByFault ==
  faults = 0 =>
    \A u \in owed : \/ attempts[u] = 1
                    \/ \E r \in Runtime : pc[r] = "sending" /\ current[r] = u

\* The cursor never moves backwards, whichever runtime writes it.
CursorMonotone == [][offset' >= offset]_vars

\* Every update Telegram accepted is claimed in the end, up to the first whose
\* dispatch always raises; those without a usable message are "safely ignorable"
\* (telegram/models.py) and are claimed too.
EveryUpdateHandled ==
  \A u \in UpdateId :
    (\A p \in Poison : u < p) => (u \in arrived ~> u \in claimed)

-----------------------------------------------------------------------------
(* The inductive strengthening of the safety properties.                   *)

\* The cursor separates the claimed updates from the others exactly, and no
\* runtime works from a cursor ahead of it.
CursorExact ==
  /\ claimed \subseteq arrived /\ queue \subseteq arrived
  /\ offset = 0 \/ \E u \in claimed : offset = u + 1
  /\ \A u \in arrived : u \in claimed <=> u < offset
  /\ \A u \in arrived \ claimed : u \in queue
  /\ \A r \in Runtime : from[r] <= offset

\* Whatever a batch leaves out below one of its members has been claimed.
BatchesLeaveNothingBehind ==
  \A r \in Runtime :
    /\ batch[r] \subseteq arrived
    /\ \A u \in batch[r], v \in arrived : v < u /\ v \notin batch[r] => v \in claimed

\* An open transaction is for the oldest unclaimed update of its batch, and no
\* two runtimes are inside the same update.
OneTransactionPerUpdate ==
  \A r \in Runtime :
    /\ pc[r] = "dispatching" => IsNext(r, current[r]) /\ current[r] \notin claimed
    /\ pc[r] = "sending" => current[r] \in owed /\ attempts[current[r]] = 0
    /\ pc[r] \in {"dispatching", "sending"} =>
         \A q \in Runtime \ {r} : pc[q] = pc[r] => current[q] # current[r]

RepliesFollowEffects ==
  owed \subseteq claimed \ Ignored

IngressInvariant ==
  /\ TypeOK
  /\ CursorExact
  /\ BatchesLeaveNothingBehind
  /\ OneTransactionPerUpdate
  /\ RepliesFollowEffects
  /\ EffectsExactlyOnce
  /\ RepliesAtMostOnce
-----------------------------------------------------------------------------
\* The log this protocol implements.
Log == INSTANCE UpdateLog
         WITH done <- claimed, replied <- {u \in UpdateId : attempts[u] > 0}

ImplementsLog == Log!LogSpec
=============================================================================
