----------------------------- MODULE UpdateLog -----------------------------
(***************************************************************************)
(* What the Telegram ingress of Friendly Bot promises, with no runtime, no *)
(* transaction and no polling cursor: updates reach the bot's chat with    *)
(* growing identifiers, each of them takes effect once and in identifier   *)
(* order, and a reply to it is attempted at most once, only after it took  *)
(* effect.                                                                 *)
(***************************************************************************)
EXTENDS Naturals

CONSTANT UpdateId      \* identifiers Telegram may give to updates

VARIABLES arrived,     \* updates Telegram has accepted
          done,        \* updates whose effects are durable
          replied      \* updates whose reply has been attempted

logVars == <<arrived, done, replied>>

LogInit ==
  /\ arrived = {}
  /\ done = {}
  /\ replied = {}

\* A new update has an identifier above all earlier ones; gaps are allowed.
LogArrive(u) ==
  /\ \A v \in arrived : v < u
  /\ arrived' = arrived \cup {u}
  /\ UNCHANGED <<done, replied>>

\* The oldest update that has not taken effect takes effect.
LogProcess(u) ==
  /\ u \in arrived \ done
  /\ \A v \in arrived : v < u => v \in done
  /\ done' = done \cup {u}
  /\ UNCHANGED <<arrived, replied>>

LogReply(u) ==
  /\ u \in done \ replied
  /\ replied' = replied \cup {u}
  /\ UNCHANGED <<arrived, done>>

LogNext == \E u \in UpdateId : LogArrive(u) \/ LogProcess(u) \/ LogReply(u)

LogSpec == LogInit /\ [][LogNext]_logVars
=============================================================================
