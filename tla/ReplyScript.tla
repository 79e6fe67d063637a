---------------------------- MODULE ReplyScript ----------------------------
(***************************************************************************)
(* What the bot promises about the reply to one update, with no flows, no  *)
(* actions and no failures: a script of presentations is composed in       *)
(* order, what has been composed is never changed except that buttons may  *)
(* be hung below its last presentation, and it is handed over together     *)
(* with what the update changes, or dropped together with it.              *)
(***************************************************************************)
EXTENDS Naturals, Sequences

CONSTANTS Presentation,  \* presentations, records with a field "buttons"
          Stored         \* what the database may hold

VARIABLES script,        \* presentations composed for the current update
          screen,        \* buttons that have reached the guest
          stored         \* committed contents of the database

scriptVars == <<script, screen, stored>>

ScriptInit ==
  /\ script = <<>>
  /\ screen = {}
  /\ stored \in Stored

Add ==
  /\ script' \in Seq(Presentation) /\ Len(script') = Len(script) + 1
  /\ \A i \in 1..Len(script) : script'[i] = script[i]
  /\ UNCHANGED <<screen, stored>>

Hang ==
  LET n == Len(script) IN
  /\ script' \in Seq(Presentation) /\ Len(script') = n /\ n > 0
  /\ \A i \in 1..(n - 1) : script'[i] = script[i]
  /\ script[n].buttons \subseteq script'[n].buttons
  /\ script[n] = [script'[n] EXCEPT !.buttons = script[n].buttons]
  /\ UNCHANGED <<screen, stored>>

\* The script is sent after the commit: what was composed may fail to arrive.
HandOver ==
  /\ script' = <<>>
  /\ screen \subseteq screen'
  /\ screen' \subseteq screen \cup UNION {script[i].buttons : i \in 1..Len(script)}
  /\ stored' \in Stored

Drop ==
  /\ script' = <<>>
  /\ UNCHANGED <<screen, stored>>

ScriptNext == Add \/ Hang \/ HandOver \/ Drop

ScriptSpec == ScriptInit /\ [][ScriptNext]_scriptVars
=============================================================================
