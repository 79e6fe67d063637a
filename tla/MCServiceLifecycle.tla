------------------------- MODULE MCServiceLifecycle -------------------------
(* Small instances of ServiceLifecycle for TLC.  Of the shipped timestamps *)
(* they keep the question at doors open for every guest, an announcement   *)
(* for attendees, and the end.                                             *)
EXTENDS ServiceLifecycle

CONSTANTS doors, thanks, end, u1, r1, r2

\* Doors open at 1 and close at 2; the service ends at 3.
Schedule == [t \in Timestamp |-> CASE t = doors -> 1 [] t = thanks -> 2 [] t = end -> 3]

\* The audiences of the shipped seed.
ShippedAudience == [t \in Timestamp |-> IF t = doors THEN "nbncs" ELSE "attendees"]

\* The terminal audience with which the scheduler's tests close a service.
ClosingAudience == [t \in Timestamp |-> IF t = thanks THEN "attendees" ELSE "nbncs"]
=============================================================================
