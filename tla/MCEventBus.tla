----------------------------- MODULE MCEventBus -----------------------------
(* EventBus for TLC: handlers of a state change publish noise, as the handlers
   of object and stream events do when they invoke a function.                *)

EXTENDS EventBus

CONSTANTS t1, n1

MCCascade == [t \in {t1, n1} |-> IF t = t1 THEN {n1} ELSE {}]

\* Long histories without subscribers, and three subscriptions for one event.
MCMaxEvents == [i \in 0..3 |-> CASE i = 0 -> 4 [] i \in 1..2 -> 2 [] OTHER -> 1]

=============================================================================
