---- MODULE MCEventLog ----
(* Instances of EventLog for the model checker.                            *)
EXTENDS EventLog

CONSTANTS e1, e2, e3, d1, d2, p1, p2, l402

\* Payments of one process to two domains, under one scheme: they share a handler.
OneProcess      == [e \in Payments |-> p1]
AlternateDomain == [e \in Payments |-> IF e \in {e1, e3} THEN d1 ELSE d2]
OneCharge       == [e \in Payments |-> l402]
Price           == [e \in Payments |-> IF e = e1 THEN 1 ELSE IF e = e2 THEN 2 ELSE 5]
====
