-------------------------- MODULE MCTaskScheduler --------------------------
(* Small instances of TaskScheduler for TLC.                               *)
EXTENDS TaskScheduler, TLC

CONSTANTS n1, n2, t1, t2, u1

OneTenant == [t \in Tasks |-> u1]
SecondFirst == [t \in Tasks |-> IF t = t1 THEN 0 ELSE 1]
OneNode == [t \in Tasks |-> 1]
OneNodeTwoNodes == [t \in Tasks |-> IF t = t1 THEN 1 ELSE 2]
NoNode == [t \in Tasks |-> None]
FirstToN1 == [t \in Tasks |-> IF t = t1 THEN n1 ELSE None]
NoNodes == [t \in Tasks |-> {}]
AnyNode == [t \in Tasks |-> Nodes]
Unlimited == [u \in Users |-> 0]
LimitOne == [u \in Users |-> 1]
NeverDegraded == [t \in Tasks |-> 0]
FirstDegradedOnce == [t \in Tasks |-> IF t = t1 THEN 1 ELSE 0]
=============================================================================
