---------------------------- MODULE MCAsyncWork -----------------------------
(* Instances of AsyncWork for TLC. *)
EXTENDS AsyncWork

CONSTANTS w1, w2, w3, q1, q2

TwoWorks   == {w1, w2}
ThreeWorks == {w1, w2, w3}

OneQueueOf   == [w \in Works |-> q1]
FastPathOf   == [w \in Works |-> "AFTER_TIMEOUT"]
AlwaysModeOf == [w \in Works |-> "ALWAYS"]

(* RealizeLocation and GetLocationTrace share a queue. *)
SharedModeOf == [w \in Works |-> IF w = w1 THEN "ALWAYS" ELSE "AFTER_TIMEOUT"]

(* Two methods with queues of their own: GetRange and GetListId. *)
SplitQueueOf == [w \in Works |-> IF w = w1 THEN q1 ELSE q2]
=============================================================================
