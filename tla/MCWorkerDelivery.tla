--------------------------- MODULE MCWorkerDelivery ---------------------------
(* Instances of WorkerDelivery for TLC. *)
EXTENDS WorkerDelivery, TLC

CONSTANTS j1, w1, w2, s1, s2

AnyKind == {"preprocessing", "cvat", "training"}
Alike   == Permutations(Jobs) \cup Permutations(Workers) \cup Permutations(Slots)
=============================================================================
