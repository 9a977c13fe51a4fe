---------------------------- MODULE MCDeliveries ----------------------------
(* Small instances of Deliveries for TLC. *)
EXTENDS Deliveries, TLC

Symmetry == Permutations(Workers)

\* One queue, or a first subject interrupted by a second.
OneSubject  == [p \in Positions |-> 1]
TwoSubjects == [p \in Positions |-> IF p = 2 THEN 2 ELSE 1]

\* Every consumer subscribes to every event's type.
AllSubscribed == [c \in Consumers |-> Positions]
=============================================================================
