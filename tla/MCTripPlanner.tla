---------------------------- MODULE MCTripPlanner ----------------------------
(* Instances of TripPlanner for TLC. *)
EXTENDS TripPlanner

CONSTANTS u1, u2, f1, f2, r1, r2

FewFriends == [u \in Users |-> IF u = u1 THEN <<f1>> ELSE <<f2>>]

FewResults == {<<r1>>, <<r2, r1>>, <<>>}

=============================================================================
