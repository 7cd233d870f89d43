---------------------------- MODULE MCListPages ----------------------------
(* Instances of ListPages, with ProfilePictures, for TLC. *)
EXTENDS ProfilePictures

CONSTANTS u1, u2, x, y

\* One user's friends and requests are not the same in all answers, and some list
\* one twice, as confirm and overlapping requests to add_friend store them; the
\* other user shares an item.
TwoUsers ==
    [k \in Lists |->
        [u \in Users |->
            IF u # u1 THEN {<<y>>}
            ELSE {<<x, y>>} \union IF k = "trips" THEN {} ELSE {<<y, y>>}]]

=============================================================================
