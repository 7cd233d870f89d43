------------------------------- MODULE MCChat -------------------------------
(* Instances of Chat for TLC. *)
EXTENDS Chat

EachOther == [u \in Users |-> Users \ {u}]

\* One user also chats with itself: a second conversation to mix up.
CONSTANT talker

OneTalker == [u \in Users |-> IF u = talker THEN Users ELSE Users \ {u}]

Symmetric == Permutations(Bodies)

=============================================================================
