----------------------------- MODULE MCFriends -----------------------------
(* Instances of Friends for TLC. *)
EXTENDS Friends

CONSTANTS stranger,     \* a name that nobody has registered
          owner         \* who has a device alone; the others share one

UsersAndStranger == Users \union {stranger}

\* The devices are numbered.
Shared == <<Users \ {owner}, {owner}>>

Symmetric == Permutations(Users \ {owner}) \union Permutations(Threads)

=============================================================================
