---------------------------- MODULE Friendships ----------------------------
(***************************************************************************)
(* What asking for a friendship and accepting it promise, whatever         *)
(* statements of the servlets run in between: each happens at one moment.  *)
(* Who asks lists the other from then on, and the request is there until   *)
(* it is accepted; who accepts lists the sender from the moment at which   *)
(* the request goes.  Nobody gets into a list in another way, and nobody   *)
(* leaves one.  A request is lost only by a failure.                       *)
(*                                                                         *)
(* Nobody is accepted who has not listed somebody first: the user who      *)
(* accepts, or, if the request strays, another user of the same device.    *)
(* A request can be accepted again, which brings it back until it goes.    *)
(***************************************************************************)
EXTENDS Sequences, SequencesExt

CONSTANTS Users,
          MayFail       \* whether requests can be lost

VARIABLES friend,       \* the friend list of each user
          asked,        \* the pairs <<s, r>> such that s waits for r to accept
          accepted,     \* those that r is just accepting
          astray,       \* those that r accepted although s had asked another user
          failed        \* whether something has failed so far

vars == <<friend, asked, accepted, astray, failed>>

Init == /\ friend = [u \in Users |-> <<>>]
        /\ asked = {}
        /\ accepted = {}
        /\ astray = {}
        /\ failed = FALSE

Ask(s, r) ==
    /\ r \notin ToSet(friend[s])
    /\ friend' = [friend EXCEPT ![s] = Append(@, r)]
    /\ asked' = asked \union {<<s, r>>}
    /\ UNCHANGED <<accepted, astray, failed>>

\* r accepts s, who lists v.
Accept(r, s, v) ==
    /\ UNCHANGED <<friend, failed>>
    /\ accepted' = accepted \union {<<s, r>>}
    /\ astray' = astray \union {p \in {<<s, r>>} : v # r}
    /\ asked' = asked \union {<<s, r>>}

\* r has accepted s.  If the request strayed, s may just be asking r, which goes on.
Confirm(r, s) ==
    /\ friend' = [friend EXCEPT ![r] = Append(@, s)]
    /\ \/ asked' = asked \ {<<s, r>>}
       \/ <<s, r>> \in astray /\ asked' = asked
    /\ accepted' = accepted \ {<<s, r>>}
    /\ UNCHANGED <<astray, failed>>

\* At most one request is lost, or its acceptance, or both.
Fail ==
    /\ MayFail
    /\ failed' = TRUE
    /\ UNCHANGED <<friend, astray>>
    /\ \E lost \in {{}} \union {{p} : p \in asked} :
           /\ asked' \in {asked, asked \ lost}
           /\ accepted' = accepted \ lost

Next == \/ Fail
        \/ \E s, r \in Users : \/ Ask(s, r)
                               \/ \E v \in ToSet(friend[s]) : Accept(r, s, v)
        \/ \E p \in accepted : Confirm(p[2], p[1])

Spec == Init /\ [][Next]_vars

=============================================================================
