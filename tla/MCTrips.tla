------------------------------ MODULE MCTrips ------------------------------
(* Instances of Trips, with its readers, for TLC. *)
EXTENDS TripListing

\* No other traveller, or one.
AtMostOne == {<<>>} \union {<<u>> : u \in Users}

\* One friend travels along; the friend's own trips name the friend twice.
CONSTANT friend

Friend == {<<friend>>}

Alone == {<<>>}

\* Under way on day 0, and to come; both are over on day 2.
NowAndNext == {<<0, 1>>, <<1, 1>>}

OneDate == {<<0, 0>>}

\* Without deleteTrip.
Surviving == Servlets \ {"deleteTrip"}

Creations == {"NewTripWithRestaurants"}

SymmetricUsers == Permutations(Users)

Symmetric == SymmetricUsers \union Permutations(Threads)

=============================================================================
