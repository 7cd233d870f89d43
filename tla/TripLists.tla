----------------------------- MODULE TripLists -----------------------------
(***************************************************************************)
(* The trip columns of the User table.  A row keeps the trips of a user in *)
(* three text columns, pending_trip, current_trip and history_trip, each   *)
(* holding trip numbers separated by commas.  The servlets of              *)
(* Backend/src/Trip read such a text, split it, and write another one.     *)
(*                                                                         *)
(* A column is NULL or a text.  A text is the sequence of its numbers and  *)
(* whether it ends with a comma: "4,7," is closed, "4,7" (what deleteTrip  *)
(* writes) is open, and "" is the closed text with no number.  A servlet   *)
(* that appends "9," to an open text writes "4,79,": the digits meet.      *)
(***************************************************************************)
EXTENDS Integers, Sequences, SequencesExt

CONSTANT NULL           \* the SQL NULL

Columns == {"pending_trip", "current_trip", "history_trip"}

Text == {x \in [ids : Seq(Nat), closed : BOOLEAN] : x.closed \/ x.ids # <<>>}

Column == Text \union {NULL}

ASSUME NullAssumption == NULL \notin Text

Empty == [ids |-> <<>>, closed |-> TRUE]

\* What a servlet works with after `if (trips == null) trips = ""`.
TextOf(column) == IF column = NULL THEN Empty ELSE column

-----------------------------------------------------------------------------

\* The smallest power of ten above b.  Longer numerals than these are not
\* told apart: TripID is an INT column and TLC's integers have 32 bits.
PowersOfTen == {10, 100, 1000, 10000, 100000}

Shift(b) ==
    CHOOSE p \in PowersOfTen : /\ b < p \/ p = 100000
                               /\ \A q \in PowersOfTen : b < q => p <= q

\* The number whose digits are those of a followed by those of b.
Glue(a, b) == a * Shift(b) + b

\* Mutant: the last number is written without its comma.
AddIdsOpen(x, m) ==
    [ids |-> IF x.closed \/ m = <<>> THEN x.ids \o m
             ELSE Front(x.ids) \o <<Glue(Last(x.ids), Head(m))>> \o Tail(m),
     closed |-> x.closed /\ m = <<>>]

\* Mutant: the text read before is not part of the text written.
AddIdsFresh(x, m) == [ids |-> m, closed |-> TRUE]

\* The text written by appending "m1,m2,...," to the text x.
AddIds(x, m) ==
    IF m = <<>> THEN x
    ELSE IF x.closed THEN [ids |-> x.ids \o m, closed |-> TRUE]
    ELSE [ids    |-> Front(x.ids) \o <<Glue(Last(x.ids), Head(m))>> \o Tail(m),
          closed |-> TRUE]

\* The text of the ids an UpdateTripStatus loop kept, "" when there is none.
ListOf(m) == [ids |-> m, closed |-> TRUE]

\* The column deleteTrip writes: the first occurrence of id is left out, the
\* last comma is cut, and a list of one trip becomes NULL.
RemoveId(x, id) ==
    IF Len(x.ids) = 1
    THEN NULL
    ELSE [ids |-> RemoveFirst(x.ids, id), closed |-> FALSE]

\* The trip numbers a column lists.
IdsIn(column) == ToSet(TextOf(column).ids)

=============================================================================
