---------------------------- MODULE MCTripFiling ----------------------------
(* One email confirms a flight and the hotel, the flight with its price and   *)
(* boarding pass; another brings the pass again. A dinner is entered by hand. *)
(* Three trips, so that a confirm can leave two, or one with the dinner in    *)
(* it, for a third.                                                           *)
EXTENDS TripFiling, TLC

CONSTANTS booking, checkin, flight, hotel, dinner, pass

Emails    == {booking, checkin}
Segs      == {flight, hotel, dinner}
Passes    == {pass}
Read      == (booking :> {flight, hotel}) @@ (checkin :> {})
Attached  == (booking :> {pass}) @@ (checkin :> {pass})
FileNames == pass :> flight
WithPrice == {flight}

Symmetry == Permutations(Trip) \cup Permutations(Expense)
=============================================================================
