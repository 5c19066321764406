--------------------------- MODULE MCTripMatching ---------------------------
(* A user who lives in Rome and flies to Oslo and home again. *)
EXTENDS TripMatching, TLC

CONSTANTS Rome, Oslo, FCO, OSL, e1, e2, e3

At(c, p) == [city |-> c, port |-> p]
Flight(key, slot, day, from, to) ==
    [type |-> "flight", status |-> "confirmed", key |-> key, name |-> None, slot |-> slot,
     first |-> day, last |-> day, utc |-> day, start |-> from, end |-> to]

Out     == Flight("K", 20, 1, At(Rome, FCO), At(Oslo, OSL))
Moved   == [Out EXCEPT !.key = None, !.slot = 21]
Gone    == [Out EXCEPT !.status = "cancelled"]
Back    == Flight(None, 150, 4, At(Oslo, OSL), At(Rome, FCO))
Hotel   == [type |-> "lodging", status |-> "confirmed", key |-> None, name |-> "N", slot |-> 76,
            first |-> 2, last |-> 4, utc |-> 2, start |-> At(Oslo, None), end |-> At(None, None)]
MCCityOf == FCO :> Rome @@ OSL :> Oslo
MCNear == {<<Rome, FCO>>, <<FCO, Rome>>, <<Oslo, OSL>>, <<OSL, Oslo>>,
           <<Rome, Rome>>, <<Oslo, Oslo>>, <<FCO, FCO>>, <<OSL, OSL>>}
MCDraft == {Out, Moved, Gone, Back, Hotel}
MCCarries == e1 :> <<Out, Back>> @@ e2 :> <<Moved>> @@ e3 :> <<Hotel, Gone>>
MCForm == {[start |-> 0, end |-> 2, dest |-> Oslo, into |-> None],
           [start |-> 4, end |-> 5, dest |-> Oslo, into |-> None]}
RowSymmetry == Permutations(Trip) \cup Permutations(Seg)
=============================================================================
