------------------------------ MODULE MCMailbox ------------------------------
(* Three people and two aliases; a booking sent to one of them in another      *)
(* spelling, and the same booking to the other.                                *)
EXTENDS Mailbox, TLC

CONSTANTS oliver, Oliver, trips, e1, e2, flight

MCLower == oliver :> oliver @@ Oliver :> oliver @@ trips :> trips
MCTo    == e1 :> Oliver @@ e2 :> trips
MCAbout == e1 :> flight @@ e2 :> flight
MCSymmetry == Permutations(User) \cup Permutations(Alias)
=============================================================================
