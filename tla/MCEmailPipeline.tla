-------------------------- MODULE MCEmailPipeline --------------------------
(* Two emails that confirm the same flight, the second also a hotel, with the *)
(* same boarding pass attached: a forward of a forward.                       *)
EXTENDS EmailPipeline, TLC

CONSTANTS first, second, flight, hotel, pass

Emails   == {first, second}
Bookings == {flight, hotel}
Passes   == {pass}

Confirmed == (first :> {flight}) @@ (second :> {flight, hotel})
Attached  == [m \in Emails |-> {pass}]
RulesRead == (first :> "weak") @@ (second :> "none")
=============================================================================
