------------------------------- MODULE MCMoney -------------------------------
(* Dollars in cents and yen without; rates of 0.7 and 1.5, or none for yen. *)
EXTENDS Money, TLC

CONSTANTS usd, jpy

MCScale == usd :> 100 @@ jpy :> 1
MCTable == {usd :> 7 @@ jpy :> 15, usd :> 15 @@ jpy :> 0}
MCSymmetry == Permutations(Session) \cup Permutations(Expense)
=============================================================================
