---------------------------- MODULE MCTripMerge ----------------------------
(* Small instances of TripMerge, and the ledger it is checked to implement.   *)
EXTENDS TripMerge

\* The soft-deleted trips whose audit names an item.
Claims(i) == {t \in Trip : Merged(t) /\ i \in audit[t].items}

\* The first trip of a chain of merges through C that ends in e.
FirstOf(C, ptr, e) ==
    IF C = {} THEN e ELSE CHOOSE t \in C : \A s \in C : ptr[s] # t

\* The trip an item was filed under: the first of the chain of trips that claim
\* it, and its own trip when there is none.
HomeOf(i) ==
    IF tripOf[i] \notin Trip
    THEN tripOf[i]
    ELSE FirstOf(Claims(i), mergedInto, tripOf[i])

Homes == [i \in Item |-> HomeOf(i)]

Ledger == INSTANCE TripLedger
            WITH into  <- mergedInto,
                 home  <- Homes,
                 place <- tripOf

\* Rows moved by merges, and moved back by undos from the audit, are where a
\* ledger of pointers says: nothing is lost, gained or misplaced by a merge,
\* an undo or a purge, in any order the chain rule lets through.
ImplementsLedger == Ledger!Spec
=============================================================================
