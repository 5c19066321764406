----------------------------- MODULE TripLedger -----------------------------
(* What merging promises, with no rows moved and no audit kept.  An item has  *)
(* a home, the trip it was filed under; a merge only points one trip at       *)
(* another; an item is shown in the trip its home leads to.  An undo drops    *)
(* the pointer, so that exactly what came with a trip leaves with it, and     *)
(* what was filed under the target meanwhile stays.  The purge makes a merge  *)
(* permanent: the purged trip's items belong to the trip they are shown in.   *)
CONSTANTS Trip, Item, NoTrip, Unborn, Gone

VARIABLES
    unborn, \* trip ids not yet used
    exists, \* trips, merged ones included
    into,   \* the trip each trip was merged into
    home,   \* the trip each item was filed under
    place   \* the trip each item is shown in

vars == <<unborn, exists, into, home, place>>

\* The far end of a chain of merges.
Root(ptr, t) ==
    LET end[s \in Trip] == IF ptr[s] = NoTrip THEN s ELSE end[ptr[s]]
    IN  end[t]

\* The first trip on the way from t that is not in P.
Heir(P, t) ==
    LET end[s \in Trip] == IF s \in P THEN end[into[s]] ELSE s
    IN  end[t]

ShownIn(ptr, h) == [i \in Item |-> IF h[i] \in Trip THEN Root(ptr, h[i]) ELSE h[i]]

IsRoot(t) == t \in exists /\ into[t] = NoTrip

Init == /\ unborn = Trip /\ exists = {}
        /\ into = [t \in Trip |-> NoTrip]
        /\ home = [i \in Item |-> Unborn]
        /\ place = home

\* A new trip, empty or with its first item.
Open(t, new) ==
    /\ t \in unborn /\ \A i \in new : home[i] = Unborn
    /\ unborn' = unborn \ {t} /\ exists' = exists \cup {t}
    /\ home' = [i \in Item |-> IF i \in new THEN t ELSE home[i]]
    /\ UNCHANGED into

File(t, i) ==
    /\ IsRoot(t) /\ home[i] = Unborn
    /\ home' = [home EXCEPT ![i] = t]
    /\ UNCHANGED <<unborn, exists, into>>

Drop(i) ==
    /\ home[i] \in Trip
    /\ home' = [home EXCEPT ![i] = Gone]
    /\ UNCHANGED <<unborn, exists, into>>

Merge(s, t) ==
    /\ IsRoot(s) /\ IsRoot(t) /\ s # t
    /\ into' = [into EXCEPT ![s] = t]
    /\ UNCHANGED <<unborn, exists, home>>

Undo(s) ==
    /\ s \in exists /\ into[s] # NoTrip /\ IsRoot(into[s])
    /\ into' = [into EXCEPT ![s] = NoTrip]
    /\ UNCHANGED <<unborn, exists, home>>

\* Deleting a trip deletes what is shown in it, its merged trips' items too.
Remove(t) ==
    /\ IsRoot(t)
    /\ exists' = exists \ {t}
    /\ into' = [s \in Trip |-> IF into[s] = t THEN NoTrip ELSE into[s]]
    /\ home' = [i \in Item |-> IF place[i] = t THEN Gone ELSE home[i]]
    /\ UNCHANGED unborn

\* Some merged trips are purged, none of them before a trip merged into it.
Purge(P) ==
    /\ P # {} /\ \A t \in P : t \in exists /\ into[t] # NoTrip
    /\ \A s \in exists \ P : into[s] \notin P
    /\ exists' = exists \ P
    /\ into' = [s \in Trip |-> IF s \in P THEN NoTrip ELSE into[s]]
    /\ home' = [i \in Item |-> IF home[i] \in Trip THEN Heir(P, home[i]) ELSE home[i]]
    /\ UNCHANGED unborn

Step ==
    \/ \E t \in Trip, new \in SUBSET Item : Open(t, new)
    \/ \E t \in Trip, i \in Item : File(t, i)
    \/ \E i \in Item : Drop(i)
    \/ \E s, t \in Trip : Merge(s, t)
    \/ \E t \in Trip : Undo(t) \/ Remove(t)
    \/ \E P \in SUBSET Trip : Purge(P)

Next == Step /\ place' = ShownIn(into', home')

Spec == Init /\ [][Next]_vars
=============================================================================
