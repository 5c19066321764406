----------------------------- MODULE TripMerge -----------------------------
(* Trips, the items filed under them, and the merge / undo / purge cycle:     *)
(* trips/merge.py, the handlers of routes/trips.py and routes/segments.py     *)
(* that race with it, and the purge_merged_trips cron job of worker.py.       *)
(*                                                                            *)
(* A handler is split where it awaits the database: Load* is the SELECT and   *)
(* the checks made on its result, Apply* is everything from the first write   *)
(* to the commit.  What the handler keeps in its ORM objects between the two  *)
(* is in session[x].  Postgres runs at READ COMMITTED, so Apply* reads the    *)
(* rows as they are then, and an ORM UPDATE writes only the columns whose new *)
(* value differs from the loaded one.                                         *)
(*                                                                            *)
(* One user owns every trip: the program only ever adds a trip's creator as   *)
(* its traveler.  An item stands for a segment, an expense or a document,     *)
(* which merge and undo treat alike.                                          *)
EXTENDS Integers

CONSTANTS
    Trip,       \* trip ids; an id is used once
    Item,       \* ids of segments, expenses and documents; used once
    Session,    \* requests that may be in progress at the same time
    Day,        \* the calendar
    UndoWindow, \* _UNDO_WINDOW and the cron job's cutoff, in clock ticks
    NoTrip,     \* NULL in merged_into_id
    Unborn,     \* the trip of an item not yet inserted
    Gone        \* the trip of an item that was deleted

ASSUME SentinelAssumption == /\ {NoTrip, Unborn, Gone} \cap Trip = {}
                             /\ Unborn # Gone
ASSUME DayAssumption      == Day \subseteq Int /\ Day # {}
ASSUME WindowAssumption   == UndoWindow \in Nat

VARIABLES
    unborn,     \* trip ids not yet used
    exists,     \* rows of the table trips
    span,       \* start_date and end_date of each trip
    travelled,  \* trips with a trip_travelers row (for their creator)
    mergedInto, \* merged_into_id
    mergedAge,  \* time since merged_at, NoAge when that is NULL
    audit,      \* merge_audit
    tripOf,     \* trip_id of each item
    session     \* the request each session has in progress

vars == <<unborn, exists, span, travelled, mergedInto, mergedAge, audit,
          tripOf, session>>
trips == <<unborn, exists, span, travelled, mergedInto, mergedAge, audit>>

-----------------------------------------------------------------------------
NoAge == -1
\* Ages beyond the window are all alike: the clock stops counting there.
Age   == 0 .. UndoWindow + 1

Span == {p \in [start : Day, end : Day] : p.start <= p.end}

\* min of the starts, max of the ends
Hull(p, q) == [start |-> IF q.start < p.start THEN q.start ELSE p.start,
               end   |-> IF q.end > p.end THEN q.end ELSE p.end]

NoAudit == [items |-> {}, added |-> FALSE]
\* The items moved, whether the target gained its traveler from the merge, and
\* the target's dates before it.
Audit == [items : SUBSET Item, added : BOOLEAN, pre : Span]

Idle == [op |-> "idle"]
\* dst is the trip row the request loaded for update, loaded its dates as read
\* and want the dates it will ask for.
Request ==
    {Idle} \cup [op : {"delete"}, dst : Trip]
           \cup [op : {"edit", "attach"}, dst : Trip, loaded : Span, want : Span]
           \cup [op : {"merge"}, src : Trip, dst : Trip, loaded : Span, want : Span]
           \cup [op : {"captured"}, src : Trip, dst : Trip, loaded : Span,
                 want : Span, items : SUBSET Item, added : BOOLEAN]
           \cup [op : {"undo"}, src : Trip, dst : Trip, loaded : Span,
                 want : Span, audit : Audit]

Merged(t) == t \in exists /\ mergedInto[t] # NoTrip
Live(t)   == t \in exists /\ mergedInto[t] = NoTrip
\* require_traveler: the join on trip_travelers and the soft-delete filter
Reachable(t) == Live(t) /\ t \in travelled

\* The dates an UPDATE leaves: a column equal to what was loaded is not written.
NewSpan(r) ==
    [start |-> IF r.want.start = r.loaded.start
               THEN span[r.dst].start ELSE r.want.start,
     end   |-> IF r.want.end = r.loaded.end
               THEN span[r.dst].end ELSE r.want.end]

\* Mutant: a write to a trip deleted since it was loaded goes through.
CommitsBlindly(r) == NewSpan(r) \in Span

\* An UPDATE that matches no row, a foreign key to a deleted trip and the
\* CHECK on the dates all roll the transaction back.
Commits(r) == /\ r.dst \in exists
              /\ r.op \in {"captured", "undo"} => r.src \in exists
              /\ NewSpan(r) \in Span

Init ==
    /\ unborn = Trip
    /\ exists = {}
    /\ span = [t \in Trip |-> CHOOSE p \in Span : TRUE]
    /\ travelled = {}
    /\ mergedInto = [t \in Trip |-> NoTrip]
    /\ mergedAge = [t \in Trip |-> NoAge]
    /\ audit = [t \in Trip |-> NoAudit]
    /\ tripOf = [i \in Item |-> Unborn]
    /\ session = [x \in Session |-> Idle]

-----------------------------------------------------------------------------
\* POST /trips: the row alone.
CreateTrip(t, p) ==
    /\ t \in unborn
    /\ unborn' = unborn \ {t}
    /\ exists' = exists \cup {t}
    /\ span' = [span EXCEPT ![t] = p]
    /\ UNCHANGED <<travelled, mergedInto, mergedAge, audit, tripOf, session>>

\* A segment for a new trip, from the form or from an email: the trip, its
\* creator as traveler and the segment in one transaction.
CreateTripWithItem(t, p, i) ==
    /\ t \in unborn
    /\ tripOf[i] = Unborn
    /\ unborn' = unborn \ {t}
    /\ exists' = exists \cup {t}
    /\ span' = [span EXCEPT ![t] = p]
    /\ travelled' = travelled \cup {t}
    /\ tripOf' = [tripOf EXCEPT ![i] = t]
    /\ UNCHANGED <<mergedInto, mergedAge, audit, session>>

DeleteItem(i) ==
    /\ tripOf[i] \in Trip
    /\ Reachable(tripOf[i])
    /\ tripOf' = [tripOf EXCEPT ![i] = Gone]
    /\ UNCHANGED <<trips, session>>

-----------------------------------------------------------------------------
Start(x, r) == /\ session[x] = Idle
               /\ session' = [session EXCEPT ![x] = r]
               /\ UNCHANGED <<trips, tripOf>>
Finish(x)   == session' = [session EXCEPT ![x] = Idle]

\* A new segment, expense or document for an existing trip; q holds the dates
\* of a segment from the form, which widen the trip's.
LoadAttach(x, t, q) ==
    /\ Reachable(t)
    /\ Start(x, [op |-> "attach", dst |-> t, loaded |-> span[t],
                 want |-> Hull(span[t], q)])

ApplyAttach(x, i) ==
    LET r == session[x] IN
    /\ r.op = "attach" /\ Commits(r)
    /\ tripOf[i] = Unborn
    /\ tripOf' = [tripOf EXCEPT ![i] = r.dst]
    /\ span' = [span EXCEPT ![r.dst] = NewSpan(r)]
    /\ Finish(x)
    /\ UNCHANGED <<unborn, exists, travelled, mergedInto, mergedAge, audit>>

LoadEdit(x, t, p) ==
    /\ Reachable(t)
    /\ Start(x, [op |-> "edit", dst |-> t, loaded |-> span[t], want |-> p])

ApplyEdit(x) ==
    LET r == session[x] IN
    /\ r.op = "edit" /\ Commits(r)
    /\ span' = [span EXCEPT ![r.dst] = NewSpan(r)]
    /\ Finish(x)
    /\ UNCHANGED <<unborn, exists, travelled, mergedInto, mergedAge, audit, tripOf>>

\* DELETE FROM trips: items and traveler rows cascade, merged_into_id of the
\* surviving sources is set to NULL; their merged_at and merge_audit stay.
DeleteRows(P) ==
    /\ exists' = exists \ P
    /\ travelled' = travelled \ P
    /\ tripOf' = [i \in Item |-> IF tripOf[i] \in P THEN Gone ELSE tripOf[i]]
    /\ mergedInto' = [t \in Trip |-> IF t \in P \/ mergedInto[t] \in P
                                     THEN NoTrip ELSE mergedInto[t]]
    /\ mergedAge' = [t \in Trip |-> IF t \in P THEN NoAge ELSE mergedAge[t]]
    /\ audit' = [t \in Trip |-> IF t \in P THEN NoAudit ELSE audit[t]]

LoadDelete(x, t) == Reachable(t) /\ Start(x, [op |-> "delete", dst |-> t])

\* A DELETE that matches no row is no error.
ApplyDelete(x) ==
    /\ session[x].op = "delete"
    /\ DeleteRows({session[x].dst} \cap exists)
    /\ Finish(x)
    /\ UNCHANGED <<unborn, span>>

-----------------------------------------------------------------------------
\* Mutant: a trip may be merged into one that was merged already.
MayMergeIntoMerged(s, t) == s # t /\ Live(s) /\ t \in exists

\* Mutant: nor is a trip refused that was merged before.
MayMergeAgain(s, t) == s # t /\ s \in exists /\ Live(t)

\* POST /trips/{src}/merge-into/{dst}: the checks, on rows read here
MayMerge(s, t) == s # t /\ Live(s) /\ Live(t)

LoadMerge(x, s, t) ==
    /\ MayMerge(s, t)
    /\ Start(x, [op |-> "merge", src |-> s, dst |-> t, loaded |-> span[t],
                 want |-> Hull(span[t], span[s])])

\* The SELECTs that fill the audit, made before any row is moved.
CaptureMerge(x) ==
    LET r == session[x] IN
    /\ r.op = "merge"
    /\ session' = [session EXCEPT ![x] =
          [op |-> "captured", src |-> r.src, dst |-> r.dst, loaded |-> r.loaded,
           want |-> r.want, items |-> {i \in Item : tripOf[i] = r.src},
           added |-> r.src \in travelled /\ r.dst \notin travelled]]
    /\ UNCHANGED <<trips, tripOf>>

\* Mutant: the two trips are swapped in the UPDATE.
MoveAllSwapped(s, t) == [i \in Item |-> IF tripOf[i] = t THEN s ELSE tripOf[i]]

\* UPDATE ... SET trip_id = dst WHERE trip_id = src
MoveAll(s, t) == [i \in Item |-> IF tripOf[i] = s THEN t ELSE tripOf[i]]

ApplyMerge(x) ==
    LET r == session[x] IN
    /\ r.op = "captured" /\ Commits(r)
    /\ tripOf' = MoveAll(r.src, r.dst)
    /\ travelled' = (IF r.added /\ r.src \in travelled
                     THEN travelled \cup {r.dst} ELSE travelled) \ {r.src}
    /\ span' = [span EXCEPT ![r.dst] = NewSpan(r)]
    /\ mergedInto' = [mergedInto EXCEPT ![r.src] = r.dst]
    /\ mergedAge' = [mergedAge EXCEPT ![r.src] = 0]
    /\ audit' = [audit EXCEPT ![r.src] =
                    [items |-> r.items, added |-> r.added, pre |-> r.loaded]]
    /\ Finish(x)
    /\ UNCHANGED <<unborn, exists>>

\* POST /trips/{dst}/undo-merge/{src}: the chain rule and the window
MayUndo(s, t) == /\ Merged(s) /\ mergedInto[s] = t
                 /\ Live(t)
                 /\ mergedAge[s] \in 0 .. UndoWindow

LoadUndo(x, s, t) ==
    /\ MayUndo(s, t)
    /\ Start(x, [op |-> "undo", src |-> s, dst |-> t, loaded |-> span[t],
                 want |-> audit[s].pre, audit |-> audit[s]])

\* Mutant: everything in the target goes back, whether the audit names it or not.
MoveBackAll(r) == [i \in Item |-> IF tripOf[i] = r.dst THEN r.src ELSE tripOf[i]]

\* UPDATE ... SET trip_id = src WHERE id IN audit AND trip_id = dst
MoveBack(r) == [i \in Item |-> IF i \in r.audit.items /\ tripOf[i] = r.dst
                               THEN r.src ELSE tripOf[i]]

\* Travelers the merge added go back; the source's creator is re-added anyway.
ApplyUndo(x) ==
    LET r == session[x] IN
    /\ r.op = "undo" /\ Commits(r)
    /\ tripOf' = MoveBack(r)
    /\ travelled' = (IF r.audit.added THEN travelled \ {r.dst} ELSE travelled)
                    \cup {r.src}
    /\ span' = [span EXCEPT ![r.dst] = NewSpan(r)]
    /\ mergedInto' = [mergedInto EXCEPT ![r.src] = NoTrip]
    /\ mergedAge' = [mergedAge EXCEPT ![r.src] = NoAge]
    /\ audit' = [audit EXCEPT ![r.src] = NoAudit]
    /\ Finish(x)
    /\ UNCHANGED <<unborn, exists>>

Rollback(x) ==
    /\ session[x].op \in {"attach", "edit", "captured", "undo"}
    /\ ~Commits(session[x])
    /\ Finish(x)
    /\ UNCHANGED <<trips, tripOf>>

-----------------------------------------------------------------------------
\* Mutants: the comparison with the cutoff is turned round; the filter on
\* merged_into_id is.
ExpiredYoung(t)    == Merged(t) /\ mergedAge[t] <= UndoWindow
ExpiredUnmerged(t) == Live(t) /\ mergedAge[t] > UndoWindow

\* merged_at < cutoff
Expired(t) == Merged(t) /\ mergedAge[t] > UndoWindow

\* The daily purge_merged_trips: one DELETE.
Sweep ==
    /\ \E t \in Trip : Expired(t)
    /\ DeleteRows({t \in Trip : Expired(t)})
    /\ UNCHANGED <<unborn, span, session>>

Tick ==
    /\ \E t \in Trip : mergedAge[t] \in 0 .. UndoWindow
    /\ mergedAge' = [t \in Trip |-> IF mergedAge[t] \in 0 .. UndoWindow
                                    THEN mergedAge[t] + 1 ELSE mergedAge[t]]
    /\ UNCHANGED <<unborn, exists, span, travelled, mergedInto, audit, tripOf,
                   session>>

Respond(x) ==
    \/ \E t \in Trip, q \in Span : LoadAttach(x, t, q) \/ LoadEdit(x, t, q)
    \/ \E t \in Trip : LoadDelete(x, t)
    \/ \E s, t \in Trip : LoadMerge(x, s, t) \/ LoadUndo(x, s, t)
    \/ \E i \in Item : ApplyAttach(x, i)
    \/ CaptureMerge(x)
    \/ ApplyEdit(x) \/ ApplyDelete(x) \/ ApplyMerge(x) \/ ApplyUndo(x)
    \/ Rollback(x)

Next ==
    \/ \E t \in Trip, p \in Span : CreateTrip(t, p)
    \/ \E t \in Trip, p \in Span, i \in Item : CreateTripWithItem(t, p, i)
    \/ \E i \in Item : DeleteItem(i)
    \/ \E x \in Session : Respond(x)
    \/ Sweep
    \/ Tick

Spec == Init /\ [][Next]_vars

\* The trip a request is about to empty or refill, and the trips it writes to
\* or moves items to.
Moved(x) == IF session[x].op \in {"merge", "captured", "undo"}
            THEN {session[x].src} ELSE {}
Used(x)  == Moved(x) \cup (IF session[x].op \in {"idle", "edit"}
                           THEN {} ELSE {session[x].dst})

\* What holds while no two requests collide over the source of a merge or undo,
\* as if each locked its source and shared its target.  No handler takes such
\* locks: merge_race shows what happens when two do collide.
Apart == \A x, y \in Session : x # y => Moved(x) \cap Used(y) = {}

ApartSpec == Init /\ [][Next /\ Apart']_vars

\* The clock advances and the cron job runs; nobody has to send a request.
FairSpec == ApartSpec /\ WF_vars(Sweep) /\ WF_vars(Tick)
-----------------------------------------------------------------------------
(* Properties *)

\* The foreign keys of the schema hold and every loaded object is well formed.
TypeOK ==
    /\ unborn \subseteq Trip /\ exists \subseteq Trip \ unborn
    /\ span \in [Trip -> Span]
    /\ travelled \subseteq exists
    /\ mergedInto \in [Trip -> exists \cup {NoTrip}]
    /\ \A t \in Trip : mergedInto[t] # NoTrip => t \in exists
    /\ mergedAge \in [Trip -> Age \cup {NoAge}]
    /\ audit \in [Trip -> Audit \cup {NoAudit}]
    /\ tripOf \in [Item -> exists \cup {Unborn, Gone}]
    /\ session \in [Session -> Request]

\* A soft-deleted trip holds no items: all of them went to the target, so that
\* purge_merged_trips, whose DELETE cascades to items, removes an empty shell.
ShellsAreEmpty == \A t \in Trip : Merged(t) => \A i \in Item : tripOf[i] # t

\* When the purge comes for a trip its items have been reassigned.
PurgeFindsShells == \A t \in Trip : Expired(t) => \A i \in Item : tripOf[i] # t

\* A merge target that was merged itself was merged later than its sources, so
\* that the purge takes a chain of merges from its far end.
ChainsOrdered ==
    \A s \in Trip : Merged(s) /\ Merged(mergedInto[s])
                       => mergedAge[mergedInto[s]] <= mergedAge[s]

\* Following merged_into_id from a soft-deleted trip ends: no merges, undos and
\* deletions of targets close a circle.
NoCycles ==
    \A D \in SUBSET {t \in Trip : Merged(t)} :
        D # {} => \E t \in D : mergedInto[t] \notin D

\* A merge stands as it was made until it is undone or its trips are deleted: a
\* second submit does not point it elsewhere, replace its audit, from which an
\* undo restores, or start its time to undo again.
MergesStand ==
    [][\A t \in Trip : Merged(t) /\ Merged(t)'
           => /\ mergedInto'[t] = mergedInto[t] /\ audit'[t] = audit[t]
              /\ mergedAge'[t] >= mergedAge[t]]_vars

\* The purge never removes the target of a trip it leaves behind: the SET NULL
\* of the self-reference would bring that empty source back among the live trips.
SweepOrphansNothing ==
    [][Sweep => \A s \in Trip : mergedInto[s] \in exists \ exists'
                                   => s \notin exists']_vars

\* Every soft-deleted trip is purged, undone or, with its target, deleted.
MergesAreResolved == \A t \in Trip : Merged(t) ~> ~Merged(t)

\* Every item is in a trip its owner can open.
NoItemStranded == \A i \in Item : tripOf[i] \in Trip => Reachable(tripOf[i])
=============================================================================
