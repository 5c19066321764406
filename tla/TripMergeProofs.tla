-------------------------- MODULE TripMergeProofs --------------------------
(* Theorems about TripMerge, for every set of trips, items and days and every *)
(* window.  TypeOK holds however many requests interleave; what merge and     *)
(* purge rely on holds while no two requests collide over the source of a     *)
(* merge or undo (Apart), against any timing of the clock and the cron job.   *)
EXTENDS TripMerge, TLAPS

\* A soft-deleted trip carries its audit and the time of its merge.
MergeColumns == \A t \in Trip : mergedInto[t] # NoTrip
                    => audit[t] \in Audit /\ mergedAge[t] \in Age

TypeInv == TypeOK /\ MergeColumns

LEMMA HullIsSpan == ASSUME NEW p \in Span, NEW q \in Span PROVE Hull(p, q) \in Span
<1>1. /\ p.start \in Day /\ p.end \in Day /\ p.start <= p.end
      /\ q.start \in Day /\ q.end \in Day /\ q.start <= q.end
  BY DEF Span
<1>. DEFINE a == IF q.start < p.start THEN q.start ELSE p.start
            b == IF q.end > p.end THEN q.end ELSE p.end
<1>2. a \in Day /\ b \in Day /\ a <= b
  <2>1. p.start \in Int /\ p.end \in Int /\ q.start \in Int /\ q.end \in Int
    BY <1>1, DayAssumption
  <2>2. a \in Day /\ b \in Day
    BY <1>1
  <2>3. a <= p.start /\ p.end <= b
    BY <2>1
  <2>4. a \in Int /\ b \in Int
    BY <2>2, DayAssumption
  <2>. QED
    BY <1>1, <2>1, <2>2, <2>3, <2>4
<1>3. [start |-> a, end |-> b] \in Span
  <2>. HIDE DEF a, b
  <2>. QED
    BY <1>2 DEF Span
<1>. QED
  BY <1>3 DEF Hull

LEMMA SpanExists == (CHOOSE p \in Span : TRUE) \in Span
<1>1. PICK d \in Day : TRUE
  BY DayAssumption
<1>2. [start |-> d, end |-> d] \in Span
  BY DayAssumption DEF Span
<1>. QED
  BY <1>2

LEMMA NoAge_ == NoAge = -1 /\ NoAge \notin Age /\ 0 \in Age
                /\ \A n \in 0 .. UndoWindow : n \in Age /\ n + 1 \in Age
  BY WindowAssumption DEF NoAge, Age

LEMMA TypeInit == Init => TypeInv
  BY SpanExists, SentinelAssumption
  DEF Init, TypeInv, TypeOK, MergeColumns, Request

\* Deleting rows keeps the foreign keys, whatever rows they are.
LEMMA DeleteRowsType ==
  ASSUME TypeInv, NEW P \in SUBSET exists, DeleteRows(P), unborn' = unborn,
         span' = span, session' \in [Session -> Request]
  PROVE  TypeInv'
<1>. USE SentinelAssumption DEF TypeInv, TypeOK, MergeColumns, DeleteRows
<1>1. exists' \subseteq Trip \ unborn' /\ travelled' \subseteq exists'
  OBVIOUS
<1>2. mergedInto' \in [Trip -> exists' \cup {NoTrip}]
  OBVIOUS
<1>3. \A t \in Trip : mergedInto'[t] # NoTrip =>
          /\ t \in exists' /\ mergedInto[t] # NoTrip
          /\ mergedAge'[t] = mergedAge[t] /\ audit'[t] = audit[t]
  OBVIOUS
<1>4. mergedAge' \in [Trip -> Age \cup {NoAge}] /\ audit' \in [Trip -> Audit \cup {NoAudit}]
  OBVIOUS
<1>5. tripOf' \in [Item -> exists' \cup {Unborn, Gone}]
  OBVIOUS
<1>. QED
  BY <1>1, <1>2, <1>3, <1>4, <1>5

LEMMA RequestFields ==
  ASSUME NEW r \in Request, r # Idle
  PROVE  /\ r.dst \in Trip
         /\ r.op \in {"edit", "attach", "merge", "captured", "undo"} =>
                r.loaded \in Span /\ r.want \in Span
         /\ r.op \in {"merge", "captured", "undo"} => r.src \in Trip
         /\ r.op = "captured" => r.items \in SUBSET Item /\ r.added \in BOOLEAN
         /\ r.op = "undo" => r.audit \in Audit
  BY DEF Request, Idle

LEMMA TypeStep == TypeInv /\ [Next]_vars => TypeInv'
<1>. SUFFICES ASSUME TypeInv, [Next]_vars PROVE TypeInv'
  OBVIOUS
<1>. USE DEF TypeInv
<1>1. ASSUME NEW t \in Trip, NEW p \in Span, CreateTrip(t, p)  PROVE TypeInv'
  BY <1>1, SentinelAssumption DEF CreateTrip, TypeOK, MergeColumns
<1>2. ASSUME NEW t \in Trip, NEW p \in Span, NEW i \in Item,
             CreateTripWithItem(t, p, i)
      PROVE  TypeInv'
  BY <1>2, SentinelAssumption DEF CreateTripWithItem, TypeOK, MergeColumns
<1>3. ASSUME NEW i \in Item, DeleteItem(i)  PROVE TypeInv'
  BY <1>3 DEF DeleteItem, TypeOK, MergeColumns, trips
<1>4. ASSUME NEW x \in Session, Respond(x)  PROVE TypeInv'
  <2>0. /\ session[x] \in Request
        /\ \A r \in Request : [session EXCEPT ![x] = r] \in [Session -> Request]
        /\ Idle \in Request
    BY DEF TypeOK, Request
  <2>1. ASSUME NEW r \in Request, Start(x, r)  PROVE TypeInv'
    BY <2>0, <2>1 DEF Start, TypeOK, MergeColumns, trips
  <2>2. ASSUME NEW t \in Trip, NEW q \in Span, LoadAttach(x, t, q)  PROVE TypeInv'
    <3>1. [op |-> "attach", dst |-> t, loaded |-> span[t], want |-> Hull(span[t], q)]
              \in Request
      BY HullIsSpan DEF TypeOK, Request
    <3>. QED
      BY <2>1, <2>2, <3>1 DEF LoadAttach
  <2>3. ASSUME NEW t \in Trip, NEW q \in Span, LoadEdit(x, t, q)  PROVE TypeInv'
    <3>1. [op |-> "edit", dst |-> t, loaded |-> span[t], want |-> q] \in Request
      BY DEF TypeOK, Request
    <3>. QED
      BY <2>1, <2>3, <3>1 DEF LoadEdit
  <2>4. ASSUME NEW t \in Trip, LoadDelete(x, t)  PROVE TypeInv'
    <3>1. [op |-> "delete", dst |-> t] \in Request
      BY DEF Request
    <3>. QED
      BY <2>1, <2>4, <3>1 DEF LoadDelete
  <2>5. ASSUME NEW s \in Trip, NEW t \in Trip, LoadMerge(x, s, t)  PROVE TypeInv'
    <3>1. [op |-> "merge", src |-> s, dst |-> t, loaded |-> span[t],
           want |-> Hull(span[t], span[s])] \in Request
      BY HullIsSpan DEF TypeOK, Request
    <3>. QED
      BY <2>1, <2>5, <3>1 DEF LoadMerge
  <2>6. ASSUME NEW s \in Trip, NEW t \in Trip, LoadUndo(x, s, t)  PROVE TypeInv'
    <3>1. audit[s] \in Audit /\ audit[s].pre \in Span
      BY <2>6 DEF LoadUndo, MayUndo, Merged, MergeColumns, Audit
    <3>2. [op |-> "undo", src |-> s, dst |-> t, loaded |-> span[t],
           want |-> audit[s].pre, audit |-> audit[s]] \in Request
      BY <3>1 DEF TypeOK, Request
    <3>. QED
      BY <2>1, <2>6, <3>2 DEF LoadUndo
  <2>7. ASSUME NEW i \in Item, ApplyAttach(x, i)  PROVE TypeInv'
    <3>1. session[x].dst \in exists /\ NewSpan(session[x]) \in Span
      BY <2>7 DEF ApplyAttach, Commits
    <3>. QED
      BY <2>0, <2>7, <3>1 DEF ApplyAttach, Finish, TypeOK, MergeColumns
  <2>8. CASE CaptureMerge(x)
    <3>. DEFINE r == session[x]
                c == [op |-> "captured", src |-> r.src, dst |-> r.dst,
                      loaded |-> r.loaded, want |-> r.want,
                      items |-> {i \in Item : tripOf[i] = r.src},
                      added |-> r.src \in travelled /\ r.dst \notin travelled]
    <3>1. r.src \in Trip /\ r.dst \in Trip /\ r.loaded \in Span /\ r.want \in Span
      BY <2>0, <2>8, RequestFields DEF CaptureMerge, Idle
    <3>2. c \in Request
      BY <3>1 DEF Request
    <3>3. session' \in [Session -> Request]
      BY <2>0, <2>8, <3>2 DEF CaptureMerge
    <3>. QED
      BY <2>8, <3>3 DEF CaptureMerge, TypeOK, MergeColumns, trips
  <2>9. CASE ApplyEdit(x)
    <3>1. session[x].dst \in exists /\ NewSpan(session[x]) \in Span
      BY <2>9 DEF ApplyEdit, Commits
    <3>. QED
      BY <2>0, <2>9, <3>1 DEF ApplyEdit, Finish, TypeOK, MergeColumns
  <2>10. CASE ApplyDelete(x)
    <3>1. session' \in [Session -> Request]
      BY <2>0, <2>10 DEF ApplyDelete, Finish
    <3>. QED
      BY <2>10, <3>1, DeleteRowsType DEF ApplyDelete
  <2>11. CASE ApplyMerge(x)
    <3>. DEFINE r == session[x]
    <3>1. /\ r.dst \in exists /\ r.src \in exists /\ NewSpan(r) \in Span
          /\ r.items \in SUBSET Item /\ r.added \in BOOLEAN /\ r.loaded \in Span
      BY <2>0, <2>11, RequestFields DEF ApplyMerge, Commits, Idle
    <3>2. [items |-> r.items, added |-> r.added, pre |-> r.loaded] \in Audit
      BY <3>1 DEF Audit
    <3>3. tripOf' \in [Item -> exists' \cup {Unborn, Gone}]
      BY <2>11, <3>1 DEF ApplyMerge, MoveAll, TypeOK
    <3>4. travelled' \subseteq exists' /\ session' \in [Session -> Request]
      BY <2>0, <2>11, <3>1 DEF ApplyMerge, Finish, TypeOK
    <3>. QED
      BY <2>11, <3>1, <3>2, <3>3, <3>4, NoAge_ DEF ApplyMerge, TypeOK, MergeColumns
  <2>12. CASE ApplyUndo(x)
    <3>. DEFINE r == session[x]
    <3>1. r.dst \in exists /\ r.src \in exists /\ NewSpan(r) \in Span
      BY <2>12 DEF ApplyUndo, Commits
    <3>2. tripOf' \in [Item -> exists' \cup {Unborn, Gone}]
      BY <2>12, <3>1 DEF ApplyUndo, MoveBack, TypeOK
    <3>3. travelled' \subseteq exists' /\ session' \in [Session -> Request]
      BY <2>0, <2>12, <3>1 DEF ApplyUndo, Finish, TypeOK
    <3>. QED
      BY <2>12, <3>1, <3>2, <3>3 DEF ApplyUndo, TypeOK, MergeColumns
  <2>13. CASE Rollback(x)
    BY <2>0, <2>13 DEF Rollback, Finish, TypeOK, MergeColumns, trips
  <2>. QED
    BY <1>4, <2>2, <2>3, <2>4, <2>5, <2>6, <2>7, <2>8, <2>9, <2>10, <2>11, <2>12,
       <2>13 DEF Respond
<1>5. CASE Sweep
  <2>1. {t \in Trip : Expired(t)} \in SUBSET exists
    BY DEF Expired, Merged
  <2>. QED
    BY <1>5, <2>1, DeleteRowsType DEF Sweep, TypeOK
<1>6. CASE Tick
  BY <1>6, NoAge_ DEF Tick, TypeOK, MergeColumns
<1>7. CASE UNCHANGED vars
  BY <1>7 DEF vars, TypeOK, MergeColumns
<1>. QED
  BY <1>1, <1>2, <1>3, <1>4, <1>5, <1>6, <1>7 DEF Next

\* However many requests interleave, no item, traveler or merge refers to a
\* trip that is gone, and an undo always finds the audit it needs.
THEOREM TypeCorrect == Spec => []TypeOK
<1>1. TypeInv => TypeOK
  BY DEF TypeInv
<1>. QED
  BY TypeInit, TypeStep, <1>1, PTL DEF Spec

-----------------------------------------------------------------------------
\* What a handler checked still holds when it writes: the purge, the clock and
\* the other requests can remove a trip it loaded but never merge one.
Undisturbed(x) ==
    /\ session[x].op \in {"attach", "merge", "captured", "undo"}
           => mergedInto[session[x].dst] = NoTrip
    /\ session[x].op \in {"merge", "captured"}
           => /\ session[x].src # session[x].dst
              /\ mergedInto[session[x].src] = NoTrip

AllUndisturbed == \A x \in Session : Undisturbed(x)

ApartInv == TypeInv /\ Apart /\ ShellsAreEmpty /\ ChainsOrdered /\ AllUndisturbed

LEMMA ApartInit == Init => ApartInv
  BY TypeInit, SentinelAssumption
  DEF Init, ApartInv, Apart, Moved, ShellsAreEmpty, ChainsOrdered, AllUndisturbed,
      Undisturbed, Merged, Idle

\* A step that starts no request and merges no trip leaves snapshots valid.
LEMMA StaysUndisturbed ==
  ASSUME TypeInv, AllUndisturbed,
         \A t \in Trip : mergedInto'[t] \in {mergedInto[t], NoTrip},
         \A x \in Session : session'[x] \in {session[x], Idle}
  PROVE  AllUndisturbed'
<1>. SUFFICES ASSUME NEW x \in Session, session'[x] = session[x], session[x] # Idle
              PROVE  /\ session[x].op \in {"attach", "merge", "captured", "undo"}
                           => mergedInto'[session[x].dst] = NoTrip
                     /\ session[x].op \in {"merge", "captured"}
                           => /\ session[x].src # session[x].dst
                              /\ mergedInto'[session[x].src] = NoTrip
  BY DEF AllUndisturbed, Undisturbed, Idle
<1>1. session[x] \in Request
  BY DEF TypeInv, TypeOK
<1>. QED
  BY <1>1, RequestFields DEF AllUndisturbed, Undisturbed

\* Nor does it put an item into a soft-deleted trip.
LEMMA StayEmpty ==
  ASSUME ShellsAreEmpty, \A t \in Trip : Merged(t)' => Merged(t),
         \A i \in Item : tripOf'[i] = tripOf[i] \/ \A t \in Trip : Merged(t)' => tripOf'[i] # t
  PROVE  ShellsAreEmpty'
  BY DEF ShellsAreEmpty

LEMMA StayOrdered ==
  ASSUME TypeInv, ChainsOrdered,
         \A t \in Trip : Merged(t)' => /\ Merged(t) /\ mergedInto'[t] = mergedInto[t]
                                       /\ mergedAge'[t] = mergedAge[t]
  PROVE  ChainsOrdered'
<1>. SUFFICES ASSUME NEW s \in Trip, Merged(s)', Merged(mergedInto[s])',
                     mergedInto'[s] = mergedInto[s]
              PROVE  mergedAge'[mergedInto[s]] <= mergedAge'[s]
  BY DEF ChainsOrdered
<1>1. mergedInto[s] \in Trip
  BY SentinelAssumption DEF TypeInv, TypeOK, Merged
<1>. QED
  BY <1>1 DEF ChainsOrdered

LEMMA DeleteRowsKeeps ==
  ASSUME ApartInv, NEW P \in SUBSET exists, DeleteRows(P),
         \A x \in Session : session'[x] \in {session[x], Idle}
  PROVE  ShellsAreEmpty' /\ ChainsOrdered' /\ AllUndisturbed'
<1>. USE DEF ApartInv
<1>1. \A t \in Trip : mergedInto'[t] \in {mergedInto[t], NoTrip}
  BY DEF DeleteRows
<1>2. \A t \in Trip : Merged(t)' => /\ Merged(t) /\ mergedInto'[t] = mergedInto[t]
                                    /\ mergedAge'[t] = mergedAge[t]
  BY DEF DeleteRows, Merged
<1>3. \A i \in Item : tripOf'[i] \in {tripOf[i], Gone}
  BY DEF DeleteRows
<1>. QED
  BY <1>1, <1>2, <1>3, StaysUndisturbed, StayEmpty, StayOrdered, SentinelAssumption

LEMMA ApartStep ==
  ApartInv /\ [Next /\ Apart']_vars => ApartInv'
<1>. SUFFICES ASSUME ApartInv, [Next]_vars
              PROVE  ShellsAreEmpty' /\ ChainsOrdered' /\ AllUndisturbed'
  <2>1. Apart /\ UNCHANGED vars => Apart'
    BY DEF Apart, Moved, Used, vars
  <2>. QED
    BY <2>1, TypeStep DEF ApartInv
<1>. USE DEF ApartInv
<1>0. TypeInv' /\ \A t \in Trip \ exists : mergedInto[t] = NoTrip
  BY TypeStep DEF TypeInv, TypeOK
<1>1. ASSUME NEW t \in Trip, NEW p \in Span, CreateTrip(t, p)
      PROVE  ShellsAreEmpty' /\ ChainsOrdered' /\ AllUndisturbed'
  <2>1. \A u \in Trip : Merged(u)' => Merged(u)
    BY <1>0, <1>1 DEF CreateTrip, Merged
  <2>. QED
    BY <1>1, <2>1, StayEmpty, StayOrdered, StaysUndisturbed DEF CreateTrip
<1>2. ASSUME NEW t \in Trip, NEW p \in Span, NEW i \in Item,
             CreateTripWithItem(t, p, i)
      PROVE  ShellsAreEmpty' /\ ChainsOrdered' /\ AllUndisturbed'
  <2>1. \A u \in Trip : Merged(u)' => Merged(u) /\ u # t
    BY <1>0, <1>2 DEF CreateTripWithItem, Merged, TypeInv, TypeOK
  <2>2. \A j \in Item : tripOf'[j] \in {tripOf[j], t}
    BY <1>2 DEF CreateTripWithItem, TypeInv, TypeOK
  <2>. QED
    BY <1>2, <2>1, <2>2, StayEmpty, StayOrdered, StaysUndisturbed DEF CreateTripWithItem
<1>3. ASSUME NEW i \in Item, DeleteItem(i)
      PROVE  ShellsAreEmpty' /\ ChainsOrdered' /\ AllUndisturbed'
  <2>1. \A j \in Item : tripOf'[j] \in {tripOf[j], Gone}
    BY <1>3 DEF DeleteItem, TypeInv, TypeOK
  <2>2. \A u \in Trip : Merged(u)' => Merged(u)
    BY <1>3 DEF DeleteItem, trips, Merged
  <2>. QED
    BY <1>3, <2>1, <2>2, StayEmpty, StayOrdered, StaysUndisturbed, SentinelAssumption
    DEF DeleteItem, trips
<1>4. ASSUME NEW x \in Session, Respond(x)
      PROVE  ShellsAreEmpty' /\ ChainsOrdered' /\ AllUndisturbed'
  <2>. DEFINE r == session[x]
  <2>0. /\ r \in Request /\ Undisturbed(x)
        /\ \A q : session' = [session EXCEPT ![x] = q]
                     => /\ session'[x] = q
                        /\ \A y \in Session : y # x => session'[y] = session[y]
    BY DEF AllUndisturbed, TypeInv, TypeOK
  <2>1. ASSUME UNCHANGED <<trips, tripOf>>
        PROVE  ShellsAreEmpty' /\ ChainsOrdered'
    BY <2>1, StayEmpty, StayOrdered DEF trips, Merged
  <2>a. ASSUME NEW q, session' = [session EXCEPT ![x] = q], Undisturbed(x)',
               mergedInto' = mergedInto
        PROVE  AllUndisturbed'
    BY <2>0, <2>a DEF AllUndisturbed, Undisturbed
  <2>2. ASSUME NEW t \in Trip, NEW q \in Span, LoadAttach(x, t, q)
        PROVE  ShellsAreEmpty' /\ ChainsOrdered' /\ AllUndisturbed'
    BY <2>0, <2>1, <2>a, <2>2 DEF LoadAttach, Start, Reachable, Live, Undisturbed, trips
  <2>3. ASSUME NEW t \in Trip, NEW q \in Span, LoadEdit(x, t, q)
        PROVE  ShellsAreEmpty' /\ ChainsOrdered' /\ AllUndisturbed'
    BY <2>0, <2>1, <2>a, <2>3 DEF LoadEdit, Start, Undisturbed, trips
  <2>4. ASSUME NEW t \in Trip, LoadDelete(x, t)
        PROVE  ShellsAreEmpty' /\ ChainsOrdered' /\ AllUndisturbed'
    BY <2>0, <2>1, <2>a, <2>4 DEF LoadDelete, Start, Undisturbed, trips
  <2>5. ASSUME NEW s \in Trip, NEW t \in Trip, LoadMerge(x, s, t)
        PROVE  ShellsAreEmpty' /\ ChainsOrdered' /\ AllUndisturbed'
    BY <2>0, <2>1, <2>a, <2>5 DEF LoadMerge, Start, MayMerge, Live, Undisturbed, trips
  <2>6. ASSUME NEW s \in Trip, NEW t \in Trip, LoadUndo(x, s, t)
        PROVE  ShellsAreEmpty' /\ ChainsOrdered' /\ AllUndisturbed'
    <3>. DEFINE q == [op |-> "undo", src |-> s, dst |-> t, loaded |-> span[t],
                      want |-> audit[s].pre, audit |-> audit[s]]
    <3>1. Start(x, q) /\ mergedInto[t] = NoTrip /\ q.op = "undo" /\ q.dst = t
      BY <2>6 DEF LoadUndo, MayUndo, Live
    <3>. HIDE DEF q
    <3>. QED
      BY <2>0, <2>1, <2>a, <3>1 DEF Start, Undisturbed, trips
  <2>7. ASSUME NEW i \in Item, ApplyAttach(x, i)
        PROVE  ShellsAreEmpty' /\ ChainsOrdered' /\ AllUndisturbed'
    <3>1. mergedInto' = mergedInto /\ mergedInto[r.dst] = NoTrip
      BY <2>0, <2>7 DEF ApplyAttach, Undisturbed
    <3>2. \A j \in Item : tripOf'[j] \in {tripOf[j], r.dst}
      BY <2>7 DEF ApplyAttach, TypeInv, TypeOK
    <3>3. \A u \in Trip : Merged(u)' => Merged(u) /\ u # r.dst
      BY <2>7, <3>1 DEF ApplyAttach, Merged
    <3>. QED
      BY <2>0, <2>7, <3>1, <3>2, <3>3, StayEmpty, StayOrdered, StaysUndisturbed
      DEF ApplyAttach, Finish
  <2>8. CASE CaptureMerge(x)
    BY <2>0, <2>1, <2>a, <2>8 DEF CaptureMerge, Undisturbed, trips
  <2>9. CASE ApplyEdit(x)
    BY <2>0, <2>9, StayEmpty, StayOrdered, StaysUndisturbed
    DEF ApplyEdit, Finish, Merged
  <2>10. CASE ApplyDelete(x)
    BY <2>0, <2>10, DeleteRowsKeeps DEF ApplyDelete, Finish
  <2>11. CASE ApplyMerge(x)
    <3>1. /\ r.src \in Trip /\ r.dst \in Trip /\ r.src # r.dst /\ r.src \in exists
          /\ mergedInto[r.src] = NoTrip /\ mergedInto[r.dst] = NoTrip
      BY <2>0, <2>11, RequestFields DEF ApplyMerge, Commits, Undisturbed, Idle
    <3>2. /\ exists' = exists /\ mergedInto' = [mergedInto EXCEPT ![r.src] = r.dst]
          /\ mergedAge' = [mergedAge EXCEPT ![r.src] = 0]
          /\ \A i \in Item : tripOf'[i] = IF tripOf[i] = r.src THEN r.dst ELSE tripOf[i]
      BY <2>11 DEF ApplyMerge, MoveAll
    <3>3. \A u \in Trip : Merged(u)' => (u = r.src \/ Merged(u)) /\ u # r.dst
      BY <3>1, <3>2 DEF Merged, TypeInv, TypeOK
    <3>4. ShellsAreEmpty'
      BY <3>1, <3>2, <3>3 DEF ShellsAreEmpty
    <3>5. ASSUME NEW s \in Trip, Merged(s)', Merged(mergedInto[s])', s # r.src
          PROVE  mergedAge'[mergedInto[s]] <= mergedAge'[s]
      <4>1. Merged(s) /\ mergedInto[s] \in Trip /\ mergedAge[s] \in Age
        BY <3>3, <3>5, SentinelAssumption DEF Merged, TypeInv, TypeOK, MergeColumns
      <4>2. CASE mergedInto[s] = r.src
        BY <3>2, <3>5, <4>1, <4>2, WindowAssumption DEF Age, TypeInv, TypeOK
      <4>3. CASE mergedInto[s] # r.src
        <5>1. Merged(mergedInto[s])
          BY <3>2, <3>5, <4>1, <4>3 DEF Merged, TypeInv, TypeOK
        <5>. QED
          BY <3>2, <3>5, <4>1, <4>3, <5>1 DEF ChainsOrdered, TypeInv, TypeOK
      <4>. QED
        BY <4>2, <4>3
    <3>6. ChainsOrdered'
      <4>. SUFFICES ASSUME NEW s \in Trip, Merged(s)', Merged(mergedInto[s])'
                    PROVE  (mergedAge[mergedInto[s]] <= mergedAge[s])'
        BY DEF ChainsOrdered
      <4>1. s # r.src
        BY <3>1, <3>2, <3>3 DEF TypeInv, TypeOK
      <4>2. mergedInto'[s] = mergedInto[s]
        BY <3>2, <4>1 DEF TypeInv, TypeOK
      <4>. QED
        BY <3>5, <4>1, <4>2
    <3>7. ASSUME NEW y \in Session  PROVE Undisturbed(y)'
      <4>1. CASE y = x
        BY <2>0, <2>11, <4>1 DEF ApplyMerge, Finish, Undisturbed, Idle
      <4>2. CASE y # x
        <5>1. session'[y] = session[y] /\ session[y] \in Request /\ Undisturbed(y)
          BY <2>0, <2>11, <4>2 DEF ApplyMerge, Finish, AllUndisturbed, TypeInv, TypeOK
        <5>2. r.src \notin Used(y)
          BY <2>11, <4>2 DEF Apart, Moved, ApplyMerge
        <5>3. \A u \in Used(y) : mergedInto'[u] = mergedInto[u]
          BY <3>2, <5>2 DEF TypeInv, TypeOK
        <5>. QED
          BY <5>1, <5>3 DEF Undisturbed, Used, Moved
      <4>. QED
        BY <4>1, <4>2
    <3>. QED
      BY <3>4, <3>6, <3>7 DEF AllUndisturbed
  <2>12. CASE ApplyUndo(x)
    <3>1. mergedInto[r.dst] = NoTrip /\ r.src \in Trip /\ r.dst \in Trip
      BY <2>0, <2>12, RequestFields DEF ApplyUndo, Undisturbed, Idle
    <3>2. \A u \in Trip : Merged(u)' => /\ Merged(u) /\ mergedInto'[u] = mergedInto[u]
                                        /\ mergedAge'[u] = mergedAge[u]
                                        /\ u # r.src
      BY <2>12, <3>1 DEF ApplyUndo, Merged, TypeInv, TypeOK
    <3>3. \A i \in Item : tripOf'[i] \in {tripOf[i], r.src}
      BY <2>12 DEF ApplyUndo, MoveBack
    <3>4. \A u \in Trip : mergedInto'[u] \in {mergedInto[u], NoTrip}
      BY <2>12 DEF ApplyUndo, TypeInv, TypeOK
    <3>. QED
      BY <2>0, <2>12, <3>2, <3>3, <3>4, StayEmpty, StayOrdered, StaysUndisturbed
      DEF ApplyUndo, Finish
  <2>13. CASE Rollback(x)
    BY <2>0, <2>1, <2>13, StaysUndisturbed DEF Rollback, Finish, trips
  <2>. QED
    BY <1>4, <2>2, <2>3, <2>4, <2>5, <2>6, <2>7, <2>8, <2>9, <2>10, <2>11, <2>12,
       <2>13 DEF Respond
<1>5. CASE Sweep
  <2>1. {t \in Trip : Expired(t)} \in SUBSET exists
    BY DEF Expired, Merged
  <2>. QED
    BY <1>5, <2>1, DeleteRowsKeeps DEF Sweep
<1>6. CASE Tick
  <2>1. ShellsAreEmpty' /\ AllUndisturbed'
    BY <1>6, StayEmpty, StaysUndisturbed DEF Tick, Merged
  <2>2. ASSUME NEW s \in Trip, Merged(s), Merged(mergedInto[s])
        PROVE  mergedAge'[mergedInto[s]] <= mergedAge'[s]
    <3>1. mergedInto[s] \in Trip
      BY <2>2, SentinelAssumption DEF Merged, TypeInv, TypeOK
    <3>2. mergedAge[s] \in Age /\ mergedAge[mergedInto[s]] \in Age
      BY <2>2, <3>1 DEF Merged, TypeInv, MergeColumns
    <3>3. mergedAge[mergedInto[s]] <= mergedAge[s]
      BY <2>2 DEF ChainsOrdered
    <3>. QED
      BY <1>6, <3>1, <3>2, <3>3, WindowAssumption DEF Tick, Age
  <2>. QED
    BY <1>6, <2>1, <2>2 DEF Tick, ChainsOrdered, Merged
<1>7. CASE UNCHANGED vars
  BY <1>7, StayEmpty, StayOrdered, StaysUndisturbed DEF vars, Merged
<1>. QED
  BY <1>1, <1>2, <1>3, <1>4, <1>5, <1>6, <1>7 DEF Next

LEMMA ApartAlways == ApartSpec => []ApartInv
  BY ApartInit, ApartStep, PTL DEF ApartSpec

\* While requests keep apart the purge only ever removes empty trips: whatever
\* the merges, undos and deletions before, and whenever the cron job runs.
THEOREM EmptyShells == ApartSpec => []ShellsAreEmpty
<1>1. ApartInv => ShellsAreEmpty
  BY DEF ApartInv
<1>. QED
  BY <1>1, ApartAlways, PTL

\* Chains of merges grow at their live end, so ages decrease along them.
THEOREM OrderedChains == ApartSpec => []ChainsOrdered
<1>1. ApartInv => ChainsOrdered
  BY DEF ApartInv
<1>. QED
  BY <1>1, ApartAlways, PTL

\* Hence the purge takes with a target every trip merged into it, and its
\* SET NULL never revives one.
THEOREM NoOrphans == ApartSpec => SweepOrphansNothing
<1>1. ASSUME ApartInv, Sweep, NEW s \in Trip, mergedInto[s] \in exists \ exists'
      PROVE  s \notin exists'
  <2>1. mergedInto[s] \in Trip /\ Expired(mergedInto[s])
    BY <1>1 DEF Sweep, DeleteRows, ApartInv, TypeInv, TypeOK
  <2>2. Merged(s) /\ Merged(mergedInto[s])
    BY <1>1, <2>1, SentinelAssumption DEF Expired, Merged, ApartInv, TypeInv, TypeOK
  <2>3. mergedAge[s] \in Age /\ mergedAge[mergedInto[s]] \in Age
    BY <1>1, <2>1, <2>2 DEF ApartInv, TypeInv, MergeColumns, Merged
  <2>4. Expired(s)
    BY <1>1, <2>1, <2>2, <2>3, WindowAssumption
    DEF Expired, ApartInv, ChainsOrdered, Age
  <2>. QED
    BY <1>1, <2>4 DEF Sweep, DeleteRows
<1>2. ApartInv => (Sweep => \A s \in Trip : mergedInto[s] \in exists \ exists'
                                              => s \notin exists')
  BY <1>1
<1>. QED
  BY <1>2, ApartAlways, PTL DEF ApartSpec, SweepOrphansNothing

\* Only a merge writes the three columns of a trip that has them, and none gets
\* to write those of a trip that is merged already.
THEOREM MergesStay == ApartSpec => MergesStand
<1>. DEFINE Stands == \A t \in Trip : Merged(t) /\ Merged(t)'
                => /\ mergedInto'[t] = mergedInto[t] /\ audit'[t] = audit[t]
                   /\ mergedAge'[t] >= mergedAge[t]
<1>1. ASSUME ApartInv, [Next]_vars  PROVE Stands
  <2>0. \A t \in Trip : Merged(t) => mergedAge[t] \in Int
    BY <1>1, WindowAssumption DEF ApartInv, TypeInv, MergeColumns, Merged, Age
  <2>1. ASSUME UNCHANGED <<mergedInto, mergedAge, audit>>  PROVE Stands
    BY <2>0, <2>1
  <2>2. ASSUME NEW P, DeleteRows(P)  PROVE Stands
    BY <2>0, <2>2 DEF DeleteRows, Merged
  <2>3. ASSUME NEW x \in Session, ApplyMerge(x)  PROVE Stands
    <3>. DEFINE s == session[x].src
    <3>1. ~Merged(s)
      BY <1>1, <2>3 DEF ApplyMerge, ApartInv, AllUndisturbed, Undisturbed, Merged
    <3>2. \A t \in Trip : t # s => /\ mergedInto'[t] = mergedInto[t]
                                   /\ mergedAge'[t] = mergedAge[t] /\ audit'[t] = audit[t]
      BY <1>1, <2>3 DEF ApplyMerge, ApartInv, TypeInv, TypeOK
    <3>. QED
      BY <2>0, <3>1, <3>2
  <2>4. ASSUME NEW x \in Session, ApplyUndo(x)  PROVE Stands
    <3>1. \A t \in Trip : Merged(t)' => /\ mergedInto'[t] = mergedInto[t]
                                        /\ mergedAge'[t] = mergedAge[t]
                                        /\ audit'[t] = audit[t]
      BY <1>1, <2>4 DEF ApplyUndo, Merged, ApartInv, TypeInv, TypeOK
    <3>. QED
      BY <2>0, <3>1
  <2>5. CASE Tick
    BY <2>0, <2>5 DEF Tick
  <2>6. ASSUME NEW x \in Session, Respond(x)  PROVE Stands
    BY <2>1, <2>2, <2>3, <2>4, <2>6
    DEF Respond, LoadAttach, LoadEdit, LoadDelete, LoadMerge, LoadUndo, Start,
        ApplyAttach, CaptureMerge, ApplyEdit, ApplyDelete, Rollback, trips
  <2>. QED
    BY <1>1, <2>1, <2>2, <2>5, <2>6
    DEF Next, CreateTrip, CreateTripWithItem, DeleteItem, Sweep, trips, vars
<1>2. ApartInv /\ [Next /\ Apart']_vars => [Stands]_vars
  BY <1>1
<1>. QED
  BY <1>2, ApartAlways, PTL DEF ApartSpec, MergesStand
=============================================================================
