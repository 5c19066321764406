------------------------- MODULE TripMatchingProofs -------------------------
(* The theorems of TripMatching, for every set of trips, drafts and emails.   *)
EXTENDS TripMatching, TLAPS

\* TypeOK in three parts.
TripsOK ==
    /\ trips \in [Trip -> TripRow \cup {None}]
    /\ \A t \in Rows : trips[t].into \in Rows \cup {None}
    /\ travelled \subseteq Rows
    /\ audit \in [Trip -> Audit \cup {None}]
    /\ \A t \in Rows \ Live : audit[t] # None
    /\ \A t \in Rows : trips[t].into # t
SegsOK ==
    /\ content \in [Seg -> Draft \cup {None}]
    /\ tripOf \in [Seg -> Trip \cup {None}]
    /\ \A s \in Filed : tripOf[s] \in Rows
    /\ source \in [Seg -> Email \cup {None}]
    /\ corrected \subseteq Filed
RestOK ==
    /\ dismissed \subseteq SUBSET Rows
    /\ reading \in [of : Email \cup {None}, left : SUBSET Nat]
    /\ reading.left \subseteq (IF reading.of = None THEN {} ELSE DOMAIN Carries[reading.of])
    /\ made \in [Trip -> Draft \cup {None}]
    /\ steps \in 0 .. MaxSteps

LEMMA TypeParts == TypeOK <=> TripsOK /\ SegsOK /\ RestOK
  BY DEF TypeOK, TripsOK, SegsOK, RestOK

LEMMA TypePartsNext == TripsOK' /\ SegsOK' /\ RestOK' => TypeOK'
  BY DEF TypeOK, TripsOK, SegsOK, RestOK

LEMMA RowsAreRows == ASSUME TripsOK, NEW t \in Rows PROVE t \in Trip /\ trips[t] \in TripRow
  BY DEF TripsOK, Rows

\* What a draft says of a trip is a row.
LEMMA DraftsMakeRows ==
    ASSUME NEW d \in Draft
    PROVE  /\ TripFor(d) \in TripRow /\ TripFor(d) # None /\ TripFor(d).into = None
           /\ d.first \in Day /\ d.last \in Day
           /\ TripFor(d).start = d.first /\ TripFor(d).end = d.last
           /\ TripFor(d).dest = DeriveDestination(d)
  <1>1. DeriveDestination(d) \in City \cup {None}
    BY DraftsAreRecords DEF DeriveDestination, FirstOf, Main, Other, Place
  <1>2. d.first \in Day /\ d.last \in Day
    BY DraftsAreRecords
  <1> QED
    BY <1>1, <1>2, NoneIsNothing DEF TripFor, TripRow

LEMMA FormsMakeRows == ASSUME NEW f \in Form PROVE f \in TripRow /\ f # None /\ f.into = None
  BY FormsAreRows, NoneIsNothing

THEOREM InitTypes == Init => TypeOK
  BY BoundsAreNats, NoneIsNothing DEF Init, TypeOK, Rows, Live, Filed

\* The rows of trips through each kind of step.
LEMMA NewRow ==
    ASSUME TypeOK, NEW t \in Trip \ Rows, NEW r \in TripRow, r.into = None,
           trips' = [trips EXCEPT ![t] = r],
           travelled' = travelled \/ travelled' = travelled \cup {t},
           audit' = audit
    PROVE  TripsOK' /\ Rows' = Rows \cup {t} /\ Live' = Live \cup {t}
  <1>1. r # None
    BY NoneIsNothing
  <1>2. Rows' = Rows \cup {t} /\ \A u \in Trip \ {t} : trips'[u] = trips[u]
    BY <1>1 DEF Rows, TypeOK
  <1>3. trips'[t] = r
    BY DEF TypeOK
  <1>4. Live' = Live \cup {t}
    BY <1>2, <1>3, t \notin Rows DEF Live, Rows
  <1>5. t # None
    BY NoneIsNothing
  <1> QED
    BY <1>1, <1>2, <1>3, <1>4, <1>5 DEF TypeOK, TripsOK, Rows

LEMMA LiveRow ==
    ASSUME TypeOK, NEW t \in Live, NEW r \in TripRow, r.into = None,
           trips' = [trips EXCEPT ![t] = r],
           travelled' = travelled \/ travelled' = travelled \cup {t},
           audit' = audit
    PROVE  TripsOK' /\ Rows' = Rows /\ Live' = Live
  <1>1. r # None
    BY NoneIsNothing
  <1>2. t \in Rows /\ trips'[t] = r /\ \A u \in Trip \ {t} : trips'[u] = trips[u]
    BY DEF TypeOK, Live, Rows
  <1>3. Rows' = Rows
    BY <1>1, <1>2 DEF Rows
  <1>4. Live' = Live
    BY <1>2, <1>3 DEF Live, Rows
  <1>5. t # None
    BY NoneIsNothing DEF Live, Rows
  <1> QED
    BY <1>1, <1>2, <1>3, <1>4, <1>5 DEF TypeOK, TripsOK, Rows, Live

LEMMA RowWidened ==
    ASSUME TypeOK, NEW t \in Live, NEW d \in Draft
    PROVE  Widen(t, d) \in TripRow /\ Widen(t, d).into = None
  <1>1. trips[t] \in TripRow /\ trips[t].into = None
    BY DEF TypeOK, Live, Rows
  <1>2. d.first \in Day /\ d.last \in Day
    BY DraftsMakeRows
  <1> QED
    BY <1>1, <1>2 DEF Widen, TripRow, Least, Greatest

\* The rows of segments through each kind of step.
LEMMA Inserted ==
    ASSUME TypeOK, NEW s \in Seg, NEW d \in Draft, NEW t \in Trip, NEW e \in Email \cup {None},
           Insert(s, d, t, e), Rows \cup {t} \subseteq Rows',
           corrected' = corrected \/ corrected' = corrected \cup {s}
    PROVE  SegsOK' /\ Filed' = Filed \cup {s}
  <1>1. d # None
    BY NoneIsNothing
  <1>2. Filed' = Filed \cup {s}
    BY <1>1 DEF Filed, Insert, TypeOK
  <1>3. \A x \in Filed' : tripOf'[x] \in Rows'
    BY <1>2 DEF Insert, TypeOK, Filed
  <1> QED
    BY <1>2, <1>3 DEF SegsOK, TypeOK, Insert

LEMMA Dropped ==
    ASSUME TypeOK, NEW S \in SUBSET Filed, Drop(S),
           \A x \in Filed \ S : tripOf[x] \in Rows'
    PROVE  SegsOK' /\ Filed' = Filed \ S
  <1>1. Filed' = Filed \ S
    BY DEF Filed, Drop, TypeOK
  <1>2. \A x \in Filed' : tripOf'[x] \in Rows'
    BY <1>1 DEF Drop, TypeOK, Filed
  <1> QED
    BY <1>1, <1>2 DEF SegsOK, TypeOK, Drop

LEMMA Kept ==
    ASSUME TypeOK, UNCHANGED <<segments, corrected>>, Rows \subseteq Rows'
    PROVE  SegsOK' /\ Filed' = Filed
  BY DEF TypeOK, SegsOK, segments, Filed

LEMMA RestKept ==
    ASSUME TypeOK, Rows \subseteq Rows', dismissed' = dismissed, reading' = reading,
           made' \in [Trip -> Draft \cup {None}], steps' \in 0 .. MaxSteps
    PROVE  RestOK'
  BY DEF TypeOK, RestOK

LEMMA StepCounts == ASSUME TypeOK, Step PROVE steps' \in 0 .. MaxSteps
  BY BoundsAreNats DEF TypeOK, Step

\* The deletion of a trip.
LEMMA TripDropped ==
    ASSUME TypeOK, NEW t \in Rows, DropTrip(t)
    PROVE  TripsOK' /\ SegsOK' /\ Rows' = Rows \ {t}
           /\ dismissed' \subseteq SUBSET Rows' /\ made' \in [Trip -> Draft \cup {None}]
  <1>1. \A u \in Rows : trips[u] \in TripRow /\ u \in Trip
    BY DEF TypeOK, Rows
  <1>2. \A u \in Rows \ {t} :
            /\ trips'[u] \in TripRow /\ trips'[u] # None
            /\ trips'[u].into = IF trips[u].into = t THEN None ELSE trips[u].into
    <2> TAKE u \in Rows \ {t}
    <2>1. trips'[u] = Unpointed(t, u)
      BY <1>1 DEF DropTrip
    <2>2. CASE trips[u].into = t
      <3>1. trips'[u] = [trips[u] EXCEPT !.into = None]
        BY <2>1, <2>2 DEF Unpointed
      <3> QED
        BY <1>1, <2>2, <3>1, NoneIsNothing DEF TripRow
    <2>3. CASE trips[u].into # t
      BY <1>1, <2>1, <2>3, NoneIsNothing DEF Unpointed
    <2> QED
      BY <2>2, <2>3
  <1>3. \A u \in Trip \ (Rows \ {t}) : trips'[u] = None
    BY DEF DropTrip, Unpointed, Rows
  <1>4. Rows' = Rows \ {t}
    BY <1>1, <1>2, <1>3 DEF Rows
  <1>5. trips' \in [Trip -> TripRow \cup {None}]
    <2>1. \A u \in Trip : trips'[u] \in TripRow \cup {None}
      BY <1>2, <1>3
    <2>2. trips' = [u \in Trip |-> trips'[u]]
      BY DEF DropTrip
    <2> QED
      BY <2>1, <2>2
  <1>6. \A u \in Rows' : trips'[u].into \in Rows' \cup {None} /\ trips'[u].into # u
    <2> TAKE u \in Rows'
    <2>1. u \in Rows \ {t} /\ u \in Trip /\ u # None
      BY <1>1, <1>4, NoneIsNothing
    <2>2. trips[u].into \in Rows \cup {None} /\ trips[u].into # u
      BY <2>1 DEF TypeOK
    <2> QED
      BY <1>2, <1>4, <2>1, <2>2
  <1>7. \A u \in Rows' \ Live' : audit'[u] # None
    <2> TAKE u \in Rows' \ Live'
    <2>1. u \in Rows \ {t} /\ u \in Trip /\ trips'[u].into # None
      BY <1>1, <1>4 DEF Live
    <2>2. trips[u].into # None
      BY <1>2, <2>1
    <2>3. audit[u] # None
      BY <2>1, <2>2 DEF TypeOK, Live
    <2> QED
      BY <2>1, <2>3 DEF DropTrip, TypeOK
  <1>8. TripsOK'
    BY <1>4, <1>5, <1>6, <1>7 DEF TripsOK, TypeOK, DropTrip
  <1>9. SegsOK'
    <2>1. In(t) \in SUBSET Filed /\ Drop(In(t))
      BY DEF In, DropTrip
    <2>2. \A x \in Filed \ In(t) : tripOf[x] \in Rows'
      BY <1>4 DEF TypeOK, In
    <2> QED
      BY <2>1, <2>2, Dropped
  <1>10. dismissed' \subseteq SUBSET Rows'
    BY <1>4 DEF DropTrip, StillDismissed, TypeOK
  <1>11. made' \in [Trip -> Draft \cup {None}]
    BY DEF DropTrip, TypeOK
  <1> QED
    BY <1>4, <1>8, <1>9, <1>10, <1>11

\* A merge changes the two rows it names, and no row comes or goes.
LEMMA TripMerged ==
    ASSUME TypeOK, NEW s \in Trip, NEW t \in Trip, MergeInto(s, t)
    PROVE  TripsOK' /\ Rows' = Rows
  <1>1. s \in Live /\ t \in Live /\ s # t /\ s \in Rows /\ t \in Rows
    BY DEF MergeInto, Live
  <1>2. trips[s] \in TripRow /\ trips[t] \in TripRow
    BY <1>1 DEF TypeOK, Rows
  <1> DEFINE S == [trips[s] EXCEPT !.into = t]
             T == [[trips[t] EXCEPT !.start = Least(@, trips[s].start)]
                                EXCEPT !.end = Greatest(@, trips[s].end)]
  <1>3. /\ trips' \in [Trip -> TripRow \cup {None}]
        /\ trips'[s] = S /\ trips'[t] = T
        /\ \A u \in Trip \ {s, t} : trips'[u] = trips[u]
        /\ S \in TripRow /\ S.into = t
        /\ T \in TripRow /\ T.into = None
    <2>1. S \in TripRow /\ S.into = t
      BY <1>2 DEF TripRow
    <2>2. T \in TripRow /\ T.into = trips[t].into
      BY <1>2 DEF TripRow, Least, Greatest
    <2>3. trips[t].into = None
      BY <1>1 DEF Live
    <2>4. /\ trips'[s] = S /\ trips'[t] = T
          /\ \A u \in Trip \ {s, t} : trips'[u] = trips[u]
          /\ DOMAIN trips' = Trip /\ trips' = [u \in Trip |-> trips'[u]]
      BY <1>1 DEF MergeInto, TypeOK
    <2>5. \A u \in Trip : trips'[u] \in TripRow \cup {None}
      BY <2>1, <2>2, <2>4 DEF TypeOK
    <2> QED
      BY <2>1, <2>2, <2>3, <2>4, <2>5
  <1>4. Rows' = Rows
    BY <1>1, <1>3, NoneIsNothing DEF Rows
  <1>5. audit'[s] # None /\ audit' \in [Trip -> Audit \cup {None}]
        /\ \A u \in Trip \ {s} : audit'[u] = audit[u]
    <2>1. [moved |-> In(s), added |-> s \in travelled /\ t \notin travelled,
           start |-> trips[t].start, end |-> trips[t].end] \in Audit
      BY <1>2 DEF Audit, TripRow, In, Filed
    <2> QED
      BY <2>1, NoneIsNothing DEF MergeInto, TypeOK
  <1>6. \A u \in Rows' \ Live' : audit'[u] # None
    <2> TAKE u \in Rows' \ Live'
    <2>1. u \in Rows /\ u \in Trip /\ trips'[u].into # None
      BY <1>4 DEF Live, Rows
    <2>2. u # s => trips[u].into # None
      BY <1>3, <2>1
    <2> QED
      BY <1>5, <2>1, <2>2 DEF TypeOK, Live
  <1>7. travelled' \subseteq Rows'
    BY <1>1, <1>4 DEF MergeInto, TypeOK
  <1>8. \A u \in Rows' : trips'[u].into \in Rows' \cup {None} /\ trips'[u].into # u
    <2> TAKE u \in Rows'
    <2>1. u \in Rows /\ u \in Trip /\ u # None
      BY <1>4, NoneIsNothing DEF Rows
    <2>2. trips[u].into \in Rows \cup {None} /\ trips[u].into # u
      BY <2>1 DEF TypeOK
    <2> QED
      BY <1>1, <1>3, <1>4, <2>1, <2>2
  <1> QED
    BY <1>3, <1>4, <1>5, <1>6, <1>7, <1>8 DEF TripsOK

LEMMA TripUndone ==
    ASSUME TypeOK, NEW s \in Trip, UndoMerge(s)
    PROVE  TripsOK' /\ Rows' = Rows
  <1> DEFINE t == trips[s].into
  <1>1. s \in Rows /\ t \in Live /\ t \in Rows /\ s \notin Live /\ s # t
    BY DEF UndoMerge, Live
  <1>2. trips[s] \in TripRow /\ trips[t] \in TripRow /\ t \in Trip
    BY <1>1 DEF TypeOK, Rows
  <1>3. audit[s] \in Audit
    BY <1>1 DEF TypeOK, Rows
  <1>4. audit[s].start \in Day /\ audit[s].end \in Day
    BY <1>3 DEF Audit
  <1> DEFINE S == [trips[s] EXCEPT !.into = None]
             T == [[trips[t] EXCEPT !.start = audit[s].start] EXCEPT !.end = audit[s].end]
  <1>5. S \in TripRow /\ S.into = None
    BY <1>2 DEF TripRow
  <1>6. T \in TripRow /\ T.into = None
    <2>1. T \in TripRow /\ T.into = trips[t].into
      BY <1>2, <1>4 DEF TripRow
    <2> QED
      BY <1>1, <2>1 DEF Live
  <1>7. /\ trips'[s] = S /\ trips'[t] = T
        /\ \A u \in Trip \ {s, t} : trips'[u] = trips[u]
        /\ trips' = [u \in Trip |-> trips'[u]]
    BY <1>1, <1>2 DEF UndoMerge, TypeOK
  <1>8. trips' \in [Trip -> TripRow \cup {None}]
    <2>1. \A u \in Trip : trips'[u] \in TripRow \cup {None}
      BY <1>5, <1>6, <1>7 DEF TypeOK
    <2> QED
      BY <1>7, <2>1
  <1>9. Rows' = Rows
    BY <1>1, <1>2, <1>5, <1>6, <1>7, NoneIsNothing DEF Rows
  <1>10. \A u \in Rows' : trips'[u].into \in Rows' \cup {None} /\ trips'[u].into # u
    <2> TAKE u \in Rows'
    <2>1. u \in Rows /\ u \in Trip /\ u # None
      BY <1>9, NoneIsNothing DEF Rows
    <2>2. trips[u].into \in Rows \cup {None} /\ trips[u].into # u
      BY <2>1 DEF TypeOK
    <2> QED
      BY <1>5, <1>6, <1>7, <1>9, <2>1, <2>2
  <1>11. audit' \in [Trip -> Audit \cup {None}] /\ \A u \in Trip \ {s} : audit'[u] = audit[u]
    BY DEF UndoMerge, TypeOK
  <1>12. \A u \in Rows' \ Live' : audit'[u] # None
    <2> TAKE u \in Rows' \ Live'
    <2>1. u \in Rows /\ u \in Trip /\ trips'[u].into # None
      BY <1>9 DEF Live, Rows
    <2>2. u # s /\ trips[u].into # None
      BY <1>5, <1>6, <1>7, <2>1
    <2> QED
      BY <1>11, <2>1, <2>2 DEF TypeOK, Live
  <1>13. travelled' \subseteq Rows'
    BY <1>1, <1>9 DEF UndoMerge, TypeOK
  <1> QED
    BY <1>8, <1>9, <1>10, <1>11, <1>12, <1>13 DEF TripsOK

\* A merge or an undo moves segments between rows.
LEMMA Moved ==
    ASSUME TypeOK, NEW M \in SUBSET Seg, NEW t \in Rows,
           tripOf' = [x \in Seg |-> IF x \in M THEN t ELSE tripOf[x]],
           content' = content, source' = source, corrected' = corrected, Rows' = Rows,
           M \subseteq Filed
    PROVE  SegsOK' /\ Filed' = Filed
  <1>1. Filed' = Filed
    BY DEF Filed
  <1>2. tripOf' \in [Seg -> Trip \cup {None}]
    BY DEF TypeOK, Rows
  <1>3. \A x \in Filed : tripOf'[x] \in Rows
    BY DEF TypeOK, Filed
  <1> QED
    BY <1>1, <1>2, <1>3 DEF SegsOK, TypeOK

\* The foreign keys hold and the columns have their types, through every parse
\* and every request (TypeOK: the cascades of models/ and merge.py).
LEMMA TypesStep == ASSUME TypeOK, [Next]_vars PROVE TypeOK'
  <1> USE DEF rows, history
  <1>1. ASSUME NEW e \in Email, Parse(e) PROVE TypeOK'
    <2>1. steps' \in 0 .. MaxSteps
      BY <1>1, StepCounts DEF Parse
    <2>2. Rows' = Rows /\ TripsOK'
      BY <1>1 DEF Parse, TypeOK, TripsOK, Rows, Live
    <2>3. SegsOK'
      BY <1>1, <2>2, Kept DEF Parse
    <2>4. RestOK'
      <3>1. reading'.left \subseteq DOMAIN Carries[e] /\ reading'.of = e /\ e # None
        BY <1>1, NoneIsNothing DEF Parse
      <3>2. DOMAIN Carries[e] \subseteq Nat
        BY EmailsCarryDrafts
      <3>3. reading' \in [of : Email \cup {None}, left : SUBSET Nat]
        BY <1>1, <3>1, <3>2 DEF Parse
      <3> QED
        BY <1>1, <2>1, <2>2, <3>1, <3>3 DEF Parse, RestOK, TypeOK
    <2> QED
      BY <2>2, <2>3, <2>4, TypePartsNext
  <1>2. ASSUME NEW i \in reading.left, NEW s \in Seg, NEW t \in Trip,
               FileNew(i, s, t) \/ FileWith(i, s, t)
        PROVE  TypeOK'
    <2> DEFINE d == Carries[reading.of][i]
    <2>1. reading.of \in Email /\ d \in Draft
      BY EmailsCarryDrafts DEF TypeOK
    <2>2. RestOK' <=> dismissed' \subseteq SUBSET Rows' /\ made' \in [Trip -> Draft \cup {None}]
                      /\ steps' \in 0 .. MaxSteps
      BY <1>2, <2>1 DEF RestOK, FileNew, FileWith, Turn, TypeOK
    <2>3. CASE FileNew(i, s, t)
      <3>1. t \in Trip \ Rows
        BY <2>3 DEF FileNew
      <3>2. TripFor(d) \in TripRow /\ TripFor(d).into = None
        BY <2>1, DraftsMakeRows
      <3>3. TripsOK' /\ Rows' = Rows \cup {t}
        BY <2>3, <3>1, <3>2, NewRow DEF FileNew
      <3>4. SegsOK'
        BY <2>1, <2>3, <3>3, Inserted DEF FileNew
      <3>5. RestOK'
        BY <2>1, <2>2, <2>3, <3>3 DEF FileNew, TypeOK
      <3> QED
        BY <3>3, <3>4, <3>5, TypePartsNext
    <2>4. CASE FileWith(i, s, t)
      <3>1. t \in Rows
        BY <2>4 DEF FileWith, Attachable, Ambiguous, Best, Candidates, Open, Live
      <3>2. Rows' = Rows /\ TripsOK'
        BY <2>4 DEF FileWith, TypeOK, TripsOK, Rows, Live
      <3>3. SegsOK'
        BY <2>1, <2>4, <3>1, <3>2, Inserted DEF FileWith
      <3>4. RestOK'
        BY <2>2, <2>4, <3>2 DEF FileWith, TypeOK
      <3> QED
        BY <3>2, <3>3, <3>4, TypePartsNext
    <2> QED
      BY <1>2, <2>3, <2>4
  <1>3. ASSUME NEW t \in Trip, NEW f \in Form, CreateTrip(t, f) PROVE TypeOK'
    <2>1. TripsOK' /\ Rows' = Rows \cup {t}
      BY <1>3, FormsMakeRows, NewRow DEF CreateTrip
    <2>2. SegsOK'
      BY <1>3, <2>1, Kept DEF CreateTrip
    <2>3. RestOK'
      BY <1>3, <2>1, StepCounts, RestKept DEF CreateTrip, TypeOK
    <2> QED
      BY <2>1, <2>2, <2>3, TypePartsNext
  <1>4. ASSUME NEW t \in Trip, NEW f \in Form, UpdateTrip(t, f) PROVE TypeOK'
    <2>1. TripsOK' /\ Rows' = Rows
      BY <1>4, FormsMakeRows, LiveRow DEF UpdateTrip, Open
    <2>2. SegsOK'
      BY <1>4, <2>1, Kept DEF UpdateTrip
    <2>3. RestOK'
      BY <1>4, <2>1, StepCounts, RestKept DEF UpdateTrip, TypeOK
    <2> QED
      BY <2>1, <2>2, <2>3, TypePartsNext
  <1>5. ASSUME NEW t \in Trip, DeleteTrip(t) \/ Purge(t) PROVE TypeOK'
    <2>1. t \in Rows /\ DropTrip(t) /\ Step
      BY <1>5 DEF DeleteTrip, Purge, Open, Live
    <2>2. RestOK'
      BY <2>1, TripDropped, StepCounts DEF RestOK, DropTrip, TypeOK
    <2> QED
      BY <2>1, <2>2, TripDropped, TypePartsNext
  <1>6. ASSUME NEW t \in Trip, NEW s \in Seg, NEW d \in Draft, CreateSegment(s, t, d)
        PROVE  TypeOK'
    <2>1. TripsOK' /\ Rows' = Rows \cup {t}
      <3>1. CASE t \in Open /\ trips' = [trips EXCEPT ![t] = Widen(t, d)]
        <4>1. t \in Live /\ t \in Rows
          BY <3>1 DEF Open, Live
        <4> QED
          BY <1>6, <3>1, <4>1, RowWidened, LiveRow DEF CreateSegment
      <3>2. CASE t \notin Rows /\ trips' = [trips EXCEPT ![t] = TripFor(d)]
        BY <1>6, <3>2, DraftsMakeRows, NewRow DEF CreateSegment
      <3> QED
        BY <1>6, <3>1, <3>2 DEF CreateSegment
    <2>2. SegsOK'
      BY <1>6, <2>1, Inserted DEF CreateSegment
    <2>3. RestOK'
      BY <1>6, <2>1, StepCounts, RestKept DEF CreateSegment, TypeOK
    <2> QED
      BY <2>1, <2>2, <2>3, TypePartsNext
  <1>7. ASSUME NEW s \in Seg, NEW d \in Draft, UpdateSegment(s, d) PROVE TypeOK'
    <2>1. tripOf[s] \in Live /\ s \in Filed
      BY <1>7 DEF UpdateSegment, Open
    <2>2. TripsOK' /\ Rows' = Rows
      BY <1>7, <2>1, RowWidened, LiveRow DEF UpdateSegment
    <2>3. Filed' = Filed
      BY <1>7, <2>1, NoneIsNothing DEF Filed, UpdateSegment, TypeOK
    <2>4. SegsOK'
      BY <1>7, <2>1, <2>2, <2>3 DEF SegsOK, UpdateSegment, TypeOK
    <2>5. RestOK'
      BY <1>7, <2>2, StepCounts, RestKept DEF UpdateSegment, TypeOK
    <2> QED
      BY <2>2, <2>4, <2>5, TypePartsNext
  <1>8. ASSUME NEW s \in Seg, DeleteSegment(s) PROVE TypeOK'
    <2>1. Rows' = Rows /\ TripsOK'
      BY <1>8 DEF DeleteSegment, TypeOK, TripsOK, Rows, Live
    <2>2. SegsOK'
      <3>1. {s} \in SUBSET Filed /\ Drop({s})
        BY <1>8 DEF DeleteSegment
      <3> QED
        BY <2>1, <3>1, Dropped DEF TypeOK
    <2>3. RestOK'
      BY <1>8, <2>1, StepCounts, RestKept DEF DeleteSegment, TypeOK
    <2> QED
      BY <2>1, <2>2, <2>3, TypePartsNext
  <1>9. ASSUME NEW s \in Trip, NEW t \in Trip, MergeInto(s, t) PROVE TypeOK'
    <2>1. TripsOK' /\ Rows' = Rows
      BY <1>9, TripMerged
    <2>2. SegsOK'
      <3>1. In(s) \in SUBSET Seg /\ In(s) \subseteq Filed /\ t \in Rows
        BY <1>9 DEF In, Filed, MergeInto, Live
      <3> QED
        BY <1>9, <2>1, <3>1, Moved DEF MergeInto
    <2>3. RestOK'
      BY <1>9, <2>1, StepCounts, RestKept DEF MergeInto, TypeOK
    <2> QED
      BY <2>1, <2>2, <2>3, TypePartsNext
  <1>10. ASSUME NEW s \in Trip, UndoMerge(s) PROVE TypeOK'
    <2>1. TripsOK' /\ Rows' = Rows
      BY <1>10, TripUndone
    <2>2. SegsOK'
      <3> DEFINE M == audit[s].moved \cap In(trips[s].into)
      <3>1. M \in SUBSET Seg /\ M \subseteq Filed /\ s \in Rows
        BY <1>10 DEF In, Filed, UndoMerge
      <3>2. tripOf' = [x \in Seg |-> IF x \in M THEN s ELSE tripOf[x]]
        BY <1>10 DEF UndoMerge
      <3> QED
        BY <1>10, <2>1, <3>1, <3>2, Moved DEF UndoMerge
    <2>3. RestOK'
      BY <1>10, <2>1, StepCounts, RestKept DEF UndoMerge, TypeOK
    <2> QED
      BY <2>1, <2>2, <2>3, TypePartsNext
  <1>11. ASSUME NEW t \in Trip, NEW u \in Trip, Dismiss(t, u) PROVE TypeOK'
    <2>1. Rows' = Rows /\ TripsOK'
      BY <1>11 DEF Dismiss, TypeOK, TripsOK, Rows, Live
    <2>2. SegsOK'
      BY <1>11, <2>1, Kept DEF Dismiss
    <2>3. RestOK'
      BY <1>11, <2>1, StepCounts DEF Dismiss, TypeOK, RestOK
    <2> QED
      BY <2>1, <2>2, <2>3, TypePartsNext
  <1>12. CASE UNCHANGED vars
    BY <1>12 DEF vars, segments, TypeOK, Rows, Live, Filed
  <1> QED
    BY <1>1, <1>2, <1>3, <1>4, <1>5, <1>6, <1>7, <1>8, <1>9, <1>10, <1>11, <1>12 DEF Next, Pages

\* For every set of trips, segments, drafts and emails the tables stay
\* well-formed through merges, undos, deletions and parses.
THEOREM MatchingTypes == Spec => []TypeOK
  BY InitTypes, TypesStep, PTL DEF Spec

-----------------------------------------------------------------------------
(* Clustering. *)

LEMMA DistanceIsNat ==
    ASSUME TypeOK, NEW d \in Draft, NEW t \in Candidates(d)
    PROVE  Distance(d, t) \in Nat
  <1>1. trips[t] \in TripRow
    BY DEF TypeOK, Candidates, Open, Live, Rows
  <1>2. trips[t].start \in Int /\ trips[t].end \in Int /\ d.first \in Int
    BY <1>1, DraftsAreRecords DEF TripRow, Day
  <1> QED
    BY <1>2 DEF Distance

\* The margin of cluster_for_user leaves one trip to attach a draft to, and no
\* other is as good: the order in which Postgres returns the trips is immaterial.
LEMMA OneBest == TypeOK => AttachIsForced
  <1> SUFFICES ASSUME TypeOK, NEW d \in Draft, NEW b \in Open, NEW c \in Open,
                      b \in Attachable(d), c \in Best(d), b # c
               PROVE  FALSE
    BY DEF AttachIsForced
  <1>1. b \in Candidates(d) /\ c \in Candidates(d)
    BY DEF Attachable, Best
  <1>2. Distance(d, b) \in Nat /\ Distance(d, c) \in Nat
    BY <1>1, DistanceIsNat
  <1>3. Distance(d, b) <= Distance(d, c) /\ Distance(d, c) <= Distance(d, b)
    BY <1>1 DEF Attachable, Best
  <1>4. 5 * (2 + Distance(d, b)) <= 4 * (2 + Distance(d, c))
    BY <1>1 DEF Attachable, ClearOf
  <1> QED
    BY <1>2, <1>3, <1>4

\* At every reachable state at most one trip attracts a draft (AttachIsForced).
THEOREM MatchingForced == Spec => []AttachIsForced
  BY MatchingTypes, OneBest, PTL

-----------------------------------------------------------------------------
(* Dedup. *)

\* What is still to be filed matches nothing another email brought.
FreshApart ==
    \A i \in reading.left : \A s \in Filed \ corrected :
        source[s] # None /\ source[s] # reading.of => ~Is(Carries[reading.of][i], content[s])

\* A segment no form has written is as its email brought it.
AsBrought == \A x \in Filed' \ corrected' :
                 x \in Filed \ corrected /\ content'[x] = content[x] /\ source'[x] = source[x]

LEMMA DropKeeps == ASSUME NEW S, Drop(S) PROVE AsBrought
  BY DEF Drop, AsBrought, Filed

LEMMA PagesKeep == ASSUME TypeOK, Pages PROVE AsBrought /\ Idle /\ reading' = reading
  <1>1. ASSUME NEW t \in Trip, NEW f \in Form, CreateTrip(t, f) \/ UpdateTrip(t, f)
        PROVE  AsBrought /\ Idle /\ reading' = reading
    BY <1>1 DEF CreateTrip, UpdateTrip, Step, AsBrought, segments, history, Filed
  <1>2. ASSUME NEW t \in Trip, DeleteTrip(t) \/ Purge(t)
        PROVE  AsBrought /\ Idle /\ reading' = reading
    BY <1>2, DropKeeps DEF DeleteTrip, Purge, DropTrip, Step
  <1>3. ASSUME NEW s \in Trip, NEW t \in Trip, MergeInto(s, t) \/ UndoMerge(s) \/ Dismiss(s, t)
        PROVE  AsBrought /\ Idle /\ reading' = reading
    BY <1>3 DEF MergeInto, UndoMerge, Dismiss, Step, AsBrought, segments, history, Filed
  <1>4. ASSUME NEW s \in Seg, NEW d \in Draft, NEW t \in Trip, CreateSegment(s, t, d)
        PROVE  AsBrought /\ Idle /\ reading' = reading
    BY <1>4 DEF CreateSegment, Insert, Step, AsBrought, Filed, TypeOK
  <1>5. ASSUME NEW s \in Seg, NEW d \in Draft, UpdateSegment(s, d)
        PROVE  AsBrought /\ Idle /\ reading' = reading
    BY <1>5 DEF UpdateSegment, Step, AsBrought, Filed, TypeOK
  <1>6. ASSUME NEW s \in Seg, DeleteSegment(s) PROVE AsBrought /\ Idle /\ reading' = reading
    BY <1>6, DropKeeps DEF DeleteSegment, Step
  <1> QED
    BY <1>1, <1>2, <1>3, <1>4, <1>5, <1>6 DEF Pages

\* No two emails bring a booking twice: the drafts are compared before any is
\* filed, and one at a time is filed.
LEMMA TwinsStep ==
    ASSUME TypeOK, NoTwins, FreshApart, [Next]_vars
    PROVE  NoTwins' /\ FreshApart'
  <1>1. ASSUME NEW e \in Email, Parse(e) PROVE NoTwins' /\ FreshApart'
    <2>1. content' = content /\ source' = source /\ corrected' = corrected /\ Filed' = Filed
      BY <1>1 DEF Parse, segments, history, Filed
    <2>2. \A i \in reading'.left : ~Known(Carries[reading'.of][i])
      BY <1>1 DEF Parse
    <2> QED
      BY <2>1, <2>2 DEF NoTwins, Twins, FreshApart, Known
  <1>2. ASSUME NEW i \in reading.left, NEW s \in Seg, NEW t \in Trip,
               FileNew(i, s, t) \/ FileWith(i, s, t)
        PROVE  NoTwins' /\ FreshApart'
    <2> DEFINE e == reading.of
               d == Carries[e][i]
    <2>1. Insert(s, d, t, e) /\ corrected' = corrected
          /\ reading'.of = e /\ reading'.left \subseteq reading.left
      BY <1>2 DEF FileNew, FileWith, Turn, TypeOK, history
    <2>2. d # None
      BY EmailsCarryDrafts, NoneIsNothing DEF TypeOK
    <2>3. /\ Filed' = Filed \cup {s} /\ s \notin Filed
          /\ content'[s] = d /\ source'[s] = e
          /\ \A x \in Filed : content'[x] = content[x] /\ source'[x] = source[x]
      BY <2>1, <2>2 DEF Insert, TypeOK, Filed
    <2>4. ASSUME NEW x \in Filed \ corrected, source[x] # None, source[x] # e
          PROVE  ~Is(d, content[x])
      BY <2>4 DEF FreshApart
    <2>5. NoTwins'
      <3> SUFFICES ASSUME NEW x \in Filed' \ corrected', NEW y \in Filed' \ corrected',
                          source'[x] # None, source'[y] # None, source'[x] # source'[y],
                          Is(content'[x], content'[y]), Is(content'[y], content'[x])
                   PROVE  FALSE
        BY DEF NoTwins, Twins
      <3>1. CASE x = s
        BY <2>1, <2>3, <2>4, <3>1
      <3>2. CASE y = s
        BY <2>1, <2>3, <2>4, <3>2
      <3>3. CASE x # s /\ y # s
        BY <2>1, <2>3, <3>3 DEF NoTwins, Twins
      <3> QED
        BY <3>1, <3>2, <3>3
    <2>6. FreshApart'
      BY <2>1, <2>3 DEF FreshApart
    <2> QED
      BY <2>5, <2>6
  <1>3. ASSUME Pages PROVE NoTwins' /\ FreshApart'
    <2>1. AsBrought /\ reading.left = {} /\ reading' = reading
      BY <1>3, PagesKeep DEF Idle
    <2> QED
      BY <2>1 DEF AsBrought, NoTwins, Twins, FreshApart
  <1>4. CASE UNCHANGED vars
    BY <1>4 DEF vars, segments, history, NoTwins, Twins, FreshApart, Filed
  <1> QED
    BY <1>1, <1>2, <1>3, <1>4 DEF Next

\* For all drafts and emails, one booking is one segment (NoTwins). FreshApart is
\* what makes it inductive: a draft found new when its email was read is still
\* new when it is filed.
THEOREM MatchingOnce == Spec => []NoTwins
  <1>1. Init => NoTwins /\ FreshApart
    BY DEF Init, NoTwins, FreshApart, Filed
  <1>2. TypeOK /\ NoTwins /\ FreshApart /\ [Next]_vars => (NoTwins /\ FreshApart)'
    BY TwinsStep
  <1> QED
    BY <1>1, <1>2, MatchingTypes, PTL DEF Spec

-----------------------------------------------------------------------------
(* Clustering again. *)

\* A trip the worker made and no user has touched has the dates and the
\* destination of its first draft, and is there to be found.
AsMade(t) == /\ t \in Open
             /\ trips[t].start = made[t].first /\ trips[t].end = made[t].last
             /\ trips[t].dest = DeriveDestination(made[t])
MadeOK ==
    /\ \A t \in Trip : made[t] # None => AsMade(t)
    /\ \A s \in Rows \ Live : made[trips[s].into] = None

\* A step that makes no trip leaves the trips still untouched as they are.
LEMMA MadeKept ==
    ASSUME TypeOK, MadeOK, NoRivals,
           \A t \in Trip : made'[t] # None =>
               made'[t] = made[t] /\ trips'[t] = trips[t] /\ t \in travelled',
           \A s \in Rows' \ Live' : made'[trips'[s].into] = None
    PROVE  MadeOK' /\ NoRivals'
  <1>1. ASSUME NEW t \in Trip, made'[t] # None PROVE t \in Live /\ AsMade(t) /\ AsMade(t)'
    <2>1. made[t] # None /\ made'[t] = made[t] /\ trips'[t] = trips[t] /\ t \in travelled'
      BY <1>1
    <2>2. AsMade(t) /\ t \in Live
      BY <2>1 DEF MadeOK, AsMade, Open
    <2>3. t \in Open'
      BY <2>1, <2>2 DEF Open, Live, Rows
    <2> QED
      BY <2>1, <2>2, <2>3 DEF AsMade
  <1>2. NoRivals'
    <2> SUFFICES ASSUME NEW t \in Live', NEW u \in Live', t # u, made'[t] # None, made'[u] # None,
                        AsSpelt(made'[t]), AsSpelt(made'[u]), trips'[t].dest = trips'[u].dest
                 PROVE  \/ trips'[t].end + 1 < trips'[u].start
                        \/ trips'[u].end + 1 < trips'[t].start
      BY DEF NoRivals
    <2>1. t \in Trip /\ u \in Trip
      BY DEF Live, Rows
    <2> QED
      BY <1>1, <2>1 DEF NoRivals
  <1> QED
    BY <1>1, <1>2 DEF MadeOK

LEMMA RivalsStep ==
    ASSUME TypeOK, TypeOK', MadeOK, NoRivals, [Next]_vars
    PROVE  MadeOK' /\ NoRivals'
  <1> USE DEF rows, history
  <1>1. ASSUME NEW i \in reading.left, NEW s \in Seg, NEW t \in Trip, FileNew(i, s, t)
        PROVE  MadeOK' /\ NoRivals'
    <2> DEFINE d == Carries[reading.of][i]
    <2>1. d \in Draft
      BY EmailsCarryDrafts DEF TypeOK
    <2>2. d # None /\ t \in Trip \ Rows /\ Candidates(d) = {}
      BY <1>1, <2>1, NoneIsNothing DEF FileNew
    <2>3. /\ trips'[t] = TripFor(d) /\ made'[t] = d /\ t \in travelled'
          /\ \A u \in Trip \ {t} : trips'[u] = trips[u] /\ made'[u] = made[u]
          /\ travelled \subseteq travelled'
      BY <1>1 DEF FileNew, TypeOK
    <2>4. /\ TripFor(d) # None /\ TripFor(d).into = None /\ d.first \in Day /\ d.last \in Day
          /\ TripFor(d).start = d.first /\ TripFor(d).end = d.last
          /\ TripFor(d).dest = DeriveDestination(d)
      BY <2>1, DraftsMakeRows
    <2>5. AsMade(t)'
      BY <2>3, <2>4 DEF AsMade, Open, Live, Rows
    <2>6. ASSUME NEW u \in Trip \ {t}, made'[u] # None
          PROVE  AsMade(u) /\ AsMade(u)'
      <3>1. AsMade(u)
        BY <2>3, <2>6 DEF MadeOK
      <3> QED
        BY <2>3, <3>1 DEF AsMade, Open, Live, Rows
    <2>7. ASSUME NEW u \in Trip \ {t}, made'[u] # None, AsSpelt(d),
                 trips'[u].dest = trips'[t].dest
          PROVE  trips[u].end + 1 < d.first \/ d.last + 1 < trips[u].start
      <3>1. u \in Open /\ trips[u] \in TripRow
        BY <2>6, <2>7 DEF AsMade, TypeOK, Open, Live, Rows
      <3>2. trips[u].dest = ResolvedDestination(d) /\ trips[u].dest # None
        BY <2>3, <2>4, <2>7 DEF AsSpelt
      <3>3. LocationProximity(d, trips[u])
        BY <3>2 DEF LocationProximity
      <3>4. ~DatesTouch(d, trips[u])
        BY <2>2, <3>1, <3>3 DEF Candidates
      <3>5. trips[u].start \in Int /\ trips[u].end \in Int /\ d.first \in Int /\ d.last \in Int
        BY <2>4, <3>1 DEF TripRow, Day
      <3> QED
        BY <3>4, <3>5 DEF DatesTouch
    <2>8. NoRivals'
      <3> SUFFICES ASSUME NEW x \in Live', NEW y \in Live', x # y, made'[x] # None, made'[y] # None,
                          AsSpelt(made'[x]), AsSpelt(made'[y]), trips'[x].dest = trips'[y].dest
                   PROVE  \/ trips'[x].end + 1 < trips'[y].start
                          \/ trips'[y].end + 1 < trips'[x].start
        BY DEF NoRivals
      <3>1. x \in Trip /\ y \in Trip
        BY DEF Live, Rows
      <3>2. CASE x = t
        BY <2>3, <2>4, <2>7, <3>1, <3>2
      <3>3. CASE y = t
        BY <2>3, <2>4, <2>7, <3>1, <3>3
      <3>4. CASE x # t /\ y # t
        <4>1. x \in Live /\ y \in Live
          BY <2>6, <3>1, <3>4 DEF AsMade, Open
        <4> QED
          BY <2>3, <3>1, <3>4, <4>1 DEF NoRivals
      <3> QED
        BY <3>2, <3>3, <3>4
    <2>9. \A x \in Rows' \ Live' : made'[trips'[x].into] = None
      <3> TAKE x \in Rows' \ Live'
      <3>1. x \in Trip /\ x # t
        BY <2>3, <2>4 DEF Rows, Live
      <3>2. x \in Rows \ Live /\ trips'[x] = trips[x]
        BY <2>3, <3>1 DEF Rows, Live
      <3>3. trips[x].into \in Rows \cup {None} /\ trips[x].into # None
        BY <3>2 DEF TypeOK, Live
      <3>4. trips[x].into \in Trip \ {t}
        BY <2>2, <3>3 DEF Rows
      <3> QED
        BY <2>3, <3>2, <3>4 DEF MadeOK
    <2> QED
      BY <2>3, <2>5, <2>6, <2>8, <2>9 DEF MadeOK
  <1>2. ASSUME NEW t \in Trip, NEW f \in Form, CreateTrip(t, f) PROVE MadeOK' /\ NoRivals'
    <2>1. t \in Trip \ Rows /\ f.into = None /\ made' = made /\ travelled' = travelled
          /\ trips'[t] = f /\ \A u \in Trip \ {t} : trips'[u] = trips[u]
      BY <1>2, FormsMakeRows DEF CreateTrip, TypeOK
    <2>2. made[t] = None
      BY <2>1 DEF MadeOK, AsMade, Open, Live
    <2>3. \A x \in Rows' \ Live' : x \in Rows \ Live /\ trips'[x] = trips[x]
      BY <2>1 DEF Rows, Live
    <2>4. \A u \in Trip : made[u] # None => u \in travelled
      BY DEF MadeOK, AsMade, Open
    <2> QED
      BY <2>1, <2>2, <2>3, <2>4, MadeKept DEF MadeOK
  <1>3. ASSUME NEW t \in Live, NEW r \in TripRow, r.into = None,
               trips' = [trips EXCEPT ![t] = r], made' = [made EXCEPT ![t] = None],
               travelled \subseteq travelled'
        PROVE  MadeOK' /\ NoRivals'
    <2>1. t \in Trip /\ trips'[t] = r /\ made'[t] = None
          /\ \A u \in Trip \ {t} : trips'[u] = trips[u] /\ made'[u] = made[u]
      BY <1>3 DEF TypeOK, Live, Rows
    <2>2. \A x \in Rows' \ Live' : x \in Rows \ Live /\ trips'[x] = trips[x]
      BY <1>3, <2>1 DEF Rows, Live
    <2>3. \A u \in Trip : made[u] # None => u \in travelled
      BY DEF MadeOK, AsMade, Open
    <2>4. \A x \in Rows' \ Live' : made'[trips'[x].into] = None
      <3> TAKE x \in Rows' \ Live'
      <3>1. made[trips[x].into] = None /\ trips[x].into \in Trip
        BY <2>2 DEF MadeOK, TypeOK, Live, Rows
      <3> QED
        BY <2>1, <2>2, <3>1
    <2> QED
      BY <1>3, <2>1, <2>3, <2>4, MadeKept
  <1>4. ASSUME NEW t \in Trip, NEW f \in Form, UpdateTrip(t, f) PROVE MadeOK' /\ NoRivals'
    <2>1. t \in Live
      BY <1>4 DEF UpdateTrip, Open
    <2> QED
      BY <1>3, <1>4, <2>1, FormsMakeRows DEF UpdateTrip
  <1>5. ASSUME NEW s \in Seg, NEW d \in Draft, UpdateSegment(s, d) PROVE MadeOK' /\ NoRivals'
    <2>1. tripOf[s] \in Live
      BY <1>5 DEF UpdateSegment, Open
    <2> QED
      BY <1>3, <1>5, <2>1, RowWidened DEF UpdateSegment
  <1>6. ASSUME NEW s \in Seg, NEW t \in Trip, NEW d \in Draft, CreateSegment(s, t, d)
        PROVE  MadeOK' /\ NoRivals'
    <2>1. CASE t \in Open /\ trips' = [trips EXCEPT ![t] = Widen(t, d)]
      <3>1. t \in Live
        BY <2>1 DEF Open
      <3> QED
        BY <1>3, <1>6, <2>1, <3>1, RowWidened DEF CreateSegment
    <2>2. CASE t \notin Rows /\ trips' = [trips EXCEPT ![t] = TripFor(d)]
      <3>1. TripFor(d).into = None /\ trips'[t] = TripFor(d) /\ made'[t] = None
            /\ \A u \in Trip \ {t} : trips'[u] = trips[u] /\ made'[u] = made[u]
            /\ travelled \subseteq travelled'
        BY <1>6, <2>2, DraftsMakeRows DEF CreateSegment, TypeOK
      <3>2. \A x \in Rows' \ Live' : x \in Rows \ Live /\ trips'[x] = trips[x]
        BY <2>2, <3>1 DEF Rows, Live
      <3>3. \A u \in Trip : made[u] # None => u \in travelled
        BY DEF MadeOK, AsMade, Open
      <3>4. \A x \in Rows' \ Live' : made'[trips'[x].into] = None
        <4> TAKE x \in Rows' \ Live'
        <4>1. made[trips[x].into] = None /\ trips[x].into \in Trip
          BY <3>2 DEF MadeOK, TypeOK, Live, Rows
        <4> QED
          BY <3>1, <3>2, <4>1
      <3> QED
        BY <3>1, <3>3, <3>4, MadeKept
    <2> QED
      BY <1>6, <2>1, <2>2 DEF CreateSegment
  <1>7. ASSUME NEW t \in Trip, DeleteTrip(t) \/ Purge(t) PROVE MadeOK' /\ NoRivals'
    <2>1. t \in Rows /\ DropTrip(t)
      BY <1>7 DEF DeleteTrip, Purge, Open, Live
    <2>2. Rows' = Rows \ {t}
      BY <2>1, TripDropped
    <2>3. made'[t] = None /\ \A u \in Trip \ {t} : made'[u] = made[u]
                                /\ trips'[u] = Unpointed(t, u) /\ (u \in travelled => u \in travelled')
      BY <2>1 DEF DropTrip, TypeOK
    <2>4. ASSUME NEW u \in Trip, made'[u] # None
          PROVE  made'[u] = made[u] /\ trips'[u] = trips[u] /\ u \in travelled'
      <3>1. u # t /\ made[u] # None
        BY <2>3, <2>4
      <3>2. u \in travelled /\ trips[u].into = None /\ t # None
        BY <3>1, NoneIsNothing DEF MadeOK, AsMade, Open, Live
      <3> QED
        BY <2>3, <3>1, <3>2 DEF Unpointed
    <2>5. ASSUME NEW x \in Rows' \ Live' PROVE made'[trips'[x].into] = None
      <3>1. x \in Rows /\ x \in Trip /\ x # t /\ trips'[x].into # None /\ trips[x] \in TripRow
        BY <2>2, <2>5 DEF Live, Rows, TypeOK
      <3>2. trips'[x] = trips[x] /\ trips[x].into # t
        BY <2>3, <3>1 DEF Unpointed, TripRow
      <3>3. x \notin Live /\ trips[x].into \in Trip
        BY <3>1, <3>2 DEF Live, TypeOK, Rows
      <3> QED
        BY <2>3, <3>1, <3>2, <3>3 DEF MadeOK
    <2> QED
      BY <2>4, <2>5, MadeKept
  <1>8. ASSUME NEW s \in Trip, NEW t \in Trip, MergeInto(s, t) PROVE MadeOK' /\ NoRivals'
    <2>1. Rows' = Rows /\ s \in Live /\ t \in Live /\ s # t
      BY <1>8, TripMerged DEF MergeInto
    <2>2. /\ made'[s] = None /\ made'[t] = None
          /\ \A u \in Trip \ {s, t} : made'[u] = made[u] /\ trips'[u] = trips[u]
                                      /\ (u \in travelled => u \in travelled')
          /\ trips'[s].into = t /\ trips'[t].into = trips[t].into
      <3>1. trips[s] \in TripRow /\ trips[t] \in TripRow
        BY <2>1 DEF TypeOK, Live, Rows
      <3> QED
        BY <1>8, <2>1, <3>1 DEF MergeInto, TypeOK, TripRow
    <2>3. \A u \in Trip : made[u] # None => u \in travelled
      BY DEF MadeOK, AsMade, Open
    <2>4. ASSUME NEW x \in Rows' \ Live' PROVE made'[trips'[x].into] = None
      <3>1. x \in Rows /\ x \in Trip /\ trips'[x].into # None
        BY <2>1, <2>4 DEF Live, Rows
      <3>2. CASE x = s
        BY <2>2, <3>2
      <3>3. CASE x # s
        <4>1. x # t
          BY <2>1, <2>2, <3>1 DEF Live
        <4>2. x \in Rows \ Live /\ trips'[x] = trips[x]
          BY <2>2, <3>1, <3>3, <4>1 DEF Live
        <4>3. made[trips[x].into] = None /\ trips[x].into \in Trip
          BY <4>2 DEF MadeOK, TypeOK, Live, Rows
        <4> QED
          BY <2>2, <4>2, <4>3
      <3> QED
        BY <3>2, <3>3
    <2> QED
      BY <2>2, <2>3, <2>4, MadeKept
  <1>9. ASSUME NEW s \in Trip, UndoMerge(s) PROVE MadeOK' /\ NoRivals'
    <2> DEFINE t == trips[s].into
    <2>1. Rows' = Rows /\ s \in Rows \ Live /\ t \in Live /\ t \in Trip /\ s # t
      BY <1>9, TripUndone DEF UndoMerge, Live, Rows
    <2>2. made' = made /\ made[s] = None /\ made[t] = None
      BY <1>9, <2>1 DEF UndoMerge, MadeOK, AsMade, Open
    <2>3. /\ \A u \in Trip \ {s, t} : trips'[u] = trips[u] /\ (u \in travelled => u \in travelled')
          /\ trips'[s].into = None /\ trips'[t].into = trips[t].into
      <3>1. trips[s] \in TripRow /\ trips[t] \in TripRow
        BY <2>1 DEF TypeOK, Live, Rows
      <3> QED
        BY <1>9, <2>1, <3>1 DEF UndoMerge, TypeOK, TripRow
    <2>4. \A u \in Trip : made[u] # None => u \in travelled
      BY DEF MadeOK, AsMade, Open
    <2>5. ASSUME NEW x \in Rows' \ Live' PROVE made'[trips'[x].into] = None
      <3>1. x \in Rows /\ x \in Trip /\ trips'[x].into # None
        BY <2>1, <2>5 DEF Live, Rows
      <3>2. x # s /\ x # t
        BY <2>1, <2>3, <3>1 DEF Live
      <3>3. x \in Rows \ Live /\ trips'[x] = trips[x]
        BY <2>3, <3>1, <3>2 DEF Live
      <3> QED
        BY <2>2, <3>3 DEF MadeOK
    <2> QED
      BY <2>2, <2>3, <2>4, <2>5, MadeKept
  <1>10. ASSUME UNCHANGED <<rows, made>> PROVE MadeOK' /\ NoRivals'
    BY <1>10 DEF MadeOK, AsMade, NoRivals, Open, Live, Rows
  <1>11. (\E e \in Email : Parse(e)) => UNCHANGED <<rows, made>>
    BY DEF Parse
  <1>12. (\E i \in reading.left, s \in Seg, t \in Trip : FileWith(i, s, t))
           => UNCHANGED <<rows, made>>
    BY DEF FileWith
  <1>13. (\E s \in Seg : DeleteSegment(s)) => UNCHANGED <<rows, made>>
    BY DEF DeleteSegment
  <1>14. (\E t, u \in Trip : Dismiss(t, u)) => UNCHANGED <<rows, made>>
    BY DEF Dismiss
  <1>15. UNCHANGED vars => UNCHANGED <<rows, made>>
    BY DEF vars
  <1> QED
    BY <1>1, <1>2, <1>4, <1>5, <1>6, <1>7, <1>8, <1>9, <1>10, <1>11, <1>12, <1>13, <1>14, <1>15
    DEF Next, Pages

\* For all drafts, whatever the city tables say, the worker splits no stay
\* (NoRivals). The invariant is that a trip it made and nobody touched is as its
\* first draft made it and is open to be found: only then is a new draft's
\* empty list of candidates a fact about that trip.
THEOREM MatchingUnsplit == Spec => []NoRivals
  <1>1. Init => MadeOK /\ NoRivals
    BY DEF Init, MadeOK, NoRivals, Live, Rows
  <1>2. TypeOK /\ TypeOK' /\ MadeOK /\ NoRivals /\ [Next]_vars => (MadeOK /\ NoRivals)'
    BY RivalsStep
  <1> QED
    BY <1>1, <1>2, MatchingTypes, PTL DEF Spec

-----------------------------------------------------------------------------
(* Suggestions. *)

\* Only the deletion of one of its trips ends a dismissal.
LEMMA DismissedStep ==
    ASSUME [Next]_vars, NEW t \in Rows, NEW u \in Rows,
           {t, u} \in dismissed, {t, u} \subseteq Rows'
    PROVE  {t, u} \in dismissed'
  <1>1. ASSUME NEW x \in Trip, DropTrip(x) PROVE {t, u} \in dismissed'
    <2>1. x \notin Rows'
      BY <1>1 DEF DropTrip, Rows
    <2> QED
      BY <1>1, <2>1 DEF DropTrip, StillDismissed
  <1>2. (\E x \in Trip : DeleteTrip(x) \/ Purge(x)) => {t, u} \in dismissed'
    BY <1>1 DEF DeleteTrip, Purge
  <1>3. (\E x, y \in Trip : MergeInto(x, y) \/ Dismiss(x, y)) => {t, u} \in dismissed'
    BY DEF MergeInto, Dismiss
  <1>4. (\E x \in Trip : UndoMerge(x)) => {t, u} \in dismissed'
    BY DEF UndoMerge
  <1>5. (\E x \in Trip, f \in Form : CreateTrip(x, f) \/ UpdateTrip(x, f)) => {t, u} \in dismissed'
    BY DEF CreateTrip, UpdateTrip
  <1>6. (\E s \in Seg, d \in Draft, x \in Trip : CreateSegment(s, x, d)) => {t, u} \in dismissed'
    BY DEF CreateSegment
  <1>7. (\E s \in Seg, d \in Draft : UpdateSegment(s, d)) => {t, u} \in dismissed'
    BY DEF UpdateSegment
  <1>8. (\E s \in Seg : DeleteSegment(s)) => {t, u} \in dismissed'
    BY DEF DeleteSegment
  <1>9. (\E e \in Email : Parse(e)) => {t, u} \in dismissed'
    BY DEF Parse
  <1>10. (\E i \in reading.left, s \in Seg, x \in Trip : FileNew(i, s, x) \/ FileWith(i, s, x))
           => {t, u} \in dismissed'
    BY DEF FileNew, FileWith
  <1>11. UNCHANGED vars => {t, u} \in dismissed'
    BY DEF vars
  <1> QED
    BY <1>2, <1>3, <1>4, <1>5, <1>6, <1>7, <1>8, <1>9, <1>10, <1>11 DEF Next, Pages

\* Whatever is merged, undone or deleted besides, a dismissed pair is offered on
\* no page (DismissedStays).
THEOREM MatchingDismissed == Spec => DismissedStays
  <1>1. ASSUME [Next]_vars, NEW t \in Rows, NEW u \in Rows,
               {t, u} \in dismissed, {t, u} \subseteq Rows'
        PROVE  ~Offered(t, u)'
    <2>1. {t, u} \in dismissed'
      BY <1>1, DismissedStep
    <2> QED
      BY <2>1 DEF Offered, OnPage, OnInbox, Offers, DismissedWith, Live, Rows
  <1>2. [Next]_vars => [\A t, u \in Rows : {t, u} \in dismissed /\ {t, u} \subseteq Rows'
                                           => ~Offered(t, u)']_vars
    BY <1>1
  <1> QED
    BY <1>2, PTL DEF Spec, DismissedStays

\* The weight of a pair with a city at every end is some weight from the other
\* side as well: what anchors one at home is a city they share.
LEMMA WeightBothWays ==
    ASSUME NEW h, NEW a, NEW b, a.start \in City, a.end \in City, b.start \in City, b.end \in City,
           Weight(h, a, b) > 0
    PROVE  Weight(h, b, a) > 0
  <1>1. HomeAnchored(h, a, b) => Shared(b, a)
    BY DEF HomeAnchored, Shared
  <1>2. Shared(a, b) => Shared(b, a)
    BY DEF Shared
  <1>3. CloseBy(a, b) => CloseBy(b, a)
    <2>1. ASSUME NEW p, NEW q, <<p, q>> \in Near PROVE <<q, p>> \in Near
      BY <2>1, NearIsMutual
    <2> QED
      BY <2>1 DEF CloseBy
  <1> QED
    BY <1>1, <1>2, <1>3 DEF Weight

LEMMA BothSides == TypeOK => FoundFromBothSides
  <1>1. ASSUME TypeOK, NEW t \in Live, NEW u \in Live, Plain(t), Plain(u), u \in OnPage(t)
        PROVE  t \in OnPage(u)
    <2>1. Standing(t) = In(t) /\ Standing(u) = In(u)
      BY <1>1 DEF Standing, Plain
    <2>2. ASSUME NEW x \in {t, u}, NEW a \in Views(In(x)) PROVE a.start \in City /\ a.end \in City
      <3>1. PICK p \in Bounds(In(x)) : a = View(In(x), p)
        BY <1>1, <2>2 DEF Views, Plain
      <3>2. p[1] \in In(x) /\ p[2] \in In(x)
        BY <3>1 DEF Bounds
      <3>3. \A s \in In(x) : content[s].start.city \in City /\ content[s].end.city \in City
        <4> TAKE s \in In(x)
        <4>1. content[s] \in Draft
          BY <1>1 DEF TypeOK, In, Filed
        <4>2. content[s].start \in Place /\ content[s].end \in Place
          BY <4>1, DraftsAreRecords
        <4> QED
          BY <1>1, <4>2 DEF Plain, Place
      <3> QED
        BY <3>1, <3>2, <3>3 DEF View
    <2>3. PICK h \in City \cup {None}, a \in Views(In(t)), b \in Views(In(u)) :
              Home(h) /\ Weight(h, a, b) > 0
      BY <1>1, <2>1 DEF OnPage, Offers
    <2>4. Weight(h, b, a) > 0
      BY <2>2, <2>3, WeightBothWays
    <2>5. InWindow(u, t) /\ {u, t} \notin dismissed /\ t # u
      <3>1. InWindow(t, u) /\ {t, u} \notin dismissed /\ t # u
        BY <1>1 DEF OnPage, Offers, DismissedWith, Live, Rows
      <3>2. trips[t] \in TripRow /\ trips[u] \in TripRow
        BY <1>1 DEF TypeOK, Live, Rows
      <3>3. InWindow(u, t)
        BY <3>1, <3>2 DEF InWindow, TripRow, Day
      <3>4. {u, t} = {t, u}
        OBVIOUS
      <3> QED
        BY <3>1, <3>3, <3>4
    <2> QED
      BY <1>1, <2>1, <2>3, <2>4, <2>5 DEF OnPage, Offers, DismissedWith, Live, Rows
  <1> QED
    BY <1>1 DEF FoundFromBothSides

\* For any map of cities and airports, two trips with a city at every end find
\* each other or neither does (FoundFromBothSides).
THEOREM MatchingMutual == Spec => []FoundFromBothSides
  BY MatchingTypes, BothSides, PTL
=============================================================================
