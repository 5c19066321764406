-------------------------- MODULE SearchSyncProofs --------------------------
(* Theorems about SearchSync, for every set of rows and requests and every    *)
(* number of writes and faults.                                               *)
EXTENDS SearchSync, TLAPS

\* A merged trip has its row and no traveler: no document of it is found.
MergedHidden ==
    \A t \in Trip : mergedInto[t] # NoTrip => t \in trips \ travelled

\* A sync of e that will read what is in the row now, or the history says none
\* is due. A request that is about to delete e owes no such sync.
Due(h, e) == e \in owes[h] /\ (h \in Web => deleting[h] = NoRow)
Covered(e) ==
    \/ e \in missed \/ e \in queued
    \/ \E h \in Web \cup {Worker} : Due(h, e)

\* The rows a rebuild is yet to read.
Unread == IF batch = NoBatch THEN Unfilled[stage] ELSE Unfilled[Following[stage]]

\* All copies of the row that are in use, or will be written, are right. Where
\* a rebuild will read the row, the index only has to be right when the row
\* will not be found.
JobRight(e)   == job.of = e => Found(job.doc) = Found(Row(e))
BatchRight(e) == e \in DOMAIN batch => Found(batch[e]) = Found(Row(e))
IndexRight(e) ==
    job.of # e /\ e \notin DOMAIN batch /\ (e \in Unread => Found(Row(e)) = Missing)
        => Right(e)
CopiesRight ==
    \A e \in Entity : Covered(e) \/ (JobRight(e) /\ BatchRight(e) /\ IndexRight(e))

NoBatchWhenOff == stage = "off" => batch = NoBatch

\* A segment is in a trip as long as it exists.
NeverLoose == \A s \in Seg : place[s] # Loose

Inv == TypeOK /\ MergedHidden /\ NoBatchWhenOff /\ CopiesRight

Stage == {"off", "trips", "segments", "documents"}
\* What search should answer of a row.
Answer(e) == Found(Row(e))

LEMMA UnfilledFacts ==
  ASSUME stage \in Stage
  PROVE  /\ Unfilled \in [Stage -> SUBSET Entity]
         /\ Unfilled["off"] = {} /\ Unfilled["trips"] = Entity
         /\ Following[stage] \in Stage
         /\ Unfilled[Following[stage]] \subseteq Unfilled[stage]
  BY DEF Stage, Unfilled, Following, Entity, Part

LEMMA RowType ==
  ASSUME TypeOK
  PROVE  \A e \in Entity : Row(e) \in Document \cup {Missing}
  BY DEF TypeOK, Row, Document, Entity

LEMMA InvInit == Init => Inv
<1>. SUFFICES ASSUME Init  PROVE Inv
  OBVIOUS
<1>1. edition \in [Entity -> Edition] /\ place \in [Part -> trips \cup {Unborn, Gone, Loose}]
  BY DEF Init, Edition
<1>2. \A e \in Entity : Row(e) \in Document \cup {Missing}
  BY <1>1 DEF Init, Row, Document, Entity
<1>3. batch \in [DOMAIN batch -> Document \cup {Missing}] /\ DOMAIN batch = {}
  BY DEF Init, NoBatch
<1>4. TypeOK
  BY <1>1, <1>2, <1>3, BoundsAreNats DEF Init, TypeOK, Unfilled, NoJob
<1>5. \A e \in Entity : JobRight(e) /\ BatchRight(e) /\ IndexRight(e)
  BY <1>3, RowsAreApart DEF Init, JobRight, BatchRight, IndexRight, Right, NoJob
<1>. QED
  BY <1>4, <1>5 DEF Init, Inv, MergedHidden, NoBatchWhenOff, CopiesRight

-----------------------------------------------------------------------------
(* Writes.                                                                    *)

LEMMA EditType ==
  ASSUME NEW E \in SUBSET Entity, Edit(E), TypeOK
  PROVE  /\ edition' \in [Entity -> Edition]
         /\ \A e \in Entity \ E : edition'[e] = edition[e]
  BY DEF Edit, TypeOK

LEMMA MoveType ==
  ASSUME NEW P, NEW t \in Trip \cup {Unborn, Gone, Loose}, Move(P, t), TypeOK
  PROVE  /\ place' \in [Part -> Trip \cup {Unborn, Gone, Loose}]
         /\ \A p \in Part : p \in P => place'[p] = t
         /\ \A p \in Part : p \notin P => place'[p] = place[p]
  BY DEF Move, TypeOK

LEMMA DropType ==
  ASSUME NEW T \in SUBSET Trip, DropTrips(T), TypeOK, MergedHidden
  PROVE  /\ trips' \in SUBSET born' /\ travelled' \in SUBSET trips' /\ born' = born
         /\ mergedInto' \in [Trip -> Trip \cup {NoTrip}]
         /\ moved' = moved /\ gave' = gave
         /\ trips' = trips \ T /\ travelled' = travelled \ T
         /\ MergedHidden'
  BY DEF DropTrips, TypeOK, MergedHidden

\* The rows as a write leaves them.
RowsOK ==
    /\ born' \in SUBSET Trip /\ trips' \in SUBSET born' /\ travelled' \in SUBSET trips'
    /\ mergedInto' \in [Trip -> Trip \cup {NoTrip}]
    /\ moved' \in [Trip -> SUBSET Part] /\ gave' \in [Trip -> BOOLEAN]
    /\ place' \in [Part -> trips' \cup {Unborn, Gone, Loose}]
    /\ edition' \in [Entity -> Edition]
    /\ MergedHidden'

\* A write whose handler enqueues, or leaves to chance, every row whose answer
\* it changes preserves the invariant.
LEMMA CommitStep ==
  ASSUME Inv, RowsOK,
         NEW h \in Web \cup {Worker},
         NEW Q \in SUBSET Entity, NEW N \in SUBSET Entity, Commit(h, Q, N),
         \A e \in Entity : e \notin Q \cup N => Answer(e)' = Answer(e)
  PROVE  Inv'
<1>1. TypeOK'
  BY BoundsAreNats DEF Inv, TypeOK, RowsOK, Commit, search, rebuild
<1>2. \A e \in Entity : Covered(e) => Covered(e)'
  BY DEF Covered, Due, Commit, Idle, search, Inv, TypeOK
<1>3. \A e \in Q \cup N : Covered(e)'
  BY DEF Covered, Due, Commit, Idle, Inv, TypeOK
<1>4. ASSUME NEW e \in Entity, ~Covered(e)'
      PROVE  JobRight(e)' /\ BatchRight(e)' /\ IndexRight(e)'
  <2>1. ~Covered(e) /\ Answer(e)' = Answer(e)
    BY <1>2, <1>3, <1>4
  <2>2. JobRight(e) /\ BatchRight(e) /\ IndexRight(e)
    BY <2>1 DEF Inv, CopiesRight
  <2>3. UNCHANGED <<index, job, batch, stage>>
    BY DEF Commit, search, rebuild
  <2>. QED
    BY <2>1, <2>2, <2>3
    DEF JobRight, BatchRight, IndexRight, Right, Answer, Unread
<1>5. CopiesRight'
  BY <1>4 DEF CopiesRight
<1>6. NoBatchWhenOff'
  BY DEF Inv, NoBatchWhenOff, Commit, rebuild
<1>. QED
  BY <1>1, <1>5, <1>6 DEF Inv, RowsOK

LEMMA TripPageStep ==
  ASSUME Inv, NEW h \in Web, NEW t \in Trip,
         CreateTrip(h, t) \/ UpdateTrip(h, t) \/ DeleteTrip(h, t)
  PROVE  Inv'
<1>1. CASE CreateTrip(h, t)
  <2>1. RowsOK
    BY <1>1 DEF Inv, TypeOK, MergedHidden, CreateTrip, RowsOK
  <2>2. \A e \in Entity : e \notin {t} \cup {} => Answer(e)' = Answer(e)
    BY <1>1 DEF Inv, TypeOK, CreateTrip, Answer, Row, Found
  <2>. QED
    BY <1>1, <2>1, <2>2, CommitStep DEF CreateTrip, Entity
<1>2. CASE UpdateTrip(h, t)
  <2>1. /\ edition' \in [Entity -> Edition]
        /\ \A e \in Entity \ {t} : edition'[e] = edition[e]
    BY <1>2, EditType DEF UpdateTrip, Inv, Entity
  <2>2. RowsOK
    BY <1>2, <2>1 DEF Inv, TypeOK, MergedHidden, UpdateTrip, RowsOK
  <2>3. \A e \in Entity : e \notin {t} \cup {} => Answer(e)' = Answer(e)
    BY <1>2, <2>1 DEF UpdateTrip, Answer, Row, Found
  <2>. QED
    BY <1>2, <2>2, <2>3, CommitStep DEF UpdateTrip, Entity
<1>3. CASE DeleteTrip(h, t)
  <2>1. Under({t}) \subseteq Part
    BY DEF Under
  <2>2. place' \in [Part -> trips' \cup {Unborn, Gone, Loose}]
    BY <1>3, DropType, MoveType DEF Inv, TypeOK, DeleteTrip, Under
  <2>4. RowsOK
    BY <1>3, <2>2, DropType DEF Inv, TypeOK, DeleteTrip, RowsOK
  <2>3. \A e \in Entity : e \notin {t} \cup Under({t}) => Answer(e)' = Answer(e)
    BY <1>3, DropType, MoveType, RowsAreApart
    DEF Inv, TypeOK, DeleteTrip, Answer, Row, Found, Under, Entity, Part
  <2>. QED
    BY <1>3, <2>1, <2>4, <2>3, CommitStep DEF DeleteTrip, Entity
<1>. QED
  BY <1>1, <1>2, <1>3

LEMMA MergeStep ==
  ASSUME Inv, NEW h \in Web, NEW s \in Trip, NEW t \in Trip, MergeInto(h, s, t)
  PROVE  Inv'
<1>. DEFINE given == s \in travelled /\ t \notin travelled
            Q == {s, t}
            N == Under({s}) \cup (IF given THEN Under({t}) ELSE {})
<1>1. Q \in SUBSET Entity /\ N \in SUBSET Entity /\ Under({s}) \subseteq Part
  BY DEF Under, Entity
<1>2. /\ edition' \in [Entity -> Edition]
      /\ \A e \in Entity \ {t} : edition'[e] = edition[e]
  BY EditType DEF MergeInto, Inv, Entity
<1>3. /\ place' \in [Part -> trips \cup {Unborn, Gone, Loose}]
      /\ \A p \in Part : p \notin Under({s}) => place'[p] = place[p]
  BY MoveType DEF MergeInto, Inv, TypeOK, Live
<1>4. /\ travelled' = (travelled \ {s}) \cup (IF given THEN {t} ELSE {})
      /\ Commit(h, Q, N)
  BY DEF MergeInto
<1>5. RowsOK
  BY <1>1, <1>2, <1>3, <1>4
  DEF Inv, TypeOK, MergedHidden, MergeInto, RowsOK, Live
<1>6. \A e \in Entity : e \notin Q \cup N => Answer(e)' = Answer(e)
  BY <1>2, <1>3, <1>4, RowsAreApart
  DEF Inv, TypeOK, MergeInto, Answer, Row, Found, Under, Entity, Part, Live
<1>. HIDE DEF Q, N
<1>. QED
  BY <1>1, <1>4, <1>5, <1>6, CommitStep

LEMMA UndoStep ==
  ASSUME Inv, NEW h \in Web, NEW s \in Trip, NEW t \in Trip, UndoMerge(h, s, t)
  PROVE  Inv'
<1>. DEFINE back == moved[s] \cap Under({t})
            Q == {s, t}
            N == Under({s}) \cup back \cup (IF gave[s] THEN Under({t}) ELSE {})
<1>1. Q \in SUBSET Entity /\ N \in SUBSET Entity /\ back \subseteq Part
  BY DEF Under, Entity
<1>2. /\ edition' \in [Entity -> Edition]
      /\ \A e \in Entity \ {t} : edition'[e] = edition[e]
  BY EditType DEF UndoMerge, Inv, Entity
<1>3. Commit(h, Q, N) /\ Move(back, s)
  BY DEF UndoMerge
<1>4. /\ place' \in [Part -> trips \cup {Unborn, Gone, Loose}]
      /\ \A p \in Part : p \notin back => place'[p] = place[p]
  <2>. HIDE DEF back
  <2>. QED
    BY <1>3, MoveType DEF UndoMerge, Inv, TypeOK
<1>5. s # t /\ mergedInto[s] # NoTrip
  BY RowsAreApart DEF UndoMerge, Live
<1>6. RowsOK
  BY <1>2, <1>4, <1>5
  DEF Inv, TypeOK, MergedHidden, UndoMerge, RowsOK, Live
<1>7. \A e \in Entity : e \notin Q \cup N => Answer(e)' = Answer(e)
  BY <1>2, <1>4, <1>5, RowsAreApart
  DEF Inv, TypeOK, UndoMerge, Answer, Row, Found, Under, Entity, Part, Live
<1>. HIDE DEF Q, N
<1>. QED
  BY <1>1, <1>3, <1>6, <1>7, CommitStep

LEMMA SegmentStep ==
  ASSUME Inv, NEW h \in Web, NEW s \in Seg,
         UpdateSegment(h, s) \/ \E t \in Trip : CreateSegment(h, s, t)
  PROVE  Inv'
<1>1. CASE UpdateSegment(h, s)
  <2>1. place[s] \in Trip
    BY <1>1 DEF UpdateSegment, Open, Inv, TypeOK
  <2>2. /\ edition' \in [Entity -> Edition]
        /\ \A e \in Entity \ {s, place[s]} : edition'[e] = edition[e]
    BY <1>1, <2>1, EditType DEF UpdateSegment, Inv, Entity, Part
  <2>3. RowsOK
    BY <1>1, <2>2 DEF Inv, TypeOK, MergedHidden, UpdateSegment, RowsOK
  <2>4. \A e \in Entity : e \notin {s, place[s]} \cup {} => Answer(e)' = Answer(e)
    BY <1>1, <2>2 DEF UpdateSegment, Answer, Row, Found
  <2>. QED
    BY <1>1, <2>1, <2>3, <2>4, CommitStep DEF UpdateSegment, Entity, Part
<1>2. ASSUME NEW t \in Trip, CreateSegment(h, s, t)
      PROVE  Inv'
  <2>1. /\ edition' \in [Entity -> Edition]
        /\ \A e \in Entity \ {t} : edition'[e] = edition[e]
    BY <1>2, EditType DEF CreateSegment, Inv, Entity
  <2>2. /\ place' \in [Part -> Trip \cup {Unborn, Gone, Loose}]
        /\ \A p \in Part : p \in {s} => place'[p] = t
        /\ \A p \in Part : p \notin {s} => place'[p] = place[p]
    BY <1>2, MoveType DEF CreateSegment, Inv
  <2>3. RowsOK
    BY <1>2, <2>1, <2>2 DEF Inv, TypeOK, MergedHidden, CreateSegment, RowsOK, Open
  <2>4. \A e \in Entity : e \notin {t, s} \cup {} => Answer(e)' = Answer(e)
    BY <1>2, <2>1, <2>2, RowsAreApart
    DEF Inv, TypeOK, CreateSegment, Answer, Row, Found, Open, Entity, Part
  <2>. QED
    BY <1>2, <2>3, <2>4, CommitStep DEF CreateSegment, Entity, Part
<1>. QED
  BY <1>1, <1>2

LEMMA DropSegmentsStep ==
  ASSUME Inv, NEW h \in Web, NEW S \in SUBSET Seg, NEW linked \in SUBSET Stored,
         DeleteSegments(h, S, linked)
  PROVE  Inv'
<1>1. linked \in SUBSET Entity /\ S \in SUBSET Entity
  BY DEF Stored, Entity, Part
<1>2. /\ edition' \in [Entity -> Edition]
      /\ \A e \in Entity \ linked : edition'[e] = edition[e]
  BY <1>1, EditType DEF DeleteSegments, Inv
<1>3. /\ place' \in [Part -> trips \cup {Unborn, Gone, Loose}]
      /\ \A p \in Part : p \notin S => place'[p] = place[p]
  BY MoveType DEF DeleteSegments, Inv, TypeOK
<1>4. RowsOK
  BY <1>2, <1>3 DEF Inv, TypeOK, MergedHidden, DeleteSegments, RowsOK
<1>5. \A e \in Entity : e \notin S \cup linked => Answer(e)' = Answer(e)
  BY <1>2, <1>3 DEF DeleteSegments, Answer, Row, Found, Entity
<1>. QED
  BY <1>1, <1>4, <1>5, CommitStep DEF DeleteSegments

LEMMA RetargetStep ==
  ASSUME Inv, NEW h \in Web, NEW S \in SUBSET Seg, NEW t \in Trip, Retarget(h, S, t)
  PROVE  Inv'
<1>. DEFINE emptied == {u \in {place[s] : s \in S} \ {t} : Under({u}) \cap Seg \subseteq S}
            lost == Under(emptied) \ S
            Q == {t} \cup emptied
            N == S \cup lost
<1>1. emptied \in SUBSET Trip
  BY DEF Retarget, Filed
<1>2. Q \in SUBSET Entity /\ N \in SUBSET Entity
  BY <1>1 DEF Entity, Part, Under
<1>3. /\ edition' \in [Entity -> Edition]
      /\ \A e \in Entity \ {t} : edition'[e] = edition[e]
  BY EditType DEF Retarget, Inv, Entity
<1>4. /\ DropTrips(emptied) /\ Commit(h, Q, N)
      /\ place' = [p \in Part |-> IF p \in S THEN t ELSE IF p \in lost THEN Gone ELSE place[p]]
  BY DEF Retarget
<1>5. t \in trips \ emptied
  BY DEF Retarget, Live
<1>6. \A p \in Part : p \notin N => place[p] \notin emptied
  BY DEF Under
<1>. HIDE DEF emptied, lost
<1>7. /\ trips' \in SUBSET born' /\ travelled' \in SUBSET trips' /\ born' = born
      /\ mergedInto' \in [Trip -> Trip \cup {NoTrip}]
      /\ moved' = moved /\ gave' = gave
      /\ trips' = trips \ emptied /\ travelled' = travelled \ emptied
      /\ MergedHidden'
  BY <1>1, <1>4, DropType DEF Inv
<1>8. place' \in [Part -> trips' \cup {Unborn, Gone, Loose}]
  BY <1>4, <1>5, <1>6, <1>7 DEF Inv, TypeOK
<1>9. RowsOK
  BY <1>3, <1>7, <1>8 DEF Inv, TypeOK, RowsOK
<1>10. \A e \in Entity : e \notin Q \cup N => Answer(e)' = Answer(e)
  BY <1>3, <1>4, <1>6, <1>7, RowsAreApart
  DEF Inv, TypeOK, Answer, Row, Found, Entity, Part
<1>. HIDE DEF Q, N
<1>. QED
  BY <1>2, <1>4, <1>9, <1>10, CommitStep

LEMMA DocumentStep ==
  ASSUME Inv, NEW h \in Web \cup {Worker}, NEW d \in Doc,
         \/ h \in Web /\ \E t \in Trip : Upload(h, d, t)
         \/ Relink(h, d)
         \/ Extract(d)
  PROVE  Inv'
<1>1. ASSUME NEW t \in Trip, h \in Web, Upload(h, d, t)
      PROVE  Inv'
  <2>1. /\ place' \in [Part -> trips \cup {Unborn, Gone, Loose}]
        /\ \A p \in Part : p \notin {d} => place'[p] = place[p]
    BY <1>1, MoveType DEF Upload, Inv, TypeOK, Open
  <2>2. RowsOK
    BY <1>1, <2>1 DEF Inv, TypeOK, MergedHidden, Upload, RowsOK
  <2>3. \A e \in Entity : e \notin {} \cup {d} => Answer(e)' = Answer(e)
    BY <1>1, <2>1 DEF Upload, Answer, Row, Found, Entity
  <2>. QED
    BY <1>1, <2>2, <2>3, CommitStep DEF Upload, Entity, Part
<1>2. CASE Relink(h, d)
  <2>1. /\ edition' \in [Entity -> Edition]
        /\ \A e \in Entity \ {d} : edition'[e] = edition[e]
    BY <1>2, EditType DEF Relink, Inv, Entity, Part
  <2>2. /\ place' \in [Part -> trips \cup {Unborn, Gone, Loose}]
        /\ \A p \in Part : p \notin {d} => place'[p] = place[p]
    <3>1. ASSUME NEW s \in Filed, Move({d}, place[s])
          PROVE  <2>2
      BY <3>1, MoveType DEF Filed, Inv, TypeOK, Part
    <3>. QED
      BY <1>2, <3>1 DEF Relink, Inv, TypeOK
  <2>3. RowsOK
    BY <1>2, <2>1, <2>2 DEF Inv, TypeOK, MergedHidden, Relink, RowsOK
  <2>4. \A e \in Entity : e \notin {} \cup {d} => Answer(e)' = Answer(e)
    BY <1>2, <2>1, <2>2 DEF Relink, Answer, Row, Found, Entity
  <2>. QED
    BY <1>2, <2>3, <2>4, CommitStep DEF Relink, Entity, Part
<1>3. CASE Extract(d)
  <2>1. /\ edition' \in [Entity -> Edition]
        /\ \A e \in Entity \ {d} : edition'[e] = edition[e]
    BY <1>3, EditType DEF Extract, Inv, Entity, Part
  <2>2. RowsOK
    BY <1>3, <2>1 DEF Inv, TypeOK, MergedHidden, Extract, RowsOK
  <2>3. \A e \in Entity : e \notin {d} \cup {} => Answer(e)' = Answer(e)
    BY <1>3, <2>1 DEF Extract, Answer, Row, Found, Entity
  <2>. QED
    BY <1>3, <2>2, <2>3, CommitStep DEF Extract, Entity, Part
<1>. QED
  BY <1>1, <1>2, <1>3

LEMMA DeleteDocumentStep ==
  ASSUME Inv, NEW h \in Web, NEW d \in Doc, DeleteDocument(h, d)
  PROVE  Inv'
<1>1. TypeOK'
  BY BoundsAreNats DEF DeleteDocument, rows, search, rebuild, Inv, TypeOK, Entity, Part
<1>2. \A e \in Entity : Covered(e) => Covered(e)'
  BY DEF DeleteDocument, search, Covered, Due, Idle, Inv, TypeOK
<1>3. UNCHANGED <<rows, search, rebuild>>
  BY DEF DeleteDocument
<1>4. CopiesRight'
  BY <1>2, <1>3
  DEF Inv, CopiesRight, JobRight, BatchRight, IndexRight, Right, Unread, Row, rows, search, rebuild
<1>. QED
  BY <1>1, <1>3, <1>4 DEF Inv, MergedHidden, NoBatchWhenOff, rows, rebuild

LEMMA DocumentDeletedStep ==
  ASSUME Inv, NEW h \in Web, DocumentDeleted(h)
  PROVE  Inv'
<1>. DEFINE d == deleting[h]
<1>1. d \in Doc
  BY DEF DocumentDeleted, Inv, TypeOK
<1>2. /\ place' \in [Part -> trips \cup {Unborn, Gone, Loose}]
      /\ \A p \in Part : p \notin {d} => place'[p] = place[p]
  BY MoveType DEF DocumentDeleted, Inv, TypeOK
<1>3. TypeOK'
  BY <1>1, <1>2 DEF DocumentDeleted, search, rebuild, Inv, TypeOK, Entity, Part
<1>4. \A e \in Entity : Covered(e) \/ e = d => Covered(e)'
  BY <1>1 DEF DocumentDeleted, search, Covered, Due, Inv, TypeOK, Entity, Part
<1>5. \A e \in Entity : e # d => Row(e)' = Row(e)
  BY <1>2 DEF DocumentDeleted, Row, Entity
<1>6. CopiesRight'
  BY <1>4, <1>5
  DEF DocumentDeleted, search, rebuild, Inv, CopiesRight, JobRight, BatchRight,
      IndexRight, Right, Unread
<1>. QED
  BY <1>3, <1>6 DEF DocumentDeleted, Inv, MergedHidden, NoBatchWhenOff, rebuild

LEMMA ParseStep ==
  ASSUME Inv, NEW S \in SUBSET Seg, NEW t \in Trip, NEW D \in SUBSET Doc, Parse(S, t, D)
  PROVE  Inv'
<1>. DEFINE Q == S \cup ({t} \ born)
<1>1. Q \in SUBSET Entity /\ D \in SUBSET Entity
  BY DEF Entity, Part
<1>2. RowsOK
  BY DEF Parse, Inv, TypeOK, MergedHidden, RowsOK, Open
<1>3. \A e \in Entity : e \notin Q \cup D => Answer(e)' = Answer(e)
  BY RowsAreApart DEF Parse, Inv, TypeOK, Answer, Row, Found, Open, Entity, Part
<1>4. Commit(Worker, Q, D)
  BY DEF Parse
<1>. HIDE DEF Q
<1>. QED
  BY <1>1, <1>2, <1>3, <1>4, CommitStep

LEMMA PurgeStep ==
  ASSUME Inv, NEW T \in SUBSET Trip, Purge(T)
  PROVE  Inv'
<1>1. Under(T) \in SUBSET Entity
  BY DEF Under, Entity
<1>2. /\ trips' \in SUBSET born' /\ travelled' \in SUBSET trips' /\ born' = born
      /\ mergedInto' \in [Trip -> Trip \cup {NoTrip}]
      /\ moved' = moved /\ gave' = gave
      /\ trips' = trips \ T /\ travelled' = travelled \ T
      /\ MergedHidden'
  BY DropType DEF Inv, Purge
<1>3. /\ place' \in [Part -> Trip \cup {Unborn, Gone, Loose}]
      /\ \A p \in Part : p \in Under(T) => place'[p] = Gone
      /\ \A p \in Part : p \notin Under(T) => place'[p] = place[p]
  BY MoveType DEF Purge, Inv
<1>4. place' \in [Part -> trips' \cup {Unborn, Gone, Loose}]
  BY <1>2, <1>3 DEF Under, Inv, TypeOK
<1>5. RowsOK
  BY <1>2, <1>4 DEF Purge, Inv, TypeOK, RowsOK
<1>6. \A e \in Entity : e \notin {} \cup Under(T) => Answer(e)' = Answer(e)
  BY <1>2, <1>3, RowsAreApart
  DEF Purge, Inv, TypeOK, MergedHidden, Answer, Row, Found, Under, Entity, Part
<1>. QED
  BY <1>1, <1>5, <1>6, CommitStep DEF Purge

LEMMA WriteStep == Inv /\ Write => Inv'
<1>. SUFFICES ASSUME Inv, Write PROVE Inv'
  OBVIOUS
<1>1. ASSUME NEW h \in Web, NEW s \in Seg, DeleteSegment(h, s)
      PROVE  Inv'
  BY <1>1, DropSegmentsStep DEF DeleteSegment
<1>2. ASSUME NEW h \in Web, NEW S \in SUBSET Seg, Discard(h, S)
      PROVE  Inv'
  BY <1>2, DropSegmentsStep DEF Discard
<1>. QED
  BY <1>1, <1>2, TripPageStep, MergeStep, UndoStep, SegmentStep, RetargetStep,
     DocumentStep, DeleteDocumentStep, ParseStep, PurgeStep
  DEF Write

-----------------------------------------------------------------------------
(* Jobs and rebuilds.                                                         *)

LEMMA EnqueueStep ==
  ASSUME Inv, NEW h \in Web \cup {Worker}, NEW e \in Entity,
         Enqueue(h, e) \/ Abandon(h)
  PROVE  Inv'
<1>1. UNCHANGED <<rows, index, job, rebuild>>
  BY DEF Enqueue, Abandon, search
<1>2. TypeOK'
  BY <1>1, BoundsAreNats DEF Enqueue, Abandon, Fault, rows, search, rebuild, Inv, TypeOK
<1>3. \A x \in Entity : Covered(x) => Covered(x)'
  <2>1. CASE Enqueue(h, e)
    BY <2>1 DEF Enqueue, Covered, Due, Inv, TypeOK
  <2>2. CASE Abandon(h)
    BY <2>2, RowsAreApart DEF Abandon, search, Covered, Due, Inv, TypeOK
  <2>. QED
    BY <2>1, <2>2
<1>4. CopiesRight'
  BY <1>1, <1>3
  DEF Inv, CopiesRight, JobRight, BatchRight, IndexRight, Right, Unread, Row, rows, rebuild
<1>. QED
  BY <1>1, <1>2, <1>4 DEF Inv, MergedHidden, NoBatchWhenOff, rows, rebuild

LEMMA TakeStep ==
  ASSUME Inv, NEW e \in Entity, Take(e)
  PROVE  Inv'
<1>1. TypeOK'
  BY RowType DEF Take, rows, rebuild, requests, Inv, TypeOK
<1>2. job = NoJob /\ e # NoRow
  BY RowsAreApart DEF Take, Free
<1>3. ASSUME NEW x \in Entity, x # e
      PROVE  Covered(x)' \/ (JobRight(x) /\ BatchRight(x) /\ IndexRight(x))'
  <2>1. Covered(x) => Covered(x)'
    BY <1>3 DEF Take, Covered, Due, requests
  <2>. QED
    BY <1>2, <1>3, <2>1, RowsAreApart
    DEF Take, Inv, CopiesRight, JobRight, BatchRight, IndexRight, Right, Unread, Row,
        rows, rebuild, NoJob
<1>4. Covered(e)' \/ (JobRight(e) /\ BatchRight(e) /\ IndexRight(e))'
  <2>1. CASE e \in DOMAIN batch
    BY <2>1 DEF Take, Covered
  <2>2. CASE e \notin DOMAIN batch
    BY <2>2 DEF Take, JobRight, BatchRight, IndexRight, rebuild, rows, Row
  <2>. QED
    BY <2>1, <2>2
<1>5. CopiesRight'
  BY <1>3, <1>4 DEF CopiesRight
<1>. QED
  BY <1>1, <1>5 DEF Take, Inv, MergedHidden, NoBatchWhenOff, rows, rebuild

LEMMA JobStep ==
  ASSUME Inv, Finish \/ Fail
  PROVE  Inv'
<1>1. job \in [of : Entity, doc : Document \cup {Missing}] /\ job' = NoJob
      /\ NoJob.of = NoRow
  BY DEF Finish, Fail, Inv, TypeOK, NoJob
<1>2. TypeOK'
  BY <1>1, BoundsAreNats
  DEF Finish, Fail, Fault, rows, rebuild, requests, Inv, TypeOK
<1>3. ASSUME NEW e \in Entity
      PROVE  Covered(e)' \/ (JobRight(e) /\ BatchRight(e) /\ IndexRight(e))'
  <2>1. CASE Finish
    <3>1. Covered(e) => Covered(e)'
      BY <2>1 DEF Finish, Covered, Due, requests
    <3>2. CASE e = job.of
      BY <1>1, <2>1, <3>1, <3>2, RowsAreApart
      DEF Finish, Inv, TypeOK, CopiesRight, JobRight, BatchRight, IndexRight, Right,
          Row, rows, rebuild
    <3>3. CASE e # job.of
      BY <1>1, <2>1, <3>1, <3>3, RowsAreApart
      DEF Finish, Inv, TypeOK, CopiesRight, JobRight, BatchRight, IndexRight, Right,
          Unread, Row, rows, rebuild
    <3>. QED
      BY <3>2, <3>3
  <2>2. CASE Fail
    <3>1. Covered(e) \/ e = job.of => Covered(e)'
      BY <2>2 DEF Fail, Covered, Due, requests
    <3>. QED
      BY <1>1, <2>2, <3>1, RowsAreApart
      DEF Fail, Inv, CopiesRight, JobRight, BatchRight, IndexRight, Right, Unread,
          Row, rows, rebuild
  <2>. QED
    BY <2>1, <2>2
<1>4. CopiesRight'
  BY <1>3 DEF CopiesRight
<1>. QED
  BY <1>2, <1>4 DEF Finish, Fail, Inv, MergedHidden, NoBatchWhenOff, rows, rebuild

LEMMA WipeStep == Inv /\ Wipe => Inv'
<1>. SUFFICES ASSUME Inv, Wipe PROVE Inv'
  OBVIOUS
<1>1. batch = NoBatch /\ DOMAIN batch = {} /\ stage \in Stage /\ stage' = "trips"
  BY DEF Wipe, Inv, NoBatchWhenOff, NoBatch, TypeOK, Stage
<1>2. Unfilled["trips"] = Entity
  BY <1>1, UnfilledFacts
<1>3. TypeOK'
  BY <1>1, <1>2, BoundsAreNats DEF Wipe, rows, requests, Inv, TypeOK
<1>4. ASSUME NEW e \in Entity, ~Covered(e)'
      PROVE  JobRight(e)' /\ BatchRight(e)' /\ IndexRight(e)'
  <2>1. JobRight(e)'
    BY <1>4 DEF Wipe, Covered, Due, Inv, CopiesRight, JobRight, requests, rows, Row
  <2>2. BatchRight(e)'
    BY <1>1 DEF Wipe, BatchRight
  <2>3. IndexRight(e)'
    BY <1>1, <1>2 DEF Wipe, IndexRight, Unread, Right, Found, Unfilled
  <2>. QED
    BY <2>1, <2>2, <2>3
<1>5. CopiesRight'
  BY <1>4 DEF CopiesRight
<1>. QED
  BY <1>1, <1>3, <1>5 DEF Wipe, Inv, MergedHidden, NoBatchWhenOff, rows

\* A row that its kind's selection leaves out is one search must not answer with.
LEMMA LeftOut ==
  ASSUME Inv, NeverLoose
  PROVE  /\ Selected[stage] \subseteq Unfilled[stage]
         /\ \A e \in Unfilled[stage] \ Unfilled[Following[stage]] :
               e \in Selected[stage] \/ Answer(e) = Missing
  <1>1. stage \in Stage
    BY DEF Inv, TypeOK, Stage
  <1>2. \A e \in Entity \ Part : e \in Live \/ Answer(e) = Missing
    BY DEF Inv, TypeOK, MergedHidden, Live, Answer, Row, Found, Entity
  <1>3. \A e \in Part \ Doc : e \in Filed \/ Answer(e) = Missing
    BY RowsAreApart DEF Inv, TypeOK, NeverLoose, Filed, Answer, Row, Found, Part
  <1>4. \A e \in Doc : e \in Stored \/ Answer(e) = Missing
    BY RowsAreApart DEF Stored, Answer, Row, Found
  <1>5. Live \subseteq Entity /\ Filed \subseteq Part /\ Stored \subseteq Doc
    BY DEF Inv, TypeOK, Live, Filed, Stored, Entity, Part
  <1>. QED
    BY <1>1, <1>2, <1>3, <1>4, <1>5 DEF Stage, Selected, Unfilled, Following

LEMMA ReadRowsStep == Inv /\ NeverLoose /\ ReadRows => Inv'
<1>. SUFFICES ASSUME Inv, NeverLoose, ReadRows PROVE Inv'
  OBVIOUS
<1>1. /\ DOMAIN batch' = Selected[stage] /\ batch' # NoBatch
      /\ \A e \in Selected[stage] : batch'[e] = Row(e)
  BY DEF ReadRows, NoBatch
<1>2. Selected[stage] \subseteq Unfilled[stage] /\ Unfilled[stage] \subseteq Entity
  BY LeftOut, UnfilledFacts DEF Inv, TypeOK, Stage
<1>3. TypeOK'
  <2>1. batch' \in [DOMAIN batch' -> Document \cup {Missing}]
    BY <1>2, RowType DEF ReadRows, Inv
  <2>2. DOMAIN batch' \in SUBSET Unfilled[stage]
    BY <1>1, <1>2
  <2>. QED
    BY <2>1, <2>2 DEF ReadRows, rows, search, requests, Inv, TypeOK, Unfilled
<1>4. ASSUME NEW e \in Entity, ~Covered(e)'
      PROVE  JobRight(e)' /\ BatchRight(e)' /\ IndexRight(e)'
  <2>1. CASE e \in Selected[stage] /\ job.of # e
    BY <1>1, <2>1 DEF ReadRows, search, rows, JobRight, BatchRight, IndexRight, Row
  <2>2. CASE e \in Selected[stage] /\ job.of = e
    <3>1. ~Covered(e)
      BY <1>4, <2>2 DEF ReadRows, Covered, Due, search, requests
    <3>. QED
      BY <1>1, <2>2, <3>1
      DEF ReadRows, search, rows, Inv, CopiesRight, JobRight, BatchRight, IndexRight, Row
  <2>3. CASE e \notin Selected[stage]
    <3>1. ~Covered(e)
      BY <1>4, <2>3 DEF ReadRows, Covered, Due, search, requests
    <3>2. JobRight(e) /\ IndexRight(e)
      BY <3>1 DEF Inv, CopiesRight
    <3>3. /\ Unread = Unfilled[stage] /\ Unread' = Unfilled[Following[stage]]
          /\ e \notin DOMAIN batch /\ e \notin DOMAIN batch'
      <4>1. batch = NoBatch /\ batch' # NoBatch /\ stage' = stage
        BY <1>1 DEF ReadRows, Reading
      <4>2. UNCHANGED <<Unfilled, Following>>
        BY DEF Unfilled, Following
      <4>3. e \notin DOMAIN batch
        BY <4>1 DEF NoBatch
      <4>. QED
        BY <1>1, <2>3, <4>1, <4>2, <4>3 DEF Unread
    <3>4. e \in Unread => e \in Unread' \/ Answer(e) = Missing
      BY <2>3, <3>3, LeftOut
    <3>. QED
      BY <3>2, <3>3, <3>4
      DEF ReadRows, search, rows, JobRight, BatchRight, IndexRight, Right, Row, Answer
  <2>. QED
    BY <2>1, <2>2, <2>3
<1>5. CopiesRight'
  BY <1>4 DEF CopiesRight
<1>. QED
  BY <1>3, <1>5 DEF ReadRows, Reading, Inv, MergedHidden, NoBatchWhenOff, rows

LEMMA WriteIndexStep == Inv /\ NeverLoose /\ WriteIndex => Inv'
<1>. SUFFICES ASSUME Inv, NeverLoose, WriteIndex PROVE Inv'
  OBVIOUS
<1>1. /\ stage \in Stage /\ stage' = Following[stage] /\ batch' = NoBatch
      /\ DOMAIN batch' = {}
      /\ index' = [e \in Entity |-> IF e \in DOMAIN batch THEN batch[e] ELSE index[e]]
  BY DEF WriteIndex, Inv, TypeOK, Stage, NoBatch
<1>2. UNCHANGED <<Unfilled, Following>>
  BY DEF Unfilled, Following
<1>3. TypeOK'
  BY <1>1, <1>2, UnfilledFacts
  DEF WriteIndex, rows, requests, Inv, TypeOK, Stage
<1>4. ASSUME NEW e \in Entity
      PROVE  Covered(e)' \/ (JobRight(e) /\ BatchRight(e) /\ IndexRight(e))'
  <2>1. Covered(e) => Covered(e)'
    BY DEF WriteIndex, Covered, Due, requests
  <2>2. Unread' = Unfilled[Following[stage]]
    BY <1>1, <1>2 DEF Unread
  <2>3. e \notin DOMAIN batch /\ e \in Unread => e \in Unread' \/ Answer(e) = Missing
    BY <2>2, LeftOut DEF WriteIndex, Reading, Unread
  <2>4. CASE e \in DOMAIN batch
    BY <1>1, <2>1, <2>4
    DEF WriteIndex, rows, Inv, CopiesRight, JobRight, BatchRight, IndexRight, Right, Row
  <2>5. CASE e \notin DOMAIN batch
    BY <1>1, <2>1, <2>3, <2>5
    DEF WriteIndex, rows, Inv, CopiesRight, JobRight, BatchRight, IndexRight, Right, Row,
        Answer
  <2>. QED
    BY <2>4, <2>5
<1>5. CopiesRight'
  BY <1>4 DEF CopiesRight
<1>. QED
  BY <1>1, <1>3, <1>5 DEF WriteIndex, Inv, MergedHidden, NoBatchWhenOff, rows

LEMMA RebuildFailsStep == Inv /\ RebuildFails => Inv'
<1>. SUFFICES ASSUME Inv, RebuildFails PROVE Inv'
  OBVIOUS
<1>1. /\ stage \in Stage /\ stage' = "off" /\ batch' = NoBatch /\ DOMAIN batch' = {}
      /\ Unfilled[stage] \subseteq Entity /\ Unfilled["off"] = {}
  BY UnfilledFacts DEF RebuildFails, Inv, TypeOK, Stage, NoBatch
<1>2. UNCHANGED Unfilled
  BY DEF Unfilled
<1>3. TypeOK'
  BY <1>1, <1>2, BoundsAreNats
  DEF RebuildFails, Fault, rows, search, requests, Inv, TypeOK
<1>4. ASSUME NEW e \in Entity
      PROVE  Covered(e)' \/ (JobRight(e) /\ BatchRight(e) /\ IndexRight(e))'
  <2>1. Covered(e) \/ e \in Unfilled[stage] => Covered(e)'
    BY DEF RebuildFails, Covered, Due, search, requests
  <2>2. Unread \subseteq Unfilled[stage] /\ DOMAIN batch \subseteq Unfilled[stage]
    BY <1>1, UnfilledFacts DEF Unread, Inv, TypeOK
  <2>3. BatchRight(e)'
    BY <1>1 DEF BatchRight
  <2>. QED
    BY <1>1, <2>1, <2>2, <2>3
    DEF RebuildFails, rows, search, Inv, CopiesRight, JobRight, IndexRight, Right, Row
<1>5. CopiesRight'
  BY <1>4 DEF CopiesRight
<1>. QED
  BY <1>1, <1>3, <1>5 DEF RebuildFails, Inv, MergedHidden, NoBatchWhenOff, rows

-----------------------------------------------------------------------------
(* The theorems.                                                              *)

LEMMA NextInv == Inv /\ NeverLoose /\ [Next]_vars => Inv'
<1>. SUFFICES ASSUME Inv, NeverLoose, [Next]_vars PROVE Inv'
  OBVIOUS
<1>1. CASE Write
  BY <1>1, WriteStep
<1>2. CASE Sync
  <2>1. ASSUME NEW h \in Web \cup {Worker}, NEW e \in Entity, Enqueue(h, e)
        PROVE  Inv'
    BY <2>1, EnqueueStep
  <2>2. ASSUME NEW h \in Web \cup {Worker}, Abandon(h)
        PROVE  Inv'
    <3>1. PICK e \in Entity : e \in owes[h]
      BY <2>2 DEF Abandon, Inv, TypeOK
    <3>. QED
      BY <2>2, <3>1, EnqueueStep
  <2>. QED
    BY <1>2, <2>1, <2>2, DocumentDeletedStep, TakeStep, JobStep, WipeStep,
       ReadRowsStep, WriteIndexStep, RebuildFailsStep DEF Sync
<1>3. CASE UNCHANGED vars
  <2>1. UNCHANGED <<born, trips, travelled, mergedInto, moved, gave, place, edition,
                    index, queued, job, owes, deleting, stage, batch, missed,
                    writes, faults>>
    BY <1>3 DEF vars, rows, search, requests, rebuild
  <2>. QED
    BY <2>1 DEF Inv, TypeOK, MergedHidden, NoBatchWhenOff, CopiesRight, JobRight,
                BatchRight, IndexRight, Right, Unread, Covered, Due, Row, Unfilled, Following
<1>. QED
  BY <1>1, <1>2, <1>3 DEF Next

LEMMA SegmentsHoused == Inv /\ NeverLoose /\ [Next]_vars => NeverLoose'
<1>. SUFFICES ASSUME Inv, NeverLoose, [Next]_vars, NEW s \in Seg
              PROVE  place'[s] # Loose
  BY DEF NeverLoose
<1>1. /\ place \in [Part -> Trip \cup {Unborn, Gone, Loose}] /\ place[s] # Loose
      /\ s \in Part /\ s \notin Doc
  BY RowsAreApart DEF Inv, TypeOK, NeverLoose, Part
<1>2. \A P : \A t \in Trip \cup {Gone} : Move(P, t) => place'[s] # Loose
  BY <1>1, RowsAreApart DEF Move
<1>3. \A d \in Doc : \A t : Move({d}, t) => place'[s] = place[s]
  BY <1>1 DEF Move
<1>4. CASE Write
  <2>1. ASSUME NEW h \in Web, NEW t \in Trip,
               CreateTrip(h, t) \/ UpdateTrip(h, t) \/ DeleteTrip(h, t)
        PROVE  place'[s] # Loose
    BY <1>1, <1>2, <2>1 DEF CreateTrip, UpdateTrip, DeleteTrip
  <2>2. ASSUME NEW h \in Web, NEW r \in Trip, NEW t \in Trip,
               MergeInto(h, r, t) \/ UndoMerge(h, r, t)
        PROVE  place'[s] # Loose
    BY <1>2, <2>2 DEF MergeInto, UndoMerge
  <2>3. ASSUME NEW h \in Web, NEW r \in Seg,
               \/ \E t \in Trip : CreateSegment(h, r, t)
               \/ UpdateSegment(h, r) \/ DeleteSegment(h, r)
        PROVE  place'[s] # Loose
    BY <1>1, <1>2, <2>3 DEF CreateSegment, UpdateSegment, DeleteSegment, DeleteSegments
  <2>4. ASSUME NEW h \in Web, NEW S \in SUBSET Seg,
               Discard(h, S) \/ \E t \in Trip : Retarget(h, S, t)
        PROVE  place'[s] # Loose
    BY <1>1, <1>2, <2>4, RowsAreApart DEF Discard, DeleteSegments, Retarget
  <2>5. ASSUME NEW h \in Web \cup {Worker}, NEW d \in Doc,
               \/ \E t \in Trip : Upload(h, d, t)
               \/ Relink(h, d) \/ DeleteDocument(h, d) \/ Extract(d)
        PROVE  place'[s] # Loose
    BY <1>1, <1>3, <2>5 DEF Upload, Relink, DeleteDocument, Extract, rows
  <2>6. ASSUME NEW S \in SUBSET Seg, NEW t \in Trip, NEW D \in SUBSET Doc, Parse(S, t, D)
        PROVE  place'[s] # Loose
    BY <1>1, <2>6, RowsAreApart DEF Parse
  <2>7. ASSUME NEW T \in SUBSET Trip, Purge(T)
        PROVE  place'[s] # Loose
    BY <1>2, <2>7 DEF Purge
  <2>. QED
    BY <1>4, <2>1, <2>2, <2>3, <2>4, <2>5, <2>6, <2>7 DEF Write
<1>5. CASE Sync
  <2>1. CASE \E h \in Web : DocumentDeleted(h)
    BY <1>1, <1>3, <2>1 DEF DocumentDeleted, Inv, TypeOK
  <2>. QED
    BY <1>1, <1>5, <2>1
    DEF Sync, Enqueue, Abandon, Take, Finish, Fail, Wipe, ReadRows, WriteIndex,
        RebuildFails, rows
<1>. QED
  BY <1>1, <1>4, <1>5 DEF Next, vars, rows

LEMMA AlwaysInv == Spec => [](Inv /\ NeverLoose)
<1>1. Init => NeverLoose
  BY RowsAreApart DEF Init, NeverLoose, Part
<1>. QED
  BY <1>1, InvInit, NextInv, SegmentsHoused, PTL DEF Spec

\* The state keeps its type, and no part is filed under a trip that is gone.
THEOREM SearchTypes == Spec => []TypeOK
<1>1. Inv => TypeOK
  BY DEF Inv
<1>. QED
  BY AlwaysInv, <1>1, PTL

\* A row that no job, request or rebuild is on its way to is found as it is, or
\* it is one of the rows known to be missed.
THEOREM SearchFollows == Spec => []RightUnlessMissed
<1>1. Inv => RightUnlessMissed
  <2>. SUFFICES ASSUME Inv, NEW e \in Entity, ~InFlight(e), e \notin missed
                PROVE  Right(e)
    BY DEF RightUnlessMissed
  <2>1. ~Covered(e) /\ job.of # e
    BY DEF Covered, Due, InFlight
  <2>2. e \notin Unread /\ e \notin DOMAIN batch
    BY UnfilledFacts DEF InFlight, Unread, Inv, TypeOK, Stage
  <2>. QED
    BY <2>1, <2>2 DEF Inv, CopiesRight, IndexRight
<1>. QED
  BY AlwaysInv, <1>1, PTL

\* Every handler enqueues its trips: one is missed only after a fault, behind a
\* job that had read too early, or beside a rebuild.
THEOREM TripsAreSynced == Spec => TripsMissedByAccident
<1>1. Inv /\ [Next]_vars =>
        [\A t \in Trip : t \in missed' \ missed =>
            faults' # faults \/ job.of = t \/ stage # "off"]_vars
  <2>. SUFFICES ASSUME Inv, Next, NEW t \in Trip, t \in missed' \ missed, faults' = faults
                PROVE  job.of = t \/ stage # "off"
    OBVIOUS
  <2>1. t \notin Part /\ t \in Entity /\ \A T \in SUBSET Trip : t \notin Under(T)
    BY RowsAreApart DEF Part, Entity, Under
  <2>2. ~Write
    <3>1. \A h, Q, N : Commit(h, Q, N) /\ N \subseteq Part => FALSE
      BY <2>1 DEF Commit
    <3>2. \A T : Under(T) \subseteq Part
      BY DEF Under
    <3>3. \A h, s, u : MergeInto(h, s, u) \/ UndoMerge(h, s, u) => FALSE
      BY <3>1, <3>2 DEF MergeInto, UndoMerge
    <3>4. \A h : \A S \in SUBSET Seg : \A u : Retarget(h, S, u) => FALSE
      BY <3>1, <3>2 DEF Retarget, Part
    <3>5. \A h, S, linked : DeleteSegments(h, S, linked) /\ linked \subseteq Stored => FALSE
      BY <3>1 DEF DeleteSegments, Stored, Part
    <3>6. \A h, d : DeleteDocument(h, d) => FALSE
      BY DEF DeleteDocument
    <3>7. \A h, u : CreateTrip(h, u) \/ UpdateTrip(h, u) \/ DeleteTrip(h, u) => FALSE
      BY <3>1, <3>2 DEF CreateTrip, UpdateTrip, DeleteTrip
    <3>8. \A h, s, u : CreateSegment(h, s, u) \/ UpdateSegment(h, s) => FALSE
      BY <3>1 DEF CreateSegment, UpdateSegment
    <3>9. \A h, S : DeleteSegment(h, S) \/ Discard(h, S) => FALSE
      BY <3>5 DEF DeleteSegment, Discard
    <3>10. \A h, u : \A d \in Doc : Upload(h, d, u) \/ Relink(h, d) \/ Extract(d) => FALSE
      BY <3>1 DEF Upload, Relink, Extract, Part
    <3>11. \A S, u : \A D \in SUBSET Doc : Parse(S, u, D) => FALSE
      BY <3>1 DEF Parse, Part
    <3>12. \A T : Purge(T) => FALSE
      BY <3>1, <3>2 DEF Purge
    <3>. QED
      BY <3>3, <3>4, <3>6, <3>7, <3>8, <3>9, <3>10, <3>11, <3>12 DEF Write
  <2>3. Sync
    BY <2>2 DEF Next
  <2>4. \A n \in Nat : n + 1 # n
    OBVIOUS
  <2>5. ~ (Fail \/ RebuildFails \/ \E h \in Web \cup {Worker} : Abandon(h))
    BY <2>4 DEF Fail, RebuildFails, Abandon, Fault, Inv, TypeOK
  <2>6. ASSUME NEW h \in Web, DocumentDeleted(h)  PROVE FALSE
    BY <2>1, <2>6 DEF DocumentDeleted, Inv, TypeOK, Part
  <2>7. ASSUME NEW e \in Entity, Take(e)  PROVE stage # "off"
    BY <2>7 DEF Take, Inv, NoBatchWhenOff, NoBatch
  <2>. QED
    BY <2>3, <2>5, <2>6, <2>7 DEF Sync, Enqueue, Finish, Wipe, ReadRows, WriteIndex
<1>. QED
  BY <1>1, AlwaysInv, PTL DEF Spec, TripsMissedByAccident

=============================================================================
